----------------------------- MODULE Project -----------------------------
(***************************************************************************)
(* What becomes of the containers and tasks a load has read: config.rs's   *)
(* load_project_impl, and the evaluation of one task's containers.  A      *)
(* container is a function on the fields it sets, so that what a field is  *)
(* missing from, and what extends gives it, are seen as they are.  A host  *)
(* path remembers, beside how it is written, the container that wrote it.  *)
(***************************************************************************)
EXTENDS ConfigLoad

CONSTANT Companion  \* external_health_check_container_name, as a function

\* A companion's name tells whose it is; a host path is written by the container
\* it stands in; and a task has the fields its checks read.
ProjectOK(l) ==
    /\ DOMAIN l.containers \subseteq (DOMAIN Companion) \ {None}
    /\ \A c \in DOMAIN l.containers :
          LET fields == l.containers[c].fields
          IN "volume" \in DOMAIN fields => fields["volume"].by = c
    /\ \A t \in DOMAIN l.jobs :
          {"run", "dependencies", "customise", "ports"} \subseteq DOMAIN l.jobs[t]

ASSUME ProjectsAssumption ==
    /\ \A c, d \in DOMAIN Companion : Companion[c] = Companion[d] => c = d
    /\ \A i \in DOMAIN Layouts : \A l \in Layouts[i] : ProjectOK(l)

VARIABLES
    stage,      \* how far load_project_impl has got
    containers, \* the configuration's containers
    resolved,   \* the containers whose extends has been resolved
    tasks,      \* its tasks
    suppliers,  \* Suppliers: whose host path each container has
    mounted     \* the host paths of the task evaluated: container to place

projectVars == <<stage, containers, resolved, tasks, suppliers, mounted>>

Names == DOMAIN containers
Has(c, field) == field \in DOMAIN containers[c]
Get(c, field, default) == IF Has(c, field) THEN containers[c][field] ELSE default

ProjectInit ==
    /\ Init
    /\ stage = "wait"
    /\ containers = [c \in DOMAIN layout.containers |-> layout.containers[c].fields]
    /\ resolved = {}
    /\ tasks = layout.jobs
    /\ suppliers = [c \in DOMAIN layout.containers |-> c]
    /\ mounted = None

Origin(c) == layout.containers[c].file

BoundaryIn(places, f) ==
    places[CHOOSE i \in DOMAIN places : places[i].file = f].boundary
BoundaryOf(c) == BoundaryIn(loaded, Origin(c))

\* What a function from names to sets of names leads to from some of them: the
\* names in every set that holds those and, with a name, where it leads.
Closure(next, from) ==
    LET all == from \cup UNION {next[x] : x \in DOMAIN next}
        closed == {S \in SUBSET all :
                      from \subseteq S /\ \A x \in S \cap DOMAIN next : next[x] \subseteq S}
    IN {x \in all : \A S \in closed : x \in S}

----------------------------------------------------------------------------
(* Before extends: what a container's own file may say.                    *)

NativeFields ==
    {"extends", "external_health_check", "stop_signal", "stop_grace_period",
     "ulimits", "dns", "network_mode", "user", "group", "groups", "identity"}

\* validate_image_sources_in_compat and reject_image_expressions_in_compat.
ImageSourceAllowed(c) ==
    /\ Has(c, "image") # Has(c, "build_directory")
    /\ Has(c, "image") => ~Has(c, "build_only") /\ containers[c].image = "fixed"

\* reject_incompatible_fields: a container of a Batect-format file follows
\* Batect's rules, and one of a TOML file has no run_as_current_user.
FieldsAllowed(c) ==
    IF ReadsAsBatect(Origin(c))
      THEN /\ DOMAIN containers[c] \cap NativeFields = {}
           /\ ~Get(c, "run_to_completion", FALSE)
           /\ Get(c, "setup_commands", {}) \subseteq {c}
           /\ ~Get(c, "cache", [shared |-> FALSE, absolute |-> TRUE]).shared
           /\ ImageSourceAllowed(c)
      ELSE ~Has(c, "run_as_current_user")

\* Boundary::check_path_allowed for a path anchored where its supplier stands.
PathAllowed(path, boundary) ==
    path.kind = "relative" \/ boundary = None \/ boundary.host

\* check_values: a literal path in a bundle, and a task's own shape.
VolumesAllowed ==
    \A c \in Names :
        Has(c, "volume") /\ ~containers[c].volume.expression =>
            PathAllowed(containers[c].volume, BoundaryOf(c))

TasksAllowed ==
    \A t \in DOMAIN tasks :
        LET run == tasks[t].run
        IN IF run = None
             THEN tasks[t].prerequisites /\ tasks[t].dependencies = {}
             ELSE run \notin tasks[t].dependencies \cup tasks[t].customise

CheckOwnFiles ==
    /\ phase = "read" /\ layout.then = "run" /\ stage = "wait"
    /\ stage' = IF (\A c \in Names : FieldsAllowed(c)) /\ VolumesAllowed /\ TasksAllowed
                  THEN "extends" ELSE "refused"
    /\ UNCHANGED <<containers, resolved, tasks, suppliers, mounted>>

----------------------------------------------------------------------------
(* extends.                                                                *)

Parent(c) == Get(c, "extends", None)

\* inherit_container_fields: a field the child sets wins over its parent's.
Merged(c) ==
    LET up == IF Parent(c) = None THEN << >> ELSE containers[Parent(c)]
    IN [f \in (DOMAIN containers[c] \cup DOMAIN up) \ {"extends"} |->
           IF Has(c, f) THEN containers[c][f] ELSE up[f]]

\* Mutant: a path belongs to the container it ends up on.
SuppliedBy_Own(c) == c

\* Whose volumes a container has: its own, or its parent's supplier's.
SuppliedBy(c) ==
    IF Has(c, "volume") \/ Parent(c) = None THEN c ELSE suppliers[Parent(c)]

\* The containers whose parent, if any, has been resolved before them.
Resolvable == {c \in Names \ resolved : Parent(c) \in resolved \cup {None}}

\* resolve_extends, a generation at a time: what is left with an unresolved
\* parent when no container can be resolved is a cycle.
ResolveExtends ==
    /\ stage = "extends"
    /\ IF /\ \A c \in Names : Parent(c) \in Names \cup {None}
          /\ Resolvable # {} \/ resolved = Names
         THEN /\ containers' = [c \in Names |->
                    IF c \in Resolvable THEN Merged(c) ELSE containers[c]]
              /\ suppliers' = [c \in Names |->
                    IF c \in Resolvable THEN SuppliedBy(c) ELSE suppliers[c]]
              /\ resolved' = resolved \cup Resolvable
              /\ stage' = IF resolved' = Names THEN "validate" ELSE stage
         ELSE stage' = "refused" /\ UNCHANGED <<containers, resolved, suppliers>>
    /\ UNCHANGED <<tasks, mounted>>

----------------------------------------------------------------------------
(* After extends: what the whole configuration must satisfy.               *)

Deps(c) == Get(c, "dependencies", {})
Completes(c) == Get(c, "run_to_completion", FALSE)
Checked(c) == Has(c, "external_health_check")
MapsUser(c) == Get(c, "run_as_current_user", "off") = "enabled"

\* reject_references_to_undeclared_containers.
ReferencesDeclared ==
    LET known == Names \cup {Companion[c] : c \in {c \in Names : Checked(c)}}
    IN /\ \A c \in Names : Deps(c) \subseteq known
       /\ \A t \in DOMAIN tasks :
             ({tasks[t].run} \ {None}) \cup tasks[t].dependencies \subseteq known

\* reject_conflicting_cache_scopes: one cache here, so one scope.
CacheScopesAgree ==
    \A c, d \in {c \in Names : Has(c, "cache")} :
        containers[c].cache.shared = containers[d].cache.shared

\* reject_relative_cache_mounts_under_user_mapping.
CachesAbsolute ==
    \A c \in Names :
        MapsUser(c) \/ Has(c, "identity") =>
            Get(c, "cache", [absolute |-> TRUE]).absolute

\* reject_run_to_completion_conflicts.
CompletesAlone ==
    \A c \in Names : Completes(c) =>
        ~Has(c, "health_check") /\ Get(c, "setup_commands", {}) = {}

\* container_names_in_task.
NamesInTask(t) ==
    Closure([c \in Names |-> Deps(c)], ({tasks[t].run} \ {None}) \cup tasks[t].dependencies)

\* reject_customisations_outside_the_task_graph.
CustomisesOwn ==
    \A t \in DOMAIN tasks :
        tasks[t].run # None => tasks[t].customise \subseteq NamesInTask(t)

\* validate_setup_command_targets.
SetupTargetsReady ==
    \A c \in Names : \A d \in Get(c, "setup_commands", {}) \ {c} :
        d \in Deps(c) /\ (d \in Names => ~Completes(d))

SharesNetwork(c) == Get(c, "network_mode", "host") \notin {"host", "none"}

\* network_namespace_owner: the container whose network it is in the end.
HasNetworkOwner(c) ==
    LET hop == [d \in {d \in Names : SharesNetwork(d)} |-> {containers[d].network_mode}]
    IN \E d \in Closure(hop, {c}) : d \in Names /\ ~SharesNetwork(d)

\* Mutant: a target's own target is not looked at.
NetworksShareable_OneHop ==
    \A c \in Names : Has(c, "network_mode") =>
        /\ ~Checked(c) /\ ~Has(c, "ports")
        /\ SharesNetwork(c) => containers[c].network_mode \in Names /\ ~Has(c, "dns")

\* validate_network_modes.
NetworksShareable ==
    /\ \A c \in Names : Has(c, "network_mode") =>
          /\ ~Checked(c) /\ ~Has(c, "ports")
          /\ SharesNetwork(c) =>
                /\ HasNetworkOwner(c)
                /\ containers[c].network_mode \in Deps(c)
                /\ ~Completes(containers[c].network_mode)
                /\ ~Has(c, "dns")
    /\ \A t \in DOMAIN tasks : tasks[t].ports =>
          \A c \in (({tasks[t].run} \ {None}) \cup tasks[t].customise) \cap Names :
              ~Has(c, "network_mode")

\* validate_identity, validate_passthrough_identity and
\* reject_inherited_run_as_current_user.
IdentitiesAllowed ==
    \A c \in Names :
        /\ Has(c, "identity") => ~Has(c, "user") /\ ~Has(c, "group") /\ ~MapsUser(c)
        /\ Has(c, "group") => Has(c, "user")
        /\ Has(c, "user") => ~MapsUser(c)
        /\ MapsUser(c) => "run_as_current_user" \in DOMAIN layout.containers[c].fields

Valid ==
    /\ ReferencesDeclared /\ CacheScopesAgree /\ CompletesAlone
    /\ CachesAbsolute /\ CustomisesOwn /\ SetupTargetsReady
    /\ NetworksShareable /\ IdentitiesAllowed

ValidateProject ==
    /\ stage = "validate"
    /\ stage' = IF Valid THEN "expand" ELSE "refused"
    /\ UNCHANGED <<containers, resolved, tasks, suppliers, mounted>>

----------------------------------------------------------------------------
(* External health checks.                                                 *)

Checks == {c \in Names : Checked(c)}

\* The first half of expand_external_health_checks.
CheckAllowed(c) ==
    /\ ~Has(c, "health_check") /\ ~Completes(c)
    /\ Get(c, "setup_commands", {}) = {}
    /\ containers[c].external_health_check = "valid"

CompanionUnused(c) ==
    /\ Companion[c] \notin Names
    /\ \A d \in Names : Companion[c] \notin Deps(d)
    /\ \A t \in DOMAIN tasks :
          Companion[c] \notin {tasks[t].run} \cup tasks[t].dependencies

\* add_dependency_after: who waits for a checked container waits for its check.
WithCompanions(own, deps) ==
    deps \cup {Companion[c] : c \in (deps \cap Checks) \ {own}}
TaskWaits(deps) == WithCompanions(None, deps)

TheCompanion(c) ==
    [image |-> "fixed", dependencies |-> {c}, run_to_completion |-> TRUE,
     reports_readiness_for |-> c]

Expanded ==
    [c \in Names \cup {Companion[d] : d \in Checks} |->
        IF c \notin Names
          THEN TheCompanion(CHOOSE d \in Checks : Companion[d] = c)
          ELSE IF Has(c, "dependencies")
                 THEN [containers[c] EXCEPT !.dependencies = WithCompanions(c, @)]
                 ELSE containers[c]]

ExpandExternalHealthChecks ==
    /\ stage = "expand"
    /\ IF Native /\ ~\A c \in Checks : CheckAllowed(c) /\ CompanionUnused(c)
         THEN stage' = "refused" /\ UNCHANGED <<containers, tasks>>
         ELSE /\ stage' = "accepted"
              /\ containers' = IF Native THEN Expanded ELSE containers
              /\ tasks' = [t \in DOMAIN tasks |->
                    [tasks[t] EXCEPT !.dependencies = TaskWaits(@)]]
    /\ UNCHANGED <<resolved, suppliers, mounted>>

----------------------------------------------------------------------------
(* Evaluating the containers of one task.                                  *)

SupplierOf(c) == IF c \in DOMAIN suppliers THEN suppliers[c] ELSE c

\* evaluate_container's volumes: where the path ends up, or nowhere.
Mount(c) ==
    LET path == containers[c].volume
        s == SupplierOf(c)
    IN IF (path.expression /\ layout.unset) \/ ~PathAllowed(path, BoundaryOf(s))
         THEN None
         ELSE IF path.kind = "relative" THEN File(Origin(s)).at ELSE "host"

Evaluate(t) ==
    /\ stage = "accepted" /\ mounted = None
    /\ LET mounting == {c \in NamesInTask(t) : Has(c, "volume")}
       IN IF \A c \in mounting : Mount(c) # None
            THEN mounted' = [c \in mounting |-> Mount(c)] /\ stage' = "evaluated"
            ELSE mounted' = mounted /\ stage' = "failed"
    /\ UNCHANGED <<containers, resolved, tasks, suppliers>>

ProjectStep ==
    \/ CheckOwnFiles \/ ResolveExtends \/ ValidateProject
    \/ ExpandExternalHealthChecks \/ \E t \in DOMAIN tasks : Evaluate(t)

vars == <<configLoadVars, projectVars>>

Next ==
    \/ LoadStep /\ UNCHANGED projectVars
    \/ WalkStep /\ UNCHANGED projectVars
    \/ ProjectStep /\ UNCHANGED configLoadVars

Spec == ProjectInit /\ [][Next]_vars /\ WF_vars(Next)

----------------------------------------------------------------------------
(* Properties.                                                             *)

Edges(t) ==
    [c \in Names |-> Deps(c) \cup (IF c = tasks[t].run THEN tasks[t].dependencies ELSE {})]

Acyclic(edges) == \A c \in DOMAIN edges : c \notin Closure(edges, edges[c])

\* Who a container is told to run as.
RunAs(c) == {f \in {"user", "identity"} : Has(c, f)} \cup {f \in {"mapped"} : MapsUser(c)}

\* What a task run relies on of a container of its task.
RunnableIn(t, c) ==
    LET edges == Edges(t)
    IN /\ c \in Names
       /\ edges[c] \subseteq Names
       /\ SharesNetwork(c) => \E owner \in edges[c] :
             owner = containers[c].network_mode /\ ~Completes(owner)
       /\ \A d \in Get(c, "setup_commands", {}) \ {c} :
             d \in edges[c] /\ ~Completes(d)
       /\ \A d \in (edges[c] \cap Checks) \ {c} :
             c = Companion[d] \/ Companion[d] \in edges[c]
       /\ Completes(c) => Get(c, "setup_commands", {}) = {} /\ ~Checked(c)
       /\ Cardinality(RunAs(c)) <= 1

\* The external checks add no cycle to a task's graph as it was written.
ChecksAddNoCycle(t) ==
    LET edges == Edges(t)
        companions == {Companion[d] : d \in Checks}
    IN Acyclic([c \in Names \ companions |-> edges[c] \ companions]) => Acyclic(edges)

\* Every task of an accepted configuration is one the task run can be given:
\* whatever it reaches is declared; who shares another's network, or runs a
\* setup command in another, depends on it, and what it depends on for that has
\* not exited; whoever waits for a container waits for that container's external
\* check too, whether it wrote the dependency or inherited it; and what it is
\* run as is said once (load_project_impl, against build_dependency_graph and
\* what ensure_container_ready relies on).
AcceptedIsRunnable ==
    stage = "accepted" => \A t \in DOMAIN tasks :
        /\ \A c \in NamesInTask(t) : RunnableIn(t, c)
        /\ ChecksAddNoCycle(t)

\* A host path is resolved where the container that wrote it stands, and out of a
\* bundle's reach only with the permission that bundle was read under, however
\* many containers pass it on by extends (check_values, evaluate_container,
\* Provenance::suppliers_of).
PathsStayWithTheirWriter ==
    stage = "evaluated" => \A c \in DOMAIN mounted :
        LET by == containers[c].volume.by
        IN \/ mounted[c] = File(Origin(by)).at
           \/ mounted[c] = "host" /\ (BoundaryOf(by) = None \/ BoundaryOf(by).host)

\* Every load comes to an end, whatever the files include of each other; so does
\* the walk completion makes of them, and a configuration that has been read is
\* refused or has its task evaluated (the worklist of load_from_file_impl and
\* collect_completion_task_names over circular includes, resolve_extends over
\* circular parents).
LoadEnds ==
    /\ <>(phase \in {"read", "refused"})
    /\ (layout.then = "complete" /\ Native) ~> (walk = <<>>)
    /\ (layout.then = "run" /\ phase = "read") ~>
          (stage \in {"refused", "failed", "evaluated"})
==========================================================================
