--------------------------- MODULE TaskState ---------------------------
(***************************************************************************)
(* The state of one task run (TaskEngine::run_task_internal in engine.rs): *)
(* what the engine knows, what the Docker daemon holds, and the signals    *)
(* recorded so far.  The run's parts are modelled on top of it: Daemon     *)
(* (external), Startup, TaskContainer and Cleanup; TaskRun puts them       *)
(* together.                                                               *)
(***************************************************************************)
EXTENDS Naturals, FiniteSets

CONSTANTS
    Containers,         \* the containers of the run's dependency graph
    Root,               \* the task's own container
    Deps,               \* build_dependency_graph's result: direct dependencies
    NetTarget,          \* network_mode: container:<target>, or None
    Images,             \* the image references and builds containers use
    ImageOf,            \* each container's image
    Built,              \* the images built from a build_directory
    Tagged,             \* the built ones --tag-image names
    IfNotPresent,       \* the pulled ones a local copy is enough for
    Completes,          \* the run_to_completion dependencies
    ExternallyChecked,  \* the ones with an external_health_check
    SetupCommands,      \* how many setup_commands each container has
    MaxParallelism,     \* permits of the max_parallelism semaphore
    Settings,           \* the engine settings a run may have
    MayFail,            \* the daemon operations that may fail
    MaxSignals,         \* bound on the signals of one run
    None

\* a set of containers that holds the dependencies of each of its members
Closed(S) == \A e \in S : Deps[e] \subseteq S

\* dependencies at any depth, as `reach` collects them: what is in every closed
\* set that holds the direct ones
Reach ==
    [c \in Containers |->
        {d \in Containers : \A S \in SUBSET Containers :
            Deps[c] \subseteq S /\ Closed(S) => d \in S}]

EngineSettings ==
    [gate : BOOLEAN,            \* task_container_readiness_gate
     own_network : BOOLEAN,     \* existing_network is None
     after_success : BOOLEAN,   \* cleanup_after_success
     after_failure : BOOLEAN,   \* cleanup_after_failure
     top_level : BOOLEAN]       \* not a prerequisite

ASSUME TaskAssumption ==
    /\ Root \in Containers
    /\ None \notin Containers
    /\ Deps \in [Containers -> SUBSET Containers]
    /\ NetTarget \in [Containers -> Containers \cup {None}]
    /\ \A c \in Containers : NetTarget[c] # None => NetTarget[c] \in Deps[c]
    /\ ImageOf \in [Containers -> Images]
    /\ Tagged \subseteq Built /\ Built \subseteq Images
    /\ IfNotPresent \subseteq Images \ Built
    /\ Completes \subseteq Containers \ {Root}
    /\ SetupCommands \in [Containers -> Nat]
    /\ MaxParallelism \in Nat \ {0}
    /\ Settings \subseteq EngineSettings
    /\ MaxSignals \in Nat

\* The loader's graph is acyclic and holds what the root reaches, no more.
ASSUME GraphAssumption ==
    /\ \A c \in Containers : c \notin Reach[c]
    /\ \A c \in Containers \ {Root} : c \in Reach[Root]

VARIABLES
    phase,          \* where run_task_internal stands
    settings,       \* this run's settings
    count,          \* termination signals recorded
    sigints,        \* the SIGINTs among them
    image,          \* the image memo: state of each pull or build
    stage,          \* how far each container's startup has got
    setups,         \* setup commands each container has still to run
    free,           \* permits left in the semaphore
    created,        \* the registry of created containers cleanup works from
    watch,          \* the dependency-exit watchers
    gate,           \* the task container's readiness gate
    exitedFirst,    \* history: the main command had exited when the gate failed
    result,         \* how the run ended
    base,           \* interrupts_before_cleanup
    rungAt,         \* interrupts_at_escalation, or the abandon rung's own read
    rem,            \* the removal of each created container
    netRem,         \* the removal of the network
    abandoned,      \* cleanup was abandoned
    cleanupFailed,  \* cleanup_failed
    cancel,         \* the cancel of each abandoned build
    told,           \* what the final report names as left behind
    warned,         \* creates reported as unanswered
    box,            \* daemon: each container
    net,            \* daemon: the run's network
    netKnown        \* the network is recorded in network_name_cell

signalVars == <<count, sigints>>
daemonVars == <<box, net>>
startupVars == <<image, stage, setups, free, created, netKnown>>
gateVars == <<gate, exitedFirst>>
endVars == <<result, base, watch>>
cleanupVars == <<rungAt, rem, netRem, abandoned, cleanupFailed, told, warned>>
vars == <<phase, settings, signalVars, daemonVars, startupVars, gateVars,
          endVars, cleanupVars, cancel>>

----------------------------------------------------------------------------

LivePhases == {"network", "startup", "running"}
CleanupPhases == {"pending", "graceful", "forced", "network_removal",
                  "cancels", "kept", "done"}
Stages == {"image", "creating", "preparing", "created", "starting", "waiting",
           "setup", "exec", "ready", "running", "failed"}
Existing == {"created", "running", "exited0", "exited1", "stopped"}
Exited == {"exited0", "exited1"}
Removals == {"none", "queued", "stopping", "removing", "ok", "err", "forcing",
             "removed", "refused"}
Results == {"none", "ok", "nonzero", "failed", "gate", "stdout", "signal"}

TypeOK ==
    /\ phase \in LivePhases \cup CleanupPhases
    /\ settings \in Settings
    /\ count \in Nat
    /\ sigints \in Nat
    /\ image \in [Images -> {"checking", "queued", "working", "tagging",
                             "ready", "failed"}]
    /\ stage \in [Containers -> Stages]
    /\ setups \in [Containers -> Nat]
    /\ free \in Nat
    /\ created \subseteq Containers
    /\ watch \in [Containers -> {"none", "watching", "posted", "aborted"}]
    /\ gate \in {"off", "idle", "health", "setup", "exec", "passed", "asking",
                 "exited", "grace", "unknown"}
    /\ exitedFirst \in BOOLEAN
    /\ result \in Results
    /\ base \in Nat
    /\ rungAt \in Nat \cup {None}
    /\ rem \in [Containers -> Removals]
    /\ netRem \in {"none", "asked", "removed", "refused"}
    /\ abandoned \in BOOLEAN
    /\ cleanupFailed \in BOOLEAN
    /\ cancel \in [Images -> {"none", "asked", "answered", "failed", "warned"}]
    /\ told \in [containers : SUBSET Containers, network : BOOLEAN]
    /\ warned \subseteq Containers
    /\ box \in [Containers -> Existing \cup {"none", "removing", "gone"}]
    /\ net \in {"none", "asked", "present", "gone"}
    /\ netKnown \in BOOLEAN

\* The run starts with its network requested, or the named one looked up.
Init ==
    /\ phase = "network"
    /\ settings \in Settings
    /\ count = 0
    /\ sigints = 0
    /\ image = [i \in Images |->
                   IF i \in IfNotPresent THEN "checking" ELSE "queued"]
    /\ stage = [c \in Containers |-> "image"]
    /\ setups = SetupCommands
    /\ free = MaxParallelism
    /\ created = {}
    /\ watch = [c \in Containers |-> "none"]
    /\ gate = "off"
    /\ exitedFirst = FALSE
    /\ result = "none"
    /\ base = 0
    /\ rungAt = None
    /\ rem = [c \in Containers |-> "none"]
    /\ netRem = "none"
    /\ abandoned = FALSE
    /\ cleanupFailed = FALSE
    /\ cancel = [i \in Images |-> "none"]
    /\ told = [containers |-> {}, network |-> FALSE]
    /\ warned = {}
    /\ box = [c \in Containers |-> "none"]
    /\ net = IF settings.own_network THEN "asked" ELSE "none"
    /\ netKnown = FALSE

----------------------------------------------------------------------------
(* The end of the run, whatever ended it.                                  *)

\* Mutant: the watchers are left running when the run ends.
EndRun_KeepsWatchers(outcome, images) ==
    /\ phase' = "pending"
    /\ result' = outcome
    /\ base' = count
    /\ image' = images
    /\ free' = MaxParallelism
    /\ watch' = watch
    /\ cancel' = [i \in Images |->
                     IF i \in Built /\ images[i] = "working" THEN "asked"
                                                             ELSE "none"]

\* The execution future is dropped with every call it had in flight, and its
\* permits with it.  The signal baseline is read in the same expression, the
\* dependency-exit watchers are aborted, and the cancel of every build still
\* in in_flight_builds is sent.
EndRun(outcome, images) ==
    /\ phase' = "pending"
    /\ result' = outcome
    /\ base' = count
    /\ image' = images
    /\ free' = MaxParallelism
    /\ watch' = [c \in Containers |->
                    IF watch[c] = "watching" THEN "aborted" ELSE watch[c]]
    /\ cancel' = [i \in Images |->
                     IF i \in Built /\ images[i] = "working" THEN "asked"
                                                             ELSE "none"]

\* The step `operation` on container c may fail: the daemon refuses it, or the
\* container it needs has exited.
CanFail(operation, c) == operation \in MayFail \/ box[c] \in Exited
==========================================================================
