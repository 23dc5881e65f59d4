------------------------------ MODULE Upkeep ------------------------------
(***************************************************************************)
(* What is kept between runs and how it is cleaned up: the caches of a     *)
(* project and those of the machine (cache.rs), and the containers and     *)
(* networks runs have left behind (resources.rs), as the runs, "caches"    *)
(* and "resources" verbs of several processes in one project meet them.    *)
(* A cache is [store, owner, name]: its owner is "shared", the key of a    *)
(* project's volumes, or "here" for this project's directories.            *)
(***************************************************************************)
EXTENDS Absent, Naturals

CONSTANTS
    Procs,
    Situations,     \* what is there, and what each process is asked to do
    Leftover(_),    \* of a container or network: network, the networks a
                    \* container is on, project label or None, age
    KeyOf(_)        \* the key a process would generate

\* No key is the word for a shared cache, what a run creates is new, and what is
\* on a network is a container.
SituationOK(s) ==
    /\ s.keyFile # "shared"
    /\ \A p \in Procs :
          /\ s.asks[p].verb \in {"run", "caches", "resources"}
          /\ s.asks[p].creates \cap s.resources = {}
    /\ \A p, q \in Procs : p # q => s.asks[p].creates \cap s.asks[q].creates = {}
    /\ \A c \in s.resources \cup UNION {s.asks[p].creates : p \in Procs} :
          \A r \in Leftover(c).on : ~Leftover(c).network /\ Leftover(r).network

ASSUME UpkeepAssumption ==
    /\ None \notin {"shared", "ok", "failed"} /\ \A p \in Procs : KeyOf(p) # "shared"
    /\ \A s \in Situations : SituationOK(s)

VARIABLES
    keyFile,    \* .batect/caches/key: "missing", "link" to nothing, "empty" of
                \* key lines, "many" of them, or a key
    stored,     \* caches there are
    inUse,      \* volumes, and the run that has them mounted
    resources,  \* containers and networks there are
    stuck,      \* resources the daemon will not remove, and caches that are links
    proc        \* what each process was asked, where it is, and what it did

upkeepVars == <<keyFile, stored, inUse, resources, stuck, proc>>

At(p, place) == proc[p].at = place
Ask(p) == proc[p].ask
Goes(p, place) == proc' = [proc EXCEPT ![p].at = place]
Ends(p, how) == proc' = [proc EXCEPT ![p].at = "over", ![p].how = how]

UpkeepInit ==
    \E s \in Situations :
        /\ keyFile = s.keyFile /\ stored = s.stored /\ inUse = {}
        /\ resources = s.resources /\ stuck = s.stuck
        /\ proc = [p \in Procs |->
              [ask |-> s.asks[p], at |-> "begin", key |-> None, found |-> {}, todo |-> {},
               chosen |-> {}, done |-> {}, failed |-> {}, how |-> None]]

----------------------------------------------------------------------------
(* The project's key.                                                      *)

\* Only the volumes of the project are named after it.
NeedsKey(ask) ==
    /\ ask.verb \in {"run", "caches"}
    /\ ask.store = "volume" /\ ask.scope # "shared"

Begin(p) ==
    /\ At(p, "begin")
    /\ Goes(p, IF NeedsKey(Ask(p)) THEN "key" ELSE Ask(p).verb)
    /\ UNCHANGED <<keyFile, stored, inUse, resources, stuck>>

\* project_cache_key, read_project_cache_key: a file that is there holds one key,
\* if it can be read.
ReadKey(p) ==
    /\ At(p, "key")
    /\ \/ keyFile \in {"missing", "link"} /\ Goes(p, "no key")
       \/ Ends(p, "failed")
       \/ /\ keyFile \notin {"missing", "link", "empty", "many"}
          /\ proc' = [proc EXCEPT ![p].key = keyFile, ![p].at = Ask(p).verb]
    /\ UNCHANGED <<keyFile, stored, inUse, resources, stuck>>

\* A link to nothing is refused; else fs::write opens the file, and empties it.
OpenKey(p) ==
    /\ At(p, "no key")
    /\ IF keyFile = "link"
         THEN Ends(p, "failed") /\ keyFile' = keyFile
         ELSE Goes(p, "writing") /\ keyFile' = "empty"
    /\ UNCHANGED <<stored, inUse, resources, stuck>>

WriteKey(p) ==
    /\ At(p, "writing")
    /\ keyFile' = KeyOf(p)
    /\ proc' = [proc EXCEPT ![p].key = KeyOf(p), ![p].at = Ask(p).verb]
    /\ UNCHANGED <<stored, inUse, resources, stuck>>

----------------------------------------------------------------------------
(* A run that mounts a cache.                                              *)

\* cache_volume_name, shared_cache_volume_name, shared_cache_directory.
Owner(p) ==
    IF Ask(p).scope = "shared" THEN "shared"
    ELSE IF Ask(p).store = "volume" THEN proc[p].key ELSE "here"

\* resolve_cache_mount: a directory is made here, a volume as it is mounted.
Mount(p) ==
    /\ At(p, "run")
    /\ LET cache == [store |-> Ask(p).store, owner |-> Owner(p), name |-> Ask(p).name]
       IN /\ stored' = stored \cup {cache}
          /\ inUse' = IF cache.store = "volume" THEN inUse \cup {<<cache, p>>} ELSE inUse
    /\ resources' = resources \cup Ask(p).creates
    /\ Goes(p, "running")
    /\ UNCHANGED <<keyFile, stuck>>

\* It cleans up after itself, or leaves what it had behind.
RunOver(p) ==
    /\ At(p, "running")
    /\ inUse' = {u \in inUse : u[2] # p}
    /\ resources' \in {resources, resources \ Ask(p).creates}
    /\ Ends(p, "ok")
    /\ UNCHANGED <<keyFile, stored, stuck>>

----------------------------------------------------------------------------
(* The "caches" verbs.                                                     *)

InStore(p, owner) ==
    {c \in stored : c.store = Ask(p).store /\ c.owner = owner
                    /\ (c.store = "directory" => c \notin stuck.caches)}

Projects(p) == InStore(p, IF Ask(p).store = "volume" THEN proc[p].key ELSE "here")
Shared(p) == InStore(p, "shared")

\* CacheStore::list, narrowed by the scope.
ListCaches(p) ==
    /\ At(p, "caches")
    /\ LET found == (IF Ask(p).scope = "shared" THEN {} ELSE Projects(p))
                    \cup (IF Ask(p).scope = "project" THEN {} ELSE Shared(p))
       IN proc' = [proc EXCEPT ![p].found = found,
                               ![p].at = IF Ask(p).clean THEN "decide" ELSE "over",
                               ![p].how = IF Ask(p).clean THEN None ELSE "ok"]
    /\ UNCHANGED <<keyFile, stored, inUse, resources, stuck>>

\* CacheRefusal: the names that a clean without --scope shared may not have, and
\* a sweep of what is shared.
Refused(p) ==
    LET names == Ask(p).names
    IN IF Ask(p).scope = "shared" THEN names = {}
       ELSE \E c \in proc[p].found : c.owner = "shared" /\ c.name \in names

\* matching_cache_volumes, scan_cache_directories.
Matching(caches, names) == {c \in caches : names = {} \/ c.name \in names}

\* Mutant: a name that was not refused is looked for among the shared ones too.
Select_Both(p) ==
    Matching(Projects(p), Ask(p).names)
    \cup {c \in Shared(p) : c.name \in Ask(p).names}

\* Storage is read again, and only that of the scope asked for.
Select(p) ==
    IF Ask(p).scope = "shared" THEN Matching(Shared(p), Ask(p).names)
    ELSE Matching(Projects(p), Ask(p).names)

DecideCaches(p) ==
    /\ At(p, "decide")
    /\ IF Refused(p) THEN Ends(p, "refused")
       ELSE proc' = [proc EXCEPT ![p].todo = Select(p), ![p].chosen = Select(p),
                                 ![p].at = "remove caches"]
    /\ UNCHANGED <<keyFile, stored, inUse, resources, stuck>>

\* One at a time, in the order storage happened to list them; the first that
\* cannot be removed ends the clean, as one that is in use or that somebody else
\* has removed cannot, and any other may not.
RemoveCache(p) ==
    /\ At(p, "remove caches")
    /\ \/ proc[p].todo = {} /\ Ends(p, "ok") /\ stored' = stored
       \/ \E c \in proc[p].todo :
             \/ /\ proc' = [proc EXCEPT ![p].failed = {c}, ![p].at = "over",
                                          ![p].how = "failed"]
                /\ stored' = stored
             \/ /\ c \in stored /\ \A u \in inUse : u[1] # c
                /\ proc' = [proc EXCEPT ![p].done = @ \cup {c}, ![p].todo = @ \ {c}]
                /\ stored' = stored \ {c}
    /\ UNCHANGED <<keyFile, inUse, resources, stuck>>

----------------------------------------------------------------------------
(* The "resources" verbs.                                                  *)

\* find: what has the project's label, or any project's, and is old enough.
IsLeftover(p, r) ==
    /\ Leftover(r).project # None
    /\ Ask(p).project # None => Leftover(r).project = Ask(p).project
    /\ Leftover(r).age >= Ask(p).older

\* Containers are listed, then networks.
FindContainers(p) ==
    /\ At(p, "resources")
    /\ proc' = [proc EXCEPT ![p].at = "networks",
          ![p].found = {r \in resources : IsLeftover(p, r) /\ ~Leftover(r).network}]
    /\ UNCHANGED <<keyFile, stored, inUse, resources, stuck>>

\* remove: a network that has a container on it cannot go, so containers go first.
RemovedNext(left) ==
    LET containers == {r \in left : ~Leftover(r).network}
    IN IF containers # {} THEN containers ELSE left

FindNetworks(p) ==
    /\ At(p, "networks")
    /\ LET found == proc[p].found
                    \cup {r \in resources : IsLeftover(p, r) /\ Leftover(r).network}
       IN proc' = [proc EXCEPT ![p].chosen = found,
             ![p].todo = IF Ask(p).clean THEN found ELSE {},
             ![p].at = "remove"]
    /\ UNCHANGED <<keyFile, stored, inUse, resources, stuck>>

Removable(r) ==
    /\ r \notin stuck.resources
    /\ \A c \in resources : r \notin Leftover(c).on

\* One that is gone already is as good as removed; one that cannot be removed
\* does not keep the others.
RemoveResource(p) ==
    /\ At(p, "remove")
    /\ \/ /\ proc[p].todo = {}
          /\ Ends(p, IF proc[p].failed = {} THEN "ok" ELSE "failed")
          /\ resources' = resources
       \/ \E r \in RemovedNext(proc[p].todo) :
             IF r \in resources /\ ~Removable(r)
               THEN /\ proc' = [proc EXCEPT ![p].failed = @ \cup {r}, ![p].todo = @ \ {r}]
                    /\ resources' = resources
               ELSE /\ proc' = [proc EXCEPT ![p].done = @ \cup {r}, ![p].todo = @ \ {r}]
                    /\ resources' = resources \ {r}
    /\ UNCHANGED <<keyFile, stored, inUse, stuck>>

UpkeepStep(p) ==
    \/ Begin(p) \/ ReadKey(p) \/ OpenKey(p) \/ WriteKey(p)
    \/ Mount(p) \/ RunOver(p)
    \/ ListCaches(p) \/ DecideCaches(p) \/ RemoveCache(p)
    \/ FindContainers(p) \/ FindNetworks(p) \/ RemoveResource(p)

UpkeepSpec == UpkeepInit /\ [][\E p \in Procs : UpkeepStep(p)]_upkeepVars

----------------------------------------------------------------------------
(* Properties.                                                             *)

EverThere ==
    UNION {s.resources \cup UNION {s.asks[p].creates : p \in Procs} : s \in Situations}

\* Whatever other runs and cleans do meanwhile, a clean removes only what it was
\* asked to: a shared cache only with its scope given and its name, another
\* project's caches and a linked directory never, and of containers and networks
\* only those with the label asked for that are old enough (CacheStore::remove,
\* find).  It succeeds only when it has taken all that it chose, and fails on a
\* network only for a container it was not given or could not take (remove).
CleanIsAsAsked ==
    \A p \in Procs :
        /\ \A x \in proc[p].done :
              IF Ask(p).verb = "caches"
                THEN /\ x.owner = "shared" => Ask(p).scope = "shared" /\ x.name \in Ask(p).names
                     /\ x.owner # "shared" =>
                           /\ Ask(p).scope # "shared"
                           /\ x.owner = IF x.store = "volume" THEN proc[p].key ELSE "here"
                           /\ Ask(p).names = {} \/ x.name \in Ask(p).names
                     /\ x.store = "directory" => x \notin stuck.caches
                ELSE /\ Leftover(x).project # None
                     /\ Ask(p).project \in {None, Leftover(x).project}
                     /\ Leftover(x).age >= Ask(p).older
        /\ proc[p].how = "ok" /\ Ask(p).verb # "run" /\ Ask(p).clean =>
              proc[p].done = proc[p].chosen
        /\ proc[p].how = "failed" /\ Ask(p).verb \in {"caches", "resources"} =>
              proc[p].failed # {} \/ proc[p].key = None
        /\ Ask(p).verb = "resources" =>
              \A r \in proc[p].failed :
                  \/ r \in stuck.resources
                  \/ \E c \in EverThere : r \in Leftover(c).on /\ c \notin proc[p].done
============================================================================
