--------------------------- MODULE IncludeCache ---------------------------
(***************************************************************************)
(* One entry of the Git include cache (git_include.rs): its working copy,  *)
(* its staging directories, its sidecar and its entry lock, shared by      *)
(* processes that load it, remove it (clean, the sweep) or refresh it.     *)
(* Only a load that must clone takes the lock; removal takes none.         *)
(* Directory trees are written and removed file by file, and a process may *)
(* die anywhere.                                                           *)
(***************************************************************************)
EXTENDS EntryLock

CONSTANTS
    Dirs,           \* staging directory names, unique to a clone
    Does            \* what the processes do: "load", "clean", "refresh"

\* A tree and the commit it was cloned from: still being written, a finished
\* clone, the output of two clones, or with files already removed from it.
Refs == {"before", "after"}
Trees == [ref : Refs,
          state : {"partial", "whole", "mixed", "wrecked"}]

ASSUME CacheAssumption ==
    /\ None \notin Dirs
    /\ None \notin Trees

VARIABLES
    op,         \* where each process stands in its operation
    refreshing, \* what ref pointed to when each process's refresh began
    dir,        \* the staging directory of each process's clone
    staging,    \* the staging directories' trees
    orphans,    \* staging directories a git is writing whose ratect has died
    copy,       \* the tree at <key>
    sidecar,    \* <key>.toml exists
    ref         \* what the include's ref points to

cacheVars == <<op, refreshing, dir, staging, orphans, copy, sidecar, ref>>
vars == <<lockVars, cacheVars>>
operations == <<protocol, cacheVars>>

\* The entry is not cached, or it is.
CacheInit ==
    /\ Init
    /\ op = [p \in Procs |-> "idle"]
    /\ refreshing = [p \in Procs |-> None]
    /\ dir = [p \in Procs |-> None]
    /\ staging = [d \in Dirs |-> None]
    /\ orphans = {}
    /\ ref = "before"
    /\ \/ copy = None /\ sidecar = FALSE
       \/ copy = [ref |-> "before", state |-> "whole"] /\ sidecar = TRUE

Proceed(p, step) == op' = [op EXCEPT ![p] = step]
Finish(p) ==
    /\ Proceed(p, "idle")
    /\ refreshing' = [refreshing EXCEPT ![p] = None]
StateOf(tree) == IF tree = None THEN "none" ELSE tree.state
Wreck(tree) == [tree EXCEPT !.state = "wrecked"]

\* what remove_staging_directory, which is best-effort, leaves of a tree
Discarded(tree) ==
    {None} \cup (IF "discard" \in MayFail /\ tree # None THEN {Wreck(tree)} ELSE {})

\* the process's own git and any orphan writing to d
Gits(d) == {p \in Procs : op[p] = "git" /\ dir[p] = d}

----------------------------------------------------------------------------
(* ensure_cached.                                                          *)

\* Only a load that finds no working copy takes the lock.
EnsureCached(p) ==
    IF copy # None
      THEN Proceed(p, "info") /\ UNCHANGED lockVars
      ELSE Proceed(p, "locking") /\ Begin(p)

Load(p) ==
    /\ "load" \in Does
    /\ op[p] = "idle"
    /\ EnsureCached(p)
    /\ UNCHANGED <<refreshing, dir, staging, orphans, copy, sidecar, ref>>

\* acquire_lock.  A load whose wait fails fails.
AcquireLock(p) ==
    /\ op[p] = "locking"
    /\ WaitStep(p)
    /\ \/ at'[p] = "holding" /\ Proceed(p, "recheck") /\ UNCHANGED refreshing
       \/ at'[p] = "out" /\ Finish(p)
       \/ at'[p] \notin {"holding", "out"} /\ UNCHANGED <<op, refreshing>>
    /\ UNCHANGED <<dir, staging, orphans, copy, sidecar, ref>>

\* clone_if_missing looks again, now under the lock.
Recheck(p) ==
    /\ op[p] = "recheck"
    /\ Proceed(p, IF copy # None THEN "release" ELSE "sweep")
    /\ UNCHANGED <<lockVars, refreshing, dir, staging, orphans, copy, sidecar,
                   ref>>

\* remove_staging_directories, begun: some files of each are gone.
SweepBegins(p) ==
    /\ op[p] = "sweep"
    /\ staging' = [d \in Dirs |-> IF staging[d] # None THEN Wreck(staging[d])
                                                       ELSE None]
    /\ Proceed(p, "clone")
    /\ UNCHANGED <<lockVars, refreshing, dir, orphans, copy, sidecar, ref>>

\* Mutant: every clone is staged in the same directory.
Clone_FixedStaging(p) ==
    /\ op[p] = "clone"
    /\ \E d \in {CHOOSE d \in Dirs : TRUE} :
          /\ dir' = [dir EXCEPT ![p] = d]
          /\ staging' =
                [e \in Dirs |->
                    IF e = d THEN [ref |-> ref, state |-> "partial"]
                             ELSE None]
    /\ Proceed(p, "git")
    /\ UNCHANGED <<lockVars, refreshing, orphans, copy, sidecar, ref>>

\* The sweep is over, a directory it could not remove left for the next holder,
\* and git starts in a fresh one.
Clone(p) ==
    /\ op[p] = "clone"
    /\ \E d \in Dirs, kept \in IF "discard" \in MayFail THEN {{}, Dirs} ELSE {{}} :
          /\ staging[d] = None /\ d \notin orphans
          /\ \A q \in Procs : dir[q] # d
          /\ dir' = [dir EXCEPT ![p] = d]
          /\ staging' =
                [e \in Dirs |->
                    IF e = d THEN [ref |-> ref, state |-> "partial"]
                    ELSE IF StateOf(staging[e]) = "wrecked" /\ e \notin kept THEN None
                    ELSE staging[e]]
    /\ Proceed(p, "git")
    /\ UNCHANGED <<lockVars, refreshing, orphans, copy, sidecar, ref>>

\* What a git that ends leaves in d: nothing if the directory is gone.
Written(d, others) ==
    IF StateOf(staging[d]) = "partial"
      THEN [staging[d] EXCEPT !.state = IF others = {} THEN "whole" ELSE "mixed"]
      ELSE staging[d]

\* git clone and git checkout exit zero.
GitSucceeds(p) ==
    /\ op[p] = "git"
    /\ staging[dir[p]] # None
    /\ staging' = [staging EXCEPT ![dir[p]] =
                      Written(dir[p], (Gits(dir[p]) \ {p}) \cup
                                      (orphans \cap {dir[p]}))]
    /\ Proceed(p, "rename")
    /\ UNCHANGED <<lockVars, refreshing, dir, orphans, copy, sidecar, ref>>

\* git fails, or finds its directory going: what it wrote is discarded.
GitFails(p) ==
    /\ op[p] = "git"
    /\ \/ "git" \in MayFail
       \/ StateOf(staging[dir[p]]) \in {"none", "wrecked"}
    /\ \E left \in Discarded(staging[dir[p]]) :
          staging' = [staging EXCEPT ![dir[p]] = left]
    /\ dir' = [dir EXCEPT ![p] = None]
    /\ Proceed(p, "fail")
    /\ UNCHANGED <<lockVars, refreshing, orphans, copy, sidecar, ref>>

\* The finished clone is renamed into place.  rename replaces nothing but an
\* empty directory, which a half-removed copy may be; a clone that loses to a
\* directory already there is discarded and counts as done.
Rename(p) ==
    /\ op[p] = "rename"
    /\ \/ /\ staging[dir[p]] # None
          /\ StateOf(copy) \in {"none", "wrecked"}
          /\ copy' = staging[dir[p]]
          /\ staging' = [staging EXCEPT ![dir[p]] = None]
          /\ dir' = [dir EXCEPT ![p] = None]
          /\ Proceed(p, "release")
       \/ /\ staging[dir[p]] = None \/ copy # None
          /\ Proceed(p, "lost")
          /\ UNCHANGED <<copy, staging, dir>>
    /\ UNCHANGED <<lockVars, refreshing, orphans, sidecar, ref>>

RenameLost(p) ==
    /\ op[p] = "lost"
    /\ Proceed(p, IF copy # None THEN "release" ELSE "fail")
    /\ \E left \in Discarded(staging[dir[p]]) :
          staging' = [staging EXCEPT ![dir[p]] = left]
    /\ dir' = [dir EXCEPT ![p] = None]
    /\ UNCHANGED <<lockVars, refreshing, orphans, copy, sidecar, ref>>

\* release_lock, which always runs, and then the clone's own outcome.
ReleaseLock(p) ==
    /\ op[p] \in {"release", "fail"}
    /\ \/ Unlink(p) /\ UNCHANGED <<op, refreshing>>
       \/ /\ Close(p)
          /\ \/ op[p] = "release" /\ Proceed(p, "info") /\ UNCHANGED refreshing
             \/ op[p] = "fail" /\ Finish(p)
    /\ UNCHANGED <<dir, staging, orphans, copy, sidecar, ref>>

\* update_info_file, and the load returns the working copy's path.
UpdateInfo(p) ==
    /\ op[p] = "info"
    /\ sidecar' = TRUE
    /\ Finish(p)
    /\ UNCHANGED <<lockVars, dir, staging, orphans, copy, ref>>

\* The sidecar cannot be parsed or written: the load fails, its clone in place.
InfoFails(p) ==
    /\ op[p] = "info"
    /\ "info" \in MayFail
    /\ Finish(p)
    /\ UNCHANGED <<lockVars, dir, staging, orphans, copy, sidecar, ref>>

----------------------------------------------------------------------------
(* clean, cleanup_stale and refresh.                                       *)

\* read_entries finds the sidecar, and the entry is to go.
Remove(p) ==
    /\ op[p] = "idle"
    /\ sidecar
    /\ \/ "clean" \in Does /\ refreshing' = refreshing
       \/ "refresh" \in Does /\ refreshing' = [refreshing EXCEPT ![p] = ref]
    /\ Proceed(p, "remove")
    /\ UNCHANGED <<lockVars, dir, staging, orphans, copy, sidecar, ref>>

\* remove_entry_files: remove_dir_all has removed some files, or found none.
RemoveBegins(p) ==
    /\ op[p] = "remove"
    /\ IF copy = None THEN copy' = None /\ Proceed(p, "uninfo")
                      ELSE copy' = Wreck(copy) /\ Proceed(p, "tree")
    /\ UNCHANGED <<lockVars, refreshing, dir, staging, orphans, sidecar, ref>>

\* The directory itself is removed.  One that has been replaced since is not
\* empty: an error, and the entry is left as it is.
RemoveTree(p) ==
    /\ op[p] = "tree"
    /\ \/ /\ StateOf(copy) \in {"none", "wrecked"}
          /\ copy' = None /\ Proceed(p, "uninfo") /\ UNCHANGED refreshing
       \/ /\ StateOf(copy) # "none"
          /\ StateOf(copy) # "wrecked" \/ "remove" \in MayFail
          /\ copy' = copy /\ Finish(p)
    /\ UNCHANGED <<lockVars, dir, staging, orphans, sidecar, ref>>

\* Mutant: removal deletes the lock file as well.
RemoveInfo_DeletesLock(p) ==
    /\ op[p] = "uninfo"
    /\ sidecar' = FALSE
    /\ lockAt' = None
    /\ Proceed(p, "idle")
    /\ UNCHANGED <<at, file, content, flock, refreshing, dir, staging, orphans,
                   copy, ref>>

\* The sidecar is removed; a refresh goes on to load the entry again.
RemoveInfo(p) ==
    /\ op[p] = "uninfo"
    /\ sidecar' = FALSE
    /\ IF refreshing[p] # None THEN EnsureCached(p)
                               ELSE Proceed(p, "idle") /\ UNCHANGED lockVars
    /\ UNCHANGED <<refreshing, dir, staging, orphans, copy, ref>>

RemoveInfoFails(p) ==
    /\ op[p] = "uninfo"
    /\ "remove" \in MayFail
    /\ Finish(p)
    /\ UNCHANGED <<lockVars, dir, staging, orphans, copy, sidecar, ref>>

----------------------------------------------------------------------------

\* The process dies, or exits with a detached sweep still running.  A git it
\* had started goes on.
Die(p) ==
    /\ op[p] # "idle"
    /\ IF at[p] = "out" THEN UNCHANGED lockVars ELSE Crash(p)
    /\ orphans' = IF op[p] = "git" THEN orphans \cup {dir[p]} ELSE orphans
    /\ dir' = [dir EXCEPT ![p] = None]
    /\ Finish(p)
    /\ UNCHANGED <<staging, copy, sidecar, ref>>

\* An orphaned git ends.
OrphanEnds(d) ==
    /\ d \in orphans
    /\ orphans' = orphans \ {d}
    /\ staging' = [staging EXCEPT ![d] = Written(d, Gits(d))]
    /\ UNCHANGED <<lockVars, op, refreshing, dir, copy, sidecar, ref>>

\* Somebody moves the branch or tag.
MoveRef ==
    /\ ref = "before"
    /\ ref' = "after"
    /\ UNCHANGED <<lockVars, op, refreshing, dir, staging, orphans, copy,
                   sidecar>>

CacheStep(p) ==
    \/ AcquireLock(p) \/ Recheck(p) \/ SweepBegins(p) \/ Clone(p)
    \/ GitSucceeds(p) \/ GitFails(p) \/ Rename(p) \/ RenameLost(p)
    \/ ReleaseLock(p) \/ UpdateInfo(p) \/ InfoFails(p) \/ RemoveBegins(p)
    \/ RemoveTree(p) \/ RemoveInfo(p) \/ RemoveInfoFails(p)

CacheNext ==
    /\ \/ \E p \in Procs : Load(p) \/ Remove(p) \/ CacheStep(p) \/ Die(p)
       \/ \E d \in Dirs : OrphanEnds(d)
       \/ MoveRef
    /\ UNCHANGED kernel

\* Every call ends, the kernel grants a lock it can grant, and the deadline of a
\* wait passes.
CacheFairness ==
    \A p \in Procs : SF_operations(CacheStep(p)) /\ SF_operations(AcquireLock(p) /\ TimeOut(p))

CacheSpec == CacheInit /\ [][CacheNext]_vars /\ CacheFairness

----------------------------------------------------------------------------

\* The cache uses the lock as EntryLock says: every step of a cache operation is
\* a step of the lock's protocol or leaves the lock alone.
ImplementsLock == Init /\ [][Next]_lockVars

\* The staging directories a holder removes belong to no live clone: what a
\* running process is cloning or about to rename is still there, untouched, as
\* long as OS locks exclude every process (Decision 7).
NoLiveStagingRemoved ==
    OneKernel => \A p \in Procs :
        op[p] \in {"git", "rename"} =>
            StateOf(staging[dir[p]]) \notin {"none", "wrecked"}

\* What is at the entry's path is one clone's finished output, whichever
\* processes clone at once, die, or leave a git running behind them; files may be
\* missing from it by a removal only, or by the sweep of a host that does not see
\* the cloner's OS lock (Decision 1).
OnlyWholeCopies == StateOf(copy) \in {"none", "whole", "wrecked"}

\* A load that returns while nobody is removing the entry returns a whole copy,
\* or one that is gone and will be cloned again.
LoadsWhole ==
    [][\A p \in Procs :
          UpdateInfo(p) /\ ~(\E q \in Procs : op[q] = "tree")
              => StateOf(copy) \in {"none", "whole"}]_vars

\* A refresh that succeeds has fetched: the copy it leaves is of the commit the
\* ref pointed to when it began, or a later one.
RefreshFetches ==
    [][\A p \in Procs :
          UpdateInfo(p) /\ refreshing[p] = "after" /\ copy # None
              => copy.ref = "after"]_vars
==========================================================================
