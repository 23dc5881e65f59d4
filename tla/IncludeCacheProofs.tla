------------------------ MODULE IncludeCacheProofs ------------------------
(***************************************************************************)
(* The entry lock excludes, for any number of processes and any mixture of *)
(* releases, as long as OS locks are seen by every process; and cloning    *)
(* under it: the cache implements the lock's protocol, so one process      *)
(* clones at a time, so what a holder sweeps away is dead and what is      *)
(* renamed into place is whole.                                            *)
(***************************************************************************)
EXTENDS IncludeCache, TLAPS

----------------------------------------------------------------------------
(* The entry lock.                                                         *)

\* A process has a file open exactly in the steps that use one.
OpenFiles ==
    \A p \in Procs :
        file[p] # None <=> at[p] \in Holding \cup {"try", "verify", "read", "closing"}

\* An OS lock is held through the open file, by one process, and by every one
\* that has looked or marked under it.
OsLocks ==
    /\ \A p \in Procs, i \in Inodes : p \in flock[i] => file[p] = i
    /\ \A p, q \in Procs, i \in Inodes : p \in flock[i] /\ q \in flock[i] => p = q
    /\ \A p \in Procs :
          at[p] \in {"verify", "read", "remark", "mark"} => p \in flock[file[p]]

\* A marked file whose holder lives has its OS lock held by that holder.
MarkedLocked ==
    \A p \in Procs :
        Holder(p) /\ content[file[p]] = "marker" => p \in flock[file[p]]

\* A waiter about to take over has a file that is still the lock.
VerifiedStays ==
    \A p \in Procs :
        at[p] = "read" /\ content[file[p]] = "marker" => lockAt = file[p]

LockInv ==
    /\ TypeOK
    /\ OpenFiles
    /\ OsLocks
    /\ MarkedLocked
    /\ VerifiedStays
    /\ HolderOwnsFile
    /\ MutualExclusion

\* The parts of the invariant hold before any process looks.
LEMMA LockInit == Init => LockInv
BY LockAssumption DEF Init, LockInv, TypeOK, OpenFiles, OsLocks, MarkedLocked,
    VerifiedStays, HolderOwnsFile, MutualExclusion, Holder, Holding

\* Every system call and every death keeps the invariant.
LEMMA LockStep ==
    ASSUME OneKernel, LockInv, [Next]_lockVars
    PROVE  LockInv' /\ OneKernel'
<1>a. kernel' = kernel
  BY DEF Next, lockVars, protocol
<1> USE LockAssumption, <1>a
       DEF LockInv, TypeOK, OpenFiles, OsLocks, MarkedLocked, VerifiedStays,
           HolderOwnsFile, MutualExclusion, OneKernel, Holder, Holding, Goto
<1>1. ASSUME NEW p \in Procs, Begin(p) PROVE LockInv'
  BY <1>1 DEF Begin
<1>2. ASSUME NEW p \in Procs, Create(p) PROVE LockInv'
  BY <1>2 DEF Create
<1>3. ASSUME NEW p \in Procs, AlreadyExists(p) PROVE LockInv'
  BY <1>3 DEF AlreadyExists
<1>4. ASSUME NEW p \in Procs, CreateFails(p) PROVE LockInv'
  BY <1>4 DEF CreateFails
<1>5. ASSUME NEW p \in Procs, Open(p) PROVE LockInv'
  BY <1>5 DEF Open
<1>6. ASSUME NEW p \in Procs, TryLock(p) PROVE LockInv'
  BY <1>6 DEF TryLock, CanLock, TakeOsLock, CloseFile
<1>7. ASSUME NEW p \in Procs, StillAt(p) PROVE LockInv'
  BY <1>7 DEF StillAt, CloseFile
<1>8. ASSUME NEW p \in Procs, ReadMarker(p) PROVE LockInv'
  BY <1>8 DEF ReadMarker, CloseFile
<1>9. ASSUME NEW p \in Procs, Remark(p) PROVE LockInv'
  BY <1>9 DEF Remark
<1>10. ASSUME NEW p \in Procs, Lock(p) PROVE LockInv'
  BY <1>10 DEF Lock, CanLock, TakeOsLock
<1>11. ASSUME NEW p \in Procs, Mark(p) PROVE LockInv'
  BY <1>11 DEF Mark
<1>12. ASSUME NEW p \in Procs, LookAgain(p) PROVE LockInv'
  BY <1>12 DEF LookAgain
<1>13. ASSUME NEW p \in Procs, TimeOut(p) PROVE LockInv'
  BY <1>13 DEF TimeOut
<1>14. ASSUME NEW p \in Procs, Unlink(p) PROVE LockInv'
  BY <1>14 DEF Unlink
<1>15. ASSUME NEW p \in Procs, Close(p) PROVE LockInv'
  BY <1>15 DEF Close, CloseFile
<1>16. ASSUME NEW p \in Procs, Crash(p) PROVE LockInv'
  BY <1>16 DEF Crash, CloseFile
<1>17. CASE UNCHANGED lockVars
  BY <1>17 DEF lockVars, protocol
<1> QED
  BY <1>1, <1>2, <1>3, <1>4, <1>5, <1>6, <1>7, <1>8, <1>9, <1>10, <1>11,
     <1>12, <1>13, <1>14, <1>15, <1>16, <1>17
     DEF Next, Step, WaitStep

\* Where every process sees the others' OS locks, the whole invariant holds in
\* every state of the lock's protocol.
THEOREM LockInvHolds == OneKernel /\ Spec => []LockInv
<1>1. OneKernel /\ LockInv /\ [Next]_lockVars => (OneKernel /\ LockInv)'
  BY LockStep
<1> QED
  BY LockInit, <1>1, PTL DEF Spec

\* Whatever the processes see of each other's locks, that does not change.
LEMMA KernelsStay == ~OneKernel /\ Spec => []~OneKernel
<1>1. ~OneKernel /\ [Next]_lockVars => ~OneKernel'
  BY DEF Next, lockVars, protocol, OneKernel
<1> QED
  BY <1>1, PTL DEF Spec

\* At most one process holds the entry lock: attempt, created and
\* take_over_if_abandoned never let a second one in.
THEOREM MutualExclusionHolds == Spec => []MutualExclusion
<1>1. LockInv \/ ~OneKernel => MutualExclusion
  BY DEF LockInv, MutualExclusion
<1> QED
  BY LockInvHolds, KernelsStay, <1>1, PTL

\* The file release deletes is the releaser's own lock.
THEOREM HolderOwnsFileHolds == Spec => []HolderOwnsFile
<1>1. LockInv \/ ~OneKernel => HolderOwnsFile
  BY DEF LockInv, HolderOwnsFile
<1> QED
  BY LockInvHolds, KernelsStay, <1>1, PTL

----------------------------------------------------------------------------
(* Cloning.                                                                *)

Cloning == {"recheck", "sweep", "clone", "git", "rename", "lost"}

\* Every step of the cache is a step of the lock, or leaves it alone.
LEMMA CacheStepIsLockStep == [CacheNext]_vars => [Next]_lockVars
<1> SUFFICES ASSUME [CacheNext]_vars PROVE [Next]_lockVars
  OBVIOUS
<1>0. kernel' = kernel
  BY DEF CacheNext, vars, lockVars, protocol
<1> USE <1>0
<1> USE DEF Next, Step
<1>1. ASSUME NEW p \in Procs, Load(p) PROVE [Next]_lockVars
  BY <1>1 DEF Load, EnsureCached
<1>2. ASSUME NEW p \in Procs, Remove(p) PROVE [Next]_lockVars
  BY <1>2 DEF Remove
<1>3. ASSUME NEW p \in Procs, CacheStep(p) PROVE [Next]_lockVars
  BY <1>3 DEF CacheStep, AcquireLock, Recheck, SweepBegins, Clone, GitSucceeds,
      GitFails, Rename, RenameLost, ReleaseLock, UpdateInfo, RemoveBegins,
      InfoFails, RemoveTree, RemoveInfo, RemoveInfoFails, EnsureCached
<1>4. ASSUME NEW p \in Procs, Die(p) PROVE [Next]_lockVars
  BY <1>4 DEF Die
<1>5. ASSUME NEW d \in Dirs, OrphanEnds(d) PROVE [Next]_lockVars
  BY <1>5 DEF OrphanEnds
<1>6. CASE MoveRef
  BY <1>6 DEF MoveRef
<1>7. CASE UNCHANGED vars
  BY <1>7 DEF vars
<1> QED
  BY <1>1, <1>2, <1>3, <1>4, <1>5, <1>6, <1>7 DEF CacheNext

\* The cache implements the entry lock's protocol: whatever loads, removals and
\* refreshes do, the lock is only ever used as EntryLock says.
THEOREM ImplementsLockHolds == CacheSpec => ImplementsLock
BY CacheStepIsLockStep, PTL DEF CacheSpec, CacheInit, ImplementsLock

----------------------------------------------------------------------------

CacheTypes ==
    /\ op \in [Procs -> {"idle", "locking", "recheck", "sweep", "clone", "git",
                         "rename", "lost", "release", "fail", "info", "remove",
                         "tree", "uninfo"}]
    /\ dir \in [Procs -> Dirs \cup {None}]
    /\ staging \in [Dirs -> Trees \cup {None}]
    /\ copy \in Trees \cup {None}
    /\ ref \in Refs

\* What each operation has of the lock.
OpsLocked ==
    \A p \in Procs :
        /\ op[p] = "locking" => at[p] \notin {"out", "holding", "closing"}
        /\ op[p] \in Cloning => at[p] = "holding"
        /\ op[p] \in {"idle", "info", "remove", "tree", "uninfo"} => at[p] = "out"

\* A clone in progress has a staging directory no orphaned git writes to, with
\* a tree in it that is being written, and is whole once git has ended.
StagingSound ==
    \A p \in Procs :
        /\ op[p] \in {"git", "rename", "lost"} => dir[p] \in Dirs
        /\ op[p] \notin {"git", "rename", "lost"} => dir[p] = None
        /\ op[p] = "git" =>
              StateOf(staging[dir[p]]) = "partial" /\ dir[p] \notin orphans
        /\ op[p] = "rename" =>
              StateOf(staging[dir[p]]) = "whole" /\ dir[p] \notin orphans

CacheInv ==
    /\ LockInv
    /\ CacheTypes
    /\ OpsLocked
    /\ StagingSound
    /\ OnlyWholeCopies

\* The invariant holds of an empty cache and of one with a whole copy.
LEMMA CacheInitInv == CacheInit => CacheInv
<1> SUFFICES ASSUME CacheInit PROVE CacheInv
  OBVIOUS
<1>1. LockInv
  BY LockInit DEF CacheInit
<1>2. CacheTypes
  BY CacheAssumption DEF CacheInit, CacheTypes, Trees, Refs
<1>3. OpsLocked /\ StagingSound
  BY DEF CacheInit, Init, OpsLocked, StagingSound, Cloning
<1>4. OnlyWholeCopies
  BY CacheAssumption DEF CacheInit, OnlyWholeCopies, StateOf, Trees, Refs
<1> QED
  BY <1>1, <1>2, <1>3, <1>4 DEF CacheInv

\* Where a step of the wait for the lock leads.
LEMMA WaitStepGoes ==
    ASSUME LockInv, NEW p \in Procs, WaitStep(p)
    PROVE  /\ at[p] \notin {"out", "holding", "closing"}
           /\ at'[p] # "closing"
           /\ \A q \in Procs : q # p => at'[q] = at[q]
BY DEF LockInv, TypeOK, WaitStep, Create, AlreadyExists, CreateFails, Open,
    TryLock, StillAt, ReadMarker, Remark, Lock, Mark, LookAgain, TimeOut, Goto,
    Holding

\* Every step of the cache keeps the invariant.
LEMMA CacheStepInv ==
    ASSUME OneKernel, CacheInv, [CacheNext]_vars
    PROVE  CacheInv' /\ OneKernel'
<1>1. LockInv' /\ OneKernel'
  BY LockStep, CacheStepIsLockStep DEF CacheInv
<1> USE CacheAssumption DEF CacheInv, Cloning, Proceed, Finish
<1> DEFINE Rest == CacheTypes /\ OpsLocked /\ StagingSound /\ OnlyWholeCopies
<1>a. \A p, q \in Procs : op[p] \in Cloning /\ op[q] \in Cloning => p = q
  BY DEF LockInv, MutualExclusion, Holder, Holding, OpsLocked
<1> USE DEF CacheTypes, OpsLocked, StagingSound, OnlyWholeCopies, StateOf
<1>2. ASSUME NEW p \in Procs, Load(p) PROVE Rest'
  BY <1>2 DEF Load, EnsureCached, Begin, Goto, lockVars, protocol, LockInv, TypeOK
<1>3. ASSUME NEW p \in Procs, Remove(p) PROVE Rest'
  BY <1>3 DEF Remove, lockVars, protocol
<1>4. ASSUME NEW p \in Procs, AcquireLock(p) PROVE Rest'
  BY <1>4, WaitStepGoes DEF AcquireLock
<1>5. ASSUME NEW p \in Procs, Recheck(p) PROVE Rest'
  BY <1>5 DEF Recheck, lockVars, protocol
<1>6. ASSUME NEW p \in Procs, SweepBegins(p) PROVE Rest'
  BY <1>6, <1>a DEF SweepBegins, lockVars, protocol, Wreck, Trees
<1>7. ASSUME NEW p \in Procs, Clone(p) PROVE Rest'
  BY <1>7, <1>a DEF Clone, lockVars, protocol, Trees
<1>8. ASSUME NEW p \in Procs, GitSucceeds(p) PROVE Rest'
  BY <1>8, <1>a DEF GitSucceeds, lockVars, protocol, Written, Gits, Trees
<1>9. ASSUME NEW p \in Procs, GitFails(p) PROVE Rest'
  BY <1>9, <1>a DEF GitFails, Discarded, Wreck, lockVars, protocol, Trees
<1>10. ASSUME NEW p \in Procs, Rename(p) PROVE Rest'
  BY <1>10, <1>a DEF Rename, lockVars, protocol, Trees
<1>11. ASSUME NEW p \in Procs, RenameLost(p) PROVE Rest'
  BY <1>11, <1>a DEF RenameLost, Discarded, Wreck, lockVars, protocol, Trees
<1>12. ASSUME NEW p \in Procs, ReleaseLock(p) PROVE Rest'
  BY <1>12 DEF ReleaseLock, Unlink, Close, Goto, LockInv, TypeOK
<1>13. ASSUME NEW p \in Procs, UpdateInfo(p) PROVE Rest'
  BY <1>13 DEF UpdateInfo, lockVars, protocol
<1>14. ASSUME NEW p \in Procs, RemoveBegins(p) PROVE Rest'
  BY <1>14 DEF RemoveBegins, lockVars, protocol, Wreck, Trees
<1>15. ASSUME NEW p \in Procs, RemoveTree(p) PROVE Rest'
  BY <1>15 DEF RemoveTree, lockVars, protocol
<1>16. ASSUME NEW p \in Procs, RemoveInfo(p) PROVE Rest'
  BY <1>16 DEF RemoveInfo, EnsureCached, Begin, Goto, lockVars, protocol, LockInv, TypeOK
<1>17. ASSUME NEW p \in Procs, Die(p) PROVE Rest'
  BY <1>17, <1>a DEF Die, Crash, Goto, lockVars, protocol, LockInv, TypeOK
<1>18. ASSUME NEW d \in Dirs, OrphanEnds(d) PROVE Rest'
  BY <1>18 DEF OrphanEnds, lockVars, protocol, Written, Trees
<1>19. ASSUME MoveRef PROVE Rest'
  BY <1>19 DEF MoveRef, lockVars, protocol, Refs
<1>20. ASSUME UNCHANGED vars PROVE Rest'
  BY <1>20 DEF vars, cacheVars, lockVars, protocol
<1>21. ASSUME NEW p \in Procs, InfoFails(p) PROVE Rest'
  BY <1>21 DEF InfoFails, lockVars, protocol
<1>22. ASSUME NEW p \in Procs, RemoveInfoFails(p) PROVE Rest'
  BY <1>22 DEF RemoveInfoFails, lockVars, protocol
<1>23. Rest'
  BY <1>2, <1>3, <1>4, <1>5, <1>6, <1>7, <1>8, <1>9, <1>10, <1>11, <1>12,
     <1>13, <1>14, <1>15, <1>16, <1>17, <1>18, <1>19, <1>20, <1>21, <1>22
     DEF CacheNext, CacheStep
<1> QED
  BY <1>1, <1>23

\* The invariant of the cache, for any number of processes and directories.
THEOREM CacheInvHolds == OneKernel /\ CacheSpec => []CacheInv
<1>1. OneKernel /\ CacheInv /\ [CacheNext]_vars => (OneKernel /\ CacheInv)'
  BY CacheStepInv
<1> QED
  BY CacheInitInv, <1>1, PTL DEF CacheSpec

\* remove_staging_directories never removes what a live process is cloning.
THEOREM NoLiveStagingRemovedHolds == CacheSpec => []NoLiveStagingRemoved
<1>1. CacheInv \/ ~OneKernel => NoLiveStagingRemoved
  BY DEF CacheInv, StagingSound, NoLiveStagingRemoved
<1>2. ~OneKernel /\ [CacheNext]_vars => ~OneKernel'
  BY DEF CacheNext, vars, lockVars, protocol, OneKernel
<1>3. ~OneKernel /\ CacheSpec => []~OneKernel
  BY <1>2, PTL DEF CacheSpec
<1> QED
  BY CacheInvHolds, <1>1, <1>3, PTL

\* The working copy is one clone's finished output, but for a removal, where
\* OS locks exclude every process.
THEOREM OnlyWholeCopiesHolds == OneKernel /\ CacheSpec => []OnlyWholeCopies
<1>1. CacheInv => OnlyWholeCopies
  BY DEF CacheInv
<1> QED
  BY CacheInvHolds, <1>1, PTL
===========================================================================
