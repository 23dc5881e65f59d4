---------------------------- MODULE EntryLock ----------------------------
(***************************************************************************)
(* The entry lock of a Git include (git_include/entry_lock.rs, and         *)
(* acquire_lock and release_lock in git_include.rs), system call by system *)
(* call: a file created exclusively, which is all an older binary takes    *)
(* and looks for, and through the same open file an OS lock and then a     *)
(* marker.  A process that finds the file marked and its OS lock free      *)
(* takes it over in place.  Any process may die between two calls.         *)
(***************************************************************************)
EXTENDS Naturals, FiniteSets

CONSTANTS
    Procs,      \* the processes sharing the cache
    Older,      \* the ones of a release that takes the existence lock only
    Kernels,    \* the kernels the processes may run on, process by process:
                \* where OS locks work per host only, they exclude the
                \* processes of one kernel from each other
    Inodes,     \* the files the lock's path may refer to in turn
    MayFail,    \* the system calls that may fail
    None

ASSUME LockAssumption ==
    /\ Older \subseteq Procs
    /\ None \notin Inodes

VARIABLES
    kernel,     \* the kernel each process runs on
    at,         \* where each process stands in the lock's protocol
    file,       \* the inode it has open
    lockAt,     \* the inode at <key>.lock
    content,    \* what each inode holds
    flock       \* the processes holding each inode's OS lock

protocol == <<at, file, lockAt, content, flock>>
lockVars == <<kernel, protocol>>

\* every process sees every other's OS lock
OneKernel == \A p, q \in Procs : kernel[p] = kernel[q]

Holding == {"lock", "mark", "remark", "holding"}
Holder(p) == at[p] \in Holding

TypeOK ==
    /\ kernel \in Kernels
    /\ at \in [Procs -> Holding \cup {"out", "look", "open", "try", "verify",
                                      "read", "held", "closing"}]
    /\ file \in [Procs -> Inodes \cup {None}]
    /\ lockAt \in Inodes \cup {None}
    /\ content \in [Inodes -> {"empty", "marker", "other"}]
    /\ flock \in [Inodes -> SUBSET Procs]

Init ==
    /\ kernel \in Kernels
    /\ at = [p \in Procs |-> "out"]
    /\ file = [p \in Procs |-> None]
    /\ lockAt = None
    /\ content = [i \in Inodes |-> "empty"]
    /\ flock = [i \in Inodes |-> {}]

Goto(p, there) == at' = [at EXCEPT ![p] = there]

\* Mutant: a git the process started has inherited the OS lock.
CloseFile_Inherited(p) ==
    /\ file' = [file EXCEPT ![p] = None]
    /\ flock' = flock

\* Closing a file releases the OS lock held through it.
CloseFile(p) ==
    /\ file' = [file EXCEPT ![p] = None]
    /\ flock' = [i \in Inodes |-> flock[i] \ {p}]

CanLock(p) == \A q \in flock[file[p]] : kernel[q] # kernel[p]
TakeOsLock(p) == flock' = [flock EXCEPT ![file[p]] = @ \cup {p}]

----------------------------------------------------------------------------
(* attempt.                                                                *)

Begin(p) ==
    /\ at[p] = "out"
    /\ Goto(p, "look")
    /\ UNCHANGED <<file, lockAt, content, flock>>

\* create_new succeeds: the existence lock is taken, with an inode no path and
\* no open file refers to.  An older binary takes nothing more.
Create(p) ==
    /\ at[p] = "look"
    /\ lockAt = None
    /\ \E i \in Inodes :
          /\ \A q \in Procs : file[q] # i
          /\ lockAt' = i
          /\ content' = [content EXCEPT ![i] = "empty"]
          /\ file' = [file EXCEPT ![p] = i]
    /\ Goto(p, IF p \in Older THEN "holding" ELSE "lock")
    /\ UNCHANGED flock

AlreadyExists(p) ==
    /\ at[p] = "look"
    /\ lockAt # None
    /\ Goto(p, IF p \in Older THEN "held" ELSE "open")
    /\ UNCHANGED <<file, lockAt, content, flock>>

\* The lock directory cannot be written: the load fails.
CreateFails(p) ==
    /\ at[p] = "look"
    /\ "create" \in MayFail
    /\ Goto(p, "out")
    /\ UNCHANGED <<file, lockAt, content, flock>>

\* The existing file is opened, unless it has gone since, or may not be.
Open(p) ==
    /\ at[p] = "open"
    /\ \/ lockAt = None /\ Goto(p, "look") /\ file' = file
       \/ lockAt # None /\ Goto(p, "try") /\ file' = [file EXCEPT ![p] = lockAt]
       \/ /\ lockAt # None /\ "open" \in MayFail
          /\ Goto(p, "held") /\ file' = file
    /\ UNCHANGED <<lockAt, content, flock>>

\* try_lock: held, not supported, or taken.
TryLock(p) ==
    /\ at[p] = "try"
    /\ \/ CanLock(p) /\ TakeOsLock(p) /\ Goto(p, "verify") /\ file' = file
       \/ /\ ~CanLock(p) \/ "flock" \in MayFail
          /\ CloseFile(p) /\ Goto(p, "held")
    /\ UNCHANGED <<lockAt, content>>

\* Mutant: the path is not looked at again once the OS lock is taken.
StillAt_Skipped(p) ==
    /\ at[p] = "verify"
    /\ Goto(p, "read") /\ UNCHANGED <<file, flock>>
    /\ UNCHANGED <<lockAt, content>>

\* still_at: does the path still refer to the file that was opened?
StillAt(p) ==
    /\ at[p] = "verify"
    /\ IF lockAt = file[p] THEN Goto(p, "read") /\ UNCHANGED <<file, flock>>
                           ELSE Goto(p, "look") /\ CloseFile(p)
    /\ UNCHANGED <<lockAt, content>>

\* Only a marked lock is taken over.
ReadMarker(p) ==
    /\ at[p] = "read"
    /\ \/ /\ content[file[p]] = "marker"
          /\ Goto(p, "remark") /\ UNCHANGED <<file, flock>>
       \/ /\ content[file[p]] # "marker" \/ "read" \in MayFail
          /\ Goto(p, "held") /\ CloseFile(p)
    /\ UNCHANGED <<lockAt, content>>

\* The marker is written over the old one, which it is equal to: a write that
\* fails half way changes nothing.
Remark(p) ==
    /\ at[p] = "remark"
    /\ content' = [content EXCEPT ![file[p]] = "marker"]
    /\ Goto(p, "holding")
    /\ UNCHANGED <<file, lockAt, flock>>

----------------------------------------------------------------------------
(* created.                                                                *)

\* The blocking OS lock on the file just created.  Where it fails the file
\* stays an unmarked existence lock.
Lock(p) ==
    /\ at[p] = "lock"
    /\ \/ CanLock(p) /\ TakeOsLock(p) /\ Goto(p, "mark")
       \/ "flock" \in MayFail /\ Goto(p, "holding") /\ flock' = flock
    /\ UNCHANGED <<file, lockAt, content>>

Mark(p) ==
    /\ at[p] = "mark"
    /\ \E written \in {"marker"} \cup
                      (IF "mark" \in MayFail THEN {"empty", "other"} ELSE {}) :
          content' = [content EXCEPT ![file[p]] = written]
    /\ Goto(p, "holding")
    /\ UNCHANGED <<file, lockAt, flock>>

----------------------------------------------------------------------------
(* release, and the wait in acquire_lock.                                  *)

\* Whatever is at the path is deleted, with the OS lock still held.
Unlink(p) ==
    /\ at[p] = "holding"
    /\ \/ lockAt' = None
       \/ "unlink" \in MayFail /\ lockAt' = lockAt
    /\ Goto(p, "closing")
    /\ UNCHANGED <<file, content, flock>>

Close(p) ==
    /\ at[p] = "closing"
    /\ CloseFile(p)
    /\ Goto(p, "out")
    /\ UNCHANGED <<lockAt, content>>

\* The next look, 100 ms later.
LookAgain(p) ==
    /\ at[p] = "held"
    /\ Goto(p, "look")
    /\ UNCHANGED <<file, lockAt, content, flock>>

\* lock_timeout has passed.
TimeOut(p) ==
    /\ at[p] = "held"
    /\ "wait" \in MayFail
    /\ Goto(p, "out")
    /\ UNCHANGED <<file, lockAt, content, flock>>

\* The process dies, and the kernel closes what it had open.
Crash(p) ==
    /\ at[p] # "out"
    /\ CloseFile(p)
    /\ Goto(p, "out")
    /\ UNCHANGED <<lockAt, content>>

----------------------------------------------------------------------------

\* The steps of a process that is neither starting nor holding.
WaitStep(p) ==
    \/ Create(p) \/ AlreadyExists(p) \/ CreateFails(p) \/ Open(p)
    \/ TryLock(p) \/ StillAt(p) \/ ReadMarker(p) \/ Remark(p) \/ Lock(p)
    \/ Mark(p) \/ LookAgain(p) \/ TimeOut(p)

Step(p) == WaitStep(p) \/ Unlink(p) \/ Close(p)

Next ==
    /\ \E p \in Procs : Begin(p) \/ Step(p) \/ Crash(p)
    /\ UNCHANGED kernel

Spec == Init /\ [][Next]_lockVars /\ \A p \in Procs : WF_protocol(Step(p))

----------------------------------------------------------------------------

\* Where every process sees the others' OS locks, at most one is between taking
\* the lock, by creating the file or by taking it over, and deleting it: however
\* looks, take-overs, releases and deaths interleave, and whatever mixture of
\* releases shares the cache (decisions/0023, Decisions 2 to 5).
MutualExclusion ==
    OneKernel => \A p, q \in Procs : Holder(p) /\ Holder(q) => p = q

\* There too, the file a holder will delete on release is the one it locked: a
\* release never deletes another process's lock.
HolderOwnsFile ==
    OneKernel => \A p \in Procs : Holder(p) => lockAt = file[p]

\* p counts the lock as held because a call on its file failed
Balked(p) ==
    /\ at'[p] = "held"
    /\ \/ at[p] = "open"
       \/ at[p] = "try" /\ CanLock(p)
       \/ at[p] = "read" /\ content[file[p]] = "marker"

\* A marked lock whose holder has died is taken over by a process waiting for
\* it, once processes stop dying and the lock file can be opened, locked and
\* read, unless all those that can take over give up or go away.
AbandonedIsRecovered ==
    <>[][\A p \in Procs : ~Crash(p) /\ ~Balked(p)]_lockVars =>
        ((lockAt # None /\ content[lockAt] = "marker"
             /\ ~\E p \in Procs : Holder(p))
            ~> ((\E p \in Procs : Holder(p))
                   \/ \A p \in Procs \ Older : at[p] = "out"))

\* Whatever dead processes have left at the path, a process does not wait for the
\* lock for good once others stop coming and deadlines pass: it gets the lock, by
\* release or take-over, or gives up; and the lock of a dead process is taken over.
WaitsEnd ==
    /\ (/\ \A p \in Procs : SF_protocol(TimeOut(p))
        /\ <>[][\A p \in Procs : ~Begin(p)]_lockVars)
       => \A p \in Procs :
             at[p] \notin {"out", "holding"} ~> at[p] \in {"out", "holding"}
    /\ AbandonedIsRecovered
==========================================================================
