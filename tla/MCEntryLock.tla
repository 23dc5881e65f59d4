--------------------------- MODULE MCEntryLock ---------------------------
(* Instances of EntryLock for model checking.                              *)
EXTENDS EntryLock, TLC

CONSTANTS p1, p2, p3

Shared == {[p \in Procs |-> 1]}
==========================================================================
