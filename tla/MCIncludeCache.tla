-------------------------- MODULE MCIncludeCache --------------------------
(* Instances of IncludeCache for model checking.                           *)
EXTENDS IncludeCache, TLC

CONSTANTS p1, p2, p3, d1, d2, d3

Symmetry == Permutations({p1, p2}) \cup Permutations({d1, d2})

\* one host, or two hosts whose OS locks do not see each other's
Shared == {[p \in Procs |-> 1]}
SharedOrNot == [Procs -> {1, 2}] \ {[p \in Procs |-> 2]}
===========================================================================
