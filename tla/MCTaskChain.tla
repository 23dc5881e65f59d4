--------------------------- MODULE MCTaskChain ---------------------------
(* Instances of TaskChain for model checking.                              *)
EXTENDS TaskChain

ListsOf(entries, longest) == UNION {[1..n -> entries] : n \in 0..longest}

\* Every short prerequisites list of three tasks, over each other, an undeclared
\* task and a wildcard, with repetitions.
AllProjects ==
    {[lists |-> <<l1, l2, l3>>, runs |-> {1, 2, 3}, skip |-> s] :
        l1 \in ListsOf({2, 3, 4, Wildcard}, 2) \cup ListsOf({2, 3}, 3),
        l2 \in ListsOf({1, 2, 3, Wildcard}, 2),
        l3 \in ListsOf({1, 2, 4}, 1), s \in BOOLEAN}
    \cup {[lists |-> (2 :> <<>>), runs |-> {2}, skip |-> FALSE]}

\* Declared and acyclic: every order and repetition, with and without `run`.
SoundProjects ==
    {[lists |-> <<l1, l2, l3, <<>> >>, runs |-> r, skip |-> FALSE] :
        l1 \in ListsOf({2, 3, 4}, 2), l2 \in ListsOf({3, 4}, 2),
        l3 \in ListsOf({4}, 1), r \in SUBSET (1..4)}

EveryProject == AllProjects \cup SoundProjects
==========================================================================
