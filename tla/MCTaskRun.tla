---------------------------- MODULE MCTaskRun ----------------------------
(* Instances of TaskRun for model checking.                                *)
EXTENDS TaskRun, TLC

CONSTANTS root, app, db, pulled, built

\* root needs app and shares its network namespace, app needs db
ChainDeps == (root :> {app}) @@ (app :> {db}) @@ (db :> {})
ChainNet == (root :> app) @@ (app :> None) @@ (db :> None)
ChainImages == (root :> built) @@ (app :> pulled) @@ (db :> pulled)
ChainSetups == (root :> 2) @@ (app :> 1) @@ (db :> 0)

\* root needs app
PairDeps == (root :> {app}) @@ (app :> {})
PairNet == (root :> None) @@ (app :> None)
PairImages == (root :> built) @@ (app :> pulled)

NoSetups == [c \in Containers |-> 0]

Ordinary ==
    [gate |-> TRUE, own_network |-> TRUE, after_success |-> TRUE,
     after_failure |-> TRUE, top_level |-> TRUE]

OneSetting == {Ordinary}
\* No gate, and cleanup after success or after failure but not both: every kind
\* of result is met with cleanup and without.
EitherCleanup ==
    {s \in EngineSettings : ~s.gate /\ s.after_success # s.after_failure}

----------------------------------------------------------------------------

\* docs/task-lifecycle.md: "All of this -- network, dependencies, and the task's
\* own container -- is scoped to this one task execution and torn down before
\* moving on, regardless of whether the task succeeded".  A run that cleans up
\* leaves no network, or says so.
NetworkTornDown ==
    phase = "done" /\ ShouldCleanup => net # "present" \/ told.network

----------------------------------------------------------------------------
(* A daemon that may stop answering, in whichever call.                    *)

\* The steps the engine can always take without an answer from the daemon.
EngineAlone ==
    \/ Interrupted \/ EndPending \/ Escalate \/ AbandonContainers
    \/ ReadRung \/ AbandonNetwork \/ Report \/ KeptGivenUp

EscapeSpec == Init /\ [][Next]_vars /\ WF_vars(EngineAlone)

\* However dead the daemon, no wait of the run is without a rung: a signal ends
\* what it was doing, a further one brings the forced removals or the end, and a
\* SIGINT after that ends it (run_task_internal's selects on the signal counts).
EscapeHatch ==
    /\ phase \in LivePhases /\ count >= 1 ~> phase \in CleanupPhases
    /\ phase \in CleanupPhases /\ count > base ~> rungAt # None \/ phase = "done"
    /\ rungAt # None /\ sigints > rungAt ~> phase = "done"
==========================================================================
