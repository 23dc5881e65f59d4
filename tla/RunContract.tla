---------------------------- MODULE RunContract ----------------------------
(***************************************************************************)
(* What one task's own run promises the chain of tasks it is part of       *)
(* (run_task_internal in engine.rs): it is live until its execution ends   *)
(* or a signal ends it, then it cleans up, and a failed cleanup takes the  *)
(* place of a success and of nothing else.  TaskRun implements this;       *)
(* TaskChain is built on it.                                               *)
(***************************************************************************)
EXTENDS Naturals

CONSTANT MaxSignals     \* bound on the signals of one invocation

VARIABLES
    stage,      \* "idle", "live", "cleanup" or "over"
    outcome,    \* how the run ended
    signals     \* termination signals recorded

runVars == <<stage, outcome, signals>>

Signalled ==
    /\ signals < MaxSignals
    /\ signals' = signals + 1
    /\ UNCHANGED <<stage, outcome>>

\* The execution ends, well or badly.
Ends ==
    /\ stage = "live"
    /\ stage' = "cleanup"
    /\ outcome' \in {"ok", "failed"}
    /\ UNCHANGED signals

\* The select's other branch: a signal was recorded.
Interrupts ==
    /\ stage = "live"
    /\ signals >= 1
    /\ stage' = "cleanup"
    /\ outcome' = "signal"
    /\ UNCHANGED signals

\* Cleanup ends.
CleansUp ==
    /\ stage = "cleanup"
    /\ stage' = "over"
    /\ \/ outcome' = outcome
       \/ outcome = "ok" /\ outcome' = "failed"
    /\ UNCHANGED signals

ContractInit ==
    /\ stage = "live"
    /\ outcome = "none"
    /\ signals = 0

ContractNext == Signalled \/ Ends \/ Interrupts \/ CleansUp

ContractSpec == ContractInit /\ [][ContractNext]_runVars
============================================================================
