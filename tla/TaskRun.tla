----------------------------- MODULE TaskRun -----------------------------
(***************************************************************************)
(* One task run from its network to its last message (engine.rs,           *)
(* run_task_internal after its prerequisites): startup, the task's own     *)
(* container and cleanup, over a daemon that answers when it likes and a   *)
(* user or supervisor that sends signals when it likes.                    *)
(***************************************************************************)
EXTENDS Cleanup

\* A signal is recorded.  Its four steps are Interrupt's concern.
Signal ==
    /\ phase # "done"
    /\ count < MaxSignals
    /\ count' = count + 1
    /\ \E kind \in {0, 1} : sigints' = sigints + kind
    /\ UNCHANGED <<phase, settings, daemonVars, startupVars, gateVars, endVars,
                   cleanupVars, cancel>>

\* The select that races the execution against interrupted().
Interrupted ==
    /\ phase \in LivePhases
    /\ count >= 1
    /\ EndRun("signal", image)
    /\ UNCHANGED <<settings, signalVars, daemonVars, gateVars, cleanupVars,
                   imageFrame>>

Terminated == phase = "done" /\ UNCHANGED vars

EngineStep == StartupStep \/ TaskContainerStep \/ Interrupted \/ CleanupStep

Next ==
    \/ EngineStep
    \/ DaemonStep
    \/ \E c \in Containers : ContainerExits(c)
    \/ Signal
    \/ Terminated

\* The engine and the daemon keep going, and a container that is to run to
\* completion ends.  The task's own command need not, and nobody need signal.
Fairness ==
    /\ WF_vars(EngineStep \/ DaemonStep)
    /\ \A c \in Completes : WF_vars(ContainerExits(c))

Spec == Init /\ [][Next]_vars /\ Fairness

----------------------------------------------------------------------------
(* Startup.                                                                *)

\* A container runs in the daemon only once everything it depends on, at any
\* depth, has become ready, and a run_to_completion dependency has exited zero
\* by then (ensure_container_ready), however creates, starts, failures, signals
\* and dropped requests interleave.
StartedAfterDependencies ==
    \A c, d \in Containers :
        box[c] = "running" /\ d \in Reach[c] =>
            /\ stage[d] = "ready"
            /\ d \in Completes => box[d] \in {"exited0", "removing", "gone"}

PostsGenuineExits ==
    \A c \in Containers :
        watch'[c] = "posted" /\ watch[c] # "posted" => box[c] \in Exited

\* A dependency-exit watcher never reports, as an unexpected exit, the stop that
\* cleanup itself makes: the watchers are aborted before the first stop.
UnexpectedExitIsGenuine == [][PostsGenuineExits]_vars

\* A main command that had already exited when the readiness gate failed decides
\* the result: its failed gate never does, unless the daemon would not say
\* whether the container was running (decisions/0012).
MainCommandExitWins ==
    result = "gate" /\ gate # "unknown" => ~exitedFirst

----------------------------------------------------------------------------
(* Cleanup.                                                                *)

\* Nothing the run created outlives it unsaid: at the end every container still
\* in the daemon is named, as left behind or as an unanswered create, and so is
\* a network the run had recorded.  Covers creates answered after the run ended,
\* removals refused, dropped, escalated or abandoned, and --no-cleanup.
NoSilentLeak ==
    phase = "done" =>
        /\ \A c \in Containers :
              box[c] \in Existing => c \in told.containers \cup warned
        /\ net = "present" /\ netKnown => told.network

\* A run that reports success after cleaning up left nothing in the daemon: a
\* removal that failed, on any rung, turns success into CleanupFailed.
CleanExitMeansClean ==
    phase = "done" /\ Final = "ok" /\ ShouldCleanup =>
        /\ \A c \in Containers : box[c] \in {"removing", "gone"}
        /\ net # "present"

\* Cleanup never stops a container while one that depends on it, at any depth,
\* is still running, unless that one's own removal was refused.
DependencyOutlivesDependents ==
    \A c, d \in Containers :
        box[c] = "stopped" /\ c \in Reach[d] /\ box[d] = "running"
            => rem[d] = "refused"

ForcesUnanswered ==
    \A c \in Containers :
        rem'[c] = "forcing" /\ rem[c] # "forcing"
            => rem[c] \in {"queued", "stopping", "removing"}

\* A removal the daemon has answered is not asked for again by the forced rung:
\* neither reported twice nor retried after a refusal.
NoSecondRemoval == [][ForcesUnanswered]_vars

\* Cleanup is abandoned only after two signals since the run ended, the later
\* one a SIGINT that arrived after escalation: no single signal, and no number
\* of SIGTERMs from a supervisor, leaves things behind.
AbandonTakesTwoSignals ==
    abandoned => /\ count >= base + 2
                 /\ rungAt # None /\ sigints > rungAt

\* A build in flight when the run ends is cancelled, or a warning says that it
\* may still be running.
BuildsAccountedFor ==
    phase = "done" =>
        \A i \in Built : image[i] = "working" => cancel[i] \in {"answered", "warned"}

----------------------------------------------------------------------------
(* What the chain of tasks sees of the run.                                *)

RunStage ==
    IF phase \in LivePhases THEN "live"
    ELSE IF phase = "done" THEN "over" ELSE "cleanup"

Seen(end) == IF end \in {"none", "ok", "signal"} THEN end ELSE "failed"
RunOutcome == Seen(IF phase = "done" THEN Final ELSE result)

Contract == INSTANCE RunContract
              WITH stage <- RunStage, outcome <- RunOutcome, signals <- count

\* The run keeps RunContract: a run once ended stays ended as it did, signalled
\* only if a signal was recorded, and a failed cleanup replaces a success only.
ImplementsContract == Contract!ContractSpec

----------------------------------------------------------------------------
(* Liveness.                                                               *)

\* Startup never waits on itself: no order of image, create, start and setup
\* calls competing for permits blocks.  A signalled run, and one in cleanup,
\* always ends.
RunEnds ==
    /\ (phase = "startup") ~> (phase # "startup")
    /\ (count > 0 \/ phase \in CleanupPhases) ~> (phase = "done")
==========================================================================
