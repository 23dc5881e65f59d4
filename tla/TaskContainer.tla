-------------------------- MODULE TaskContainer --------------------------
(***************************************************************************)
(* Running the task's own container once everything it depends on is ready *)
(* (engine.rs), beside its readiness gate: under the Batect dialect the    *)
(* container must become healthy and run its setup commands while its main *)
(* command is already running, and the two race.                           *)
(***************************************************************************)
EXTENDS Startup

taskFrame == <<settings, signalVars, cleanupVars, daemonVars>>

\* Every container is created and every dependency of the root is ready.
RunTaskContainer ==
    /\ phase = "startup"
    /\ \A c \in Containers : stage[c] \in CreatedStages
    /\ \A d \in Deps[Root] : stage[d] = "ready"
    /\ phase' = "running"
    /\ stage' = [stage EXCEPT ![Root] = "starting"]
    /\ gate' = IF settings.gate THEN "idle" ELSE "off"
    /\ UNCHANGED <<taskFrame, endVars, cancel, image, setups, free, created,
                   netKnown, exitedFirst>>

\* run_container's start is answered; `started` lets the gate begin.
TaskStarted ==
    /\ phase = "running"
    /\ stage[Root] = "starting"
    /\ box[Root] # "created"
    /\ stage' = [stage EXCEPT ![Root] = "running"]
    /\ gate' = IF gate = "idle" THEN "health" ELSE gate
    /\ UNCHANGED <<taskFrame, goingOn, image, setups, free, created, netKnown,
                   exitedFirst>>

\* The output ends and the exit code is read.  run_future is not polled while
\* a failed gate asks whether the container is running.  An exit code of zero
\* forgives a failed gate, and any other is the result in its place.
TaskExits ==
    /\ phase = "running"
    /\ stage[Root] = "running"
    /\ box[Root] \in Exited
    /\ gate # "asking"
    /\ EndRun(IF box[Root] = "exited0" THEN "ok" ELSE "nonzero", image)
    /\ UNCHANGED <<taskFrame, imageFrame, gateVars>>

\* run_container fails otherwise: its attach or start is refused, its output
\* stream breaks, or stdout is closed under it.
TaskFails ==
    /\ phase = "running"
    /\ gate # "asking"
    /\ \/ /\ stage[Root] = "starting"
          /\ "start" \in MayFail
          /\ box[Root] = "created"
          /\ EndRun("failed", image)
       \/ /\ stage[Root] = "running"
          /\ "stream" \in MayFail
          /\ \E outcome \in {"failed", "stdout"} : EndRun(outcome, image)
    /\ UNCHANGED <<taskFrame, imageFrame, gateVars>>

----------------------------------------------------------------------------
(* run_task_container_readiness.                                           *)

GateHealthy ==
    /\ phase = "running"
    /\ gate = "health"
    /\ gate' = IF setups[Root] > 0 THEN "setup" ELSE "passed"
    /\ UNCHANGED <<taskFrame, goingOn, startupVars, exitedFirst>>

GateBeginsSetup ==
    /\ phase = "running"
    /\ gate = "setup"
    /\ free > 0
    /\ free' = free - 1
    /\ gate' = "exec"
    /\ UNCHANGED <<taskFrame, goingOn, imageFrame, image, exitedFirst>>

GateFinishesSetup ==
    /\ phase = "running"
    /\ gate = "exec"
    /\ setups' = [setups EXCEPT ![Root] = @ - 1]
    /\ free' = free + 1
    /\ gate' = IF setups[Root] > 1 THEN "setup" ELSE "passed"
    /\ UNCHANGED <<taskFrame, goingOn, image, stage, created, netKnown,
                   exitedFirst>>

\* Mutant: a failed gate cancels the main command without asking after it.
GateFails_Cancels ==
    /\ phase = "running"
    /\ \/ gate = "health" /\ CanFail("health", Root)
       \/ gate = "exec" /\ CanFail("setup", Root)
    /\ gate' = "grace"
    /\ exitedFirst' = (box[Root] \in Exited)
    /\ free' = IF gate = "exec" THEN free + 1 ELSE free
    /\ UNCHANGED <<taskFrame, goingOn, imageFrame, image>>

\* The gate fails, and container_is_running is asked about the container.
GateFails ==
    /\ phase = "running"
    /\ \/ gate = "health" /\ CanFail("health", Root)
       \/ gate = "exec" /\ CanFail("setup", Root)
    /\ gate' = "asking"
    /\ exitedFirst' = (box[Root] \in Exited)
    /\ free' = IF gate = "exec" THEN free + 1 ELSE free
    /\ UNCHANGED <<taskFrame, goingOn, imageFrame, image>>

\* Not running: the run's own result is awaited.  Running, or no answer: the
\* main command has TASK_CONTAINER_EXIT_GRACE to end by itself.
GateAnswered ==
    /\ phase = "running"
    /\ gate = "asking"
    /\ \/ box[Root] \in Exited /\ gate' = "exited"
       \/ box[Root] = "running" /\ gate' = "grace"
       \/ "inspect" \in MayFail /\ gate' = "unknown"
    /\ UNCHANGED <<taskFrame, goingOn, startupVars, exitedFirst>>

GraceExpires ==
    /\ phase = "running"
    /\ gate \in {"grace", "unknown"}
    /\ EndRun("gate", image)
    /\ UNCHANGED <<taskFrame, imageFrame, gateVars>>

----------------------------------------------------------------------------

TaskContainerStep ==
    \/ RunTaskContainer \/ TaskStarted \/ TaskExits \/ TaskFails
    \/ GateHealthy \/ GateBeginsSetup \/ GateFinishesSetup \/ GateFails
    \/ GateAnswered \/ GraceExpires
==========================================================================
