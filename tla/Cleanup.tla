----------------------------- MODULE Cleanup -----------------------------
(***************************************************************************)
(* What run_task_internal does once the run has ended (engine.rs): wait    *)
(* for creates still in flight, stop and remove containers dependents      *)
(* first, remove the network, and report.  Signals climb a ladder: the     *)
(* next one of any kind force-removes what is left at once, and a SIGINT   *)
(* after that abandons cleanup.                                            *)
(***************************************************************************)
EXTENDS TaskContainer

cleanupFrame == <<settings, signalVars, gateVars, endVars, daemonVars>>

\* Owning the network is having recorded it, not having asked for it.
OwnsNetwork == settings.own_network /\ netKnown

ShouldCleanup ==
    IF result \in {"ok", "nonzero"}
      THEN settings.after_success \/ ~settings.top_level
      ELSE settings.after_failure

\* escalate_at: one signal more than when the run ended, of any kind.
Escalated == count >= base + 1

\* The abandon rung: a SIGINT since escalation.
AbandonReached == rungAt # None /\ sigints >= rungAt + 1

----------------------------------------------------------------------------
(* The graceful removals.                                                  *)

\* Mutant: the graph is followed the wrong way, so dependencies stop first.
DependentsToStopFirst_Reversed(c) == {d \in created : d \in Reach[c]}

\* dependents_to_stop_first: created containers that depend on c at any depth,
\* through ones never created too.
DependentsToStopFirst(c) == {d \in created : c \in Reach[d]}

Attempted(removals, c) == removals[c] \in {"removed", "refused"}

\* The loop's head: unless escalated, every queued removal whose dependents
\* have all been attempted is started.
Launched(removals) ==
    [c \in Containers |->
        IF /\ removals[c] = "queued"
           /\ ~Escalated
           /\ \A d \in DependentsToStopFirst(c) : Attempted(removals, d)
          THEN "stopping"
          ELSE removals[c]]

Left(removals) ==
    {c \in created : ~Attempted(removals, c)}

\* Containers are dealt with: the network is next, if the run owns one.
AfterContainers ==
    IF OwnsNetwork THEN phase' = "network_removal" /\ netRem' = "asked"
                   ELSE phase' = "cancels" /\ netRem' = netRem

\* Mutant: nothing stops the wait for the pending creates.
EndPending_WaitsForAnswers ==
    /\ phase = "pending"
    /\ \A c \in Containers : stage[c] \notin {"creating", "preparing"}
    /\ warned' = {}
    /\ IF ShouldCleanup
         THEN /\ rem' = Launched([c \in Containers |->
                                     IF c \in created THEN "queued"
                                                      ELSE "none"])
              /\ IF created = {} THEN AfterContainers
                                 ELSE phase' = "graceful" /\ netRem' = netRem
         ELSE phase' = "cancels" /\ UNCHANGED <<rem, netRem>>
    /\ UNCHANGED <<cleanupFrame, startupVars, cancel, rungAt, abandoned,
                   cleanupFailed, told>>

\* The pending creates have all answered, or escalation stops the wait.  A
\* create with neither an answer nor a registered id is warned about.
EndPending ==
    /\ phase = "pending"
    /\ \/ \A c \in Containers : stage[c] \notin {"creating", "preparing"}
       \/ Escalated
    /\ warned' = {c \in Containers : stage[c] = "creating"}
    /\ IF ShouldCleanup
         THEN /\ rem' = Launched([c \in Containers |->
                                     IF c \in created THEN "queued"
                                                      ELSE "none"])
              /\ IF created = {} THEN AfterContainers
                                 ELSE phase' = "graceful" /\ netRem' = netRem
         ELSE phase' = "cancels" /\ UNCHANGED <<rem, netRem>>
    /\ UNCHANGED <<cleanupFrame, startupVars, cancel, rungAt, abandoned,
                   cleanupFailed, told>>

removalFrame == <<cleanupFrame, startupVars, cancel, phase, rungAt, netRem,
                  abandoned, cleanupFailed, told, warned>>

\* stop_and_remove_container: the stop is answered and the removal asked for,
\* or the stop is refused and no removal is asked for.
StopAnswered(c) ==
    /\ phase = "graceful"
    /\ rem[c] = "stopping"
    /\ \/ box[c] # "running" /\ rem' = [rem EXCEPT ![c] = "removing"]
       \/ "stop" \in MayFail /\ rem' = [rem EXCEPT ![c] = "err"]
    /\ UNCHANGED removalFrame

RemoveAnswered(c) ==
    /\ phase = "graceful"
    /\ rem[c] = "removing"
    /\ \/ box[c] = "gone" /\ rem' = [rem EXCEPT ![c] = "ok"]
       \/ /\ "remove" \in MayFail /\ box[c] \in Existing
          /\ rem' = [rem EXCEPT ![c] = "err"]
    /\ UNCHANGED removalFrame

\* A graceful removal's answer, once it is reported.
Outcome(answer) ==
    IF answer \in {"ok", "err"}
      THEN IF answer = "ok" THEN "removed" ELSE "refused"
      ELSE answer

\* Mutant: a refused removal does not count as a cleanup failure.
ReportStop_ForgivesRefusal(c) ==
    /\ phase = "graceful"
    /\ rem[c] \in {"ok", "err"}
    /\ LET reported == [rem EXCEPT ![c] = Outcome(@)]
       IN /\ rem' = Launched(reported)
          /\ IF Left(reported) = {} THEN AfterContainers
                                    ELSE UNCHANGED <<phase, netRem>>
    /\ UNCHANGED <<cleanupFrame, startupVars, cancel, rungAt, abandoned, told,
                   warned, cleanupFailed>>

\* One outcome is taken from the stops in flight and reported, and the loop
\* goes round.
ReportStop(c) ==
    /\ phase = "graceful"
    /\ rem[c] \in {"ok", "err"}
    /\ cleanupFailed' = (cleanupFailed \/ rem[c] = "err")
    /\ LET reported == [rem EXCEPT ![c] = Outcome(@)]
       IN /\ rem' = Launched(reported)
          /\ IF Left(reported) = {} THEN AfterContainers
                                    ELSE UNCHANGED <<phase, netRem>>
    /\ UNCHANGED <<cleanupFrame, startupVars, cancel, rungAt, abandoned, told,
                   warned>>

----------------------------------------------------------------------------
(* The forced rung.                                                        *)

\* Mutant: the abandon rung's baseline is the SIGINT count before escalation.
Escalate_StaleBaseline ==
    /\ phase = "graceful"
    /\ Escalated
    /\ cleanupFailed' = (cleanupFailed \/ \E c \in created : rem[c] = "err")
    /\ LET drained == [c \in Containers |-> Outcome(rem[c])]
       IN IF Left(drained) = {}
            THEN rem' = drained /\ rungAt' = rungAt /\ AfterContainers
            ELSE /\ phase' = "forced"
                 /\ netRem' = netRem
                 /\ rungAt' = IF sigints > 0 THEN sigints - 1 ELSE 0
                 /\ rem' = [c \in Containers |->
                               IF c \in Left(drained) THEN "forcing"
                                                      ELSE drained[c]]
    /\ UNCHANGED <<cleanupFrame, startupVars, cancel, abandoned, told, warned>>

\* A signal breaks the graceful loop.  Outcomes already in are reported, and
\* everything left is force-removed at once, its graceful stop dropped.
Escalate ==
    /\ phase = "graceful"
    /\ Escalated
    /\ cleanupFailed' = (cleanupFailed \/ \E c \in created : rem[c] = "err")
    /\ LET drained == [c \in Containers |-> Outcome(rem[c])]
       IN IF Left(drained) = {}
            THEN rem' = drained /\ rungAt' = rungAt /\ AfterContainers
            ELSE /\ phase' = "forced"
                 /\ netRem' = netRem
                 /\ rungAt' = sigints
                 /\ rem' = [c \in Containers |->
                               IF c \in Left(drained) THEN "forcing"
                                                      ELSE drained[c]]
    /\ UNCHANGED <<cleanupFrame, startupVars, cancel, abandoned, told, warned>>

\* remove_container_forcibly answers: a container already gone, or already
\* being removed, is the outcome asked for.
ForceAnswered(c) ==
    /\ phase = "forced"
    /\ rem[c] = "forcing"
    /\ \/ /\ box[c] \in {"removing", "gone"}
          /\ rem' = [rem EXCEPT ![c] = "removed"]
          /\ cleanupFailed' = cleanupFailed
       \/ /\ "remove" \in MayFail /\ box[c] \in Existing
          /\ rem' = [rem EXCEPT ![c] = "refused"]
          /\ cleanupFailed' = TRUE
    /\ IF Left(rem') = {} THEN AfterContainers ELSE UNCHANGED <<phase, netRem>>
    /\ UNCHANGED <<cleanupFrame, startupVars, cancel, rungAt, abandoned, told,
                   warned>>

\* The abandon rung is reached with removals in flight.
AbandonContainers ==
    /\ phase = "forced"
    /\ AbandonReached
    /\ abandoned' = TRUE
    /\ cleanupFailed' = TRUE
    /\ phase' = "cancels"
    /\ UNCHANGED <<cleanupFrame, startupVars, cancel, rungAt, rem, netRem,
                   told, warned>>

----------------------------------------------------------------------------
(* The network.                                                            *)

networkFrame == <<cleanupFrame, startupVars, cancel, rem, told, warned>>

NetworkRemovalAnswered ==
    /\ phase = "network_removal"
    /\ \/ /\ net = "gone"
          /\ netRem' = "removed"
          /\ cleanupFailed' = cleanupFailed
       \/ /\ net = "present"
          /\ \/ "network_removal" \in MayFail
             \/ \E c \in Containers : box[c] = "running"
          /\ netRem' = "refused"
          /\ cleanupFailed' = TRUE
    /\ phase' = "cancels"
    /\ UNCHANGED <<networkFrame, rungAt, abandoned>>

\* With no escalation before, the abandon rung first waits for one and only
\* then reads the SIGINT count it measures from.
ReadRung ==
    /\ phase = "network_removal"
    /\ rungAt = None
    /\ Escalated
    /\ rungAt' = sigints
    /\ UNCHANGED <<networkFrame, phase, netRem, cleanupFailed, abandoned>>

AbandonNetwork ==
    /\ phase = "network_removal"
    /\ AbandonReached
    /\ abandoned' = TRUE
    /\ cleanupFailed' = TRUE
    /\ phase' = "cancels"
    /\ UNCHANGED <<networkFrame, rungAt, netRem>>

----------------------------------------------------------------------------
(* Build cancels, the report, and what is kept.                            *)

\* A spawned cancel ends: done, refused, or timed out.
CancelEnds(i) ==
    /\ phase \in CleanupPhases
    /\ cancel[i] = "asked"
    /\ \E answer \in {"answered", "failed"} :
          cancel' = [cancel EXCEPT ![i] = answer]
    /\ UNCHANGED <<cleanupFrame, startupVars, cleanupVars, phase>>

\* Mutant: a cancel the wait stopped for is not warned about.
ReportCancels_OnlyFailures(cancels) ==
    [i \in Images |-> IF cancels[i] = "failed" THEN "warned" ELSE cancels[i]]

\* report_build_cancels: a cancel that failed, or that has not answered by the
\* time a signal stops the wait, leaves a warning.
ReportCancels(cancels) ==
    [i \in Images |-> IF cancels[i] \in {"failed", "asked"} THEN "warned"
                                                            ELSE cancels[i]]

\* What the closing message names: after a failed cleanup whatever was not
\* removed, and under --no-cleanup everything.
LeftBehind ==
    IF ShouldCleanup
      THEN [containers |-> {c \in created : rem[c] # "removed"},
            network |-> OwnsNetwork /\ netRem # "removed"]
      ELSE [containers |-> created, network |-> OwnsNetwork]

Nothing == [containers |-> {}, network |-> FALSE]

\* The cancels are reported, then the closing message.  Kept containers are
\* asked after before the run is over.
Report ==
    /\ phase = "cancels"
    /\ (\A i \in Images : cancel[i] # "asked") \/ Escalated
    /\ cancel' = ReportCancels(cancel)
    /\ told' = IF ShouldCleanup /\ ~cleanupFailed THEN Nothing ELSE LeftBehind
    /\ phase' = IF ShouldCleanup \/ LeftBehind = Nothing THEN "done" ELSE "kept"
    /\ UNCHANGED <<cleanupFrame, startupVars, rungAt, rem, netRem, abandoned,
                   cleanupFailed, warned>>

\* container_is_running answers for what was kept.
KeptInspected ==
    /\ phase = "kept"
    /\ phase' = "done"
    /\ UNCHANGED <<cleanupFrame, startupVars, cleanupVars, cancel>>

\* A signal stops the wait for those answers.
KeptGivenUp ==
    /\ phase = "kept"
    /\ Escalated
    /\ phase' = "done"
    /\ UNCHANGED <<cleanupFrame, startupVars, cleanupVars, cancel>>

\* Mutant: a failed cleanup takes the place of any result.
Final_CleanupFirst == IF cleanupFailed THEN "cleanup_failed" ELSE result

\* A failed cleanup takes the place of a success, and of nothing else.
Final == IF result = "ok" /\ cleanupFailed THEN "cleanup_failed" ELSE result

----------------------------------------------------------------------------

CleanupStep ==
    \/ EndPending \/ Escalate \/ AbandonContainers
    \/ NetworkRemovalAnswered \/ ReadRung \/ AbandonNetwork
    \/ Report \/ KeptInspected \/ KeptGivenUp
    \/ \E c \in Containers : StopAnswered(c) \/ RemoveAnswered(c)
                                \/ ReportStop(c) \/ ForceAnswered(c)
    \/ \E i \in Images : CancelEnds(i)
==========================================================================
