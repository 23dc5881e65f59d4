--------------------------- MODULE TaskRunProofs ---------------------------
(***************************************************************************)
(* Theorems about one task run, for every dependency graph, number of      *)
(* permits and set of failures.                                            *)
(***************************************************************************)
EXTENDS TaskRun, TLAPS

\* The groups of variables an action leaves alone.
USE DEF signalVars, daemonVars, startupVars, gateVars, endVars, cleanupVars

\* A container in its setup phase has a command left to run, and the task's own
\* container runs its setup commands in the gate and nowhere else.
SetupsLeft ==
    /\ \A c \in Containers : stage[c] \in {"setup", "exec"} => setups[c] > 0
    /\ gate \in {"setup", "exec"} => setups[Root] > 0
    /\ phase \in {"network", "startup"} =>
          gate = "off" /\ stage[Root] \notin {"starting", "running"}
    /\ stage[Root] \notin {"waiting", "setup", "exec", "ready"}

TypeInv == TypeOK /\ SetupsLeft

LEMMA TypeInit == Init => TypeInv
<1> SUFFICES ASSUME Init PROVE TypeInv
  OBVIOUS
<1>1. image \in [Images -> {"checking", "queued", "working", "tagging", "ready", "failed"}]
  BY DEF Init
<1>2. net \in {"none", "asked", "present", "gone"}
  BY DEF Init
<1>3. told \in [containers : SUBSET Containers, network : BOOLEAN]
  BY DEF Init
<1>4. stage \in [Containers -> Stages] /\ rem \in [Containers -> Removals]
  BY DEF Init, Stages, Removals
<1>5. box \in [Containers -> Existing \cup {"none", "removing", "gone"}]
  BY DEF Init, Existing
<1>6. SetupsLeft
  BY TaskAssumption DEF Init, SetupsLeft
<1>7. TypeOK
  BY <1>1, <1>2, <1>3, <1>4, <1>5, TaskAssumption DEF Init, TypeOK, LivePhases, Results
<1> QED
  BY <1>6, <1>7 DEF TypeInv

\* Every action keeps every variable in its type.
LEMMA TypeStep == TypeInv /\ [Next]_vars => TypeInv'
<1> SUFFICES ASSUME TypeInv, [Next]_vars PROVE TypeInv'
  OBVIOUS
<1> USE TaskAssumption DEF TypeInv, TypeOK, SetupsLeft, LivePhases, CleanupPhases, Stages,
      Removals, Results
<1>1. ASSUME NetworkReady PROVE TypeInv'
  <2>1. settings.own_network \in BOOLEAN
    BY Zenon DEF EngineSettings
  <2>2. netKnown' \in BOOLEAN
    BY <1>1, <2>1 DEF NetworkReady
  <2> QED
    BY <1>1, <2>2 DEF NetworkReady, startupFrame, imageFrame, goingOn
<1>2. ASSUME NetworkFails PROVE TypeInv'
  BY <1>2 DEF NetworkFails, EndRun, startupFrame, imageFrame, goingOn
<1>3. ASSUME NEW i \in Images, FindLocalImage(i) PROVE TypeInv'
  BY <1>3 DEF FindLocalImage, startupFrame, imageFrame, goingOn
<1>4. ASSUME NEW i \in Images, BeginImage(i) PROVE TypeInv'
  BY <1>4 DEF BeginImage, startupFrame, imageFrame, goingOn
<1>5. ASSUME NEW i \in Images, FinishImage(i) PROVE TypeInv'
  BY <1>5 DEF FinishImage, startupFrame, imageFrame, goingOn
<1>6. ASSUME NEW i \in Images, ImageFails(i) PROVE TypeInv'
  BY <1>6 DEF ImageFails, EndRun, startupFrame, imageFrame, goingOn
<1>7. ASSUME NEW c \in Containers, RequestCreate(c) PROVE TypeInv'
  BY <1>7 DEF RequestCreate, startupFrame, imageFrame, goingOn
<1>8. ASSUME NEW c \in Containers, RegisterCreated(c) PROVE TypeInv'
  BY <1>8 DEF RegisterCreated, startupFrame, imageFrame, goingOn
<1>9. ASSUME NEW c \in Containers, FinishCreate(c) PROVE TypeInv'
  BY <1>9 DEF FinishCreate, startupFrame, imageFrame, goingOn
<1>10. ASSUME NEW c \in Containers, CreateFails(c) PROVE TypeInv'
  BY <1>10 DEF CreateFails, EndRun, startupFrame, imageFrame, goingOn
<1>11. ASSUME NEW c \in Containers, RequestStart(c) PROVE TypeInv'
  BY <1>11 DEF RequestStart, startupFrame, imageFrame, goingOn
<1>12. ASSUME NEW c \in Containers, Started(c) PROVE TypeInv'
  BY <1>12 DEF Started, startupFrame, imageFrame, goingOn
<1>13. ASSUME NEW c \in Containers, StartFails(c) PROVE TypeInv'
  BY <1>13 DEF StartFails, EndRun, startupFrame, imageFrame, goingOn
<1>14. ASSUME NEW c \in Containers, Waited(c) PROVE TypeInv'
  BY <1>14 DEF Waited, BecomeReady, startupFrame, imageFrame, goingOn
<1>15. ASSUME NEW c \in Containers, WaitFails(c) PROVE TypeInv'
  BY <1>15 DEF WaitFails, EndRun, startupFrame, imageFrame, goingOn
<1>16. ASSUME NEW c \in Containers, BeginSetup(c) PROVE TypeInv'
  BY <1>16 DEF BeginSetup, startupFrame, imageFrame, goingOn
<1>17. ASSUME NEW c \in Containers, FinishSetup(c) PROVE TypeInv'
  BY <1>17 DEF FinishSetup, BecomeReady, startupFrame, imageFrame, goingOn
<1>18. ASSUME NEW c \in Containers, SetupFails(c) PROVE TypeInv'
  BY <1>18 DEF SetupFails, EndRun, startupFrame, imageFrame, goingOn
<1>19. ASSUME NEW c \in Containers, WatcherPosts(c) PROVE TypeInv'
  BY <1>19 DEF WatcherPosts, startupFrame, imageFrame, goingOn
<1>20. ASSUME RunTaskContainer PROVE TypeInv'
  BY <1>20 DEF RunTaskContainer, taskFrame, imageFrame, goingOn
<1>21. ASSUME TaskStarted PROVE TypeInv'
  BY <1>21 DEF TaskStarted, taskFrame, imageFrame, goingOn
<1>22. ASSUME TaskExits PROVE TypeInv'
  BY <1>22 DEF TaskExits, EndRun, Exited, taskFrame, imageFrame, goingOn
<1>23. ASSUME TaskFails PROVE TypeInv'
  BY <1>23 DEF TaskFails, EndRun, taskFrame, imageFrame, goingOn
<1>24. ASSUME GateHealthy PROVE TypeInv'
  BY <1>24 DEF GateHealthy, taskFrame, imageFrame, goingOn
<1>25. ASSUME GateBeginsSetup PROVE TypeInv'
  BY <1>25 DEF GateBeginsSetup, taskFrame, imageFrame, goingOn
<1>26. ASSUME GateFinishesSetup PROVE TypeInv'
  BY <1>26 DEF GateFinishesSetup, taskFrame, imageFrame, goingOn
<1>27. ASSUME GateFails PROVE TypeInv'
  BY <1>27 DEF GateFails, CanFail, Exited, taskFrame, imageFrame, goingOn
<1>28. ASSUME GateAnswered PROVE TypeInv'
  BY <1>28 DEF GateAnswered, taskFrame, imageFrame, goingOn
<1>29. ASSUME GraceExpires PROVE TypeInv'
  BY <1>29 DEF GraceExpires, EndRun, taskFrame, imageFrame, goingOn
<1>30. ASSUME EndPending PROVE TypeInv'
  BY <1>30 DEF EndPending, Launched, AfterContainers, cleanupFrame,
      networkFrame
<1>31. ASSUME Escalate PROVE TypeInv'
  <2>1. cleanupFailed' \in BOOLEAN
    BY <1>31, Zenon DEF Escalate
  <2>2. \A c \in Containers : Outcome(rem[c]) \in Removals
    BY DEF Outcome
  <2> DEFINE drained == [c \in Containers |-> Outcome(rem[c])]
  <2>3. rem' \in [Containers -> Removals]
    <3>1. drained \in [Containers -> Removals]
      BY <2>2
    <3>2. rem' = drained \/ rem' = [c \in Containers |->
                                     IF c \in Left(drained) THEN "forcing" ELSE drained[c]]
      BY <1>31 DEF Escalate
    <3> QED
      <4> HIDE DEF drained
      <4>1. CASE rem' = drained
        BY <3>1, <4>1
      <4>2. CASE rem' # drained
        BY <3>1, <3>2, <4>2
      <4> QED
        BY <4>1, <4>2
  <2>4. phase' \in CleanupPhases /\ netRem' \in {"none", "asked", "removed", "refused"}
    BY <1>31 DEF Escalate, AfterContainers
  <2>5. rungAt' \in Nat \cup {None}
    BY <1>31 DEF Escalate
  <2> HIDE DEF drained
  <2> QED
    BY <1>31, <2>1, <2>3, <2>4, <2>5 DEF Escalate, cleanupFrame
<1>32. ASSUME AbandonContainers PROVE TypeInv'
  BY <1>32 DEF AbandonContainers, cleanupFrame, networkFrame
<1>33. ASSUME NetworkRemovalAnswered PROVE TypeInv'
  <2>1. cleanupFailed' \in BOOLEAN /\ netRem' \in {"none", "asked", "removed", "refused"}
    BY <1>33, Zenon DEF NetworkRemovalAnswered
  <2> QED
    BY <1>33, <2>1 DEF NetworkRemovalAnswered, cleanupFrame, networkFrame
<1>34. ASSUME ReadRung PROVE TypeInv'
  BY <1>34 DEF ReadRung, cleanupFrame, networkFrame
<1>35. ASSUME AbandonNetwork PROVE TypeInv'
  BY <1>35 DEF AbandonNetwork, cleanupFrame, networkFrame
<1>36. ASSUME Report PROVE TypeInv'
  <2>1. OwnsNetwork \in BOOLEAN /\ (OwnsNetwork /\ netRem # "removed") \in BOOLEAN
    BY Zenon DEF OwnsNetwork
  <2>2. LeftBehind \in [containers : SUBSET Containers, network : BOOLEAN]
    BY <2>1 DEF LeftBehind
  <2>3. Nothing \in [containers : SUBSET Containers, network : BOOLEAN]
    BY DEF Nothing
  <2>4. told' \in [containers : SUBSET Containers, network : BOOLEAN]
    BY <1>36, <2>2, <2>3 DEF Report
  <2>5. phase' \in CleanupPhases
    BY <1>36 DEF Report
  <2>6. cancel' \in [Images -> {"none", "asked", "answered", "failed", "warned"}]
    BY <1>36 DEF Report, ReportCancels
  <2> QED
    BY <1>36, <2>4, <2>5, <2>6 DEF Report, cleanupFrame
<1>37. ASSUME KeptInspected PROVE TypeInv'
  BY <1>37 DEF KeptInspected, cleanupFrame, networkFrame
<1>38. ASSUME KeptGivenUp PROVE TypeInv'
  BY <1>38 DEF KeptGivenUp, cleanupFrame, networkFrame
<1>39. ASSUME NEW c \in Containers, StopAnswered(c) PROVE TypeInv'
  BY <1>39 DEF StopAnswered, cleanupFrame, removalFrame
<1>40. ASSUME NEW c \in Containers, RemoveAnswered(c) PROVE TypeInv'
  BY <1>40 DEF RemoveAnswered, cleanupFrame, removalFrame
<1>41. ASSUME NEW c \in Containers, ReportStop(c) PROVE TypeInv'
  BY <1>41 DEF ReportStop, Outcome, Launched, AfterContainers, cleanupFrame,
      removalFrame
<1>42. ASSUME NEW c \in Containers, ForceAnswered(c) PROVE TypeInv'
  <2>1. cleanupFailed' \in BOOLEAN
    BY <1>42, Zenon DEF ForceAnswered
  <2>2. rem' \in [Containers -> Removals]
    BY <1>42 DEF ForceAnswered
  <2>3. phase' \in CleanupPhases /\ netRem' \in {"none", "asked", "removed", "refused"}
    BY <1>42 DEF ForceAnswered, AfterContainers
  <2> QED
    BY <1>42, <2>1, <2>2, <2>3 DEF ForceAnswered, cleanupFrame
<1>43. ASSUME NEW i \in Images, CancelEnds(i) PROVE TypeInv'
  BY <1>43 DEF CancelEnds, cleanupFrame
<1>44. ASSUME DaemonCreatesNetwork PROVE TypeInv'
  BY <1>44 DEF DaemonCreatesNetwork, daemonFrame
<1>45. ASSUME DaemonRemovesNetwork PROVE TypeInv'
  BY <1>45 DEF DaemonRemovesNetwork, daemonFrame
<1>46. ASSUME NEW c \in Containers, DaemonCreates(c) PROVE TypeInv'
  BY <1>46 DEF DaemonCreates, Existing, daemonFrame
<1>47. ASSUME NEW c \in Containers, DaemonStarts(c) PROVE TypeInv'
  BY <1>47 DEF DaemonStarts, Existing, daemonFrame
<1>48. ASSUME NEW c \in Containers, DaemonStops(c) PROVE TypeInv'
  BY <1>48 DEF DaemonStops, Existing, daemonFrame
<1>49. ASSUME NEW c \in Containers, DaemonBeginsRemoval(c) PROVE TypeInv'
  BY <1>49 DEF DaemonBeginsRemoval, Existing, daemonFrame
<1>50. ASSUME NEW c \in Containers, DaemonRemoves(c) PROVE TypeInv'
  BY <1>50 DEF DaemonRemoves, daemonFrame
<1>51. ASSUME NEW c \in Containers, ContainerExits(c) PROVE TypeInv'
  BY <1>51 DEF ContainerExits, Exited, Existing, daemonFrame
<1>52. ASSUME Signal PROVE TypeInv'
  BY <1>52 DEF Signal, imageFrame, vars
<1>53. ASSUME Interrupted PROVE TypeInv'
  BY <1>53 DEF Interrupted, EndRun, imageFrame, vars
<1>54. ASSUME Terminated PROVE TypeInv'
  BY <1>54 DEF Terminated, imageFrame, vars
<1>55. CASE UNCHANGED vars
  BY <1>55 DEF vars
<1> QED
  BY <1>1, <1>2, <1>3, <1>4, <1>5, <1>6, <1>7, <1>8, <1>9, <1>10, <1>11,
      <1>12, <1>13, <1>14, <1>15, <1>16, <1>17, <1>18, <1>19, <1>20, <1>21,
      <1>22, <1>23, <1>24, <1>25, <1>26, <1>27, <1>28, <1>29, <1>30, <1>31,
      <1>32, <1>33, <1>34, <1>35, <1>36, <1>37, <1>38, <1>39, <1>40, <1>41,
      <1>42, <1>43, <1>44, <1>45, <1>46, <1>47, <1>48, <1>49, <1>50, <1>51,
      <1>52, <1>53, <1>54, <1>55
      DEF Next, EngineStep, StartupStep, TaskContainerStep, CleanupStep, DaemonStep

\* Every variable of the run keeps its type, for every graph and every bound.
THEOREM TypeCorrect == Spec => []TypeOK
<1>1. TypeInv => TypeOK
  BY DEF TypeInv
<1> QED
  BY TypeInit, TypeStep, <1>1, PTL DEF Spec

(***************************************************************************)
(* The safety invariants.                                                  *)
(***************************************************************************)

\* The signal ladder: the rung is read only once escalated, every SIGINT since
\* then is a signal since then, and abandoning is the end of the removals.
LadderInv ==
    /\ phase \in LivePhases => rungAt = None
    /\ phase \notin LivePhases => base <= count
    /\ rungAt # None => count >= base + 1
                           /\ rungAt <= sigints
                           /\ sigints - rungAt <= count - (base + 1)
    /\ abandoned => /\ phase \in {"cancels", "kept", "done"}
                    /\ rungAt # None /\ sigints > rungAt

\* Nothing is stopped or removed while the run lasts, and nothing is watched
\* after it.
WatchInv ==
    /\ phase \in LivePhases =>
          \A c \in Containers : /\ rem[c] = "none"
                                /\ box[c] \notin {"stopped", "removing", "gone"}
    /\ phase \notin LivePhases => \A c \in Containers : watch[c] # "watching"

\* A main command that had exited when the gate failed is found exited.
GateInv ==
    /\ phase \in LivePhases => result = "none"
    /\ phase \in LivePhases /\ exitedFirst => box[Root] \in Exited
    /\ gate = "grace" => ~exitedFirst
    /\ MainCommandExitWins

\* Every created container has a removal under way in the graceful phase.
RemovalInv == phase = "graceful" => \A c \in created : rem[c] # "none"

RunInv == LadderInv /\ WatchInv /\ GateInv /\ RemovalInv

LEMMA RunInit == Init => RunInv
BY TaskAssumption DEF Init, RunInv, LadderInv, WatchInv, GateInv, RemovalInv,
    MainCommandExitWins, LivePhases

\* Every action keeps the invariants, posts only genuine exits and forces only
\* removals that have no answer.
LEMMA RunStep ==
    TypeInv /\ RunInv /\ [Next]_vars => RunInv' /\ PostsGenuineExits /\ ForcesUnanswered
<1> SUFFICES ASSUME TypeInv, RunInv, [Next]_vars
             PROVE RunInv' /\ PostsGenuineExits /\ ForcesUnanswered
  OBVIOUS
<1> DEFINE RunOK == RunInv' /\ PostsGenuineExits /\ ForcesUnanswered
<1> USE TaskAssumption DEF TypeInv, TypeOK, RunInv, LadderInv, WatchInv, GateInv, RemovalInv,
      MainCommandExitWins, PostsGenuineExits, ForcesUnanswered, LivePhases, CleanupPhases,
      Exited
<1>1. ASSUME NetworkReady PROVE RunOK
  BY <1>1 DEF NetworkReady, startupFrame
<1>2. ASSUME NetworkFails PROVE RunOK
  BY <1>2 DEF NetworkFails, EndRun, startupFrame, imageFrame, goingOn
<1>3. ASSUME NEW i \in Images, FindLocalImage(i) PROVE RunOK
  BY <1>3 DEF FindLocalImage, startupFrame, imageFrame, goingOn
<1>4. ASSUME NEW i \in Images, BeginImage(i) PROVE RunOK
  BY <1>4 DEF BeginImage, startupFrame, imageFrame, goingOn
<1>5. ASSUME NEW i \in Images, FinishImage(i) PROVE RunOK
  BY <1>5 DEF FinishImage, startupFrame, imageFrame, goingOn
<1>6. ASSUME NEW i \in Images, ImageFails(i) PROVE RunOK
  BY <1>6 DEF ImageFails, EndRun, startupFrame, imageFrame, goingOn
<1>7. ASSUME NEW c \in Containers, RequestCreate(c) PROVE RunOK
  BY <1>7 DEF RequestCreate, startupFrame, imageFrame, goingOn
<1>8. ASSUME NEW c \in Containers, RegisterCreated(c) PROVE RunOK
  BY <1>8 DEF RegisterCreated, startupFrame, imageFrame, goingOn
<1>9. ASSUME NEW c \in Containers, FinishCreate(c) PROVE RunOK
  BY <1>9 DEF FinishCreate, startupFrame, imageFrame, goingOn
<1>10. ASSUME NEW c \in Containers, CreateFails(c) PROVE RunOK
  BY <1>10 DEF CreateFails, EndRun, startupFrame, imageFrame, goingOn
<1>11. ASSUME NEW c \in Containers, RequestStart(c) PROVE RunOK
  BY <1>11 DEF RequestStart, startupFrame, imageFrame, goingOn
<1>12. ASSUME NEW c \in Containers, Started(c) PROVE RunOK
  BY <1>12 DEF Started, startupFrame, imageFrame, goingOn
<1>13. ASSUME NEW c \in Containers, StartFails(c) PROVE RunOK
  BY <1>13 DEF StartFails, EndRun, startupFrame, imageFrame, goingOn
<1>14. ASSUME NEW c \in Containers, Waited(c) PROVE RunOK
  BY <1>14 DEF Waited, BecomeReady, startupFrame, imageFrame, goingOn
<1>15. ASSUME NEW c \in Containers, WaitFails(c) PROVE RunOK
  BY <1>15 DEF WaitFails, EndRun, startupFrame, imageFrame, goingOn
<1>16. ASSUME NEW c \in Containers, BeginSetup(c) PROVE RunOK
  BY <1>16 DEF BeginSetup, startupFrame, imageFrame, goingOn
<1>17. ASSUME NEW c \in Containers, FinishSetup(c) PROVE RunOK
  BY <1>17 DEF FinishSetup, BecomeReady, startupFrame, imageFrame, goingOn
<1>18. ASSUME NEW c \in Containers, SetupFails(c) PROVE RunOK
  BY <1>18 DEF SetupFails, EndRun, startupFrame, imageFrame, goingOn
<1>19. ASSUME NEW c \in Containers, WatcherPosts(c) PROVE RunOK
  BY <1>19 DEF WatcherPosts, startupFrame, imageFrame, goingOn
<1>20. ASSUME RunTaskContainer PROVE RunOK
  BY <1>20 DEF RunTaskContainer, taskFrame, imageFrame, goingOn
<1>21. ASSUME TaskStarted PROVE RunOK
  BY <1>21 DEF TaskStarted, taskFrame, imageFrame, goingOn
<1>22. ASSUME TaskExits PROVE RunOK
  BY <1>22 DEF TaskExits, EndRun, Exited, taskFrame, imageFrame, goingOn
<1>23. ASSUME TaskFails PROVE RunOK
  BY <1>23 DEF TaskFails, EndRun, taskFrame, imageFrame, goingOn
<1>24. ASSUME GateHealthy PROVE RunOK
  BY <1>24 DEF GateHealthy, taskFrame, imageFrame, goingOn
<1>25. ASSUME GateBeginsSetup PROVE RunOK
  BY <1>25 DEF GateBeginsSetup, taskFrame, imageFrame, goingOn
<1>26. ASSUME GateFinishesSetup PROVE RunOK
  BY <1>26 DEF GateFinishesSetup, taskFrame, imageFrame, goingOn
<1>27. ASSUME GateFails PROVE RunOK
  BY <1>27 DEF GateFails, CanFail, Exited, taskFrame, imageFrame, goingOn
<1>28. ASSUME GateAnswered PROVE RunOK
  BY <1>28 DEF GateAnswered, taskFrame, imageFrame, goingOn
<1>29. ASSUME GraceExpires PROVE RunOK
  BY <1>29 DEF GraceExpires, EndRun, taskFrame, imageFrame, goingOn
<1>30. ASSUME EndPending PROVE RunOK
  BY <1>30 DEF EndPending, Launched, AfterContainers, cleanupFrame,
      networkFrame, Escalated
<1>31. ASSUME Escalate PROVE RunOK
  <2>1. phase = "graceful" /\ phase' \in {"forced", "network_removal", "cancels"}
    BY <1>31 DEF Escalate, AfterContainers
  <2>2. LadderInv'
    <3>1. /\ rungAt' \in {rungAt, sigints}
          /\ count >= base + 1
          /\ UNCHANGED <<count, sigints, base, abandoned>>
      BY <1>31 DEF Escalate, Escalated, cleanupFrame
    <3>2. rungAt' # None => rungAt' <= sigints /\ sigints - rungAt' <= count - (base + 1)
      <4>1. count \in Nat /\ sigints \in Nat /\ base \in Nat
        OBVIOUS
      <4>2. CASE rungAt' = rungAt
        BY <4>2
      <4>3. CASE rungAt' = sigints
        BY <3>1, <4>1, <4>3
      <4> QED
        BY <3>1, <4>2, <4>3
    <3> QED
      BY <2>1, <3>1, <3>2
  <2>3. (WatchInv /\ GateInv /\ RemovalInv)' /\ PostsGenuineExits
    BY <1>31, <2>1 DEF Escalate, cleanupFrame
  <2>4. ASSUME NEW c \in Containers, rem'[c] = "forcing", rem[c] # "forcing"
        PROVE  rem[c] \in {"queued", "stopping", "removing"}
    <3> DEFINE drained == [d \in Containers |-> Outcome(rem[d])]
    <3>1. drained[c] # "forcing"
      BY <2>4 DEF Outcome
    <3>2. c \in Left(drained)
      BY <1>31, <2>4, <3>1 DEF Escalate
    <3>3. c \in created /\ drained[c] \notin {"removed", "refused"}
      BY <3>2 DEF Left, Attempted
    <3>4. rem[c] \notin {"none", "ok", "err", "removed", "refused"}
      BY <2>1, <3>3 DEF Outcome
    <3> QED
      BY <2>4, <3>4 DEF Removals
  <2> QED
    BY <2>2, <2>3, <2>4
<1>32. ASSUME AbandonContainers PROVE RunOK
  BY <1>32 DEF AbandonContainers, cleanupFrame, networkFrame, AbandonReached
<1>33. ASSUME NetworkRemovalAnswered PROVE RunOK
  BY <1>33 DEF NetworkRemovalAnswered, cleanupFrame, networkFrame
<1>34. ASSUME ReadRung PROVE RunOK
  BY <1>34 DEF ReadRung, cleanupFrame, networkFrame, Escalated
<1>35. ASSUME AbandonNetwork PROVE RunOK
  BY <1>35 DEF AbandonNetwork, cleanupFrame, networkFrame, AbandonReached
<1>36. ASSUME Report PROVE RunOK
  BY <1>36 DEF Report, cleanupFrame
<1>37. ASSUME KeptInspected PROVE RunOK
  BY <1>37 DEF KeptInspected, cleanupFrame, networkFrame
<1>38. ASSUME KeptGivenUp PROVE RunOK
  BY <1>38 DEF KeptGivenUp, cleanupFrame, networkFrame
<1>39. ASSUME NEW c \in Containers, StopAnswered(c) PROVE RunOK
  BY <1>39 DEF StopAnswered, cleanupFrame, removalFrame
<1>40. ASSUME NEW c \in Containers, RemoveAnswered(c) PROVE RunOK
  BY <1>40 DEF RemoveAnswered, cleanupFrame, removalFrame
<1>41. ASSUME NEW c \in Containers, ReportStop(c) PROVE RunOK
  BY <1>41 DEF ReportStop, Outcome, Launched, AfterContainers, cleanupFrame,
      removalFrame, Escalated
<1>42. ASSUME NEW c \in Containers, ForceAnswered(c) PROVE RunOK
  BY <1>42 DEF ForceAnswered, AfterContainers, cleanupFrame
<1>43. ASSUME NEW i \in Images, CancelEnds(i) PROVE RunOK
  BY <1>43 DEF CancelEnds, cleanupFrame
<1>44. ASSUME DaemonCreatesNetwork PROVE RunOK
  BY <1>44 DEF DaemonCreatesNetwork, daemonFrame
<1>45. ASSUME DaemonRemovesNetwork PROVE RunOK
  BY <1>45 DEF DaemonRemovesNetwork, daemonFrame
<1>46. ASSUME NEW c \in Containers, DaemonCreates(c) PROVE RunOK
  BY <1>46 DEF DaemonCreates, Existing, daemonFrame
<1>47. ASSUME NEW c \in Containers, DaemonStarts(c) PROVE RunOK
  BY <1>47 DEF DaemonStarts, Existing, daemonFrame
<1>48. ASSUME NEW c \in Containers, DaemonStops(c) PROVE RunOK
  BY <1>48 DEF DaemonStops, Existing, daemonFrame
<1>49. ASSUME NEW c \in Containers, DaemonBeginsRemoval(c) PROVE RunOK
  BY <1>49 DEF DaemonBeginsRemoval, Existing, daemonFrame
<1>50. ASSUME NEW c \in Containers, DaemonRemoves(c) PROVE RunOK
  BY <1>50 DEF DaemonRemoves, daemonFrame
<1>51. ASSUME NEW c \in Containers, ContainerExits(c) PROVE RunOK
  BY <1>51 DEF ContainerExits, Exited, Existing, daemonFrame
<1>52. ASSUME Signal PROVE RunOK
  BY <1>52 DEF Signal, imageFrame, vars
<1>53. ASSUME Interrupted PROVE RunOK
  BY <1>53 DEF Interrupted, EndRun, imageFrame, vars
<1>54. ASSUME Terminated PROVE RunOK
  BY <1>54 DEF Terminated, imageFrame, vars
<1>55. CASE UNCHANGED vars
  BY <1>55 DEF vars
<1> QED
  BY <1>1, <1>2, <1>3, <1>4, <1>5, <1>6, <1>7, <1>8, <1>9, <1>10, <1>11,
      <1>12, <1>13, <1>14, <1>15, <1>16, <1>17, <1>18, <1>19, <1>20, <1>21,
      <1>22, <1>23, <1>24, <1>25, <1>26, <1>27, <1>28, <1>29, <1>30, <1>31,
      <1>32, <1>33, <1>34, <1>35, <1>36, <1>37, <1>38, <1>39, <1>40, <1>41,
      <1>42, <1>43, <1>44, <1>45, <1>46, <1>47, <1>48, <1>49, <1>50, <1>51,
      <1>52, <1>53, <1>54, <1>55
      DEF Next, EngineStep, StartupStep, TaskContainerStep, CleanupStep, DaemonStep

LEMMA RunInvHolds == Spec => [](TypeInv /\ RunInv)
<1>1. Init => TypeInv /\ RunInv
  BY TypeInit, RunInit
<1>2. TypeInv /\ RunInv /\ [Next]_vars => (TypeInv /\ RunInv)'
  BY TypeStep, RunStep
<1> QED
  BY <1>1, <1>2, PTL DEF Spec

\* Cleanup is abandoned only by a SIGINT that follows another signal sent after
\* the run ended (engine.rs, the cleanup ladder).
THEOREM AbandonTakesTwoSignalsHolds == Spec => []AbandonTakesTwoSignals
<1>1. TypeInv /\ RunInv => AbandonTakesTwoSignals
  BY TaskAssumption DEF TypeInv, TypeOK, RunInv, LadderInv, AbandonTakesTwoSignals
<1> QED
  BY RunInvHolds, <1>1, PTL

\* A main command that had exited when its gate failed decides the result.
THEOREM MainCommandExitWinsHolds == Spec => []MainCommandExitWins
<1>1. RunInv => MainCommandExitWins
  BY DEF RunInv, GateInv
<1> QED
  BY RunInvHolds, <1>1, PTL

\* No watcher reports a stop that cleanup made.
THEOREM UnexpectedExitIsGenuineHolds == Spec => UnexpectedExitIsGenuine
<1>1. TypeInv /\ RunInv /\ [Next]_vars => [PostsGenuineExits]_vars
  BY RunStep
<1> QED
  BY RunInvHolds, <1>1, PTL DEF Spec, UnexpectedExitIsGenuine

\* The forced rung asks for no removal that has been answered.
THEOREM NoSecondRemovalHolds == Spec => NoSecondRemoval
<1>1. TypeInv /\ RunInv /\ [Next]_vars => [ForcesUnanswered]_vars
  BY RunStep
<1> QED
  BY RunInvHolds, <1>1, PTL DEF Spec, NoSecondRemoval

(***************************************************************************)
(* The run implements its contract.                                        *)
(***************************************************************************)

\* Every step of the run is a step of the contract or is not seen by it.
LEMMA ContractStep ==
    TypeInv /\ RunInv /\ [Next]_vars => [Contract!ContractNext]_(Contract!runVars)
<1> SUFFICES ASSUME TypeInv, RunInv, [Next]_vars
             PROVE [Contract!ContractNext]_(Contract!runVars)
  OBVIOUS
<1> DEFINE Goal == [Contract!ContractNext]_(Contract!runVars)
<1> USE TaskAssumption DEF TypeInv, TypeOK, RunInv, GateInv, LivePhases, CleanupPhases, Exited,
      RunStage, RunOutcome, Seen, Final, Contract!ContractNext, Contract!runVars,
      Contract!Signalled, Contract!Ends, Contract!Interrupts, Contract!CleansUp
<1>1. ASSUME NetworkReady PROVE Goal
  BY <1>1 DEF NetworkReady, startupFrame
<1>2. ASSUME NetworkFails PROVE Goal
  BY <1>2 DEF NetworkFails, EndRun, startupFrame, imageFrame, goingOn
<1>3. ASSUME NEW i \in Images, FindLocalImage(i) PROVE Goal
  BY <1>3 DEF FindLocalImage, startupFrame, imageFrame, goingOn
<1>4. ASSUME NEW i \in Images, BeginImage(i) PROVE Goal
  BY <1>4 DEF BeginImage, startupFrame, imageFrame, goingOn
<1>5. ASSUME NEW i \in Images, FinishImage(i) PROVE Goal
  BY <1>5 DEF FinishImage, startupFrame, imageFrame, goingOn
<1>6. ASSUME NEW i \in Images, ImageFails(i) PROVE Goal
  BY <1>6 DEF ImageFails, EndRun, startupFrame, imageFrame, goingOn
<1>7. ASSUME NEW c \in Containers, RequestCreate(c) PROVE Goal
  BY <1>7 DEF RequestCreate, startupFrame, imageFrame, goingOn
<1>8. ASSUME NEW c \in Containers, RegisterCreated(c) PROVE Goal
  BY <1>8 DEF RegisterCreated, startupFrame, imageFrame, goingOn
<1>9. ASSUME NEW c \in Containers, FinishCreate(c) PROVE Goal
  BY <1>9 DEF FinishCreate, startupFrame, imageFrame, goingOn
<1>10. ASSUME NEW c \in Containers, CreateFails(c) PROVE Goal
  BY <1>10 DEF CreateFails, EndRun, startupFrame, imageFrame, goingOn
<1>11. ASSUME NEW c \in Containers, RequestStart(c) PROVE Goal
  BY <1>11 DEF RequestStart, startupFrame, imageFrame, goingOn
<1>12. ASSUME NEW c \in Containers, Started(c) PROVE Goal
  BY <1>12 DEF Started, startupFrame, imageFrame, goingOn
<1>13. ASSUME NEW c \in Containers, StartFails(c) PROVE Goal
  BY <1>13 DEF StartFails, EndRun, startupFrame, imageFrame, goingOn
<1>14. ASSUME NEW c \in Containers, Waited(c) PROVE Goal
  BY <1>14 DEF Waited, BecomeReady, startupFrame, imageFrame, goingOn
<1>15. ASSUME NEW c \in Containers, WaitFails(c) PROVE Goal
  BY <1>15 DEF WaitFails, EndRun, startupFrame, imageFrame, goingOn
<1>16. ASSUME NEW c \in Containers, BeginSetup(c) PROVE Goal
  BY <1>16 DEF BeginSetup, startupFrame, imageFrame, goingOn
<1>17. ASSUME NEW c \in Containers, FinishSetup(c) PROVE Goal
  BY <1>17 DEF FinishSetup, BecomeReady, startupFrame, imageFrame, goingOn
<1>18. ASSUME NEW c \in Containers, SetupFails(c) PROVE Goal
  BY <1>18 DEF SetupFails, EndRun, startupFrame, imageFrame, goingOn
<1>19. ASSUME NEW c \in Containers, WatcherPosts(c) PROVE Goal
  BY <1>19 DEF WatcherPosts, startupFrame, imageFrame, goingOn
<1>20. ASSUME RunTaskContainer PROVE Goal
  BY <1>20 DEF RunTaskContainer, taskFrame, imageFrame, goingOn
<1>21. ASSUME TaskStarted PROVE Goal
  BY <1>21 DEF TaskStarted, taskFrame, imageFrame, goingOn
<1>22. ASSUME TaskExits PROVE Goal
  BY <1>22 DEF TaskExits, EndRun, Exited, taskFrame, imageFrame, goingOn
<1>23. ASSUME TaskFails PROVE Goal
  BY <1>23 DEF TaskFails, EndRun, taskFrame, imageFrame, goingOn
<1>24. ASSUME GateHealthy PROVE Goal
  BY <1>24 DEF GateHealthy, taskFrame, imageFrame, goingOn
<1>25. ASSUME GateBeginsSetup PROVE Goal
  BY <1>25 DEF GateBeginsSetup, taskFrame, imageFrame, goingOn
<1>26. ASSUME GateFinishesSetup PROVE Goal
  BY <1>26 DEF GateFinishesSetup, taskFrame, imageFrame, goingOn
<1>27. ASSUME GateFails PROVE Goal
  BY <1>27 DEF GateFails, CanFail, Exited, taskFrame, imageFrame, goingOn
<1>28. ASSUME GateAnswered PROVE Goal
  BY <1>28 DEF GateAnswered, taskFrame, imageFrame, goingOn
<1>29. ASSUME GraceExpires PROVE Goal
  BY <1>29 DEF GraceExpires, EndRun, taskFrame, imageFrame, goingOn
<1>30. ASSUME EndPending PROVE Goal
  BY <1>30 DEF EndPending, AfterContainers, cleanupFrame, networkFrame
<1>31. ASSUME Escalate PROVE Goal
  BY <1>31 DEF Escalate, AfterContainers, cleanupFrame
<1>32. ASSUME AbandonContainers PROVE Goal
  BY <1>32 DEF AbandonContainers, cleanupFrame, networkFrame
<1>33. ASSUME NetworkRemovalAnswered PROVE Goal
  BY <1>33 DEF NetworkRemovalAnswered, cleanupFrame, networkFrame
<1>34. ASSUME ReadRung PROVE Goal
  BY <1>34 DEF ReadRung, cleanupFrame, networkFrame
<1>35. ASSUME AbandonNetwork PROVE Goal
  BY <1>35 DEF AbandonNetwork, cleanupFrame, networkFrame
<1>36. ASSUME Report PROVE Goal
  BY <1>36 DEF Report, cleanupFrame
<1>37. ASSUME KeptInspected PROVE Goal
  BY <1>37 DEF KeptInspected, cleanupFrame, networkFrame
<1>38. ASSUME KeptGivenUp PROVE Goal
  BY <1>38 DEF KeptGivenUp, cleanupFrame, networkFrame
<1>39. ASSUME NEW c \in Containers, StopAnswered(c) PROVE Goal
  BY <1>39 DEF StopAnswered, cleanupFrame, removalFrame
<1>40. ASSUME NEW c \in Containers, RemoveAnswered(c) PROVE Goal
  BY <1>40 DEF RemoveAnswered, cleanupFrame, removalFrame
<1>41. ASSUME NEW c \in Containers, ReportStop(c) PROVE Goal
  BY <1>41 DEF ReportStop, AfterContainers, cleanupFrame, removalFrame
<1>42. ASSUME NEW c \in Containers, ForceAnswered(c) PROVE Goal
  BY <1>42 DEF ForceAnswered, AfterContainers, cleanupFrame
<1>43. ASSUME NEW i \in Images, CancelEnds(i) PROVE Goal
  BY <1>43 DEF CancelEnds, cleanupFrame
<1>44. ASSUME DaemonCreatesNetwork PROVE Goal
  BY <1>44 DEF DaemonCreatesNetwork, daemonFrame
<1>45. ASSUME DaemonRemovesNetwork PROVE Goal
  BY <1>45 DEF DaemonRemovesNetwork, daemonFrame
<1>46. ASSUME NEW c \in Containers, DaemonCreates(c) PROVE Goal
  BY <1>46 DEF DaemonCreates, Existing, daemonFrame
<1>47. ASSUME NEW c \in Containers, DaemonStarts(c) PROVE Goal
  BY <1>47 DEF DaemonStarts, Existing, daemonFrame
<1>48. ASSUME NEW c \in Containers, DaemonStops(c) PROVE Goal
  BY <1>48 DEF DaemonStops, Existing, daemonFrame
<1>49. ASSUME NEW c \in Containers, DaemonBeginsRemoval(c) PROVE Goal
  BY <1>49 DEF DaemonBeginsRemoval, Existing, daemonFrame
<1>50. ASSUME NEW c \in Containers, DaemonRemoves(c) PROVE Goal
  BY <1>50 DEF DaemonRemoves, daemonFrame
<1>51. ASSUME NEW c \in Containers, ContainerExits(c) PROVE Goal
  BY <1>51 DEF ContainerExits, Exited, Existing, daemonFrame
<1>52. ASSUME Signal PROVE Goal
  BY <1>52 DEF Signal, imageFrame, vars
<1>53. ASSUME Interrupted PROVE Goal
  BY <1>53 DEF Interrupted, EndRun, imageFrame, vars
<1>54. ASSUME Terminated PROVE Goal
  BY <1>54 DEF Terminated, imageFrame, vars
<1>55. CASE UNCHANGED vars
  BY <1>55 DEF vars
<1> QED
  BY <1>1, <1>2, <1>3, <1>4, <1>5, <1>6, <1>7, <1>8, <1>9, <1>10, <1>11,
      <1>12, <1>13, <1>14, <1>15, <1>16, <1>17, <1>18, <1>19, <1>20, <1>21,
      <1>22, <1>23, <1>24, <1>25, <1>26, <1>27, <1>28, <1>29, <1>30, <1>31,
      <1>32, <1>33, <1>34, <1>35, <1>36, <1>37, <1>38, <1>39, <1>40, <1>41,
      <1>42, <1>43, <1>44, <1>45, <1>46, <1>47, <1>48, <1>49, <1>50, <1>51,
      <1>52, <1>53, <1>54, <1>55
      DEF Next, EngineStep, StartupStep, TaskContainerStep, CleanupStep, DaemonStep

\* A run keeps the contract the chain of tasks relies on.
THEOREM ImplementsContractHolds == Spec => ImplementsContract
<1>1. Init => Contract!ContractInit
  BY DEF Init, Contract!ContractInit, RunStage, RunOutcome, Seen, LivePhases
<1> QED
  BY <1>1, ContractStep, RunInvHolds, PTL DEF Spec, ImplementsContract, Contract!ContractSpec

----------------------------------------------------------------------------
(* Nothing a task run created outlives it unsaid, a run that reports       *)
(* success has cleaned up, and containers start and stop in the order of   *)
(* their dependencies.                                                     *)

AfterRemovals == {"network_removal", "cancels", "kept", "done"}

\* Every container in the daemon is registered, or its create is unanswered and
\* warned about; a container past its creation is registered.
CreatedInv ==
    /\ \A c \in Containers :
          /\ box[c] # "none" => c \in created \/ stage[c] = "creating"
          /\ stage[c] \in CreatedStages \cup {"preparing"} => c \in created
          /\ phase \notin LivePhases \cup {"pending"} /\ stage[c] = "creating"
                => c \in warned
    /\ phase = "running" \/ result = "ok" => created = Containers

\* Removals concern registered containers, and an outcome is the daemon's.
OutcomeInv ==
    /\ phase = "pending" => \A c \in Containers : rem[c] = "none"
    /\ \A c \in Containers :
          /\ rem[c] # "none" => c \in created
          /\ rem[c] = "ok" => box[c] = "gone"
          /\ rem[c] = "removed" => box[c] \in {"removing", "gone"}
          /\ rem[c] = "refused" => cleanupFailed

\* The network is the run's own, recorded once it is there, and removed when the
\* daemon says so.
NetworkInv ==
    /\ net # "none" => settings.own_network
    /\ netKnown => settings.own_network
    /\ phase \in {"startup", "running"} \/ result = "ok" =>
          (settings.own_network => netKnown)
    /\ netRem = "removed" => net = "gone"

\* Past each part of cleanup, what it left is removed or cleanup has failed; and
\* the report was made from the state the run ends in.
DoneInv ==
    /\ phase \in AfterRemovals /\ ShouldCleanup /\ ~cleanupFailed =>
          \A c \in created : rem[c] = "removed"
    /\ phase \in {"cancels", "kept", "done"} /\ ShouldCleanup /\ ~cleanupFailed =>
          (OwnsNetwork => netRem = "removed")
    /\ phase \in {"kept", "done"} /\ (cleanupFailed \/ ~ShouldCleanup) =>
          told = LeftBehind

LeakInv == CreatedInv /\ OutcomeInv /\ NetworkInv /\ DoneInv

LEMMA SameSet ==
    ASSUME NEW S, NEW T, S \subseteq T, \A x \in T : x \in S
    PROVE  S = T
OBVIOUS

LEMMA LeakInit == Init => LeakInv
BY TaskAssumption DEF Init, LeakInv, CreatedInv, OutcomeInv, NetworkInv, DoneInv,
    AfterRemovals, CreatedStages, LivePhases

\* Every action keeps the invariants.
LEMMA LeakStep == TypeInv /\ RunInv /\ LeakInv /\ [Next]_vars => LeakInv'
<1> SUFFICES ASSUME TypeInv, RunInv, LeakInv, [Next]_vars PROVE LeakInv'
  OBVIOUS
<1> USE TaskAssumption DEF TypeInv, TypeOK, RunInv, WatchInv, GateInv, LivePhases,
      CleanupPhases, LeakInv, CreatedInv, OutcomeInv, NetworkInv, DoneInv, AfterRemovals,
      CreatedStages, ShouldCleanup, OwnsNetwork, LeftBehind
<1>1. ASSUME NetworkReady PROVE LeakInv'
  BY <1>1 DEF NetworkReady, startupFrame
<1>2. ASSUME NetworkFails PROVE LeakInv'
  BY <1>2 DEF NetworkFails, EndRun, startupFrame, imageFrame, goingOn
<1>3. ASSUME NEW i \in Images, FindLocalImage(i) PROVE LeakInv'
  BY <1>3 DEF FindLocalImage, startupFrame, imageFrame, goingOn
<1>4. ASSUME NEW i \in Images, BeginImage(i) PROVE LeakInv'
  BY <1>4 DEF BeginImage, startupFrame, imageFrame, goingOn
<1>5. ASSUME NEW i \in Images, FinishImage(i) PROVE LeakInv'
  BY <1>5 DEF FinishImage, startupFrame, imageFrame, goingOn
<1>6. ASSUME NEW i \in Images, ImageFails(i) PROVE LeakInv'
  BY <1>6 DEF ImageFails, EndRun, startupFrame, imageFrame, goingOn
<1>7. ASSUME NEW c \in Containers, RequestCreate(c) PROVE LeakInv'
  BY <1>7 DEF RequestCreate, startupFrame, imageFrame, goingOn
<1>8. ASSUME NEW c \in Containers, RegisterCreated(c) PROVE LeakInv'
  BY <1>8 DEF RegisterCreated, startupFrame, imageFrame, goingOn
<1>9. ASSUME NEW c \in Containers, FinishCreate(c) PROVE LeakInv'
  BY <1>9 DEF FinishCreate, startupFrame, imageFrame, goingOn
<1>10. ASSUME NEW c \in Containers, CreateFails(c) PROVE LeakInv'
  <2>1. /\ phase \in {"startup", "pending"} /\ phase' = "pending"
        /\ result' \in {result, "failed"}
    BY <1>10 DEF CreateFails, EndRun, goingOn
  <2>2. /\ stage' = [stage EXCEPT ![c] = "failed"]
        /\ UNCHANGED <<settings, daemonVars, netKnown, rem, netRem, cleanupFailed, warned, told>>
    BY <1>10 DEF CreateFails, startupFrame
  <2>3. \/ created' = created \cup {c}
        \/ created' = created /\ (box[c] = "none" \/ stage[c] = "image")
    BY <1>10 DEF CreateFails
  <2>4. CreatedInv'
    <3>1. ASSUME result' = "ok" PROVE created' = Containers
      <4>1. created = Containers
        BY <2>1, <3>1
      <4>2. created' \subseteq Containers /\ \A d \in Containers : d \in created'
        BY <2>3, <4>1
      <4> QED
        BY <4>2, SameSet
    <3>2. ASSUME NEW d \in Containers
          PROVE  /\ box'[d] # "none" => d \in created' \/ stage'[d] = "creating"
                 /\ stage'[d] \in CreatedStages \cup {"preparing"} => d \in created'
      BY <2>2, <2>3
    <3> QED
      BY <2>1, <3>1, <3>2
  <2>5. OutcomeInv' /\ DoneInv'
    BY <2>1, <2>2, <2>3
  <2> QED
    BY <2>1, <2>2, <2>4, <2>5
<1>11. ASSUME NEW c \in Containers, RequestStart(c) PROVE LeakInv'
  BY <1>11 DEF RequestStart, startupFrame, imageFrame, goingOn
<1>12. ASSUME NEW c \in Containers, Started(c) PROVE LeakInv'
  BY <1>12 DEF Started, startupFrame, imageFrame, goingOn
<1>13. ASSUME NEW c \in Containers, StartFails(c) PROVE LeakInv'
  BY <1>13 DEF StartFails, EndRun, startupFrame, imageFrame, goingOn
<1>14. ASSUME NEW c \in Containers, Waited(c) PROVE LeakInv'
  BY <1>14 DEF Waited, BecomeReady, startupFrame, imageFrame, goingOn
<1>15. ASSUME NEW c \in Containers, WaitFails(c) PROVE LeakInv'
  BY <1>15 DEF WaitFails, EndRun, startupFrame, imageFrame, goingOn
<1>16. ASSUME NEW c \in Containers, BeginSetup(c) PROVE LeakInv'
  BY <1>16 DEF BeginSetup, startupFrame, imageFrame, goingOn
<1>17. ASSUME NEW c \in Containers, FinishSetup(c) PROVE LeakInv'
  BY <1>17 DEF FinishSetup, BecomeReady, startupFrame, imageFrame, goingOn
<1>18. ASSUME NEW c \in Containers, SetupFails(c) PROVE LeakInv'
  BY <1>18 DEF SetupFails, EndRun, startupFrame, imageFrame, goingOn
<1>19. ASSUME NEW c \in Containers, WatcherPosts(c) PROVE LeakInv'
  BY <1>19 DEF WatcherPosts, startupFrame, imageFrame, goingOn
<1>20. ASSUME RunTaskContainer PROVE LeakInv'
  <2>1. \A c \in Containers : c \in created
    BY <1>20 DEF RunTaskContainer
  <2>2. created \subseteq Containers
    OBVIOUS
  <2>3. created = Containers
    BY <2>1, <2>2, SameSet
  <2> QED
    BY <1>20, <2>3 DEF RunTaskContainer, taskFrame
<1>21. ASSUME TaskStarted PROVE LeakInv'
  BY <1>21 DEF TaskStarted, taskFrame, imageFrame, goingOn
<1>22. ASSUME TaskExits PROVE LeakInv'
  BY <1>22 DEF TaskExits, EndRun, Exited, taskFrame, imageFrame, goingOn
<1>23. ASSUME TaskFails PROVE LeakInv'
  BY <1>23 DEF TaskFails, EndRun, taskFrame, imageFrame, goingOn
<1>24. ASSUME GateHealthy PROVE LeakInv'
  BY <1>24 DEF GateHealthy, taskFrame, imageFrame, goingOn
<1>25. ASSUME GateBeginsSetup PROVE LeakInv'
  BY <1>25 DEF GateBeginsSetup, taskFrame, imageFrame, goingOn
<1>26. ASSUME GateFinishesSetup PROVE LeakInv'
  BY <1>26 DEF GateFinishesSetup, taskFrame, imageFrame, goingOn
<1>27. ASSUME GateFails PROVE LeakInv'
  BY <1>27 DEF GateFails, CanFail, Exited, taskFrame, imageFrame, goingOn
<1>28. ASSUME GateAnswered PROVE LeakInv'
  BY <1>28 DEF GateAnswered, taskFrame, imageFrame, goingOn
<1>29. ASSUME GraceExpires PROVE LeakInv'
  BY <1>29 DEF GraceExpires, EndRun, taskFrame, imageFrame, goingOn
<1>30. ASSUME EndPending PROVE LeakInv'
  <2>1. UNCHANGED <<created, stage, box, net, netKnown, settings, result, cleanupFailed>>
    BY <1>30 DEF EndPending, cleanupFrame
  <2>2. /\ phase = "pending"
        /\ phase' \in {"graceful", "network_removal", "cancels"}
        /\ phase' # "graceful" => created = {} \/ ~ShouldCleanup
        /\ phase' = "cancels" => ~ShouldCleanup \/ ~OwnsNetwork
        /\ netRem' \in {netRem, "asked"}
    BY <1>30 DEF EndPending, AfterContainers
  <2>3. \A c \in Containers : /\ rem'[c] \in {"none", "queued", "stopping"}
                              /\ rem'[c] # "none" => c \in created
    BY <1>30 DEF EndPending, Launched
  <2>4. warned' = {c \in Containers : stage[c] = "creating"}
    BY <1>30 DEF EndPending
  <2> QED
    BY <2>1, <2>2, <2>3, <2>4
<1>31. ASSUME Escalate PROVE LeakInv'
  <2>1. UNCHANGED <<created, stage, box, net, netKnown, settings, result, warned>>
    BY <1>31 DEF Escalate, cleanupFrame
  <2>2. /\ phase = "graceful"
        /\ phase' \in {"forced", "network_removal", "cancels"}
        /\ phase' = "cancels" => ~OwnsNetwork
        /\ netRem' \in {netRem, "asked"}
    BY <1>31 DEF Escalate, AfterContainers
  <2>3. /\ cleanupFailed => cleanupFailed'
        /\ \A c \in created : rem[c] = "err" => cleanupFailed'
    BY <1>31 DEF Escalate
  <2>4. ASSUME NEW c \in Containers
        PROVE  \/ rem'[c] = "forcing" /\ c \in created /\ phase' = "forced"
               \/ /\ rem'[c] = Outcome(rem[c])
                  /\ phase' # "forced" /\ c \in created
                        => Outcome(rem[c]) \in {"removed", "refused"}
    <3> DEFINE drained == [d \in Containers |-> Outcome(rem[d])]
    <3>1. drained[c] = Outcome(rem[c])
      OBVIOUS
    <3>2. CASE Left(drained) = {}
      BY <1>31, <3>1, <3>2 DEF Escalate, Left, Attempted
    <3>3. CASE Left(drained) # {}
      <4>1. /\ phase' = "forced"
            /\ rem'[c] = IF c \in Left(drained) THEN "forcing" ELSE drained[c]
        BY <1>31, <3>3 DEF Escalate
      <4>2. Left(drained) \subseteq created
        BY DEF Left
      <4> HIDE DEF drained
      <4> QED
        BY <3>1, <4>1, <4>2
    <3> QED
      BY <3>2, <3>3
  <2>5. OutcomeInv'
    BY <2>1, <2>2, <2>3, <2>4 DEF Outcome
  <2>6. DoneInv'
    BY <2>1, <2>2, <2>4, <2>5
  <2> QED
    BY <2>1, <2>2, <2>5, <2>6
<1>32. ASSUME AbandonContainers PROVE LeakInv'
  BY <1>32 DEF AbandonContainers, cleanupFrame, networkFrame
<1>33. ASSUME NetworkRemovalAnswered PROVE LeakInv'
  BY <1>33 DEF NetworkRemovalAnswered, cleanupFrame, networkFrame
<1>34. ASSUME ReadRung PROVE LeakInv'
  BY <1>34 DEF ReadRung, cleanupFrame, networkFrame
<1>35. ASSUME AbandonNetwork PROVE LeakInv'
  BY <1>35 DEF AbandonNetwork, cleanupFrame, networkFrame
<1>36. ASSUME Report PROVE LeakInv'
  BY <1>36 DEF Report, cleanupFrame
<1>37. ASSUME KeptInspected PROVE LeakInv'
  BY <1>37 DEF KeptInspected, cleanupFrame, networkFrame
<1>38. ASSUME KeptGivenUp PROVE LeakInv'
  BY <1>38 DEF KeptGivenUp, cleanupFrame, networkFrame
<1>39. ASSUME NEW c \in Containers, StopAnswered(c) PROVE LeakInv'
  BY <1>39 DEF StopAnswered, cleanupFrame, removalFrame
<1>40. ASSUME NEW c \in Containers, RemoveAnswered(c) PROVE LeakInv'
  BY <1>40 DEF RemoveAnswered, cleanupFrame, removalFrame
<1>41. ASSUME NEW c \in Containers, ReportStop(c) PROVE LeakInv'
  <2>1. UNCHANGED <<created, stage, box, net, netKnown, settings, result, warned, told>>
    BY <1>41 DEF ReportStop, cleanupFrame
  <2> DEFINE reported == [rem EXCEPT ![c] = Outcome(@)]
  <2>2. /\ phase = "graceful"
        /\ phase' \in {"graceful", "network_removal", "cancels"}
        /\ phase' # "graceful" => Left(reported) = {}
        /\ phase' = "cancels" => ~OwnsNetwork
        /\ netRem' \in {netRem, "asked"}
        /\ rem[c] \in {"ok", "err"}
    BY <1>41 DEF ReportStop, AfterContainers
  <2>3. cleanupFailed \/ rem[c] = "err" => cleanupFailed'
    BY <1>41 DEF ReportStop
  <2>4. ASSUME NEW d \in Containers
        PROVE  \/ rem'[d] = reported[d]
               \/ rem'[d] = "stopping" /\ rem[d] = "queued" /\ reported[d] = "queued"
    <3>1. rem' = Launched(reported)
      BY <1>41 DEF ReportStop
    <3>2. \/ rem'[d] = reported[d]
          \/ rem'[d] = "stopping" /\ reported[d] = "queued"
      BY <3>1 DEF Launched
    <3>3. reported[d] = "queued" => rem[d] = "queued"
      BY <2>2 DEF Outcome
    <3> QED
      BY <3>2, <3>3
  <2>5. OutcomeInv'
    <3>1. ASSUME NEW d \in Containers
          PROVE  /\ rem'[d] # "none" => d \in created
                 /\ rem'[d] = "ok" => box[d] = "gone"
                 /\ rem'[d] = "removed" => box[d] \in {"removing", "gone"}
                 /\ rem'[d] = "refused" => cleanupFailed'
      BY <2>2, <2>3, <2>4 DEF Outcome
    <3> QED
      BY <2>1, <2>2, <3>1
  <2>6. phase' # "graceful" => \A d \in created : rem'[d] \in {"removed", "refused"}
    <3>1. phase' # "graceful" => \A d \in created : reported[d] \in {"removed", "refused"}
      BY <2>2 DEF Left, Attempted
    <3> QED
      BY <2>4, <3>1
  <2> HIDE DEF reported
  <2>7. DoneInv'
    BY <2>1, <2>2, <2>5, <2>6
  <2> QED
    BY <2>1, <2>2, <2>5, <2>7
<1>42. ASSUME NEW c \in Containers, ForceAnswered(c) PROVE LeakInv'
  <2>1. UNCHANGED <<created, stage, box, net, netKnown, settings, result, warned, told>>
    BY <1>42 DEF ForceAnswered, cleanupFrame
  <2>2. /\ phase = "forced"
        /\ phase' \in {"forced", "network_removal", "cancels"}
        /\ phase' # "forced" => Left(rem') = {}
        /\ phase' = "cancels" => ~OwnsNetwork
        /\ netRem' \in {netRem, "asked"}
    BY <1>42 DEF ForceAnswered, AfterContainers
  <2>3. OutcomeInv'
    BY <1>42, <2>1, <2>2 DEF ForceAnswered
  <2>4. phase' # "forced" => \A d \in created : rem'[d] \in {"removed", "refused"}
    BY <2>2 DEF Left, Attempted
  <2>5. DoneInv'
    BY <2>1, <2>2, <2>3, <2>4
  <2> QED
    BY <2>1, <2>2, <2>3, <2>5
<1>43. ASSUME NEW i \in Images, CancelEnds(i) PROVE LeakInv'
  BY <1>43 DEF CancelEnds, cleanupFrame
<1>44. ASSUME DaemonCreatesNetwork PROVE LeakInv'
  BY <1>44 DEF DaemonCreatesNetwork, daemonFrame
<1>45. ASSUME DaemonRemovesNetwork PROVE LeakInv'
  BY <1>45 DEF DaemonRemovesNetwork, daemonFrame
<1>46. ASSUME NEW c \in Containers, DaemonCreates(c) PROVE LeakInv'
  BY <1>46 DEF DaemonCreates, Existing, daemonFrame
<1>47. ASSUME NEW c \in Containers, DaemonStarts(c) PROVE LeakInv'
  BY <1>47 DEF DaemonStarts, Existing, daemonFrame
<1>48. ASSUME NEW c \in Containers, DaemonStops(c) PROVE LeakInv'
  BY <1>48 DEF DaemonStops, Existing, daemonFrame
<1>49. ASSUME NEW c \in Containers, DaemonBeginsRemoval(c) PROVE LeakInv'
  BY <1>49 DEF DaemonBeginsRemoval, Existing, daemonFrame
<1>50. ASSUME NEW c \in Containers, DaemonRemoves(c) PROVE LeakInv'
  BY <1>50 DEF DaemonRemoves, daemonFrame
<1>51. ASSUME NEW c \in Containers, ContainerExits(c) PROVE LeakInv'
  BY <1>51 DEF ContainerExits, Exited, Existing, daemonFrame
<1>52. ASSUME Signal PROVE LeakInv'
  BY <1>52 DEF Signal, imageFrame, vars
<1>53. ASSUME Interrupted PROVE LeakInv'
  BY <1>53 DEF Interrupted, EndRun, imageFrame, vars
<1>54. ASSUME Terminated PROVE LeakInv'
  BY <1>54 DEF Terminated, imageFrame, vars
<1>55. CASE UNCHANGED vars
  BY <1>55 DEF vars
<1> QED
  BY <1>1, <1>2, <1>3, <1>4, <1>5, <1>6, <1>7, <1>8, <1>9, <1>10, <1>11,
      <1>12, <1>13, <1>14, <1>15, <1>16, <1>17, <1>18, <1>19, <1>20, <1>21,
      <1>22, <1>23, <1>24, <1>25, <1>26, <1>27, <1>28, <1>29, <1>30, <1>31,
      <1>32, <1>33, <1>34, <1>35, <1>36, <1>37, <1>38, <1>39, <1>40, <1>41,
      <1>42, <1>43, <1>44, <1>45, <1>46, <1>47, <1>48, <1>49, <1>50, <1>51,
      <1>52, <1>53, <1>54, <1>55
      DEF Next, EngineStep, StartupStep, TaskContainerStep, CleanupStep, DaemonStep

LEMMA LeakInvHolds == Spec => [](TypeInv /\ LeakInv)
<1>1. Init => TypeInv /\ RunInv /\ LeakInv
  BY TypeInit, RunInit, LeakInit
<1>2. TypeInv /\ RunInv /\ LeakInv /\ [Next]_vars => (TypeInv /\ RunInv /\ LeakInv)'
  BY TypeStep, RunStep, LeakStep
<1> QED
  BY <1>1, <1>2, PTL DEF Spec

\* Whatever the run created and the daemon still has at the end is named, as
\* left behind or as a create without an answer.
THEOREM NoSilentLeakHolds == Spec => []NoSilentLeak
<1>1. TypeInv /\ LeakInv => NoSilentLeak
  <2> SUFFICES ASSUME TypeInv, LeakInv, phase = "done" PROVE NoSilentLeak
    BY DEF NoSilentLeak
  <2> USE DEF TypeInv, TypeOK, LeakInv, CreatedInv, OutcomeInv, NetworkInv, DoneInv,
        AfterRemovals, LivePhases, LeftBehind, OwnsNetwork, Existing
  <2>1. CASE cleanupFailed \/ ~ShouldCleanup
    BY <2>1 DEF NoSilentLeak
  <2>2. CASE ~cleanupFailed /\ ShouldCleanup
    BY <2>2 DEF NoSilentLeak
  <2> QED
    BY <2>1, <2>2
<1> QED
  BY LeakInvHolds, <1>1, PTL

\* A run that cleans up and reports success has left nothing in the daemon.
THEOREM CleanExitMeansCleanHolds == Spec => []CleanExitMeansClean
<1>1. TypeInv /\ LeakInv => CleanExitMeansClean
  BY DEF TypeInv, TypeOK, LeakInv, CreatedInv, OutcomeInv, NetworkInv, DoneInv,
      AfterRemovals, OwnsNetwork, Final, Existing, CleanExitMeansClean
<1> QED
  BY LeakInvHolds, <1>1, PTL

(***************************************************************************)
(* The order of starts and stops, and the builds in flight at the end.     *)
(***************************************************************************)

\* A start has been asked for.
StartedStages == {"starting", "waiting", "setup", "exec", "ready", "running"}

\* A container is started once its direct dependencies are ready, and readiness
\* is for good: ready containers are a closed set at every moment.  One that
\* runs to completion is ready when it has exited zero, and runs no setup.
StartInv ==
    \A c \in Containers :
        /\ stage[c] \in StartedStages => \A d \in Deps[c] : stage[d] = "ready"
        /\ box[c] = "running" => stage[c] \in StartedStages
        /\ c \in Completes /\ stage[c] = "ready" =>
              box[c] \in {"exited0", "removing", "gone"}
        /\ c \in Completes => stage[c] \notin {"setup", "exec"}

\* A stop is asked for, and made, only once every registered container that
\* depends on the stopped one has had its removal answered.
StopInv ==
    \A c \in Containers :
        /\ box[c] = "stopped" => rem[c] \notin {"none", "queued"}
        /\ box[c] = "stopped" \/ rem[c] \in {"stopping", "removing", "ok", "err"} =>
              \A d \in created : c \in Reach[d] => rem[d] \in {"removed", "refused"}

\* Every build dropped in flight has a cancel, which the report has settled.
CancelInv ==
    \A i \in Built :
        /\ phase \notin LivePhases /\ image[i] = "working" => cancel[i] # "none"
        /\ phase \in {"kept", "done"} => cancel[i] \notin {"asked", "failed"}

OrderInv == StartInv /\ StopInv /\ CancelInv

LEMMA OrderInit == Init => OrderInv
BY TaskAssumption DEF Init, OrderInv, StartInv, StopInv, CancelInv, StartedStages, LivePhases

\* Every action keeps the invariants.
LEMMA OrderStep == TypeInv /\ RunInv /\ LeakInv /\ OrderInv /\ [Next]_vars => OrderInv'
<1> SUFFICES ASSUME TypeInv, RunInv, LeakInv, OrderInv, [Next]_vars PROVE OrderInv'
  OBVIOUS
<1> USE TaskAssumption DEF TypeInv, TypeOK, SetupsLeft, RunInv, WatchInv, LivePhases, CleanupPhases,
      LeakInv, OutcomeInv, OrderInv, StartInv, StopInv, CancelInv, StartedStages, CreatedStages
<1>1. ASSUME NetworkReady PROVE OrderInv'
  BY <1>1 DEF NetworkReady, startupFrame
<1>2. ASSUME NetworkFails PROVE OrderInv'
  BY <1>2 DEF NetworkFails, EndRun, startupFrame, imageFrame, goingOn
<1>3. ASSUME NEW i \in Images, FindLocalImage(i) PROVE OrderInv'
  BY <1>3 DEF FindLocalImage, startupFrame, imageFrame, goingOn
<1>4. ASSUME NEW i \in Images, BeginImage(i) PROVE OrderInv'
  BY <1>4 DEF BeginImage, startupFrame, imageFrame, goingOn
<1>5. ASSUME NEW i \in Images, FinishImage(i) PROVE OrderInv'
  BY <1>5 DEF FinishImage, startupFrame, imageFrame, goingOn
<1>6. ASSUME NEW i \in Images, ImageFails(i) PROVE OrderInv'
  BY <1>6 DEF ImageFails, EndRun, startupFrame, imageFrame, goingOn
<1>7. ASSUME NEW c \in Containers, RequestCreate(c) PROVE OrderInv'
  BY <1>7 DEF RequestCreate, startupFrame, imageFrame, goingOn
<1>8. ASSUME NEW c \in Containers, RegisterCreated(c) PROVE OrderInv'
  BY <1>8 DEF RegisterCreated, startupFrame, imageFrame, goingOn
<1>9. ASSUME NEW c \in Containers, FinishCreate(c) PROVE OrderInv'
  BY <1>9 DEF FinishCreate, startupFrame, imageFrame, goingOn
<1>10. ASSUME NEW c \in Containers, CreateFails(c) PROVE OrderInv'
  BY <1>10 DEF CreateFails, EndRun, startupFrame, imageFrame, goingOn
<1>11. ASSUME NEW c \in Containers, RequestStart(c) PROVE OrderInv'
  BY <1>11 DEF RequestStart, startupFrame, imageFrame, goingOn
<1>12. ASSUME NEW c \in Containers, Started(c) PROVE OrderInv'
  BY <1>12 DEF Started, startupFrame, imageFrame, goingOn
<1>13. ASSUME NEW c \in Containers, StartFails(c) PROVE OrderInv'
  BY <1>13 DEF StartFails, EndRun, startupFrame, imageFrame, goingOn
<1>14. ASSUME NEW c \in Containers, Waited(c) PROVE OrderInv'
  BY <1>14 DEF Waited, BecomeReady, startupFrame, imageFrame, goingOn
<1>15. ASSUME NEW c \in Containers, WaitFails(c) PROVE OrderInv'
  BY <1>15 DEF WaitFails, EndRun, startupFrame, imageFrame, goingOn
<1>16. ASSUME NEW c \in Containers, BeginSetup(c) PROVE OrderInv'
  BY <1>16 DEF BeginSetup, startupFrame, imageFrame, goingOn
<1>17. ASSUME NEW c \in Containers, FinishSetup(c) PROVE OrderInv'
  BY <1>17 DEF FinishSetup, BecomeReady, startupFrame, imageFrame, goingOn
<1>18. ASSUME NEW c \in Containers, SetupFails(c) PROVE OrderInv'
  BY <1>18 DEF SetupFails, EndRun, startupFrame, imageFrame, goingOn
<1>19. ASSUME NEW c \in Containers, WatcherPosts(c) PROVE OrderInv'
  BY <1>19 DEF WatcherPosts, startupFrame, imageFrame, goingOn
<1>20. ASSUME RunTaskContainer PROVE OrderInv'
  BY <1>20 DEF RunTaskContainer, taskFrame
<1>21. ASSUME TaskStarted PROVE OrderInv'
  BY <1>21 DEF TaskStarted, taskFrame, imageFrame, goingOn
<1>22. ASSUME TaskExits PROVE OrderInv'
  BY <1>22 DEF TaskExits, EndRun, Exited, taskFrame, imageFrame, goingOn
<1>23. ASSUME TaskFails PROVE OrderInv'
  BY <1>23 DEF TaskFails, EndRun, taskFrame, imageFrame, goingOn
<1>24. ASSUME GateHealthy PROVE OrderInv'
  BY <1>24 DEF GateHealthy, taskFrame, imageFrame, goingOn
<1>25. ASSUME GateBeginsSetup PROVE OrderInv'
  BY <1>25 DEF GateBeginsSetup, taskFrame, imageFrame, goingOn
<1>26. ASSUME GateFinishesSetup PROVE OrderInv'
  BY <1>26 DEF GateFinishesSetup, taskFrame, imageFrame, goingOn
<1>27. ASSUME GateFails PROVE OrderInv'
  BY <1>27 DEF GateFails, CanFail, Exited, taskFrame, imageFrame, goingOn
<1>28. ASSUME GateAnswered PROVE OrderInv'
  BY <1>28 DEF GateAnswered, taskFrame, imageFrame, goingOn
<1>29. ASSUME GraceExpires PROVE OrderInv'
  BY <1>29 DEF GraceExpires, EndRun, taskFrame, imageFrame, goingOn
<1>30. ASSUME EndPending PROVE OrderInv'
  <2>1. /\ UNCHANGED <<stage, created, box, image, cancel>>
        /\ phase = "pending"
        /\ phase' \in {"graceful", "network_removal", "cancels"}
    BY <1>30 DEF EndPending, AfterContainers, cleanupFrame
  <2>2. ASSUME NEW c \in Containers
        PROVE  /\ rem'[c] \in {"none", "queued", "stopping"}
               /\ rem'[c] = "stopping" => \A d \in created : c \notin Reach[d]
    <3> DEFINE queued == [d \in Containers |-> IF d \in created THEN "queued" ELSE "none"]
    <3>1. rem' = rem \/ rem' = Launched(queued)
      BY <1>30 DEF EndPending
    <3>2. CASE rem' = rem
      BY <2>1, <3>2
    <3>3. CASE rem' = Launched(queued)
      <4>1. rem'[c] = "stopping" =>
               \A d \in DependentsToStopFirst(c) : queued[d] \in {"removed", "refused"}
        BY <3>3 DEF Launched, Attempted
      <4>2. rem'[c] \in {"none", "queued", "stopping"}
        BY <3>3 DEF Launched
      <4> QED
        BY <4>1, <4>2 DEF DependentsToStopFirst
    <3> QED
      BY <3>1, <3>2, <3>3
  <2>3. StopInv'
    BY <2>1, <2>2
  <2> QED
    BY <2>1, <2>3
<1>31. ASSUME Escalate PROVE OrderInv'
  <2>1. /\ UNCHANGED <<stage, created, box, image, cancel>>
        /\ phase = "graceful"
        /\ phase' \in {"forced", "network_removal", "cancels"}
    BY <1>31 DEF Escalate, AfterContainers, cleanupFrame
  <2>2. ASSUME NEW c \in Containers
        PROVE  \/ rem'[c] = "forcing" /\ ~Attempted(rem, c)
               \/ rem'[c] = Outcome(rem[c])
    <3> DEFINE drained == [d \in Containers |-> Outcome(rem[d])]
    <3>1. drained[c] = Outcome(rem[c])
      OBVIOUS
    <3>2. \/ rem' = drained
          \/ rem' = [d \in Containers |->
                        IF d \in Left(drained) THEN "forcing" ELSE drained[d]]
      BY <1>31 DEF Escalate
    <3>3. c \in Left(drained) => ~Attempted(rem, c)
      <4>1. c \in Left(drained) => drained[c] \notin {"removed", "refused"}
        BY DEF Left, Attempted
      <4> QED
        BY <3>1, <4>1 DEF Attempted, Outcome
    <3> HIDE DEF drained
    <3> QED
      BY <3>1, <3>2, <3>3
  <2>3. \A c \in Containers : Attempted(rem, c) => rem'[c] \in {"removed", "refused"}
    BY <2>2 DEF Attempted, Outcome
  <2>4. ASSUME NEW c \in Containers
        PROVE  /\ rem'[c] \in {"none", "queued"} => rem[c] \in {"none", "queued"}
               /\ rem'[c] \in {"stopping", "removing", "ok", "err"} =>
                     rem[c] \in {"stopping", "removing"}
    BY <2>2 DEF Outcome
  <2>5. StopInv'
    BY <2>1, <2>3, <2>4 DEF Attempted
  <2> QED
    BY <2>1, <2>5
<1>32. ASSUME AbandonContainers PROVE OrderInv'
  BY <1>32 DEF AbandonContainers, cleanupFrame, networkFrame
<1>33. ASSUME NetworkRemovalAnswered PROVE OrderInv'
  BY <1>33 DEF NetworkRemovalAnswered, cleanupFrame, networkFrame
<1>34. ASSUME ReadRung PROVE OrderInv'
  BY <1>34 DEF ReadRung, cleanupFrame, networkFrame
<1>35. ASSUME AbandonNetwork PROVE OrderInv'
  BY <1>35 DEF AbandonNetwork, cleanupFrame, networkFrame
<1>36. ASSUME Report PROVE OrderInv'
  BY <1>36 DEF Report, ReportCancels, cleanupFrame
<1>37. ASSUME KeptInspected PROVE OrderInv'
  BY <1>37 DEF KeptInspected, cleanupFrame, networkFrame
<1>38. ASSUME KeptGivenUp PROVE OrderInv'
  BY <1>38 DEF KeptGivenUp, cleanupFrame, networkFrame
<1>39. ASSUME NEW c \in Containers, StopAnswered(c) PROVE OrderInv'
  BY <1>39 DEF StopAnswered, cleanupFrame, removalFrame
<1>40. ASSUME NEW c \in Containers, RemoveAnswered(c) PROVE OrderInv'
  BY <1>40 DEF RemoveAnswered, cleanupFrame, removalFrame
<1>41. ASSUME NEW c \in Containers, ReportStop(c) PROVE OrderInv'
  BY <1>41 DEF ReportStop, Outcome, Launched, DependentsToStopFirst, Attempted, AfterContainers, cleanupFrame
<1>42. ASSUME NEW c \in Containers, ForceAnswered(c) PROVE OrderInv'
  BY <1>42 DEF ForceAnswered, AfterContainers, cleanupFrame
<1>43. ASSUME NEW i \in Images, CancelEnds(i) PROVE OrderInv'
  BY <1>43 DEF CancelEnds, cleanupFrame
<1>44. ASSUME DaemonCreatesNetwork PROVE OrderInv'
  BY <1>44 DEF DaemonCreatesNetwork, daemonFrame
<1>45. ASSUME DaemonRemovesNetwork PROVE OrderInv'
  BY <1>45 DEF DaemonRemovesNetwork, daemonFrame
<1>46. ASSUME NEW c \in Containers, DaemonCreates(c) PROVE OrderInv'
  BY <1>46 DEF DaemonCreates, Existing, daemonFrame
<1>47. ASSUME NEW c \in Containers, DaemonStarts(c) PROVE OrderInv'
  BY <1>47 DEF DaemonStarts, Existing, daemonFrame
<1>48. ASSUME NEW c \in Containers, DaemonStops(c) PROVE OrderInv'
  BY <1>48 DEF DaemonStops, Existing, daemonFrame
<1>49. ASSUME NEW c \in Containers, DaemonBeginsRemoval(c) PROVE OrderInv'
  BY <1>49 DEF DaemonBeginsRemoval, Existing, daemonFrame
<1>50. ASSUME NEW c \in Containers, DaemonRemoves(c) PROVE OrderInv'
  BY <1>50 DEF DaemonRemoves, daemonFrame
<1>51. ASSUME NEW c \in Containers, ContainerExits(c) PROVE OrderInv'
  BY <1>51 DEF ContainerExits, Exited, Existing, daemonFrame
<1>52. ASSUME Signal PROVE OrderInv'
  BY <1>52 DEF Signal, imageFrame, vars
<1>53. ASSUME Interrupted PROVE OrderInv'
  BY <1>53 DEF Interrupted, EndRun, imageFrame, vars
<1>54. ASSUME Terminated PROVE OrderInv'
  BY <1>54 DEF Terminated, imageFrame, vars
<1>55. CASE UNCHANGED vars
  BY <1>55 DEF vars
<1> QED
  BY <1>1, <1>2, <1>3, <1>4, <1>5, <1>6, <1>7, <1>8, <1>9, <1>10, <1>11,
      <1>12, <1>13, <1>14, <1>15, <1>16, <1>17, <1>18, <1>19, <1>20, <1>21,
      <1>22, <1>23, <1>24, <1>25, <1>26, <1>27, <1>28, <1>29, <1>30, <1>31,
      <1>32, <1>33, <1>34, <1>35, <1>36, <1>37, <1>38, <1>39, <1>40, <1>41,
      <1>42, <1>43, <1>44, <1>45, <1>46, <1>47, <1>48, <1>49, <1>50, <1>51,
      <1>52, <1>53, <1>54, <1>55
      DEF Next, EngineStep, StartupStep, TaskContainerStep, CleanupStep, DaemonStep

LEMMA OrderInvHolds == Spec => [](TypeInv /\ LeakInv /\ OrderInv)
<1>1. Init => TypeInv /\ RunInv /\ LeakInv /\ OrderInv
  BY TypeInit, RunInit, LeakInit, OrderInit
<1>2. TypeInv /\ RunInv /\ LeakInv /\ OrderInv /\ [Next]_vars
         => (TypeInv /\ RunInv /\ LeakInv /\ OrderInv)'
  BY TypeStep, RunStep, LeakStep, OrderStep
<1> QED
  BY <1>1, <1>2, PTL DEF Spec

\* A container that runs has every dependency, at any depth, ready, and its
\* run_to_completion ones exited zero (ensure_container_ready).
THEOREM StartedAfterDependenciesHolds == Spec => []StartedAfterDependencies
<1>1. TypeInv /\ OrderInv => StartedAfterDependencies
  <2> SUFFICES ASSUME TypeInv, OrderInv,
                      NEW c \in Containers, NEW d \in Containers,
                      box[c] = "running", d \in Reach[c]
               PROVE  /\ stage[d] = "ready"
                      /\ d \in Completes => box[d] \in {"exited0", "removing", "gone"}
    BY DEF StartedAfterDependencies
  <2> USE TaskAssumption DEF OrderInv, StartInv, StartedStages
  <2> DEFINE Ready == {e \in Containers : stage[e] = "ready"}
  <2>1. Deps[c] \subseteq Ready
    OBVIOUS
  <2>2. Closed(Ready)
    BY DEF Closed
  <2>3. d \in Ready
    <3> HIDE DEF Ready
    <3>1. Ready \in SUBSET Containers
      BY DEF Ready
    <3> QED
      BY <2>1, <2>2, <3>1 DEF Reach
  <2> QED
    BY <2>3
<1> QED
  BY OrderInvHolds, <1>1, PTL

\* Cleanup stops no container that a running one depends on, unless that one's
\* own removal was refused (dependents_to_stop_first and the stop loop).
THEOREM DependencyOutlivesDependentsHolds == Spec => []DependencyOutlivesDependents
<1>1. TypeInv /\ LeakInv /\ OrderInv => DependencyOutlivesDependents
  BY DEF TypeInv, TypeOK, LeakInv, CreatedInv, OutcomeInv, OrderInv, StartInv, StopInv,
      StartedStages, CreatedStages, DependencyOutlivesDependents
<1> QED
  BY OrderInvHolds, <1>1, PTL

\* Every build still in flight when the run ended was cancelled, or a warning
\* names it (report_build_cancels).
THEOREM BuildsAccountedForHolds == Spec => []BuildsAccountedFor
<1>1. TypeInv /\ OrderInv => BuildsAccountedFor
  BY TaskAssumption DEF TypeInv, TypeOK, OrderInv, CancelInv, LivePhases, BuildsAccountedFor
<1> QED
  BY OrderInvHolds, <1>1, PTL
============================================================================
