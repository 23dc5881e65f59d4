------------------------ MODULE ContainerIoProofs ------------------------
(***************************************************************************)
(* Theorems about the docker client's sessions with running containers,    *)
(* for every number of sessions, chunks, lines and background containers   *)
(* and every set of failures.                                              *)
(***************************************************************************)
EXTENDS ContainerIo, SequenceTheorems, TLAPS

\* The groups of variables a step leaves alone.
USE DEF inputVars, sessionVars, followVars, healthVars, IoElsewhere,
    DockerElsewhere

LEMMA IoTypeInit == Init => IoTypeOK
<1> SUFFICES ASSUME Init PROVE IoTypeOK
  OBVIOUS
<1> USE DEF Init
<1>1. InputTypeOK
  <2>1. pump \in [Turns -> {"none", "lock", "recv", "write", "shut", "done"}]
    OBVIOUS
  <2>2. took \in [Turns -> Seq(Nat)]
    OBVIOUS
  <2>3. ended \in BOOLEAN
    OBVIOUS
  <2>4. source \in Seq(Nat) /\ channel \in Seq(Nat)
    OBVIOUS
  <2> QED
    BY <2>1, <2>2, <2>3, <2>4 DEF InputTypeOK
<1>2. 1 \in Turns
  BY SessionsAssumption DEF Turns
<1>3. SessionTypeOK
  BY <1>2 DEF SessionTypeOK
<1>4. BackgroundTypeOK
  BY DEF BackgroundTypeOK
<1> QED
  BY <1>1, <1>3, <1>4 DEF IoTypeOK

\* What each kind of step leaves alone.
LEMMA StepKinds ==
    [Next]_vars =>
       \/ (Input \/ Type \/ TypeEnd) /\ UNCHANGED <<env, sessionVars, followVars, healthVars>>
       \/ (Session \/ StreamEnds \/ Cancel) /\ UNCHANGED <<env, followVars, healthVars>>
       \/ (\E b \in Background : BackgroundStep(b)) /\ UNCHANGED <<env, inputVars, sessionVars>>
       \/ UNCHANGED <<env, inputVars, sessionVars, followVars, healthVars>>
BY DEF Next, vars

\* The steps of the input keep its variables in their types.
LEMMA InputTypeStep == InputTypeOK /\ SessionTypeOK /\ [Next]_vars => InputTypeOK'
<1> SUFFICES ASSUME InputTypeOK, turn \in Turns, [Next]_vars PROVE InputTypeOK'
  BY DEF SessionTypeOK
<1> USE DEF InputTypeOK, End
<1>1. CASE ReaderReserve
  BY <1>1 DEF ReaderReserve
<1>2. CASE ReaderRead
  <2>1. Head(source) \in Nat /\ Tail(source) \in Seq(Nat)
    BY <1>2 DEF ReaderRead
  <2> QED
    BY <1>2, <2>1 DEF ReaderRead
<1>3. CASE ReaderRetries
  BY <1>3 DEF ReaderRetries
<1>4. CASE ReaderFails
  BY <1>4 DEF ReaderFails
<1>5. CASE Type
  BY <1>5 DEF Type
<1>6. CASE TypeEnd
  BY <1>6 DEF TypeEnd
<1>7. ASSUME NEW s \in Turns, PumpLocks(s) PROVE InputTypeOK'
  BY <1>7 DEF PumpLocks, PumpTo
<1>8. ASSUME NEW s \in Turns, PumpReceives(s) PROVE InputTypeOK'
  <2>1. took' \in [Turns -> Seq(Nat)]
    <3>1. channel # <<>> => Append(took[s], Head(channel)) \in Seq(Nat)
      OBVIOUS
    <3>2. \/ channel # <<>> /\ took' = [took EXCEPT ![s] = Append(@, Head(channel))]
          \/ took' = took
      BY <1>8 DEF PumpReceives
    <3> QED
      BY <3>1, <3>2
  <2>2. pump' \in [Turns -> {"none", "lock", "recv", "write", "shut", "done"}]
    BY <1>8 DEF PumpReceives, PumpTo
  <2> QED
    BY <1>8, <2>1, <2>2 DEF PumpReceives
<1>9. ASSUME NEW s \in Turns, PumpWrites(s) PROVE InputTypeOK'
  BY <1>9 DEF PumpWrites, PumpTo
<1>10. ASSUME NEW s \in Turns, PumpShuts(s) PROVE InputTypeOK'
  BY <1>10 DEF PumpShuts, PumpTo
<1>11. ASSUME NEW s \in Turns, PumpStops(s) PROVE InputTypeOK'
  BY <1>11 DEF PumpStops, PumpTo
<1>12. CASE SpawnPump
  BY <1>12 DEF SpawnPump, PumpTo
<1>13. CASE DropPump
  BY <1>13 DEF DropPump
<1>14. CASE UNCHANGED inputVars
  BY <1>14
<1>15. Session \/ StreamEnds \/ Cancel => SpawnPump \/ DropPump \/ UNCHANGED inputVars
  BY DEF Session, Attach, RecordRaw, EnableRaw, Start, Restore, Unrecord, ExitCode,
      StreamEnds, Cancel
<1> QED
  BY StepKinds, <1>1, <1>2, <1>3, <1>4, <1>5, <1>6, <1>7, <1>8, <1>9, <1>10, <1>11, <1>12,
      <1>13, <1>14, <1>15 DEF Input, Reader, Pump

\* The steps of a session keep its variables in their types.
LEMMA SessionTypeStep == SessionTypeOK /\ [Next]_vars => SessionTypeOK'
<1> SUFFICES ASSUME SessionTypeOK, [Next]_vars PROVE SessionTypeOK'
  OBVIOUS
<1> USE DEF SessionTypeOK, Goto, GiveUp
<1>1. CASE Attach
  BY <1>1 DEF Attach
<1>2. CASE RecordRaw
  BY <1>2 DEF RecordRaw
<1>3. CASE EnableRaw
  BY <1>3 DEF EnableRaw
<1>4. CASE SpawnPump
  BY <1>4 DEF SpawnPump
<1>5. CASE Start
  BY <1>5 DEF Start
<1>6. CASE DropPump
  BY <1>6 DEF DropPump
<1>7. CASE Restore
  BY <1>7 DEF Restore
<1>8. CASE Unrecord
  BY <1>8 DEF Unrecord
<1>9. CASE ExitCode
  <2>1. turn' \in Turns
    <3>1. turn' = turn \/ (turn < Sessions /\ turn' = turn + 1)
      BY <1>9 DEF ExitCode
    <3>2. turn \in 1 .. Sessions
      BY DEF Turns
    <3>3. Sessions \in Nat
      BY SessionsAssumption
    <3> HIDE DEF SessionTypeOK
    <3> QED
      BY <3>1, <3>2, <3>3 DEF Turns
  <2>2. outcome' \in {"none", "failed", "succeeded", "exited non-zero"}
    BY <1>9 DEF ExitCode
  <2>3. at' \in {"attach", "over"} /\ UNCHANGED <<raw, record, warned>>
    BY <1>9 DEF ExitCode
  <2> QED
    BY <2>1, <2>2, <2>3
<1>10. CASE StreamEnds
  BY <1>10 DEF StreamEnds
<1>11. CASE Cancel
  BY <1>11 DEF Cancel
<1>12. CASE UNCHANGED sessionVars
  BY <1>12
<1> QED
  BY StepKinds, <1>1, <1>2, <1>3, <1>4, <1>5, <1>6, <1>7, <1>8, <1>9, <1>10, <1>11, <1>12
      DEF Session

\* The steps of a background container keep its variables in their types.
LEMMA BackgroundTypeStep == BackgroundTypeOK /\ [Next]_vars => BackgroundTypeOK'
<1> SUFFICES ASSUME BackgroundTypeOK, [Next]_vars PROVE BackgroundTypeOK'
  OBVIOUS
<1> USE DEF BackgroundTypeOK, Becomes, WaitTo
<1>1. ASSUME NEW b \in Background, BackgroundStep(b) PROVE BackgroundTypeOK'
  <2>1. EndedAs(b, "exited") \/ EndedAs(b, "removed") =>
           /\ life' \in [Background -> {"created", "running", "exited", "removed"}]
           /\ events' \in [Background -> Seq({"healthy", "unhealthy", "die"})]
    <3>1. Append(events[b], "die") \in Seq({"healthy", "unhealthy", "die"})
      OBVIOUS
    <3>2. EndedAs(b, "exited") \/ EndedAs(b, "removed") =>
             events' \in {events, [events EXCEPT ![b] = Append(@, "die")]}
      BY DEF EndedAs
    <3>3. [events EXCEPT ![b] = Append(@, "die")]
             \in [Background -> Seq({"healthy", "unhealthy", "die"})]
      BY <3>1
    <3> QED
      BY <3>2, <3>3 DEF EndedAs
  <2>2. CASE StartBackground(b)
    <3>1. life' \in [Background -> {"created", "running", "exited", "removed"}]
      BY <2>2 DEF StartBackground
    <3>2. /\ follower' \in [Background -> {"none", "running", "done"}]
          /\ handles' \subseteq Background
      <4>1. \/ follower' = follower /\ handles' = handles
            \/ /\ follower' = [follower EXCEPT ![b] = "running"]
               /\ handles' = handles \cup {b}
        BY <2>2, Zenon DEF StartBackground
      <4> QED
        BY <4>1
    <3>3. wait' \in [Background -> {"none", "open", "next", "ok", "failed"}]
      BY <2>2 DEF StartBackground
    <3> QED
      BY <2>2, <3>1, <3>2, <3>3 DEF StartBackground
  <2>3. CASE Prints(b)
    BY <2>3 DEF Prints
  <2>4. CASE HealthStatus(b)
    BY <2>4 DEF HealthStatus
  <2>5. CASE Dies(b)
    BY <2>1, <2>5 DEF Dies
  <2>6. CASE FollowerPosts(b)
    BY <2>6 DEF FollowerPosts
  <2>7. CASE FollowerEnds(b)
    BY <2>7 DEF FollowerEnds
  <2>8. CASE Stop(b)
    BY <2>1, <2>8 DEF Stop
  <2>9. CASE RemoveForcibly(b)
    BY <2>1, <2>9 DEF RemoveForcibly
  <2>10. CASE TakeHandle(b)
    BY <2>10 DEF TakeHandle
  <2>11. CASE FollowerJoined(b)
    BY <2>11 DEF FollowerJoined
  <2>12. CASE Escalate(b)
    BY <2>12 DEF Escalate
  <2>13. CASE WaitForHealthy(b)
    BY <2>13 DEF WaitForHealthy
  <2>14. CASE OpenEvents(b)
    BY <2>14 DEF OpenEvents
  <2>15. CASE NextEvent(b)
    BY <2>15 DEF NextEvent
  <2> QED
    BY <1>1, <2>2, <2>3, <2>4, <2>5, <2>6, <2>7, <2>8, <2>9, <2>10, <2>11, <2>12, <2>13,
        <2>14, <2>15 DEF BackgroundStep
<1>2. CASE UNCHANGED <<followVars, healthVars>>
  BY <1>2
<1> QED
  BY StepKinds, <1>1, <1>2

LEMMA IoTypeStep == IoTypeOK /\ [Next]_vars => IoTypeOK'
<1>1. [Next]_vars => UNCHANGED env
  BY StepKinds
<1> QED
  BY <1>1, InputTypeStep, SessionTypeStep, BackgroundTypeStep DEF IoTypeOK

\* Every variable of the sessions keeps its type.
THEOREM IoTypeCorrect == Spec => []IoTypeOK
BY IoTypeInit, IoTypeStep, PTL DEF Spec

(***************************************************************************)
(* The terminal.                                                           *)
(***************************************************************************)

\* A raw terminal nobody has been warned about is recorded, and its session is
\* between making it raw and restoring it; the record is made first.
TerminalInv ==
    /\ at = "enable" => record
    /\ raw /\ ~warned => /\ record
                        /\ at \in {"start", "pump", "stream", "drop", "restore"}

LEMMA TerminalStep == SessionTypeOK /\ TerminalInv /\ [Next]_vars => TerminalInv'
<1> SUFFICES ASSUME SessionTypeOK, TerminalInv, [Next]_vars PROVE TerminalInv'
  OBVIOUS
<1> USE DEF SessionTypeOK, TerminalInv, Goto, GiveUp
<1>1. CASE Attach
  BY <1>1 DEF Attach
<1>2. CASE RecordRaw
  BY <1>2 DEF RecordRaw
<1>3. CASE EnableRaw
  <2>1. record /\ (raw => warned) /\ warned' = warned
    BY <1>3 DEF EnableRaw
  <2>2. \/ record' = record /\ at' = "start"
        \/ raw' = raw /\ at' = "drop"
    BY <1>3 DEF EnableRaw
  <2>3. CASE record' = record /\ at' = "start"
    BY <2>1, <2>3, Zenon
  <2>4. CASE raw' = raw /\ at' = "drop"
    BY <2>1, <2>4
  <2> QED
    BY <2>2, <2>3, <2>4
<1>4. CASE SpawnPump
  BY <1>4 DEF SpawnPump
<1>5. CASE Start
  BY <1>5 DEF Start
<1>6. CASE DropPump
  BY <1>6 DEF DropPump
<1>7. CASE Restore
  BY <1>7 DEF Restore
<1>8. CASE Unrecord
  BY <1>8 DEF Unrecord
<1>9. CASE ExitCode
  <2>1. /\ at = "code" /\ at' \in {"attach", "over"}
        /\ UNCHANGED <<raw, record, warned>>
    BY <1>9 DEF ExitCode
  <2> QED
    BY <2>1
<1>10. CASE StreamEnds
  BY <1>10 DEF StreamEnds
<1>11. CASE Cancel
  BY <1>11 DEF Cancel
<1>12. CASE UNCHANGED sessionVars
  BY <1>12
<1> QED
  BY StepKinds, <1>1, <1>2, <1>3, <1>4, <1>5, <1>6, <1>7, <1>8, <1>9, <1>10, <1>11, <1>12
      DEF Session

\* A raw terminal is recorded as raw and held by its session, or the user has
\* been told how to restore it (RawModeGuard).
THEOREM TerminalRestoredHolds == Spec => []TerminalRestored
<1>1. Init => SessionTypeOK /\ TerminalInv
  <2>1. Init => ~raw /\ at = "attach"
    BY DEF Init
  <2> QED
    BY IoTypeInit, <2>1 DEF IoTypeOK, TerminalInv
<1>2. SessionTypeOK /\ TerminalInv /\ [Next]_vars => (SessionTypeOK /\ TerminalInv)'
  BY SessionTypeStep, TerminalStep
<1>3. TerminalInv => TerminalRestored
  BY Zenon DEF TerminalInv, TerminalRestored
<1> QED
  BY <1>1, <1>2, <1>3, PTL DEF Spec

(***************************************************************************)
(* The followers.                                                          *)
(***************************************************************************)

\* A follower at work is in LogFollowers::handles or is being waited for, so a
\* removal that finds no handle has none to wait for.
FollowInv ==
    \A b \in Background :
        /\ b \in told => removal[b] = "done" /\ follower[b] # "running"
        /\ follower[b] = "running" => b \in handles \/ removal[b] = "await"

LEMMA FollowStep == BackgroundTypeOK /\ FollowInv /\ [Next]_vars => FollowInv'
<1> SUFFICES ASSUME BackgroundTypeOK, FollowInv, [Next]_vars PROVE FollowInv'
  OBVIOUS
<1> USE DEF BackgroundTypeOK, FollowInv
<1>1. ASSUME NEW b \in Background, BackgroundStep(b) PROVE FollowInv'
  <2>1. CASE StartBackground(b)
    BY <2>1 DEF StartBackground
  <2>2. CASE Prints(b) \/ HealthStatus(b) \/ Dies(b)
    BY <2>2 DEF Prints, HealthStatus, Dies
  <2>3. CASE FollowerPosts(b)
    BY <2>3 DEF FollowerPosts
  <2>4. CASE FollowerEnds(b)
    BY <2>4 DEF FollowerEnds
  <2>5. CASE Stop(b)
    BY <2>5 DEF Stop
  <2>6. CASE RemoveForcibly(b)
    BY <2>6 DEF RemoveForcibly
  <2>7. CASE TakeHandle(b)
    BY <2>7 DEF TakeHandle
  <2>8. CASE FollowerJoined(b)
    BY <2>8 DEF FollowerJoined
  <2>9. CASE Escalate(b)
    BY <2>9 DEF Escalate
  <2>10. CASE WaitForHealthy(b) \/ OpenEvents(b) \/ NextEvent(b)
    BY <2>10 DEF WaitForHealthy, OpenEvents, NextEvent
  <2> QED
    BY <1>1, <2>1, <2>2, <2>3, <2>4, <2>5, <2>6, <2>7, <2>8, <2>9, <2>10 DEF BackgroundStep
<1>2. CASE UNCHANGED followVars
  BY <1>2
<1> QED
  BY StepKinds, <1>1, <1>2

\* No follower posts output of a container whose removal has been announced,
\* graceful or forced (await_and_remove, LogFollowers).
THEOREM NoOutputAfterRemovalHolds == Spec => []NoOutputAfterRemoval
<1>1. Init => BackgroundTypeOK /\ FollowInv
  BY IoTypeInit DEF IoTypeOK, Init, FollowInv
<1>2. BackgroundTypeOK /\ FollowInv /\ [Next]_vars => (BackgroundTypeOK /\ FollowInv)'
  BY BackgroundTypeStep, FollowStep
<1>3. BackgroundTypeOK /\ FollowInv => NoOutputAfterRemoval
  BY DEF BackgroundTypeOK, FollowInv, NoOutputAfterRemoval
<1> QED
  BY <1>1, <1>2, <1>3, PTL DEF Spec

(***************************************************************************)
(* The input.                                                              *)
(***************************************************************************)

\* The states of a pump that holds the reader's lock.
Holding == {"recv", "write", "shut"}
\* Session q has no pump, or its pump has been aborted.
Retired(q) == pump[q] = "none" \/ q \in aborted
\* Session q's pump, if it has one, will never hold the lock again.
Past(q) == pump[q] \in {"none", "done"} \/ (pump[q] = "lock" /\ q \in aborted)

\* Sessions whose turn is over have been retired, and one whose pump holds the
\* lock, or has ever taken a chunk, has no earlier pump that still may.
PumpInv ==
    /\ \A q \in Turns :
          /\ q > turn => pump[q] = "none"
          /\ q < turn => Retired(q)
          /\ pump[q] = "none" => took[q] = <<>>
    /\ at \in {"restore", "unrecord", "code"} => Retired(turn)
    /\ \A q, s \in Turns :
          q < s /\ (took[s] # <<>> \/ pump[s] \in Holding) => Past(q)

LEMMA TurnOrder ==
    \A q, s, t \in Turns : /\ q < s /\ ~(s > t) => q < t
                           /\ q > t + 1 => q > t
                           /\ q < t + 1 => q < t \/ q = t
                           /\ t < s => s > t
                           /\ ~(t < t) /\ ~(t > t)
BY SessionsAssumption DEF Turns

LEMMA PumpInit == Init => PumpInv
BY SessionsAssumption DEF Init, PumpInv, Turns, Holding, Past, Retired

LEMMA PumpStep ==
    InputTypeOK /\ SessionTypeOK /\ PumpInv /\ [Next]_vars => PumpInv'
<1> SUFFICES ASSUME InputTypeOK, SessionTypeOK, PumpInv, [Next]_vars PROVE PumpInv'
  OBVIOUS
<1>a. Turns \subseteq Nat
  BY SessionsAssumption DEF Turns
<1> USE <1>a DEF InputTypeOK, SessionTypeOK, PumpInv, Holding, Past, Retired, Goto, GiveUp
<1>1. ASSUME Reader \/ Type \/ TypeEnd, UNCHANGED sessionVars PROVE PumpInv'
  <2>1. UNCHANGED <<pump, aborted, took>>
    BY <1>1 DEF Reader, ReaderReserve, ReaderRead, ReaderRetries, ReaderFails, Type, TypeEnd
  <2> QED
    BY <1>1, <2>1
<1>2. ASSUME NEW s \in Turns, PumpLocks(s), UNCHANGED sessionVars PROVE PumpInv'
  <2>1. /\ pump[s] = "lock" /\ s \notin aborted
        /\ \A q \in Turns : pump[q] \notin Holding
        /\ pump' = [pump EXCEPT ![s] = "recv"]
        /\ UNCHANGED <<aborted, took, turn, at>>
    BY <1>2 DEF PumpLocks, PumpTo
  <2>3. \A r \in Turns : took[r] # <<>> => ~(s < r)
    BY <2>1
  <2>4. \A q \in Turns : q < s => Past(q)
    <3>1. ~(s > turn)
      BY <2>1
    <3>2. \A q \in Turns : q < s => q < turn
      BY <3>1, TurnOrder
    <3> QED
      BY <2>1, <3>2
  <2>5. \A q, r \in Turns :
           q < r /\ (took'[r] # <<>> \/ pump'[r] \in Holding) => Past(q)'
    BY <2>1, <2>3, <2>4
  <2>6. \A q \in Turns : /\ q > turn => pump'[q] = "none"
                         /\ pump'[q] = "none" => took[q] = <<>>
    BY <2>1
  <2> QED
    BY <2>1, <2>5, <2>6
<1>3. ASSUME NEW s \in Turns, PumpReceives(s), UNCHANGED sessionVars PROVE PumpInv'
  <2>1. pump[s] = "recv" /\ UNCHANGED aborted
    BY <1>3 DEF PumpReceives
  <2>2. PICK there \in {"write", "shut"} : pump' = [pump EXCEPT ![s] = there]
    BY <1>3 DEF PumpReceives, PumpTo
  <2>3. \A q \in Turns : q # s => took'[q] = took[q]
    BY <1>3 DEF PumpReceives
  <2> QED
    BY <1>3, <2>1, <2>2, <2>3
<1>4. ASSUME NEW s \in Turns, PumpWrites(s), UNCHANGED sessionVars PROVE PumpInv'
  BY <1>4 DEF PumpWrites, PumpTo
<1>5. ASSUME NEW s \in Turns, PumpShuts(s), UNCHANGED sessionVars PROVE PumpInv'
  BY <1>5 DEF PumpShuts, PumpTo
<1>6. ASSUME NEW s \in Turns, PumpStops(s), UNCHANGED sessionVars PROVE PumpInv'
  BY <1>6 DEF PumpStops, PumpTo
<1>7. CASE SpawnPump
  <2>1. /\ pump' = [pump EXCEPT ![turn] = "lock"]
        /\ at' \in {"stream", "start"}
        /\ UNCHANGED <<turn, aborted, took>>
    BY <1>7 DEF SpawnPump, PumpTo
  <2>2. \A q \in Turns : q > turn \/ q < turn => q # turn
    BY TurnOrder
  <2>3. \A s \in Turns : turn < s => took[s] = <<>> /\ pump[s] = "none"
    BY TurnOrder
  <2>4. \A q, s \in Turns :
           q < s /\ (took'[s] # <<>> \/ pump'[s] \in Holding) => Past(q)'
    BY <2>1, <2>3
  <2> QED
    BY <2>1, <2>2, <2>4
<1>8. CASE DropPump
  BY <1>8 DEF DropPump
<1>9. CASE ExitCode
  <2>1. at = "code" /\ at' \in {"attach", "over"} /\ UNCHANGED <<pump, aborted, took>>
    BY <1>9 DEF ExitCode
  <2>2. turn' = turn \/ turn' = turn + 1
    BY <1>9 DEF ExitCode
  <2>3. \A q \in Turns : /\ q > turn' => q > turn
                         /\ q < turn' => q < turn \/ q = turn
    <3>1. \A q \in Turns : /\ q > turn + 1 => q > turn
                           /\ q < turn + 1 => q < turn \/ q = turn
      BY TurnOrder
    <3> QED
      BY <2>2, <3>1, Zenon
  <2> QED
    BY <2>1, <2>3
<1>10. CASE Attach \/ RecordRaw \/ EnableRaw \/ Start \/ Restore \/ Unrecord \/ StreamEnds
              \/ Cancel
  <2>1. /\ UNCHANGED <<turn, pump, aborted, took>>
        /\ at' \in {"restore", "unrecord", "code"} => at \in {"restore", "unrecord", "code"}
    BY <1>10 DEF Attach, RecordRaw, EnableRaw, Start, Restore, Unrecord, StreamEnds, Cancel
  <2> QED
    BY <2>1
<1>11. CASE UNCHANGED <<inputVars, sessionVars>>
  BY <1>11
<1> QED
  BY StepKinds, <1>1, <1>2, <1>3, <1>4, <1>5, <1>6, <1>7, <1>8, <1>9, <1>10, <1>11
      DEF Input, Pump, Session

\* The accounting, place by place: what each sequence holds is genuine, nothing
\* is lost, and the sequences are in order, each by itself and one after another.
TakenOrder ==
    \A q, s \in Turns : \A i \in 1 .. Len(took[q]), j \in 1 .. Len(took[s]) :
        q < s \/ (q = s /\ i < j) => took[q][i] < took[s][j]
Genuine ==
    /\ \A s \in Turns : \A i \in 1 .. Len(took[s]) : took[s][i] \in 1 .. typed
    /\ \A i \in 1 .. Len(channel) : channel[i] \in 0 .. typed
    /\ \A i \in 1 .. Len(source) : source[i] \in 0 .. typed
Kept ==
    \A n \in 1 .. typed :
        \/ \E s \in Turns : \E i \in 1 .. Len(took[s]) : took[s][i] = n
        \/ \E i \in 1 .. Len(channel) : channel[i] = n
        \/ \E i \in 1 .. Len(source) : source[i] = n
WaitingOrder ==
    /\ \A s \in Turns : \A i \in 1 .. Len(took[s]) :
          /\ \A j \in 1 .. Len(channel) : channel[j] # 0 => took[s][i] < channel[j]
          /\ \A j \in 1 .. Len(source) : source[j] # 0 => took[s][i] < source[j]
    /\ \A i \in 1 .. Len(channel), j \in 1 .. Len(source) :
          channel[i] # 0 /\ source[j] # 0 => channel[i] < source[j]
    /\ \A i, j \in 1 .. Len(source) :
          i < j /\ source[i] # 0 /\ source[j] # 0 => source[i] < source[j]
\* The thread reads with the channel empty, so it holds one chunk at most.
ReadAhead == Len(channel) <= 1 /\ (reader = "read" => channel = <<>>)

AccountInv == TakenOrder /\ Genuine /\ Kept /\ WaitingOrder /\ ReadAhead

LEMMA AccountInit == Init => AccountInv
BY DEF Init, AccountInv, TakenOrder, Genuine, Kept, WaitingOrder, ReadAhead

\* Places are the sessions in turn, then the channel, then the source.
LEMMA AccountPlaces == InputTypeOK /\ AccountInv => InputAccounted
<1> SUFFICES ASSUME InputTypeOK, AccountInv PROVE InputAccounted
  OBVIOUS
<1>1. /\ Places = Turns \cup {Sessions + 1, Sessions + 2}
      /\ Turns \subseteq Nat /\ Sessions \in Nat
      /\ \A s \in Turns : s < Sessions + 1 /\ s < Sessions + 2
  BY SessionsAssumption DEF Places, Turns
<1>2. /\ \A s \in Turns : Held(s) = took[s]
      /\ Held(Sessions + 1) = channel
      /\ Held(Sessions + 2) = source
  BY SessionsAssumption DEF Held, Turns
<1> USE DEF AccountInv, InputTypeOK
<1>3. ASSUME NEW n \in 1 .. typed
      PROVE  \E p \in Places : \E i \in 1 .. Len(Held(p)) : Held(p)[i] = n
  <2>1. CASE \E s \in Turns : \E i \in 1 .. Len(took[s]) : took[s][i] = n
    BY <1>1, <1>2, <2>1
  <2>2. CASE \E i \in 1 .. Len(channel) : channel[i] = n
    BY <1>1, <1>2, <2>2
  <2>3. CASE \E i \in 1 .. Len(source) : source[i] = n
    BY <1>1, <1>2, <2>3
  <2> QED
    BY <2>1, <2>2, <2>3 DEF Kept
<1>4. NothingInvented
  BY <1>1, <1>2 DEF NothingInvented, Genuine, End
<1>5. ASSUME NEW p \in Places, NEW q \in Places,
             NEW i \in 1 .. Len(Held(p)), NEW j \in 1 .. Len(Held(q)),
             p < q \/ (p = q /\ i < j),
             Held(p)[i] # End, Held(q)[j] # End
      PROVE  Held(p)[i] < Held(q)[j]
  <2>1. CASE p \in Turns /\ q \in Turns
    BY <1>2, <1>5, <2>1 DEF TakenOrder
  <2>2. CASE p \in Turns /\ q = Sessions + 1
    BY <1>2, <1>5, <2>2 DEF WaitingOrder, End
  <2>3. CASE p \in Turns /\ q = Sessions + 2
    BY <1>2, <1>5, <2>3 DEF WaitingOrder, End
  <2>4. CASE p = Sessions + 1 /\ q = Sessions + 1
    <3>1. i = j
      BY <1>2, <2>4 DEF ReadAhead
    <3> QED
      BY <1>1, <1>5, <2>4, <3>1
  <2>5. CASE p = Sessions + 1 /\ q = Sessions + 2
    BY <1>2, <1>5, <2>5 DEF WaitingOrder, End
  <2>6. CASE p = Sessions + 2 /\ q = Sessions + 2
    <3>1. i < j
      BY <1>1, <1>5, <2>6
    <3> QED
      BY <1>2, <1>5, <2>6, <3>1 DEF WaitingOrder, End
  <2>7. CASE p = Sessions + 1 /\ q \in Turns
    BY <1>1, <1>5, <2>7
  <2>8. CASE p = Sessions + 2 /\ q # Sessions + 2
    BY <1>1, <1>5, <2>8
  <2> QED
    BY <1>1, <2>1, <2>2, <2>3, <2>4, <2>5, <2>6, <2>7, <2>8
<1> QED
  BY <1>3, <1>4, <1>5 DEF InputAccounted, NothingLost, InOrder, ReadAhead

LEMMA OneChunk ==
    ASSUME NEW c \in Seq(Nat), c # <<>>, Len(c) <= 1
    PROVE  Len(c) = 1 /\ c[1] = Head(c) /\ c[1] \in Nat
<1>1. Len(c) \in Nat /\ Len(c) # 0
  BY EmptySeq, LenProperties
<1>2. Len(c) = 1
  <2>1. \A k \in Nat : k # 0 /\ k <= 1 => k = 1
    OBVIOUS
  <2> QED
    BY <1>1, <2>1
<1>3. c[1] \in Nat
  BY <1>2, ElementOfSeq
<1>4. c[1] = Head(c)
  BY HeadTailProperties
<1> QED
  BY <1>2, <1>3, <1>4

\* Every step keeps the accounting: a chunk moves on by one place, in order.
LEMMA AccountStep ==
    InputTypeOK /\ PumpInv /\ AccountInv /\ [Next]_vars => AccountInv'
<1> SUFFICES ASSUME InputTypeOK, PumpInv, AccountInv, [Next]_vars PROVE AccountInv'
  OBVIOUS
<1> USE DEF InputTypeOK, AccountInv, End
<1>1. ASSUME UNCHANGED <<source, typed, channel, took>>,
             reader' # "read" \/ reader' = reader \/ channel = <<>>
      PROVE  AccountInv'
  BY <1>1 DEF TakenOrder, Genuine, Kept, WaitingOrder, ReadAhead
<1>2. CASE ReaderRead
  <2>1. /\ channel = <<>> /\ channel' = <<source[1]>>
        /\ Len(source) > 0 /\ source' = Tail(source)
        /\ reader' # "read" /\ UNCHANGED <<typed, took>>
    BY <1>2 DEF ReaderRead, ReadAhead
  <2>2. /\ Len(source') = Len(source) - 1
        /\ \A i \in 1 .. Len(source') : i + 1 \in 1 .. Len(source) /\ source'[i] = source[i + 1]
        /\ Len(channel') = 1 /\ channel'[1] = source[1]
    BY <2>1
  <2>3. TakenOrder' /\ ReadAhead'
    BY <2>1, <2>2 DEF TakenOrder, ReadAhead
  <2>4. Genuine'
    BY <2>1, <2>2 DEF Genuine
  <2>5. Kept'
    <3>1. ASSUME NEW n, NEW i \in 1 .. Len(source), source[i] = n
          PROVE  \/ \E j \in 1 .. Len(channel') : channel'[j] = n
                 \/ \E j \in 1 .. Len(source') : source'[j] = n
      <4>1. CASE i = 1
        BY <2>2, <3>1, <4>1
      <4>2. CASE i # 1
        <5>1. i - 1 \in 1 .. Len(source') /\ source'[i - 1] = n
          BY <2>1, <2>2, <3>1, <4>2
        <5> QED
          BY <5>1
      <4> QED
        BY <4>1, <4>2
    <3>2. ASSUME NEW n \in 1 .. typed
          PROVE  \/ \E s \in Turns : \E i \in 1 .. Len(took[s]) : took[s][i] = n
                 \/ \E i \in 1 .. Len(source) : source[i] = n
      <4>1. 1 .. Len(channel) = {}
        BY <2>1
      <4> QED
        BY <4>1 DEF Kept
    <3>3. ASSUME NEW n \in 1 .. typed
          PROVE  \/ \E s \in Turns : \E i \in 1 .. Len(took[s]) : took[s][i] = n
                 \/ \E j \in 1 .. Len(channel') : channel'[j] = n
                 \/ \E j \in 1 .. Len(source') : source'[j] = n
      <4>1. CASE \E i \in 1 .. Len(source) : source[i] = n
        BY <3>1, <4>1
      <4> QED
        BY <3>2, <4>1
    <3> QED
      BY <2>1, <3>3 DEF Kept
  <2>6. WaitingOrder'
    <3>1. ASSUME NEW s \in Turns, NEW i \in 1 .. Len(took'[s])
          PROVE  /\ \A j \in 1 .. Len(channel') : channel'[j] # 0 => took'[s][i] < channel'[j]
                 /\ \A j \in 1 .. Len(source') : source'[j] # 0 => took'[s][i] < source'[j]
      BY <2>1, <2>2 DEF WaitingOrder
    <3>2. ASSUME NEW j \in 1 .. Len(source'), source'[j] # 0
          PROVE  /\ source[1] # 0 => source[1] < source'[j]
                 /\ \A i \in 1 .. Len(source') : i < j /\ source'[i] # 0 => source'[i] < source'[j]
      <4>1. /\ j + 1 \in 1 .. Len(source) /\ source'[j] = source[j + 1] /\ 1 < j + 1
            /\ 1 \in 1 .. Len(source)
        BY <2>1, <2>2
      <4>2. \A i \in 1 .. Len(source') : i < j => i + 1 < j + 1
        OBVIOUS
      <4> QED
        BY <2>2, <3>2, <4>1, <4>2 DEF WaitingOrder
    <3> QED
      BY <2>2, <3>1, <3>2 DEF WaitingOrder
  <2> QED
    BY <2>3, <2>4, <2>5, <2>6
<1>3. CASE ReaderFails
  <2>1. /\ channel = <<>> /\ channel' = <<0>> /\ reader' = "gone"
        /\ UNCHANGED <<typed, source, took>>
    BY <1>3 DEF ReaderFails, ReadAhead
  <2> QED
    BY <2>1 DEF TakenOrder, Genuine, Kept, WaitingOrder, ReadAhead
<1>4. CASE Type
  <2>1. /\ typed' = typed + 1 /\ source' = Append(source, typed + 1)
        /\ UNCHANGED <<channel, took, reader>>
    BY <1>4 DEF Type
  <2>2. /\ Len(source') = Len(source) + 1
        /\ \A i \in 1 .. Len(source) : source'[i] = source[i]
        /\ source'[Len(source) + 1] = typed + 1
    BY <2>1
  <2>3. Genuine' /\ TakenOrder' /\ ReadAhead'
    BY <2>1, <2>2 DEF Genuine, TakenOrder, ReadAhead
  <2>4. Kept'
    <3>1. 1 .. Len(source) \subseteq 1 .. Len(source')
      BY <2>2
    <3>2. Len(source) + 1 \in 1 .. Len(source')
      BY <2>2
    <3>3. \A n \in 1 .. typed' : n \in 1 .. typed \/ n = typed + 1
      BY <2>1
    <3> QED
      BY <2>1, <2>2, <3>1, <3>2, <3>3 DEF Kept
  <2>5. WaitingOrder'
    BY <2>1, <2>2 DEF WaitingOrder, Genuine
  <2> QED
    BY <2>3, <2>4, <2>5
<1>5. CASE TypeEnd
  <2>1. source' = Append(source, 0) /\ UNCHANGED <<typed, channel, took, reader>>
    BY <1>5 DEF TypeEnd
  <2>2. /\ Len(source') = Len(source) + 1
        /\ \A i \in 1 .. Len(source) : source'[i] = source[i]
        /\ source'[Len(source) + 1] = 0
    BY <2>1
  <2>3. Genuine' /\ TakenOrder' /\ ReadAhead'
    BY <2>1, <2>2 DEF Genuine, TakenOrder, ReadAhead
  <2>4. Kept'
    <3>1. 1 .. Len(source) \subseteq 1 .. Len(source')
      BY <2>2
    <3> QED
      BY <2>1, <2>2, <3>1 DEF Kept
  <2>5. WaitingOrder'
    BY <2>1, <2>2 DEF WaitingOrder
  <2> QED
    BY <2>3, <2>4, <2>5
<1>6. ASSUME NEW s \in Turns, PumpReceives(s) PROVE AccountInv'
  <2>1. CASE took' = took /\ (channel = <<0>> \/ channel = <<>>)
    <3>1. channel' = <<>> /\ UNCHANGED <<source, typed, reader, took>>
      BY <1>6, <2>1 DEF PumpReceives
    <3>2. \A i \in 1 .. Len(channel) : channel[i] = 0
      BY <2>1
    <3>3. Kept'
      <4>1. \A m \in 1 .. typed : m # 0
        OBVIOUS
      <4> QED
        BY <3>1, <3>2, <4>1 DEF Kept
    <3> QED
      BY <3>1, <3>3 DEF TakenOrder, Genuine, WaitingOrder, ReadAhead
  <2>2. CASE channel # <<>> /\ Head(channel) # 0 /\ took' # took
    <3> DEFINE n == channel[1]
    <3>0. Len(channel) = 1 /\ n = Head(channel) /\ n \in Nat
      BY <2>2, OneChunk DEF ReadAhead
    <3>1. /\ channel' = <<>> /\ UNCHANGED <<source, typed, reader>>
          /\ took' = [took EXCEPT ![s] = Append(@, n)]
          /\ n # 0
      BY <1>6, <2>2, <3>0 DEF PumpReceives
    <3> HIDE DEF n
    <3>2. /\ Len(took'[s]) = Len(took[s]) + 1
          /\ \A i \in 1 .. Len(took[s]) : took'[s][i] = took[s][i]
          /\ took'[s][Len(took[s]) + 1] = n
          /\ \A q \in Turns : q # s => took'[q] = took[q]
      BY <3>1
    <3>3. \A q \in Turns : s < q => took[q] = <<>>
      BY <1>6 DEF PumpReceives, PumpInv, Past
    <3>4. /\ n \in 1 .. typed
          /\ \A q \in Turns : \A i \in 1 .. Len(took[q]) : took[q][i] < n
          /\ \A j \in 1 .. Len(source) : source[j] # 0 => n < source[j]
      BY <3>0, <3>1 DEF n, Genuine, WaitingOrder
    <3>5. /\ \A i \in 1 .. Len(took'[s]) : i \in 1 .. Len(took[s]) \/ i = Len(took[s]) + 1
          /\ \A i \in 1 .. Len(took[s]) : i \in 1 .. Len(took'[s])
          /\ Len(took[s]) + 1 \in 1 .. Len(took'[s])
      BY <3>2
    <3>6. Genuine'
      BY <3>1, <3>2, <3>4, <3>5 DEF Genuine
    <3>7. Kept'
      <4>1. \A i \in 1 .. Len(channel) : channel[i] = n
        BY <3>0 DEF n
      <4>2. ASSUME NEW m \in 1 .. typed
            PROVE  \/ \E q \in Turns : \E i \in 1 .. Len(took'[q]) : took'[q][i] = m
                   \/ \E i \in 1 .. Len(source) : source[i] = m
        <5>1. CASE m = n
          BY <3>2, <3>5, <5>1
        <5>2. CASE \E q \in Turns : \E i \in 1 .. Len(took[q]) : took[q][i] = m
          BY <3>2, <3>5, <5>2
        <5> QED
          BY <4>1, <5>1, <5>2 DEF Kept
      <4> QED
        BY <3>1, <4>2 DEF Kept
    <3>8. TakenOrder'
      <4>1. ASSUME NEW q \in Turns, NEW r \in Turns,
                   NEW i \in 1 .. Len(took'[q]), NEW j \in 1 .. Len(took'[r]),
                   q < r \/ (q = r /\ i < j)
            PROVE  took'[q][i] < took'[r][j]
        <5>1. CASE q # s /\ r # s
          BY <3>2, <4>1, <5>1 DEF TakenOrder
        <5>2. CASE q # s /\ r = s
          BY <3>2, <3>4, <3>5, <4>1, <5>2 DEF TakenOrder
        <5>3. CASE q = s /\ r # s
          <6>1. took'[r] = <<>>
            BY <3>2, <3>3, <4>1, <5>3
          <6> QED
            BY <6>1
        <5>4. CASE q = s /\ r = s
          <6>1. i < j
            BY <4>1, <5>4, TurnOrder
          <6>2. i \in 1 .. Len(took[s])
            BY <3>2, <5>4, <6>1
          <6> QED
            BY <3>2, <3>4, <3>5, <5>4, <6>1, <6>2 DEF TakenOrder
        <5> QED
          BY <5>1, <5>2, <5>3, <5>4
      <4> QED
        BY <4>1 DEF TakenOrder
    <3>9. WaitingOrder' /\ ReadAhead'
      BY <3>1, <3>2, <3>4, <3>5 DEF WaitingOrder, ReadAhead
    <3> QED
      BY <3>6, <3>7, <3>8, <3>9
  <2> QED
    BY <1>6, <2>1, <2>2 DEF PumpReceives
<1>7. Reader => ReaderRead \/ ReaderFails
          \/ /\ UNCHANGED <<source, typed, channel, took>>
             /\ reader' # "read" \/ channel = <<>>
  BY DEF Reader, ReaderReserve, ReaderRetries
<1>8. \A s \in Turns : Pump(s) \/ PumpStops(s) => PumpReceives(s)
          \/ UNCHANGED <<source, typed, channel, took, reader>>
  BY DEF Pump, PumpStops, PumpLocks, PumpWrites, PumpShuts
<1>9. Session \/ StreamEnds \/ Cancel =>
          /\ UNCHANGED <<source, typed, channel, took>>
          /\ reader' # "read" \/ reader' = reader
  BY DEF Session, Attach, RecordRaw, EnableRaw, SpawnPump, Start, DropPump, Restore, Unrecord,
      ExitCode, StreamEnds, Cancel
<1> QED
  BY StepKinds, <1>1, <1>2, <1>3, <1>4, <1>5, <1>6, <1>7, <1>8, <1>9 DEF Input

\* Everything typed is with one container, in the order it was typed, or waiting
\* to be read, however sessions end and pumps are aborted (StdinReader).
THEOREM InputAccountedHolds == Spec => []InputAccounted
<1> DEFINE IInv == IoTypeOK /\ PumpInv /\ AccountInv
<1>1. Init => IInv
  BY IoTypeInit, PumpInit, AccountInit
<1>2. IInv /\ [Next]_vars => IInv'
  BY IoTypeStep, PumpStep, AccountStep DEF IoTypeOK
<1>3. IInv => InputAccounted
  BY AccountPlaces DEF IoTypeOK
<1> QED
  BY <1>1, <1>2, <1>3, PTL DEF Spec
==========================================================================
