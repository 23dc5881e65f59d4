------------------------- MODULE InterruptProofs -------------------------
(* Proofs about Interrupt, for any set of signals and waiters, any number  *)
(* of arrivals and any threshold.                                          *)
EXTENDS Interrupt, TLAPS

\* Only the SIGINT listener takes the step that adds to `interrupts`.
OnlySigintAdds == \A s \in Signals : recorder[s] = "interrupts" => s = SIGINT

\* A listener past its store, and a counter above zero, come after a stored
\* signal.
StoredFirst ==
    /\ \A s \in Signals :
         recorder[s] \in {"interrupts", "count", "notify"}
            => last_signal # NoSignal
    /\ interrupts > 0 => last_signal # NoSignal

\* A waiter past `notified()` is one notify_waiters will wake.
Registered ==
    \A w \in Waiters : pc[w] \in {"check", "work", "await"} => w \in notified

\* NoMissedWakeup, from the moment the check failed rather than the park.
WakeupOwed ==
    \A w \in Waiters :
        pc[w] \in {"work", "await"} /\ Reached(w) =>
            \/ w \in woken
            \/ \E s \in Signals : recorder[s] \in {"count", "notify"}

SafetyInv ==
    /\ TypeOK
    /\ OnlySigintAdds
    /\ InterruptsWithinOne
    /\ StoredFirst
    /\ CountHasSignal
    /\ Registered
    /\ WakeupOwed

----------------------------------------------------------------------------

\* Every step of the listeners and waiters keeps each variable in its type.
LEMMA TypeStep == ASSUME TypeOK, [Next]_vars PROVE TypeOK'
<1> USE InterruptAssumption DEF TypeOK, RecorderSteps, WaiterSteps, Wants
<1>1. ASSUME NEW s \in Signals, Arrive(s) PROVE TypeOK'
  BY <1>1 DEF Arrive, waiterVars
<1>2. ASSUME NEW s \in Signals, Receive(s) PROVE TypeOK'
  BY <1>2 DEF Receive, waiterVars
<1>3. ASSUME NEW s \in Signals, StoreLastSignal(s) PROVE TypeOK'
  BY <1>3 DEF StoreLastSignal, waiterVars
<1>4. ASSUME NEW s \in Signals, AddInterrupt(s) PROVE TypeOK'
  BY <1>4 DEF AddInterrupt, waiterVars
<1>5. ASSUME NEW s \in Signals, AddCount(s) PROVE TypeOK'
  BY <1>5 DEF AddCount, waiterVars
<1>6. ASSUME NEW s \in Signals, NotifyWaiters(s) PROVE TypeOK'
  BY <1>6 DEF NotifyWaiters
<1>7. ASSUME NEW w \in Waiters, Call(w) PROVE TypeOK'
  <2>1. PICK n \in 0 .. MaxThreshold, kind \in {"any", "sigint"} :
           want' = [want EXCEPT ![w] = [kind |-> kind, n |-> n]]
    BY <1>7, InterruptAssumption DEF Call
  <2>2. want' \in [Waiters -> Wants]
    BY <2>1
  <2>3. work' \in [Waiters -> {"absent", "running", "finished"}]
    BY <1>7 DEF Call
  <2> QED
    BY <1>7, <2>2, <2>3 DEF Call, recorderVars
<1>8. ASSUME NEW w \in Waiters, Register(w) PROVE TypeOK'
  BY <1>8 DEF Register, recorderVars
<1>9. ASSUME NEW w \in Waiters, Check(w) PROVE TypeOK'
  BY <1>9 DEF Check, recorderVars
<1>10. ASSUME NEW w \in Waiters, Wake(w) PROVE TypeOK'
  BY <1>10 DEF Wake, recorderVars
<1>11. ASSUME NEW w \in Waiters, PollWork(w) PROVE TypeOK'
  BY <1>11 DEF PollWork, recorderVars
<1>12. ASSUME NEW w \in Waiters, FinishWork(w) PROVE TypeOK'
  BY <1>12 DEF FinishWork, recorderVars
<1>13. CASE UNCHANGED vars
  BY <1>13 DEF vars
<1> QED
  BY <1>1, <1>2, <1>3, <1>4, <1>5, <1>6, <1>7, <1>8, <1>9, <1>10, <1>11,
     <1>12, <1>13 DEF Next, Record, Wait

\* No step makes the SIGINT count run ahead of the count by more than the one
\* signal being recorded.
LEMMA CountersStep ==
    ASSUME TypeOK, OnlySigintAdds, InterruptsWithinOne, [Next]_vars PROVE (OnlySigintAdds /\ InterruptsWithinOne)'
<1> USE InterruptAssumption DEF TypeOK, RecorderSteps, OnlySigintAdds, InterruptsWithinOne
<1>1. ASSUME NEW s \in Signals, Arrive(s) PROVE (OnlySigintAdds /\ InterruptsWithinOne)'
  BY <1>1 DEF Arrive, waiterVars
<1>2. ASSUME NEW s \in Signals, Receive(s) PROVE (OnlySigintAdds /\ InterruptsWithinOne)'
  BY <1>2 DEF Receive, waiterVars
<1>3. ASSUME NEW s \in Signals, StoreLastSignal(s) PROVE (OnlySigintAdds /\ InterruptsWithinOne)'
  BY <1>3 DEF StoreLastSignal, waiterVars
<1>4. ASSUME NEW s \in Signals, AddInterrupt(s) PROVE (OnlySigintAdds /\ InterruptsWithinOne)'
  BY <1>4 DEF AddInterrupt, waiterVars
<1>5. ASSUME NEW s \in Signals, AddCount(s) PROVE (OnlySigintAdds /\ InterruptsWithinOne)'
  BY <1>5 DEF AddCount, waiterVars
<1>6. ASSUME NEW s \in Signals, NotifyWaiters(s) PROVE (OnlySigintAdds /\ InterruptsWithinOne)'
  BY <1>6 DEF NotifyWaiters
<1>7. ASSUME NEW w \in Waiters, Call(w) PROVE (OnlySigintAdds /\ InterruptsWithinOne)'
  BY <1>7 DEF Call, recorderVars
<1>8. ASSUME NEW w \in Waiters, Register(w) PROVE (OnlySigintAdds /\ InterruptsWithinOne)'
  BY <1>8 DEF Register, recorderVars
<1>9. ASSUME NEW w \in Waiters, Check(w) PROVE (OnlySigintAdds /\ InterruptsWithinOne)'
  BY <1>9 DEF Check, recorderVars
<1>10. ASSUME NEW w \in Waiters, Wake(w) PROVE (OnlySigintAdds /\ InterruptsWithinOne)'
  BY <1>10 DEF Wake, recorderVars
<1>11. ASSUME NEW w \in Waiters, PollWork(w) PROVE (OnlySigintAdds /\ InterruptsWithinOne)'
  BY <1>11 DEF PollWork, recorderVars
<1>12. ASSUME NEW w \in Waiters, FinishWork(w) PROVE (OnlySigintAdds /\ InterruptsWithinOne)'
  BY <1>12 DEF FinishWork, recorderVars
<1>13. CASE UNCHANGED vars
  BY <1>13 DEF vars
<1> QED
  BY <1>1, <1>2, <1>3, <1>4, <1>5, <1>6, <1>7, <1>8,
     <1>9, <1>10, <1>11, <1>12, <1>13
     DEF Next, Record, Wait

\* No step raises a count with no signal stored, or ends a wait on one.
LEMMA SignalStep ==
    ASSUME TypeOK, StoredFirst, CountHasSignal, [Next]_vars PROVE (StoredFirst /\ CountHasSignal)'
<1> USE InterruptAssumption DEF TypeOK, RecorderSteps, WaiterSteps, Wants, StoredFirst, CountHasSignal, Reached
<1>1. ASSUME NEW s \in Signals, Arrive(s) PROVE (StoredFirst /\ CountHasSignal)'
  BY <1>1 DEF Arrive, waiterVars
<1>2. ASSUME NEW s \in Signals, Receive(s) PROVE (StoredFirst /\ CountHasSignal)'
  BY <1>2 DEF Receive, waiterVars
<1>3. ASSUME NEW s \in Signals, StoreLastSignal(s) PROVE (StoredFirst /\ CountHasSignal)'
  BY <1>3 DEF StoreLastSignal, waiterVars
<1>4. ASSUME NEW s \in Signals, AddInterrupt(s) PROVE (StoredFirst /\ CountHasSignal)'
  BY <1>4 DEF AddInterrupt, waiterVars
<1>5. ASSUME NEW s \in Signals, AddCount(s) PROVE (StoredFirst /\ CountHasSignal)'
  BY <1>5 DEF AddCount, waiterVars
<1>6. ASSUME NEW s \in Signals, NotifyWaiters(s) PROVE (StoredFirst /\ CountHasSignal)'
  BY <1>6 DEF NotifyWaiters
<1>7. ASSUME NEW w \in Waiters, Call(w) PROVE (StoredFirst /\ CountHasSignal)'
  BY <1>7 DEF Call, recorderVars
<1>8. ASSUME NEW w \in Waiters, Register(w) PROVE (StoredFirst /\ CountHasSignal)'
  BY <1>8 DEF Register, recorderVars
<1>9. ASSUME NEW w \in Waiters, Check(w) PROVE (StoredFirst /\ CountHasSignal)'
  BY <1>9 DEF Check, recorderVars
<1>10. ASSUME NEW w \in Waiters, Wake(w) PROVE (StoredFirst /\ CountHasSignal)'
  BY <1>10 DEF Wake, recorderVars
<1>11. ASSUME NEW w \in Waiters, PollWork(w) PROVE (StoredFirst /\ CountHasSignal)'
  BY <1>11 DEF PollWork, recorderVars
<1>12. ASSUME NEW w \in Waiters, FinishWork(w) PROVE (StoredFirst /\ CountHasSignal)'
  BY <1>12 DEF FinishWork, recorderVars
<1>13. CASE UNCHANGED vars
  BY <1>13 DEF vars
<1> QED
  BY <1>1, <1>2, <1>3, <1>4, <1>5, <1>6, <1>7, <1>8,
     <1>9, <1>10, <1>11, <1>12, <1>13
     DEF Next, Record, Wait

\* No step leaves a waiter parked on a reached count with no wake-up coming.
LEMMA WakeupStep ==
    ASSUME TypeOK, Registered, WakeupOwed, [Next]_vars PROVE (Registered /\ WakeupOwed)'
<1> USE InterruptAssumption DEF TypeOK, RecorderSteps, WaiterSteps, Wants, Registered, WakeupOwed, Reached
<1>1. ASSUME NEW s \in Signals, Arrive(s) PROVE (Registered /\ WakeupOwed)'
  BY <1>1 DEF Arrive, waiterVars
<1>2. ASSUME NEW s \in Signals, Receive(s) PROVE (Registered /\ WakeupOwed)'
  BY <1>2 DEF Receive, waiterVars
<1>3. ASSUME NEW s \in Signals, StoreLastSignal(s) PROVE (Registered /\ WakeupOwed)'
  BY <1>3 DEF StoreLastSignal, waiterVars
<1>4. ASSUME NEW s \in Signals, AddInterrupt(s) PROVE (Registered /\ WakeupOwed)'
  BY <1>4 DEF AddInterrupt, waiterVars
<1>5. ASSUME NEW s \in Signals, AddCount(s) PROVE (Registered /\ WakeupOwed)'
  BY <1>5 DEF AddCount, waiterVars
<1>6. ASSUME NEW s \in Signals, NotifyWaiters(s) PROVE (Registered /\ WakeupOwed)'
  BY <1>6 DEF NotifyWaiters
<1>7. ASSUME NEW w \in Waiters, Call(w) PROVE (Registered /\ WakeupOwed)'
  BY <1>7 DEF Call, recorderVars
<1>8. ASSUME NEW w \in Waiters, Register(w) PROVE (Registered /\ WakeupOwed)'
  BY <1>8 DEF Register, recorderVars
<1>9. ASSUME NEW w \in Waiters, Check(w) PROVE (Registered /\ WakeupOwed)'
  BY <1>9 DEF Check, recorderVars
<1>10. ASSUME NEW w \in Waiters, Wake(w) PROVE (Registered /\ WakeupOwed)'
  BY <1>10 DEF Wake, recorderVars
<1>11. ASSUME NEW w \in Waiters, PollWork(w) PROVE (Registered /\ WakeupOwed)'
  BY <1>11 DEF PollWork, recorderVars
<1>12. ASSUME NEW w \in Waiters, FinishWork(w) PROVE (Registered /\ WakeupOwed)'
  BY <1>12 DEF FinishWork, recorderVars
<1>13. CASE UNCHANGED vars
  BY <1>13 DEF vars
<1> QED
  BY <1>1, <1>2, <1>3, <1>4, <1>5, <1>6, <1>7, <1>8,
     <1>9, <1>10, <1>11, <1>12, <1>13
     DEF Next, Record, Wait

\* The inductive invariant holds in every reachable state.
THEOREM SafetyInvHolds == Spec => []SafetyInv
<1>1. Init => SafetyInv
  BY InterruptAssumption
  DEF Init, SafetyInv, TypeOK, RecorderSteps, WaiterSteps, Wants,
      OnlySigintAdds, InterruptsWithinOne, StoredFirst, CountHasSignal,
      Registered, WakeupOwed
<1>2. SafetyInv /\ [Next]_vars => SafetyInv'
  BY TypeStep, CountersStep, SignalStep, WakeupStep DEF SafetyInv
<1> QED
  BY <1>1, <1>2, PTL DEF Spec

\* For every set of signals and waiters: the tracker's variables keep their
\* types.
THEOREM TypeCorrect == Spec => []TypeOK
<1>1. SafetyInv => TypeOK
  BY DEF SafetyInv
<1> QED
  BY <1>1, SafetyInvHolds, PTL

\* However many listeners record at once, interrupt_count is at most one ahead
\* of count, and only between record_signal's two additions.
THEOREM InterruptsWithinOneHolds == Spec => []InterruptsWithinOne
<1>1. SafetyInv => InterruptsWithinOne
  BY DEF SafetyInv
<1> QED
  BY <1>1, SafetyInvHolds, PTL

\* A reader that sees a count above zero, and a wait that ended on one, always
\* find a real signal in last_signal.
THEOREM CountHasSignalHolds == Spec => []CountHasSignal
<1>1. SafetyInv => CountHasSignal
  BY DEF SafetyInv
<1> QED
  BY <1>1, SafetyInvHolds, PTL

\* However the steps of record_signal and wait_until interleave, a parked
\* waiter whose count is reached is woken or about to be.
THEOREM NoMissedWakeupHolds == Spec => []NoMissedWakeup
<1>1. SafetyInv => NoMissedWakeup
  BY DEF SafetyInv, WakeupOwed, NoMissedWakeup
<1> QED
  BY <1>1, SafetyInvHolds, PTL
==========================================================================
