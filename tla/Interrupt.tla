---------------------------- MODULE Interrupt ----------------------------
(***************************************************************************)
(* The termination-signal tracker (interrupt.rs).  One listener task per   *)
(* trapped signal records each notification in four separate atomic steps, *)
(* while any number of tasks wait for a count to be reached.  Nothing but  *)
(* the order of those steps keeps a waiter from sleeping through a signal. *)
(*                                                                         *)
(* Signals of one kind that arrive before their listener runs coalesce,    *)
(* and a signal whose handler could not be installed never arrives here.   *)
(* tokio's Notify is external: notify_waiters wakes exactly the Notified   *)
(* futures that exist when it is called.                                   *)
(***************************************************************************)
EXTENDS Naturals

CONSTANTS
    Signals,        \* the trapped signals, TerminationSignal::ALL
    SIGINT,         \* the one the abandon rung counts on its own
    NoSignal,       \* what last_signal holds before any is recorded
    Waiters,        \* the tasks that may await the tracker
    MaxArrivals,    \* bound on the notifications delivered in a behaviour
    MaxThreshold    \* bound on the counts a caller may ask to wait for

ASSUME InterruptAssumption ==
    /\ SIGINT \in Signals
    /\ NoSignal \notin Signals
    /\ MaxArrivals \in Nat
    /\ MaxThreshold \in Nat

VARIABLES
    pending,        \* the signals with an undelivered notification
    recorder,       \* where each listener task stands in record_signal
    received,       \* how many notifications of each signal were received
    arrivals,       \* how many notifications arrived, for the bound
    last_signal, interrupts, count,     \* the tracker's three atomics
    pc,             \* where each waiter stands in wait_until
    want,           \* what each waiter waits for
    notified,       \* the waiters whose Notified future exists
    woken,          \* the ones among them notify_waiters has woken
    work,           \* unless_signalled's work: absent, running or finished
    seen            \* what last_signal read when the wait ended

recorderVars == <<pending, recorder, received, arrivals,
                  last_signal, interrupts, count>>
waiterVars == <<pc, want, notified, woken, work, seen>>
vars == <<pending, recorder, received, arrivals, last_signal,
          interrupts, count, pc, want, notified, woken, work, seen>>

RecorderSteps == {"recv", "store", "interrupts", "count", "notify"}
WaiterSteps == {"idle", "notified", "check", "work", "await", "done"}
Wants == [kind : {"any", "sigint"}, n : 0 .. MaxThreshold]

TypeOK ==
    /\ pending \subseteq Signals
    /\ recorder \in [Signals -> RecorderSteps]
    /\ received \in [Signals -> Nat]
    /\ arrivals \in 0 .. MaxArrivals
    /\ last_signal \in Signals \cup {NoSignal}
    /\ interrupts \in Nat
    /\ count \in Nat
    /\ pc \in [Waiters -> WaiterSteps]
    /\ want \in [Waiters -> Wants]
    /\ notified \subseteq Waiters
    /\ woken \subseteq notified
    /\ work \in [Waiters -> {"absent", "running", "finished"}]
    /\ seen \in [Waiters -> Signals \cup {NoSignal}]

Init ==
    /\ pending = {}
    /\ recorder = [s \in Signals |-> "recv"]
    /\ received = [s \in Signals |-> 0]
    /\ arrivals = 0
    /\ last_signal = NoSignal
    /\ interrupts = 0
    /\ count = 0
    /\ pc = [w \in Waiters |-> "idle"]
    /\ want = [w \in Waiters |-> [kind |-> "any", n |-> 0]]
    /\ notified = {}
    /\ woken = {}
    /\ work = [w \in Waiters |-> "absent"]
    /\ seen = [w \in Waiters |-> NoSignal]

----------------------------------------------------------------------------
(* The listener tasks.                                                     *)

\* The OS delivers a signal; one already pending absorbs it.
Arrive(s) ==
    /\ arrivals < MaxArrivals
    /\ arrivals' = arrivals + 1
    /\ pending' = pending \cup {s}
    /\ UNCHANGED <<recorder, received, last_signal, interrupts,
                   count, waiterVars>>

\* stream.recv() returns in the listener's loop.
Receive(s) ==
    /\ recorder[s] = "recv"
    /\ s \in pending
    /\ pending' = pending \ {s}
    /\ received' = [received EXCEPT ![s] = @ + 1]
    /\ recorder' = [recorder EXCEPT ![s] = "store"]
    /\ UNCHANGED <<arrivals, last_signal, interrupts, count,
                   waiterVars>>

StoreLastSignal(s) ==
    /\ recorder[s] = "store"
    /\ last_signal' = s
    /\ recorder' = [recorder EXCEPT
                       ![s] = IF s = SIGINT THEN "interrupts" ELSE "count"]
    /\ UNCHANGED <<pending, received, arrivals, interrupts, count,
                   waiterVars>>

AddInterrupt(s) ==
    /\ recorder[s] = "interrupts"
    /\ interrupts' = interrupts + 1
    /\ recorder' = [recorder EXCEPT ![s] = "count"]
    /\ UNCHANGED <<pending, received, arrivals, last_signal, count,
                   waiterVars>>

AddCount(s) ==
    /\ recorder[s] = "count"
    /\ count' = count + 1
    /\ recorder' = [recorder EXCEPT ![s] = "notify"]
    /\ UNCHANGED <<pending, received, arrivals, last_signal,
                   interrupts, waiterVars>>

\* Mutant: notify_one, which wakes a single waiter.
NotifyWaiters_One(s) ==
    /\ recorder[s] = "notify"
    /\ \/ \E w \in notified \ woken : woken' = woken \cup {w}
       \/ notified = woken /\ woken' = woken
    /\ recorder' = [recorder EXCEPT ![s] = "recv"]
    /\ UNCHANGED <<pending, received, arrivals, last_signal,
                   interrupts, count, pc, want, notified, work, seen>>

NotifyWaiters(s) ==
    /\ recorder[s] = "notify"
    /\ woken' = notified
    /\ recorder' = [recorder EXCEPT ![s] = "recv"]
    /\ UNCHANGED <<pending, received, arrivals, last_signal,
                   interrupts, count, pc, want, notified, work, seen>>

----------------------------------------------------------------------------
(* The waiters: wait_for, wait_for_interrupts, and unless_signalled, which *)
(* races wait_for(1) against some work and polls the wait first.           *)

Reached(w) ==
    IF want[w].kind = "sigint" THEN interrupts >= want[w].n
                               ELSE count >= want[w].n

Call(w) ==
    /\ pc[w] = "idle"
    /\ \/ /\ \E n \in 1 .. MaxThreshold, kind \in {"any", "sigint"} :
                want' = [want EXCEPT ![w] = [kind |-> kind, n |-> n]]
          /\ work' = work
       \/ /\ MaxThreshold >= 1
          /\ want' = [want EXCEPT ![w] = [kind |-> "any", n |-> 1]]
          /\ work' = [work EXCEPT ![w] = "running"]
    /\ pc' = [pc EXCEPT ![w] = "notified"]
    /\ UNCHANGED <<recorderVars, notified, woken, seen>>

\* let notified = self.notify.notified();
Register(w) ==
    /\ pc[w] = "notified"
    /\ notified' = notified \cup {w}
    /\ woken' = woken \ {w}
    /\ pc' = [pc EXCEPT ![w] = "check"]
    /\ UNCHANGED <<recorderVars, want, work, seen>>

\* if reached() { return; }
Check(w) ==
    /\ pc[w] = "check"
    /\ IF Reached(w)
         THEN /\ pc' = [pc EXCEPT ![w] = "done"]
              /\ seen' = [seen EXCEPT ![w] = last_signal]
              /\ notified' = notified \ {w}
              /\ woken' = woken \ {w}
         ELSE /\ pc' = [pc EXCEPT ![w] =
                           IF work[w] = "absent" THEN "await" ELSE "work"]
              /\ UNCHANGED <<seen, notified, woken>>
    /\ UNCHANGED <<recorderVars, want, work>>

\* notified.await
Wake(w) ==
    /\ pc[w] = "await"
    /\ w \in woken
    /\ pc' = [pc EXCEPT ![w] = "notified"]
    /\ notified' = notified \ {w}
    /\ woken' = woken \ {w}
    /\ UNCHANGED <<recorderVars, want, work, seen>>

\* The second arm of unless_signalled's select, polled when the wait is not
\* over: finished work is returned, anything else parks the task.
PollWork(w) ==
    /\ pc[w] = "work"
    /\ IF work[w] = "finished"
         THEN /\ pc' = [pc EXCEPT ![w] = "done"]
              /\ notified' = notified \ {w}
              /\ woken' = woken \ {w}
         ELSE /\ pc' = [pc EXCEPT ![w] = "await"]
              /\ UNCHANGED <<notified, woken>>
    /\ UNCHANGED <<recorderVars, want, work, seen>>

\* The work ends, which polls a parked task again: wait first, then work.
FinishWork(w) ==
    /\ work[w] = "running"
    /\ pc[w] # "done"
    /\ work' = [work EXCEPT ![w] = "finished"]
    /\ pc' = [pc EXCEPT ![w] =
                 IF @ = "await" /\ w \notin woken THEN "work" ELSE @]
    /\ UNCHANGED <<recorderVars, want, notified, woken, seen>>

----------------------------------------------------------------------------

Record(s) ==
    Receive(s) \/ StoreLastSignal(s) \/ AddInterrupt(s) \/ AddCount(s)
        \/ NotifyWaiters(s)

Wait(w) == Register(w) \/ Check(w) \/ Wake(w) \/ PollWork(w)

Next ==
    \/ \E s \in Signals : Arrive(s) \/ Record(s)
    \/ \E w \in Waiters : Call(w) \/ Wait(w) \/ FinishWork(w)

\* The runtime polls every runnable task: a listener with a notification and
\* a woken waiter both make progress.  Work may hang, and signals may never
\* arrive.
Fairness ==
    /\ \A s \in Signals : WF_vars(Record(s))
    /\ \A w \in Waiters : WF_vars(Wait(w))

Spec == Init /\ [][Next]_vars /\ Fairness

----------------------------------------------------------------------------
(* Properties.                                                             *)

\* record_signal adds to `interrupts` before it adds to `count`, so a reader
\* can see one SIGINT more than signals, but never two, and only while the
\* SIGINT listener stands between the two additions: a reader of both
\* counters (the engine's abandon rung) is off by one at the most.
InterruptsWithinOne ==
    interrupts <= count + (IF recorder[SIGINT] = "count" THEN 1 ELSE 0)

\* A count above zero always comes with a signal to blame it on: the exit code
\* of a run that wait_for(1) ended (128 + last_signal) never falls back to the
\* "no signal yet" reading of zero.
CountHasSignal ==
    /\ count > 0 => last_signal # NoSignal
    /\ \A w \in Waiters :
         pc[w] = "done" /\ want[w].n > 0 /\ seen[w] = NoSignal
            => work[w] = "finished"

\* wait_until registers before it checks, and record_signal raises before it
\* notifies: whenever a parked waiter's count has been reached, either it is
\* woken already or the listener that reached it has still to notify.
NoMissedWakeup ==
    \A w \in Waiters :
        pc[w] = "await" /\ Reached(w) =>
            \/ w \in woken
            \/ \E s \in Signals : recorder[s] \in {"count", "notify"}

\* A waiter whose count has been reached always returns: a signal landing at
\* any point of wait_until is never slept through, whatever its work does.
WaiterReturns ==
    \A w \in Waiters :
        (pc[w] # "idle" /\ Reached(w)) ~> (pc[w] = "done")
==========================================================================
