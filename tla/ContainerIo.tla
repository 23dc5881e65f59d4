--------------------------- MODULE ContainerIo ---------------------------
(***************************************************************************)
(* The docker client's sessions with running containers (docker.rs,        *)
(* docker/stdin.rs).  Task containers run one after another, each attached *)
(* to this process's stdin, output and terminal by one of three paths.     *)
(* One thread reads stdin for all of them and hands what it reads over a   *)
(* channel of one to the pump of the session that holds it.  Background    *)
(* containers are started, waited for until healthy and removed; where     *)
(* output is interleaved a follower posts what each prints.                *)
(***************************************************************************)
EXTENDS Naturals, Sequences

CONSTANTS
    Sessions,       \* how many task containers run, one after another
    Chunks,         \* the most chunks anyone types or pipes in
    Lines,          \* the most lines a background container prints
    Background,     \* the background containers
    Environments,   \* the terminals, policies and containers of an invocation
    MayFail         \* what may fail

Turns == 1 .. Sessions
End == 0            \* end of input, where a chunk is a number from one up
ASSUME SessionsAssumption == Sessions \in Nat \ {0} /\ Chunks \in Nat

VARIABLES
    env,        \* streaming policy, what stdin and stdout are and whether
                \* anybody feeds stdin, and what runs
    source,     \* what has been typed or piped in and not read
    typed,      \* how many chunks that makes since the process began
    ended,      \* whether end of input has been typed, or the pipe closed
    reader,     \* where the reading thread stands
    channel,    \* the chunk it has read and nobody has taken
    pump,       \* where each session's pump stands
    aborted,    \* the sessions whose pump has been aborted
    took,       \* the chunks each session's pump has taken
    closed,     \* the sessions whose container's stdin has been shut down
    turn,       \* the session whose turn it is
    at,         \* where it stands
    outcome,    \* what has come of it so far
    raw,        \* the terminal is raw
    record,     \* ui::raw_mode says that it is
    warned,     \* the user has been told how to restore it
    life,       \* each background container in the daemon
    printed,    \* how many lines it has printed
    posted,     \* how many of them its follower has posted
    follower,   \* its follower task
    handles,    \* LogFollowers::handles
    removal,    \* where its removal stands
    escalated,  \* the containers whose graceful removal has been broken off
    told,       \* the containers whose removal has been announced
    events,     \* the daemon's events about it
    wait        \* where getting it ready, started and healthy, stands

inputVars == <<source, typed, ended, reader, channel, pump, aborted, took, closed>>
sessionVars == <<turn, at, outcome, raw, record, warned>>
followVars == <<life, printed, posted, follower, handles, removal, escalated, told>>
healthVars == <<events, wait>>
vars == <<env, inputVars, sessionVars, followVars, healthVars>>

InputTypeOK ==
    /\ source \in Seq(Nat) /\ channel \in Seq(Nat) /\ typed \in Nat
    /\ ended \in BOOLEAN
    /\ reader \in {"unstarted", "reserve", "read", "gone"}
    /\ pump \in [Turns -> {"none", "lock", "recv", "write", "shut", "done"}]
    /\ took \in [Turns -> Seq(Nat)]
    /\ aborted \subseteq Turns /\ closed \subseteq Turns

SessionTypeOK ==
    /\ turn \in Turns
    /\ at \in {"attach", "raw", "enable", "pump", "start", "stream", "drop",
               "restore", "unrecord", "code", "over"}
    /\ outcome \in {"none", "failed", "exited", "stdout closed", "cancelled",
                    "succeeded", "exited non-zero"}
    /\ raw \in BOOLEAN /\ record \in BOOLEAN /\ warned \in BOOLEAN

BackgroundTypeOK ==
    /\ life \in [Background -> {"created", "running", "exited", "removed"}]
    /\ printed \in [Background -> Nat] /\ posted \in [Background -> Nat]
    /\ follower \in [Background -> {"none", "running", "done"}]
    /\ removal \in [Background -> {"none", "refused", "remove", "force", "take",
                                   "await", "done"}]
    /\ handles \subseteq Background /\ told \subseteq Background
    /\ escalated \subseteq Background
    /\ events \in [Background -> Seq({"healthy", "unhealthy", "die"})]
    /\ wait \in [Background -> {"none", "open", "next", "ok", "failed"}]

IoTypeOK ==
    env \in Environments /\ InputTypeOK /\ SessionTypeOK /\ BackgroundTypeOK

Init ==
    /\ env \in Environments
    /\ source = <<>> /\ typed = 0 /\ ended = FALSE
    /\ reader = "unstarted" /\ channel = <<>>
    /\ pump = [s \in Turns |-> "none"] /\ aborted = {}
    /\ took = [s \in Turns |-> <<>>] /\ closed = {}
    /\ turn = 1 /\ at = "attach" /\ outcome = "none"
    /\ raw = FALSE /\ record = FALSE /\ warned = FALSE
    /\ life = [b \in Background |-> "created"]
    /\ printed = [b \in Background |-> 0] /\ posted = printed
    /\ follower = [b \in Background |-> "none"]
    /\ handles = {} /\ told = {} /\ escalated = {}
    /\ removal = [b \in Background |-> "none"]
    /\ events = [b \in Background |-> <<>>]
    /\ wait = [b \in Background |-> "none"]

Interleaved == env.streaming = "interleaved"

----------------------------------------------------------------------------
(* StdinReader::spawn: the thread.                                         *)

\* It reads only once the channel has room.
ReaderReserve ==
    /\ reader = "reserve"
    /\ channel = <<>>
    /\ reader' = "read"
    /\ UNCHANGED <<source, typed, ended, channel, pump, aborted, took, closed>>

\* A pipe's end is final, a terminal's is read past.
ReaderRead ==
    /\ reader = "read"
    /\ source # <<>>
    /\ channel' = <<Head(source)>>
    /\ source' = Tail(source)
    /\ reader' = IF Head(source) = End /\ ~env.stdin_terminal
                   THEN "gone" ELSE "reserve"
    /\ UNCHANGED <<typed, ended, pump, aborted, took, closed>>

\* Interrupted, or a descriptor left non-blocking.
ReaderRetries ==
    /\ reader = "read"
    /\ "retry" \in MayFail
    /\ reader' = "reserve"
    /\ UNCHANGED <<source, typed, ended, channel, pump, aborted, took, closed>>

ReaderFails ==
    /\ reader = "read"
    /\ "read" \in MayFail
    /\ channel' = <<End>>
    /\ reader' = "gone"
    /\ UNCHANGED <<source, typed, ended, pump, aborted, took, closed>>

Reader == ReaderReserve \/ ReaderRead \/ ReaderRetries \/ ReaderFails

\* Somebody types, or writes to the pipe.
Type ==
    /\ env.fed /\ typed < Chunks
    /\ ~(ended /\ ~env.stdin_terminal)
    /\ typed' = typed + 1
    /\ source' = Append(source, typed + 1)
    /\ UNCHANGED <<ended, reader, channel, pump, aborted, took, closed>>

\* The pipe is closed; or Ctrl+D, which a raw terminal passes on as a byte.
TypeEnd ==
    /\ env.fed /\ ~ended
    /\ ~raw
    /\ ended' = TRUE
    /\ source' = Append(source, End)
    /\ UNCHANGED <<typed, reader, channel, pump, aborted, took, closed>>

----------------------------------------------------------------------------
(* StdinReader::forward: one session's pump, a task of its own.  Aborting  *)
(* a task ends it at its next await, which one being polled at that moment *)
(* may reach after another step.                                           *)

PumpTo(s, there) == pump' = [pump EXCEPT ![s] = there]

\* The reader is locked for as long as the pump runs.  A pump aborted while it
\* waits for the lock is not polled again.
PumpLocks(s) ==
    /\ pump[s] = "lock" /\ s \notin aborted
    /\ \A q \in Turns : pump[q] \notin {"recv", "write", "shut"}
    /\ PumpTo(s, "recv")
    /\ UNCHANGED <<source, typed, ended, reader, channel, aborted, took, closed>>

\* recv: a chunk, end of input, or a channel whose sender has gone.
PumpReceives(s) ==
    /\ pump[s] = "recv"
    /\ \/ /\ channel # <<>> /\ Head(channel) # End
          /\ took' = [took EXCEPT ![s] = Append(@, Head(channel))]
          /\ PumpTo(s, "write")
       \/ /\ channel = <<End>> \/ (channel = <<>> /\ reader = "gone")
          /\ took' = took /\ PumpTo(s, "shut")
    /\ channel' = <<>>
    /\ UNCHANGED <<source, typed, ended, reader, aborted, closed>>

PumpWrites(s) ==
    /\ pump[s] = "write"
    /\ \/ PumpTo(s, "recv")
       \/ "write" \in MayFail /\ PumpTo(s, "shut")
    /\ UNCHANGED <<source, typed, ended, reader, channel, aborted, took, closed>>

PumpShuts(s) ==
    /\ pump[s] = "shut"
    /\ closed' = closed \cup {s}
    /\ PumpTo(s, "done")
    /\ UNCHANGED <<source, typed, ended, reader, channel, aborted, took>>

\* Mutant: the pump reads for itself, and what it was reading goes with it.
PumpStops_WithChunk(s) ==
    /\ s \in aborted
    /\ pump[s] \in {"lock", "recv", "write", "shut"}
    /\ PumpTo(s, "done")
    /\ channel' = IF pump[s] = "recv" THEN <<>> ELSE channel
    /\ UNCHANGED <<source, typed, ended, reader, aborted, took, closed>>

PumpStops(s) ==
    /\ s \in aborted
    /\ pump[s] \in {"lock", "recv", "write", "shut"}
    /\ PumpTo(s, "done")
    /\ UNCHANGED <<source, typed, ended, reader, channel, aborted, took, closed>>

Pump(s) == PumpLocks(s) \/ PumpReceives(s) \/ PumpWrites(s) \/ PumpShuts(s)

----------------------------------------------------------------------------
(* run_container: the session whose turn it is.                            *)

Interactive == env.interactive /\ ~Interleaved
UseTty == Interactive /\ env.stdin_terminal /\ env.stdout_terminal

Goto(there) == at' = there
GiveUp == outcome' = "failed" /\ Goto("drop")

\* attach_output, before the container starts on every path.
Attach ==
    /\ at = "attach"
    /\ \/ /\ Goto(IF UseTty THEN "raw" ELSE IF Interactive THEN "pump" ELSE "start")
          /\ outcome' = outcome
       \/ "attach" \in MayFail /\ GiveUp
    /\ UNCHANGED <<inputVars, turn, raw, record, warned>>

\* RawModeGuard::enable_with: the record first, then the terminal.
RecordRaw ==
    /\ at = "raw"
    /\ record' = TRUE
    /\ Goto("enable")
    /\ UNCHANGED <<inputVars, turn, outcome, raw, warned>>

EnableRaw ==
    /\ at = "enable"
    /\ \/ raw' = TRUE /\ Goto("start") /\ UNCHANGED <<outcome, record>>
       \/ "enable" \in MayFail /\ raw' = raw /\ record' = FALSE /\ GiveUp
    /\ UNCHANGED <<inputVars, turn, warned>>

\* spawn_stdin_pump, which starts the reading thread the first time.
SpawnPump ==
    /\ at = "pump"
    /\ PumpTo(turn, "lock")
    /\ reader' = IF reader = "unstarted" THEN "reserve" ELSE reader
    /\ Goto(IF UseTty THEN "stream" ELSE "start")
    /\ UNCHANGED <<source, typed, ended, channel, aborted, took, closed, turn,
                   outcome, raw, record, warned>>

\* start_container; the terminal's size follows, best effort.
Start ==
    /\ at = "start"
    /\ \/ Goto(IF UseTty THEN "pump" ELSE "stream") /\ outcome' = outcome
       \/ "start" \in MayFail /\ GiveUp
    /\ UNCHANGED <<inputVars, turn, raw, record, warned>>

\* The output stream ends with the container; or it cannot be read, or what it
\* said cannot be written, because stdout's reader has gone or otherwise.
StreamEnds ==
    /\ at = "stream"
    /\ \/ outcome' = "exited" /\ Goto("drop")
       \/ "output" \in MayFail /\ GiveUp
       \/ "stdout" \in MayFail /\ outcome' = "stdout closed" /\ Goto("drop")
    /\ UNCHANGED <<inputVars, turn, raw, record, warned>>

\* The engine drops the run, at whatever it is awaiting.
Cancel ==
    /\ at \in {"attach", "start", "stream", "code"}
    /\ "cancel" \in MayFail
    /\ outcome' = "cancelled" /\ Goto("drop")
    /\ UNCHANGED <<inputVars, turn, raw, record, warned>>

\* AbortOnDrop, however the session ends.  (Without a TTY the code drops the pump
\* only once it has the exit code; here a pump may take a chunk until it sees that
\* it has been aborted, which is as late.)
DropPump ==
    /\ at = "drop"
    /\ aborted' = IF pump[turn] # "none" THEN aborted \cup {turn} ELSE aborted
    /\ Goto("restore")
    /\ UNCHANGED <<source, typed, ended, reader, channel, pump, took, closed,
                   turn, outcome, raw, record, warned>>

\* Mutant: the record is cleared first.
Restore_UnrecordsFirst ==
    /\ at = "restore"
    /\ record' = FALSE
    /\ \/ raw' = raw /\ Goto("restore") /\ UNCHANGED warned
       \/ raw' = FALSE /\ Goto("unrecord") /\ UNCHANGED warned
    /\ UNCHANGED <<inputVars, turn, outcome>>

\* RawModeGuard::drop, where there is a guard: the terminal, a warning if it
\* cannot be restored, and only then the record.
Restore ==
    /\ at = "restore"
    /\ \/ raw' = FALSE /\ warned' = warned
       \/ raw /\ "restore" \in MayFail /\ raw' = raw /\ warned' = TRUE
    /\ Goto("unrecord")
    /\ UNCHANGED <<inputVars, turn, outcome, record>>

Unrecord ==
    /\ at = "unrecord"
    /\ record' = FALSE
    /\ Goto(IF outcome = "exited" THEN "code" ELSE "over")
    /\ UNCHANGED <<inputVars, turn, outcome, raw, warned>>

\* exit_code.  A command that succeeded is followed by the next task's.
ExitCode ==
    /\ at = "code"
    /\ \/ /\ turn < Sessions
          /\ turn' = turn + 1 /\ outcome' = "none" /\ Goto("attach")
       \/ /\ turn' = turn /\ Goto("over")
          /\ outcome' \in {"succeeded", "exited non-zero"} \cup
                          (IF "code" \in MayFail THEN {"failed"} ELSE {})
    /\ UNCHANGED <<inputVars, raw, record, warned>>

Session ==
    \/ Attach \/ RecordRaw \/ EnableRaw \/ SpawnPump \/ Start \/ DropPump
    \/ Restore \/ Unrecord \/ ExitCode

----------------------------------------------------------------------------
(* Background containers.                                                  *)

Becomes(b, state) == life' = [life EXCEPT ![b] = state]

\* A container that was running dies of it.
EndedAs(b, state) ==
    /\ Becomes(b, state)
    /\ events' = IF life[b] = "running"
                   THEN [events EXCEPT ![b] = Append(@, "die")] ELSE events

WaitTo(b, there) == wait' = [wait EXCEPT ![b] = there]

\* start_background_container: an attach where output is interleaved, the start,
\* and the follower's handle kept; either call may be refused, and the container
\* is then never ready.
StartBackground(b) ==
    /\ b \in env.background
    /\ life[b] = "created" /\ removal[b] = "none" /\ wait[b] = "none"
    /\ \/ /\ Becomes(b, "running")
          /\ IF Interleaved
               THEN /\ follower' = [follower EXCEPT ![b] = "running"]
                    /\ handles' = handles \cup {b}
               ELSE UNCHANGED <<follower, handles>>
          /\ wait' = wait
       \/ /\ (Interleaved /\ "attach" \in MayFail) \/ "start" \in MayFail
          /\ WaitTo(b, "failed")
          /\ UNCHANGED <<life, follower, handles>>
    /\ UNCHANGED <<printed, posted, removal, escalated, told, events>>

Prints(b) ==
    /\ life[b] = "running"
    /\ printed[b] < Lines
    /\ printed' = [printed EXCEPT ![b] = @ + 1]
    /\ UNCHANGED <<life, posted, follower, handles, removal, escalated, told, healthVars>>

\* The daemon emits a verdict.
HealthStatus(b) ==
    /\ life[b] = "running"
    /\ Len(events[b]) < 2
    /\ \E verdict \in {"healthy", "unhealthy"} :
          events' = [events EXCEPT ![b] = Append(@, verdict)]
    /\ UNCHANGED <<followVars, wait>>

Dies(b) ==
    /\ life[b] = "running"
    /\ EndedAs(b, "exited")
    /\ UNCHANGED <<printed, posted, follower, handles, removal, escalated, told, wait>>

\* drain_interleaved_output, line by line, until the container goes, the stream
\* fails or stdout's reader has gone.
FollowerPosts(b) ==
    /\ follower[b] = "running"
    /\ posted[b] < printed[b]
    /\ posted' = [posted EXCEPT ![b] = @ + 1]
    /\ UNCHANGED <<life, printed, follower, handles, removal, escalated, told, healthVars>>

FollowerEnds(b) ==
    /\ follower[b] = "running"
    /\ \/ life[b] \in {"exited", "removed"} /\ posted[b] = printed[b]
       \/ "output" \in MayFail \/ outcome = "stdout closed"
    /\ follower' = [follower EXCEPT ![b] = "done"]
    /\ UNCHANGED <<life, printed, posted, handles, removal, escalated, told, healthVars>>

\* stop_and_remove_container: the stop, its refusal, and the forced removal.
Stop(b) ==
    /\ b \in env.background
    /\ removal[b] = "none"
    /\ \/ EndedAs(b, "exited") /\ removal' = [removal EXCEPT ![b] = "remove"]
       \/ /\ "stop" \in MayFail
          /\ removal' = [removal EXCEPT ![b] = "refused"]
          /\ UNCHANGED <<life, events>>
    /\ UNCHANGED <<printed, posted, follower, handles, escalated, told, wait>>

\* Mutant: the follower is waited for before the container is removed.
RemoveForcibly_FollowerFirst(b) ==
    /\ removal[b] \in {"remove", "force"}
    /\ follower[b] # "running"
    /\ EndedAs(b, "removed")
    /\ removal' = [removal EXCEPT ![b] = "take"]
    /\ UNCHANGED <<printed, posted, follower, handles, escalated, told, wait>>

\* remove_container_forcibly: removed, already gone, or being removed; or the
\* daemon refuses, and the error is returned with the follower left running and
\* its handle in the map.
RemoveForcibly(b) ==
    /\ removal[b] \in {"remove", "force"}
    /\ \/ EndedAs(b, "removed") /\ removal' = [removal EXCEPT ![b] = "take"]
       \/ /\ "remove" \in MayFail
          /\ removal' = [removal EXCEPT ![b] = "refused"]
          /\ UNCHANGED <<life, events>>
    /\ UNCHANGED <<printed, posted, follower, handles, escalated, told, wait>>

\* await_and_remove takes the handle out of the map, waits, and returns; the
\* engine announces the removal.
TakeHandle(b) ==
    /\ removal[b] = "take"
    /\ handles' = handles \ {b}
    /\ IF b \in handles
         THEN removal' = [removal EXCEPT ![b] = "await"] /\ told' = told
         ELSE removal' = [removal EXCEPT ![b] = "done"] /\ told' = told \cup {b}
    /\ UNCHANGED <<life, printed, posted, follower, escalated, healthVars>>

FollowerJoined(b) ==
    /\ removal[b] = "await"
    /\ follower[b] = "done"
    /\ removal' = [removal EXCEPT ![b] = "done"]
    /\ told' = told \cup {b}
    /\ UNCHANGED <<life, printed, posted, follower, handles, escalated, healthVars>>

\* Mutant: a wait that is dropped drops the handle.
Escalate_LosesHandle(b) ==
    /\ removal[b] \in {"none", "remove", "await"}
    /\ b \in env.background \ escalated
    /\ escalated' = escalated \cup {b}
    /\ "escalate" \in MayFail
    /\ removal' = [removal EXCEPT ![b] = "force"]
    /\ UNCHANGED <<life, printed, posted, follower, handles, told, healthVars>>

\* The engine's escalation drops the graceful removal wherever it is and forces
\* one of its own; a handle being waited on goes back.
Escalate(b) ==
    /\ removal[b] \in {"none", "remove", "await"}
    /\ b \in env.background \ escalated
    /\ escalated' = escalated \cup {b}
    /\ "escalate" \in MayFail
    /\ handles' = IF removal[b] = "await" THEN handles \cup {b} ELSE handles
    /\ removal' = [removal EXCEPT ![b] = "force"]
    /\ UNCHANGED <<life, printed, posted, follower, told, healthVars>>

----------------------------------------------------------------------------
(* wait_for_container_healthy.                                             *)

\* The inspection: a container with no check is healthy.
WaitForHealthy(b) ==
    /\ b \in env.background
    /\ life[b] # "created" /\ wait[b] = "none"
    /\ \/ WaitTo(b, IF env.checked THEN "open" ELSE "ok")
       \/ "inspect" \in MayFail /\ WaitTo(b, "failed")
    /\ UNCHANGED <<followVars, events>>

\* Mutant: only events from now on are asked for.
OpenEvents_FromNow(b) ==
    /\ wait[b] = "open"
    /\ WaitTo(b, "next")
    /\ events' = [events EXCEPT ![b] = <<>>]
    /\ UNCHANGED <<followVars>>

\* The event stream is opened, from the beginning of time.
OpenEvents(b) ==
    /\ wait[b] = "open"
    /\ WaitTo(b, "next")
    /\ UNCHANGED <<followVars, events>>

\* Its first event decides.
NextEvent(b) ==
    /\ wait[b] = "next"
    /\ \/ /\ events[b] # <<>>
          /\ WaitTo(b, IF Head(events[b]) = "healthy" THEN "ok" ELSE "failed")
       \/ "events" \in MayFail /\ WaitTo(b, "failed")
    /\ UNCHANGED <<followVars, events>>

----------------------------------------------------------------------------

IoElsewhere == UNCHANGED <<env, sessionVars, followVars, healthVars>>
DockerElsewhere == UNCHANGED <<env, inputVars, sessionVars>>

Input == Reader \/ \E s \in Turns : Pump(s) \/ PumpStops(s)

BackgroundStep(b) ==
    \/ StartBackground(b) \/ Prints(b) \/ HealthStatus(b) \/ Dies(b)
    \/ FollowerPosts(b) \/ FollowerEnds(b) \/ Stop(b) \/ RemoveForcibly(b)
    \/ TakeHandle(b) \/ FollowerJoined(b) \/ Escalate(b) \/ WaitForHealthy(b)
    \/ OpenEvents(b) \/ NextEvent(b)

Next ==
    \/ (Input \/ Type \/ TypeEnd) /\ IoElsewhere
    \/ (Session \/ StreamEnds \/ Cancel) /\ UNCHANGED <<env, followVars, healthVars>>
    \/ (\E b \in Background : BackgroundStep(b)) /\ DockerElsewhere

\* The thread reads what there is to read, every task runs, and the daemon
\* answers; nobody has to type, and a container need not exit or fail.
Fairness ==
    /\ WF_vars(ReaderReserve /\ IoElsewhere)
    /\ SF_vars(ReaderRead /\ IoElsewhere)
    /\ \A s \in Turns : WF_vars((Pump(s) \/ PumpStops(s)) /\ IoElsewhere)
    /\ \A b \in Background :
          /\ WF_vars((RemoveForcibly(b) \/ TakeHandle(b) \/ FollowerJoined(b))
                         /\ DockerElsewhere)
          /\ WF_vars(FollowerPosts(b) /\ DockerElsewhere)
          /\ WF_vars(FollowerEnds(b) /\ posted[b] = printed[b]
                         /\ life[b] # "running" /\ DockerElsewhere)
          /\ WF_vars(OpenEvents(b) /\ DockerElsewhere)
          /\ WF_vars(NextEvent(b) /\ events[b] # <<>> /\ DockerElsewhere)

Spec == Init /\ [][Next]_vars /\ Fairness

----------------------------------------------------------------------------

\* Where a chunk can be, the earlier ones first: with each session's container,
\* read ahead, or not read yet.
Places == 1 .. Sessions + 2
Held(p) ==
    IF p \in Turns THEN took[p] ELSE IF p = Sessions + 1 THEN channel ELSE source

NothingLost ==
    \A n \in 1 .. typed : \E p \in Places : \E i \in 1 .. Len(Held(p)) : Held(p)[i] = n
NothingInvented ==
    \A p \in Places : \A i \in 1 .. Len(Held(p)) :
        Held(p)[i] \in 1 .. typed \/ (p \notin Turns /\ Held(p)[i] = End)
InOrder ==
    \A p, q \in Places : \A i \in 1 .. Len(Held(p)), j \in 1 .. Len(Held(q)) :
        /\ p < q \/ (p = q /\ i < j)
        /\ Held(p)[i] # End /\ Held(q)[j] # End
        => Held(p)[i] < Held(q)[j]

\* Everything typed is, once and in the order it was typed, with a task
\* container, one session's before the next one's, or waiting to be read: no
\* chunk goes astray between an exiting container's pump and the next one's
\* (stdin.rs), and at most one is read ahead.
InputAccounted == NothingLost /\ NothingInvented /\ InOrder /\ Len(channel) <= 1

\* A raw terminal is always recorded as raw, so that lines printed on it start at
\* the first column, and is raw only while its session holds it; or the user has
\* been told.
TerminalRestored ==
    raw => warned \/ (record /\ at \notin {"attach", "over", "code"})

\* Nothing of a container's output is posted once its removal is announced,
\* whether it was removed gracefully, or forced while the graceful removal was
\* waiting for its follower.
NoOutputAfterRemoval == \A b \in told : follower[b] # "running"

\* Where stdin is a pipe that has been closed, every container attached to it has
\* its own stdin closed, the second as well as the one that saw the end, unless
\* its session is over first: a process that runs until its input ends does end.
\* And a removal, which waits for the container's follower, which waits for the
\* container to go, returns all the same, dropped by the engine's escalation and
\* begun again or not; or the daemon refuses it, which returns without a wait.
NothingHangs ==
    /\ \A s \in Turns :
          (ended /\ ~env.stdin_terminal /\ pump[s] # "none")
              ~> (s \in closed \/ s \in aborted)
    /\ \A b \in Background :
          removal[b] \in {"remove", "force"} ~> removal[b] \in {"done", "refused"}

\* A verdict counts whenever the daemon emits it, before the wait opens its event
\* stream or after: the wait then ends.
VerdictHeard ==
    \A b \in Background :
        (wait[b] = "open" /\ events[b] # <<>>) ~> wait[b] \in {"ok", "failed"}
==========================================================================
