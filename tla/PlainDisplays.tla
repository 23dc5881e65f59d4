--------------------------- MODULE PlainDisplays ---------------------------
(***************************************************************************)
(* The displays that only append: ui/simple.rs, ui/interleaved.rs ("all")  *)
(* and the line buffer "all" cuts container output into lines with.  A     *)
(* display p is the screen it writes to and the fields of its State.       *)
(***************************************************************************)
EXTENDS Screen

Say(p, what) == [p EXCEPT !.screen = Println(@, what)]

\* print_stderr_class, as every display but the live one has it.
PlainStderrClass(p, onScreen) == IF onScreen THEN Say(p, "stderr") ELSE p

SimpleState(screen) ==
    [screen |-> screen, printed_a_task |-> FALSE, started_cleanup |-> FALSE, task_container |-> None]

BlankBetweenTasks(p) ==
    IF p.printed_a_task THEN [p EXCEPT !.screen = Newline(@)]
    ELSE [p EXCEPT !.printed_a_task = TRUE]

SimpleTaskStarting(p) ==
    [Say(BlankBetweenTasks(p), "running")
        EXCEPT !.started_cleanup = FALSE, !.task_container = None]

SimplePrerequisitesOnly(p) == Say(BlankBetweenTasks(p), "running")

SimpleTaskGraphResolved(p, task) == [p EXCEPT !.task_container = task]

SimpleMilestone(p) == Say(p, "milestone")

\* is_task_container: not while the container's output may be on the row.
SimpleReadiness(p, c) == IF c = p.task_container THEN p ELSE Say(p, "milestone")

SimpleDependencyExited(p) == Say(p, "exited")

SimpleCleanupStarting(p) ==
    IF p.started_cleanup THEN p
    ELSE Say([p EXCEPT !.started_cleanup = TRUE, !.screen = Newline(@)], "cleanup")

SimpleSummary(p) == Say(p, "summary")

----------------------------------------------------------------------------
(* "all": every line under the prefix of a container or of the task.  heard *)
(* holds what has gone to the result console, early whether any line went   *)
(* out before the line that introduces the task.                           *)

AllState(screen) ==
    [screen |-> screen, task |-> None, task_container |-> None, preamble_pending |-> FALSE,
     images |-> {}, started_cleanup |-> FALSE, heard |-> {}, early |-> FALSE]

Prefixed(p) == [Say(p, "prefixed") EXCEPT !.early = @ \/ p.preamble_pending]

FlushPreamble(p) ==
    IF p.preamble_pending THEN Prefixed([p EXCEPT !.preamble_pending = FALSE]) ELSE p

\* The state is new, but what has been printed stays printed.
Afresh(p) ==
    [AllState(p.screen) EXCEPT !.heard = p.heard, !.early = p.early]

AllTaskStarting(p, task) == [Afresh(p) EXCEPT !.task = task, !.preamble_pending = TRUE]

AllPrerequisitesOnly(p, task) == Prefixed([Afresh(p) EXCEPT !.task = task])

AllTaskGraphResolved(p, task, users) ==
    FlushPreamble([p EXCEPT !.task_container = task, !.images = users])

AllMilestone(p) == Prefixed(p)

\* A pull is announced for every container of its image.
AllImagePull(p) ==
    LET said[n \in 0..Cardinality(p.images)] == IF n = 0 THEN p ELSE Prefixed(said[n - 1])
    IN said[Cardinality(p.images)]

\* The task container's lines are the result; the others are progress.
AllContainerOutput(p, c) ==
    IF c = p.task_container THEN [p EXCEPT !.heard = @ \cup {c}] ELSE Prefixed(p)

AllRunEnded(p) == FlushPreamble(p)

AllCleanupStarting(p) ==
    IF p.started_cleanup THEN p ELSE Prefixed([p EXCEPT !.started_cleanup = TRUE])

AllSummary(p) == Prefixed(p)

----------------------------------------------------------------------------
(* LineBuffer.                                                             *)

LineBuffer == [pending |-> <<>>, pending_cr |-> FALSE, after_lone_cr |-> FALSE, lines |-> <<>>]

EmitLine(b) == [b EXCEPT !.lines = Append(@, b.pending), !.pending = <<>>]

EndAtNewline(b) ==
    [(IF b.pending # <<>> \/ ~b.after_lone_cr THEN EmitLine(b) ELSE b)
        EXCEPT !.after_lone_cr = FALSE]

EndAtLoneCr(b) ==
    IF b.pending = <<>> THEN b ELSE [EmitLine(b) EXCEPT !.after_lone_cr = TRUE]

PushByte(b, byte) ==
    LET settled == [b EXCEPT !.pending_cr = FALSE]
        next == IF b.pending_cr /\ byte # "LF" THEN EndAtLoneCr(settled) ELSE settled
    IN CASE byte = "CR" -> [next EXCEPT !.pending_cr = TRUE]
         [] byte = "LF" -> EndAtNewline(next)
         [] OTHER -> [next EXCEPT !.pending = Append(@, byte)]

\* Mutant: what a chunk ends with is forgotten by the next.
Push_Local(b, chunk) == FoldLeft(PushByte, [b EXCEPT !.pending_cr = FALSE], chunk)

Push(b, chunk) ==
    LET after[i \in 0..Len(chunk)] ==
            IF i = 0 THEN b ELSE PushByte(after[i - 1], chunk[i])
    IN after[Len(chunk)]

Flush(b) ==
    LET ended == [b EXCEPT !.pending_cr = FALSE, !.after_lone_cr = FALSE]
    IN IF b.pending = <<>> THEN ended ELSE EmitLine(ended)

----------------------------------------------------------------------------
(* What a whole stream's lines are, read off its line ends.  The index after *)
(* the last byte ends the last line.                                       *)

CrLf(bytes, i) == i < Len(bytes) /\ bytes[i] = "CR" /\ bytes[i + 1] = "LF"

EndsLine(bytes, i) == bytes[i] \in {"CR", "LF"} /\ ~CrLf(bytes, i)

IsStart(bytes, i, j) ==
    /\ j \in 0..i - 1 /\ (j = 0 \/ EndsLine(bytes, j))
    /\ \A k \in j + 1..i - 1 : ~EndsLine(bytes, k)

\* The bytes between the line end before i and the one at i.
LineAt(bytes, i) ==
    LET start == CHOOSE j \in 0..i - 1 : IsStart(bytes, i, j)
    IN SubSeq(bytes, start + 1, IF i > 1 /\ CrLf(bytes, i - 1) THEN i - 2 ELSE i - 1)

\* Since the last newline, a line with something in it has ended in a lone CR.
Redrawn(bytes, i) ==
    \E j \in 1..i - 1 :
        /\ bytes[j] = "CR" /\ ~CrLf(bytes, j) /\ LineAt(bytes, j) # <<>>
        /\ \A k \in j..i - 1 : bytes[k] # "LF"

Shown(bytes, i) ==
    \/ LineAt(bytes, i) # <<>>
    \/ i <= Len(bytes) /\ bytes[i] = "LF" /\ ~Redrawn(bytes, i)

ShownEnds(bytes) ==
    {i \in 1..Len(bytes) + 1 : (i = Len(bytes) + 1 \/ EndsLine(bytes, i)) /\ Shown(bytes, i)}

LinesOf(bytes) ==
    LET ends == ShownEnds(bytes)
        nth(k) == CHOOSE i \in ends : Cardinality({j \in ends : j <= i}) = k
    IN [k \in 1..Cardinality(ends) |-> LineAt(bytes, nth(k))]
============================================================================
