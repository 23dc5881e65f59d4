------------------------------ MODULE Screen ------------------------------
(***************************************************************************)
(* What the terminal holds as the displays write to it: ui.rs's Console,   *)
(* and the cursor movements ui/fancy.rs makes.  A screen s is a record:    *)
(* its last rows, whether the last of them is output a container has not   *)
(* ended with a newline, its width, and what went wrong so far.  Text is   *)
(* its width in columns, 1 or 2.  A row is wrapped when it takes two rows  *)
(* of the terminal: one wider than the screen as it is written, and after  *)
(* a resize whichever the terminal reflows so.                             *)
(***************************************************************************)
EXTENDS Absent, Naturals, Sequences, SequencesExt, FiniteSets

CONSTANTS
    RowsKept    \* rows of the screen that are remembered

NewScreen(width) ==
    [rows |-> <<>>, partial |-> FALSE, width |-> width, harm |-> FALSE, glued |-> {}]

Row(s, kind, says, columns) ==
    [kind |-> kind, says |-> says, columns |-> columns, wrapped |-> columns > s.width]

TextRow(s, kind) == Row(s, kind, None, 1)

Recent(rows) ==
    IF Len(rows) > RowsKept THEN SubSeq(rows, Len(rows) - RowsKept + 1, Len(rows)) ELSE rows

\* The rows of the terminal that the rows painted take, one or two each.
Height(rows) == Len(rows) + Cardinality({i \in DOMAIN rows : rows[i].wrapped})

\* What a resize may leave wrapped: a row too wide for the new width, in a terminal
\* that reflows, and any that was wrapped already, for how a terminal reflows on a
\* widening is its own affair.
MayWrap(s, width) ==
    {i \in DOMAIN s.rows : s.rows[i].wrapped \/ s.rows[i].columns > width}

Reflow(s, width, wrapped) ==
    [s EXCEPT !.width = width,
              !.rows = [i \in DOMAIN @ |-> [@[i] EXCEPT !.wrapped = i \in wrapped]]]

\* A row still wrapped though it fits: the terminal was narrower and is not now.
Creased(s, rows) == \E i \in DOMAIN rows : rows[i].wrapped /\ rows[i].columns <= s.width

\* fit_row: every row the display paints is clipped to the width.
FitRow(s, columns) == IF columns > s.width THEN s.width ELSE columns

Newline(s) ==
    IF s.partial
      THEN [s EXCEPT !.partial = FALSE]
      ELSE [s EXCEPT !.rows = Recent(Append(@, TextRow(s, "text")))]

\* Console::println: a line of its own, unless output is left unended.
Println(s, what) ==
    IF s.partial
      THEN [s EXCEPT !.partial = FALSE, !.glued = @ \cup {what}]
      ELSE [s EXCEPT !.rows = Recent(Append(@, TextRow(s, "text")))]

\* Console::print of rows that each end with a newline.
Paint(s, rows) ==
    IF s.partial
      THEN [s EXCEPT !.partial = FALSE, !.glued = @ \cup {rows[1].kind},
                     !.rows = Recent(@ \o Tail(rows))]
      ELSE [s EXCEPT !.rows = Recent(@ \o rows)]

\* The cursor goes up over count rows of the terminal, and what is below it is
\* overwritten.  Harm is done unless those are just the display's own last n rows
\* of this kind, a block's from its first.  Over rows that are creased it falls
\* short of the first, some of which stays above as a stray row.
CursorUp(s, count, kind, n) ==
    LET above == SubSeq(s.rows, 1, Len(s.rows) - n)
        last == SubSeq(s.rows, Len(s.rows) - n + 1, Len(s.rows))
        own == /\ ~s.partial /\ n <= Len(s.rows)
               /\ \A i \in 1..n : last[i].kind = kind /\ (kind = "block" => last[i].says = i)
    IN IF own /\ Height(last) = count THEN [s EXCEPT !.rows = above]
       ELSE IF own /\ Height(last) > count /\ Creased(s, last)
         THEN [s EXCEPT !.rows = Append(above, TextRow(s, "text"))]
       ELSE [s EXCEPT !.harm = TRUE]

\* A container's own output, written past the display.
RawOutput(s, ended) ==
    [s EXCEPT !.partial = ~ended,
              !.rows = IF s.partial THEN @ ELSE Recent(Append(@, TextRow(s, "raw")))]
============================================================================
