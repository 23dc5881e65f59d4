------------------------------- MODULE Fancy -------------------------------
(***************************************************************************)
(* ui/fancy.rs, the live display: a block of one row per container while a *)
(* task starts, and a countdown while it is cleaned up.  A display f is    *)
(* the screen it draws on and the fields of its State; every operator is   *)
(* the handler of one TaskEvent, or a helper of theirs.                    *)
(***************************************************************************)
EXTENDS Screen

\* What is ordered once everything of a list has been visited, one by one.
VisitAll(visit, list, ordered) ==
    LET after[i \in 0..Len(list)] ==
            IF i = 0 THEN ordered ELSE visit[list[i]][after[i - 1]]
    IN after[Len(list)]

\* dependency_post_order: each container below what it depends on.
Visit(graph) ==
    LET visit[c \in DOMAIN graph] ==
            [ordered \in Seq(DOMAIN graph) |->
                IF c \in ToSet(ordered) THEN ordered
                ELSE Append(VisitAll(visit, graph[c], ordered), c)]
    IN visit

DependencyPostOrder(graph, task) ==
    LET reached == Visit(graph)[task][<<>>]
    IN reached \o SetToSeq(DOMAIN graph \ ToSet(reached))

Stage(name) == [at |-> name, waits |-> {}]

State(screen) ==
    [screen |-> screen, lines |-> <<>>, stage |-> << >>, painted_lines |-> 0, painted_width |-> None,
     last_rendered |-> None, keep_updating |-> FALSE, created |-> {}, ready |-> {},
     removing_network |-> FALSE, cleanup_shown |-> FALSE, cleanup_live |-> FALSE,
     cleanup_width |-> None, separator_owed |-> FALSE, printed_a_task |-> FALSE]

\* The stages whose text is the wider of the two.
Columns(stage) ==
    IF stage.at = "healthy?" \/ stage.waits # {} THEN 2 ELSE 1

\* Mutant: a dependency that became ready first is waited for all the same.
WaitingFor_All(f, graph, c) == [at |-> "waiting", waits |-> ToSet(graph[c])]

WaitingFor(f, graph, c) ==
    [at |-> "waiting", waits |-> ToSet(graph[c]) \ f.ready]

StartWaiting(f, graph, containers) ==
    [f EXCEPT !.stage = [c \in DOMAIN @ |->
        IF c \in containers THEN WaitingFor(f, graph, c) ELSE @[c]]]

MarkReady(f, c) ==
    [f EXCEPT !.ready = @ \cup {c},
              !.stage = [x \in DOMAIN @ |->
                  IF x = c THEN Stage("ready")
                  ELSE [at |-> @[x].at, waits |-> @[x].waits \ {c}]]]

SetStage(f, containers, stage) ==
    [f EXCEPT !.stage = [c \in DOMAIN @ |-> IF c \in containers THEN stage ELSE @[c]]]

OnScreen(f, s) == [f EXCEPT !.screen = s]

\* The block is drawn over the last one, or below it when the width has changed.
RepaintStartup(f) ==
    LET s == f.screen
        rendered == [i \in DOMAIN f.lines |->
                        [text |-> f.stage[f.lines[i]],
                         columns |-> FitRow(s, Columns(f.stage[f.lines[i]]))]]
        rows == [i \in DOMAIN f.lines |-> Row(s, "block", i, rendered[i].columns)]
        count == Len(f.lines)
        start == IF f.painted_lines = 0 THEN s
                 ELSE IF f.painted_width = s.width THEN CursorUp(s, f.painted_lines, "block", count)
                 ELSE Newline(s)
    IN IF f.lines = <<>> THEN f
       ELSE IF f.last_rendered = rendered THEN [f EXCEPT !.painted_width = s.width]
       ELSE [f EXCEPT !.screen = Paint(start, rows), !.painted_lines = count,
                      !.painted_width = s.width, !.last_rendered = rendered]

CleanupText(f) ==
    IF f.created # {} THEN f.created
    ELSE IF f.removing_network THEN {"network"} ELSE {}

RepaintCleanup(f) ==
    LET s == f.screen
        text == CleanupText(f)
        start == IF f.cleanup_shown /\ f.cleanup_width = s.width
                   THEN CursorUp(s, 1, "count", 1)
                   ELSE Newline(s)
    IN [f EXCEPT
          !.screen = Paint(start, <<Row(s, "count", text, FitRow(s, IF text = {} THEN 1 ELSE 2))>>),
          !.separator_owed = @ /\ f.cleanup_shown,
          !.cleanup_shown = TRUE, !.cleanup_width = s.width]

RepaintCleanupIfLive(f) == IF f.cleanup_live THEN RepaintCleanup(f) ELSE f

ClearCleanupLine(f) ==
    IF ~f.cleanup_shown THEN f
    ELSE [f EXCEPT !.cleanup_shown = FALSE,
                   !.screen = IF f.cleanup_width = @.width
                                THEN CursorUp(@, 1, "count", 1) ELSE Newline(@)]

PaySeparator(f) ==
    IF f.separator_owed
      THEN [f EXCEPT !.separator_owed = FALSE, !.screen = Newline(@)] ELSE f

----------------------------------------------------------------------------
(* The handlers.  Those of startup do nothing once the block is frozen.    *)

\* Mutant: the countdown is thought to be above the cursor still.
FancyStderrClass_KeepsShown(f, onScreen) ==
    IF ~onScreen THEN f
    ELSE RepaintCleanupIfLive(
            [f EXCEPT !.screen = Println(@, "stderr"),
                      !.painted_lines = 0, !.last_rendered = None])

\* An error, warning or notice: printed on stderr, and if that is this screen
\* nothing may go up over it.
FancyStderrClass(f, onScreen) ==
    IF ~onScreen THEN f
    ELSE RepaintCleanupIfLive(
            [f EXCEPT !.screen = Println(@, "stderr"), !.painted_lines = 0,
                      !.last_rendered = None, !.cleanup_shown = FALSE])

Introduce(f, keepUpdating) ==
    LET s == IF f.printed_a_task THEN Newline(f.screen) ELSE f.screen
    IN [State(Println(s, "running")) EXCEPT
            !.printed_a_task = TRUE, !.keep_updating = keepUpdating]

FancyTaskStarting(f) == Introduce(f, TRUE)

FancyPrerequisitesOnly(f) == Introduce(f, FALSE)

FancyTaskGraphResolved(f, graph, task) ==
    RepaintStartup(
        [f EXCEPT !.lines = DependencyPostOrder(graph, task),
                  !.stage = [c \in DOMAIN graph |-> Stage("pending")],
                  !.painted_lines = 0, !.painted_width = None, !.last_rendered = None,
                  !.keep_updating = TRUE])

WhileStarting(f, g) == IF f.keep_updating THEN RepaintStartup(g) ELSE f

FancyImagePull(f, users, status) == WhileStarting(f, SetStage(f, users, Stage(status)))

FancyImagePullCompleted(f, graph, users) == WhileStarting(f, StartWaiting(f, graph, users))

\* A build's progress that is blank leaves the last line that was not.
FancyImageBuild(f, c, status) ==
    IF status = "blank" THEN f ELSE WhileStarting(f, SetStage(f, {c}, Stage(status)))

FancyImageResolved(f, graph, c) ==
    WhileStarting(f, StartWaiting(f, graph, {x \in {c} : f.stage[x].at = "pending"}))

FancyDependencyStarting(f, c) == WhileStarting(f, SetStage(f, {c}, Stage("starting")))

FancyDependencyStarted(f, c) == WhileStarting(f, SetStage(f, {c}, Stage("healthy?")))

FancyContainerBecameHealthy(f, c, hasSetup) ==
    WhileStarting(f, IF hasSetup THEN SetStage(f, {c}, Stage("setup"))
                     ELSE MarkReady(f, c))

FancyReady(f, c) == WhileStarting(f, MarkReady(f, c))

FancyRunningSetupCommand(f, c) == WhileStarting(f, SetStage(f, {c}, Stage("in setup")))

FancyDependencyExited(f, c) ==
    IF f.keep_updating
      THEN RepaintStartup(SetStage(f, {c}, Stage("exited")))
      ELSE RepaintCleanupIfLive([f EXCEPT !.screen = Println(@, "exited"),
                                          !.cleanup_shown = FALSE])

FancyContainerCreating(f, c) == WhileStarting(f, SetStage(f, {c}, Stage("creating")))

FancyContainerCreated(f, graph, c) ==
    [WhileStarting(f, StartWaiting(f, graph, {c})) EXCEPT !.created = @ \cup {c}]

FancyRunningTaskContainer(f, c) ==
    LET g == [f EXCEPT !.separator_owed = TRUE]
    IN IF ~f.keep_updating THEN g
       ELSE [RepaintStartup(SetStage(g, {c}, Stage("running")))
                EXCEPT !.keep_updating = FALSE, !.screen = Newline(@)]

FancyRunEnded(f) == [f EXCEPT !.keep_updating = FALSE]

FancyCleanupStarting(f) == RepaintCleanup([f EXCEPT !.cleanup_live = TRUE])

FancyContainerRemoved(f, c) == RepaintCleanupIfLive([f EXCEPT !.created = @ \ {c}])

FancyRemovingNetwork(f) == RepaintCleanupIfLive([f EXCEPT !.removing_network = TRUE])

FancyCleanupFinished(f) == ClearCleanupLine([f EXCEPT !.cleanup_live = FALSE])

\* TaskFinished, TaskFailed.
FancySummary(f) ==
    LET g == PaySeparator(ClearCleanupLine(f))
    IN [g EXCEPT !.screen = Println(@, "summary")]
============================================================================
