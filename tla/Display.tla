------------------------------ MODULE Display ------------------------------
(***************************************************************************)
(* The displays of a run, fed the TaskEvents engine.rs and docker.rs post  *)
(* in the orders they can post them, on a terminal that may be resized     *)
(* between any two of them.                                                *)
(***************************************************************************)
EXTENDS Fancy, PlainDisplays

CONSTANTS
    Sessions,       \* the dependencies of each container, as they may be, and
                    \* the bounds: how many tasks are run, one after another,
                    \* and how often the terminal is resized
    TaskContainer,
    Widths,         \* the widths the terminal may have
    Styles,         \* the styles that may be asked for
    StreamChunks    \* container output, as the chunks it may arrive in

\* What build_dependency_graph makes of a task: the containers its own depends on,
\* directly or not, with no cycle among them.
IsTaskGraph(containers) ==
    LET all == DOMAIN containers
    IN /\ IsFiniteSet(all) /\ TaskContainer \in all /\ containers \in [all -> Seq(all)]
       /\ \E rank \in [all -> 0..Cardinality(all)] :
             \A c \in all : \A d \in ToSet(containers[c]) : rank[d] < rank[c]
       /\ \A some \in SUBSET all :
             TaskContainer \in some /\ (\A c \in some : ToSet(containers[c]) \subseteq some)
                => some = all

\* Enough rows are remembered for a block.
ASSUME DisplayAssumption ==
    /\ \A s \in Sessions : /\ IsTaskGraph(s.graph) /\ Cardinality(DOMAIN s.graph) <= RowsKept
                           /\ s.tasks \in Nat
    /\ RowsKept \in Nat \ {0} /\ Widths \subseteq Nat
    /\ Styles \subseteq {"fancy", "simple", "all"}

\* A byte is "CR", "LF" or another.
ASSUME StreamAssumption == StreamChunks \subseteq Seq(Seq(STRING))

VARIABLES
    style,      \* the style chosen, and whether stderr is the same screen
    view,       \* the display's screen and state
    graph,
    phase,      \* where the run of the task is
    at,         \* where each container is
    pulled,     \* the image the dependencies share
    resizes, tasks,     \* how many are left
    buffer      \* a container's output: chunks left, bytes sent, LineBuffer

displayVars == <<style, view, graph, phase, at, pulled, resizes, tasks, buffer>>

Dependencies == DOMAIN graph \ {TaskContainer}
HasSetup(c) == c = TaskContainer \/ c = CHOOSE d \in Dependencies : TRUE
Exists(c) == at[c] \notin {"none", "building", "built", "resolved", "creating", "removed"}
Announced(c) == Exists(c) /\ at[c] # "unprepared"
Ready(c) == at[c] \in {"ready", "exited"}

\* select_output_style, explicit_fancy_refusal: none asked for, or one.
SelectOutputStyle(requested, interactive, termSet, noColor) ==
    IF requested # None THEN requested
    ELSE IF interactive /\ termSet /\ ~noColor THEN "fancy" ELSE "simple"

\* create_event_sink.  "quiet" prints the stderr classes only, and is "all"
\* with nothing to say.
CreateEventSink(name, width) ==
    CASE name = "fancy" -> State(NewScreen(width))
      [] name = "simple" -> SimpleState(NewScreen(width))
      [] name = "all" -> AllState(NewScreen(width))

DisplayInit ==
    /\ \E asked \in Styles \cup {None}, term \in BOOLEAN, plain \in BOOLEAN, e \in BOOLEAN :
          style = [name |-> SelectOutputStyle(asked, TRUE, term, plain), stderr |-> e]
    /\ \E w \in Widths : view = CreateEventSink(style.name, w)
    /\ \E s \in Sessions : graph = s.graph /\ resizes = s.resizes /\ tasks = s.tasks
    /\ phase = "new" /\ at = [c \in DOMAIN graph |-> "none"]
    /\ pulled \in {"no", "local"}
    /\ buffer = None

Show(fancy, simple, all) ==
    CASE style.name = "fancy" -> fancy
      [] style.name = "simple" -> simple
      [] style.name = "all" -> all

Milestone(fancy) == Show(fancy, SimpleMilestone(view), AllMilestone(view))
OnlyFancy(fancy) == Show(fancy, view, view)

Unmoved == UNCHANGED <<style, graph, resizes, buffer>>
Moves(c, from, to) == at[c] \in from /\ at' = [at EXCEPT ![c] = to]

----------------------------------------------------------------------------
(* The terminal, the container's own output, and lines on stderr.          *)

Resize ==
    /\ phase \notin {"new", "between"} /\ resizes > 0 /\ style.name = "fancy"
    /\ \E w \in Widths \ {view.screen.width} : \E wrapped \in SUBSET MayWrap(view.screen, w) :
          view' = [view EXCEPT !.screen = Reflow(@, w, wrapped)]
    /\ resizes' = resizes - 1
    /\ UNCHANGED <<style, graph, phase, at, pulled, tasks, buffer>>

TaskOutput ==
    /\ phase = "running"
    /\ \E ended \in BOOLEAN :
          view' = LET raw == [view EXCEPT !.screen = RawOutput(@, ended)]
                  IN Show(raw, raw, AllContainerOutput(view, TaskContainer))
    /\ Unmoved /\ UNCHANGED <<phase, at, pulled, tasks>>

DependencyOutput(c) ==
    /\ phase \in {"starting", "running"} /\ at[c] \in {"started", "ready"}
    /\ c # TaskContainer /\ style.name = "all"
    /\ view' = AllContainerOutput(view, c)
    /\ Unmoved /\ UNCHANGED <<phase, at, pulled, tasks>>

\* Warnings come during startup, notices with a signal, errors once the run has
\* ended and once it has been cleaned up.
StderrClass ==
    /\ phase \in {"starting", "ended", "cleaning", "network", "cleaned"}
    /\ view' = Show(FancyStderrClass(view, style.stderr),
                    PlainStderrClass(view, style.stderr),
                    PlainStderrClass(view, style.stderr))
    /\ Unmoved /\ UNCHANGED <<phase, at, pulled, tasks>>

----------------------------------------------------------------------------
(* A task, and the images of its containers.                               *)

TaskStarting ==
    /\ phase \in {"new", "between"} /\ tasks > 0
    /\ phase' = "opening" /\ tasks' = tasks - 1
    /\ at' = [c \in DOMAIN graph |-> "none"]
    /\ pulled' = IF pulled = "no" THEN "no" ELSE "local"
    /\ view' = Show(FancyTaskStarting(view), SimpleTaskStarting(view),
                    AllTaskStarting(view, tasks))
    /\ Unmoved

PrerequisitesOnly ==
    /\ phase = "between" /\ tasks > 0
    /\ tasks' = 0
    /\ view' = Show(FancyPrerequisitesOnly(view), SimplePrerequisitesOnly(view),
                    AllPrerequisitesOnly(view, tasks))
    /\ Unmoved /\ UNCHANGED <<phase, at, pulled>>

TaskGraphResolved ==
    /\ phase = "opening"
    /\ phase' = "starting"
    /\ view' = Show(FancyTaskGraphResolved(view, graph, TaskContainer),
                    SimpleTaskGraphResolved(view, TaskContainer),
                    AllTaskGraphResolved(view, TaskContainer, Dependencies))
    /\ Unmoved /\ UNCHANGED <<at, pulled, tasks>>

ImagePull ==
    /\ phase = "starting"
    /\ \/ pulled = "no" /\ pulled' = "pulling"
          /\ view' = Show(FancyImagePull(view, Dependencies, "pulling"),
                          SimpleMilestone(view), AllImagePull(view))
       \/ pulled = "pulling" /\ pulled' = "pulling"
          /\ view' = OnlyFancy(FancyImagePull(view, Dependencies, "layers"))
       \/ pulled = "pulling" /\ pulled' = "done"
          /\ view' = Show(FancyImagePullCompleted(view, graph, Dependencies),
                          SimpleMilestone(view), AllImagePull(view))
    /\ Unmoved /\ UNCHANGED <<phase, at, tasks>>

ImageBuild ==
    /\ phase = "starting"
    /\ \/ Moves(TaskContainer, {"none"}, "building")
          /\ view' = Milestone(FancyImageBuild(view, TaskContainer, "building"))
       \/ Moves(TaskContainer, {"building"}, "building")
          /\ \E line \in {"blank", "step"} :
                view' = Show(FancyImageBuild(view, TaskContainer, line), view,
                             AllMilestone(view))
       \/ Moves(TaskContainer, {"building"}, "built")
          /\ view' = Milestone(FancyImageBuild(view, TaskContainer, "built"))
    /\ Unmoved /\ UNCHANGED <<phase, pulled, tasks>>

ImageResolved(c) ==
    /\ phase = "starting"
    /\ IF c = TaskContainer THEN Moves(c, {"none", "built"}, "resolved")
       ELSE pulled \in {"local", "done"} /\ Moves(c, {"none"}, "resolved")
    /\ view' = OnlyFancy(FancyImageResolved(view, graph, c))
    /\ Unmoved /\ UNCHANGED <<phase, pulled, tasks>>

----------------------------------------------------------------------------
(* Containers.                                                             *)

ContainerCreating(c) ==
    /\ phase = "starting" /\ Moves(c, {"resolved"}, "creating")
    /\ view' = OnlyFancy(FancyContainerCreating(view, c))
    /\ Unmoved /\ UNCHANGED <<phase, pulled, tasks>>

\* A create the run's end has dropped is still waited for, and answers then.
ContainerCreated(c) ==
    /\ phase \in {"starting", "ended"} /\ Moves(c, {"creating"}, "created")
    /\ view' = OnlyFancy(FancyContainerCreated(view, graph, c))
    /\ Unmoved /\ UNCHANGED <<phase, pulled, tasks>>

\* The daemon made the container, but preparing it failed or was cut short: it is
\* removed like any other, and its creation never announced.
CreatedUnprepared(c) ==
    /\ phase \in {"starting", "ended"} /\ Moves(c, {"creating"}, "unprepared")
    /\ Unmoved /\ UNCHANGED <<view, phase, pulled, tasks>>

DependencyStarting(c) ==
    /\ phase = "starting" /\ c # TaskContainer
    /\ \A d \in ToSet(graph[c]) : Ready(d)
    /\ Moves(c, {"created"}, "starting")
    /\ view' = Milestone(FancyDependencyStarting(view, c))
    /\ Unmoved /\ UNCHANGED <<phase, pulled, tasks>>

DependencyStarted(c) ==
    /\ phase = "starting" /\ Moves(c, {"starting"}, "started")
    /\ view' = Milestone(FancyDependencyStarted(view, c))
    /\ Unmoved /\ UNCHANGED <<phase, pulled, tasks>>

\* Of a dependency, or of the task container once it is running.
ContainerBecameHealthy(c) ==
    /\ \/ phase = "starting" /\ Moves(c, {"started"}, IF HasSetup(c) THEN "setup" ELSE "ready")
       \/ phase = "running" /\ Moves(c, {"running"}, "setup")
    /\ view' = Show(FancyContainerBecameHealthy(view, c, HasSetup(c)),
                    SimpleReadiness(view, c), AllMilestone(view))
    /\ Unmoved /\ UNCHANGED <<phase, pulled, tasks>>

DependencyCompleted(c) ==
    /\ phase = "starting" /\ ~HasSetup(c) /\ Moves(c, {"started"}, "ready")
    /\ view' = Milestone(FancyReady(view, c))
    /\ Unmoved /\ UNCHANGED <<phase, pulled, tasks>>

\* Those of the task container run while its output streams.
SetupCommands(c) ==
    /\ phase = IF c = TaskContainer THEN "running" ELSE "starting"
    /\ \/ Moves(c, {"setup"}, "in setup")
          /\ view' = Show(FancyRunningSetupCommand(view, c), SimpleReadiness(view, c),
                          AllMilestone(view))
       \/ Moves(c, {"in setup"}, "ready")
          /\ view' = Show(FancyReady(view, c), SimpleReadiness(view, c), AllMilestone(view))
    /\ Unmoved /\ UNCHANGED <<phase, pulled, tasks>>

\* A watcher may still say so as cleanup begins.
DependencyExitedUnexpectedly(c) ==
    /\ phase \in {"starting", "running", "ended", "cleaning", "network"} /\ c # TaskContainer
    /\ Moves(c, {"ready"}, "exited")
    /\ view' = Show(FancyDependencyExited(view, c), SimpleDependencyExited(view),
                    AllMilestone(view))
    /\ Unmoved /\ UNCHANGED <<phase, pulled, tasks>>

RunningTaskContainer ==
    /\ phase = "starting" /\ phase' = "running"
    /\ \A d \in Dependencies : Ready(d)
    /\ Moves(TaskContainer, {"created"}, "running")
    /\ view' = Milestone(FancyRunningTaskContainer(view, TaskContainer))
    /\ Unmoved /\ UNCHANGED <<pulled, tasks>>

\* The run may end at any point, its graph not even known.
RunEnded ==
    /\ phase \in {"opening", "starting", "running"} /\ phase' = "ended"
    /\ view' = Show(FancyRunEnded(view), view, AllRunEnded(view))
    /\ Unmoved /\ UNCHANGED <<at, pulled, tasks>>

----------------------------------------------------------------------------
(* Cleanup, and the summary.                                               *)

CleanupStarting ==
    /\ phase = "ended" /\ phase' = "cleaning"
    /\ view' = Show(FancyCleanupStarting(view), SimpleCleanupStarting(view),
                    AllCleanupStarting(view))
    /\ Unmoved /\ UNCHANGED <<at, pulled, tasks>>

ContainerRemoved(c) ==
    /\ phase = "cleaning" /\ Exists(c)
    /\ at' = [at EXCEPT ![c] = "removed"]
    /\ view' = Show(FancyContainerRemoved(view, c), view, AllMilestone(view))
    /\ Unmoved /\ UNCHANGED <<phase, pulled, tasks>>

\* Whether or not every container could be removed.
RemovingNetwork ==
    /\ phase = "cleaning" /\ phase' = "network"
    /\ view' = Show(FancyRemovingNetwork(view), view, AllMilestone(view))
    /\ Unmoved /\ UNCHANGED <<at, pulled, tasks>>

CleanupFinished ==
    /\ phase \in {"cleaning", "network"} /\ phase' = "cleaned"
    /\ view' = OnlyFancy(FancyCleanupFinished(view))
    /\ Unmoved /\ UNCHANGED <<at, pulled, tasks>>

\* TaskFinished or TaskFailed, with cleanup or with none asked for.
Summary ==
    /\ phase \in {"ended", "cleaned"} /\ phase' = "between"
    /\ view' = Show(FancySummary(view), SimpleSummary(view), AllSummary(view))
    /\ Unmoved /\ UNCHANGED <<at, pulled, tasks>>

ContainerStep(c) ==
    \/ ImageResolved(c) \/ ContainerCreating(c) \/ ContainerCreated(c)
    \/ CreatedUnprepared(c) \/ DependencyStarting(c) \/ DependencyStarted(c)
    \/ ContainerBecameHealthy(c) \/ DependencyCompleted(c) \/ SetupCommands(c)
    \/ DependencyExitedUnexpectedly(c) \/ ContainerRemoved(c) \/ DependencyOutput(c)

DisplayStep ==
    \/ Resize \/ TaskOutput \/ StderrClass
    \/ TaskStarting \/ PrerequisitesOnly \/ TaskGraphResolved \/ ImagePull \/ ImageBuild
    \/ RunningTaskContainer \/ RunEnded
    \/ CleanupStarting \/ RemovingNetwork \/ CleanupFinished \/ Summary
    \/ \E c \in DOMAIN graph : ContainerStep(c)

DisplaySpec == DisplayInit /\ [][DisplayStep]_displayVars

----------------------------------------------------------------------------
(* A container's output, cut into lines as its chunks come.                *)

BufferInit ==
    /\ \E chunks \in StreamChunks :
          buffer = [left |-> chunks, sent |-> <<>>, at |-> LineBuffer, over |-> FALSE]

ReceiveChunk ==
    /\ buffer.left # <<>>
    /\ buffer' = [buffer EXCEPT !.left = Tail(@), !.sent = @ \o Head(buffer.left),
                                !.at = Push(@, Head(buffer.left))]

StreamOver ==
    /\ buffer.left = <<>> /\ ~buffer.over
    /\ buffer' = [buffer EXCEPT !.over = TRUE, !.at = Flush(@)]

StreamSpec == BufferInit /\ [][ReceiveChunk \/ StreamOver]_buffer

----------------------------------------------------------------------------
(* Properties.                                                             *)

\* However lines on stderr, late exits and resizes fall between repaints, and
\* however the terminal reflows, the live display never moves the cursor up over a
\* row that is not its own, and every counted cursor-up of repaint_startup,
\* repaint_cleanup and clear_cleanup_line covers just the block, or just the
\* countdown.  The one exception is the gap repaint_startup's comment leaves open, a
\* terminal narrowed and widened again between two repaints that keeps a row wrapped:
\* the cursor then falls short and some of the old block stays above the new one, and
\* even then no other row is overwritten.  On a row that output of the
\* task container has left unended no countdown and no summary of the live display
\* is written, and no milestone of the simple one, its setup commands' included;
\* "all" says nothing for a task it has not introduced, and only the task container's
\* lines go to its result (pay_separator, is_task_container,
\* flush_preamble_if_pending, ContainerOutput).
RowsKeepToThemselves ==
    /\ ~view.screen.harm
    /\ view.screen.glued \cap {"milestone", "count", "block", "prefixed", "running"} = {}
    /\ style.name = "fancy" => "summary" \notin view.screen.glued
    /\ style.name = "all" => ~view.early /\ view.heard \subseteq {TaskContainer}

\* What the live display says is so: a line that waits names just the dependencies
\* not yet ready, below which it stands, and for as long as cleanup goes on the
\* last row is a countdown of just the containers there are that were announced:
\* one whose create answered only after the run had ended among them, one whose
\* preparation failed not (waiting_for, mark_ready, dependency_post_order,
\* repaint_cleanup).
ShownIsTrue ==
    style.name = "fancy" =>
    /\ view.keep_updating => \A i \in DOMAIN view.lines :
          LET c == view.lines[i]
          IN /\ view.stage[c].at = "waiting" =>
                   view.stage[c].waits = {d \in ToSet(graph[c]) : ~Ready(d)}
             /\ ToSet(graph[c]) \subseteq {view.lines[j] : j \in 1..i - 1}
    /\ view.cleanup_live =>
          LET last == view.screen.rows[Len(view.screen.rows)]
              left == {c \in DOMAIN graph : Announced(c)}
          IN /\ last.kind = "count"
             /\ left # {} => last.says = left
    /\ phase \in {"cleaned", "between"} => ~view.cleanup_shown

\* The lines a stream is cut into are those of the whole stream, wherever its
\* chunks are cut: a CRLF across two chunks ends one line, and a redraw adds no
\* empty one (LineBuffer::push, LineBuffer::flush).
LinesAsWritten ==
    buffer # None =>
        /\ buffer.over => buffer.at.lines = LinesOf(buffer.sent)
        /\ ~buffer.over => IsPrefix(buffer.at.lines, LinesOf(buffer.sent))
============================================================================
