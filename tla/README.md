# A TLA+ development for ratect

ratect runs the tasks of a project in Docker containers: it reads the project's
configuration, connects to a daemon, resolves images, brings up a task's
dependencies in order, runs the task's own container, and takes everything down
again. Two binaries (`ratect`, `ratect-compat`) share one library, `ratect-core`.
This directory models the parts whose correctness depends on order, on a second
actor or on a rule that spans several files: what is awaited, what is dropped,
what a signal interrupts, what a second process or a crash finds, what a file is
trusted with. TLC checks small instances; TLAPS proves the central invariants for
every instance.

## Inventory

| Part | State it keeps | Operations | What is hard about it | What makes it correct |
|---|---|---|---|---|
| Signal tracker (`interrupt.rs`) | `count`, `interrupts`, `last_signal`, a `Notify` | one listener task per trapped signal runs `record_signal`; `wait_for`, `wait_for_interrupts`, `unless_signalled` wait | four separate writes seen by concurrent readers; a waiter that checks, then sleeps | no signal is lost, no waiter sleeps through one, a count always has a signal behind it |
| Task run: startup (`engine.rs`) | image memo, `created_containers`, `pending_creates`, permits of the parallelism semaphore, dependency-exit watchers | network, image, create, start, readiness wait, setup commands | everything runs at once and the first failure drops the rest in flight | dependencies are ready first; startup cannot block on itself |
| Task run: task container | readiness gate, the running container | run, gate, grace period | the gate races the main command | a command that had exited decides the result |
| Task run: cleanup | signal baselines, removals in flight, `cleanup_failed` | wait for creates, stop and remove in reverse order, force, abandon, remove the network, cancel builds, report | up to three signals at any moment, refused and unanswered requests | nothing left behind unsaid; a clean exit means clean; one signal never abandons |
| Docker client (`docker.rs`) | none of its own between calls | one call per daemon request | a dropped request may still take effect | described with its callers |
| Git include cache (`git_include.rs`, `entry_lock.rs`) | files: working copy, sidecar, staging directories, lock file and its OS lock | load (`ensure_cached`), take over, release, `clean`, `refresh`, the sweep | several processes and versions, crashes anywhere | one cloner per entry; no mixed copy; an abandoned lock is recovered |
| Task chain (`engine.rs`) | `executed_tasks`, `in_progress_tasks`, a signal baseline per task | `check_prerequisites`, `run_task_scoped`, `stop_if_signalled` | a signal between two tasks; diamonds and cycles | each task once, prerequisites first, nothing starts after a signal that was heard |
| Dependency graph (`engine.rs`) | none | `build_dependency_graph`, `dependents_to_stop_first` | recursion over a shared graph | acyclic, complete, each container once |
| Container sessions (`docker.rs`, `docker/stdin.rs`) | one reader thread and its channel, the pump of each session, raw mode and the record of it, a follower per background container | `run_container`: attach, raw mode, pump, start, stream, restore, exit code; removal with its follower; `wait_for_healthy` | one thread read by several containers in turn, pumps aborted anywhere, a verdict given before anybody listens | no input lost between two containers; the terminal comes back; no output after a removal; nothing waits for good |
| Configuration: loading (`config.rs`, `include_trust.rs`, `written_for.rs`) | the worklist, the files loaded and the boundary each was read under | `load_from_file_impl`, the version checks, completion's walk | one bundle reached by several routes with different grants, in any order | trust is what the project's own files granted; a bundle reads only itself; what was written for an older release is covered or refused |
| Configuration: project (`config.rs`) | containers and tasks, and whose host path each has | `load_project_impl`, the expansion of external health checks, the evaluation of a task | checks before and after `extends` and before and after the expansion | what is accepted has the graph, owners and checks the engine relies on; a host path stays with the file that wrote it |
| Displays (`ui.rs`, `ui/`) | rows on the screen, stage of each container, cleanup countdown, partial lines | one handler per `TaskEvent` | cursor movements over rows others may have written, resized terminals, chunks cut anywhere | a display overwrites only its own rows; it shows what is the case; a line is the line that was written |
| Caches and leftovers (`cache.rs`, `resources.rs`) | the project's key, volumes, directories, leftover containers and networks | mount, list, clean | runs and cleans of several processes in one project | a clean removes what was asked, says so, and nothing else |
| Connection (`docker/connection.rs`) | host, context and TLS settings found so far | options, context, certificates, negotiation | options, variables and files that contradict one another, or go away | the daemon and the certificates are those asked for |
| Invocation (`main.rs` of both binaries, `exit_code.rs`) | where the command is, what it has begun, the files it writes | parse, check, load, connect, run, exit; `config convert` | errors before and after the task, with or without a report | the exit code tells what happened; converting keeps files that were there |
| Text (`expressions.rs`, `schema.rs`, YAML and TOML, the container specification, the dockerignore matcher, build output) | none that outlives a call | parsing, translation, rendering | volume, not order | covered by table-driven tests |

How they interact: `main` parses its line, installs the tracker, loads the
configuration (which calls the include cache for every Git include), connects,
and calls `run_task`; the chain runs `run_task_internal` once per task; that drops
the startup future when the tracker reports a signal, and cleanup reads the
tracker's counters again on each of its rungs. The engine reaches the daemon only
through the Docker client, whose sessions share this process's input and terminal,
and posts events to the display. The result becomes an exit code. The caches and
leftovers of earlier runs are what later runs and the clean commands find.

## Modules

| Module | Extends | Models |
|---|---|---|
| `Interrupt` | | the signal tracker, write by write |
| `TaskState` | | constants and variables of one task run, its initial state, and how a run ends (`EndRun`) |
| `Daemon` | `TaskState` | the Docker daemon as the client's calls see it (external) |
| `Startup` | `Daemon` | network, images, creates, starts, readiness, setup commands, exit watchers |
| `TaskContainer` | `Startup` | the task's own container and its readiness gate |
| `Cleanup` | `TaskContainer` | everything after the run's `select` |
| `TaskRun` | `Cleanup` | the composition, its fairness, its properties, and the mapping to `RunContract` |
| `RunContract` | | abstract: what one run promises the chain of tasks |
| `TaskChain` | `RunContract` | the order check and the chain of prerequisites, with each run abstract |
| `EntryLock` | | the entry lock of a Git include, system call by system call |
| `IncludeCache` | `EntryLock` | one entry of the include cache, shared by processes |
| `ContainerIo` | | the client's sessions: input thread, pumps, terminal, followers, health waits |
| `ConfigLoad` | | which files are read, in which order, under which trust, and the version checks |
| `Project` | `ConfigLoad` | what becomes of the containers and tasks read: `extends`, the checks, health checks, host paths |
| `Absent` | | the constant `None` of the four parts below |
| `Screen` | `Absent` | the terminal as the displays write to it |
| `Fancy`, `PlainDisplays` | `Screen` | the handlers of the live display; of `simple` and `all`, and the line buffer |
| `Display` | `Fancy`, `PlainDisplays` | the displays fed the events of a run |
| `Upkeep` | `Absent` | caches and leftovers, shared by processes |
| `Connection` | `Absent` | the choice of and the connection to a daemon |
| `Invocation` | `Absent` | a command line up to its exit code; `config convert` |
| `MCInterrupt`, `MCTaskRun`, `MCTaskChain`, `MCEntryLock`, `MCIncludeCache`, `MCContainerIo`, `MCConfig` (of `Project`) | the module named | instances |
| `MCFront` | `Display`, `Upkeep`, `Connection`, `Invocation` | instances of four parts that share no state, one at a time |
| `InterruptProofs`, `TaskRunProofs`, `TaskChainProofs`, `IncludeCacheProofs` (of the lock too), `ContainerIoProofs` | the module named | theorems |
| `ConfigProofs` | `Project` | theorems about loading and about the project |
| `DisplayProofs` | `Display` | theorems about the displays and the line buffer; induction over numbers |
| `FrontProofs` | `DisplayProofs`, `Upkeep`, `Connection`, `Invocation` | theorems about the last three |

### How state and actions correspond to the code

*Tracker.* One variable per atomic of `Interrupt`; `record_signal` is four
actions (`StoreLastSignal`, `AddInterrupt`, `AddCount`, `NotifyWaiters`), because
each is visible to readers on its own. A waiter registers, checks and sleeps in
three (`Register`, `Check`, `Wake`). Delivery of a signal to a listener that is
still recording the previous one coalesces, as the runtime's does (`Arrive`).

*Task run.* `phase` is the program counter of `run_task_internal`: `network`,
`startup` and `running` are inside the execution future; `pending`, `graceful`,
`forced`, `network_removal`, `cancels` and `kept` are the parts of cleanup in
their order. `stage[c]` is how far container c's startup future has got, `image`
the memo of each pull or build, `created` the registry cleanup works from, `free`
the semaphore. Everything inside the execution future runs concurrently, so its
actions interleave freely; the first failure is an action that also performs
`EndRun`, which is what dropping the future does: permits come back, watchers are
aborted, cancels are sent, and the signal baseline is read in the same step.
A request is in flight while its caller's stage says so, and `Daemon` may carry
it out at any moment, whether or not the caller still waits. Cleanup reads the
tracker's counters as the code does: `base` where the run ended, `rungAt` where
it escalated. The tracker's two counters change together here; `Interrupt` shows
how far apart a reader may find them (`InterruptsWithinOne`).

*Task chain.* `walk` is the recursion stack of `check_prerequisites`, `frames`
that of `run_task_internal`, each frame with what is left of its prerequisite list
and its signal baseline. The look at the signals before a prerequisite and the
call of it are two steps, so a signal may fall between them. The task's own run
is `RunContract`, and one that starts with a signal already recorded is
interrupted at its first await, because the `select` polls `interrupted()` as
soon as the execution is pending.

*Entry lock and include cache.* One action per system call, with the lock file
an inode so that a path, an open file and an OS lock can come apart. Trees are
written and removed file by file: a tree is being written, whole, the output of
two clones, or missing files. A process may die at any step; its git goes on as
an orphan. Removal takes no lock, as in the code.

*Container sessions.* Sessions run in turn; `at` is where the current one is in
`run_container`. A chunk of input is a number, so that order and loss show. The
reader thread reserves a slot, reads, and sends; a pump locks the channel, takes a
chunk, writes it and, at the end of input, shuts the container's side. Dropping a
session aborts its pump at whatever it is doing, and the lock it held comes back.
The terminal's mode and the process's record of it are two variables, written in
the code's order. A background container has a life of its own: it may print, die
or give a health verdict between any two calls; its follower posts what it prints,
and a removal takes the follower's handle before it waits for it. Either removal
may be refused, and then returns without that wait, as in the code.

*Configuration.* A file is a record: where it is, what a link resolves to, whether
it parses, its dialect, its version, what it claims and its includes. `queue` is
the worklist of `load_from_file_impl`, `loaded` the files in the order they came,
each with its boundary (the bundle, and what it was granted), and a later route to
a file that was already read is an `Arrive` too, where grants are compared. The
walk of completion uses the same layout and remembers what it saw. `Project`
continues from a finished load: one action per stage of `load_project_impl`, and
one per container whose `extends` is resolved (`resolved` holds those that are, so
a parent comes before its heirs, as in the code's recursion). A
container is a function on the fields it sets, so that `extends` is a merge of
functions; a host path carries the container that wrote it.

*Displays.* A display is a record of the screen it draws on and the fields of its
state, and every handler an operator from record to record. `Display` posts the
events in the orders the engine can post them, container by container, with
container output, messages on standard error and resizes between any two. Text is
reduced to its width (one column or two), which is what wrapping depends on. A row
remembers who wrote it and whether the terminal has wrapped it; the screen
remembers whether a movement of the cursor passed over a row of somebody else's.
What a terminal does with its rows on a resize is not specified, so a resize leaves
wrapped any of those that are too wide or were wrapped already. A create may answer
after the run has ended, since cleanup waits for it (`ContainerCreated` in phase
`ended`), or may leave a container that could not be prepared, which no display is
told of (`CreatedUnprepared`); and the task container's own setup commands report
while its output streams.

*Caches and leftovers, connection, invocation.* `Upkeep` has one action per daemon
or file call, so two processes interleave between them; the key file is read,
opened and written in three. A clean takes what it chose in any order the store or
the daemon may list it in, containers before networks. The key may not be readable,
and any removal may fail. `Connection` follows `connection.rs` from check to
negotiation; each look at the disk is a step of its own, and `Vanish` removes a file
or a directory between any two of them. `Invocation` runs the stages of a command in their order; each may fail
with the errors it can have, and `exit_code.rs` translates the result. A command
line is a sequence of words told apart by what the splitter tells apart.

## What the runs check

Passing runs, with two workers:

| Run | Instance | Shows |
|---|---|---|
| `tracker` | SIGINT and SIGTERM listeners, two waiters, three arrivals | no waiter sleeps through a signal, and every waiter whose signals come returns |
| `startup` | chain of three containers, one run to completion, one externally checked and lending its network namespace, setup commands in both places, a single permit, one signal, every startup step may fail, stream and inspect included | dependencies are ready before a start and outlive their dependents; startup never blocks on itself and the run ends; a main command that had exited decides the result; watchers report only real exits |
| `cleanup` | pair of containers, cleanup after success or after failure, own network or a given one, refused stops and removals, three signals, a daemon that may stop answering anywhere | what abandons cleanup; no silent leak; a clean exit is clean; abandoned builds are accounted for; the run implements `RunContract`; a further Ctrl+C always gets out |
| `chain` | projects of three declared tasks with lists of up to three entries, a wildcard, an undeclared name and `--skip-prerequisites`, and acyclic projects of four tasks with and without `run`; two signals anywhere | the order check is exact and complete, prerequisites first and once, the chain ends, what may start after a signal |
| `entry_lock` | three processes, one of an older release, three inodes, every system call may fail, deaths | one holder; nobody waits for good once others stop coming and deadlines pass, an abandoned lock being taken over |
| `include_cache` | two processes, on one host or on two whose OS locks do not see each other, two staging directories, loads, cleans, refreshes, deaths, failures of unlink, the wait, git, the sidecar and the removal of an entry | no live clone is swept (on one host), never an unfinished or mixed copy in place, the lock is used as specified |
| `container_io` | two sessions, two chunks, one dependency printing one line; a person at a terminal, a pipe, or interleaved output; the input's reads and writes, attaching, raw mode on and off, starting, the output, the exit code, stopping, either removal, the inspect and the event stream may fail, the run may be dropped anywhere | input is written in order and none lost between sessions; the terminal is restored; nothing is posted after a removal has been announced; a closed input reaches every session, and a removal returns, done or refused; a verdict given before the wait is heard |
| `config` | seven families of layouts (below), releases 1 to 3 with this one 2 and breaking changes in 1 and 2 | trust, boundaries and versions on every route; an accepted project is runnable; host paths; the load ends |
| `front` | displays: a task with two dependencies, and two tasks on a terminal resized twice that reflows as it likes, widths of one and two, three rows remembered; streams: two chunks of up to three bytes; upkeep: two processes; connection: every mixture of options and variables, one thing vanishing; invocation: every line of up to three words over twelve, nine verbs; two files to convert | the display, clean, connection, exit code and conversion properties |

Three containers are the smallest chain in which an order at depth two, a
dependent that was never created and a shared permit can all go wrong; one permit
is the case in which a permit held across a wait would block; two images let a
pull and a build compete; three signals reach every rung of the ladder, and a
fourth changes nothing. Two processes and two directories are enough for a holder,
its rival and one orphan; the lock has a third process for the older release.
Lists of three entries hold a repetition beside another entry. Two sessions are
what it takes to hand the reader on, two chunks to lose or swap one. What the
bounds leave out, the theorems cover where there is one: those of `IncludeCache`
hold whatever may fail, the removal of a staging directory (`"discard"`) included.

The families of `config`, chosen because what goes wrong takes a particular shape
of project: `Trust` (a root with two includes in any order and with any grants,
bundles that include each other and themselves), `Review` (a bundle reached by one
Git include or two, with every age of version), `Odd` (files missing, malformed,
linked out of their bundle, or claiming what only a root may), `Network` (who
shares whose network, in circles too), `Check` (setup commands, containers run to
completion and external checks, written or inherited), `Volume` (a host path
handed down two generations across files and a bundle), `Identity` (who a
container runs as, and its caches, in both formats).

`MCFront` puts five parts in one run because they share no state: `part` is fixed
at the start, and every behaviour is one of one part.

Three runs are expected to fail. Each states a sentence of the documentation or of
a comment that the code does not keep; `PROJECT.json` quotes them under
`findings`.

| Run | What TLC shows |
|---|---|
| `network_in_flight` | a signal while `create_network` is in flight leaves a network that is neither removed nor reported |
| `include_removal` | a removal that dies inside `remove_dir_all` leaves a damaged copy that later loads return |
| `include_refresh` | a load's older clone lands inside a refresh, which then fetches nothing and succeeds |

Four smaller disagreements were met while modelling and have no run of their own:

- `interrupt.rs:403` says the SIGINT count is never above the total; `record_signal`
  adds to the former first, so a reader between the two finds it one ahead
  (`InterruptsWithinOne` is the bound the code does keep).
- `interrupt.rs:379` says whoever sees a new count sees its cause; two listeners
  recording at once can leave the other's signal in `last_signal`
  (`CountHasSignal` is what remains true).
- `decisions/0023-git-include-entry-lock.md:190` says OS locks that hold per host
  only cost "a duplicate clone, never a corrupt entry"; without `OneKernel` a second
  host can sweep files from the first one's staging directory before its rename.
- `cache.rs:149` says an existing key file is never written over; finding none and
  writing one are two calls (`OpenKey`, `WriteKey`), and the write replaces a key
  another process has written in between. Two first runs at once can each mount
  volumes under a key of their own, and one of the keys is then in no file.

## Fairness

- Task run: weak fairness of the engine and the daemon together (the runtime
  polls what is ready and the daemon answers), and of the exits of
  `run_to_completion` containers. The task's own command need not end, and nobody
  need send a signal. `EscapeSpec` drops the daemon's fairness: only the steps the
  engine takes without an answer are fair, nothing of the daemon or a person:
  `EscapeHatch` says what follows if the keys are pressed.
- Chain: weak fairness of the chain's own steps; a run ends by `RunEnds`.
- Tracker: weak fairness of each listener and each waiter, which are tasks of the
  runtime.
- Lock: weak fairness of each process's calls. `WaitsEnd` is conditional: on deaths
  and failing calls coming to an end, on no new process coming and on deadlines
  passing. The cache's specification states strong fairness of each process's steps
  and of the deadline of a wait; no property of the cache depends on it.
- Container sessions: weak fairness of the reader's reservation, of every pump, of
  removals, followers and the event stream; strong fairness of the reader's read,
  which is interrupted and tried again. Nobody need type, and a container need
  neither print nor exit.
- Configuration: weak fairness of the loader, which is sequential. `front` has no
  liveness property.

## What is proved

TLAPS proves the following for every value of the constants that satisfies the
modules' assumptions. Each theorem is one the provers check down to its leaves;
`PROJECT.json` lists them. TLC evaluates the assumptions on every run.

| Assumption | What it says |
|---|---|
| `InterruptAssumption` | SIGINT is a trapped signal; the bounds are numbers |
| `TaskAssumption`, `GraphAssumption` | the shape of a run's tables; dependencies are acyclic and the containers are those the task's own reaches. `AcceptedIsRunnable` is where the loader provides it |
| `ChainAssumption` | after wildcards, prerequisite lists hold names of tasks |
| `LockAssumption`, `CacheAssumption` | `None` is no inode, directory or tree |
| `SessionsAssumption` | at least one session |
| `LayoutsAssumption` | includes name files of the layout, and a file include of the project's own file stays with the project |
| `ProjectsAssumption` | the companion of a health check is named for its container, and a container writes its own host path |
| `UpkeepAssumption` | no key is the word `shared`; what a run creates is new; only containers are on networks |
| `MachinesAssumption` | `None` is none of the words it stands beside |
| `DisplayAssumption` | a session's containers are those the task's own reaches, without a cycle, and no more than the rows `Screen` remembers; the styles there are |
| `StreamAssumption` | a stream is chunks of bytes |
| `InvocationAssumption` | the verbs, the kinds of words a line is made of, and a container's code is a byte |

Mutual exclusion and what rests on it also assume `OneKernel`: every process sees
every other's OS lock. `TypeOK` of each module, `InterruptsWithinOne`,
`CountHasSignal`, `NoSecondRemoval` and `HolderOwnsFile` are proved and no longer
part of a run.

What is reached in any number of steps (`Reach` in `TaskState`, `NeedsIn` in
`TaskChain`, `LedTo` in `ConfigLoad`, `Closure` in `Project`) is defined as the
least set that is closed under one step. TLAPS has no induction over paths here,
and needs none: to show that everything reached has a property, the proof shows
that the set of those that have it is closed.

Recursive functions are reasoned about in the same way. `SetInduction` says that a
set of numbers that holds 0 and, with each number, the next holds them all (from the
library's `WFMin`); `Recursion` that steps which stay in a set can be taken one after
another, so that the function a `LET` defines along a sequence exists; `Along` that
what passes from one index to the next holds at all of them. `LineBuffer::push`, the
visit of the dependency graph and the readings of a command line are such functions.

- `InterruptProofs`: `SafetyInv` is inductive. It adds to the properties who is
  between which two writes (`OnlySigintAdds`, `StoredFirst`), that a sleeping
  waiter is registered, and that a wakeup it is owed is still to come
  (`WakeupOwed`). From it `TypeOK`, `InterruptsWithinOne`, `CountHasSignal` and
  `NoMissedWakeup`.
- `TaskRunProofs`: `TypeInv` (`TypeOK` needs that a setup phase has a command
  left, and that the gate is the only place the task container runs its own), then
  `RunInv` in four parts: the ladder's counters, what may be watched or stopped in
  which phase, what the gate knows of the main command, and that the graceful phase
  has a removal for everything created. From it `AbandonTakesTwoSignals`,
  `MainCommandExitWins`, `UnexpectedExitIsGenuine`, `NoSecondRemoval`, and, step by
  step, that the run implements `RunContract` under the mapping in `TaskRun`.
  `LeakInv` on top of it: every container in the daemon is registered or its create
  is unanswered and warned about (`CreatedInv`); a removal's recorded outcome is the
  daemon's (`OutcomeInv`); the network is recorded once startup begins
  (`NetworkInv`); and past each part of cleanup what it was to remove is removed or
  cleanup has failed (`DoneInv`). From it `NoSilentLeak` and `CleanExitMeansClean`.
  `OrderInv` on top of both: a container has started only with its direct
  dependencies ready (`StartInv`), is asked to stop only when the removal of every
  registered container that reaches it has been answered (`StopInv`), and a build
  dropped in flight has a cancel that the report settles (`CancelInv`). From it
  `StartedAfterDependencies`, `DependencyOutlivesDependents` and
  `BuildsAccountedFor`.
- `TaskChainProofs`: both recursions are sequences, and `PathOK` says of either
  that each task is on the list of the one below it, that what precedes it on that
  list is done, and that what is done has all it needs done. `ChainInv` adds what
  each verdict of the order check implies (`VerdictInv`), the frames of the chain
  (`FrameInv`), that what has begun began after what it needs and once
  (`BegunInv`), and what has been heard of a signal by whom (`HeardInv`,
  `LateInv`). From it `CheckIsExact`, `PrerequisitesFirst` and
  `SignalsStopTheChain`.
- `IncludeCacheProofs`: of the lock, `LockInv`: who has which file open, who holds
  which OS lock, that a marked file with a living holder is locked by it, and that a
  waiter that has verified a marked file still has the lock's own. `VerifiedStays`
  is the part that makes a take-over in place safe. From it `MutualExclusion` and
  `HolderOwnsFile`. The cache implements the lock's protocol, so `LockInv` carries
  over; with it `CacheInv` relates each operation to what it has of the lock and to
  its staging directory. From it `NoLiveStagingRemoved` and `OnlyWholeCopies`.
- `ContainerIoProofs`: `TerminalInv` (a terminal still raw is recorded, and its
  session has still to restore it), `FollowInv` (a running follower's handle is kept
  or a removal is waiting for it), `PumpInv` (once a session's pump may take input,
  those before it take no more) and `AccountInv`: the chunks the sessions took, the
  one in the channel and those still at the source follow one another in this order
  (`TakenOrder`, `WaitingOrder`, `ReadAhead`), each is one that was typed
  (`Genuine`), and none that was typed is missing (`Kept`). From them `TerminalRestored`,
  `NoOutputAfterRemoval` and `InputAccounted`.
- `ConfigProofs`: `LoadTypeInv`, then `TrustInv`: what was seen was read, under the
  boundary that was recorded and in that boundary's checkout (`SeenInv`,
  `EffectiveInv`, `PlaceInv`); what is queued comes from a file that was read, and
  under that file's boundary (`QueueInv`); a clone has an include that may ask for
  it and a grant one of the project's own that gave it (`CloneInv`, `GrantInv`); and
  every include of a file that was read is followed or queued (`FollowedInv`).
  `FinishedInv` adds what the version checks have established at the end, and
  `WalkInv` that completion keeps to the boundary. From them `TrustIsTheOwners`,
  `BundlesReadThemselves` and `BundlesCovered`.
  Of the project, `ProjectInv`, with what each stage has left behind (`StageInv`),
  whose path a container has after any number of generations (`PathInv`), what a
  Batect configuration cannot have (`BatectInv`) and what the checks have
  established (`ValidInv`). Its one long argument is that a companion, which waits
  for its own container alone and which only that one's dependents wait for, closes
  no cycle
  (`CompanionsAddNoCycle`). From it `AcceptedIsRunnable` and
  `PathsStayWithTheirWriter`.
- `DisplayProofs`: of the line buffer, `StreamInv`: after any number of bytes the
  lines emitted, the text since and a carriage return still to be judged are what
  `LinesOf`, which looks at the whole stream, makes of those bytes (`Reads`,
  `ReadByte`). From it `LinesAsWritten`.
  Of the displays, `DisplayInv`: for each style what its state and its screen are in
  which phase (`FancyOk`, `SimpleOk`, `AllOk`). For the live display: until the summary
  its containers are those announced; while it starts up, the block is at the bottom of
  the screen, each of its rows no wider than the terminal was then, its lines are in an order
  in which dependencies come first, and each that waits has just the dependencies not
  ready left (`Starting`); a row is left unended only where a separator is owed, and
  that only while the task container runs or has just ended; and the countdown is the
  last row just while cleanup goes on, and counts the containers that were announced
  (`CountAtBottom`). A resize changes which rows are wrapped and nothing else
  (`ReflowKeeps`); over rows no wider than the terminal a counted cursor-up covers
  just those, or falls short because one of them is still wrapped (`OwnRowsOnly`).
  Each handler has a lemma of its own (`StderrOk`, `ExitedOk`, `RemovedOk` ...), and
  each event one that puts the three displays together (`...Keeps`). That the order
  `dependency_post_order` computes is one with dependencies first, in no more rows than
  there are containers, is `PostOrder`: the visit of a container, by the rank an acyclic
  graph gives it, adds it after all it needs and adds none twice (`VisitWellStep`). From them
  `RowsKeepToThemselves` and `ShownIsTrue`.
- `FrontProofs`: `ConnectionInv` carries each decision with the settings it was
  made from, each look with what it found, and what has gone from the disk since. `UpkeepInv` says of each process
  where it is, what it chose, what it still has to do and what stands in its way
  (`ProcInv`), and of all together that what one removed is gone for good and what
  another creates is new. `OutcomeInv` relates the stages left to what a line
  begins, and `ConvertInv` the targets to those said to be written. That the two
  readings of a line agree is `ReadAlike`: up to the task `command_line_words`,
  `split_at_task` and clap skip the same words and have met the same options (`Alike`,
  `OneWordAlike`), and what is read after it changes nothing (`Cut`, `ReadingKeeps`).
  From them `ConnectionAsAsked`, `CleanIsAsAsked`, `ConvertKeepsFiles` and
  `ExitTellsOutcome`.

Every invariant a passing run checks is thereby proved, and so are the refinements and
`ConvertKeepsFiles`. Only model-checked are the liveness properties (`WaiterReturns`,
`RunEnds`, `EscapeHatch`, `ChainEnds`, `WaitsEnd`, `NothingHangs`, `VerdictHeard`,
`LoadEnds`): the prover has no rules for fairness here.

## Not modelled, and why

- Text: YAML and TOML syntax, expressions (a value is known or not), single fields
  (ports, devices, durations, DNS servers), the published schema, the translation of
  one file's fields by `config convert`, diagnostics, listings and completions'
  output. They are functions of their inputs, without state that a second step
  could find changed. A file parses or does not.
- The container specification: one create request from the configuration and the
  environment.
- Archive upload, the build transport and the parser of build output move or format
  bytes. Resizing a container's terminal is left out as well, and so are the carriage
  returns added while raw mode is set.
- The displays' colours and wording, the quiet display (it prints nothing), a
  terminal whose width is not known, and the refusal of an explicit fancy style where
  there is no terminal. A terminal narrowed and widened again between two repaints
  may keep a row wrapped; `fancy.rs:534-543` leaves that gap open, the model reaches
  it, and `RowsKeepToThemselves` says what holds then: the cursor falls short and
  some of the old block stays, but nobody else's row is overwritten.
- Of the configuration's values: a nested permission written `false` is one left out
  (`IncludesOf`); names clash between tasks only, not between containers or config
  variables (`FinishLoad`); the check of a path as written and of where it leads is
  one, against one root (`PathAllowed`); whether a task publishes ports is a flag of
  the task (`NetworksShareable`); of the fields that hold paths there are the volumes
  (`Mount`, `VolumesAllowed`).
- That native `ratect` takes an invocation for a run just when its verb is one is
  taken over, not derived from its options. A pump is dropped before the exit code is
  asked for, also without a TTY, where the code drops it afterwards; it may take a
  chunk until it sees that it has been aborted, which is as late.
- The daemon's class (two strings for a message), the panic hook, the dockerignore
  matcher, `doctor`'s checks, the check for a `--config-var` given twice.
- The construction of the dependency graph: `Deps` is any acyclic graph, and
  `AcceptedIsRunnable` shows that an accepted project has one.

`PROJECT.json` lists each part with its reason.

## Plan

Done, most important first: the tracker, the task run with its cleanup, the chain,
the entry lock and the include cache; the client's sessions; configuration loading,
trust and the project's checks; displays, caches and leftovers, the connection, and
invocations with their exit codes; and the proofs above. Left:

- `DependencyGraph`: `build_dependency_graph` and the errors it reports, against
  `Reach`; it replaces the assumption on `Deps`.
