---------------------------- MODULE TaskChain ----------------------------
(***************************************************************************)
(* A named task and its prerequisites (engine.rs: run_task,                *)
(* check_prerequisites, run_task_scoped and run_task_internal up to the    *)
(* task's own run, which is RunContract's).  The whole order is checked    *)
(* first; then prerequisites run one at a time, depth first, each at most  *)
(* once, and a signal recorded since a task began its prerequisites ends   *)
(* the chain before the next of them starts.                               *)
(***************************************************************************)
EXTENDS RunContract, SequencesExt

CONSTANTS
    Names,      \* task names, declared or not
    Wildcard,   \* a prerequisites entry with a `*`
    Matches,    \* the names it matches
    Projects,   \* the configurations a chain may be started in
    Requested,  \* the task named on the command line
    Tags,       \* the tasks whose container --tag-image names
    ChainFails  \* the steps that may fail

\* expand_prerequisite_wildcards: a wildcard stands for its matches, sorted.
Expanded(config, t) ==
    FlattenSeq([i \in DOMAIN config.lists[t] |->
                   IF config.lists[t][i] = Wildcard
                     THEN SetToSortSeq(DOMAIN config.lists \cap Matches, <)
                     ELSE <<config.lists[t][i]>>])

ASSUME ChainAssumption ==
    /\ Requested \in Names
    /\ \A config \in Projects : \A t \in DOMAIN config.lists :
          t \in Names /\ Expanded(config, t) \in Seq(Names)

VARIABLES
    project,    \* the loaded project
    walk,       \* check_prerequisites: the path, with what is left of each list
    checked,    \* tasks already walked
    frames,     \* the tasks in run_task_internal, innermost last
    executed,   \* executed_tasks
    verdict,    \* of the invocation
    begun,      \* history: the tasks whose own run started, in order
    heard,      \* history: a signal was recorded during a task's run or cleanup
    late        \* history: runs that started with a signal recorded

chainVars == <<project, walk, checked, frames, executed, verdict, begun,
               heard, late>>
vars == <<runVars, chainVars>>

----------------------------------------------------------------------------

Declared == DOMAIN project.lists

InProgress(name) == \E i \in DOMAIN frames : frames[i].task = name

ChainTypeOK ==
    /\ stage \in {"idle", "live", "cleanup", "over"}
    /\ outcome \in {"none", "ok", "failed", "signal"}
    /\ signals \in Nat
    /\ project \in Projects
    /\ walk \in Seq([task : Names, todo : Seq(Names)])
    /\ checked \subseteq Names
    /\ frames \in Seq([task : Names, todo : Seq(Names), baseline : Nat,
                       at : {"checking", "calling", "running"}])
    /\ executed \subseteq Names
    /\ verdict \in {"none", "unknown", "missing", "cycle", "running", "ok",
                    "failed", "signal", "untagged"}
    /\ begun \in Seq(Names)
    /\ heard \in BOOLEAN
    /\ late \in Nat

ChainInit ==
    /\ stage = "idle"
    /\ outcome = "none"
    /\ signals = 0
    /\ project \in Projects
    /\ walk = <<>>
    /\ checked = {}
    /\ frames = <<>>
    /\ executed = {}
    /\ verdict = "none"
    /\ begun = <<>>
    /\ heard = FALSE
    /\ late = 0

runFrame == <<frames, executed, begun, late, heard>>
walkFrame == <<project, walk, checked>>

----------------------------------------------------------------------------
(* check_prerequisites.                                                    *)

\* Mutant: a prerequisite two tasks share is taken for a cycle.
Visit_RefusesShared(t, path) ==
    LET list == Expanded(project, t)
        above == {path[i].task : i \in DOMAIN path} \cup {t}
        bad == {i \in DOMAIN list : list[i] \notin Declared \/ list[i] \in above \cup checked}
    IN \/ /\ bad = {}
          /\ walk' = Append(path, [task |-> t, todo |-> list])
          /\ verdict' = verdict
       \/ /\ \E i \in bad :
                /\ \A j \in bad : i <= j
                /\ verdict' = IF list[i] \notin Declared THEN "missing" ELSE "cycle"
          /\ walk' = <<>>

\* Every entry of t's list is looked up and checked against the path before any
\* of them is walked into; the first problem is the one reported.
Visit(t, path) ==
    LET list == Expanded(project, t)
        above == {path[i].task : i \in DOMAIN path} \cup {t}
        bad == {i \in DOMAIN list : list[i] \notin Declared \/ list[i] \in above}
    IN \/ /\ bad = {}
          /\ walk' = Append(path, [task |-> t, todo |-> list])
          /\ verdict' = verdict
       \/ /\ \E i \in bad :
                /\ \A j \in bad : i <= j
                /\ verdict' = IF list[i] \notin Declared THEN "missing" ELSE "cycle"
          /\ walk' = <<>>

\* run_task_internal's frame for t, its signal baseline just read.
Frame(t, list) == [task |-> t, baseline |-> signals, at |-> "checking",
                   todo |-> list]

\* run_task_internal finds the task, and runs its prerequisites unless it is the
\* named one and they are skipped.
Enter(t, stack) ==
    IF t \notin Declared
      THEN frames' = <<>> /\ verdict' = "missing"
      ELSE /\ frames' = Append(stack, Frame(t,
                           IF stack = <<>> /\ project.skip THEN <<>> ELSE Expanded(project, t)))
           /\ verdict' = verdict

\* Mutant: a task that has run runs again.
Call_Again(t, stack) ==
    IF InProgress(t) THEN frames' = <<>> /\ verdict' = "cycle"
                     ELSE Enter(t, stack)

\* run_task_scoped: nothing for a task that has run, a cycle for one in progress.
Call(t, stack) ==
    IF t \in executed THEN frames' = stack /\ verdict' = verdict
    ELSE IF InProgress(t) THEN frames' = <<>> /\ verdict' = "cycle"
    ELSE Enter(t, stack)

\* run_task looks the named task up, and checks the order unless
\* --skip-prerequisites leaves its list out.
Start ==
    /\ verdict = "none" /\ walk = <<>> /\ frames = <<>>
    /\ \/ /\ Requested \notin Declared
          /\ verdict' = "unknown" /\ UNCHANGED walk
       \/ /\ Requested \in Declared /\ ~project.skip
          /\ Visit(Requested, <<>>)
       \/ /\ Requested \in Declared /\ project.skip
          /\ verdict' = "running" /\ UNCHANGED walk
    /\ UNCHANGED <<runVars, project, checked, runFrame>>

\* The next entry of the list being walked, unless it has been walked before.
VisitNext ==
    /\ walk # <<>> /\ Last(walk).todo # <<>>
    /\ LET t == Head(Last(walk).todo)
           path == [walk EXCEPT ![Len(walk)].todo = Tail(@)]
       IN IF t \in checked THEN walk' = path /\ verdict' = verdict
                           ELSE Visit(t, path)
    /\ UNCHANGED <<runVars, project, checked, runFrame>>

\* A list has been walked; the outermost ends the check.
VisitDone ==
    /\ walk # <<>> /\ Last(walk).todo = <<>>
    /\ walk' = Front(walk)
    /\ checked' = checked \cup {Last(walk).task}
    /\ verdict' = IF Len(walk) = 1 THEN "running" ELSE verdict
    /\ UNCHANGED <<runVars, project, runFrame>>

----------------------------------------------------------------------------
(* run_task_scoped and run_task_internal.                                  *)

CallRequested ==
    /\ verdict = "running" /\ frames = <<>> /\ Requested \notin executed
    /\ Call(Requested, <<>>)
    /\ UNCHANGED <<runVars, walkFrame, executed, begun, late, heard>>

Top == Last(frames)
Active == verdict = "running" /\ frames # <<>>
GoTo(there) == frames' = [frames EXCEPT ![Len(frames)].at = there]

\* An error leaves every run_task_internal through its `?`.
Fail(kind) == frames' = <<>> /\ verdict' = kind

\* Mutant: signals are left to the next task's own run to notice.
StopIfSignalled_Never(frame) == FALSE

\* stop_if_signalled.
StopIfSignalled(frame) == signals > frame.baseline

\* Before each prerequisite that would run, signals are looked at.
CheckSignal ==
    /\ Active /\ Top.at = "checking" /\ Top.todo # <<>>
    /\ IF Head(Top.todo) \notin executed /\ StopIfSignalled(Top)
         THEN Fail("signal")
         ELSE GoTo("calling") /\ verdict' = verdict
    /\ UNCHANGED <<runVars, walkFrame, executed, begun, late, heard>>

\* Mutant: the list is not advanced past a prerequisite that has run already.
CallPrerequisite_Stays ==
    /\ Active /\ Top.at = "calling"
    /\ Call(Head(Top.todo),
            [frames EXCEPT ![Len(frames)].todo =
                               IF Head(@) \in executed THEN @ ELSE Tail(@),
                           ![Len(frames)].at = "checking"])
    /\ UNCHANGED <<runVars, walkFrame, executed, begun, late, heard>>

CallPrerequisite ==
    /\ Active /\ Top.at = "calling"
    /\ Call(Head(Top.todo),
            [frames EXCEPT ![Len(frames)].todo = Tail(@),
                           ![Len(frames)].at = "checking"])
    /\ UNCHANGED <<runVars, walkFrame, executed, begun, late, heard>>

\* The innermost task returns Ok.
Return ==
    /\ frames' = Front(frames)
    /\ executed' = executed \cup {Top.task}

\* Every prerequisite has run.  The task's values are evaluated; one with no
\* `run` is done.
PrerequisitesOnly ==
    /\ Active /\ Top.at = "checking" /\ Top.todo = <<>>
    /\ Top.task \notin project.runs
    /\ Return
    /\ UNCHANGED <<runVars, walkFrame, verdict, begun, late, heard>>

\* Its values, the image overrides or its container graph are refused.
EvaluateFails ==
    /\ Active /\ Top.at = "checking" /\ Top.todo = <<>>
    /\ "evaluate" \in ChainFails
    /\ Fail("failed")
    /\ UNCHANGED <<runVars, walkFrame, executed, begun, late, heard>>

\* Signals are looked at once more, and the task's own run starts.
BeginRun ==
    /\ Active /\ Top.at = "checking" /\ Top.todo = <<>>
    /\ Top.task \in project.runs
    /\ IF StopIfSignalled(Top)
         THEN Fail("signal") /\ UNCHANGED <<stage, outcome, begun, late>>
         ELSE /\ GoTo("running")
              /\ stage' = "live" /\ outcome' = "none"
              /\ begun' = Append(begun, Top.task)
              /\ late' = IF signals > 0 THEN late + 1 ELSE late
              /\ verdict' = verdict
    /\ UNCHANGED <<signals, walkFrame, executed, heard>>

\* The run itself.  One that starts with a signal recorded is interrupted at
\* its first await: interrupted() is ready when the select first polls it.
Run ==
    /\ Active /\ Top.at = "running"
    /\ \/ Ends /\ late = 0 /\ ("run" \in ChainFails \/ outcome' = "ok")
       \/ Interrupts
       \/ CleansUp /\ ("run" \in ChainFails \/ outcome' = outcome)
    /\ UNCHANGED chainVars

RunReturns ==
    /\ Active /\ Top.at = "running" /\ stage = "over"
    /\ stage' = "idle" /\ outcome' = "none"
    /\ IF outcome = "ok" THEN Return /\ verdict' = verdict
                         ELSE Fail(outcome) /\ UNCHANGED executed
    /\ UNCHANGED <<signals, walkFrame, begun, late, heard>>

\* The named task has run: every tagged container must have been used.
Finished ==
    /\ verdict = "running" /\ frames = <<>> /\ Requested \in executed
    /\ verdict' = IF Tags \subseteq ToSet(begun) THEN "ok" ELSE "untagged"
    /\ UNCHANGED <<runVars, walkFrame, frames, executed, begun, late, heard>>

Signal ==
    /\ verdict \in {"none", "running"}
    /\ Signalled
    /\ heard' = (heard \/ stage \in {"live", "cleanup"})
    /\ UNCHANGED <<walkFrame, frames, executed, verdict, begun, late>>

----------------------------------------------------------------------------

ChainStep ==
    \/ Start \/ VisitNext \/ VisitDone
    \/ CallRequested \/ CheckSignal \/ CallPrerequisite \/ PrerequisitesOnly
    \/ EvaluateFails \/ BeginRun \/ Run \/ RunReturns \/ Finished

ChainOver == verdict \notin {"none", "running"} /\ UNCHANGED vars

ChainNext == ChainStep \/ Signal \/ ChainOver

ChainSpec == ChainInit /\ [][ChainNext]_vars /\ WF_vars(ChainStep)

----------------------------------------------------------------------------

\* the tasks s lists, where its list counts
Lists(config, s) ==
    IF s \in DOMAIN config.lists /\ ~(config.skip /\ s = Requested)
      THEN ToSet(Expanded(config, s)) ELSE {}

\* the tasks each one needs at any depth: those in every set that holds what it
\* lists and what its own members list
NeedsIn(config) ==
    LET lists == {[of |-> s, names |-> Lists(config, s)] : s \in Names}
        closed == {S \in SUBSET Names : \A l \in lists : l.of \in S => l.names \subseteq S}
    IN [t \in Names |->
           LET own == Lists(config, t)
           IN {n \in Names : \A S \in closed : own \subseteq S => n \in S}]

Needs == NeedsIn(project)

\* the tasks a run of the named one takes in
Involved == {Requested} \cup Needs[Requested]

\* The walk accepts exactly the projects in which everything the named task
\* needs, at any depth, is declared and nothing needs itself, whatever the order
\* of the lists and however wildcards and shared prerequisites overlap
\* (check_prerequisites); what it refuses it refuses before any task has started,
\* and the backstop in run_task_scoped is never reached.
CheckIsExact ==
    LET needs == Needs
        sound == \A t \in {Requested} \cup needs[Requested] :
                    t \in Declared /\ t \notin needs[t]
    IN /\ verdict \in {"running", "ok", "failed", "signal", "untagged"} => sound
       /\ verdict \in {"missing", "cycle"} => ~sound
       /\ verdict \in {"missing", "cycle", "unknown"} => begun = <<>>

\* A task's own run starts at most once, and not before every task it needs, at
\* any depth, has run to success; a run that ends well has run all of them.
PrerequisitesFirst ==
    /\ \A i, j \in DOMAIN begun : begun[i] = begun[j] => i = j
    /\ LET needs == Needs IN \A t \in ToSet(begun) : needs[t] \subseteq executed
    /\ verdict = "ok" => /\ executed = Involved
                         /\ ToSet(begun) = executed \cap project.runs

\* No task starts after a signal that arrived while an earlier one was running or
\* being cleaned up, though that one passed (stop_if_signalled, decisions/0016); a
\* signal that falls between the look before a task and that task's own baseline
\* lets at most one run start, which ends the invocation as signalled.
SignalsStopTheChain ==
    [][/\ begun' # begun => ~heard
       /\ late' <= 1
       /\ late' = 1 => verdict' \in {"running", "signal"}]_vars

\* Every invocation ends, whatever its prerequisites are.
ChainEnds == <>(verdict \notin {"none", "running"})
==========================================================================
