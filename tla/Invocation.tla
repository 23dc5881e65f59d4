---------------------------- MODULE Invocation ----------------------------
(***************************************************************************)
(* One invocation of ratect-compat or ratect: its command line, the checks *)
(* and the work that follow, in their order, and what it exits with (both  *)
(* main.rs, exit_code.rs); and "config convert", whose files somebody else *)
(* may be writing as well.                                                 *)
(***************************************************************************)
EXTENDS Absent, Naturals, Sequences, SequencesExt

CONSTANTS
    Lines,          \* command lines of ratect-compat
    Verbs,          \* commands of ratect
    TakesValue(_),  \* of an option, long or short
    ExitCodes,      \* those a container may have, beside zero
    Targets         \* the files convert writes, in order

\* A word of a command line: [kind |-> "long", name, value], [kind |-> "short",
\* shorts], "dashes" for "--" or "plain".  "positional" is no option's name.
IsWord(word) ==
    /\ word.kind \in {"long", "short", "dashes", "plain"}
    /\ word.kind = "long" => word.name \in STRING \ {"positional"}
    /\ word.kind = "short" => word.shorts \in Seq(STRING \ {"positional"})

\* A container's code is a byte, and None is nothing a file holds.
ASSUME InvocationAssumption ==
    /\ \A line \in Lines : line \in Seq(Range(line)) /\ \A i \in DOMAIN line : IsWord(line[i])
    /\ Verbs \subseteq {"run", "tasks", "caches", "includes", "resources", "doctor", "validate",
                        "convert", "completions"}
    /\ ExitCodes \subseteq 1..255
    /\ Targets \in Seq(Range(Targets))
    /\ None \notin {"theirs", "part", "ours"}

VARIABLES
    inv,        \* the invocation: where it is, what it did, how it ended
    file        \* what each target of convert holds: None, "theirs", "part" or "ours"

invocationVars == <<inv, file>>

----------------------------------------------------------------------------
(* The words of a command line.  In a cluster of shorts everything after   *)
(* one that takes a value is its value.                                    *)

Dashed(word) == word.kind \in {"long", "short", "dashes"}

\* Where in a cluster the option that takes a value is, if there is one.
ValuePosition(shorts) ==
    IF \E i \in DOMAIN shorts : TakesValue(shorts[i])
      THEN CHOOSE i \in DOMAIN shorts :
              TakesValue(shorts[i]) /\ \A j \in 1..i - 1 : ~TakesValue(shorts[j])
      ELSE 0

ShortsOf(word) ==
    LET p == ValuePosition(word.shorts)
    IN IF p = 0 THEN word.shorts ELSE SubSeq(word.shorts, 1, p)

\* Whether the value of the word's option is the next word.
WantsNext(word) ==
    \/ word.kind = "long" /\ word.value = None /\ TakesValue(word.name)
    \/ word.kind = "short" /\ ValuePosition(word.shorts) = Len(word.shorts)

\* One word more is read: the options there are, up to "--", and the other words.
ReadWord(acc, word) ==
    IF acc.over THEN acc
    ELSE IF acc.skip THEN [acc EXCEPT !.skip = FALSE]
    ELSE CASE word.kind = "dashes" -> [acc EXCEPT !.over = TRUE]
           [] word.kind = "long" ->
                 [acc EXCEPT !.words = Append(@, word.name), !.skip = WantsNext(word)]
           [] word.kind = "short" ->
                 [acc EXCEPT !.words = @ \o ShortsOf(word), !.skip = WantsNext(word)]
           [] word.kind = "plain" -> [acc EXCEPT !.words = Append(@, "positional")]

\* command_line_words.
CommandLineWords(line) ==
    LET read[i \in 0..Len(line)] ==
            IF i = 0 THEN [words |-> <<>>, over |-> FALSE, skip |-> FALSE]
            ELSE ReadWord(read[i - 1], line[i])
    IN read[Len(line)].words

VerbOptions == {"list-tasks", "T", "clean", "clean-cache", "upgrade"}

\* is_a_run of ratect-compat: no such option before the first other word.
IsARun(line) ==
    LET words == CommandLineWords(line)
    IN \A i \in DOMAIN words :
          words[i] \in VerbOptions => \E j \in 1..i - 1 : words[j] = "positional"

\* An option whose value is given as nothing.
EmptyValue(word) ==
    \/ word.kind = "long" /\ word.value = "" /\ TakesValue(word.name)
    \/ word.kind = "short" /\ LET p == ValuePosition(word.shorts)
                              IN p # 0 /\ SubSeq(word.shorts, p + 1, Len(word.shorts)) = <<"=">>

\* One word more before the task, or the task.
SplitWord(acc, word) ==
    IF acc.over THEN acc
    ELSE IF acc.skip
      THEN [acc EXCEPT !.skip = FALSE, !.index = @ + 1, !.refused = @ \/ Dashed(word)]
    ELSE IF word.kind \in {"dashes", "plain"} THEN [acc EXCEPT !.over = TRUE]
    ELSE [acc EXCEPT !.index = @ + 1, !.skip = WantsNext(word),
                     !.refused = @ \/ EmptyValue(word)]

\* split_at_task: the words before the task, and whether one of them is refused.
SplitAtTask(line) ==
    LET split[i \in 0..Len(line)] ==
            IF i = 0 THEN [index |-> 0, over |-> FALSE, skip |-> FALSE, refused |-> FALSE]
            ELSE SplitWord(split[i - 1], line[i])
    IN split[Len(line)]

\* One option more, or the value of one.  Clap takes no value that looks like an
\* option, and stops at one it does not know.
ClapWord(acc, word) ==
    IF acc.skip
      THEN IF Dashed(word) THEN [acc EXCEPT !.wrong = TRUE] ELSE [acc EXCEPT !.skip = FALSE]
    ELSE IF word.kind = "long"
      THEN [acc EXCEPT !.given = @ \cup {word.name}, !.skip = WantsNext(word)]
    ELSE [acc EXCEPT !.given = @ \cup Range(ShortsOf(word)), !.skip = WantsNext(word)]

\* What clap makes of the options: the ones given, and whether a value is missing.
ClapOptions(options) ==
    LET clap[i \in 0..Len(options)] ==
            IF i = 0 THEN [given |-> {}, skip |-> FALSE, wrong |-> FALSE]
            ELSE ClapWord(clap[i - 1], options[i])
    IN clap[Len(options)]

----------------------------------------------------------------------------
(* The stages of an invocation.                                            *)

OptionChecks ==
    <<"log file", "tag and override", "vars file", "cache type", "docker options", "config file">>
RunStages == <<"vars", "sink", "connect", "settings", "run">>

\* run of ratect-compat: --list-tasks goes before --upgrade and that before --clean.
CompatStages(given) ==
    OptionChecks \o
    CASE {"list-tasks", "T"} \cap given # {} -> <<"load", "list">>
      [] {"list-tasks", "T"} \cap given = {} /\ "upgrade" \in given -> <<"notice">>
      [] {"list-tasks", "T", "upgrade"} \cap given = {} /\ {"clean", "clean-cache"} \cap given # {}
            -> <<"clean caches">>
      [] OTHER -> <<"load", "sweep">> \o RunStages

\* run of ratect, load_around.
NativeStages(verb) ==
    CASE verb = "run" -> <<"tag and override", "docker options", "written for", "vars", "load",
                           "sink", "connect", "settings", "run">>
      [] verb = "tasks" -> <<"written for", "load", "list">>
      [] verb = "caches" -> <<"docker options", "connect", "clean caches">>
      [] verb = "includes" -> <<"includes">>
      [] verb = "resources" -> <<"project name", "connect", "resources">>
      [] verb = "doctor" -> <<"doctor">>
      [] verb = "validate" -> <<"findings">>
      [] verb = "completions" -> <<"script">>
      [] verb = "convert" -> <<"config file", "load", "convert">>

\* What may go wrong at a stage: a value that is not one, or anything else.
StageErrors(stage) ==
    CASE stage \in {"tag and override", "docker options", "cache type", "config file"} -> {"option"}
      [] stage \in {"log file", "vars file", "vars", "load", "written for", "connect", "settings",
                    "project name", "clean caches"} -> {"option", "other"}
      [] stage \in {"sink", "resources", "includes", "doctor", "findings", "script"} -> {"other"}
      [] OTHER -> {}

InvocationInit ==
    /\ \/ \E line \in Lines :
             inv = [compat |-> TRUE, line |-> line, verb |-> None, at |-> "parse", isRun |-> FALSE,
                    stages |-> <<>>, begun |-> {}, error |-> None, truth |-> None, said |-> 0,
                    exit |-> None, todo |-> <<>>, written |-> {}, force |-> FALSE]
       \/ \E verb \in Verbs, force \in BOOLEAN :
             /\ force => verb = "convert"
             /\ inv = [compat |-> FALSE, line |-> <<>>, verb |-> verb, at |-> "parse",
                       isRun |-> FALSE, stages |-> <<>>, begun |-> {}, error |-> None,
                       truth |-> None, said |-> 0, exit |-> None, todo |-> <<>>, written |-> {},
                       force |-> force]
    /\ file \in [Range(Targets) -> {None, "theirs"}]
    /\ inv.verb # "convert" => \A t \in Range(Targets) : file[t] = None

\* for_invocation_error: clap has printed it already.
Refuse(isRun) ==
    inv' = [inv EXCEPT !.at = "exited", !.isRun = isRun, !.truth = [as |-> "invocation"],
                       !.said = 1, !.exit = IF isRun THEN 125 ELSE 2]

Starts(isRun, stages) ==
    inv' = [inv EXCEPT !.at = "stages", !.isRun = isRun, !.stages = stages]

\* parse_checked and parse_args.
ParseArgs ==
    /\ inv.at = "parse" /\ inv.compat
    /\ LET split == SplitAtTask(inv.line)
           clap == ClapOptions(SubSeq(inv.line, 1, split.index))
           rest == SubSeq(inv.line, split.index + 1, Len(inv.line))
           runs == clap.given \cap VerbOptions = {}
       IN IF \/ split.refused \/ clap.skip \/ clap.wrong
             \/ runs /\ (rest = <<>> \/ Dashed(rest[1]))
             \/ runs /\ Len(rest) > 1 /\ rest[2].kind # "dashes"
            THEN Refuse(IsARun(inv.line))
            ELSE Starts(runs, CompatStages(clap.given))
    /\ UNCHANGED file

\* parse_cli; is_a_run of ratect looks for its "run".
ParseCli ==
    /\ inv.at = "parse" /\ ~inv.compat
    /\ Refuse(inv.verb = "run") \/ Starts(inv.verb = "run", NativeStages(inv.verb))
    /\ UNCHANGED file

CurrentStage == Head(inv.stages)

\* An error, and what really happened: the code a container ended with, a signal,
\* a reader that went, or a failure of Ratect's own.
Fails(error, truth, said) ==
    inv' = [inv EXCEPT !.at = "failed", !.error = error, !.truth = truth, !.said = @ + said]

StageFails ==
    /\ inv.at = "stages" /\ inv.stages # <<>>
    /\ \E as \in StageErrors(CurrentStage) :
          Fails([as |-> as], [as |-> IF as = "option" THEN "invocation" ELSE "ratect"], 0)
    /\ UNCHANGED file

StagePasses ==
    /\ inv.at = "stages" /\ inv.stages # <<>> /\ CurrentStage \notin {"run", "convert"}
    /\ inv' = [inv EXCEPT !.stages = Tail(@), !.begun = @ \cup {CurrentStage}]
    /\ UNCHANGED file

\* unless_signalled: a notice says which.
SignalledWhileConnecting ==
    /\ inv.at = "stages" /\ inv.stages # <<>> /\ CurrentStage = "connect" /\ inv.isRun
    /\ \E signal \in {1, 2, 15} :
          Fails([as |-> "interrupted", signal |-> signal], [as |-> "signal", signal |-> signal], 1)
    /\ UNCHANGED file

\* A verb that has printed the failures of its parts itself.
PartsFail ==
    /\ inv.at = "stages" /\ inv.stages # <<>> /\ CurrentStage = "includes"
    /\ Fails([as |-> "verb failures"], [as |-> "ratect"], 1)
    /\ UNCHANGED file

\* run_task's result, before it is reported: for a task that is not there nothing
\* is; with_unknown_task_hint makes another error of it.
UnknownTask ==
    /\ inv.at = "stages" /\ inv.stages # <<>> /\ CurrentStage = "run"
    /\ Fails([as |-> "other"], [as |-> "ratect"], 0)
    /\ UNCHANGED file

\* The engine reports a failure of its own as it happens, and says so; a signal's
\* and a gone reader's notice and a container's summary are reports as well.
Reported(result) ==
    IF result.as = "other" THEN [as |-> "failure reported", inner |-> result] ELSE result

\* A run, then its cleanup, whose failure is the result only if nothing else was.
RunTask ==
    /\ inv.at = "stages" /\ inv.stages # <<>> /\ CurrentStage = "run"
    /\ \E cleaned \in BOOLEAN :
          \/ IF cleaned THEN inv' = [inv EXCEPT !.stages = Tail(@), !.begun = @ \cup {"run"}]
             ELSE Fails([as |-> "cleanup"], [as |-> "ratect"], 1)
          \/ \E code \in ExitCodes :
                Fails([as |-> "container", code |-> code], [as |-> "container", code |-> code], 1)
          \/ \E signal \in {1, 2, 15} :
                Fails(Reported([as |-> "interrupted", signal |-> signal]),
                      [as |-> "signal", signal |-> signal], 1)
          \/ Fails(Reported([as |-> "stdout closed"]), [as |-> "closed"], 1)
          \/ Fails(Reported([as |-> "other"]), [as |-> "ratect"], 1)
    /\ UNCHANGED file

----------------------------------------------------------------------------
(* config convert.                                                         *)

\* With no --force, nothing is written while a target exists.
ConvertChecks ==
    /\ inv.at = "stages" /\ inv.stages # <<>> /\ CurrentStage = "convert"
    /\ IF ~inv.force /\ \E t \in Range(Targets) : file[t] # None
         THEN Fails([as |-> "other"], [as |-> "ratect"], 0)
         ELSE inv' = [inv EXCEPT !.at = "convert", !.todo = Targets]
    /\ UNCHANGED file

\* Done, or stopped half-way, which with --force leaves the file beside it.
Writes(t) ==
    \/ /\ file' = [file EXCEPT ![t] = "ours"]
       /\ inv' = [inv EXCEPT !.todo = Tail(@), !.written = @ \cup {t}]
    \/ /\ file' = [file EXCEPT ![t] = IF inv.force THEN @ ELSE "part"]
       /\ Fails([as |-> "other"], [as |-> "ratect"], 0)

\* Mutant: the file is opened, whether or not it is new.
WriteGeneratedConfig_Opens ==
    inv.at = "convert" /\ inv.todo # <<>> /\ Writes(Head(inv.todo))

\* write_generated_config: a new file is made only if there still is none; with
\* --force a file written beside it takes its place, or does not.
WriteGeneratedConfig ==
    /\ inv.at = "convert" /\ inv.todo # <<>>
    /\ IF ~inv.force /\ file[Head(inv.todo)] # None
         THEN Fails([as |-> "other"], [as |-> "ratect"], 0) /\ UNCHANGED file
         ELSE Writes(Head(inv.todo))

Converted ==
    /\ inv.at = "convert" /\ inv.todo = <<>>
    /\ inv' = [inv EXCEPT !.at = "stages", !.stages = Tail(@), !.begun = @ \cup {"convert"}]
    /\ UNCHANGED file

SomebodyWrites ==
    /\ inv.at \in {"stages", "convert"} /\ inv.verb = "convert"
    /\ \E t \in Range(Targets) : file[t] = None /\ file' = [file EXCEPT ![t] = "theirs"]
    /\ UNCHANGED inv

----------------------------------------------------------------------------
(* The end.                                                                *)

\* for_error looks through what hides the type of what was reported.
ForError(error) ==
    LET e == IF error.as = "failure reported" THEN error.inner ELSE error
    IN CASE e.as = "container" -> e.code % 256
         [] e.as = "interrupted" -> 128 + e.signal
         [] e.as = "stdout closed" -> 141
         [] OTHER -> 125

ForFailure(error, isRun) ==
    IF isRun THEN ForError(error) ELSE IF error.as = "option" THEN 2 ELSE 1

\* Mutant: the engine's own report is not known.
AlreadyReported_NotTheEngines(error) ==
    error.as \in {"container", "interrupted", "stdout closed", "cleanup", "verb failures"}

AlreadyReported(error) ==
    error.as \in {"container", "interrupted", "stdout closed", "cleanup", "failure reported",
                  "verb failures"}

ExitFailed ==
    /\ inv.at = "failed"
    /\ inv' = [inv EXCEPT !.at = "exited", !.exit = ForFailure(inv.error, inv.isRun),
                          !.said = IF AlreadyReported(inv.error) THEN @ ELSE @ + 1]
    /\ UNCHANGED file

ExitOk ==
    /\ inv.at = "stages" /\ inv.stages = <<>>
    /\ inv' = [inv EXCEPT !.at = "exited", !.exit = 0, !.truth = [as |-> "ok"]]
    /\ UNCHANGED file

InvocationStep ==
    \/ ParseArgs \/ ParseCli \/ StagePasses \/ StageFails \/ SignalledWhileConnecting \/ PartsFail
    \/ UnknownTask \/ RunTask \/ ConvertChecks \/ WriteGeneratedConfig \/ Converted
    \/ SomebodyWrites \/ ExitFailed \/ ExitOk

InvocationSpec == InvocationInit /\ [][InvocationStep]_invocationVars

----------------------------------------------------------------------------
(* Properties.                                                             *)

CodeOf(truth, isRun) ==
    CASE truth.as = "ok" -> 0
      [] truth.as = "container" -> truth.code
      [] truth.as = "signal" -> 128 + truth.signal
      [] truth.as = "closed" -> 141
      [] truth.as = "ratect" -> IF isRun THEN 125 ELSE 1
      [] truth.as = "invocation" -> IF isRun THEN 125 ELSE 2

OutcomeTold ==
    inv.at = "exited" =>
        /\ inv.said = IF inv.truth.as = "ok" THEN 0 ELSE 1
        /\ inv.exit = CodeOf(inv.truth, inv.isRun)

VerbsRunNothing ==
    inv.compat =>
        /\ inv.at # "parse" /\ ~inv.isRun => "connect" \notin inv.begun
        /\ "list" \in inv.begun => {"clean caches", "notice", "sweep"} \cap inv.begun = {}

LineReadAlike == inv.compat /\ inv.at # "parse" => inv.isRun = IsARun(inv.line)

\* The exit code is what happened, and a failure is reported once: a run exits
\* with its container's code, its signal's, 141 or 125, whatever wrapped the error
\* on its way; a verb with 1, or 2 for how it was invoked; a line that does not
\* parse with the code of what its options were for, which both readings of the
\* line agree on: a line that parses is a run just when is_a_run says so, and one
\* that lists, cleans or upgrades never gets as far as a daemon to run something
\* on (for_failure, for_error, already_reported, split_at_task,
\* command_line_words).
ExitTellsOutcome == OutcomeTold /\ VerbsRunNothing /\ LineReadAlike

\* Without --force convert replaces no file, not even one that has come since it
\* looked, and a file it says it wrote is there when it exits (convert_config,
\* write_generated_config).
ConvertKeepsFiles ==
    [][/\ \A t \in Range(Targets) : file[t] = "theirs" /\ ~inv.force => file'[t] = "theirs"
       /\ inv'.at = "exited" /\ inv.verb = "convert" =>
             \A t \in inv.written : file[t] # None]_invocationVars
===========================================================================
