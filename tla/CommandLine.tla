------------------------------ MODULE CommandLine ------------------------------
(***************************************************************************)
(* One call of the public interface: cli.py, main, with the functions of   *)
(* core.py that a program calls directly.  The arguments are validated, a  *)
(* backend is planned, the comparison runs, its result is saved, and the   *)
(* command line shows it and ends with an exit code.                       *)
(*                                                                         *)
(* The backends are checked elsewhere (CompareContract): here a comparison *)
(* raises, or it gives the sections that the tokens of its backend         *)
(* determine.  A section is a set of ordinals.                             *)
(***************************************************************************)
EXTENDS Planner, Tokens, Comparison

CONSTANTS
    Calls       \* inputs and options of the calls that are made

VARIABLES
    input,      \* [Side -> sequence of values]
    config,     \* the arguments
    phase,      \* where the call is
    backend,    \* the backend planned, or None
    answer,     \* what the comparison returned, or None
    target,     \* what the output path holds
    stdout,     \* what was printed
    outcome     \* how the call ended, or None

call == <<input, config>>
vars == <<call, phase, backend, answer, target, stdout, outcome>>

IsCommand == config.caller = "cli"
Before    == [form |-> "before"]
Nothing   == [form |-> "nothing"]

Init ==
    /\ \E c \in Calls : input = c.input /\ config = c.config
    /\ phase = IF config.caller = "cli" THEN "args" ELSE "run"
    /\ backend = None
    /\ answer = None
    /\ target = Before
    /\ stdout = Nothing
    /\ outcome = None

End(how) == phase' = "ended" /\ outcome' = how

(* `except (OSError, UniqDiffError, ValueError)` of main; a caller of the  *)
(* API gets the exception.                                                 *)
Refuse ==
    /\ End(IF IsCommand THEN "exit 2" ELSE "raised")
    /\ UNCHANGED <<call, backend, answer, target, stdout>>

(* Any other exception passes main: the EOFError of a compressed input     *)
(* that was cut, csv.Error, the TypeError of keys that cannot be sorted.   *)
Escape ==
    /\ IsCommand
    /\ End("uncaught")
    /\ UNCHANGED <<call, backend, answer, target, stdout>>

Raise == Refuse \/ Escape

-----------------------------------------------------------------------------
(* _validate_args; `duplicates` has none of these options. *)
ArgsAreRefused ==
    /\ config.command # "duplicates"
    /\ \/ config.reports = {"fields", "schema"}
       \/ config.sorted_input /\ "fields" \notin config.reports
       \/ config.reports # {} /\ (config.command = "intersection" \/ config.result_mode = "file")
       \/ "fields" \in config.reports /\ (~config.key \/ config.output \notin {None, ".jsonl"})
       \/ config.max_output_rows # None /\ (~config.events \/ config.max_output_rows < 0)
       \/ config.max_output_bytes # None /\ ~config.events
       \/ config.events /\ config.output \notin {None, ".jsonl"}
       \/ "schema" \in config.reports /\ ~config.events /\ config.output \notin {None, ".json"}

RefuseArgs == phase = "args" /\ ArgsAreRefused /\ Refuse

AcceptArgs ==
    /\ phase = "args"
    /\ ~ArgsAreRefused
    /\ phase' = IF config.events THEN "events" ELSE "run"
    /\ UNCHANGED <<call, backend, answer, target, stdout, outcome>>

(* _run_jsonl_event_command, see EventStream: --fail-on-diff is not asked, *)
(* and a command that fails may have printed events before.                *)
Stream == [form |-> "events"]

RunEvents ==
    /\ phase = "events"
    /\ End("exit 0")
    /\ IF config.output = None THEN stdout' = Stream /\ UNCHANGED target
                               ELSE target' = Stream /\ UNCHANGED stdout
    /\ UNCHANGED <<call, backend, answer>>

EventsFail ==
    /\ phase = "events"
    /\ End("exit 2") \/ End("uncaught")
    /\ stdout' = stdout \/ (config.output = None /\ stdout' = Stream)
    /\ UNCHANGED <<call, backend, answer, target>>

-----------------------------------------------------------------------------
(* _run_command and core.py: which function runs, on which backend. *)

IncludeCommon ==
    IF ~IsCommand /\ config.command = "compare" THEN config.include_common
    ELSE config.command \in {"compare", "intersection"}

Options == [config EXCEPT !.include_common = IncludeCommon]

IsComparison == config.command # "duplicates" /\ config.reports = {}

PlanIsRefused ==
    IF IsComparison THEN PlanRaises(Options)
    ELSE config.command = "duplicates" /\ config.chunk_size <= 0

(* A ValueError, but for an infinite memory_limit, an OverflowError.       *)
RefusePlan ==
    /\ phase = "run"
    /\ PlanIsRefused
    /\ Refuse \/ (config.memory_limit = Unreadable /\ Escape)

Plan ==
    /\ phase = "run"
    /\ ~PlanIsRefused
    /\ backend' = IF IsComparison THEN CompareBackend(Options, EstimatedItems(Options, input))
                  ELSE IF config.command = "duplicates" THEN DuplicatesBackend(Options)
                  ELSE None
    /\ phase' = "compare"
    /\ UNCHANGED <<call, answer, target, stdout, outcome>>

-----------------------------------------------------------------------------
InMemory == [side \in Side |-> [i \in DOMAIN input[side] |-> MemoryToken(input[side][i])]]
OnDisk   == [side \in Side |-> [i \in DOMAIN input[side] |-> DiskToken(input[side][i])]]

TokensOfBackend == IF backend = "memory" THEN InMemory ELSE OnDisk

Sections(tokens) ==
    [only   |-> [side \in Side |-> OnlyOrdinals(tokens[side], tokens[Other(side)])],
     common |-> IF IncludeCommon THEN CommonOrdinals(tokens.first, tokens.second) ELSE None,
     duplicates |-> [side \in Side |->
        IF config.include_duplicates THEN RepeatOrdinals(tokens[side]) ELSE None]]

NoSections == [only |-> [side \in Side |-> {}], common |-> None,
               duplicates |-> [side \in Side |-> None]]

(* CompareStats; include_stats=False leaves every count at zero. *)
Stats(sections) ==
    [only |-> [side \in Side |->
        IF config.include_stats THEN Cardinality(sections.only[side]) ELSE 0],
     duplicate |-> [side \in Side |->
        IF config.include_stats /\ config.include_duplicates
          THEN Cardinality(sections.duplicates[side]) ELSE 0]]

Result(sections, stats, streamed) ==
    [form |-> "result", content |-> sections, stats |-> stats, streamed |-> streamed]
List(items) == [form |-> "list", content |-> items, streamed |-> FALSE]

(* What a file holds of a result: its sections. *)
Saved(payload) == [form |-> payload.form, content |-> payload.content]

(* In file mode the rows are at the output when the backend returns. *)
Compare ==
    /\ phase = "compare"
    /\ IsComparison
    /\ LET sections == Sections(TokensOfBackend)
           stats == Stats(sections)
       IN IF config.result_mode = "file"
            THEN /\ config.output \in {".jsonl", ".csv"}
                 /\ answer' = Result(NoSections, stats, TRUE)
                 /\ target' = Saved(Result(sections, stats, TRUE))
            ELSE /\ answer' = Result(sections, stats, FALSE)
                 /\ UNCHANGED target
    /\ phase' = IF config.result_mode = "memory" /\ config.output # None
                THEN "save" ELSE "handle"
    /\ UNCHANGED <<call, backend, stdout, outcome>>

FindDuplicates ==
    /\ phase = "compare"
    /\ config.command = "duplicates"
    /\ answer' = List(RepeatOrdinals(TokensOfBackend.first))
    /\ phase' = "handle"
    /\ UNCHANGED <<call, backend, target, stdout, outcome>>

(* compare_file_fields, which writes its own output, compare_file_schema.  *)
CompareReport ==
    /\ phase = "compare"
    /\ config.command # "duplicates"
    /\ \E report \in config.reports, differs \in BOOLEAN :
          LET streamed == report = "fields" /\ config.output # None
              payload == [form |-> report, content |-> differs, streamed |-> streamed]
          IN /\ answer' = payload
             /\ target' = IF streamed THEN Saved(payload) ELSE target
    /\ phase' = "handle"
    /\ UNCHANGED <<call, backend, stdout, outcome>>

(* The inputs, the tokens, the backend's files, an output it cannot write. *)
CompareRaises == phase = "compare" /\ Raise

-----------------------------------------------------------------------------
(* The end of core.compare: atomic_write_result. *)

CanSave == config.output \in {".json", ".jsonl", ".csv"}

Save ==
    /\ phase = "save"
    /\ CanSave
    /\ target' = Saved(answer)
    /\ phase' = "handle"
    /\ UNCHANGED <<call, backend, answer, stdout, outcome>>

(* Mutant: the output is opened, then the suffix is looked at. *)
SaveFailsOpened ==
    /\ phase = "save"
    /\ End(IF IsCommand THEN "exit 2" ELSE "raised")
    /\ target' = Nothing
    /\ UNCHANGED <<call, backend, answer, stdout>>

(* Another suffix, or the file system. *)
SaveFails == phase = "save" /\ Raise

-----------------------------------------------------------------------------
(* `result.common or []` *)
Payload ==
    IF config.command = "intersection" /\ answer.form = "result"
      THEN List(IF answer.content.common = None THEN {} ELSE answer.content.common)
      ELSE answer

(* Mutant: the second input may have whatever it likes. *)
HasDifferencesInFirst(payload) ==
    CASE payload.form = "result" ->
            payload.stats.only.first > 0 \/ payload.stats.duplicate.first > 0
      [] payload.form = "list" -> config.command = "duplicates" /\ payload.content # {}
      [] OTHER -> payload.content

HasDifferences(payload) ==
    CASE payload.form = "result" ->
            \E side \in Side : payload.stats.only[side] > 0 \/ payload.stats.duplicate[side] > 0
      [] payload.form = "list" -> config.command = "duplicates" /\ payload.content # {}
      [] OTHER -> payload.content

(* _exit_code *)
ExitCode(payload) ==
    IF config.fail_on_diff /\ HasDifferences(payload) THEN "exit 1" ELSE "exit 0"

Summary(payload) == [form |-> "summary", content |-> HasDifferences(payload)]

(* A summary replaces what is printed; the reports without a file mode and *)
(* the lists save it instead.                                              *)
Shown == IF config.summary THEN Summary(Payload) ELSE Saved(Payload)

(* Mutant: rows that file mode has streamed are no reason to keep silent. *)
IsSilentForReports == ~config.summary /\ Payload.streamed /\ Payload.form # "result"

IsSilent   == ~config.summary /\ Payload.streamed
GoesToFile == /\ config.output # None
              /\ config.summary => Payload.form \in {"list", "schema"}

(* _handle_compare_result, _handle_field_diff_result,                      *)
(* _handle_schema_diff_result and _handle_list_result.                     *)
Handle ==
    /\ phase = "handle"
    /\ IsCommand
    /\ target' = IF ~IsSilent /\ GoesToFile THEN Shown ELSE target
    /\ stdout' = IF ~IsSilent /\ ~GoesToFile THEN Shown ELSE stdout
    /\ End(ExitCode(Payload))
    /\ UNCHANGED <<call, backend, answer>>

(* Outside the `try` of main no exception is caught. *)
HandleFails ==
    /\ phase = "handle"
    /\ IsCommand
    /\ ~IsSilent
    /\ End("traceback")
    /\ UNCHANGED <<call, backend, answer, target, stdout>>

Return ==
    /\ phase = "handle"
    /\ ~IsCommand
    /\ answer' = Payload
    /\ End("returned")
    /\ UNCHANGED <<call, backend, target, stdout>>

(* The status of the process: what main returned, or 1 with a traceback.   *)
Status ==
    CASE outcome = "exit 0" -> 0
      [] outcome = "exit 2" -> 2
      [] OTHER              -> 1

-----------------------------------------------------------------------------
Next ==
    \/ RefuseArgs \/ AcceptArgs
    \/ RunEvents \/ EventsFail
    \/ RefusePlan \/ Plan
    \/ Compare \/ FindDuplicates \/ CompareReport \/ CompareRaises
    \/ Save \/ SaveFails
    \/ Handle \/ HandleFails
    \/ Return

Spec == Init /\ [][Next]_vars

-----------------------------------------------------------------------------
Succeeded == outcome \in {"exit 0", "exit 1", "returned"}

(* The comparison as Python's equality makes it, whatever the backend. *)
Exact == Sections(InMemory)
Repeats(side) == RepeatOrdinals(InMemory[side])

Holds(place, form, content) == place.form = form /\ place.content = content

(* Where the caller finds what was asked for. *)
Place == IF ~IsCommand /\ config.result_mode = "memory" THEN answer
         ELSE IF config.output # None THEN target ELSE stdout

(* "Exact comparison results must remain equivalent across exact backends" *)
(* (docs/auto-mode.md): the caller finds the exact sections, or the list   *)
(* of the command, at the place the options name, the two tokens of every  *)
(* pair of values in the inputs being equal in memory and on disk or in    *)
(* neither.  Left out is `intersection` in file mode, whose streamed rows  *)
(* are replaced by an empty list.                                          *)
BackendsAgreeOn(values) ==
    \A v, w \in values : MemoryToken(v) = MemoryToken(w) <=> DiskToken(v) = DiskToken(w)

Values == UNION {Range(input[side]) : side \in Side}

DeliversTheComparison ==
    /\ phase = "ended" /\ Succeeded
    /\ config.reports = {} /\ ~config.events /\ ~config.summary
    /\ ~(config.command = "intersection" /\ config.result_mode = "file")
    /\ BackendsAgreeOn(Values)
    => CASE config.command = "intersection" -> Holds(Place, "list", Exact.common)
         [] config.command = "duplicates"   -> Holds(Place, "list", Repeats("first"))
         [] OTHER                           -> Holds(Place, "result", Exact)

(* Differences, or for `duplicates` and --include-duplicates repeats, were *)
(* asked for and are in the inputs.                                        *)
DifferencesExist ==
    IF config.command = "duplicates" THEN Repeats("first") # {}
    ELSE IF config.reports # {} THEN answer.content
    ELSE /\ config.command # "intersection"
         /\ \E side \in Side :
               \/ Exact.only[side] # {}
               \/ config.include_duplicates /\ Repeats(side) # {}

(* What main returns when it reports no error: 1 if and only if the        *)
(* differences asked for exist, whatever the backend and whatever was      *)
(* printed, and always 0 for an event command.  The property below is      *)
(* about the exceptions that main does not report.                         *)
ExitCodeTellsDifferences ==
    outcome \in {"exit 0", "exit 1"} /\ BackendsAgreeOn(Values) =>
        (outcome = "exit 1" <=> ~config.events /\ config.fail_on_diff /\ DifferencesExist)

(* Status 1 of the process is for --fail-on-diff (docs/cli.md, "CI Exit    *)
(* Codes"), and 2 for corrupted data: a job that did not ask for           *)
(* --fail-on-diff does not see 1.                                          *)
StatusIsDocumented ==
    IsCommand /\ outcome # None => (Status = 1 => config.fail_on_diff)

(* docs/auto-mode.md, "auto mode switches to disk before the configured    *)
(* limit is fully consumed": a comparison that runs in memory under a      *)
(* limit fits it, sized inputs or not.  Inputs without an item need none.  *)
AutoKeepsTheLimit ==
    backend = "memory" /\ IsComparison /\ config.mode = "auto" /\ config.memory_limit # None =>
        LET items == Len(input.first) + Len(input.second)
        IN  items = 0 \/ items * BytesPerItem * 100 <= config.memory_limit * 70

(* A call that raises, whether main reports the exception, lets it pass or *)
(* is not there, has neither saved nor printed a result.  The traceback of *)
(* a handler is an outcome of its own: core.compare may have saved the     *)
(* result before it.                                                       *)
FailureKeepsTheOutput ==
    outcome \in {"exit 2", "uncaught", "raised"} =>
        target = Before /\ (stdout = Nothing \/ config.events)

(* "All exact backends should agree on comparison semantics: same          *)
(* comparison token rules" (docs/backend-behavior.md): what a comparison   *)
(* returned is exact whatever its mode.                                    *)
ModesAgree ==
    answer # None /\ IsComparison /\ answer.form = "result" /\ ~answer.streamed =>
        answer.content = Exact
===============================================================================
