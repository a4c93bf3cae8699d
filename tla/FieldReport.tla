------------------------------ MODULE FieldReport ------------------------------
(***************************************************************************)
(* fields.py: what compare_fields and compare_fields_sorted share.  A pair *)
(* of rows that differs is counted, then emitted to the caller's list or   *)
(* to the output file as far as max_rows and max_bytes allow.              *)
(*                                                                         *)
(* An input row is [key, cells]: cells maps every field to its value, None *)
(* for a field the row lacks, as Mapping.get does.  The key's own fields   *)
(* are left out: they never differ between rows that share the key.  An    *)
(* emitted row names the two rows it compares and the fields that differ.  *)
(***************************************************************************)
EXTENDS Integers, SequencesExt

CONSTANTS
    Field,      \* the fields of a row, beside its key
    Calls,      \* the inputs and options calls are made with
    Normal(_),  \* what the caller's normalizer makes of a value
    None

VARIABLES
    input, config,      \* the arguments of the call
    phase,              \* where the call is
    error,              \* what the exception in flight came from, or None
    accumulator,        \* _FieldDiffAccumulator, its rows apart
    rows,               \* accumulator.rows
    target, sibling, session    \* the output file, see AtomicOutput

call   == <<input, config>>
output == <<target, sibling, session>>

Side == {"first", "second"}
Call == {"call"}
Out == INSTANCE AtomicOutput WITH
          Writer <- Call, Kind <- [w \in Call |-> "fields"], Content <- [w \in Call |-> <<>>]

Writing == config.output
Key(side, i) == input[side][i].key

Empty ==
    [first_count |-> 0, compared_count |-> 0, changed_row_count |-> 0,
     changed_field_count |-> 0, summary |-> [f \in Field |-> 0],
     emitted_row_count |-> 0, output_bytes |-> 0, truncated |-> FALSE]

Init ==
    /\ \E c \in Calls : input = c.input /\ config = c.config
    /\ phase = "config"
    /\ error = None
    /\ accumulator = Empty
    /\ rows = <<>>
    /\ Out!Init

-----------------------------------------------------------------------------
(* _changed_fields, and the dictionary the caller gets. *)

Selected(options) ==
    (IF options.columns = None THEN Field ELSE options.columns) \ options.exclude_columns

ChangedFields(options, left, right) ==
    {f \in Selected(options) :
        IF options.normalizer THEN Normal(left.cells[f]) # Normal(right.cells[f])
        ELSE left.cells[f] # right.cells[f]}

Report(key, i, j) ==
    [key |-> key, first |-> i, second |-> j,
     changes |-> ChangedFields(config, input.first[i], input.second[j])]

(* The length of the JSON line, as far as rows differ in it. *)
LineSize(row) == 1 + Cardinality(row.changes)

-----------------------------------------------------------------------------
RecordChanged(acc, changes) ==
    [acc EXCEPT !.changed_row_count = @ + 1,
                !.changed_field_count = @ + Cardinality(changes),
                !.summary = [f \in Field |-> IF f \in changes THEN @[f] + 1 ELSE @[f]]]

CanEmit(acc) == config.max_rows = None \/ acc.emitted_row_count < config.max_rows

(* Mutant: the size of the file is compared, not the size it would have. *)
FitsBefore(acc, row) == config.max_bytes = None \/ acc.output_bytes <= config.max_bytes

Fits(acc, row) ==
    config.max_bytes = None \/ acc.output_bytes + LineSize(row) <= config.max_bytes

(* Mutant: a row that is not emitted is not counted either. *)
EmitCountedOnly(acc, row) ==
    IF ~CanEmit(acc) \/ (Writing /\ ~Fits(acc, row))
      THEN /\ accumulator' = [accumulator EXCEPT !.truncated = TRUE]
           /\ UNCHANGED <<rows, output>>
      ELSE /\ accumulator' = [acc EXCEPT
                  !.emitted_row_count = @ + 1,
                  !.output_bytes = IF Writing THEN @ + LineSize(row) ELSE @]
           /\ IF Writing
                THEN Out!WriteRows("call", <<row>>) /\ UNCHANGED rows
                ELSE rows' = Append(rows, row) /\ UNCHANGED output

(* acc counts the row already; max_bytes is the writer's, so rows kept in  *)
(* memory have only max_rows as a limit.                                   *)
Emit(acc, row) ==
    IF ~CanEmit(acc) \/ (Writing /\ ~Fits(acc, row))
      THEN /\ accumulator' = [acc EXCEPT !.truncated = TRUE]
           /\ UNCHANGED <<rows, output>>
      ELSE /\ accumulator' = [acc EXCEPT
                  !.emitted_row_count = @ + 1,
                  !.output_bytes = IF Writing THEN @ + LineSize(row) ELSE @]
           /\ IF Writing
                THEN Out!WriteRows("call", <<row>>) /\ UNCHANGED rows
                ELSE rows' = Append(rows, row) /\ UNCHANGED output

-----------------------------------------------------------------------------
(* _build_config *)
ConfigRaises ==
    /\ phase = "config"
    /\ config.max_rows # None /\ config.max_rows < 0
    /\ error' = "config"
    /\ phase' = "raised"
    /\ UNCHANGED <<call, accumulator, rows, output>>

ConfigHolds == config.max_rows # None => config.max_rows >= 0

(* open_optional(...).__enter__; a suffix other than .jsonl raises before  *)
(* a temporary file exists.                                                *)
OpenWriter(next) ==
    /\ phase = "open"
    /\ phase' = next
    /\ IF Writing THEN Out!Enter("call") ELSE UNCHANGED output
    /\ UNCHANGED <<call, error, accumulator, rows>>

OpenFails ==
    /\ phase = "open"
    /\ Writing
    /\ error' = "output"
    /\ phase' = "raised"
    /\ Out!EnterFails("call") \/ UNCHANGED output
    /\ UNCHANGED <<call, accumulator, rows>>

(* An exception inside the writer's `with`. *)
Raise(cause) ==
    /\ error' = cause
    /\ phase' = "close"
    /\ IF Writing THEN Out!BodyRaises("call") ELSE UNCHANGED output

(* __exit__, and the return of the result. *)
CloseWriter ==
    /\ phase = "close"
    /\ Out!Close("call")
    /\ UNCHANGED <<call, phase, error, accumulator, rows>>

Outcome == IF error = None THEN "returned" ELSE "raised"

ExitWriter ==
    /\ phase = "close"
    /\ phase' = Outcome
    /\ IF Writing THEN Out!Replace("call") \/ Out!Discard("call") ELSE UNCHANGED output
    /\ UNCHANGED <<call, error, accumulator, rows>>

ExitWriterFails ==
    /\ phase = "close"
    /\ Out!CloseFails("call") \/ Out!ReplaceFails("call")
    /\ error' = "output"
    /\ phase' = "raised"
    /\ UNCHANGED <<call, accumulator, rows>>

-----------------------------------------------------------------------------
(* FieldDiffResult: the emitted rows, the accumulator and the counts. *)
ReportWith(counts) ==
    [rows |-> IF Writing THEN target ELSE rows,
     truncated |-> accumulator.truncated,
     emitted_row_count |-> accumulator.emitted_row_count,
     output_bytes |-> accumulator.output_bytes,
     changed_row_count |-> accumulator.changed_row_count,
     changed_field_count |-> accumulator.changed_field_count,
     summary |-> accumulator.summary,
     counts |-> counts]
===============================================================================
