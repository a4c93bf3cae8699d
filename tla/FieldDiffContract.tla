--------------------------- MODULE FieldDiffContract ---------------------------
(***************************************************************************)
(* What a field-level comparison promises (docs/api-reference.md and       *)
(* docs/limitations-security.md): it raises, or it counts every compared   *)
(* row that differs, whatever the limits are, and emits, in order, those   *)
(* that fit the limits, saying whether any did not.                        *)
(***************************************************************************)
EXTENDS Integers, SequencesExt

CONSTANTS
    Field, None,
    ChangedFields(_, _, _),     \* the fields two rows differ in, by the options
    LineSize(_),                \* the bytes a changed row takes in the output
    Compared(_, _),             \* the rows of the first input that are compared
    Counts(_, _)                \* the counts of rows the caller gets

VARIABLES
    input,      \* the rows of each side
    config,     \* the options of the call
    outcome,    \* "running", "returned" or "raised"
    report      \* what the caller got

vars == <<input, config, outcome, report>>

(* The row of the second input a row is compared with: the first of its    *)
(* key.                                                                    *)
Partner(i) ==
    Min({j \in 1..Len(input.second) : input.second[j].key = input.first[i].key})

Difference(i) ==
    [key |-> input.first[i].key, first |-> i, second |-> Partner(i),
     changes |-> ChangedFields(config, input.first[i], input.second[Partner(i)])]

Changed ==
    SelectSeq([n \in 1..Cardinality(Compared(config, input)) |->
                   Difference(SetToSortSeq(Compared(config, input), <)[n])],
              LAMBDA row : row.changes # {})

SizeOf(chosen, changed) ==
    FoldSet(LAMBDA k, total : total + LineSize(changed[k]), 0, chosen)

(* Changed row k may follow the chosen ones; max_bytes is a limit of the   *)
(* output file.                                                            *)
Fits(k, chosen, changed) ==
    /\ config.max_rows # None => Cardinality(chosen) < config.max_rows
    /\ config.output /\ config.max_bytes # None =>
          SizeOf(chosen, changed) + LineSize(changed[k]) <= config.max_bytes

(* A row is emitted if and only if it fits what was emitted before it.     *)
IsEmission(chosen, changed) ==
    \A k \in 1..Len(changed) :
        k \in chosen <=> Fits(k, {m \in chosen : m < k}, changed)

IsReport(r) ==
    LET changed == Changed
    IN \E chosen \in SUBSET (1..Len(changed)) :
        /\ IsEmission(chosen, changed)
        /\ r = [rows |-> [n \in 1..Cardinality(chosen) |->
                             changed[SetToSortSeq(chosen, <)[n]]],
                truncated |-> Cardinality(chosen) < Len(changed),
                emitted_row_count |-> Cardinality(chosen),
                output_bytes |-> IF config.output THEN SizeOf(chosen, changed) ELSE 0,
                changed_row_count |-> Len(changed),
                changed_field_count |->
                    FoldSeq(LAMBDA row, total : total + Cardinality(row.changes), 0, changed),
                summary |-> [f \in Field |->
                    Cardinality({k \in 1..Len(changed) : f \in changed[k].changes})],
                counts |-> Counts(config, input)]

Init ==
    /\ outcome = "running"
    /\ report = None

Return ==
    /\ outcome = "running"
    /\ outcome' = "returned"
    /\ IsReport(report')
    /\ UNCHANGED <<input, config>>

Raise ==
    /\ outcome = "running"
    /\ outcome' = "raised"
    /\ UNCHANGED <<input, config, report>>

Next == Return \/ Raise

Spec == Init /\ [][Next]_vars
===============================================================================
