----------------------------- MODULE FieldDiffCall -----------------------------
(***************************************************************************)
(* A field-level comparison as its callers see it: cli.py and core.py      *)
(* choose by --sorted-input between compare_fields and its sorted variant, *)
(* and hand out the report of either as the same thing.                    *)
(***************************************************************************)
EXTENDS FieldReport

CONSTANTS Text, Null

ASSUME FieldsAreFinite == IsFiniteSet(Field)
ASSUME KeysAreKinds    == Text \notin Int /\ Null \notin Int

(* No error is called None. *)
ASSUME NoneIsNoError ==
    None \notin {"config", "source", "row", "unsorted", "unorderable", "output"}

(* The inputs are lists of rows; those called sorted have keys `<` knows,  *)
(* or refuses.                                                             *)
ASSUME InputsAreRows ==
    \A c \in Calls : \A side \in Side :
        /\ c.input[side] \in Seq(ToSet(c.input[side]))
        /\ c.config.sorted_input =>
              \A row \in ToSet(c.input[side]) : row.key \in Int \cup {Text, Null}

(* parse_size accepts any integer. *)
ASSUME OptionsAreParsed ==
    \A c \in Calls : /\ c.config.columns # None => c.config.columns \subseteq Field
                     /\ c.config.max_bytes # None => c.config.max_bytes \in Int

VARIABLES
    taken,                          \* of both
    rightIndex, duplicateKeys,      \* of FieldDiff
    currentToken, currentRows, item, status, pending    \* of SortedFieldDiff

Unsorted == INSTANCE FieldDiff
Sorted   == INSTANCE SortedFieldDiff

index  == <<rightIndex, duplicateKeys>>
merge  == <<currentToken, currentRows, item, status, pending>>
vars   == <<call, phase, error, accumulator, rows, output, taken, index, merge>>

Next ==
    \/ ~config.sorted_input /\ Unsorted!Next /\ UNCHANGED merge
    \/ config.sorted_input /\ Sorted!Next /\ UNCHANGED index

InitCall == Init /\ Unsorted!NothingTaken /\ Sorted!NothingTaken

Spec == InitCall /\ [][Next]_vars

-----------------------------------------------------------------------------
(* Every variable has its type. *)
TypeOK == IF config.sorted_input THEN Sorted!TypeOK ELSE Unsorted!TypeOK

Compared(options, inputs) ==
    IF options.sorted_input THEN Sorted!Compared(inputs) ELSE Unsorted!Compared(inputs)

Counts(options, inputs) ==
    IF options.sorted_input THEN Sorted!Counts(inputs) ELSE Unsorted!Counts(inputs)

Contract == INSTANCE FieldDiffContract WITH
    outcome <- IF config.sorted_input THEN Sorted!CallOutcome ELSE Unsorted!CallOutcome,
    report  <- IF config.sorted_input THEN Sorted!CallReport ELSE Unsorted!CallReport

(* "If duplicate keys appear in the second input, the first row for that   *)
(* key is used" (docs/limitations-security.md).  The counters and the      *)
(* summary cover every changed row even when the output is truncated, and  *)
(* exactly the rows that fit are emitted; a call that raises leaves the    *)
(* output path as it was.  On sorted inputs the rows are those of the      *)
(* first rows of every key both have, although the merge stops where the   *)
(* shorter input ends.                                                     *)
Implements == Contract!Spec

(* The sum of the sizes of the lines, see LineSize. *)
FileSize(lines) ==
    Len(lines) + Cardinality(UNION {{k} \X lines[k].changes : k \in 1..Len(lines)})

(* The temporary file never outgrows max_bytes, not only at the end, and   *)
(* the reported output_bytes is its size, in either variant; a limit below *)
(* zero leaves it empty.                                                   *)
BytesAreBounded ==
    Writing /\ sibling["call"] # None =>
        /\ FileSize(sibling["call"]) = accumulator.output_bytes
        /\ config.max_bytes # None => \/ FileSize(sibling["call"]) <= config.max_bytes
                                     \/ sibling["call"] = <<>>

(* "validates non-descending key order while reading" (docs/cli.md): see   *)
(* SortedFieldDiff.                                                        *)
UnsortedIsRefused == config.sorted_input => Sorted!UnsortedIsRefused

(* A row that was handed out stays right for what is read later: see       *)
(* SortedFieldDiff.                                                        *)
RowsHoldForWhatWasRead == config.sorted_input => Sorted!RowsHoldForWhatWasRead

(* The sorted variant reports the matching keys that compare_fields        *)
(* reports: see SortedFieldDiff.                                           *)
MatchingKeysAreCompared == config.sorted_input => Sorted!MatchingKeysAreCompared
===============================================================================
