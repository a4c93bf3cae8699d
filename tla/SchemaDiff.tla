------------------------------ MODULE SchemaDiff ------------------------------
(***************************************************************************)
(* schema.py, compare_schema: a tracker for every column of the first      *)
(* input, then of the second, then the differences of the two schemas.     *)
(* One step is one row.                                                    *)
(*                                                                         *)
(* A row maps its columns to values; a value is its type, "none" and       *)
(* "empty" (the empty string) apart.  Bad is a row that is no mapping.     *)
(***************************************************************************)
EXTENDS Integers, SequencesExt

CONSTANTS
    Calls,      \* inputs and options of the calls that are made
    Bad, None

VARIABLES
    input,      \* [Side -> sequence of rows]
    config,     \* sample_size, empty_string_null, strict_numeric_types
    phase,      \* "config", the side being inferred, "diff", "returned" or "raised"
    trackers,   \* [Side -> [columns -> tracker]]
    taken,      \* [Side -> Nat], rows taken from the iterable
    rowCount,   \* [Side -> Nat], row_count
    sampled,    \* [Side -> BOOLEAN]
    changes     \* the SchemaDiffResult, or None

call == <<input, config>>
vars == <<call, phase, trackers, taken, rowCount, sampled, changes>>

Side == {"first", "second"}

Init ==
    /\ \E c \in Calls : input = c.input /\ config = c.config
    /\ phase = "config"
    /\ trackers = [side \in Side |-> <<>>]
    /\ taken = [side \in Side |-> 0]
    /\ rowCount = [side \in Side |-> 0]
    /\ sampled = [side \in Side |-> FALSE]
    /\ changes = None

-----------------------------------------------------------------------------
IsNull(value) == value = "none" \/ (config.empty_string_null /\ value = "empty")

TypeName(value) ==
    IF value = "empty" THEN "str"
    ELSE IF value \in {"int", "float"} /\ ~config.strict_numeric_types THEN "number"
    ELSE value

NewTracker == [types |-> {}, present |-> 0, null |-> 0, missing |-> 0]

(* Mutant: a null has a type as well. *)
RecordTypes(tracker, value) ==
    [tracker EXCEPT
        !.present = @ + 1,
        !.null    = IF IsNull(value) THEN @ + 1 ELSE @,
        !.types   = @ \cup {TypeName(value)}]

(* _ColumnTracker.record *)
Record(tracker, value) ==
    [tracker EXCEPT
        !.present = @ + 1,
        !.null    = IF IsNull(value) THEN @ + 1 ELSE @,
        !.types   = IF IsNull(value) THEN @ ELSE @ \cup {TypeName(value)}]

(* The rows before a column's first one are not counted as missing. *)
Track(columns, row) ==
    [name \in DOMAIN columns \cup DOMAIN row |->
        IF name \notin DOMAIN row THEN [columns[name] EXCEPT !.missing = @ + 1]
        ELSE Record(IF name \in DOMAIN columns THEN columns[name] ELSE NewTracker, row[name])]

Nullable(tracker) == tracker.null > 0 \/ tracker.missing > 0

-----------------------------------------------------------------------------
(* infer_schema *)

RefuseConfig ==
    /\ phase = "config"
    /\ config.sample_size # None /\ config.sample_size < 0
    /\ phase' = "raised"
    /\ UNCHANGED <<call, trackers, taken, rowCount, sampled, changes>>

Start ==
    /\ phase = "config"
    /\ config.sample_size # None => config.sample_size >= 0
    /\ phase' = "first"
    /\ UNCHANGED <<call, trackers, taken, rowCount, sampled, changes>>

SampleIsFull(side) == config.sample_size # None /\ rowCount[side] >= config.sample_size

AfterSide(side) == IF side = "first" THEN "second" ELSE "diff"

Takes(side) ==
    /\ phase = side
    /\ taken[side] < Len(input[side])
    /\ taken' = [taken EXCEPT ![side] = @ + 1]

TrackRow(side) ==
    /\ Takes(side)
    /\ ~SampleIsFull(side)
    /\ LET row == input[side][taken'[side]]
       IN /\ row # Bad
          /\ trackers' = [trackers EXCEPT ![side] = Track(@, row)]
    /\ rowCount' = [rowCount EXCEPT ![side] = @ + 1]
    /\ UNCHANGED <<call, phase, sampled, changes>>

RefuseRow(side) ==
    /\ Takes(side)
    /\ ~SampleIsFull(side)
    /\ input[side][taken'[side]] = Bad
    /\ phase' = "raised"
    /\ UNCHANGED <<call, trackers, rowCount, sampled, changes>>

(* Mutant: a sample that is full was cut. *)
EndSampleAtLimit(side) ==
    /\ phase = side
    /\ SampleIsFull(side)
    /\ sampled' = [sampled EXCEPT ![side] = TRUE]
    /\ phase' = AfterSide(side)
    /\ UNCHANGED <<call, trackers, taken, rowCount, changes>>

(* One row more is taken before the loop ends. *)
EndSample(side) ==
    /\ Takes(side)
    /\ SampleIsFull(side)
    /\ sampled' = [sampled EXCEPT ![side] = TRUE]
    /\ phase' = AfterSide(side)
    /\ UNCHANGED <<call, trackers, rowCount, changes>>

EndInput(side) ==
    /\ phase = side
    /\ taken[side] = Len(input[side])
    /\ phase' = AfterSide(side)
    /\ UNCHANGED <<call, trackers, taken, rowCount, sampled, changes>>

SourceRaises(side) ==
    /\ phase = side
    /\ phase' = "raised"
    /\ UNCHANGED <<call, trackers, taken, rowCount, sampled, changes>>

(* _diff_schemas *)
Diff ==
    /\ phase = "diff"
    /\ LET left  == trackers.first
           right == trackers.second
           common == DOMAIN left \cap DOMAIN right
       IN changes' =
            [added    |-> DOMAIN right \ DOMAIN left,
             removed  |-> DOMAIN left \ DOMAIN right,
             types    |-> {name \in common : left[name].types # right[name].types},
             nullable |-> {name \in common : Nullable(left[name]) # Nullable(right[name])},
             warned   |-> sampled.first \/ sampled.second]
    /\ phase' = "returned"
    /\ UNCHANGED <<call, trackers, taken, rowCount, sampled>>

Next ==
    \/ RefuseConfig \/ Start
    \/ \E side \in Side : \/ TrackRow(side) \/ RefuseRow(side)
                          \/ EndSample(side) \/ EndInput(side)
                          \/ SourceRaises(side)
    \/ Diff

Spec == Init /\ [][Next]_vars

-----------------------------------------------------------------------------
(* The rows a schema is inferred from, and what they say of a column. *)
Counted(side) == SubSeq(input[side], 1, rowCount[side])

Holders(side, name) == {i \in 1..rowCount[side] : name \in DOMAIN input[side][i]}

Columns(side) == UNION {DOMAIN Counted(side)[i] : i \in 1..rowCount[side]}

Types(side, name) ==
    {TypeName(value) : value \in {v \in {input[side][i][name] : i \in Holders(side, name)} :
                                     ~IsNull(v)}}

(* A null value, or a row without the column after one that has it. *)
MayBeNull(side, name) ==
    \E i \in Holders(side, name) :
        \/ IsNull(input[side][i][name])
        \/ \E j \in i..rowCount[side] : j \notin Holders(side, name)

(* docs/result-schema.md, the fields of a schema: at every moment there is *)
(* a tracker for exactly the columns of the rows counted, which a row left *)
(* out of the sample never reaches.  A column's missing rows are counted   *)
(* from its first row on: which columns are nullable depends on the order  *)
(* of the rows, its types do not.                                          *)
TrackersAreExact ==
    \A side \in Side :
        /\ DOMAIN trackers[side] = Columns(side)
        /\ \A name \in Columns(side) :
              LET tracker == trackers[side][name]
              IN /\ tracker.types = Types(side, name)
                 /\ tracker.present = Cardinality(Holders(side, name))
                 /\ Nullable(tracker) = MayBeNull(side, name)

(* docs/result-schema.md: has_changes, the lists of changes and the        *)
(* warning a sampled schema carries.  A column is added, removed, or       *)
(* compared; the warning is there if and only if rows were left out.       *)
SchemaDiffIsExact ==
    phase = "returned" =>
        /\ changes.added = Columns("second") \ Columns("first")
        /\ changes.removed = Columns("first") \ Columns("second")
        /\ \A name \in Columns("first") \cap Columns("second") :
              /\ name \in changes.types <=> Types("first", name) # Types("second", name)
              /\ name \in changes.nullable <=>
                    MayBeNull("first", name) # MayBeNull("second", name)
        /\ changes.warned <=> \E side \in Side : rowCount[side] < Len(input[side])
===============================================================================
