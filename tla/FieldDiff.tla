------------------------------- MODULE FieldDiff -------------------------------
(***************************************************************************)
(* fields.py, compare_fields: the second input is indexed by key, then the *)
(* first is streamed past the index.  One step takes one row.              *)
(***************************************************************************)
EXTENDS FieldReport

VARIABLES
    taken,          \* [Side -> Nat], rows taken from the iterables
    rightIndex,     \* _KeyIndex.rows: the ordinal kept for each key
    duplicateKeys   \* _KeyIndex.duplicate_key_count

index == <<rightIndex, duplicateKeys>>
vars == <<call, phase, error, accumulator, rows, output, taken, index>>

NothingTaken ==
    /\ taken = [side \in Side |-> 0]
    /\ rightIndex = <<>>
    /\ duplicateKeys = 0

-----------------------------------------------------------------------------
RefuseConfig == ConfigRaises /\ UNCHANGED <<taken, index>>

StartIndex ==
    /\ phase = "config"
    /\ ConfigHolds
    /\ phase' = "index"
    /\ UNCHANGED <<call, error, accumulator, rows, output, taken, index>>

Takes(side, in) ==
    /\ phase = in
    /\ taken[side] < Len(input[side])
    /\ taken' = [taken EXCEPT ![side] = @ + 1]

(* `indexed[token] = row`, for a token it lacks. *)
Indexed(key, i) ==
    [k \in DOMAIN rightIndex \cup {key} |-> IF k = key THEN i ELSE rightIndex[k]]

(* Mutant: a repeated key is not counted. *)
IndexRowUncounted ==
    /\ Takes("second", "index")
    /\ LET key == Key("second", taken'.second)
       IN rightIndex' = IF key \in DOMAIN rightIndex THEN rightIndex
                        ELSE Indexed(key, taken'.second)
    /\ UNCHANGED <<call, phase, error, accumulator, rows, output, duplicateKeys>>

IndexRow ==
    /\ Takes("second", "index")
    /\ LET key == Key("second", taken'.second)
       IN IF key \in DOMAIN rightIndex
            THEN duplicateKeys' = duplicateKeys + 1 /\ UNCHANGED rightIndex
            ELSE /\ rightIndex' = Indexed(key, taken'.second)
                 /\ UNCHANGED duplicateKeys
    /\ UNCHANGED <<call, phase, error, accumulator, rows, output>>

FinishIndex ==
    /\ phase = "index"
    /\ taken.second = Len(input.second)
    /\ phase' = "open"
    /\ UNCHANGED <<call, error, accumulator, rows, output, taken, index>>

(* The iterable, the key extractor: nothing is open yet. *)
IndexRaises ==
    /\ phase = "index"
    /\ error' = "source"
    /\ phase' = "raised"
    /\ UNCHANGED <<call, accumulator, rows, output, taken, index>>

Open == OpenWriter("compare") /\ UNCHANGED <<taken, index>>

-----------------------------------------------------------------------------
(* The loop over the first input. *)

Counted == [accumulator EXCEPT !.first_count = @ + 1]
CountedPair == [Counted EXCEPT !.compared_count = @ + 1]

SkipUnmatched ==
    /\ Takes("first", "compare")
    /\ Key("first", taken'.first) \notin DOMAIN rightIndex
    /\ accumulator' = Counted
    /\ UNCHANGED <<call, phase, error, rows, output, index>>

CompareRow ==
    /\ Takes("first", "compare")
    /\ LET key == Key("first", taken'.first)
       IN /\ key \in DOMAIN rightIndex
          /\ LET row == Report(key, taken'.first, rightIndex[key])
             IN IF row.changes = {}
                  THEN accumulator' = CountedPair /\ UNCHANGED <<rows, output>>
                  ELSE Emit(RecordChanged(CountedPair, row.changes), row)
    /\ UNCHANGED <<call, phase, error, index>>

(* The iterable, the key extractor, a row that is no mapping, the          *)
(* normalizer, or the file.                                                *)
CompareRaises ==
    /\ phase = "compare"
    /\ \/ Raise("source")
       \/ taken.first < Len(input.first) /\ (Raise("row") \/ (Writing /\ Raise("output")))
    /\ UNCHANGED <<call, accumulator, rows, taken, index>>

FinishCompare ==
    /\ phase = "compare"
    /\ taken.first = Len(input.first)
    /\ phase' = "close"
    /\ UNCHANGED <<call, error, accumulator, rows, output, taken, index>>

Close == CloseWriter /\ UNCHANGED <<taken, index>>
Exit  == ExitWriter /\ UNCHANGED <<taken, index>>

-----------------------------------------------------------------------------
Progress ==
    \/ RefuseConfig
    \/ StartIndex \/ IndexRow \/ FinishIndex
    \/ Open
    \/ SkipUnmatched \/ CompareRow \/ FinishCompare
    \/ Close \/ Exit

Failure ==
    \/ (OpenFails \/ ExitWriterFails) /\ UNCHANGED <<taken, index>>
    \/ IndexRaises
    \/ CompareRaises

Next == Progress \/ Failure

Spec == Init /\ NothingTaken /\ [][Next]_vars

-----------------------------------------------------------------------------
(* Every variable has its type; the index names rows that were taken. *)
TypeOK ==
    /\ phase \in {"config", "index", "open", "compare", "close", "returned", "raised"}
    /\ error \in {"config", "source", "row", "output", None}
    /\ \A side \in Side : taken[side] \in 0..Len(input[side])
    /\ \A key \in DOMAIN rightIndex :
          rightIndex[key] \in 1..taken.second /\ Key("second", rightIndex[key]) = key
    /\ duplicateKeys = taken.second - Cardinality(DOMAIN rightIndex)

(* Every row of the first input whose key the second has is compared.      *)
Keys(sequence) == {sequence[i].key : i \in 1..Len(sequence)}

Compared(inputs) == {i \in 1..Len(inputs.first) : inputs.first[i].key \in Keys(inputs.second)}

Counts(inputs) ==
    [first |-> Len(inputs.first), second |-> Len(inputs.second),
     compared |-> Cardinality(Compared(inputs)),
     repeated |-> Len(inputs.second) - Cardinality(Keys(inputs.second))]

(* What the caller has of the call, see FieldDiffContract. *)
CallOutcome == IF phase \in {"returned", "raised"} THEN phase ELSE "running"

CallReport ==
    IF phase # "returned" THEN target
    ELSE ReportWith([first |-> accumulator.first_count, second |-> taken.second,
                     compared |-> accumulator.compared_count, repeated |-> duplicateKeys])

===============================================================================
