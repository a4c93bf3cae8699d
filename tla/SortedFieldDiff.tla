---------------------------- MODULE SortedFieldDiff ----------------------------
(***************************************************************************)
(* fields.py, iter_field_diff_sorted: a generator that merges two inputs   *)
(* sorted by key and yields a row per key whose first rows differ.         *)
(* compare_fields_sorted is the consumer that collects or writes them.     *)
(* One step takes one row, compares one pair of groups, or delivers one    *)
(* changed row.                                                            *)
(*                                                                         *)
(* Keys are integers; Text, a key of another type, which `<` rejects beside *)
(* an integer; and Null, Python's None, which `<` always rejects and which *)
(* _iter_key_groups also uses for "no current group".                      *)
(***************************************************************************)
EXTENDS FieldReport

CONSTANTS Text, Null

VARIABLES
    taken,          \* [Side -> Nat], rows taken from the iterable
    currentToken,   \* [Side -> key], current_token of _iter_key_groups
    currentRows,    \* [Side -> Seq(Nat)], its current_rows
    item,           \* [Side -> [key, rows]], left_item and right_item
    status,         \* [Side -> "pull", "group" or "end"], state of those
    pending         \* the row the generator stops at, or None

groups == <<taken, currentToken, currentRows, item, status>>
vars == <<call, phase, error, accumulator, rows, output, groups, pending>>

Collecting == config.consumer = "compare_fields_sorted"

NothingTaken ==
    /\ taken = [side \in Side |-> 0]
    /\ currentToken = [side \in Side |-> Null]
    /\ currentRows = [side \in Side |-> <<>>]
    /\ item = [side \in Side |-> [key |-> Null, rows |-> <<>>]]
    /\ status = [side \in Side |-> "pull"]
    /\ pending = None

-----------------------------------------------------------------------------
RefuseConfig == ConfigRaises /\ UNCHANGED <<groups, pending>>

StartMerge ==
    /\ phase = "config"
    /\ ConfigHolds
    /\ phase' = "open"
    /\ UNCHANGED <<call, error, accumulator, rows, output, groups, pending>>

Open == OpenWriter("merge") /\ UNCHANGED <<groups, pending>>

-----------------------------------------------------------------------------
(* _iter_key_groups *)

Orderable(a, b) ==
    a # Null /\ b # Null /\ (a = Text <=> b = Text)

Less(a, b) == Orderable(a, b) /\ a # Text /\ a < b

Pulls(side) ==
    /\ phase = "merge"
    /\ pending = None
    /\ status[side] = "pull"
    /\ side = "second" => status["first"] # "pull"

Takes(side) ==
    /\ Pulls(side)
    /\ taken[side] < Len(input[side])

NextToken(side) == Key(side, taken[side] + 1)
Previous(side) == Key(side, taken[side])

(* Mutant: the check starts with the third row. *)
RefusesFromThird(side) ==
    /\ config.validate_sorted
    /\ taken[side] > 1
    /\ ~Orderable(NextToken(side), Previous(side)) \/ Less(NextToken(side), Previous(side))

(* A TypeError of `<` is raised as well, as itself. *)
Refuses(side) ==
    /\ config.validate_sorted
    /\ taken[side] > 0
    /\ ~Orderable(NextToken(side), Previous(side)) \/ Less(NextToken(side), Previous(side))

(* `if current_token is None: current_token = token` *)
GroupToken(side) ==
    IF currentToken[side] = Null THEN NextToken(side) ELSE currentToken[side]

RefuseRow(side) ==
    /\ Takes(side)
    /\ Refuses(side)
    /\ Raise(IF Orderable(NextToken(side), Previous(side)) THEN "unsorted" ELSE "unorderable")
    /\ UNCHANGED <<call, accumulator, rows, groups, pending>>

Take(side) ==
    /\ Takes(side)
    /\ ~Refuses(side)
    /\ taken' = [taken EXCEPT ![side] = @ + 1]
    /\ UNCHANGED <<call, phase, error, accumulator, rows, output, pending>>

(* Mutant: the row is put before the rows of its group. *)
ExtendGroupInFront(side) ==
    /\ Take(side)
    /\ NextToken(side) = GroupToken(side)
    /\ currentToken' = [currentToken EXCEPT ![side] = NextToken(side)]
    /\ currentRows' = [currentRows EXCEPT ![side] = <<taken'[side]>> \o @]
    /\ UNCHANGED <<item, status>>

ExtendGroup(side) ==
    /\ Take(side)
    /\ NextToken(side) = GroupToken(side)
    /\ currentToken' = [currentToken EXCEPT ![side] = NextToken(side)]
    /\ currentRows' = [currentRows EXCEPT ![side] = Append(@, taken'[side])]
    /\ UNCHANGED <<item, status>>

YieldGroup(side) ==
    /\ Take(side)
    /\ NextToken(side) # GroupToken(side)
    /\ item' = [item EXCEPT ![side] = [key |-> currentToken[side], rows |-> currentRows[side]]]
    /\ currentToken' = [currentToken EXCEPT ![side] = NextToken(side)]
    /\ currentRows' = [currentRows EXCEPT ![side] = <<taken'[side]>>]
    /\ status' = [status EXCEPT ![side] = "group"]

(* The last group, unless its token is None. *)
YieldLast(side) ==
    /\ Pulls(side)
    /\ taken[side] = Len(input[side])
    /\ currentToken[side] # Null
    /\ item' = [item EXCEPT ![side] = [key |-> currentToken[side], rows |-> currentRows[side]]]
    /\ currentToken' = [currentToken EXCEPT ![side] = Null]
    /\ currentRows' = [currentRows EXCEPT ![side] = <<>>]
    /\ status' = [status EXCEPT ![side] = "group"]
    /\ UNCHANGED <<call, phase, error, accumulator, rows, output, taken, pending>>

EndGroups(side) ==
    /\ Pulls(side)
    /\ taken[side] = Len(input[side])
    /\ currentToken[side] = Null
    /\ status' = [status EXCEPT ![side] = "end"]
    /\ UNCHANGED <<call, phase, error, accumulator, rows, output, taken, currentToken,
                   currentRows, item, pending>>

SourceRaises(side) ==
    /\ Pulls(side)
    /\ Raise("source")
    /\ UNCHANGED <<call, accumulator, rows, groups, pending>>

-----------------------------------------------------------------------------
(* The merge: it ends with the input that ends first. *)

BothReady ==
    /\ phase = "merge"
    /\ pending = None
    /\ \A side \in Side : status[side] = "group"

LeftKey  == item["first"].key
RightKey == item["second"].key

SkipGroup(side, other) ==
    /\ BothReady
    /\ Less(item[side].key, item[other].key)
    /\ status' = [status EXCEPT ![side] = "pull"]
    /\ UNCHANGED <<call, phase, error, accumulator, rows, output, taken, currentToken,
                   currentRows, item, pending>>

CompareGroups ==
    /\ BothReady
    /\ LeftKey = RightKey
    /\ LET row == Report(LeftKey, item["first"].rows[1], item["second"].rows[1])
       IN pending' = IF row.changes = {} THEN None ELSE row
    /\ status' = [side \in Side |-> "pull"]
    /\ UNCHANGED <<call, phase, error, accumulator, rows, output, taken, currentToken,
                   currentRows, item>>

(* The TypeError of `<` between the keys. *)
KeysRaise ==
    /\ BothReady
    /\ ~Orderable(LeftKey, RightKey)
    /\ Raise("unorderable")
    /\ UNCHANGED <<call, accumulator, rows, groups, pending>>

(* A row that is no mapping, or the normalizer. *)
CompareRaises ==
    /\ BothReady
    /\ LeftKey = RightKey
    /\ Raise("row")
    /\ UNCHANGED <<call, accumulator, rows, groups, pending>>

Finish ==
    /\ phase = "merge"
    /\ pending = None
    /\ \A side \in Side : status[side] # "pull"
    /\ \E side \in Side : status[side] = "end"
    /\ phase' = "close"
    /\ UNCHANGED <<call, error, accumulator, rows, output, groups, pending>>

-----------------------------------------------------------------------------
(* The consumer. *)

CollectRow ==
    /\ phase = "merge"
    /\ Collecting
    /\ pending # None
    /\ Emit(RecordChanged(accumulator, pending.changes), pending)
    /\ pending' = None
    /\ UNCHANGED <<call, phase, error, groups>>

CollectRaises ==
    /\ phase = "merge"
    /\ Writing
    /\ pending # None
    /\ Raise("output")
    /\ UNCHANGED <<call, accumulator, rows, groups, pending>>

(* next() on the generator returns the row it stopped at. *)
TakeRow ==
    /\ phase = "merge"
    /\ ~Collecting
    /\ pending # None
    /\ rows' = Append(rows, pending)
    /\ pending' = None
    /\ UNCHANGED <<call, phase, error, accumulator, output, groups>>

(* The consumer keeps the row and closes the generator, or drops it. *)
Abandon ==
    /\ phase = "merge"
    /\ ~Collecting
    /\ rows # <<>>
    /\ phase' = "closed"
    /\ UNCHANGED <<call, error, accumulator, rows, output, groups, pending>>

Close == CloseWriter /\ UNCHANGED <<groups, pending>>
Exit  == ExitWriter /\ UNCHANGED <<groups, pending>>

-----------------------------------------------------------------------------
Progress ==
    \/ RefuseConfig
    \/ StartMerge
    \/ Open
    \/ \E side \in Side : \/ ExtendGroup(side) \/ YieldGroup(side) \/ RefuseRow(side)
                          \/ YieldLast(side) \/ EndGroups(side)
    \/ SkipGroup("first", "second") \/ SkipGroup("second", "first")
    \/ CompareGroups
    \/ KeysRaise
    \/ Finish
    \/ CollectRow
    \/ Close \/ Exit

Failure ==
    \/ (OpenFails \/ ExitWriterFails) /\ UNCHANGED <<groups, pending>>
    \/ \E side \in Side : SourceRaises(side)
    \/ CompareRaises
    \/ CollectRaises

Next == Progress \/ TakeRow \/ Abandon \/ Failure

Spec == Init /\ NothingTaken /\ [][Next]_vars

-----------------------------------------------------------------------------
(* Every variable has its type. *)
TypeOK ==
    /\ phase \in {"config", "open", "merge", "close", "closed", "returned", "raised"}
    /\ error \in {"config", "source", "row", "unsorted", "unorderable", "output", None}
    /\ \A side \in Side :
          /\ taken[side] \in 0..Len(input[side])
          /\ currentRows[side] \in Seq(1..taken[side])
          /\ item[side].rows \in Seq(1..taken[side])
          /\ status[side] \in {"pull", "group", "end"}
          /\ status[side] = "group" => item[side].key # Null /\ item[side].rows # <<>>

Read(side) == SubSeq(input[side], 1, taken[side])

FirstOfKey(sequence, i) == \A j \in 1..(i - 1) : sequence[j].key # sequence[i].key

NonDescending(sequence) ==
    \A i, j \in 1..Len(sequence) :
        i < j => sequence[i].key = sequence[j].key \/ Less(sequence[i].key, sequence[j].key)

HasNull(sequence) == \E i \in 1..Len(sequence) : sequence[i].key = Null

(* One row of each key is compared, the first, if the second input has the *)
(* key; rows are not counted.                                              *)
Compared(inputs) ==
    {i \in 1..Len(inputs.first) :
        /\ FirstOfKey(inputs.first, i)
        /\ \E j \in 1..Len(inputs.second) : inputs.second[j].key = inputs.first[i].key}

Counts(inputs) == [first |-> 0, second |-> 0, compared |-> 0, repeated |-> 0]

(* Sorted by an order that has no None; the rest is promised nothing. *)
IsExactCall ==
    /\ phase = "returned"
    /\ \A side \in Side : NonDescending(input[side]) /\ ~HasNull(input[side])

SortedReport ==
    LET report == ReportWith([first |-> accumulator.first_count,
                              second |-> accumulator.first_count,
                              compared |-> accumulator.compared_count, repeated |-> 0])
        size == FoldSeq(LAMBDA row, total : total + Cardinality(row.changes), 0, rows)
    IN IF Collecting THEN report
       ELSE [report EXCEPT
               !.emitted_row_count = Len(rows), !.changed_row_count = Len(rows),
               !.changed_field_count = size,
               !.summary = [f \in Field |->
                   Cardinality({k \in 1..Len(rows) : f \in rows[k].changes})]]

CallOutcome ==
    IF IsExactCall THEN "returned"
    ELSE IF phase \in {"returned", "raised", "closed"} THEN "raised"
    ELSE "running"

CallReport ==
    IF IsExactCall THEN SortedReport ELSE IF phase = "raised" THEN target ELSE None

(* Rows reach the consumer before the inputs are read.  In a validated     *)
(* call each compares the first rows of its key, and stays right for what  *)
(* is read later.                                                          *)
RowsHoldForWhatWasRead ==
    config.validate_sorted =>
        \A k \in 1..Len(rows) :
            /\ FirstOfKey(Read("first"), rows[k].first)
            /\ FirstOfKey(Read("second"), rows[k].second)
            /\ Key("first", rows[k].first) = rows[k].key
            /\ Key("second", rows[k].second) = rows[k].key

(* "validates non-descending key order while reading" (docs/cli.md): a     *)
(* validated call that comes to its end has read sorted prefixes; what it  *)
(* did not read it did not validate.                                       *)
UnsortedIsRefused ==
    phase = "returned" /\ config.validate_sorted =>
        \A side \in Side : NonDescending(Read(side))

(* "Use iter_field_diff_sorted() to stream changed fields for matching-key *)
(* rows" (docs/streaming-diff.md): a validated call that returns compared  *)
(* every key that both inputs have among the rows it read.  A None key,    *)
(* which compare_fields matches, is taken for "no group" and lost.         *)
MatchingKeysAreCompared ==
    phase = "returned" /\ config.validate_sorted /\ config.max_rows = None
    /\ config.max_bytes = None =>
        \A i \in 1..taken["first"], j \in 1..taken["second"] :
            /\ FirstOfKey(Read("first"), i) /\ FirstOfKey(Read("second"), j)
            /\ Key("first", i) = Key("second", j)
            /\ ChangedFields(config, input["first"][i], input["second"][j]) # {}
            => \E k \in 1..Len(ReportWith(0).rows) : ReportWith(0).rows[k].first = i
===============================================================================
