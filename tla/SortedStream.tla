----------------------------- MODULE SortedStream -----------------------------
(***************************************************************************)
(* streaming.py: the exact diff of two inputs that are sorted already.     *)
(* iter_sorted_diff is a generator: it runs when its consumer asks for a   *)
(* row, stops at a yield, and may be closed there.  write_sorted_diff is   *)
(* the consumer that streams the rows to a file.  One step reads one item, *)
(* compares one pair of groups, or delivers one row.                       *)
(*                                                                         *)
(* Tokens are integers in their order, and Unorderable, which `<` rejects. *)
(***************************************************************************)
EXTENDS ResultRows

CONSTANTS
    Inputs,         \* the sequences of tokens an input may produce
    Configs,        \* the options calls are made with
    Unorderable,    \* a token without an order, None or a mapping for instance
    None

ASSUME InputsAreTokens == Inputs \subseteq Seq(Int \cup {Unorderable})

VARIABLES
    input, config,  \* the arguments of the call
    phase,          \* where the call is
    error,          \* what the exception in flight came from, or None
    itemCount,      \* [Side -> Nat], items taken from the iterable
    current,        \* [Side -> Seq(Nat)], current_values of _group_sorted
    group,          \* [Side -> Seq(Nat)], left_item and right_item
    status,         \* [Side -> "pull", "group" or "end"], state of those
    pendingRows,    \* rows of this round not yet asked for
    delivered,      \* rows the consumer of iter_sorted_diff has
    target, sibling, session    \* the output file, see AtomicOutput

call   == <<input, config>>
groups == <<itemCount, current, group, status>>
output == <<target, sibling, session>>
vars   == <<call, phase, error, groups, pendingRows, delivered, output>>

Call == {"call"}
Writing == config.consumer = "write_sorted_diff"

Out == INSTANCE AtomicOutput WITH
          Writer <- Call, Kind <- [w \in Call |-> "stream"], Content <- [w \in Call |-> <<>>]

Init ==
    /\ input \in [Side -> Inputs]
    /\ config \in Configs
    /\ phase = "open"
    /\ error = None
    /\ itemCount = [side \in Side |-> 0]
    /\ current = [side \in Side |-> <<>>]
    /\ group = [side \in Side |-> <<>>]
    /\ status = [side \in Side |-> "pull"]
    /\ pendingRows = <<>>
    /\ delivered = <<>>
    /\ Out!Init

-----------------------------------------------------------------------------
(* The first next(), or the writer's __enter__. *)
Start ==
    /\ phase = "open"
    /\ phase' = "merge"
    /\ IF Writing THEN Out!Enter("call") ELSE UNCHANGED output
    /\ UNCHANGED <<call, error, groups, pendingRows, delivered>>

OpenFails ==
    /\ phase = "open"
    /\ Writing
    /\ error' = "output"
    /\ phase' = "raised"
    /\ Out!EnterFails("call") \/ UNCHANGED output
    /\ UNCHANGED <<call, groups, pendingRows, delivered>>

(* An exception inside the generator reaches its consumer: the body of the *)
(* writer's `with`, or the caller.                                         *)
Raise(cause) ==
    /\ error' = cause
    /\ phase' = IF Writing THEN "close" ELSE "raised"
    /\ IF Writing THEN Out!BodyRaises("call") ELSE UNCHANGED output

-----------------------------------------------------------------------------
(* _group_sorted *)

(* Mutant: the generator runs ahead of the merge. *)
PullsAhead(side) ==
    /\ phase = "merge"
    /\ pendingRows = <<>>
    /\ status[side] \in {"pull", "group"}

(* next(left_groups) before next(right_groups), both after the yields of   *)
(* the round.                                                              *)
Pulls(side) ==
    /\ phase = "merge"
    /\ pendingRows = <<>>
    /\ status[side] = "pull"
    /\ side = "second" => status["first"] # "pull"

Orderable(a, b) == a # Unorderable /\ b # Unorderable
Less(a, b) == Orderable(a, b) /\ a < b

NextToken(side) == input[side][itemCount[side] + 1]
CurrentToken(side) == input[side][current[side][1]]

ExtendGroup(side) ==
    /\ Pulls(side)
    /\ itemCount[side] < Len(input[side])
    /\ current[side] # <<>> => NextToken(side) = CurrentToken(side)
    /\ itemCount' = [itemCount EXCEPT ![side] = @ + 1]
    /\ current' = [current EXCEPT ![side] = Append(@, itemCount'[side])]
    /\ UNCHANGED <<call, phase, error, group, status, pendingRows, delivered, output>>

(* Mutant: order is checked against the first token only. *)
RefusesDescentFromFirst(side) ==
    /\ config.validate_sorted
    /\ \/ ~Orderable(NextToken(side), input[side][1])
       \/ Less(NextToken(side), input[side][1])

(* With validation the next token must not be less than the current one,   *)
(* nor fail to compare with it.                                            *)
Refuses(side) ==
    /\ config.validate_sorted
    /\ \/ ~Orderable(NextToken(side), CurrentToken(side))
       \/ Less(NextToken(side), CurrentToken(side))

EndsGroup(side) ==
    /\ Pulls(side)
    /\ itemCount[side] < Len(input[side])
    /\ current[side] # <<>>
    /\ NextToken(side) # CurrentToken(side)

YieldGroup(side) ==
    /\ EndsGroup(side)
    /\ ~Refuses(side)
    /\ itemCount' = [itemCount EXCEPT ![side] = @ + 1]
    /\ group' = [group EXCEPT ![side] = current[side]]
    /\ current' = [current EXCEPT ![side] = <<itemCount'[side]>>]
    /\ status' = [status EXCEPT ![side] = "group"]
    /\ UNCHANGED <<call, phase, error, pendingRows, delivered, output>>

RefuseItem(side) ==
    /\ EndsGroup(side)
    /\ Refuses(side)
    /\ Raise("unsorted")
    /\ UNCHANGED <<call, groups, pendingRows, delivered>>

(* Mutant: the group collected last is not handed over. *)
EndGroupsDropped(side) ==
    /\ Pulls(side)
    /\ itemCount[side] = Len(input[side])
    /\ group' = [group EXCEPT ![side] = <<>>]
    /\ current' = [current EXCEPT ![side] = <<>>]
    /\ status' = [status EXCEPT ![side] = "end"]
    /\ UNCHANGED <<call, phase, error, itemCount, pendingRows, delivered, output>>

EndGroups(side) ==
    /\ Pulls(side)
    /\ itemCount[side] = Len(input[side])
    /\ group' = [group EXCEPT ![side] = current[side]]
    /\ current' = [current EXCEPT ![side] = <<>>]
    /\ status' = [status EXCEPT ![side] = IF current[side] = <<>> THEN "end" ELSE "group"]
    /\ UNCHANGED <<call, phase, error, itemCount, pendingRows, delivered, output>>

(* The iterable or the token factory raises. *)
SourceRaises(side) ==
    /\ Pulls(side)
    /\ Raise("source")
    /\ UNCHANGED <<call, groups, pendingRows, delivered>>

-----------------------------------------------------------------------------
(* iter_sorted_diff: one round of the loop. *)

BothReady ==
    /\ phase = "merge"
    /\ pendingRows = <<>>
    /\ \A side \in Side : status[side] # "pull"

TokenOf(side) == input[side][group[side][1]]

TwoGroups == \A side \in Side : status[side] = "group"

Comparable == TwoGroups => Orderable(TokenOf("first"), TokenOf("second"))

DuplicateRows(side) ==
    IF config.include_duplicates THEN Rows("duplicates", side, Tail(group[side])) ELSE <<>>

(* Mutant: a group waits only for groups of larger tokens on its right.    *)
AheadBackwards(side) ==
    /\ status[side] = "group"
    /\ TwoGroups => Less(TokenOf(Other(side)), TokenOf(side))

Ahead(side) ==
    /\ status[side] = "group"
    /\ TwoGroups => Less(TokenOf(side), TokenOf(Other(side)))

EmitOnly(side) ==
    /\ BothReady
    /\ Comparable
    /\ Ahead(side)
    /\ pendingRows' = <<Row("only", side, group[side][1])>> \o DuplicateRows(side)
    /\ status' = [status EXCEPT ![side] = "pull"]
    /\ UNCHANGED <<call, phase, error, itemCount, current, group, delivered, output>>

EmitCommon ==
    /\ BothReady
    /\ TwoGroups
    /\ Comparable
    /\ TokenOf("first") = TokenOf("second")
    /\ pendingRows' = (IF config.include_common
                         THEN <<Row("common", "first", group["first"][1])>> ELSE <<>>)
                      \o DuplicateRows("first") \o DuplicateRows("second")
    /\ status' = [side \in Side |-> "pull"]
    /\ UNCHANGED <<call, phase, error, itemCount, current, group, delivered, output>>

(* _token_less turns the TypeError into InvalidInputError. *)
CompareRaises ==
    /\ BothReady
    /\ ~Comparable
    /\ Raise("unorderable")
    /\ UNCHANGED <<call, groups, pendingRows, delivered>>

-----------------------------------------------------------------------------
(* The consumer. *)

WriteRow ==
    /\ phase = "merge"
    /\ Writing
    /\ pendingRows # <<>>
    /\ Out!WriteRows("call", <<Head(pendingRows)>>)
    /\ pendingRows' = Tail(pendingRows)
    /\ UNCHANGED <<call, phase, error, groups, delivered>>

(* next() on the generator returns the row it stopped at. *)
TakeRow ==
    /\ phase = "merge"
    /\ ~Writing
    /\ pendingRows # <<>>
    /\ delivered' = Append(delivered, Head(pendingRows))
    /\ pendingRows' = Tail(pendingRows)
    /\ UNCHANGED <<call, phase, error, groups, output>>

(* The consumer keeps the row and closes the generator, or drops it. *)
Abandon ==
    /\ phase = "merge"
    /\ ~Writing
    /\ delivered # <<>>
    /\ phase' = "closed"
    /\ UNCHANGED <<call, error, groups, pendingRows, delivered, output>>

WriteRaises ==
    /\ phase = "merge"
    /\ Writing
    /\ pendingRows # <<>>
    /\ Raise("output")
    /\ UNCHANGED <<call, groups, pendingRows, delivered>>

(* Mutant: the loop waits for one more group after the last. *)
FinishOneSide ==
    /\ BothReady
    /\ TwoGroups
    /\ phase' = IF Writing THEN "close" ELSE "returned"
    /\ UNCHANGED <<call, error, groups, pendingRows, delivered, output>>

Finish ==
    /\ BothReady
    /\ \A side \in Side : status[side] = "end"
    /\ phase' = IF Writing THEN "close" ELSE "returned"
    /\ UNCHANGED <<call, error, groups, pendingRows, delivered, output>>

CloseWriter ==
    /\ phase = "close"
    /\ Out!Close("call")
    /\ UNCHANGED <<call, phase, error, groups, pendingRows, delivered>>

ExitWriter ==
    /\ phase = "close"
    /\ Out!Replace("call") \/ Out!Discard("call")
    /\ phase' = IF error = None THEN "returned" ELSE "raised"
    /\ UNCHANGED <<call, error, groups, pendingRows, delivered>>

ExitWriterFails ==
    /\ phase = "close"
    /\ Out!CloseFails("call") \/ Out!ReplaceFails("call")
    /\ error' = "output"
    /\ phase' = "raised"
    /\ UNCHANGED <<call, groups, pendingRows, delivered>>

-----------------------------------------------------------------------------
Group(side) ==
    ExtendGroup(side) \/ YieldGroup(side) \/ RefuseItem(side) \/ EndGroups(side)

Progress ==
    \/ Start
    \/ \E side \in Side : Group(side) \/ EmitOnly(side)
    \/ EmitCommon
    \/ CompareRaises
    \/ WriteRow
    \/ Finish
    \/ CloseWriter
    \/ ExitWriter

Failure ==
    \/ OpenFails
    \/ \E side \in Side : SourceRaises(side)
    \/ WriteRaises
    \/ ExitWriterFails

Next == Progress \/ TakeRow \/ Abandon \/ Failure

Spec == Init /\ [][Next]_vars

(* The thread that asked for a row runs until the generator yields or ends *)
(* and the writer asks again; nobody else has to ask for another row.      *)
FairSpec == Spec /\ WF_vars(Progress)

-----------------------------------------------------------------------------
NonDescending(s) ==
    \A i, j \in 1..Len(s) : i < j => s[i] = s[j] \/ Less(s[i], s[j])

Rowset == IF Writing THEN target ELSE delivered

(* The options in the form AnswerOf takes: rows stay as they came. *)
Options == [operation |-> "compare", result_mode |-> "file",
            include_common |-> config.include_common,
            include_duplicates |-> config.include_duplicates]

IsExactCall == phase = "returned" /\ \A side \in Side : NonDescending(input[side])

(* Rows carry no counts; a call on unsorted inputs promises nothing and is *)
(* mapped to one that raised.                                              *)
Contract == INSTANCE CompareContract WITH
    answer  <- IF IsExactCall
                 THEN AnswerOf(Rowset, Options, itemCount, ZeroCounts, None)
               ELSE IF phase = "raised" THEN target ELSE None,
    outcome <- IF IsExactCall THEN "returned"
               ELSE IF phase \in {"returned", "raised", "closed"} THEN "raised"
               ELSE "running",
    config  <- [ContractConfig(Options) EXCEPT !.preserve_order = TRUE, !.include_stats = FALSE]

(* On sorted inputs the rows, iterated or written, are those of the exact  *)
(* backends, each section in input order; a call that raises leaves the    *)
(* output path as it was.                                                  *)
Implements == Contract!Spec

(* "Both inputs must be sorted by the same token ... descending tokens     *)
(* raise InvalidInputError" (streaming.py, iter_sorted_diff): a validated  *)
(* call that comes to its end has read sorted inputs only.                 *)
UnsortedIsRefused ==
    phase = "returned" /\ config.validate_sorted =>
        \A side \in Side : NonDescending(input[side])

(* Rows reach the consumer before the inputs are read: each is right for   *)
(* what has been read when it is delivered, however the call goes on, if   *)
(* the inputs are validated.                                               *)
RowsHoldForWhatWasRead ==
    config.validate_sorted /\ ~Writing =>
        LET read(side) == SubSeq(input[side], 1, itemCount[side])
            holds(row) ==
                CASE row.section = "only" ->
                       row.ordinal \in OnlyOrdinals(read(row.side), read(Other(row.side)))
                  [] row.section = "common" ->
                       row.ordinal \in CommonOrdinals(read("first"), read("second"))
                  [] row.section = "duplicates" ->
                       row.ordinal \in RepeatOrdinals(read(row.side))
        IN \A k \in 1..Len(delivered) : holds(delivered[k])

(* "It keeps only the current equal-token group from each input in memory" *)
(* (streaming.py): beside the group in the merge, one item of look-ahead.  *)
HoldsOneGroup ==
    \A side \in Side : status[side] = "group" => Len(current[side]) <= 1

(* write_sorted_diff on finite inputs comes to an end. *)
WriterTerminates == Writing => <>(phase \in {"returned", "raised"})
===============================================================================
