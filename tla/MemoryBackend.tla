---------------------------- MODULE MemoryBackend ----------------------------
(***************************************************************************)
(* storage/memory.py: the exact comparison backend that indexes both       *)
(* inputs in dictionaries.  One step consumes one item of an input, or     *)
(* copies one dictionary value to a result section.                        *)
(*                                                                         *)
(* A dictionary first_by_token is the sequence of its values in insertion  *)
(* order, each value an ordinal; its keys are the tokens of those items.   *)
(***************************************************************************)
EXTENDS Comparison

CONSTANTS
    Token,      \* the comparison tokens
    Inputs,     \* the sequences of tokens an input may produce
    Configs,    \* the options calls are made with
    None

ASSUME InputsAreSequences == Inputs \subseteq Seq(Token)

VARIABLES
    input,          \* [Side -> Inputs], what the two iterables produce
    config,         \* the arguments of the call
    phase,          \* where the call is, see Phase
    itemCount,      \* [Side -> Nat], _MemoryIndex.item_count
    firstByToken,   \* [Side -> Seq(Nat)], _MemoryIndex.first_by_token
    duplicates,     \* [Side -> Seq(Nat)] or None, _MemoryIndex.duplicates
    pending,        \* dictionary slots _first_values has yet to copy
    only,           \* [Side -> Seq(Nat)], only_in_first and only_in_second
    common,         \* Seq(Nat)
    answer          \* what the call returned

vars == <<input, config, phase, itemCount, firstByToken, duplicates, pending,
          only, common, answer>>

indexes  == <<itemCount, firstByToken, duplicates>>
sections == <<pending, only, common>>
call     == <<input, config>>

Phase == {"index_first", "index_second", "only_first", "only_second", "common",
          "returned", "raised"}

IndexPhase(side) == IF side = "first" THEN "index_first" ELSE "index_second"
OnlyPhase(side)  == IF side = "first" THEN "only_first" ELSE "only_second"

ASSUME ConfigsAreOptions ==
    Configs \subseteq [operation : {"compare", "duplicates"},
                       preserve_order : BOOLEAN, include_common : BOOLEAN,
                       include_duplicates : BOOLEAN, include_stats : BOOLEAN]

(* duplicates_memory indexes its one input with collect_duplicates=True. *)
CollectDuplicates == config.include_duplicates \/ config.operation = "duplicates"

Init ==
    /\ input \in [Side -> Inputs]
    /\ config \in Configs
    /\ phase = "index_first"
    /\ itemCount = [side \in Side |-> 0]
    /\ firstByToken = [side \in Side |-> <<>>]
    /\ duplicates = [side \in Side |-> IF CollectDuplicates THEN <<>> ELSE None]
    /\ pending = {}
    /\ only = [side \in Side |-> <<>>]
    /\ common = <<>>
    /\ answer = None

-----------------------------------------------------------------------------
(* _index_items: the loop over one input. *)

SlotToken(side, k) == input[side][firstByToken[side][k]]

(* Mutant: only the latest key of the dictionary is looked at. *)
KnowsLatestOnly(side, token) ==
    /\ firstByToken[side] # <<>>
    /\ SlotToken(side, Len(firstByToken[side])) = token

Knows(side, token) ==
    \E k \in 1..Len(firstByToken[side]) : SlotToken(side, k) = token

IndexNewToken(side) ==
    LET i == itemCount[side] + 1 IN
    /\ phase = IndexPhase(side)
    /\ i <= Len(input[side])
    /\ ~Knows(side, input[side][i])
    /\ firstByToken' = [firstByToken EXCEPT ![side] = Append(@, i)]
    /\ itemCount' = [itemCount EXCEPT ![side] = i]
    /\ UNCHANGED <<call, phase, duplicates, sections, answer>>

IndexKnownToken(side) ==
    LET i == itemCount[side] + 1 IN
    /\ phase = IndexPhase(side)
    /\ i <= Len(input[side])
    /\ Knows(side, input[side][i])
    /\ duplicates' = IF CollectDuplicates
                       THEN [duplicates EXCEPT ![side] = Append(@, i)]
                       ELSE duplicates
    /\ itemCount' = [itemCount EXCEPT ![side] = i]
    /\ UNCHANGED <<call, phase, firstByToken, sections, answer>>

(* The iterable or the token factory raises; nothing catches it. *)
SourceRaises(side) ==
    /\ phase = IndexPhase(side)
    /\ phase' = "raised"
    /\ UNCHANGED <<call, indexes, sections, answer>>

-----------------------------------------------------------------------------
(* compare_memory: the sections are selected when both indexes are built.  *)

OnlySlots(side) == {k \in 1..Len(firstByToken[side]) :
                       ~Knows(Other(side), SlotToken(side, k))}
CommonSlots == {k \in 1..Len(firstByToken.first) :
                       Knows("second", SlotToken("first", k))}

FinishFirst ==
    /\ phase = "index_first"
    /\ itemCount.first = Len(input.first)
    /\ config.operation = "compare"
    /\ phase' = "index_second"
    /\ UNCHANGED <<call, indexes, sections, answer>>

(* Mutant: the slots selected for only_in_first are those of the wrong index. *)
FinishSecondWrongIndex ==
    /\ phase = "index_second"
    /\ itemCount.second = Len(input.second)
    /\ phase' = "only_first"
    /\ pending' = OnlySlots("second")
    /\ UNCHANGED <<call, indexes, only, common, answer>>

FinishSecond ==
    /\ phase = "index_second"
    /\ itemCount.second = Len(input.second)
    /\ phase' = "only_first"
    /\ pending' = OnlySlots("first")
    /\ UNCHANGED <<call, indexes, only, common, answer>>

(* Mutant: preserve_order is forgotten and the keys always come from a set. *)
NextSlotAnyOrder(k) == k \in pending

(* A list comprehension walks the dictionary in insertion order; without   *)
(* preserve_order the keys come out of a set, in any order.                *)
NextSlot(k) ==
    /\ k \in pending
    /\ config.preserve_order => \A l \in pending : k <= l

FirstValue(side, k) ==
    /\ phase = OnlyPhase(side)
    /\ NextSlot(k)
    /\ pending' = pending \ {k}
    /\ only' = [only EXCEPT ![side] = Append(@, firstByToken[side][k])]
    /\ UNCHANGED <<call, phase, indexes, common, answer>>

FirstCommonValue(k) ==
    /\ phase = "common"
    /\ config.include_common
    /\ NextSlot(k)
    /\ pending' = pending \ {k}
    /\ common' = Append(common, firstByToken.first[k])
    /\ UNCHANGED <<call, phase, indexes, only, answer>>

FinishOnly(side) ==
    /\ phase = OnlyPhase(side)
    /\ pending = {}
    /\ phase' = IF side = "first" THEN "only_second" ELSE "common"
    /\ pending' = IF side = "first" THEN OnlySlots("second") ELSE CommonSlots
    /\ UNCHANGED <<call, indexes, only, common, answer>>

-----------------------------------------------------------------------------
Stats ==
    [count     |-> itemCount,
     unique    |-> [side \in Side |-> Len(firstByToken[side])],
     only      |-> [side \in Side |-> Len(only[side])],
     common    |-> Cardinality(CommonSlots),
     duplicate |-> [side \in Side |-> IF config.include_duplicates
                      THEN Len(duplicates[side]) ELSE 0]]

ReturnResult ==
    /\ phase = "common"
    /\ config.include_common => pending = {}
    /\ phase' = "returned"
    /\ answer' = [only       |-> only,
                  common     |-> IF config.include_common THEN common ELSE None,
                  duplicates |-> duplicates,
                  stats      |-> IF config.include_stats THEN Stats ELSE None]
    /\ UNCHANGED <<call, indexes, sections>>

(* duplicates_memory *)
ReturnDuplicates ==
    /\ phase = "index_first"
    /\ itemCount.first = Len(input.first)
    /\ config.operation = "duplicates"
    /\ phase' = "returned"
    /\ answer' = duplicates.first
    /\ UNCHANGED <<call, indexes, sections>>

Index == \E side \in Side : IndexNewToken(side) \/ IndexKnownToken(side)

Select ==
    \/ \E side \in Side : \E k \in pending : FirstValue(side, k)
    \/ \E k \in pending : FirstCommonValue(k)
    \/ \E side \in Side : FinishOnly(side)

Progress ==
    \/ Index
    \/ FinishFirst
    \/ FinishSecond
    \/ Select
    \/ ReturnResult
    \/ ReturnDuplicates

Next ==
    \/ Progress
    \/ \E side \in Side : SourceRaises(side)

Spec == Init /\ [][Next]_vars

-----------------------------------------------------------------------------
(* Every variable has its type; the pending slots are slots of the index   *)
(* the section being built is read from.                                   *)
PendingSide == IF phase = "only_second" THEN "second" ELSE "first"

TypeOK ==
    /\ input \in [Side -> Inputs]
    /\ config \in Configs
    /\ phase \in Phase
    /\ itemCount \in [Side -> Nat]
    /\ firstByToken \in [Side -> Seq(Nat)]
    /\ duplicates \in IF CollectDuplicates THEN [Side -> Seq(Nat)]
                                          ELSE [Side -> {None}]
    /\ pending \subseteq 1..Len(firstByToken[PendingSide])
    /\ only \in [Side -> Seq(Nat)]
    /\ common \in Seq(Nat)

(* The loop invariant of _index_items, which the rest of the backend rests *)
(* on: after n items the dictionary holds, in input order, exactly the     *)
(* first item of every token among those n, and the duplicate list exactly *)
(* the others.                                                             *)
IndexIsExact ==
    \A side \in Side :
        LET n == itemCount[side] IN
        /\ n <= Len(input[side])
        /\ Lists(firstByToken[side], {i \in 1..n : IsFirst(input[side], i)}, TRUE)
        /\ CollectDuplicates =>
              Lists(duplicates[side], {i \in 1..n : ~IsFirst(input[side], i)}, TRUE)

(* compare_memory and duplicates_memory keep the contract of every exact   *)
(* backend: a call that returns has exact sections, in input order when    *)
(* preserve_order asks for it, and exact counts, whatever was included; a  *)
(* call that raises hands out nothing.                                     *)
Outcome == IF phase \in {"returned", "raised"} THEN phase ELSE "running"

Contract == INSTANCE CompareContract WITH outcome <- Outcome

Implements == Contract!Spec
===============================================================================
