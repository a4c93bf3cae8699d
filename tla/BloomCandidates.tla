---------------------------- MODULE BloomCandidates ----------------------------
(***************************************************************************)
(* bloom.py, probabilistic_diff_candidates: a Bloom filter is built of     *)
(* each input, then the items that the other input's filter does not       *)
(* contain are the candidates for differences.                             *)
(*                                                                         *)
(* The filters have sizes of their own, so an item has its own bits in     *)
(* each.  An item is what pickle makes of its canonical normalized value.  *)
(***************************************************************************)
EXTENDS Comparison

CONSTANTS
    Item,       \* the items an input may hold
    Bit,        \* the positions of a filter
    Inputs      \* the sequences of items an input may produce

VARIABLES
    input,      \* [Side -> Inputs], the lists made of the arguments
    hashes,     \* [Side -> [Item -> bits]], _hashes of each filter, never none
    bits,       \* [Side -> SUBSET Bit], the bits set in each filter
    taken,      \* [Side -> Nat], items added to each filter
    asked,      \* [Side -> Nat], items looked up in the other filter
    candidates  \* [Side -> sequence of items], only_in_first and only_in_second

vars == <<input, hashes, bits, taken, asked, candidates>>

Init ==
    /\ input \in [Side -> Inputs]
    /\ hashes \in [Side -> [Item -> SUBSET Bit \ {{}}]]
    /\ bits = [side \in Side |-> {}]
    /\ taken = [side \in Side |-> 0]
    /\ asked = [side \in Side |-> 0]
    /\ candidates = [side \in Side |-> <<>>]

(* Mutant: the filter keeps the bits of the last item only. *)
AddForgetting(side, item) == bits' = [bits EXCEPT ![side] = hashes[side][item]]

(* BloomFilter.add *)
Add(side, item) == bits' = [bits EXCEPT ![side] = @ \cup hashes[side][item]]

(* BloomFilter.__contains__ *)
Contains(side, item) == hashes[side][item] \subseteq bits[side]

Added(side) == taken[side] = Len(input[side])

(* build_bloom_filter, of the first input and then of the second. *)
AddNext(side) ==
    /\ ~Added(side)
    /\ side = "second" => Added("first")
    /\ Add(side, input[side][taken[side] + 1])
    /\ taken' = [taken EXCEPT ![side] = @ + 1]
    /\ UNCHANGED <<input, hashes, asked, candidates>>

(* The comprehensions: every occurrence of an item is asked for. *)
AskNext(side) ==
    /\ Added("first") /\ Added("second")
    /\ asked[side] < Len(input[side])
    /\ side = "second" => asked["first"] = Len(input["first"])
    /\ LET item == input[side][asked[side] + 1]
       IN candidates' = IF Contains(Other(side), item) THEN candidates
                        ELSE [candidates EXCEPT ![side] = Append(@, item)]
    /\ asked' = [asked EXCEPT ![side] = @ + 1]
    /\ UNCHANGED <<input, hashes, bits, taken>>

Next == \E side \in Side : AddNext(side) \/ AskNext(side)

Spec == Init /\ [][Next]_vars

-----------------------------------------------------------------------------
(* "Bloom filters have no false negatives for inserted items" (bloom.py):  *)
(* whatever the hash functions do, a candidate is a difference.  The       *)
(* converse does not hold: a false positive hides one.                     *)
CandidatesAreDifferences ==
    \A side \in Side : \A k \in 1..Len(candidates[side]) :
        /\ Occurs(candidates[side][k], input[side])
        /\ ~Occurs(candidates[side][k], input[Other(side)])
===============================================================================
