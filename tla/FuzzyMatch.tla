------------------------------ MODULE FuzzyMatch ------------------------------
(***************************************************************************)
(* fuzzy.py, compare_fuzzy_strings: each string of the first list takes    *)
(* the best partner the strings before it have left.  One step is one turn *)
(* of the outer loop.                                                      *)
(***************************************************************************)
EXTENDS Integers, Sequences, FiniteSets

CONSTANTS
    Score,      \* the scores of a pair of strings, 0..100
    Matrices    \* the scores of the pairs of two lists of strings

VARIABLES
    scores,     \* [strings of first -> [strings of second -> Score]]
    threshold,
    turn,       \* strings of the first list that had their turn
    common,     \* pairs <<first, second>> of positions, in order
    onlyFirst   \* only_in_first, in order

vars == <<scores, threshold, turn, common, onlyFirst>>

Firsts  == DOMAIN scores
Seconds(i) == DOMAIN scores[i]

(* matched_second *)
Matched == {common[k][2] : k \in 1..Len(common)}

(* A strict `>`: the first of the best scores. *)
IsBest(i, j) ==
    /\ j \in Seconds(i) \ Matched
    /\ \A other \in Seconds(i) \ Matched :
          \/ scores[i][other] < scores[i][j]
          \/ scores[i][other] = scores[i][j] /\ j <= other

(* Mutant: the threshold itself is not enough. *)
ReachesAbove(i, j) == scores[i][j] > threshold

Reaches(i, j) == scores[i][j] >= threshold

Init ==
    /\ scores \in Matrices
    /\ threshold \in Score
    /\ turn = 0
    /\ common = <<>>
    /\ onlyFirst = <<>>

TakePartner ==
    /\ turn + 1 \in Firsts
    /\ turn' = turn + 1
    /\ \E j \in Seconds(turn') :
          /\ IsBest(turn', j) /\ Reaches(turn', j)
          /\ common' = Append(common, <<turn', j>>)
    /\ UNCHANGED <<scores, threshold, onlyFirst>>

StayAlone ==
    /\ turn + 1 \in Firsts
    /\ turn' = turn + 1
    /\ \A j \in Seconds(turn') : IsBest(turn', j) => ~Reaches(turn', j)
    /\ onlyFirst' = Append(onlyFirst, turn')
    /\ UNCHANGED <<scores, threshold, common>>

Next == TakePartner \/ StayAlone

Spec == Init /\ [][Next]_vars

-----------------------------------------------------------------------------
(* The pairs are a matching, every string of the first list is in one pair *)
(* or alone, and the matching cannot be extended: a string that stayed     *)
(* alone has no partner left over, though it chose when others were free.  *)
MatchingIsMaximal ==
    /\ \A k, l \in 1..Len(common) : k # l =>
          common[k][1] # common[l][1] /\ common[k][2] # common[l][2]
    /\ {common[k][1] : k \in 1..Len(common)} \cup {onlyFirst[k] : k \in 1..Len(onlyFirst)}
          = 1..turn
    /\ \A k \in 1..Len(common) : scores[common[k][1]][common[k][2]] >= threshold
    /\ \A k \in 1..Len(onlyFirst) : \A j \in Seconds(onlyFirst[k]) \ Matched :
          scores[onlyFirst[k]][j] < threshold
===============================================================================
