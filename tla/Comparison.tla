------------------------------ MODULE Comparison ------------------------------
(***************************************************************************)
(* What an exact comparison of two inputs means, as operators over the     *)
(* sequences of comparison tokens the inputs produce (tokens.py).  An item *)
(* is identified by its side and its ordinal, the position at which the    *)
(* input produced it, counted from 1.  The code's ordinals count from 0.   *)
(*                                                                         *)
(* These are reference definitions: every backend is compared with them,   *)
(* none of them is translated from a backend.                              *)
(***************************************************************************)
EXTENDS Integers, Sequences, FiniteSets, Functions

Side == {"first", "second"}

Other(side) == IF side = "first" THEN "second" ELSE "first"

(* Numbers in increasing order: before the k-th come k - 1. *)
InOrder(S) == [k \in 1..Cardinality(S) |->
                  CHOOSE i \in S : Cardinality({j \in S : j < i}) = k - 1]

(* The entries of a list at some places of it. *)
EntriesAt(list, places) == LET at == InOrder(places) IN [k \in 1..Len(at) |-> list[at[k]]]

(* Does the item at ordinal i carry a token no earlier item carries? *)
IsFirst(s, i) == \A j \in 1..(i - 1) : s[j] # s[i]

(* The first item of every token, and every later item of a token. *)
FirstOrdinals(s)  == {i \in 1..Len(s) : IsFirst(s, i)}
RepeatOrdinals(s) == {i \in 1..Len(s) : ~IsFirst(s, i)}

Occurs(token, s) == \E i \in 1..Len(s) : s[i] = token

(* The representatives of the tokens of s that other lacks, or shares. *)
OnlyOrdinals(s, other)   == {i \in FirstOrdinals(s) : ~Occurs(s[i], other)}
CommonOrdinals(s, other) == {i \in FirstOrdinals(s) : Occurs(s[i], other)}

-----------------------------------------------------------------------------
(* A result section is a sequence of ordinals. *)

Ascending(q) == \A i, j \in 1..Len(q) : i < j => q[i] < q[j]

(* q lists every member of S exactly once. *)
Enumerates(q, S) == q \in Bijection(1..Len(q), S)

Lists(q, S, ordered) == Enumerates(q, S) /\ (ordered => Ascending(q))
===============================================================================
