------------------------- MODULE MemoryBackendProofs -------------------------
(***************************************************************************)
(* For every token set, every set of inputs and every set of options, the  *)
(* memory backend keeps its types and its index invariant, and implements  *)
(* CompareContract.                                                        *)
(***************************************************************************)
EXTENDS MemoryBackend, FiniteSetTheorems, SequenceTheorems, TLAPS

-----------------------------------------------------------------------------
(* Result sections: how one that lists a set grows, and how long it is.    *)

(* An empty section lists the empty set: where every section begins. *)
LEMMA EnumeratesNothing == Enumerates(<<>>, {}) /\ Ascending(<<>>)
  BY DEF Enumerates, Ascending, Bijection, Injection, Surjection, IsInjective

(* Appending a new member to a section lists the set grown by that member. *)
LEMMA EnumeratesAppend ==
    ASSUME NEW T, NEW S, NEW q \in Seq(T), NEW x \in T,
           x \notin S, Enumerates(q, S)
    PROVE  Enumerates(Append(q, x), S \cup {x})
<1> DEFINE r == Append(q, x)
<1>1. /\ r \in Seq(T)
      /\ Len(r) = Len(q) + 1
      /\ \A i \in 1..Len(q) : r[i] = q[i]
      /\ r[Len(r)] = x
      /\ Len(q) \in Nat
      /\ DOMAIN r = 1..Len(r)
  BY AppendProperties, LenProperties
<1>2. /\ q \in [1..Len(q) -> S]
      /\ \A a, b \in 1..Len(q) : q[a] = q[b] => a = b
      /\ \A t \in S : \E i \in 1..Len(q) : q[i] = t
  BY DEF Enumerates, Bijection, Injection, Surjection, IsInjective
<1> HIDE DEF r
<1>3. \A i \in 1..Len(r) : IF i = Len(r) THEN r[i] = x ELSE i \in 1..Len(q) /\ r[i] = q[i]
  BY <1>1
<1>4. r \in [1..Len(r) -> S \cup {x}]
  <2>1. \A i \in 1..Len(r) : r[i] \in S \cup {x}
    BY <1>2, <1>3
  <2>2. r = [i \in 1..Len(r) |-> r[i]]
    BY <1>1
  <2>. QED  BY <2>1, <2>2
<1>5. \A a, b \in 1..Len(r) : r[a] = r[b] => a = b
  BY <1>2, <1>3
<1>6. \A t \in S \cup {x} : \E i \in 1..Len(r) : r[i] = t
  BY <1>1, <1>2
<1>. QED  BY <1>1, <1>4, <1>5, <1>6
          DEF r, Enumerates, Bijection, Injection, Surjection, IsInjective

(* A section stays in input order when what is appended lies behind it. *)
LEMMA AscendingAppend ==
    ASSUME NEW q \in Seq(Nat), NEW x \in Nat, Ascending(q),
           \A i \in 1..Len(q) : q[i] < x
    PROVE  Ascending(Append(q, x))
<1>1. /\ Len(Append(q, x)) = Len(q) + 1
      /\ \A i \in 1..Len(q) : Append(q, x)[i] = q[i] /\ q[i] \in Nat
      /\ Append(q, x)[Len(q) + 1] = x
      /\ Len(q) \in Nat
  BY AppendProperties, LenProperties, ElementOfSeq
<1> DEFINE longer == Append(q, x)
<1>2. /\ Len(longer) = Len(q) + 1 /\ longer[Len(q) + 1] = x
      /\ \A i \in 1..Len(q) : longer[i] = q[i] /\ q[i] \in Nat
  BY <1>1
<1> HIDE DEF longer
<1>3. \A k, l \in 1..Len(longer) : k < l => longer[k] < longer[l]
  <2> SUFFICES ASSUME NEW k \in 1..Len(longer), NEW l \in 1..Len(longer), k < l
               PROVE  longer[k] < longer[l]
    OBVIOUS
  <2>1. k \in 1..Len(q) /\ longer[k] = q[k]
    BY <1>1, <1>2
  <2>2. CASE l = Len(q) + 1
    BY <1>2, <2>1, <2>2
  <2>3. CASE l \in 1..Len(q)
    BY <1>2, <2>1, <2>3 DEF Ascending
  <2>. QED  BY <1>1, <1>2, <2>2, <2>3
<1>. QED  BY <1>3 DEF Ascending, longer

(* A section is as long as the set it lists is large: the counts the       *)
(* backends take from list lengths are cardinalities.                      *)
LEMMA EnumeratesCardinality ==
    ASSUME NEW T, NEW S, NEW q \in Seq(T), Enumerates(q, S)
    PROVE  IsFiniteSet(S) /\ Cardinality(S) = Len(q)
<1>1. Len(q) \in Nat
  BY LenProperties
<1>2. ExistsBijection(1..Len(q), S)
  BY DEF Enumerates, ExistsBijection
<1>. QED  BY <1>1, <1>2, FS_NatBijection, FS_CountingElements

(* Every entry of a section is in the set it lists, and every member of    *)
(* the set is an entry.                                                    *)
LEMMA EnumeratesMembers ==
    ASSUME NEW S, NEW q, Enumerates(q, S)
    PROVE  /\ \A i \in 1..Len(q) : q[i] \in S
           /\ \A x \in S : \E i \in 1..Len(q) : q[i] = x
           /\ \A i, j \in 1..Len(q) : q[i] = q[j] => i = j
  BY DEF Enumerates, Bijection, Injection, Surjection, IsInjective

-----------------------------------------------------------------------------
(* Type correctness of storage/memory.py: counters, dictionaries, lists    *)
(* and the pending slots stay of their types through indexing, selection   *)
(* and return.                                                             *)
THEOREM TypeCorrect == Spec => []TypeOK
<1>1. Init => TypeOK
  <2> SUFFICES ASSUME Init PROVE TypeOK
    OBVIOUS
  <2>1. /\ <<>> \in Seq(Nat)
        /\ itemCount \in [Side -> Nat]
        /\ firstByToken \in [Side -> Seq(Nat)]
        /\ only \in [Side -> Seq(Nat)]
    BY DEF Init
  <2>2. duplicates \in IF CollectDuplicates THEN [Side -> Seq(Nat)]
                                            ELSE [Side -> {None}]
    <3>1. CASE CollectDuplicates
      BY <2>1, <3>1 DEF Init
    <3>2. CASE ~CollectDuplicates
      BY <3>2 DEF Init
    <3>. QED  BY <3>1, <3>2
  <2>. QED  BY <2>1, <2>2 DEF Init, TypeOK, Phase
<1>2. TypeOK /\ [Next]_vars => TypeOK'
  <2> SUFFICES ASSUME TypeOK, [Next]_vars PROVE TypeOK'
    OBVIOUS
  <2> USE DEF TypeOK, CollectDuplicates, call, indexes, sections
  <2>1. ASSUME NEW side \in Side, IndexNewToken(side) PROVE TypeOK'
    <3>1. itemCount[side] + 1 \in Nat /\ firstByToken[side] \in Seq(Nat)
      OBVIOUS
    <3>2. /\ firstByToken' \in [Side -> Seq(Nat)]
          /\ itemCount' \in [Side -> Nat]
      BY <2>1, <3>1, AppendProperties DEF IndexNewToken
    <3>3. \A s \in Side : Len(firstByToken[s]) \in Nat /\ Len(firstByToken'[s]) \in Nat
                          /\ Len(firstByToken[s]) <= Len(firstByToken'[s])
      BY <2>1, <3>1, <3>2, AppendProperties, LenProperties DEF IndexNewToken
    <3>4. pending' \subseteq 1..Len(firstByToken'[PendingSide'])
      BY <2>1, <3>3 DEF IndexNewToken, PendingSide, Side
    <3>. QED  BY <2>1, <3>2, <3>4 DEF IndexNewToken
  <2>2. ASSUME NEW side \in Side, IndexKnownToken(side) PROVE TypeOK'
    <3>1. CASE config.include_duplicates \/ config.operation = "duplicates"
      <4>1. /\ itemCount[side] + 1 \in Nat
            /\ duplicates[side] \in Seq(Nat)
        BY <3>1
      <4>2. duplicates' \in [Side -> Seq(Nat)]
        BY <2>2, <3>1, <4>1, AppendProperties DEF IndexKnownToken
      <4>. QED  BY <2>2, <3>1, <4>1, <4>2 DEF IndexKnownToken, PendingSide
    <3>2. CASE ~(config.include_duplicates \/ config.operation = "duplicates")
      BY <2>2, <3>2 DEF IndexKnownToken, PendingSide
    <3>. QED  BY <3>1, <3>2
  <2>3. CASE FinishFirst
    BY <2>3 DEF FinishFirst, Phase, PendingSide
  <2>4. CASE FinishSecond
    BY <2>4 DEF FinishSecond, OnlySlots, Phase, PendingSide
  <2>5. ASSUME NEW side \in Side, NEW k \in pending, FirstValue(side, k)
        PROVE  TypeOK'
    <3>1. firstByToken[side] \in Seq(Nat) /\ only[side] \in Seq(Nat)
      OBVIOUS
    <3>2. PendingSide = side
      BY <2>5 DEF FirstValue, OnlyPhase, PendingSide, Side
    <3>3. firstByToken[side][k] \in Nat
      BY <3>1, <3>2, ElementOfSeq
    <3>4. only' \in [Side -> Seq(Nat)]
      BY <2>5, <3>1, <3>3, AppendProperties DEF FirstValue
    <3>. QED  BY <2>5, <3>4 DEF FirstValue, PendingSide
  <2>6. ASSUME NEW k \in pending, FirstCommonValue(k) PROVE TypeOK'
    <3>1. "first" \in Side /\ firstByToken["first"] \in Seq(Nat)
      BY DEF Side
    <3>2. firstByToken["first"][k] \in Nat
      BY <2>6, <3>1, ElementOfSeq DEF FirstCommonValue, PendingSide
    <3>3. common' \in Seq(Nat)
      BY <2>6, <3>2, AppendProperties DEF FirstCommonValue
    <3>. QED  BY <2>6, <3>3 DEF FirstCommonValue, PendingSide
  <2>7. ASSUME NEW side \in Side, FinishOnly(side) PROVE TypeOK'
    BY <2>7 DEF FinishOnly, OnlySlots, CommonSlots, OnlyPhase, Phase, PendingSide, Side
  <2>8. CASE ReturnResult
    BY <2>8 DEF ReturnResult, Phase, PendingSide
  <2>9. CASE ReturnDuplicates
    BY <2>9 DEF ReturnDuplicates, Phase, PendingSide
  <2>10. ASSUME NEW side \in Side, SourceRaises(side) PROVE TypeOK'
    BY <2>10 DEF SourceRaises, IndexPhase, Phase, PendingSide, Side
  <2>11. CASE UNCHANGED vars
    BY <2>11 DEF vars, PendingSide
  <2>. QED  BY <2>1, <2>2, <2>3, <2>4, <2>5, <2>6, <2>7, <2>8, <2>9, <2>10, <2>11
            DEF Next, Progress, Index, Select
<1>. QED  BY <1>1, <1>2, PTL DEF Spec

-----------------------------------------------------------------------------
(* The dictionary of a side misses no token its loop has passed: what the  *)
(* membership tests of _index_items and compare_memory rely on.            *)
IndexIsComplete ==
    \A side \in Side :
        \A j \in 1..itemCount[side] : Knows(side, input[side][j])

IndexInv == TypeOK /\ IndexIsExact /\ IndexIsComplete

(* A step that leaves the inputs and both indexes alone keeps IndexInv. *)
LEMMA IndexUntouched ==
    ASSUME IndexInv, TypeOK', UNCHANGED <<call, indexes>>
    PROVE  IndexInv'
<1>1. IndexIsExact'
  BY DEF IndexInv, IndexIsExact, call, indexes, CollectDuplicates
<1>2. IndexIsComplete'
  BY DEF IndexInv, IndexIsComplete, call, indexes, Knows, SlotToken
<1>. QED  BY <1>1, <1>2 DEF IndexInv

(* An item is the first of its token exactly when the dictionary does not  *)
(* know the token yet.                                                     *)
LEMMA KnownIffNotFirst ==
    ASSUME IndexInv, NEW side \in Side, itemCount[side] + 1 <= Len(input[side])
    PROVE  IsFirst(input[side], itemCount[side] + 1)
             <=> ~Knows(side, input[side][itemCount[side] + 1])
<1> DEFINE n == itemCount[side]
           d == firstByToken[side]
           firsts == {i \in 1..n : IsFirst(input[side], i)}
<1>1. n \in Nat
  BY DEF IndexInv, TypeOK
<1>2. \A k \in 1..Len(d) : d[k] \in 1..n
  <2>1. Enumerates(d, firsts)
    BY DEF IndexInv, IndexIsExact, Lists
  <2> HIDE DEF d, firsts
  <2>2. \A k \in 1..Len(d) : d[k] \in firsts
    BY <2>1, EnumeratesMembers
  <2>. QED  BY <2>2 DEF firsts
<1>3. ASSUME Knows(side, input[side][n + 1])
      PROVE  ~IsFirst(input[side], n + 1)
  BY <1>1, <1>2, <1>3 DEF Knows, SlotToken, IsFirst
<1>4. ASSUME ~IsFirst(input[side], n + 1)
      PROVE  Knows(side, input[side][n + 1])
  <2>1. PICK j \in 1..n : input[side][j] = input[side][n + 1]
    BY <1>1, <1>4 DEF IsFirst
  <2>. QED  BY <2>1 DEF IndexInv, IndexIsComplete
<1>. QED  BY <1>3, <1>4

(* One item further, the ordinals satisfying a predicate on the prefix     *)
(* gain the new one or stay as they are.                                   *)
LEMMA FirstsOfPrefix ==
    ASSUME NEW s, NEW n \in Nat
    PROVE  /\ {i \in 1..(n + 1) : IsFirst(s, i)}
                = IF IsFirst(s, n + 1) THEN {i \in 1..n : IsFirst(s, i)} \cup {n + 1}
                                       ELSE {i \in 1..n : IsFirst(s, i)}
           /\ {i \in 1..(n + 1) : ~IsFirst(s, i)}
                = IF IsFirst(s, n + 1) THEN {i \in 1..n : ~IsFirst(s, i)}
                                       ELSE {i \in 1..n : ~IsFirst(s, i)} \cup {n + 1}
<1>1. 1..(n + 1) = (1..n) \cup {n + 1}
  OBVIOUS
<1>. QED  BY <1>1

(* A list of ordinals of the first n items stays a list, in input order,   *)
(* when the next ordinal is appended.                                      *)
LEMMA ListsAppend ==
    ASSUME NEW n \in Nat, NEW S \in SUBSET (1..n), NEW q \in Seq(Nat),
           Lists(q, S, TRUE)
    PROVE  Lists(Append(q, n + 1), S \cup {n + 1}, TRUE)
<1>1. n + 1 \notin S
  OBVIOUS
<1>2. \A i \in 1..Len(q) : q[i] < n + 1
  BY EnumeratesMembers DEF Lists
<1>3. Enumerates(Append(q, n + 1), S \cup {n + 1})
  BY <1>1, EnumeratesAppend DEF Lists
<1>4. Ascending(Append(q, n + 1))
  BY <1>2, AscendingAppend DEF Lists
<1>. QED  BY <1>3, <1>4 DEF Lists

(* An item with a token the dictionary lacks extends the dictionary and    *)
(* keeps IndexInv: the item is the first of its token.                     *)
LEMMA IndexNewTokenKeepsIndexInv ==
    ASSUME IndexInv, TypeOK', NEW side \in Side, IndexNewToken(side)
    PROVE  IndexInv'
<1> DEFINE n == itemCount[side]
           firsts(m)  == {i \in 1..m : IsFirst(input[side], i)}
           repeats(m) == {i \in 1..m : ~IsFirst(input[side], i)}
<1>1. /\ n \in Nat
      /\ n + 1 <= Len(input[side])
      /\ itemCount'[side] = n + 1
      /\ firstByToken[side] \in Seq(Nat)
      /\ firstByToken'[side] = Append(firstByToken[side], n + 1)
      /\ \A s \in Side \ {side} : /\ itemCount'[s] = itemCount[s]
                                 /\ firstByToken'[s] = firstByToken[s]
      /\ input' = input /\ config' = config /\ duplicates' = duplicates
  BY DEF IndexInv, TypeOK, IndexNewToken, call
<1>2. IsFirst(input[side], n + 1)
  BY <1>1, KnownIffNotFirst DEF IndexNewToken
<1>3. /\ firsts(n + 1) = firsts(n) \cup {n + 1}
      /\ repeats(n + 1) = repeats(n)
  BY <1>1, <1>2, FirstsOfPrefix
<1>4. Lists(firstByToken[side], firsts(n), TRUE)
  BY DEF IndexInv, IndexIsExact
<1>5. Lists(firstByToken'[side], firsts(n + 1), TRUE)
  <2>1. firsts(n) \in SUBSET (1..n)
    OBVIOUS
  <2> HIDE DEF firsts
  <2>. QED  BY <1>1, <1>3, <1>4, <2>1, ListsAppend
<1>6. IndexIsExact'
  <2> SUFFICES ASSUME NEW s \in Side
               PROVE  /\ itemCount'[s] <= Len(input'[s])
                      /\ Lists(firstByToken'[s],
                               {i \in 1..itemCount'[s] : IsFirst(input'[s], i)}, TRUE)
                      /\ CollectDuplicates' =>
                            Lists(duplicates'[s],
                              {i \in 1..itemCount'[s] : ~IsFirst(input'[s], i)}, TRUE)
    BY DEF IndexIsExact
  <2>1. CASE s = side
    BY <1>1, <1>3, <1>5, <2>1 DEF IndexInv, IndexIsExact, CollectDuplicates
  <2>2. CASE s # side
    BY <1>1, <2>2 DEF IndexInv, IndexIsExact, CollectDuplicates
  <2>. QED  BY <2>1, <2>2
<1>7. IndexIsComplete'
  <2>1. ASSUME NEW s \in Side, NEW t, Knows(s, t) PROVE Knows(s, t)'
    <3>1. PICK k \in 1..Len(firstByToken[s]) : input[s][firstByToken[s][k]] = t
      BY <2>1 DEF Knows, SlotToken
    <3>2. /\ k \in 1..Len(firstByToken'[s])
          /\ firstByToken'[s][k] = firstByToken[s][k]
      <4>1. CASE s = side
        <5>1. n + 1 \in Nat /\ Len(firstByToken[side]) \in Nat
          BY <1>1, LenProperties
        <5>2. /\ Len(firstByToken'[side]) = Len(firstByToken[side]) + 1
              /\ \A l \in 1..Len(firstByToken[side]) :
                    firstByToken'[side][l] = firstByToken[side][l]
          BY <1>1, <5>1, AppendProperties
        <5>. QED  BY <4>1, <5>1, <5>2
      <4>2. CASE s # side
        BY <1>1, <4>2
      <4>. QED  BY <4>1, <4>2
    <3>. QED  BY <1>1, <3>1, <3>2 DEF Knows, SlotToken
  <2>2. ASSUME NEW t, t = input[side][n + 1] PROVE Knows(side, t)'
    <3>1. /\ Len(firstByToken'[side]) \in 1..Len(firstByToken'[side])
          /\ firstByToken'[side][Len(firstByToken'[side])] = n + 1
      BY <1>1, AppendProperties, LenProperties
    <3>. QED  BY <1>1, <2>2, <3>1 DEF Knows, SlotToken
  <2> SUFFICES ASSUME NEW s \in Side, NEW j \in 1..itemCount'[s],
                      NEW t, t = input'[s][j]
               PROVE  Knows(s, t)'
    BY DEF IndexIsComplete
  <2>3. CASE s = side /\ j = n + 1
    BY <2>2, <2>3, <1>1
  <2>4. CASE ~(s = side /\ j = n + 1)
    <3>1. j \in 1..itemCount[s]
      <4>1. CASE s = side
        BY <1>1, <2>4, <4>1
      <4>2. CASE s # side
        BY <1>1, <4>2
      <4>. QED  BY <4>1, <4>2
    <3>2. Knows(s, t)
      BY <1>1, <3>1 DEF IndexInv, IndexIsComplete
    <3>. QED  BY <2>1, <3>2
  <2>. QED  BY <2>3, <2>4
<1>. QED  BY <1>6, <1>7 DEF IndexInv

(* An item with a token the dictionary has extends the duplicates, if they *)
(* are collected, and keeps IndexInv: the item repeats its token.          *)
LEMMA IndexKnownTokenKeepsIndexInv ==
    ASSUME IndexInv, TypeOK', NEW side \in Side, IndexKnownToken(side)
    PROVE  IndexInv'
<1> DEFINE n == itemCount[side]
           firsts(m)  == {i \in 1..m : IsFirst(input[side], i)}
           repeats(m) == {i \in 1..m : ~IsFirst(input[side], i)}
<1>1. /\ n \in Nat
      /\ n + 1 <= Len(input[side])
      /\ itemCount'[side] = n + 1
      /\ \A s \in Side \ {side} : itemCount'[s] = itemCount[s]
      /\ firstByToken' = firstByToken
      /\ input' = input /\ config' = config
  BY DEF IndexInv, TypeOK, IndexKnownToken, call
<1>2. ~IsFirst(input[side], n + 1)
  BY <1>1, KnownIffNotFirst DEF IndexKnownToken
<1>3. /\ firsts(n + 1) = firsts(n)
      /\ repeats(n + 1) = repeats(n) \cup {n + 1}
  BY <1>1, <1>2, FirstsOfPrefix
<1>4. ASSUME CollectDuplicates
      PROVE  /\ Lists(duplicates'[side], repeats(n + 1), TRUE)
             /\ \A s \in Side \ {side} : duplicates'[s] = duplicates[s]
  <2>1. /\ duplicates[side] \in Seq(Nat)
        /\ duplicates'[side] = Append(duplicates[side], n + 1)
        /\ \A s \in Side \ {side} : duplicates'[s] = duplicates[s]
    BY <1>4 DEF IndexInv, TypeOK, IndexKnownToken
  <2>2. Lists(duplicates[side], repeats(n), TRUE)
    BY <1>4 DEF IndexInv, IndexIsExact
  <2>3. repeats(n) \in SUBSET (1..n)
    OBVIOUS
  <2> HIDE DEF repeats
  <2>. QED  BY <1>1, <1>3, <2>1, <2>2, <2>3, ListsAppend
<1>5. IndexIsExact'
  <2> SUFFICES ASSUME NEW s \in Side
               PROVE  /\ itemCount'[s] <= Len(input'[s])
                      /\ Lists(firstByToken'[s],
                               {i \in 1..itemCount'[s] : IsFirst(input'[s], i)}, TRUE)
                      /\ CollectDuplicates' =>
                            Lists(duplicates'[s],
                              {i \in 1..itemCount'[s] : ~IsFirst(input'[s], i)}, TRUE)
    BY DEF IndexIsExact
  <2>1. CASE s = side
    BY <1>1, <1>3, <1>4, <2>1 DEF IndexInv, IndexIsExact, CollectDuplicates
  <2>2. CASE s # side
    BY <1>1, <1>4, <2>2 DEF IndexInv, IndexIsExact, CollectDuplicates
  <2>. QED  BY <2>1, <2>2
<1>6. IndexIsComplete'
  <2> SUFFICES ASSUME NEW s \in Side, NEW j \in 1..itemCount'[s]
               PROVE  Knows(s, input[s][j])
    BY <1>1 DEF IndexIsComplete, Knows, SlotToken
  <2>1. CASE s = side /\ j = n + 1
    BY <2>1 DEF IndexKnownToken
  <2>2. CASE ~(s = side /\ j = n + 1)
    <3>1. j \in 1..itemCount[s]
      <4>1. CASE s = side
        BY <1>1, <2>2, <4>1
      <4>2. CASE s # side
        BY <1>1, <4>2
      <4>. QED  BY <4>1, <4>2
    <3>. QED  BY <3>1 DEF IndexInv, IndexIsComplete
  <2>. QED  BY <2>1, <2>2
<1>. QED  BY <1>5, <1>6 DEF IndexInv

(* The empty indexes a call starts with satisfy IndexInv. *)
LEMMA IndexInvInitially == Init /\ TypeOK => IndexInv
<1> SUFFICES ASSUME Init, TypeOK PROVE IndexInv
  OBVIOUS
<1>1. ASSUME NEW side \in Side
      PROVE  /\ itemCount[side] = 0
             /\ firstByToken[side] = <<>>
             /\ CollectDuplicates => duplicates[side] = <<>>
             /\ Len(input[side]) \in Nat
  BY InputsAreSequences, LenProperties DEF Init
<1>2. \A s : /\ {i \in 1..0 : IsFirst(s, i)} = {}
             /\ {i \in 1..0 : ~IsFirst(s, i)} = {}
  OBVIOUS
<1>3. IndexIsExact
  <2> SUFFICES ASSUME NEW side \in Side
               PROVE  /\ 0 <= Len(input[side])
                      /\ Lists(<<>>, {i \in 1..0 : IsFirst(input[side], i)}, TRUE)
                      /\ Lists(<<>>, {i \in 1..0 : ~IsFirst(input[side], i)}, TRUE)
    BY <1>1 DEF IndexIsExact
  <2>. QED  BY <1>1, <1>2, EnumeratesNothing DEF Lists
<1>4. IndexIsComplete
  BY <1>1 DEF IndexIsComplete
<1>. QED  BY <1>3, <1>4 DEF IndexInv

(* No step of the backend breaks IndexInv. *)
LEMMA IndexInvKept == IndexInv /\ TypeOK' /\ [Next]_vars => IndexInv'
<1> SUFFICES ASSUME IndexInv, TypeOK', [Next]_vars PROVE IndexInv'
  OBVIOUS
<1>1. ASSUME NEW side \in Side, IndexNewToken(side) PROVE IndexInv'
  BY <1>1, IndexNewTokenKeepsIndexInv
<1>2. ASSUME NEW side \in Side, IndexKnownToken(side) PROVE IndexInv'
  BY <1>2, IndexKnownTokenKeepsIndexInv
<1>3. CASE UNCHANGED <<call, indexes>>
  BY <1>3, IndexUntouched
<1>4. \/ \E side \in Side : IndexNewToken(side) \/ IndexKnownToken(side)
      \/ UNCHANGED <<call, indexes>>
  BY DEF Next, Progress, Index, Select, vars, call, indexes, FinishFirst, FinishSecond,
         FirstValue, FirstCommonValue, FinishOnly, ReturnResult, ReturnDuplicates,
         SourceRaises
<1>. QED  BY <1>1, <1>2, <1>3, <1>4

(* _index_items, for every input: whatever was consumed so far, the        *)
(* dictionary lists exactly its first items and the duplicate list exactly *)
(* its repeats, each in input order.                                       *)
THEOREM IndexExact == Spec => []IndexIsExact
<1>1. IndexInv => IndexIsExact
  BY DEF IndexInv
<1>. QED  BY <1>1, IndexInvInitially, IndexInvKept, TypeCorrect, PTL DEF Spec

-----------------------------------------------------------------------------
(* The selection of a section from an index: q already lists the values of *)
(* the slots in K except those in P, which _first_values has yet to copy.  *)
Values(d, K) == {d[k] : k \in K}

Selecting(q, d, K, P, ordered) ==
    /\ q \in Seq(Nat)
    /\ P \subseteq K
    /\ Lists(q, Values(d, K \ P), ordered)
    /\ ordered => \A i \in 1..Len(q), k \in P : q[i] < d[k]

(* _first_values starts with an empty list and every slot still to copy. *)
LEMMA SelectNone ==
    ASSUME NEW d, NEW K, NEW ordered
    PROVE  Selecting(<<>>, d, K, K, ordered)
<1>1. Values(d, K \ K) = {}
  BY DEF Values
<1>2. <<>> \in Seq(Nat) /\ 1..Len(<<>>) = {}
  OBVIOUS
<1>3. Lists(<<>>, Values(d, K \ K), ordered)
  BY <1>1, EnumeratesNothing DEF Lists
<1>. QED  BY <1>2, <1>3 DEF Selecting

(* When no slot is left to copy the list holds the values of all of them. *)
LEMMA SelectAll ==
    ASSUME NEW q, NEW d, NEW K, NEW ordered, Selecting(q, d, K, {}, ordered)
    PROVE  q \in Seq(Nat) /\ Lists(q, Values(d, K), ordered)
<1>1. K \ {} = K
  OBVIOUS
<1>. QED  BY <1>1 DEF Selecting

(* Slots hold distinct ordinals that grow with the slot. *)
LEMMA SlotsAscend ==
    ASSUME IndexInv, NEW side \in Side
    PROVE  /\ Len(firstByToken[side]) \in Nat
           /\ \A k \in 1..Len(firstByToken[side]) :
                 firstByToken[side][k] \in 1..itemCount[side]
           /\ \A k, l \in 1..Len(firstByToken[side]) :
                 k < l => firstByToken[side][k] < firstByToken[side][l]
<1> DEFINE d == firstByToken[side]
           firsts == {i \in 1..itemCount[side] : IsFirst(input[side], i)}
<1>1. d \in Seq(Nat) /\ Lists(d, firsts, TRUE)
  BY DEF IndexInv, IndexIsExact, TypeOK
<1> HIDE DEF firsts, d
<1>2. Len(d) \in Nat /\ \A k \in 1..Len(d) : d[k] \in firsts
  BY <1>1, EnumeratesMembers, LenProperties DEF Lists
<1>3. \A k, l \in 1..Len(d) : k < l => d[k] < d[l]
  BY <1>1 DEF Lists, Ascending
<1>. QED  BY <1>2, <1>3 DEF firsts, d

(* Copying the value of one more slot, the least one when order matters. *)
LEMMA SelectOne ==
    ASSUME IndexInv, NEW side \in Side, NEW K \in SUBSET (1..Len(firstByToken[side])),
           NEW P, NEW k \in P, NEW ordered, ordered => \A l \in P : k <= l,
           NEW q, Selecting(q, firstByToken[side], K, P, ordered)
    PROVE  Selecting(Append(q, firstByToken[side][k]), firstByToken[side], K,
                     P \ {k}, ordered)
<1> DEFINE d == firstByToken[side]
           V == Values(d, K \ P)
<1>1. /\ q \in Seq(Nat) /\ P \subseteq K /\ k \in 1..Len(d)
      /\ Enumerates(q, V)
  BY DEF Selecting, Lists
<1>2. /\ Len(d) \in Nat
      /\ \A l \in 1..Len(d) : d[l] \in Nat
      /\ \A l, m \in 1..Len(d) : l < m => d[l] < d[m]
  BY SlotsAscend DEF IndexInv, TypeOK
<1>3. d[k] \in Nat /\ d[k] \notin V
  <2>1. \A l \in K \ P : d[l] # d[k]
    BY <1>1, <1>2
  <2>. QED  BY <1>1, <1>2, <2>1 DEF Values
<1>4. Values(d, K \ (P \ {k})) = V \cup {d[k]}
  BY <1>1 DEF Values
<1>5. Append(q, d[k]) \in Seq(Nat) /\ Enumerates(Append(q, d[k]), V \cup {d[k]})
  <2> HIDE DEF V, d
  <2>. QED  BY <1>1, <1>3, EnumeratesAppend, AppendProperties
<1>6. ASSUME ordered
      PROVE  /\ Ascending(Append(q, d[k]))
             /\ \A i \in 1..Len(Append(q, d[k])), l \in P \ {k} :
                   Append(q, d[k])[i] < d[l]
  <2>1. /\ Ascending(q)
        /\ \A i \in 1..Len(q) : q[i] < d[k]
        /\ \A i \in 1..Len(q), l \in P : q[i] < d[l]
    BY <1>6 DEF Selecting, Lists
  <2>2. \A l \in P \ {k} : l \in 1..Len(d) /\ k < l /\ d[k] < d[l]
    BY <1>1, <1>2, <1>6
  <2>3. /\ Len(Append(q, d[k])) = Len(q) + 1
        /\ \A i \in 1..Len(q) : Append(q, d[k])[i] = q[i]
        /\ Append(q, d[k])[Len(q) + 1] = d[k]
        /\ Len(q) \in Nat
    BY <1>1, <1>3, AppendProperties, LenProperties
  <2> HIDE DEF d
  <2>4. Ascending(Append(q, d[k]))
    BY <1>1, <1>3, <2>1, AscendingAppend
  <2>5. \A i \in 1..Len(Append(q, d[k])), l \in P \ {k} :
           Append(q, d[k])[i] < d[l]
    BY <2>1, <2>2, <2>3
  <2>. QED  BY <2>4, <2>5
<1>. QED  BY <1>1, <1>4, <1>5, <1>6 DEF Selecting, Lists

-----------------------------------------------------------------------------
(* What both indexes mean once their loops are over: the slots selected    *)
(* hold the ordinals the comparison asks for.                              *)
Indexed(side) == itemCount[side] = Len(input[side])

(* Once an input is indexed, `token in index.first_by_token` says whether  *)
(* the input has the token.                                                *)
LEMMA KnowsIffOccurs ==
    ASSUME IndexInv, NEW side \in Side, Indexed(side), NEW t
    PROVE  Knows(side, t) <=> Occurs(t, input[side])
<1>1. ASSUME Knows(side, t) PROVE Occurs(t, input[side])
  BY <1>1, SlotsAscend DEF Knows, SlotToken, Occurs, Indexed
<1>2. ASSUME Occurs(t, input[side]) PROVE Knows(side, t)
  BY <1>2 DEF IndexInv, IndexIsComplete, Occurs, Indexed
<1>. QED  BY <1>1, <1>2

(* Once an input is indexed, the dictionary's values are the first items   *)
(* of its tokens.                                                          *)
LEMMA SlotsAreFirsts ==
    ASSUME IndexInv, NEW side \in Side, Indexed(side)
    PROVE  /\ Enumerates(firstByToken[side], FirstOrdinals(input[side]))
           /\ \A k \in 1..Len(firstByToken[side]) :
                 firstByToken[side][k] \in FirstOrdinals(input[side])
           /\ \A i \in FirstOrdinals(input[side]) :
                 \E k \in 1..Len(firstByToken[side]) : firstByToken[side][k] = i
<1>1. Enumerates(firstByToken[side], FirstOrdinals(input[side]))
  BY DEF IndexInv, IndexIsExact, Lists, FirstOrdinals, Indexed
<1>. QED  BY <1>1, EnumeratesMembers

(* The slots selected for only_in_first or only_in_second hold the first   *)
(* items of the tokens the other input lacks.                              *)
LEMMA OnlySlotsAreExact ==
    ASSUME IndexInv, NEW side \in Side, Indexed("first"), Indexed("second")
    PROVE  Values(firstByToken[side], OnlySlots(side)) = OnlyOrdinals(input[side], input[Other(side)])
<1>1. Indexed(side) /\ Indexed(Other(side)) /\ Other(side) \in Side
  BY DEF Side, Other
<1>2. \A t : Knows(Other(side), t) <=> Occurs(t, input[Other(side)])
  BY <1>1, KnowsIffOccurs
<1>3. ASSUME NEW i \in Values(firstByToken[side], OnlySlots(side))
      PROVE  i \in OnlyOrdinals(input[side], input[Other(side)])
  BY <1>1, <1>2, <1>3, SlotsAreFirsts DEF Values, OnlySlots, OnlyOrdinals, SlotToken
<1>4. ASSUME NEW i \in OnlyOrdinals(input[side], input[Other(side)])
      PROVE  i \in Values(firstByToken[side], OnlySlots(side))
  BY <1>1, <1>2, <1>4, SlotsAreFirsts DEF Values, OnlySlots, OnlyOrdinals, SlotToken
<1>. QED  BY <1>3, <1>4

(* The slots selected for common hold the first items of the shared        *)
(* tokens, and there are as many: common_count counts tokens.              *)
LEMMA CommonSlotsAreExact ==
    ASSUME IndexInv, Indexed("first"), Indexed("second")
    PROVE  /\ Values(firstByToken["first"], CommonSlots) = CommonOrdinals(input.first, input.second)
           /\ Cardinality(CommonSlots)
                = Cardinality(CommonOrdinals(input.first, input.second))
<1> DEFINE C == CommonOrdinals(input.first, input.second)
           f == [k \in CommonSlots |-> firstByToken["first"][k]]
<1>1. "first" \in Side /\ "second" \in Side
  BY DEF Side
<1>2. \A t : Knows("second", t) <=> Occurs(t, input["second"])
  BY <1>1, KnowsIffOccurs
<1>3. ASSUME NEW i \in Values(firstByToken["first"], CommonSlots) PROVE i \in C
  BY <1>1, <1>2, <1>3, SlotsAreFirsts DEF Values, CommonSlots, CommonOrdinals, SlotToken
<1>4. ASSUME NEW i \in C PROVE i \in Values(firstByToken["first"], CommonSlots)
  BY <1>1, <1>2, <1>4, SlotsAreFirsts DEF Values, CommonSlots, CommonOrdinals, SlotToken
<1>5. Values(firstByToken["first"], CommonSlots) = C
  BY <1>3, <1>4
<1>6. IsFiniteSet(CommonSlots)
  <2>1. Len(firstByToken["first"]) \in Nat
    BY <1>1, SlotsAscend
  <2>2. IsFiniteSet(1..Len(firstByToken["first"]))
    BY <2>1, FS_Interval
  <2>. QED  BY <2>2, FS_Subset DEF CommonSlots
<1>7. f \in Bijection(CommonSlots, C)
  <2>1. \A k, l \in CommonSlots : f[k] = f[l] => k = l
    BY <1>1, SlotsAscend DEF CommonSlots
  <2>2. f \in [CommonSlots -> C] /\ \A i \in C : \E k \in CommonSlots : f[k] = i
    BY <1>5 DEF Values
  <2> HIDE DEF f, C
  <2>3. DOMAIN f = CommonSlots
    BY <2>2
  <2>. QED  BY <2>1, <2>2, <2>3 DEF Bijection, Injection, Surjection, IsInjective
<1>8. Cardinality(C) = Cardinality(CommonSlots)
  <2> HIDE DEF f, C
  <2>. QED  BY <1>6, <1>7, FS_Bijection DEF ExistsBijection
<1>. QED  BY <1>5, <1>8

-----------------------------------------------------------------------------
(* Where the call is determines what its sections hold. *)
SelectingOnly(side, P) ==
    Selecting(only[side], firstByToken[side], OnlySlots(side), P, config.preserve_order)

SelectingCommon(P) ==
    Selecting(common, firstByToken["first"], CommonSlots, P, config.preserve_order)

SelectionInv ==
    /\ phase \in {"index_second", "only_first", "only_second", "common"} =>
          config.operation = "compare" /\ Indexed("first")
    /\ phase \in {"only_first", "only_second", "common"} => Indexed("second")
    /\ phase \in {"index_first", "index_second"} => only["first"] = <<>>
    /\ phase \in {"index_first", "index_second", "only_first"} => only["second"] = <<>>
    /\ phase \notin {"common", "returned"} => common = <<>>
    /\ phase = "only_first" => SelectingOnly("first", pending)
    /\ phase \in {"only_second", "common"} => SelectingOnly("first", {})
    /\ phase = "only_second" => SelectingOnly("second", pending)
    /\ phase = "common" => SelectingOnly("second", {}) /\ SelectingCommon(pending)

(* No step of the backend breaks SelectionInv. *)
LEMMA SelectionKept ==
    ASSUME IndexInv, SelectionInv, [Next]_vars
    PROVE  SelectionInv'
<1> USE DEF call, indexes, sections
<1>1. ASSUME UNCHANGED <<call, indexes>>
      PROVE  /\ CommonSlots' = CommonSlots
             /\ OnlySlots("first")' = OnlySlots("first")
             /\ OnlySlots("second")' = OnlySlots("second")
             /\ Indexed("first")' <=> Indexed("first")
             /\ Indexed("second")' <=> Indexed("second")
  BY <1>1 DEF CommonSlots, OnlySlots, Knows, SlotToken, Indexed
<1>2. /\ "first" \in Side /\ "second" \in Side
      /\ CommonSlots \in SUBSET (1..Len(firstByToken["first"]))
      /\ \A side \in Side : OnlySlots(side) \in SUBSET (1..Len(firstByToken[side]))
      /\ only \in [Side -> Seq(Nat)]
  BY DEF Side, CommonSlots, OnlySlots, IndexInv, TypeOK
<1>3. ASSUME NEW side \in Side, IndexNewToken(side) \/ IndexKnownToken(side)
      PROVE  SelectionInv'
  <2>1. /\ phase' = phase /\ config' = config /\ only' = only /\ common' = common
        /\ phase = IndexPhase(side) /\ phase \in {"index_first", "index_second"}
    BY <1>3 DEF IndexNewToken, IndexKnownToken, IndexPhase
  <2>2. phase = "index_second" => Indexed("first")'
    BY <1>2, <1>3 DEF SelectionInv, Indexed, IndexNewToken, IndexKnownToken, IndexPhase,
       Side, IndexInv, TypeOK
  <2>. QED  BY <2>1, <2>2 DEF SelectionInv
<1>4. CASE FinishFirst
  BY <1>1, <1>4 DEF FinishFirst, SelectionInv, Indexed
<1>5. CASE FinishSecond
  <2>1. /\ phase = "index_second" /\ phase' = "only_first"
        /\ UNCHANGED <<call, indexes, only, common>>
        /\ pending' = OnlySlots("first")
        /\ Indexed("second")
    BY <1>5 DEF FinishSecond, Indexed
  <2>2. SelectingOnly("first", pending)'
    BY <1>1, <2>1, SelectNone DEF SelectingOnly, SelectionInv
  <2>. QED  BY <1>1, <2>1, <2>2 DEF SelectionInv
<1>6. ASSUME NEW side \in Side, NEW k \in pending, FirstValue(side, k)
      PROVE  SelectionInv'
  <2>1. /\ UNCHANGED <<call, indexes, phase, common>>
        /\ phase = OnlyPhase(side)
        /\ pending' = pending \ {k}
        /\ only'[side] = Append(only[side], firstByToken[side][k])
        /\ \A s \in Side \ {side} : only'[s] = only[s]
        /\ config.preserve_order => \A l \in pending : k <= l
    BY <1>2, <1>6 DEF FirstValue, NextSlot
  <2>2. SelectingOnly(side, pending)
    BY <2>1 DEF SelectionInv, OnlyPhase, Side
  <2>3. SelectingOnly(side, pending)'
    <3>1. Selecting(Append(only[side], firstByToken[side][k]), firstByToken[side],
                    OnlySlots(side), pending \ {k}, config.preserve_order)
      BY <1>2, <2>1, <2>2, SelectOne DEF SelectingOnly
    <3>2. OnlySlots(side)' = OnlySlots(side)
      BY <1>1, <2>1 DEF Side
    <3>. QED  BY <2>1, <3>1, <3>2 DEF SelectingOnly
  <2>4. CASE side = "first"
    BY <1>1, <2>1, <2>3, <2>4, <1>2 DEF SelectionInv, OnlyPhase
  <2>5. CASE side = "second"
    <3>1. SelectingOnly("first", {})'
      BY <1>1, <1>2, <2>1, <2>5 DEF SelectionInv, SelectingOnly, OnlyPhase
    <3>. QED  BY <1>1, <2>1, <2>3, <2>5, <3>1 DEF SelectionInv, OnlyPhase
  <2>. QED  BY <2>4, <2>5 DEF Side
<1>7. ASSUME NEW k \in pending, FirstCommonValue(k)
      PROVE  SelectionInv'
  <2>1. /\ UNCHANGED <<call, indexes, phase, only>>
        /\ phase = "common"
        /\ pending' = pending \ {k}
        /\ common' = Append(common, firstByToken["first"][k])
        /\ config.preserve_order => \A l \in pending : k <= l
    BY <1>7 DEF FirstCommonValue, NextSlot
  <2>2. SelectingCommon(pending)'
    BY <1>1, <1>2, <2>1, SelectOne DEF SelectingCommon, SelectionInv
  <2>3. SelectingOnly("first", {})' /\ SelectingOnly("second", {})'
    BY <1>1, <2>1 DEF SelectionInv, SelectingOnly
  <2>. QED  BY <1>1, <2>1, <2>2, <2>3 DEF SelectionInv
<1>8. ASSUME NEW side \in Side, FinishOnly(side)
      PROVE  SelectionInv'
  <2>1. /\ UNCHANGED <<call, indexes, only, common>>
        /\ pending = {} /\ phase = OnlyPhase(side)
    BY <1>8 DEF FinishOnly
  <2>2. CASE side = "first"
    <3>1. phase = "only_first" /\ phase' = "only_second" /\ pending' = OnlySlots("second")
      BY <1>8, <2>2 DEF FinishOnly, OnlyPhase
    <3>2. SelectingOnly("first", {})'
      BY <1>1, <2>1, <3>1 DEF SelectionInv, SelectingOnly
    <3>3. SelectingOnly("second", pending)'
      BY <1>1, <2>1, <3>1, SelectNone DEF SelectionInv, SelectingOnly
    <3>. QED  BY <1>1, <2>1, <3>1, <3>2, <3>3 DEF SelectionInv
  <2>3. CASE side = "second"
    <3>1. phase = "only_second" /\ phase' = "common" /\ pending' = CommonSlots
      BY <1>8, <2>3 DEF FinishOnly, OnlyPhase
    <3>2. SelectingOnly("first", {})' /\ SelectingOnly("second", {})'
      BY <1>1, <2>1, <3>1 DEF SelectionInv, SelectingOnly
    <3>3. SelectingCommon(pending)'
      BY <1>1, <2>1, <3>1, SelectNone DEF SelectionInv, SelectingCommon
    <3>. QED  BY <1>1, <2>1, <3>1, <3>2, <3>3 DEF SelectionInv
  <2>. QED  BY <2>2, <2>3 DEF Side
<1>9. CASE ReturnResult \/ ReturnDuplicates \/ \E side \in Side : SourceRaises(side)
  <2>1. /\ phase' \in {"returned", "raised"}
        /\ UNCHANGED <<call, indexes, sections>>
        /\ phase' = "raised" => phase \in {"index_first", "index_second"}
    BY <1>9 DEF ReturnResult, ReturnDuplicates, SourceRaises, IndexPhase
  <2>. QED  BY <2>1 DEF SelectionInv
<1>10. CASE UNCHANGED vars
  <2>1. UNCHANGED <<call, indexes, sections, phase>>
    BY <1>10 DEF vars
  <2>2. /\ \A side : UNCHANGED <<only[side], firstByToken[side]>>
        /\ SelectingOnly("first", {})' <=> SelectingOnly("first", {})
        /\ SelectingOnly("second", {})' <=> SelectingOnly("second", {})
        /\ SelectingOnly("first", pending)' <=> SelectingOnly("first", pending)
        /\ SelectingOnly("second", pending)' <=> SelectingOnly("second", pending)
        /\ SelectingCommon(pending)' <=> SelectingCommon(pending)
    BY <1>1, <2>1 DEF SelectingOnly, SelectingCommon
  <2>. QED  BY <1>1, <2>1, <2>2 DEF SelectionInv
<1>. QED  BY <1>3, <1>4, <1>5, <1>6, <1>7, <1>8, <1>9, <1>10
          DEF Next, Progress, Index, Select

-----------------------------------------------------------------------------
(* The contract's copy of the vocabulary of Comparison is the vocabulary.  *)
LEMMA SameVocabulary ==
    /\ \A q, S, ordered : Contract!Lists(q, S, ordered) <=> Lists(q, S, ordered)
    /\ \A s : /\ Contract!FirstOrdinals(s) = FirstOrdinals(s)
              /\ Contract!RepeatOrdinals(s) = RepeatOrdinals(s)
    /\ \A s, o : /\ Contract!OnlyOrdinals(s, o) = OnlyOrdinals(s, o)
                 /\ Contract!CommonOrdinals(s, o) = CommonOrdinals(s, o)
    /\ \A S : Contract!Cardinality(S) = Cardinality(S)
    /\ Contract!Side = Side
    /\ \A side : Contract!Other(side) = Other(side)
<1>1. \A q, S : Contract!Enumerates(q, S) <=> Enumerates(q, S)
  BY DEF Contract!Enumerates, Enumerates, Contract!Bijection, Bijection,
         Contract!Injection, Injection, Contract!Surjection, Surjection,
         Contract!IsInjective, IsInjective
<1>2. \A q : Contract!Ascending(q) <=> Ascending(q)
  BY DEF Contract!Ascending, Ascending
<1>3. \A s : /\ Contract!FirstOrdinals(s) = FirstOrdinals(s)
             /\ Contract!RepeatOrdinals(s) = RepeatOrdinals(s)
  BY DEF Contract!FirstOrdinals, FirstOrdinals, Contract!RepeatOrdinals, RepeatOrdinals,
         Contract!IsFirst, IsFirst
<1>4. \A t, s : Contract!Occurs(t, s) <=> Occurs(t, s)
  BY DEF Contract!Occurs, Occurs
<1>5. \A s, o : /\ Contract!OnlyOrdinals(s, o) = OnlyOrdinals(s, o)
                /\ Contract!CommonOrdinals(s, o) = CommonOrdinals(s, o)
  BY <1>3, <1>4 DEF Contract!OnlyOrdinals, OnlyOrdinals, Contract!CommonOrdinals, CommonOrdinals
<1>6. \A S : Contract!Cardinality(S) = Cardinality(S)
  BY DEF Contract!Cardinality, Cardinality
<1>. QED  BY <1>1, <1>2, <1>3, <1>5, <1>6
          DEF Contract!Lists, Lists, Contract!Side, Side, Contract!Other, Other

(* When the last section is complete, what ReturnResult hands out is an    *)
(* answer of the contract.                                                 *)
LEMMA ResultIsExact ==
    ASSUME IndexInv, SelectionInv, ReturnResult
    PROVE  Contract!IsAnswer(answer')
<1>1. /\ "first" \in Side /\ "second" \in Side
      /\ config.operation = "compare" /\ phase = "common"
      /\ Indexed("first") /\ Indexed("second") /\ \A side \in Side : Indexed(side)
  BY DEF ReturnResult, SelectionInv, Side
<1>2. \A side \in Side :
         /\ only[side] \in Seq(Nat)
         /\ Lists(only[side], OnlyOrdinals(input[side], input[Other(side)]),
                  config.preserve_order)
  BY <1>1, SelectAll, OnlySlotsAreExact DEF SelectionInv, SelectingOnly, Side
<1>3. \A side \in Side :
         Lists(firstByToken[side], FirstOrdinals(input[side]), TRUE)
  BY <1>1 DEF IndexInv, IndexIsExact, Indexed, FirstOrdinals
<1>4. ASSUME config.include_duplicates, NEW side \in Side
      PROVE  /\ duplicates[side] \in Seq(Nat)
             /\ Lists(duplicates[side], RepeatOrdinals(input[side]), TRUE)
  BY <1>1, <1>4 DEF IndexInv, IndexIsExact, TypeOK, CollectDuplicates, Indexed, RepeatOrdinals
<1>5. ASSUME config.include_common
      PROVE  Lists(common, CommonOrdinals(input.first, input.second), config.preserve_order)
  BY <1>1, <1>5, SelectAll, CommonSlotsAreExact DEF ReturnResult, SelectionInv, SelectingCommon
<1>6. Stats = Contract!ExpectedStats
  <2>1. \A side \in Side : itemCount[side] = Len(input[side])
    BY <1>1 DEF Indexed
  <2>2. itemCount = [side \in Side |-> Len(input[side])]
    BY <2>1 DEF IndexInv, TypeOK
  <2>3. \A side \in Side :
           Len(firstByToken[side]) = Cardinality(FirstOrdinals(input[side]))
    BY <1>3, EnumeratesCardinality DEF IndexInv, TypeOK, Lists
  <2>4. \A side \in Side :
           Len(only[side]) = Cardinality(OnlyOrdinals(input[side], input[Other(side)]))
    BY <1>2, EnumeratesCardinality DEF Lists
  <2>5. ASSUME config.include_duplicates, NEW side \in Side
        PROVE  Len(duplicates[side]) = Cardinality(RepeatOrdinals(input[side]))
    BY <1>4, <2>5, EnumeratesCardinality DEF Lists
  <2>6. Cardinality(CommonSlots) = Cardinality(CommonOrdinals(input.first, input.second))
    BY <1>1, CommonSlotsAreExact
  <2>. QED  BY <2>2, <2>3, <2>4, <2>5, <2>6, SameVocabulary DEF Stats, Contract!ExpectedStats
<1>7. ASSUME ~config.include_duplicates, NEW side \in Side
      PROVE  duplicates[side] = None
  BY <1>1, <1>7 DEF IndexInv, TypeOK, CollectDuplicates
<1>8. /\ answer'.only = only
      /\ answer'.common = IF config.include_common THEN common ELSE None
      /\ answer'.duplicates = duplicates
      /\ config.include_stats => answer'.stats = Stats
  BY DEF ReturnResult
<1>9. Contract!SectionsAreExact(answer')
  <2>1. \A side \in Side : config.include_duplicates =>
           Lists(duplicates[side], RepeatOrdinals(input[side]), config.preserve_order)
    BY <1>4 DEF Lists
  <2>. QED  BY <1>2, <1>5, <1>7, <1>8, <2>1, SameVocabulary DEF Contract!SectionsAreExact
<1>. QED  BY <1>1, <1>6, <1>8, <1>9 DEF Contract!IsAnswer

(* What duplicates_memory returns is the contract's answer. *)
LEMMA DuplicatesAreExact ==
    ASSUME IndexInv, ReturnDuplicates
    PROVE  Contract!IsAnswer(answer')
<1>1. /\ "first" \in Side /\ itemCount["first"] = Len(input["first"])
      /\ CollectDuplicates /\ config.operation = "duplicates"
      /\ answer' = duplicates["first"]
  BY DEF ReturnDuplicates, Side, CollectDuplicates
<1>2. Lists(duplicates["first"], RepeatOrdinals(input["first"]), TRUE)
  BY <1>1 DEF IndexInv, IndexIsExact, RepeatOrdinals
<1>. QED  BY <1>1, <1>2, SameVocabulary DEF Contract!IsAnswer

(* storage/memory.py implements the contract: for all inputs and options a *)
(* call that returns has exactly the sections and the counts the two token *)
(* sequences determine, in input order if preserve_order asks for it.      *)
THEOREM MemoryImplementsContract == Spec => Implements
<1> DEFINE Inv == IndexInv /\ SelectionInv
<1>1. Init => Contract!Init /\ SelectionInv
  BY ConfigsAreOptions, SameVocabulary
     DEF Init, Contract!Init, Contract!Config, Outcome, SelectionInv, Side
<1>2. Inv /\ [Next]_vars => SelectionInv'
  BY SelectionKept
<1>3. Inv /\ [Next]_vars => [Contract!Next]_Contract!vars
  <2> SUFFICES ASSUME Inv, [Next]_vars PROVE [Contract!Next]_Contract!vars
    OBVIOUS
  <2> USE DEF Outcome, call, Contract!vars
  <2>1. CASE ReturnResult
    <3>1. Contract!IsAnswer(answer')
      BY <2>1, ResultIsExact
    <3>. QED  BY <2>1, <3>1 DEF ReturnResult, Contract!Next, Contract!Return
  <2>2. CASE ReturnDuplicates
    <3>1. Contract!IsAnswer(answer')
      BY <2>2, DuplicatesAreExact
    <3>. QED  BY <2>2, <3>1 DEF ReturnDuplicates, Contract!Next, Contract!Return
  <2>3. ASSUME NEW side \in Side, SourceRaises(side) PROVE Contract!Raise
    BY <2>3 DEF SourceRaises, IndexPhase, Contract!Raise
  <2>4. CASE Index \/ Select \/ FinishFirst \/ FinishSecond
    BY <2>4 DEF Index, Select, FinishFirst, FinishSecond, IndexNewToken, IndexKnownToken,
       FirstValue, FirstCommonValue, FinishOnly, IndexPhase, OnlyPhase
  <2>5. CASE UNCHANGED vars
    BY <2>5 DEF vars
  <2>. QED  BY <2>1, <2>2, <2>3, <2>4, <2>5 DEF Next, Progress, Contract!Next
<1>4. IndexInv /\ TypeOK' /\ [Next]_vars => IndexInv'
  BY IndexInvKept
<1>5. Init /\ TypeOK => IndexInv
  BY IndexInvInitially
<1>. QED  BY <1>1, <1>2, <1>3, <1>4, <1>5, TypeCorrect, PTL
          DEF Spec, Implements, Contract!Spec
===============================================================================
