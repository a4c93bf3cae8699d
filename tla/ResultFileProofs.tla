--------------------------- MODULE ResultFileProofs ---------------------------
(***************************************************************************)
(* What files of result rows hold.  First the lemmas that the proofs of    *)
(* the disk backends share: lists in order, the sections of a list of      *)
(* rows, the rows of one token.  Then, for any number of calls that write  *)
(* one output path, of every kind and with every result, interleaved,      *)
(* failing and killed: what a temporary file holds, and what the path      *)
(* holds.                                                                  *)
(***************************************************************************)
EXTENDS AtomicOutput, ResultRows, FiniteSetTheorems, SequenceTheorems, TLAPS

(* Different numbers on the members of R, and how many members have a *)
(* smaller one.                                                       *)
Numbers(R, f) == f \in [R -> Int] /\ \A i, j \in R : f[i] = f[j] => i = j

Rank(R, f, i) == Cardinality({j \in R : f[j] < f[i]})

(* The ranks are 0, 1, ..., each the rank of one member. *)
LEMMA RanksAreNumbers ==
    ASSUME NEW R, IsFiniteSet(R), NEW f, Numbers(R, f)
    PROVE  /\ Cardinality(R) \in Nat
           /\ \A i \in R : Rank(R, f, i) \in 0..(Cardinality(R) - 1)
           /\ \A i, j \in R : f[i] < f[j] <=> Rank(R, f, i) < Rank(R, f, j)
           /\ \A i, j \in R : Rank(R, f, i) = Rank(R, f, j) => i = j
           /\ \A r \in 0..(Cardinality(R) - 1) : \E i \in R : Rank(R, f, i) = r
<1> DEFINE n == Cardinality(R)
           Below(i) == {j \in R : f[j] < f[i]}
           rank(i) == Cardinality(Below(i))
<1>1. n \in Nat
  BY FS_CardinalityType
<1>2. (\A i \in R : f[i] \in Int) /\ (\A i, j \in R : f[i] = f[j] => i = j)
  BY DEF Numbers
<1>3. \A i \in R : IsFiniteSet(Below(i)) /\ rank(i) \in Nat
  <2> TAKE i \in R
  <2>1. Below(i) \in SUBSET R
    OBVIOUS
  <2>. QED  BY <2>1, FS_Subset, FS_CardinalityType
<1>4. \A i \in R : rank(i) \in 0..(n - 1)
  <2> TAKE i \in R
  <2>1. Below(i) \subseteq R \ {i}
    BY <1>2
  <2>2. IsFiniteSet(R \ {i}) /\ Cardinality(R \ {i}) = n - 1
    BY FS_RemoveElement
  <2>3. rank(i) <= Cardinality(R \ {i})
    BY <2>1, <2>2, FS_Subset
  <2>4. rank(i) \in Nat
    BY <1>3
  <2> HIDE DEF rank, n
  <2>. QED  BY <1>1, <2>2, <2>3, <2>4
<1>5. \A i, j \in R : f[i] < f[j] => rank(i) < rank(j)
  <2> SUFFICES ASSUME NEW i \in R, NEW j \in R, f[i] < f[j] PROVE rank(i) < rank(j)
    OBVIOUS
  <2> DEFINE S == Below(i) \cup {i}
  <2>1. S \subseteq Below(j) /\ i \notin Below(i)
    BY <1>2
  <2>2. IsFiniteSet(S) /\ Cardinality(S) = rank(i) + 1
    BY <2>1, <1>3, FS_AddElement
  <2>3. Cardinality(S) <= rank(j)
    <3> HIDE DEF S, Below
    <3>. QED  BY <2>1, <1>3, FS_Subset
  <2>4. rank(i) \in Nat /\ rank(j) \in Nat
    BY <1>3
  <2> HIDE DEF rank, S
  <2>. QED  BY <2>2, <2>3, <2>4
<1> HIDE DEF rank, Below
<1>6. \A i, j \in R : rank(i) = rank(j) => i = j
  <2> SUFFICES ASSUME NEW i \in R, NEW j \in R, rank(i) = rank(j), i # j PROVE FALSE
    OBVIOUS
  <2>1. f[i] < f[j] \/ f[j] < f[i]
    BY <1>2
  <2>2. rank(i) \in Nat /\ (rank(i) < rank(j) \/ rank(j) < rank(i))
    BY <1>3, <1>5, <2>1
  <2>. QED  BY <2>2
<1>7. \A i, j \in R : rank(i) < rank(j) => f[i] < f[j]
  <2> SUFFICES ASSUME NEW i \in R, NEW j \in R, rank(i) < rank(j) PROVE f[i] < f[j]
    OBVIOUS
  <2>1. rank(i) \in Nat /\ rank(j) \in Nat
    BY <1>3
  <2>2. ~(f[j] < f[i]) /\ i # j
    BY <1>5, <2>1
  <2>. QED  BY <1>2, <2>2
<1>8. \A r \in 0..(n - 1) : \E i \in R : rank(i) = r
  <2> DEFINE g == [i \in R |-> rank(i)]
             T == 0..(n - 1)
  <2>1. IsFiniteSet(T) /\ Cardinality(T) = n
    <3> HIDE DEF n
    <3>1. n - 1 \in Int /\ n \in Nat
      BY <1>1
    <3>2. /\ IsFiniteSet(0..(n - 1))
          /\ Cardinality(0..(n - 1)) = IF 0 > n - 1 THEN 0 ELSE n - 1 - 0 + 1
      BY <3>1, FS_Interval
    <3>. QED  BY <3>1, <3>2
  <2>2. g \in Injection(R, T)
    BY <1>4, <1>6 DEF Injection, IsInjective
  <2>3. g \in Surjection(R, T)
    BY <2>1, <2>2, FS_Injection
  <2>4. \A r \in T : \E i \in R : g[i] = r
    BY <2>3 DEF Surjection
  <2>. QED  BY <2>4
<1>9. \A i : Rank(R, f, i) = rank(i)
  BY DEF Rank, rank, Below
<1> HIDE DEF n
<1>. QED  BY <1>1, <1>4, <1>5, <1>6, <1>7, <1>8, <1>9 DEF n

(* A function on the first numbers is a sequence. *)
LEMMA FunctionIsList ==
    ASSUME NEW n \in Nat, NEW S, NEW q \in [1..n -> S]
    PROVE  q \in Seq(S) /\ Len(q) = n
<1>1. q \in UNION {[1..m -> S] : m \in Nat}
  OBVIOUS
<1>2. q \in Seq(S)
  BY <1>1, SeqDef
<1>3. Len(q) \in Nat /\ DOMAIN q = 1..Len(q) /\ DOMAIN q = 1..n
  BY <1>2, LenProperties
<1>4. Len(q) = n
  BY <1>3
<1>. QED  BY <1>2, <1>4

(* When it takes every member of a set once it lists the set. *)
LEMMA OneToOneLists ==
    ASSUME NEW n \in Nat, NEW S, NEW q \in [1..n -> S],
           \A k, l \in 1..n : q[k] = q[l] => k = l,
           \A i \in S : \E k \in 1..n : q[k] = i
    PROVE  q \in Seq(S) /\ Len(q) = n /\ Enumerates(q, S)
<1>1. q \in Seq(S) /\ Len(q) = n
  BY FunctionIsList
<1>2. q \in Bijection(1..n, S)
  BY DEF Bijection, Injection, Surjection, IsInjective
<1>. QED  BY <1>1, <1>2 DEF Enumerates

(* A list that has each member at its rank lists them by their numbers. *)
LEMMA ByRank ==
    ASSUME NEW R, IsFiniteSet(R), NEW f, Numbers(R, f),
           NEW q \in [1..Cardinality(R) -> R],
           \A k \in 1..Cardinality(R) : Rank(R, f, q[k]) = k - 1
    PROVE  /\ Len(q) = Cardinality(R) /\ q \in Seq(R) /\ Enumerates(q, R)
           /\ \A k, l \in 1..Len(q) : k < l => f[q[k]] < f[q[l]]
<1> DEFINE n == Cardinality(R)
           rank(i) == Rank(R, f, i)
<1>1. /\ n \in Nat
      /\ \A i \in R : rank(i) \in 0..(n - 1)
      /\ \A i, j \in R : f[i] < f[j] <=> rank(i) < rank(j)
      /\ \A i, j \in R : rank(i) = rank(j) => i = j
  BY RanksAreNumbers
<1>2. q \in [1..n -> R] /\ \A k \in 1..n : q[k] \in R /\ rank(q[k]) = k - 1
  OBVIOUS
<1> HIDE DEF n, rank
<1>6. \A k, l \in 1..n : q[k] = q[l] => k = l
  <2> SUFFICES ASSUME NEW k \in 1..n, NEW l \in 1..n, q[k] = q[l] PROVE k = l
    OBVIOUS
  <2>1. k - 1 = l - 1
    BY <1>2
  <2>. QED  BY <2>1, <1>1
<1>7. \A i \in R : \E k \in 1..n : q[k] = i
  <2> TAKE i \in R
  <2>1. rank(i) + 1 \in 1..n /\ (rank(i) + 1) - 1 = rank(i)
    BY <1>1
  <2>2. q[rank(i) + 1] \in R /\ rank(q[rank(i) + 1]) = rank(i)
    BY <2>1, <1>2
  <2>3. q[rank(i) + 1] = i
    BY <2>2, <1>1
  <2>. QED  BY <2>1, <2>3
<1>8. \A k, l \in 1..n : k < l => f[q[k]] < f[q[l]]
  <2> SUFFICES ASSUME NEW k \in 1..n, NEW l \in 1..n, k < l PROVE f[q[k]] < f[q[l]]
    OBVIOUS
  <2>1. rank(q[k]) = k - 1 /\ rank(q[l]) = l - 1 /\ q[k] \in R /\ q[l] \in R
    BY <1>2
  <2>2. rank(q[k]) < rank(q[l])
    BY <1>1, <2>1
  <2>. QED  BY <2>1, <2>2, <1>1
<1>9. Len(q) = n /\ q \in Seq(R) /\ Enumerates(q, R)
  BY <1>1, <1>2, <1>6, <1>7, OneToOneLists
<1>. QED  BY <1>8, <1>9 DEF n

(* Every rank is taken by a member. *)
LEMMA RanksAreTaken ==
    ASSUME NEW R, IsFiniteSet(R), NEW f, Numbers(R, f)
    PROVE  /\ Cardinality(R) \in Nat
           /\ \A r \in 0..(Cardinality(R) - 1) : \E i \in R : Rank(R, f, i) = r
  BY RanksAreNumbers

(* The members of a finite set of numbers, each once and in order. *)
LEMMA InOrderLists ==
    ASSUME NEW S, IsFiniteSet(S), S \subseteq Nat
    PROVE  /\ Lists(InOrder(S), S, TRUE)
           /\ Len(InOrder(S)) = Cardinality(S)
           /\ InOrder(S) \in Seq(S)
<1>0. ASSUME NEW g, Numbers(S, g)
      PROVE  /\ Cardinality(S) \in Nat
             /\ \A r \in 0..(Cardinality(S) - 1) : \E i \in S : Rank(S, g, i) = r
  BY <1>0, RanksAreTaken
<1> PICK f : f = [i \in S |-> i]
  OBVIOUS
<1> DEFINE q == InOrder(S)
           n == Cardinality(S)
           below(i) == Cardinality({j \in S : j < i})
           rank(i) == Rank(S, f, i)
<1>1. Numbers(S, f)
  BY DEF Numbers
<1>2. \A i \in S : rank(i) = below(i)
  <2> TAKE i \in S
  <2>1. {j \in S : f[j] < f[i]} = {j \in S : j < i}
    OBVIOUS
  <2>. QED  BY <2>1 DEF Rank
<1>3. q = [k \in 1..n |-> CHOOSE i \in S : below(i) = k - 1]
  BY DEF InOrder
<1>4. n \in Nat /\ \A r \in 0..(n - 1) : \E i \in S : rank(i) = r
  <2>1. /\ Cardinality(S) \in Nat
        /\ \A r \in 0..(Cardinality(S) - 1) : \E i \in S : Rank(S, f, i) = r
    BY <1>0, <1>1
  <2>. QED  BY <2>1
<1>5. \A i \in S : f[i] = i
  OBVIOUS
<1> HIDE DEF q, n, below, rank
<1>6. \A k \in 1..n : q[k] \in S /\ rank(q[k]) = k - 1
  <2> TAKE k \in 1..n
  <2>1. k - 1 \in 0..(n - 1)
    BY <1>4
  <2>2. \E i \in S : below(i) = k - 1
    BY <2>1, <1>2, <1>4
  <2>3. q[k] \in S /\ below(q[k]) = k - 1
    BY <2>2, <1>3
  <2>. QED  BY <2>3, <1>2
<1>7. q \in [1..n -> S]
  BY <1>3, <1>6
<1>8. /\ Len(q) = Cardinality(S) /\ q \in Seq(S) /\ Enumerates(q, S)
      /\ \A k, l \in 1..Len(q) : k < l => f[q[k]] < f[q[l]]
  BY <1>1, <1>6, <1>7, ByRank DEF n, rank
<1>9. \A k \in 1..Len(q) : q[k] \in S
  BY <1>8, ElementOfSeq
<1>10. Ascending(q)
  BY <1>5, <1>8, <1>9 DEF Ascending
<1>. QED  BY <1>8, <1>10 DEF Lists, q

(* Sorting a list of different numbers keeps what it lists. *)
LEMMA ByOrdinalLists ==
    ASSUME NEW S \in SUBSET Nat, NEW ordinals \in Seq(S), Enumerates(ordinals, S)
    PROVE  Lists(ByOrdinal(ordinals), S, TRUE)
<1>0. ASSUME NEW R, IsFiniteSet(R), NEW f, Numbers(R, f)
      PROVE  /\ Cardinality(R) \in Nat
             /\ \A r \in 0..(Cardinality(R) - 1) : \E i \in R : Rank(R, f, i) = r
  BY <1>0, RanksAreTaken
<1> DEFINE n == Len(ordinals)
           places == 1..n
           before(j, k) == \/ ordinals[j] < ordinals[k]
                           \/ ordinals[j] = ordinals[k] /\ j < k
           below(k) == Cardinality({j \in places : before(j, k)})
           rank(k) == Rank(places, ordinals, k)
           at == [r \in places |-> CHOOSE k \in places : below(k) = r - 1]
           q == ByOrdinal(ordinals)
<1>1. /\ n \in Nat /\ \A k \in places : ordinals[k] \in S /\ ordinals[k] \in Nat
      /\ ordinals \in [places -> Int]
  <2>1. n \in Nat /\ \A k \in places : ordinals[k] \in S /\ ordinals[k] \in Nat
    BY LenProperties, ElementOfSeq
  <2>. QED  BY <2>1, LenProperties
<1>2. /\ \A k, l \in places : ordinals[k] = ordinals[l] => k = l
      /\ \A i \in S : \E k \in places : ordinals[k] = i
  BY DEF Enumerates, Bijection, Injection, Surjection, IsInjective
<1>3. IsFiniteSet(places) /\ Cardinality(places) = n
  <2> HIDE DEF n
  <2>1. IsFiniteSet(1..n) /\ Cardinality(1..n) = IF 1 > n THEN 0 ELSE n - 1 + 1
    BY <1>1, FS_Interval
  <2>. QED  BY <1>1, <2>1
<1>4. Numbers(places, ordinals)
  <2> HIDE DEF places
  <2>. QED  BY <1>1, <1>2 DEF Numbers
<1>5. \A k \in places : rank(k) = below(k)
  <2> TAKE k \in places
  <2>1. {j \in places : ordinals[j] < ordinals[k]} = {j \in places : before(j, k)}
    <3>1. \A j \in places : ordinals[j] < ordinals[k] <=> before(j, k)
      BY <1>1, <1>2
    <3> HIDE DEF places, before
    <3>. QED  BY <3>1
  <2>. QED  BY <2>1 DEF Rank
<1>6. q = [r \in places |-> ordinals[CHOOSE k \in places : below(k) = r - 1]]
  BY DEF ByOrdinal
<1>7. \A r \in 0..(n - 1) : \E k \in places : rank(k) = r
  <2>1. \A r \in 0..(Cardinality(places) - 1) : \E k \in places : Rank(places, ordinals, k) = r
    <3> HIDE DEF places
    <3>. QED  BY <1>0, <1>3, <1>4
  <2>. QED  BY <1>3, <2>1
<1> HIDE DEF q, below, rank
<1>8. q = [r \in places |-> ordinals[at[r]]]
  BY <1>6
<1>9. \A r \in places : at[r] \in places /\ rank(at[r]) = r - 1
  <2> TAKE r \in places
  <2>1. r - 1 \in 0..(n - 1)
    BY <1>1
  <2>2. \E k \in places : below(k) = r - 1
    BY <1>5, <1>7, <2>1
  <2>. QED  BY <1>5, <2>2
<1> HIDE DEF at
<1>10. at \in [places -> places]
  BY <1>9 DEF at
<1>11. /\ Len(at) = n /\ at \in Seq(places) /\ Enumerates(at, places)
       /\ \A k, l \in 1..Len(at) : k < l => ordinals[at[k]] < ordinals[at[l]]
  <2>1. at \in [1..Cardinality(places) -> places]
    BY <1>3, <1>10
  <2>2. \A k \in 1..Cardinality(places) : Rank(places, ordinals, at[k]) = k - 1
    BY <1>3, <1>9 DEF rank
  <2> HIDE DEF places
  <2>. QED  BY <1>3, <1>4, <2>1, <2>2, ByRank
<1>12. \A i \in places : \E k \in 1..n : at[k] = i
  BY <1>11 DEF Enumerates, Bijection, Surjection
<1>13. q \in [1..n -> S]
  BY <1>1, <1>8, <1>10
<1>14. \A k, l \in 1..n : k < l => q[k] < q[l]
  BY <1>8, <1>11
<1>15. \A k, l \in 1..n : q[k] = q[l] => k = l
  <2> SUFFICES ASSUME NEW k \in 1..n, NEW l \in 1..n, q[k] = q[l], k # l PROVE FALSE
    OBVIOUS
  <2>1. q[k] < q[l] \/ q[l] < q[k]
    BY <1>1, <1>14
  <2>2. q[k] \in Nat
    BY <1>13
  <2>. QED  BY <2>1, <2>2
<1>16. \A i \in S : \E k \in 1..n : q[k] = i
  <2> TAKE i \in S
  <2>1. PICK p \in places : ordinals[p] = i
    BY <1>2
  <2>2. PICK k \in 1..n : at[k] = p
    BY <1>12
  <2>. QED  BY <2>1, <2>2, <1>8
<1> HIDE DEF n
<1>17. Len(q) = n /\ Enumerates(q, S)
  BY <1>1, <1>13, <1>15, <1>16, OneToOneLists
<1>. QED  BY <1>14, <1>17 DEF Lists, Ascending, q

-----------------------------------------------------------------------------
(* A row of a result: its section, its side and its ordinal. *)
ResultRow == [section : {"only", "common", "duplicates"}, side : Side, ordinal : Nat]

(* The places of the rows of a section. *)
PlacesOf(rows, name, side) ==
    {k \in 1..Len(rows) : rows[k].section = name /\ rows[k].side = side}

(* A list of rows has the rows of a section that lists S. *)
HasSection(rows, name, side, S, ordered) ==
    /\ \A k \in PlacesOf(rows, name, side) : rows[k].ordinal \in S
    /\ \A i \in S : \E k \in PlacesOf(rows, name, side) : rows[k].ordinal = i
    /\ \A k, l \in PlacesOf(rows, name, side) : rows[k].ordinal = rows[l].ordinal => k = l
    /\ ordered => \A k, l \in PlacesOf(rows, name, side) :
                     k < l => rows[k].ordinal < rows[l].ordinal

(* The rows of an output file read back are the section they hold. *)
LEMMA SectionOfFile ==
    ASSUME NEW rows \in Seq(ResultRow), NEW name, NEW side, NEW S \in SUBSET Nat,
           NEW ordered, HasSection(rows, name, side, S, ordered)
    PROVE  /\ Section(rows, name, side, TRUE) \in Seq(S)
           /\ Lists(Section(rows, name, side, TRUE), S, ordered)
<1> DEFINE places == PlacesOf(rows, name, side)
           at == InOrder(places)
           chosen == EntriesAt(rows, places)
           q == [k \in 1..Len(chosen) |-> chosen[k].ordinal]
           n == Len(at)
<1>1. Section(rows, name, side, TRUE) = q
  BY DEF Section, PlacesOf
<1>2. places \subseteq Nat /\ IsFiniteSet(places) /\ places \subseteq 1..Len(rows)
  <2>1. Len(rows) \in Nat
    BY LenProperties
  <2>2. IsFiniteSet(1..Len(rows))
    BY <2>1, FS_Interval
  <2>. QED  BY <2>1, <2>2, FS_Subset DEF PlacesOf
<1>3. Lists(at, places, TRUE) /\ at \in Seq(places)
  <2> HIDE DEF places
  <2>. QED  BY <1>2, InOrderLists
<1>4. chosen = [k \in 1..n |-> rows[at[k]]]
  BY DEF EntriesAt
<1>5. /\ \A k \in places : rows[k].ordinal \in S
      /\ \A i \in S : \E k \in places : rows[k].ordinal = i
      /\ \A k, l \in places : rows[k].ordinal = rows[l].ordinal => k = l
      /\ ordered => \A k, l \in places : k < l => rows[k].ordinal < rows[l].ordinal
      /\ \A k \in places : rows[k] \in ResultRow
  BY <1>2, ElementOfSeq DEF HasSection
<1> HIDE DEF places, at, chosen, q
<1>6. n \in Nat /\ \A k \in 1..n : at[k] \in places
  BY <1>3, LenProperties, ElementOfSeq
<1>7. /\ \A i \in places : \E k \in 1..n : at[k] = i
      /\ \A k, l \in 1..n : at[k] = at[l] => k = l
      /\ \A k, l \in 1..n : k < l => at[k] < at[l]
  BY <1>3 DEF Lists, Ascending, Enumerates, Bijection, Injection, Surjection, IsInjective
<1> HIDE DEF n
<1>8. Len(chosen) = n
  <2>1. chosen \in [1..n -> ResultRow]
    BY <1>4, <1>5, <1>6
  <2>. QED  BY <1>6, <2>1, FunctionIsList
<1>9. q = [k \in 1..n |-> rows[at[k]].ordinal]
  BY <1>4, <1>8 DEF q
<1>10. q \in [1..n -> S]
  BY <1>5, <1>6, <1>9
<1>11. ASSUME ordered, NEW k \in 1..n, NEW l \in 1..n, k < l PROVE q[k] < q[l]
  <2>1. at[k] < at[l] /\ at[k] \in places /\ at[l] \in places
    BY <1>6, <1>7, <1>11
  <2>. QED  BY <2>1, <1>5, <1>9, <1>11
<1>12. \A k, l \in 1..n : q[k] = q[l] => k = l
  <2> TAKE k, l \in 1..n
  <2>1. at[k] \in places /\ at[l] \in places
    BY <1>6
  <2>. QED  BY <2>1, <1>5, <1>7, <1>9
<1>13. \A i \in S : \E k \in 1..n : q[k] = i
  <2> TAKE i \in S
  <2>1. PICK p \in places : rows[p].ordinal = i
    BY <1>5
  <2>2. PICK k \in 1..n : at[k] = p
    BY <1>7
  <2>. QED  BY <2>1, <2>2, <1>9
<1>14. q \in Seq(S) /\ Len(q) = n /\ Enumerates(q, S)
  BY <1>6, <1>10, <1>12, <1>13, OneToOneLists
<1>15. ordered => Ascending(q)
  BY <1>11, <1>14 DEF Ascending
<1>. QED  BY <1>1, <1>14, <1>15 DEF Lists

(* Materialized, they are sorted by ordinal. *)
LEMMA SectionOfList ==
    ASSUME NEW rows \in Seq(ResultRow), NEW name, NEW side, NEW S \in SUBSET Nat,
           NEW ordered, HasSection(rows, name, side, S, ordered)
    PROVE  Lists(Section(rows, name, side, FALSE), S, TRUE)
<1> DEFINE q == Section(rows, name, side, TRUE)
<1>1. q \in Seq(S) /\ Enumerates(q, S)
  BY SectionOfFile DEF Lists
<1>2. Section(rows, name, side, FALSE) = ByOrdinal(q)
  BY DEF Section
<1> HIDE DEF q
<1>. QED  BY <1>1, <1>2, ByOrdinalLists

(* Where the rows of a section are once the rows of one are appended. *)
LEMMA RowsAppended ==
    ASSUME NEW rows \in Seq(ResultRow), NEW name \in {"only", "common", "duplicates"},
           NEW side \in Side, NEW ordinals \in Seq(Nat)
    PROVE  /\ rows \o Rows(name, side, ordinals) \in Seq(ResultRow)
           /\ Len(Rows(name, side, ordinals)) = Len(ordinals)
           /\ Len(rows \o Rows(name, side, ordinals)) = Len(rows) + Len(ordinals)
           /\ \A k \in 1..Len(rows) : (rows \o Rows(name, side, ordinals))[k] = rows[k]
           /\ \A k \in 1..Len(ordinals) :
                (rows \o Rows(name, side, ordinals))[Len(rows) + k] = Row(name, side, ordinals[k])
<1> DEFINE more == Rows(name, side, ordinals)
           n == Len(ordinals)
<1>1. n \in Nat /\ \A k \in 1..n : ordinals[k] \in Nat
  BY LenProperties, ElementOfSeq
<1>2. more = [k \in 1..n |-> Row(name, side, ordinals[k])]
  BY DEF Rows
<1> HIDE DEF n, more
<1>3. more \in [1..n -> ResultRow]
  BY <1>1, <1>2 DEF ResultRow, Row
<1>4. more \in Seq(ResultRow) /\ Len(more) = n
  BY <1>1, <1>3, FunctionIsList
<1>5. /\ rows \o more \in Seq(ResultRow)
      /\ Len(rows \o more) = Len(rows) + n
      /\ \A k \in 1..(Len(rows) + n) : (rows \o more)[k] =
            IF k <= Len(rows) THEN rows[k] ELSE more[k - Len(rows)]
  BY <1>4, ConcatProperties
<1>6. Len(rows) \in Nat
  BY LenProperties
<1>7. \A k \in 1..Len(rows) : (rows \o more)[k] = rows[k]
  BY <1>1, <1>5, <1>6
<1>8. \A k \in 1..n : (rows \o more)[Len(rows) + k] = Row(name, side, ordinals[k])
  <2> TAKE k \in 1..n
  <2>1. /\ Len(rows) + k \in 1..(Len(rows) + n) /\ ~(Len(rows) + k <= Len(rows))
        /\ (Len(rows) + k) - Len(rows) = k
    BY <1>1, <1>6
  <2>. QED  BY <1>2, <1>5, <2>1
<1>. QED  BY <1>4, <1>5, <1>7, <1>8 DEF n, more

(* Appending rows adds them to their section and keeps the other sections. *)
LEMMA RowsAreAdded ==
    ASSUME NEW rows \in Seq(ResultRow), NEW name \in {"only", "common", "duplicates"},
           NEW side \in Side, NEW ordinals \in Seq(Nat), NEW S, NEW T, NEW ordered \in BOOLEAN
    PROVE  /\ HasSection(rows, name, side, S, ordered) /\ Lists(ordinals, T, ordered)
           /\ S \cap T = {} /\ (ordered => S = {})
           => /\ HasSection(rows \o Rows(name, side, ordinals), name, side, S \cup T, ordered)
              /\ \A m, s, U, o : ~(m = name /\ s = side) /\ HasSection(rows, m, s, U, o)
                   => HasSection(rows \o Rows(name, side, ordinals), m, s, U, o)
<1> DEFINE new == rows \o Rows(name, side, ordinals)
           n == Len(rows)
           o == Len(ordinals)
           old == PlacesOf(rows, name, side)
           places == PlacesOf(new, name, side)
<1>1. /\ new \in Seq(ResultRow) /\ Len(new) = n + o
      /\ \A k \in 1..n : new[k] = rows[k]
      /\ \A k \in 1..o : new[n + k] = Row(name, side, ordinals[k])
  BY RowsAppended
<1>2. n \in Nat /\ o \in Nat
  BY LenProperties
<1> SUFFICES ASSUME HasSection(rows, name, side, S, ordered), Lists(ordinals, T, ordered),
                    S \cap T = {}, ordered => S = {}
             PROVE  /\ HasSection(new, name, side, S \cup T, ordered)
                    /\ \A m, s, U, p : ~(m = name /\ s = side) /\ HasSection(rows, m, s, U, p)
                         => HasSection(new, m, s, U, p)
  OBVIOUS
<1>3. /\ \A k \in 1..o : ordinals[k] \in T
      /\ \A i \in T : \E k \in 1..o : ordinals[k] = i
      /\ \A k, l \in 1..o : ordinals[k] = ordinals[l] => k = l
      /\ ordered => \A k, l \in 1..o : k < l => ordinals[k] < ordinals[l]
  <2>1. Enumerates(ordinals, T) /\ (ordered => Ascending(ordinals))
    BY DEF Lists
  <2>2. ordered => \A k, l \in 1..o : k < l => ordinals[k] < ordinals[l]
    BY <2>1 DEF Ascending
  <2>3. ordinals \in Bijection(1..o, T)
    BY <2>1 DEF Enumerates
  <2>. QED  BY <2>2, <2>3 DEF Bijection, Injection, Surjection, IsInjective
<1> HIDE DEF new, n, o
<1>5. \A k \in 1..(n + o) : IF k <= n THEN k \in 1..n ELSE k - n \in 1..o /\ k = n + (k - n)
  BY <1>2
<1>6. \A k \in 1..o : /\ new[n + k].section = name /\ new[n + k].side = side
                      /\ new[n + k].ordinal = ordinals[k]
  <2> TAKE k \in 1..o
  <2>1. new[n + k] = Row(name, side, ordinals[k])
    BY <1>1
  <2> DEFINE r == new[n + k]
  <2>2. r = [section |-> name, side |-> side, ordinal |-> ordinals[k]]
    BY <2>1 DEF Row
  <2> HIDE DEF r
  <2>3. r.section = name /\ r.side = side /\ r.ordinal = ordinals[k]
    BY <2>2
  <2>. QED  BY <2>3 DEF r
<1>7. places = old \cup {n + k : k \in 1..o}
  <2>1. ASSUME NEW k \in places PROVE k \in old \cup {n + l : l \in 1..o}
    <3>1. k \in 1..(n + o) /\ new[k].section = name /\ new[k].side = side
      BY <1>1 DEF PlacesOf
    <3>2. CASE k <= n
      <4>1. k \in 1..n /\ new[k] = rows[k]
        BY <1>1, <1>5, <3>1, <3>2
      <4>. QED  BY <3>1, <4>1 DEF PlacesOf, n
    <3>3. CASE ~(k <= n)
      BY <1>5, <3>1, <3>3
    <3>. QED  BY <3>2, <3>3
  <2>2. ASSUME NEW k \in 1..o PROVE n + k \in places
    <3>1. n + k \in 1..(n + o)
      BY <1>2
    <3>. QED  BY <3>1, <1>1, <1>6 DEF PlacesOf
  <2>3. ASSUME NEW k \in old PROVE k \in places
    <3>1. k \in 1..n /\ rows[k].section = name /\ rows[k].side = side /\ k \in 1..(n + o)
      BY <1>2 DEF PlacesOf, n
    <3>. QED  BY <1>1, <3>1 DEF PlacesOf
  <2>. QED  BY <2>1, <2>2, <2>3
<1>8. \A k \in old : new[k] = rows[k] /\ k \in 1..n /\ rows[k].ordinal \in S
  BY <1>1 DEF PlacesOf, n, HasSection
<1>9. HasSection(new, name, side, S \cup T, ordered)
  <2>1. \A k \in places : new[k].ordinal \in S \cup T
    BY <1>3, <1>6, <1>7, <1>8
  <2>2. \A i \in S \cup T : \E k \in places : new[k].ordinal = i
    <3>1. ASSUME NEW i \in S PROVE \E k \in places : new[k].ordinal = i
      BY <1>7, <1>8 DEF HasSection
    <3>2. ASSUME NEW i \in T PROVE \E k \in places : new[k].ordinal = i
      <4>1. PICK k \in 1..o : ordinals[k] = i
        BY <1>3
      <4>. QED  BY <1>6, <1>7, <4>1
    <3>. QED  BY <3>1, <3>2
  <2>3. ASSUME NEW k \in places, NEW l \in places, new[k].ordinal = new[l].ordinal PROVE k = l
    <3>1. CASE k \in old /\ l \in old
      BY <1>8, <2>3, <3>1 DEF HasSection
    <3>2. CASE k \in old /\ l \notin old
      BY <1>3, <1>6, <1>7, <1>8, <2>3, <3>2
    <3>3. CASE k \notin old /\ l \in old
      BY <1>3, <1>6, <1>7, <1>8, <2>3, <3>3
    <3>4. CASE k \notin old /\ l \notin old
      BY <1>3, <1>6, <1>7, <2>3, <3>4
    <3>. QED  BY <3>1, <3>2, <3>3, <3>4
  <2>4. ASSUME ordered, NEW k \in places, NEW l \in places, k < l
        PROVE  new[k].ordinal < new[l].ordinal
    <3>1. old = {}
      BY <2>4, <1>8
    <3>2. PICK a \in 1..o, b \in 1..o : k = n + a /\ l = n + b
      BY <1>7, <3>1
    <3>3. a < b
      BY <1>2, <2>4, <3>2
    <3>. QED  BY <1>3, <1>6, <2>4, <3>2, <3>3
  <2>. QED  BY <2>1, <2>2, <2>3, <2>4 DEF HasSection
<1>10. ASSUME NEW m, NEW s, ~(m = name /\ s = side)
       PROVE  PlacesOf(new, m, s) = PlacesOf(rows, m, s)
  <2>1. ASSUME NEW k \in PlacesOf(new, m, s) PROVE k \in PlacesOf(rows, m, s)
    <3>1. k \in 1..(n + o) /\ new[k].section = m /\ new[k].side = s
      BY <1>1 DEF PlacesOf
    <3>2. k <= n
      BY <3>1, <1>5, <1>6, <1>10
    <3>. QED  BY <3>1, <3>2, <1>1, <1>5 DEF PlacesOf, n
  <2>2. ASSUME NEW k \in PlacesOf(rows, m, s) PROVE k \in PlacesOf(new, m, s)
    <3>1. k \in 1..n /\ rows[k].section = m /\ rows[k].side = s
      BY DEF PlacesOf, n
    <3>2. k \in 1..(n + o)
      BY <3>1, <1>2
    <3>. QED  BY <3>1, <3>2, <1>1 DEF PlacesOf
  <2>. QED  BY <2>1, <2>2
<1>11. ASSUME NEW m, NEW s, NEW U, NEW p, ~(m = name /\ s = side), HasSection(rows, m, s, U, p)
       PROVE  HasSection(new, m, s, U, p)
  <2>1. PlacesOf(new, m, s) = PlacesOf(rows, m, s)
    BY <1>10, <1>11
  <2>2. \A k \in PlacesOf(rows, m, s) : new[k] = rows[k]
    BY <1>1 DEF PlacesOf, n
  <2>. QED  BY <1>11, <2>1, <2>2 DEF HasSection
<1>. QED  BY <1>9, <1>11 DEF new

(* An occurrence of a token has a first one. *)
LEMMA FirstExists ==
    ASSUME NEW X, NEW s \in Seq(X), NEW i \in 1..Len(s)
    PROVE  \E j \in FirstOrdinals(s) : s[j] = s[i]
<1> DEFINE R == {j \in 1..Len(s) : s[j] = s[i]}
<1>1. Len(s) \in Nat
  BY LenProperties
<1>2. IsFiniteSet(R) /\ R \subseteq Nat /\ R # {}
  <2>1. IsFiniteSet(1..Len(s)) /\ R \subseteq 1..Len(s)
    BY <1>1, FS_Interval
  <2>. QED  BY <1>1, <2>1, FS_Subset
<1> HIDE DEF R
<1>3. Cardinality(R) \in Nat /\ Cardinality(R) # 0
  BY <1>2, FS_CardinalityType, FS_EmptySet
<1>4. /\ Len(InOrder(R)) = Cardinality(R) /\ InOrder(R) \in Seq(R)
      /\ Lists(InOrder(R), R, TRUE)
  BY <1>2, InOrderLists
<1> DEFINE q == InOrder(R)
           n == Len(q)
<1>5. /\ n \in Nat /\ 1 \in 1..n
      /\ \A j \in R : \E k \in 1..n : q[k] = j
      /\ \A k, l \in 1..n : k < l => q[k] < q[l]
      /\ \A k \in 1..n : q[k] \in R
  BY <1>3, <1>4, ElementOfSeq DEF Lists, Ascending, Enumerates, Bijection, Surjection
<1> HIDE DEF n, q
<1>6. q[1] \in R /\ \A j \in R : q[1] <= j
  <2>1. q[1] \in R
    BY <1>5
  <2>2. ASSUME NEW j \in R PROVE q[1] <= j
    <3>1. PICK k \in 1..n : q[k] = j
      BY <1>5
    <3>2. k = 1 \/ 1 < k
      BY <1>5
    <3>3. q[1] \in Nat /\ q[k] \in Nat
      BY <1>2, <1>5
    <3>4. q[1] <= q[k]
      BY <1>5, <3>2, <3>3
    <3>. QED  BY <3>1, <3>4
  <2>. QED  BY <2>1, <2>2
<1>7. q[1] \in 1..Len(s) /\ s[q[1]] = s[i]
  BY <1>6 DEF R
<1>8. \A j \in 1..(q[1] - 1) : s[j] # s[q[1]]
  <2> SUFFICES ASSUME NEW j \in 1..(q[1] - 1), s[j] = s[q[1]] PROVE FALSE
    OBVIOUS
  <2>1. j \in 1..Len(s) /\ ~(q[1] <= j)
    BY <1>1, <1>7
  <2>. QED  BY <1>6, <1>7, <2>1 DEF R
<1>. QED  BY <1>7, <1>8 DEF FirstOrdinals, IsFirst

(* A token is counted at its first item. *)
LEMMA TokensCounted ==
    ASSUME NEW X, NEW s \in Seq(X), NEW T
    PROVE  Cardinality({i \in FirstOrdinals(s) : s[i] \in T})
             = Cardinality({s[i] : i \in 1..Len(s)} \cap T)
<1> DEFINE F == {i \in FirstOrdinals(s) : s[i] \in T}
           V == {s[i] : i \in 1..Len(s)} \cap T
           f == [i \in F |-> s[i]]
<1>1. Len(s) \in Nat
  BY LenProperties
<1>2. F \subseteq 1..Len(s) /\ IsFiniteSet(F)
  <2>1. IsFiniteSet(1..Len(s)) /\ F \subseteq 1..Len(s)
    BY <1>1, FS_Interval DEF FirstOrdinals
  <2>. QED  BY <2>1, FS_Subset
<1>3. ASSUME NEW i \in F, NEW j \in F, s[i] = s[j] PROVE i = j
  <2>1. i \in 1..Len(s) /\ j \in 1..Len(s) /\ IsFirst(s, i) /\ IsFirst(s, j)
    BY DEF FirstOrdinals
  <2>2. ~(i < j) /\ ~(j < i)
    BY <2>1, <1>3 DEF IsFirst
  <2>. QED  BY <2>1, <2>2
<1>4. \A t \in V : \E i \in F : s[i] = t
  <2> SUFFICES ASSUME NEW k \in 1..Len(s), s[k] \in T PROVE \E i \in F : s[i] = s[k]
    OBVIOUS
  <2>. QED  BY FirstExists
<1>5. \A i \in F : s[i] \in V
  BY <1>2
<1> HIDE DEF F, V
<1>6. f \in Bijection(F, V)
  <2>1. f \in [F -> V] /\ DOMAIN f = F
    BY <1>5
  <2>. QED  BY <2>1, <1>3, <1>4 DEF Bijection, Injection, Surjection, IsInjective
<1>7. ExistsBijection(F, V)
  BY <1>6 DEF ExistsBijection
<1>8. Cardinality(F) = Cardinality(V)
  BY <1>2, <1>7, FS_Bijection
<1>. QED  BY <1>8 DEF F, V


(* The items of a sequence that carry a token. *)
ItemsOf(s, t) == {i \in 1..Len(s) : s[i] = t}

(* Of the items of one token the least is the first one, and the others in *)
(* order are its repeats (_first_payload, _duplicate_payloads).            *)
LEMMA RowsOfToken ==
    ASSUME NEW X, NEW s \in Seq(X), NEW t, NEW rows, ToSet(rows) = ItemsOf(s, t),
           ItemsOf(s, t) # {}
    PROVE  /\ FirstOf(rows) \in FirstOrdinals(s) /\ s[FirstOf(rows)] = t
           /\ \A i \in FirstOrdinals(s) : s[i] = t => i = FirstOf(rows)
           /\ RepeatsOf(rows) \in Seq(Nat)
           /\ Lists(RepeatsOf(rows), {i \in RepeatOrdinals(s) : s[i] = t}, TRUE)
           /\ Len(RepeatsOf(rows)) = Cardinality({i \in RepeatOrdinals(s) : s[i] = t})
<1> DEFINE R == ItemsOf(s, t)
           f == FirstOf(rows)
<1>1. Len(s) \in Nat
  BY LenProperties
<1>2. R \subseteq 1..Len(s) /\ R \subseteq Nat /\ IsFiniteSet(R)
  <2>1. R \subseteq 1..Len(s) /\ IsFiniteSet(1..Len(s))
    BY <1>1, FS_Interval DEF ItemsOf
  <2>. QED  BY <1>1, <2>1, FS_Subset
<1>3. PICK j \in FirstOrdinals(s) : s[j] = t
  <2>1. PICK i \in 1..Len(s) : s[i] = t
    BY DEF ItemsOf
  <2>. QED  BY <2>1, FirstExists
<1>4. j \in R /\ \A i \in R : j <= i
  <2>1. j \in R /\ \A i \in 1..(j - 1) : s[i] # s[j]
    BY <1>3 DEF FirstOrdinals, IsFirst, ItemsOf
  <2>2. ASSUME NEW i \in R, ~(j <= i) PROVE FALSE
    <3>1. i \in 1..(j - 1) /\ s[i] = s[j]
      BY <1>1, <1>3, <2>1, <2>2 DEF ItemsOf
    <3>. QED  BY <2>1, <3>1
  <2>. QED  BY <2>1, <2>2
<1>5. f \in R /\ \A i \in R : f <= i
  BY <1>4 DEF FirstOf
<1>6. f = j
  BY <1>2, <1>4, <1>5
<1>7. ASSUME NEW i \in FirstOrdinals(s), s[i] = t PROVE i = f
  <2>1. i \in R /\ f <= i /\ f \in 1..Len(s) /\ i \in 1..Len(s) /\ s[f] = s[i]
    BY <1>2, <1>5, <1>7 DEF FirstOrdinals, ItemsOf
  <2>2. ~(f < i)
    BY <2>1, <1>7 DEF FirstOrdinals, IsFirst
  <2>. QED  BY <1>1, <2>1, <2>2
<1>8. R \ {f} = {i \in RepeatOrdinals(s) : s[i] = t}
  <2>1. \A i \in 1..Len(s) : i \in FirstOrdinals(s) <=> i \notin RepeatOrdinals(s)
    BY DEF FirstOrdinals, RepeatOrdinals
  <2>2. RepeatOrdinals(s) \subseteq 1..Len(s)
    BY DEF RepeatOrdinals
  <2>. QED  BY <1>2, <1>3, <1>6, <1>7, <2>1, <2>2 DEF ItemsOf
<1>9. /\ Lists(InOrder(R \ {f}), R \ {f}, TRUE) /\ InOrder(R \ {f}) \in Seq(R \ {f})
      /\ Len(InOrder(R \ {f})) = Cardinality(R \ {f})
  <2>1. R \ {f} \subseteq Nat /\ IsFiniteSet(R \ {f})
    BY <1>2, FS_Subset
  <2> HIDE DEF R, f
  <2>. QED  BY <2>1, InOrderLists
<1>10. RepeatsOf(rows) = InOrder(R \ {f})
  BY DEF RepeatsOf
<1>11. InOrder(R \ {f}) \in Seq(Nat)
  <2>1. R \ {f} \subseteq Nat
    BY <1>2
  <2> HIDE DEF R, f
  <2>. QED  BY <2>1, <1>9, SeqMonotonic
<1>. QED  BY <1>3, <1>6, <1>7, <1>8, <1>9, <1>10, <1>11

(* The members of a section that carry a token of E. *)
Carrying(S, s, E) == {i \in S : s[i] \in E}

(* One token more adds its own members, and as many to their number. *)
LEMMA OneTokenMore ==
    ASSUME NEW S, IsFiniteSet(S), NEW s, NEW E, NEW t, t \notin E
    PROVE  LET new == {i \in S : s[i] = t} IN
           /\ Carrying(S, s, E \cup {t}) = Carrying(S, s, E) \cup new
           /\ Carrying(S, s, E) \cap new = {}
           /\ Cardinality(Carrying(S, s, E)) \in Nat /\ Cardinality(new) \in Nat
           /\ Cardinality(Carrying(S, s, E \cup {t}))
                = Cardinality(Carrying(S, s, E)) + Cardinality(new)
<1> DEFINE old == Carrying(S, s, E)
           new == {i \in S : s[i] = t}
<1>1. old \cap new = {} /\ Carrying(S, s, E \cup {t}) = old \cup new
  BY DEF Carrying
<1>2. old \subseteq S /\ new \subseteq S
  BY DEF Carrying
<1> HIDE DEF old, new
<1>3. IsFiniteSet(old) /\ IsFiniteSet(new)
  BY <1>2, FS_Subset
<1>4. /\ Cardinality(old) \in Nat /\ Cardinality(new) \in Nat
      /\ Cardinality(old \cup new) = Cardinality(old) + Cardinality(new) - Cardinality(old \cap new)
  BY <1>3, FS_CardinalityType, FS_Union
<1>5. Cardinality(old \cap new) = 0
  BY <1>1, FS_EmptySet
<1>6. Cardinality(old \cup new) = Cardinality(old) + Cardinality(new)
  BY <1>4, <1>5
<1>. QED  BY <1>1, <1>4, <1>6 DEF old, new

(* A larger number at the end of a list in order. *)
LEMMA ListGrows ==
    ASSUME NEW S \in SUBSET Nat, NEW q \in Seq(Nat), Lists(q, S, TRUE),
           NEW i \in Nat, \A j \in S : j < i
    PROVE  Lists(Append(q, i), S \cup {i}, TRUE) /\ Append(q, i) \in Seq(Nat)
<1> DEFINE r == Append(q, i)
           n == Len(q)
<1>1. /\ r \in Seq(Nat) /\ Len(r) = n + 1 /\ n \in Nat
      /\ \A k \in 1..n : r[k] = q[k]
      /\ r[n + 1] = i
  BY AppendProperties, LenProperties
<1>2. /\ \A k \in 1..n : q[k] \in S
      /\ \A k, l \in 1..n : q[k] = q[l] => k = l
      /\ \A j \in S : \E k \in 1..n : q[k] = j
      /\ \A k, l \in 1..n : k < l => q[k] < q[l]
  <2>1. q \in Bijection(1..n, S) /\ Ascending(q)
    BY DEF Lists, Enumerates
  <2>. QED  BY <2>1 DEF Bijection, Injection, Surjection, IsInjective, Ascending
<1> HIDE DEF r, n
<1>3. \A k \in 1..(n + 1) : k \in 1..n \/ k = n + 1
  BY <1>1
<1>4. /\ \A k \in 1..n : k \in 1..(n + 1) /\ ~(n + 1 < k)
      /\ n + 1 \in 1..(n + 1)
  BY <1>1
<1>5. r \in [1..(n + 1) -> S \cup {i}]
  <2>1. DOMAIN r = 1..(n + 1)
    BY <1>1, LenProperties
  <2>2. \A k \in 1..(n + 1) : r[k] \in S \cup {i}
    BY <1>1, <1>2, <1>3
  <2>3. r = [k \in 1..(n + 1) |-> r[k]]
    BY <1>1, <2>1
  <2>. QED  BY <2>2, <2>3
<1>6. \A k, l \in 1..(n + 1) : k < l => r[k] < r[l]
  <2> SUFFICES ASSUME NEW k \in 1..(n + 1), NEW l \in 1..(n + 1), k < l PROVE r[k] < r[l]
    OBVIOUS
  <2>1. k \in 1..n
    BY <1>1, <1>3
  <2>2. CASE l \in 1..n
    BY <1>1, <1>2, <2>1, <2>2
  <2>3. CASE l = n + 1
    BY <1>1, <1>2, <2>1, <2>3
  <2>. QED  BY <1>3, <2>2, <2>3
<1>7. \A k, l \in 1..(n + 1) : r[k] = r[l] => k = l
  <2> SUFFICES ASSUME NEW k \in 1..(n + 1), NEW l \in 1..(n + 1), r[k] = r[l], k # l PROVE FALSE
    OBVIOUS
  <2>1. k < l \/ l < k
    BY <1>1
  <2>2. r[k] < r[l] \/ r[l] < r[k]
    BY <1>6, <2>1
  <2>3. r[k] \in Nat
    BY <1>5
  <2>. QED  BY <2>2, <2>3
<1>8. \A j \in S \cup {i} : \E k \in 1..(n + 1) : r[k] = j
  <2>1. ASSUME NEW j \in S PROVE \E k \in 1..(n + 1) : r[k] = j
    <3>1. PICK k \in 1..n : q[k] = j
      BY <1>2
    <3>. QED  BY <1>1, <1>4, <3>1
  <2>. QED  BY <1>1, <1>4, <2>1
<1>9. Len(r) = n + 1 /\ Enumerates(r, S \cup {i})
  <2>1. n + 1 \in Nat
    BY <1>1
  <2>. QED  BY <1>5, <1>7, <1>8, <2>1, OneToOneLists
<1>10. Ascending(r)
  BY <1>6, <1>9 DEF Ascending
<1>. QED  BY <1>1, <1>9, <1>10 DEF Lists, r

(* The entries at some places are those at these places, and no other. *)
LEMMA EntriesAreThose ==
    ASSUME NEW X, NEW list \in Seq(X), NEW places \in SUBSET (1..Len(list))
    PROVE  /\ EntriesAt(list, places) \in Seq(X)
           /\ ToSet(EntriesAt(list, places)) = {list[p] : p \in places}
           /\ places # {} => Len(EntriesAt(list, places)) > 0
<1> DEFINE at == InOrder(places)
           n == Len(at)
           q == EntriesAt(list, places)
<1>1. places \subseteq Nat /\ IsFiniteSet(places)
  <2>1. Len(list) \in Nat
    BY LenProperties
  <2>2. IsFiniteSet(1..Len(list))
    BY <2>1, FS_Interval
  <2>3. places \subseteq Nat
    BY <2>1
  <2>4. \A S : S \subseteq 1..Len(list) => IsFiniteSet(S)
    BY <2>2, FS_Subset
  <2>. QED  BY <2>3, <2>4
<1>2. Lists(at, places, TRUE) /\ at \in Seq(places)
  BY <1>1, InOrderLists
<1>3. q = [k \in 1..n |-> list[at[k]]]
  BY DEF EntriesAt
<1>4. \A p \in places : list[p] \in X
  BY ElementOfSeq
<1> HIDE DEF at, q
<1>5. n \in Nat /\ (\A k \in 1..n : at[k] \in places) /\ (\A p \in places : \E k \in 1..n : at[k] = p)
  <2>1. at \in Bijection(1..n, places) /\ n \in Nat
    BY <1>2, LenProperties DEF Lists, Enumerates
  <2>. QED  BY <2>1 DEF Bijection, Injection, Surjection
<1> HIDE DEF n
<1>6. q \in [1..n -> X]
  BY <1>3, <1>4, <1>5
<1>7. q \in Seq(X) /\ Len(q) = n
  BY <1>5, <1>6, FunctionIsList
<1>8. ToSet(q) = {list[p] : p \in places}
  <2>1. ToSet(q) = {q[k] : k \in 1..n}
    <3>1. DOMAIN q = 1..n
      BY <1>3
    <3>. QED  BY <3>1 DEF ToSet
  <2>2. \A k \in 1..n : q[k] \in {list[p] : p \in places}
    BY <1>3, <1>5
  <2>3. ASSUME NEW p \in places PROVE list[p] \in {q[k] : k \in 1..n}
    <3>1. PICK k \in 1..n : at[k] = p
      BY <1>5
    <3>. QED  BY <1>3, <3>1
  <2>. QED  BY <2>1, <2>2, <2>3
<1>9. ASSUME places # {} PROVE n > 0
  <2>1. PICK p \in places : TRUE
    BY <1>9
  <2>2. PICK k \in 1..n : at[k] = p
    BY <1>5
  <2>. QED  BY <1>5, <2>2
<1>. QED  BY <1>7, <1>8, <1>9 DEF q

(* More tokens add their own members, and as many to their number. *)
LEMMA TokensMore ==
    ASSUME NEW S, IsFiniteSet(S), NEW s, NEW E, NEW W, E \cap W = {}
    PROVE  /\ Carrying(S, s, E \cup W) = Carrying(S, s, E) \cup Carrying(S, s, W)
           /\ Carrying(S, s, E) \cap Carrying(S, s, W) = {}
           /\ Cardinality(Carrying(S, s, E)) \in Nat /\ Cardinality(Carrying(S, s, W)) \in Nat
           /\ Cardinality(Carrying(S, s, E \cup W))
                = Cardinality(Carrying(S, s, E)) + Cardinality(Carrying(S, s, W))
<1> DEFINE old == Carrying(S, s, E)
           new == Carrying(S, s, W)
<1>1. old \cap new = {} /\ Carrying(S, s, E \cup W) = old \cup new
  BY DEF Carrying
<1>2. old \subseteq S /\ new \subseteq S
  BY DEF Carrying
<1> HIDE DEF old, new
<1>3. IsFiniteSet(old) /\ IsFiniteSet(new)
  BY <1>2, FS_Subset
<1>4. /\ Cardinality(old) \in Nat /\ Cardinality(new) \in Nat
      /\ Cardinality(old \cup new) = Cardinality(old) + Cardinality(new) - Cardinality(old \cap new)
  BY <1>3, FS_CardinalityType, FS_Union
<1>5. Cardinality(old \cap new) = 0
  BY <1>1, FS_EmptySet
<1>6. Cardinality(old \cup new) = Cardinality(old) + Cardinality(new)
  BY <1>4, <1>5
<1>. QED  BY <1>1, <1>4, <1>6 DEF old, new

-----------------------------------------------------------------------------
(* Does a call list the repeats of a side? *)
WantsRepeats(c, side) ==
    IF c.operation = "duplicates" THEN side = "first" ELSE c.include_duplicates

(* The members of each section of a call's result. *)
SectionSet(in, c, name, side) ==
    CASE name = "only" ->
            IF c.operation = "compare" THEN OnlyOrdinals(in[side], in[Other(side)]) ELSE {}
      [] name = "common" ->
            IF c.operation = "compare" /\ side = "first" /\ c.include_common
              THEN CommonOrdinals(in[side], in[Other(side)]) ELSE {}
      [] name = "duplicates" ->
            IF WantsRepeats(c, side) THEN RepeatOrdinals(in[side]) ELSE {}

(* The rows hold of each section the members that carry a token of E. *)
HoldsTokens(in, c, rows, E) ==
    /\ rows \in Seq(ResultRow)
    /\ \A name \in {"only", "common", "duplicates"}, side \in Side :
          HasSection(rows, name, side,
                     Carrying(SectionSet(in, c, name, side), in[side], E[side]), FALSE)

(* A section has finitely many members, all of them items of its side. *)
LEMMA SectionsAreItems ==
    ASSUME NEW X, NEW in, NEW c, NEW side, in[side] \in Seq(X),
           NEW name \in {"only", "common", "duplicates"}
    PROVE  /\ SectionSet(in, c, name, side) \in SUBSET (1..Len(in[side]))
           /\ SectionSet(in, c, name, side) \in SUBSET Nat
           /\ IsFiniteSet(SectionSet(in, c, name, side))
<1> DEFINE S == SectionSet(in, c, name, side)
           n == Len(in[side])
<1>1. n \in Nat
  BY LenProperties
<1>2. S \subseteq 1..n
  BY DEF SectionSet, OnlyOrdinals, CommonOrdinals, RepeatOrdinals, FirstOrdinals
<1> HIDE DEF S, n
<1>3. IsFiniteSet(1..n)
  BY <1>1, FS_Interval
<1>4. IsFiniteSet(S)
  BY <1>2, <1>3, FS_Subset
<1>5. S \subseteq Nat
  BY <1>1, <1>2
<1>. QED  BY <1>2, <1>4, <1>5 DEF S, n

(* No row holds no token. *)
LEMMA NothingIsHeld ==
    ASSUME NEW in, NEW c, NEW E, E = [side \in Side |-> {}]
    PROVE  HoldsTokens(in, c, <<>>, E)
<1>1. <<>> \in Seq(ResultRow) /\ Len(<<>>) = 0
  OBVIOUS
<1>2. ASSUME NEW name \in {"only", "common", "duplicates"}, NEW side \in Side
      PROVE  HasSection(<<>>, name, side,
                        Carrying(SectionSet(in, c, name, side), in[side], E[side]), FALSE)
  <2>1. Carrying(SectionSet(in, c, name, side), in[side], E[side]) = {}
    BY DEF Carrying
  <2>2. PlacesOf(<<>>, name, side) = {}
    BY <1>1 DEF PlacesOf
  <2>. QED  BY <2>1, <2>2 DEF HasSection
<1>. QED  BY <1>1, <1>2 DEF HoldsTokens

(* The rows of a token without which the sections of the others are held:  *)
(* its first item in one section, and its repeats.                         *)
FirstRow(in, c, side, group) ==
    IF FirstOf(group) \in SectionSet(in, c, "only", side)
      THEN <<Row("only", side, FirstOf(group))>>
    ELSE IF FirstOf(group) \in SectionSet(in, c, "common", side)
      THEN <<Row("common", side, FirstOf(group))>>
    ELSE <<>>

RepeatRows(c, side, group) ==
    IF WantsRepeats(c, side) THEN Rows("duplicates", side, RepeatsOf(group)) ELSE <<>>

(* One row is the rows of one item, and no row those of none. *)
LEMMA FewRows ==
    ASSUME NEW name, NEW side, NEW i
    PROVE  Rows(name, side, <<i>>) = <<Row(name, side, i)>> /\ Rows(name, side, <<>>) = <<>>
<1>1. Rows(name, side, <<i>>) = [k \in 1..1 |-> Row(name, side, i)]
  BY DEF Rows
<1>2. [k \in 1..1 |-> Row(name, side, i)] = <<Row(name, side, i)>>
  OBVIOUS
<1>3. Rows(name, side, <<>>) = <<>>
  BY DEF Rows
<1>. QED  BY <1>1, <1>2, <1>3

(* One item lists itself. *)
LEMMA OneIsListed ==
    ASSUME NEW i \in Nat
    PROVE  <<i>> \in Seq(Nat) /\ Lists(<<i>>, {i}, FALSE) /\ <<>> \in Seq(Nat) /\ Lists(<<>>, {}, FALSE)
  BY DEF Lists, Enumerates, Bijection, Injection, Surjection, IsInjective

(* Rows of one section, of items not held yet. *)
LEMMA SectionGrows ==
    ASSUME NEW rows \in Seq(ResultRow), NEW name \in {"only", "common", "duplicates"},
           NEW side \in Side, NEW ordinals \in Seq(Nat), NEW S, NEW T,
           HasSection(rows, name, side, S, FALSE), Lists(ordinals, T, FALSE), S \cap T = {}
    PROVE  LET new == rows \o Rows(name, side, ordinals) IN
           /\ new \in Seq(ResultRow)
           /\ HasSection(new, name, side, S \cup T, FALSE)
           /\ \A m, s, U : ~(m = name /\ s = side) /\ HasSection(rows, m, s, U, FALSE)
                => HasSection(new, m, s, U, FALSE)
<1>1. FALSE \in BOOLEAN
  OBVIOUS
<1>. QED  BY <1>1, RowsAreAdded, RowsAppended

(* The row of the first item as the rows of a section. *)
LEMMA FirstRowIsListed ==
    ASSUME NEW X, NEW in, NEW c, NEW side, in[side] \in Seq(X), NEW t, NEW group,
           ToSet(group) = ItemsOf(in[side], t), ItemsOf(in[side], t) # {}
    PROVE  \E name \in {"only", "common"}, ordinals \in Seq(Nat) :
              /\ FirstRow(in, c, side, group) = Rows(name, side, ordinals)
              /\ Lists(ordinals, Carrying(SectionSet(in, c, name, side), in[side], {t}), FALSE)
              /\ \A other \in {"only", "common"} \ {name} :
                    Carrying(SectionSet(in, c, other, side), in[side], {t}) = {}
<1> DEFINE f == FirstOf(group)
           S(name) == SectionSet(in, c, name, side)
           add(name) == Carrying(S(name), in[side], {t})
<1>1. /\ f \in FirstOrdinals(in[side]) /\ in[side][f] = t
      /\ \A i \in FirstOrdinals(in[side]) : in[side][i] = t => i = f
  BY RowsOfToken
<1>2. f \in Nat
  <2>1. Len(in[side]) \in Nat
    BY LenProperties
  <2>. QED  BY <1>1, <2>1 DEF FirstOrdinals
<1>3. S("only") \subseteq FirstOrdinals(in[side]) /\ S("common") \subseteq FirstOrdinals(in[side])
  BY DEF SectionSet, OnlyOrdinals, CommonOrdinals
<1>4. S("only") \cap S("common") = {}
  BY DEF SectionSet, OnlyOrdinals, CommonOrdinals
<1>5. \A name \in {"only", "common"} : add(name) = IF f \in S(name) THEN {f} ELSE {}
  BY <1>1, <1>3 DEF Carrying
<1> HIDE DEF f, S
<1>6. CASE f \in S("only")
  <2>1. FirstRow(in, c, side, group) = Rows("only", side, <<f>>)
    BY <1>6, FewRows DEF FirstRow, f, S
  <2>2. <<f>> \in Seq(Nat) /\ Lists(<<f>>, add("only"), FALSE) /\ add("common") = {}
    BY <1>2, <1>4, <1>5, <1>6, OneIsListed
  <2>. QED  BY <2>1, <2>2 DEF S
<1>7. CASE f \notin S("only") /\ f \in S("common")
  <2>1. FirstRow(in, c, side, group) = Rows("common", side, <<f>>)
    BY <1>7, FewRows DEF FirstRow, f, S
  <2>2. <<f>> \in Seq(Nat) /\ Lists(<<f>>, add("common"), FALSE) /\ add("only") = {}
    BY <1>2, <1>5, <1>7, OneIsListed
  <2>. QED  BY <2>1, <2>2 DEF S
<1>8. CASE f \notin S("only") /\ f \notin S("common")
  <2>1. FirstRow(in, c, side, group) = Rows("only", side, <<>>)
    BY <1>8, FewRows DEF FirstRow, f, S
  <2>2. <<>> \in Seq(Nat) /\ Lists(<<>>, add("only"), FALSE) /\ add("common") = {}
    BY <1>2, <1>5, <1>8, OneIsListed
  <2>. QED  BY <2>1, <2>2 DEF S
<1>. QED  BY <1>6, <1>7, <1>8

(* The rows of the repeats as the rows of a section. *)
LEMMA RepeatRowsAreListed ==
    ASSUME NEW X, NEW in, NEW c, NEW side, in[side] \in Seq(X), NEW t, NEW group,
           ToSet(group) = ItemsOf(in[side], t), ItemsOf(in[side], t) # {}
    PROVE  \E ordinals \in Seq(Nat) :
              /\ RepeatRows(c, side, group) = Rows("duplicates", side, ordinals)
              /\ Lists(ordinals, Carrying(SectionSet(in, c, "duplicates", side), in[side], {t}), FALSE)
<1> DEFINE R == {i \in RepeatOrdinals(in[side]) : in[side][i] = t}
           q == RepeatsOf(group)
<1>1. q \in Seq(Nat) /\ Lists(q, R, TRUE)
  BY RowsOfToken
<1>2. Lists(q, R, FALSE)
  BY <1>1 DEF Lists
<1>3. SectionSet(in, c, "duplicates", side)
        = IF WantsRepeats(c, side) THEN RepeatOrdinals(in[side]) ELSE {}
  BY DEF SectionSet
<1>4. CASE WantsRepeats(c, side)
  BY <1>1, <1>2, <1>3, <1>4 DEF RepeatRows, Carrying
<1>5. CASE ~WantsRepeats(c, side)
  <2>1. <<>> \in Seq(Nat) /\ Lists(<<>>, {}, FALSE)
    BY OneIsListed
  <2>2. RepeatRows(c, side, group) = Rows("duplicates", side, <<>>)
    BY <1>5, FewRows DEF RepeatRows
  <2>. QED  BY <1>3, <1>5, <2>1, <2>2 DEF Carrying
<1>. QED  BY <1>4, <1>5

(* One token more adds its members. *)
LEMMA TokenMore ==
    ASSUME NEW S, NEW s, NEW E, NEW t, t \notin E
    PROVE  /\ Carrying(S, s, E \cup {t}) = Carrying(S, s, E) \cup Carrying(S, s, {t})
           /\ Carrying(S, s, E) \cap Carrying(S, s, {t}) = {}
  BY DEF Carrying

(* The rows of a list of items are rows. *)
LEMMA RowsAreRows ==
    ASSUME NEW name \in {"only", "common", "duplicates"}, NEW side \in Side, NEW q \in Seq(Nat)
    PROVE  Rows(name, side, q) \in Seq(ResultRow)
<1>1. Len(q) \in Nat /\ \A k \in 1..Len(q) : q[k] \in Nat
  BY LenProperties, ElementOfSeq
<1>2. Rows(name, side, q) \in [1..Len(q) -> ResultRow]
  BY <1>1 DEF Rows, Row, ResultRow
<1>. QED  BY <1>1, <1>2, FunctionIsList

(* The rows of a token make a result that holds one token more. *)
LEMMA TokenIsHeld ==
    ASSUME NEW X, NEW in, NEW c, NEW side \in Side, in[side] \in Seq(X), NEW t, NEW group,
           ToSet(group) = ItemsOf(in[side], t), ItemsOf(in[side], t) # {},
           NEW rows, NEW E, HoldsTokens(in, c, rows, E), t \notin E[side],
           NEW F, F[side] = E[side] \cup {t}, \A s \in Side \ {side} : F[s] = E[s]
    PROVE  /\ HoldsTokens(in, c, rows \o (FirstRow(in, c, side, group) \o RepeatRows(c, side, group)), F)
           /\ FirstRow(in, c, side, group) \in Seq(ResultRow)
           /\ RepeatRows(c, side, group) \in Seq(ResultRow)
<1> DEFINE S(name, s) == SectionSet(in, c, name, s)
           add(name) == Carrying(S(name, side), in[side], {t})
           old(name, s) == Carrying(S(name, s), in[s], E[s])
           new(name, s) == Carrying(S(name, s), in[s], F[s])
           Name == {"only", "common", "duplicates"}
<1>1. PICK name \in {"only", "common"}, firsts \in Seq(Nat) :
         /\ FirstRow(in, c, side, group) = Rows(name, side, firsts)
         /\ Lists(firsts, add(name), FALSE)
         /\ \A other \in {"only", "common"} \ {name} : add(other) = {}
  BY FirstRowIsListed
<1>2. PICK repeats \in Seq(Nat) :
         /\ RepeatRows(c, side, group) = Rows("duplicates", side, repeats)
         /\ Lists(repeats, add("duplicates"), FALSE)
  BY RepeatRowsAreListed
<1>3. \A m \in Name : new(m, side) = old(m, side) \cup add(m) /\ old(m, side) \cap add(m) = {}
  <2> SUFFICES ASSUME NEW m \in Name
               PROVE  new(m, side) = old(m, side) \cup add(m) /\ old(m, side) \cap add(m) = {}
    OBVIOUS
  <2>1. PICK V : V = S(m, side)
    OBVIOUS
  <2>2. PICK e : e = E[side]
    OBVIOUS
  <2>3. t \notin e /\ F[side] = e \cup {t}
    BY <2>2
  <2>4. /\ Carrying(V, in[side], e \cup {t}) = Carrying(V, in[side], e) \cup Carrying(V, in[side], {t})
        /\ Carrying(V, in[side], e) \cap Carrying(V, in[side], {t}) = {}
    BY <2>3, TokenMore
  <2>. QED  BY <2>1, <2>2, <2>3, <2>4
<1>4. \A m \in Name, s \in Side : s # side => new(m, s) = old(m, s)
  OBVIOUS
<1>5. rows \in Seq(ResultRow) /\ \A m \in Name, s \in Side : HasSection(rows, m, s, old(m, s), FALSE)
  BY DEF HoldsTokens
<1>6. /\ Rows(name, side, firsts) \in Seq(ResultRow)
      /\ Rows("duplicates", side, repeats) \in Seq(ResultRow)
  BY RowsAreRows
<1> DEFINE one == rows \o Rows(name, side, firsts)
           two == one \o Rows("duplicates", side, repeats)
<1>7. rows \o (FirstRow(in, c, side, group) \o RepeatRows(c, side, group)) = two
  BY <1>1, <1>2, <1>5, <1>6, ConcatAssociative
<1> HIDE DEF S
<1>8. /\ one \in Seq(ResultRow)
      /\ HasSection(one, name, side, new(name, side), FALSE)
      /\ \A m, s, U : ~(m = name /\ s = side) /\ HasSection(rows, m, s, U, FALSE)
           => HasSection(one, m, s, U, FALSE)
  <2>1. name \in Name /\ HasSection(rows, name, side, old(name, side), FALSE)
    BY <1>5
  <2>2. old(name, side) \cap add(name) = {} /\ new(name, side) = old(name, side) \cup add(name)
    BY <1>3
  <2>3. rows \in Seq(ResultRow) /\ Lists(firsts, add(name), FALSE)
    BY <1>1, <1>5
  <2> HIDE DEF old, new, add
  <2>4. PICK O, A : O = old(name, side) /\ A = add(name)
    OBVIOUS
  <2>5. /\ HasSection(rows, name, side, O, FALSE) /\ Lists(firsts, A, FALSE) /\ O \cap A = {}
    BY <2>1, <2>2, <2>3, <2>4
  <2>6. /\ rows \o Rows(name, side, firsts) \in Seq(ResultRow)
        /\ HasSection(rows \o Rows(name, side, firsts), name, side, O \cup A, FALSE)
        /\ \A m, s, U : ~(m = name /\ s = side) /\ HasSection(rows, m, s, U, FALSE)
             => HasSection(rows \o Rows(name, side, firsts), m, s, U, FALSE)
    BY <2>1, <2>3, <2>5, SectionGrows
  <2>. QED  BY <2>2, <2>4, <2>6
<1>9. /\ two \in Seq(ResultRow)
      /\ HasSection(two, "duplicates", side, new("duplicates", side), FALSE)
      /\ \A m, s, U : ~(m = "duplicates" /\ s = side) /\ HasSection(one, m, s, U, FALSE)
           => HasSection(two, m, s, U, FALSE)
  <2>1. HasSection(one, "duplicates", side, old("duplicates", side), FALSE)
    BY <1>5, <1>8
  <2>2. /\ old("duplicates", side) \cap add("duplicates") = {}
        /\ new("duplicates", side) = old("duplicates", side) \cup add("duplicates")
    BY <1>3
  <2>3. one \in Seq(ResultRow)
    BY <1>8
  <2> HIDE DEF old, new, add, one
  <2>4. PICK O, A, R : O = old("duplicates", side) /\ A = add("duplicates") /\ R = one
    OBVIOUS
  <2>5. /\ HasSection(R, "duplicates", side, O, FALSE) /\ Lists(repeats, A, FALSE) /\ O \cap A = {}
        /\ R \in Seq(ResultRow)
    BY <1>2, <2>1, <2>2, <2>3, <2>4
  <2>6. /\ R \o Rows("duplicates", side, repeats) \in Seq(ResultRow)
        /\ HasSection(R \o Rows("duplicates", side, repeats), "duplicates", side, O \cup A, FALSE)
        /\ \A m, s, U : ~(m = "duplicates" /\ s = side) /\ HasSection(R, m, s, U, FALSE)
             => HasSection(R \o Rows("duplicates", side, repeats), m, s, U, FALSE)
    BY <2>5, SectionGrows
  <2>. QED  BY <2>2, <2>4, <2>6
<1> HIDE DEF one, two
<1>10. ASSUME NEW m \in Name, NEW s \in Side PROVE HasSection(two, m, s, new(m, s), FALSE)
  <2>1. CASE s # side
    BY <1>4, <1>5, <1>8, <1>9, <2>1
  <2>2. CASE s = side /\ m = "duplicates"
    BY <1>9, <2>2
  <2>3. CASE s = side /\ m = name
    BY <1>8, <1>9, <2>3
  <2>4. CASE s = side /\ m # name /\ m # "duplicates"
    <3>1. add(m) = {}
      BY <1>1, <2>4
    <3>2. new(m, s) = old(m, s)
      BY <1>3, <2>4, <3>1
    <3>3. HasSection(one, m, s, old(m, s), FALSE)
      BY <1>5, <1>8, <2>4
    <3>. QED  BY <1>9, <2>4, <3>2, <3>3
  <2>. QED  BY <2>1, <2>2, <2>3, <2>4
<1>11. HoldsTokens(in, c, two, F)
  BY <1>9, <1>10 DEF HoldsTokens, S
<1>. QED  BY <1>1, <1>2, <1>6, <1>7, <1>11

Counts == [unique : [Side -> Nat], only : [Side -> Nat], common : Nat, duplicate : [Side -> Nat]]

(* The counters of a comparison: of the rows the members that carry a      *)
(* token of E, of the tokens those of V.                                   *)
CountsTokens(in, c, counts, E, V) ==
    /\ counts \in Counts
    /\ \A side \in Side :
          /\ counts.only[side]
                = Cardinality(Carrying(SectionSet(in, c, "only", side), in[side], E[side]))
          /\ counts.duplicate[side]
                = Cardinality(Carrying(SectionSet(in, c, "duplicates", side), in[side], E[side]))
          /\ counts.unique[side]
                = Cardinality(Carrying(FirstOrdinals(in[side]), in[side], V[side]))
    /\ counts.common
          = Cardinality(Carrying(CommonOrdinals(in["first"], in["second"]), in["first"], V["first"]))

(* No token is counted at first. *)
LEMMA NothingIsCounted ==
    ASSUME NEW in, NEW c, NEW E, E = [side \in Side |-> {}]
    PROVE  CountsTokens(in, c, ZeroCounts, E, E)
<1>1. \A S, s : Carrying(S, s, {}) = {}
  BY DEF Carrying
<1>2. Cardinality({}) = 0
  BY FS_EmptySet
<1>3. ZeroCounts \in Counts
  BY DEF ZeroCounts, Counts
<1>. QED  BY <1>1, <1>2, <1>3 DEF CountsTokens, ZeroCounts, Side

(* Of the first items that of a token carries it. *)
LEMMA FirstCarries ==
    ASSUME NEW X, NEW s \in Seq(X), NEW t, NEW group, ToSet(group) = ItemsOf(s, t),
           ItemsOf(s, t) # {}, NEW S \in SUBSET FirstOrdinals(s)
    PROVE  Carrying(S, s, {t}) = IF FirstOf(group) \in S THEN {FirstOf(group)} ELSE {}
<1>1. /\ FirstOf(group) \in FirstOrdinals(s) /\ s[FirstOf(group)] = t
      /\ \A i \in FirstOrdinals(s) : s[i] = t => i = FirstOf(group)
  BY RowsOfToken
<1>. QED  BY <1>1 DEF Carrying

(* A list has as many entries as the set it lists. *)
LEMMA ListsAreCounted ==
    ASSUME NEW q \in Seq(Nat), NEW S, Lists(q, S, FALSE)
    PROVE  Cardinality(S) = Len(q)
<1>1. PICK n \in Nat : n = Len(q) /\ q \in Bijection(1..n, S)
  BY LenProperties DEF Lists, Enumerates
<1>2. IsFiniteSet(1..n) /\ Cardinality(1..n) = IF 1 > n THEN 0 ELSE n - 1 + 1
  BY FS_Interval
<1>3. Cardinality(1..n) = n
  BY <1>2
<1>4. ExistsBijection(1..n, S)
  BY <1>1 DEF ExistsBijection
<1>. QED  BY <1>1, <1>2, <1>3, <1>4, FS_Bijection

(* And as many rows. *)
LEMMA RowsAreAsMany ==
    ASSUME NEW q \in Seq(Nat), NEW name, NEW side
    PROVE  Len(Rows(name, side, q)) = Len(q)
<1>1. Len(q) \in Nat
  BY LenProperties
<1>. QED  BY <1>1 DEF Rows

(* A token more, of one side; and counters that have counted its rows.     *)
IsOneMore(F, E, side, t) ==
    t \notin E[side] /\ F[side] = E[side] \cup {t} /\ \A s \in Side \ {side} : F[s] = E[s]

OnlyCount(in, c, side, group) ==
    IF FirstOf(group) \in SectionSet(in, c, "only", side) THEN 1 ELSE 0

HasCounted(n, counts, side, only, repeats) ==
    /\ n \in Counts /\ n.unique = counts.unique /\ n.common = counts.common
    /\ \A s \in Side \ {side} : n.only[s] = counts.only[s] /\ n.duplicate[s] = counts.duplicate[s]
    /\ n.only[side] = counts.only[side] + only
    /\ n.duplicate[side] = counts.duplicate[side] + repeats

(* The counters once the rows of a token have been counted. *)
LEMMA TokenIsCounted ==
    ASSUME NEW X, NEW in, NEW c, NEW side \in Side, in[side] \in Seq(X), NEW t, NEW group,
           ToSet(group) = ItemsOf(in[side], t), ItemsOf(in[side], t) # {},
           NEW counts, NEW E, NEW V, CountsTokens(in, c, counts, E, V), NEW F, IsOneMore(F, E, side, t),
           NEW n, HasCounted(n, counts, side, OnlyCount(in, c, side, group), Len(RepeatRows(c, side, group)))
    PROVE  CountsTokens(in, c, n, F, V)
<1> USE DEF IsOneMore, HasCounted, OnlyCount
<1>1. PICK S, R, s, e : /\ S = SectionSet(in, c, "only", side)
                        /\ R = SectionSet(in, c, "duplicates", side)
                        /\ s = in[side] /\ e = E[side]
  OBVIOUS
<1>2. IsFiniteSet(S) /\ IsFiniteSet(R)
  BY <1>1, SectionsAreItems
<1>3. /\ Cardinality(Carrying(S, s, {t})) = IF FirstOf(group) \in S THEN 1 ELSE 0
      /\ Cardinality(Carrying(R, s, {t})) = Len(RepeatRows(c, side, group))
  <2>1. SectionSet(in, c, "only", side) \in SUBSET FirstOrdinals(in[side])
    BY DEF SectionSet, OnlyOrdinals
  <2>2. Carrying(S, s, {t}) = IF FirstOf(group) \in S THEN {FirstOf(group)} ELSE {}
    <3>1. /\ s \in Seq(X) /\ S \in SUBSET FirstOrdinals(s)
          /\ ToSet(group) = ItemsOf(s, t) /\ ItemsOf(s, t) # {}
      BY <1>1, <2>1
    <3>. QED  BY <3>1, FirstCarries
  <2>3. Cardinality(Carrying(R, s, {t})) = Len(RepeatRows(c, side, group))
    <3>1. PICK q \in Seq(Nat) :
             /\ RepeatRows(c, side, group) = Rows("duplicates", side, q)
             /\ Lists(q, Carrying(SectionSet(in, c, "duplicates", side), in[side], {t}), FALSE)
      BY RepeatRowsAreListed
    <3>2. Lists(q, Carrying(R, s, {t}), FALSE)
      BY <1>1, <3>1
    <3>3. Cardinality(Carrying(R, s, {t})) = Len(q)
      BY <3>2, ListsAreCounted
    <3>. QED  BY <3>1, <3>3, RowsAreAsMany
  <2>4. Cardinality({FirstOf(group)}) = 1 /\ Cardinality({}) = 0
    BY FS_Singleton, FS_EmptySet
  <2>. QED  BY <1>1, <2>2, <2>3, <2>4
<1>4. e \cap {t} = {}
  BY <1>1
<1>5. /\ Cardinality(Carrying(S, s, e \cup {t}))
           = Cardinality(Carrying(S, s, e)) + Cardinality(Carrying(S, s, {t}))
      /\ Cardinality(Carrying(R, s, e \cup {t}))
           = Cardinality(Carrying(R, s, e)) + Cardinality(Carrying(R, s, {t}))
  BY <1>2, <1>4, TokensMore
<1>6. /\ counts.only[side] = Cardinality(Carrying(S, s, e))
      /\ counts.duplicate[side] = Cardinality(Carrying(R, s, e))
  BY <1>1 DEF CountsTokens
<1>7. F[side] = e \cup {t}
  BY <1>1
<1>8. /\ n.only[side] = Cardinality(Carrying(S, s, F[side]))
      /\ n.duplicate[side] = Cardinality(Carrying(R, s, F[side]))
  BY <1>1, <1>3, <1>5, <1>6, <1>7
<1>9. \A x \in Side \ {side} :
         /\ n.only[x] = Cardinality(Carrying(SectionSet(in, c, "only", x), in[x], F[x]))
         /\ n.duplicate[x] = Cardinality(Carrying(SectionSet(in, c, "duplicates", x), in[x], F[x]))
  BY DEF CountsTokens
<1>. QED  BY <1>1, <1>8, <1>9 DEF CountsTokens

(* More tokens, of both sides; and counters that have counted them.        *)
AreMore(U, V, W) ==
    \A side \in Side : V[side] \cap W[side] = {} /\ U[side] = V[side] \cup W[side]

HasCountedTokens(n, counts, in, W) ==
    /\ n \in Counts /\ n.only = counts.only /\ n.duplicate = counts.duplicate
    /\ \A side \in Side : n.unique[side] = counts.unique[side]
          + Cardinality(Carrying(FirstOrdinals(in[side]), in[side], W[side]))
    /\ n.common = counts.common
          + Cardinality(Carrying(CommonOrdinals(in["first"], in["second"]), in["first"], W["first"]))

(* The counters once more tokens have been counted. *)
LEMMA TokensAreCounted ==
    ASSUME NEW X, NEW in \in [Side -> Seq(X)], NEW c,
           NEW counts, NEW E, NEW V, CountsTokens(in, c, counts, E, V), NEW W, NEW U,
           AreMore(U, V, W), NEW n, HasCountedTokens(n, counts, in, W)
    PROVE  CountsTokens(in, c, n, E, U)
<1> USE DEF AreMore, HasCountedTokens
<1>1. \A side \in Side : IsFiniteSet(FirstOrdinals(in[side]))
  <2> SUFFICES ASSUME NEW side \in Side PROVE IsFiniteSet(FirstOrdinals(in[side]))
    OBVIOUS
  <2>1. Len(in[side]) \in Nat
    BY LenProperties
  <2>2. IsFiniteSet(1..Len(in[side]))
    BY <2>1, FS_Interval
  <2>3. FirstOrdinals(in[side]) \subseteq 1..Len(in[side])
    BY DEF FirstOrdinals
  <2>. QED  BY <2>2, <2>3, FS_Subset
<1>2. /\ CommonOrdinals(in["first"], in["second"]) \subseteq FirstOrdinals(in["first"])
      /\ "first" \in Side
  BY DEF CommonOrdinals, Side
<1>3. IsFiniteSet(CommonOrdinals(in["first"], in["second"]))
  BY <1>1, <1>2, FS_Subset
<1>4. \A S, s, e, w : IsFiniteSet(S) /\ e \cap w = {} =>
         Cardinality(Carrying(S, s, e \cup w))
           = Cardinality(Carrying(S, s, e)) + Cardinality(Carrying(S, s, w))
  BY TokensMore
<1>5. ASSUME NEW side \in Side
      PROVE  n.unique[side] = Cardinality(Carrying(FirstOrdinals(in[side]), in[side], U[side]))
  <2>1. counts.unique[side] = Cardinality(Carrying(FirstOrdinals(in[side]), in[side], V[side]))
    BY DEF CountsTokens
  <2>. QED  BY <1>1, <1>4, <2>1
<1>6. n.common = Cardinality(Carrying(CommonOrdinals(in["first"], in["second"]), in["first"], U["first"]))
  <2>1. counts.common
          = Cardinality(Carrying(CommonOrdinals(in["first"], in["second"]), in["first"], V["first"]))
    BY DEF CountsTokens
  <2>. QED  BY <1>2, <1>3, <1>4, <2>1
<1>. QED  BY <1>5, <1>6 DEF CountsTokens

(* The answer the contract promises a call that ran to its end. *)
ExactAnswer(in, c, a) ==
    LET memory == c.result_mode = "memory" IN
    IF c.operation = "duplicates"
      THEN Lists(a, RepeatOrdinals(in["first"]), memory)
      ELSE /\ \A side \in Side :
                /\ Lists(a.only[side], OnlyOrdinals(in[side], in[Other(side)]), memory)
                /\ IF c.include_duplicates
                     THEN Lists(a.duplicates[side], RepeatOrdinals(in[side]), memory)
                     ELSE a.duplicates[side] = None
           /\ IF c.include_common
                THEN Lists(a.common, CommonOrdinals(in["first"], in["second"]), memory)
                ELSE a.common = None
           /\ a.stats =
                [count     |-> [side \in Side |-> Len(in[side])],
                 unique    |-> [side \in Side |-> Cardinality(FirstOrdinals(in[side]))],
                 only      |-> [side \in Side |->
                                  Cardinality(OnlyOrdinals(in[side], in[Other(side)]))],
                 common    |-> Cardinality(CommonOrdinals(in["first"], in["second"])),
                 duplicate |-> [side \in Side |-> IF c.include_duplicates
                                  THEN Cardinality(RepeatOrdinals(in[side])) ELSE 0]]

IsOptions(c) ==
    /\ c.operation \in {"compare", "duplicates"} /\ c.result_mode \in {"memory", "file"}
    /\ c.include_common \in BOOLEAN /\ c.include_duplicates \in BOOLEAN

IsComplete(in, c, rows, counts, sizes, E) ==
    /\ \A side \in Side : (c.operation = "compare" \/ side = "first") =>
          \A i \in 1..Len(in[side]) : in[side][i] \in E[side]
    /\ HoldsTokens(in, c, rows, E)
    /\ c.operation = "compare" => CountsTokens(in, c, counts, E, E)
    /\ c.operation = "compare" => sizes = [side \in Side |-> Len(in[side])]

(* A result that holds every token, and counts every one, is exact. *)
LEMMA AnswerIsExact ==
    ASSUME NEW X, NEW in \in [Side -> Seq(X)], NEW c, IsOptions(c), NEW rows, NEW counts,
           NEW sizes, NEW E, IsComplete(in, c, rows, counts, sizes, E)
    PROVE  ExactAnswer(in, c, AnswerOf(rows, c, sizes, counts, None))
<1> USE DEF IsOptions, IsComplete
<1> DEFINE memory == c.result_mode = "memory"
           file == c.result_mode = "file"
           a == AnswerOf(rows, c, sizes, counts, None)
           section(name, side) == Section(rows, name, side, file)
           Name == {"only", "common", "duplicates"}
           S(name, side) == SectionSet(in, c, name, side)
           all(side) == c.operation = "compare" \/ side = "first"
<1>1. \A side \in Side : /\ in[side] \in Seq(X)
                         /\ all(side) => \A T : T \subseteq 1..Len(in[side]) => Carrying(T, in[side], E[side]) = T
  BY DEF Carrying
<1>2. \A name \in Name, side \in Side :
         /\ S(name, side) \in SUBSET (1..Len(in[side])) /\ S(name, side) \in SUBSET Nat
         /\ all(side) => Carrying(S(name, side), in[side], E[side]) = S(name, side)
  <2> SUFFICES ASSUME NEW name \in Name, NEW side \in Side
               PROVE  /\ S(name, side) \in SUBSET (1..Len(in[side])) /\ S(name, side) \in SUBSET Nat
                      /\ all(side) => Carrying(S(name, side), in[side], E[side]) = S(name, side)
    OBVIOUS
  <2>1. in[side] \in Seq(X)
    BY <1>1
  <2>2. S(name, side) \in SUBSET (1..Len(in[side])) /\ S(name, side) \in SUBSET Nat
    BY <2>1, SectionsAreItems
  <2>. QED  BY <1>1, <2>2
<1>3. \A name \in Name, side \in Side : all(side) => Lists(section(name, side), S(name, side), memory)
  <2> SUFFICES ASSUME NEW name \in Name, NEW side \in Side, all(side)
               PROVE  Lists(section(name, side), S(name, side), memory)
    OBVIOUS
  <2>1. HasSection(rows, name, side, S(name, side), FALSE) /\ rows \in Seq(ResultRow)
    BY <1>2 DEF HoldsTokens
  <2>2. PICK T \in SUBSET Nat : T = S(name, side)
    BY <1>2
  <2>3. HasSection(rows, name, side, T, FALSE)
    BY <2>1, <2>2
  <2> HIDE DEF S
  <2>4. CASE memory
    <3>1. Lists(Section(rows, name, side, FALSE), T, TRUE)
      BY <2>1, <2>3, SectionOfList
    <3>2. section(name, side) = Section(rows, name, side, FALSE)
      BY <2>4 DEF Section
    <3>. QED  BY <2>2, <2>4, <3>1, <3>2 DEF Lists
  <2>5. CASE ~memory
    <3>1. Lists(Section(rows, name, side, TRUE), T, FALSE)
      BY <2>1, <2>3, SectionOfFile
    <3>2. section(name, side) = Section(rows, name, side, TRUE)
      BY <2>5 DEF Section
    <3>. QED  BY <2>2, <2>5, <3>1, <3>2 DEF Lists
  <2>. QED  BY <2>4, <2>5
<1>4. "first" \in Side /\ "second" \in Side /\ Other("first") = "second" /\ Name = {"only", "common", "duplicates"}
  BY DEF Side, Other
<1>5. CASE c.operation = "duplicates"
  <2>1. a = section("duplicates", "first")
    BY <1>5 DEF AnswerOf
  <2>2. S("duplicates", "first") = RepeatOrdinals(in["first"])
    BY <1>5 DEF SectionSet, WantsRepeats
  <2> HIDE DEF a, section, S, memory
  <2>3. Lists(a, RepeatOrdinals(in["first"]), memory)
    BY <1>3, <1>4, <2>1, <2>2
  <2>. QED  BY <1>5, <2>3 DEF ExactAnswer, a, memory
<1>6. CASE c.operation = "compare"
  <2>1. /\ a.only = [side \in Side |-> section("only", side)]
        /\ a.common = IF c.include_common THEN section("common", "first") ELSE None
        /\ a.duplicates = [side \in Side |-> IF c.include_duplicates
                                             THEN section("duplicates", side) ELSE None]
        /\ a.stats = [count |-> sizes, unique |-> counts.unique, only |-> counts.only,
                      common |-> counts.common, duplicate |-> counts.duplicate]
    BY <1>6 DEF AnswerOf
  <2>2. /\ \A side \in Side : S("only", side) = OnlyOrdinals(in[side], in[Other(side)])
        /\ c.include_common => S("common", "first") = CommonOrdinals(in["first"], in["second"])
        /\ \A side \in Side : S("duplicates", side)
                                = IF c.include_duplicates THEN RepeatOrdinals(in[side]) ELSE {}
    BY <1>4, <1>6 DEF SectionSet, WantsRepeats
  <2>3. /\ counts \in Counts
        /\ \A side \in Side :
              /\ counts.only[side] = Cardinality(S("only", side))
              /\ counts.duplicate[side] = Cardinality(S("duplicates", side))
              /\ counts.unique[side] = Cardinality(FirstOrdinals(in[side]))
        /\ counts.common = Cardinality(CommonOrdinals(in["first"], in["second"]))
    <3>1. \A side \in Side : FirstOrdinals(in[side]) \subseteq 1..Len(in[side])
      BY DEF FirstOrdinals
    <3>2. CommonOrdinals(in["first"], in["second"]) \subseteq 1..Len(in["first"])
      BY DEF CommonOrdinals, FirstOrdinals
    <3>3. /\ \A side \in Side : Carrying(FirstOrdinals(in[side]), in[side], E[side]) = FirstOrdinals(in[side])
          /\ Carrying(CommonOrdinals(in["first"], in["second"]), in["first"], E["first"])
               = CommonOrdinals(in["first"], in["second"])
      BY <1>1, <1>4, <1>6, <3>1, <3>2
    <3>4. CountsTokens(in, c, counts, E, E)
      BY <1>6
    <3>5. \A name \in Name, side \in Side : Carrying(S(name, side), in[side], E[side]) = S(name, side)
      BY <1>2, <1>6
    <3>. QED  BY <3>3, <3>4, <3>5 DEF CountsTokens
  <2>9. \A name \in Name, side \in Side : Lists(section(name, side), S(name, side), memory)
    BY <1>3, <1>6
  <2> HIDE DEF a, section, S, memory, Name
  <2>4. Cardinality({}) = 0
    BY FS_EmptySet
  <2>5. /\ counts.only = [side \in Side |-> Cardinality(OnlyOrdinals(in[side], in[Other(side)]))]
        /\ counts.duplicate = [side \in Side |-> IF c.include_duplicates
                                 THEN Cardinality(RepeatOrdinals(in[side])) ELSE 0]
        /\ counts.unique = [side \in Side |-> Cardinality(FirstOrdinals(in[side]))]
    <3>1. /\ counts.only = [side \in Side |-> counts.only[side]]
          /\ counts.duplicate = [side \in Side |-> counts.duplicate[side]]
          /\ counts.unique = [side \in Side |-> counts.unique[side]]
      BY <2>3 DEF Counts
    <3>2. \A side \in Side :
             /\ counts.only[side] = Cardinality(OnlyOrdinals(in[side], in[Other(side)]))
             /\ counts.duplicate[side] = IF c.include_duplicates
                                 THEN Cardinality(RepeatOrdinals(in[side])) ELSE 0
             /\ counts.unique[side] = Cardinality(FirstOrdinals(in[side]))
      BY <2>2, <2>3, <2>4
    <3>. QED  BY <3>1, <3>2
  <2>6. a.stats =
                [count     |-> [side \in Side |-> Len(in[side])],
                 unique    |-> [side \in Side |-> Cardinality(FirstOrdinals(in[side]))],
                 only      |-> [side \in Side |->
                                  Cardinality(OnlyOrdinals(in[side], in[Other(side)]))],
                 common    |-> Cardinality(CommonOrdinals(in["first"], in["second"])),
                 duplicate |-> [side \in Side |-> IF c.include_duplicates
                                  THEN Cardinality(RepeatOrdinals(in[side])) ELSE 0]]
    BY <1>6, <2>1, <2>3, <2>5
  <2>7. \A side \in Side :
                /\ Lists(a.only[side], OnlyOrdinals(in[side], in[Other(side)]), memory)
                /\ IF c.include_duplicates
                     THEN Lists(a.duplicates[side], RepeatOrdinals(in[side]), memory)
                     ELSE a.duplicates[side] = None
    BY <1>4, <2>1, <2>2, <2>9
  <2>8. IF c.include_common
                THEN Lists(a.common, CommonOrdinals(in["first"], in["second"]), memory)
                ELSE a.common = None
    BY <1>4, <2>1, <2>2, <2>9
  <2>. QED  BY <1>6, <2>6, <2>7, <2>8 DEF ExactAnswer, a, memory
<1>. QED  BY <1>5, <1>6

-----------------------------------------------------------------------------
(* The rows of a call's temporary file are a beginning of its result.      *)
IsBeginning(rows, content) ==
    /\ Len(rows) <= Len(content)
    /\ rows = SubSeq(content, 1, Len(rows))

(* A beginning and the row behind it are a longer beginning.               *)
LEMMA BeginningGrows ==
    ASSUME NEW Entry, NEW content \in Seq(Entry), NEW rows \in Seq(Entry),
           IsBeginning(rows, content), Len(rows) < Len(content)
    PROVE  LET grown == rows \o <<content[Len(rows) + 1]>>
           IN grown \in Seq(Entry) /\ IsBeginning(grown, content)
<1> DEFINE n == Len(rows)
           grown == rows \o <<content[n + 1]>>
<1>1. /\ n \in Nat
      /\ n + 1 \in 1..Len(content)
      /\ content[n + 1] \in Entry
  BY LenProperties, ElementOfSeq
<1>2. grown \in Seq(Entry) /\ Len(grown) = n + 1
  BY <1>1, ConcatProperties
<1>3. SubSeq(content, 1, n + 1) = SubSeq(content, 1, n) \o <<content[n + 1]>>
  <2>1. 1 \in 1..Len(content) /\ n + 1 \in 1..Len(content) /\ (n + 1) - 1 = n
    BY <1>1
  <2>. QED  BY <2>1, SubSeqRecursiveSecond
<1>4. Len(grown) <= Len(content)
  BY <1>1, <1>2
<1> HIDE DEF n
<1>. QED  BY <1>2, <1>3, <1>4 DEF IsBeginning, n

(* A beginning behind which no row is left is the whole result.            *)
LEMMA LastRowCompletes ==
    ASSUME NEW Entry, NEW content \in Seq(Entry), NEW rows \in Seq(Entry),
           IsBeginning(rows, content), ~(Len(rows) < Len(content))
    PROVE  rows = content
<1>1. Len(rows) = Len(content)
  BY LenProperties DEF IsBeginning
<1>2. SubSeq(content, 1, Len(content)) = content
  BY SubSeqFull
<1>. QED  BY <1>1, <1>2 DEF IsBeginning

(* With rows of a set Entry: an empty file is a beginning of every result.   *)
SiblingsBegin(Entry) ==
    \A w \in Writer :
        \/ sibling[w] = None
        \/ sibling[w] \in Seq(Entry) /\ IsBeginning(sibling[w], Content[w])

(* The invariant behind both theorems: a file is closed by its own call,   *)
(* after the last row, and nothing is written to it afterwards.            *)
ClosedIsWhole ==
    /\ sibling = [w \in Writer |-> sibling[w]]
    /\ session \in [Writer -> Session]
    /\ \A w \in Writer : session[w] = "closed" => sibling[w] = Content[w]

-----------------------------------------------------------------------------
(* No step closes a file that is not whole or touches a closed one.        *)
LEMMA ClosedStaysWhole ==
    ASSUME NEW Entry, Content \in [Writer -> Seq(Entry)],
           ClosedIsWhole, SiblingsBegin(Entry), [Next]_vars
    PROVE  ClosedIsWhole'
<1> USE DEF ClosedIsWhole, Session, Step
<1>1. ASSUME NEW w \in Writer, Enter(w) PROVE ClosedIsWhole'
  BY <1>1 DEF Enter
<1>2. ASSUME NEW w \in Writer, WriteNext(w) PROVE ClosedIsWhole'
  BY <1>2 DEF WriteNext, WriteRows
<1>3. ASSUME NEW w \in Writer, CloseComplete(w) PROVE ClosedIsWhole'
  <2>1. sibling[w] \in Seq(Entry) /\ IsBeginning(sibling[w], Content[w])
    BY <1>3 DEF CloseComplete, SiblingsBegin
  <2>2. sibling[w] = Content[w]
    BY <1>3, <2>1, LastRowCompletes DEF CloseComplete, RowsLeft
  <2>. QED  BY <1>3, <2>2 DEF CloseComplete, Close
<1>4. ASSUME NEW w \in Writer, Discard(w) PROVE ClosedIsWhole'
  BY <1>4 DEF Discard
<1>5. ASSUME NEW w \in Writer, Replace(w) PROVE ClosedIsWhole'
  BY <1>5 DEF Replace
<1>6. ASSUME NEW w \in Writer, EnterFails(w) PROVE ClosedIsWhole'
  BY <1>6 DEF EnterFails
<1>7. ASSUME NEW w \in Writer, BodyRaises(w) PROVE ClosedIsWhole'
  BY <1>7 DEF BodyRaises
<1>8. ASSUME NEW w \in Writer, CloseFails(w) PROVE ClosedIsWhole'
  BY <1>8 DEF CloseFails
<1>9. ASSUME NEW w \in Writer, ReplaceFails(w) PROVE ClosedIsWhole'
  BY <1>9 DEF ReplaceFails
<1>10. ASSUME NEW w \in Writer, Killed(w) PROVE ClosedIsWhole'
  BY <1>10 DEF Killed
<1>11. CASE UNCHANGED vars
  BY <1>11 DEF vars
<1>. QED  BY <1>1, <1>2, <1>3, <1>4, <1>5, <1>6, <1>7, <1>8, <1>9, <1>10, <1>11
          DEF Next, Progress, Failure

(* The states of AtomicOutput in the form in which a step keeps them.      *)
OutputInv(Entry) ==
    /\ ClosedIsWhole
    /\ SiblingsBegin(Entry)
    /\ target \in {Content[w] : w \in Writer} \cup {None}

(* Writing rows one by one, failing and publishing keep the files of all   *)
(* the writers beginnings of their results.                                *)
LEMMA OutputInvKept ==
    ASSUME NEW Entry, Content \in [Writer -> Seq(Entry)], OutputInv(Entry), [Next]_vars
    PROVE  OutputInv(Entry)'
<1>0. /\ ClosedIsWhole'
      /\ ClosedIsWhole /\ SiblingsBegin(Entry)
      /\ target \in {Content[w] : w \in Writer} \cup {None}
      /\ [Next]_vars
  BY ClosedStaysWhole DEF OutputInv
<1>1. \A w \in Writer : <<>> \in Seq(Entry) /\ IsBeginning(<<>>, Content[w])
  BY SubSeqEmpty DEF IsBeginning
<1> USE DEF ClosedIsWhole, Step
<1>2. ASSUME NEW w \in Writer, Enter(w) \/ EnterFails(w) PROVE OutputInv(Entry)'
  <2>1. /\ target' = target
        /\ \A v \in Writer : \/ sibling'[v] = sibling[v]
                             \/ sibling'[v] = None
                             \/ sibling'[v] = <<>>
    BY <1>0, <1>2 DEF Enter, EnterFails
  <2>. QED  BY <1>0, <1>1, <2>1 DEF OutputInv, SiblingsBegin
<1>3. ASSUME NEW w \in Writer, WriteNext(w) PROVE OutputInv(Entry)'
  <2>1. /\ sibling[w] \in Seq(Entry) /\ IsBeginning(sibling[w], Content[w])
        /\ Content[w] \in Seq(Entry) /\ Len(sibling[w]) < Len(Content[w])
    BY <1>0, <1>3 DEF WriteNext, RowsLeft, SiblingsBegin
  <2>2. /\ sibling'[w] = sibling[w] \o <<Content[w][Len(sibling[w]) + 1]>>
        /\ \A v \in Writer : v # w => sibling'[v] = sibling[v]
        /\ target' = target
    BY <1>0, <1>3 DEF WriteNext, WriteRows
  <2>3. sibling'[w] \in Seq(Entry) /\ IsBeginning(sibling'[w], Content[w])
    BY <2>1, <2>2, BeginningGrows
  <2>. QED  BY <1>0, <2>2, <2>3 DEF OutputInv, SiblingsBegin
<1>4. ASSUME NEW w \in Writer, Replace(w) PROVE OutputInv(Entry)'
  <2>1. target' = Content[w] /\ \A v \in Writer : sibling'[v] \in {sibling[v], None}
    BY <1>0, <1>4 DEF Replace
  <2>. QED  BY <1>0, <2>1 DEF OutputInv, SiblingsBegin
<1>5. ASSUME NEW w \in Writer,
             \/ CloseComplete(w) \/ Discard(w) \/ BodyRaises(w)
             \/ CloseFails(w) \/ ReplaceFails(w) \/ Killed(w)
      PROVE  OutputInv(Entry)'
  <2>1. target' = target /\ \A v \in Writer : sibling'[v] \in {sibling[v], None}
    BY <1>0, <1>5 DEF CloseComplete, Close, Discard, BodyRaises, CloseFails, ReplaceFails,
                      Killed, FailedFile
  <2>. QED  BY <1>0, <2>1 DEF OutputInv, SiblingsBegin
<1>6. CASE UNCHANGED vars
  BY <1>0, <1>6 DEF vars, OutputInv, SiblingsBegin
<1>. QED  BY <1>0, <1>2, <1>3, <1>4, <1>5, <1>6 DEF Next, Progress, Failure

(* "If writing fails, the final output path is not replaced"               *)
(* (docs/limitations-security.md), for any number of concurrent writers:   *)
(* only os.replace of a whole file changes the path.                       *)
THEOREM PathHoldsWholeResults ==
    ASSUME NEW Entry, Content \in [Writer -> Seq(Entry)]
    PROVE  Spec => PublishedWhole
<1>1. Init => OutputInv(Entry)
  BY DEF Init, OutputInv, ClosedIsWhole, SiblingsBegin, Session
<1>2. ClosedIsWhole /\ [Next]_vars => [PublishesWhole]_vars
  <2> SUFFICES ASSUME ClosedIsWhole, Next, target' # target
               PROVE  \E w \in Writer : /\ session[w] # "done"
                                        /\ session'[w] = "done"
                                        /\ target' = Content[w]
    BY DEF PublishesWhole
  <2>1. PICK w \in Writer : Replace(w)
    BY DEF Next, Progress, Failure, Enter, WriteNext, WriteRows, CloseComplete, Close,
           Discard, EnterFails, BodyRaises, CloseFails, ReplaceFails, Killed
  <2>2. session[w] = "closed" /\ session'[w] = "done" /\ target' = sibling[w]
    BY <2>1 DEF Replace, Step, ClosedIsWhole
  <2>. WITNESS w \in Writer
  <2>. QED  BY <2>2 DEF ClosedIsWhole
<1>3. OutputInv(Entry) /\ [Next]_vars => OutputInv(Entry)'
  BY OutputInvKept
<1>4. OutputInv(Entry) => ClosedIsWhole
  BY DEF OutputInv
<1>. QED  BY <1>1, <1>2, <1>3, <1>4, PTL DEF Spec, PublishedWhole

(* At every moment, and whoever fails or is killed, a temporary file holds *)
(* a beginning of its own call's result and the path one whole result or   *)
(* what it held before.                                                    *)
THEOREM FilesHoldBeginnings ==
    ASSUME NEW Entry, Content \in [Writer -> Seq(Entry)]
    PROVE  Spec => []TypeOK
<1>1. Init => OutputInv(Entry)
  BY DEF Init, OutputInv, ClosedIsWhole, SiblingsBegin, Session
<1>2. OutputInv(Entry) /\ [Next]_vars => OutputInv(Entry)'
  BY OutputInvKept
<1>3. OutputInv(Entry) => TypeOK
  BY DEF OutputInv, SiblingsBegin, IsBeginning, ClosedIsWhole, TypeOK
<1>. QED  BY <1>1, <1>2, <1>3, PTL DEF Spec
===============================================================================
