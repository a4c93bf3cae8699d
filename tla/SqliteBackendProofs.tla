-------------------------- MODULE SqliteBackendProofs --------------------------
(***************************************************************************)
(* For all inputs, options, chunk sizes and limits: the SQLite backend     *)
(* implements the comparison contract, its database outgrows the limit by  *)
(* no more than SQLite's cache, and a failing call leaves nothing behind.  *)
(***************************************************************************)
EXTENDS SqliteBackend, FiniteSetTheorems, SequenceTheorems, TLAPS

(* The ways a call fails. *)
Causes == {"make", "limit", "insert", "query", "output", "cleanup"}

Sequel == {"make", "open", "insert_first", "insert_second", "index", "fetch", "write",
           "close", "cleanup", "returned", "raised"}

Ended == {"cleanup", "returned", "raised"}

(* The database is made first and removed last, and every error in between *)
(* goes through the finally block.                                         *)
DatabaseIsKnown ==
    /\ phase = "make" => ~onDisk
    /\ phase \in {"returned", "raised"} /\ error # "cleanup" => ~onDisk

(* No error is in flight while the call goes on, except one that the       *)
(* writer's __exit__ will see; and only a writer without one publishes.    *)
OneErrorPath ==
    /\ session = [w \in Call |-> session[w]]
    /\ phase \notin {"close", "cleanup", "returned", "raised"} => error = None
    /\ phase = "close" => error = None \/ session["call"] = "failing"
    /\ session["call"] # "done" => target = None
    /\ session["call"] = "done" => phase \in Ended /\ error \in {None, "cleanup"}

FailureInv == phase \in Sequel /\ DatabaseIsKnown /\ OneErrorPath

-----------------------------------------------------------------------------
(* The steps of the insert phases touch neither the writer nor the file.   *)
LEMMA Inserting ==
    ASSUME NEW side \in Side,
           ReadItem(side) \/ InsertBatch(side) \/ Commit(side) \/ InsertRaises(side)
    PROVE  /\ phase \in {"insert_first", "insert_second"}
           /\ \/ phase' \in {phase, "insert_second", "index"} /\ error' = error
              \/ phase' = "cleanup" /\ error' \in {"limit", "insert"}
           /\ UNCHANGED <<config, onDisk, target, session>>
  BY DEF ReadItem, InsertBatch, BatchIsDue, Commit, InsertRaises, InsertPhase, NextPhase, Fail,
         call, output

(* Nothing that fails skips the finally block, and nothing is published    *)
(* with an error in flight, nor raised after it but by the cleanup.        *)
LEMMA FailureInvKept ==
    ASSUME None \notin Causes,
           FailureInv, [Next]_vars
    PROVE  FailureInv'
<1> USE DEF FailureInv, Sequel, Ended, DatabaseIsKnown, Causes
<1>1. ASSUME MakeDatabase \/ OpenDatabase \/ CreateIndexes PROVE FailureInv'
  BY <1>1 DEF MakeDatabase, OpenDatabase, CreateIndexes, OneErrorPath, output
<1>2. ASSUME MakeFails \/ QueryRaises PROVE FailureInv'
  BY <1>2 DEF MakeFails, QueryRaises, Fail, OneErrorPath, output
<1>3. ASSUME NEW side \in Side,
             ReadItem(side) \/ InsertBatch(side) \/ Commit(side) \/ InsertRaises(side)
      PROVE  FailureInv'
  BY <1>3, Inserting DEF OneErrorPath
<1>4. ASSUME FetchSection PROVE FailureInv'
  BY <1>4 DEF FetchSection, OneErrorPath, output
<1>5. ASSUME CountTokens \/ OpenWriterFails PROVE FailureInv'
  BY <1>5 DEF CountTokens, OpenWriterFails, Fail, OneErrorPath, output, Out!Enter,
              Out!EnterFails, Out!Step, Call
<1>6. ASSUME WriteSection \/ FinishWriting PROVE FailureInv'
  BY <1>6 DEF WriteSection, FinishWriting, OneErrorPath, output, Out!WriteRows
<1>7. ASSUME WriteRaises PROVE FailureInv'
  BY <1>7 DEF WriteRaises, OneErrorPath, Out!BodyRaises, Out!Step, Call
<1>8. ASSUME CloseWriter \/ ExitWriter PROVE FailureInv'
  BY <1>8 DEF CloseWriter, ExitWriter, OneErrorPath, Out!Close, Out!Replace, Out!Discard,
              Out!Step, Call
<1>9. ASSUME ExitWriterFails PROVE FailureInv'
  BY <1>9 DEF ExitWriterFails, Fail, OneErrorPath, Out!CloseFails, Out!ReplaceFails, Out!Step,
              Call
<1>10. ASSUME CleanUp \/ CleanUpFails PROVE FailureInv'
  BY <1>10 DEF CleanUp, CleanUpFails, OneErrorPath, output
<1>11. CASE UNCHANGED vars
  BY <1>11 DEF vars, OneErrorPath, output
<1>. QED  BY <1>1, <1>2, <1>3, <1>4, <1>5, <1>6, <1>7, <1>8, <1>9, <1>10, <1>11
          DEF Next, Progress, Failure

(* A database is removed however the call ends, short of a cleanup that    *)
(* fails itself, and a failed call leaves the output path as it was, for   *)
(* every input, option, chunk size and limit (compare_sqlite and its *)
(* finally block).                                                         *)
THEOREM DatabaseIsRemoved ==
    ASSUME None \notin Causes
    PROVE  Spec => []FailureLeavesNoTrace
<1>1. Init => FailureInv
  BY DEF Init, Out!Init, Call, FailureInv, Sequel, DatabaseIsKnown, OneErrorPath
<1>2. FailureInv /\ [Next]_vars => FailureInv'
  BY FailureInvKept
<1>3. FailureInv => FailureLeavesNoTrace
  BY DEF FailureInv, DatabaseIsKnown, OneErrorPath, FailureLeavesNoTrace
<1>. QED  BY <1>1, <1>2, <1>3, PTL DEF Spec

-----------------------------------------------------------------------------
(* The options are the call's, and rows are counted in numbers. *)
Counting ==
    /\ config \in Configs
    /\ table \in [Side -> Seq(Nat)]
    /\ batch \in Seq(Nat)
    /\ itemCount \in [Side -> Nat]

(* The schema is the first that is in the file. *)
LimitInv ==
    /\ phase \in {"make", "open"} => table = [side \in Side |-> <<>>]
    /\ DiskLimitEnforced

(* A tree has a number of pages. *)
LEMMA PagesAreCounted ==
    ASSUME NEW t \in [Side -> Seq(Nat)] PROVE DatabasePages(t) \in Int
<1>1. ASSUME NEW n \in Nat PROVE TablePages(n) \in Int
  <2>1. \A size \in Int, page \in Nat \ {0} : size \div page \in Int
    OBVIOUS
  <2>2. n * RowSize + PageSize - 1 \in Int
    BY SizesArePositive
  <2> DEFINE size == n * RowSize + PageSize - 1
  <2>3. size \div PageSize \in Int
    <3> HIDE DEF size
    <3>. QED  BY <2>1, <2>2, SizesArePositive DEF size
  <2> DEFINE pages == size \div PageSize
  <2> HIDE DEF pages
  <2>4. 1 \in Int /\ 1 + pages \in Int
    BY <2>3 DEF pages
  <2>. QED  BY <2>4 DEF TablePages, pages
<1>2. \A side \in Side : TablePages(Len(t[side])) \in Int
  BY <1>1, LenProperties
<1> DEFINE pages(side) == TablePages(Len(t[side]))
<1> HIDE DEF pages
<1>3. pages("first") \in Int /\ pages("second") \in Int
  BY <1>2 DEF Side, pages
<1>4. 1 + pages("first") + (IF "second" \in Tables THEN pages("second") ELSE 0) \in Int
  BY <1>3
<1>. QED  BY <1>4 DEF DatabasePages, pages

(* The empty tables fit into the cache. *)
LEMMA SchemaFits ==
    ASSUME NEW t, t = [side \in Side |-> <<>>] PROVE DatabasePages(t) <= CachePages
<1>1. Len(t["first"]) = 0 /\ Len(t["second"]) = 0
  BY EmptySeq DEF Side
<1>2. TablePages(0) = 1
  BY SizesArePositive DEF TablePages
<1>3. DatabasePages(t) = 1 + 1 + (IF "second" \in Tables THEN 1 ELSE 0)
  BY <1>1, <1>2 DEF DatabasePages
<1>. QED  BY <1>3, CacheHoldsSchema

(* Every step leaves rows and their numbers what they are. *)
LEMMA CountingKept == ASSUME Counting, [Next]_vars PROVE Counting'
<1>1. ASSUME NEW side \in Side, ReadItem(side) PROVE Counting'
  <2>1. itemCount[side] + 1 \in Nat
    BY DEF Counting
  <2>2. Append(batch, itemCount[side] + 1) \in Seq(Nat)
    BY <2>1, AppendProperties DEF Counting
  <2>. QED  BY <1>1, <2>1, <2>2 DEF ReadItem, Counting, call
<1>2. ASSUME NEW side \in Side, InsertBatch(side) PROVE Counting'
  <2>1. table[side] \o batch \in Seq(Nat)
    BY ConcatProperties DEF Counting
  <2>. QED  BY <1>2, <2>1, EmptySeq DEF InsertBatch, Counting, call
<1>3. CASE UNCHANGED <<config, table, batch, itemCount>>
  BY <1>3 DEF Counting
<1>. QED  BY <1>1, <1>2, <1>3
          DEF Next, Progress, Failure, MakeDatabase, OpenDatabase, Commit, CreateIndexes,
              FetchSection, CountTokens, WriteSection, FinishWriting, CloseWriter, ExitWriter,
              CleanUp, MakeFails, InsertRaises, QueryRaises, OpenWriterFails, WriteRaises,
              ExitWriterFails, CleanUpFails, vars, call, inserts

(* A batch that goes on was seen but for the cache. *)
LEMMA BatchIsSeen ==
    ASSUME Counting, Counting', NEW side \in Side, InsertBatch(side), phase' # "cleanup"
    PROVE  config.disk_limit # NoLimit =>
              DatabasePages(table') <= config.disk_limit + CachePages
<1> SUFFICES ASSUME config.disk_limit # NoLimit
             PROVE  DatabasePages(table') <= config.disk_limit + CachePages
  OBVIOUS
<1> DEFINE pages == DatabasePages(table')
           limit == config.disk_limit
<1>1. pages \in Int
  BY PagesAreCounted DEF Counting
<1>2. limit \in Nat
  BY ConfigsAreOptions DEF Counting
<1>3. fileSize' \in Spill(table') /\ ~OverLimit(fileSize')
  BY DEF InsertBatch, Fail
<1>4. fileSize' \in (pages - CachePages)..pages /\ ~(fileSize' > limit)
  BY <1>3 DEF Spill, OverLimit
<1> HIDE DEF pages, limit
<1>. QED  BY <1>1, <1>2, <1>4, CacheHoldsSchema DEF pages, limit

(* Rows come into the database with a check behind them. *)
LEMMA LimitKept ==
    ASSUME Counting, Counting', LimitInv, [Next]_vars
    PROVE  LimitInv'
<1> DEFINE inserting(p) == p \in {"insert_first", "insert_second", "index"}
           early(p) == p \in {"make", "open"}
<1> USE DEF LimitInv, DiskLimitEnforced
<1>1. CASE OpenDatabase
  <2>1. table' = [side \in Side |-> <<>>] /\ config' = config /\ phase' = "insert_first"
    BY <1>1 DEF OpenDatabase, call
  <2>2. DatabasePages(table') <= CachePages /\ DatabasePages(table') \in Int
    BY <2>1, SchemaFits, PagesAreCounted DEF Counting
  <2>3. config.disk_limit # NoLimit => config.disk_limit \in Nat
    BY ConfigsAreOptions DEF Counting
  <2>4. DatabasePages(table)' = DatabasePages(table')
    BY <2>1 DEF DatabasePages, Tables
  <2> DEFINE pages == DatabasePages(table')
  <2> HIDE DEF pages
  <2>5. config.disk_limit # NoLimit => pages <= config.disk_limit + CachePages
    BY <2>2, <2>3, CacheHoldsSchema DEF pages
  <2>. QED  BY <2>1, <2>4, <2>5 DEF pages
<1>2. ASSUME NEW side \in Side, InsertBatch(side) PROVE LimitInv'
  <2>1. config' = config /\ phase' \in {phase, "cleanup"} /\ ~early(phase)
    BY <1>2 DEF InsertBatch, BatchIsDue, InsertPhase, Fail, call
  <2>2. DatabasePages(table)' = DatabasePages(table')
    BY <2>1 DEF DatabasePages, Tables
  <2>3. CASE phase' = "cleanup"
    BY <2>3
  <2>4. CASE phase' # "cleanup"
    BY <1>2, <2>1, <2>2, <2>4, BatchIsSeen
  <2>. QED  BY <2>3, <2>4
<1>3. CASE /\ UNCHANGED <<config, table>>
           /\ inserting(phase') => inserting(phase)
           /\ early(phase') => early(phase)
  <2>1. DatabasePages(table)' = DatabasePages(table)
    BY <1>3 DEF DatabasePages, Tables
  <2>. QED  BY <1>3, <2>1
<1>4. ASSUME NEW side \in Side, Commit(side) PROVE LimitInv'
  BY <1>3, <1>4 DEF Commit, InsertPhase, NextPhase, call
<1>. QED  BY <1>1, <1>2, <1>3, <1>4
          DEF Next, Progress, Failure, MakeDatabase, ReadItem, CreateIndexes, FetchSection,
              CountTokens, WriteSection, FinishWriting, CloseWriter, ExitWriter, CleanUp,
              MakeFails, InsertRaises, QueryRaises, OpenWriterFails, WriteRaises,
              ExitWriterFails, CleanUpFails, Fail, InsertPhase, vars, call, inserts

(* For every input, chunk size, limit, row size and cache, and whatever    *)
(* part of an open transaction SQLite has written when the check asks: the *)
(* database outgrows disk_limit by what the cache holds, at most, for as   *)
(* long as rows are inserted (_insert_items, _check_disk_limit).           *)
THEOREM LimitIsEnforced == Spec => []DiskLimitEnforced
<1> DEFINE Inv == Counting /\ LimitInv
<1>1. Init => Inv
  BY EmptySeq DEF Init, Counting, LimitInv, DiskLimitEnforced
<1>2. Inv /\ [Next]_vars => Inv'
  BY CountingKept, LimitKept
<1>3. Inv => DiskLimitEnforced
  BY DEF LimitInv
<1>. QED  BY <1>1, <1>2, <1>3, PTL DEF Spec

-----------------------------------------------------------------------------
(* Different numbers on the members of R, and how many members have a *)
(* smaller one.                                                       *)
Numbers(R, f) == f \in [R -> Int] /\ \A i, j \in R : f[i] = f[j] => i = j

Rank(R, f, i) == Cardinality({j \in R : f[j] < f[i]})

(* The ranks are 0, 1, ..., each the rank of one member. *)
LEMMA RanksAreNumbers ==
    ASSUME NEW R, IsFiniteSet(R), NEW f, Numbers(R, f)
    PROVE  /\ Cardinality(R) \in Nat
           /\ \A i \in R : Rank(R, f, i) \in 0..(Cardinality(R) - 1)
           /\ \A i, j \in R : f[i] < f[j] <=> Rank(R, f, i) < Rank(R, f, j)
           /\ \A i, j \in R : Rank(R, f, i) = Rank(R, f, j) => i = j
           /\ \A r \in 0..(Cardinality(R) - 1) : \E i \in R : Rank(R, f, i) = r
<1> DEFINE n == Cardinality(R)
           Below(i) == {j \in R : f[j] < f[i]}
           rank(i) == Cardinality(Below(i))
<1>1. n \in Nat
  BY FS_CardinalityType
<1>2. (\A i \in R : f[i] \in Int) /\ (\A i, j \in R : f[i] = f[j] => i = j)
  BY DEF Numbers
<1>3. \A i \in R : IsFiniteSet(Below(i)) /\ rank(i) \in Nat
  <2> TAKE i \in R
  <2>1. Below(i) \in SUBSET R
    OBVIOUS
  <2>. QED  BY <2>1, FS_Subset, FS_CardinalityType
<1>4. \A i \in R : rank(i) \in 0..(n - 1)
  <2> TAKE i \in R
  <2>1. Below(i) \subseteq R \ {i}
    BY <1>2
  <2>2. IsFiniteSet(R \ {i}) /\ Cardinality(R \ {i}) = n - 1
    BY FS_RemoveElement
  <2>3. rank(i) <= Cardinality(R \ {i})
    BY <2>1, <2>2, FS_Subset
  <2>4. rank(i) \in Nat
    BY <1>3
  <2> HIDE DEF rank, n
  <2>. QED  BY <1>1, <2>2, <2>3, <2>4
<1>5. \A i, j \in R : f[i] < f[j] => rank(i) < rank(j)
  <2> SUFFICES ASSUME NEW i \in R, NEW j \in R, f[i] < f[j] PROVE rank(i) < rank(j)
    OBVIOUS
  <2> DEFINE S == Below(i) \cup {i}
  <2>1. S \subseteq Below(j) /\ i \notin Below(i)
    BY <1>2
  <2>2. IsFiniteSet(S) /\ Cardinality(S) = rank(i) + 1
    BY <2>1, <1>3, FS_AddElement
  <2>3. Cardinality(S) <= rank(j)
    <3> HIDE DEF S, Below
    <3>. QED  BY <2>1, <1>3, FS_Subset
  <2>4. rank(i) \in Nat /\ rank(j) \in Nat
    BY <1>3
  <2> HIDE DEF rank, S
  <2>. QED  BY <2>2, <2>3, <2>4
<1> HIDE DEF rank, Below
<1>6. \A i, j \in R : rank(i) = rank(j) => i = j
  <2> SUFFICES ASSUME NEW i \in R, NEW j \in R, rank(i) = rank(j), i # j PROVE FALSE
    OBVIOUS
  <2>1. f[i] < f[j] \/ f[j] < f[i]
    BY <1>2
  <2>2. rank(i) \in Nat /\ (rank(i) < rank(j) \/ rank(j) < rank(i))
    BY <1>3, <1>5, <2>1
  <2>. QED  BY <2>2
<1>7. \A i, j \in R : rank(i) < rank(j) => f[i] < f[j]
  <2> SUFFICES ASSUME NEW i \in R, NEW j \in R, rank(i) < rank(j) PROVE f[i] < f[j]
    OBVIOUS
  <2>1. rank(i) \in Nat /\ rank(j) \in Nat
    BY <1>3
  <2>2. ~(f[j] < f[i]) /\ i # j
    BY <1>5, <2>1
  <2>. QED  BY <1>2, <2>2
<1>8. \A r \in 0..(n - 1) : \E i \in R : rank(i) = r
  <2> DEFINE g == [i \in R |-> rank(i)]
             T == 0..(n - 1)
  <2>1. IsFiniteSet(T) /\ Cardinality(T) = n
    <3> HIDE DEF n
    <3>1. n - 1 \in Int /\ n \in Nat
      BY <1>1
    <3>2. /\ IsFiniteSet(0..(n - 1))
          /\ Cardinality(0..(n - 1)) = IF 0 > n - 1 THEN 0 ELSE n - 1 - 0 + 1
      BY <3>1, FS_Interval
    <3>. QED  BY <3>1, <3>2
  <2>2. g \in Injection(R, T)
    BY <1>4, <1>6 DEF Injection, IsInjective
  <2>3. g \in Surjection(R, T)
    BY <2>1, <2>2, FS_Injection
  <2>4. \A r \in T : \E i \in R : g[i] = r
    BY <2>3 DEF Surjection
  <2>. QED  BY <2>4
<1>9. \A i : Rank(R, f, i) = rank(i)
  BY DEF Rank, rank, Below
<1> HIDE DEF n
<1>. QED  BY <1>1, <1>4, <1>5, <1>6, <1>7, <1>8, <1>9 DEF n

(* A function on the first numbers is a sequence. *)
LEMMA FunctionIsList ==
    ASSUME NEW n \in Nat, NEW S, NEW q \in [1..n -> S]
    PROVE  q \in Seq(S) /\ Len(q) = n
<1>1. q \in UNION {[1..m -> S] : m \in Nat}
  OBVIOUS
<1>2. q \in Seq(S)
  BY <1>1, SeqDef
<1>3. Len(q) \in Nat /\ DOMAIN q = 1..Len(q) /\ DOMAIN q = 1..n
  BY <1>2, LenProperties
<1>4. Len(q) = n
  BY <1>3
<1>. QED  BY <1>2, <1>4

(* When it takes every member of a set once it lists the set. *)
LEMMA OneToOneLists ==
    ASSUME NEW n \in Nat, NEW S, NEW q \in [1..n -> S],
           \A k, l \in 1..n : q[k] = q[l] => k = l,
           \A i \in S : \E k \in 1..n : q[k] = i
    PROVE  q \in Seq(S) /\ Len(q) = n /\ Enumerates(q, S)
<1>1. q \in Seq(S) /\ Len(q) = n
  BY FunctionIsList
<1>2. q \in Bijection(1..n, S)
  BY DEF Bijection, Injection, Surjection, IsInjective
<1>. QED  BY <1>1, <1>2 DEF Enumerates

(* A list that has each member at its rank lists them by their numbers. *)
LEMMA ByRank ==
    ASSUME NEW R, IsFiniteSet(R), NEW f, Numbers(R, f),
           NEW q \in [1..Cardinality(R) -> R],
           \A k \in 1..Cardinality(R) : Rank(R, f, q[k]) = k - 1
    PROVE  /\ Len(q) = Cardinality(R) /\ q \in Seq(R) /\ Enumerates(q, R)
           /\ \A k, l \in 1..Len(q) : k < l => f[q[k]] < f[q[l]]
<1> DEFINE n == Cardinality(R)
           rank(i) == Rank(R, f, i)
<1>1. /\ n \in Nat
      /\ \A i \in R : rank(i) \in 0..(n - 1)
      /\ \A i, j \in R : f[i] < f[j] <=> rank(i) < rank(j)
      /\ \A i, j \in R : rank(i) = rank(j) => i = j
  BY RanksAreNumbers
<1>2. q \in [1..n -> R] /\ \A k \in 1..n : q[k] \in R /\ rank(q[k]) = k - 1
  OBVIOUS
<1> HIDE DEF n, rank
<1>6. \A k, l \in 1..n : q[k] = q[l] => k = l
  <2> SUFFICES ASSUME NEW k \in 1..n, NEW l \in 1..n, q[k] = q[l] PROVE k = l
    OBVIOUS
  <2>1. k - 1 = l - 1
    BY <1>2
  <2>. QED  BY <2>1, <1>1
<1>7. \A i \in R : \E k \in 1..n : q[k] = i
  <2> TAKE i \in R
  <2>1. rank(i) + 1 \in 1..n /\ (rank(i) + 1) - 1 = rank(i)
    BY <1>1
  <2>2. q[rank(i) + 1] \in R /\ rank(q[rank(i) + 1]) = rank(i)
    BY <2>1, <1>2
  <2>3. q[rank(i) + 1] = i
    BY <2>2, <1>1
  <2>. QED  BY <2>1, <2>3
<1>8. \A k, l \in 1..n : k < l => f[q[k]] < f[q[l]]
  <2> SUFFICES ASSUME NEW k \in 1..n, NEW l \in 1..n, k < l PROVE f[q[k]] < f[q[l]]
    OBVIOUS
  <2>1. rank(q[k]) = k - 1 /\ rank(q[l]) = l - 1 /\ q[k] \in R /\ q[l] \in R
    BY <1>2
  <2>2. rank(q[k]) < rank(q[l])
    BY <1>1, <2>1
  <2>. QED  BY <2>1, <2>2, <1>1
<1>9. Len(q) = n /\ q \in Seq(R) /\ Enumerates(q, R)
  BY <1>1, <1>2, <1>6, <1>7, OneToOneLists
<1>. QED  BY <1>8, <1>9 DEF n

(* Every rank is taken by a member. *)
LEMMA RanksAreTaken ==
    ASSUME NEW R, IsFiniteSet(R), NEW f, Numbers(R, f)
    PROVE  /\ Cardinality(R) \in Nat
           /\ \A r \in 0..(Cardinality(R) - 1) : \E i \in R : Rank(R, f, i) = r
  BY RanksAreNumbers

(* The members of a finite set of numbers, each once and in order. *)
LEMMA InOrderLists ==
    ASSUME NEW S, IsFiniteSet(S), S \subseteq Nat
    PROVE  /\ Lists(InOrder(S), S, TRUE)
           /\ Len(InOrder(S)) = Cardinality(S)
           /\ InOrder(S) \in Seq(S)
<1>0. ASSUME NEW g, Numbers(S, g)
      PROVE  /\ Cardinality(S) \in Nat
             /\ \A r \in 0..(Cardinality(S) - 1) : \E i \in S : Rank(S, g, i) = r
  BY <1>0, RanksAreTaken
<1> PICK f : f = [i \in S |-> i]
  OBVIOUS
<1> DEFINE q == InOrder(S)
           n == Cardinality(S)
           below(i) == Cardinality({j \in S : j < i})
           rank(i) == Rank(S, f, i)
<1>1. Numbers(S, f)
  BY DEF Numbers
<1>2. \A i \in S : rank(i) = below(i)
  <2> TAKE i \in S
  <2>1. {j \in S : f[j] < f[i]} = {j \in S : j < i}
    OBVIOUS
  <2>. QED  BY <2>1 DEF Rank
<1>3. q = [k \in 1..n |-> CHOOSE i \in S : below(i) = k - 1]
  BY DEF InOrder
<1>4. n \in Nat /\ \A r \in 0..(n - 1) : \E i \in S : rank(i) = r
  <2>1. /\ Cardinality(S) \in Nat
        /\ \A r \in 0..(Cardinality(S) - 1) : \E i \in S : Rank(S, f, i) = r
    BY <1>0, <1>1
  <2>. QED  BY <2>1
<1>5. \A i \in S : f[i] = i
  OBVIOUS
<1> HIDE DEF q, n, below, rank
<1>6. \A k \in 1..n : q[k] \in S /\ rank(q[k]) = k - 1
  <2> TAKE k \in 1..n
  <2>1. k - 1 \in 0..(n - 1)
    BY <1>4
  <2>2. \E i \in S : below(i) = k - 1
    BY <2>1, <1>2, <1>4
  <2>3. q[k] \in S /\ below(q[k]) = k - 1
    BY <2>2, <1>3
  <2>. QED  BY <2>3, <1>2
<1>7. q \in [1..n -> S]
  BY <1>3, <1>6
<1>8. /\ Len(q) = Cardinality(S) /\ q \in Seq(S) /\ Enumerates(q, S)
      /\ \A k, l \in 1..Len(q) : k < l => f[q[k]] < f[q[l]]
  BY <1>1, <1>6, <1>7, ByRank DEF n, rank
<1>9. \A k \in 1..Len(q) : q[k] \in S
  BY <1>8, ElementOfSeq
<1>10. Ascending(q)
  BY <1>5, <1>8, <1>9 DEF Ascending
<1>. QED  BY <1>8, <1>10 DEF Lists, q

(* A row of a result: its section, its side and its ordinal. *)
ResultRow == [section : {"only", "common", "duplicates"}, side : Side, ordinal : Nat]

(* The places of the rows of a section. *)
PlacesOf(rows, name, side) ==
    {k \in 1..Len(rows) : rows[k].section = name /\ rows[k].side = side}

(* A list of rows has the rows of a section that lists S in order. *)
HasSection(rows, name, side, S) ==
    /\ \A k \in PlacesOf(rows, name, side) : rows[k].ordinal \in S
    /\ \A i \in S : \E k \in PlacesOf(rows, name, side) : rows[k].ordinal = i
    /\ \A k, l \in PlacesOf(rows, name, side) : k < l => rows[k].ordinal < rows[l].ordinal

(* What a caller reads back from the rows is the section they hold. *)
LEMMA SectionLists ==
    ASSUME NEW rows \in Seq(ResultRow), NEW name, NEW side, NEW S \in SUBSET Nat,
           HasSection(rows, name, side, S)
    PROVE  Lists(Section(rows, name, side, TRUE), S, TRUE)
<1> DEFINE places == PlacesOf(rows, name, side)
           at == InOrder(places)
           chosen == EntriesAt(rows, places)
           q == [k \in 1..Len(chosen) |-> chosen[k].ordinal]
           n == Len(at)
<1>1. Section(rows, name, side, TRUE) = q
  BY DEF Section, PlacesOf
<1>2. places \subseteq Nat /\ IsFiniteSet(places) /\ places \subseteq 1..Len(rows)
  <2>1. Len(rows) \in Nat
    BY LenProperties
  <2>2. IsFiniteSet(1..Len(rows))
    BY <2>1, FS_Interval
  <2>. QED  BY <2>1, <2>2, FS_Subset DEF PlacesOf
<1>3. Lists(at, places, TRUE) /\ at \in Seq(places)
  <2> HIDE DEF places
  <2>. QED  BY <1>2, InOrderLists
<1>4. chosen = [k \in 1..n |-> rows[at[k]]]
  BY DEF EntriesAt
<1>5. /\ \A k \in places : rows[k].ordinal \in S
      /\ \A i \in S : \E k \in places : rows[k].ordinal = i
      /\ \A k, l \in places : k < l => rows[k].ordinal < rows[l].ordinal
      /\ \A k \in places : rows[k] \in ResultRow
  BY <1>2, ElementOfSeq DEF HasSection
<1> HIDE DEF places, at, chosen, q
<1>6. n \in Nat /\ \A k \in 1..n : at[k] \in places
  BY <1>3, LenProperties, ElementOfSeq
<1>7. /\ \A i \in places : \E k \in 1..n : at[k] = i
      /\ \A k, l \in 1..n : k < l => at[k] < at[l]
  BY <1>3 DEF Lists, Ascending, Enumerates, Bijection, Surjection
<1> HIDE DEF n
<1>8. Len(chosen) = n
  <2>1. chosen \in [1..n -> ResultRow]
    BY <1>4, <1>5, <1>6
  <2>. QED  BY <1>6, <2>1, FunctionIsList
<1>9. q = [k \in 1..n |-> rows[at[k]].ordinal]
  BY <1>4, <1>8 DEF q
<1>10. q \in [1..n -> S]
  BY <1>5, <1>6, <1>9
<1>11. \A k, l \in 1..n : k < l => q[k] < q[l]
  <2> SUFFICES ASSUME NEW k \in 1..n, NEW l \in 1..n, k < l PROVE q[k] < q[l]
    OBVIOUS
  <2>1. at[k] < at[l] /\ at[k] \in places /\ at[l] \in places
    BY <1>6, <1>7
  <2>. QED  BY <2>1, <1>5, <1>9
<1>12. \A k, l \in 1..n : q[k] = q[l] => k = l
  <2> SUFFICES ASSUME NEW k \in 1..n, NEW l \in 1..n, q[k] = q[l], k # l PROVE FALSE
    OBVIOUS
  <2>1. k < l \/ l < k
    BY <1>6
  <2>2. q[k] < q[l] \/ q[l] < q[k]
    BY <1>11, <2>1
  <2>3. q[k] \in Nat
    BY <1>10
  <2>. QED  BY <2>2, <2>3
<1>13. \A i \in S : \E k \in 1..n : q[k] = i
  <2> TAKE i \in S
  <2>1. PICK p \in places : rows[p].ordinal = i
    BY <1>5
  <2>2. PICK k \in 1..n : at[k] = p
    BY <1>7
  <2>. QED  BY <2>1, <2>2, <1>9
<1>14. Len(q) = n /\ Enumerates(q, S)
  BY <1>6, <1>10, <1>12, <1>13, OneToOneLists
<1>. QED  BY <1>1, <1>11, <1>14 DEF Lists, Ascending

(* A section is a list of rows, one for each ordinal. *)
LEMMA SectionIsAList ==
    ASSUME NEW name \in {"only", "common", "duplicates"},
           NEW side \in Side, NEW ordinals \in Seq(Nat)
    PROVE  /\ Rows(name, side, ordinals) \in Seq(ResultRow)
           /\ Len(Rows(name, side, ordinals)) = Len(ordinals)
<1> DEFINE more == Rows(name, side, ordinals)
           n == Len(ordinals)
<1>1. n \in Nat /\ \A k \in 1..n : ordinals[k] \in Nat
  BY LenProperties, ElementOfSeq
<1>2. more = [k \in 1..n |-> Row(name, side, ordinals[k])]
  BY DEF Rows
<1> HIDE DEF n, more
<1>3. more \in [1..n -> ResultRow]
  BY <1>1, <1>2 DEF ResultRow, Row
<1>4. more \in Seq(ResultRow) /\ Len(more) = n
  BY <1>1, <1>3, FunctionIsList
<1>. QED  BY <1>4 DEF n, more

(* What the writer holds stays a list of rows, longer by the section.      *)
LEMMA RowsExtended ==
    ASSUME NEW rows \in Seq(ResultRow), NEW name \in {"only", "common", "duplicates"},
           NEW side \in Side, NEW ordinals \in Seq(Nat)
    PROVE  /\ rows \o Rows(name, side, ordinals) \in Seq(ResultRow)
           /\ Len(Rows(name, side, ordinals)) = Len(ordinals)
BY SectionIsAList, ConcatProperties

(* Where the rows of a section are once the rows of one are appended. *)
LEMMA RowsAppended ==
    ASSUME NEW rows \in Seq(ResultRow), NEW name \in {"only", "common", "duplicates"},
           NEW side \in Side, NEW ordinals \in Seq(Nat)
    PROVE  /\ rows \o Rows(name, side, ordinals) \in Seq(ResultRow)
           /\ Len(Rows(name, side, ordinals)) = Len(ordinals)
           /\ Len(rows \o Rows(name, side, ordinals)) = Len(rows) + Len(ordinals)
           /\ \A k \in 1..Len(rows) : (rows \o Rows(name, side, ordinals))[k] = rows[k]
           /\ \A k \in 1..Len(ordinals) :
                (rows \o Rows(name, side, ordinals))[Len(rows) + k] = Row(name, side, ordinals[k])
<1> DEFINE more == Rows(name, side, ordinals)
           n == Len(ordinals)
<1>1. n \in Nat /\ \A k \in 1..n : ordinals[k] \in Nat
  BY LenProperties, ElementOfSeq
<1>2. more = [k \in 1..n |-> Row(name, side, ordinals[k])]
  BY DEF Rows
<1> HIDE DEF n, more
<1>4. more \in Seq(ResultRow) /\ Len(more) = n
  <2>1. n = Len(ordinals) /\ more = Rows(name, side, ordinals)
    BY DEF n, more
  <2>. QED  BY <2>1, SectionIsAList
<1>5. /\ rows \o more \in Seq(ResultRow)
      /\ Len(rows \o more) = Len(rows) + n
      /\ \A k \in 1..(Len(rows) + n) : (rows \o more)[k] =
            IF k <= Len(rows) THEN rows[k] ELSE more[k - Len(rows)]
  BY <1>4, ConcatProperties
<1>6. Len(rows) \in Nat
  BY LenProperties
<1>7. \A k \in 1..Len(rows) : (rows \o more)[k] = rows[k]
  BY <1>1, <1>5, <1>6
<1>8. \A k \in 1..n : (rows \o more)[Len(rows) + k] = Row(name, side, ordinals[k])
  <2> TAKE k \in 1..n
  <2>1. /\ Len(rows) + k \in 1..(Len(rows) + n) /\ ~(Len(rows) + k <= Len(rows))
        /\ (Len(rows) + k) - Len(rows) = k
    BY <1>1, <1>6
  <2>. QED  BY <1>2, <1>5, <2>1
<1>. QED  BY <1>4, <1>5, <1>7, <1>8 DEF n, more

(* Appending the rows of a section adds that section and keeps the others. *)
LEMMA SectionIsAdded ==
    ASSUME NEW rows \in Seq(ResultRow), NEW name \in {"only", "common", "duplicates"},
           NEW side \in Side, NEW ordinals \in Seq(Nat), NEW S,
           Lists(ordinals, S, TRUE), HasSection(rows, name, side, {})
    PROVE  /\ HasSection(rows \o Rows(name, side, ordinals), name, side, S)
           /\ \A m, s, T : ~(m = name /\ s = side) /\ HasSection(rows, m, s, T)
                => HasSection(rows \o Rows(name, side, ordinals), m, s, T)
<1> DEFINE new == rows \o Rows(name, side, ordinals)
           n == Len(rows)
           o == Len(ordinals)
<1>1. /\ new \in Seq(ResultRow) /\ Len(new) = n + o
      /\ \A k \in 1..n : new[k] = rows[k]
      /\ \A k \in 1..o : new[n + k] = Row(name, side, ordinals[k])
  BY RowsAppended
<1>2. n \in Nat /\ o \in Nat
  BY LenProperties
<1>3. /\ \A k \in 1..o : ordinals[k] \in S
      /\ \A i \in S : \E k \in 1..o : ordinals[k] = i
      /\ \A k, l \in 1..o : k < l => ordinals[k] < ordinals[l]
  BY DEF Lists, Ascending, Enumerates, Bijection, Injection, Surjection
<1>4. \A k \in 1..n : ~(rows[k].section = name /\ rows[k].side = side)
  BY DEF HasSection, PlacesOf
<1> HIDE DEF new, n, o
<1>5. \A k \in 1..(n + o) : IF k <= n THEN k \in 1..n ELSE k - n \in 1..o /\ k = n + (k - n)
  BY <1>2
<1>6. \A k \in 1..o : /\ new[n + k].section = name /\ new[n + k].side = side
                      /\ new[n + k].ordinal = ordinals[k]
  <2> TAKE k \in 1..o
  <2>1. new[n + k] = Row(name, side, ordinals[k])
    BY <1>1
  <2> DEFINE r == new[n + k]
  <2>2. r = [section |-> name, side |-> side, ordinal |-> ordinals[k]]
    BY <2>1 DEF Row
  <2> HIDE DEF r
  <2>3. r.section = name /\ r.side = side /\ r.ordinal = ordinals[k]
    BY <2>2
  <2>. QED  BY <2>3 DEF r
<1>7. PlacesOf(new, name, side) = {n + k : k \in 1..o}
  <2>1. ASSUME NEW k \in PlacesOf(new, name, side) PROVE k \in {n + l : l \in 1..o}
    <3>1. k \in 1..(n + o) /\ new[k].section = name /\ new[k].side = side
      BY <1>1 DEF PlacesOf
    <3>2. ~(k <= n)
      BY <3>1, <1>1, <1>4, <1>5
    <3>. QED  BY <3>1, <3>2, <1>5
  <2>2. ASSUME NEW k \in 1..o PROVE n + k \in PlacesOf(new, name, side)
    <3>1. n + k \in 1..(n + o)
      BY <1>2
    <3>. QED  BY <3>1, <1>1, <1>6 DEF PlacesOf
  <2>. QED  BY <2>1, <2>2
<1>8. HasSection(new, name, side, S)
  <2>1. \A k \in PlacesOf(new, name, side) : new[k].ordinal \in S
    BY <1>3, <1>6, <1>7
  <2>2. \A i \in S : \E k \in PlacesOf(new, name, side) : new[k].ordinal = i
    BY <1>3, <1>6, <1>7
  <2>3. ASSUME NEW k \in 1..o, NEW l \in 1..o, n + k < n + l
        PROVE  new[n + k].ordinal < new[n + l].ordinal
    <3>1. k < l
      BY <1>2, <2>3
    <3>. QED  BY <3>1, <1>3, <1>6
  <2>. QED  BY <1>7, <2>1, <2>2, <2>3 DEF HasSection
<1>9. ASSUME NEW m, NEW s, ~(m = name /\ s = side)
      PROVE  PlacesOf(new, m, s) = PlacesOf(rows, m, s)
  <2>1. ASSUME NEW k \in PlacesOf(new, m, s) PROVE k \in PlacesOf(rows, m, s)
    <3>1. k \in 1..(n + o) /\ new[k].section = m /\ new[k].side = s
      BY <1>1 DEF PlacesOf
    <3>2. k <= n
      BY <3>1, <1>5, <1>6, <1>9
    <3>. QED  BY <3>1, <3>2, <1>1, <1>5 DEF PlacesOf, n
  <2>2. ASSUME NEW k \in PlacesOf(rows, m, s) PROVE k \in PlacesOf(new, m, s)
    <3>1. k \in 1..n /\ rows[k].section = m /\ rows[k].side = s
      BY DEF PlacesOf, n
    <3>2. k \in 1..(n + o)
      BY <3>1, <1>2
    <3>. QED  BY <3>1, <3>2, <1>1 DEF PlacesOf
  <2>. QED  BY <2>1, <2>2
<1>10. ASSUME NEW m, NEW s, NEW T, ~(m = name /\ s = side), HasSection(rows, m, s, T)
       PROVE  HasSection(new, m, s, T)
  <2>1. PlacesOf(new, m, s) = PlacesOf(rows, m, s)
    BY <1>9, <1>10
  <2>2. \A k \in PlacesOf(rows, m, s) : new[k] = rows[k]
    BY <1>1 DEF PlacesOf, n
  <2>. QED  BY <1>10, <2>1, <2>2 DEF HasSection
<1>. QED  BY <1>8, <1>10 DEF new

(* An occurrence of a token has a first one. *)
LEMMA FirstExists ==
    ASSUME NEW X, NEW s \in Seq(X), NEW i \in 1..Len(s)
    PROVE  \E j \in FirstOrdinals(s) : s[j] = s[i]
<1> DEFINE R == {j \in 1..Len(s) : s[j] = s[i]}
<1>1. Len(s) \in Nat
  BY LenProperties
<1>2. IsFiniteSet(R) /\ R \subseteq Nat /\ R # {}
  <2>1. IsFiniteSet(1..Len(s)) /\ R \subseteq 1..Len(s)
    BY <1>1, FS_Interval
  <2>. QED  BY <1>1, <2>1, FS_Subset
<1> HIDE DEF R
<1>3. Cardinality(R) \in Nat /\ Cardinality(R) # 0
  BY <1>2, FS_CardinalityType, FS_EmptySet
<1>4. /\ Len(InOrder(R)) = Cardinality(R) /\ InOrder(R) \in Seq(R)
      /\ Lists(InOrder(R), R, TRUE)
  BY <1>2, InOrderLists
<1> DEFINE q == InOrder(R)
           n == Len(q)
<1>5. /\ n \in Nat /\ 1 \in 1..n
      /\ \A j \in R : \E k \in 1..n : q[k] = j
      /\ \A k, l \in 1..n : k < l => q[k] < q[l]
      /\ \A k \in 1..n : q[k] \in R
  BY <1>3, <1>4, ElementOfSeq DEF Lists, Ascending, Enumerates, Bijection, Surjection
<1> HIDE DEF n, q
<1>6. q[1] \in R /\ \A j \in R : q[1] <= j
  <2>1. q[1] \in R
    BY <1>5
  <2>2. ASSUME NEW j \in R PROVE q[1] <= j
    <3>1. PICK k \in 1..n : q[k] = j
      BY <1>5
    <3>2. k = 1 \/ 1 < k
      BY <1>5
    <3>3. q[1] \in Nat /\ q[k] \in Nat
      BY <1>2, <1>5
    <3>4. q[1] <= q[k]
      BY <1>5, <3>2, <3>3
    <3>. QED  BY <3>1, <3>4
  <2>. QED  BY <2>1, <2>2
<1>7. q[1] \in 1..Len(s) /\ s[q[1]] = s[i]
  BY <1>6 DEF R
<1>8. \A j \in 1..(q[1] - 1) : s[j] # s[q[1]]
  <2> SUFFICES ASSUME NEW j \in 1..(q[1] - 1), s[j] = s[q[1]] PROVE FALSE
    OBVIOUS
  <2>1. j \in 1..Len(s) /\ ~(q[1] <= j)
    BY <1>1, <1>7
  <2>. QED  BY <1>6, <1>7, <2>1 DEF R
<1>. QED  BY <1>7, <1>8 DEF FirstOrdinals, IsFirst

(* A token is counted at its first item. *)
LEMMA TokensCounted ==
    ASSUME NEW X, NEW s \in Seq(X), NEW T
    PROVE  Cardinality({i \in FirstOrdinals(s) : s[i] \in T})
             = Cardinality({s[i] : i \in 1..Len(s)} \cap T)
<1> DEFINE F == {i \in FirstOrdinals(s) : s[i] \in T}
           V == {s[i] : i \in 1..Len(s)} \cap T
           f == [i \in F |-> s[i]]
<1>1. Len(s) \in Nat
  BY LenProperties
<1>2. F \subseteq 1..Len(s) /\ IsFiniteSet(F)
  <2>1. IsFiniteSet(1..Len(s)) /\ F \subseteq 1..Len(s)
    BY <1>1, FS_Interval DEF FirstOrdinals
  <2>. QED  BY <2>1, FS_Subset
<1>3. ASSUME NEW i \in F, NEW j \in F, s[i] = s[j] PROVE i = j
  <2>1. i \in 1..Len(s) /\ j \in 1..Len(s) /\ IsFirst(s, i) /\ IsFirst(s, j)
    BY DEF FirstOrdinals
  <2>2. ~(i < j) /\ ~(j < i)
    BY <2>1, <1>3 DEF IsFirst
  <2>. QED  BY <2>1, <2>2
<1>4. \A t \in V : \E i \in F : s[i] = t
  <2> SUFFICES ASSUME NEW k \in 1..Len(s), s[k] \in T PROVE \E i \in F : s[i] = s[k]
    OBVIOUS
  <2>. QED  BY FirstExists
<1>5. \A i \in F : s[i] \in V
  BY <1>2
<1> HIDE DEF F, V
<1>6. f \in Bijection(F, V)
  <2>1. f \in [F -> V] /\ DOMAIN f = F
    BY <1>5
  <2>. QED  BY <2>1, <1>3, <1>4 DEF Bijection, Injection, Surjection, IsInjective
<1>7. ExistsBijection(F, V)
  BY <1>6 DEF ExistsBijection
<1>8. Cardinality(F) = Cardinality(V)
  BY <1>2, <1>7, FS_Bijection
<1>. QED  BY <1>8 DEF F, V

-----------------------------------------------------------------------------
(* A table holds every item of its input at the rowid of its ordinal. *)
Loaded(side) ==
    /\ table[side] \in Seq(Nat)
    /\ Len(table[side]) = Len(input[side])
    /\ \A r \in RowIds(side) : table[side][r] = r
    /\ itemCount[side] = Len(input[side])

(* The members of a section. *)
Expected(in, name, side) ==
    IF name = "only" THEN OnlyOrdinals(in[side], in[Other(side)])
    ELSE IF name = "common" THEN CommonOrdinals(in[side], in[Other(side)])
    ELSE RepeatOrdinals(in[side])

(* What is first, common or repeated is among the items of the input. *)
LEMMA ExpectedAreItems ==
    ASSUME NEW name, NEW side, NEW X, input[side] \in Seq(X)
    PROVE  /\ Expected(input, name, side) \subseteq 1..Len(input[side])
           /\ Expected(input, name, side) \subseteq Nat
           /\ IsFiniteSet(Expected(input, name, side))
<1>1. Len(input[side]) \in Nat
  BY LenProperties
<1>2. Expected(input, name, side) \subseteq 1..Len(input[side])
  BY DEF Expected, OnlyOrdinals, CommonOrdinals, RepeatOrdinals, FirstOrdinals
<1>3. IsFiniteSet(1..Len(input[side]))
  BY <1>1, FS_Interval
<1>. QED  BY <1>1, <1>2, <1>3, FS_Subset

(* The queries select the members of the section, in order. *)
LEMMA QueriesAreExact ==
    ASSUME input \in [Side -> Inputs], NEW side \in Side, NEW name \in {"only", "common", "duplicates"},
           Loaded(side), name # "duplicates" => Loaded(Other(side))
    PROVE  \E q \in Seq(Nat) : /\ RowsOfSection(name, side) = Rows(name, side, q)
                               /\ Lists(q, Expected(input, name, side), TRUE)
                               /\ Len(q) = Cardinality(Expected(input, name, side))
<1> DEFINE S == Expected(input, name, side)
           s == input[side]
           o == input[Other(side)]
<1>1. Other(side) \in Side /\ input[side] \in Seq(Token) /\ input[Other(side)] \in Seq(Token)
  BY InputsAreBlobs DEF Side, Other
<1>2. /\ RowIds(side) = 1..Len(s) /\ Len(s) \in Nat
      /\ \A r \in RowIds(side) : table[side][r] = r /\ TokenAt(side, r) = s[r]
  BY <1>1, LenProperties DEF Loaded, RowIds, TokenAt
<1>3. \A R \in SUBSET RowIds(side) : OrderByOrdinal(side, R) = InOrder(R)
  <2> TAKE R \in SUBSET RowIds(side)
  <2>1. {table[side][r] : r \in R} = R
    BY <1>2
  <2>. QED  BY <2>1 DEF OrderByOrdinal
<1>4. \A r \in RowIds(side) : IsFirstSeen(side, r) <=> IsFirst(s, r)
  <2> TAKE r \in RowIds(side)
  <2>1. IsFirstSeen(side, r) <=> \A k \in 1..Len(s) : s[k] = s[r] => r <= k
    BY <1>2 DEF IsFirstSeen
  <2>2. (\A k \in 1..Len(s) : s[k] = s[r] => r <= k) <=> \A k \in 1..(r - 1) : s[k] # s[r]
    <3> HIDE DEF s
    <3>. QED  BY <1>2
  <2>. QED  BY <2>1, <2>2 DEF IsFirst
<1>5. S \subseteq Nat /\ IsFiniteSet(S) /\ S \subseteq 1..Len(s)
  BY <1>1, ExpectedAreItems
<1>6. name # "duplicates" =>
        \A r \in RowIds(side) : InTable(TokenAt(side, r), Other(side)) <=> Occurs(s[r], o)
  <2> SUFFICES ASSUME name # "duplicates", NEW r \in RowIds(side)
               PROVE  InTable(TokenAt(side, r), Other(side)) <=> Occurs(s[r], o)
    OBVIOUS
  <2>1. RowIds(Other(side)) = 1..Len(o) /\ \A q \in 1..Len(o) : TokenAt(Other(side), q) = o[q]
    BY DEF Loaded, RowIds, TokenAt
  <2>. QED  BY <1>2, <2>1 DEF InTable, Occurs
<1>7. CASE name = "only"
  <2>1. {r \in RowIds(side) : /\ IsFirstSeen(side, r)
                              /\ InTable(TokenAt(side, r), Other(side)) <=> "missing" = "present"} = S
    BY <1>2, <1>4, <1>6, <1>7 DEF Expected, OnlyOrdinals, FirstOrdinals
  <2>2. SelectSection(side, "missing") = InOrder(S)
    BY <1>2, <1>3, <1>5, <2>1 DEF SelectSection
  <2>3. RowsOfSection(name, side) = Rows(name, side, InOrder(S))
    BY <1>7, <2>2 DEF RowsOfSection
  <2>. QED  BY <1>5, <2>3, InOrderLists, SeqMonotonic
<1>8. CASE name = "common"
  <2>1. {r \in RowIds(side) : /\ IsFirstSeen(side, r)
                              /\ InTable(TokenAt(side, r), Other(side)) <=> "present" = "present"} = S
    BY <1>2, <1>4, <1>6, <1>8 DEF Expected, CommonOrdinals, FirstOrdinals
  <2>2. SelectSection(side, "present") = InOrder(S)
    BY <1>2, <1>3, <1>5, <2>1 DEF SelectSection
  <2>3. RowsOfSection(name, side) = Rows(name, side, InOrder(S))
    BY <1>8, <2>2 DEF RowsOfSection
  <2>. QED  BY <1>5, <2>3, InOrderLists, SeqMonotonic
<1>9. CASE name = "duplicates"
  <2>1. {r \in RowIds(side) : \E q \in RowIds(side) : q < r /\ TokenAt(side, q) = TokenAt(side, r)} = S
    <3>1. \A r \in RowIds(side) : (\E q \in RowIds(side) : q < r /\ TokenAt(side, q) = TokenAt(side, r))
                                    <=> ~IsFirst(s, r)
      <4> TAKE r \in RowIds(side)
      <4>1. (\E q \in RowIds(side) : q < r /\ TokenAt(side, q) = TokenAt(side, r))
              <=> \E q \in 1..Len(s) : q < r /\ s[q] = s[r]
        BY <1>2
      <4>2. (\E q \in 1..Len(s) : q < r /\ s[q] = s[r]) <=> \E q \in 1..(r - 1) : s[q] = s[r]
        <5> HIDE DEF s
        <5>. QED  BY <1>2
      <4>. QED  BY <4>1, <4>2 DEF IsFirst
    <3>. QED  BY <1>2, <1>9, <3>1 DEF Expected, RepeatOrdinals
  <2>2. SelectDuplicates(side) = InOrder(S)
    BY <1>2, <1>3, <1>5, <2>1 DEF SelectDuplicates
  <2>3. RowsOfSection(name, side) = Rows(name, side, InOrder(S))
    BY <1>9, <2>2 DEF RowsOfSection
  <2>. QED  BY <1>5, <2>3, InOrderLists, SeqMonotonic
<1>. QED  BY <1>7, <1>8, <1>9

(* The number of distinct tokens of a table, and of those in both. *)
LEMMA CountsAreExact ==
    ASSUME input \in [Side -> Inputs], Loaded("first"), Loaded("second")
    PROVE  /\ \A side \in Side : CountUnique(side) = Cardinality(FirstOrdinals(input[side]))
           /\ CountCommon = Cardinality(CommonOrdinals(input["first"], input["second"]))
<1> DEFINE tokens(side) == {input[side][i] : i \in 1..Len(input[side])}
<1>1. \A side \in Side : /\ Loaded(side) /\ input[side] \in Seq(Token)
                         /\ {TokenAt(side, r) : r \in RowIds(side)} = tokens(side)
  <2> TAKE side \in Side
  <2>1. Loaded(side) /\ input[side] \in Seq(Token)
    BY InputsAreBlobs DEF Side
  <2>2. RowIds(side) = 1..Len(input[side]) /\ \A r \in RowIds(side) : TokenAt(side, r) = input[side][r]
    BY <2>1 DEF Loaded, RowIds, TokenAt
  <2>. QED  BY <2>1, <2>2
<1>2. ASSUME NEW side \in Side PROVE CountUnique(side) = Cardinality(FirstOrdinals(input[side]))
  <2>1. {i \in FirstOrdinals(input[side]) : input[side][i] \in tokens(side)} = FirstOrdinals(input[side])
    BY DEF FirstOrdinals
  <2>2. tokens(side) \cap tokens(side) = tokens(side)
    OBVIOUS
  <2>3. Cardinality({i \in FirstOrdinals(input[side]) : input[side][i] \in tokens(side)})
          = Cardinality(tokens(side) \cap tokens(side))
    <3>1. \A T : Cardinality({i \in FirstOrdinals(input[side]) : input[side][i] \in T})
                   = Cardinality({input[side][i] : i \in 1..Len(input[side])} \cap T)
      BY <1>1, TokensCounted
    <3>2. tokens(side) = {input[side][i] : i \in 1..Len(input[side])}
      OBVIOUS
    <3> HIDE DEF tokens
    <3>. QED  BY <3>1, <3>2
  <2>4. CountUnique(side) = Cardinality(tokens(side))
    BY <1>1 DEF CountUnique
  <2> HIDE DEF tokens
  <2>. QED  BY <2>1, <2>2, <2>3, <2>4
<1>3. CountCommon = Cardinality(CommonOrdinals(input["first"], input["second"]))
  <2>1. "first" \in Side /\ "second" \in Side
    BY DEF Side
  <2>2. {i \in FirstOrdinals(input["first"]) : input["first"][i] \in tokens("second")}
          = CommonOrdinals(input["first"], input["second"])
    BY DEF CommonOrdinals, Occurs
  <2>3. Cardinality({i \in FirstOrdinals(input["first"]) : input["first"][i] \in tokens("second")})
          = Cardinality(tokens("first") \cap tokens("second"))
    <3>1. \A T : Cardinality({i \in FirstOrdinals(input["first"]) : input["first"][i] \in T})
                   = Cardinality({input["first"][i] : i \in 1..Len(input["first"])} \cap T)
      BY <1>1, <2>1, TokensCounted
    <3>2. tokens("first") = {input["first"][i] : i \in 1..Len(input["first"])}
      OBVIOUS
    <3> HIDE DEF tokens
    <3>. QED  BY <3>1, <3>2
  <2>. QED  BY <1>1, <2>1, <2>2, <2>3 DEF CountCommon
<1>. QED  BY <1>2, <1>3

-----------------------------------------------------------------------------
(* Inserting, the rows inserted and the batch are the items read, each at  *)
(* the rowid of its ordinal.                                               *)
Inserted(side) ==
    /\ Len(table[side]) + Len(batch) = itemCount[side]
    /\ \A k \in 1..Len(batch) : batch[k] = Len(table[side]) + k

(* No item of an input is read yet. *)
NotBegun(side) == table[side] = <<>> /\ itemCount[side] = 0

(* After the last commit, until the call fails. *)
Selecting == {"index", "fetch", "write", "close"}
Succeeding == phase \in {"cleanup", "returned"} /\ error = None

(* The tables a call reads are complete. *)
TablesLoaded == Loaded("first") /\ (config.operation = "compare" => Loaded("second"))

(* While items are read the tables grow by them, and queries see whole tables. *)
TablesInv ==
    /\ input \in [Side -> Inputs]
    /\ config \in Configs
    /\ table \in [Side -> Seq(Nat)]
    /\ itemCount \in [Side -> Nat]
    /\ batch \in Seq(Nat)
    /\ \A side \in Side : /\ itemCount[side] <= Len(input[side])
                          /\ \A r \in RowIds(side) : table[side][r] = r
    /\ phase \in {"make", "open", "insert_first"} => NotBegun("second")
    /\ phase \in {"make", "open"} => NotBegun("first") /\ batch = <<>>
    /\ phase = "insert_first" => Inserted("first")
    /\ phase = "insert_second" => /\ Inserted("second") /\ Loaded("first")
                                  /\ config.operation = "compare"
    /\ phase \in Selecting \/ Succeeding => TablesLoaded

(* The next item joins the batch with the next ordinal. *)
LEMMA TablesReading ==
    ASSUME TablesInv, NEW side \in Side, ReadItem(side) PROVE TablesInv'
<1> DEFINE n == itemCount[side]
<1>1. /\ phase = InsertPhase(side) /\ phase' = phase /\ n \in Nat /\ n + 1 \in Nat
      /\ n # Len(input[side]) /\ UNCHANGED <<input, config, error, table>>
      /\ batch' = Append(batch, n + 1) /\ itemCount' = [itemCount EXCEPT ![side] = n + 1]
      /\ batch \in Seq(Nat) /\ Len(table[side]) \in Nat
  BY LenProperties DEF ReadItem, Exhausted, call, TablesInv
<1>2. /\ \/ phase = "insert_first" /\ side = "first"
         \/ phase = "insert_second" /\ side = "second"
      /\ Inserted(side)
  BY <1>1 DEF InsertPhase, Side, TablesInv
<1>3. /\ batch' \in Seq(Nat) /\ Len(batch') = Len(batch) + 1 /\ Len(batch) \in Nat
      /\ \A k \in 1..Len(batch) : batch'[k] = batch[k]
      /\ batch'[Len(batch) + 1] = n + 1
  BY <1>1, AppendProperties, LenProperties
<1>4. Len(table'[side]) + Len(batch') = itemCount'[side]
  BY <1>1, <1>2, <1>3 DEF Inserted, TablesInv
<1>5. \A k \in 1..Len(batch') : batch'[k] = Len(table'[side]) + k
  <2> TAKE k \in 1..Len(batch')
  <2>1. k \in 1..Len(batch) \/ k = Len(batch) + 1
    BY <1>3
  <2>2. ASSUME k \in 1..Len(batch) PROVE batch'[k] = Len(table[side]) + k
    BY <1>2, <1>3, <2>2 DEF Inserted
  <2>3. ASSUME k = Len(batch) + 1 PROVE batch'[k] = Len(table[side]) + k
    <3>1. Len(table[side]) + Len(batch) = n
      BY <1>2 DEF Inserted
    <3>2. batch'[k] = n + 1
      BY <1>3, <2>3
    <3>3. Len(table[side]) \in Nat /\ Len(batch) \in Nat /\ n \in Nat
      BY <1>1, <1>3
    <3>4. n + 1 = Len(table[side]) + (Len(batch) + 1)
      <4> DEFINE a == Len(table[side])
                 b == Len(batch)
      <4>1. a \in Nat /\ b \in Nat /\ n \in Nat /\ a + b = n
        BY <3>1, <3>3
      <4> HIDE DEF a, b, n
      <4>2. n + 1 = a + (b + 1)
        BY <4>1
      <4>. QED  BY <4>2 DEF a, b
    <3>. QED  BY <2>3, <3>2, <3>4
  <2>. QED  BY <1>1, <2>1, <2>2, <2>3
<1>6. \A s \in Side : itemCount'[s] <= Len(input'[s]) /\ itemCount'[s] \in Nat
  <2> TAKE s \in Side
  <2>1. input[s] \in Seq(Token)
    BY InputsAreBlobs DEF TablesInv
  <2>2. Len(input[s]) \in Nat /\ itemCount[s] <= Len(input[s]) /\ itemCount[s] \in Nat
    BY <2>1, LenProperties DEF TablesInv
  <2>3. itemCount'[s] = IF s = side THEN n + 1 ELSE itemCount[s]
    BY <1>1 DEF TablesInv
  <2>. QED  BY <1>1, <2>2, <2>3
<1>7. itemCount' \in [Side -> Nat]
  BY <1>1 DEF TablesInv
<1>8. Inserted(side)'
  BY <1>4, <1>5 DEF Inserted
<1>9. CASE side = "first"
  BY <1>1, <1>2, <1>3, <1>6, <1>7, <1>8, <1>9
     DEF TablesInv, NotBegun, Selecting, Succeeding, RowIds, Side
<1>10. CASE side = "second"
  <2>1. Loaded("first")'
    BY <1>1, <1>2, <1>10 DEF TablesInv, Loaded, RowIds, Side
  <2>. QED  BY <1>1, <1>2, <1>3, <1>6, <1>7, <1>8, <1>10, <2>1
     DEF TablesInv, NotBegun, Selecting, Succeeding, RowIds, Side
<1>. QED  BY <1>9, <1>10 DEF Side

(* The rowids go on from the last row of the table. *)
LEMMA TablesInserting ==
    ASSUME None \notin Causes, TablesInv, NEW side \in Side, InsertBatch(side) PROVE TablesInv'
<1> DEFINE t == table[side]
<1>1. /\ phase = InsertPhase(side)
      /\ \/ phase' = phase /\ error' = error
         \/ phase' = "cleanup" /\ error' = "limit"
      /\ UNCHANGED <<input, config, itemCount>>
      /\ batch' = <<>> /\ table' = [table EXCEPT ![side] = t \o batch]
      /\ batch \in Seq(Nat) /\ t \in Seq(Nat) /\ Len(t) \in Nat /\ Len(batch) \in Nat
  BY LenProperties DEF InsertBatch, BatchIsDue, Fail, call, TablesInv
<1>2. /\ \/ phase = "insert_first" /\ side = "first"
         \/ phase = "insert_second" /\ side = "second"
      /\ Inserted(side)
  BY <1>1 DEF InsertPhase, Side, TablesInv
<1>3. /\ t \o batch \in Seq(Nat) /\ Len(t \o batch) = Len(t) + Len(batch)
      /\ \A k \in 1..(Len(t) + Len(batch)) :
            (t \o batch)[k] = IF k <= Len(t) THEN t[k] ELSE batch[k - Len(t)]
  BY <1>1, ConcatProperties
<1>4. table' \in [Side -> Seq(Nat)] /\ table'[side] = t \o batch
      /\ \A s \in Side \ {side} : table'[s] = table[s]
  BY <1>1, <1>3 DEF TablesInv
<1>5. \A k \in 1..Len(t \o batch) : (t \o batch)[k] = k
  <2> TAKE k \in 1..Len(t \o batch)
  <2>1. CASE k <= Len(t)
    <3>1. k \in 1..Len(t) /\ t[k] = k
      BY <1>1, <1>3, <2>1 DEF TablesInv, RowIds
    <3>. QED  BY <1>3, <2>1, <3>1
  <2>2. CASE ~(k <= Len(t))
    <3>1. k - Len(t) \in 1..Len(batch) /\ Len(t) + (k - Len(t)) = k
      BY <1>1, <1>3, <2>2
    <3>2. batch[k - Len(t)] = Len(t) + (k - Len(t))
      BY <1>2, <3>1 DEF Inserted
    <3>. QED  BY <1>3, <2>2, <3>1, <3>2
  <2>. QED  BY <2>1, <2>2
<1>6. \A s \in Side : \A r \in 1..Len(table'[s]) : table'[s][r] = r
  BY <1>4, <1>5 DEF TablesInv, RowIds
<1>7. Inserted(side)'
  <2>1. Len(table'[side]) + Len(batch') = itemCount'[side] /\ 1..Len(batch') = {}
    BY <1>1, <1>2, <1>3, <1>4 DEF Inserted, TablesInv
  <2>. QED  BY <2>1 DEF Inserted
<1>8. batch' \in Seq(Nat) /\ (phase' # phase => error' # None)
  BY <1>1 DEF Causes
<1>9. CASE side = "first"
  BY <1>1, <1>2, <1>4, <1>6, <1>7, <1>8, <1>9
     DEF TablesInv, NotBegun, Selecting, Succeeding, RowIds, Side
<1>10. CASE side = "second"
  <2>1. Loaded("first")'
    BY <1>1, <1>2, <1>4, <1>10 DEF TablesInv, Loaded, RowIds, Side
  <2>. QED  BY <1>1, <1>2, <1>4, <1>6, <1>7, <1>8, <1>10, <2>1
     DEF TablesInv, NotBegun, Selecting, Succeeding, RowIds, Side
<1>. QED  BY <1>9, <1>10 DEF Side

(* At the last commit of a side every item of it is in its table. *)
LEMMA TablesCommitting ==
    ASSUME TablesInv, NEW side \in Side, Commit(side) PROVE TablesInv'
<1>1. /\ phase = InsertPhase(side) /\ phase' = NextPhase(side)
      /\ UNCHANGED <<input, config, itemCount, error, table, batch>>
      /\ itemCount[side] = Len(input[side]) /\ batch = <<>>
  BY DEF Commit, Exhausted, call
<1>2. /\ \/ phase = "insert_first" /\ side = "first"
         \/ phase = "insert_second" /\ side = "second"
      /\ Inserted(side)
  BY <1>1 DEF InsertPhase, Side, TablesInv
<1>3. Loaded(side)
  <2>1. Len(table[side]) \in Nat /\ Len(table[side]) + 0 = itemCount[side] /\ itemCount[side] \in Nat
    BY <1>1, <1>2, LenProperties DEF TablesInv, Inserted
  <2>. QED  BY <1>1, <2>1 DEF Loaded, TablesInv
<1>4. \A s \in Side : Loaded(s)' <=> Loaded(s)
  BY <1>1 DEF Loaded, RowIds
<1>5. "first" \in Side /\ "second" \in Side
  BY DEF Side
<1>6. config.operation \in {"compare", "duplicates"}
  BY ConfigsAreOptions DEF TablesInv
<1>7. CASE phase' = "insert_second"
  <2>1. side = "first" /\ config.operation = "compare"
    BY <1>1, <1>7 DEF NextPhase
  <2>2. Inserted("second")'
    <3>1. NotBegun("second")
      BY <1>2, <2>1 DEF TablesInv
    <3>. QED  BY <1>1, <3>1 DEF NotBegun, Inserted
  <2>. QED  BY <1>1, <1>3, <1>4, <1>5, <1>7, <2>1, <2>2
       DEF TablesInv, NotBegun, Selecting, Succeeding, RowIds
<1>8. CASE phase' = "index"
  <2>1. TablesLoaded'
    BY <1>1, <1>2, <1>3, <1>4, <1>5, <1>8 DEF TablesLoaded, NextPhase, TablesInv
  <2>. QED  BY <1>1, <1>8, <2>1 DEF TablesInv, NotBegun, Selecting, Succeeding, RowIds
<1>. QED  BY <1>1, <1>7, <1>8 DEF NextPhase

(* Every step keeps the tables true to the inputs. *)
LEMMA TablesKept ==
    ASSUME None \notin Causes, TablesInv, [Next]_vars PROVE TablesInv'
<1>1. ASSUME NEW side \in Side, ReadItem(side) \/ InsertBatch(side) \/ Commit(side)
      PROVE  TablesInv'
  BY <1>1, TablesReading, TablesInserting, TablesCommitting
<1>3. ASSUME UNCHANGED <<input, config, itemCount, table, batch>>,
             \/ phase' = phase /\ error' = error
             \/ phase = "make" /\ phase' = "open"
             \/ phase = "open" /\ phase' = "insert_first"
             \/ phase' \in Selecting \cup {"cleanup"} /\ phase \in Selecting /\ phase' # "make"
             \/ phase' \in {"cleanup", "raised"} /\ error' # None
             \/ phase' = "raised"
             \/ phase = "cleanup" /\ phase' = "returned" /\ error' = error
      PROVE  TablesInv'
  <2>1. TablesLoaded' <=> TablesLoaded
    BY <1>3 DEF TablesLoaded, Loaded, RowIds
  <2>2. Loaded("first")' <=> Loaded("first")
    BY <1>3 DEF Loaded, RowIds
  <2>3. \A side \in Side : Inserted(side)' <=> Inserted(side)
    BY <1>3 DEF Inserted
  <2>4. \A side \in Side : NotBegun(side)' <=> NotBegun(side)
    BY <1>3 DEF NotBegun
  <2>5. NotBegun("first") /\ batch = <<>> => Inserted("first")
    BY DEF NotBegun, Inserted
  <2>. QED  BY <1>3, <2>1, <2>2, <2>3, <2>4, <2>5 DEF TablesInv, Selecting, Succeeding, RowIds, Side
<1>4. CASE MakeDatabase \/ OpenDatabase
  BY <1>3, <1>4 DEF MakeDatabase, OpenDatabase, call, inserts
<1>5. CASE CreateIndexes \/ FetchSection
  BY <1>3, <1>5 DEF CreateIndexes, FetchSection, call, inserts, Selecting
<1>6. CASE CountTokens \/ WriteSection \/ FinishWriting
  BY <1>3, <1>6 DEF CountTokens, WriteSection, FinishWriting, call, inserts, Selecting
<1>7. CASE CloseWriter \/ ExitWriter \/ CleanUp
  BY <1>3, <1>7 DEF CloseWriter, ExitWriter, CleanUp, call, inserts, Selecting
<1>8. CASE MakeFails \/ QueryRaises \/ \E side \in Side : InsertRaises(side)
  BY <1>3, <1>8 DEF MakeFails, QueryRaises, InsertRaises, Fail, call, inserts, Causes
<1>9. CASE OpenWriterFails \/ WriteRaises \/ ExitWriterFails \/ CleanUpFails
  BY <1>3, <1>9 DEF OpenWriterFails, WriteRaises, ExitWriterFails, CleanUpFails, Fail, call,
                    inserts, Causes, Selecting
<1>10. CASE UNCHANGED vars
  BY <1>3, <1>10 DEF vars, call, inserts
<1>. QED  BY <1>1, <1>4, <1>5, <1>6, <1>7, <1>8, <1>9, <1>10 DEF Next, Progress, Failure

-----------------------------------------------------------------------------
(* Sections and sides. *)
Pairs == {"only", "common", "duplicates"} \X Side

(* The sections a call is asked for. *)
Wanted(c) ==
    IF c.operation = "duplicates" THEN {<<"duplicates", "first">>}
    ELSE {p \in Pairs : \/ p[1] = "only"
                        \/ p = <<"common", "first">> /\ c.include_common
                        \/ p[1] = "duplicates" /\ c.include_duplicates}

(* Those still to be fetched or written, and the others. *)
Remaining(q) == {q[k] : k \in 1..Len(q)}
Done(c, q)   == Wanted(c) \ Remaining(q)

(* A list of wanted sections, each at most once. *)
IsAgenda(c, q) ==
    /\ q \in Seq(Pairs)
    /\ Remaining(q) \subseteq Wanted(c)
    /\ \A k, l \in 1..Len(q) : q[k] = q[l] => k = l

(* The sections of a call are its first agenda: none is done yet. *)
LEMMA SectionsAreWanted ==
    ASSUME config \in Configs
    PROVE  IsAgenda(config, SectionsOf) /\ Done(config, SectionsOf) = {}
<1>1. /\ config.operation \in {"compare", "duplicates"}
      /\ config.include_common \in BOOLEAN /\ config.include_duplicates \in BOOLEAN
  BY ConfigsAreOptions
<1>2. /\ <<"only", "first">> \in Pairs /\ <<"only", "second">> \in Pairs
      /\ <<"common", "first">> \in Pairs
      /\ <<"duplicates", "first">> \in Pairs /\ <<"duplicates", "second">> \in Pairs
  BY DEF Pairs, Side
<1>3. CASE config.operation = "duplicates"
  <2>1. SectionsOf = <<<<"duplicates", "first">>>>
    BY <1>3 DEF SectionsOf
  <2>2. SectionsOf \in Seq(Pairs) /\ Len(SectionsOf) = 1 /\ SectionsOf[1] = <<"duplicates", "first">>
    BY <1>2, <2>1
  <2>. QED  BY <1>3, <2>2 DEF IsAgenda, Done, Wanted, Remaining
<1>4. CASE config.operation = "compare"
  <2> DEFINE a == <<<<"only", "first">>, <<"only", "second">>>>
             b == IF config.include_common THEN <<<<"common", "first">>>> ELSE <<>>
             c == IF config.include_duplicates
                    THEN <<<<"duplicates", "first">>, <<"duplicates", "second">>>> ELSE <<>>
             m == Len(b)
             d == a \o b
             q == d \o c
  <2>1. SectionsOf = q
    BY <1>4 DEF SectionsOf
  <2>2. /\ a \in Seq(Pairs) /\ Len(a) = 2
        /\ a[1] = <<"only", "first">> /\ a[2] = <<"only", "second">>
    BY <1>2
  <2>3. /\ b \in Seq(Pairs) /\ m = IF config.include_common THEN 1 ELSE 0
        /\ config.include_common => b[1] = <<"common", "first">>
    BY <1>1, <1>2
  <2>4. /\ c \in Seq(Pairs) /\ Len(c) = IF config.include_duplicates THEN 2 ELSE 0
        /\ config.include_duplicates => /\ c[1] = <<"duplicates", "first">>
                                        /\ c[2] = <<"duplicates", "second">>
    BY <1>1, <1>2
  <2> HIDE DEF a, b, c
  <2>5. /\ d \in Seq(Pairs) /\ Len(d) = 2 + m /\ m \in Nat
        /\ \A k \in 1..(2 + m) : d[k] = IF k <= 2 THEN a[k] ELSE b[k - 2]
    <3>1. /\ d \in Seq(Pairs) /\ Len(d) = Len(a) + Len(b)
          /\ \A k \in 1..(Len(a) + Len(b)) :
                d[k] = IF k <= Len(a) THEN a[k] ELSE b[k - Len(a)]
      BY <2>2, <2>3, ConcatProperties
    <3> HIDE DEF d
    <3>. QED  BY <2>2, <2>3, <3>1, LenProperties
  <2> HIDE DEF d
  <2>6. /\ q \in Seq(Pairs) /\ Len(q) = 2 + m + Len(c)
        /\ \A k \in 1..(2 + m + Len(c)) : q[k] = IF k <= 2 + m THEN d[k] ELSE c[k - (2 + m)]
    <3>1. /\ q \in Seq(Pairs) /\ Len(q) = Len(d) + Len(c)
          /\ \A k \in 1..(Len(d) + Len(c)) :
                q[k] = IF k <= Len(d) THEN d[k] ELSE c[k - Len(d)]
      BY <2>4, <2>5, ConcatProperties
    <3> HIDE DEF q
    <3>. QED  BY <2>5, <3>1
  <2> HIDE DEF q, m
  <2>7. CASE config.include_common /\ config.include_duplicates
    <3>1. Len(q) = 5 /\ 1..5 = {1, 2, 3, 4, 5}
      BY <2>3, <2>4, <2>6, <2>7
    <3>2. /\ q[1] = <<"only", "first">>
          /\ q[2] = <<"only", "second">>
          /\ q[3] = <<"common", "first">>
          /\ q[4] = <<"duplicates", "first">>
          /\ q[5] = <<"duplicates", "second">>
      <4>1. m = 1 /\ Len(c) = 2
        BY <2>3, <2>4, <2>7
      <4>2. /\ q[1] = d[1] /\ q[2] = d[2] /\ q[3] = d[3]
            /\ q[4] = c[1] /\ q[5] = c[2]
        <5>1. \A k \in 1..5 : q[k] = IF k <= 3 THEN d[k] ELSE c[k - 3]
          BY <2>6, <4>1
        <5>. QED  BY <5>1
      <4>3. d[1] = a[1] /\ d[2] = a[2] /\ d[3] = b[1]
        BY <2>5, <4>1
      <4>. QED  BY <2>2, <2>3, <2>4, <2>7, <4>2, <4>3
    <3>3. Wanted(config) = {<<"only", "first">>, <<"only", "second">>,
                            <<"common", "first">>,
                            <<"duplicates", "first">>,
                            <<"duplicates", "second">>}
      BY <1>4, <2>7 DEF Wanted, Pairs, Side
    <3>4. Remaining(q) = Wanted(config)
      BY <3>1, <3>2, <3>3 DEF Remaining
    <3>5. \A k, l \in 1..5 : q[k] = q[l] => k = l
      BY <3>1, <3>2
    <3>. QED  BY <2>1, <2>6, <3>1, <3>4, <3>5 DEF IsAgenda, Done
  <2>8. CASE config.include_common /\ ~config.include_duplicates
    <3>1. Len(q) = 3 /\ 1..3 = {1, 2, 3}
      BY <2>3, <2>4, <2>6, <2>8
    <3>2. /\ q[1] = <<"only", "first">>
          /\ q[2] = <<"only", "second">>
          /\ q[3] = <<"common", "first">>
      <4>1. m = 1 /\ Len(c) = 0
        BY <2>3, <2>4, <2>8
      <4>2. q[1] = d[1] /\ q[2] = d[2] /\ q[3] = d[3]
        <5>1. \A k \in 1..3 : q[k] = d[k]
          BY <2>6, <4>1
        <5>. QED  BY <5>1
      <4>3. d[1] = a[1] /\ d[2] = a[2] /\ d[3] = b[1]
        BY <2>5, <4>1
      <4>. QED  BY <2>2, <2>3, <2>8, <4>2, <4>3
    <3>3. Wanted(config) = {<<"only", "first">>, <<"only", "second">>,
                            <<"common", "first">>}
      BY <1>4, <2>8 DEF Wanted, Pairs, Side
    <3>4. Remaining(q) = Wanted(config)
      BY <3>1, <3>2, <3>3 DEF Remaining
    <3>5. \A k, l \in 1..3 : q[k] = q[l] => k = l
      BY <3>1, <3>2
    <3>. QED  BY <2>1, <2>6, <3>1, <3>4, <3>5 DEF IsAgenda, Done
  <2>9. CASE ~config.include_common /\ config.include_duplicates
    <3>1. Len(q) = 4 /\ 1..4 = {1, 2, 3, 4}
      BY <2>3, <2>4, <2>6, <2>9
    <3>2. /\ q[1] = <<"only", "first">>
          /\ q[2] = <<"only", "second">>
          /\ q[3] = <<"duplicates", "first">>
          /\ q[4] = <<"duplicates", "second">>
      <4>1. m = 0 /\ Len(c) = 2
        BY <2>3, <2>4, <2>9
      <4>2. /\ q[1] = d[1] /\ q[2] = d[2]
            /\ q[3] = c[1] /\ q[4] = c[2]
        <5>1. \A k \in 1..4 : q[k] = IF k <= 2 THEN d[k] ELSE c[k - 2]
          BY <2>6, <4>1
        <5>. QED  BY <5>1
      <4>3. d[1] = a[1] /\ d[2] = a[2]
        BY <2>5, <4>1
      <4>. QED  BY <2>2, <2>4, <2>9, <4>2, <4>3
    <3>3. Wanted(config) = {<<"only", "first">>, <<"only", "second">>,
                            <<"duplicates", "first">>,
                            <<"duplicates", "second">>}
      BY <1>4, <2>9 DEF Wanted, Pairs, Side
    <3>4. Remaining(q) = Wanted(config)
      BY <3>1, <3>2, <3>3 DEF Remaining
    <3>5. \A k, l \in 1..4 : q[k] = q[l] => k = l
      BY <3>1, <3>2
    <3>. QED  BY <2>1, <2>6, <3>1, <3>4, <3>5 DEF IsAgenda, Done
  <2>10. CASE ~config.include_common /\ ~config.include_duplicates
    <3>1. Len(q) = 2 /\ 1..2 = {1, 2}
      BY <2>3, <2>4, <2>6, <2>10
    <3>2. /\ q[1] = <<"only", "first">>
          /\ q[2] = <<"only", "second">>
      BY <2>2, <2>3, <2>4, <2>5, <2>6, <2>10
    <3>3. Wanted(config) = {<<"only", "first">>, <<"only", "second">>}
      BY <1>4, <2>10 DEF Wanted, Pairs, Side
    <3>4. Remaining(q) = Wanted(config)
      BY <3>1, <3>2, <3>3 DEF Remaining
    <3>5. \A k, l \in 1..2 : q[k] = q[l] => k = l
      BY <3>1, <3>2
    <3>. QED  BY <2>1, <2>6, <3>1, <3>4, <3>5 DEF IsAgenda, Done
  <2>. QED  BY <1>1, <2>7, <2>8, <2>9, <2>10
<1>. QED  BY <1>1, <1>3, <1>4

(* The next section is wanted, and done once it is taken from the agenda. *)
LEMMA AgendaMoves ==
    ASSUME NEW c, NEW q, IsAgenda(c, q), q # <<>>
    PROVE  /\ Head(q) \in Pairs /\ Head(q) \in Wanted(c) /\ Head(q) \notin Done(c, q)
           /\ IsAgenda(c, Tail(q))
           /\ Done(c, Tail(q)) = Done(c, q) \cup {Head(q)}
<1>1. q \in Seq(Pairs) /\ \A k, l \in 1..Len(q) : q[k] = q[l] => k = l
  BY DEF IsAgenda
<1>2. /\ Head(q) \in Pairs /\ Head(q) = q[1] /\ Len(q) \in Nat /\ 1 \in 1..Len(q)
      /\ Tail(q) \in Seq(Pairs) /\ Len(Tail(q)) = Len(q) - 1
      /\ \A i \in 1..Len(Tail(q)) : Tail(q)[i] = q[i + 1]
  BY <1>1, HeadTailProperties, EmptySeq, LenProperties
<1> DEFINE t == Tail(q)
<1> HIDE DEF t
<1>3. /\ t \in Seq(Pairs) /\ Len(t) = Len(q) - 1
      /\ \A i \in 1..Len(t) : t[i] = q[i + 1] /\ i + 1 \in 1..Len(q)
      /\ \A i \in 1..Len(q) : i # 1 => i - 1 \in 1..Len(t) /\ (i - 1) + 1 = i
  BY <1>2 DEF t
<1>4. \A k, l \in 1..Len(t) : t[k] = t[l] => k = l
  <2> SUFFICES ASSUME NEW k \in 1..Len(t), NEW l \in 1..Len(t), t[k] = t[l] PROVE k = l
    OBVIOUS
  <2>1. k + 1 = l + 1
    BY <1>1, <1>3
  <2>. QED  BY <1>2, <1>3, <2>1
<1>5. Remaining(t) = Remaining(q) \ {Head(q)}
  <2>1. ASSUME NEW i \in 1..Len(t) PROVE t[i] \in Remaining(q) /\ t[i] # Head(q)
    <3>1. i + 1 # 1 /\ i + 1 \in 1..Len(q) /\ t[i] = q[i + 1]
      BY <1>2, <1>3
    <3>. QED  BY <1>1, <1>2, <3>1 DEF Remaining
  <2>2. ASSUME NEW i \in 1..Len(q), q[i] # Head(q) PROVE q[i] \in Remaining(t)
    <3>1. i - 1 \in 1..Len(t) /\ (i - 1) + 1 = i
      BY <1>2, <1>3, <2>2
    <3>2. t[i - 1] = q[(i - 1) + 1]
      BY <1>3, <3>1
    <3>3. t[i - 1] = q[i]
      BY <3>1, <3>2
    <3>. QED  BY <3>1, <3>3 DEF Remaining
  <2>. QED  BY <2>1, <2>2 DEF Remaining
<1>6. Head(q) \in Remaining(q) /\ Remaining(q) \subseteq Wanted(c)
  BY <1>2 DEF Remaining, IsAgenda
<1>7. IsAgenda(c, t)
  BY <1>3, <1>4, <1>5, <1>6 DEF IsAgenda
<1>8. Done(c, t) = Done(c, q) \cup {Head(q)}
  BY <1>5, <1>6 DEF Done
<1>. QED  BY <1>2, <1>6, <1>7, <1>8 DEF Done, t

(* With an empty agenda every wanted section is done. *)
LEMMA AgendaEnds ==
    ASSUME NEW c PROVE Done(c, <<>>) = Wanted(c)
  BY DEF Done, Remaining

(* The rows of the sections that are done, and of no other. *)
HoldsSections(in, rows, done) ==
    /\ rows \in Seq(ResultRow)
    /\ \A p \in Pairs :
          HasSection(rows, p[1], p[2], IF p \in done THEN Expected(in, p[1], p[2]) ELSE {})

(* Their counts, and the counts of all tokens and of the common ones. *)
CountOf(in, name, side, done) ==
    IF <<name, side>> \in done THEN Cardinality(Expected(in, name, side)) ELSE 0

CountsOf(in, name, done) == [side \in Side |-> CountOf(in, name, side, done)]

CountsSections(in, c, done) ==
    /\ c = [unique |-> c.unique, only |-> c.only, common |-> c.common, duplicate |-> c.duplicate]
    /\ c.only = CountsOf(in, "only", done)
    /\ c.duplicate = CountsOf(in, "duplicates", done)

CountsTokens(in, c) ==
    /\ c.unique = [side \in Side |-> Cardinality(FirstOrdinals(in[side]))]
    /\ c.common = Cardinality(CommonOrdinals(in["first"], in["second"]))

(* Rows and counts of all wanted sections. *)
IsResult(in, cfg, rows, c) ==
    /\ HoldsSections(in, rows, Wanted(cfg))
    /\ CountsSections(in, c, Wanted(cfg))
    /\ cfg.operation = "compare" => CountsTokens(in, c)

(* No rows and zero counts hold no section. *)
LEMMA NothingIsDone ==
    ASSUME NEW in
    PROVE  HoldsSections(in, <<>>, {}) /\ CountsSections(in, ZeroCounts, {})
<1>1. HoldsSections(in, <<>>, {})
  <2>1. <<>> \in Seq(ResultRow) /\ Len(<<>>) = 0
    OBVIOUS
  <2>2. \A name, side : PlacesOf(<<>>, name, side) = {}
    BY <2>1 DEF PlacesOf
  <2>. QED  BY <2>1, <2>2 DEF HoldsSections, HasSection
<1>2. CountsSections(in, ZeroCounts, {})
  BY DEF CountsSections, CountsOf, CountOf, ZeroCounts
<1>. QED  BY <1>1, <1>2

(* One more section changes one count. *)
LEMMA OneMoreCount ==
    ASSUME NEW in, NEW done, NEW name, NEW side \in Side, <<name, side>> \notin done
    PROVE  /\ CountsOf(in, name, done)[side] = 0
           /\ CountsOf(in, name, done \cup {<<name, side>>})
                = [CountsOf(in, name, done) EXCEPT ![side] = Cardinality(Expected(in, name, side))]
           /\ \A m : m # name =>
                CountsOf(in, m, done \cup {<<name, side>>}) = CountsOf(in, m, done)
<1> DEFINE more == done \cup {<<name, side>>}
<1>1. \A m, s : CountOf(in, m, s, more) =
                  IF m = name /\ s = side THEN Cardinality(Expected(in, name, side))
                                         ELSE CountOf(in, m, s, done)
  <2> TAKE m, s
  <2>1. CASE m = name /\ s = side
    <3>1. <<m, s>> \in more
      BY <2>1
    <3>. QED  BY <2>1, <3>1 DEF CountOf
  <2>2. CASE ~(m = name /\ s = side)
    <3>1. <<m, s>> \in more <=> <<m, s>> \in done
      BY <2>2
    <3> HIDE DEF more
    <3>. QED  BY <2>2, <3>1 DEF CountOf
  <2>. QED  BY <2>1, <2>2
<1> HIDE DEF more
<1>2. /\ CountsOf(in, name, more)
           = [CountsOf(in, name, done) EXCEPT ![side] = Cardinality(Expected(in, name, side))]
      /\ \A m : m # name => CountsOf(in, m, more) = CountsOf(in, m, done)
  BY <1>1 DEF CountsOf
<1>3. CountsOf(in, name, done)[side] = 0
  BY DEF CountsOf, CountOf
<1>. QED  BY <1>2, <1>3 DEF more

(* Counting the rows of one more section counts one more section. *)
LEMMA SectionIsCounted ==
    ASSUME NEW in, NEW done, NEW name \in {"only", "common", "duplicates"}, NEW side \in Side,
           <<name, side>> \notin done, Cardinality(Expected(in, name, side)) \in Nat,
           CountsSections(in, counts, done)
    PROVE  LET n == Cardinality(Expected(in, name, side)) IN
           /\ CountsSections(in, Counted(name, side, n), done \cup {<<name, side>>})
           /\ CountsTokens(in, counts) => CountsTokens(in, Counted(name, side, n))
<1> DEFINE n == Cardinality(Expected(in, name, side))
           more == done \cup {<<name, side>>}
           c == Counted(name, side, n)
<1>1. /\ counts = [unique |-> counts.unique, only |-> counts.only, common |-> counts.common,
                   duplicate |-> counts.duplicate]
      /\ counts.only = CountsOf(in, "only", done)
      /\ counts.duplicate = CountsOf(in, "duplicates", done)
  BY DEF CountsSections
<1>2. /\ CountsOf(in, name, done)[side] + n = n
      /\ CountsOf(in, name, more) = [CountsOf(in, name, done) EXCEPT ![side] = n]
      /\ \A m : m # name => CountsOf(in, m, more) = CountsOf(in, m, done)
  BY OneMoreCount
<1> HIDE DEF n, more
<1>3. ASSUME name = "only"
      PROVE  /\ CountsSections(in, c, more)
             /\ CountsTokens(in, counts) => CountsTokens(in, c)
  <2>1. c = [counts EXCEPT !.only[side] = counts.only[side] + n]
    BY <1>3 DEF Counted
  <2>2. counts.only[side] + n = n
    BY <1>1, <1>2, <1>3
  <2>3. /\ c.unique = counts.unique /\ c.common = counts.common
        /\ c.duplicate = counts.duplicate
        /\ c.only = [counts.only EXCEPT ![side] = n]
        /\ c = [unique |-> c.unique, only |-> c.only, common |-> c.common,
                duplicate |-> c.duplicate]
    BY <1>1, <2>1, <2>2
  <2> HIDE DEF c
  <2>. QED  BY <1>1, <1>2, <1>3, <2>3 DEF CountsSections, CountsTokens
<1>4. ASSUME name = "duplicates"
      PROVE  /\ CountsSections(in, c, more)
             /\ CountsTokens(in, counts) => CountsTokens(in, c)
  <2>1. c = [counts EXCEPT !.duplicate[side] = counts.duplicate[side] + n]
    BY <1>4 DEF Counted
  <2>2. counts.duplicate[side] + n = n
    BY <1>1, <1>2, <1>4
  <2>3. /\ c.unique = counts.unique /\ c.common = counts.common
        /\ c.only = counts.only
        /\ c.duplicate = [counts.duplicate EXCEPT ![side] = n]
        /\ c = [unique |-> c.unique, only |-> c.only, common |-> c.common,
                duplicate |-> c.duplicate]
    BY <1>1, <2>1, <2>2
  <2> HIDE DEF c
  <2>. QED  BY <1>1, <1>2, <1>4, <2>3 DEF CountsSections, CountsTokens
<1>5. ASSUME name = "common"
      PROVE  /\ CountsSections(in, c, more)
             /\ CountsTokens(in, counts) => CountsTokens(in, c)
  <2>1. c = counts
    BY <1>5 DEF Counted
  <2> HIDE DEF c
  <2>. QED  BY <1>1, <1>2, <1>5, <2>1 DEF CountsSections
<1>. QED  BY <1>3, <1>4, <1>5 DEF n, c, more

(* Taking the next section of the agenda adds its rows and its count. *)
LEMMA SectionIsDone ==
    ASSUME TablesInv, TablesLoaded, IsAgenda(config, sections), sections # <<>>, NEW rows,
           HoldsSections(input, rows, Done(config, sections)),
           NEW name, NEW side, name = Head(sections)[1], side = Head(sections)[2]
    PROVE  /\ IsAgenda(config, Tail(sections))
           /\ HoldsSections(input, rows \o RowsOfSection(name, side), Done(config, Tail(sections)))
           /\ CountsSections(input, counts, Done(config, sections))
                => /\ CountsSections(input, Counted(name, side, Len(RowsOfSection(name, side))),
                                     Done(config, Tail(sections)))
                   /\ CountsTokens(input, counts)
                        => CountsTokens(input, Counted(name, side, Len(RowsOfSection(name, side))))
<1> DEFINE done == Done(config, sections)
           more == Done(config, Tail(sections))
           p == <<name, side>>
           S == Expected(input, name, side)
           new == RowsOfSection(name, side)
<1>1. /\ IsAgenda(config, Tail(sections)) /\ more = done \cup {p} /\ p \notin done
      /\ p \in Wanted(config) /\ p \in Pairs
      /\ name \in {"only", "common", "duplicates"} /\ side \in Side
  <2>1. /\ Head(sections) \in Pairs /\ Head(sections) \in Wanted(config)
        /\ Head(sections) \notin done
        /\ IsAgenda(config, Tail(sections)) /\ more = done \cup {Head(sections)}
    BY AgendaMoves
  <2>2. Head(sections) = p /\ name \in {"only", "common", "duplicates"} /\ side \in Side
    BY <2>1 DEF Pairs
  <2>. QED  BY <2>1, <2>2
<1>2. Loaded(side) /\ (name # "duplicates" => Loaded(Other(side)))
  <2>1. CASE config.operation = "compare"
    BY <1>1, <2>1 DEF TablesLoaded, Side, Other
  <2>2. CASE config.operation # "compare"
    <3>1. config.operation = "duplicates"
      BY <2>2, ConfigsAreOptions DEF TablesInv
    <3>2. name = "duplicates" /\ side = "first"
      BY <1>1, <3>1 DEF Wanted
    <3>. QED  BY <3>2 DEF TablesLoaded
  <2>. QED  BY <2>1, <2>2
<1>3. PICK q \in Seq(Nat) : /\ new = Rows(name, side, q) /\ Lists(q, S, TRUE)
                            /\ Len(q) = Cardinality(S)
  BY <1>1, <1>2, QueriesAreExact DEF TablesInv
<1>4. rows \in Seq(ResultRow) /\ HasSection(rows, name, side, {})
  <2>1. p[1] = name /\ p[2] = side
    OBVIOUS
  <2>2. HoldsSections(input, rows, done)
    OBVIOUS
  <2> HIDE DEF p, done
  <2>3. HasSection(rows, p[1], p[2], {})
    BY <1>1, <2>2 DEF HoldsSections
  <2>. QED  BY <2>1, <2>2, <2>3 DEF HoldsSections
<1>5. /\ HasSection(rows \o new, name, side, S)
      /\ \A m, s, T : ~(m = name /\ s = side) /\ HasSection(rows, m, s, T)
                        => HasSection(rows \o new, m, s, T)
  BY <1>1, <1>3, <1>4, SectionIsAdded
<1>6. rows \o new \in Seq(ResultRow) /\ Len(new) = Cardinality(S)
  <2>1. /\ rows \in Seq(ResultRow) /\ name \in {"only", "common", "duplicates"}
        /\ side \in Side /\ q \in Seq(Nat)
    BY <1>1, <1>3, <1>4
  <2>2. /\ rows \o Rows(name, side, q) \in Seq(ResultRow)
        /\ Len(Rows(name, side, q)) = Len(q)
    BY <2>1, RowsExtended
  <2>. QED  BY <1>3, <2>2
<1>7. HoldsSections(input, rows \o new, more)
  <2> SUFFICES ASSUME NEW r \in Pairs
               PROVE  HasSection(rows \o new, r[1], r[2],
                                 IF r \in more THEN Expected(input, r[1], r[2]) ELSE {})
    BY <1>6 DEF HoldsSections
  <2> HIDE DEF new, S, done, more
  <2>1. CASE r = p
    BY <1>1, <1>5, <2>1 DEF S
  <2>2. CASE r # p
    <3>1. ~(r[1] = name /\ r[2] = side)
      BY <2>2 DEF Pairs
    <3>2. HasSection(rows, r[1], r[2], IF r \in done THEN Expected(input, r[1], r[2]) ELSE {})
      BY DEF HoldsSections, done
    <3>3. r \in more <=> r \in done
      BY <1>1, <2>2
    <3> HIDE DEF p
    <3>. QED  BY <1>5, <3>1, <3>2, <3>3
  <2>. QED  BY <2>1, <2>2
<1>8. Cardinality(S) \in Nat
  <2>1. input[side] \in Seq(Token)
    BY <1>1, InputsAreBlobs DEF TablesInv
  <2>2. IsFiniteSet(S)
    BY <2>1, ExpectedAreItems DEF S
  <2>. QED  BY <2>2, FS_CardinalityType
<1>9. ASSUME CountsSections(input, counts, done)
      PROVE  /\ CountsSections(input, Counted(name, side, Len(new)), more)
             /\ CountsTokens(input, counts) => CountsTokens(input, Counted(name, side, Len(new)))
  <2>1. /\ CountsSections(input, Counted(name, side, Cardinality(S)), done \cup {p})
        /\ CountsTokens(input, counts) => CountsTokens(input, Counted(name, side, Cardinality(S)))
    BY <1>1, <1>8, <1>9, SectionIsCounted
  <2> HIDE DEF new, S, done, more, p
  <2>. QED  BY <1>1, <1>6, <2>1
<1>. QED  BY <1>1, <1>7, <1>9

-----------------------------------------------------------------------------
(* Before the first query. *)
Before == {"make", "open", "insert_first", "insert_second", "index"}

(* What the call holds so far is right: in memory mode the rows fetched,   *)
(* in file mode the rows in the temporary file, and their counts.          *)
ResultInv ==
    /\ sibling = [w \in Call |-> sibling[w]]
    /\ session = [w \in Call |-> session[w]]
    /\ phase \in Before => fetched = <<>> /\ counts = ZeroCounts
    /\ phase = "fetch" =>
          /\ IsAgenda(config, sections)
          /\ HoldsSections(input, fetched, Done(config, sections))
          /\ CountsSections(input, counts, IF FileMode THEN {} ELSE Done(config, sections))
    /\ phase = "write" =>
          /\ FileMode /\ session["call"] = "open"
          /\ IsAgenda(config, sections)
          /\ HoldsSections(input, sibling["call"], Done(config, sections))
          /\ CountsSections(input, counts, Done(config, sections))
          /\ config.operation = "compare" => CountsTokens(input, counts)
    /\ phase = "close" =>
          /\ FileMode
          /\ \/ session["call"] = "failing" /\ error # None
             \/ /\ session["call"] \in {"open", "closed"}
                /\ IsResult(input, config, sibling["call"], counts)
    /\ Succeeding => IsResult(input, config, IF FileMode THEN target ELSE fetched, counts)

(* In memory mode a fetched section joins the result. *)
LEMMA ResultFetching ==
    ASSUME TablesInv, ResultInv, FetchSection PROVE ResultInv'
<1> DEFINE name == Head(sections)[1]
           side == Head(sections)[2]
           rows == RowsOfSection(name, side)
           more == Done(config, Tail(sections))
<1>1. /\ phase = "fetch" /\ phase' = "fetch" /\ sections # <<>> /\ sections' = Tail(sections)
      /\ fetched' = fetched \o rows
      /\ counts' = IF FileMode THEN counts ELSE Counted(name, side, Len(rows))
      /\ UNCHANGED <<input, config, sibling, session>>
  BY DEF FetchSection, call, output
<1>2. /\ TablesLoaded /\ IsAgenda(config, sections)
      /\ HoldsSections(input, fetched, Done(config, sections))
      /\ CountsSections(input, counts, IF FileMode THEN {} ELSE Done(config, sections))
  BY <1>1 DEF TablesInv, ResultInv, Selecting
<1>3. /\ IsAgenda(config, Tail(sections))
      /\ HoldsSections(input, fetched \o rows, more)
      /\ CountsSections(input, counts, Done(config, sections))
           => CountsSections(input, Counted(name, side, Len(rows)), more)
  <2>1. \A n, s : n = Head(sections)[1] /\ s = Head(sections)[2] =>
          /\ IsAgenda(config, Tail(sections))
          /\ HoldsSections(input, fetched \o RowsOfSection(n, s), more)
          /\ CountsSections(input, counts, Done(config, sections))
               => CountsSections(input, Counted(n, s, Len(RowsOfSection(n, s))), more)
    BY <1>1, <1>2, SectionIsDone
  <2>. QED  BY <2>1
<1> HIDE DEF rows, name, side
<1>4. CountsSections(input, counts', IF FileMode THEN {} ELSE more)
  BY <1>1, <1>2, <1>3
<1>5. /\ IsAgenda(config', sections')
      /\ HoldsSections(input', fetched', Done(config', sections'))
      /\ FileMode' <=> FileMode
  BY <1>1, <1>3 DEF FileMode
<1>6. CountsSections(input', counts', IF FileMode' THEN {} ELSE Done(config', sections'))
  BY <1>1, <1>4, <1>5
<1>7. sibling' = [w \in Call |-> sibling'[w]] /\ session' = [w \in Call |-> session'[w]]
  BY <1>1 DEF ResultInv
<1>. QED  BY <1>1, <1>5, <1>6, <1>7 DEF ResultInv, Before, Succeeding

(* In file mode a section joins the file when it is written. *)
LEMMA ResultWriting ==
    ASSUME TablesInv, ResultInv, WriteSection PROVE ResultInv'
<1> DEFINE name == Head(sections)[1]
           side == Head(sections)[2]
           rows == RowsOfSection(name, side)
           more == Done(config, Tail(sections))
           file == sibling["call"]
<1>1. /\ phase = "write" /\ phase' = "write" /\ sections # <<>> /\ sections' = Tail(sections)
      /\ sibling' = [sibling EXCEPT !["call"] = file \o rows]
      /\ counts' = Counted(name, side, Len(rows))
      /\ UNCHANGED <<input, config, session>>
  BY DEF WriteSection, call, Out!WriteRows
<1>2. /\ TablesLoaded /\ IsAgenda(config, sections) /\ FileMode /\ session["call"] = "open"
      /\ HoldsSections(input, file, Done(config, sections))
      /\ CountsSections(input, counts, Done(config, sections))
      /\ config.operation = "compare" => CountsTokens(input, counts)
  BY <1>1 DEF TablesInv, ResultInv, Selecting
<1>3. /\ IsAgenda(config, Tail(sections))
      /\ HoldsSections(input, file \o rows, more)
      /\ CountsSections(input, Counted(name, side, Len(rows)), more)
      /\ CountsTokens(input, counts) => CountsTokens(input, Counted(name, side, Len(rows)))
  <2>1. \A n, s : n = Head(sections)[1] /\ s = Head(sections)[2] =>
          /\ IsAgenda(config, Tail(sections))
          /\ HoldsSections(input, file \o RowsOfSection(n, s), more)
          /\ CountsSections(input, Counted(n, s, Len(RowsOfSection(n, s))), more)
          /\ CountsTokens(input, counts)
               => CountsTokens(input, Counted(n, s, Len(RowsOfSection(n, s))))
    BY <1>1, <1>2, SectionIsDone
  <2>. QED  BY <2>1
<1> HIDE DEF rows, name, side
<1>4. /\ sibling' = [w \in Call |-> sibling'[w]] /\ session' = [w \in Call |-> session'[w]]
      /\ sibling'["call"] = file \o rows
  BY <1>1 DEF ResultInv, Call
<1>5. /\ IsAgenda(config', sections')
      /\ HoldsSections(input', sibling'["call"], Done(config', sections'))
      /\ CountsSections(input', counts', Done(config', sections'))
      /\ config'.operation = "compare" => CountsTokens(input', counts')
      /\ FileMode' <=> FileMode
  BY <1>1, <1>2, <1>3, <1>4 DEF FileMode
<1>. QED  BY <1>1, <1>2, <1>4, <1>5 DEF ResultInv, Before, Succeeding

(* Tokens are counted once all sections are fetched. *)
LEMMA ResultCounting ==
    ASSUME TablesInv, ResultInv, CountTokens PROVE ResultInv'
<1>1. /\ phase = "fetch" /\ sections = <<>>
      /\ phase' = IF FileMode THEN "write" ELSE "cleanup"
      /\ sections' = IF FileMode THEN SectionsOf ELSE <<>>
      /\ UNCHANGED <<input, config, fetched>>
  BY DEF CountTokens, call
<1>2. /\ TablesLoaded /\ config \in Configs /\ input \in [Side -> Inputs]
      /\ HoldsSections(input, fetched, Wanted(config))
      /\ CountsSections(input, counts, IF FileMode THEN {} ELSE Wanted(config))
  BY <1>1, AgendaEnds DEF TablesInv, ResultInv, Selecting
<1>3. config.operation \in {"compare", "duplicates"}
  BY <1>2, ConfigsAreOptions
<1>4. /\ CountsSections(input, counts', IF FileMode THEN {} ELSE Wanted(config))
      /\ config.operation = "compare" => CountsTokens(input, counts')
  <2>1. CASE config.operation = "compare"
    <3>1. counts' = [counts EXCEPT !.unique = [side \in Side |-> CountUnique(side)],
                                   !.common = CountCommon]
      BY <2>1 DEF CountTokens
    <3>2. Loaded("first") /\ Loaded("second")
      BY <1>2, <2>1 DEF TablesLoaded
    <3>3. /\ \A side \in Side : CountUnique(side) = Cardinality(FirstOrdinals(input[side]))
          /\ CountCommon = Cardinality(CommonOrdinals(input["first"], input["second"]))
      BY <1>2, <3>2, CountsAreExact
    <3>4. counts = [unique |-> counts.unique, only |-> counts.only, common |-> counts.common,
                    duplicate |-> counts.duplicate]
      BY <1>2 DEF CountsSections
    <3>5. counts' = [unique |-> [side \in Side |-> CountUnique(side)], only |-> counts.only,
                     common |-> CountCommon, duplicate |-> counts.duplicate]
      BY <3>1, <3>4
    <3>6. counts'.only = counts.only /\ counts'.duplicate = counts.duplicate
          /\ counts'.common = CountCommon
          /\ counts'.unique = [side \in Side |-> Cardinality(FirstOrdinals(input[side]))]
          /\ counts' = [unique |-> counts'.unique, only |-> counts'.only,
                        common |-> counts'.common, duplicate |-> counts'.duplicate]
      BY <3>3, <3>5
    <3>7. CountsTokens(input, counts')
      BY <3>3, <3>6 DEF CountsTokens
    <3>8. CountsSections(input, counts', IF FileMode THEN {} ELSE Wanted(config))
      BY <1>2, <3>6 DEF CountsSections
    <3>. QED  BY <3>7, <3>8
  <2>2. CASE config.operation # "compare"
    BY <1>2, <2>2 DEF CountTokens
  <2>. QED  BY <2>1, <2>2
<1>5. FileMode' <=> FileMode
  BY <1>1 DEF FileMode
<1>6. CASE FileMode
  <2>1. /\ session' = [session EXCEPT !["call"] = "open"]
        /\ sibling' = [sibling EXCEPT !["call"] = <<>>]
    BY <1>6 DEF CountTokens, Out!Enter, Out!Step
  <2>2. /\ session' = [w \in Call |-> session'[w]] /\ session'["call"] = "open"
        /\ sibling' = [w \in Call |-> sibling'[w]] /\ sibling'["call"] = <<>>
    BY <2>1 DEF ResultInv, Call
  <2>3. IsAgenda(config', sections') /\ Done(config', sections') = {}
    BY <1>1, <1>2, <1>6, SectionsAreWanted
  <2>4. HoldsSections(input', sibling'["call"], {})
    BY <2>2, NothingIsDone
  <2>5. /\ CountsSections(input', counts', {})
        /\ config'.operation = "compare" => CountsTokens(input', counts')
    BY <1>1, <1>4, <1>6
  <2>. QED  BY <1>1, <1>5, <1>6, <2>2, <2>3, <2>4, <2>5 DEF ResultInv, Before, Succeeding
<1>7. CASE ~FileMode
  <2>1. UNCHANGED <<session, sibling>>
    BY <1>7 DEF CountTokens, output
  <2>2. session' = [w \in Call |-> session'[w]] /\ sibling' = [w \in Call |-> sibling'[w]]
    BY <2>1 DEF ResultInv
  <2>3. IsResult(input', config', fetched', counts')
    BY <1>1, <1>2, <1>4, <1>7 DEF IsResult
  <2>. QED  BY <1>1, <1>5, <1>7, <2>2, <2>3 DEF ResultInv, Before
<1>. QED  BY <1>6, <1>7

(* Every step keeps it right. *)
LEMMA ResultKept ==
    ASSUME None \notin Causes, TablesInv, ResultInv, [Next]_vars PROVE ResultInv'
<1> USE DEF Causes
<1>1. ASSUME UNCHANGED <<input, config, fetched, counts, target, sibling, session>>,
             \/ phase' = phase /\ error' = error /\ sections' = sections
             \/ phase \in Before /\ phase' \in Before
             \/ phase' \in {"cleanup", "raised"} /\ error' # None
             \/ phase' = "raised"
             \/ phase = "cleanup" /\ phase' = "returned" /\ error' = error
      PROVE  ResultInv'
  <2>1. FileMode' <=> FileMode
    BY <1>1 DEF FileMode
  <2>. QED  BY <1>1, <2>1 DEF ResultInv, Before, Succeeding
<1>2. CASE MakeDatabase \/ OpenDatabase \/ MakeFails \/ QueryRaises
  BY <1>1, <1>2 DEF MakeDatabase, OpenDatabase, MakeFails, QueryRaises, Fail, Before, call,
                    result, output
<1>3. ASSUME NEW side \in Side,
             ReadItem(side) \/ InsertBatch(side) \/ Commit(side) \/ InsertRaises(side)
      PROVE  ResultInv'
  <2>1. /\ UNCHANGED <<input, config, fetched, counts, target, sibling, session>>
        /\ phase \in Before
        /\ \/ phase' \in Before
           \/ phase' = "cleanup" /\ error' # None
    BY <1>3 DEF ReadItem, InsertBatch, BatchIsDue, Commit, InsertRaises, InsertPhase, NextPhase,
                Fail, Before, call, result, output
  <2>. QED  BY <1>1, <2>1
<1>4. CASE CreateIndexes
  <2>1. /\ phase = "index" /\ phase' = "fetch" /\ sections' = SectionsOf
        /\ UNCHANGED <<input, config, fetched, counts, sibling, session>>
    BY <1>4 DEF CreateIndexes, call, output
  <2>2. fetched' = <<>> /\ counts' = ZeroCounts
    BY <2>1 DEF ResultInv, Before
  <2>3. IsAgenda(config', sections') /\ Done(config', sections') = {}
    BY <2>1, SectionsAreWanted DEF TablesInv
  <2>4. HoldsSections(input', fetched', {}) /\ CountsSections(input', counts', {})
    BY <2>2, NothingIsDone
  <2>. QED  BY <2>1, <2>3, <2>4 DEF ResultInv, Before, Succeeding
<1>5. CASE FetchSection
  BY <1>5, ResultFetching
<1>6. CASE CountTokens
  BY <1>6, ResultCounting
<1>7. CASE WriteSection
  BY <1>7, ResultWriting
<1>8. CASE FinishWriting
  <2>1. /\ phase = "write" /\ phase' = "close" /\ sections = <<>>
        /\ UNCHANGED <<input, config, counts, sibling, session>>
    BY <1>8 DEF FinishWriting, call, result, output
  <2>2. /\ FileMode' /\ session'["call"] = "open"
        /\ IsResult(input', config', sibling'["call"], counts')
    BY <2>1, AgendaEnds DEF ResultInv, IsResult, FileMode
  <2>. QED  BY <2>1, <2>2 DEF ResultInv, Before, Succeeding
<1>9. CASE CloseWriter
  <2>1. /\ phase = "close" /\ phase' = "close"
        /\ session["call"] = "open" /\ session' = [session EXCEPT !["call"] = "closed"]
        /\ UNCHANGED <<input, config, counts, sibling>>
    BY <1>9 DEF CloseWriter, call, result, Out!Close, Out!Step
  <2>2. session' = [w \in Call |-> session'[w]] /\ session'["call"] = "closed"
    BY <2>1 DEF ResultInv, Call
  <2>3. FileMode' /\ IsResult(input', config', sibling'["call"], counts')
    BY <2>1 DEF ResultInv, FileMode
  <2>. QED  BY <2>1, <2>2, <2>3 DEF ResultInv, Before, Succeeding
<1>10. CASE ExitWriter
  <2>1. /\ phase = "close" /\ phase' = "cleanup" /\ error' = error
        /\ UNCHANGED <<input, config, counts>>
        /\ Out!Replace("call") \/ Out!Discard("call")
    BY <1>10 DEF ExitWriter, call, result
  <2>2. /\ session["call"] \in {"closed", "failing"}
        /\ session["call"] = "closed" => target' = sibling["call"]
        /\ \E v : session' = [session EXCEPT !["call"] = v]
        /\ \E v : sibling' = [sibling EXCEPT !["call"] = v]
    BY <2>1 DEF Out!Replace, Out!Discard, Out!Step
  <2>3. session' = [w \in Call |-> session'[w]] /\ sibling' = [w \in Call |-> sibling'[w]]
    BY <2>2 DEF ResultInv
  <2>4. FileMode' /\ (error' = None => IsResult(input', config', target', counts'))
    BY <2>1, <2>2 DEF ResultInv, FileMode
  <2>. QED  BY <2>1, <2>3, <2>4 DEF ResultInv, Before, Succeeding
<1>11. CASE OpenWriterFails
  <2>1. /\ phase' = "cleanup" /\ error' # None
        /\ (UNCHANGED <<session, sibling>>) \/ Out!EnterFails("call")
    BY <1>11 DEF OpenWriterFails, Fail, output
  <2>2. session' = [w \in Call |-> session'[w]] /\ sibling' = [w \in Call |-> sibling'[w]]
    BY <2>1 DEF ResultInv, Out!EnterFails, Out!Step
  <2>. QED  BY <2>1, <2>2 DEF ResultInv, Before, Succeeding
<1>12. CASE WriteRaises
  <2>1. /\ phase = "write" /\ phase' = "close" /\ error' # None /\ config' = config
        /\ session' = [session EXCEPT !["call"] = "failing"] /\ sibling' = sibling
    BY <1>12 DEF WriteRaises, call, Out!BodyRaises, Out!Step
  <2>2. /\ session' = [w \in Call |-> session'[w]] /\ sibling' = [w \in Call |-> sibling'[w]]
        /\ session'["call"] = "failing" /\ FileMode'
    BY <2>1 DEF ResultInv, FileMode, Call
  <2>. QED  BY <2>1, <2>2 DEF ResultInv, Before, Succeeding
<1>13. CASE ExitWriterFails
  <2>1. /\ phase' = "cleanup" /\ error' # None
        /\ Out!CloseFails("call") \/ Out!ReplaceFails("call")
    BY <1>13 DEF ExitWriterFails, Fail
  <2>2. session' = [w \in Call |-> session'[w]] /\ sibling' = [w \in Call |-> sibling'[w]]
    BY <2>1 DEF ResultInv, Out!CloseFails, Out!ReplaceFails, Out!Step
  <2>. QED  BY <2>1, <2>2 DEF ResultInv, Before, Succeeding
<1>14. CASE CleanUp \/ CleanUpFails
  BY <1>1, <1>14 DEF CleanUp, CleanUpFails, call, result, output
<1>15. CASE UNCHANGED vars
  BY <1>1, <1>15 DEF vars, call, result, output
<1>. QED  BY <1>2, <1>3, <1>4, <1>5, <1>6, <1>7, <1>8, <1>9, <1>10, <1>11, <1>12, <1>13, <1>14,
             <1>15 DEF Next, Progress, Failure

-----------------------------------------------------------------------------
(* The contract and the backend share their vocabulary. *)
LEMMA SameVocabulary ==
    /\ \A q, S, ordered : Contract!Lists(q, S, ordered) <=> Lists(q, S, ordered)
    /\ \A s : /\ Contract!FirstOrdinals(s) = FirstOrdinals(s)
              /\ Contract!RepeatOrdinals(s) = RepeatOrdinals(s)
    /\ \A s, o : /\ Contract!OnlyOrdinals(s, o) = OnlyOrdinals(s, o)
                 /\ Contract!CommonOrdinals(s, o) = CommonOrdinals(s, o)
    /\ \A S : Contract!Cardinality(S) = Cardinality(S)
    /\ Contract!Side = Side
    /\ \A side : Contract!Other(side) = Other(side)
<1>1. \A q, S : Contract!Enumerates(q, S) <=> Enumerates(q, S)
  BY DEF Contract!Enumerates, Enumerates, Contract!Bijection, Bijection,
         Contract!Injection, Injection, Contract!Surjection, Surjection,
         Contract!IsInjective, IsInjective
<1>2. \A q : Contract!Ascending(q) <=> Ascending(q)
  BY DEF Contract!Ascending, Ascending
<1>3. \A s : /\ Contract!FirstOrdinals(s) = FirstOrdinals(s)
             /\ Contract!RepeatOrdinals(s) = RepeatOrdinals(s)
  BY DEF Contract!FirstOrdinals, FirstOrdinals, Contract!RepeatOrdinals, RepeatOrdinals,
         Contract!IsFirst, IsFirst
<1>4. \A t, s : Contract!Occurs(t, s) <=> Occurs(t, s)
  BY DEF Contract!Occurs, Occurs
<1>5. \A s, o : /\ Contract!OnlyOrdinals(s, o) = OnlyOrdinals(s, o)
                /\ Contract!CommonOrdinals(s, o) = CommonOrdinals(s, o)
  BY <1>3, <1>4 DEF Contract!OnlyOrdinals, OnlyOrdinals, Contract!CommonOrdinals, CommonOrdinals
<1>6. \A S : Contract!Cardinality(S) = Cardinality(S)
  BY DEF Contract!Cardinality, Cardinality
<1>. QED  BY <1>1, <1>2, <1>3, <1>5, <1>6
          DEF Contract!Lists, Lists, Contract!Side, Side, Contract!Other, Other

(* The rows and counts of a complete result are the contract's answer. *)
LEMMA ResultIsAnswer ==
    ASSUME TablesInv, TablesLoaded, NEW rows, IsResult(input, config, rows, counts)
    PROVE  Contract!IsAnswer(AnswerOf(rows, [config EXCEPT !.result_mode = "file"], itemCount,
                                      counts, None))
<1> DEFINE mode == [config EXCEPT !.result_mode = "file"]
           a == AnswerOf(rows, mode, itemCount, counts, None)
           want == Wanted(config)
           section(name, side) == Section(rows, name, side, TRUE)
<1>1. /\ config.operation \in {"compare", "duplicates"}
      /\ config.include_common \in BOOLEAN /\ config.include_duplicates \in BOOLEAN
      /\ \A side \in Side : input[side] \in Seq(Token)
      /\ "first" \in Side /\ "second" \in Side
  BY ConfigsAreOptions, InputsAreBlobs DEF TablesInv, Side
<1>2. \A name \in {"only", "common", "duplicates"}, side \in Side :
         <<name, side>> \in want => Lists(section(name, side), Expected(input, name, side), TRUE)
  <2> SUFFICES ASSUME NEW name \in {"only", "common", "duplicates"}, NEW side \in Side,
                      <<name, side>> \in want
               PROVE  Lists(section(name, side), Expected(input, name, side), TRUE)
    OBVIOUS
  <2>1. rows \in Seq(ResultRow) /\ HasSection(rows, name, side, Expected(input, name, side))
    <3> DEFINE p == <<name, side>>
    <3>1. p \in Pairs /\ p[1] = name /\ p[2] = side /\ p \in want
      BY DEF Pairs
    <3> HIDE DEF p, want
    <3>2. HoldsSections(input, rows, want)
      BY DEF IsResult, want
    <3>. QED  BY <3>1, <3>2 DEF HoldsSections
  <2>2. Expected(input, name, side) \in SUBSET Nat
    BY <1>1, ExpectedAreItems
  <2>. QED  BY <2>1, <2>2, SectionLists
<1>3. /\ mode.operation = config.operation /\ mode.include_common = config.include_common
      /\ mode.include_duplicates = config.include_duplicates /\ mode.result_mode = "file"
  BY ConfigsAreOptions DEF TablesInv
<1>4. \A name, side : Section(rows, name, side, mode.result_mode = "file") = section(name, side)
  BY <1>3 DEF Section
<1> DEFINE cfg == [ContractConfig(config) EXCEPT !.preserve_order = TRUE]
<1>5. /\ cfg.operation = config.operation /\ cfg.include_common = config.include_common
      /\ cfg.include_duplicates = config.include_duplicates /\ cfg.preserve_order = TRUE
      /\ cfg.include_stats = TRUE
  BY DEF ContractConfig
<1>6. CASE config.operation = "duplicates"
  <2>1. a = section("duplicates", "first")
    BY <1>3, <1>4, <1>6 DEF AnswerOf
  <2>2. Lists(section("duplicates", "first"), RepeatOrdinals(input["first"]), TRUE)
    <3>1. <<"duplicates", "first">> \in want
      BY <1>6 DEF Wanted
    <3> HIDE DEF section, want
    <3>. QED  BY <1>1, <1>2, <3>1 DEF Expected
  <2> HIDE DEF a, section
  <2>3. Lists(a, RepeatOrdinals(input.first), TRUE)
    BY <2>1, <2>2
  <2>. QED  BY <1>5, <1>6, <2>3, SameVocabulary DEF Contract!IsAnswer, a
<1>7. CASE config.operation = "compare"
  <2>1. /\ a.only = [side \in Side |-> section("only", side)]
        /\ a.common = IF config.include_common THEN section("common", "first") ELSE None
        /\ a.duplicates = [side \in Side |-> IF config.include_duplicates
                                             THEN section("duplicates", side) ELSE None]
        /\ a.stats = [count |-> itemCount, unique |-> counts.unique, only |-> counts.only,
                      common |-> counts.common, duplicate |-> counts.duplicate]
    BY <1>3, <1>4, <1>7 DEF AnswerOf
  <2>2. /\ \A side \in Side : <<"only", side>> \in want
        /\ config.include_common => <<"common", "first">> \in want
        /\ \A side \in Side : <<"duplicates", side>> \in want <=> config.include_duplicates
    BY <1>7 DEF Wanted, Pairs, Side
  <2> HIDE DEF a, section, want
  <2>3. \A side \in Side : Lists(section("only", side), OnlyOrdinals(input[side], input[Other(side)]), TRUE)
    BY <1>2, <2>2 DEF Expected
  <2>4. ASSUME config.include_common
        PROVE  Lists(section("common", "first"), CommonOrdinals(input.first, input.second), TRUE)
    BY <1>1, <1>2, <2>2, <2>4 DEF Expected, Other
  <2>5. ASSUME config.include_duplicates, NEW side \in Side
        PROVE  Lists(section("duplicates", side), RepeatOrdinals(input[side]), TRUE)
    BY <1>2, <2>2, <2>5 DEF Expected
  <2>6. Contract!SectionsAreExact(a)
    <3>1. \A side \in Side : /\ a.only[side] = section("only", side)
                             /\ a.duplicates[side] = IF config.include_duplicates
                                                       THEN section("duplicates", side) ELSE None
      BY <2>1
    <3>2. ASSUME NEW side \in Side
          PROVE  /\ Lists(a.only[side], OnlyOrdinals(input[side], input[Other(side)]), TRUE)
                 /\ IF config.include_duplicates
                      THEN Lists(a.duplicates[side], RepeatOrdinals(input[side]), TRUE)
                      ELSE a.duplicates[side] = None
      BY <2>3, <2>5, <3>1
    <3>3. IF config.include_common
            THEN Lists(a.common, CommonOrdinals(input.first, input.second), TRUE)
            ELSE a.common = None
      BY <2>1, <2>4
    <3>. QED  BY <1>5, <3>2, <3>3, SameVocabulary DEF Contract!SectionsAreExact
  <2>7. a.stats = Contract!ExpectedStats
    <3>1. itemCount = [side \in Side |-> Len(input[side])]
      <4>1. \A side \in Side : itemCount[side] = Len(input[side])
        BY <1>7 DEF TablesLoaded, Loaded, Side
      <4>. QED  BY <4>1 DEF TablesInv
    <3>2. /\ counts.unique = [side \in Side |-> Cardinality(FirstOrdinals(input[side]))]
          /\ counts.common = Cardinality(CommonOrdinals(input.first, input.second))
      BY <1>7 DEF IsResult, CountsTokens
    <3>3. /\ counts.only = CountsOf(input, "only", want)
          /\ counts.duplicate = CountsOf(input, "duplicates", want)
      BY DEF IsResult, CountsSections, want
    <3>4. counts.only = [side \in Side |->
                           Cardinality(OnlyOrdinals(input[side], input[Other(side)]))]
      BY <2>2, <3>3 DEF CountsOf, CountOf, Expected
    <3>5. counts.duplicate = [side \in Side |-> IF config.include_duplicates
                                THEN Cardinality(RepeatOrdinals(input[side])) ELSE 0]
      BY <2>2, <3>3 DEF CountsOf, CountOf, Expected
    <3>. QED  BY <1>5, <2>1, <3>1, <3>2, <3>4, <3>5, SameVocabulary DEF Contract!ExpectedStats
  <2>. QED  BY <1>5, <1>7, <2>6, <2>7 DEF Contract!IsAnswer, a
<1>. QED  BY <1>1, <1>6, <1>7

(* Whatever the inputs, options, chunk size and limit, a call that returns *)
(* gives the sections and the counts the contract promises, and a call     *)
(* that raises gives none (compare_sqlite, find_duplicates_sqlite).        *)
THEOREM SqliteImplementsContract ==
    ASSUME None \notin Causes
    PROVE  Spec => Implements
<1> DEFINE Inv == TablesInv /\ ResultInv
<1>1. Init => Inv
  <2> SUFFICES ASSUME Init PROVE Inv
    OBVIOUS
  <2>1. \A side \in Side : Len(input[side]) \in Nat
    BY InputsAreBlobs, LenProperties DEF Init
  <2>2. TablesInv
    BY <2>1 DEF Init, TablesInv, NotBegun, Selecting, Succeeding, RowIds, Side
  <2>3. ResultInv
    BY DEF Init, Out!Init, ResultInv, Before, Succeeding
  <2>. QED  BY <2>2, <2>3
<1>2. Inv /\ [Next]_vars => Inv'
  BY TablesKept, ResultKept
<1>3. Init => Contract!Init
  <2> SUFFICES ASSUME Init PROVE Contract!Init
    OBVIOUS
  <2>1. [ContractConfig(config) EXCEPT !.preserve_order = TRUE] \in Contract!Config
    BY ConfigsAreOptions DEF Init, ContractConfig, Contract!Config
  <2>. QED  BY <2>1, SameVocabulary DEF Init, Contract!Init, Answer
<1>4. Inv /\ [Next]_vars => [Contract!Next]_Contract!vars
  <2> SUFFICES ASSUME Inv, [Next]_vars PROVE [Contract!Next]_Contract!vars
    OBVIOUS
  <2> DEFINE running(p) == p \notin {"returned", "raised"}
  <2>1. ASSUME running(phase), running(phase'), UNCHANGED call PROVE UNCHANGED Contract!vars
    BY <2>1 DEF Contract!vars, Answer, call
  <2>2. ASSUME running(phase), phase' = "raised", UNCHANGED call PROVE Contract!Raise
    BY <2>2 DEF Contract!Raise, Answer, call
  <2>3. CASE CleanUp
    <3>1. /\ phase = "cleanup" /\ phase' = IF error = None THEN "returned" ELSE "raised"
          /\ UNCHANGED <<input, config, itemCount, fetched, counts, target>>
      BY <2>3 DEF CleanUp, call, inserts, result, output
    <3>2. CASE error = None
      <4>1. TablesLoaded /\ IsResult(input, config, IF FileMode THEN target ELSE fetched, counts)
        BY <3>1, <3>2 DEF TablesInv, ResultInv, Succeeding
      <4>2. Contract!IsAnswer(AnswerOf(IF FileMode THEN target ELSE fetched,
                [config EXCEPT !.result_mode = "file"], itemCount, counts, None))
        BY <4>1, ResultIsAnswer
      <4>3. Answer' = AnswerOf(IF FileMode THEN target ELSE fetched,
                [config EXCEPT !.result_mode = "file"], itemCount, counts, None)
        BY <3>1, <3>2 DEF Answer, FileMode
      <4>4. Contract!IsAnswer(Answer')
        BY <4>2, <4>3
      <4>. QED  BY <3>1, <3>2, <4>4 DEF Contract!Next, Contract!Return
    <3>3. CASE error # None
      BY <2>2, <3>1, <3>3 DEF Contract!Next, call
    <3>. QED  BY <3>2, <3>3
  <2>4. CASE MakeFails \/ CleanUpFails
    BY <2>2, <2>4 DEF MakeFails, CleanUpFails, Contract!Next
  <2>5. CASE UNCHANGED vars
    BY <2>5 DEF vars, call, inserts, result, output, Contract!vars, Answer, FileMode
  <2>6. ASSUME NEW side \in Side,
               ReadItem(side) \/ InsertBatch(side) \/ Commit(side) \/ InsertRaises(side)
        PROVE  UNCHANGED Contract!vars
    BY <2>1, <2>6 DEF ReadItem, InsertBatch, BatchIsDue, Commit, InsertRaises, InsertPhase,
                      NextPhase, Fail
  <2>7. CASE \/ MakeDatabase \/ OpenDatabase \/ CreateIndexes \/ FetchSection \/ CountTokens
             \/ WriteSection \/ FinishWriting \/ CloseWriter \/ ExitWriter
             \/ QueryRaises \/ OpenWriterFails \/ WriteRaises \/ ExitWriterFails
    BY <2>1, <2>7 DEF MakeDatabase, OpenDatabase, CreateIndexes, FetchSection, CountTokens,
             WriteSection, FinishWriting, CloseWriter, ExitWriter, QueryRaises, OpenWriterFails,
             WriteRaises, ExitWriterFails, Fail
  <2>. QED  BY <2>3, <2>4, <2>5, <2>6, <2>7 DEF Next, Progress, Failure
<1>. QED  BY <1>1, <1>2, <1>3, <1>4, PTL DEF Spec, Implements, Contract!Spec
===============================================================================
