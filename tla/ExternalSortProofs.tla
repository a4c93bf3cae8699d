--------------------------- MODULE ExternalSortProofs ---------------------------
(***************************************************************************)
(* For all inputs, options, chunk sizes and limits: what a failing call of *)
(* the external sort backend leaves on disk and at the output path, that   *)
(* the merge delivers whole groups, and that the limit stops no call whose *)
(* chunks fit in it.  Then that it keeps the contract of an exact          *)
(* comparison, for every way the items fall into chunks.                   *)
(***************************************************************************)
EXTENDS ExternalSort, SequenceTheorems, FiniteSetTheorems, TLAPS

Handled == {None, "source", "limit", "output", "read"}

(* The list of chunks of a side is a list, so its length grows by one.     *)
ChunkLists == \A side \in Side : chunks[side] \in Seq(ToSet(chunks[side]))

(* While chunks are written, a file is in a list already returned or in    *)
(* the one being filled; later, whatever was raised and handled, it is in  *)
(* a list the finally block knows.                                         *)
FilesAreKnown ==
    /\ chunks = [side \in Side |-> chunks[side]]
    /\ ChunkLists
    /\ phase = "write_first" => onDisk \subseteq ChunkFiles("first")
    /\ phase = "write_second" =>
          \A f \in onDisk : f[1] \in assigned \/ f \in ChunkFiles("second")
    /\ phase \in {"open", "merge", "close"} => \A f \in onDisk : f[1] \in assigned
    /\ phase = "cleanup" /\ error \in Handled => \A f \in onDisk : f[1] \in assigned
    /\ phase \in {"returned", "raised"} /\ error \in Handled => onDisk = {}

(* No error is in flight while the call goes on, except one that the       *)
(* writer's __exit__ will see; and only a writer without one publishes.    *)
OneErrorPath ==
    /\ session = [w \in Call |-> session[w]]
    /\ phase \notin {"close", "cleanup", "returned", "raised"} => error = None
    /\ phase = "close" => error = None \/ session["call"] = "failing"
    /\ session["call"] # "done" => target = None
    /\ session["call"] = "done" => /\ phase \in {"cleanup", "returned", "raised"}
                                   /\ error \in {None, "unlink"}

Sequel == {"write_first", "write_second", "open", "merge", "close", "cleanup",
           "returned", "raised"}

FailureInv == phase \in Sequel /\ FilesAreKnown /\ OneErrorPath

-----------------------------------------------------------------------------
(* Appending a chunk keeps its list a list and makes it one longer.        *)
LEMMA AppendedList ==
    ASSUME NEW s, NEW e, s \in Seq(ToSet(s))
    PROVE  /\ Append(s, e) \in Seq(ToSet(Append(s, e)))
           /\ Len(s) \in Nat
           /\ Len(Append(s, e)) = Len(s) + 1
<1> DEFINE T == ToSet(s) \cup {e}
           a == Append(s, e)
<1>1. s \in Seq(T)
  BY SeqMonotonic
<1>2. /\ a \in Seq(T)
      /\ Len(a) = Len(s) + 1
      /\ Len(s) \in Nat
  BY <1>1, AppendProperties, LenProperties
<1> HIDE DEF a, T
<1>3. a \in Seq(ToSet(a))
  <2>1. DOMAIN a = 1..Len(a) /\ Len(a) \in Nat /\ a = [i \in 1..Len(a) |-> a[i]]
    BY <1>2, LenProperties
  <2>2. \A i \in 1..Len(a) : a[i] \in ToSet(a)
    BY <2>1 DEF ToSet
  <2>3. a \in [1..Len(a) -> ToSet(a)]
    BY <2>1, <2>2
  <2>. QED  BY <2>1, <2>3, SeqDef
<1>. QED  BY <1>2, <1>3 DEF a

-----------------------------------------------------------------------------
(* A chunk is written: its list and the files grow together.               *)
LEMMA ChunkIsListed ==
    ASSUME NEW side \in Side, NEW chunk, FilesAreKnown,
           chunks' = [chunks EXCEPT ![side] = Append(@, chunk)]
    PROVE  /\ chunks' = [s \in Side |-> chunks'[s]]
           /\ ChunkLists'
           /\ ChunkFiles(side)' = ChunkFiles(side) \cup {<<side, Len(chunks[side]) + 1>>}
<1>1. /\ chunks'[side] = Append(chunks[side], chunk)
      /\ \A s \in Side \ {side} : chunks'[s] = chunks[s]
      /\ chunks' = [s \in Side |-> chunks'[s]]
  BY DEF FilesAreKnown
<1>2. /\ chunks'[side] \in Seq(ToSet(chunks'[side]))
      /\ Len(chunks[side]) \in Nat
      /\ Len(chunks'[side]) = Len(chunks[side]) + 1
  BY <1>1, AppendedList DEF FilesAreKnown, ChunkLists
<1>3. ChunkLists'
  BY <1>1, <1>2 DEF FilesAreKnown, ChunkLists
<1>4. ChunkFiles(side)' = ChunkFiles(side) \cup {<<side, Len(chunks[side]) + 1>>}
  BY <1>2 DEF ChunkFiles
<1>. QED  BY <1>1, <1>3, <1>4

(* The two sides have different phases, and write in turn.                 *)
LEMMA WritingTakesTurns ==
    ASSUME NEW side \in Side, phase = WritePhase(side)
    PROVE  \/ side = "first" /\ phase = "write_first"
           \/ side = "second" /\ phase = "write_second"
  BY DEF Side, WritePhase

(* No step puts a file on disk that the finally block would miss, short of *)
(* the causes Handled leaves out.                                          *)
LEMMA FilesStayKnown ==
    ASSUME FailureInv, [Next]_vars PROVE FilesAreKnown'
<1> USE NoneIsNoError DEF FailureInv
<1>1. ASSUME NEW side \in Side, ReadItem(side) PROVE FilesAreKnown'
  BY <1>1 DEF ReadItem, FilesAreKnown, ChunkLists, ChunkFiles, WritePhase
<1>2. ASSUME NEW side \in Side, WriteChunk(side) PROVE FilesAreKnown'
  <2>1. /\ phase = WritePhase(side)
        /\ onDisk' = onDisk \cup {<<side, Len(chunks[side]) + 1>>}
        /\ chunks' = [chunks EXCEPT ![side] = Append(@, SortRecords(side, batch))]
        /\ UNCHANGED <<phase, error, assigned>>
    BY <1>2 DEF WriteChunk, BatchIsDue
  <2>2. /\ chunks' = [s \in Side |-> chunks'[s]]
        /\ ChunkLists'
        /\ ChunkFiles(side)' = ChunkFiles(side) \cup {<<side, Len(chunks[side]) + 1>>}
    BY <2>1, ChunkIsListed
  <2>3. CASE side = "first" /\ phase = "write_first"
    BY <2>1, <2>2, <2>3 DEF FilesAreKnown
  <2>4. CASE side = "second" /\ phase = "write_second"
    BY <2>1, <2>2, <2>4 DEF FilesAreKnown
  <2>. QED  BY <2>1, <2>3, <2>4, WritingTakesTurns
<1>3. ASSUME NEW side \in Side, WriteChunkOverLimit(side) PROVE FilesAreKnown'
  <2>1. /\ phase = WritePhase(side)
        /\ onDisk' = onDisk \ ChunkFiles(side)
        /\ chunks' = [chunks EXCEPT ![side] = Append(@, SortRecords(side, batch))]
        /\ phase' = "cleanup"
        /\ UNCHANGED assigned
    BY <1>3 DEF WriteChunkOverLimit, BatchIsDue, Fail
  <2>2. chunks' = [s \in Side |-> chunks'[s]] /\ ChunkLists'
    BY <2>1, ChunkIsListed
  <2>. QED  BY <2>1, <2>2, WritingTakesTurns DEF FilesAreKnown
<1>4. ASSUME NEW side \in Side, FinishWriting(side) PROVE FilesAreKnown'
  <2>1. phase = WritePhase(side) /\ UNCHANGED <<chunks, onDisk>>
    BY <1>4 DEF FinishWriting
  <2>2. \A f \in ChunkFiles(side) : f[1] = side
    BY DEF ChunkFiles
  <2>3. /\ assigned' = assigned \cup {side}
        /\ phase' \in {"write_second", "open"}
        /\ side = "second" => phase' = "open"
    BY <1>4 DEF FinishWriting
  <2>4. \A f \in onDisk' : f[1] \in assigned'
    BY <2>1, <2>2, <2>3, WritingTakesTurns DEF FilesAreKnown
  <2>. QED  BY <2>1, <2>3, <2>4 DEF FilesAreKnown, ChunkLists
<1>5. ASSUME NEW side \in Side,
             WriteChunkFails(side) \/ SourceRaises(side) \/ Interrupted(side)
      PROVE  FilesAreKnown'
  <2>1. /\ phase = WritePhase(side)
        /\ phase' = "cleanup"
        /\ error' \in Handled => onDisk' = onDisk \ ChunkFiles(side)
        /\ UNCHANGED <<chunks, assigned>>
    BY <1>5 DEF WriteChunkFails, SourceRaises, Interrupted, Fail, BatchIsDue, Handled, writes
  <2>. QED  BY <2>1, WritingTakesTurns DEF FilesAreKnown, ChunkLists
<1>6. ASSUME Merge \/ MergeRaises \/ OpenFails PROVE FilesAreKnown'
  <2>1. /\ phase \in {"open", "merge"}
        /\ phase' \in {"merge", "close", "cleanup"}
        /\ UNCHANGED <<chunks, assigned, onDisk>>
    BY <1>6 DEF Merge, StartMerge, PullRecord, PullLast, Pulls, EmitOnly, EmitCommon,
                EmitRepeats, Emit, BothReady, FinishMerge, MergeRaises, OpenFails, Fail, writes
  <2>. QED  BY <2>1 DEF FilesAreKnown, ChunkLists
<1>7. ASSUME CloseWriter \/ ExitWriter \/ ExitWriterFails PROVE FilesAreKnown'
  <2>1. /\ phase = "close"
        /\ phase' \in {"close", "cleanup"}
        /\ UNCHANGED <<chunks, assigned, onDisk>>
    BY <1>7 DEF CloseWriter, ExitWriter, ExitWriterFails, Fail, writes
  <2>. QED  BY <2>1 DEF FilesAreKnown, ChunkLists
<1>8. ASSUME Unlink PROVE FilesAreKnown'
  BY <1>8 DEF Unlink, FilesAreKnown, ChunkLists, writes
<1>9. ASSUME UnlinkFails PROVE FilesAreKnown'
  BY <1>9 DEF UnlinkFails, FilesAreKnown, ChunkLists, Handled, writes
<1>10. ASSUME Leave PROVE FilesAreKnown'
  BY <1>10 DEF Leave, ToUnlink, FilesAreKnown, ChunkLists, writes
<1>11. CASE UNCHANGED vars
  BY <1>11 DEF vars, writes, FilesAreKnown, ChunkLists, ChunkFiles
<1>. QED  BY <1>1, <1>2, <1>3, <1>4, <1>5, <1>6, <1>7, <1>8, <1>9, <1>10, <1>11
          DEF Next, Progress, Write, Failure

(* No step publishes with an error in flight, or raises another after it.  *)
LEMMA ErrorsStopPublishing ==
    ASSUME FailureInv, [Next]_vars PROVE phase' \in Sequel /\ OneErrorPath'
<1> USE DEF FailureInv, Sequel
<1> DEFINE Goal == phase' \in Sequel /\ OneErrorPath'
<1>1. ASSUME NEW side \in Side, Write(side) PROVE Goal
  <2>1. /\ phase \in {"write_first", "write_second"}
        /\ \/ phase' = phase /\ UNCHANGED error
           \/ phase' \in {"write_second", "open"} /\ UNCHANGED error
           \/ phase' = "cleanup"
        /\ UNCHANGED output
    BY <1>1 DEF Write, ReadItem, WriteChunk, WriteChunkOverLimit, FinishWriting, BatchIsDue,
                WritePhase, Fail
  <2>. QED  BY <2>1 DEF OneErrorPath, output
<1>2. ASSUME NEW side \in Side,
             WriteChunkFails(side) \/ SourceRaises(side) \/ Interrupted(side)
      PROVE  Goal
  BY <1>2 DEF WriteChunkFails, SourceRaises, Interrupted, BatchIsDue, WritePhase, Fail,
              OneErrorPath, output
<1>3. ASSUME StartMerge \/ OpenFails PROVE Goal
  BY <1>3 DEF StartMerge, OpenFails, Fail, OneErrorPath, output, Out!Enter, Out!EnterFails,
              Out!Step, Call
<1>4. ASSUME Merge, ~StartMerge PROVE Goal
  <2>1. /\ phase = "merge"
        /\ phase' \in {"merge", "close", "cleanup"}
        /\ UNCHANGED <<error, target, session>>
    BY <1>4 DEF Merge, PullRecord, PullLast, Pulls, EmitOnly, EmitCommon, EmitRepeats, Emit,
                BothReady, FinishMerge, output, Out!WriteRows
  <2>. QED  BY <2>1 DEF OneErrorPath
<1>5. ASSUME MergeRaises PROVE Goal
  BY <1>5 DEF MergeRaises, Fail, OneErrorPath, output, Out!BodyRaises, Out!Step, Call
<1>6. ASSUME CloseWriter \/ ExitWriter PROVE Goal
  BY <1>6 DEF CloseWriter, ExitWriter, OneErrorPath, Out!Close, Out!Replace, Out!Discard,
              Out!Step, Call
<1>7. ASSUME ExitWriterFails PROVE Goal
  BY <1>7 DEF ExitWriterFails, Fail, OneErrorPath, Out!CloseFails, Out!ReplaceFails,
              Out!Step, Call
<1>8. ASSUME Unlink \/ UnlinkFails \/ Leave PROVE Goal
  BY <1>8 DEF Unlink, UnlinkFails, Leave, OneErrorPath, output
<1>9. CASE UNCHANGED vars
  BY <1>9 DEF vars, output, OneErrorPath
<1>. QED  BY <1>1, <1>2, <1>3, <1>4, <1>5, <1>6, <1>7, <1>8, <1>9
          DEF Next, Progress, Failure

-----------------------------------------------------------------------------
(* The finally block of external_sort.py removes every chunk file, and a   *)
(* failed call leaves the output path as it was, for every input, option,  *)
(* chunk size and limit and at whatever step the call fails.  The lists of *)
(* chunks are returned one after the other, so what `finally` finds        *)
(* depends on when the exception came: hence FilesAreKnown.                *)
THEOREM ChunksAreRemoved == Spec => []FailureLeavesNoTrace
<1>1. Init => FailureInv
  <2> SUFFICES ASSUME Init PROVE FailureInv
    OBVIOUS
  <2>1. ChunkLists
    <3>1. \A side \in Side : chunks[side] = <<>>
      BY DEF Init
    <3>2. <<>> \in Seq(ToSet(<<>>))
      BY EmptySeq
    <3>. QED  BY <3>1, <3>2 DEF ChunkLists
  <2>. QED  BY <2>1 DEF Init, Out!Init, Call, FailureInv, Sequel, FilesAreKnown, OneErrorPath
<1>2. FailureInv /\ [Next]_vars => FailureInv'
  BY FilesStayKnown, ErrorsStopPublishing DEF FailureInv
<1>3. FailureInv => FailureLeavesNoTrace
  BY DEF FailureInv, FilesAreKnown, OneErrorPath, FailureLeavesNoTrace, Handled
<1>. QED  BY <1>1, <1>2, <1>3, PTL DEF Spec

-----------------------------------------------------------------------------
(* The records of a side, and a list of them in strictly increasing order. *)
Records(side) == 1..Len(input[side])
Sorted(side, s) == /\ s \in Seq(Records(side))
                   /\ \A k, l \in 1..Len(s) : k < l => Before(side, s[k], s[l])

(* Before is a strict total order on the records of a side. *)
LEMMA BeforeIsAnOrder ==
    ASSUME NEW side, input[side] \in Seq(Int)
    PROVE  /\ \A i, j \in Records(side) : Before(side, i, j) => i # j /\ ~Before(side, j, i)
           /\ \A i, j \in Records(side) : i # j => Before(side, i, j) \/ Before(side, j, i)
           /\ \A i, j, k \in Records(side) :
                 Before(side, i, j) /\ Before(side, j, k) => Before(side, i, k)
<1> DEFINE R == Records(side)
           token(i) == input[side][i]
<1>1. Len(input[side]) \in Nat /\ R \subseteq Int
  BY LenProperties DEF Records
<1>2. \A i \in R : token(i) \in Int
  BY <1>1, ElementOfSeq DEF Records
<1>3. \A i, j : Before(side, i, j) <=> token(i) < token(j) \/ (token(i) = token(j) /\ i < j)
  BY DEF Before
<1> HIDE DEF R, token
<1>4. /\ \A i, j \in R : Before(side, i, j) => i # j /\ ~Before(side, j, i)
      /\ \A i, j \in R : i # j => Before(side, i, j) \/ Before(side, j, i)
      /\ \A i, j, k \in R : Before(side, i, j) /\ Before(side, j, k) => Before(side, i, k)
  BY <1>1, <1>2, <1>3
<1>. QED  BY <1>4 DEF R

(* records.sort() in _write_chunk: the records of the batch, each once, in *)
(* the order of their tokens and ordinals.                                 *)
LEMMA SortedBatch ==
    ASSUME NEW side, input[side] \in Seq(Int), NEW records \in Seq(Records(side))
    PROVE  /\ Sorted(side, SortRecords(side, records))
           /\ ToSet(SortRecords(side, records)) = ToSet(records)
<1> DEFINE R == ToSet(records)
           n == Cardinality(R)
           Below(i) == {j \in R : Before(side, j, i)}
           rank(i) == Cardinality(Below(i))
           s == SortRecords(side, records)
<1>1. Len(input[side]) \in Nat /\ Records(side) \subseteq Int /\ IsFiniteSet(Records(side))
  BY LenProperties, FS_Interval DEF Records
<1>2. R \subseteq Records(side)
  BY ElementOfSeq, LenProperties DEF ToSet
<1>3. IsFiniteSet(R) /\ n \in Nat
  BY <1>1, <1>2, FS_Subset, FS_CardinalityType
<1>4. /\ \A i, j \in R : Before(side, i, j) => i # j /\ ~Before(side, j, i)
      /\ \A i, j \in R : i # j => Before(side, i, j) \/ Before(side, j, i)
      /\ \A i, j, k \in R : Before(side, i, j) /\ Before(side, j, k) => Before(side, i, k)
  BY <1>2, BeforeIsAnOrder
<1>5. s = [k \in 1..n |-> CHOOSE i \in R : rank(i) = k - 1]
  BY DEF SortRecords
<1> HIDE DEF R, s
<1>6. \A i \in R : IsFiniteSet(Below(i)) /\ rank(i) \in Nat
  <2> TAKE i \in R
  <2>1. Below(i) \in SUBSET R
    OBVIOUS
  <2>. QED  BY <2>1, <1>3, FS_Subset, FS_CardinalityType
<1>7. \A i \in R : rank(i) < n
  <2> TAKE i \in R
  <2>1. Below(i) \subseteq R \ {i}
    BY <1>4
  <2>2. IsFiniteSet(R \ {i}) /\ Cardinality(R \ {i}) = n - 1
    BY <1>3, FS_RemoveElement
  <2>3. rank(i) <= Cardinality(R \ {i})
    BY <2>1, <2>2, FS_Subset
  <2>4. rank(i) \in Nat
    BY <1>6
  <2> HIDE DEF rank, n
  <2>. QED  BY <1>3, <2>2, <2>3, <2>4
<1>8. \A i, j \in R : Before(side, i, j) => rank(i) < rank(j)
  <2> SUFFICES ASSUME NEW i \in R, NEW j \in R, Before(side, i, j) PROVE rank(i) < rank(j)
    OBVIOUS
  <2>1. Below(i) \cup {i} \subseteq Below(j) /\ i \notin Below(i)
    BY <1>4
  <2>2. IsFiniteSet(Below(i) \cup {i}) /\ Cardinality(Below(i) \cup {i}) = rank(i) + 1
    BY <2>1, <1>6, FS_AddElement
  <2>3. rank(i) + 1 <= rank(j)
    BY <2>1, <2>2, <1>6, FS_Subset
  <2>4. rank(i) \in Nat /\ rank(j) \in Nat
    BY <1>6
  <2> HIDE DEF rank
  <2>. QED  BY <2>3, <2>4
<1> HIDE DEF rank, Below
<1>9. \A i, j \in R : rank(i) = rank(j) => i = j
  BY <1>4, <1>6, <1>8
<1>10. \A r \in 0..(n - 1) : \E i \in R : rank(i) = r
  <2> DEFINE f == [i \in R |-> rank(i)]
             T == 0..(n - 1)
  <2>1. IsFiniteSet(T) /\ Cardinality(T) = n
    <3>1. n - 1 \in Int /\ n \in Nat
      BY <1>3
    <3> HIDE DEF n
    <3>2. /\ IsFiniteSet(0..(n - 1))
          /\ Cardinality(0..(n - 1)) = IF 0 > n - 1 THEN 0 ELSE n - 1 - 0 + 1
      BY <3>1, FS_Interval
    <3>. QED  BY <3>1, <3>2
  <2>2. \A i \in R : rank(i) \in T
    BY <1>3, <1>6, <1>7
  <2>3. f \in Injection(R, T)
    BY <2>2, <1>9 DEF Injection, IsInjective
  <2>4. f \in Surjection(R, T)
    BY <2>1, <2>3, FS_Injection
  <2>5. \A r \in T : \E i \in R : f[i] = r
    BY <2>4 DEF Surjection
  <2>. QED  BY <2>5
<1>11. \A k \in 1..n : s[k] \in R /\ rank(s[k]) = k - 1
  <2> TAKE k \in 1..n
  <2>1. k - 1 \in 0..(n - 1)
    BY <1>3
  <2>2. \E i \in R : rank(i) = k - 1
    BY <2>1, <1>10
  <2>. QED  BY <2>2, <1>5
<1>12. s \in Seq(Records(side)) /\ Len(s) = n
  <2>1. s \in [1..n -> Records(side)]
    BY <1>5, <1>11, <1>2
  <2>. QED  BY <2>1, <1>3, SeqDef, LenProperties
<1>13. \A k, l \in 1..n : k < l => Before(side, s[k], s[l])
  <2> SUFFICES ASSUME NEW k \in 1..n, NEW l \in 1..n, k < l PROVE Before(side, s[k], s[l])
    OBVIOUS
  <2>1. rank(s[k]) < rank(s[l]) /\ s[k] \in R /\ s[l] \in R
    BY <1>11, <1>3
  <2>2. ~Before(side, s[l], s[k]) /\ s[k] # s[l]
    BY <2>1, <1>6, <1>8
  <2>. QED  BY <2>1, <2>2, <1>4
<1>14. ToSet(s) = R
  <2>1. DOMAIN s = 1..n
    BY <1>5
  <2>2. \A i \in R : \E k \in 1..n : s[k] = i
    <3> TAKE i \in R
    <3> DEFINE k == rank(i) + 1
    <3>1. k \in 1..n /\ k - 1 = rank(i)
      BY <1>3, <1>6, <1>7
    <3> HIDE DEF k
    <3>2. s[k] \in R /\ rank(s[k]) = rank(i)
      BY <3>1, <1>11
    <3>3. s[k] = i
      BY <3>2, <1>9
    <3>. QED  BY <3>1, <3>3
  <2>. QED  BY <2>1, <2>2, <1>11 DEF ToSet
<1>. QED  BY <1>12, <1>13, <1>14 DEF Sorted, R, s

-----------------------------------------------------------------------------
(* What the readers of a merge have not delivered yet. *)
Left(side, readers) ==
    {i \in Records(side) : \E c \in 1..Len(readers) : i \in ToSet(readers[c])}

Token(side, i) == input[side][i]

(* The rows are those of one token, all of them, in input order. *)
Whole(side, rows) ==
    /\ rows # <<>>
    /\ ToSet(rows) = {i \in Records(side) : Token(side, i) = Token(side, rows[1])}
    /\ Ascending(rows)

(* Each reader delivers in order.  What has been delivered is no longer    *)
(* left, and comes before what is; the rows being collected are all that   *)
(* was delivered of the last token.                                        *)
Reading(side, readers, rows) ==
    /\ readers \in Seq(Seq(Nat)) /\ rows \in Seq(Nat)
    /\ \A c \in 1..Len(readers) : Sorted(side, readers[c])
    /\ \A i \in ToSet(rows), j \in Left(side, readers) : Before(side, i, j)
    /\ rows = <<>> => Left(side, readers) \in {{}, Records(side)}
    /\ rows # <<>> =>
          /\ ToSet(rows) = {i \in Records(side) \ Left(side, readers) :
                              Token(side, i) = Token(side, rows[1])}
          /\ Ascending(rows)
          /\ \A i \in Records(side) \ Left(side, readers) :
                Token(side, i) <= Token(side, rows[1])

(* What next() takes from a reader and what it leaves there. *)
LEMMA TailOfSorted ==
    ASSUME NEW side, input[side] \in Seq(Int), NEW s, Sorted(side, s), s # <<>>
    PROVE  /\ Head(s) \in Records(side) /\ Head(s) \in ToSet(s)
           /\ Sorted(side, Tail(s))
           /\ ToSet(Tail(s)) = ToSet(s) \ {Head(s)}
           /\ \A i \in ToSet(s) \ {Head(s)} : Before(side, Head(s), i)
<1> DEFINE n == Len(s)
           t == Tail(s)
<1>1. s \in Seq(Records(side)) /\ n \in Nat /\ DOMAIN s = 1..n
  BY LenProperties DEF Sorted
<1>2. n >= 1 /\ Head(s) = s[1] /\ s[1] \in Records(side)
  BY <1>1, EmptySeq, ElementOfSeq, HeadTailProperties
<1>3. t \in Seq(Records(side)) /\ Len(t) = n - 1 /\ DOMAIN t = 1..(n - 1)
  BY <1>1, HeadTailProperties, LenProperties
<1>4. \A k \in 1..(n - 1) : t[k] = s[k + 1]
  BY <1>1, <1>3, HeadTailProperties
<1>5. \A k, l \in 1..n : k < l => Before(side, s[k], s[l])
  BY DEF Sorted
<1> HIDE DEF t, n
<1>6. Sorted(side, t)
  <2>1. \A k, l \in 1..(n - 1) : k < l => Before(side, t[k], t[l])
    BY <1>1, <1>4, <1>5
  <2>. QED  BY <2>1, <1>3 DEF Sorted
<1>7. \A k \in 2..n : Before(side, s[1], s[k])
  BY <1>1, <1>2, <1>5
<1>8. \A k \in 1..n : s[k] \in Records(side)
  BY <1>1, ElementOfSeq DEF n
<1>9. \A k \in 2..n : s[k] # s[1]
  <2>1. \A i, j \in Records(side) : Before(side, i, j) => i # j
    BY BeforeIsAnOrder
  <2>. QED  BY <2>1, <1>1, <1>2, <1>7, <1>8
<1>10. ToSet(s) = {s[1]} \cup {s[k] : k \in 2..n}
  <2>1. 1..n = {1} \cup 2..n
    BY <1>1, <1>2
  <2>. QED  BY <2>1, <1>1 DEF ToSet
<1>11. ToSet(t) = {s[k] : k \in 2..n}
  <2>1. \A k \in 2..n : k - 1 \in 1..(n - 1) /\ t[k - 1] = s[k]
    BY <1>1, <1>4
  <2>2. \A k \in 1..(n - 1) : k + 1 \in 2..n /\ t[k] = s[k + 1]
    BY <1>1, <1>4
  <2>3. ToSet(t) = {t[k] : k \in 1..(n - 1)}
    BY <1>3 DEF ToSet
  <2>4. {t[k] : k \in 1..(n - 1)} \subseteq {s[k] : k \in 2..n}
    BY <2>2
  <2>5. {s[k] : k \in 2..n} \subseteq {t[k] : k \in 1..(n - 1)}
    BY <2>1
  <2>. QED  BY <2>3, <2>4, <2>5
<1>. QED  BY <1>2, <1>6, <1>7, <1>9, <1>10, <1>11 DEF t

(* heapq.merge: the least head of the readers is the least of all that is  *)
(* left, and it is in one reader only.                                     *)
LEMMA LeastIsNext ==
    ASSUME NEW side, input[side] \in Seq(Int), NEW u \in Seq(Seq(Nat)),
           \A c \in 1..Len(u) : Sorted(side, u[c]),
           NEW c \in 1..Len(u), u[c] # <<>>,
           \A d \in 1..Len(u) : d # c /\ u[d] # <<>> => Before(side, Head(u[c]), Head(u[d]))
    PROVE  LET v == [u EXCEPT ![c] = Tail(@)]
               x == Head(u[c])
           IN /\ v \in Seq(Seq(Nat))
              /\ \A d \in 1..Len(v) : Sorted(side, v[d])
              /\ x \in Left(side, u) /\ x \in Records(side)
              /\ \A i \in Left(side, u) \ {x} : Before(side, x, i)
              /\ Left(side, v) = Left(side, u) \ {x}
<1> DEFINE v == [u EXCEPT ![c] = Tail(@)]
           x == Head(u[c])
           n == Len(u)
<1>1. n \in Nat /\ DOMAIN u = 1..n /\ \A d \in 1..n : u[d] \in Seq(Nat)
  BY LenProperties, ElementOfSeq
<1>2. /\ x \in Records(side) /\ x \in ToSet(u[c])
      /\ Sorted(side, Tail(u[c]))
      /\ ToSet(Tail(u[c])) = ToSet(u[c]) \ {x}
      /\ \A i \in ToSet(u[c]) \ {x} : Before(side, x, i)
  BY TailOfSorted
<1>3. Tail(u[c]) \in Seq(Nat)
  BY <1>1, HeadTailProperties
<1>4. v[c] = Tail(u[c]) /\ \A d \in 1..n : d # c => v[d] = u[d]
  BY <1>1
<1>5. v \in Seq(Seq(Nat)) /\ Len(v) = n
  <2>1. v \in [1..n -> Seq(Nat)]
    BY <1>1, <1>3
  <2>. QED  BY <2>1, <1>1, SeqDef, LenProperties
<1> HIDE DEF v, x, n
<1>6. \A d \in 1..n : Sorted(side, v[d])
  BY <1>2, <1>4 DEF n
<1>7. \A d \in 1..n : d # c => \A i \in ToSet(u[d]) : i \in Records(side) /\ Before(side, x, i)
  <2> SUFFICES ASSUME NEW d \in 1..n, d # c, NEW i \in ToSet(u[d])
               PROVE  i \in Records(side) /\ Before(side, x, i)
    OBVIOUS
  <2>1. Sorted(side, u[d]) /\ u[d] # <<>>
    BY EmptySeq DEF n, ToSet
  <2>2. /\ Head(u[d]) \in Records(side)
        /\ \A j \in ToSet(u[d]) \ {Head(u[d])} : Before(side, Head(u[d]), j)
    BY <2>1, TailOfSorted
  <2>3. Before(side, x, Head(u[d]))
    BY <2>1 DEF n, x
  <2>4. i \in Records(side)
    BY <2>1, ElementOfSeq, LenProperties DEF Sorted, ToSet
  <2>5. \A j, k, l \in Records(side) :
           Before(side, j, k) /\ Before(side, k, l) => Before(side, j, l)
    BY BeforeIsAnOrder
  <2>. QED  BY <2>2, <2>3, <2>4, <2>5, <1>2
<1>8. \A i \in Left(side, u) \ {x} : Before(side, x, i)
  BY <1>2, <1>7 DEF Left, n
<1>9. \A d \in 1..n : d # c => x \notin ToSet(u[d])
  <2>1. ~Before(side, x, x)
    BY <1>2, BeforeIsAnOrder
  <2>. QED  BY <2>1, <1>7
<1>10. x \in Left(side, u)
  BY <1>2 DEF Left
<1>11. Left(side, v) = Left(side, u) \ {x}
  BY <1>2, <1>4, <1>5, <1>9 DEF Left, n
<1>. QED  BY <1>2, <1>5, <1>6, <1>8, <1>10, <1>11 DEF v, x

(* _group_sorted_records takes one record: it joins the rows being         *)
(* collected, or these are the whole of their token.                       *)
LEMMA RecordIsGrouped ==
    ASSUME NEW side, input[side] \in Seq(Int), NEW u, NEW rows, Reading(side, u, rows),
           NEW c \in 1..Len(u), u[c] # <<>>,
           \A d \in 1..Len(u) : d # c /\ u[d] # <<>> => Before(side, Head(u[c]), Head(u[d]))
    PROVE  LET v == [u EXCEPT ![c] = Tail(@)]
               x == Head(u[c])
           IN IF rows = <<>> \/ Token(side, rows[1]) = Token(side, x)
                THEN Reading(side, v, Append(rows, x))
                ELSE Reading(side, v, <<x>>) /\ Whole(side, rows)
<1> DEFINE v == [u EXCEPT ![c] = Tail(@)]
           x == Head(u[c])
           R == Records(side)
           L == Left(side, u)
           n == Len(rows)
           longer == Append(rows, x)
<1>1. /\ v \in Seq(Seq(Nat))
      /\ \A d \in 1..Len(v) : Sorted(side, v[d])
      /\ x \in L /\ x \in R
      /\ \A i \in L \ {x} : Before(side, x, i)
      /\ Left(side, v) = L \ {x}
  <2>1. u \in Seq(Seq(Nat)) /\ \A d \in 1..Len(u) : Sorted(side, u[d])
    BY DEF Reading
  <2>. QED  BY <2>1, LeastIsNext
<1>2. L \subseteq R /\ R \subseteq Nat /\ \A i \in R : Token(side, i) \in Int
  <2>1. Len(input[side]) \in Nat
    BY LenProperties
  <2>. QED  BY <2>1, ElementOfSeq DEF Left, Records, Token
<1>3. \A i, j : Before(side, i, j) <=> \/ Token(side, i) < Token(side, j)
                                       \/ Token(side, i) = Token(side, j) /\ i < j
  BY DEF Before, Token
<1>4. /\ rows \in Seq(Nat)
      /\ \A i \in ToSet(rows), j \in L : Before(side, i, j)
      /\ rows = <<>> => L \in {{}, R}
      /\ rows # <<>> =>
            /\ ToSet(rows) = {i \in R \ L : Token(side, i) = Token(side, rows[1])}
            /\ Ascending(rows)
            /\ \A i \in R \ L : Token(side, i) <= Token(side, rows[1])
  BY DEF Reading
<1> HIDE DEF v, x, R, L
<1>5. n \in Nat /\ DOMAIN rows = 1..n /\ \A k \in 1..n : rows[k] \in ToSet(rows)
  BY <1>4, LenProperties DEF ToSet
<1>6. rows # <<>> => 1 \in 1..n
  BY <1>4, <1>5, EmptySeq
<1>7. ToSet(<<x>>) = {x} /\ <<x>>[1] = x /\ <<x>> \in Seq(Nat) /\ <<x>> # <<>> /\ Ascending(<<x>>)
  BY <1>1, <1>2 DEF ToSet, Ascending
<1>8. CASE rows = <<>>
  <2>1. L = R
    BY <1>1, <1>4, <1>8
  <2>2. longer = <<x>>
    BY <1>8
  <2>3. {i \in R \ (L \ {x}) : Token(side, i) = Token(side, x)} = {x}
    BY <2>1, <1>1
  <2>4. \A i \in R \ (L \ {x}) : Token(side, i) <= Token(side, x)
    BY <2>1, <1>1, <1>2
  <2>5. Reading(side, v, <<x>>)
    BY <2>3, <2>4, <1>1, <1>7 DEF Reading, R
  <2>. QED  BY <2>2, <2>5, <1>8 DEF v, x
<1>9. CASE rows # <<>> /\ Token(side, rows[1]) = Token(side, x)
  <2>1. /\ longer \in Seq(Nat) /\ Len(longer) = n + 1 /\ longer # <<>>
        /\ \A k \in 1..n : longer[k] = rows[k]
        /\ longer[n + 1] = x
    <3>1. x \in Nat
      BY <1>1, <1>2
    <3>. QED  BY <3>1, <1>4, <1>5, AppendProperties
  <2>2. ToSet(longer) = ToSet(rows) \cup {x}
    <3>1. DOMAIN longer = 1..(n + 1) /\ 1..(n + 1) = 1..n \cup {n + 1}
      BY <2>1, <1>5, LenProperties
    <3>. QED  BY <3>1, <2>1, <1>5 DEF ToSet
  <2>3. longer[1] = rows[1]
    BY <2>1, <1>6, <1>9
  <2> HIDE DEF longer, n
  <2>4. ToSet(longer) = {i \in R \ (L \ {x}) : Token(side, i) = Token(side, longer[1])}
    BY <2>2, <2>3, <1>1, <1>4, <1>9
  <2>5. \A i \in R \ (L \ {x}) : Token(side, i) <= Token(side, longer[1])
    BY <2>3, <1>1, <1>2, <1>4, <1>9
  <2>6. Ascending(longer)
    <3>1. \A i \in ToSet(rows) : i < x
      BY <1>1, <1>2, <1>3, <1>4, <1>9
    <3>2. \A k \in 1..n : rows[k] < x
      BY <3>1, <1>5
    <3>3. \A k, l \in 1..n : k < l => rows[k] < rows[l]
      BY <1>4, <1>9 DEF Ascending, n
    <3>4. \A k, l \in 1..(n + 1) : k < l => longer[k] < longer[l]
      <4> SUFFICES ASSUME NEW k \in 1..(n + 1), NEW l \in 1..(n + 1), k < l
                   PROVE  longer[k] < longer[l]
        OBVIOUS
      <4>1. k \in 1..n
        BY <1>5
      <4>2. CASE l = n + 1
        BY <4>1, <4>2, <3>2, <2>1
      <4>3. CASE l \in 1..n
        BY <4>1, <4>3, <3>3, <2>1
      <4>. QED  BY <4>2, <4>3, <1>5
    <3>. QED  BY <3>4, <2>1 DEF Ascending
  <2>7. \A i \in ToSet(longer), j \in L \ {x} : Before(side, i, j)
    BY <2>2, <1>1, <1>4
  <2>8. Reading(side, v, longer)
    BY <2>1, <2>4, <2>5, <2>6, <2>7, <1>1 DEF Reading, R
  <2>. QED  BY <2>8, <1>9 DEF v, x, longer
<1>10. CASE rows # <<>> /\ Token(side, rows[1]) # Token(side, x)
  <2>1. rows[1] \in ToSet(rows) /\ rows[1] \in R
    BY <1>4, <1>5, <1>6, <1>10
  <2>2. Token(side, rows[1]) < Token(side, x)
    BY <2>1, <1>1, <1>2, <1>3, <1>4, <1>10
  <2>3. \A i \in L : Token(side, i) >= Token(side, x)
    <3> TAKE i \in L
    <3>1. Token(side, i) \in Int /\ Token(side, x) \in Int
      BY <1>1, <1>2
    <3>2. i # x => Token(side, x) < Token(side, i) \/ Token(side, x) = Token(side, i)
      BY <1>1, <1>3
    <3>. QED  BY <3>1, <3>2
  <2>4. ToSet(rows) = {i \in R : Token(side, i) = Token(side, rows[1])}
    <3>1. Token(side, rows[1]) \in Int /\ Token(side, x) \in Int
      BY <2>1, <1>1, <1>2
    <3>2. \A i \in L : Token(side, i) # Token(side, rows[1])
      BY <3>1, <2>2, <2>3, <1>2
    <3>. QED  BY <3>2, <1>4, <1>10
  <2>5. Whole(side, rows)
    BY <2>4, <1>4, <1>10 DEF Whole, R
  <2>6. \A i \in R \ L : Token(side, i) < Token(side, x)
    BY <2>1, <2>2, <1>1, <1>2, <1>4, <1>10
  <2>7. {i \in R \ (L \ {x}) : Token(side, i) = Token(side, x)} = {x}
    <3>1. \A i \in R \ L : Token(side, i) # Token(side, x)
      BY <2>6, <1>1, <1>2
    <3>2. \A i \in R \ (L \ {x}) : i \in R \ L \/ i = x
      OBVIOUS
    <3>3. x \in R \ (L \ {x})
      BY <1>1
    <3>. QED  BY <3>1, <3>2, <3>3
  <2>8. \A i \in R \ (L \ {x}) : Token(side, i) <= Token(side, x)
    BY <2>6, <1>1, <1>2
  <2>9. Reading(side, v, <<x>>)
    BY <2>7, <2>8, <1>1, <1>7 DEF Reading, R
  <2>. QED  BY <2>5, <2>9, <1>10 DEF v, x
<1>. QED  BY <1>8, <1>9, <1>10 DEF v, x

(* The readers are exhausted: the rows being collected are all of their    *)
(* token, and nothing is left to collect.                                  *)
LEMMA LastGroup ==
    ASSUME NEW side, NEW u, NEW rows, Reading(side, u, rows),
           \A c \in 1..Len(u) : u[c] = <<>>
    PROVE  Reading(side, u, <<>>) /\ (rows # <<>> => Whole(side, rows))
<1>1. Left(side, u) = {}
  BY DEF Left, ToSet
<1>2. <<>> \in Seq(Nat) /\ ToSet(<<>>) = {}
  BY DEF ToSet
<1>. QED  BY <1>1, <1>2 DEF Reading, Whole

-----------------------------------------------------------------------------
(* What is written to the chunks of a side. *)
Written(side) == Left(side, chunks[side])
ChunkIsSorted(side, c) == Sorted(side, chunks[side][c])

(* The arguments, and the lists of _write_sorted_chunks. *)
Writing ==
    /\ input \in [Side -> Seq(Int)] /\ config \in Configs
    /\ itemCount \in [Side -> Nat] /\ batch \in Seq(Nat)
    /\ \A side \in Side : itemCount[side] <= Len(input[side])
    /\ chunks \in [Side -> Seq(Seq(Nat))]

(* Every chunk is sorted.  While one side is written, its chunks and the   *)
(* batch hold what was read of it; a side already written is in its chunks *)
(* from its first record to its last; the merge is untouched.              *)
AllSorted == \A side \in Side : \A c \in 1..Len(chunks[side]) : ChunkIsSorted(side, c)

ChunksAreSorted ==
    /\ AllSorted
    /\ phase = "write_first" =>
          /\ Written("first") \cup ToSet(batch) = 1..itemCount["first"]
          /\ Written("second") = {} /\ itemCount["second"] = 0
    /\ phase = "write_second" =>
          /\ Written("first") = Records("first")
          /\ Written("second") \cup ToSet(batch) = 1..itemCount["second"]
    /\ phase = "open" => \A side \in Side : Written(side) \in {{}, Records(side)}
    /\ phase \in {"write_first", "write_second", "open"} =>
          \A side \in Side : building[side] = <<>> /\ status[side] = "pull"

(* The merge of a side, and the group it has delivered. *)
ReaderIsRight(side) == Reading(side, unread[side], building[side])
GroupIsWhole(side)  == Whole(side, group[side])

Merging ==
    /\ unread \in [Side -> Seq(Seq(Nat))] /\ building \in [Side -> Seq(Nat)]
    /\ group = [side \in Side |-> group[side]]
    /\ status = [side \in Side |-> status[side]]
    /\ \A side \in Side :
          /\ ReaderIsRight(side)
          /\ status[side] = "group" => GroupIsWhole(side)

GroupInv == Writing /\ ChunksAreSorted /\ Merging

-----------------------------------------------------------------------------
(* A list is one of any set that has its members. *)
LEMMA ListOfMembers ==
    ASSUME NEW s \in Seq(Nat), NEW S, ToSet(s) \subseteq S PROVE s \in Seq(S)
<1>1. \A k \in 1..Len(s) : s[k] \in S
  BY LenProperties DEF ToSet
<1>2. s \in [1..Len(s) -> S] /\ Len(s) \in Nat
  BY <1>1, LenProperties
<1>. QED  BY <1>2, SeqDef

(* _write_sorted_chunks writes the batch: the list of chunks and what it   *)
(* holds grow by it.                                                       *)
LEMMA BatchIsWritten ==
    ASSUME Writing, NEW side \in Side, ToSet(batch) \subseteq Records(side),
           \A c \in 1..Len(chunks[side]) : Sorted(side, chunks[side][c])
    PROVE  LET longer == Append(chunks[side], SortRecords(side, batch))
           IN /\ longer \in Seq(Seq(Nat))
              /\ \A c \in 1..Len(longer) : Sorted(side, longer[c])
              /\ Left(side, longer) = Written(side) \cup ToSet(batch)
<1> DEFINE old == chunks[side]
           chunk == SortRecords(side, batch)
           longer == Append(old, chunk)
           n == Len(old)
<1>1. input[side] \in Seq(Int) /\ old \in Seq(Seq(Nat)) /\ n \in Nat
  BY LenProperties DEF Writing
<1>2. batch \in Seq(Records(side))
  BY ListOfMembers DEF Writing
<1>3. Sorted(side, chunk) /\ ToSet(chunk) = ToSet(batch)
  BY <1>1, <1>2, SortedBatch
<1>4. Records(side) \subseteq Nat
  BY <1>1, LenProperties DEF Records
<1>5. chunk \in Seq(Nat)
  BY <1>3, <1>4, SeqMonotonic DEF Sorted
<1> HIDE DEF old, chunk, n
<1>6. /\ longer \in Seq(Seq(Nat)) /\ Len(longer) = n + 1
      /\ \A c \in 1..n : longer[c] = old[c]
      /\ longer[n + 1] = chunk
  BY <1>1, <1>5, AppendProperties DEF n
<1>7. 1..(n + 1) = 1..n \cup {n + 1}
  BY <1>1
<1> HIDE DEF longer
<1>8. \A c \in 1..Len(longer) : Sorted(side, longer[c])
  BY <1>3, <1>6, <1>7 DEF old, n
<1>9. Left(side, longer) = Left(side, old) \cup ToSet(batch)
  <2>1. \A i : (\E c \in 1..Len(longer) : i \in ToSet(longer[c]))
               <=> (\E c \in 1..n : i \in ToSet(old[c])) \/ i \in ToSet(batch)
    BY <1>3, <1>6, <1>7
  <2>. QED  BY <2>1 DEF Left, n
<1>. QED  BY <1>6, <1>8, <1>9 DEF longer, old, chunk, Written

(* Before and what is built on it depend on the input only. *)
LEMMA InputFrames ==
    ASSUME UNCHANGED input
    PROVE  /\ \A side : Records(side)' = Records(side)
           /\ \A side, c : ChunkIsSorted(side, c)' = Sorted(side, chunks'[side][c])
           /\ \A side : Written(side)' = Left(side, chunks'[side])
           /\ \A side : GroupIsWhole(side)' = Whole(side, group'[side])
           /\ \A side : ReaderIsRight(side)' = Reading(side, unread'[side], building'[side])
<1>1. /\ \A side : Records(side)' = Records(side)
      /\ \A side, i : Token(side, i)' = Token(side, i)
      /\ \A side, i, j : Before(side, i, j)' = Before(side, i, j)
  BY DEF Records, Token, Before
<1>2. /\ \A side, c : ChunkIsSorted(side, c)' = Sorted(side, chunks'[side][c])
      /\ \A side : Written(side)' = Left(side, chunks'[side])
      /\ \A side : GroupIsWhole(side)' = Whole(side, group'[side])
  BY <1>1 DEF Sorted, Left, Whole, ChunkIsSorted, Written, GroupIsWhole
<1>3. ASSUME NEW side
      PROVE  ReaderIsRight(side)' = Reading(side, unread'[side], building'[side])
  <2>1. Left(side, unread[side])' = Left(side, unread'[side])
    BY <1>1 DEF Left
  <2>2. \A c : Sorted(side, unread[side][c])' = Sorted(side, unread'[side][c])
    BY <1>1 DEF Sorted
  <2>. QED  BY <1>1, <2>1, <2>2 DEF Reading, ReaderIsRight
<1>. QED  BY <1>1, <1>2, <1>3

(* The batch is part of what was read. *)
LEMMA BatchIsRead ==
    ASSUME Writing, ChunksAreSorted, NEW side \in Side, phase = WritePhase(side)
    PROVE  /\ Written(side) \cup ToSet(batch) = 1..itemCount[side]
           /\ ToSet(batch) \subseteq Records(side)
<1>1. Written(side) \cup ToSet(batch) = 1..itemCount[side]
  BY WritingTakesTurns DEF ChunksAreSorted
<1>2. itemCount[side] \in Nat /\ Len(input[side]) \in Nat /\ itemCount[side] <= Len(input[side])
  BY LenProperties DEF Writing
<1>. QED  BY <1>1, <1>2 DEF Records

(* _write_sorted_chunks reads an item into the batch. *)
LEMMA ReadItemKeeps ==
    ASSUME Writing, ChunksAreSorted, NEW side \in Side, ReadItem(side)
    PROVE  Writing' /\ ChunksAreSorted'
<1> DEFINE n == itemCount[side]
<1>1. /\ phase = WritePhase(side) /\ n # Len(input[side])
      /\ itemCount' = [itemCount EXCEPT ![side] = @ + 1]
      /\ batch' = Append(batch, n + 1)
      /\ UNCHANGED <<call, phase, chunks, building, status>>
  BY DEF ReadItem, Exhausted, merge
<1>2. n \in Nat /\ Len(input[side]) \in Nat /\ n + 1 <= Len(input[side]) /\ n + 1 \in Nat
  BY <1>1, LenProperties DEF Writing
<1>3. /\ itemCount'[side] = n + 1
      /\ \A s \in Side : s # side => itemCount'[s] = itemCount[s]
      /\ itemCount' \in [Side -> Nat]
  BY <1>1, <1>2 DEF Writing
<1> HIDE DEF n
<1>4. batch' \in Seq(Nat) /\ ToSet(batch') = ToSet(batch) \cup {n + 1}
  <2> DEFINE m == Len(batch)
  <2>1. m \in Nat /\ DOMAIN batch = 1..m /\ batch \in Seq(Nat)
    BY LenProperties DEF Writing
  <2>2. /\ batch' \in Seq(Nat) /\ Len(batch') = m + 1
        /\ \A k \in 1..m : batch'[k] = batch[k]
        /\ batch'[m + 1] = n + 1
    BY <2>1, <1>1, <1>2, AppendProperties
  <2> HIDE DEF m
  <2>3. DOMAIN batch' = 1..(m + 1) /\ 1..(m + 1) = 1..m \cup {m + 1}
    BY <2>1, <2>2, LenProperties
  <2>. QED  BY <2>1, <2>2, <2>3 DEF ToSet
<1>5. Writing'
  BY <1>1, <1>2, <1>3, <1>4 DEF Writing, call
<1>6. /\ \A s : Records(s)' = Records(s)
      /\ \A s, c : ChunkIsSorted(s, c)' = ChunkIsSorted(s, c)
      /\ \A s : Written(s)' = Written(s)
  BY <1>1, InputFrames DEF call, ChunkIsSorted, Written
<1>8. AllSorted'
  BY <1>1, <1>6 DEF ChunksAreSorted, AllSorted
<1>7. Written(side) \cup ToSet(batch') = 1..(n + 1)
  <2>1. 1..(n + 1) = 1..n \cup {n + 1}
    BY <1>2
  <2>. QED  BY <2>1, <1>1, <1>4, BatchIsRead DEF n
<1>9. CASE side = "first" /\ phase = "write_first"
  BY <1>1, <1>3, <1>5, <1>6, <1>7, <1>8, <1>9 DEF ChunksAreSorted, Side
<1>10. CASE side = "second" /\ phase = "write_second"
  BY <1>1, <1>3, <1>5, <1>6, <1>7, <1>8, <1>10 DEF ChunksAreSorted, Side
<1>. QED  BY <1>1, <1>5, <1>9, <1>10, WritingTakesTurns

(* _write_sorted_chunks writes the batch, within the limit or not. *)
LEMMA WriteChunkKeeps ==
    ASSUME Writing, ChunksAreSorted, NEW side \in Side,
           WriteChunk(side) \/ WriteChunkOverLimit(side)
    PROVE  Writing' /\ ChunksAreSorted'
<1> DEFINE longer == Append(chunks[side], SortRecords(side, batch))
<1>1. /\ phase = WritePhase(side)
      /\ chunks' = [chunks EXCEPT ![side] = longer]
      /\ \/ phase' = phase /\ batch' = <<>>
         \/ phase' = "cleanup" /\ batch' = batch
      /\ UNCHANGED <<call, itemCount, building, status>>
  BY DEF WriteChunk, WriteChunkOverLimit, BatchIsDue, Fail, merge
<1>2. /\ Written(side) \cup ToSet(batch) = 1..itemCount[side]
      /\ ToSet(batch) \subseteq Records(side)
  BY <1>1, BatchIsRead
<1>3. /\ longer \in Seq(Seq(Nat))
      /\ \A c \in 1..Len(longer) : Sorted(side, longer[c])
      /\ Left(side, longer) = Written(side) \cup ToSet(batch)
  <2>1. \A c \in 1..Len(chunks[side]) : Sorted(side, chunks[side][c])
    BY DEF ChunksAreSorted, AllSorted, ChunkIsSorted
  <2>. QED  BY <2>1, <1>2, BatchIsWritten
<1> HIDE DEF longer
<1>4. /\ chunks'[side] = longer
      /\ \A s \in Side : s # side => chunks'[s] = chunks[s]
      /\ chunks' \in [Side -> Seq(Seq(Nat))]
  BY <1>1, <1>3 DEF Writing
<1>5. Writing'
  <2>1. batch' \in Seq(Nat)
    BY <1>1, EmptySeq DEF Writing
  <2>. QED  BY <2>1, <1>1, <1>4 DEF Writing, call
<1>6. /\ \A s : Records(s)' = Records(s)
      /\ \A s, c : ChunkIsSorted(s, c)' = Sorted(s, chunks'[s][c])
      /\ \A s : Written(s)' = Left(s, chunks'[s])
  BY <1>1, InputFrames DEF call
<1>7. AllSorted'
  <2>1. \A s \in Side : \A c \in 1..Len(chunks[s]) : Sorted(s, chunks[s][c])
    BY DEF ChunksAreSorted, AllSorted, ChunkIsSorted
  <2>2. \A s \in Side : \A c \in 1..Len(chunks'[s]) : Sorted(s, chunks'[s][c])
    BY <2>1, <1>3, <1>4
  <2>. QED  BY <2>2, <1>6 DEF AllSorted
<1>8. /\ Written(side)' = Written(side) \cup ToSet(batch)
      /\ \A s \in Side : s # side => Written(s)' = Written(s)
  BY <1>3, <1>4, <1>6 DEF Written
<1>9. CASE phase' = "cleanup"
  BY <1>5, <1>7, <1>9 DEF ChunksAreSorted
<1>10. CASE phase' = phase /\ batch' = <<>>
  <2>1. ToSet(batch') = {}
    BY <1>10 DEF ToSet
  <2>2. CASE side = "first" /\ phase = "write_first"
    BY <2>1, <2>2, <1>1, <1>2, <1>5, <1>6, <1>7, <1>8, <1>10 DEF ChunksAreSorted, Side
  <2>3. CASE side = "second" /\ phase = "write_second"
    BY <2>1, <2>3, <1>1, <1>2, <1>5, <1>6, <1>7, <1>8, <1>10 DEF ChunksAreSorted, Side
  <2>. QED  BY <2>2, <2>3, <1>1, WritingTakesTurns
<1>. QED  BY <1>1, <1>5, <1>9, <1>10

(* The list of a side is returned when the side is exhausted. *)
LEMMA FinishWritingKeeps ==
    ASSUME Writing, ChunksAreSorted, NEW side \in Side, FinishWriting(side)
    PROVE  Writing' /\ ChunksAreSorted'
<1>1. /\ phase = WritePhase(side) /\ itemCount[side] = Len(input[side]) /\ batch = <<>>
      /\ phase' = IF side = "first" /\ config.operation = "compare"
                    THEN "write_second" ELSE "open"
      /\ UNCHANGED <<call, itemCount, batch, chunks, building, status>>
  BY DEF FinishWriting, Exhausted, merge
<1>2. Writing'
  BY <1>1 DEF Writing, call
<1>3. \A s : Records(s)' = Records(s)
  BY <1>1, InputFrames DEF call
<1>4. /\ \A s, c : ChunkIsSorted(s, c)' = ChunkIsSorted(s, c)
      /\ \A s : Written(s)' = Written(s)
  BY <1>1, InputFrames DEF call, ChunkIsSorted, Written
<1>5. ToSet(batch) = {} /\ ToSet(batch') = {}
  BY <1>1 DEF ToSet
<1>9. AllSorted'
  BY <1>1, <1>4 DEF ChunksAreSorted, AllSorted
<1>6. Written(side) = Records(side)
  BY <1>1, <1>5, BatchIsRead DEF Records
<1>7. CASE side = "first" /\ phase = "write_first"
  <2>1. itemCount["second"] = 0 /\ Written("second") = {} /\ 1..0 = {}
    BY <1>7 DEF ChunksAreSorted
  <2>. QED  BY <2>1, <1>1, <1>2, <1>3, <1>4, <1>5, <1>6, <1>7, <1>9 DEF ChunksAreSorted, Side
<1>8. CASE side = "second" /\ phase = "write_second"
  BY <1>1, <1>2, <1>3, <1>4, <1>5, <1>6, <1>8, <1>9 DEF ChunksAreSorted, Side
<1>. QED  BY <1>1, <1>7, <1>8, WritingTakesTurns

(* Only these write chunks. *)
LEMMA WritingKept == ASSUME Writing, ChunksAreSorted, [Next]_vars PROVE Writing' /\ ChunksAreSorted'
<1>1. CASE \E side \in Side : Write(side)
  BY <1>1, ReadItemKeeps, WriteChunkKeeps, FinishWritingKeeps DEF Write
<1>2. CASE ~ \E side \in Side : Write(side)
  <2>1. /\ UNCHANGED <<call, itemCount, batch, chunks>>
        /\ \/ phase' = phase /\ (phase \in {"write_first", "write_second", "open"}
                                 => UNCHANGED <<building, status>>)
           \/ phase' \notin {"write_first", "write_second", "open"}
    BY <1>2 DEF Next, Progress, Merge, Failure, vars, writes, merge, Fail, StartMerge, PullRecord,
       Pulls, PullLast, EmitOnly, EmitCommon, EmitRepeats, Emit, BothReady, FinishMerge,
       CloseWriter, ExitWriter, Unlink, Leave, WriteChunkFails, SourceRaises, Interrupted, OpenFails,
       MergeRaises, ExitWriterFails, UnlinkFails
  <2>2. /\ \A s : Records(s)' = Records(s)
        /\ \A s, c : ChunkIsSorted(s, c)' = ChunkIsSorted(s, c)
        /\ \A s : Written(s)' = Written(s)
    BY <2>1, InputFrames DEF call, ChunkIsSorted, Written
  <2>3. Writing'
    BY <2>1 DEF Writing, call
  <2>4. ToSet(batch)' = ToSet(batch)
    BY <2>1
  <2>5. AllSorted'
    BY <2>1, <2>2 DEF ChunksAreSorted, AllSorted
  <2>. QED  BY <2>1, <2>2, <2>3, <2>4, <2>5 DEF ChunksAreSorted
<1>. QED  BY <1>1, <1>2

(* The merge starts with a reader for every chunk. *)
LEMMA StartMergeKeeps == ASSUME GroupInv, StartMerge PROVE Merging'
<1>1. /\ phase = "open" /\ unread' = chunks
      /\ UNCHANGED <<call, building, group, status>>
  BY DEF StartMerge
<1>2. \A side \in Side : building[side] = <<>> /\ status[side] = "pull"
  BY <1>1 DEF GroupInv, ChunksAreSorted
<1>3. \A side \in Side : Reading(side, chunks[side], <<>>)
  <2> TAKE side \in Side
  <2>1. /\ chunks[side] \in Seq(Seq(Nat))
        /\ \A c \in 1..Len(chunks[side]) : Sorted(side, chunks[side][c])
    BY DEF GroupInv, Writing, ChunksAreSorted, AllSorted, ChunkIsSorted
  <2>2. Left(side, chunks[side]) \in {{}, Records(side)}
    BY <1>1 DEF GroupInv, ChunksAreSorted, Written
  <2>3. <<>> \in Seq(Nat) /\ ToSet(<<>>) = {}
    BY EmptySeq DEF ToSet
  <2>. QED  BY <2>1, <2>2, <2>3 DEF Reading
<1>4. \A side : ReaderIsRight(side)' = Reading(side, unread'[side], building'[side])
  BY <1>1, InputFrames DEF call
<1>5. \A side \in Side : ReaderIsRight(side)'
  BY <1>1, <1>2, <1>3, <1>4
<1>. QED  BY <1>1, <1>2, <1>5 DEF GroupInv, Writing, Merging

(* A record is pulled from the reader with the least head. *)
LEMMA PullRecordKeeps ==
    ASSUME GroupInv, NEW side \in Side, NEW c \in Heads(side), PullRecord(side, c)
    PROVE  Merging'
<1> DEFINE u == unread[side]
           x == Head(u[c])
           v == [u EXCEPT ![c] = Tail(@)]
           rows == building[side]
           same == rows = <<>> \/ Token(side, rows[1]) = Token(side, x)
<1>1. /\ input[side] \in Seq(Int) /\ Reading(side, u, rows)
      /\ unread \in [Side -> Seq(Seq(Nat))] /\ building \in [Side -> Seq(Nat)]
      /\ group = [s \in Side |-> group[s]]
      /\ status = [s \in Side |-> status[s]]
  BY DEF GroupInv, Writing, Merging, ReaderIsRight
<1>2. c \in 1..Len(u) /\ u[c] # <<>>
  BY DEF Heads
<1>3. \A d \in 1..Len(u) : d # c /\ u[d] # <<>> => Before(side, x, Head(u[d]))
  BY DEF PullRecord, IsNextChunk, Heads
<1>4. /\ unread' = [unread EXCEPT ![side] = v]
      /\ building' = [building EXCEPT ![side] = IF same THEN Append(rows, x) ELSE <<x>>]
      /\ same => UNCHANGED <<group, status>>
      /\ ~same => /\ group' = [group EXCEPT ![side] = rows]
                  /\ status' = [status EXCEPT ![side] = "group"]
      /\ status[side] = "pull"
      /\ UNCHANGED call
  BY DEF PullRecord, Pulls, Token
<1>5. IF same THEN Reading(side, v, Append(rows, x))
              ELSE Reading(side, v, <<x>>) /\ Whole(side, rows)
  BY <1>1, <1>2, <1>3, RecordIsGrouped
<1> HIDE DEF u, x, v, rows, same
<1>6. /\ unread'[side] = v
      /\ building'[side] = IF same THEN Append(rows, x) ELSE <<x>>
      /\ \A s \in Side \ {side} : /\ unread'[s] = unread[s] /\ building'[s] = building[s]
                                  /\ group'[s] = group[s] /\ status'[s] = status[s]
      /\ ~same => group'[side] = rows
      /\ same => status'[side] = "pull"
      /\ group' = [s \in Side |-> group'[s]]
      /\ status' = [s \in Side |-> status'[s]]
  BY <1>1, <1>4
<1>7. Reading(side, unread'[side], building'[side])
  BY <1>5, <1>6
<1>8. /\ unread' \in [Side -> Seq(Seq(Nat))]
      /\ building' \in [Side -> Seq(Nat)]
  <2>1. unread'[side] \in Seq(Seq(Nat)) /\ building'[side] \in Seq(Nat)
    BY <1>7 DEF Reading
  <2>. QED  BY <2>1, <1>1, <1>4, <1>6
<1>9. /\ \A s : ReaderIsRight(s)' = Reading(s, unread'[s], building'[s])
      /\ \A s : GroupIsWhole(s)' = Whole(s, group'[s])
  BY <1>4, InputFrames DEF call
<1>10. \A s \in Side \ {side} : /\ Reading(s, unread[s], building[s])
                                /\ status[s] = "group" => Whole(s, group[s])
  BY DEF GroupInv, Merging, ReaderIsRight, GroupIsWhole
<1>11. \A s \in Side : ReaderIsRight(s)'
  BY <1>6, <1>7, <1>9, <1>10
<1>12. \A s \in Side : status'[s] = "group" => GroupIsWhole(s)'
  BY <1>5, <1>6, <1>9, <1>10
<1>. QED  BY <1>6, <1>8, <1>11, <1>12 DEF Merging

(* The readers of a side are exhausted. *)
LEMMA PullLastKeeps ==
    ASSUME GroupInv, NEW side \in Side, PullLast(side) PROVE Merging'
<1> DEFINE u == unread[side]
           rows == building[side]
<1>1. /\ Reading(side, u, rows)
      /\ unread \in [Side -> Seq(Seq(Nat))] /\ building \in [Side -> Seq(Nat)]
      /\ group = [s \in Side |-> group[s]]
      /\ status = [s \in Side |-> status[s]]
  BY DEF GroupInv, Merging, ReaderIsRight
<1>2. /\ \A c \in 1..Len(u) : u[c] = <<>>
      /\ building' = [building EXCEPT ![side] = <<>>]
      /\ group' = [group EXCEPT ![side] = rows]
      /\ status' = [status EXCEPT ![side] = IF rows = <<>> THEN "end" ELSE "group"]
      /\ UNCHANGED <<call, unread>>
  BY DEF PullLast, Heads
<1>3. Reading(side, u, <<>>) /\ (rows # <<>> => Whole(side, rows))
  BY <1>1, <1>2, LastGroup
<1> HIDE DEF u, rows
<1>4. /\ building'[side] = <<>> /\ group'[side] = rows
      /\ status'[side] = "group" => rows # <<>>
      /\ \A s \in Side \ {side} : /\ building'[s] = building[s]
                                  /\ group'[s] = group[s] /\ status'[s] = status[s]
      /\ group' = [s \in Side |-> group'[s]]
      /\ status' = [s \in Side |-> status'[s]]
      /\ building' \in [Side -> Seq(Nat)]
  <2>1. <<>> \in Seq(Nat)
    BY EmptySeq
  <2>. QED  BY <2>1, <1>1, <1>2
<1>5. /\ \A s : ReaderIsRight(s)' = Reading(s, unread'[s], building'[s])
      /\ \A s : GroupIsWhole(s)' = Whole(s, group'[s])
  BY <1>2, InputFrames DEF call
<1>6. \A s \in Side \ {side} : /\ Reading(s, unread[s], building[s])
                               /\ status[s] = "group" => Whole(s, group[s])
  BY DEF GroupInv, Merging, ReaderIsRight, GroupIsWhole
<1>7. \A s \in Side : ReaderIsRight(s)'
  BY <1>2, <1>3, <1>4, <1>5, <1>6 DEF u
<1>8. \A s \in Side : status'[s] = "group" => GroupIsWhole(s)'
  BY <1>3, <1>4, <1>5, <1>6
<1>. QED  BY <1>1, <1>2, <1>4, <1>7, <1>8 DEF Merging

(* The other steps take a group or leave it. *)
LEMMA MergingKept == ASSUME GroupInv, [Next]_vars PROVE Merging'
<1>1. CASE StartMerge
  BY <1>1, StartMergeKeeps
<1>2. CASE \E side \in Side : \E c \in Heads(side) : PullRecord(side, c)
  BY <1>2, PullRecordKeeps
<1>3. CASE \E side \in Side : PullLast(side)
  BY <1>3, PullLastKeeps
<1>4. CASE /\ ~StartMerge /\ ~ \E side \in Side : PullLast(side)
           /\ ~ \E side \in Side : \E c \in Heads(side) : PullRecord(side, c)
  <2>1. /\ UNCHANGED <<call, unread, building, group>>
        /\ \/ UNCHANGED status
           \/ \E side \in Side : status' = [status EXCEPT ![side] = "pull"]
           \/ status' = [side \in Side |-> "pull"]
    BY <1>4 DEF Next, Progress, Write, Merge, Failure, vars, merge, Fail, ReadItem, WriteChunk,
       WriteChunkOverLimit, FinishWriting, EmitOnly, EmitCommon, EmitRepeats, Emit, FinishMerge,
       CloseWriter, ExitWriter, Unlink, Leave, WriteChunkFails, SourceRaises, Interrupted,
       OpenFails, MergeRaises, ExitWriterFails, UnlinkFails, Side
  <2>2. /\ status' = [side \in Side |-> status'[side]]
        /\ \A side \in Side : status'[side] = "group" => status[side] = "group"
    BY <2>1 DEF GroupInv, Merging
  <2>3. /\ \A s : ReaderIsRight(s)' = ReaderIsRight(s)
        /\ \A s : GroupIsWhole(s)' = GroupIsWhole(s)
    BY <2>1, InputFrames DEF call, ReaderIsRight, GroupIsWhole
  <2>. QED  BY <2>1, <2>2, <2>3 DEF GroupInv, Merging
<1>. QED  BY <1>1, <1>2, <1>3, <1>4

(* A call starts with nothing read and nothing written. *)
LEMMA InitIsGrouped == ASSUME Init PROVE GroupInv
<1>1. /\ input \in [Side -> Seq(Int)] /\ config \in Configs
      /\ phase = "write_first" /\ batch = <<>>
      /\ itemCount = [side \in Side |-> 0]
      /\ chunks = [side \in Side |-> <<>>] /\ unread = [side \in Side |-> <<>>]
      /\ building = [side \in Side |-> <<>>] /\ group = [side \in Side |-> <<>>]
      /\ status = [side \in Side |-> "pull"]
  BY InputsAreBlobs DEF Init
<1>2. /\ <<>> \in Seq(Nat) /\ <<>> \in Seq(Seq(Nat)) /\ ToSet(<<>>) = {} /\ Len(<<>>) = 0
      /\ 1..0 = {}
  BY EmptySeq DEF ToSet
<1>3. Writing
  <2>1. \A side \in Side : Len(input[side]) \in Nat
    BY <1>1, LenProperties
  <2>2. batch \in Seq(Nat) /\ itemCount \in [Side -> Nat] /\ chunks \in [Side -> Seq(Seq(Nat))]
    BY <1>1, <1>2
  <2>. QED  BY <1>1, <2>1, <2>2 DEF Writing
<1>4. \A side : Left(side, <<>>) = {}
  BY <1>2 DEF Left
<1>5. ChunksAreSorted
  <2>1. AllSorted
    BY <1>1, <1>2 DEF AllSorted
  <2>2. Written("first") = {} /\ Written("second") = {}
    BY <1>1, <1>4 DEF Written, Side
  <2>3. "first" \in Side /\ "second" \in Side
    BY DEF Side
  <2>4. Written("first") \cup ToSet(batch) = 1..itemCount["first"]
    BY <1>1, <1>2, <2>2, <2>3
  <2>. QED  BY <1>1, <2>1, <2>2, <2>3, <2>4 DEF ChunksAreSorted
<1>6. \A side \in Side : ReaderIsRight(side)
  <2>1. \A side \in Side : Reading(side, <<>>, <<>>)
    BY <1>2, <1>4 DEF Reading
  <2>. QED  BY <2>1, <1>1 DEF ReaderIsRight
<1>7. unread \in [Side -> Seq(Seq(Nat))] /\ building \in [Side -> Seq(Nat)]
  BY <1>1, <1>2
<1>8. Merging
  BY <1>1, <1>6, <1>7 DEF Merging
<1>. QED  BY <1>3, <1>5, <1>8 DEF GroupInv

(* heapq.merge and _group_sorted_records: for all inputs, however they     *)
(* fall into chunks, the group delivered to the merge loop is the whole of *)
(* its token in input order.                                               *)
THEOREM GroupsAreComplete == Spec => []GroupsAreWhole
<1>1. Init => GroupInv
  BY InitIsGrouped
<1>2. GroupInv /\ [Next]_vars => GroupInv'
  BY WritingKept, MergingKept DEF GroupInv
<1>3. GroupInv => GroupsAreWhole
  BY DEF GroupInv, Merging, GroupIsWhole, Whole, GroupsAreWhole, Records, Token, TokenOf
<1>. QED  BY <1>1, <1>2, <1>3, PTL DEF Spec

-----------------------------------------------------------------------------
(* The records on disk in the lists c of some sides, one by one. *)
Files(c, side)   == {<<side, k>> : k \in 1..Len(c[side])}
Places(c, sides) ==
    UNION {{f} \X DOMAIN c[f[1]][f[2]] : f \in UNION {Files(c, side) : side \in sides}}

(* The sizes of _check_disk_limit count them. *)
LEMMA SizeIsPlaces == /\ \A sides : SizeOf(sides) = Cardinality(Places(chunks, sides))
                      /\ \A sides : SizeOf(sides)' = Cardinality(Places(chunks', sides))
BY DEF SizeOf, RecordsOn, ChunkFiles, Places, Files

(* Finitely many chunks of finite length have finitely many records. *)
LEMMA PlacesAreFinite ==
    ASSUME NEW c \in [Side -> Seq(Seq(Nat))], NEW sides \in SUBSET Side
    PROVE  IsFiniteSet(Places(c, sides)) /\ Cardinality(Places(c, sides)) \in Nat
<1>1. \A s \in Side : Len(c[s]) \in Nat /\ \A k \in 1..Len(c[s]) : c[s][k] \in Seq(Nat)
  BY LenProperties, ElementOfSeq
<1>2. IsFiniteSet(sides)
  <2>1. IsFiniteSet({"first"}) /\ IsFiniteSet({"second"})
    BY FS_Singleton
  <2>2. IsFiniteSet({"first"} \cup {"second"})
    BY <2>1, FS_Union
  <2>3. sides \in SUBSET ({"first"} \cup {"second"})
    BY DEF Side
  <2>. QED  BY <2>2, <2>3, FS_Subset
<1>3. \A s \in sides : IsFiniteSet(Files(c, s))
  <2> TAKE s \in sides
  <2> DEFINE f == [k \in 1..Len(c[s]) |-> <<s, k>>]
  <2>1. f \in Surjection(1..Len(c[s]), Files(c, s))
    BY DEF Surjection, Files
  <2>2. IsFiniteSet(1..Len(c[s]))
    BY <1>1, FS_Interval
  <2>. QED  BY <2>1, <2>2, FS_Surjection
<1> DEFINE F == UNION {Files(c, s) : s \in sides}
<1>4. IsFiniteSet(F)
  <2> DEFINE S == {Files(c, s) : s \in sides}
             f == [s \in sides |-> Files(c, s)]
  <2>1. f \in Surjection(sides, S)
    BY DEF Surjection
  <2>2. IsFiniteSet(S)
    BY <1>2, <2>1, FS_Surjection
  <2>3. \A T \in S : IsFiniteSet(T)
    BY <1>3
  <2>. QED  BY <2>2, <2>3, FS_UNION
<1>5. \A f \in F : f[1] \in Side /\ f[2] \in 1..Len(c[f[1]])
  BY DEF Files
<1>6. Places(c, sides) = UNION {{f} \X DOMAIN c[f[1]][f[2]] : f \in F}
  BY DEF Places
<1> HIDE DEF F
<1>7. \A f \in F : IsFiniteSet({f} \X DOMAIN c[f[1]][f[2]])
  <2> TAKE f \in F
  <2>1. c[f[1]][f[2]] \in Seq(Nat)
    BY <1>1, <1>5
  <2>2. DOMAIN c[f[1]][f[2]] = 1..Len(c[f[1]][f[2]]) /\ Len(c[f[1]][f[2]]) \in Nat
    BY <2>1, LenProperties
  <2>3. IsFiniteSet(DOMAIN c[f[1]][f[2]])
    <3>1. \A n \in Nat : IsFiniteSet(1..n)
      BY FS_Interval
    <3>. QED  BY <3>1, <2>2
  <2>4. IsFiniteSet({f})
    BY FS_Singleton
  <2>. QED  BY <2>3, <2>4, FS_Product
<1>8. IsFiniteSet(Places(c, sides))
  <2> DEFINE S == {{f} \X DOMAIN c[f[1]][f[2]] : f \in F}
             g == [f \in F |-> {f} \X DOMAIN c[f[1]][f[2]]]
  <2>1. g \in Surjection(F, S)
    BY DEF Surjection
  <2>2. IsFiniteSet(S)
    BY <1>4, <2>1, FS_Surjection
  <2>3. \A T \in S : IsFiniteSet(T)
    BY <1>7
  <2>. QED  BY <2>2, <2>3, <1>6, FS_UNION
<1>. QED  BY <1>8, FS_CardinalityType

(* A chunk more takes no record away. *)
LEMMA ChunkAddsRecords ==
    ASSUME NEW c \in [Side -> Seq(Seq(Nat))], NEW side \in Side, NEW chunk \in Seq(Nat),
           NEW sides \in SUBSET Side
    PROVE  LET d == [c EXCEPT ![side] = Append(@, chunk)]
           IN /\ d \in [Side -> Seq(Seq(Nat))]
              /\ Cardinality(Places(c, sides)) <= Cardinality(Places(d, Side))
<1> DEFINE d == [c EXCEPT ![side] = Append(@, chunk)]
<1>1. /\ \A s \in Side : Len(c[s]) \in Nat
      /\ Append(c[side], chunk) \in Seq(Seq(Nat))
      /\ Len(Append(c[side], chunk)) = Len(c[side]) + 1
      /\ \A k \in 1..Len(c[side]) : Append(c[side], chunk)[k] = c[side][k]
  BY LenProperties, AppendProperties
<1>2. d \in [Side -> Seq(Seq(Nat))] /\ d[side] = Append(c[side], chunk)
  BY <1>1
<1>3. \A s \in Side : s # side => d[s] = c[s]
  OBVIOUS
<1> HIDE DEF d
<1>4. \A s \in Side : \A k \in 1..Len(c[s]) : k \in 1..Len(d[s]) /\ d[s][k] = c[s][k]
  <2> TAKE s \in Side
  <2>1. CASE s = side
    <3>1. 1..Len(c[side]) \subseteq 1..(Len(c[side]) + 1)
      BY <1>1
    <3>. QED  BY <3>1, <2>1, <1>1, <1>2
  <2>2. CASE s # side
    BY <2>2, <1>3
  <2>. QED  BY <2>1, <2>2
<1>5. \A s \in sides : \A f \in Files(c, s) :
         f \in Files(d, s) /\ d[f[1]][f[2]] = c[f[1]][f[2]]
  <2> SUFFICES ASSUME NEW s \in sides, NEW f \in Files(c, s)
               PROVE  f \in Files(d, s) /\ d[f[1]][f[2]] = c[f[1]][f[2]]
    OBVIOUS
  <2>1. PICK k \in 1..Len(c[s]) : f = <<s, k>>
    BY DEF Files
  <2>2. k \in 1..Len(d[s]) /\ d[s][k] = c[s][k] /\ f[1] = s /\ f[2] = k
    BY <2>1, <1>4
  <2>3. f \in Files(d, s)
    BY <2>1, <2>2 DEF Files
  <2>. QED  BY <2>2, <2>3
<1>6. Places(c, sides) \subseteq Places(d, Side)
  BY <1>5 DEF Places
<1>7. IsFiniteSet(Places(d, Side))
  BY <1>2, PlacesAreFinite
<1>. QED  BY <1>2, <1>6, <1>7, FS_Subset DEF d

(* disk_limit was the cause: the chunks are more than it allows, and stay  *)
(* as they are.                                                            *)
LimitInv ==
    /\ GroupInv
    /\ assigned \subseteq Side
    /\ error = "limit" => /\ phase \in {"cleanup", "returned", "raised"}
                          /\ TotalSize > config.disk_limit

(* disk_limit: the error of _check_disk_limit is raised only on chunks     *)
(* that exceed the limit, for every input, option, chunk size and limit;   *)
(* the check counts part of the chunks, and the part is no more than all.  *)
THEOREM LimitStopsNoFittingCall == Spec => []LimitErrorIsJust
<1>1. Init => GroupInv
  BY InitIsGrouped
<1>2. GroupInv /\ [Next]_vars => GroupInv'
  BY WritingKept, MergingKept DEF GroupInv
<1>3. Init => LimitInv
  BY <1>1, NoneIsNoError DEF Init, LimitInv
<1>4. LimitInv /\ [Next]_vars => LimitInv'
  <2> SUFFICES ASSUME LimitInv, [Next]_vars PROVE LimitInv'
    OBVIOUS
  <2>1. GroupInv'
    BY <1>2 DEF LimitInv
  <2>2. CASE \E side \in Side : WriteChunkOverLimit(side)
    <3> PICK side \in Side : WriteChunkOverLimit(side)
      BY <2>2
    <3>1. /\ phase = WritePhase(side) /\ phase' = "cleanup"
          /\ config.disk_limit # NoLimit /\ CountedSize > config.disk_limit
          /\ chunks' = [chunks EXCEPT ![side] = Append(@, SortRecords(side, batch))]
          /\ UNCHANGED <<call, assigned>>
      BY DEF WriteChunkOverLimit, BatchIsDue, OverLimit, Fail
    <3>2. SortRecords(side, batch) \in Seq(Nat)
      <4>1. ToSet(batch) \subseteq Records(side) /\ input[side] \in Seq(Int) /\ batch \in Seq(Nat)
        BY <3>1, BatchIsRead DEF LimitInv, GroupInv, Writing
      <4>2. batch \in Seq(Records(side))
        BY <4>1, ListOfMembers
      <4>3. SortRecords(side, batch) \in Seq(Records(side))
        BY <4>1, <4>2, SortedBatch DEF Sorted
      <4>4. Records(side) \subseteq Nat
        BY <4>1, LenProperties DEF Records
      <4>. QED  BY <4>3, <4>4, SeqMonotonic
    <3>3. chunks \in [Side -> Seq(Seq(Nat))] /\ assigned \in SUBSET Side
      BY DEF LimitInv, GroupInv, Writing
    <3>4. /\ chunks' \in [Side -> Seq(Seq(Nat))]
          /\ Cardinality(Places(chunks, assigned)) <= Cardinality(Places(chunks', Side))
      <4>1. LET d == [chunks EXCEPT ![side] = Append(@, SortRecords(side, batch))]
            IN /\ d \in [Side -> Seq(Seq(Nat))]
               /\ Cardinality(Places(chunks, assigned)) <= Cardinality(Places(d, Side))
        BY <3>2, <3>3, ChunkAddsRecords
      <4>. QED  BY <3>1, <4>1
    <3>5. /\ CountedSize = Cardinality(Places(chunks, assigned))
          /\ TotalSize' = Cardinality(Places(chunks', Side))
      BY SizeIsPlaces DEF CountedSize, TotalSize
    <3>6. config.disk_limit \in Int /\ Cardinality(Places(chunks, assigned)) \in Nat
          /\ Cardinality(Places(chunks', Side)) \in Nat
      BY <3>1, <3>3, <3>4, LimitsAreSizes, PlacesAreFinite DEF LimitInv, GroupInv, Writing
    <3>7. TotalSize' > config.disk_limit
      BY <3>1, <3>4, <3>5, <3>6
    <3>. QED  BY <2>1, <3>1, <3>3, <3>7 DEF LimitInv, call
  <2>3. CASE ~ \E side \in Side : WriteChunkOverLimit(side)
    <3>1. /\ UNCHANGED call
          /\ assigned' \subseteq Side
          /\ error' = "limit" => error = "limit"
          /\ phase \in {"cleanup", "returned", "raised"} =>
                phase' \in {"cleanup", "returned", "raised"} /\ UNCHANGED chunks
      BY <2>3 DEF Next, Progress, Write, Merge, Failure, vars, writes, merge, Fail, ReadItem,
         WriteChunk, FinishWriting, BatchIsDue, WritePhase, StartMerge, PullRecord, Pulls, PullLast, EmitOnly,
         EmitCommon, EmitRepeats, Emit, BothReady, FinishMerge, CloseWriter, ExitWriter, Unlink,
         Leave, WriteChunkFails, SourceRaises, Interrupted, OpenFails, MergeRaises, ExitWriterFails,
         UnlinkFails, LimitInv, Side
    <3>2. UNCHANGED chunks => TotalSize' = TotalSize
      BY DEF TotalSize, SizeOf, RecordsOn, ChunkFiles
    <3>. QED  BY <2>1, <3>1, <3>2 DEF LimitInv, call
  <2>. QED  BY <2>2, <2>3
<1>5. LimitInv => LimitErrorIsJust
  BY DEF LimitInv, LimitErrorIsJust
<1>. QED  BY <1>3, <1>4, <1>5, PTL DEF Spec

-----------------------------------------------------------------------------
(* The lemmas about rows are stated for any writer of a file. *)
Listing == INSTANCE ResultFileProofs WITH
              Writer <- Call, Kind <- [w \in Call |-> "stream"], Content <- [w \in Call |-> <<>>]

(* The backend and the lemmas about rows share their vocabulary. *)
LEMMA SameRows ==
    /\ \A name, side, q : Listing!Rows(name, side, q) = Rows(name, side, q)
    /\ \A name, side, i : Listing!Row(name, side, i) = Row(name, side, i)
    /\ \A rows : Listing!ToSet(rows) = ToSet(rows)
    /\ \A rows : Listing!FirstOf(rows) = FirstOf(rows)
    /\ \A S : Listing!InOrder(S) = InOrder(S)
    /\ \A rows : Listing!RepeatsOf(rows) = RepeatsOf(rows)
    /\ \A list, places : Listing!EntriesAt(list, places) = EntriesAt(list, places)
    /\ \A S : Listing!Cardinality(S) = Cardinality(S)
    /\ \A S : Listing!IsFiniteSet(S) <=> IsFiniteSet(S)
<1>1. \A name, side, i : Listing!Row(name, side, i) = Row(name, side, i)
  BY DEF Listing!Row, Row
<1>2. \A name, side, q : Listing!Rows(name, side, q) = Rows(name, side, q)
  BY <1>1 DEF Listing!Rows, Rows, Listing!Row, Row
<1>3. \A rows : Listing!ToSet(rows) = ToSet(rows)
  BY DEF Listing!ToSet, ToSet
<1>4. \A rows : Listing!FirstOf(rows) = FirstOf(rows)
  BY DEF Listing!FirstOf, FirstOf, Listing!ToSet, ToSet
<1>5. \A S : Listing!Cardinality(S) = Cardinality(S)
  BY DEF Listing!Cardinality, Cardinality
<1>6. \A S : Listing!InOrder(S) = InOrder(S)
  BY DEF Listing!InOrder, InOrder, Listing!Cardinality, Cardinality
<1>7. \A rows : Listing!RepeatsOf(rows) = RepeatsOf(rows)
  BY <1>3, <1>4, <1>6 DEF Listing!RepeatsOf, RepeatsOf
<1>8. \A list, places : Listing!EntriesAt(list, places) = EntriesAt(list, places)
  BY <1>6 DEF Listing!EntriesAt, EntriesAt
<1>9. \A S : Listing!IsFiniteSet(S) <=> IsFiniteSet(S)
  BY DEF Listing!IsFiniteSet, IsFiniteSet
<1>. QED  BY <1>1, <1>2, <1>3, <1>4, <1>5, <1>6, <1>7, <1>8, <1>9

(* Also for the answer read back from the rows. *)
LEMMA SameAnswers ==
    \A rows, c, sizes, counters, absent :
        Listing!AnswerOf(rows, c, sizes, counters, absent) = AnswerOf(rows, c, sizes, counters, absent)
<1>1. \A list, places : Listing!EntriesAt(list, places) = EntriesAt(list, places)
  BY SameRows
<1>2. \A q : Listing!ByOrdinal(q) = ByOrdinal(q)
  BY DEF Listing!ByOrdinal, ByOrdinal, Listing!Cardinality, Cardinality
<1>3. \A rows, name, side, mode :
         Listing!Section(rows, name, side, mode) = Section(rows, name, side, mode)
  BY <1>1, <1>2 DEF Listing!Section, Section
<1>. QED  BY <1>3 DEF Listing!AnswerOf, AnswerOf, Listing!Side, Side

(* And for what a comparison means. *)
LEMMA SameMeaning ==
    /\ \A q, S, ordered : Listing!Lists(q, S, ordered) <=> Lists(q, S, ordered)
    /\ \A s : /\ Listing!FirstOrdinals(s) = FirstOrdinals(s)
              /\ Listing!RepeatOrdinals(s) = RepeatOrdinals(s)
    /\ \A s, o : /\ Listing!OnlyOrdinals(s, o) = OnlyOrdinals(s, o)
                 /\ Listing!CommonOrdinals(s, o) = CommonOrdinals(s, o)
    /\ Listing!Side = Side
    /\ \A side : Listing!Other(side) = Other(side)
<1>1. \A q, S : Listing!Enumerates(q, S) <=> Enumerates(q, S)
  BY DEF Listing!Enumerates, Enumerates, Listing!Bijection, Bijection,
         Listing!Injection, Injection, Listing!Surjection, Surjection,
         Listing!IsInjective, IsInjective
<1>2. \A q : Listing!Ascending(q) <=> Ascending(q)
  BY DEF Listing!Ascending, Ascending
<1>3. \A s : /\ Listing!FirstOrdinals(s) = FirstOrdinals(s)
             /\ Listing!RepeatOrdinals(s) = RepeatOrdinals(s)
  BY DEF Listing!FirstOrdinals, FirstOrdinals, Listing!RepeatOrdinals, RepeatOrdinals,
         Listing!IsFirst, IsFirst
<1>4. \A t, s : Listing!Occurs(t, s) <=> Occurs(t, s)
  BY DEF Listing!Occurs, Occurs
<1>5. \A s, o : /\ Listing!OnlyOrdinals(s, o) = OnlyOrdinals(s, o)
                /\ Listing!CommonOrdinals(s, o) = CommonOrdinals(s, o)
  BY <1>3, <1>4 DEF Listing!OnlyOrdinals, OnlyOrdinals, Listing!CommonOrdinals, CommonOrdinals
<1>. QED  BY <1>1, <1>2, <1>3, <1>5
          DEF Listing!Lists, Lists, Listing!Side, Side, Listing!Other, Other

Comparing == {"open", "merge", "close"}
Succeeding == phase \in {"cleanup", "returned"} /\ error = None

(* A comparison reads both inputs to their ends, the first one first, and  *)
(* a search for duplicates its only one; and the chunks hold what was read.*)
ChunksHoldInputs ==
    /\ phase = "write_second" =>
          config.operation = "compare" /\ itemCount["first"] = Len(input["first"])
    /\ phase \in Comparing \/ Succeeding =>
          \A side \in Side : itemCount[side] =
              IF side = "first" \/ config.operation = "compare" THEN Len(input[side]) ELSE 0
    /\ phase = "open" => \A side \in Side : Written(side) = 1..itemCount[side]

(* An input is read to its end before it is returned; and the chunks are   *)
(* those of the inputs when the merge starts.                              *)
LEMMA ReturnedHoldInputs ==
    ASSUME Writing, ChunksAreSorted, ChunksHoldInputs, FailureInv, NEW side \in Side, FinishWriting(side)
    PROVE  ChunksHoldInputs'
<1>1. /\ phase = WritePhase(side) /\ itemCount[side] = Len(input[side]) /\ batch = <<>>
      /\ phase' = IF side = "first" /\ config.operation = "compare"
                    THEN "write_second" ELSE "open"
      /\ UNCHANGED <<call, itemCount, chunks>>
  BY DEF FinishWriting, Exhausted
<1>2. \A s : Written(s)' = Written(s)
  BY <1>1, InputFrames DEF call, Written
<1>3. Written(side) = 1..itemCount[side]
  <2>1. ToSet(batch) = {}
    BY <1>1 DEF ToSet
  <2>. QED  BY <1>1, <2>1, BatchIsRead
<1>4. config.operation \in {"compare", "duplicates"}
  BY ConfigsAreOptions DEF Writing
<1>5. UNCHANGED <<input, config>>
  BY <1>1 DEF call
<1>6. CASE side = "first" /\ phase = "write_first"
  <2>1. itemCount["second"] = 0 /\ Written("second") = 1..itemCount["second"]
    <3>1. itemCount["second"] = 0 /\ Written("second") = {} /\ 1..0 = {}
      BY <1>6 DEF ChunksAreSorted
    <3>. QED  BY <3>1
  <2>2. \A s \in Side : Written(s) = 1..itemCount[s]
    BY <1>3, <1>6, <2>1 DEF Side
  <2>3. CASE config.operation = "compare"
    BY <1>1, <1>5, <1>6, <2>3 DEF ChunksHoldInputs, Comparing, Succeeding
  <2>4. CASE config.operation = "duplicates"
    BY <1>1, <1>2, <1>5, <1>6, <2>1, <2>2, <2>4 DEF ChunksHoldInputs, Comparing, Succeeding, Side
  <2>. QED  BY <1>4, <2>3, <2>4
<1>7. CASE side = "second" /\ phase = "write_second"
  <2>1. config.operation = "compare" /\ \A s \in Side : itemCount[s] = Len(input[s])
    BY <1>1, <1>7 DEF ChunksHoldInputs, Side
  <2>2. \A s \in Side : Written(s) = 1..itemCount[s]
    BY <1>3, <1>7, <2>1 DEF ChunksAreSorted, Records, Side
  <2>. QED  BY <1>1, <1>2, <1>5, <1>7, <2>1, <2>2 DEF ChunksHoldInputs, Comparing, Succeeding, Side
<1>. QED  BY <1>1, <1>6, <1>7, WritingTakesTurns

(* No other step changes what was read, or ends a comparison in success    *)
(* that was not one.                                                       *)
LEMMA ChunksHoldInputsKept ==
    ASSUME Writing, ChunksAreSorted, ChunksHoldInputs, FailureInv, [Next]_vars PROVE ChunksHoldInputs'
<1> USE NoneIsNoError
<1>1. CASE \E side \in Side : FinishWriting(side)
  BY <1>1, ReturnedHoldInputs
<1>2. ASSUME NEW side \in Side, ReadItem(side) \/ WriteChunk(side) PROVE ChunksHoldInputs'
  <2>1. /\ phase = WritePhase(side) /\ phase' = phase
        /\ UNCHANGED <<input, config>>
        /\ \A s \in Side \ {side} : itemCount'[s] = itemCount[s]
    BY <1>2 DEF ReadItem, WriteChunk, BatchIsDue, call, Writing
  <2>2. phase' \notin Comparing /\ ~Succeeding'
    BY <2>1, WritingTakesTurns DEF Comparing, Succeeding
  <2>3. phase = "write_second" => side = "second" /\ itemCount'["first"] = itemCount["first"]
    BY <2>1, WritingTakesTurns DEF Side
  <2>. QED  BY <2>1, <2>2, <2>3 DEF ChunksHoldInputs, Comparing
<1>3. ASSUME NEW side \in Side,
             WriteChunkOverLimit(side) \/ WriteChunkFails(side) \/ SourceRaises(side) \/ Interrupted(side)
      PROVE  ChunksHoldInputs'
  <2>1. phase' = "cleanup" /\ error' # None
    BY <1>3 DEF WriteChunkOverLimit, WriteChunkFails, SourceRaises, Interrupted, Fail
  <2>. QED  BY <2>1 DEF ChunksHoldInputs, Comparing, Succeeding
<1>4. CASE UNCHANGED vars
  <2>1. UNCHANGED <<input, config, phase, error, itemCount, chunks>>
    BY <1>4 DEF vars, call, writes
  <2>2. \A s : Written(s)' = Written(s)
    BY <2>1, InputFrames DEF Written
  <2>. QED  BY <2>1, <2>2 DEF ChunksHoldInputs, Succeeding
<1>5. CASE OpenFails \/ UnlinkFails \/ Leave \/ Unlink \/ ExitWriterFails \/ MergeRaises
  <2>1. /\ UNCHANGED <<input, config, itemCount>>
        /\ phase \in Comparing \/ phase = "cleanup"
        /\ \/ phase' = "cleanup" /\ error' # None
           \/ phase' = "raised"
           \/ phase \in Comparing /\ phase' = "close"
           \/ phase = "cleanup" /\ phase' \in {"cleanup", "returned"} /\ error' = error
    BY <1>5 DEF OpenFails, UnlinkFails, Leave, Unlink, ExitWriterFails, MergeRaises, Fail, call, writes,
                Comparing, Out!CloseFails, Out!ReplaceFails, Out!Step
  <2>. QED  BY <2>1 DEF ChunksHoldInputs, Comparing, Succeeding
<1>6. CASE Merge \/ CloseWriter \/ ExitWriter
  <2>1. /\ UNCHANGED <<input, config, itemCount>>
        /\ phase \in Comparing /\ phase' \in {"merge", "close", "cleanup"}
    BY <1>6 DEF Merge, StartMerge, PullRecord, PullLast, Pulls, EmitOnly, EmitCommon, EmitRepeats, Emit,
                BothReady, FinishMerge, CloseWriter, ExitWriter, call, writes, Comparing
  <2>. QED  BY <2>1 DEF ChunksHoldInputs, Comparing, Succeeding
<1>. QED  BY <1>1, <1>2, <1>3, <1>4, <1>5, <1>6 DEF Next, Progress, Write, Failure

-----------------------------------------------------------------------------
(* The items of a side the merge has still to emit, and those it has.      *)
Pending(side) ==
    Left(side, unread[side]) \cup ToSet(building[side])
      \cup (IF status[side] = "group" THEN ToSet(group[side]) ELSE {})
Done(side) == (1..itemCount[side]) \ Pending(side)

(* A group that was delivered comes before what its side has left. *)
ComesFirst(side, rows, readers, collected) ==
    /\ rows \in Seq(Nat)
    /\ \A i \in ToSet(rows), j \in Left(side, readers) \cup ToSet(collected) :
          Token(side, i) < Token(side, j)

SideInv(side) ==
    /\ status[side] \in {"pull", "group", "end"}
    /\ status[side] = "group" => ComesFirst(side, group[side], unread[side], building[side])
    /\ status[side] = "end" => Pending(side) = {}
    /\ Pending(side) \subseteq 1..itemCount[side]

(* Whatever has been emitted, of either side, comes before whatever either *)
(* side has still to emit: so when a token is emitted as one of one side   *)
(* only, the other side neither had it nor will.                           *)
EmittedComesFirst ==
    \A side, other \in Side : \A i \in Done(side), j \in Pending(other) :
        Token(side, i) < Token(other, j)

MergeInv == phase = "merge" => EmittedComesFirst /\ \A side \in Side : SideInv(side)

(* They depend on the input only, and on the state of the merge. *)
LEMMA PendingFrames ==
    ASSUME UNCHANGED <<input, itemCount>>
    PROVE  /\ \A side : Pending(side)' = Left(side, unread'[side]) \cup ToSet(building'[side])
                          \cup (IF status'[side] = "group" THEN ToSet(group'[side]) ELSE {})
           /\ \A side : Done(side)' = (1..itemCount[side]) \ Pending(side)'
           /\ \A side, i : Token(side, i)' = Token(side, i)
           /\ \A side : ComesFirst(side, group[side], unread[side], building[side])'
                          <=> ComesFirst(side, group'[side], unread'[side], building'[side])
<1>1. /\ \A side, i : Token(side, i)' = Token(side, i)
      /\ \A side : Records(side)' = Records(side)
  BY DEF Token, Records
<1>2. /\ \A side : Left(side, unread[side])' = Left(side, unread'[side])
      /\ \A side : ToSet(building[side])' = ToSet(building'[side])
      /\ \A side : ToSet(group[side])' = ToSet(group'[side])
  BY <1>1 DEF Left, ToSet
<1>3. \A side : Pending(side)' = Left(side, unread'[side]) \cup ToSet(building'[side])
                          \cup (IF status'[side] = "group" THEN ToSet(group'[side]) ELSE {})
  BY <1>2 DEF Pending
<1>4. \A side : Done(side)' = (1..itemCount[side]) \ Pending(side)'
  BY DEF Done
<1>5. \A side : ComesFirst(side, group[side], unread[side], building[side])'
                  <=> ComesFirst(side, group'[side], unread'[side], building'[side])
  BY <1>1, <1>2 DEF ComesFirst
<1>. QED  BY <1>1, <1>3, <1>4, <1>5

(* The merge starts with everything pending. *)
LEMMA MergeInvStarts ==
    ASSUME GroupInv, ChunksHoldInputs, StartMerge PROVE MergeInv'
<1>1. /\ phase = "open" /\ unread' = chunks
      /\ UNCHANGED <<input, itemCount, building, group, status>>
  BY DEF StartMerge, call, writes
<1>2. \A side \in Side : building[side] = <<>> /\ status[side] = "pull"
  BY <1>1 DEF GroupInv, ChunksAreSorted
<1>3. ASSUME NEW side \in Side PROVE Pending(side)' = 1..itemCount[side]
  <2>1. Left(side, unread'[side]) = 1..itemCount[side]
    BY <1>1 DEF ChunksHoldInputs, Written
  <2>2. ToSet(building'[side]) = {} /\ status'[side] # "group"
    BY <1>1, <1>2 DEF ToSet
  <2>. QED  BY <1>1, <2>1, <2>2, PendingFrames
<1>4. \A side \in Side : Done(side)' = {}
  BY <1>1, <1>3, PendingFrames
<1>5. EmittedComesFirst'
  BY <1>4 DEF EmittedComesFirst
<1>6. \A side \in Side : SideInv(side)'
  BY <1>1, <1>2, <1>3 DEF SideInv
<1>. QED  BY <1>5, <1>6 DEF MergeInv

(* The rows of a whole token come before what the readers have left. *)
LEMMA WholeComesFirst ==
    ASSUME NEW side, input[side] \in Seq(Int), NEW u, NEW rows, Reading(side, u, rows), Whole(side, rows)
    PROVE  ComesFirst(side, rows, u, <<>>)
<1>1. /\ rows \in Seq(Nat) /\ rows # <<>>
      /\ ToSet(rows) = {i \in Records(side) : Token(side, i) = Token(side, rows[1])}
      /\ \A i \in ToSet(rows), j \in Left(side, u) : Before(side, i, j)
  BY DEF Reading, Whole
<1>2. ASSUME NEW i \in ToSet(rows), NEW j \in Left(side, u) PROVE Token(side, i) < Token(side, j)
  <2>1. Before(side, i, j)
    BY <1>1
  <2>2. CASE Token(side, i) = Token(side, j)
    <3>1. j \in Records(side)
      BY DEF Left
    <3>2. j \in ToSet(rows)
      BY <1>1, <2>2, <3>1
    <3>3. Before(side, j, j)
      BY <1>1, <3>2
    <3>. QED  BY <3>1, <3>3, BeforeIsAnOrder
  <2>. QED  BY <2>1, <2>2 DEF Before, Token
<1>3. ToSet(<<>>) = {}
  BY DEF ToSet
<1>. QED  BY <1>1, <1>2, <1>3 DEF ComesFirst

(* The members of a list with one more entry. *)
LEMMA AppendedMembers ==
    ASSUME NEW s \in Seq(Nat), NEW e \in Nat PROVE ToSet(Append(s, e)) = ToSet(s) \cup {e}
<1>1. Len(s) \in Nat /\ DOMAIN s = 1..Len(s)
  BY LenProperties
<1>2. /\ DOMAIN Append(s, e) = 1..(Len(s) + 1)
      /\ \A k \in 1..Len(s) : Append(s, e)[k] = s[k]
      /\ Append(s, e)[Len(s) + 1] = e
  BY AppendProperties, LenProperties
<1>3. 1..(Len(s) + 1) = 1..Len(s) \cup {Len(s) + 1}
  BY <1>1
<1>. QED  BY <1>1, <1>2, <1>3 DEF ToSet

(* The record that is pulled was left, and is no longer. *)
LEMMA RecordLeaves ==
    ASSUME NEW side, input[side] \in Seq(Int), NEW u, NEW rows, Reading(side, u, rows),
           NEW c \in 1..Len(u), u[c] # <<>>,
           \A d \in 1..Len(u) : d # c /\ u[d] # <<>> => Before(side, Head(u[c]), Head(u[d]))
    PROVE  LET v == [u EXCEPT ![c] = Tail(@)]
               x == Head(u[c])
           IN x \in Left(side, u) /\ x \in Nat /\ Left(side, v) = Left(side, u) \ {x}
<1> DEFINE v == [u EXCEPT ![c] = Tail(@)]
           x == Head(u[c])
<1>1. u \in Seq(Seq(Nat)) /\ \A d \in 1..Len(u) : Sorted(side, u[d])
  BY DEF Reading
<1>2. /\ v \in Seq(Seq(Nat))
      /\ \A d \in 1..Len(v) : Sorted(side, v[d])
      /\ x \in Left(side, u) /\ x \in Records(side)
      /\ \A i \in Left(side, u) \ {x} : Before(side, x, i)
      /\ Left(side, v) = Left(side, u) \ {x}
  BY <1>1, LeastIsNext
<1>3. Len(input[side]) \in Nat
  BY LenProperties
<1> HIDE DEF v, x
<1>4. x \in Nat
  BY <1>2, <1>3 DEF Records
<1>. QED  BY <1>2, <1>4 DEF v, x

(* A side that is pulled keeps what is pending of it. *)
LEMMA PullRecordKeepsPending ==
    ASSUME GroupInv, MergeInv, NEW side \in Side, NEW c \in Heads(side), PullRecord(side, c)
    PROVE  /\ \A s \in Side : Pending(s)' = Pending(s)
           /\ SideInv(side)'
<1> DEFINE u == unread[side]
           x == Head(u[c])
           v == [u EXCEPT ![c] = Tail(@)]
           rows == building[side]
           same == rows = <<>> \/ Token(side, rows[1]) = Token(side, x)
<1>1. /\ input[side] \in Seq(Int) /\ Reading(side, u, rows) /\ rows \in Seq(Nat)
      /\ unread \in [Side -> Seq(Seq(Nat))] /\ building \in [Side -> Seq(Nat)]
      /\ group = [s \in Side |-> group[s]]
      /\ status = [s \in Side |-> status[s]]
  BY DEF GroupInv, Writing, Merging, ReaderIsRight, Reading
<1>2. c \in 1..Len(u) /\ u[c] # <<>>
  BY DEF Heads
<1>3. \A d \in 1..Len(u) : d # c /\ u[d] # <<>> => Before(side, x, Head(u[d]))
  BY DEF PullRecord, IsNextChunk, Heads
<1>4. /\ unread' = [unread EXCEPT ![side] = v]
      /\ building' = [building EXCEPT ![side] = IF same THEN Append(rows, x) ELSE <<x>>]
      /\ same => UNCHANGED <<group, status>>
      /\ ~same => /\ group' = [group EXCEPT ![side] = rows]
                  /\ status' = [status EXCEPT ![side] = "group"]
      /\ phase = "merge" /\ status[side] = "pull"
      /\ UNCHANGED <<input, itemCount>>
  BY DEF PullRecord, Pulls, Token, call, writes
<1>5. IF same THEN Reading(side, v, Append(rows, x))
              ELSE Reading(side, v, <<x>>) /\ Whole(side, rows)
  BY <1>1, <1>2, <1>3, RecordIsGrouped
<1>6. x \in Left(side, u) /\ x \in Nat /\ Left(side, v) = Left(side, u) \ {x}
  <2>1. PICK w, q : w = u /\ q = rows
    OBVIOUS
  <2>2. /\ Reading(side, w, q) /\ c \in 1..Len(w) /\ w[c] # <<>>
        /\ \A d \in 1..Len(w) : d # c /\ w[d] # <<>> => Before(side, Head(w[c]), Head(w[d]))
    BY <1>1, <1>2, <1>3, <2>1
  <2>3. /\ Head(w[c]) \in Left(side, w) /\ Head(w[c]) \in Nat
        /\ Left(side, [w EXCEPT ![c] = Tail(@)]) = Left(side, w) \ {Head(w[c])}
    <3>1. input[side] \in Seq(Int)
      BY <1>1
    <3>. QED  BY <2>2, <3>1, RecordLeaves
  <2>. QED  BY <2>1, <2>3
<1> HIDE DEF u, x, v, rows, same
<1>8. /\ unread'[side] = v
      /\ building'[side] = IF same THEN Append(rows, x) ELSE <<x>>
      /\ \A s \in Side \ {side} : /\ unread'[s] = unread[s] /\ building'[s] = building[s]
                                  /\ group'[s] = group[s] /\ status'[s] = status[s]
      /\ ~same => group'[side] = rows /\ status'[side] = "group"
      /\ same => status'[side] = "pull"
  BY <1>1, <1>4
<1>9. \A s \in Side \ {side} : Pending(s)' = Pending(s)
  BY <1>4, <1>8, PendingFrames DEF Pending
<1>10. Pending(side) = Left(side, u) \cup ToSet(rows)
  BY <1>4 DEF Pending, u, rows
<1>11. ToSet(Append(rows, x)) = ToSet(rows) \cup {x} /\ ToSet(<<x>>) = {x}
  <2>1. ToSet(<<x>>) = {x}
    BY DEF ToSet
  <2>. QED  BY <2>1, <1>1, <1>6, AppendedMembers
<1>12. Pending(side)' = Pending(side)
  <2>1. Pending(side)' = Left(side, unread'[side]) \cup ToSet(building'[side])
                          \cup (IF status'[side] = "group" THEN ToSet(group'[side]) ELSE {})
    BY <1>4, PendingFrames
  <2>2. CASE same
    <3>1. ToSet(building'[side]) = ToSet(rows) \cup {x}
      BY <1>8, <1>11, <2>2
    <3>2. Pending(side)' = (Left(side, u) \ {x}) \cup (ToSet(rows) \cup {x}) \cup {}
      BY <1>6, <1>8, <2>1, <2>2, <3>1
    <3>. QED  BY <1>6, <1>10, <3>2
  <2>3. CASE ~same
    <3>1. ToSet(building'[side]) = {x} /\ ToSet(group'[side]) = ToSet(rows)
      BY <1>8, <1>11, <2>3
    <3>2. Pending(side)' = (Left(side, u) \ {x}) \cup {x} \cup ToSet(rows)
      BY <1>6, <1>8, <2>1, <2>3, <3>1
    <3>. QED  BY <1>6, <1>10, <3>2
  <2>. QED  BY <2>2, <2>3
<1>13. Pending(side)' \subseteq 1..itemCount'[side]
  BY <1>4, <1>12 DEF MergeInv, SideInv
<1>14. ASSUME ~same PROVE ComesFirst(side, group[side], unread[side], building[side])'
  <2>1. ComesFirst(side, rows, u, <<>>)
    BY <1>1, <1>5, <1>14, WholeComesFirst
  <2>2. ComesFirst(side, rows, v, <<x>>)
    <3>1. ToSet(<<>>) = {}
      BY DEF ToSet
    <3>. QED  BY <2>1, <3>1, <1>6, <1>11 DEF ComesFirst
  <2>. QED  BY <1>4, <1>8, <1>14, <2>2, PendingFrames
<1>15. SideInv(side)'
  BY <1>8, <1>13, <1>14 DEF SideInv
<1>. QED  BY <1>9, <1>12, <1>15

(* So does the last pull. *)
LEMMA PullLastKeepsPending ==
    ASSUME GroupInv, MergeInv, NEW side \in Side, PullLast(side)
    PROVE  /\ \A s \in Side : Pending(s)' = Pending(s)
           /\ SideInv(side)'
<1> DEFINE u == unread[side]
           rows == building[side]
<1>1. /\ input[side] \in Seq(Int) /\ Reading(side, u, rows) /\ rows \in Seq(Nat)
      /\ unread \in [Side -> Seq(Seq(Nat))] /\ building \in [Side -> Seq(Nat)]
      /\ group = [s \in Side |-> group[s]]
      /\ status = [s \in Side |-> status[s]]
  BY DEF GroupInv, Writing, Merging, ReaderIsRight, Reading
<1>2. /\ \A c \in 1..Len(u) : u[c] = <<>>
      /\ building' = [building EXCEPT ![side] = <<>>]
      /\ group' = [group EXCEPT ![side] = rows]
      /\ status' = [status EXCEPT ![side] = IF rows = <<>> THEN "end" ELSE "group"]
      /\ phase = "merge" /\ status[side] = "pull"
      /\ UNCHANGED <<input, itemCount, unread>>
  BY DEF PullLast, Pulls, Heads, call, writes
<1>3. Left(side, u) = {} /\ ToSet(<<>>) = {}
  BY <1>2 DEF Left, ToSet
<1> HIDE DEF u, rows
<1>4. /\ building'[side] = <<>> /\ group'[side] = rows /\ unread'[side] = u
      /\ status'[side] = IF rows = <<>> THEN "end" ELSE "group"
      /\ \A s \in Side \ {side} : /\ unread'[s] = unread[s] /\ building'[s] = building[s]
                                  /\ group'[s] = group[s] /\ status'[s] = status[s]
  BY <1>1, <1>2 DEF u
<1>5. \A s \in Side \ {side} : Pending(s)' = Pending(s)
  BY <1>2, <1>4, PendingFrames DEF Pending
<1>6. Pending(side) = ToSet(rows)
  BY <1>2, <1>3 DEF Pending, u, rows
<1>7. Pending(side)' = ToSet(rows)
  <2>1. Pending(side)' = Left(side, unread'[side]) \cup ToSet(building'[side])
                          \cup (IF status'[side] = "group" THEN ToSet(group'[side]) ELSE {})
    BY <1>2, PendingFrames
  <2>2. Left(side, unread'[side]) = {} /\ ToSet(building'[side]) = {}
    BY <1>3, <1>4
  <2>3. (IF status'[side] = "group" THEN ToSet(group'[side]) ELSE {}) = ToSet(rows)
    BY <1>3, <1>4
  <2>. QED  BY <2>1, <2>2, <2>3
<1>8. ComesFirst(side, group[side], unread[side], building[side])'
  <2>1. ComesFirst(side, rows, u, <<>>)
    BY <1>1, <1>3 DEF ComesFirst
  <2>. QED  BY <1>2, <1>4, <2>1, PendingFrames
<1>9. Pending(side)' \subseteq 1..itemCount'[side]
  BY <1>2, <1>6, <1>7 DEF MergeInv, SideInv
<1>10. status'[side] = "end" => Pending(side)' = {}
  BY <1>3, <1>4, <1>7
<1>11. SideInv(side)'
  BY <1>4, <1>8, <1>9, <1>10 DEF SideInv
<1>. QED  BY <1>5, <1>6, <1>7, <1>11

(* What a pull leaves as it is stays in order. *)
LEMMA PullKeepsOrder ==
    ASSUME MergeInv, phase = "merge", NEW side \in Side, UNCHANGED <<input, itemCount>>,
           \A s \in Side : Pending(s)' = Pending(s), SideInv(side)',
           \A s \in Side \ {side} : unread'[s] = unread[s] /\ building'[s] = building[s]
                                    /\ group'[s] = group[s] /\ status'[s] = status[s]
    PROVE  EmittedComesFirst' /\ \A s \in Side : SideInv(s)'
<1>1. EmittedComesFirst'
  <2>1. \A s \in Side : Done(s)' = Done(s)
    BY PendingFrames DEF Done
  <2>2. \A s, i : Token(s, i)' = Token(s, i)
    BY PendingFrames
  <2>3. EmittedComesFirst
    BY DEF MergeInv
  <2>. QED  BY <2>1, <2>2, <2>3 DEF EmittedComesFirst
<1>2. ASSUME NEW s \in Side \ {side} PROVE SideInv(s)'
  <2>1. SideInv(s)
    BY DEF MergeInv
  <2>2. ComesFirst(s, group[s], unread[s], building[s])'
           <=> ComesFirst(s, group[s], unread[s], building[s])
    BY PendingFrames
  <2>. QED  BY <2>1, <2>2 DEF SideInv
<1>. QED  BY <1>1, <1>2

(* One round of the loop takes the groups of the sides S, of token t: each *)
(* of the others has ended or has a later group.                           *)
Takes(S, t) ==
    /\ S \in SUBSET Side /\ S # {}
    /\ \A side \in S : status[side] = "group" /\ TokenOf(side) = t
    /\ \A side \in Side \ S : status[side] = "end" \/ (status[side] = "group" /\ t < TokenOf(side))

AfterTaking(S) ==
    /\ UNCHANGED <<input, itemCount, unread, building, group>>
    /\ status' = [side \in Side |-> IF side \in S THEN "pull" ELSE status[side]]

(* The items of a token of a group are the group; one of them heads it.    *)
LEMMA GroupsHaveTokens ==
    ASSUME GroupInv, MergeInv, phase = "merge", NEW side \in Side, status[side] = "group"
    PROVE  /\ \A i \in ToSet(group[side]) : i \in Records(side) /\ Token(side, i) = TokenOf(side)
           /\ ToSet(group[side]) = {i \in Records(side) : Token(side, i) = TokenOf(side)}
           /\ group[side][1] \in ToSet(group[side])
           /\ Token(side, group[side][1]) = TokenOf(side)
           /\ ToSet(group[side]) \subseteq Pending(side)
           /\ TokenOf(side) \in Int
           /\ \A i \in Records(side) : Token(side, i) \in Int
<1>1. Whole(side, group[side]) /\ input[side] \in Seq(Int)
  BY DEF GroupInv, Writing, Merging, GroupIsWhole
<1>2. ToSet(group[side]) = {i \in Records(side) : Token(side, i) = TokenOf(side)}
  BY <1>1 DEF Whole, Token, TokenOf
<1>3. group[side] \in Seq(Nat) /\ group[side] # <<>>
  BY <1>1 DEF Whole, MergeInv, SideInv, ComesFirst
<1>4. group[side][1] \in ToSet(group[side])
  BY <1>3, EmptySeq, LenProperties DEF ToSet
<1>5. \A i \in Records(side) : Token(side, i) \in Int
  BY <1>1, ElementOfSeq, LenProperties DEF Records, Token
<1>. QED  BY <1>2, <1>4, <1>5 DEF Pending, Token, TokenOf

(* What is not taken comes later. *)
LEMMA OthersComeLater ==
    ASSUME GroupInv, MergeInv, phase = "merge", NEW S, NEW t, Takes(S, t), NEW side \in Side
    PROVE  /\ side \in S => \A j \in Left(side, unread[side]) \cup ToSet(building[side]) :
                               t < Token(side, j)
           /\ side \notin S => \A j \in Pending(side) : t < Token(side, j)
<1>1. SideInv(side)
  BY DEF MergeInv
<1>2. ASSUME status[side] = "group"
      PROVE  \A j \in Left(side, unread[side]) \cup ToSet(building[side]) :
                TokenOf(side) < Token(side, j)
  <2>1. ComesFirst(side, group[side], unread[side], building[side])
    BY <1>1, <1>2 DEF SideInv
  <2>2. group[side][1] \in ToSet(group[side]) /\ Token(side, group[side][1]) = TokenOf(side)
    BY <1>2, GroupsHaveTokens
  <2>. QED  BY <2>1, <2>2 DEF ComesFirst
<1>3. CASE side \in S
  BY <1>2, <1>3 DEF Takes
<1>4. CASE side \notin S /\ status[side] = "end"
  BY <1>1, <1>4 DEF SideInv
<1>5. CASE side \notin S /\ status[side] = "group" /\ t < TokenOf(side)
  <2>1. \A j \in ToSet(group[side]) : t < Token(side, j)
    BY <1>5, GroupsHaveTokens
  <2>2. ASSUME NEW j \in Left(side, unread[side]) \cup ToSet(building[side]) PROVE t < Token(side, j)
    <3>1. PICK s \in S : TokenOf(s) = t /\ status[s] = "group" /\ s \in Side
      BY DEF Takes
    <3>2. t \in Int /\ TokenOf(side) \in Int
      BY <1>5, <3>1, GroupsHaveTokens
    <3>3. TokenOf(side) < Token(side, j)
      BY <1>2, <1>5
    <3>4. Token(side, j) \in Int
      <4>1. j \in Pending(side)
        BY DEF Pending
      <4>2. j \in Records(side)
        <5>1. itemCount[side] <= Len(input[side]) /\ itemCount[side] \in Nat /\ Len(input[side]) \in Nat
          BY LenProperties DEF GroupInv, Writing
        <5>2. j \in 1..itemCount[side]
          BY <1>1, <4>1 DEF SideInv
        <5>. QED  BY <5>1, <5>2 DEF Records
      <4>. QED  BY <1>5, <4>2, GroupsHaveTokens
    <3>. QED  BY <1>5, <3>2, <3>3, <3>4
  <2>. QED  BY <1>5, <2>1, <2>2 DEF Pending
<1>. QED  BY <1>3, <1>4, <1>5 DEF Takes

(* The groups that are taken are no longer pending; the others are. *)
LEMMA TakenIsDone ==
    ASSUME GroupInv, MergeInv, phase = "merge", NEW S, NEW t, Takes(S, t), AfterTaking(S), NEW side \in Side
    PROVE  /\ side \in S => /\ Pending(side)' = Left(side, unread[side]) \cup ToSet(building[side])
                            /\ Pending(side)' \subseteq Pending(side)
                            /\ Done(side)' = Done(side) \cup ToSet(group[side])
           /\ side \notin S => Pending(side)' = Pending(side) /\ Done(side)' = Done(side)
<1>1. /\ UNCHANGED <<input, itemCount, unread, building, group>>
      /\ status'[side] = IF side \in S THEN "pull" ELSE status[side]
  BY DEF AfterTaking
<1>2. CASE side \in S
  <2>1. status[side] = "group" /\ status'[side] = "pull" /\ TokenOf(side) = t
    BY <1>1, <1>2 DEF Takes
  <2>2. Pending(side)' = Left(side, unread[side]) \cup ToSet(building[side])
    BY <1>1, <2>1, PendingFrames
  <2>3. Pending(side) = Left(side, unread[side]) \cup ToSet(building[side]) \cup ToSet(group[side])
    BY <2>1 DEF Pending
  <2>4. \A i \in ToSet(group[side]) : Token(side, i) = t /\ t \in Int
    BY <2>1, GroupsHaveTokens
  <2>5. \A j \in Left(side, unread[side]) \cup ToSet(building[side]) : t < Token(side, j)
    BY <1>2, OthersComeLater
  <2>6. \A i \in ToSet(group[side]) : i \notin Left(side, unread[side]) \cup ToSet(building[side])
    <3>1. t \in Int => ~(t < t)
      OBVIOUS
    <3>. QED  BY <2>4, <2>5, <3>1
  <2>7. ToSet(group[side]) \subseteq 1..itemCount[side]
    BY <2>3 DEF MergeInv, SideInv
  <2>8. Done(side)' = (1..itemCount[side]) \ Pending(side)'
    BY <1>1, PendingFrames
  <2>9. Done(side)' = Done(side) \cup ToSet(group[side])
    BY <2>2, <2>3, <2>6, <2>7, <2>8 DEF Done
  <2>. QED  BY <1>2, <2>2, <2>3, <2>9
<1>3. CASE side \notin S
  <2>1. Pending(side)' = Pending(side)
    BY <1>1, <1>3, PendingFrames DEF Pending
  <2>. QED  BY <1>1, <1>3, <2>1, PendingFrames DEF Done
<1>. QED  BY <1>2, <1>3

(* Taking them keeps the order of the merge. *)
LEMMA TakingKeepsOrder ==
    ASSUME GroupInv, MergeInv, phase = "merge", NEW S, NEW t, Takes(S, t), AfterTaking(S)
    PROVE  MergeInv'
<1>1. UNCHANGED <<input, itemCount, unread, building, group>>
  BY DEF AfterTaking
<1>2. EmittedComesFirst'
  <2> SUFFICES ASSUME NEW side \in Side, NEW other \in Side, NEW i \in Done(side)', NEW j \in Pending(other)'
               PROVE  Token(side, i) < Token(other, j)
    BY <1>1, PendingFrames DEF EmittedComesFirst
  <2>1. j \in Pending(other) /\ t < Token(other, j)
    BY TakenIsDone, OthersComeLater
  <2>2. CASE i \in Done(side)
    BY <2>1, <2>2 DEF MergeInv, EmittedComesFirst
  <2>3. CASE i \notin Done(side)
    <3>1. side \in S /\ i \in ToSet(group[side])
      BY <2>3, TakenIsDone
    <3>2. Token(side, i) = t
      BY <3>1, GroupsHaveTokens DEF Takes
    <3>. QED  BY <2>1, <3>2
  <2>. QED  BY <2>2, <2>3
<1>3. ASSUME NEW side \in Side PROVE SideInv(side)'
  <2>1. SideInv(side)
    BY DEF MergeInv
  <2>2. /\ status'[side] = IF side \in S THEN "pull" ELSE status[side]
        /\ ComesFirst(side, group[side], unread[side], building[side])'
             <=> ComesFirst(side, group[side], unread[side], building[side])
    BY <1>1, PendingFrames DEF AfterTaking
  <2>3. Pending(side)' \subseteq Pending(side) /\ (side \notin S => Pending(side)' = Pending(side))
    BY TakenIsDone
  <2>. QED  BY <1>1, <2>1, <2>2, <2>3 DEF SideInv
<1>. QED  BY <1>2, <1>3 DEF MergeInv

(* EmitOnly takes one group, EmitCommon one of each side; and in a search  *)
(* for duplicates nothing is ever delivered of the second side.            *)
LEMMA EmissionTakes ==
    ASSUME GroupInv, MergeInv, ChunksHoldInputs
    PROVE  /\ \A side \in Side : EmitOnly(side) => Takes({side}, TokenOf(side)) /\ AfterTaking({side})
           /\ EmitCommon => Takes(Side, TokenOf("first")) /\ AfterTaking(Side)
           /\ EmitRepeats => Takes({"first"}, TokenOf("first")) /\ AfterTaking({"first"})
<1>1. status = [side \in Side |-> status[side]]
  BY DEF GroupInv, Merging
<1>2. phase = "merge" => \A side \in Side : status[side] \in {"pull", "group", "end"}
  BY DEF MergeInv, SideInv
<1>3. ASSUME NEW side \in Side, EmitOnly(side)
      PROVE  Takes({side}, TokenOf(side)) /\ AfterTaking({side})
  <2>1. /\ phase = "merge" /\ \A s \in Side : status[s] # "pull"
        /\ status[side] = "group"
        /\ status[Other(side)] = "group" => TokenOf(side) < TokenOf(Other(side))
        /\ status' = [status EXCEPT ![side] = "pull"]
        /\ UNCHANGED <<input, itemCount, unread, building, group>>
    BY <1>3 DEF EmitOnly, BothReady, Ahead, Emit, call, writes
  <2>2. \A s \in Side \ {side} : s = Other(side)
    BY DEF Side, Other
  <2>3. Takes({side}, TokenOf(side))
    BY <1>2, <2>1, <2>2 DEF Takes
  <2>. QED  BY <1>1, <2>1, <2>3 DEF AfterTaking
<1>4. ASSUME EmitCommon PROVE Takes(Side, TokenOf("first")) /\ AfterTaking(Side)
  BY <1>4 DEF EmitCommon, BothReady, Emit, call, writes, Takes, AfterTaking, Side
<1>5. ASSUME EmitRepeats PROVE Takes({"first"}, TokenOf("first")) /\ AfterTaking({"first"})
  <2>1. /\ phase = "merge" /\ \A s \in Side : status[s] # "pull"
        /\ config.operation = "duplicates" /\ status["first"] = "group"
        /\ status' = [status EXCEPT !["first"] = "pull"]
        /\ UNCHANGED <<input, itemCount, unread, building, group>>
    BY <1>5 DEF EmitRepeats, BothReady, Emit, call, writes
  <2>2. "first" \in Side /\ "second" \in Side /\ \A s \in Side \ {"first"} : s = "second"
    BY DEF Side
  <2>3. status["second"] = "end"
    <3>1. ASSUME status["second"] = "group" PROVE FALSE
      <4>1. itemCount["second"] = 0 /\ 1..0 = {}
        BY <2>1, <2>2 DEF ChunksHoldInputs, Comparing
      <4>2. Pending("second") \subseteq 1..itemCount["second"]
        BY <2>1, <2>2 DEF MergeInv, SideInv
      <4>3. group["second"][1] \in Pending("second")
        BY <2>1, <2>2, <3>1, GroupsHaveTokens
      <4>. QED  BY <4>1, <4>2, <4>3
    <3>. QED  BY <1>2, <2>1, <2>2, <3>1
  <2>4. Takes({"first"}, TokenOf("first"))
    BY <2>1, <2>2, <2>3 DEF Takes
  <2>. QED  BY <1>1, <2>1, <2>4 DEF AfterTaking
<1>. QED  BY <1>3, <1>4, <1>5

(* Every step keeps the order of the merge. *)
LEMMA MergeInvKept ==
    ASSUME GroupInv, MergeInv, ChunksHoldInputs, [Next]_vars PROVE MergeInv'
<1>1. CASE StartMerge
  BY <1>1, MergeInvStarts
<1>2. ASSUME NEW side \in Side, NEW c \in Heads(side), PullRecord(side, c) PROVE MergeInv'
  <2>1. /\ phase = "merge"
        /\ UNCHANGED <<input, itemCount>>
        /\ \A s \in Side \ {side} : unread'[s] = unread[s] /\ building'[s] = building[s]
                                    /\ group'[s] = group[s] /\ status'[s] = status[s]
    BY <1>2 DEF PullRecord, Pulls, call, writes, GroupInv, Merging
  <2>2. (\A s \in Side : Pending(s)' = Pending(s)) /\ SideInv(side)'
    BY <1>2, PullRecordKeepsPending
  <2>. QED  BY <2>1, <2>2, PullKeepsOrder DEF MergeInv
<1>3. ASSUME NEW side \in Side, PullLast(side) PROVE MergeInv'
  <2>1. /\ phase = "merge"
        /\ UNCHANGED <<input, itemCount>>
        /\ \A s \in Side \ {side} : unread'[s] = unread[s] /\ building'[s] = building[s]
                                    /\ group'[s] = group[s] /\ status'[s] = status[s]
    BY <1>3 DEF PullLast, Pulls, call, writes, GroupInv, Merging
  <2>2. (\A s \in Side : Pending(s)' = Pending(s)) /\ SideInv(side)'
    BY <1>3, PullLastKeepsPending
  <2>. QED  BY <2>1, <2>2, PullKeepsOrder DEF MergeInv
<1>4. CASE (\E side \in Side : EmitOnly(side)) \/ EmitCommon \/ EmitRepeats
  <2>1. phase = "merge" /\ \E S, t : Takes(S, t) /\ AfterTaking(S)
    BY <1>4, EmissionTakes DEF EmitOnly, EmitCommon, EmitRepeats, BothReady
  <2>. QED  BY <2>1, TakingKeepsOrder
<1>5. CASE UNCHANGED vars
  <2>1. UNCHANGED <<phase, input, itemCount, unread, building, group, status>>
    BY <1>5 DEF vars, call, writes, merge
  <2>2. /\ \A s : Pending(s)' = Pending(s)
        /\ \A s : Done(s)' = Done(s)
        /\ \A s, i : Token(s, i)' = Token(s, i)
        /\ \A s : ComesFirst(s, group[s], unread[s], building[s])'
             <=> ComesFirst(s, group[s], unread[s], building[s])
    BY <2>1, PendingFrames DEF Pending, Done
  <2>3. EmittedComesFirst' <=> EmittedComesFirst
    BY <2>2 DEF EmittedComesFirst
  <2>4. \A s \in Side : SideInv(s)' <=> SideInv(s)
    BY <2>1, <2>2 DEF SideInv
  <2>. QED  BY <2>1, <2>3, <2>4 DEF MergeInv
<1>6. CASE \/ \E side \in Side : Write(side) \/ WriteChunkFails(side) \/ SourceRaises(side) \/ Interrupted(side)
           \/ FinishMerge \/ CloseWriter \/ ExitWriter \/ Unlink \/ Leave
           \/ OpenFails \/ MergeRaises \/ ExitWriterFails \/ UnlinkFails
  <2>1. phase' # "merge"
    BY <1>6 DEF Write, ReadItem, WriteChunk, WriteChunkOverLimit, FinishWriting, WriteChunkFails,
       SourceRaises, Interrupted, BatchIsDue, WritePhase, Fail, FinishMerge, CloseWriter, ExitWriter,
       Unlink, Leave, OpenFails, MergeRaises, ExitWriterFails, UnlinkFails
  <2>. QED  BY <2>1 DEF MergeInv
<1>. QED  BY <1>1, <1>2, <1>3, <1>4, <1>5, <1>6 DEF Next, Progress, Merge, Failure

-----------------------------------------------------------------------------
(* The tokens that were read, and those whose rows have been emitted. *)
AllTokens == [side \in Side |-> {Token(side, i) : i \in 1..itemCount[side]}]
Emitted   == [side \in Side |-> {Token(side, i) : i \in Done(side)}]

(* Before the merge nothing is emitted, and after it everything. *)
LEMMA MergeBeginsAndEnds ==
    ASSUME GroupInv, MergeInv, ChunksHoldInputs
    PROVE  /\ StartMerge => Emitted' = [side \in Side |-> {}]
           /\ FinishMerge => Emitted = AllTokens
<1>1. ASSUME StartMerge PROVE Emitted' = [side \in Side |-> {}]
  <2>1. /\ phase = "open" /\ unread' = chunks
        /\ UNCHANGED <<input, itemCount>>
    BY <1>1 DEF StartMerge, call, writes
  <2>2. ASSUME NEW side \in Side PROVE Done(side)' = {}
    <3>1. Left(side, unread'[side]) = 1..itemCount[side]
      BY <2>1 DEF ChunksHoldInputs, Written
    <3>. QED  BY <2>1, <3>1, PendingFrames
  <2>. QED  BY <2>2 DEF Emitted
<1>2. ASSUME FinishMerge PROVE Emitted = AllTokens
  <2>1. phase = "merge" /\ \A side \in Side : status[side] = "end"
    BY <1>2 DEF FinishMerge, BothReady
  <2>2. \A side \in Side : Done(side) = 1..itemCount[side]
    BY <2>1 DEF MergeInv, SideInv, Done
  <2>. QED  BY <2>2 DEF Emitted, AllTokens
<1>. QED  BY <1>1, <1>2

(* The token that is taken is emitted of the sides it is taken from.       *)
LEMMA TokenIsEmitted ==
    ASSUME GroupInv, MergeInv, phase = "merge", NEW S, NEW t, Takes(S, t), AfterTaking(S), NEW side \in Side
    PROVE  /\ side \in S => t \notin Emitted[side] /\ Emitted'[side] = Emitted[side] \cup {t}
           /\ side \notin S => Emitted'[side] = Emitted[side]
<1>1. \A i : Token(side, i)' = Token(side, i)
  BY PendingFrames DEF AfterTaking
<1>2. Emitted'[side] = {Token(side, i) : i \in Done(side)'}
  BY <1>1 DEF Emitted
<1>3. Emitted[side] = {Token(side, i) : i \in Done(side)}
  BY DEF Emitted
<1>4. ASSUME side \in S PROVE t \notin Emitted[side] /\ Emitted'[side] = Emitted[side] \cup {t}
  <2>1. status[side] = "group" /\ TokenOf(side) = t
    BY <1>4 DEF Takes
  <2>2. /\ \A i \in ToSet(group[side]) : Token(side, i) = t
        /\ group[side][1] \in ToSet(group[side]) /\ group[side][1] \in Pending(side)
        /\ t \in Int
    BY <2>1, GroupsHaveTokens
  <2>3. Done(side)' = Done(side) \cup ToSet(group[side])
    BY <1>4, TakenIsDone
  <2>4. \A i \in Done(side) : Token(side, i) < t
    BY <2>2 DEF MergeInv, EmittedComesFirst
  <2>5. ~(t < t)
    BY <2>2
  <2>. QED  BY <1>2, <1>3, <2>2, <2>3, <2>4, <2>5
<1>5. ASSUME side \notin S PROVE Emitted'[side] = Emitted[side]
  BY <1>2, <1>3, <1>5, TakenIsDone
<1>. QED  BY <1>4, <1>5

(* In a comparison the sides it is taken from are those that have it.      *)
LEMMA TakenOccurs ==
    ASSUME GroupInv, MergeInv, ChunksHoldInputs, phase = "merge", config.operation = "compare",
           NEW S, NEW t, Takes(S, t), NEW side \in Side
    PROVE  Occurs(t, input[side]) <=> side \in S
<1>1. itemCount[side] = Len(input[side])
  BY DEF ChunksHoldInputs, Comparing
<1>2. PICK s \in S : s \in Side /\ status[s] = "group" /\ TokenOf(s) = t
  BY DEF Takes
<1>3. group[s][1] \in Pending(s) /\ Token(s, group[s][1]) = t /\ t \in Int
  BY <1>2, GroupsHaveTokens
<1>4. CASE side \in S
  <2>1. status[side] = "group" /\ TokenOf(side) = t
    BY <1>4 DEF Takes
  <2>2. group[side][1] \in Records(side) /\ Token(side, group[side][1]) = t
    BY <2>1, GroupsHaveTokens
  <2>. QED  BY <1>4, <2>2 DEF Occurs, Records, Token
<1>5. CASE side \notin S
  <2>1. \A i \in Done(side) : Token(side, i) < t
    BY <1>2, <1>3 DEF MergeInv, EmittedComesFirst
  <2>2. \A i \in Pending(side) : t < Token(side, i)
    BY <1>5, OthersComeLater
  <2>3. \A i \in 1..Len(input[side]) : i \in Done(side) \/ i \in Pending(side)
    BY <1>1 DEF Done
  <2>4. ~(t < t)
    BY <1>3
  <2>. QED  BY <1>5, <2>1, <2>2, <2>3, <2>4 DEF Occurs, Token
<1>. QED  BY <1>4, <1>5

(* The group that is taken has all the items of its token. *)
LEMMA GroupIsToken ==
    ASSUME GroupInv, MergeInv, phase = "merge", NEW S, NEW t, Takes(S, t), NEW side \in S
    PROVE  /\ side \in Side /\ input[side] \in Seq(Int)
           /\ Listing!ToSet(group[side]) = Listing!ItemsOf(input[side], t)
           /\ Listing!ItemsOf(input[side], t) # {}
<1>1. side \in Side /\ status[side] = "group" /\ TokenOf(side) = t
  BY DEF Takes
<1>2. /\ ToSet(group[side]) = {i \in Records(side) : Token(side, i) = t}
      /\ group[side][1] \in ToSet(group[side])
  BY <1>1, GroupsHaveTokens
<1>3. ToSet(group[side]) = Listing!ItemsOf(input[side], t)
  BY <1>2 DEF Listing!ItemsOf, Records, Token
<1>. QED  BY <1>1, <1>2, <1>3, SameRows DEF GroupInv, Writing

-----------------------------------------------------------------------------
(* The rows that are emitted for a token of a comparison are those its     *)
(* result needs.                                                           *)
LEMMA RowsOfGroup ==
    ASSUME GroupInv, MergeInv, ChunksHoldInputs, phase = "merge", config.operation = "compare",
           NEW S, NEW t, Takes(S, t), NEW side \in S
    PROVE  /\ FirstOf(group[side]) \in Listing!SectionSet(input, config, "only", side) <=> Other(side) \notin S
           /\ Listing!FirstRow(input, config, side, group[side]) =
                IF Other(side) \notin S THEN <<Row("only", side, FirstOf(group[side]))>>
                ELSE IF side = "first" /\ config.include_common
                  THEN <<Row("common", side, FirstOf(group[side]))>>
                ELSE <<>>
           /\ DuplicateRows(side) = Listing!RepeatRows(config, side, group[side])
<1>1. /\ side \in Side /\ Other(side) \in Side /\ input[side] \in Seq(Int)
      /\ Listing!ToSet(group[side]) = Listing!ItemsOf(input[side], t)
      /\ Listing!ItemsOf(input[side], t) # {}
  <2>1. side \in Side /\ Other(side) \in Side
    BY DEF Takes, Side, Other
  <2>. QED  BY <2>1, GroupIsToken
<1>2. FirstOf(group[side]) \in FirstOrdinals(input[side]) /\ input[side][FirstOf(group[side])] = t
  <2>1. PICK s, rows : s = input[side] /\ rows = group[side]
    OBVIOUS
  <2>2. /\ s \in Seq(Int) /\ Listing!ToSet(rows) = Listing!ItemsOf(s, t)
        /\ Listing!ItemsOf(s, t) # {}
    BY <1>1, <2>1
  <2>3. Listing!FirstOf(rows) \in Listing!FirstOrdinals(s) /\ s[Listing!FirstOf(rows)] = t
    BY <2>2, Listing!RowsOfToken
  <2>. QED  BY <2>1, <2>3, SameRows, SameMeaning
<1>3. Occurs(t, input[Other(side)]) <=> Other(side) \in S
  BY <1>1, TakenOccurs
<1>4. /\ Other(side) \notin S <=> FirstOf(group[side]) \in OnlyOrdinals(input[side], input[Other(side)])
      /\ Other(side) \in S <=> FirstOf(group[side]) \in CommonOrdinals(input[side], input[Other(side)])
  BY <1>2, <1>3 DEF OnlyOrdinals, CommonOrdinals
<1>5. /\ Listing!SectionSet(input, config, "only", side) = OnlyOrdinals(input[side], input[Other(side)])
      /\ Listing!SectionSet(input, config, "common", side) =
            IF side = "first" /\ config.include_common
              THEN CommonOrdinals(input[side], input[Other(side)]) ELSE {}
  BY SameMeaning DEF Listing!SectionSet
<1>6. Listing!FirstRow(input, config, side, group[side]) =
         IF FirstOf(group[side]) \in Listing!SectionSet(input, config, "only", side)
           THEN <<Row("only", side, FirstOf(group[side]))>>
         ELSE IF FirstOf(group[side]) \in Listing!SectionSet(input, config, "common", side)
           THEN <<Row("common", side, FirstOf(group[side]))>>
         ELSE <<>>
  BY SameRows DEF Listing!FirstRow
<1>7. DuplicateRows(side) = Listing!RepeatRows(config, side, group[side])
  <2>1. Rows("duplicates", side, RepeatsOf(group[side]))
          = Listing!Rows("duplicates", side, Listing!RepeatsOf(group[side]))
    BY SameRows
  <2>2. Listing!WantsRepeats(config, side) = config.include_duplicates
    BY DEF Listing!WantsRepeats
  <2>. QED  BY <2>1, <2>2 DEF DuplicateRows, Listing!RepeatRows
<1>. QED  BY <1>4, <1>5, <1>6, <1>7

(* The rows of one more token of one side. *)
LEMMA TokenJoins ==
    ASSUME GroupInv, MergeInv, phase = "merge", NEW S, NEW t, Takes(S, t), NEW side \in S,
           NEW rows, NEW E, Listing!HoldsTokens(input, config, rows, E), NEW F, Listing!IsOneMore(F, E, side, t)
    PROVE  /\ Listing!HoldsTokens(input, config,
                 rows \o (Listing!FirstRow(input, config, side, group[side])
                            \o Listing!RepeatRows(config, side, group[side])), F)
           /\ Listing!FirstRow(input, config, side, group[side]) \in Seq(Listing!ResultRow)
           /\ Listing!RepeatRows(config, side, group[side]) \in Seq(Listing!ResultRow)
           /\ rows \in Seq(Listing!ResultRow)
<1>1. PICK in, c, g, blobs : in = input /\ c = config /\ g = group[side] /\ blobs = Int
  OBVIOUS
<1>2. /\ side \in Listing!Side /\ in[side] \in Seq(blobs)
      /\ Listing!ToSet(g) = Listing!ItemsOf(in[side], t)
      /\ Listing!ItemsOf(in[side], t) # {}
  BY <1>1, GroupIsToken, SameMeaning
<1>3. /\ Listing!HoldsTokens(in, c, rows, E) /\ t \notin E[side]
      /\ F[side] = E[side] \cup {t} /\ \A s \in Listing!Side \ {side} : F[s] = E[s]
  BY <1>1 DEF Listing!IsOneMore
<1>4. /\ Listing!HoldsTokens(in, c,
           rows \o (Listing!FirstRow(in, c, side, g) \o Listing!RepeatRows(c, side, g)), F)
      /\ Listing!FirstRow(in, c, side, g) \in Seq(Listing!ResultRow)
      /\ Listing!RepeatRows(c, side, g) \in Seq(Listing!ResultRow)
  <2>1. Listing!HoldsTokens(in, c,
           rows \o (Listing!FirstRow(in, c, side, g) \o Listing!RepeatRows(c, side, g)), F)
    BY <1>2, <1>3, Listing!TokenIsHeld
  <2>2. Listing!FirstRow(in, c, side, g) \in Seq(Listing!ResultRow)
    BY <1>2, <1>3, Listing!TokenIsHeld
  <2>3. Listing!RepeatRows(c, side, g) \in Seq(Listing!ResultRow)
    <3>1. PICK ordinals \in Seq(Nat) :
             /\ Listing!RepeatRows(c, side, g) = Listing!Rows("duplicates", side, ordinals)
             /\ Listing!Lists(ordinals, Listing!Carrying(
                   Listing!SectionSet(in, c, "duplicates", side), in[side], {t}), FALSE)
      BY <1>2, Listing!RepeatRowsAreListed
    <3>. QED  BY <1>2, <3>1, Listing!RowsAreRows
  <2>. QED  BY <2>1, <2>2, <2>3
<1>5. rows \in Seq(Listing!ResultRow)
  BY <1>3 DEF Listing!HoldsTokens
<1>. QED  BY <1>1, <1>4, <1>5

(* The rows of EmitOnly. *)
LEMMA OnlyIsHeld ==
    ASSUME GroupInv, MergeInv, ChunksHoldInputs, NEW side \in Side, EmitOnly(side),
           NEW rows, Listing!HoldsTokens(input, config, rows, Emitted)
    PROVE  Listing!HoldsTokens(input, config,
              rows \o (<<Row("only", side, FirstOf(group[side]))>> \o DuplicateRows(side)), Emitted')
<1>1. phase = "merge" /\ config.operation = "compare"
  BY DEF EmitOnly, BothReady
<1>2. PICK t : Takes({side}, t) /\ AfterTaking({side})
  BY EmissionTakes
<1>3. side \in {side} /\ Other(side) \notin {side}
  BY DEF Side, Other
<1>4. Listing!IsOneMore(Emitted', Emitted, side, t)
  BY <1>1, <1>2, TokenIsEmitted, SameMeaning DEF Listing!IsOneMore
<1>5. PICK E, F : E = Emitted /\ F = Emitted'
  OBVIOUS
<1>6. Listing!HoldsTokens(input, config,
         rows \o (Listing!FirstRow(input, config, side, group[side])
                    \o Listing!RepeatRows(config, side, group[side])), F)
  <2>1. Listing!HoldsTokens(input, config, rows, E) /\ Listing!IsOneMore(F, E, side, t)
    BY <1>4, <1>5
  <2>. QED  BY <1>1, <1>2, <1>3, <2>1, TokenJoins
<1>7. /\ Listing!FirstRow(input, config, side, group[side]) = <<Row("only", side, FirstOf(group[side]))>>
      /\ Listing!RepeatRows(config, side, group[side]) = DuplicateRows(side)
  BY <1>1, <1>2, <1>3, RowsOfGroup
<1>. QED  BY <1>5, <1>6, <1>7

(* Two sides that have a token are those of a comparison. *)
LEMMA CommonIsCompared ==
    ASSUME GroupInv, MergeInv, ChunksHoldInputs, EmitCommon PROVE config.operation = "compare"
<1>1. /\ phase = "merge" /\ "second" \in Side /\ status["second"] = "group"
  BY DEF EmitCommon, BothReady, Side
<1>2. group["second"][1] \in Pending("second")
  BY <1>1, GroupsHaveTokens
<1>3. Pending("second") \subseteq 1..itemCount["second"]
  BY <1>1 DEF MergeInv, SideInv
<1>4. itemCount["second"] # 0
  BY <1>2, <1>3
<1>. QED  BY <1>1, <1>4 DEF ChunksHoldInputs, Comparing

(* The rows of EmitCommon, of both sides. *)
LEMMA CommonIsHeld ==
    ASSUME GroupInv, MergeInv, ChunksHoldInputs, EmitCommon,
           NEW rows, Listing!HoldsTokens(input, config, rows, Emitted)
    PROVE  Listing!HoldsTokens(input, config,
              rows \o ((IF config.include_common THEN <<Row("common", "first", FirstOf(group["first"]))>>
                                                 ELSE <<>>)
                         \o DuplicateRows("first") \o DuplicateRows("second")), Emitted')
<1>1. phase = "merge" /\ config.operation = "compare"
  BY CommonIsCompared DEF EmitCommon, BothReady
<1>2. PICK t : Takes(Side, t) /\ AfterTaking(Side)
  BY EmissionTakes
<1>3. /\ "first" \in Side /\ "second" \in Side /\ Other("first") = "second" /\ Other("second") = "first"
      /\ \A s \in Side : s = "first" \/ s = "second"
  BY DEF Side, Other
<1>4. PICK E, F : E = Emitted /\ F = Emitted'
  OBVIOUS
<1> DEFINE G == [E EXCEPT !["first"] = @ \cup {t}]
<1>5. Listing!IsOneMore(G, E, "first", t) /\ Listing!IsOneMore(F, G, "second", t)
  <2>1. E = [s \in Side |-> E[s]]
    BY <1>4 DEF Emitted
  <2>2. G["first"] = E["first"] \cup {t} /\ G["second"] = E["second"]
    BY <1>3, <2>1
  <2>3. \A s \in Side : t \notin E[s] /\ F[s] = E[s] \cup {t}
    BY <1>1, <1>2, <1>4, TokenIsEmitted
  <2> HIDE DEF G
  <2>. QED  BY <1>3, <2>2, <2>3, SameMeaning DEF Listing!IsOneMore
<1>6. PICK first, repeats, others :
         /\ first = Listing!FirstRow(input, config, "first", group["first"])
         /\ repeats = Listing!RepeatRows(config, "first", group["first"])
         /\ others = Listing!RepeatRows(config, "second", group["second"])
  OBVIOUS
<1> HIDE DEF G
<1>7. /\ Listing!HoldsTokens(input, config, rows \o (first \o repeats), G)
      /\ first \in Seq(Listing!ResultRow) /\ repeats \in Seq(Listing!ResultRow)
      /\ rows \in Seq(Listing!ResultRow)
  <2>1. Listing!HoldsTokens(input, config, rows, E)
    BY <1>4
  <2>. QED  BY <1>1, <1>2, <1>3, <1>5, <1>6, <2>1, TokenJoins
<1>8. Listing!FirstRow(input, config, "second", group["second"]) = <<>>
  BY <1>1, <1>2, <1>3, RowsOfGroup
<1>9. /\ Listing!HoldsTokens(input, config, (rows \o (first \o repeats)) \o (<<>> \o others), F)
      /\ others \in Seq(Listing!ResultRow)
  BY <1>1, <1>2, <1>3, <1>5, <1>6, <1>7, <1>8, TokenJoins
<1>10. (rows \o (first \o repeats)) \o (<<>> \o others) = rows \o ((first \o repeats) \o others)
  <2>1. <<>> \o others = others
    BY <1>9, ConcatEmptySeq
  <2>2. PICK both : both = first \o repeats /\ both \in Seq(Listing!ResultRow)
    BY <1>7, ConcatProperties
  <2>3. (rows \o both) \o others = rows \o (both \o others)
    BY <1>7, <1>9, <2>2, ConcatAssociative
  <2>. QED  BY <2>1, <2>2, <2>3
<1>11. /\ first = IF config.include_common THEN <<Row("common", "first", FirstOf(group["first"]))>> ELSE <<>>
       /\ repeats = DuplicateRows("first") /\ others = DuplicateRows("second")
  BY <1>1, <1>2, <1>3, <1>6, RowsOfGroup
<1>. QED  BY <1>4, <1>9, <1>10, <1>11

-----------------------------------------------------------------------------
(* rows[1:] of a group in order are the items of its token but the first.  *)
LEMMA TailIsRepeats ==
    ASSUME NEW s \in Seq(Int), NEW t, NEW rows \in Seq(Nat), Ascending(rows), rows # <<>>,
           ToSet(rows) = Listing!ItemsOf(s, t)
    PROVE  /\ Tail(rows) \in Seq(Nat)
           /\ Listing!Lists(Tail(rows), {i \in RepeatOrdinals(s) : s[i] = t}, FALSE)
<1> DEFINE n == Len(rows)
           tail == Tail(rows)
           R == {i \in RepeatOrdinals(s) : s[i] = t}
<1>1. /\ n \in Nat /\ n > 0 /\ \A k \in 1..n : rows[k] \in Nat
      /\ \A k, l \in 1..n : k < l => rows[k] < rows[l]
      /\ ToSet(rows) = {rows[k] : k \in 1..n}
  BY EmptySeq, LenProperties, ElementOfSeq DEF Ascending, ToSet
<1>2. tail \in Seq(Nat) /\ Len(tail) = n - 1 /\ \A k \in 1..(n - 1) : tail[k] = rows[k + 1]
  BY HeadTailProperties
<1> HIDE DEF n, tail
<1>3. \A i \in ToSet(rows) : rows[1] <= i
  <2> SUFFICES ASSUME NEW k \in 1..n PROVE rows[1] <= rows[k]
    BY <1>1
  <2>1. k = 1 \/ 1 < k
    BY <1>1
  <2>2. 1 \in 1..n /\ rows[1] \in Nat /\ rows[k] \in Nat
    BY <1>1
  <2>. QED  BY <1>1, <2>1, <2>2
<1>4. rows[1] \in ToSet(rows) /\ ToSet(rows) \subseteq 1..Len(s) /\ Len(s) \in Nat
  BY <1>1, LenProperties DEF Listing!ItemsOf
<1>5. R = ToSet(rows) \ {rows[1]}
  <2>1. \A i \in ToSet(rows) : s[i] = t /\ i \in 1..Len(s)
    BY DEF Listing!ItemsOf
  <2>2. ASSUME NEW i \in ToSet(rows), i # rows[1] PROVE i \in R
    <3>1. rows[1] \in 1..(i - 1) /\ s[rows[1]] = s[i]
      BY <1>3, <1>4, <2>1, <2>2
    <3>. QED  BY <2>1, <3>1 DEF RepeatOrdinals, IsFirst
  <2>3. ASSUME NEW i \in R PROVE i \in ToSet(rows) /\ i # rows[1]
    <3>1. i \in 1..Len(s) /\ s[i] = t /\ ~IsFirst(s, i)
      BY DEF RepeatOrdinals
    <3>2. PICK j \in 1..(i - 1) : s[j] = s[i]
      BY <3>1 DEF IsFirst
    <3>3. j \in 1..Len(s)
      BY <1>4, <3>1, <3>2
    <3>4. i \in ToSet(rows) /\ j \in ToSet(rows)
      BY <3>1, <3>2, <3>3 DEF Listing!ItemsOf
    <3>5. rows[1] <= j /\ j < i
      BY <1>3, <1>4, <3>1, <3>2, <3>4
    <3>. QED  BY <1>4, <3>1, <3>3, <3>4, <3>5
  <2>. QED  BY <2>2, <2>3
<1> HIDE DEF R
<1>6. tail \in [1..(n - 1) -> R]
  <2>1. ASSUME NEW k \in 1..(n - 1) PROVE tail[k] \in R
    <3>1. k + 1 \in 1..n /\ 1 \in 1..n /\ 1 < k + 1
      BY <1>1
    <3>2. rows[1] < rows[k + 1] /\ rows[k + 1] \in ToSet(rows) /\ rows[1] \in Nat
      BY <1>1, <3>1
    <3>. QED  BY <1>2, <1>5, <3>2
  <2>2. DOMAIN tail = 1..(n - 1) /\ tail = [k \in 1..(n - 1) |-> tail[k]]
    BY <1>2, LenProperties
  <2>. QED  BY <2>1, <2>2
<1>7. \A k, l \in 1..(n - 1) : tail[k] = tail[l] => k = l
  <2> SUFFICES ASSUME NEW k \in 1..(n - 1), NEW l \in 1..(n - 1), tail[k] = tail[l], k # l
               PROVE  FALSE
    OBVIOUS
  <2>1. k + 1 \in 1..n /\ l + 1 \in 1..n /\ (k + 1 < l + 1 \/ l + 1 < k + 1)
    BY <1>1
  <2>2. rows[k + 1] = rows[l + 1] /\ rows[k + 1] \in Nat
    BY <1>1, <1>2, <2>1
  <2>3. rows[k + 1] < rows[l + 1] \/ rows[l + 1] < rows[k + 1]
    BY <1>1, <2>1
  <2>. QED  BY <2>2, <2>3
<1>8. \A i \in R : \E k \in 1..(n - 1) : tail[k] = i
  <2> SUFFICES ASSUME NEW i \in R PROVE \E k \in 1..(n - 1) : tail[k] = i
    OBVIOUS
  <2>1. i \in {rows[k] : k \in 1..n} /\ i # rows[1]
    BY <1>1, <1>5
  <2>2. PICK k \in 1..n : rows[k] = i
    BY <2>1
  <2>3. k # 1
    BY <2>1, <2>2
  <2>4. k - 1 \in 1..(n - 1) /\ (k - 1) + 1 = k
    BY <1>1, <2>3
  <2>. QED  BY <1>2, <2>2, <2>4
<1>9. tail \in Bijection(1..Len(tail), R)
  BY <1>2, <1>6, <1>7, <1>8 DEF Bijection, Injection, Surjection, IsInjective
<1>10. Lists(tail, R, FALSE)
  BY <1>9 DEF Lists, Enumerates
<1>. QED  BY <1>2, <1>10, SameMeaning DEF tail, R

(* The sections of a search for duplicates: one, of one side. *)
LEMMA DuplicatesSections ==
    ASSUME config.operation = "duplicates"
    PROVE  /\ \A name \in {"only", "common", "duplicates"}, side \in Side :
                ~(name = "duplicates" /\ side = "first")
                  => Listing!SectionSet(input, config, name, side) = {}
           /\ Listing!SectionSet(input, config, "duplicates", "first")
                = RepeatOrdinals(input["first"])
  BY SameMeaning DEF Listing!SectionSet, Listing!WantsRepeats, Side

(* The rows of EmitRepeats. *)
LEMMA RepeatsAreHeld ==
    ASSUME GroupInv, MergeInv, ChunksHoldInputs, EmitRepeats,
           NEW rows, Listing!HoldsTokens(input, config, rows, Emitted)
    PROVE  Listing!HoldsTokens(input, config,
              rows \o Rows("duplicates", "first", Tail(group["first"])), Emitted')
<1>1. phase = "merge" /\ config.operation = "duplicates" /\ status["first"] = "group" /\ "first" \in Side
  BY DEF EmitRepeats, BothReady, Side
<1>2. PICK t : Takes({"first"}, t) /\ AfterTaking({"first"})
  BY EmissionTakes
<1>3. /\ t \notin Emitted["first"] /\ Emitted'["first"] = Emitted["first"] \cup {t}
      /\ "first" \in {"first"}
  BY <1>1, <1>2, TokenIsEmitted
<1>4. /\ input["first"] \in Seq(Int)
      /\ Listing!ToSet(group["first"]) = Listing!ItemsOf(input["first"], t)
      /\ Listing!ItemsOf(input["first"], t) # {}
  BY <1>1, <1>2, <1>3, GroupIsToken
<1>5. group["first"] \in Seq(Nat) /\ Ascending(group["first"]) /\ group["first"] # <<>>
  <2>1. Whole("first", group["first"])
    BY <1>1 DEF GroupInv, Merging, GroupIsWhole
  <2>2. group["first"] \in Seq(Nat)
    BY <1>1 DEF MergeInv, SideInv, ComesFirst
  <2>. QED  BY <2>1, <2>2 DEF Whole
<1>6. PICK s, g, tail : s = input["first"] /\ g = group["first"] /\ tail = Tail(group["first"])
  OBVIOUS
<1> DEFINE T == {i \in RepeatOrdinals(s) : s[i] = t}
<1>7. tail \in Seq(Nat) /\ Listing!Lists(tail, T, FALSE)
  <2>1. s \in Seq(Int) /\ g \in Seq(Nat) /\ Ascending(g) /\ g # <<>> /\ ToSet(g) = Listing!ItemsOf(s, t)
    BY <1>4, <1>5, <1>6, SameRows
  <2>2. Tail(g) \in Seq(Nat) /\ Listing!Lists(Tail(g), {i \in RepeatOrdinals(s) : s[i] = t}, FALSE)
    BY <2>1, TailIsRepeats
  <2>. QED  BY <1>6, <2>2
<1>8. PICK E, F : E = Emitted["first"] /\ F = Emitted'["first"]
  OBVIOUS
<1> DEFINE S == Listing!Carrying(RepeatOrdinals(s), s, E)
<1>9. S \cap T = {} /\ Listing!Carrying(RepeatOrdinals(s), s, F) = S \cup T
  BY <1>3, <1>8 DEF Listing!Carrying
<1>10. /\ rows \in Seq(Listing!ResultRow)
       /\ Listing!HasSection(rows, "duplicates", "first", S, FALSE)
       /\ \A name \in {"only", "common", "duplicates"}, side \in Side :
             ~(name = "duplicates" /\ side = "first") => Listing!HasSection(rows, name, side, {}, FALSE)
  <2>1. \A name \in {"only", "common", "duplicates"}, side \in Side :
           Listing!HasSection(rows, name, side,
              Listing!Carrying(Listing!SectionSet(input, config, name, side), input[side], Emitted[side]), FALSE)
    BY SameMeaning DEF Listing!HoldsTokens
  <2>2. \A u, e : Listing!Carrying({}, u, e) = {}
    BY DEF Listing!Carrying
  <2>3. rows \in Seq(Listing!ResultRow)
    BY DEF Listing!HoldsTokens
  <2>. QED  BY <1>1, <1>6, <1>8, <2>1, <2>2, <2>3, DuplicatesSections
<1> HIDE DEF S, T
<1> DEFINE new == rows \o Listing!Rows("duplicates", "first", tail)
<1>11. /\ new \in Seq(Listing!ResultRow)
       /\ Listing!HasSection(new, "duplicates", "first", S \cup T, FALSE)
       /\ \A m, u, U : ~(m = "duplicates" /\ u = "first") /\ Listing!HasSection(rows, m, u, U, FALSE)
            => Listing!HasSection(new, m, u, U, FALSE)
  <2>1. PICK A, B : A = S /\ B = T
    OBVIOUS
  <2>2. /\ rows \in Seq(Listing!ResultRow)
        /\ Listing!HasSection(rows, "duplicates", "first", A, FALSE)
        /\ Listing!Lists(tail, B, FALSE) /\ A \cap B = {} /\ tail \in Seq(Nat)
        /\ "first" \in Listing!Side /\ "duplicates" \in {"only", "common", "duplicates"}
    BY <1>1, <1>7, <1>9, <1>10, <2>1, SameMeaning
  <2>3. /\ rows \o Listing!Rows("duplicates", "first", tail) \in Seq(Listing!ResultRow)
        /\ Listing!HasSection(rows \o Listing!Rows("duplicates", "first", tail), "duplicates", "first", A \cup B, FALSE)
        /\ \A m, u, U : ~(m = "duplicates" /\ u = "first") /\ Listing!HasSection(rows, m, u, U, FALSE)
             => Listing!HasSection(rows \o Listing!Rows("duplicates", "first", tail), m, u, U, FALSE)
    BY <2>2, Listing!SectionGrows
  <2>. QED  BY <2>1, <2>3
<1>12. new = rows \o Rows("duplicates", "first", Tail(group["first"]))
  BY <1>6, SameRows
<1> HIDE DEF new
<1>13. ASSUME NEW name \in {"only", "common", "duplicates"}, NEW side \in Side
       PROVE  Listing!HasSection(new, name, side,
                Listing!Carrying(Listing!SectionSet(input, config, name, side), input[side], Emitted'[side]), FALSE)
  <2>1. CASE name = "duplicates" /\ side = "first"
    <3>1. Listing!Carrying(Listing!SectionSet(input, config, name, side), input[side], Emitted'[side]) = S \cup T
      BY <1>1, <1>6, <1>8, <1>9, <2>1, DuplicatesSections
    <3>. QED  BY <1>11, <2>1, <3>1
  <2>2. CASE ~(name = "duplicates" /\ side = "first")
    <3>1. Listing!Carrying(Listing!SectionSet(input, config, name, side), input[side], Emitted'[side]) = {}
      BY <1>1, <2>2, DuplicatesSections DEF Listing!Carrying
    <3>. QED  BY <1>10, <1>11, <2>2, <3>1
  <2>. QED  BY <2>1, <2>2
<1>. QED  BY <1>11, <1>12, <1>13, SameMeaning DEF Listing!HoldsTokens

-----------------------------------------------------------------------------
(* The tokens of some of the first items are as many as they. *)
LEMMA FirstsOfTokens ==
    ASSUME NEW s \in Seq(Int), NEW T, \A t \in T : Occurs(t, s)
    PROVE  Cardinality(Listing!Carrying(Listing!FirstOrdinals(s), s, T)) = Cardinality(T)
<1>1. Listing!Cardinality({i \in Listing!FirstOrdinals(s) : s[i] \in T})
        = Listing!Cardinality({s[i] : i \in 1..Len(s)} \cap T)
  BY Listing!TokensCounted
<1>2. {s[i] : i \in 1..Len(s)} \cap T = T
  BY DEF Occurs
<1>. QED  BY <1>1, <1>2, SameRows DEF Listing!Carrying

(* Of the first items those are shared whose token the other side has. *)
LEMMA SharedTokens ==
    ASSUME NEW s \in Seq(Int), NEW o, NEW T, NEW W,
           \A t \in T : Occurs(t, s), W = {t \in T : Occurs(t, o)}
    PROVE  Cardinality(Listing!Carrying(Listing!CommonOrdinals(s, o), s, T)) = Cardinality(W)
<1>1. Listing!Carrying(Listing!CommonOrdinals(s, o), s, T)
        = Listing!Carrying(Listing!FirstOrdinals(s), s, W)
  BY SameMeaning DEF Listing!Carrying, CommonOrdinals
<1>2. \A t \in W : Occurs(t, s)
  OBVIOUS
<1>3. Cardinality(Listing!Carrying(Listing!FirstOrdinals(s), s, W)) = Cardinality(W)
  BY <1>2, FirstsOfTokens
<1>. QED  BY <1>1, <1>3

(* The repeats of a token that is taken are some rows. *)
LEMMA RepeatsAreSome ==
    ASSUME GroupInv, MergeInv, phase = "merge", NEW S, NEW t, Takes(S, t), NEW side \in S
    PROVE  Len(DuplicateRows(side)) \in Nat
<1>1. /\ input[side] \in Seq(Int)
      /\ Listing!ToSet(group[side]) = Listing!ItemsOf(input[side], t)
      /\ Listing!ItemsOf(input[side], t) # {}
  BY GroupIsToken
<1>2. PICK s, g, q : s = input[side] /\ g = group[side] /\ q = RepeatsOf(group[side])
  OBVIOUS
<1>3. s \in Seq(Int) /\ Listing!ToSet(g) = Listing!ItemsOf(s, t) /\ Listing!ItemsOf(s, t) # {}
  BY <1>1, <1>2
<1>4. Listing!RepeatsOf(g) \in Seq(Nat)
  BY <1>3, Listing!RowsOfToken
<1>5. q \in Seq(Nat)
  BY <1>2, <1>4, SameRows
<1>6. DuplicateRows(side) = Rows("duplicates", side, q) \/ DuplicateRows(side) = <<>>
  BY <1>2 DEF DuplicateRows
<1>7. Len(Rows("duplicates", side, q)) \in Nat
  <2>1. Len(q) \in Nat
    BY <1>5, LenProperties
  <2>. QED  BY <2>1 DEF Rows
<1>. QED  BY <1>6, <1>7

(* The rows of one more token of one side are counted. *)
CountsRows(m, n, S, side) ==
    /\ m \in Listing!Counts /\ m.unique = n.unique /\ m.common = n.common
    /\ \A s \in Side \ {side} : m.only[s] = n.only[s] /\ m.duplicate[s] = n.duplicate[s]
    /\ m.only[side] = n.only[side] + (IF Other(side) \notin S THEN 1 ELSE 0)
    /\ m.duplicate[side] = n.duplicate[side] + Len(DuplicateRows(side))

LEMMA TokenCounts ==
    ASSUME GroupInv, MergeInv, ChunksHoldInputs, phase = "merge", config.operation = "compare",
           NEW S, NEW t, Takes(S, t), NEW side \in S,
           NEW n, NEW E, NEW V, Listing!CountsTokens(input, config, n, E, V),
           NEW F, Listing!IsOneMore(F, E, side, t), NEW m, CountsRows(m, n, S, side)
    PROVE  Listing!CountsTokens(input, config, m, F, V)
<1>1. PICK in, c, g, blobs : in = input /\ c = config /\ g = group[side] /\ blobs = Int
  OBVIOUS
<1>2. /\ side \in Listing!Side /\ in[side] \in Seq(blobs)
      /\ Listing!ToSet(g) = Listing!ItemsOf(in[side], t)
      /\ Listing!ItemsOf(in[side], t) # {}
      /\ Listing!CountsTokens(in, c, n, E, V)
  BY <1>1, GroupIsToken, SameMeaning
<1>3. /\ FirstOf(group[side]) \in Listing!SectionSet(input, config, "only", side) <=> Other(side) \notin S
      /\ DuplicateRows(side) = Listing!RepeatRows(config, side, group[side])
  BY RowsOfGroup
<1>4. Listing!HasCounted(m, n, side, Listing!OnlyCount(in, c, side, g), Len(Listing!RepeatRows(c, side, g)))
  <2>1. Listing!OnlyCount(in, c, side, g) = IF Other(side) \notin S THEN 1 ELSE 0
    BY <1>1, <1>3, SameRows DEF Listing!OnlyCount
  <2>2. Len(Listing!RepeatRows(c, side, g)) = Len(DuplicateRows(side))
    BY <1>1, <1>3
  <2>. QED  BY <2>1, <2>2, SameMeaning DEF CountsRows, Listing!HasCounted
<1>5. Listing!CountsTokens(in, c, m, F, V)
  BY <1>2, <1>4, Listing!TokenIsCounted
<1>. QED  BY <1>1, <1>5

(* So is the token itself, of the sides it is taken from. *)
CountsTaken(m, n, S) ==
    /\ m \in Listing!Counts /\ m.only = n.only /\ m.duplicate = n.duplicate
    /\ \A side \in Side : m.unique[side] = n.unique[side] + (IF side \in S THEN 1 ELSE 0)
    /\ m.common = n.common + (IF S = Side THEN 1 ELSE 0)

LEMMA TakenCounts ==
    ASSUME GroupInv, MergeInv, ChunksHoldInputs, phase = "merge", config.operation = "compare",
           NEW S, NEW t, Takes(S, t), AfterTaking(S),
           NEW n, NEW E, Listing!CountsTokens(input, config, n, E, Emitted),
           NEW m, CountsTaken(m, n, S)
    PROVE  Listing!CountsTokens(input, config, m, E, Emitted')
<1>1. PICK in, c, V, U, blobs : in = input /\ c = config /\ V = Emitted /\ U = Emitted' /\ blobs = Int
  OBVIOUS
<1>2. PICK W : W = [side \in Side |-> IF side \in S THEN {t} ELSE {}]
  OBVIOUS
<1>3. in \in [Side -> Seq(Int)] /\ "first" \in Side /\ "second" \in Side /\ S \in SUBSET Side
  BY <1>1 DEF GroupInv, Writing, Side, Takes
<1>4. \A side \in Side : Occurs(t, in[side]) <=> side \in S
  BY <1>1, TakenOccurs
<1>5. Listing!AreMore(U, V, W)
  <2>1. ASSUME NEW side \in Side PROVE V[side] \cap W[side] = {} /\ U[side] = V[side] \cup W[side]
    <3>1. side \in S => t \notin V[side] /\ U[side] = V[side] \cup {t}
      BY <1>1, TokenIsEmitted
    <3>2. side \notin S => U[side] = V[side]
      BY <1>1, TokenIsEmitted
    <3>. QED  BY <1>2, <3>1, <3>2
  <2>. QED  BY <2>1, SameMeaning DEF Listing!AreMore
<1>6. Cardinality({t}) = 1 /\ Cardinality({}) = 0
  BY FS_Singleton, FS_EmptySet
<1>7. ASSUME NEW side \in Side
      PROVE  Cardinality(Listing!Carrying(Listing!FirstOrdinals(in[side]), in[side], W[side]))
               = IF side \in S THEN 1 ELSE 0
  <2>1. PICK s, T : s = in[side] /\ T = W[side]
    OBVIOUS
  <2>2. s \in Seq(Int) /\ \A x \in T : Occurs(x, s)
    BY <1>2, <1>3, <1>4, <2>1
  <2>3. Cardinality(Listing!Carrying(Listing!FirstOrdinals(s), s, T)) = Cardinality(T)
    BY <2>2, FirstsOfTokens
  <2>. QED  BY <1>2, <1>6, <2>1, <2>3
<1>8. Cardinality(Listing!Carrying(Listing!CommonOrdinals(in["first"], in["second"]), in["first"], W["first"]))
        = IF S = Side THEN 1 ELSE 0
  <2>1. PICK s, o, T, Z : /\ s = in["first"] /\ o = in["second"] /\ T = W["first"]
                          /\ Z = IF S = Side THEN {t} ELSE {}
    OBVIOUS
  <2>2. s \in Seq(Int) /\ \A x \in T : Occurs(x, s)
    BY <1>2, <1>3, <1>4, <2>1
  <2>3. S = Side <=> "first" \in S /\ "second" \in S
    BY <1>3 DEF Side
  <2>4. Z = {x \in T : Occurs(x, o)}
    BY <1>2, <1>3, <1>4, <2>1, <2>3
  <2>5. Cardinality(Listing!Carrying(Listing!CommonOrdinals(s, o), s, T)) = Cardinality(Z)
    BY <2>2, <2>4, SharedTokens
  <2>. QED  BY <1>6, <2>1, <2>5
<1>9. Listing!HasCountedTokens(m, n, in, W)
  <2>1. \A side \in Listing!Side : m.unique[side] = n.unique[side]
          + Listing!Cardinality(Listing!Carrying(Listing!FirstOrdinals(in[side]), in[side], W[side]))
    BY <1>7, SameMeaning, SameRows DEF CountsTaken
  <2>2. m.common = n.common + Listing!Cardinality(
           Listing!Carrying(Listing!CommonOrdinals(in["first"], in["second"]), in["first"], W["first"]))
    BY <1>8, SameRows DEF CountsTaken
  <2>. QED  BY <2>1, <2>2 DEF CountsTaken, Listing!HasCountedTokens
<1>10. in \in [Listing!Side -> Seq(blobs)] /\ Listing!CountsTokens(in, c, n, E, V)
  BY <1>1, <1>3, SameMeaning
<1>11. Listing!CountsTokens(in, c, m, E, U)
  BY <1>5, <1>9, <1>10, Listing!TokensAreCounted
<1>. QED  BY <1>1, <1>11

(* Counters are functions on the sides. *)
LEMMA CountersAreNumbers ==
    ASSUME NEW n, n \in Listing!Counts
    PROVE  /\ n.only \in [Side -> Nat] /\ n.duplicate \in [Side -> Nat]
           /\ n.unique \in [Side -> Nat] /\ n.common \in Nat
           /\ n = [unique |-> n.unique, only |-> n.only, common |-> n.common,
                   duplicate |-> n.duplicate]
  BY SameMeaning DEF Listing!Counts

(* EmitOnly counts its token. *)
LEMMA OnlyIsCounted ==
    ASSUME GroupInv, MergeInv, ChunksHoldInputs, NEW side \in Side, EmitOnly(side),
           Listing!CountsTokens(input, config, counts, Emitted, Emitted)
    PROVE  Listing!CountsTokens(input, config, counts', Emitted', Emitted')
<1>1. phase = "merge" /\ config.operation = "compare"
  BY DEF EmitOnly, BothReady
<1>2. PICK t : Takes({side}, t) /\ AfterTaking({side})
  BY EmissionTakes
<1>3. side \in {side} /\ Other(side) \notin {side} /\ {side} # Side
  BY DEF Side, Other
<1>4. PICK n, new, r : n = counts /\ new = counts' /\ r = Len(DuplicateRows(side))
  OBVIOUS
<1>5. r \in Nat
  BY <1>1, <1>2, <1>3, <1>4, RepeatsAreSome
<1>6. n \in Listing!Counts /\ Listing!CountsTokens(input, config, n, Emitted, Emitted)
  BY <1>4 DEF Listing!CountsTokens
<1>7. /\ n.only \in [Side -> Nat] /\ n.duplicate \in [Side -> Nat]
      /\ n.unique \in [Side -> Nat] /\ n.common \in Nat
      /\ n = [unique |-> n.unique, only |-> n.only, common |-> n.common, duplicate |-> n.duplicate]
  BY <1>6, CountersAreNumbers
<1>8. new = [n EXCEPT !.unique[side] = @ + 1, !.only[side] = @ + 1, !.duplicate[side] = @ + r]
  BY <1>4 DEF EmitOnly
<1> DEFINE only == [n.only EXCEPT ![side] = @ + 1]
           duplicate == [n.duplicate EXCEPT ![side] = @ + r]
           unique == [n.unique EXCEPT ![side] = @ + 1]
<1>9. only \in [Side -> Nat] /\ duplicate \in [Side -> Nat] /\ unique \in [Side -> Nat]
  BY <1>5, <1>7
<1>10. PICK mid : mid = [unique |-> n.unique, only |-> only, common |-> n.common, duplicate |-> duplicate]
  OBVIOUS
<1>11. new = [unique |-> unique, only |-> only, common |-> n.common, duplicate |-> duplicate]
  BY <1>7, <1>8
<1>12. mid \in Listing!Counts /\ new \in Listing!Counts
  BY <1>7, <1>9, <1>10, <1>11, SameMeaning DEF Listing!Counts
<1>13. CountsRows(mid, n, {side}, side)
  <2>1. only[side] = n.only[side] + 1 /\ duplicate[side] = n.duplicate[side] + r
    BY <1>7
  <2>2. \A s \in Side \ {side} : only[s] = n.only[s] /\ duplicate[s] = n.duplicate[s]
    BY <1>7
  <2> HIDE DEF only, duplicate
  <2>. QED  BY <1>3, <1>4, <1>10, <1>12, <2>1, <2>2 DEF CountsRows
<1>14. CountsTaken(new, mid, {side})
  <2>1. \A s \in Side : unique[s] = n.unique[s] + (IF s \in {side} THEN 1 ELSE 0)
    BY <1>7
  <2> HIDE DEF only, duplicate, unique
  <2>. QED  BY <1>3, <1>7, <1>10, <1>11, <1>12, <2>1 DEF CountsTaken
<1>15. PICK E, F : E = Emitted /\ F = Emitted'
  OBVIOUS
<1>16. Listing!IsOneMore(F, E, side, t)
  BY <1>1, <1>2, <1>3, <1>15, TokenIsEmitted, SameMeaning DEF Listing!IsOneMore
<1>17. Listing!CountsTokens(input, config, n, E, E)
  BY <1>6, <1>15
<1>18. Listing!CountsTokens(input, config, mid, F, E)
  BY <1>1, <1>2, <1>3, <1>13, <1>16, <1>17, TokenCounts
<1>19. Listing!CountsTokens(input, config, mid, F, Emitted)
  BY <1>15, <1>18
<1>20. Listing!CountsTokens(input, config, new, F, Emitted')
  BY <1>1, <1>2, <1>14, <1>19, TakenCounts
<1>. QED  BY <1>4, <1>15, <1>20

(* EmitCommon counts its token, of both sides. *)
LEMMA CommonIsCounted ==
    ASSUME GroupInv, MergeInv, ChunksHoldInputs, EmitCommon,
           Listing!CountsTokens(input, config, counts, Emitted, Emitted)
    PROVE  Listing!CountsTokens(input, config, counts', Emitted', Emitted')
<1>1. phase = "merge" /\ config.operation = "compare"
  BY CommonIsCompared DEF EmitCommon, BothReady
<1>2. PICK t : Takes(Side, t) /\ AfterTaking(Side)
  BY EmissionTakes
<1>3. /\ "first" \in Side /\ "second" \in Side /\ Other("first") = "second" /\ Other("second") = "first"
      /\ \A s \in Side : s = "first" \/ s = "second"
  BY DEF Side, Other
<1>4. PICK n, new, p, q :
         /\ n = counts /\ new = counts'
         /\ p = Len(DuplicateRows("first")) /\ q = Len(DuplicateRows("second"))
  OBVIOUS
<1>5. p \in Nat /\ q \in Nat
  BY <1>1, <1>2, <1>3, <1>4, RepeatsAreSome
<1>6. n \in Listing!Counts /\ Listing!CountsTokens(input, config, n, Emitted, Emitted)
  BY <1>4 DEF Listing!CountsTokens
<1>7. /\ n.only \in [Side -> Nat] /\ n.duplicate \in [Side -> Nat]
      /\ n.unique \in [Side -> Nat] /\ n.common \in Nat
      /\ n = [unique |-> n.unique, only |-> n.only, common |-> n.common, duplicate |-> n.duplicate]
  BY <1>6, CountersAreNumbers
<1>8. new = [n EXCEPT !.unique = [side \in Side |-> @[side] + 1], !.common = @ + 1,
                      !.duplicate = [side \in Side |-> @[side] + Len(DuplicateRows(side))]]
  BY <1>4 DEF EmitCommon
<1> DEFINE unique == [side \in Side |-> n.unique[side] + 1]
           one == [n.duplicate EXCEPT !["first"] = @ + p]
           both == [one EXCEPT !["second"] = @ + q]
<1>9. one \in [Side -> Nat] /\ both \in [Side -> Nat] /\ unique \in [Side -> Nat]
  BY <1>3, <1>5, <1>7
<1>10. /\ one["first"] = n.duplicate["first"] + p /\ one["second"] = n.duplicate["second"]
       /\ both["second"] = one["second"] + q /\ both["first"] = one["first"]
  BY <1>3, <1>7
<1>11. [side \in Side |-> n.duplicate[side] + Len(DuplicateRows(side))] = both
  <2>1. \A side \in Side : n.duplicate[side] + Len(DuplicateRows(side)) = both[side]
    BY <1>3, <1>4, <1>10
  <2> HIDE DEF one, both
  <2>. QED  BY <1>9, <2>1
<1>12. new = [unique |-> unique, only |-> n.only, common |-> n.common + 1,
              duplicate |-> [side \in Side |-> n.duplicate[side] + Len(DuplicateRows(side))]]
  BY <1>7, <1>8
<1> HIDE DEF one, both
<1>13. PICK m, k : /\ m = [unique |-> n.unique, only |-> n.only, common |-> n.common, duplicate |-> one]
                   /\ k = [unique |-> n.unique, only |-> n.only, common |-> n.common, duplicate |-> both]
  OBVIOUS
<1>14. m \in Listing!Counts /\ k \in Listing!Counts /\ new \in Listing!Counts
  <2>1. n.common + 1 \in Nat
    BY <1>7
  <2> HIDE DEF unique
  <2>. QED  BY <1>7, <1>9, <1>11, <1>12, <1>13, <2>1, SameMeaning DEF Listing!Counts
<1>15. CountsRows(m, n, Side, "first") /\ CountsRows(k, m, Side, "second")
  <2>1. n.only["first"] = n.only["first"] + 0 /\ n.only["second"] = n.only["second"] + 0
    BY <1>3, <1>7
  <2>. QED  BY <1>3, <1>4, <1>10, <1>13, <1>14, <2>1 DEF CountsRows
<1>16. CountsTaken(new, k, Side)
  <2>1. \A s \in Side : unique[s] = n.unique[s] + 1
    OBVIOUS
  <2> HIDE DEF unique
  <2>. QED  BY <1>11, <1>12, <1>13, <1>14, <2>1 DEF CountsTaken
<1>17. PICK E, F : E = Emitted /\ F = Emitted'
  OBVIOUS
<1> DEFINE G == [E EXCEPT !["first"] = @ \cup {t}]
<1>18. Listing!IsOneMore(G, E, "first", t) /\ Listing!IsOneMore(F, G, "second", t)
  <2>1. E = [s \in Side |-> E[s]]
    BY <1>17 DEF Emitted
  <2>2. G["first"] = E["first"] \cup {t} /\ G["second"] = E["second"]
    BY <1>3, <2>1
  <2>3. \A s \in Side : t \notin E[s] /\ F[s] = E[s] \cup {t}
    BY <1>1, <1>2, <1>17, TokenIsEmitted
  <2> HIDE DEF G
  <2>. QED  BY <1>3, <2>2, <2>3, SameMeaning DEF Listing!IsOneMore
<1> HIDE DEF G
<1>19. Listing!CountsTokens(input, config, n, E, E)
  BY <1>6, <1>17
<1>20. Listing!CountsTokens(input, config, m, G, E)
  BY <1>1, <1>2, <1>3, <1>15, <1>18, <1>19, TokenCounts
<1>21. Listing!CountsTokens(input, config, k, F, E)
  BY <1>1, <1>2, <1>3, <1>15, <1>18, <1>20, TokenCounts
<1>22. Listing!CountsTokens(input, config, k, F, Emitted)
  BY <1>17, <1>21
<1>23. Listing!CountsTokens(input, config, new, F, Emitted')
  BY <1>1, <1>2, <1>16, <1>22, TakenCounts
<1>. QED  BY <1>4, <1>17, <1>23

-----------------------------------------------------------------------------
(* A complete result: the rows and the counts of every token. *)
IsResult(rows) ==
    /\ Listing!HoldsTokens(input, config, rows, AllTokens)
    /\ config.operation = "compare" =>
         Listing!CountsTokens(input, config, counts, AllTokens, AllTokens)

BeforeMerge == {"write_first", "write_second", "open"}

(* The rows emitted and the counts so far are those of the tokens taken; a *)
(* writer that is closing holds a complete result or fails with the        *)
(* exception in flight; and so what a call returns is complete.            *)
ResultInv ==
    /\ sibling = [w \in Call |-> sibling[w]] /\ session = [w \in Call |-> session[w]]
    /\ phase \in BeforeMerge => merged = <<>> /\ counts = ZeroCounts
    /\ phase = "merge" =>
          /\ FileMode => session["call"] = "open"
          /\ Listing!HoldsTokens(input, config, IF FileMode THEN sibling["call"] ELSE merged, Emitted)
          /\ config.operation = "compare" =>
               Listing!CountsTokens(input, config, counts, Emitted, Emitted)
    /\ phase = "close" =>
          /\ FileMode
          /\ \/ session["call"] = "failing" /\ error # None
             \/ session["call"] \in {"open", "closed"} /\ IsResult(sibling["call"])
    /\ Succeeding => IsResult(IF FileMode THEN target ELSE merged)

(* The merge starts with nothing written or counted. *)
LEMMA ResultStarts ==
    ASSUME GroupInv, ChunksHoldInputs, MergeInv, ResultInv, StartMerge PROVE ResultInv'
<1>1. /\ phase = "open" /\ phase' = "merge" /\ merged = <<>> /\ counts = ZeroCounts
      /\ UNCHANGED <<input, config, merged, counts>>
      /\ FileMode' <=> FileMode
  BY DEF StartMerge, call, ResultInv, BeforeMerge, FileMode
<1>2. /\ sibling' = [w \in Call |-> sibling'[w]] /\ session' = [w \in Call |-> session'[w]]
      /\ FileMode => session'["call"] = "open" /\ sibling'["call"] = <<>>
  BY DEF StartMerge, output, ResultInv, Out!Enter, Out!Step, Call
<1>3. Emitted' = [side \in Side |-> {}]
  BY MergeBeginsAndEnds
<1>4. PICK in, c, E, n : in = input /\ c = config /\ E = [side \in Side |-> {}] /\ n = ZeroCounts
  OBVIOUS
<1>5. Listing!HoldsTokens(in, c, <<>>, E)
  BY <1>4, Listing!NothingIsHeld, SameMeaning
<1>6. Listing!CountsTokens(in, c, Listing!ZeroCounts, E, E)
  BY <1>4, Listing!NothingIsCounted, SameMeaning
<1>7. Listing!ZeroCounts = ZeroCounts
  BY SameMeaning DEF Listing!ZeroCounts, ZeroCounts
<1>8. /\ Listing!HoldsTokens(input, config, IF FileMode' THEN sibling'["call"] ELSE merged', Emitted')
      /\ Listing!CountsTokens(input, config, counts', Emitted', Emitted')
  BY <1>1, <1>2, <1>3, <1>4, <1>5, <1>6, <1>7
<1>. QED  BY <1>1, <1>2, <1>8 DEF ResultInv, BeforeMerge, Succeeding

(* Pulling a record changes neither the rows nor what they hold. *)
LEMMA ResultOfPull ==
    ASSUME GroupInv, ChunksHoldInputs, MergeInv, ResultInv, NEW side \in Side,
           (\E c \in Heads(side) : PullRecord(side, c)) \/ PullLast(side)
    PROVE  ResultInv'
<1>1. /\ phase = "merge" /\ phase' = "merge"
      /\ UNCHANGED <<input, config, itemCount, merged, counts, sibling, session>>
      /\ \A s \in Side \ {side} : unread'[s] = unread[s] /\ building'[s] = building[s]
                                  /\ group'[s] = group[s] /\ status'[s] = status[s]
  BY DEF PullRecord, PullLast, Pulls, call, writes, output, GroupInv, Merging
<1>2. \A s \in Side : Pending(s)' = Pending(s)
  BY PullRecordKeepsPending, PullLastKeepsPending
<1>3. Emitted' = Emitted
  <2>1. \A s \in Side : Done(s)' = Done(s)
    BY <1>1, <1>2, PendingFrames DEF Done
  <2>2. \A s, i : Token(s, i)' = Token(s, i)
    BY <1>1, PendingFrames
  <2>. QED  BY <2>1, <2>2 DEF Emitted
<1>4. FileMode' <=> FileMode
  BY <1>1 DEF FileMode
<1>5. /\ Listing!HoldsTokens(input', config', IF FileMode' THEN sibling'["call"] ELSE merged', Emitted')
      /\ config'.operation = "compare" =>
           Listing!CountsTokens(input', config', counts', Emitted', Emitted')
  BY <1>1, <1>3, <1>4 DEF ResultInv
<1>. QED  BY <1>1, <1>4, <1>5 DEF ResultInv, BeforeMerge, Succeeding

(* The rows of one round join the result. *)
LEMMA RowsJoinResult ==
    ASSUME ResultInv, phase = "merge", phase' = "merge", NEW rows, Emit(rows),
           LET old == IF FileMode THEN sibling["call"] ELSE merged IN
               Listing!HoldsTokens(input, config, old \o rows, Emitted'),
           config.operation = "compare" =>
               Listing!CountsTokens(input, config, counts', Emitted', Emitted')
    PROVE  ResultInv'
<1> DEFINE old == IF FileMode THEN sibling["call"] ELSE merged
<1>1. UNCHANGED <<input, config>> /\ (FileMode' <=> FileMode)
  BY DEF Emit, call, FileMode
<1>2. FileMode => session["call"] = "open"
  BY DEF ResultInv
<1>3. /\ sibling' = [w \in Call |-> sibling'[w]] /\ session' = [w \in Call |-> session'[w]]
      /\ session' = session
      /\ (IF FileMode THEN sibling'["call"] ELSE merged') = old \o rows
  <2>1. CASE FileMode
    <3>1. session' = session /\ sibling' = [sibling EXCEPT !["call"] = @ \o rows]
      BY <2>1 DEF Emit, Out!WriteRows
    <3>. QED  BY <2>1, <3>1 DEF ResultInv, Call
  <2>2. CASE ~FileMode
    BY <2>2 DEF Emit, output, ResultInv
  <2>. QED  BY <2>1, <2>2
<1>4. Listing!HoldsTokens(input, config, old \o rows, Emitted')
  OBVIOUS
<1> HIDE DEF old
<1>. QED  BY <1>1, <1>2, <1>3, <1>4 DEF ResultInv, BeforeMerge, Succeeding

LEMMA ResultOfEmission ==
    ASSUME GroupInv, ChunksHoldInputs, MergeInv, ResultInv,
           (\E side \in Side : EmitOnly(side)) \/ EmitCommon \/ EmitRepeats
    PROVE  ResultInv'
<1>1. PICK old : old = IF FileMode THEN sibling["call"] ELSE merged
  OBVIOUS
<1>2. phase = "merge" /\ phase' = "merge"
  BY DEF EmitOnly, EmitCommon, EmitRepeats, BothReady, Emit
<1>3. /\ Listing!HoldsTokens(input, config, old, Emitted)
      /\ config.operation = "compare" =>
           Listing!CountsTokens(input, config, counts, Emitted, Emitted)
  BY <1>1, <1>2 DEF ResultInv
<1>4. ASSUME NEW side \in Side, EmitOnly(side) PROVE ResultInv'
  <2>1. PICK rows : rows = <<Row("only", side, FirstOf(group[side]))>> \o DuplicateRows(side)
    OBVIOUS
  <2>2. Emit(rows)
    BY <1>4, <2>1 DEF EmitOnly
  <2>3. Listing!HoldsTokens(input, config, old \o rows, Emitted')
    BY <1>3, <1>4, <2>1, OnlyIsHeld
  <2>4. config.operation = "compare" =>
          Listing!CountsTokens(input, config, counts', Emitted', Emitted')
    BY <1>3, <1>4, OnlyIsCounted
  <2>. QED  BY <1>1, <1>2, <2>2, <2>3, <2>4, RowsJoinResult
<1>5. CASE EmitCommon
  <2>1. PICK rows : rows =
           (IF config.include_common THEN <<Row("common", "first", FirstOf(group["first"]))>> ELSE <<>>)
             \o DuplicateRows("first") \o DuplicateRows("second")
    OBVIOUS
  <2>2. Emit(rows)
    BY <1>5, <2>1 DEF EmitCommon
  <2>3. Listing!HoldsTokens(input, config, old \o rows, Emitted')
    BY <1>3, <1>5, <2>1, CommonIsHeld
  <2>4. config.operation = "compare" =>
          Listing!CountsTokens(input, config, counts', Emitted', Emitted')
    BY <1>3, <1>5, CommonIsCounted
  <2>. QED  BY <1>1, <1>2, <2>2, <2>3, <2>4, RowsJoinResult
<1>6. CASE EmitRepeats
  <2>1. PICK rows : rows = Rows("duplicates", "first", Tail(group["first"]))
    OBVIOUS
  <2>2. Emit(rows) /\ ~(config.operation = "compare")
    BY <1>6, <2>1 DEF EmitRepeats
  <2>3. Listing!HoldsTokens(input, config, old \o rows, Emitted')
    BY <1>3, <1>6, <2>1, RepeatsAreHeld
  <2>. QED  BY <1>1, <1>2, <2>2, <2>3, RowsJoinResult
<1>. QED  BY <1>4, <1>5, <1>6

(* When both sides have ended every token has been emitted. *)
LEMMA ResultIsComplete ==
    ASSUME GroupInv, ChunksHoldInputs, MergeInv, ResultInv, FinishMerge PROVE ResultInv'
<1>1. /\ phase = "merge"
      /\ phase' = IF FileMode THEN "close" ELSE "cleanup"
      /\ UNCHANGED <<input, config, itemCount, counts, error, merged, sibling, session, target>>
      /\ FileMode' <=> FileMode
  BY DEF FinishMerge, BothReady, call, writes, output, FileMode
<1>2. Emitted = AllTokens
  BY MergeBeginsAndEnds
<1>3. IsResult(IF FileMode THEN sibling["call"] ELSE merged)
  BY <1>1, <1>2 DEF ResultInv, IsResult
<1>4. AllTokens' = AllTokens
  BY <1>1, InputFrames DEF AllTokens, Token
<1>5. FileMode => session["call"] = "open"
  BY <1>1 DEF ResultInv
<1>6. CASE FileMode
  <2>1. phase' = "close" /\ FileMode' /\ session'["call"] = "open" /\ IsResult(sibling["call"])'
    BY <1>1, <1>3, <1>4, <1>5, <1>6 DEF IsResult
  <2>. QED  BY <1>1, <2>1 DEF ResultInv, BeforeMerge, Succeeding
<1>7. CASE ~FileMode
  <2>1. phase' = "cleanup" /\ IsResult(IF FileMode THEN target ELSE merged)'
    BY <1>1, <1>3, <1>4, <1>7 DEF IsResult
  <2>. QED  BY <1>1, <2>1 DEF ResultInv, BeforeMerge
<1>. QED  BY <1>6, <1>7

(* Every step keeps it right. *)
LEMMA ResultKept ==
    ASSUME GroupInv, ChunksHoldInputs, MergeInv, FailureInv, ResultInv, [Next]_vars PROVE ResultInv'
<1> USE NoneIsNoError
<1>1. ASSUME UNCHANGED <<input, config, merged, counts, target, sibling, session>>,
             \/ phase' = phase /\ error' = error
                  /\ UNCHANGED <<itemCount, unread, building, group, status>>
             \/ phase \in BeforeMerge /\ phase' \in BeforeMerge
             \/ phase' \in {"cleanup", "raised"} /\ error' # None
             \/ phase' = "raised"
             \/ phase = "cleanup" /\ phase' = "returned" /\ error' = error /\ UNCHANGED itemCount
      PROVE  ResultInv'
  <2>1. FileMode' <=> FileMode
    BY <1>1 DEF FileMode
  <2>2. CASE phase' = phase /\ error' = error
               /\ UNCHANGED <<itemCount, unread, building, group, status>>
    <3>1. \A s, i : Token(s, i)' = Token(s, i)
      BY <1>1, <2>2, PendingFrames
    <3>2. \A s : Done(s)' = Done(s)
      BY <1>1, <2>2, PendingFrames DEF Pending, Done
    <3>3. AllTokens' = AllTokens /\ Emitted' = Emitted
      BY <2>2, <3>1, <3>2 DEF AllTokens, Emitted
    <3>. QED  BY <1>1, <2>1, <2>2, <3>3 DEF ResultInv, Succeeding, IsResult
  <2>3. CASE phase = "cleanup" /\ phase' = "returned" /\ error' = error /\ UNCHANGED itemCount
    <3>1. AllTokens' = AllTokens
      BY <1>1, <2>3, InputFrames DEF AllTokens, Token
    <3>. QED  BY <1>1, <2>1, <2>3, <3>1 DEF ResultInv, BeforeMerge, Succeeding, IsResult
  <2>4. CASE phase \in BeforeMerge /\ phase' \in BeforeMerge
    BY <1>1, <2>4 DEF ResultInv, BeforeMerge, Succeeding
  <2>5. CASE (phase' \in {"cleanup", "raised"} /\ error' # None) \/ phase' = "raised"
    BY <1>1, <2>5 DEF ResultInv, BeforeMerge, Succeeding
  <2>. QED  BY <1>1, <2>2, <2>3, <2>4, <2>5
<1>2. ASSUME NEW side \in Side, Write(side) \/ WriteChunkFails(side) \/ SourceRaises(side) \/ Interrupted(side)
      PROVE  ResultInv'
  <2>1. UNCHANGED <<input, config, merged, counts, target, sibling, session>>
    BY <1>2 DEF Write, ReadItem, WriteChunk, WriteChunkOverLimit, FinishWriting, WriteChunkFails,
                SourceRaises, Interrupted, call, output
  <2>2. /\ phase \in BeforeMerge
        /\ phase' \in BeforeMerge \/ (phase' = "cleanup" /\ error' # None)
    BY <1>2 DEF Write, ReadItem, WriteChunk, WriteChunkOverLimit, FinishWriting, WriteChunkFails,
                SourceRaises, Interrupted, BatchIsDue, WritePhase, Fail, BeforeMerge
  <2>. QED  BY <1>1, <2>1, <2>2
<1>3. CASE Unlink
  BY <1>1, <1>3 DEF Unlink, call, writes, merge, output
<1>4. CASE UnlinkFails
  BY <1>1, <1>4 DEF UnlinkFails, call, output
<1>5. CASE Leave
  <2>1. /\ UNCHANGED <<input, config, merged, counts, target, sibling, session, itemCount, error>>
        /\ phase = "cleanup" /\ phase' \in {"returned", "raised"}
    BY <1>5 DEF Leave, call, writes, output
  <2>. QED  BY <1>1, <2>1
<1>6. CASE StartMerge
  BY <1>6, ResultStarts
<1>7. ASSUME NEW side \in Side, (\E c \in Heads(side) : PullRecord(side, c)) \/ PullLast(side)
      PROVE  ResultInv'
  BY <1>7, ResultOfPull
<1>8. CASE (\E side \in Side : EmitOnly(side)) \/ EmitCommon \/ EmitRepeats
  BY <1>8, ResultOfEmission
<1>9. CASE FinishMerge
  BY <1>9, ResultIsComplete
<1>10. CASE OpenFails
  <2>1. /\ phase' = "cleanup" /\ error' # None
        /\ (UNCHANGED <<session, sibling>>) \/ Out!EnterFails("call")
    BY <1>10 DEF OpenFails, Fail, output
  <2>2. session' = [w \in Call |-> session'[w]] /\ sibling' = [w \in Call |-> sibling'[w]]
    BY <2>1 DEF ResultInv, Out!EnterFails, Out!Step
  <2>. QED  BY <2>1, <2>2 DEF ResultInv, BeforeMerge, Succeeding
<1>11. CASE MergeRaises
  <2>1. /\ UNCHANGED <<config, sibling>>
        /\ FileMode => /\ phase' = "close" /\ error' = "output"
                       /\ session' = [session EXCEPT !["call"] = "failing"]
        /\ ~FileMode => phase' = "cleanup" /\ error' = "read" /\ session' = session
    BY <1>11 DEF MergeRaises, Fail, call, output, Out!BodyRaises, Out!Step
  <2>2. /\ session' = [w \in Call |-> session'[w]] /\ sibling' = [w \in Call |-> sibling'[w]]
        /\ FileMode => session'["call"] = "failing"
    BY <2>1 DEF ResultInv, Call
  <2>3. FileMode' <=> FileMode
    BY <2>1 DEF FileMode
  <2>. QED  BY <2>1, <2>2, <2>3 DEF ResultInv, BeforeMerge, Succeeding
<1>12. CASE CloseWriter
  <2>1. /\ phase = "close" /\ phase' = "close"
        /\ session["call"] = "open" /\ session' = [session EXCEPT !["call"] = "closed"]
        /\ UNCHANGED <<input, config, counts, itemCount, sibling>>
    BY <1>12 DEF CloseWriter, call, writes, Out!Close, Out!Step
  <2>2. session' = [w \in Call |-> session'[w]] /\ session'["call"] = "closed"
    BY <2>1 DEF ResultInv, Call
  <2>3. AllTokens' = AllTokens
    BY <2>1, InputFrames DEF AllTokens, Token
  <2>4. FileMode' /\ IsResult(sibling["call"])'
    BY <2>1, <2>3 DEF ResultInv, FileMode, IsResult
  <2>. QED  BY <2>1, <2>2, <2>4 DEF ResultInv, BeforeMerge, Succeeding
<1>13. CASE ExitWriter
  <2>1. /\ phase = "close" /\ phase' = "cleanup" /\ error' = error
        /\ UNCHANGED <<input, config, counts, itemCount>>
        /\ Out!Replace("call") \/ Out!Discard("call")
    BY <1>13 DEF ExitWriter, call, writes
  <2>2. /\ session["call"] \in {"closed", "failing"}
        /\ session["call"] = "closed" => target' = sibling["call"]
        /\ \E v : session' = [session EXCEPT !["call"] = v]
        /\ \E v : sibling' = [sibling EXCEPT !["call"] = v]
    BY <2>1 DEF Out!Replace, Out!Discard, Out!Step
  <2>3. session' = [w \in Call |-> session'[w]] /\ sibling' = [w \in Call |-> sibling'[w]]
    BY <2>2 DEF ResultInv
  <2>4. AllTokens' = AllTokens
    BY <2>1, InputFrames DEF AllTokens, Token
  <2>5. FileMode' /\ (error' = None => IsResult(target)')
    BY <2>1, <2>2, <2>4 DEF ResultInv, FileMode, IsResult
  <2>. QED  BY <2>1, <2>3, <2>5 DEF ResultInv, BeforeMerge, Succeeding, IsResult
<1>14. CASE ExitWriterFails
  <2>1. /\ phase' = "cleanup" /\ error' # None
        /\ Out!CloseFails("call") \/ Out!ReplaceFails("call")
    BY <1>14 DEF ExitWriterFails, Fail
  <2>2. session' = [w \in Call |-> session'[w]] /\ sibling' = [w \in Call |-> sibling'[w]]
    BY <2>1 DEF ResultInv, Out!CloseFails, Out!ReplaceFails, Out!Step
  <2>. QED  BY <2>1, <2>2 DEF ResultInv, BeforeMerge, Succeeding
<1>15. CASE UNCHANGED vars
  BY <1>1, <1>15 DEF vars, call, writes, merge, output
<1>. QED  BY <1>2, <1>3, <1>4, <1>5, <1>6, <1>7, <1>8, <1>9, <1>10, <1>11, <1>12, <1>13, <1>14,
             <1>15 DEF Next, Progress, Merge, Failure

-----------------------------------------------------------------------------
(* The contract and the backend share their vocabulary. *)
LEMMA SameVocabulary ==
    /\ \A q, S, ordered : Contract!Lists(q, S, ordered) <=> Lists(q, S, ordered)
    /\ \A s : /\ Contract!FirstOrdinals(s) = FirstOrdinals(s)
              /\ Contract!RepeatOrdinals(s) = RepeatOrdinals(s)
    /\ \A s, o : /\ Contract!OnlyOrdinals(s, o) = OnlyOrdinals(s, o)
                 /\ Contract!CommonOrdinals(s, o) = CommonOrdinals(s, o)
    /\ \A S : Contract!Cardinality(S) = Cardinality(S)
    /\ Contract!Side = Side
    /\ \A side : Contract!Other(side) = Other(side)
<1>1. \A q, S : Contract!Enumerates(q, S) <=> Enumerates(q, S)
  BY DEF Contract!Enumerates, Enumerates, Contract!Bijection, Bijection,
         Contract!Injection, Injection, Contract!Surjection, Surjection,
         Contract!IsInjective, IsInjective
<1>2. \A q : Contract!Ascending(q) <=> Ascending(q)
  BY DEF Contract!Ascending, Ascending
<1>3. \A s : /\ Contract!FirstOrdinals(s) = FirstOrdinals(s)
             /\ Contract!RepeatOrdinals(s) = RepeatOrdinals(s)
  BY DEF Contract!FirstOrdinals, FirstOrdinals, Contract!RepeatOrdinals, RepeatOrdinals,
         Contract!IsFirst, IsFirst
<1>4. \A t, s : Contract!Occurs(t, s) <=> Occurs(t, s)
  BY DEF Contract!Occurs, Occurs
<1>5. \A s, o : /\ Contract!OnlyOrdinals(s, o) = OnlyOrdinals(s, o)
                /\ Contract!CommonOrdinals(s, o) = CommonOrdinals(s, o)
  BY <1>3, <1>4 DEF Contract!OnlyOrdinals, OnlyOrdinals, Contract!CommonOrdinals, CommonOrdinals
<1>6. \A S : Contract!Cardinality(S) = Cardinality(S)
  BY DEF Contract!Cardinality, Cardinality
<1>. QED  BY <1>1, <1>2, <1>3, <1>5, <1>6
          DEF Contract!Lists, Lists, Contract!Side, Side, Contract!Other, Other

(* What a complete result gives the caller is the contract's answer. *)
LEMMA ResultIsAnswer ==
    ASSUME GroupInv, ChunksHoldInputs, Succeeding, NEW rows, IsResult(rows)
    PROVE  Contract!IsAnswer(AnswerOf(rows, config, itemCount, counts, None))
<1>1. PICK in, c, n, sizes, E, blobs :
         /\ in = input /\ c = config /\ n = counts /\ sizes = itemCount /\ E = AllTokens
         /\ blobs = Int
  OBVIOUS
<1>2. /\ c.operation \in {"compare", "duplicates"} /\ c.include_common \in BOOLEAN
      /\ c.include_duplicates \in BOOLEAN /\ c.result_mode \in {"memory", "file"}
      /\ c.operation = "duplicates" => c.result_mode = "memory"
  BY <1>1, ConfigsAreOptions DEF GroupInv, Writing
<1>3. in \in [Listing!Side -> Seq(blobs)]
  BY <1>1, SameMeaning DEF GroupInv, Writing
<1>4. /\ itemCount["first"] = Len(input["first"])
      /\ config.operation = "compare" => \A side \in Side : itemCount[side] = Len(input[side])
  BY DEF ChunksHoldInputs, Side
<1>5. \A side \in Listing!Side : (c.operation = "compare" \/ side = "first") =>
         \A i \in 1..Len(in[side]) : in[side][i] \in E[side]
  BY <1>1, <1>4, SameMeaning DEF AllTokens, Token
<1>6. c.operation = "compare" => sizes = [side \in Listing!Side |-> Len(in[side])]
  BY <1>1, <1>4, SameMeaning DEF GroupInv, Writing
<1>7. /\ Listing!HoldsTokens(in, c, rows, E)
      /\ c.operation = "compare" => Listing!CountsTokens(in, c, n, E, E)
  BY <1>1 DEF IsResult
<1> DEFINE a == Listing!AnswerOf(rows, c, sizes, n, None)
<1>8. Listing!ExactAnswer(in, c, a)
  <2>1. Listing!IsOptions(c) /\ Listing!IsComplete(in, c, rows, n, sizes, E)
    BY <1>2, <1>5, <1>6, <1>7 DEF Listing!IsOptions, Listing!IsComplete
  <2>. QED  BY <1>3, <2>1, Listing!AnswerIsExact
<1>9. a = AnswerOf(rows, config, itemCount, counts, None)
  BY <1>1, SameAnswers
<1> HIDE DEF a
<1> DEFINE cfg == ContractConfig(config)
<1>10. /\ cfg.operation = c.operation /\ cfg.include_common = c.include_common
       /\ cfg.include_duplicates = c.include_duplicates
       /\ cfg.preserve_order = (c.result_mode = "memory") /\ cfg.include_stats = TRUE
  BY <1>1 DEF ContractConfig
<1>11. "first" \in Side /\ "second" \in Side
  BY DEF Side
<1>12. CASE c.operation = "duplicates"
  <2>1. Lists(a, RepeatOrdinals(input["first"]), TRUE)
    BY <1>1, <1>2, <1>8, <1>12, SameMeaning DEF Listing!ExactAnswer
  <2>. QED  BY <1>9, <1>10, <1>12, <2>1, SameVocabulary DEF Contract!IsAnswer
<1>13. CASE c.operation = "compare"
  <2>1. /\ \A side \in Side :
              /\ Lists(a.only[side], OnlyOrdinals(in[side], in[Other(side)]), c.result_mode = "memory")
              /\ IF c.include_duplicates
                   THEN Lists(a.duplicates[side], RepeatOrdinals(in[side]), c.result_mode = "memory")
                   ELSE a.duplicates[side] = None
        /\ IF c.include_common
             THEN Lists(a.common, CommonOrdinals(in["first"], in["second"]), c.result_mode = "memory")
             ELSE a.common = None
    BY <1>8, <1>13, SameMeaning DEF Listing!ExactAnswer
  <2>2. a.stats =
          [count     |-> [side \in Side |-> Len(in[side])],
           unique    |-> [side \in Side |-> Cardinality(FirstOrdinals(in[side]))],
           only      |-> [side \in Side |-> Cardinality(OnlyOrdinals(in[side], in[Other(side)]))],
           common    |-> Cardinality(CommonOrdinals(in["first"], in["second"])),
           duplicate |-> [side \in Side |-> IF c.include_duplicates
                            THEN Cardinality(RepeatOrdinals(in[side])) ELSE 0]]
    BY <1>8, <1>13, SameMeaning, SameRows DEF Listing!ExactAnswer
  <2>3. Contract!SectionsAreExact(a)
    BY <1>1, <1>10, <2>1, SameVocabulary DEF Contract!SectionsAreExact
  <2>4. a.stats = Contract!ExpectedStats
    BY <1>1, <1>10, <2>2, SameVocabulary DEF Contract!ExpectedStats
  <2>. QED  BY <1>9, <1>10, <1>13, <2>3, <2>4 DEF Contract!IsAnswer
<1>. QED  BY <1>2, <1>12, <1>13

(* Whatever the inputs, options, chunk size and limit, and however the     *)
(* items fall into chunks, a call that returns gives the sections and the  *)
(* counts the contract promises, and a call that raises gives none         *)
(* (compare_external_sort, duplicates_external_sort).                      *)
THEOREM ExternalSortImplementsContract == Spec => Implements
<1> DEFINE Inv == GroupInv /\ FailureInv /\ ChunksHoldInputs /\ MergeInv /\ ResultInv
<1>1. Init => Inv
  <2> SUFFICES ASSUME Init PROVE Inv
    OBVIOUS
  <2>1. GroupInv
    BY InitIsGrouped
  <2>2. FailureInv
    <3>1. ChunkLists
      <4>1. \A side \in Side : chunks[side] = <<>>
        BY DEF Init
      <4>2. <<>> \in Seq(ToSet(<<>>))
        BY EmptySeq
      <4>. QED  BY <4>1, <4>2 DEF ChunkLists
    <3>. QED  BY <3>1 DEF Init, Out!Init, Call, FailureInv, Sequel, FilesAreKnown, OneErrorPath
  <2>3. ChunksHoldInputs
    BY DEF Init, ChunksHoldInputs, Comparing, Succeeding
  <2>4. MergeInv
    BY DEF Init, MergeInv
  <2>5. ResultInv
    BY DEF Init, Out!Init, ResultInv, BeforeMerge, Succeeding
  <2>. QED  BY <2>1, <2>2, <2>3, <2>4, <2>5
<1>2. Inv /\ [Next]_vars => Inv'
  <2> SUFFICES ASSUME Inv, [Next]_vars PROVE Inv'
    OBVIOUS
  <2>1. GroupInv'
    BY WritingKept, MergingKept DEF GroupInv
  <2>2. FailureInv'
    BY FilesStayKnown, ErrorsStopPublishing DEF FailureInv
  <2>3. ChunksHoldInputs'
    BY ChunksHoldInputsKept DEF GroupInv
  <2>. QED  BY <2>1, <2>2, <2>3, MergeInvKept, ResultKept
<1>3. Init => Contract!Init
  <2> SUFFICES ASSUME Init PROVE Contract!Init
    OBVIOUS
  <2>1. ContractConfig(config) \in Contract!Config
    BY ConfigsAreOptions DEF Init, ContractConfig, Contract!Config
  <2>. QED  BY <2>1, SameVocabulary DEF Init, Contract!Init, Answer
<1>4. Inv /\ [Next]_vars => [Contract!Next]_Contract!vars
  <2> SUFFICES ASSUME Inv, [Next]_vars PROVE [Contract!Next]_Contract!vars
    OBVIOUS
  <2> DEFINE running(p) == p \notin {"returned", "raised"}
  <2>1. ASSUME running(phase), running(phase'), UNCHANGED call PROVE UNCHANGED Contract!vars
    BY <2>1 DEF Contract!vars, Answer, call
  <2>2. ASSUME running(phase), phase' = "raised", UNCHANGED call PROVE Contract!Raise
    BY <2>2 DEF Contract!Raise, Answer, call
  <2>3. CASE Leave
    <3>1. /\ phase = "cleanup" /\ phase' = IF error = None THEN "returned" ELSE "raised"
          /\ UNCHANGED <<input, config, itemCount, merged, counts, target>>
          /\ UNCHANGED call
      BY <2>3 DEF Leave, call, writes, output
    <3>2. CASE error = None
      <4>1. Succeeding /\ IsResult(IF FileMode THEN target ELSE merged)
        BY <3>1, <3>2 DEF ResultInv, Succeeding
      <4>2. Contract!IsAnswer(AnswerOf(IF FileMode THEN target ELSE merged, config, itemCount, counts, None))
        BY <4>1, ResultIsAnswer
      <4>3. Answer' = AnswerOf(IF FileMode THEN target ELSE merged, config, itemCount, counts, None)
        BY <3>1, <3>2 DEF Answer, FileMode
      <4>4. Contract!IsAnswer(Answer')
        BY <4>2, <4>3
      <4>. QED  BY <3>1, <3>2, <4>4 DEF Contract!Next, Contract!Return
    <3>3. CASE error # None
      BY <2>2, <3>1, <3>3 DEF Contract!Next
    <3>. QED  BY <3>2, <3>3
  <2>4. CASE UnlinkFails
    BY <2>2, <2>4 DEF UnlinkFails, Contract!Next
  <2>5. CASE UNCHANGED vars
    BY <2>5 DEF vars, call, writes, output, Contract!vars, Answer, FileMode
  <2>6. ASSUME NEW side \in Side,
               Write(side) \/ WriteChunkFails(side) \/ SourceRaises(side) \/ Interrupted(side)
        PROVE  UNCHANGED Contract!vars
    BY <2>1, <2>6 DEF Write, ReadItem, WriteChunk, WriteChunkOverLimit, FinishWriting, WriteChunkFails,
             SourceRaises, Interrupted, BatchIsDue, WritePhase, Fail
  <2>7. CASE Merge
    BY <2>1, <2>7 DEF Merge, StartMerge, PullRecord, PullLast, Pulls, EmitOnly, EmitCommon, EmitRepeats,
             Emit, BothReady, FinishMerge
  <2>8. CASE CloseWriter \/ ExitWriter \/ Unlink \/ OpenFails \/ MergeRaises \/ ExitWriterFails
    BY <2>1, <2>8 DEF CloseWriter, ExitWriter, Unlink, OpenFails, MergeRaises, ExitWriterFails, Fail
  <2>. QED  BY <2>3, <2>4, <2>5, <2>6, <2>7, <2>8 DEF Next, Progress, Failure
<1>. QED  BY <1>1, <1>2, <1>3, <1>4, PTL DEF Spec, Implements, Contract!Spec
================================================================================
