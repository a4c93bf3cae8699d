-------------------------- MODULE HashPartitionProofs --------------------------
(***************************************************************************)
(* For all inputs, options, hashes, chunk sizes and limits: what a call of *)
(* the hash partition backend leaves behind, and how far its files grow.   *)
(***************************************************************************)
EXTENDS HashPartition, FiniteSetTheorems, SequenceTheorems, TLAPS

Sequel == {"create", "write_first", "write_second", "open", "read", "emit", "close", "cleanup",
           "returned", "raised"}

Ended == {"cleanup", "returned", "raised"}

(* The files are unlinked in the finally block, which every path but the   *)
(* failing creation of one goes through.                                   *)
FilesAreKnown ==
    phase \in {"returned", "raised"} /\ error \notin {"create", "unlink"} => onDisk = {}

(* No error is in flight while the call goes on, except one that the       *)
(* writer's __exit__ will see; and only a writer without one publishes.    *)
OneErrorPath ==
    /\ session = [w \in Call |-> session[w]]
    /\ phase \notin {"close", "cleanup", "returned", "raised"} => error = None
    /\ phase = "close" => error = None \/ session["call"] = "failing"
    /\ session["call"] # "done" => target = None
    /\ session["call"] = "done" => phase \in Ended /\ error \in {None, "unlink"}

FailureInv == phase \in Sequel /\ FilesAreKnown /\ OneErrorPath

-----------------------------------------------------------------------------
(* The steps before the output is opened touch neither it nor the writer.  *)
LEMMA WritingRecords ==
    ASSUME NEW side \in Side, WriteRecord(side) \/ FinishWriting(side) \/ WriteRaises(side)
    PROVE  /\ phase \in {"write_first", "write_second"}
           /\ \/ phase' \in {phase, "write_second", "open"} /\ error' = error
              \/ phase' = "cleanup" /\ error' \in {"limit", "source"}
           /\ UNCHANGED <<config, onDisk, target, session>>
  BY DEF WriteRecord, FinishWriting, WriteRaises, WritePhase, Fail, call, files, output

(* Nothing that fails skips the finally block, and nothing is published    *)
(* with an error in flight, nor raised after it but by the unlinking.      *)
LEMMA FailureInvKept == ASSUME FailureInv, [Next]_vars PROVE FailureInv'
<1> USE NoneIsNoError DEF FailureInv, Sequel, Ended, FilesAreKnown
<1>1. ASSUME NEW f, CreatePath(f) \/ Unlink(f) PROVE FailureInv'
  BY <1>1 DEF CreatePath, Unlink, Earliest, OneErrorPath, output
<1>2. ASSUME CreateFails \/ UnlinkFails PROVE FailureInv'
  BY <1>2 DEF CreateFails, UnlinkFails, OneErrorPath, files, output
<1>3. ASSUME NEW side \in Side, WriteRecord(side) \/ FinishWriting(side) \/ WriteRaises(side)
      PROVE  FailureInv'
  BY <1>3, WritingRecords DEF OneErrorPath
<1>4. ASSUME StartCompare \/ OpenFails PROVE FailureInv'
  BY <1>4 DEF StartCompare, OpenFails, Fail, OneErrorPath, files, output, Out!Enter,
              Out!EnterFails, Out!Step, Call
<1>5. ASSUME ReadPartitions \/ FinishPartition \/ FinishCompare PROVE FailureInv'
  BY <1>5 DEF ReadPartitions, FinishPartition, FinishCompare, OneErrorPath, files, output
<1>6. ASSUME NEW side \in Side, EmitToken(side) PROVE FailureInv'
  BY <1>6 DEF EmitToken, Emit, OneErrorPath, files, output, Out!WriteRows
<1>7. ASSUME CompareRaises PROVE FailureInv'
  BY <1>7 DEF CompareRaises, Fail, OneErrorPath, files, output, Out!BodyRaises, Out!Step, Call
<1>8. ASSUME CloseWriter \/ ExitWriter PROVE FailureInv'
  BY <1>8 DEF CloseWriter, ExitWriter, OneErrorPath, files, Out!Close, Out!Replace, Out!Discard,
              Out!Step, Call
<1>9. ASSUME ExitWriterFails PROVE FailureInv'
  BY <1>9 DEF ExitWriterFails, Fail, OneErrorPath, files, Out!CloseFails, Out!ReplaceFails,
              Out!Step, Call
<1>10. ASSUME Leave PROVE FailureInv'
  BY <1>10 DEF Leave, OneErrorPath, files, output
<1>11. CASE UNCHANGED vars
  BY <1>11 DEF vars, OneErrorPath, files, output
<1>. QED  BY <1>1, <1>2, <1>3, <1>4, <1>5, <1>6, <1>7, <1>8, <1>9, <1>10, <1>11
          DEF Next, Progress, Failure

(* Once the partition files are made they are removed however the call     *)
(* ends, short of an unlink that fails, and a failed call leaves the       *)
(* output path as it was (compare_hash_partition and its finally block).   *)
THEOREM PartitionsAreRemoved == Spec => []FailureLeavesNoTrace
<1>1. Init => FailureInv
  BY DEF Init, Out!Init, Call, FailureInv, Sequel, FilesAreKnown, OneErrorPath
<1>2. FailureInv /\ [Next]_vars => FailureInv'
  BY FailureInvKept
<1>3. FailureInv => FailureLeavesNoTrace
  BY NoneIsNoError DEF FailureInv, FilesAreKnown, OneErrorPath, Ended, FailureLeavesNoTrace
<1>. QED  BY <1>1, <1>2, <1>3, PTL DEF Spec

-----------------------------------------------------------------------------
Counting ==
    /\ config \in Configs
    /\ input \in [Side -> Seq(Token)]
    /\ partitionOf \in [Token -> Partition]
    /\ file \in [Side -> [Partition -> Seq(Nat)]]
    /\ itemCount \in [Side -> Nat]

(* Between two checks the files grow by the records since the last one;    *)
(* the check that ends an input counts them all, and the count of the      *)
(* second input starts where that check left off.                          *)
GrowsBetweenChecks ==
    config.disk_limit # NoLimit =>
        /\ phase \in {"create", "write_first"} =>
              /\ TotalSize(file) <= Room + (itemCount["first"] % ChunkSize)
              /\ itemCount["second"] = 0
        /\ phase = "write_second" =>
              TotalSize(file) <= Room + (itemCount["second"] % ChunkSize)
        /\ phase \in {"open", "read", "emit"} => TotalSize(file) <= config.disk_limit
        /\ TotalSize(file) <= Room + ChunkSize

(* What a division leaves. *)
LEMMA Division ==
    ASSUME NEW n \in Nat, NEW c \in Nat, c > 0
    PROVE  (n % c) = n - c * (n \div c)
  BY Z3

(* A remainder never grows by more than one. *)
LEMMA Remainder ==
    ASSUME NEW n \in Nat
    PROVE  /\ 0 % ChunkSize = 0
           /\ n % ChunkSize \in 0..(ChunkSize - 1)
           /\ (n + 1) % ChunkSize # 0 => (n + 1) % ChunkSize = (n % ChunkSize) + 1
<1>1. ChunkSize \in Nat /\ ChunkSize > 0
  BY SizesArePositive
<1>2. 0 % ChunkSize = 0 /\ n % ChunkSize \in 0..(ChunkSize - 1)
  BY <1>1
<1>3. ASSUME (n + 1) % ChunkSize # 0 PROVE (n + 1) % ChunkSize = (n % ChunkSize) + 1
  <2> DEFINE q == n \div ChunkSize
             r == n % ChunkSize
             q1 == (n + 1) \div ChunkSize
             r1 == (n + 1) % ChunkSize
  <2>1. /\ q \in Int /\ r \in 0..(ChunkSize - 1) /\ n - r = ChunkSize * q
        /\ q1 \in Int /\ r1 \in 1..(ChunkSize - 1) /\ n + 1 - r1 = ChunkSize * q1
    <3>1. q \in Int /\ q1 \in Int /\ r \in 0..(ChunkSize - 1) /\ r1 \in 0..(ChunkSize - 1)
      BY <1>1
    <3>2. n + 1 \in Nat
      OBVIOUS
    <3>3. r = n - ChunkSize * q /\ r1 = n + 1 - ChunkSize * q1
      BY <1>1, <3>2, Division
    <3>4. ChunkSize * q \in Int /\ ChunkSize * q1 \in Int
      BY <1>1, <3>1
    <3> HIDE DEF q, r, q1, r1
    <3>5. n - r = ChunkSize * q /\ n + 1 - r1 = ChunkSize * q1
      BY <3>1, <3>3, <3>4
    <3>6. r1 # 0
      BY <1>3 DEF r1
    <3>. QED  BY <3>1, <3>5, <3>6
  <2>2. \A i, j \in Int : i < j => ChunkSize * i + ChunkSize <= ChunkSize * j
    BY <1>1
  <2> HIDE DEF q, r, q1, r1
  <2>3. ChunkSize * q \in Int /\ ChunkSize * q1 \in Int
    BY <1>1, <2>1
  <2>4. q = q1
    BY <1>1, <2>1, <2>2, <2>3
  <2>5. r1 = r + 1
    BY <2>1, <2>4, <2>3
  <2>. QED  BY <2>5 DEF r, r1
<1>. QED  BY <1>2, <1>3

Places(sizes) == UNION {{p} \X DOMAIN sizes[p] : p \in Partition}

(* Finitely many files of finite length have finitely many records. *)
LEMMA PlacesAreFinite ==
    ASSUME NEW sizes \in [Partition -> Seq(Nat)]
    PROVE  IsFiniteSet(Places(sizes)) /\ FileSize(sizes) \in Nat
<1>1. PartitionCount \in Nat
  BY SizesArePositive
<1>2. IsFiniteSet(Partition)
  BY <1>1, FS_Interval DEF Partition
<1>3. ASSUME NEW p \in Partition PROVE IsFiniteSet({p} \X DOMAIN sizes[p])
  <2>1. DOMAIN sizes[p] = 1..Len(sizes[p]) /\ Len(sizes[p]) \in Nat
    BY LenProperties
  <2>2. IsFiniteSet(DOMAIN sizes[p])
    BY <2>1, FS_Interval
  <2>3. IsFiniteSet({p})
    BY FS_Singleton
  <2>. QED  BY <2>2, <2>3, FS_Product
<1>4. IsFiniteSet({{p} \X DOMAIN sizes[p] : p \in Partition})
  <2> DEFINE S == {{p} \X DOMAIN sizes[p] : p \in Partition}
             f == [p \in Partition |-> {p} \X DOMAIN sizes[p]]
  <2>1. f \in Surjection(Partition, S)
    BY DEF Surjection
  <2>. QED  BY <1>2, <2>1, FS_Surjection
<1>5. IsFiniteSet(Places(sizes))
  <2>1. \A T \in {{p} \X DOMAIN sizes[p] : p \in Partition} : IsFiniteSet(T)
    BY <1>3
  <2>. QED  BY <2>1, <1>4, FS_UNION DEF Places
<1>. QED  BY <1>5, FS_CardinalityType DEF FileSize, Places

(* A record more in one of the files. *)
LEMMA OneRecordMore ==
    ASSUME NEW sizes \in [Partition -> Seq(Nat)], NEW p \in Partition, NEW i \in Nat
    PROVE  /\ [sizes EXCEPT ![p] = Append(@, i)] \in [Partition -> Seq(Nat)]
           /\ FileSize([sizes EXCEPT ![p] = Append(@, i)]) = FileSize(sizes) + 1
<1> DEFINE grown == [sizes EXCEPT ![p] = Append(@, i)]
           n == Len(sizes[p])
<1>1. /\ n \in Nat /\ DOMAIN sizes[p] = 1..n /\ Append(sizes[p], i) \in Seq(Nat)
      /\ DOMAIN Append(sizes[p], i) = 1..(n + 1)
  BY LenProperties, AppendProperties
<1>2. grown \in [Partition -> Seq(Nat)]
  BY <1>1
<1>3. Places(grown) = Places(sizes) \cup {<<p, n + 1>>} /\ <<p, n + 1>> \notin Places(sizes)
  <2>1. 1..(n + 1) = 1..n \cup {n + 1} /\ n + 1 \notin 1..n
    BY <1>1
  <2>2. \A q \in Partition : DOMAIN grown[q] = IF q = p THEN 1..n \cup {n + 1} ELSE DOMAIN sizes[q]
    BY <1>1, <2>1
  <2> HIDE DEF grown, n
  <2>3. ASSUME NEW x PROVE x \in Places(grown) <=> x \in Places(sizes) \/ x = <<p, n + 1>>
    <3>1. x \in Places(grown) <=> \E q \in Partition : x \in {q} \X DOMAIN grown[q]
      BY DEF Places
    <3>2. x \in Places(sizes) <=> \E q \in Partition : x \in {q} \X DOMAIN sizes[q]
      BY DEF Places
    <3>3. \A q \in Partition : x \in {q} \X DOMAIN grown[q] <=>
             x \in {q} \X DOMAIN sizes[q] \/ (q = p /\ x = <<p, n + 1>>)
      BY <1>1, <2>1, <2>2
    <3>. QED  BY <3>1, <3>2, <3>3
  <2>4. <<p, n + 1>> \notin Places(sizes)
    BY <1>1, <2>1 DEF Places
  <2>. QED  BY <2>3, <2>4
<1>4. Cardinality(Places(grown)) = Cardinality(Places(sizes)) + 1
  BY <1>3, PlacesAreFinite, FS_AddElement
<1>. QED  BY <1>2, <1>4 DEF FileSize, Places

(* Every step keeps the types the counting relies on. *)
LEMMA CountingKept == ASSUME Counting, [Next]_vars PROVE Counting'
<1>1. ASSUME NEW side \in Side, WriteRecord(side) PROVE Counting'
  <2> DEFINE i == itemCount[side] + 1
             p == partitionOf[input[side][i]]
  <2>1. i \in Nat /\ input[side][i] \in Token
    <3>1. itemCount[side] \in Nat /\ input[side] \in Seq(Token) /\ Len(input[side]) \in Nat
      BY LenProperties DEF Counting
    <3>2. i \in 1..Len(input[side])
      BY <1>1, <3>1 DEF WriteRecord
    <3>. QED  BY <3>1, <3>2, ElementOfSeq
  <2>2. p \in Partition
    BY <2>1 DEF Counting
  <2>3. Append(file[side][p], i) \in Seq(Nat)
    BY <2>1, <2>2, AppendProperties DEF Counting
  <2>4. file' \in [Side -> [Partition -> Seq(Nat)]]
    BY <1>1, <2>2, <2>3 DEF WriteRecord, Written, Counting
  <2>5. itemCount' \in [Side -> Nat]
    BY <1>1, <2>1 DEF WriteRecord, Counting
  <2>. QED  BY <1>1, <2>4, <2>5 DEF WriteRecord, Counting, call
<1>2. CASE UNCHANGED <<call, file, itemCount>>
  BY <1>2 DEF Counting, call
<1>. QED
  BY <1>1, <1>2
  DEF Next, Progress, Failure, CreatePath, Unlink, FinishWriting, EmitToken, StartCompare,
      ReadPartitions, FinishPartition, FinishCompare, CloseWriter, ExitWriter, Leave, CreateFails,
      WriteRaises, OpenFails, CompareRaises, ExitWriterFails, UnlinkFails, vars, files

(* _write_partitions writes one record: both inputs' files are one larger. *)
LEMMA WrittenIsCounted ==
    ASSUME Counting, NEW side \in Side, WriteRecord(side)
    PROVE  TotalSize(file') = TotalSize(file) + 1 /\ TotalSize(file) \in Nat
<1> DEFINE i == itemCount[side] + 1
           p == partitionOf[input[side][i]]
<1>1. i \in Nat /\ p \in Partition
  <2>1. itemCount[side] \in Nat /\ input[side] \in Seq(Token) /\ Len(input[side]) \in Nat
    BY LenProperties DEF Counting
  <2>2. i \in 1..Len(input[side])
    BY <2>1 DEF WriteRecord
  <2>3. input[side][i] \in Token
    BY <2>1, <2>2, ElementOfSeq
  <2>. QED  BY <2>1, <2>3 DEF Counting
<1>2. \A s \in Side : file[s] \in [Partition -> Seq(Nat)] /\ FileSize(file[s]) \in Nat
  BY PlacesAreFinite DEF Counting
<1>3. file'[side] = [file[side] EXCEPT ![p] = Append(@, i)]
  BY DEF WriteRecord, Written, Counting
<1>4. \A s \in Side : s # side => file'[s] = file[s]
  BY DEF WriteRecord, Written, Counting
<1> HIDE DEF i, p
<1>5. FileSize(file'[side]) = FileSize(file[side]) + 1
  <2>1. file[side] \in [Partition -> Seq(Nat)]
    BY <1>2
  <2>2. FileSize([file[side] EXCEPT ![p] = Append(@, i)]) = FileSize(file[side]) + 1
    BY <1>1, <2>1, OneRecordMore
  <2>. QED  BY <1>3, <2>2
<1>6. \A s \in Side : s # side => FileSize(file'[s]) = FileSize(file[s])
  BY <1>4
<1>7. "first" \in Side /\ "second" \in Side /\ Side = {"first", "second"}
  BY DEF Side
<1>8. CASE side = "first"
  BY <1>2, <1>5, <1>6, <1>7, <1>8 DEF TotalSize
<1>9. CASE side = "second"
  BY <1>2, <1>5, <1>6, <1>7, <1>9 DEF TotalSize
<1>. QED  BY <1>7, <1>8, <1>9

(* The files' total is a number of records. *)
LEMMA TotalIsNat == Counting => TotalSize(file) \in Nat
<1> SUFFICES ASSUME Counting PROVE TotalSize(file) \in Nat
  OBVIOUS
<1>1. FileSize(file["first"]) \in Nat /\ FileSize(file["second"]) \in Nat
  BY PlacesAreFinite DEF Counting, Side
<1>. QED  BY <1>1 DEF TotalSize

(* A record is written: either the check is not due, and the remainder     *)
(* grows, or it is, and the files fit or the call fails.                   *)
LEMMA WriteRecordKeepsLimit ==
    ASSUME Counting, GrowsBetweenChecks, NEW side \in Side, WriteRecord(side)
    PROVE  GrowsBetweenChecks'
<1> SUFFICES ASSUME config.disk_limit # NoLimit PROVE GrowsBetweenChecks'
  BY DEF WriteRecord, call, GrowsBetweenChecks
<1> DEFINE n == itemCount[side]
           limit == Room
           total == TotalSize(file)
<1>1. /\ n \in Nat /\ limit \in Nat /\ config.disk_limit <= limit /\ total \in Nat /\ TotalSize(file') = total + 1
      /\ ChunkSize \in Nat /\ ChunkSize > 0
  BY LimitsAreSizes, SizesArePositive, WrittenIsCounted DEF Counting, Room
<1>2. /\ phase = WritePhase(side) /\ config' = config
      /\ itemCount' = [itemCount EXCEPT ![side] = n + 1] /\ itemCount \in [Side -> Nat]
      /\ \/ phase' = "cleanup"
         \/ phase' = phase /\ ~(CheckIsDue(side) /\ total + 1 > config.disk_limit)
  BY <1>1 DEF WriteRecord, Fail, OverLimit, call, Counting
<1>3. total <= limit + (n % ChunkSize)
  BY <1>2 DEF GrowsBetweenChecks, WritePhase, Side
<1>4. /\ n % ChunkSize \in 0..(ChunkSize - 1)
      /\ (n + 1) % ChunkSize \in 0..(ChunkSize - 1)
      /\ (n + 1) % ChunkSize # 0 => (n + 1) % ChunkSize = (n % ChunkSize) + 1
  <2>1. n + 1 \in Nat
    BY <1>1
  <2>. QED  BY <1>1, <2>1, Remainder
<1>5. total + 1 <= limit + ChunkSize
  BY <1>1, <1>3, <1>4
<1>6. phase' = phase => total + 1 <= limit + ((n + 1) % ChunkSize)
  <2>1. config.disk_limit \in Int
    BY LimitsAreSizes DEF Counting
  <2>. QED  BY <2>1, <1>1, <1>2, <1>3, <1>4 DEF CheckIsDue, WritePhase
<1>7. itemCount'[side] = n + 1 /\ \A s \in Side : s # side => itemCount'[s] = itemCount[s]
  BY <1>2
<1> HIDE DEF n, limit, total
<1>8. limit = Room'
  BY <1>2 DEF limit, Room
<1>9. CASE side = "first"
  <2>1. itemCount["second"] = 0
    BY <1>2, <1>9 DEF GrowsBetweenChecks, WritePhase
  <2>2. itemCount'["second"] = 0
    BY <1>7, <1>9, <2>1 DEF Side
  <2>. QED  BY <1>1, <1>2, <1>5, <1>6, <1>7, <1>8, <1>9, <2>2 DEF GrowsBetweenChecks, WritePhase
<1>10. CASE side = "second"
  BY <1>1, <1>2, <1>5, <1>6, <1>7, <1>8, <1>10 DEF GrowsBetweenChecks, WritePhase
<1>. QED  BY <1>9, <1>10 DEF Side

(* The end of an input: the last check of _write_partitions. *)
LEMMA FinishWritingKeepsLimit ==
    ASSUME Counting, GrowsBetweenChecks, NEW side \in Side, FinishWriting(side)
    PROVE  GrowsBetweenChecks'
<1>1. /\ TotalSize(file) \in Nat /\ 0 % ChunkSize = 0
      /\ UNCHANGED <<config, file, itemCount>> /\ phase = WritePhase(side)
      /\ config.disk_limit # NoLimit =>
            config.disk_limit \in Int /\ Room \in Nat /\ config.disk_limit <= Room
  <2>1. TotalSize(file) \in Nat /\ 0 % ChunkSize = 0
    BY TotalIsNat, Remainder
  <2>2. UNCHANGED <<config, file, itemCount>> /\ phase = WritePhase(side)
    BY DEF FinishWriting, call, files
  <2>3. config.disk_limit # NoLimit =>
           config.disk_limit \in Int /\ Room \in Nat /\ config.disk_limit <= Room
    BY LimitsAreSizes DEF Room, Counting
  <2>. QED  BY <2>1, <2>2, <2>3
<1>2. \/ phase' = "cleanup"
      \/ /\ config.disk_limit # NoLimit => TotalSize(file) <= config.disk_limit
         /\ phase' = "open" \/ (phase' = "write_second" /\ side = "first")
  BY <1>1 DEF FinishWriting, Fail, OverLimit
<1>3. side = "first" /\ config.disk_limit # NoLimit => itemCount["second"] = 0
  BY <1>1 DEF GrowsBetweenChecks, WritePhase
<1>4. Room' = Room /\ ChunkSize \in Nat
  BY <1>1, SizesArePositive DEF Room
<1>. QED  BY <1>1, <1>2, <1>3, <1>4 DEF GrowsBetweenChecks

(* The other steps write no record. *)
LEMMA GrowsBetweenChecksKept ==
    ASSUME Counting, GrowsBetweenChecks, [Next]_vars PROVE GrowsBetweenChecks'
<1>1. ASSUME NEW f, CreatePath(f) PROVE GrowsBetweenChecks'
  BY <1>1 DEF CreatePath, call, GrowsBetweenChecks, Room
<1>2. ASSUME UNCHANGED <<config, file, itemCount>>,
             \/ phase' \in {phase, "close", "cleanup", "returned", "raised"}
             \/ phase \in {"open", "read", "emit"} /\ phase' \in {"read", "emit"}
      PROVE  GrowsBetweenChecks'
  BY <1>2 DEF GrowsBetweenChecks, Room
<1>. QED
  BY <1>1, <1>2, WriteRecordKeepsLimit, FinishWritingKeepsLimit
  DEF Next, Progress, Failure, Unlink, EmitToken, StartCompare, ReadPartitions, FinishPartition,
      FinishCompare, CloseWriter, ExitWriter, Leave, CreateFails, WriteRaises, OpenFails,
      CompareRaises, ExitWriterFails, UnlinkFails, Fail, vars, call, files

(* docs/limitations-security.md, "If the configured disk_limit is          *)
(* exceeded, the operation fails": for every input, hash, chunk size and   *)
(* limit, partitions are compared only when all the files fit, and while   *)
(* they are written the limit is overshot by at most one chunk.            *)
THEOREM LimitIsEnforced == Spec => []DiskLimitEnforced
<1> DEFINE Inv == Counting /\ GrowsBetweenChecks
<1>1. Init => Inv
  <2> SUFFICES ASSUME Init PROVE Inv
    OBVIOUS
  <2>1. Counting
    BY InputsAreBlobs, EmptySeq DEF Init, Counting
  <2>2. TotalSize(file) = 0
    <3>1. \A side \in Side : UNION {{p} \X DOMAIN file[side][p] : p \in Partition} = {}
      BY DEF Init
    <3>2. \A side \in Side : FileSize(file[side]) = 0
      BY <3>1, FS_EmptySet DEF FileSize
    <3>. QED  BY <3>2 DEF TotalSize, Side
  <2>3. 0 % ChunkSize = 0 /\ (config.disk_limit # NoLimit => Room \in Nat)
    BY <2>1, Remainder, LimitsAreSizes DEF Counting, Room
  <2>4. ChunkSize \in Nat
    BY SizesArePositive
  <2>. QED  BY <2>1, <2>2, <2>3, <2>4 DEF Init, GrowsBetweenChecks, Side
<1>2. Inv /\ [Next]_vars => Inv'
  BY CountingKept, GrowsBetweenChecksKept
<1>3. Inv => DiskLimitEnforced
  BY DEF GrowsBetweenChecks, DiskLimitEnforced
<1>. QED  BY <1>1, <1>2, <1>3, PTL DEF Spec

-----------------------------------------------------------------------------
(* The lemmas about rows are stated for any writer of a file. *)
Listing == INSTANCE ResultFileProofs WITH
              Writer <- Call, Kind <- [w \in Call |-> "stream"], Content <- [w \in Call |-> <<>>]

(* The backend and the lemmas about rows share their vocabulary. *)
LEMMA SameRows ==
    /\ \A name, side, q : Listing!Rows(name, side, q) = Rows(name, side, q)
    /\ \A name, side, i : Listing!Row(name, side, i) = Row(name, side, i)
    /\ \A rows : Listing!ToSet(rows) = ToSet(rows)
    /\ \A rows : Listing!FirstOf(rows) = FirstOf(rows)
    /\ \A S : Listing!InOrder(S) = InOrder(S)
    /\ \A rows : Listing!RepeatsOf(rows) = RepeatsOf(rows)
    /\ \A list, places : Listing!EntriesAt(list, places) = EntriesAt(list, places)
    /\ \A S : Listing!Cardinality(S) = Cardinality(S)
    /\ \A S : Listing!IsFiniteSet(S) <=> IsFiniteSet(S)
<1>1. \A name, side, i : Listing!Row(name, side, i) = Row(name, side, i)
  BY DEF Listing!Row, Row
<1>2. \A name, side, q : Listing!Rows(name, side, q) = Rows(name, side, q)
  BY <1>1 DEF Listing!Rows, Rows, Listing!Row, Row
<1>3. \A rows : Listing!ToSet(rows) = ToSet(rows)
  BY DEF Listing!ToSet, ToSet
<1>4. \A rows : Listing!FirstOf(rows) = FirstOf(rows)
  BY DEF Listing!FirstOf, FirstOf, Listing!ToSet, ToSet
<1>5. \A S : Listing!Cardinality(S) = Cardinality(S)
  BY DEF Listing!Cardinality, Cardinality
<1>6. \A S : Listing!InOrder(S) = InOrder(S)
  BY DEF Listing!InOrder, InOrder, Listing!Cardinality, Cardinality
<1>7. \A rows : Listing!RepeatsOf(rows) = RepeatsOf(rows)
  BY <1>3, <1>4, <1>6 DEF Listing!RepeatsOf, RepeatsOf
<1>8. \A list, places : Listing!EntriesAt(list, places) = EntriesAt(list, places)
  BY <1>6 DEF Listing!EntriesAt, EntriesAt
<1>9. \A S : Listing!IsFiniteSet(S) <=> IsFiniteSet(S)
  BY DEF Listing!IsFiniteSet, IsFiniteSet
<1>. QED  BY <1>1, <1>2, <1>3, <1>4, <1>5, <1>6, <1>7, <1>8, <1>9

(* Also for the answer read back from the rows. *)
LEMMA SameAnswers ==
    \A rows, c, sizes, counters, absent :
        Listing!AnswerOf(rows, c, sizes, counters, absent) = AnswerOf(rows, c, sizes, counters, absent)
<1>1. \A list, places : Listing!EntriesAt(list, places) = EntriesAt(list, places)
  BY SameRows
<1>2. \A q : Listing!ByOrdinal(q) = ByOrdinal(q)
  BY DEF Listing!ByOrdinal, ByOrdinal, Listing!Cardinality, Cardinality
<1>3. \A rows, name, side, mode :
         Listing!Section(rows, name, side, mode) = Section(rows, name, side, mode)
  BY <1>1, <1>2 DEF Listing!Section, Section
<1>. QED  BY <1>3 DEF Listing!AnswerOf, AnswerOf, Listing!Side, Side

(* And for what a comparison means. *)
LEMMA SameMeaning ==
    /\ \A q, S, ordered : Listing!Lists(q, S, ordered) <=> Lists(q, S, ordered)
    /\ \A s : /\ Listing!FirstOrdinals(s) = FirstOrdinals(s)
              /\ Listing!RepeatOrdinals(s) = RepeatOrdinals(s)
    /\ \A s, o : /\ Listing!OnlyOrdinals(s, o) = OnlyOrdinals(s, o)
                 /\ Listing!CommonOrdinals(s, o) = CommonOrdinals(s, o)
    /\ Listing!Side = Side
    /\ \A side : Listing!Other(side) = Other(side)
<1>1. \A q, S : Listing!Enumerates(q, S) <=> Enumerates(q, S)
  BY DEF Listing!Enumerates, Enumerates, Listing!Bijection, Bijection,
         Listing!Injection, Injection, Listing!Surjection, Surjection,
         Listing!IsInjective, IsInjective
<1>2. \A q : Listing!Ascending(q) <=> Ascending(q)
  BY DEF Listing!Ascending, Ascending
<1>3. \A s : /\ Listing!FirstOrdinals(s) = FirstOrdinals(s)
             /\ Listing!RepeatOrdinals(s) = RepeatOrdinals(s)
  BY DEF Listing!FirstOrdinals, FirstOrdinals, Listing!RepeatOrdinals, RepeatOrdinals,
         Listing!IsFirst, IsFirst
<1>4. \A t, s : Listing!Occurs(t, s) <=> Occurs(t, s)
  BY DEF Listing!Occurs, Occurs
<1>5. \A s, o : /\ Listing!OnlyOrdinals(s, o) = OnlyOrdinals(s, o)
                /\ Listing!CommonOrdinals(s, o) = CommonOrdinals(s, o)
  BY <1>3, <1>4 DEF Listing!OnlyOrdinals, OnlyOrdinals, Listing!CommonOrdinals, CommonOrdinals
<1>. QED  BY <1>1, <1>2, <1>3, <1>5
          DEF Listing!Lists, Lists, Listing!Side, Side, Listing!Other, Other

(* Groups of the rows of a partition: each the rows of one token, no two   *)
(* of one token; and such groups of them all.                              *)
AreGroups(s, S, groups) ==
    /\ groups \in Seq(Seq(Nat))
    /\ \A k \in 1..Len(groups) :
          /\ Len(groups[k]) > 0 /\ groups[k][1] \in S
          /\ ToSet(groups[k]) = {i \in S : s[i] = s[groups[k][1]]}
    /\ \A k, l \in 1..Len(groups) : s[groups[k][1]] = s[groups[l][1]] => k = l

TokensOf(s, groups) == {s[groups[k][1]] : k \in 1..Len(groups)}

IsGrouped(s, S, groups) ==
    /\ AreGroups(s, S, groups)
    /\ \A i \in S : \E k \in 1..Len(groups) : s[groups[k][1]] = s[i]

(* _read_partition: a dict from token to rows, in the order they are read. *)
LEMMA RowsAreGrouped ==
    ASSUME NEW side \in Side, input[side] \in Seq(Token), NEW records \in Seq(Nat),
           NEW S \in SUBSET (1..Len(input[side])), Lists(records, S, TRUE)
    PROVE  IsGrouped(input[side], S, RowsByToken(side, records))
<1> DEFINE n == Len(records)
           token(p) == input[side][records[p]]
           tokens == [p \in 1..n |-> token(p)]
           P == {p \in 1..n : \A q \in 1..(p - 1) : token(q) # token(p)}
           firsts == InOrder(P)
           m == Len(firsts)
           same(k) == {p \in 1..n : token(p) = token(firsts[k])}
           groups == RowsByToken(side, records)
<1>1. /\ n \in Nat
      /\ \A p \in 1..n : records[p] \in S
      /\ \A i \in S : \E p \in 1..n : records[p] = i
  BY LenProperties DEF Lists, Enumerates, Bijection, Injection, Surjection
<1>2. groups = [k \in 1..m |-> EntriesAt(records, same(k))]
  BY DEF RowsByToken
<1>3. P \subseteq 1..n /\ P \subseteq Nat /\ IsFiniteSet(P)
  <2>1. IsFiniteSet(1..n) /\ P \subseteq 1..n
    BY <1>1, FS_Interval
  <2>. QED  BY <1>1, <2>1, FS_Subset
<1>4. /\ m \in Nat /\ \A k \in 1..m : firsts[k] \in P
      /\ \A p \in P : \E k \in 1..m : firsts[k] = p
      /\ \A k, l \in 1..m : firsts[k] = firsts[l] => k = l
  <2>1. PICK Q : Q = P
    OBVIOUS
  <2>2. Lists(InOrder(Q), Q, TRUE) /\ InOrder(Q) \in Seq(Q)
    <3>1. Q \subseteq Nat /\ Listing!IsFiniteSet(Q)
      BY <1>3, <2>1, SameRows
    <3>2. /\ Listing!Lists(Listing!InOrder(Q), Q, TRUE)
          /\ Listing!InOrder(Q) \in Seq(Q)
      BY <3>1, Listing!InOrderLists
    <3>. QED  BY <3>2, SameRows, SameMeaning
  <2>3. Lists(firsts, Q, TRUE) /\ firsts \in Seq(Q)
    BY <2>1, <2>2
  <2> HIDE DEF firsts
  <2>4. m \in Nat /\ firsts \in Bijection(1..m, Q)
    BY <2>3, LenProperties DEF Lists, Enumerates
  <2>. QED  BY <2>1, <2>4 DEF Bijection, Injection, Surjection, IsInjective
<1>5. \A p \in 1..n : \E q \in P : token(q) = token(p)
  <2>1. tokens \in Seq(Token) /\ Len(tokens) = n
    <3>1. \A i \in S : input[side][i] \in Token
      BY ElementOfSeq
    <3>2. tokens \in [1..n -> Token]
      BY <1>1, <3>1
    <3> HIDE DEF tokens
    <3>. QED  BY <1>1, <3>2, Listing!FunctionIsList
  <2>2. \A p \in 1..n : \E q \in FirstOrdinals(tokens) : tokens[q] = tokens[p]
    <3>1. PICK s \in Seq(Token) : s = tokens
      BY <2>1
    <3>2. ASSUME NEW p \in 1..Len(s) PROVE \E q \in Listing!FirstOrdinals(s) : s[q] = s[p]
      BY Listing!FirstExists
    <3>3. Listing!FirstOrdinals(s) = FirstOrdinals(s)
      BY SameMeaning
    <3> HIDE DEF tokens
    <3>. QED  BY <2>1, <3>1, <3>2, <3>3
  <2>3. FirstOrdinals(tokens) = P
    <3>1. \A p \in 1..n : IsFirst(tokens, p) <=> \A q \in 1..(p - 1) : token(q) # token(p)
      <4> SUFFICES ASSUME NEW p \in 1..n
                   PROVE  IsFirst(tokens, p) <=> \A q \in 1..(p - 1) : token(q) # token(p)
        OBVIOUS
      <4>1. \A q \in 1..(p - 1) : q \in 1..n
        BY <1>1
      <4>2. \A q \in 1..n : tokens[q] = token(q)
        OBVIOUS
      <4> HIDE DEF tokens, token, n
      <4>. QED  BY <4>1, <4>2 DEF IsFirst
    <3> HIDE DEF tokens, token
    <3>. QED  BY <2>1, <3>1 DEF FirstOrdinals
  <2>4. \A p \in 1..n : tokens[p] = token(p)
    OBVIOUS
  <2> HIDE DEF tokens, token, P
  <2>. QED  BY <1>3, <2>2, <2>3, <2>4
<1>6. ASSUME NEW p \in P, NEW q \in P, token(p) = token(q) PROVE p = q
  <2>1. p \in 1..n /\ q \in 1..n
    OBVIOUS
  <2>2. ~(p < q) /\ ~(q < p)
    BY <1>1, <1>6, <2>1
  <2>. QED  BY <1>1, <2>1, <2>2
<1>7. \A k \in 1..m : same(k) \subseteq 1..n /\ firsts[k] \in same(k)
  BY <1>3, <1>4
<1> HIDE DEF m, groups, firsts, P, n
<1>8. ASSUME NEW k \in 1..m
      PROVE  /\ groups[k] \in Seq(Nat) /\ Len(groups[k]) > 0
             /\ ToSet(groups[k]) = {records[p] : p \in same(k)}
  <2>1. same(k) \in SUBSET (1..Len(records)) /\ same(k) # {}
    BY <1>7 DEF n
  <2>2. groups[k] = EntriesAt(records, same(k))
    BY <1>2
  <2> HIDE DEF same
  <2>3. /\ Listing!EntriesAt(records, same(k)) \in Seq(Nat)
        /\ Listing!ToSet(Listing!EntriesAt(records, same(k))) = {records[p] : p \in same(k)}
        /\ Len(Listing!EntriesAt(records, same(k))) > 0
    BY <2>1, Listing!EntriesAreThose
  <2>. QED  BY <2>2, <2>3, SameRows
<1>9. ASSUME NEW k \in 1..m
      PROVE  groups[k][1] \in S /\ input[side][groups[k][1]] = token(firsts[k])
  <2>1. groups[k][1] \in ToSet(groups[k])
    <3>1. groups[k] \in Seq(Nat) /\ Len(groups[k]) > 0 /\ Len(groups[k]) \in Nat
      BY <1>8, LenProperties
    <3>2. 1 \in DOMAIN groups[k]
      BY <3>1, LenProperties
    <3>. QED  BY <3>2 DEF ToSet
  <2>2. PICK p \in same(k) : groups[k][1] = records[p]
    BY <1>8, <2>1
  <2>3. p \in 1..n /\ token(p) = token(firsts[k])
    OBVIOUS
  <2>. QED  BY <1>1, <2>2, <2>3
<1>10. ASSUME NEW k \in 1..m
       PROVE  ToSet(groups[k]) = {i \in S : input[side][i] = input[side][groups[k][1]]}
  <2>1. \A p \in same(k) : p \in 1..n /\ records[p] \in S /\ input[side][records[p]] = token(firsts[k])
    BY <1>1
  <2>2. ASSUME NEW i \in S, input[side][i] = token(firsts[k]) PROVE \E p \in same(k) : records[p] = i
    <3>1. PICK p \in 1..n : records[p] = i
      BY <1>1
    <3>2. p \in same(k)
      BY <2>2, <3>1
    <3>. QED  BY <3>1, <3>2
  <2> HIDE DEF same, token
  <2>3. \A x : x \in {records[p] : p \in same(k)}
                 <=> x \in {i \in S : input[side][i] = token(firsts[k])}
    <3>1. ASSUME NEW p \in same(k)
          PROVE  records[p] \in {i \in S : input[side][i] = token(firsts[k])}
      BY <2>1
    <3>2. ASSUME NEW i \in {j \in S : input[side][j] = token(firsts[k])}
          PROVE  i \in {records[p] : p \in same(k)}
      BY <2>2
    <3>. QED  BY <3>1, <3>2
  <2>. QED  BY <1>8, <1>9, <2>3
<1>11. groups \in Seq(Seq(Nat)) /\ Len(groups) = m
  <2>1. DOMAIN groups = 1..m
    BY <1>2
  <2>2. groups = [k \in 1..m |-> groups[k]]
    BY <1>2
  <2>3. groups \in [1..m -> Seq(Nat)]
    BY <1>8, <2>2
  <2>. QED  BY <1>4, <2>3, Listing!FunctionIsList
<1>12. ASSUME NEW k \in 1..m, NEW l \in 1..m,
              input[side][groups[k][1]] = input[side][groups[l][1]]
       PROVE  k = l
  <2>1. token(firsts[k]) = token(firsts[l])
    BY <1>9, <1>12
  <2>2. firsts[k] = firsts[l]
    BY <1>4, <1>6, <2>1
  <2>. QED  BY <1>4, <2>2
<1>13. ASSUME NEW i \in S PROVE \E k \in 1..m : input[side][groups[k][1]] = input[side][i]
  <2>1. PICK p \in 1..n : records[p] = i
    BY <1>1
  <2>2. PICK q \in P : token(q) = token(p)
    BY <1>5
  <2>3. PICK k \in 1..m : firsts[k] = q
    BY <1>4
  <2>. QED  BY <1>9, <2>1, <2>2, <2>3
<1>. QED  BY <1>8, <1>9, <1>10, <1>11, <1>12, <1>13 DEF IsGrouped, AreGroups, groups

(* The records of a side that go to a partition, of the first n. *)
PartOf(in, of, side, p, n) == {i \in 1..n : of[in[side][i]] = p}

(* From here on the files are read. *)
Comparing == {"open", "read", "emit", "close"}
Succeeding == phase \in {"cleanup", "returned"} /\ error = None

(* Every record read so far is in the file of its partition, in order;     *)
(* when the files are compared they hold all of them.                      *)
FilesHoldInputs ==
    /\ \A side \in Side, p \in Partition :
          Lists(file[side][p], PartOf(input, partitionOf, side, p, itemCount[side]), TRUE)
    /\ \A side \in Side : itemCount[side] <= Len(input[side])
    /\ phase = "write_second" => config.operation = "compare"
    /\ phase \in {"create", "write_first"} \/ config.operation = "duplicates" =>
          itemCount["second"] = 0
    /\ phase \in Comparing \cup {"write_second"} \/ Succeeding =>
          itemCount["first"] = Len(input["first"])
    /\ (phase \in Comparing \/ Succeeding) /\ config.operation = "compare" =>
          itemCount["second"] = Len(input["second"])

(* _write_partitions appends a record to the file of its partition.        *)
LEMMA RecordIsFiled ==
    ASSUME Counting, FilesHoldInputs, NEW side \in Side, WriteRecord(side)
    PROVE  /\ \A s \in Side, p \in Partition :
                 Lists(file'[s][p], PartOf(input, partitionOf, s, p, itemCount'[s]), TRUE)
           /\ \A s \in Side : itemCount'[s] <= Len(input[s])
<1> DEFINE n == itemCount[side]
           i == n + 1
           here == partitionOf[input[side][i]]
<1>1. /\ n \in Nat /\ i \in Nat /\ i \in 1..Len(input[side]) /\ here \in Partition
      /\ i <= Len(input[side])
  <2>1. n \in Nat /\ input[side] \in Seq(Token) /\ Len(input[side]) \in Nat
    BY LenProperties DEF Counting
  <2>2. i \in 1..Len(input[side])
    BY <2>1 DEF WriteRecord
  <2>3. input[side][i] \in Token
    BY <2>1, <2>2, ElementOfSeq
  <2>. QED  BY <2>1, <2>2, <2>3 DEF Counting
<1>2. /\ itemCount' = [itemCount EXCEPT ![side] = i]
      /\ file' = [file EXCEPT ![side][here] = Append(@, i)]
      /\ file \in [Side -> [Partition -> Seq(Nat)]] /\ itemCount \in [Side -> Nat]
  BY DEF WriteRecord, Written, Counting
<1> HIDE DEF n, here
<1>3. /\ itemCount'[side] = i
      /\ \A s \in Side : s # side => itemCount'[s] = itemCount[s] /\ file'[s] = file[s]
      /\ file'[side][here] = Append(file[side][here], i)
      /\ \A p \in Partition : p # here => file'[side][p] = file[side][p]
  BY <1>1, <1>2
<1> HIDE DEF i
<1>4. ASSUME NEW p \in Partition
      PROVE  /\ p = here => PartOf(input, partitionOf, side, p, i)
                              = PartOf(input, partitionOf, side, p, n) \cup {i}
             /\ p # here => PartOf(input, partitionOf, side, p, i)
                              = PartOf(input, partitionOf, side, p, n)
  <2>1. 1..i = 1..n \cup {i} /\ n \in Nat
    BY <1>1 DEF i
  <2>. QED  BY <2>1 DEF PartOf, here
<1>5. Lists(file'[side][here], PartOf(input, partitionOf, side, here, i), TRUE)
  <2>1. PICK q, S : q = file[side][here] /\ S = PartOf(input, partitionOf, side, here, n)
    OBVIOUS
  <2>2. /\ q \in Seq(Nat) /\ S \in SUBSET Nat /\ i \in Nat
        /\ \A j \in S : j < i
        /\ Lists(q, S, TRUE)
    <3>1. q \in Seq(Nat) /\ i \in Nat
      BY <1>1, <1>2, <2>1
    <3>2. Lists(q, S, TRUE)
      BY <1>1, <2>1 DEF FilesHoldInputs, n
    <3>3. S \subseteq 1..n /\ n \in Nat /\ i = n + 1
      BY <1>1, <2>1 DEF PartOf, i
    <3>4. \A j \in S : j \in 1..n
      BY <3>3
    <3>5. \A j \in 1..n : j \in Nat /\ j < i
      BY <3>3
    <3>. QED  BY <3>1, <3>2, <3>4, <3>5
  <2>3. Listing!Lists(Append(q, i), S \cup {i}, TRUE)
    <3>1. Listing!Lists(q, S, TRUE)
      BY <2>2, SameMeaning
    <3>2. PICK r \in Nat : r = i
      BY <2>2
    <3>3. \A j \in S : j < r
      BY <2>2, <3>2
    <3>4. Listing!Lists(Append(q, r), S \cup {r}, TRUE)
      BY <2>2, <3>1, <3>3, Listing!ListGrows
    <3>. QED  BY <3>2, <3>4
  <2>4. Lists(Append(q, i), S \cup {i}, TRUE)
    BY <2>3, SameMeaning
  <2>. QED  BY <1>1, <1>3, <1>4, <2>1, <2>4
<1>6. ASSUME NEW p \in Partition
      PROVE  Lists(file'[side][p], PartOf(input, partitionOf, side, p, i), TRUE)
  BY <1>3, <1>4, <1>5 DEF FilesHoldInputs, n
<1>. QED  BY <1>1, <1>3, <1>6 DEF FilesHoldInputs

(* Every step keeps the files right. *)
LEMMA FilesHoldInputsKept == ASSUME Counting, FilesHoldInputs, FailureInv, [Next]_vars PROVE FilesHoldInputs'
<1>1. ASSUME NEW side \in Side, WriteRecord(side) PROVE FilesHoldInputs'
  <2>1. /\ phase = WritePhase(side) /\ itemCount[side] < Len(input[side])
        /\ phase' = phase \/ (phase' = "cleanup" /\ error' = "limit")
        /\ UNCHANGED <<input, config, partitionOf>>
        /\ \A s \in Side : s # side => itemCount'[s] = itemCount[s]
    BY <1>1 DEF WriteRecord, Fail, call, Counting
  <2>2. ~Succeeding' /\ phase' \notin Comparing
    BY <2>1, NoneIsNoError DEF Succeeding, Comparing, WritePhase
  <2>3. CASE side = "first"
    BY <1>1, <2>1, <2>2, <2>3, RecordIsFiled DEF FilesHoldInputs, WritePhase, Side
  <2>4. CASE side = "second"
    BY <1>1, <2>1, <2>2, <2>4, RecordIsFiled DEF FilesHoldInputs, WritePhase, Side
  <2>. QED  BY <2>3, <2>4 DEF Side
<1>2. ASSUME NEW side \in Side, FinishWriting(side) PROVE FilesHoldInputs'
  <2>1. /\ phase = WritePhase(side) /\ itemCount[side] = Len(input[side])
        /\ UNCHANGED <<input, config, partitionOf, file, itemCount>>
        /\ \/ phase' = "cleanup" /\ error' = "limit"
           \/ phase' = (IF side = "first" /\ config.operation = "compare"
                          THEN "write_second" ELSE "open") /\ error' = error
    BY <1>2 DEF FinishWriting, Fail, call, files
  <2>2. config.operation \in {"compare", "duplicates"}
    BY ConfigsAreOptions DEF Counting
  <2>3. CASE side = "first"
    BY <2>1, <2>2, <2>3, NoneIsNoError DEF FilesHoldInputs, WritePhase, Comparing, Succeeding
  <2>4. CASE side = "second"
    BY <2>1, <2>2, <2>4, NoneIsNoError DEF FilesHoldInputs, WritePhase, Comparing, Succeeding
  <2>. QED  BY <2>3, <2>4 DEF Side
<1>3. ASSUME UNCHANGED <<input, config, partitionOf, file, itemCount>>,
             phase' \in {"create", "write_first"} => phase \in {"create", "write_first"},
             phase' \in {"write_second"} => phase \in {"write_second"},
             phase' \in Comparing \/ Succeeding' => phase \in Comparing \/ Succeeding
      PROVE  FilesHoldInputs'
  BY <1>3 DEF FilesHoldInputs, Comparing
<1>4. ASSUME NEW f, CreatePath(f) \/ Unlink(f) PROVE FilesHoldInputs'
  BY <1>3, <1>4 DEF CreatePath, Unlink, call, Comparing, Succeeding
<1>5. ASSUME NEW side \in Side, EmitToken(side) \/ WriteRaises(side) PROVE FilesHoldInputs'
  BY <1>3, <1>5, NoneIsNoError DEF EmitToken, WriteRaises, Fail, files, call, Comparing, Succeeding
<1>6. ASSUME \/ StartCompare \/ ReadPartitions \/ FinishPartition \/ FinishCompare
             \/ CompareRaises \/ CloseWriter \/ ExitWriter \/ Leave \/ UNCHANGED vars
      PROVE  FilesHoldInputs'
  BY <1>3, <1>6, NoneIsNoError
     DEF StartCompare, ReadPartitions, FinishPartition, FinishCompare, CompareRaises, CloseWriter,
         ExitWriter, Leave, Fail, vars, files, call, Comparing, Succeeding
<1>7. ASSUME CreateFails \/ OpenFails \/ ExitWriterFails \/ UnlinkFails PROVE FilesHoldInputs'
  BY <1>3, <1>7, NoneIsNoError
     DEF CreateFails, OpenFails, ExitWriterFails, UnlinkFails, Fail, files, call, Comparing, Succeeding
<1>. QED  BY <1>1, <1>2, <1>4, <1>5, <1>6, <1>7 DEF Next, Progress, Failure

(* A group less leaves groups, of one token less. *)
LEMMA GroupsLeft ==
    ASSUME NEW s, NEW S, NEW groups, AreGroups(s, S, groups), groups # <<>>
    PROVE  /\ AreGroups(s, S, Tail(groups))
           /\ \A t : t \in TokensOf(s, Tail(groups))
                       <=> t \in TokensOf(s, groups) /\ t # s[Head(groups)[1]]
           /\ s[Head(groups)[1]] \in TokensOf(s, groups)
<1> DEFINE n == Len(groups)
           left == Tail(groups)
<1>1. /\ groups \in Seq(Seq(Nat)) /\ n \in Nat /\ n > 0
      /\ left \in Seq(Seq(Nat)) /\ Len(left) = n - 1
      /\ \A k \in 1..(n - 1) : left[k] = groups[k + 1]
      /\ Head(groups) = groups[1]
  <2>1. groups \in Seq(Seq(Nat))
    BY DEF AreGroups
  <2>2. n \in Nat /\ n > 0
    BY <2>1, LenProperties, EmptySeq
  <2>. QED  BY <2>1, <2>2, HeadTailProperties
<1>2. \A k \in 1..(n - 1) : k + 1 \in 1..n /\ k + 1 # 1
  BY <1>1
<1>3. \A k \in 1..n : k = 1 \/ (k - 1 \in 1..(n - 1) /\ (k - 1) + 1 = k)
  BY <1>1
<1>4. 1 \in 1..n
  BY <1>1
<1>5. /\ \A k \in 1..n : /\ Len(groups[k]) > 0 /\ groups[k][1] \in S
                         /\ ToSet(groups[k]) = {i \in S : s[i] = s[groups[k][1]]}
      /\ \A k, l \in 1..n : s[groups[k][1]] = s[groups[l][1]] => k = l
  BY DEF AreGroups
<1> HIDE DEF n, left
<1>6. \A k, l \in 1..(n - 1) : s[left[k][1]] = s[left[l][1]] => k = l
  <2> SUFFICES ASSUME NEW k \in 1..(n - 1), NEW l \in 1..(n - 1), s[left[k][1]] = s[left[l][1]]
               PROVE  k = l
    OBVIOUS
  <2>1. PICK i \in 1..n, j \in 1..n : i = k + 1 /\ j = l + 1
    BY <1>2
  <2>2. s[groups[i][1]] = s[groups[j][1]]
    BY <1>1, <2>1
  <2>3. i = j
    BY <1>5, <2>2
  <2>. QED  BY <1>1, <2>1, <2>3
<1>7. AreGroups(s, S, left)
  <2>1. \A k \in 1..Len(left) :
           /\ Len(left[k]) > 0 /\ left[k][1] \in S
           /\ ToSet(left[k]) = {i \in S : s[i] = s[left[k][1]]}
    <3> SUFFICES ASSUME NEW k \in 1..(n - 1)
                 PROVE  /\ Len(left[k]) > 0 /\ left[k][1] \in S
                        /\ ToSet(left[k]) = {i \in S : s[i] = s[left[k][1]]}
      BY <1>1
    <3>1. PICK l \in 1..n : left[k] = groups[l]
      BY <1>1, <1>2
    <3>. QED  BY <1>5, <3>1
  <2>2. \A k, l \in 1..Len(left) : s[left[k][1]] = s[left[l][1]] => k = l
    BY <1>1, <1>6
  <2>. QED  BY <1>1, <2>1, <2>2 DEF AreGroups
<1>8. ASSUME NEW t PROVE t \in TokensOf(s, left) <=> t \in TokensOf(s, groups) /\ t # s[groups[1][1]]
  <2>1. t \in TokensOf(s, left) <=> \E k \in 1..(n - 1) : t = s[left[k][1]]
    BY <1>1 DEF TokensOf
  <2>2. t \in TokensOf(s, groups) <=> \E k \in 1..n : t = s[groups[k][1]]
    BY DEF TokensOf, n
  <2>3. ASSUME t \in TokensOf(s, left) PROVE t \in TokensOf(s, groups) /\ t # s[groups[1][1]]
    <3>1. PICK k \in 1..(n - 1) : t = s[left[k][1]]
      BY <2>1, <2>3
    <3>2. k + 1 \in 1..n /\ k + 1 # 1 /\ t = s[groups[k + 1][1]]
      BY <1>1, <1>2, <3>1
    <3>. QED  BY <1>4, <1>5, <2>2, <3>2
  <2>4. ASSUME t \in TokensOf(s, groups), t # s[groups[1][1]] PROVE t \in TokensOf(s, left)
    <3>1. PICK k \in 1..n : t = s[groups[k][1]]
      BY <2>2, <2>4
    <3>2. k - 1 \in 1..(n - 1) /\ (k - 1) + 1 = k
      BY <1>3, <2>4, <3>1
    <3>3. t = s[left[k - 1][1]]
      BY <1>1, <3>1, <3>2
    <3>. QED  BY <2>1, <3>2, <3>3
  <2>. QED  BY <2>3, <2>4
<1>9. s[groups[1][1]] \in TokensOf(s, groups)
  BY <1>4 DEF TokensOf, n
<1>. QED  BY <1>1, <1>7, <1>8, <1>9 DEF left

(* The first group has the rows of its token. *)
LEMMA HeadIsGroup ==
    ASSUME NEW s, NEW S, NEW groups, AreGroups(s, S, groups), groups # <<>>
    PROVE  /\ Head(groups) \in Seq(Nat) /\ Head(groups)[1] \in S
           /\ ToSet(Head(groups)) = {i \in S : s[i] = s[Head(groups)[1]]}
<1>1. groups \in Seq(Seq(Nat))
  BY DEF AreGroups
<1>2. 1 \in 1..Len(groups) /\ Head(groups) = groups[1]
  BY <1>1, LenProperties, EmptySeq, HeadTailProperties
<1>3. groups[1] \in Seq(Nat)
  BY <1>1, <1>2, ElementOfSeq
<1>. QED  BY <1>2, <1>3 DEF AreGroups

-----------------------------------------------------------------------------
(* The rows of a side that are in the pair of partitions being compared. *)
Here(side) == PartOf(input, partitionOf, side, partition, itemCount[side])

(* The pair that has been read: its tokens, and the groups left to visit.  *)
PairInv ==
    /\ rowsByToken = [side \in Side |-> rowsByToken[side]]
    /\ phase \in {"create", "write_first", "write_second", "open"} => partition = 1
    /\ phase = "read" => partition \in 1..(PartitionCount + 1)
    /\ phase = "emit" =>
          /\ partition \in Partition
          /\ \A side \in Side :
                /\ keys[side] = {input[side][i] : i \in Here(side)}
                /\ AreGroups(input[side], Here(side), rowsByToken[side])

(* _read_partition gives the rows of the partition's tokens, all of them. *)
LEMMA PairIsRead ==
    ASSUME Counting, FilesHoldInputs, PairInv, ReadPartitions, NEW side \in Side
    PROVE  /\ partition \in Partition /\ Here(side)' = Here(side)
           /\ keys'[side] = {input[side][i] : i \in Here(side)}
           /\ IsGrouped(input[side], Here(side), rowsByToken'[side])
<1>1. /\ phase = "read" /\ partition <= PartitionCount
      /\ rowsByToken' = [s \in Side |-> RowsByToken(s, file[s][partition])]
      /\ keys' = [s \in Side |-> KeysOf(s, partition)]
      /\ UNCHANGED <<input, partitionOf, itemCount, partition>>
  BY DEF ReadPartitions, call, files
<1>2. partition \in Partition
  BY <1>1, SizesArePositive DEF PairInv, Partition
<1> DEFINE records == file[side][partition]
<1>3. records \in Seq(Nat) /\ input[side] \in Seq(Token)
  BY <1>2 DEF Counting
<1>4. Lists(records, Here(side), TRUE)
  BY <1>2 DEF FilesHoldInputs, Here
<1>5. Here(side) \in SUBSET (1..Len(input[side]))
  <2>1. itemCount[side] \in Nat /\ Len(input[side]) \in Nat /\ itemCount[side] <= Len(input[side])
    BY <1>3, LenProperties DEF Counting, FilesHoldInputs
  <2>2. \A i \in 1..itemCount[side] : i \in 1..Len(input[side])
    BY <2>1
  <2>. QED  BY <2>2 DEF Here, PartOf
<1>6. IsGrouped(input[side], Here(side), RowsByToken(side, records))
  BY <1>3, <1>4, <1>5, RowsAreGrouped
<1>7. ToSet(records) = Here(side)
  <2>1. Len(records) \in Nat /\ DOMAIN records = 1..Len(records)
    BY <1>3, LenProperties
  <2>2. \A i : i \in Here(side) <=> \E k \in 1..Len(records) : records[k] = i
    BY <1>4 DEF Lists, Enumerates, Bijection, Injection, Surjection
  <2>3. \A i : i \in ToSet(records) <=> \E k \in 1..Len(records) : records[k] = i
    BY <2>1 DEF ToSet
  <2>. QED  BY <2>2, <2>3
<1>8. Here(side)' = Here(side)
  BY <1>1 DEF Here
<1>. QED  BY <1>1, <1>2, <1>6, <1>7, <1>8 DEF KeysOf

(* Every step keeps the pair right. *)
LEMMA PairInvKept == ASSUME Counting, FilesHoldInputs, PairInv, [Next]_vars PROVE PairInv'
<1>1. CASE ReadPartitions
  <2>1. phase' = "emit" /\ UNCHANGED <<input, partition>>
    BY <1>1 DEF ReadPartitions, call
  <2>2. "first" \in Side
    BY DEF Side
  <2>3. partition \in Partition
    BY <1>1, <2>2, PairIsRead
  <2>4. ASSUME NEW side \in Side
        PROVE  /\ keys'[side] = {input'[side][i] : i \in Here(side)'}
               /\ AreGroups(input'[side], Here(side)', rowsByToken'[side])
    BY <1>1, <2>1, PairIsRead DEF IsGrouped
  <2>5. partition' \in Partition'
    BY <2>1, <2>3 DEF Partition
  <2>6. rowsByToken' = [s \in Side |-> RowsByToken(s, file[s][partition])]
    BY <1>1 DEF ReadPartitions
  <2>. QED  BY <2>1, <2>4, <2>5, <2>6 DEF PairInv
<1>2. ASSUME NEW side \in Side, EmitToken(side) PROVE PairInv'
  <2>1. /\ phase = "emit" /\ phase' = "emit" /\ rowsByToken[side] # <<>>
        /\ rowsByToken' = [rowsByToken EXCEPT ![side] = Tail(@)]
        /\ UNCHANGED <<input, partitionOf, itemCount, partition, keys>>
    BY <1>2 DEF EmitToken, call, files
  <2>2. ASSUME NEW s \in Side
        PROVE  /\ Here(s)' = Here(s) /\ keys[s] = {input[s][i] : i \in Here(s)}
               /\ AreGroups(input[s], Here(s), rowsByToken[s])
    BY <2>1 DEF PairInv, Here
  <2>3. ASSUME NEW s \in Side PROVE AreGroups(input[s], Here(s), rowsByToken'[s])
    <3>1. rowsByToken'[s] = rowsByToken[s] \/ (s = side /\ rowsByToken'[s] = Tail(rowsByToken[s]))
      BY <2>1
    <3>2. CASE rowsByToken'[s] = rowsByToken[s]
      BY <2>2, <3>2
    <3>3. CASE s = side /\ rowsByToken'[s] = Tail(rowsByToken[s])
      BY <2>1, <2>2, <3>3, GroupsLeft
    <3>. QED  BY <3>1, <3>2, <3>3
  <2>4. rowsByToken' = [s \in Side |-> rowsByToken'[s]]
    BY <2>1 DEF PairInv
  <2>. QED  BY <2>1, <2>2, <2>3, <2>4 DEF PairInv, Partition
<1>3. CASE FinishPartition
  <2>1. /\ phase = "emit" /\ phase' = "read" /\ partition' = partition + 1
        /\ rowsByToken' = rowsByToken
    BY <1>3 DEF FinishPartition
  <2>. QED  BY <2>1, SizesArePositive DEF PairInv, Partition
<1>4. CASE StartCompare
  BY <1>4, SizesArePositive DEF StartCompare, PairInv, reads
<1>5. ASSUME phase' \notin {"read", "emit"}, partition' = partition,
             rowsByToken' = rowsByToken,
             phase' \in {"create", "write_first", "write_second", "open"} =>
                phase \in {"create", "write_first", "write_second", "open"}
      PROVE  PairInv'
  BY <1>5 DEF PairInv
<1>6. ASSUME NEW f, CreatePath(f) \/ Unlink(f) PROVE PairInv'
  BY <1>5, <1>6 DEF CreatePath, Unlink, reads
<1>7. ASSUME NEW side \in Side, WriteRecord(side) \/ FinishWriting(side) \/ WriteRaises(side)
      PROVE  PairInv'
  <2>1. /\ phase \in {"write_first", "write_second"} /\ partition' = partition
        /\ rowsByToken' = rowsByToken
        /\ phase' \in {phase, "write_second", "open", "cleanup"}
    BY <1>7 DEF WriteRecord, FinishWriting, WriteRaises, WritePhase, Fail, reads
  <2>. QED  BY <1>5, <2>1
<1>8. CASE FinishCompare \/ CloseWriter \/ ExitWriter \/ Leave
  BY <1>5, <1>8 DEF FinishCompare, CloseWriter, ExitWriter, Leave, reads
<1>9. CASE CreateFails \/ OpenFails \/ CompareRaises \/ ExitWriterFails \/ UnlinkFails
  BY <1>5, <1>9 DEF CreateFails, OpenFails, CompareRaises, ExitWriterFails, UnlinkFails, Fail, reads
<1>10. CASE UNCHANGED vars
  BY <1>10 DEF vars, call, files, reads, PairInv, Here, Partition
<1>. QED  BY <1>1, <1>2, <1>3, <1>4, <1>6, <1>7, <1>8, <1>9, <1>10 DEF Next, Progress, Failure

(* The tokens of a side, and those whose rows have been emitted and that   *)
(* have been counted.                                                      *)
Occurring(side) == {input[side][i] : i \in 1..itemCount[side]}
Waiting(side) == TokensOf(input[side], rowsByToken[side])

AllTokens == [side \in Side |-> Occurring(side)]

Emitted ==
    [side \in Side |-> {t \in Occurring(side) :
        \/ partitionOf[t] < partition
        \/ phase = "emit" /\ partitionOf[t] = partition /\ t \notin Waiting(side)}]

CountedTokens ==
    [side \in Side |-> {t \in Occurring(side) :
        \/ partitionOf[t] < partition
        \/ phase = "emit" /\ partitionOf[t] = partition}]

(* The records of the pair are the items of its tokens. *)
LEMMA RecordsOfPair ==
    ASSUME NEW side \in Side
    PROVE  /\ \A i \in Here(side) : i \in 1..itemCount[side] /\ partitionOf[input[side][i]] = partition
           /\ \A i \in 1..itemCount[side] : partitionOf[input[side][i]] = partition => i \in Here(side)
BY DEF Here, PartOf

(* Tokens are in partitions. *)
LEMMA TokensHavePartitions ==
    ASSUME Counting, FilesHoldInputs, NEW side \in Side
    PROVE  /\ \A t \in Occurring(side) : t \in Token /\ partitionOf[t] \in Partition
           /\ PartitionCount \in Nat /\ Partition \subseteq Nat
<1>1. input[side] \in Seq(Token) /\ itemCount[side] \in Nat /\ itemCount[side] <= Len(input[side])
  BY DEF Counting, FilesHoldInputs
<1>2. \A i \in 1..itemCount[side] : i \in 1..Len(input[side])
  BY <1>1, LenProperties
<1>3. \A i \in 1..itemCount[side] : input[side][i] \in Token
  BY <1>1, <1>2, ElementOfSeq
<1>. QED  BY <1>3, SizesArePositive DEF Occurring, Counting, Partition

(* Nothing is emitted by reading a pair; its tokens are counted. *)
LEMMA TokensOfPair ==
    ASSUME Counting, FilesHoldInputs, PairInv, ReadPartitions, NEW side \in Side
    PROVE  /\ Emitted'[side] = Emitted[side]
           /\ CountedTokens'[side] = CountedTokens[side] \cup keys'[side]
           /\ CountedTokens[side] \cap keys'[side] = {}
           /\ \A t : t \in keys'[side] <=> t \in Occurring(side) /\ partitionOf[t] = partition
<1>1. /\ phase = "read" /\ phase' = "emit"
      /\ UNCHANGED <<input, partitionOf, itemCount, partition>>
  BY DEF ReadPartitions, call, files
<1>2. /\ keys'[side] = {input[side][i] : i \in Here(side)}
      /\ IsGrouped(input[side], Here(side), rowsByToken'[side])
      /\ partition \in Partition
  BY PairIsRead
<1>3. \A t : t \in keys'[side] <=> t \in Occurring(side) /\ partitionOf[t] = partition
  BY <1>2, RecordsOfPair DEF Occurring
<1>4. \A t \in Occurring(side) : partitionOf[t] = partition => t \in Waiting(side)'
  <2> SUFFICES ASSUME NEW t \in Occurring(side), partitionOf[t] = partition PROVE t \in Waiting(side)'
    OBVIOUS
  <2>1. PICK i \in Here(side) : t = input[side][i]
    BY <1>2, <1>3
  <2>2. PICK k \in 1..Len(rowsByToken'[side]) : input[side][rowsByToken'[side][k][1]] = input[side][i]
    BY <1>2 DEF IsGrouped
  <2>. QED  BY <1>1, <2>1, <2>2 DEF Waiting, TokensOf
<1>5. Occurring(side)' = Occurring(side)
  BY <1>1 DEF Occurring
<1>6. \A t \in Occurring(side) : partitionOf[t] \in Nat /\ partition \in Nat
  BY <1>2, TokensHavePartitions
<1>7. Emitted[side] = {t \in Occurring(side) : partitionOf[t] < partition}
  BY <1>1 DEF Emitted
<1>8. Emitted'[side] = {t \in Occurring(side) : partitionOf[t] < partition}
  BY <1>1, <1>4, <1>5 DEF Emitted
<1>9. CountedTokens[side] = {t \in Occurring(side) : partitionOf[t] < partition}
  BY <1>1 DEF CountedTokens
<1>10. CountedTokens'[side] = {t \in Occurring(side) : partitionOf[t] < partition \/ partitionOf[t] = partition}
  BY <1>1, <1>5 DEF CountedTokens
<1>. QED  BY <1>3, <1>6, <1>7, <1>8, <1>9, <1>10

(* When no group is left to visit every token of the pair is emitted.      *)
LEMMA PairIsEmitted ==
    ASSUME Counting, FilesHoldInputs, PairInv, FinishPartition
    PROVE  Emitted' = Emitted /\ CountedTokens' = CountedTokens
<1>1. /\ phase = "emit" /\ phase' = "read" /\ partition' = partition + 1
      /\ \A side \in Side : rowsByToken[side] = <<>>
      /\ UNCHANGED <<input, partitionOf, itemCount>>
  BY DEF FinishPartition, call, files
<1>2. ASSUME NEW side \in Side
      PROVE  Emitted'[side] = Emitted[side] /\ CountedTokens'[side] = CountedTokens[side]
  <2>1. \A t : t \notin Waiting(side)
    BY <1>1 DEF Waiting, TokensOf
  <2>2. Occurring(side)' = Occurring(side)
    BY <1>1 DEF Occurring
  <2>3. \A t \in Occurring(side) : partitionOf[t] < partition + 1
                                     <=> partitionOf[t] < partition \/ partitionOf[t] = partition
    <3>1. partition \in Nat
      BY <1>1, SizesArePositive DEF PairInv, Partition
    <3>2. \A t \in Occurring(side) : partitionOf[t] \in Nat
      BY TokensHavePartitions
    <3>. QED  BY <3>1, <3>2
  <2>4. /\ Emitted[side] = {t \in Occurring(side) : partitionOf[t] < partition \/ partitionOf[t] = partition}
        /\ CountedTokens[side] = {t \in Occurring(side) : partitionOf[t] < partition \/ partitionOf[t] = partition}
    BY <1>1, <2>1 DEF Emitted, CountedTokens
  <2>5. /\ Emitted'[side] = {t \in Occurring(side) : partitionOf[t] < partition + 1}
        /\ CountedTokens'[side] = {t \in Occurring(side) : partitionOf[t] < partition + 1}
    BY <1>1, <2>2 DEF Emitted, CountedTokens
  <2>. QED  BY <2>3, <2>4, <2>5
<1>3. /\ Emitted' = [side \in Side |-> Emitted'[side]] /\ Emitted = [side \in Side |-> Emitted[side]]
      /\ CountedTokens' = [side \in Side |-> CountedTokens'[side]]
      /\ CountedTokens = [side \in Side |-> CountedTokens[side]]
  BY DEF Emitted, CountedTokens
<1>. QED  BY <1>2, <1>3

(* Before the first pair nothing is emitted, after the last everything.    *)
LEMMA PairsBeginAndEnd ==
    ASSUME Counting, FilesHoldInputs, phase = "read"
    PROVE  /\ partition = 1 => /\ Emitted = [side \in Side |-> {}]
                               /\ CountedTokens = [side \in Side |-> {}]
           /\ partition > PartitionCount /\ partition \in 1..(PartitionCount + 1) =>
                Emitted = AllTokens /\ CountedTokens = AllTokens
<1>1. ASSUME NEW side \in Side
      PROVE  \A t \in Occurring(side) : partitionOf[t] \in 1..PartitionCount /\ PartitionCount \in Nat
  BY TokensHavePartitions DEF Partition
<1>2. ASSUME partition = 1
      PROVE  Emitted = [side \in Side |-> {}] /\ CountedTokens = [side \in Side |-> {}]
  <2>1. \A side \in Side : \A t \in Occurring(side) : ~(partitionOf[t] < partition)
    BY <1>1, <1>2
  <2>. QED  BY <2>1 DEF Emitted, CountedTokens
<1>3. ASSUME partition > PartitionCount, partition \in 1..(PartitionCount + 1)
      PROVE  Emitted = AllTokens /\ CountedTokens = AllTokens
  <2>1. \A side \in Side : \A t \in Occurring(side) : partitionOf[t] < partition
    BY <1>1, <1>3
  <2>. QED  BY <2>1 DEF Emitted, CountedTokens, AllTokens
<1>. QED  BY <1>2, <1>3

-----------------------------------------------------------------------------
(* The token whose rows are emitted is one more. *)
LEMMA TokenIsEmitted ==
    ASSUME Counting, FilesHoldInputs, PairInv, NEW side \in Side, EmitToken(side),
           NEW t, t = input[side][Head(rowsByToken[side])[1]]
    PROVE  /\ t \notin Emitted[side]
           /\ Emitted'[side] = Emitted[side] \cup {t}
           /\ \A s \in Side \ {side} : Emitted'[s] = Emitted[s]
           /\ CountedTokens' = CountedTokens
<1>1. /\ phase = "emit" /\ phase' = "emit" /\ rowsByToken[side] # <<>>
      /\ rowsByToken' = [rowsByToken EXCEPT ![side] = Tail(@)]
      /\ UNCHANGED <<input, partitionOf, itemCount, partition>>
  BY DEF EmitToken, call, files
<1>2. /\ AreGroups(input[side], Here(side), rowsByToken[side])
      /\ partition \in Partition /\ partition \in Nat
  BY <1>1, SizesArePositive DEF PairInv, Partition
<1>3. /\ t \in Waiting(side)
      /\ t \in Occurring(side) /\ partitionOf[t] = partition
  <2>1. t \in Waiting(side)
    BY <1>1, <1>2, GroupsLeft DEF Waiting
  <2>2. Head(rowsByToken[side])[1] \in Here(side)
    BY <1>1, <1>2, HeadIsGroup
  <2>. QED  BY <2>1, <2>2, RecordsOfPair DEF Occurring
<1>4. \A s \in Side : Occurring(s)' = Occurring(s)
  BY <1>1 DEF Occurring
<1>5. /\ \A s \in Side \ {side} : Waiting(s)' = Waiting(s)
      /\ Waiting(side)' = TokensOf(input[side], Tail(rowsByToken[side]))
  <2>1. \A s \in Side : rowsByToken'[s] = IF s = side THEN Tail(rowsByToken[s]) ELSE rowsByToken[s]
    BY <1>1 DEF PairInv
  <2>. QED  BY <1>1, <2>1 DEF Waiting
<1>6. \A u : u \in Waiting(side)' <=> u \in Waiting(side) /\ u # t
  <2>1. \A u : u \in TokensOf(input[side], Tail(rowsByToken[side]))
                <=> u \in TokensOf(input[side], rowsByToken[side]) /\ u # t
    BY <1>1, <1>2, GroupsLeft
  <2>2. Waiting(side) = TokensOf(input[side], rowsByToken[side])
    BY <1>1 DEF Waiting
  <2>. QED  BY <1>5, <2>1, <2>2
<1>7. ASSUME NEW s \in Side
      PROVE  /\ Emitted[s] = {u \in Occurring(s) :
                   partitionOf[u] < partition \/ (partitionOf[u] = partition /\ u \notin Waiting(s))}
             /\ Emitted'[s] = {u \in Occurring(s) :
                   partitionOf[u] < partition \/ (partitionOf[u] = partition /\ u \notin Waiting(s)')}
  BY <1>1, <1>4 DEF Emitted
<1>8. CountedTokens' = CountedTokens
  BY <1>1, <1>4 DEF CountedTokens
<1>9. t \notin Emitted[side]
  BY <1>2, <1>3, <1>7
<1>10. Emitted'[side] = Emitted[side] \cup {t}
  BY <1>3, <1>6, <1>7
<1>11. \A s \in Side \ {side} : Emitted'[s] = Emitted[s]
  <2> TAKE s \in Side \ {side}
  <2>1. Waiting(s)' = Waiting(s)
    BY <1>5
  <2>2. /\ Emitted[s] = {u \in Occurring(s) :
             partitionOf[u] < partition \/ (partitionOf[u] = partition /\ u \notin Waiting(s))}
        /\ Emitted'[s] = {u \in Occurring(s) :
             partitionOf[u] < partition \/ (partitionOf[u] = partition /\ u \notin Waiting(s)')}
    BY <1>7
  <2>. QED  BY <2>1, <2>2
<1>. QED  BY <1>8, <1>9, <1>10, <1>11

(* The files of a comparison hold the inputs. *)
LEMMA ComparedIsWhole ==
    ASSUME Counting, FilesHoldInputs, phase \in Comparing
    PROVE  /\ itemCount["first"] = Len(input["first"])
           /\ config.operation = "compare" => \A side \in Side : itemCount[side] = Len(input[side])
           /\ config.operation = "duplicates" => itemCount["second"] = 0
           /\ config.operation \in {"compare", "duplicates"}
BY ConfigsAreOptions DEF FilesHoldInputs, Counting, Side

(* The group that is visited has all the items of its token. *)
LEMMA GroupIsToken ==
    ASSUME Counting, FilesHoldInputs, PairInv, NEW side \in Side, EmitToken(side),
           NEW group, group = Head(rowsByToken[side]), NEW t, t = input[side][group[1]]
    PROVE  /\ config.operation = "compare" \/ side = "first"
           /\ Listing!ToSet(group) = Listing!ItemsOf(input[side], t)
           /\ Listing!ItemsOf(input[side], t) # {}
           /\ t \in Occurring(side) /\ partitionOf[t] = partition /\ itemCount[side] = Len(input[side])
<1>1. phase = "emit" /\ rowsByToken[side] # <<>> /\ phase \in Comparing
  BY DEF EmitToken, Comparing
<1>2. AreGroups(input[side], Here(side), rowsByToken[side])
  BY <1>1 DEF PairInv
<1>3. /\ group[1] \in Here(side)
      /\ ToSet(group) = {i \in Here(side) : input[side][i] = t}
  BY <1>1, <1>2, HeadIsGroup
<1>4. group[1] \in 1..itemCount[side] /\ partitionOf[t] = partition
  BY <1>3, RecordsOfPair
<1>5. config.operation = "compare" \/ side = "first"
  <2>1. itemCount[side] # 0
    BY <1>4
  <2>. QED  BY <1>1, <2>1, ComparedIsWhole DEF Side
<1>6. itemCount[side] = Len(input[side])
  BY <1>1, <1>5, ComparedIsWhole
<1>7. ASSUME NEW i PROVE i \in ToSet(group) <=> i \in 1..Len(input[side]) /\ input[side][i] = t
  BY <1>3, <1>4, <1>6, RecordsOfPair
<1>8. ToSet(group) = Listing!ItemsOf(input[side], t)
  BY <1>7 DEF Listing!ItemsOf
<1>9. group[1] \in Listing!ItemsOf(input[side], t)
  BY <1>4, <1>6 DEF Listing!ItemsOf
<1>. QED  BY <1>4, <1>5, <1>6, <1>8, <1>9, SameRows DEF Occurring

(* Its first row carries its token. *)
LEMMA FirstOfGroup ==
    ASSUME NEW s \in Seq(Token), NEW t, NEW group, Listing!ToSet(group) = Listing!ItemsOf(s, t),
           Listing!ItemsOf(s, t) # {}
    PROVE  FirstOf(group) \in FirstOrdinals(s) /\ s[FirstOf(group)] = t
<1>1. Listing!FirstOf(group) \in Listing!FirstOrdinals(s) /\ s[Listing!FirstOf(group)] = t
  BY Listing!RowsOfToken
<1>. QED  BY <1>1, SameRows, SameMeaning

(* A token is on the other side when the pair has it there. *)
LEMMA PairHasToken ==
    ASSUME Counting, FilesHoldInputs, PairInv, phase = "emit", config.operation = "compare",
           NEW side \in Side, NEW t, partitionOf[t] = partition
    PROVE  t \in keys[side] <=> Occurs(t, input[side])
<1>1. keys[side] = {input[side][i] : i \in Here(side)}
  BY DEF PairInv
<1>2. itemCount[side] = Len(input[side])
  BY ComparedIsWhole DEF Comparing
<1>3. t \in keys[side] <=> \E i \in Here(side) : input[side][i] = t
  BY <1>1
<1>4. Occurs(t, input[side]) <=> \E i \in 1..itemCount[side] : input[side][i] = t
  BY <1>2 DEF Occurs
<1>. QED  BY <1>3, <1>4, RecordsOfPair

(* The rows that are emitted for it are those the result needs. *)
LEMMA RowsOfGroup ==
    ASSUME Counting, FilesHoldInputs, PairInv, NEW side \in Side, EmitToken(side),
           NEW group, group = Head(rowsByToken[side]), NEW t, t = input[side][group[1]]
    PROVE  /\ FirstRows(side, group) = Listing!FirstRow(input, config, side, group)
           /\ RepeatRows(side, group) = Listing!RepeatRows(config, side, group)
           /\ config.operation = "compare" =>
                (t \notin keys[Other(side)] <=>
                    FirstOf(group) \in Listing!SectionSet(input, config, "only", side))
<1>1. /\ phase = "emit"
      /\ config.operation = "compare" \/ side = "first"
      /\ partitionOf[t] = partition /\ Other(side) \in Side
  BY GroupIsToken DEF EmitToken, Other, Side
<1>2. FirstOf(group) \in FirstOrdinals(input[side]) /\ input[side][FirstOf(group)] = t
  <2>1. /\ Listing!ToSet(group) = Listing!ItemsOf(input[side], t)
        /\ Listing!ItemsOf(input[side], t) # {}
    BY GroupIsToken
  <2>2. input[side] \in Seq(Token)
    BY DEF Counting
  <2>. QED  BY <2>1, <2>2, FirstOfGroup
<1>3. ASSUME config.operation = "compare"
      PROVE  /\ t \notin keys[Other(side)]
                  <=> FirstOf(group) \in OnlyOrdinals(input[side], input[Other(side)])
             /\ t \in keys[Other(side)]
                  <=> FirstOf(group) \in CommonOrdinals(input[side], input[Other(side)])
  <2>1. t \in keys[Other(side)] <=> Occurs(t, input[Other(side)])
    BY <1>1, <1>3, PairHasToken
  <2>. QED  BY <1>2, <2>1 DEF OnlyOrdinals, CommonOrdinals
<1>4. /\ Listing!SectionSet(input, config, "only", side) =
            IF config.operation = "compare" THEN OnlyOrdinals(input[side], input[Other(side)]) ELSE {}
      /\ Listing!SectionSet(input, config, "common", side) =
            IF config.operation = "compare" /\ side = "first" /\ config.include_common
              THEN CommonOrdinals(input[side], input[Other(side)]) ELSE {}
  BY SameMeaning DEF Listing!SectionSet
<1>5. config.operation \in {"compare", "duplicates"} /\ config.include_common \in BOOLEAN
  BY ConfigsAreOptions DEF Counting
<1>6. FirstRows(side, group) = Listing!FirstRow(input, config, side, group)
  <2>1. Listing!FirstRow(input, config, side, group) =
           IF FirstOf(group) \in Listing!SectionSet(input, config, "only", side)
             THEN <<Row("only", side, FirstOf(group))>>
           ELSE IF FirstOf(group) \in Listing!SectionSet(input, config, "common", side)
             THEN <<Row("common", side, FirstOf(group))>>
           ELSE <<>>
    BY SameRows DEF Listing!FirstRow
  <2>2. FirstRows(side, group) =
           IF config.operation = "duplicates" THEN <<>>
           ELSE IF t \notin keys[Other(side)] THEN <<Row("only", side, FirstOf(group))>>
           ELSE IF side = "first" /\ config.include_common
             THEN <<Row("common", side, FirstOf(group))>>
           ELSE <<>>
    BY DEF FirstRows
  <2>3. CASE config.operation = "duplicates"
    BY <1>4, <2>1, <2>2, <2>3
  <2>4. CASE config.operation = "compare"
    BY <1>3, <1>4, <2>1, <2>2, <2>4
  <2>. QED  BY <1>5, <2>3, <2>4
<1>7. RepeatRows(side, group) = Listing!RepeatRows(config, side, group)
  <2>1. Rows("duplicates", side, RepeatsOf(group))
          = Listing!Rows("duplicates", side, Listing!RepeatsOf(group))
    BY SameRows
  <2>2. (config.include_duplicates \/ config.operation = "duplicates")
          <=> Listing!WantsRepeats(config, side)
    BY <1>1, <1>5 DEF Listing!WantsRepeats
  <2>. QED  BY <2>1, <2>2 DEF RepeatRows, Listing!RepeatRows
<1>. QED  BY <1>3, <1>4, <1>6, <1>7

(* The rows of a token make a result that holds what has been emitted. *)
LEMMA EmissionIsHeld ==
    ASSUME Counting, FilesHoldInputs, PairInv, NEW side \in Side, EmitToken(side),
           NEW rows, Listing!HoldsTokens(input, config, rows, Emitted)
    PROVE  LET group == Head(rowsByToken[side]) IN
           Listing!HoldsTokens(input, config, rows \o (FirstRows(side, group) \o RepeatRows(side, group)),
                               Emitted')
<1>1. PICK group, t : group = Head(rowsByToken[side]) /\ t = input[side][group[1]]
  OBVIOUS
<1>2. /\ Listing!ToSet(group) = Listing!ItemsOf(input[side], t)
      /\ Listing!ItemsOf(input[side], t) # {}
      /\ input[side] \in Seq(Token)
  BY <1>1, GroupIsToken DEF Counting
<1>3. /\ t \notin Emitted[side] /\ Emitted'[side] = Emitted[side] \cup {t}
      /\ \A s \in Side \ {side} : Emitted'[s] = Emitted[s]
  BY <1>1, TokenIsEmitted
<1>4. PICK in, c, E, F : in = input /\ c = config /\ E = Emitted /\ F = Emitted'
  OBVIOUS
<1>5. /\ side \in Listing!Side
      /\ in[side] \in Seq(Token)
      /\ Listing!ToSet(group) = Listing!ItemsOf(in[side], t)
      /\ Listing!ItemsOf(in[side], t) # {}
      /\ Listing!HoldsTokens(in, c, rows, E) /\ t \notin E[side]
      /\ F[side] = E[side] \cup {t} /\ \A s \in Listing!Side \ {side} : F[s] = E[s]
  BY <1>2, <1>3, <1>4, SameMeaning
<1>6. Listing!HoldsTokens(in, c,
          rows \o (Listing!FirstRow(in, c, side, group) \o Listing!RepeatRows(c, side, group)), F)
  BY <1>5, Listing!TokenIsHeld
<1>7. /\ FirstRows(side, group) = Listing!FirstRow(input, config, side, group)
      /\ RepeatRows(side, group) = Listing!RepeatRows(config, side, group)
  BY <1>1, RowsOfGroup
<1>. QED  BY <1>1, <1>4, <1>6, <1>7

(* And are counted. *)
LEMMA EmissionIsCounted ==
    ASSUME Counting, FilesHoldInputs, PairInv, NEW side \in Side, EmitToken(side),
           config.operation = "compare",
           Listing!CountsTokens(input, config, counts, Emitted, CountedTokens)
    PROVE  Listing!CountsTokens(input, config, counts', Emitted', CountedTokens')
<1>1. PICK group, t : group = Head(rowsByToken[side]) /\ t = input[side][group[1]]
  OBVIOUS
<1>2. /\ Listing!ToSet(group) = Listing!ItemsOf(input[side], t)
      /\ Listing!ItemsOf(input[side], t) # {}
      /\ input[side] \in Seq(Token)
  BY <1>1, GroupIsToken DEF Counting
<1>3. /\ t \notin Emitted[side] /\ Emitted'[side] = Emitted[side] \cup {t}
      /\ \A s \in Side \ {side} : Emitted'[s] = Emitted[s]
      /\ CountedTokens' = CountedTokens
  BY <1>1, TokenIsEmitted
<1>4. PICK in, c, E, F, V, old, new, repeats :
         /\ in = input /\ c = config /\ E = Emitted /\ F = Emitted' /\ V = CountedTokens
         /\ old = counts /\ new = counts' /\ repeats = RepeatRows(side, group)
  OBVIOUS
<1>5. /\ repeats = Listing!RepeatRows(c, side, group)
      /\ t \notin keys[Other(side)] <=> FirstOf(group) \in Listing!SectionSet(in, c, "only", side)
  BY <1>1, <1>4, RowsOfGroup
<1>6. Len(repeats) \in Nat
  <2>1. PICK q : q = RepeatsOf(group)
    OBVIOUS
  <2>2. q \in Seq(Nat)
    <3>1. PICK s \in Seq(Token) : s = input[side]
      BY <1>2
    <3>2. Listing!RepeatsOf(group) \in Seq(Nat)
      BY <1>2, <3>1, Listing!RowsOfToken
    <3>. QED  BY <2>1, <3>2, SameRows
  <2>3. repeats = Rows("duplicates", side, q) \/ repeats = <<>>
    BY <1>4, <2>1 DEF RepeatRows
  <2>4. DOMAIN Rows("duplicates", side, q) = 1..Len(q) /\ Len(q) \in Nat
    BY <2>2, LenProperties DEF Rows
  <2>. QED  BY <2>3, <2>4 DEF Rows
<1>7. old \in Listing!Counts /\ Listing!CountsTokens(in, c, old, E, V)
  BY <1>4 DEF Listing!CountsTokens
<1>8. /\ old.only \in [Side -> Nat] /\ old.duplicate \in [Side -> Nat]
      /\ old.unique \in [Side -> Nat] /\ old.common \in Nat
      /\ old = [unique |-> old.unique, only |-> old.only, common |-> old.common,
                duplicate |-> old.duplicate]
  BY <1>7, SameMeaning DEF Listing!Counts
<1>9. new = [old EXCEPT !.only[side] = IF t \notin keys[Other(side)] THEN @ + 1 ELSE @,
                        !.duplicate[side] = @ + Len(repeats)]
  BY <1>1, <1>4 DEF EmitToken
<1>10. /\ new.unique = old.unique /\ new.common = old.common
       /\ new.only = [old.only EXCEPT ![side] = IF t \notin keys[Other(side)] THEN @ + 1 ELSE @]
       /\ new.duplicate = [old.duplicate EXCEPT ![side] = @ + Len(repeats)]
       /\ new = [unique |-> new.unique, only |-> new.only, common |-> new.common,
                 duplicate |-> new.duplicate]
  BY <1>8, <1>9
<1>11. /\ \A s \in Side \ {side} : new.only[s] = old.only[s] /\ new.duplicate[s] = old.duplicate[s]
       /\ new.only[side] = IF t \notin keys[Other(side)] THEN old.only[side] + 1 ELSE old.only[side]
       /\ new.duplicate[side] = old.duplicate[side] + Len(repeats)
  BY <1>8, <1>10
<1>12. new.only \in [Side -> Nat] /\ new.duplicate \in [Side -> Nat]
  BY <1>6, <1>8, <1>10
<1>13. new \in Listing!Counts
  BY <1>8, <1>10, <1>12, SameMeaning DEF Listing!Counts
<1>14. new.only[side] = old.only[side]
          + (IF Listing!FirstOf(group) \in Listing!SectionSet(in, c, "only", side) THEN 1 ELSE 0)
  <2>1. old.only[side] \in Nat
    BY <1>8
  <2>. QED  BY <2>1, <1>5, <1>11, SameRows
<1>15. /\ side \in Listing!Side
       /\ in[side] \in Seq(Token)
       /\ Listing!ToSet(group) = Listing!ItemsOf(in[side], t)
       /\ Listing!ItemsOf(in[side], t) # {}
  BY <1>2, <1>4, SameMeaning
<1>16. Listing!IsOneMore(F, E, side, t)
  BY <1>3, <1>4, SameMeaning DEF Listing!IsOneMore
<1>17. Listing!HasCounted(new, old, side, Listing!OnlyCount(in, c, side, group),
                          Len(Listing!RepeatRows(c, side, group)))
  <2>1. \A s \in Listing!Side \ {side} : new.only[s] = old.only[s] /\ new.duplicate[s] = old.duplicate[s]
    BY <1>11, SameMeaning
  <2>2. new.duplicate[side] = old.duplicate[side] + Len(Listing!RepeatRows(c, side, group))
    BY <1>5, <1>11
  <2>3. new.only[side] = old.only[side] + Listing!OnlyCount(in, c, side, group)
    BY <1>14 DEF Listing!OnlyCount
  <2>. QED  BY <1>10, <1>13, <2>1, <2>2, <2>3 DEF Listing!HasCounted
<1>18. Listing!CountsTokens(in, c, new, F, V)
  BY <1>7, <1>15, <1>16, <1>17, Listing!TokenIsCounted
<1>. QED  BY <1>3, <1>4, <1>18

(* The tokens of some of the first items are as many as they. *)
LEMMA FirstsOfTokens ==
    ASSUME NEW s \in Seq(Token), NEW T, \A t \in T : Occurs(t, s)
    PROVE  Cardinality(Listing!Carrying(Listing!FirstOrdinals(s), s, T)) = Cardinality(T)
<1>1. Listing!Cardinality({i \in Listing!FirstOrdinals(s) : s[i] \in T})
        = Listing!Cardinality({s[i] : i \in 1..Len(s)} \cap T)
  BY Listing!TokensCounted
<1>2. {s[i] : i \in 1..Len(s)} \cap T = T
  BY DEF Occurs
<1>. QED  BY <1>1, <1>2, SameRows DEF Listing!Carrying

(* Of the first items those are shared whose token the other side has. *)
LEMMA SharedTokens ==
    ASSUME NEW s \in Seq(Token), NEW o, NEW T, NEW W,
           \A t \in T : Occurs(t, s), W = {t \in T : Occurs(t, o)}
    PROVE  Cardinality(Listing!Carrying(Listing!CommonOrdinals(s, o), s, T)) = Cardinality(W)
<1>1. Listing!Carrying(Listing!CommonOrdinals(s, o), s, T)
        = Listing!Carrying(Listing!FirstOrdinals(s), s, W)
  BY SameMeaning DEF Listing!Carrying, CommonOrdinals
<1>2. \A t \in W : Occurs(t, s)
  OBVIOUS
<1>3. Cardinality(Listing!Carrying(Listing!FirstOrdinals(s), s, W)) = Cardinality(W)
  BY <1>2, FirstsOfTokens
<1>. QED  BY <1>1, <1>3

(* Reading a pair counts its tokens. *)
LEMMA PairIsCounted ==
    ASSUME Counting, FilesHoldInputs, PairInv, ReadPartitions, config.operation = "compare",
           Listing!CountsTokens(input, config, counts, Emitted, CountedTokens)
    PROVE  Listing!CountsTokens(input, config, counts', Emitted', CountedTokens')
<1>1. PICK in, c, E, V, U, W, old, new :
         /\ in = input /\ c = config /\ E = Emitted /\ V = CountedTokens /\ U = CountedTokens'
         /\ W = keys' /\ old = counts /\ new = counts'
  OBVIOUS
<1>2. ASSUME NEW side \in Side
      PROVE  /\ Emitted'[side] = E[side]
             /\ U[side] = V[side] \cup W[side] /\ V[side] \cap W[side] = {}
             /\ \A t : t \in W[side] <=> t \in Occurring(side) /\ partitionOf[t] = partition
  BY <1>1, TokensOfPair
<1>3. Emitted' = E
  BY <1>1, <1>2 DEF Emitted
<1>4. in \in [Side -> Seq(Token)] /\ "first" \in Side /\ "second" \in Side
  BY <1>1 DEF Counting, Side
<1>5. \A side \in Side : \A t : t \in Occurring(side) <=> Occurs(t, in[side])
  <2>1. \A side \in Side : itemCount[side] = Len(input[side])
    BY ComparedIsWhole DEF ReadPartitions, Comparing
  <2>. QED  BY <1>1, <2>1 DEF Occurring, Occurs
<1>6. ASSUME NEW side \in Side
      PROVE  Cardinality(Listing!Carrying(Listing!FirstOrdinals(in[side]), in[side], W[side]))
               = Cardinality(W[side])
  <2>1. \A t \in W[side] : Occurs(t, in[side])
    BY <1>2, <1>5
  <2>. QED  BY <1>4, <2>1, FirstsOfTokens
<1>7. Cardinality(Listing!Carrying(Listing!CommonOrdinals(in["first"], in["second"]), in["first"], W["first"]))
        = Cardinality(W["first"] \cap W["second"])
  <2>1. PICK s, o, T, Z :
           /\ s \in Seq(Token) /\ s = in["first"] /\ o = in["second"] /\ T = W["first"]
           /\ Z = W["first"] \cap W["second"]
    BY <1>4
  <2>2. \A t \in T : Occurs(t, s)
    BY <1>2, <1>4, <1>5, <2>1
  <2>3. Z = {t \in T : Occurs(t, o)}
    BY <1>2, <1>4, <1>5, <2>1
  <2>4. s \in Seq(Token)
    BY <2>1
  <2>5. Cardinality(Listing!Carrying(Listing!CommonOrdinals(s, o), s, T)) = Cardinality(Z)
    BY <2>2, <2>3, <2>4, SharedTokens
  <2>. QED  BY <2>1, <2>5
<1>8. /\ old.only \in [Side -> Nat] /\ old.duplicate \in [Side -> Nat]
      /\ old.unique \in [Side -> Nat] /\ old.common \in Nat
      /\ old = [unique |-> old.unique, only |-> old.only, common |-> old.common,
                duplicate |-> old.duplicate]
  <2>1. old \in Listing!Counts
    BY <1>1 DEF Listing!CountsTokens
  <2>. QED  BY <2>1, SameMeaning DEF Listing!Counts
<1>9. new = [old EXCEPT !.unique = [side \in Side |-> old.unique[side] + Cardinality(W[side])],
                        !.common = @ + Cardinality(W["first"] \cap W["second"])]
  BY <1>1, <1>8 DEF ReadPartitions
<1>10. ASSUME NEW side \in Side PROVE IsFiniteSet(W[side])
  <2>1. IsFiniteSet(1..Len(in[side])) /\ Len(in[side]) \in Nat
    <3>1. Len(in[side]) \in Nat
      BY <1>4, LenProperties
    <3>. QED  BY <3>1, FS_Interval
  <2>2. \A t \in W[side] : \E i \in 1..Len(in[side]) : in[side][i] = t
    BY <1>2, <1>5 DEF Occurs
  <2> DEFINE I == {i \in 1..Len(in[side]) : in[side][i] \in W[side]}
             f == [i \in I |-> in[side][i]]
  <2>3. IsFiniteSet(I)
    <3>1. I \subseteq 1..Len(in[side])
      OBVIOUS
    <3> HIDE DEF I
    <3>. QED  BY <2>1, <3>1, FS_Subset
  <2>4. f \in Surjection(I, W[side])
    BY <2>2 DEF Surjection
  <2> HIDE DEF I, f
  <2>. QED  BY <2>3, <2>4, FS_Surjection
<1>11. /\ \A side \in Side : Cardinality(W[side]) \in Nat
       /\ Cardinality(W["first"] \cap W["second"]) \in Nat
  <2>1. W["first"] \cap W["second"] \subseteq W["first"]
    OBVIOUS
  <2>2. IsFiniteSet(W["first"] \cap W["second"])
    BY <1>4, <1>10, <2>1, FS_Subset
  <2>. QED  BY <1>10, <2>2, FS_CardinalityType
<1>12. /\ new.only = old.only /\ new.duplicate = old.duplicate
       /\ new.unique = [side \in Side |-> old.unique[side] + Cardinality(W[side])]
       /\ new.common = old.common + Cardinality(W["first"] \cap W["second"])
       /\ new = [unique |-> new.unique, only |-> new.only, common |-> new.common,
                 duplicate |-> new.duplicate]
  BY <1>8, <1>9
<1>13. new \in Listing!Counts
  <2>1. new.unique \in [Side -> Nat] /\ new.common \in Nat
    BY <1>8, <1>11, <1>12
  <2>. QED  BY <1>8, <1>12, <2>1, SameMeaning DEF Listing!Counts
<1>14. Listing!AreMore(U, V, W)
  BY <1>2, SameMeaning DEF Listing!AreMore
<1>15. Listing!HasCountedTokens(new, old, in, W)
  <2>1. \A side \in Listing!Side : new.unique[side] = old.unique[side]
          + Listing!Cardinality(Listing!Carrying(Listing!FirstOrdinals(in[side]), in[side], W[side]))
    BY <1>6, <1>12, SameMeaning, SameRows
  <2>2. new.common = old.common + Listing!Cardinality(
           Listing!Carrying(Listing!CommonOrdinals(in["first"], in["second"]), in["first"], W["first"]))
    BY <1>7, <1>12, SameRows
  <2>. QED  BY <1>12, <1>13, <2>1, <2>2 DEF Listing!HasCountedTokens
<1>16. in \in [Listing!Side -> Seq(Token)]
  BY <1>4, SameMeaning
<1>17. Listing!CountsTokens(in, c, old, E, V)
  BY <1>1
<1>18. Listing!CountsTokens(in, c, new, E, U)
  BY <1>14, <1>15, <1>16, <1>17, Listing!TokensAreCounted
<1>. QED  BY <1>1, <1>3, <1>18

-----------------------------------------------------------------------------
(* A complete result: the rows and the counts of every token. *)
IsResult(rows) ==
    /\ Listing!HoldsTokens(input, config, rows, AllTokens)
    /\ config.operation = "compare" =>
         Listing!CountsTokens(input, config, counts, AllTokens, AllTokens)

Before == {"create", "write_first", "write_second", "open"}

(* The rows written and the counts so far are those of the tokens that     *)
(* were visited; a writer that is closing holds a complete result or fails *)
(* with the exception in flight; and so what a call returns is complete.   *)
ResultInv ==
    /\ sibling = [w \in Call |-> sibling[w]] /\ session = [w \in Call |-> session[w]]
    /\ phase \in Before => merged = <<>> /\ counts = ZeroCounts
    /\ phase \in {"read", "emit"} =>
          /\ FileMode => session["call"] = "open"
          /\ Listing!HoldsTokens(input, config, IF FileMode THEN sibling["call"] ELSE merged, Emitted)
          /\ config.operation = "compare" =>
               Listing!CountsTokens(input, config, counts, Emitted, CountedTokens)
    /\ phase = "close" =>
          /\ FileMode
          /\ \/ session["call"] = "failing" /\ error # None
             \/ session["call"] \in {"open", "closed"} /\ IsResult(sibling["call"])
    /\ Succeeding => IsResult(IF FileMode THEN target ELSE merged)

(* The first pair is read with nothing written or counted. *)
LEMMA ResultStarts ==
    ASSUME Counting, FilesHoldInputs, PairInv, ResultInv, StartCompare PROVE ResultInv'
<1>1. /\ phase = "open" /\ phase' = "read" /\ merged = <<>> /\ counts = ZeroCounts /\ partition = 1
      /\ UNCHANGED <<input, config, partitionOf, file, itemCount, partition, merged, counts>>
      /\ FileMode' <=> FileMode
  BY DEF StartCompare, call, files, reads, ResultInv, PairInv, Before, FileMode
<1>2. /\ sibling' = [w \in Call |-> sibling'[w]] /\ session' = [w \in Call |-> session'[w]]
      /\ FileMode => session'["call"] = "open" /\ sibling'["call"] = <<>>
  BY DEF StartCompare, output, ResultInv, Out!Enter, Out!Step, Call
<1>3. Emitted' = [side \in Side |-> {}] /\ CountedTokens' = [side \in Side |-> {}]
  <2>1. \A side \in Side : Occurring(side)' = Occurring(side)
    BY <1>1 DEF Occurring
  <2>2. \A side \in Side : \A t \in Occurring(side) : partitionOf[t] \in Nat /\ partitionOf[t] > 0
    <3>1. \A p \in Partition : p \in Nat /\ p > 0
      BY SizesArePositive DEF Partition
    <3>. QED  BY <3>1, TokensHavePartitions
  <2>. QED  BY <1>1, <2>1, <2>2 DEF Emitted, CountedTokens
<1>4. PICK in, c, E, n : in = input /\ c = config /\ E = [side \in Side |-> {}] /\ n = ZeroCounts
  OBVIOUS
<1>5. Listing!HoldsTokens(in, c, <<>>, E)
  BY <1>4, Listing!NothingIsHeld, SameMeaning
<1>6. Listing!CountsTokens(in, c, Listing!ZeroCounts, E, E)
  BY <1>4, Listing!NothingIsCounted, SameMeaning
<1>7. Listing!ZeroCounts = ZeroCounts
  BY SameMeaning DEF Listing!ZeroCounts, ZeroCounts
<1>8. /\ Listing!HoldsTokens(input, config, IF FileMode' THEN sibling'["call"] ELSE merged', Emitted')
      /\ Listing!CountsTokens(input, config, counts', Emitted', CountedTokens')
  BY <1>1, <1>2, <1>3, <1>4, <1>5, <1>6, <1>7
<1>. QED  BY <1>1, <1>2, <1>8 DEF ResultInv, Before, Succeeding

(* Reading a pair changes neither the rows nor what they hold. *)
LEMMA ResultOfReading ==
    ASSUME Counting, FilesHoldInputs, PairInv, ResultInv, ReadPartitions PROVE ResultInv'
<1>1. /\ phase = "read" /\ phase' = "emit"
      /\ UNCHANGED <<input, config, merged, sibling, session>>
      /\ FileMode' <=> FileMode
  BY DEF ReadPartitions, call, output, FileMode
<1>2. Emitted' = Emitted
  <2>1. \A side \in Side : Emitted'[side] = Emitted[side]
    BY TokensOfPair
  <2>. QED  BY <2>1 DEF Emitted
<1>3. Listing!HoldsTokens(input', config', IF FileMode' THEN sibling'["call"] ELSE merged', Emitted')
  BY <1>1, <1>2 DEF ResultInv
<1>4. config'.operation = "compare" =>
        Listing!CountsTokens(input', config', counts', Emitted', CountedTokens')
  BY <1>1, PairIsCounted DEF ResultInv
<1>. QED  BY <1>1, <1>3, <1>4 DEF ResultInv, Before, Succeeding

(* The rows of one token join the result. *)
LEMMA ResultOfEmission ==
    ASSUME Counting, FilesHoldInputs, PairInv, ResultInv, NEW side \in Side, EmitToken(side)
    PROVE  ResultInv'
<1> DEFINE group == Head(rowsByToken[side])
           rows == FirstRows(side, group) \o RepeatRows(side, group)
           old == IF FileMode THEN sibling["call"] ELSE merged
<1>1. /\ phase = "emit" /\ phase' = "emit" /\ Emit(rows)
      /\ UNCHANGED <<input, config, itemCount>>
      /\ FileMode' <=> FileMode
  BY DEF EmitToken, call, files, FileMode
<1>2. /\ FileMode => session["call"] = "open"
      /\ Listing!HoldsTokens(input, config, old, Emitted)
      /\ config.operation = "compare" =>
           Listing!CountsTokens(input, config, counts, Emitted, CountedTokens)
  BY <1>1 DEF ResultInv
<1>3. Listing!HoldsTokens(input, config, old \o rows, Emitted')
  BY <1>2, EmissionIsHeld
<1>4. config.operation = "compare" =>
        Listing!CountsTokens(input, config, counts', Emitted', CountedTokens')
  BY <1>2, EmissionIsCounted
<1> HIDE DEF rows, group
<1>5. /\ sibling' = [w \in Call |-> sibling'[w]] /\ session' = [w \in Call |-> session'[w]]
      /\ session' = session
      /\ (IF FileMode THEN sibling'["call"] ELSE merged') = old \o rows
  <2>1. CASE FileMode
    <3>1. session' = session /\ sibling' = [sibling EXCEPT !["call"] = @ \o rows]
      BY <1>1, <2>1 DEF Emit, Out!WriteRows
    <3>. QED  BY <2>1, <3>1 DEF ResultInv, Call
  <2>2. CASE ~FileMode
    BY <1>1, <2>2 DEF Emit, output, ResultInv
  <2>. QED  BY <2>1, <2>2
<1> HIDE DEF old
<1>. QED  BY <1>1, <1>2, <1>3, <1>4, <1>5 DEF ResultInv, Before, Succeeding

(* After the last pair every token has been visited. *)
LEMMA ResultIsComplete ==
    ASSUME Counting, FilesHoldInputs, PairInv, ResultInv, FinishCompare PROVE ResultInv'
<1>1. /\ phase = "read" /\ partition > PartitionCount
      /\ phase' = IF FileMode THEN "close" ELSE "cleanup"
      /\ UNCHANGED <<input, config, partitionOf, itemCount, counts, error, merged, sibling, session, target>>
      /\ FileMode' <=> FileMode
  BY DEF FinishCompare, call, files, output, FileMode
<1>2. Emitted = AllTokens /\ CountedTokens = AllTokens
  BY <1>1, PairsBeginAndEnd DEF PairInv
<1>3. IsResult(IF FileMode THEN sibling["call"] ELSE merged)
  BY <1>1, <1>2 DEF ResultInv, IsResult
<1>4. AllTokens' = AllTokens
  BY <1>1 DEF AllTokens, Occurring
<1>5. FileMode => session["call"] = "open"
  BY <1>1 DEF ResultInv
<1>6. CASE FileMode
  <2>1. phase' = "close" /\ FileMode' /\ session'["call"] = "open" /\ IsResult(sibling["call"])'
    BY <1>1, <1>3, <1>4, <1>5, <1>6 DEF IsResult
  <2>. QED  BY <1>1, <2>1 DEF ResultInv, Before, Succeeding
<1>7. CASE ~FileMode
  <2>1. phase' = "cleanup" /\ IsResult(IF FileMode THEN target ELSE merged)'
    BY <1>1, <1>3, <1>4, <1>7 DEF IsResult
  <2>. QED  BY <1>1, <2>1 DEF ResultInv, Before
<1>. QED  BY <1>6, <1>7

(* Every step keeps it right. *)
LEMMA ResultKept ==
    ASSUME Counting, FilesHoldInputs, PairInv, FailureInv, ResultInv, [Next]_vars PROVE ResultInv'
<1> USE NoneIsNoError
<1>1. ASSUME UNCHANGED <<input, config, merged, counts, target, sibling, session>>,
             \/ phase' = phase /\ error' = error
                  /\ UNCHANGED <<itemCount, partitionOf, partition, rowsByToken>>
             \/ phase \in Before /\ phase' \in Before
             \/ phase' \in {"cleanup", "raised"} /\ error' # None
             \/ phase' = "raised"
             \/ phase = "cleanup" /\ phase' = "returned" /\ error' = error /\ UNCHANGED itemCount
      PROVE  ResultInv'
  <2>1. FileMode' <=> FileMode
    BY <1>1 DEF FileMode
  <2>2. CASE phase' = phase /\ error' = error
               /\ UNCHANGED <<itemCount, partitionOf, partition, rowsByToken>>
    <3>1. /\ \A side \in Side : Occurring(side)' = Occurring(side)
          /\ \A side \in Side : Waiting(side)' = Waiting(side)
      BY <1>1, <2>2 DEF Occurring, Waiting
    <3>2. AllTokens' = AllTokens /\ Emitted' = Emitted /\ CountedTokens' = CountedTokens
      BY <1>1, <2>2, <3>1 DEF AllTokens, Emitted, CountedTokens
    <3>. QED  BY <1>1, <2>1, <2>2, <3>2 DEF ResultInv, Succeeding, IsResult
  <2>3. CASE phase = "cleanup" /\ phase' = "returned" /\ error' = error /\ UNCHANGED itemCount
    <3>1. AllTokens' = AllTokens
      BY <1>1, <2>3 DEF AllTokens, Occurring
    <3>. QED  BY <1>1, <2>1, <2>3, <3>1 DEF ResultInv, Succeeding, IsResult, Before
  <2>. QED  BY <1>1, <2>1, <2>2, <2>3 DEF ResultInv, Before, Succeeding
<1>2. ASSUME NEW f, CreatePath(f) PROVE ResultInv'
  BY <1>1, <1>2 DEF CreatePath, Before, call, output
<1>3. ASSUME NEW f, Unlink(f) PROVE ResultInv'
  BY <1>1, <1>3 DEF Unlink, call, output, reads
<1>4. CASE CreateFails \/ UnlinkFails \/ Leave
  BY <1>1, <1>4 DEF CreateFails, UnlinkFails, Leave, call, output, files
<1>5. ASSUME NEW side \in Side, WriteRecord(side) \/ FinishWriting(side) \/ WriteRaises(side)
      PROVE  ResultInv'
  <2>1. UNCHANGED <<input, config, merged, counts, target, sibling, session>>
    BY <1>5 DEF WriteRecord, FinishWriting, WriteRaises, call, output
  <2>2. /\ phase \in Before
        /\ phase' \in Before \/ (phase' = "cleanup" /\ error' # None)
    BY <1>5, WritingRecords DEF Before
  <2>. QED  BY <1>1, <2>1, <2>2
<1>6. CASE StartCompare
  BY <1>6, ResultStarts
<1>7. CASE ReadPartitions
  BY <1>7, ResultOfReading
<1>8. ASSUME NEW side \in Side, EmitToken(side) PROVE ResultInv'
  BY <1>8, ResultOfEmission
<1>9. CASE FinishPartition
  <2>1. Emitted' = Emitted /\ CountedTokens' = CountedTokens
    BY <1>9, PairIsEmitted
  <2>2. /\ phase = "emit" /\ phase' = "read"
        /\ UNCHANGED <<input, config, merged, counts, sibling, session>>
        /\ FileMode' <=> FileMode
    BY <1>9 DEF FinishPartition, call, output, FileMode
  <2>. QED  BY <2>1, <2>2 DEF ResultInv, Before, Succeeding
<1>10. CASE FinishCompare
  BY <1>10, ResultIsComplete
<1>11. CASE OpenFails
  <2>1. /\ phase' = "cleanup" /\ error' # None
        /\ (UNCHANGED <<session, sibling>>) \/ Out!EnterFails("call")
    BY <1>11 DEF OpenFails, Fail, output
  <2>2. session' = [w \in Call |-> session'[w]] /\ sibling' = [w \in Call |-> sibling'[w]]
    BY <2>1 DEF ResultInv, Out!EnterFails, Out!Step
  <2>. QED  BY <2>1, <2>2 DEF ResultInv, Before, Succeeding
<1>12. CASE CompareRaises
  <2>1. /\ UNCHANGED <<config, sibling>>
        /\ FileMode => /\ phase' = "close" /\ error' = "output"
                       /\ session' = [session EXCEPT !["call"] = "failing"]
        /\ ~FileMode => phase' = "cleanup" /\ error' = "read" /\ session' = session
    BY <1>12 DEF CompareRaises, Fail, call, output, Out!BodyRaises, Out!Step
  <2>2. /\ session' = [w \in Call |-> session'[w]] /\ sibling' = [w \in Call |-> sibling'[w]]
        /\ FileMode => session'["call"] = "failing"
    BY <2>1 DEF ResultInv, Call
  <2>3. FileMode' <=> FileMode
    BY <2>1 DEF FileMode
  <2>. QED  BY <2>1, <2>2, <2>3 DEF ResultInv, Before, Succeeding
<1>13. CASE CloseWriter
  <2>1. /\ phase = "close" /\ phase' = "close"
        /\ session["call"] = "open" /\ session' = [session EXCEPT !["call"] = "closed"]
        /\ UNCHANGED <<input, config, counts, itemCount, sibling>>
    BY <1>13 DEF CloseWriter, call, files, Out!Close, Out!Step
  <2>2. session' = [w \in Call |-> session'[w]] /\ session'["call"] = "closed"
    BY <2>1 DEF ResultInv, Call
  <2>3. AllTokens' = AllTokens
    BY <2>1 DEF AllTokens, Occurring
  <2>4. FileMode' /\ IsResult(sibling["call"])'
    BY <2>1, <2>3 DEF ResultInv, FileMode, IsResult
  <2>. QED  BY <2>1, <2>2, <2>4 DEF ResultInv, Before, Succeeding
<1>14. CASE ExitWriter
  <2>1. /\ phase = "close" /\ phase' = "cleanup" /\ error' = error
        /\ UNCHANGED <<input, config, counts, itemCount>>
        /\ Out!Replace("call") \/ Out!Discard("call")
    BY <1>14 DEF ExitWriter, call, files
  <2>2. /\ session["call"] \in {"closed", "failing"}
        /\ session["call"] = "closed" => target' = sibling["call"]
        /\ \E v : session' = [session EXCEPT !["call"] = v]
        /\ \E v : sibling' = [sibling EXCEPT !["call"] = v]
    BY <2>1 DEF Out!Replace, Out!Discard, Out!Step
  <2>3. session' = [w \in Call |-> session'[w]] /\ sibling' = [w \in Call |-> sibling'[w]]
    BY <2>2 DEF ResultInv
  <2>4. AllTokens' = AllTokens
    BY <2>1 DEF AllTokens, Occurring
  <2>5. FileMode' /\ (error' = None => IsResult(target)')
    BY <2>1, <2>2, <2>4 DEF ResultInv, FileMode, IsResult
  <2>. QED  BY <2>1, <2>3, <2>5 DEF ResultInv, Before, Succeeding, IsResult
<1>15. CASE ExitWriterFails
  <2>1. /\ phase' = "cleanup" /\ error' # None
        /\ Out!CloseFails("call") \/ Out!ReplaceFails("call")
    BY <1>15 DEF ExitWriterFails, Fail
  <2>2. session' = [w \in Call |-> session'[w]] /\ sibling' = [w \in Call |-> sibling'[w]]
    BY <2>1 DEF ResultInv, Out!CloseFails, Out!ReplaceFails, Out!Step
  <2>. QED  BY <2>1, <2>2 DEF ResultInv, Before, Succeeding
<1>16. CASE UNCHANGED vars
  BY <1>1, <1>16 DEF vars, call, files, reads, output
<1>. QED  BY <1>2, <1>3, <1>4, <1>5, <1>6, <1>7, <1>8, <1>9, <1>10, <1>11, <1>12, <1>13, <1>14,
             <1>15, <1>16 DEF Next, Progress, Failure

-----------------------------------------------------------------------------
(* The contract and the backend share their vocabulary. *)
LEMMA SameVocabulary ==
    /\ \A q, S, ordered : Contract!Lists(q, S, ordered) <=> Lists(q, S, ordered)
    /\ \A s : /\ Contract!FirstOrdinals(s) = FirstOrdinals(s)
              /\ Contract!RepeatOrdinals(s) = RepeatOrdinals(s)
    /\ \A s, o : /\ Contract!OnlyOrdinals(s, o) = OnlyOrdinals(s, o)
                 /\ Contract!CommonOrdinals(s, o) = CommonOrdinals(s, o)
    /\ \A S : Contract!Cardinality(S) = Cardinality(S)
    /\ Contract!Side = Side
    /\ \A side : Contract!Other(side) = Other(side)
<1>1. \A q, S : Contract!Enumerates(q, S) <=> Enumerates(q, S)
  BY DEF Contract!Enumerates, Enumerates, Contract!Bijection, Bijection,
         Contract!Injection, Injection, Contract!Surjection, Surjection,
         Contract!IsInjective, IsInjective
<1>2. \A q : Contract!Ascending(q) <=> Ascending(q)
  BY DEF Contract!Ascending, Ascending
<1>3. \A s : /\ Contract!FirstOrdinals(s) = FirstOrdinals(s)
             /\ Contract!RepeatOrdinals(s) = RepeatOrdinals(s)
  BY DEF Contract!FirstOrdinals, FirstOrdinals, Contract!RepeatOrdinals, RepeatOrdinals,
         Contract!IsFirst, IsFirst
<1>4. \A t, s : Contract!Occurs(t, s) <=> Occurs(t, s)
  BY DEF Contract!Occurs, Occurs
<1>5. \A s, o : /\ Contract!OnlyOrdinals(s, o) = OnlyOrdinals(s, o)
                /\ Contract!CommonOrdinals(s, o) = CommonOrdinals(s, o)
  BY <1>3, <1>4 DEF Contract!OnlyOrdinals, OnlyOrdinals, Contract!CommonOrdinals, CommonOrdinals
<1>6. \A S : Contract!Cardinality(S) = Cardinality(S)
  BY DEF Contract!Cardinality, Cardinality
<1>. QED  BY <1>1, <1>2, <1>3, <1>5, <1>6
          DEF Contract!Lists, Lists, Contract!Side, Side, Contract!Other, Other

(* What a complete result gives the caller is the contract's answer. *)
LEMMA ResultIsAnswer ==
    ASSUME Counting, FilesHoldInputs, Succeeding, NEW rows, IsResult(rows)
    PROVE  Contract!IsAnswer(AnswerOf(rows, config, itemCount, counts, None))
<1>1. PICK in, c, n, sizes, E :
         in = input /\ c = config /\ n = counts /\ sizes = itemCount /\ E = AllTokens
  OBVIOUS
<1>2. /\ c.operation \in {"compare", "duplicates"} /\ c.include_common \in BOOLEAN
      /\ c.include_duplicates \in BOOLEAN /\ c.result_mode \in {"memory", "file"}
      /\ c.operation = "duplicates" => c.result_mode = "memory"
  BY <1>1, ConfigsAreOptions DEF Counting
<1>3. in \in [Listing!Side -> Seq(Token)]
  BY <1>1, SameMeaning DEF Counting
<1>4. /\ itemCount["first"] = Len(input["first"])
      /\ config.operation = "compare" => \A side \in Side : itemCount[side] = Len(input[side])
  BY DEF FilesHoldInputs, Side
<1>5. \A side \in Listing!Side : (c.operation = "compare" \/ side = "first") =>
         \A i \in 1..Len(in[side]) : in[side][i] \in E[side]
  BY <1>1, <1>4, SameMeaning DEF AllTokens, Occurring
<1>6. c.operation = "compare" => sizes = [side \in Listing!Side |-> Len(in[side])]
  BY <1>1, <1>4, SameMeaning DEF Counting
<1>7. /\ Listing!HoldsTokens(in, c, rows, E)
      /\ c.operation = "compare" => Listing!CountsTokens(in, c, n, E, E)
  BY <1>1 DEF IsResult
<1> DEFINE a == Listing!AnswerOf(rows, c, sizes, n, None)
<1>8. Listing!ExactAnswer(in, c, a)
  <2>1. Listing!IsOptions(c) /\ Listing!IsComplete(in, c, rows, n, sizes, E)
    BY <1>2, <1>5, <1>6, <1>7 DEF Listing!IsOptions, Listing!IsComplete
  <2>. QED  BY <1>3, <2>1, Listing!AnswerIsExact
<1>9. a = AnswerOf(rows, config, itemCount, counts, None)
  BY <1>1, SameAnswers
<1> HIDE DEF a
<1> DEFINE cfg == ContractConfig(config)
<1>10. /\ cfg.operation = c.operation /\ cfg.include_common = c.include_common
       /\ cfg.include_duplicates = c.include_duplicates
       /\ cfg.preserve_order = (c.result_mode = "memory") /\ cfg.include_stats = TRUE
  BY <1>1 DEF ContractConfig
<1>11. "first" \in Side /\ "second" \in Side
  BY DEF Side
<1>12. CASE c.operation = "duplicates"
  <2>1. Lists(a, RepeatOrdinals(input["first"]), TRUE)
    BY <1>1, <1>2, <1>8, <1>12, SameMeaning DEF Listing!ExactAnswer
  <2>. QED  BY <1>9, <1>10, <1>12, <2>1, SameVocabulary DEF Contract!IsAnswer
<1>13. CASE c.operation = "compare"
  <2>1. /\ \A side \in Side :
              /\ Lists(a.only[side], OnlyOrdinals(in[side], in[Other(side)]), c.result_mode = "memory")
              /\ IF c.include_duplicates
                   THEN Lists(a.duplicates[side], RepeatOrdinals(in[side]), c.result_mode = "memory")
                   ELSE a.duplicates[side] = None
        /\ IF c.include_common
             THEN Lists(a.common, CommonOrdinals(in["first"], in["second"]), c.result_mode = "memory")
             ELSE a.common = None
    BY <1>8, <1>13, SameMeaning DEF Listing!ExactAnswer
  <2>2. a.stats =
          [count     |-> [side \in Side |-> Len(in[side])],
           unique    |-> [side \in Side |-> Cardinality(FirstOrdinals(in[side]))],
           only      |-> [side \in Side |-> Cardinality(OnlyOrdinals(in[side], in[Other(side)]))],
           common    |-> Cardinality(CommonOrdinals(in["first"], in["second"])),
           duplicate |-> [side \in Side |-> IF c.include_duplicates
                            THEN Cardinality(RepeatOrdinals(in[side])) ELSE 0]]
    BY <1>8, <1>13, SameMeaning, SameRows DEF Listing!ExactAnswer
  <2>3. Contract!SectionsAreExact(a)
    BY <1>1, <1>10, <2>1, SameVocabulary DEF Contract!SectionsAreExact
  <2>4. a.stats = Contract!ExpectedStats
    BY <1>1, <1>10, <2>2, SameVocabulary DEF Contract!ExpectedStats
  <2>. QED  BY <1>9, <1>10, <1>13, <2>3, <2>4 DEF Contract!IsAnswer
<1>. QED  BY <1>2, <1>12, <1>13

(* Whatever the inputs, options, hash, chunk size and limit, a call that   *)
(* returns gives the sections and the counts the contract promises, and a  *)
(* call that raises gives none (compare_hash_partition,                    *)
(* find_duplicates_hash_partition).                                        *)
THEOREM PartitionsImplementContract == Spec => Implements
<1> DEFINE Inv == Counting /\ FailureInv /\ FilesHoldInputs /\ PairInv /\ ResultInv
<1>1. Init => Inv
  <2> SUFFICES ASSUME Init PROVE Inv
    OBVIOUS
  <2>1. Counting
    BY InputsAreBlobs, EmptySeq DEF Init, Counting
  <2>2. FailureInv
    BY DEF Init, Out!Init, Call, FailureInv, Sequel, FilesAreKnown, OneErrorPath
  <2>3. FilesHoldInputs
    <3>1. \A side \in Side : Len(input[side]) \in Nat
      BY <2>1, LenProperties DEF Counting
    <3>2. Lists(<<>>, {}, TRUE)
      <4>1. 1..Len(<<>>) = {} /\ <<>> \in [{} -> {}]
        OBVIOUS
      <4>. QED  BY <4>1 DEF Lists, Enumerates, Ascending, Bijection, Injection, Surjection, IsInjective
    <3>3. \A side, p : PartOf(input, partitionOf, side, p, 0) = {}
      BY DEF PartOf
    <3>4. \A side \in Side, p \in Partition : file[side][p] = <<>> /\ itemCount[side] = 0
      BY DEF Init
    <3>5. \A side \in Side, p \in Partition :
             Lists(file[side][p], PartOf(input, partitionOf, side, p, itemCount[side]), TRUE)
      BY <3>2, <3>3, <3>4
    <3>6. phase = "create" /\ \A side \in Side : itemCount[side] = 0
      BY DEF Init
    <3>7. /\ \A side \in Side : itemCount[side] <= Len(input[side])
          /\ itemCount["second"] = 0 /\ phase \notin Comparing \cup {"write_second"} /\ ~Succeeding
      BY <3>1, <3>6 DEF Comparing, Succeeding, Side
    <3>. QED  BY <3>5, <3>6, <3>7 DEF FilesHoldInputs
  <2>4. PairInv
    BY DEF Init, PairInv
  <2>5. ResultInv
    BY DEF Init, Out!Init, ResultInv, Before, Succeeding
  <2>. QED  BY <2>1, <2>2, <2>3, <2>4, <2>5
<1>2. Inv /\ [Next]_vars => Inv'
  BY CountingKept, FailureInvKept, FilesHoldInputsKept, PairInvKept, ResultKept
<1>3. Init => Contract!Init
  <2> SUFFICES ASSUME Init PROVE Contract!Init
    OBVIOUS
  <2>1. ContractConfig(config) \in Contract!Config
    BY ConfigsAreOptions DEF Init, ContractConfig, Contract!Config
  <2>. QED  BY <2>1, SameVocabulary DEF Init, Contract!Init, Answer
<1>4. Inv /\ [Next]_vars => [Contract!Next]_Contract!vars
  <2> SUFFICES ASSUME Inv, [Next]_vars PROVE [Contract!Next]_Contract!vars
    OBVIOUS
  <2> DEFINE running(p) == p \notin {"returned", "raised"}
  <2>1. ASSUME running(phase), running(phase'), UNCHANGED call PROVE UNCHANGED Contract!vars
    BY <2>1 DEF Contract!vars, Answer, call
  <2>2. ASSUME running(phase), phase' = "raised", UNCHANGED call PROVE Contract!Raise
    BY <2>2 DEF Contract!Raise, Answer, call
  <2>3. CASE Leave
    <3>1. /\ phase = "cleanup" /\ phase' = IF error = None THEN "returned" ELSE "raised"
          /\ UNCHANGED <<input, config, itemCount, merged, counts, target>>
          /\ UNCHANGED call
      BY <2>3 DEF Leave, call, files, output
    <3>2. CASE error = None
      <4>1. Succeeding /\ IsResult(IF FileMode THEN target ELSE merged)
        BY <3>1, <3>2 DEF ResultInv, Succeeding
      <4>2. Contract!IsAnswer(AnswerOf(IF FileMode THEN target ELSE merged, config, itemCount, counts, None))
        BY <4>1, ResultIsAnswer
      <4>3. Answer' = AnswerOf(IF FileMode THEN target ELSE merged, config, itemCount, counts, None)
        BY <3>1, <3>2 DEF Answer, FileMode
      <4>4. Contract!IsAnswer(Answer')
        BY <4>2, <4>3
      <4>. QED  BY <3>1, <3>2, <4>4 DEF Contract!Next, Contract!Return
    <3>3. CASE error # None
      BY <2>2, <3>1, <3>3 DEF Contract!Next
    <3>. QED  BY <3>2, <3>3
  <2>4. CASE CreateFails \/ UnlinkFails
    BY <2>2, <2>4 DEF CreateFails, UnlinkFails, Contract!Next
  <2>5. CASE UNCHANGED vars
    BY <2>5 DEF vars, call, files, output, Contract!vars, Answer, FileMode
  <2>6. ASSUME NEW f, CreatePath(f) \/ Unlink(f) PROVE UNCHANGED Contract!vars
    BY <2>1, <2>6 DEF CreatePath, Unlink
  <2>7. ASSUME NEW side \in Side,
               WriteRecord(side) \/ FinishWriting(side) \/ WriteRaises(side) \/ EmitToken(side)
        PROVE  UNCHANGED Contract!vars
    BY <2>1, <2>7 DEF WriteRecord, FinishWriting, WriteRaises, EmitToken, WritePhase, Fail
  <2>8. CASE \/ StartCompare \/ ReadPartitions \/ FinishPartition \/ FinishCompare
             \/ CloseWriter \/ ExitWriter \/ OpenFails \/ CompareRaises \/ ExitWriterFails
    BY <2>1, <2>8 DEF StartCompare, ReadPartitions, FinishPartition, FinishCompare, CloseWriter,
             ExitWriter, OpenFails, CompareRaises, ExitWriterFails, Fail
  <2>. QED  BY <2>3, <2>4, <2>5, <2>6, <2>7, <2>8 DEF Next, Progress, Failure
<1>. QED  BY <1>1, <1>2, <1>3, <1>4, PTL DEF Spec, Implements, Contract!Spec
===============================================================================
