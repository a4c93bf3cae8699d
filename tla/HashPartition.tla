----------------------------- MODULE HashPartition -----------------------------
(***************************************************************************)
(* storage/partition.py: the exact comparison backend that spreads records *)
(* over temporary partition files by the hash of their token and compares  *)
(* one pair of partitions at a time.  One step makes a file, writes one    *)
(* record (with the flush and the limit check that follow it), reads one   *)
(* pair of partitions, emits the rows of one token, or unlinks one file.   *)
(*                                                                         *)
(* A record is its ordinal.  A file's size is its number of records.       *)
(***************************************************************************)
EXTENDS ResultRows

CONSTANTS
    Token,          \* the token blobs
    Inputs,         \* the sequences of token blobs an input may produce
    Configs,        \* the options calls are made with
    PartitionCount, \* partition_count
    ChunkSize,      \* chunk_size
    NoLimit,        \* disk_limit=None
    None

ASSUME InputsAreBlobs == Inputs \subseteq Seq(Token)
ASSUME SizesArePositive == ChunkSize \in Nat \ {0} /\ PartitionCount \in Nat \ {0}
ASSUME LimitsAreSizes == \A c \in Configs : c.disk_limit \in Int \cup {NoLimit}

(* A search for duplicates has no file mode. *)
ASSUME ConfigsAreOptions ==
    \A c \in Configs :
        /\ c.operation \in {"compare", "duplicates"} /\ c.result_mode \in {"memory", "file"}
        /\ c.include_common \in BOOLEAN /\ c.include_duplicates \in BOOLEAN
        /\ c.operation = "duplicates" => c.result_mode = "memory"

(* No error is called None. *)
ASSUME NoneIsNoError == None \notin {"create", "limit", "source", "output", "read", "unlink"}

VARIABLES
    input, config,  \* the arguments of the call
    partitionOf,    \* [Token -> partition], blake2b modulo partition_count
    phase,          \* where the call is
    error,          \* what the exception in flight came from, or None
    onDisk,         \* partition files that exist, as <<side, partition>>
    file,           \* [Side -> [partition -> Seq(Nat)]], records written
    itemCount,      \* [Side -> Nat], count in _write_partitions
    partition,      \* the pair of partitions being compared
    rowsByToken,    \* [Side -> Seq(rows)], _read_partition's dict, as left to visit
    keys,           \* [Side -> SUBSET Token], left_keys and right_keys
    merged,         \* rows of the lists of compare_partitions, as emitted
    counts,         \* the counters
    target, sibling, session    \* the output file, see AtomicOutput

call   == <<input, config, partitionOf>>
files  == <<onDisk, file, itemCount>>
reads  == <<partition, rowsByToken, keys>>
output == <<target, sibling, session>>
vars   == <<call, phase, error, files, reads, merged, counts, output>>

Partition == 1..PartitionCount
Call == {"call"}
FileMode == config.result_mode = "file"

Out == INSTANCE AtomicOutput WITH
          Writer <- Call, Kind <- [w \in Call |-> "stream"], Content <- [w \in Call |-> <<>>]

Init ==
    /\ input \in [Side -> Inputs]
    /\ config \in Configs
    /\ partitionOf \in [Token -> Partition]
    /\ phase = "create"
    /\ error = None
    /\ onDisk = {}
    /\ file = [side \in Side |-> [p \in Partition |-> <<>>]]
    /\ itemCount = [side \in Side |-> 0]
    /\ partition = 1
    /\ rowsByToken = [side \in Side |-> <<>>]
    /\ keys = [side \in Side |-> {}]
    /\ merged = <<>>
    /\ counts = ZeroCounts
    /\ Out!Init

-----------------------------------------------------------------------------
(* _create_partition_paths, before the try block. *)

SidesOfCall == IF config.operation = "compare" THEN Side ELSE {"first"}
AllFiles == SidesOfCall \X Partition

(* Left before right, in the order of the partitions. *)
Earliest(S, f) ==
    /\ f \in S
    /\ \A g \in S : \/ f[1] = "first" /\ g[1] = "second"
                    \/ f[1] = g[1] /\ f[2] <= g[2]

CreatePath(f) ==
    /\ phase = "create"
    /\ Earliest(AllFiles \ onDisk, f)
    /\ onDisk' = onDisk \cup {f}
    /\ phase' = IF onDisk' = AllFiles THEN "write_first" ELSE "create"
    /\ UNCHANGED <<call, error, file, itemCount, reads, merged, counts, output>>

(* mkstemp fails: the exception is outside the try block. *)
CreateFails ==
    /\ phase = "create"
    /\ error' = "create"
    /\ phase' = "raised"
    /\ UNCHANGED <<call, files, reads, merged, counts, output>>

(* From here on an exception, of whatever kind, runs the finally block.    *)
Fail(cause) ==
    /\ error' = cause
    /\ phase' = "cleanup"

-----------------------------------------------------------------------------
(* _write_partitions *)

WritePhase(side) == IF side = "first" THEN "write_first" ELSE "write_second"

(* The records of a side's files, each a file and a place in it. *)
FileSize(sizes) == Cardinality(UNION {{p} \X DOMAIN sizes[p] : p \in Partition})
TotalSize(f) == FileSize(f["first"]) + FileSize(f["second"])

(* Mutant: only the files of the side being written are counted. *)
OverLimitOwnSide(f) ==
    LET side == IF phase = "write_first" THEN "first" ELSE "second" IN
    config.disk_limit # NoLimit /\ FileSize(f[side]) > config.disk_limit

OverLimit(f) == config.disk_limit # NoLimit /\ TotalSize(f) > config.disk_limit

(* Mutant: records go to the partitions in turn. *)
WrittenInTurn(side) ==
    LET i == itemCount[side] + 1 IN
    [file EXCEPT ![side][(i % PartitionCount) + 1] = Append(@, i)]

Written(side) ==
    LET i == itemCount[side] + 1 IN
    [file EXCEPT ![side][partitionOf[input[side][i]]] = Append(@, i)]

CheckIsDue(side) == (itemCount[side] + 1) % ChunkSize = 0

WriteRecord(side) ==
    /\ phase = WritePhase(side)
    /\ itemCount[side] < Len(input[side])
    /\ file' = Written(side)
    /\ itemCount' = [itemCount EXCEPT ![side] = @ + 1]
    /\ IF CheckIsDue(side) /\ OverLimit(file') THEN Fail("limit")
                                               ELSE UNCHANGED <<phase, error>>
    /\ UNCHANGED <<call, onDisk, reads, merged, counts, output>>

FinishWriting(side) ==
    /\ phase = WritePhase(side)
    /\ itemCount[side] = Len(input[side])
    /\ IF OverLimit(file)
         THEN Fail("limit")
         ELSE /\ phase' = IF side = "first" /\ config.operation = "compare"
                            THEN "write_second" ELSE "open"
              /\ UNCHANGED error
    /\ UNCHANGED <<call, files, reads, merged, counts, output>>

(* The iterable, the token factory, the codec or the disk. *)
WriteRaises(side) ==
    /\ phase = WritePhase(side)
    /\ Fail("source")
    /\ UNCHANGED <<call, files, reads, merged, counts, output>>

-----------------------------------------------------------------------------
(* The loop over the pairs of partitions. *)

StartCompare ==
    /\ phase = "open"
    /\ phase' = "read"
    /\ IF FileMode THEN Out!Enter("call") ELSE UNCHANGED output
    /\ UNCHANGED <<call, error, files, reads, merged, counts>>

OpenFails ==
    /\ phase = "open"
    /\ FileMode
    /\ Fail("output")
    /\ Out!EnterFails("call") \/ UNCHANGED output
    /\ UNCHANGED <<call, files, reads, merged, counts>>

(* _read_partition: tokens in the order of their first record. *)
RowsByToken(side, records) ==
    LET places == 1..Len(records)
        token(p) == input[side][records[p]]
        firsts == InOrder({p \in places : \A q \in 1..(p - 1) : token(q) # token(p)})
    IN [k \in 1..Len(firsts) |->
          EntriesAt(records, {p \in places : token(p) = token(firsts[k])})]

KeysOf(side, p) == {input[side][i] : i \in ToSet(file[side][p])}

ReadPartitions ==
    /\ phase = "read"
    /\ partition <= PartitionCount
    /\ phase' = "emit"
    /\ rowsByToken' = [side \in Side |-> RowsByToken(side, file[side][partition])]
    /\ keys' = [side \in Side |-> KeysOf(side, partition)]
    /\ counts' = [counts EXCEPT
                    !.unique = [side \in Side |-> @[side] + Cardinality(keys'[side])],
                    !.common = @ + Cardinality(keys'["first"] \cap keys'["second"])]
    /\ UNCHANGED <<call, error, files, partition, merged, output>>

Emit(rows) == IF FileMode THEN Out!WriteRows("call", rows) /\ UNCHANGED merged
                          ELSE merged' = merged \o rows /\ UNCHANGED output

FirstRows(side, rows) ==
    LET token == input[side][rows[1]] IN
    IF config.operation = "duplicates" THEN <<>>
    ELSE IF token \notin keys[Other(side)] THEN <<Row("only", side, FirstOf(rows))>>
    ELSE IF side = "first" /\ config.include_common
      THEN <<Row("common", side, FirstOf(rows))>>
    ELSE <<>>

RepeatRows(side, rows) ==
    IF config.include_duplicates \/ config.operation = "duplicates"
      THEN Rows("duplicates", side, RepeatsOf(rows))
      ELSE <<>>

EmitToken(side) ==
    LET rows == Head(rowsByToken[side])
        isOnly == input[side][rows[1]] \notin keys[Other(side)]
    IN
    /\ phase = "emit"
    /\ rowsByToken[side] # <<>>
    /\ side = "second" => rowsByToken["first"] = <<>>
    /\ rowsByToken' = [rowsByToken EXCEPT ![side] = Tail(@)]
    /\ Emit(FirstRows(side, rows) \o RepeatRows(side, rows))
    /\ counts' = [counts EXCEPT !.only[side] = IF isOnly THEN @ + 1 ELSE @,
                                !.duplicate[side] = @ + Len(RepeatRows(side, rows))]
    /\ UNCHANGED <<call, phase, error, files, partition, keys>>

(* Mutant: an empty pair of partitions is not passed over. *)
FinishPartitionUnlessEmpty ==
    /\ phase = "emit"
    /\ \A side \in Side : rowsByToken[side] = <<>>
    /\ partition' = IF \A side \in Side : keys[side] = {} THEN partition ELSE partition + 1
    /\ phase' = "read"
    /\ UNCHANGED <<call, error, files, rowsByToken, keys, merged, counts, output>>

FinishPartition ==
    /\ phase = "emit"
    /\ \A side \in Side : rowsByToken[side] = <<>>
    /\ partition' = partition + 1
    /\ phase' = "read"
    /\ UNCHANGED <<call, error, files, rowsByToken, keys, merged, counts, output>>

(* A partition cannot be read back or decoded, or a row cannot be written. *)
CompareRaises ==
    /\ phase \in {"read", "emit"}
    /\ IF FileMode
         THEN Out!BodyRaises("call") /\ phase' = "close" /\ error' = "output"
         ELSE Fail("read") /\ UNCHANGED output
    /\ UNCHANGED <<call, files, reads, merged, counts>>

FinishCompare ==
    /\ phase = "read"
    /\ partition > PartitionCount
    /\ phase' = IF FileMode THEN "close" ELSE "cleanup"
    /\ UNCHANGED <<call, error, files, reads, merged, counts, output>>

-----------------------------------------------------------------------------
(* StreamingResultWriter.__exit__ *)

CloseWriter ==
    /\ phase = "close"
    /\ Out!Close("call")
    /\ UNCHANGED <<call, phase, error, files, reads, merged, counts>>

ExitWriter ==
    /\ phase = "close"
    /\ Out!Replace("call") \/ Out!Discard("call")
    /\ phase' = "cleanup"
    /\ UNCHANGED <<call, error, files, reads, merged, counts>>

ExitWriterFails ==
    /\ phase = "close"
    /\ Out!CloseFails("call") \/ Out!ReplaceFails("call")
    /\ Fail("output")
    /\ UNCHANGED <<call, files, reads, merged, counts>>

(* The finally block: the left files, then the right ones. *)
Unlink(f) ==
    /\ phase = "cleanup"
    /\ Earliest(onDisk, f)
    /\ onDisk' = onDisk \ {f}
    /\ UNCHANGED <<call, phase, error, file, itemCount, reads, merged, counts, output>>

UnlinkFails ==
    /\ phase = "cleanup"
    /\ onDisk # {}
    /\ error' = "unlink"
    /\ phase' = "raised"
    /\ UNCHANGED <<call, files, reads, merged, counts, output>>

(* Mutant: a call that failed leaves at once. *)
LeaveOnError ==
    /\ phase = "cleanup"
    /\ onDisk = {} \/ error # None
    /\ phase' = IF error = None THEN "returned" ELSE "raised"
    /\ UNCHANGED <<call, error, files, reads, merged, counts, output>>

Leave ==
    /\ phase = "cleanup"
    /\ onDisk = {}
    /\ phase' = IF error = None THEN "returned" ELSE "raised"
    /\ UNCHANGED <<call, error, files, reads, merged, counts, output>>

-----------------------------------------------------------------------------
Progress ==
    \/ \E f \in AllFiles : CreatePath(f) \/ Unlink(f)
    \/ \E side \in Side : WriteRecord(side) \/ FinishWriting(side) \/ EmitToken(side)
    \/ StartCompare
    \/ ReadPartitions
    \/ FinishPartition
    \/ FinishCompare
    \/ CloseWriter
    \/ ExitWriter
    \/ Leave

Failure ==
    \/ CreateFails
    \/ \E side \in Side : WriteRaises(side)
    \/ OpenFails
    \/ CompareRaises
    \/ ExitWriterFails
    \/ UnlinkFails

Next == Progress \/ Failure

Spec == Init /\ [][Next]_vars

(* One thread runs the call; nothing in it waits. *)
FairSpec == Spec /\ WF_vars(Progress)

-----------------------------------------------------------------------------
Answer ==
    IF phase = "returned"
      THEN AnswerOf(IF FileMode THEN target ELSE merged, config, itemCount, counts, None)
      ELSE None

Contract == INSTANCE CompareContract WITH
    answer  <- Answer,
    outcome <- IF phase \in {"returned", "raised"} THEN phase ELSE "running",
    config  <- ContractConfig(config)

(* The hash partition backend keeps the contract of every exact backend,   *)
(* in both result modes and whatever the hash: no token is split between   *)
(* partitions, none is missed, none is counted twice.                      *)
Implements == Contract!Spec

-----------------------------------------------------------------------------
(* "If the configured disk_limit is exceeded, the operation fails"         *)
(* (docs/limitations-security.md): the comparison of partitions starts     *)
(* only on files that fit in the limit, and while records are written the  *)
(* limit is overshot by at most chunk_size records, the distance between   *)
(* two checks, although the second input counts its records from 0 again.  *)
(* A negative limit, which parse_size accepts, leaves no room.             *)
Room == IF config.disk_limit < 0 THEN 0 ELSE config.disk_limit

DiskLimitEnforced ==
    config.disk_limit # NoLimit =>
        /\ phase \in {"read", "emit"} => TotalSize(file) <= config.disk_limit
        /\ TotalSize(file) <= Room + ChunkSize

(* Once the files are made, a call removes them all however it ends, short *)
(* of an unlink that fails; and one that fails before it has published     *)
(* leaves the output path as it was.                                       *)
FailureLeavesNoTrace ==
    /\ phase \in {"returned", "raised"} /\ error \notin {"create", "unlink"} => onDisk = {}
    /\ error \notin {None, "unlink"} => target = None

(* A call on finite inputs comes to an end, whatever fails. *)
Terminates == <>(phase \in {"returned", "raised"})
===============================================================================
