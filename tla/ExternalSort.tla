----------------------------- MODULE ExternalSort -----------------------------
(***************************************************************************)
(* storage/external_sort.py: the exact comparison backend that writes      *)
(* sorted chunks of (token, ordinal, payload) records to temporary files   *)
(* and merges the two token streams.  One step consumes one item, writes   *)
(* one chunk, pulls one record through heapq.merge and                     *)
(* _group_sorted_records, emits the rows of one token, or unlinks one      *)
(* chunk.                                                                  *)
(*                                                                         *)
(* Tokens are the integers' order: a token stands for its blob, and blobs  *)
(* are compared as bytes.  A record is its ordinal; input[side] has its    *)
(* token.  A chunk's size on disk is its number of records.                *)
(***************************************************************************)
EXTENDS ResultRows

CONSTANTS
    Inputs,     \* the sequences of token blobs an input may produce
    Configs,    \* the options calls are made with
    ChunkSize,  \* chunk_size
    NoLimit,    \* disk_limit=None
    None

ASSUME InputsAreBlobs == Inputs \subseteq Seq(Int)
ASSUME ChunkSizeIsPositive == ChunkSize \in Nat \ {0}
ASSUME LimitsAreSizes == \A c \in Configs : c.disk_limit \in Int \cup {NoLimit}

(* A search for duplicates has no file mode. *)
ASSUME ConfigsAreOptions ==
    \A c \in Configs :
        /\ c.operation \in {"compare", "duplicates"} /\ c.result_mode \in {"memory", "file"}
        /\ c.include_common \in BOOLEAN /\ c.include_duplicates \in BOOLEAN
        /\ c.operation = "duplicates" => c.result_mode = "memory"

(* No cause of an error is called None. *)
ASSUME NoneIsNoError ==
    None \notin {"source", "limit", "output", "read", "write", "interrupt", "unlink"}

VARIABLES
    input, config,  \* the arguments of the call
    phase,          \* where the call is
    error,          \* what the exception in flight came from, or None
    itemCount,      \* [Side -> Nat], count in _write_sorted_chunks
    batch,          \* records of the chunk being collected
    chunks,         \* [Side -> Seq(chunk)], the list _write_sorted_chunks fills
    assigned,       \* sides whose list has been returned to left/right_chunks
    onDisk,         \* chunk files that exist, as <<side, position>>
    unread,         \* [Side -> Seq(chunk)], what the readers of merge still have
    building,       \* [Side -> Seq(Nat)], current_rows in _group_sorted_records
    group,          \* [Side -> Seq(Nat)], left_item and right_item
    status,         \* [Side -> "pull", "group" or "end"], state of those
    merged,         \* rows of the lists of _merge_grouped, as emitted
    counts,         \* the counters of the merge
    target, sibling, session    \* the output file, see AtomicOutput

call   == <<input, config>>
writes == <<itemCount, batch, chunks, assigned>>
merge  == <<unread, building, group, status>>
output == <<target, sibling, session>>
vars   == <<call, phase, error, writes, onDisk, merge, merged, counts, output>>

Call == {"call"}
FileMode == config.result_mode = "file"

Out == INSTANCE AtomicOutput WITH
          Writer <- Call, Kind <- [w \in Call |-> "stream"], Content <- [w \in Call |-> <<>>]

Init ==
    /\ input \in [Side -> Inputs]
    /\ config \in Configs
    /\ phase = "write_first"
    /\ error = None
    /\ itemCount = [side \in Side |-> 0]
    /\ batch = <<>>
    /\ chunks = [side \in Side |-> <<>>]
    /\ assigned = {}
    /\ onDisk = {}
    /\ unread = [side \in Side |-> <<>>]
    /\ building = [side \in Side |-> <<>>]
    /\ group = [side \in Side |-> <<>>]
    /\ status = [side \in Side |-> "pull"]
    /\ merged = <<>>
    /\ counts = ZeroCounts
    /\ Out!Init

(* An exception leaves the try block with `finally` still to run. *)
Fail(cause) ==
    /\ error' = cause
    /\ phase' = "cleanup"

-----------------------------------------------------------------------------
(* _write_sorted_chunks *)

WritePhase(side) == IF side = "first" THEN "write_first" ELSE "write_second"

Exhausted(side) == itemCount[side] = Len(input[side])

ChunkFiles(side) == {<<side, k>> : k \in 1..Len(chunks[side])}

(* The order of the records of a side: by token, then by ordinal. *)
Before(side, i, j) ==
    \/ input[side][i] < input[side][j]
    \/ input[side][i] = input[side][j] /\ i < j

(* Mutant: the chunk is sorted by ordinal only, that is, not at all. *)
SortRecordsByOrdinal(side, records) == records

SortRecords(side, records) ==
    LET R == ToSet(records)
        rank(i) == Cardinality({j \in R : Before(side, j, i)})
    IN [k \in 1..Cardinality(R) |-> CHOOSE i \in R : rank(i) = k - 1]

ReadItem(side) ==
    /\ phase = WritePhase(side)
    /\ Len(batch) < ChunkSize
    /\ ~Exhausted(side)
    /\ itemCount' = [itemCount EXCEPT ![side] = @ + 1]
    /\ batch' = Append(batch, itemCount[side] + 1)
    /\ UNCHANGED <<call, phase, error, chunks, assigned, onDisk, merge, merged, counts, output>>

(* Mutant: an input without items writes no chunk. *)
BatchIsDueWithItems(side) ==
    /\ phase = WritePhase(side)
    /\ \/ Len(batch) >= ChunkSize
       \/ Exhausted(side) /\ batch # <<>>

(* A full batch, what is left at the end, or one empty chunk for an input  *)
(* without items.                                                          *)
BatchIsDue(side) ==
    /\ phase = WritePhase(side)
    /\ \/ Len(batch) >= ChunkSize
       \/ Exhausted(side) /\ (batch # <<>> \/ chunks[side] = <<>>)

(* all_chunks() is evaluated over left_chunks and right_chunks, which hold *)
(* the lists already returned and not the one being filled.                *)
RecordsOn(file) == {file} \X DOMAIN chunks[file[1]][file[2]]
SizeOf(sides)   == Cardinality(UNION {RecordsOn(file) : file \in UNION {ChunkFiles(side) : side \in sides}})

CountedSize == SizeOf(assigned)
TotalSize   == SizeOf(Side)

(* Mutant: reaching the limit counts as exceeding it. *)
AtLimit == config.disk_limit # NoLimit /\ CountedSize >= config.disk_limit

OverLimit == config.disk_limit # NoLimit /\ CountedSize > config.disk_limit

WriteChunk(side) ==
    /\ BatchIsDue(side)
    /\ ~OverLimit
    /\ chunks' = [chunks EXCEPT ![side] = Append(@, SortRecords(side, batch))]
    /\ onDisk' = onDisk \cup {<<side, Len(chunks[side]) + 1>>}
    /\ batch' = <<>>
    /\ UNCHANGED <<call, phase, error, itemCount, assigned, merge, merged, counts, output>>

(* The chunk is written, the check raises, the function unlinks its own.   *)
WriteChunkOverLimit(side) ==
    /\ BatchIsDue(side)
    /\ OverLimit
    /\ chunks' = [chunks EXCEPT ![side] = Append(@, SortRecords(side, batch))]
    /\ onDisk' = onDisk \ ChunkFiles(side)
    /\ Fail("limit")
    /\ UNCHANGED <<call, itemCount, batch, assigned, merge, merged, counts, output>>

(* Making the file or writing it fails: when mkstemp was done, the file is *)
(* in no list yet.                                                         *)
WriteChunkFails(side) ==
    /\ BatchIsDue(side)
    /\ \E made \in {{}, {<<side, Len(chunks[side]) + 1>>}} :
          onDisk' = (onDisk \ ChunkFiles(side)) \cup made
    /\ Fail("write")
    /\ UNCHANGED <<call, writes, merge, merged, counts, output>>

(* The iterable, the token factory or the codec raises. *)
SourceRaises(side) ==
    /\ phase = WritePhase(side)
    /\ ~Exhausted(side)
    /\ onDisk' = onDisk \ ChunkFiles(side)
    /\ Fail("source")
    /\ UNCHANGED <<call, writes, merge, merged, counts, output>>

(* KeyboardInterrupt passes `except Exception`: only `finally` runs.       *)
Interrupted(side) ==
    /\ phase = WritePhase(side)
    /\ Fail("interrupt")
    /\ UNCHANGED <<call, writes, onDisk, merge, merged, counts, output>>

FinishWriting(side) ==
    /\ phase = WritePhase(side)
    /\ Exhausted(side)
    /\ batch = <<>>
    /\ chunks[side] # <<>>
    /\ assigned' = assigned \cup {side}
    /\ phase' = IF side = "first" /\ config.operation = "compare"
                  THEN "write_second" ELSE "open"
    /\ UNCHANGED <<call, error, itemCount, batch, chunks, onDisk, merge, merged, counts, output>>

-----------------------------------------------------------------------------
(* heapq.merge over the chunk readers, grouped by token.                   *)

StartMerge ==
    /\ phase = "open"
    /\ phase' = "merge"
    /\ unread' = chunks
    /\ IF FileMode THEN Out!Enter("call") ELSE UNCHANGED output
    /\ UNCHANGED <<call, error, writes, onDisk, building, group, status, merged, counts>>

(* A .json output, or a sibling that cannot be opened. *)
OpenFails ==
    /\ phase = "open"
    /\ FileMode
    /\ Fail("output")
    /\ Out!EnterFails("call") \/ UNCHANGED output
    /\ UNCHANGED <<call, writes, onDisk, merge, merged, counts>>

(* next(left) comes before next(right). *)
Pulls(side) ==
    /\ phase = "merge"
    /\ status[side] = "pull"
    /\ side = "second" => status["first"] # "pull"

Heads(side) == {c \in 1..Len(unread[side]) : unread[side][c] # <<>>}

IsNextChunk(side, c) ==
    /\ c \in Heads(side)
    /\ \A d \in Heads(side) \ {c} : Before(side, Head(unread[side][c]), Head(unread[side][d]))

PullRecord(side, c) ==
    LET record == Head(unread[side][c])
        sameToken == \/ building[side] = <<>>
                     \/ input[side][building[side][1]] = input[side][record]
    IN
    /\ Pulls(side)
    /\ IsNextChunk(side, c)
    /\ unread' = [unread EXCEPT ![side][c] = Tail(@)]
    /\ building' = [building EXCEPT ![side] = IF sameToken THEN Append(@, record)
                                                          ELSE <<record>>]
    /\ IF sameToken
         THEN UNCHANGED <<group, status>>
         ELSE /\ group' = [group EXCEPT ![side] = building[side]]
              /\ status' = [status EXCEPT ![side] = "group"]
    /\ UNCHANGED <<call, phase, error, writes, onDisk, merged, counts, output>>

PullLast(side) ==
    /\ Pulls(side)
    /\ Heads(side) = {}
    /\ building' = [building EXCEPT ![side] = <<>>]
    /\ group' = [group EXCEPT ![side] = building[side]]
    /\ status' = [status EXCEPT ![side] = IF building[side] = <<>> THEN "end" ELSE "group"]
    /\ UNCHANGED <<call, phase, error, writes, onDisk, unread, merged, counts, output>>

-----------------------------------------------------------------------------
(* _merge_grouped and _merge_grouped_to_file: one round of the loop.       *)

DuplicateRows(side) ==
    IF config.include_duplicates
      THEN Rows("duplicates", side, RepeatsOf(group[side]))
      ELSE <<>>

Emit(rows) ==
    /\ IF FileMode THEN Out!WriteRows("call", rows) /\ UNCHANGED merged
                   ELSE merged' = merged \o rows /\ UNCHANGED output
    /\ UNCHANGED <<call, phase, error, writes, onDisk, unread, building, group>>

TokenOf(side) == input[side][group[side][1]]

BothReady == phase = "merge" /\ \A side \in Side : status[side] # "pull"

(* Mutant: the comparison of the two tokens is not strict. *)
AheadOrEqual(side) ==
    /\ status[side] = "group"
    /\ status[Other(side)] = "group" => TokenOf(side) <= TokenOf(Other(side))

Ahead(side) ==
    /\ status[side] = "group"
    /\ status[Other(side)] = "group" => TokenOf(side) < TokenOf(Other(side))

EmitOnly(side) ==
    /\ BothReady
    /\ config.operation = "compare"
    /\ Ahead(side)
    /\ Emit(<<Row("only", side, FirstOf(group[side]))>> \o DuplicateRows(side))
    /\ counts' = [counts EXCEPT !.unique[side] = @ + 1, !.only[side] = @ + 1,
                                !.duplicate[side] = @ + Len(DuplicateRows(side))]
    /\ status' = [status EXCEPT ![side] = "pull"]

EmitCommon ==
    /\ BothReady
    /\ \A side \in Side : status[side] = "group"
    /\ TokenOf("first") = TokenOf("second")
    /\ Emit((IF config.include_common THEN <<Row("common", "first", FirstOf(group["first"]))>>
                                      ELSE <<>>)
            \o DuplicateRows("first") \o DuplicateRows("second"))
    /\ counts' = [counts EXCEPT !.unique = [side \in Side |-> @[side] + 1],
                                !.common = @ + 1,
                                !.duplicate = [side \in Side |->
                                                 @[side] + Len(DuplicateRows(side))]]
    /\ status' = [side \in Side |-> "pull"]

(* duplicates_external_sort: the repeats of each group of the one input.   *)
EmitRepeats ==
    /\ BothReady
    /\ config.operation = "duplicates"
    /\ status["first"] = "group"
    /\ Emit(Rows("duplicates", "first", Tail(group["first"])))
    /\ status' = [status EXCEPT !["first"] = "pull"]
    /\ UNCHANGED counts

(* A chunk cannot be read back, or a row cannot be written: the exception  *)
(* leaves the body of the writer's `with`, if there is one.                *)
MergeRaises ==
    /\ phase = "merge"
    /\ IF FileMode
         THEN Out!BodyRaises("call") /\ phase' = "close" /\ error' = "output"
         ELSE Fail("read") /\ UNCHANGED output
    /\ UNCHANGED <<call, writes, onDisk, merge, merged, counts>>

FinishMerge ==
    /\ BothReady
    /\ \A side \in Side : status[side] = "end"
    /\ phase' = IF FileMode THEN "close" ELSE "cleanup"
    /\ UNCHANGED <<call, error, writes, onDisk, merge, merged, counts, output>>

-----------------------------------------------------------------------------
(* StreamingResultWriter.__exit__ *)

CloseWriter ==
    /\ phase = "close"
    /\ Out!Close("call")
    /\ UNCHANGED <<call, phase, error, writes, onDisk, merge, merged, counts>>

ExitWriter ==
    /\ phase = "close"
    /\ Out!Replace("call") \/ Out!Discard("call")
    /\ phase' = "cleanup"
    /\ UNCHANGED <<call, error, writes, onDisk, merge, merged, counts>>

ExitWriterFails ==
    /\ phase = "close"
    /\ Out!CloseFails("call") \/ Out!ReplaceFails("call")
    /\ Fail("output")
    /\ UNCHANGED <<call, writes, onDisk, merge, merged, counts>>

(* Mutant: the chunks of the right input are forgotten. *)
ToUnlinkLeftOnly == {file \in onDisk : file[1] \in assigned \cap {"first"}}

(* The finally block unlinks the files of the returned lists, in order.    *)
ToUnlink == {file \in onDisk : file[1] \in assigned}

Unlink ==
    /\ phase = "cleanup"
    /\ ToUnlink # {}
    /\ \E file \in ToUnlink :
          /\ \A other \in ToUnlink : file[1] = "first" \/ other[1] = "second"
          /\ \A other \in ToUnlink : file[1] = other[1] => file[2] <= other[2]
          /\ onDisk' = onDisk \ {file}
    /\ UNCHANGED <<call, phase, error, writes, merge, merged, counts, output>>

(* unlink raises: the loop ends there. *)
UnlinkFails ==
    /\ phase = "cleanup"
    /\ ToUnlink # {}
    /\ error' = "unlink"
    /\ phase' = "raised"
    /\ UNCHANGED <<call, writes, onDisk, merge, merged, counts, output>>

Leave ==
    /\ phase = "cleanup"
    /\ ToUnlink = {}
    /\ phase' = IF error = None THEN "returned" ELSE "raised"
    /\ UNCHANGED <<call, error, writes, onDisk, merge, merged, counts, output>>

-----------------------------------------------------------------------------
Write(side) ==
    \/ ReadItem(side)
    \/ WriteChunk(side)
    \/ WriteChunkOverLimit(side)
    \/ FinishWriting(side)

Merge ==
    \/ StartMerge
    \/ \E side \in Side : \E c \in Heads(side) : PullRecord(side, c)
    \/ \E side \in Side : PullLast(side)
    \/ \E side \in Side : EmitOnly(side)
    \/ EmitCommon
    \/ EmitRepeats
    \/ FinishMerge

Progress ==
    \/ \E side \in Side : Write(side)
    \/ Merge
    \/ CloseWriter
    \/ ExitWriter
    \/ Unlink
    \/ Leave

Failure ==
    \/ \E side \in Side : WriteChunkFails(side) \/ SourceRaises(side) \/ Interrupted(side)
    \/ OpenFails
    \/ MergeRaises
    \/ ExitWriterFails
    \/ UnlinkFails

Next == Progress \/ Failure

Spec == Init /\ [][Next]_vars

(* One thread runs the call; nothing in it waits. *)
FairSpec == Spec /\ WF_vars(Progress)

-----------------------------------------------------------------------------
(* What the caller finds: in file mode the rows of the output file, else   *)
(* the lists of _MergeResult, each sorted by ordinal; and the counts.      *)
Answer ==
    IF phase = "returned"
      THEN AnswerOf(IF FileMode THEN target ELSE merged, config, itemCount, counts, None)
      ELSE None

Contract == INSTANCE CompareContract WITH
    answer  <- Answer,
    outcome <- IF phase \in {"returned", "raised"} THEN phase ELSE "running",
    config  <- ContractConfig(config)

(* The external sort backend keeps the contract of every exact backend in  *)
(* both result modes, however items fall into chunks: the sections are     *)
(* exact, materialized ones in input order, the counts agree, and in file  *)
(* mode the same is true of the published file.                            *)
Implements == Contract!Spec

-----------------------------------------------------------------------------
(* The group heapq.merge and _group_sorted_records hand to the merge loop  *)
(* is the whole of its token, in input order, although its records come    *)
(* from several chunks; a split group would be counted as two tokens.      *)
GroupsAreWhole ==
    \A side \in Side : status[side] = "group" =>
        /\ ToSet(group[side]) = {i \in 1..Len(input[side]) : input[side][i] = TokenOf(side)}
        /\ Ascending(group[side])

(* disk_limit never stops a call whose chunks fit in it. *)
LimitErrorIsJust == error = "limit" => TotalSize > config.disk_limit

(* Whatever raises, if the exception is an Exception that did not come out *)
(* of handling a chunk file itself, the call ends with every chunk file    *)
(* removed, and so does a call that returns; and one that fails before it  *)
(* has published leaves the output path as it was.                         *)
FailureLeavesNoTrace ==
    /\ /\ phase \in {"returned", "raised"}
       /\ error \in {None, "source", "limit", "output", "read"}
       => onDisk = {}
    /\ error \notin {None, "unlink"} => target = None

(* A call on finite inputs comes to an end, whatever fails. *)
Terminates == <>(phase \in {"returned", "raised"})

(* docs/limitations-security.md: "If the configured disk_limit is          *)
(* exceeded, the operation fails": no merge starts on chunks that exceed   *)
(* the limit.                                                              *)
DiskLimitEnforced ==
    phase = "merge" /\ config.disk_limit # NoLimit => TotalSize <= config.disk_limit
===============================================================================
