----------------------------- MODULE SqliteBackend -----------------------------
(***************************************************************************)
(* storage/sqlite.py: the exact comparison backend that loads both inputs  *)
(* into the tables of a temporary database and selects the sections with   *)
(* SQL.  One step consumes one item, inserts one batch, commits, fetches   *)
(* or writes one section, or cleans up.                                    *)
(*                                                                         *)
(* A row of a table is its ordinal; its rowid is its position.  The size   *)
(* of the database file is its number of pages: the schema takes pages     *)
(* before there is a row, and SQLite's cache keeps pages from the file     *)
(* until it is full or the transaction is committed.                       *)
(***************************************************************************)
EXTENDS ResultRows

CONSTANTS
    Token,      \* the token blobs
    Inputs,     \* the sequences of token blobs an input may produce
    Configs,    \* the options calls are made with
    ChunkSize,  \* chunk_size
    NoLimit,    \* disk_limit=None; else the pages that fit in it
    PageSize,   \* bytes of a page that hold rows (the page_size pragma)
    RowSize,    \* bytes of a row
    CachePages, \* pages SQLite's cache holds (the cache_size pragma)
    None

ASSUME InputsAreBlobs == Inputs \subseteq Seq(Token)
ASSUME ChunkSizeIsPositive == ChunkSize \in Nat \ {0}
ASSUME SizesArePositive == PageSize \in Nat \ {0} /\ RowSize \in Nat \ {0}

(* The schema takes three pages, its own and the roots of two tables; the  *)
(* default cache of SQLite holds 2000 KiB.                                 *)
ASSUME CacheHoldsSchema == CachePages \in Nat /\ CachePages >= 3

ASSUME ConfigsAreOptions ==
    Configs \subseteq [operation : {"compare", "duplicates"}, result_mode : {"memory", "file"},
                       include_common : BOOLEAN, include_duplicates : BOOLEAN,
                       disk_limit : Nat \cup {NoLimit}]

VARIABLES
    input, config,  \* the arguments of the call
    phase,          \* where the call is
    error,          \* what the exception in flight came from, or None
    itemCount,      \* [Side -> Nat], count in _insert_items
    batch,          \* rows not inserted yet
    table,          \* [Side -> Seq(Nat)], first_items and second_items
    onDisk,         \* does the database file exist?
    fileSize,       \* what stat() says of it, in pages
    sections,       \* the sections still to fetch or to write
    fetched,        \* rows of the lists held in memory
    counts,         \* the counts of the result
    target, sibling, session    \* the output file, see AtomicOutput

call    == <<input, config>>
inserts == <<itemCount, batch, table, fileSize>>
result  == <<sections, fetched, counts>>
output  == <<target, sibling, session>>
vars    == <<call, phase, error, inserts, onDisk, result, output>>

Call == {"call"}
FileMode == config.result_mode = "file"

Out == INSTANCE AtomicOutput WITH
          Writer <- Call, Kind <- [w \in Call |-> "stream"], Content <- [w \in Call |-> <<>>]

Init ==
    /\ input \in [Side -> Inputs]
    /\ config \in Configs
    /\ phase = "make"
    /\ error = None
    /\ itemCount = [side \in Side |-> 0]
    /\ batch = <<>>
    /\ table = [side \in Side |-> <<>>]
    /\ onDisk = FALSE
    /\ fileSize = 0
    /\ sections = <<>>
    /\ fetched = <<>>
    /\ counts = ZeroCounts
    /\ Out!Init

-----------------------------------------------------------------------------
(* _make_temp_db_path, which the try block does not cover, then connect,   *)
(* _configure and _create_schema, which it does.                           *)

MakeDatabase ==
    /\ phase = "make"
    /\ onDisk' = TRUE
    /\ phase' = "open"
    /\ UNCHANGED <<call, error, inserts, result, output>>

MakeFails ==
    /\ phase = "make"
    /\ error' = "make"
    /\ phase' = "raised"
    /\ UNCHANGED <<call, inserts, onDisk, result, output>>

(* A table is a tree of pages: its root alone, until that is full.         *)
TablePages(rows) ==
    IF rows * RowSize <= PageSize THEN 1
    ELSE 1 + (rows * RowSize + PageSize - 1) \div PageSize

Tables == IF config.operation = "compare" THEN Side ELSE {"first"}

(* The header page with the schema, and the tables that were created.      *)
DatabasePages(t) ==
    1 + TablePages(Len(t["first"]))
      + (IF "second" \in Tables THEN TablePages(Len(t["second"])) ELSE 0)

(* Every CREATE TABLE is a transaction of its own: the empty tables are in *)
(* the file before the first row.                                          *)
OpenDatabase ==
    /\ phase = "open"
    /\ phase' = "insert_first"
    /\ fileSize' = DatabasePages(table)
    /\ UNCHANGED <<call, error, itemCount, batch, table, onDisk, result, output>>

(* An exception leaves the try block with `finally` still to run. *)
Fail(cause) ==
    /\ error' = cause
    /\ phase' = "cleanup"

-----------------------------------------------------------------------------
(* _insert_items: one transaction per table. *)

InsertPhase(side) == IF side = "first" THEN "insert_first" ELSE "insert_second"

Exhausted(side) == itemCount[side] = Len(input[side])

ReadItem(side) ==
    /\ phase = InsertPhase(side)
    /\ ~Exhausted(side)
    /\ Len(batch) < ChunkSize
    /\ itemCount' = [itemCount EXCEPT ![side] = @ + 1]
    /\ batch' = Append(batch, itemCount[side] + 1)
    /\ UNCHANGED <<call, phase, error, table, fileSize, onDisk, result, output>>

BatchIsDue(side) ==
    /\ phase = InsertPhase(side)
    /\ batch # <<>>
    /\ Len(batch) >= ChunkSize \/ Exhausted(side)

OverLimit(size) == config.disk_limit # NoLimit /\ size > config.disk_limit

(* The transaction is open: SQLite has written the inserted rows but for   *)
(* the pages its cache still holds.                                        *)
Spill(t) ==
    {size \in (DatabasePages(t) - CachePages)..DatabasePages(t) : size >= fileSize}

(* Mutant: the check comes before executemany.                             *)
InsertBatchUnchecked(side) ==
    /\ BatchIsDue(side)
    /\ IF OverLimit(fileSize)
         THEN Fail("limit") /\ UNCHANGED <<batch, table, fileSize>>
         ELSE /\ table' = [table EXCEPT ![side] = @ \o batch]
              /\ batch' = <<>>
              /\ fileSize' \in Spill(table')
              /\ UNCHANGED <<phase, error>>
    /\ UNCHANGED <<call, itemCount, onDisk, result, output>>

(* executemany, then the check. *)
InsertBatch(side) ==
    /\ BatchIsDue(side)
    /\ table' = [table EXCEPT ![side] = @ \o batch]
    /\ batch' = <<>>
    /\ fileSize' \in Spill(table')
    /\ IF OverLimit(fileSize') THEN Fail("limit") ELSE UNCHANGED <<phase, error>>
    /\ UNCHANGED <<call, itemCount, onDisk, result, output>>

NextPhase(side) ==
    IF side = "first" /\ config.operation = "compare" THEN "insert_second" ELSE "index"

(* Everything inserted is in the file from here on; nothing looks again.   *)
Commit(side) ==
    /\ phase = InsertPhase(side)
    /\ Exhausted(side)
    /\ batch = <<>>
    /\ phase' = NextPhase(side)
    /\ fileSize' = DatabasePages(table)
    /\ UNCHANGED <<call, error, itemCount, batch, table, onDisk, result, output>>

(* The iterable, the token factory or the codec raises, or an insert or    *)
(* the commit fails.  The rollback that follows is not modelled further:   *)
(* no query comes after it.                                                *)
InsertRaises(side) ==
    /\ phase = InsertPhase(side)
    /\ Fail("insert")
    /\ UNCHANGED <<call, inserts, onDisk, result, output>>

-----------------------------------------------------------------------------
(* The queries. *)

TokenAt(side, rowid) == input[side][table[side][rowid]]

RowIds(side) == 1..Len(table[side])

InTable(token, side) == \E r \in RowIds(side) : TokenAt(side, r) = token

(* MIN(ordinal) ... GROUP BY token *)
IsFirstSeen(side, r) ==
    \A q \in RowIds(side) : TokenAt(side, q) = TokenAt(side, r) => table[side][r] <= table[side][q]

OrderByOrdinal(side, rowids) == InOrder({table[side][r] : r \in rowids})

(* Mutant: EXISTS and NOT EXISTS look into the table of the section.       *)
SelectSectionOwnTable(side, relation) ==
    OrderByOrdinal(side, {r \in RowIds(side) :
        /\ IsFirstSeen(side, r)
        /\ InTable(TokenAt(side, r), side) <=> relation = "present"})

(* _fetch_section and _iter_section *)
SelectSection(side, relation) ==
    OrderByOrdinal(side, {r \in RowIds(side) :
        /\ IsFirstSeen(side, r)
        /\ InTable(TokenAt(side, r), Other(side)) <=> relation = "present"})

(* _fetch_duplicates and _iter_duplicates: MIN(rowid), not MIN(ordinal).   *)
SelectDuplicates(side) ==
    OrderByOrdinal(side, {r \in RowIds(side) :
        \E q \in RowIds(side) : q < r /\ TokenAt(side, q) = TokenAt(side, r)})

CountUnique(side) == Cardinality({TokenAt(side, r) : r \in RowIds(side)})
CountCommon == Cardinality({TokenAt("first", r) : r \in RowIds("first")}
                             \cap {TokenAt("second", r) : r \in RowIds("second")})

(* The sections of a call, in the order they are fetched and written. *)
SectionsOf ==
    IF config.operation = "duplicates" THEN <<<<"duplicates", "first">>>>
    ELSE <<<<"only", "first">>, <<"only", "second">>>>
         \o (IF config.include_common THEN <<<<"common", "first">>>> ELSE <<>>)
         \o (IF config.include_duplicates
               THEN <<<<"duplicates", "first">>, <<"duplicates", "second">>>> ELSE <<>>)

RowsOfSection(name, side) ==
    Rows(name, side, CASE name = "only"       -> SelectSection(side, "missing")
                       [] name = "common"     -> SelectSection(side, "present")
                       [] name = "duplicates" -> SelectDuplicates(side))

(* An index is a tree too, taken to be as large as its table; this is      *)
(* after the last check.                                                   *)
CreateIndexes ==
    /\ phase = "index"
    /\ fileSize' = fileSize + DatabasePages(table) - 1
    /\ phase' = "fetch"
    /\ sections' = SectionsOf
    /\ UNCHANGED <<call, error, itemCount, batch, table, onDisk, fetched, counts, output>>

(* len(only_in_first) and so on, or the counters of _write_file_result.    *)
Counted(name, side, n) ==
    CASE name = "only"       -> [counts EXCEPT !.only[side] = @ + n]
      [] name = "duplicates" -> [counts EXCEPT !.duplicate[side] = @ + n]
      [] name = "common"     -> counts

(* Every list is fetched whether or not the result is streamed. *)
FetchSection ==
    LET name == Head(sections)[1]
        side == Head(sections)[2]
        rows == RowsOfSection(name, side)
    IN
    /\ phase = "fetch"
    /\ sections # <<>>
    /\ fetched' = fetched \o rows
    /\ counts' = IF FileMode THEN counts ELSE Counted(name, side, Len(rows))
    /\ sections' = Tail(sections)
    /\ UNCHANGED <<call, phase, error, inserts, onDisk, output>>

CountTokens ==
    /\ phase = "fetch"
    /\ sections = <<>>
    /\ counts' = IF config.operation = "compare"
                   THEN [counts EXCEPT !.unique = [side \in Side |-> CountUnique(side)],
                                       !.common = CountCommon]
                   ELSE counts
    /\ phase' = IF FileMode THEN "write" ELSE "cleanup"
    /\ sections' = IF FileMode THEN SectionsOf ELSE <<>>
    /\ IF FileMode THEN Out!Enter("call") ELSE UNCHANGED output
    /\ UNCHANGED <<call, error, inserts, onDisk, fetched>>

WriteSection ==
    LET name == Head(sections)[1]
        side == Head(sections)[2]
        rows == RowsOfSection(name, side)
    IN
    /\ phase = "write"
    /\ sections # <<>>
    /\ Out!WriteRows("call", rows)
    /\ counts' = Counted(name, side, Len(rows))
    /\ sections' = Tail(sections)
    /\ UNCHANGED <<call, phase, error, inserts, onDisk, fetched>>

(* A statement fails, or a payload cannot be decoded. *)
QueryRaises ==
    /\ phase \in {"open", "index", "fetch"}
    /\ Fail("query")
    /\ UNCHANGED <<call, inserts, onDisk, result, output>>

(* A suffix the writer refuses, or a sibling that cannot be opened. *)
OpenWriterFails ==
    /\ phase = "fetch"
    /\ sections = <<>>
    /\ FileMode
    /\ Fail("output")
    /\ Out!EnterFails("call") \/ UNCHANGED output
    /\ UNCHANGED <<call, inserts, onDisk, result>>

WriteRaises ==
    /\ phase = "write"
    /\ Out!BodyRaises("call")
    /\ phase' = "close"
    /\ error' = "output"
    /\ UNCHANGED <<call, inserts, onDisk, result>>

FinishWriting ==
    /\ phase = "write"
    /\ sections = <<>>
    /\ phase' = "close"
    /\ UNCHANGED <<call, error, inserts, onDisk, result, output>>

-----------------------------------------------------------------------------
(* StreamingResultWriter.__exit__ *)

CloseWriter ==
    /\ phase = "close"
    /\ Out!Close("call")
    /\ UNCHANGED <<call, phase, error, inserts, onDisk, result>>

ExitWriter ==
    /\ phase = "close"
    /\ Out!Replace("call") \/ Out!Discard("call")
    /\ phase' = "cleanup"
    /\ UNCHANGED <<call, error, inserts, onDisk, result>>

ExitWriterFails ==
    /\ phase = "close"
    /\ Out!CloseFails("call") \/ Out!ReplaceFails("call")
    /\ Fail("output")
    /\ UNCHANGED <<call, inserts, onDisk, result>>

(* Mutant: the database of a failed call is kept. *)
CleanUpOnSuccess ==
    /\ phase = "cleanup"
    /\ onDisk' = (error # None)
    /\ phase' = IF error = None THEN "returned" ELSE "raised"
    /\ UNCHANGED <<call, error, inserts, result, output>>

(* The finally block: conn.close() and the unlink. *)
CleanUp ==
    /\ phase = "cleanup"
    /\ onDisk' = FALSE
    /\ phase' = IF error = None THEN "returned" ELSE "raised"
    /\ UNCHANGED <<call, error, inserts, result, output>>

CleanUpFails ==
    /\ phase = "cleanup"
    /\ error' = "cleanup"
    /\ phase' = "raised"
    /\ UNCHANGED <<call, inserts, onDisk, result, output>>

-----------------------------------------------------------------------------
Progress ==
    \/ MakeDatabase
    \/ OpenDatabase
    \/ \E side \in Side : ReadItem(side) \/ InsertBatch(side) \/ Commit(side)
    \/ CreateIndexes
    \/ FetchSection
    \/ CountTokens
    \/ WriteSection
    \/ FinishWriting
    \/ CloseWriter
    \/ ExitWriter
    \/ CleanUp

Failure ==
    \/ MakeFails
    \/ \E side \in Side : InsertRaises(side)
    \/ QueryRaises
    \/ OpenWriterFails
    \/ WriteRaises
    \/ ExitWriterFails
    \/ CleanUpFails

Next == Progress \/ Failure

Spec == Init /\ [][Next]_vars

-----------------------------------------------------------------------------
(* Sections keep the order of the rows they were made of, in both modes.   *)
Answer ==
    IF phase = "returned"
      THEN AnswerOf(IF FileMode THEN target ELSE fetched,
                    [config EXCEPT !.result_mode = "file"], itemCount, counts, None)
      ELSE None

Contract == INSTANCE CompareContract WITH
    answer  <- Answer,
    outcome <- IF phase \in {"returned", "raised"} THEN phase ELSE "running",
    config  <- [ContractConfig(config) EXCEPT !.preserve_order = TRUE]

(* The SQLite backend keeps the contract of every exact backend, in input  *)
(* order in both result modes: the joins, the MIN(ordinal) representative  *)
(* and the MIN(rowid) duplicates agree with one another and with the       *)
(* counts.                                                                 *)
Implements == Contract!Spec

-----------------------------------------------------------------------------
(* "Safety limit for temporary disk usage" (docs/api-reference.md): over   *)
(* all batches of both inputs, what is in the database outgrows the limit  *)
(* by no more than SQLite's cache holds, although the check only sees the  *)
(* file, and sees it in the middle of a transaction.  The pages of the     *)
(* cache and of the indexes are never checked: a call may return from a    *)
(* database above the limit.                                               *)
DiskLimitEnforced ==
    config.disk_limit # NoLimit /\ phase \in {"insert_first", "insert_second", "index"} =>
        DatabasePages(table) <= config.disk_limit + CachePages

(* A call that got its database removes it however it ends, unless closing *)
(* or unlinking it fails; and one that fails before it has published       *)
(* leaves the output path as it was.                                       *)
FailureLeavesNoTrace ==
    /\ phase \in {"returned", "raised"} /\ error # "cleanup" => ~onDisk
    /\ error \notin {None, "cleanup"} => target = None
===============================================================================
