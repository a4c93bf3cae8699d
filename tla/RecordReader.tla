------------------------------ MODULE RecordReader ------------------------------
(***************************************************************************)
(* storage/codec.py, read_record over the records of write_record: a       *)
(* header that says how long token and payload are, then both.  A file may *)
(* end anywhere, when the disk was full or the process that wrote it gone. *)
(***************************************************************************)
EXTENDS Integers, SequencesExt

CONSTANTS
    HeaderSize,     \* _RECORD_HEADER.size
    Files           \* files: records, each [token, payload] sizes, and a size

VARIABLES
    file,       \* the file being read
    position,   \* bytes read of it
    read,       \* the sizes of token and payload of the records returned
    reading     \* "reading", "end" after a None, or "raised"

vars == <<file, position, read, reading>>

Init ==
    /\ file \in Files
    /\ position = 0
    /\ read = <<>>
    /\ reading = "reading"

Least(a, b) == IF a <= b THEN a ELSE b

Available(size, from) == Least(size, file.size - from)

(* The record whose header is at the position. *)
Current == file.records[Len(read) + 1]

Header == Available(HeaderSize, position)

(* Both parts are read before either is looked at. *)
TokenRead   == Available(Current.token, position + HeaderSize)
PayloadRead == Available(Current.payload, position + HeaderSize + TokenRead)

(* Mutant: only the token is checked. *)
BodyIsCutInToken == TokenRead # Current.token

BodyIsCut == TokenRead # Current.token \/ PayloadRead # Current.payload

ReadNone ==
    /\ reading = "reading"
    /\ Header = 0
    /\ reading' = "end"
    /\ UNCHANGED <<file, position, read>>

HeaderCut ==
    /\ reading = "reading"
    /\ Header \in 1..(HeaderSize - 1)
    /\ reading' = "raised"
    /\ position' = position + Header
    /\ UNCHANGED <<file, read>>

BodyCut ==
    /\ reading = "reading"
    /\ Header = HeaderSize
    /\ BodyIsCut
    /\ reading' = "raised"
    /\ position' = position + HeaderSize + TokenRead + PayloadRead
    /\ UNCHANGED <<file, read>>

ReadRecord ==
    /\ reading = "reading"
    /\ Header = HeaderSize
    /\ ~BodyIsCut
    /\ read' = Append(read, [token |-> TokenRead, payload |-> PayloadRead])
    /\ position' = position + HeaderSize + TokenRead + PayloadRead
    /\ UNCHANGED <<file, reading>>

Next == ReadNone \/ HeaderCut \/ BodyCut \/ ReadRecord

Spec == Init /\ [][Next]_vars

-----------------------------------------------------------------------------
RecordSize(record) == HeaderSize + record.token + record.payload

(* The bytes the records take. *)
SizeOf(records) ==
    Cardinality(UNION {{k} \X (1..RecordSize(records[k])) : k \in 1..Len(records)})

Whole(n) == SubSeq(file.records, 1, n)

(* tests/test_storage_codec.py, test_temp_binary_records_reject_truncated_ *)
(* data: a file that was cut is read as whole records followed by an       *)
(* exception, and only one that ends between two records is read without   *)
(* one; no record is returned in part.                                     *)
CutIsNoticed ==
    /\ read = Whole(Len(read))
    /\ reading = "end" => SizeOf(read) = file.size
    /\ reading = "raised" =>
          /\ SizeOf(read) < file.size
          /\ file.size < SizeOf(Whole(Len(read) + 1))
===============================================================================
