----------------------------- MODULE EventStream -----------------------------
(***************************************************************************)
(* cli.py and output/events.py: a compare or diff command with             *)
(* --format jsonl.  It writes metadata, compares the two files, writes one *)
(* event for each difference, then a summary, to standard output or to a   *)
(* temporary sibling of the output file.  The events come from             *)
(*   "memory"   the sections of a result held in memory;                   *)
(*   "disk"     the rows of a result file, read back and unlinked;         *)
(*   "fields"   the sections, then the rows of a field diff file;          *)
(*   "sorted"   the rows of a field diff of sorted files, as they come.    *)
(*                                                                         *)
(* What the comparisons return is what their own modules are checked for,  *)
(* taken from Comparison.  A row is [key, cell], with one field beside the *)
(* key.  An event about a pair of rows names the first of them for the     *)
(* values it carries.                                                      *)
(***************************************************************************)
EXTENDS JsonlWriter, Comparison

CONSTANTS
    Calls       \* the pairs of inputs and options calls are made with

VARIABLES
    input,      \* [Side -> rows of the file]
    phase,      \* where the command is
    raised,     \* what the exceptions came from, the one in flight last
    pending,    \* the events still to be written from the present source
    result,     \* does the temporary result file exist?
    sibling,    \* does the temporary sibling of the output file exist?
    target      \* the events at the output path, or None

call  == <<input, config>>
files == <<result, sibling, target>>
vars  == <<call, writer, phase, raised, pending, files>>

Init ==
    /\ \E c \in Calls : input = c.input /\ config = c.config
    /\ WriterInit
    /\ phase = "open"
    /\ raised = <<>>
    /\ pending = <<>>
    /\ result = FALSE
    /\ sibling = FALSE
    /\ target = None

-----------------------------------------------------------------------------
(* The events of sections. *)

Keys(side) == [i \in 1..Len(input[side]) |-> input[side][i].key]
Key(side, i) == input[side][i].key

Events(ordinals, Event(_)) == [k \in 1..Len(ordinals) |-> Event(ordinals[k])]

OnlyType(side) == IF side = "first" THEN "only_left" ELSE "only_right"

OnlyEvent(side, i) == [type |-> OnlyType(side), key |-> Key(side, i)]

OnlyEvents(side) ==
    Events(InOrder(OnlyOrdinals(Keys(side), Keys(Other(side)))), LAMBDA i : OnlyEvent(side, i))

DuplicateEvent(key, side, count) ==
    [type |-> "duplicate_key", key |-> key, side |-> side, count |-> count]

DuplicateRows(side) ==
    IF config.include_duplicates THEN RepeatOrdinals(Keys(side)) ELSE {}

(* Mutant: the first row of the key is not counted. *)
DuplicateCountOfRepeats(rows) == Cardinality(rows)

(* count + 1: the rows are the repeats of the key. *)
DuplicateCount(rows) == Cardinality(rows) + 1

(* _duplicate_events: the keys in the order of their first repeats.        *)
DuplicateEvents(side) ==
    LET repeats == DuplicateRows(side)
        ofKey(i) == {j \in repeats : Key(side, j) = Key(side, i)}
        leading == {i \in repeats : \A j \in ofKey(i) : i <= j}
    IN Events(InOrder(leading),
              LAMBDA i : DuplicateEvent(Key(side, i), side, DuplicateCount(ofKey(i))))

(* compare_result_events *)
ResultEvents ==
    OnlyEvents("first") \o OnlyEvents("second")
    \o DuplicateEvents("first") \o DuplicateEvents("second")

-----------------------------------------------------------------------------
(* The events of a result file.  The backends write its rows section by    *)
(* section or token by token.                                              *)

ResultRow(section, side, i) == [section |-> section, side |-> side, ordinal |-> i]

FileRows ==
    UNION {{ResultRow("only", side, i) : i \in OnlyOrdinals(Keys(side), Keys(Other(side)))}
           \cup {ResultRow("duplicates", side, i) : i \in DuplicateRows(side)} : side \in Side}

Precedes(row, other) ==
    LET section(r) == (IF r.section = "only" THEN 0 ELSE 2) + (IF r.side = "first" THEN 0 ELSE 1)
    IN \/ section(row) < section(other)
       \/ section(row) = section(other) /\ row.ordinal < other.ordinal

RowKey(row) == Key(row.side, row.ordinal)

ResultFiles ==
    LET places == 1..Cardinality(FileRows)
        bySection(rows) == \A k, l \in places : k < l => Precedes(rows[k], rows[l])
        byToken(rows) == \A k, l \in places : k < l /\ RowKey(rows[k]) = RowKey(rows[l]) =>
                            /\ Precedes(rows[k], rows[l])
                            /\ \A m \in k..l : RowKey(rows[m]) = RowKey(rows[k])
    IN {rows \in Bijection(places, FileRows) : bySection(rows) \/ byToken(rows)}

(* _write_legacy_result_events: only events as the rows come, then one     *)
(* duplicate event for each key, of the side of its last row.              *)
FileEvents(rows) ==
    LET in(section) == EntriesAt(rows, {k \in 1..Len(rows) : rows[k].section = section})
        only    == in("only")
        repeats == in("duplicates")
        key(k)   == RowKey(repeats[k])
        ofKey(k) == {l \in 1..Len(repeats) : key(l) = key(k)}
        leading  == {k \in 1..Len(repeats) : \A l \in ofKey(k) : k <= l}
        last(k)  == CHOOSE l \in ofKey(k) : \A m \in ofKey(k) : m <= l
    IN Events(only, LAMBDA row : OnlyEvent(row.side, row.ordinal))
       \o Events(InOrder(leading),
                 LAMBDA k : DuplicateEvent(key(k), repeats[last(k)].side,
                                           DuplicateCount(ofKey(k))))

-----------------------------------------------------------------------------
(* The events of a field diff: the first rows of the shared keys in sorted *)
(* files, every row of the first file with a partner otherwise.            *)

Partner(i) ==
    CHOOSE j \in FirstOrdinals(Keys("second")) : Key("second", j) = Key("first", i)

Matched ==
    {i \in 1..Len(input.first) :
        /\ Occurs(Key("first", i), Keys("second"))
        /\ config.producer = "sorted" => IsFirst(Keys("first"), i)}

ChangedRows == {i \in Matched : input.first[i].cell # input.second[Partner(i)].cell}

ReportedCount ==
    LET changed == Cardinality(ChangedRows)
    IN IF config.max_rows = None \/ changed <= config.max_rows THEN changed ELSE config.max_rows

(* field_diff_row_events: the row, then its only field. *)
FieldEvents ==
    [k \in 1..(2 * ReportedCount) |->
        LET i == InOrder(ChangedRows)[(k + 1) \div 2]
        IN [type |-> IF k % 2 = 1 THEN "row_changed" ELSE "field_change",
            key |-> Key("first", i), row |-> i]]

-----------------------------------------------------------------------------
Metadata == [type |-> "metadata"]

(* build_summary_event; the sorted diff leaves all but the last at zero.   *)
Summary ==
    LET compared == config.producer # "sorted"
        changed == IF config.producer \in {"fields", "sorted"} THEN Cardinality(ChangedRows) ELSE 0
        number(S) == IF compared THEN Cardinality(S) ELSE 0
    IN [type |-> "summary",
        rows |-> [side \in Side |-> number(1..Len(input[side]))],
        common |-> number(CommonOrdinals(Keys("first"), Keys("second"))),
        only |-> [side \in Side |-> number(OnlyOrdinals(Keys(side), Keys(Other(side))))],
        duplicate |-> [side \in Side |-> number(DuplicateRows(side))],
        changed_rows |-> changed,
        changed_fields |-> changed]

-----------------------------------------------------------------------------
(* _write_event_output *)

Succeeding == raised = <<>>
RaiseNext(cause) == raised' = Append(raised, cause)

Open ==
    /\ phase = "open"
    /\ phase' = "metadata"
    /\ sibling' = config.output
    /\ UNCHANGED <<call, writer, raised, pending, result, target>>

(* The sibling cannot be made, or is made, not opened and unlinked. *)
OpenFails ==
    /\ phase = "open"
    /\ config.output
    /\ RaiseNext("output")
    /\ phase' = "ended"
    /\ UNCHANGED <<call, writer, pending, files>>

(* Mutant: the result file is left to the operating system. *)
RaiseAtOnce(cause) ==
    /\ RaiseNext(cause)
    /\ phase' = "close"

(* The `finally` of the producer unlinks its temporary file first. *)
Raise(cause) ==
    /\ RaiseNext(cause)
    /\ phase' = IF result THEN "unlink" ELSE "close"

Write(event) == WriteEvent(event) /\ UNCHANGED <<call, raised, files>>

WriteFails(event) ==
    /\ WriteEventFails(event)
    /\ Raise("output")
    /\ UNCHANGED <<call, pending, files>>

WriteMetadata ==
    /\ phase = "metadata"
    /\ Write(Metadata)
    /\ phase' = "compare"
    /\ UNCHANGED pending

(* _temporary_jsonl_path, before the `try` whose `finally` unlinks it. *)
MakeResult ==
    /\ ~result
    /\ \/ phase = "compare" /\ config.producer = "disk"
       \/ phase = "fields"
    /\ result' = TRUE
    /\ UNCHANGED <<call, writer, phase, raised, pending, sibling, target>>

(* compare_files; the disk result goes to the temporary file. *)
Compare ==
    /\ phase = "compare"
    /\ config.producer = "disk" => result
    /\ CASE config.producer = "memory" -> pending' = ResultEvents
         [] config.producer = "disk"   -> \E rows \in ResultFiles : pending' = FileEvents(rows)
         [] config.producer = "fields" -> pending' = OnlyEvents("first") \o OnlyEvents("second")
         [] config.producer = "sorted" -> pending' = FieldEvents
    /\ phase' = "events"
    /\ UNCHANGED <<call, writer, raised, files>>

WriteNext ==
    /\ phase \in {"events", "field_events"}
    /\ pending # <<>>
    /\ Write(Head(pending))
    /\ pending' = Tail(pending)
    /\ UNCHANGED phase

FinishEvents ==
    /\ phase \in {"events", "field_events"}
    /\ pending = <<>>
    /\ phase' = IF result THEN "unlink"
                ELSE IF config.producer = "fields" THEN "fields" ELSE "summary"
    /\ UNCHANGED <<call, writer, raised, pending, files>>

(* compare_file_fields writes its own file, which is then read back. *)
CompareFields ==
    /\ phase = "fields"
    /\ result
    /\ pending' = FieldEvents
    /\ phase' = "field_events"
    /\ UNCHANGED <<call, writer, raised, files>>

(* A comparison, a reader or a generator raises, before the temporary file *)
(* exists, with it, or in the middle of its rows.                          *)
SourceRaises ==
    /\ phase \in {"compare", "events", "fields", "field_events"}
    /\ Raise("source") \/ Raise("interrupt")
    /\ UNCHANGED <<call, writer, pending, files>>

(* Mutant: the summary is written although the events failed. *)
UnlinkResultSummarizing ==
    /\ phase = "unlink"
    /\ result' = FALSE
    /\ phase' = "summary"
    /\ UNCHANGED <<call, writer, raised, pending, sibling, target>>

UnlinkResult ==
    /\ phase = "unlink"
    /\ result' = FALSE
    /\ phase' = IF Succeeding THEN "summary" ELSE "close"
    /\ UNCHANGED <<call, writer, raised, pending, sibling, target>>

UnlinkResultFails ==
    /\ phase = "unlink"
    /\ RaiseNext("unlink")
    /\ phase' = "close"
    /\ UNCHANGED <<call, writer, pending, files>>

WriteSummary ==
    /\ phase = "summary"
    /\ Write(Summary)
    /\ phase' = "close"
    /\ UNCHANGED pending

(* A write that flushes may fail; metadata alone never fills the buffer.   *)
EventFails ==
    \/ phase \in {"events", "field_events"} /\ pending # <<>> /\ WriteFails(Head(pending))
    \/ phase = "summary" /\ WriteFails(Summary)

(* `finally: writer.close()`; then the file is closed. *)
CloseWriter ==
    /\ phase = "close"
    /\ CloseBuffer
    /\ phase' = IF ~config.output THEN "ended" ELSE IF Succeeding THEN "replace" ELSE "discard"
    /\ UNCHANGED <<call, raised, pending, files>>

CloseWriterFails ==
    /\ phase = "close"
    /\ CloseBufferFails
    /\ RaiseNext("output")
    /\ phase' = IF config.output THEN "discard" ELSE "ended"
    /\ UNCHANGED <<call, pending, files>>

Replace ==
    /\ phase = "replace"
    /\ target' = fp
    /\ sibling' = FALSE
    /\ phase' = "ended"
    /\ UNCHANGED <<call, writer, raised, pending, result>>

(* Closing the file, or os.replace. *)
ReplaceFails ==
    /\ phase = "replace"
    /\ RaiseNext("output")
    /\ phase' = "discard"
    /\ UNCHANGED <<call, writer, pending, files>>

(* `except Exception`: an interrupt keeps the sibling. *)
Discard ==
    /\ phase = "discard"
    /\ sibling' = (Last(raised) = "interrupt")
    /\ phase' = "ended"
    /\ UNCHANGED <<call, writer, raised, pending, result, target>>

DiscardFails ==
    /\ phase = "discard"
    /\ Last(raised) # "interrupt"
    /\ RaiseNext("unlink")
    /\ phase' = "ended"
    /\ UNCHANGED <<call, writer, pending, files>>

-----------------------------------------------------------------------------
Progress ==
    \/ Open \/ WriteMetadata
    \/ MakeResult \/ Compare \/ CompareFields
    \/ WriteNext \/ FinishEvents \/ UnlinkResult
    \/ WriteSummary
    \/ CloseWriter \/ Replace \/ Discard

Failure ==
    \/ OpenFails
    \/ SourceRaises \/ EventFails
    \/ UnlinkResultFails
    \/ CloseWriterFails \/ ReplaceFails \/ DiscardFails

Next == Progress \/ Failure

Spec == Init /\ [][Next]_vars

-----------------------------------------------------------------------------
Failed(cause) == cause \in ToSet(raised)

(* What the command has to report of its inputs, whatever the producer.    *)
AllKeys == {Key("first", i) : i \in 1..Len(input.first)}
           \cup {Key("second", i) : i \in 1..Len(input.second)}

Occurrences(key, side) == Cardinality({i \in 1..Len(input[side]) : Key(side, i) = key})

ExpectedDuplicates ==
    IF config.producer \in {"memory", "disk"} /\ config.include_duplicates
      THEN {DuplicateEvent(ks[1], ks[2], Occurrences(ks[1], ks[2])) :
              ks \in {pair \in AllKeys \X Side : Occurrences(pair[1], pair[2]) > 1}}
      ELSE {}

ExpectedOnly ==
    IF config.producer = "sorted" THEN {}
      ELSE {[type |-> OnlyType(ks[2]), key |-> ks[1]] :
              ks \in {pair \in AllKeys \X Side : /\ Occurrences(pair[1], pair[2]) > 0
                                                 /\ Occurrences(pair[1], Other(pair[2])) = 0}}

Expected ==
    ExpectedOnly \cup ExpectedDuplicates
    \cup (IF config.producer \in {"fields", "sorted"} THEN ToSet(FieldEvents) ELSE {})

DuplicateOnBothSides == \E key \in AllKeys : \A side \in Side : Occurrences(key, side) > 1

Stream == IF config.output THEN target ELSE fp

Done == phase = "ended" /\ Succeeding

(* "The first event is metadata, the last event is summary"                *)
(* (docs/cli.md), and between them stands every difference once, within    *)
(* the limits: one is missing only if a limit leaves no room for it, and   *)
(* then the summary says how many are.  Left out is the one case in which  *)
(* the disk producer is known to differ, see DuplicateEventsHoldTheirSide. *)
StreamIsWhole ==
    Done /\ ~(config.producer = "disk" /\ config.include_duplicates /\ DuplicateOnBothSides) =>
        LET data == SubSeq(Stream, 2, Len(Stream) - 1)
            missing == Expected \ ToSet(data)
            summary == Last(Stream)
        IN /\ Len(Stream) >= 2 /\ Head(Stream) = Metadata /\ summary.type = "summary"
           /\ IsInjective(data) /\ ToSet(data) \subseteq Expected
           /\ config.max_output_rows # None => Len(data) <= config.max_output_rows
           /\ config.max_output_bytes # None /\ data # <<>> =>
                 SizeOf(data) <= config.max_output_bytes
           /\ \A event \in missing :
                 \/ Len(data) = config.max_output_rows
                 \/ /\ config.max_output_bytes # None
                    /\ SizeOf(data) + Size(event) > config.max_output_bytes
           /\ \A side \in Side : config.producer # "sorted" =>
                 summary.only[side] = Cardinality({e \in Expected : e.type = OnlyType(side)})
           /\ missing # {} => /\ summary.output_truncated
                              /\ summary.skipped_events = Cardinality(missing)
                              /\ summary.emitted_events = Len(data)
                              /\ summary.output_bytes = SizeOf(data) + Size(Metadata)

(* iter_event_rows with validate_sequence. *)
Accepted(events) ==
    /\ events # <<>>
    /\ Head(events).type = "metadata"
    /\ Last(events).type = "summary"

(* A reader of standard output can tell a stream that was cut short: it    *)
(* accepts the stream if and only if the command did not fail, unless it   *)
(* is the write itself that failed.                                        *)
RefusedWhenIncomplete ==
    phase = "ended" /\ ~config.output /\ ~Failed("output") =>
        (Accepted(fp) <=> Succeeding)

(* The command leaves no temporary file, unless it cannot be unlinked or   *)
(* an interrupt passes `except Exception`, and the output path changes     *)
(* only if it succeeds.                                                    *)
FailureLeavesNoTrace ==
    /\ phase = "ended" /\ ~Failed("unlink") =>
          ~result /\ (sibling => Last(raised) = "interrupt")
    /\ ~Succeeding => target = None

(* README.md: "`duplicate_key` | Duplicate key detected on one side": each *)
(* event has the number of rows its side has of the key.                   *)
DuplicateEventsHoldTheirSide ==
    Done => \A k \in 1..Len(Stream) :
                Stream[k].type = "duplicate_key" => Stream[k] \in ExpectedDuplicates
===============================================================================
