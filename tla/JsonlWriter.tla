----------------------------- MODULE JsonlWriter -----------------------------
(***************************************************************************)
(* output/jsonl.py: the writer of a uniqdiff.jsonl event stream.  Lines go *)
(* to a buffer, a full buffer goes to the file object; the data events are *)
(* limited in number and bytes, metadata and summary are not.              *)
(*                                                                         *)
(* An event is a record with a type; Size(event) is the length of its line *)
(* as far as events differ in it.                                          *)
(***************************************************************************)
EXTENDS Integers, SequencesExt

CONSTANTS
    BufferSize,     \* buffer_size, 64 for the command line
    None

VARIABLES
    config,     \* the arguments, max_output_rows and max_output_bytes among them
    fp,         \* the events the file object has taken
    buffer,     \* _buffer
    emitted,    \* emitted_data_events
    skipped,    \* skipped_events
    bytes,      \* bytes_written
    dataBytes,  \* data_bytes_written
    truncated

writer == <<fp, buffer, emitted, skipped, bytes, dataBytes, truncated>>

WriterInit ==
    /\ fp = <<>>
    /\ buffer = <<>>
    /\ emitted = 0
    /\ skipped = 0
    /\ bytes = 0
    /\ dataBytes = 0
    /\ truncated = FALSE

-----------------------------------------------------------------------------
Envelope(event) == event.type \in {"metadata", "summary"}

Size(event) == IF event.type \in {"row_changed", "duplicate_key"} THEN 2 ELSE 1

SizeOf(events) == Cardinality(UNION {{k} \X (1..Size(events[k])) : k \in 1..Len(events)})

OverRowLimit == config.max_output_rows # None /\ emitted >= config.max_output_rows

OverByteLimit(size) ==
    config.max_output_bytes # None /\ dataBytes + size > config.max_output_bytes

Skips(event) == ~Envelope(event) /\ (OverRowLimit \/ OverByteLimit(Size(event)))

(* _summary_event: the four fields are added if the stream has a limit.    *)
SummaryEvent(event) ==
    LET limits == [output_truncated |-> truncated, emitted_events |-> emitted,
                   skipped_events |-> skipped, output_bytes |-> bytes]
        added == IF ~truncated /\ config.max_output_rows = None /\ config.max_output_bytes = None
                   THEN {} ELSE DOMAIN limits
    IN [field \in DOMAIN event \cup added |->
          IF field \in DOMAIN event THEN event[field] ELSE limits[field]]

OutputEvent(event) == IF event.type = "summary" THEN SummaryEvent(event) ELSE event

FlushIsDue == Len(buffer) + 1 >= BufferSize

SkipEvent(event) ==
    /\ Skips(event)
    /\ skipped' = skipped + 1
    /\ truncated' = TRUE
    /\ UNCHANGED <<fp, buffer, emitted, bytes, dataBytes>>

CountBytes(event) == bytes' = bytes + Size(event)

(* _write_line *)
TakeLine(event) ==
    IF FlushIsDue THEN fp' = fp \o Append(buffer, event) /\ buffer' = <<>>
                  ELSE buffer' = Append(buffer, event) /\ UNCHANGED fp

EmitEvent(event) ==
    /\ ~Skips(event)
    /\ TakeLine(OutputEvent(event))
    /\ CountBytes(event)
    /\ emitted' = IF Envelope(event) THEN emitted ELSE emitted + 1
    /\ dataBytes' = IF Envelope(event) THEN dataBytes ELSE dataBytes + Size(event)
    /\ UNCHANGED <<skipped, truncated>>

WriteEvent(event) == SkipEvent(event) \/ EmitEvent(event)

(* fp.write raises after the file object took some of the lines: they stay *)
(* in the buffer, and the data counters are not reached.                   *)
WriteEventFails(event) ==
    /\ ~Skips(event)
    /\ FlushIsDue
    /\ buffer' = Append(buffer, OutputEvent(event))
    /\ \E taken \in 0..Len(buffer') : fp' = fp \o SubSeq(buffer', 1, taken)
    /\ CountBytes(event)
    /\ UNCHANGED <<emitted, skipped, dataBytes, truncated>>

(* close() is flush_buffer(). *)
CloseBuffer ==
    /\ fp' = fp \o buffer
    /\ buffer' = <<>>
    /\ UNCHANGED <<emitted, skipped, bytes, dataBytes, truncated>>

CloseBufferFails ==
    /\ buffer # <<>>
    /\ \E taken \in 0..Len(buffer) : fp' = fp \o SubSeq(buffer, 1, taken)
    /\ UNCHANGED <<buffer, emitted, skipped, bytes, dataBytes, truncated>>
===============================================================================
