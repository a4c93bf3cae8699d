------------------------------- MODULE PublicApi -------------------------------
(***************************************************************************)
(* A program calls one of the tools the package exports (__init__.py): the *)
(* command line or its exact comparisons, the event stream, the schema     *)
(* diff, the reading of a temporary record file, the Bloom filter          *)
(* candidates, the fuzzy matching or, several programs at once, the        *)
(* writers of one output path.  The tools share the input, no state; a     *)
(* step is a step of the tool that was called.                             *)
(***************************************************************************)
EXTENDS Integers, Sequences

CONSTANTS
    None,
    CommandCalls, EventCalls, SchemaCalls,      \* inputs and options, per tool
    Unreadable, SqliteItemLimit, HashPartitionItemLimit,    \* of Planner
    BufferSize,                                             \* of JsonlWriter
    Bad,                                                    \* of SchemaDiff
    HeaderSize, Files,                                      \* of RecordReader
    Item, Bit, BloomInputs,                                 \* of BloomCandidates
    Score, Matrices,                                        \* of FuzzyMatch
    Writer, Kind, Content                                   \* of AtomicOutput

(* _AUTO_SQLITE_ITEM_LIMIT and _AUTO_HASH_PARTITION_ITEM_LIMIT *)
ASSUME LimitsAreOrdered ==
    /\ SqliteItemLimit \in Nat /\ HashPartitionItemLimit \in Nat
    /\ SqliteItemLimit <= HashPartitionItemLimit

(* The metadata never fills the buffer: the command line sets 64. *)
ASSUME BufferHoldsMetadata == BufferSize \in Nat /\ BufferSize > 1

ASSUME KindsAreKnown == Kind \in [Writer -> {"stream", "fields", "document"}]

ASSUME HeaderIsNotEmpty == HeaderSize \in Nat \ {0}

(* None is none of the values an option or an outcome has. *)
ASSUME NoneIsNoValue ==
    None \notin {"memory", ".jsonl", ".csv", "exit 0", "exit 1", "exit 2", "uncaught",
                  "raised", "returned"}

(* The options of a call: argparse and the keyword arguments have defaults *)
(* for all of them, no disk strategy is called "memory", the command line  *)
(* leaves the statistics on, `duplicates` has no file mode.                *)
ASSUME CommandCallsAreReal ==
    \A c \in CommandCalls :
        /\ \A side \in {"first", "second"} :
              c.input[side] \in Seq({c.input[side][i] : i \in DOMAIN c.input[side]})
        /\ {"mode", "result_mode", "temp_dir", "memory_limit", "sized", "disk_strategy"}
              \subseteq DOMAIN c.config
        /\ c.config.memory_limit \in Int \cup {None, Unreadable}
        /\ c.config.disk_strategy # "memory"
        /\ c.config.result_mode \in {"memory", "file"}
        /\ c.config.reports \subseteq {"fields", "schema"}
        /\ c.config.caller = "cli" => c.config.include_stats
        /\ c.config.command = "duplicates" => c.config.result_mode = "memory"

ASSUME SchemaCallsAreReal ==
    \A c \in SchemaCalls : \A side \in {"first", "second"} :
        c.input[side] \in Seq({c.input[side][i] : i \in DOMAIN c.input[side]})

(* argparse and cli.py check the number of rows a call limits its stream   *)
(* or its field diff to, not the number of bytes.                          *)
ASSUME EventCallsAreReal ==
    \A c \in EventCalls :
        /\ \A side \in {"first", "second"} :
              c.input[side] \in Seq({c.input[side][i] : i \in DOMAIN c.input[side]})
        /\ c.config.producer \in {"memory", "disk", "fields", "sorted"}
        /\ c.config.max_rows \in Int \cup {None}
        /\ c.config.max_output_rows \in Nat \cup {None}
        /\ c.config.max_output_bytes \in Int \cup {None}

ASSUME BloomInputsAreSequences == BloomInputs \subseteq Seq(Item)

ASSUME ScoresArePercents == Score \subseteq 0..100 /\ Matrices \subseteq Seq(Seq(Score))

VARIABLES
    tool,       \* what was called
    input, config, phase, target, taken,        \* of several tools
    backend, answer, stdout, outcome,           \* of CommandLine
    fp, buffer, emitted, skipped, bytes, dataBytes, truncated,  \* of JsonlWriter
    raised, pending, result, sibling,           \* of EventStream
    trackers, rowCount, sampled, changes,       \* of SchemaDiff
    file, position, read, reading,              \* of RecordReader
    hashes, bits, asked, candidates,            \* of BloomCandidates
    scores, threshold, turn, common, onlyFirst, \* of FuzzyMatch
    siblings, session                           \* of AtomicOutput

arguments == <<tool, input, config>>
command == <<backend, answer, stdout, outcome>>
events  == <<fp, buffer, emitted, skipped, bytes, dataBytes, truncated,
             raised, pending, result, sibling>>
schema  == <<trackers, rowCount, sampled, changes>>
records == <<file, position, read, reading>>
bloom   == <<hashes, bits, asked, candidates>>
fuzzy   == <<scores, threshold, turn, common, onlyFirst>>
writers == <<siblings, session>>

vars == <<arguments, phase, target, taken, command, events, schema, records, bloom, fuzzy,
          writers>>

Command == INSTANCE CommandLine WITH Calls <- CommandCalls
Events  == INSTANCE EventStream WITH Calls <- EventCalls
Schema  == INSTANCE SchemaDiff WITH Calls <- SchemaCalls
Records == INSTANCE RecordReader
Bloom   == INSTANCE BloomCandidates WITH Inputs <- BloomInputs
Fuzzy   == INSTANCE FuzzyMatch
Writers == INSTANCE AtomicOutput WITH sibling <- siblings

(* A record file ends where its last record does, or before. *)
ASSUME FilesAreCut ==
    \A f \in Files : /\ f.records \in Seq([token : Nat, payload : Nat])
                     /\ f.size \in 0..Records!SizeOf(f.records)

-----------------------------------------------------------------------------
(* The state of a tool that was not called. *)

NoCall == input = None /\ config = None

NoCommand == backend = None /\ answer = None /\ stdout = None /\ outcome = None

NoEvents ==
    /\ fp = None /\ buffer = None /\ emitted = None /\ skipped = None
    /\ bytes = None /\ dataBytes = None /\ truncated = None
    /\ raised = None /\ pending = None /\ result = None /\ sibling = None

NoSchema == trackers = None /\ rowCount = None /\ sampled = None /\ changes = None

NoRecords == file = None /\ position = None /\ read = None /\ reading = None

NoBloom == hashes = None /\ bits = None /\ asked = None /\ candidates = None

NoFuzzy ==
    scores = None /\ threshold = None /\ turn = None /\ common = None /\ onlyFirst = None

NoWriters == siblings = None /\ session = None

Init ==
    \/ /\ tool = "command" /\ Command!Init /\ taken = None
       /\ NoEvents /\ NoSchema /\ NoRecords /\ NoBloom /\ NoFuzzy /\ NoWriters
    \/ /\ tool = "events" /\ Events!Init /\ taken = None
       /\ NoCommand /\ NoSchema /\ NoRecords /\ NoBloom /\ NoFuzzy /\ NoWriters
    \/ /\ tool = "schema" /\ Schema!Init /\ target = None
       /\ NoCommand /\ NoEvents /\ NoRecords /\ NoBloom /\ NoFuzzy /\ NoWriters
    \/ /\ tool = "records" /\ Records!Init /\ NoCall
       /\ phase = None /\ target = None /\ taken = None
       /\ NoCommand /\ NoEvents /\ NoSchema /\ NoBloom /\ NoFuzzy /\ NoWriters
    \/ /\ tool = "bloom" /\ Bloom!Init /\ config = None
       /\ phase = None /\ target = None
       /\ NoCommand /\ NoEvents /\ NoSchema /\ NoRecords /\ NoFuzzy /\ NoWriters
    \/ /\ tool = "fuzzy" /\ Fuzzy!Init /\ NoCall
       /\ phase = None /\ target = None /\ taken = None
       /\ NoCommand /\ NoEvents /\ NoSchema /\ NoRecords /\ NoBloom /\ NoWriters
    \/ /\ tool = "writers" /\ Writers!Init /\ NoCall
       /\ phase = None /\ taken = None
       /\ NoCommand /\ NoEvents /\ NoSchema /\ NoRecords /\ NoBloom /\ NoFuzzy

-----------------------------------------------------------------------------
CommandStep ==
    /\ tool = "command"
    /\ Command!Next
    /\ UNCHANGED <<tool, taken, events, schema, records, bloom, fuzzy, writers>>

EventStep ==
    /\ tool = "events"
    /\ Events!Next
    /\ UNCHANGED <<tool, taken, command, schema, records, bloom, fuzzy, writers>>

SchemaStep ==
    /\ tool = "schema"
    /\ Schema!Next
    /\ UNCHANGED <<tool, target, command, events, records, bloom, fuzzy, writers>>

RecordStep ==
    /\ tool = "records"
    /\ Records!Next
    /\ UNCHANGED <<arguments, phase, target, taken, command, events, schema, bloom, fuzzy,
                   writers>>

BloomStep ==
    /\ tool = "bloom"
    /\ Bloom!Next
    /\ UNCHANGED <<tool, config, phase, target, command, events, schema, records, fuzzy,
                   writers>>

FuzzyStep ==
    /\ tool = "fuzzy"
    /\ Fuzzy!Next
    /\ UNCHANGED <<arguments, phase, target, taken, command, events, schema, records, bloom,
                   writers>>

WriterStep ==
    /\ tool = "writers"
    /\ Writers!Next
    /\ UNCHANGED <<arguments, phase, taken, command, events, schema, records, bloom, fuzzy>>

Next ==
    \/ CommandStep \/ EventStep \/ SchemaStep \/ RecordStep \/ BloomStep \/ FuzzyStep
    \/ WriterStep

Spec == Init /\ [][Next]_vars

-----------------------------------------------------------------------------
(* Each tool's properties, stated and explained in its own module.         *)

(* The caller finds the exact sections at the place the options name.      *)
DeliversTheComparison == tool = "command" => Command!DeliversTheComparison

(* main returns 1 if and only if the differences asked for exist.          *)
ExitCodeTellsDifferences == tool = "command" => Command!ExitCodeTellsDifferences

(* Status 1 of the process is for --fail-on-diff.                          *)
StatusIsDocumented == tool = "command" => Command!StatusIsDocumented

(* A comparison that auto mode runs in memory fits the memory limit.       *)
AutoKeepsTheLimit == tool = "command" => Command!AutoKeepsTheLimit

(* A call that fails leaves the output path as it was.                     *)
FailureKeepsTheOutput == tool = "command" => Command!FailureKeepsTheOutput

(* What a comparison returns does not depend on its mode.                  *)
ModesAgree == tool = "command" => Command!ModesAgree

(* The stream holds every difference once, within its limits, and a        *)
(* summary that accounts for the rest.                                     *)
StreamIsWhole == tool = "events" => Events!StreamIsWhole

(* A reader accepts a stream if and only if the command succeeded.         *)
RefusedWhenIncomplete == tool = "events" => Events!RefusedWhenIncomplete

(* A command that fails leaves no temporary file and no output.            *)
FailureLeavesNoTrace == tool = "events" => Events!FailureLeavesNoTrace

(* A duplicate event counts the rows of its own side.                      *)
DuplicateEventsHoldTheirSide == tool = "events" => Events!DuplicateEventsHoldTheirSide

(* The trackers say of every column what the rows counted say of it.       *)
TrackersAreExact == tool = "schema" => Schema!TrackersAreExact

(* Added, removed and changed columns, and the warning of a sample.        *)
SchemaDiffIsExact == tool = "schema" => Schema!SchemaDiffIsExact

(* A record file that was cut short is not read as one that ended.         *)
CutIsNoticed == tool = "records" => Records!CutIsNoticed

(* A candidate is a difference, whatever the hash functions do.            *)
CandidatesAreDifferences == tool = "bloom" => Bloom!CandidatesAreDifferences

(* The pairs are a matching that cannot be extended.                       *)
MatchingIsMaximal == tool = "fuzzy" => Fuzzy!MatchingIsMaximal

(* Temporary siblings hold beginnings of results, the path a whole one.    *)
FilesHoldResults == tool = "writers" => Writers!TypeOK

(* The path changes only when a writer is done, to that writer's result.   *)
PublishedWhole == [][tool = "writers" => Writers!PublishesWhole]_vars
===============================================================================
