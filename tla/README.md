# A TLA+ development for uniqdiff

uniqdiff compares two inputs item by item: every item is reduced to a comparison
token, and the result tells which tokens occur only in the first input, only in the
second, in both, and which items repeat a token. This directory holds TLA+ modules
that model the comparison engine, the TLC configurations that check them on small
instances, and TLAPS proofs for every value of the constants. Paths below are
relative to `src/uniqdiff/` of the repository.

## 1. The system

| component | state it keeps | operations | hard behaviour |
|---|---|---|---|
| memory backend, `storage/memory.py` | per input: a dictionary token -> first item, a list of repeats, a count | index both inputs, select the sections, count | two dictionaries read against each other; two key orders (`preserve_order`) |
| external sort, `storage/external_sort.py` | batch, sorted chunk files, the heads of a k-way merge, the current token groups, counters | write chunks, check `disk_limit`, merge, group, emit, clean up | groups spread over chunks, batch boundaries, failures with files on disk |
| hash partition, `storage/partition.py` | partition files of both inputs, one pair of partitions in memory, counters | make files, write records, check the limit every chunk, compare pair by pair, clean up | any distribution of tokens, checks between which usage grows, failures |
| SQLite, `storage/sqlite.py` | a temporary database with two tables, a batch, result lists or a writer | transaction per input, batches, limit check, indexes, section queries, counts, clean up | a check inside an open transaction, representatives by ordinal and repeats by rowid |
| atomic output, `output/result_files.py`, `disk.py`, `fields.py` | a temporary sibling of the output path | open, write rows, replace or discard | several writers of one path, failure and kill at every step |
| sorted stream, `streaming.py` | one token group per input | a generator; `write_sorted_diff` consumes it into atomic output | rows are handed out before the inputs are known to be sorted; the consumer may stop; tokens without an order |
| tokens and codec, `tokens.py`, `storage/codec.py` | a position in a record file | derive a token, encode to bytes, frame and read records | equality of values against equality of bytes; records cut short |
| planner and API, `planner.py`, `core.py` | the plan and the answer of one call | choose memory or disk and the disk strategy, dispatch, save | option combinations, unsized inputs, limits, which error comes when |
| field diff, `fields.py` | key indexes or sorted key groups, counters, output limits | changed fields per key, JSONL rows | row and byte limits, duplicate keys, sortedness |
| event stream, `output/jsonl.py`, `output/events.py` | a line buffer, counters of emitted and skipped events | write events, truncate, summarise | limits, failing writes, flush |
| command line, `cli.py` | the payload of a command, what is printed and saved | validate, run, show or save, exit code; the event commands | events built from several passes over the inputs; a result saved and shown by two functions, one outside the `try` |
| schema, `schema.py` | a tracker for every column | infer from rows, diff | what depends on the order of the rows; samples |
| Bloom candidates, `bloom.py` | two bit sets | add, ask | false positives, and no false negatives |
| fuzzy matching, `fuzzy.py` | the second strings already taken | greedy matching | the order of choices, ties |
| readers, connectors, result types | - | parse files, look up factories, hold data | formats and I/O |

The API asks the planner for a backend, builds a token factory, and calls the backend
with two iterables. A backend consumes the first iterable and then the second on its
caller's thread. In file mode the disk backends send rows through
`StreamingResultWriter` instead of collecting lists; the memory results are saved by
`atomic_write_result`. Nothing in the library starts a thread; concurrency comes from
several calls or processes writing one output path, from consumers of generators, and
from failures between two steps.

What makes the components correct:

- every exact backend returns exact sections and counts, in input order where it says
  so, or raises and gives nothing (`docs/backend-behavior.md`);
- an output path changes only to the whole result of a call that succeeded;
- temporary files go away and `disk_limit` is enforced (`docs/limitations-security.md`);
- a validated streaming diff never passes unsorted inputs off as compared.

`PROJECT.json` lists the hazards behind these, each at its line.

## 2. The modules

`Comparison` says what an exact comparison of two token sequences is; an item is its
side and ordinal (from 1; the code counts from 0). `CompareContract` is the abstract
specification of a backend: a call is running until it returns an answer that
`Comparison` calls exact or raises with none. Every backend module instantiates it
under a refinement mapping as `Contract` and states `Implements == Contract!Spec`.

| module | models | one step is |
|---|---|---|
| `MemoryBackend` | `storage/memory.py` | one item indexed, one dictionary value copied to a section |
| `ResultRows` | helpers the disk backends share | - |
| `AtomicOutput` | the three temporary-sibling writers | open, one row, close, replace, discard, a failure, a kill |
| `ExternalSort` | `storage/external_sort.py` | one item read, one chunk written, one record pulled through merge and grouping, one round of the merge loop, one unlink |
| `HashPartition` | `storage/partition.py` | one file made, one record written, one pair read, one token emitted, one unlink |
| `SqliteBackend` | `storage/sqlite.py` | one item read, one batch inserted, one commit, one section fetched or written |
| `SortedStream` | `streaming.py` | one item grouped, one pair of groups compared, one row delivered |
| `FieldReport` | what both field diffs of `fields.py` share: options, counters, emission, the file writer | - |
| `FieldDiffContract` | the abstract specification of a field diff | the return, or a raise |
| `FieldDiff` | `compare_fields` | one row indexed, one row compared |
| `SortedFieldDiff` | `compare_fields_sorted`, `iter_field_diff_sorted` | one row grouped, one pair of groups compared, one row delivered |
| `FieldDiffCall` | the choice between the two in `cli.py`, as one component | a step of the variant chosen |
| `JsonlWriter` | `output/jsonl.py` | one event written, skipped or failing, one flush |
| `EventStream` | the event commands of `cli.py` with the event builders and the reader of `output/events.py` | one comparison, one event, one temporary file made or removed |
| `Tokens` | `canonicalize_token` of `tokens.py` and `to_blob` of `storage/codec.py` | - |
| `Planner` | `planner.py` | - |
| `CommandLine` | `main`, `_run_command` and the handlers of `cli.py` with the comparison functions of `core.py` | arguments validated, backend planned, comparison run, result saved, result shown |
| `SchemaDiff` | `compare_schema` of `schema.py` | one row tracked, the diff |
| `RecordReader` | `read_record` of `storage/codec.py` | one record, the end, or the exception |
| `BloomCandidates` | `bloom.py` | one item added, one item asked for |
| `FuzzyMatch` | `compare_fuzzy_strings` | one string of the first list |
| `PublicApi` | what `__init__.py` exports, beside the backends: one of the tools above | a step of the tool called |

`ExternalSort`, `HashPartition`, `SqliteBackend`, `SortedStream` and `FieldReport`
instantiate `AtomicOutput` as `Out` with one writer and use its actions for their output
file, so that the refinement of the contract covers what is published at the path.
`FieldDiff` and `SortedFieldDiff` extend `FieldReport`, each with its own answer to which
rows are compared (`Compared`); `FieldDiffCall` instantiates both over one set of
variables and is checked against `FieldDiffContract`, as their callers use either report
as the same thing.
`EventStream` extends `JsonlWriter`; it takes what the comparisons return from
`Comparison`, since their own modules are checked for it, and models what the command
line does around them: the order of metadata, events and summary, the result file that
is read back, the sibling of the output file, and every exception between.

`CommandLine` extends `Planner`, `Tokens` and `Comparison`: a comparison in it raises or
gives the sections that the tokens of the planned backend determine, in memory the
values under Python's equality, on disk the bytes; what is checked there is the way of a
result to the place where its caller looks for it. `PublicApi` instantiates the six tools
and, as a seventh, `AtomicOutput` with several writers of one path, shares the variables that
mean the same in several of them (`input`, `config`, `phase`, `target`, `taken`), keeps those of the tools not called at `None`, and states each tool's
properties for the calls of that tool.

How state corresponds to the code: `phase` is the program counter of the call; `error`
is what the exception in flight came from; `itemCount`, `counts`, `batch`, `chunks`,
`table` are the variables of the same or similar names. A dictionary `first_by_token`
is the sequence of its values in insertion order. A record or payload is its ordinal;
its token is looked up in the input. The size of a chunk or partition file is its number of
records, since the code closes those files before it asks; `disk_limit` counts records there. The content of `_group_sorted_records` and
`_group_sorted` is the pair of the rows collected (`building`, `current`) and the
group handed over (`group`). SQL queries are set expressions over rowids. The SQLite file is
measured in pages: the schema takes one and every table its root before the first row
(`DatabasePages`), rows fill pages (`TablePages`), and of the pages an open transaction has
changed the file has any number, short of at most those the cache holds (`Spill`); a commit
writes the rest. How SQLite fills pages is external and taken from its file format and
from measuring: a new database with both tables has three pages, and with the default
cache of 2000 KiB (500 pages) inserts stay up to 432 pages ahead of the file. A rollback is
not followed further, since no query comes after it.

In the field diffs a row is its key and its cells, and an emitted row is the ordinals of
the two rows it compares and the set of fields that differ; its line is one unit long
for each field and one more. In `EventStream` a row has one field beside its key, an
event is a record of its type and of what the properties need to tell it from others,
and duplicate and row events are twice as long as the others, so that the byte limit
can skip one event and take the next.

In `Tokens` a value is its type, a value, and whether its equal parts are one object; two
types are equal in memory if Python says so (`1`, `1.0`), two blobs if type and pickled
bytes agree. In `CommandLine` what the output path and standard output hold is the form
and the content of what was last written there; a section is a set of ordinals, since
order is the backends' business. Sizes the planner compares are those of its own estimate
(512 bytes an item, a safety factor of 70%, exact
where the code multiplies by the float 0.70 and may come out a byte lower). In `SchemaDiff` a value is its type, with
`None` and the empty string apart. In `RecordReader` a record is the lengths of its token and
payload. In `BloomCandidates` the hash functions are any map of items to positions, so
false positives of every kind occur. In `FuzzyMatch` the scorer is any matrix of scores.

Each step that calls the iterable, the token factory, the codec or the file system
has a failing counterpart (`SourceRaises`, `WriteChunkFails`, `MergeRaises`, ...),
which takes the path through `except`, `with` and `finally` that the code takes.

## 3. The runs

| run | question | bounds |
|---|---|---|
| `memory` | does the memory backend keep the contract; is the index exact at every step | 3 tokens, sequences of up to 3 items a side, all options |
| `external_sort` | contract, whole groups, cleanup, untouched output | 2 tokens, up to 3 items a side, chunks of 2, no limit, a limit of 1 and, as `parse_size` accepts any integer, of -1 |
| `hash_partition` | contract under every hash, limit, overshoot, cleanup | the same with 2 partitions |
| `sqlite` | contract in input order, limit, cleanup, untouched output | 2 tokens, up to 3 items a side, batches of 2, rows of one page and a half, a cache of 3 pages, limits of 3 and 5 pages and none |
| `sorted_stream` | exact on sorted inputs, refusal of others, lazy rows | tokens 1, 2 and an unorderable one, up to 3 items a side |
| `field_diff_call` | contract of either variant: all changes counted, exactly those emitted that fit, the file within `max_bytes`; on sorted keys refusal of others and lazy rows | `compare_fields`: 2 fields, 2 keys, up to 2 rows a side, selections, a normalizer, row limits -1, 1 and none, byte limits -1, 2, 4 and none; sorted: up to 3 rows a side with keys that include `None` and an unorderable one |
| `public_api` | for each tool, whether it keeps what its documentation promises: sections at the place asked for and what `main` returns; memory limit; whole or refused event stream; schema diff; cut record files; candidates; matching; can an output path ever hold a partial or mixed result | commands: every pair of sequences of up to 2 of 5 values, in memory and on disk, and 5 chosen pairs under every other option. Events: 2 keys, up to 3 rows a side for the section producers, 2 for the field diffs, a buffer of 2 events (64 in the code), row limits 1, 2 and none, byte limits 2, 3 and none. Schemas: up to 3 and 2 rows of up to 2 columns, samples of -1, 0, 1, 2 and all. Records: up to 3, cut at every byte. Bloom: 2 items, 2 positions, all hashes. Fuzzy: all matrices of up to 3 strings by 2 with scores 0, 50, 90, 100. Output path: three writers, one of each kind, two rows (one for the field writer) |
| `external_sort_limit`, `sorted_field_diff_none`, `exit_status`, `event_stream_duplicates`, `tokens` | what the documentation says, see section 4 | as above |

Why the bounds are enough. With chunks of 2 and three items an input has a full and
a partial chunk, an empty one or none; a token can fill a chunk, be split between two,
and be alone. Two or three tokens give every combination of only-left, only-right and
common for one pair of tokens with a third to order against; three items of one token
give two repeats. In the event stream three rows on one side and two
on the other repeat a key on both; with a buffer of two events a stream has flushes in
its middle and a partial buffer at its end. Every hash of two tokens into two partitions leaves a partition
empty, shared or split. A limit of 1 record is exceeded by any two. A limit of 3
pages is what the empty tables take, so that it is not exceeded before a row and can be at
every check after; one of 5 is exceeded by two rows, in one table or in two, in the
middle of a transaction or only when it is committed; with rows larger than a page every
batch adds pages, and a cache of 3 can hold back some or all of them. Three different
writers are enough for one to publish between two steps of another; a writer's part of
the state does not depend on how many others there are. The five values of the commands
hold every pair the code treats apart: equal in memory only (`1` and `1.0`), equal
containers that are the same on disk or not, and different ones. A memory limit below zero
and one of zero are refused by nothing; 2194 and 2195 are the two sides of the boundary for three items. Three rows of a column let it appear
late, vanish, and change its type. With three strings and two partners one stays alone by
an earlier choice. Options that are independent in
the code are varied together where the MC module says so.

Deadlock checking is off in all runs because a call ends.

Type invariants are checked where they say more than the other invariants of the run
need anyway: `MemoryBackend`, `AtomicOutput` (`FilesHoldResults`: what a temporary file may hold) and the field
diffs (what index and groups may hold).

Liveness (`Terminates`, `WriterTerminates`) assumes weak fairness of
the progress steps of the call only: one thread runs them and nothing in it waits for
another. No fairness is assumed of failures, and none of a consumer of
`iter_sorted_diff`, who may stop asking. It is checked where the loops are intricate:
batches and merge, partitions, the sorted merge. A writer of `AtomicOutput` has no loop but
the one over its rows, and none of its steps waits for another writer: nothing is claimed of
its end. It leaves the body when no row is left, and what it has written by then is
what it publishes.

What the properties say beyond the contract:

- `IndexIsExact`: after n items the dictionary and the list of repeats split exactly
  those n items, in order.
- `GroupsAreWhole`: a group that reaches the merge loop is all of its token although
  it comes from several chunks.
- `PublishedWhole`: the path changes only when a writer is done, to that writer's
  whole result.
- `FailureLeavesNoTrace`: after which failures nothing is left on disk, the causes
  named in it being those the code does handle, and that a failure before publishing
  leaves the path alone. In the sorted and field diffs the contract says the latter:
  the report of a call that raised is what it left at the path.
- `LimitErrorIsJust`: the external sort is not stopped when its rows fit. Of SQLite this is not
  true, since schema and unfilled pages count, and not claimed.
- `DiskLimitEnforced`: by how much the partitions overshoot the limit between two checks
  (less than a chunk), and SQLite's tables behind its cache (the pages of the cache).
- `BytesAreBounded`: the file of a field diff never outgrows `max_bytes`, and the
  reported size is the file's.
- `StreamIsWhole`, `RefusedWhenIncomplete`: a finished stream has every difference
  once, or its summary says how many the limits left out, and it is within them; `iter_event_rows` accepts a
  stream exactly when the command succeeded, unless writing itself failed.
- `UnsortedIsRefused`, `RowsHoldForWhatWasRead`, `HoldsOneGroup`: a lazily consumed
  diff is never wrong about what has been read and never ahead of its consumer.
- `DeliversTheComparison`, `ExitCodeTellsDifferences`: the exact sections are where the
  options say (return value, output path or standard output), whatever the backend, as long
  as both kinds of tokens agree on the values of the inputs; and where `main` returns 0 or 1,
  it is 1 exactly if `--fail-on-diff` was given to a command without events and what it asks
  for exists, whatever is shown. What `main` does not return, the status of a process
  that ends with a traceback, is `StatusIsDocumented`, see section 4.
- `AutoKeepsTheLimit`: a comparison auto mode leaves in memory fits the limit.
- `FailureKeepsTheOutput`: a call that raises before it shows its result, whether `main`
  reports the exception, lets it pass (`Escape`) or is not there, has not touched the path or
  standard output, the event commands' output apart.
- `TrackersAreExact`, `SchemaDiffIsExact`: at every row the trackers are what the rows
  counted say; the diff and the sampling warning follow from the rows.
- `CutIsNoticed`: a cut record file is never read as a complete one, and no record in part.
- `CandidatesAreDifferences`, `MatchingIsMaximal`: no false negatives whatever the hash
  functions; a string left alone has no partner left that reaches the threshold.

Every property has a mutant in the modules, marked `Mutant:`, an operator that changes
one definition as a plausible bug would and that makes TLC find the property violated.

## 4. Where code and documentation part

Five runs show a disagreement:

1. External sort does not enforce `disk_limit` on the chunks being written: the check
   counts lists that are assigned only when the writing is over
   (`external_sort.py:53`). Run `external_sort_limit`.
2. Sorted field diffs drop the rows whose key is `None` on both sides, which
   `compare_fields` compares: `_iter_key_groups` takes `None` for "no group yet"
   (`fields.py:743`). Run `sorted_field_diff_none`.
3. The event stream of a disk comparison merges the duplicates of both inputs: a key
   with three rows on the left and two on the right gives one event of side `right`
   with count 4, where the memory path gives left 3 and right 2 (`cli.py:625`). Run
   `event_stream_duplicates`.
4. Values that are equal in memory may differ on disk: `1` and `1.0`, or two equal tuples
   of which one holds an object twice (`storage/codec.py:30`), while
   `docs/backend-behavior.md:164` says "same comparison token rules". Run `tokens`.
5. Status 1 is promised for differences under `--fail-on-diff` and 2 for corrupted data
   (`docs/cli.md:123-124`), but `main` catches three types of exceptions (`cli.py:53`): a
   compressed input that was cut (`EOFError`), a malformed CSV (`csv.Error`), a CSV row with
   surplus fields (`TypeError` from sorting its `None` key, `_utils.py:49`) and an exception of
   a handler, behind the `try`, end the process with a traceback and status 1. Run `exit_status`.

The models show these as well, without a run of their own:

- A chunk file whose writing fails stays on disk (`external_sort.py:406`), and so do
  the partition files made before one that cannot be made (`partition.py:45`);
  `docs/limitations-security.md:17` says temporary files are removed.
- `--fail-on-diff` has no effect on the event commands: `main` returns 0 (`cli.py:51`),
  although the option is accepted and its help knows no exception (`cli.py:284`);
  `ExitCodeTellsDifferences` says so.
- SQLite does not enforce `disk_limit` on what it keeps: the file is looked at inside the open
  transaction, without the pages in the cache, and not after the commit or the indexes
  (`sqlite.py:312`); `exceptions.py:37` says the error is raised "when disk usage exceeds a
  configured limit". `DiskLimitEnforced` bounds what is not seen.
- `disk_limit` stops an SQLite comparison whose rows fit in it but whose pages do not: the
  empty tables alone take three (`sqlite.py:277`, `452`).
- In file mode SQLite materializes every section and then streams it (`sqlite.py:67`).
- When the file object of an event stream fails after it took some lines, the buffer
  keeps them and `close()` writes them again (`jsonl.py:81`).
- `intersection` in file mode streams the common rows to the output and then writes the
  list of the result, which is empty, over them (`cli.py:419`). `DeliversTheComparison`
  leaves this pair of options out by name.
- The handlers that show a result run after the `try` of `main` (`cli.py:57-63`): when one
  of them raises, a memory result has been saved by `core.compare` before the handler would
  have saved it again.
- An infinite `--memory-limit` (such as `infB`, `_utils.py:38`) raises `OverflowError`, which is not one of those `main` reports (`RefusePlan`).
- `duplicates` leaves mode `auto` unresolved and has no memory limit; in mode `memory` a
  limit is parsed, and refused if unreadable, and then not used.
- A column is nullable for the rows without it that follow its first one, not for those
  before it (`schema.py:211`): the rows in another order give another schema.
- `summary.duplicate_keys_left` counts repeated rows, `duplicate_key` events are one
  for each key; and rows that `--max-rows` leaves out of a field diff are not counted
  as skipped events.

## 5. The proofs

Eight modules hold theorems, each of them for every value of the constants, under the
named assumptions of the modules they are about (TLC evaluates those on the instances it
checks) and no others, short of what is said below.

`MemoryBackendProofs` proves for every set of tokens, every set of
finite inputs and every option, from `InputsAreSequences` and `ConfigsAreOptions`:

- `TypeCorrect`: `Spec => []TypeOK`.
- `IndexExact`: `Spec => []IndexIsExact`. `IndexIsExact` is not inductive alone: to
  show that an unknown token is a first one, every token read must be in the
  dictionary. The inductive invariant `IndexInv` is `TypeOK`, `IndexIsExact` and
  `IndexIsComplete`.
- `MemoryImplementsContract`: `Spec => Implements`. `SelectionInv` says, per phase,
  that both inputs are indexed, that finished sections are exact and that the section
  being built lists the values of the slots already copied. With it the returning
  step satisfies the contract's `Return` (`ResultIsExact`, `DuplicatesAreExact`), and
  every other step is a stutter or `Raise`. The lemmas on `Enumerates` and `Ascending`
  at its head say how a section grows when an ordinal is appended, and that its length is
  the cardinality of what it lists.

`ExternalSortProofs`, from `InputsAreBlobs`, `ChunkSizeIsPositive`, `LimitsAreSizes`,
`NoneIsNoError` and `ConfigsAreOptions`:

- `ExternalSortImplementsContract`, `Spec => Implements`, in both result modes and however the
  items fall into chunks. `ChunksHoldInputs`: the inputs are read to their ends, and the chunks
  hold them, when the merge starts. `MergeInv` is what a merge of two sorted streams rests on: every
  item emitted of either side has a smaller token than every item either side has still to emit
  (`EmittedComesFirst`), and the group delivered comes before what its side has left. So a
  token emitted as one of one side only is not one the other side had or will have (`TakenOccurs`).
  The three kinds of emission are one step to this proof: they take the groups of some sides, of
  one token (`Takes`, `EmissionTakes`). `ResultInv`: rows and counters are those of the
  tokens taken (`Emitted`), which at the end are all there are; and a search for duplicates emits
  `rows[1:]` where a comparison sorts the group, which is the same because a
  group is in order (`TailIsRepeats`).
- `ChunksAreRemoved`, `Spec => []FailureLeavesNoTrace`. What `finally` knows depends on how
  many of the two lists of chunks had been returned when the exception came. `FilesAreKnown`
  says so per phase: a file is in a list returned or in the one being filled, which its own
  `except` unlinks; `OneErrorPath` says that no error is in flight before the writer's
  `__exit__` except one it will see, and that a published path excludes every later cause but
  a failing unlink. `ChunkLists`, that a list of chunks is a list, is what makes the new
  file a member of the grown list.
- `GroupsAreComplete`, `Spec => []GroupsAreWhole`. `Writing` says that batch and chunks
  together are the items read so far, each once; `ChunksAreSorted` that every chunk is in
  order; `Merging` that what the readers have left, the record group being built and the groups
  handed over divide the items of a side, and that the readers hold nothing less than the
  token being built. So the least head (`LeastIsNext`) is the next record in order, and a group
  ends only when nothing of its token is left (`RecordIsGrouped`).
- `LimitStopsNoFittingCall`, `Spec => []LimitErrorIsJust`: the records of the lists that the
  check adds up are different records (`LimitInv`), so their number is at most that of
  the items.

`HashPartitionProofs`, from `InputsAreBlobs`, `SizesArePositive`, `LimitsAreSizes`,
`NoneIsNoError` and `ConfigsAreOptions`:

- `PartitionsImplementContract`, `Spec => Implements`, in both result modes and for every
  hash. `FilesHoldInputs`: the records of a file are the items read whose token belongs to its partition, in
  order. `PairInv`: a pair that has been read has the rows of its tokens in groups, each of them all
  the rows of one token (`RowsAreGrouped`). `ResultInv`: the rows emitted and the counters are
  those of the tokens visited (`Emitted`, `CountedTokens`); reading a pair adds its tokens to the
  second, visiting one adds it to the first, and after the last pair both are all there are. The
  rest does not depend on how a backend comes by its groups and is in `ResultFileProofs`.
- `PartitionsAreRemoved`, `Spec => []FailureLeavesNoTrace`, from `FilesAreKnown` (only files of
  the call exist, and none once the cleanup has ended without a failing unlink) and a
  `OneErrorPath` like the one above.
- `LimitIsEnforced`, `Spec => []DiskLimitEnforced`, from `Counting` (the records of a side's files
  are the items read of it, one place each) and `GrowsBetweenChecks`: what is above the limit was
  written since the last check, and the two inputs count the records to the next one apart.

`SqliteBackendProofs`, if `None` is none of the causes of an exception, from `InputsAreBlobs` and
`ConfigsAreOptions`:

- `SqliteImplementsContract`, `Spec => Implements`, in both result modes. `TablesInv` says that
  the rows of a table and the batch not yet inserted are the items read, each at the rowid of
  its ordinal, and that every table a query reads is complete (`TablesLoaded`). So the queries select
  what the contract asks for (`QueriesAreExact`), and the number of distinct tokens is that of first
  items, by a bijection (`TokensCounted`, `CountsAreExact`). `ResultInv` follows the agenda of sections
  twice, through memory and through the temporary file: the rows held so far are those of the
  sections done, and of no other, and so are their counts. That a caller reads from the rows
  what was put there is `SectionLists`, and that a section can be appended without touching another
  `SectionIsAdded`. Both rest on ranks: the members of a finite set of numbers take the ranks
  0, 1, ... once each (`RanksAreNumbers`), which is what makes a list in order one.
- `DatabaseIsRemoved`, `Spec => []FailureLeavesNoTrace`, from `DatabaseIsKnown` and a
  `OneErrorPath`.
- `LimitIsEnforced`, `Spec => []DiskLimitEnforced`, from `SizesArePositive` and
  `CacheHoldsSchema` too. The limit is checked against a file whose size SQLite decides, inside a
  transaction: the check that lets a batch pass bounds the database by the limit and the cache
  (`BatchIsSeen`), and nothing is inserted without one. `LimitInv` adds that the empty tables
  fit in the cache (`SchemaFits`), since no check is made before a row.

`ResultFileProofs` has the lemmas that the backends share on what a list of result rows holds:
`TokenIsHeld` and `TokenIsCounted` say that the rows of one more token, emitted and counted, make a
result that holds and counts that token too, and `AnswerIsExact` that once every token is held the
answer a caller reads back is the exact one. And about `AtomicOutput`, for any number of writers of every kind, interleaved, failing and
killed, if `Content` maps writers to finite sequences: `PathHoldsWholeResults`,
`Spec => PublishedWhole`, from `ClosedIsWhole` (a temporary file that is closed is whole, and no
other writer touches it); and `FilesHoldBeginnings`, `Spec => []TypeOK`: a file holds the
beginning of its own call's result. `OutputInv` says so of rows of any set, in the form in which
the step that writes one more row keeps it (`BeginningGrows`); a beginning behind which no
row is left is whole (`LastRowCompletes`). `PublicApiProofs` restates both for the composition, as
`PathChangesToWholeResults` and `OutputHoldsResults`.

`SortedStreamProofs`, for inputs of every length with and without unorderable tokens:

- `OneGroupHeld`: `Spec => []HoldsOneGroup`. `Layout` cuts what was read of an input into
  three runs of ordinals: compared already, the group in the merge, the group being
  collected, each group of one token.
- `UnsortedRefused`: `Spec => []UnsortedIsRefused`, if `None` is none of the causes of an
  exception. Validation looks at neighbours only; `BothInOrder` is what it adds up to:
  everything read of an input is in order, and everything compared, of either side, is
  less than everything still to compare. `ReadToTheEnd` says that a call ends without an
  error only at the end of both inputs.
- `RowsAreFinal`: `Spec => []RowsHoldForWhatWasRead`. The property is not inductive, since
  a row "only" could be refuted by an item read later. `RightRow` adds what excludes
  it: the other side has ended, or the last item read of it is greater
  (`NoneToCome`). `RightRowsStay` shows that reading keeps every such row right, and
  `OnlyRowIsRight` that the merge emits no other, by `BothInOrder`.

`FieldDiffCallProofs`, for both variants of a field diff and every choice between them:

- `FieldDiffTypes`, `Spec => []TypeOK`: the index holds one row of every key and the number
  of the others (`IndexInv`, in which the rows indexed so far are counted), and groups hold rows
  that were taken (`GroupsWereTaken`).
- `FileStaysInBounds`, `Spec => []BytesAreBounded`: `output_bytes` is the size of the temporary
  file (`FileCounted`). `FileSize` counts the fields of the lines as a set of places, so that
  `LineIsAdded` can say what one more row adds.
- `ReturnedMeansInOrder` and `RowsAreNeverTakenBack`, `Spec => []UnsortedIsRefused` and
  `Spec => []RowsHoldForWhatWasRead`, from `MergeInv`: what was read of a side is in order
  (`ReadInOrder`), the group being collected and the one handed over are first rows of their
  keys (`CurrentGroup`, `YieldedGroup`), and what was handed out stays right (`HandedOut`).

`PublicApiProofs`. A behaviour of the composition in which a tool was called is a behaviour
of that tool's specification (`CommandRuns`, `EventsRun`, ...), and the properties of the
other tools say nothing of it. So each theorem proves an invariant of one tool and
carries it over:

- commands: `CallerFindsTheComparison` and `DifferencesAreInTheExitCode`, the properties
  `DeliversTheComparison` and `ExitCodeTellsDifferences`, if `None` is no set of ordinals: the
  backend's sections depend on the equality of the values alone (`SameEqualities`),
  and `CommandDelivers` follows them from the answer through `Save` and `Handle`;
  `FailureIsSilentOutside`, from `UntouchedUntilAnswered` (nothing is written before there is
  an answer); `AutoModeKeepsTheLimit`, by the arithmetic of estimate, safety factor and
  rounding (`RoundedDown`), for negative limits as well;
- events: `EventCommandLeavesNoTrace`, which follows the three temporary files and the
  output's sibling through every exception; `IncompleteStreamsAreRefused`, from
  `EndsAreTold` (the first line is metadata once it is written, and the last one is the
  summary only if the command is past every other failure than that of the output), where
  the buffer of the writer and the file are one list of lines; `StreamsHoldEveryDifference`,
  from `WholeInv`: the events written, those still ahead and those skipped are what is
  expected (`Accounted`), each once, whatever order of its rows a result file has; the lines
  are metadata and those events (`LinesAre`), and the counters of the writer tell their number
  and size (`Tells`). That the four producers give each expected event once
  is a lemma for each of them;
- schemas: `TrackersCountTheRows`, by how one row changes the sets of rows a tracker
  counts (`TrackIsExact`), and `SchemaDiffTellsTheChanges`;
- record files: `CutRecordsAreNoticed`, from `RecordInv`: while reading goes on the
  position is where the records read end, and `SizesAdd` says where the next one does;
- Bloom filters: `NoDifferenceIsMissed`; that an item added is contained rests on
  `FiltersHoldWhatTheyTook`, no filter ever loses a bit;
- fuzzy matching: `FuzzyPairsAreMaximal`; that a best partner exists, the least index
  among the greatest scores, is `BestPartnerExists`.

Its assumptions say what a call can be: options have their defaults, no option
value is called `None`, limits of the planner are ordered, the limits of an event stream are
integers that the argument parser lets through, the event buffer holds more than
the metadata line, a record header is not empty and a record file ends where its last record
does or before.

Sums over sequences are written as the number of places they count (`FileSize`, `TotalSize`,
`SizeOf`), sorting as a choice of the sorted sequence or by rank (`SortRecords`, `InOrder`), and
filtering as the entries at some places (`EntriesAt`), since the prover has no induction over data
to say what a fold or a recursive definition computes.

Only model-checked:

- all liveness, which is outside the prover's reach;
- that the sorted stream and the field diffs implement their contracts.

## 6. What is not modelled, and the plan

Not modelled: of the command line the argument parser, the subcommands without state,
the text that is printed and a keyboard interrupt (the event commands and the writers have
one); of the event stream the schema events, `summarize_events`, keys of
unhashable values and `max_bytes` of its field diff file; of tokens the key extraction, the
normalizers, mappings and sets, and `from_blob`; of the planner the metadata of its
decisions and the number of partitions it suggests. Readers and connectors parse and open
files and have no state worth a model: they are the iterables, which may raise at any item.
Result types, exceptions and the engine facade hold data or re-export. Bytes, formats, wording
and statistics that only repeat an option are left out everywhere.

All four exact backends are proved to keep one contract, `CompareContract`. Next proofs: that the
sorted stream implements its contract, from `RowsAreFinal`, and then the field diffs theirs.
`RECURSIVE` operators are kept out of every module so that all of them can be proved
about.
