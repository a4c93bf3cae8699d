------------------------------ MODULE MCPublicApi ------------------------------
(* Bounded calls of every tool of PublicApi.                               *)
EXTENDS PublicApi, SequencesExt

CONSTANTS MaxLen

Sequences(elements, n) == UNION {[1..m -> elements] : m \in 0..n}
Pairs(left, right) == [first : left, second : right]
CallsOf(inputs, options) == [input : inputs, config : options]

-----------------------------------------------------------------------------
(* The command line: every command on every pair of sequences of at most   *)
(* two values, in memory and on disk; and every other option on five pairs *)
(* with and without differences and repeats.  Values hold equal parts, and *)
(* only the tuple shares them.  The memory limits are those at which three *)
(* items (1536 bytes) are one too many or fit, counting the safety factor, *)
(* and the limits of the strategies one and two items.                     *)

Value(type, shared) == [type |-> type, value |-> 1, shared |-> shared]

Int1 == Value("int", FALSE)
Str1 == Value("str", FALSE)

CommandValues == {Int1, Str1, Value("float", FALSE), Value("list", FALSE), Value("tuple", TRUE)}

FewInputs == {[first |-> <<Int1, Int1>>, second |-> <<Str1>>],
              [first |-> <<Int1>>, second |-> <<Int1>>],
              [first |-> <<Int1>>, second |-> <<Int1, Int1>>],
              [first |-> <<>>, second |-> <<>>],
              [first |-> <<Str1, Int1>>, second |-> <<Int1>>]}

DuplicateInputs == {[pair EXCEPT !.second = <<>>] : pair \in FewInputs}

Default ==
    [caller |-> "cli", command |-> "compare", reports |-> {}, sorted_input |-> FALSE,
     events |-> FALSE, key |-> TRUE, max_output_rows |-> None, max_output_bytes |-> None,
     summary |-> FALSE, fail_on_diff |-> TRUE, sized |-> FALSE, memory_limit |-> None, temp_dir |-> FALSE,
     disk_limit |-> FALSE, mode |-> "memory", result_mode |-> "memory",
     disk_strategy |-> "sqlite", preserve_order |-> TRUE, include_common |-> FALSE,
     include_duplicates |-> FALSE, include_stats |-> TRUE, chunk_size |-> 2, output |-> None]

Api == [Default EXCEPT !.caller = "api"]

Modes == {"memory", "disk", "auto"}

Comparisons ==
    {[Default EXCEPT !.command = c, !.mode = m, !.include_duplicates = d] :
        c \in {"compare", "diff", "intersection"}, m \in {"memory", "disk"}, d \in BOOLEAN}

DuplicateCommands ==
    {[Default EXCEPT !.command = "duplicates", !.mode = m, !.summary = s, !.chunk_size = n] :
        m \in Modes, s \in BOOLEAN, n \in {0, 2}}
    \cup {[Api EXCEPT !.command = "duplicates", !.mode = m, !.disk_strategy = s, !.temp_dir = t] :
        m \in Modes, s \in {"auto", "external_sort"}, t \in BOOLEAN}

Commands ==
    {[Default EXCEPT !.command = c, !.mode = m, !.result_mode = r, !.output = o,
                     !.summary = s, !.fail_on_diff = f] :
        c \in {"compare", "diff", "intersection"}, m \in Modes, r \in {"memory", "file"},
        o \in {None, ".json", ".jsonl", ".txt"}, s \in BOOLEAN, f \in BOOLEAN}
    \cup {[Default EXCEPT !.command = c, !.reports = r, !.sorted_input = i, !.key = k,
                          !.output = o, !.summary = s, !.fail_on_diff = f] :
        c \in {"compare", "intersection"}, r \in SUBSET {"fields", "schema"}, i \in BOOLEAN,
        k \in BOOLEAN, o \in {None, ".json", ".jsonl"}, s \in BOOLEAN, f \in BOOLEAN}
    \cup {[Default EXCEPT !.events = e, !.max_output_rows = n, !.max_output_bytes = b,
                          !.output = o, !.reports = r] :
        e \in BOOLEAN, n \in {None, -1, 1}, b \in {None, 1}, o \in {None, ".json", ".jsonl"},
        r \in {{}, {"schema"}}}

Plans ==
    {[Api EXCEPT !.mode = m, !.result_mode = r, !.output = o, !.sized = s, !.memory_limit = l,
                 !.temp_dir = t] :
        m \in Modes, r \in {"memory", "file"}, o \in {None, ".csv"}, s \in BOOLEAN,
        l \in {None, Unreadable, -1, 0, 2194, 2195}, t \in BOOLEAN}
    \cup {[Api EXCEPT !.mode = "disk", !.disk_strategy = "auto", !.sized = s, !.disk_limit = l,
                      !.preserve_order = p, !.include_common = c, !.include_duplicates = d,
                      !.include_stats = z] :
        s \in BOOLEAN, l \in BOOLEAN, p \in BOOLEAN, c \in BOOLEAN, d \in BOOLEAN, z \in BOOLEAN}

MCCommandCalls ==
    CallsOf(Pairs(Sequences(CommandValues, 2), Sequences(CommandValues, 2)), Comparisons)
    \cup CallsOf(Pairs(Sequences(CommandValues, 2), {<<>>}) \cup DuplicateInputs,
                 DuplicateCommands)
    \cup CallsOf(FewInputs, Commands \cup Plans)

-----------------------------------------------------------------------------
(* The event stream: the producers of sections see up to MaxLen rows a     *)
(* side that differ in their keys only, the field diffs up to two rows a   *)
(* side of both cells.                                                     *)

Rows == [key : 1..2, cell : 0..1]
KeyInputs   == Sequences({row \in Rows : row.cell = 0}, MaxLen)
PlainInputs == {s \in KeyInputs : Len(s) <= 2}
CellInputs  == Sequences(Rows, 2)
InOrder(S)  == {s \in S : \A i, j \in 1..Len(s) : i < j => s[i].key <= s[j].key}

Limit(number, size) == [rows |-> number, bytes |-> size]
Limits == {Limit(None, None), Limit(1, None), Limit(None, 2), Limit(2, 3)}

EventOptions(producer, duplicates, maxRows) ==
    {[producer |-> producer, output |-> o, include_duplicates |-> d, max_rows |-> r,
      max_output_rows |-> l.rows, max_output_bytes |-> l.bytes] :
        o \in BOOLEAN, d \in duplicates, r \in maxRows, l \in Limits}

MCEventCalls ==
    CallsOf(Pairs(KeyInputs, KeyInputs),
            EventOptions("memory", BOOLEAN, {None}) \cup EventOptions("disk", BOOLEAN, {None}))
    \cup CallsOf(Pairs(CellInputs, PlainInputs), EventOptions("fields", {FALSE}, {None, 1}))
    \cup CallsOf(Pairs(InOrder(CellInputs), InOrder(PlainInputs)),
                 EventOptions("sorted", {FALSE}, {None, 1}))

-----------------------------------------------------------------------------
(* The schema diff: up to three rows of the first input, two of the second. *)

SchemaRows == {<<>>, [a |-> "int"], [a |-> "empty"], [b |-> "none"], [a |-> "float", b |-> "str"]}

MCSchemaCalls ==
    CallsOf(Pairs(Sequences(SchemaRows, 3) \cup Sequences({Bad, [a |-> "int"]}, 2),
                  Sequences(SchemaRows, 2)),
            [sample_size : {None, 1}, empty_string_null : {TRUE}, strict_numeric_types : {TRUE}]
            \cup [sample_size : {-1, 0, 2}, empty_string_null : {FALSE},
                  strict_numeric_types : {FALSE}])

-----------------------------------------------------------------------------
(* A file of up to three records, cut anywhere. *)

Body == [token : 1..2, payload : 1..2]
RecordSize(record) == HeaderSize + record.token + record.payload
TotalSize(body) == FoldSeq(LAMBDA record, total : total + RecordSize(record), 0, body)

MCFiles ==
    UNION {{[records |-> body, size |-> n] : n \in 0..TotalSize(body)} :
              body \in Sequences(Body, 3)}

(* Every pair of lists of at most two items, whatever the hash functions. *)
MCBloomInputs == Sequences(Item, 2)

(* Every matrix of scores of three strings with two. *)
MCMatrices == UNION {[1..m -> [1..n -> Score]] : m \in 0..3, n \in 0..2}

(* One writer of each kind on one path; a row names its writer. *)
MCWriter == {"stream", "fields", "document"}
MCKind == [w \in MCWriter |-> w]
MCContent == [w \in MCWriter |-> IF w = "fields" THEN <<<<w, 1>>>> ELSE <<<<w, 1>>, <<w, 2>>>>]
===============================================================================
