------------------------------ MODULE ResultRows ------------------------------
(***************************************************************************)
(* What the disk backends share when they turn the rows of one token into  *)
(* result rows, and how a caller reads sections back from them             *)
(* (storage/external_sort.py, storage/partition.py, storage/sqlite.py).    *)
(***************************************************************************)
EXTENDS Comparison, SequencesExt

Row(section, side, i) == [section |-> section, side |-> side, ordinal |-> i]

Rows(section, side, ordinals) ==
    [k \in 1..Len(ordinals) |-> Row(section, side, ordinals[k])]

(* min(rows) and sorted(rows)[1:] of the rows of one token. *)
FirstOf(rows)   == CHOOSE i \in ToSet(rows) : \A j \in ToSet(rows) : i <= j
RepeatsOf(rows) == InOrder(ToSet(rows) \ {FirstOf(rows)})

(* _values_by_ordinal: sorted() is stable. *)
ByOrdinal(ordinals) ==
    LET places == 1..Len(ordinals)
        before(j, k) == \/ ordinals[j] < ordinals[k]
                        \/ ordinals[j] = ordinals[k] /\ j < k
    IN [r \in places |->
          ordinals[CHOOSE k \in places : Cardinality({j \in places : before(j, k)}) = r - 1]]

ZeroCounts == [unique |-> [side \in Side |-> 0], only |-> [side \in Side |-> 0],
               common |-> 0, duplicate |-> [side \in Side |-> 0]]

-----------------------------------------------------------------------------
(* A section of a list of rows, as its ordinals; materialized sections are *)
(* sorted by ordinal, rows of an output file stay as they were written.    *)
Section(rows, section, side, fileMode) ==
    LET chosen == EntriesAt(rows, {k \in 1..Len(rows) : /\ rows[k].section = section
                                                       /\ rows[k].side = side})
        ordinals == [k \in 1..Len(chosen) |-> chosen[k].ordinal]
    IN IF fileMode THEN ordinals ELSE ByOrdinal(ordinals)

(* The answer a caller puts together from the rows and the counts.         *)
AnswerOf(rows, config, itemCount, counts, absent) ==
    LET section(name, side) == Section(rows, name, side, config.result_mode = "file")
    IN IF config.operation = "duplicates" THEN section("duplicates", "first")
       ELSE [only       |-> [side \in Side |-> section("only", side)],
             common     |-> IF config.include_common THEN section("common", "first") ELSE absent,
             duplicates |-> [side \in Side |-> IF config.include_duplicates
                               THEN section("duplicates", side) ELSE absent],
             stats      |-> [count |-> itemCount, unique |-> counts.unique,
                             only |-> counts.only, common |-> counts.common,
                             duplicate |-> counts.duplicate]]

(* The options of the contract a disk backend's call is held to.           *)
ContractConfig(config) ==
    [operation |-> config.operation, preserve_order |-> config.result_mode = "memory",
     include_common |-> config.include_common,
     include_duplicates |-> config.include_duplicates, include_stats |-> TRUE]
===============================================================================
