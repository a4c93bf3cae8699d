-------------------------------- MODULE Planner --------------------------------
(***************************************************************************)
(* planner.py: which backend a call runs on.  An option is absent when it  *)
(* is None; a size that parse_size cannot read is Unreadable.              *)
(***************************************************************************)
EXTENDS Integers, Sequences

CONSTANTS
    None, Unreadable,
    SqliteItemLimit,        \* _AUTO_SQLITE_ITEM_LIMIT, a million
    HashPartitionItemLimit  \* _AUTO_HASH_PARTITION_ITEM_LIMIT, twenty millions

BytesPerItem == 512

(* int(limit_bytes * _AUTO_MEMORY_SAFETY_FACTOR): int() cuts off toward 0. *)
EffectiveLimit(limit) ==
    IF limit >= 0 THEN (limit * 70) \div 100 ELSE -((-limit * 70) \div 100)

(* estimated_item_count: len() of both inputs, if both have one. *)
EstimatedItems(options, input) ==
    IF options.sized THEN Len(input.first) + Len(input.second) ELSE None

(* Mutant: an input of unknown size is taken to fit. *)
ExceedsUnlessUnknown(options, items) ==
    /\ items # None
    /\ items * BytesPerItem > EffectiveLimit(options.memory_limit)

ExceedsLimit(options, items) ==
    items = None \/ items * BytesPerItem > EffectiveLimit(options.memory_limit)

LimitDecides(options) ==
    options.result_mode # "file" /\ ~options.temp_dir /\ options.memory_limit # None

(* auto_decision_for_sources, its use_disk. *)
AutoUsesDisk(options, items) ==
    \/ options.result_mode = "file"
    \/ options.temp_dir
    \/ LimitDecides(options) /\ ExceedsLimit(options, items)

(* _select_auto_disk_strategy *)
AutoStrategy(options, items) ==
    IF options.result_mode = "file" \/ options.preserve_order THEN "sqlite"
    ELSE IF options.disk_limit THEN "external_sort"
    ELSE IF items = None \/ items <= SqliteItemLimit THEN "sqlite"
    ELSE IF /\ options.include_common /\ ~options.include_duplicates
            /\ items > HashPartitionItemLimit
           THEN "external_sort"
    ELSE "hash_partition"

(* build_execution_plan: the decision is made in every mode, so that a     *)
(* limit nobody uses may still be refused.                                 *)
PlanRaises(options) ==
    \/ options.chunk_size <= 0
    \/ options.result_mode = "file" /\ (options.output = None \/ options.mode = "memory")
    \/ LimitDecides(options) /\ options.memory_limit = Unreadable

UsesDisk(options, items) ==
    options.mode = "disk" \/ (options.mode = "auto" /\ AutoUsesDisk(options, items))

Strategy(options, items) ==
    IF options.disk_strategy = "auto" THEN AutoStrategy(options, items)
                                      ELSE options.disk_strategy

(* disk_compare_backend; core.compare takes the memory backend otherwise.  *)
CompareBackend(options, items) ==
    IF UsesDisk(options, items) THEN Strategy(options, items) ELSE "memory"

(* build_duplicates_plan: no memory limit is looked at, and a strategy     *)
(* "auto" is left to the dispatch of core.duplicates, where it is SQLite.  *)
DuplicatesBackend(options) ==
    IF ~(options.mode = "disk" \/ (options.mode = "auto" /\ options.temp_dir)) THEN "memory"
    ELSE IF options.disk_strategy = "auto" THEN "sqlite"
    ELSE options.disk_strategy
===============================================================================
