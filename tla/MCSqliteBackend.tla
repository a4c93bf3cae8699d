---------------------------- MODULE MCSqliteBackend ----------------------------
(* Bounded inputs for SqliteBackend: pairs of sequences of at most MaxLen  *)
(* tokens, so that a table takes several batches and a partial last one.   *)
EXTENDS SqliteBackend

CONSTANTS MaxLen, Limits

MCInputs == UNION {[1..n -> Token] : n \in 0..MaxLen}

(* A duplicates call takes no options and has no file mode. *)
MCConfigs ==
    {c \in [operation : {"compare", "duplicates"}, result_mode : {"memory", "file"},
            include_common : BOOLEAN, include_duplicates : BOOLEAN,
            disk_limit : Limits] :
        /\ c.include_common = c.include_duplicates
        /\ c.operation = "duplicates" => c.result_mode = "memory" /\ ~c.include_duplicates}
===============================================================================
