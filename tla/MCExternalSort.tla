---------------------------- MODULE MCExternalSort ----------------------------
(* Bounded inputs for ExternalSort: pairs of sequences over two tokens, so *)
(* that a token fills several chunks and falls into different ones.  A     *)
(* limit may be negative.                                                  *)
EXTENDS ExternalSort

CONSTANTS MaxLen, Limits

MCInputs == UNION {[1..n -> 1..2] : n \in 0..MaxLen}

(* A duplicates call takes no options and has no file mode.                *)
MCConfigs ==
    {c \in [operation : {"compare", "duplicates"}, result_mode : {"memory", "file"},
            include_common : BOOLEAN, include_duplicates : BOOLEAN,
            disk_limit : Limits \cup {-1}] :
        /\ c.include_common = c.include_duplicates
        /\ c.operation = "duplicates" => c.result_mode = "memory" /\ ~c.include_duplicates}
===============================================================================
