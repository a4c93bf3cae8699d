---------------------------- MODULE MCHashPartition ----------------------------
(* Bounded inputs for HashPartition: every hash of the tokens into the     *)
(* partitions, so that tokens share a partition, or have one of their own, *)
(* or leave one empty.  A limit may be negative.                           *)
EXTENDS HashPartition

CONSTANTS MaxLen, Limits

MCInputs == UNION {[1..n -> Token] : n \in 0..MaxLen}

MCConfigs ==
    {c \in [operation : {"compare", "duplicates"}, result_mode : {"memory", "file"},
            include_common : BOOLEAN, include_duplicates : BOOLEAN,
            disk_limit : Limits \cup {-1}] :
        /\ c.include_common = c.include_duplicates
        /\ c.operation = "duplicates" => c.result_mode = "memory" /\ ~c.include_duplicates
        /\ c.disk_limit # NoLimit => c.include_duplicates \/ c.operation = "duplicates"}
===============================================================================
