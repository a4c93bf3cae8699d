--------------------------- MODULE MCMemoryBackend ---------------------------
(* Bounded inputs for MemoryBackend: every pair of sequences of at most    *)
(* MaxLen tokens.                                                          *)
EXTENDS MemoryBackend

CONSTANTS MaxLen

MCInputs == UNION {[1..n -> Token] : n \in 0..MaxLen}

(* Calls with every section and calls with none, in both orders; a         *)
(* duplicates call takes no options.                                       *)
MCConfigs ==
    {c \in [operation : {"compare", "duplicates"}, preserve_order : BOOLEAN,
            include_common : BOOLEAN, include_duplicates : BOOLEAN,
            include_stats : BOOLEAN] :
        /\ c.include_stats = c.include_duplicates
        /\ c.operation = "duplicates" =>
             c.preserve_order /\ ~c.include_common /\ ~c.include_duplicates}
===============================================================================
