---------------------------- MODULE MCSortedStream ----------------------------
(* Bounded inputs for SortedStream: every pair of sequences of at most     *)
(* MaxLen tokens, sorted and not, with a token that has no order.          *)
EXTENDS SortedStream

CONSTANTS MaxLen

MCInputs == UNION {[1..n -> {1, 2, Unorderable}] : n \in 0..MaxLen}

MCConfigs ==
    {c \in [consumer : {"write_sorted_diff", "caller"}, validate_sorted : BOOLEAN,
            include_common : BOOLEAN, include_duplicates : BOOLEAN] :
        c.include_common = c.include_duplicates}
===============================================================================
