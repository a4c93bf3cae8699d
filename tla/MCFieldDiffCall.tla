---------------------------- MODULE MCFieldDiffCall ----------------------------
(* Bounded calls for FieldDiffCall.  compare_fields sees at most two rows a *)
(* side, of two keys, that differ in no field, one or both.  The sorted     *)
(* variant sees every pair of sequences of at most MaxLen rows, sorted and  *)
(* not, or of MaxLen - 1 rows with keys of two types and None.  The         *)
(* normalizer takes 2 and 1 to one value.                                   *)
EXTENDS FieldDiffCall

CONSTANTS MaxLen

MCNormal(v) == IF v = 2 THEN 1 ELSE v

Sequences(elements, n) == UNION {[1..m -> elements] : m \in 0..n}
Row(key, a, b) == [key |-> key, cells |-> [a |-> a, b |-> b]]

TwoFields == Sequences({Row(1, None, 1), Row(1, 1, 1), Row(1, 2, 2), Row(2, None, 1),
                        Row(2, 2, 2)}, 2)

OneField == Sequences({Row(1, 1, 1), Row(2, 1, 1), Row(2, 2, 1)}, MaxLen)
            \cup Sequences({Row(1, 2, 1), Row(Text, 1, 1), Row(Null, 1, 1), Row(Null, 2, 1)},
                           MaxLen - 1)

Default ==
    [sorted_input |-> FALSE, output |-> FALSE, max_rows |-> None, max_bytes |-> None,
     columns |-> None, exclude_columns |-> {}, normalizer |-> FALSE,
     consumer |-> "compare_fields_sorted", validate_sorted |-> TRUE]

Options ==
    {[Default EXCEPT !.output = o, !.max_rows = r, !.max_bytes = b] :
        o \in BOOLEAN, r \in {None, 1}, b \in {None, 2, 4}}
    \cup {[Default EXCEPT !.output = o, !.columns = {"a", "b"}, !.exclude_columns = {"b"},
                          !.normalizer = n] : o \in BOOLEAN, n \in BOOLEAN}
    \cup {[Default EXCEPT !.output = o, !.max_rows = 1, !.max_bytes = 4, !.columns = {"a"}] :
            o \in BOOLEAN}
    \cup {[Default EXCEPT !.output = TRUE, !.max_rows = -1],
          [Default EXCEPT !.output = TRUE, !.max_bytes = -1]}

SortedDefault == [Default EXCEPT !.sorted_input = TRUE]

SortedOptions ==
    {[SortedDefault EXCEPT !.consumer = "caller", !.validate_sorted = v, !.normalizer = n] :
        v \in BOOLEAN, n \in BOOLEAN}
    \cup {[SortedDefault EXCEPT !.output = o, !.max_rows = r] : o \in BOOLEAN, r \in {None, 1}}
    \cup {[SortedDefault EXCEPT !.output = TRUE, !.max_bytes = 2, !.validate_sorted = FALSE],
          [SortedDefault EXCEPT !.max_rows = -1]}

CallsOf(sequences, options) ==
    [input : [first : sequences, second : sequences], config : options]

MCCalls == CallsOf(TwoFields, Options) \cup CallsOf(OneField, SortedOptions)
===============================================================================
