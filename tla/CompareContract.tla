--------------------------- MODULE CompareContract ---------------------------
(***************************************************************************)
(* What every exact backend promises its caller (docs/backend-behavior.md, *)
(* "Backend Compatibility Contract"): a call runs once and either raises,  *)
(* giving nothing, or returns the sections and the counts the two token    *)
(* sequences determine.  The backends' modules instantiate this one with a *)
(* refinement mapping and are checked to implement it.                     *)
(***************************************************************************)
EXTENDS Comparison

CONSTANTS
    Inputs,     \* the sequences of tokens an input may produce
    None        \* a section or an answer the call did not build

VARIABLES
    input,      \* the token sequence of each side
    config,     \* the options of the call
    outcome,    \* "running", "returned" or "raised"
    answer      \* what the caller got

vars == <<input, config, outcome, answer>>

Config == [operation : {"compare", "duplicates"},
           preserve_order : BOOLEAN, include_common : BOOLEAN,
           include_duplicates : BOOLEAN, include_stats : BOOLEAN]

ExpectedStats ==
    [count     |-> [side \in Side |-> Len(input[side])],
     unique    |-> [side \in Side |-> Cardinality(FirstOrdinals(input[side]))],
     only      |-> [side \in Side |->
                      Cardinality(OnlyOrdinals(input[side], input[Other(side)]))],
     common    |-> Cardinality(CommonOrdinals(input.first, input.second)),
     duplicate |-> [side \in Side |-> IF config.include_duplicates
                      THEN Cardinality(RepeatOrdinals(input[side])) ELSE 0]]

(* The only-in sections hold one representative of every unmatched token,  *)
(* the first; the optional sections are complete or absent.                *)
SectionsAreExact(a) ==
    /\ \A side \in Side :
          /\ Lists(a.only[side], OnlyOrdinals(input[side], input[Other(side)]),
                   config.preserve_order)
          /\ IF config.include_duplicates
               THEN Lists(a.duplicates[side], RepeatOrdinals(input[side]),
                          config.preserve_order)
               ELSE a.duplicates[side] = None
    /\ IF config.include_common
         THEN Lists(a.common, CommonOrdinals(input.first, input.second),
                    config.preserve_order)
         ELSE a.common = None

IsAnswer(a) ==
    IF config.operation = "duplicates"
      THEN Lists(a, RepeatOrdinals(input.first), TRUE)
      ELSE /\ SectionsAreExact(a)
           /\ config.include_stats => a.stats = ExpectedStats

Init ==
    /\ input \in [Side -> Inputs]
    /\ config \in Config
    /\ outcome = "running"
    /\ answer = None

Return ==
    /\ outcome = "running"
    /\ outcome' = "returned"
    /\ IsAnswer(answer')
    /\ UNCHANGED <<input, config>>

Raise ==
    /\ outcome = "running"
    /\ outcome' = "raised"
    /\ UNCHANGED <<input, config, answer>>

Next == Return \/ Raise

Spec == Init /\ [][Next]_vars
===============================================================================
