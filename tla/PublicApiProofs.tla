---------------------------- MODULE PublicApiProofs ----------------------------
(***************************************************************************)
(* Proofs of the public API's properties.  A behaviour of the whole is a   *)
(* behaviour of the tool that was called, and the other tools' properties  *)
(* say nothing of it; each tool's invariant is proved on its own module's  *)
(* specification.                                                          *)
(***************************************************************************)
EXTENDS PublicApi, FiniteSetTheorems, SequenceTheorems, WellFoundedInduction, TLAPS

(* Another tool's step is no step of this one, and the tool stays the one  *)
(* that was called.                                                        *)
LEMMA ToolIsKept == [Next]_vars => tool' = tool
  BY DEF Next, vars, arguments, CommandStep, EventStep, SchemaStep, RecordStep, BloomStep,
      FuzzyStep, WriterStep

(* What a called tool does is a behaviour of its own module.               *)
LEMMA CommandRuns == Spec /\ tool = "command" => Command!Spec
<1>1. Init /\ tool = "command" => Command!Init
  BY DEF Init
<1>2. tool = "command" /\ [Next]_vars => [Command!Next]_(Command!vars)
  BY DEF Next, vars, arguments, command, CommandStep, EventStep, SchemaStep, RecordStep,
      BloomStep,
         FuzzyStep, WriterStep, Command!vars, Command!call
<1>3. tool = "command" /\ [Next]_vars => (tool = "command")'
  BY ToolIsKept
<1>. QED  BY <1>1, <1>2, <1>3, PTL DEF Spec, Command!Spec

(* The same of the event stream.                                           *)
LEMMA EventsRun == Spec /\ tool = "events" => Events!Spec
<1>1. Init /\ tool = "events" => Events!Init
  BY DEF Init
<1>2. tool = "events" /\ [Next]_vars => [Events!Next]_(Events!vars)
  BY DEF Next, vars, arguments, events, CommandStep, EventStep, SchemaStep, RecordStep, BloomStep,
         FuzzyStep, WriterStep, Events!vars, Events!call, Events!files, Events!writer
<1>3. tool = "events" /\ [Next]_vars => (tool = "events")'
  BY ToolIsKept
<1>. QED  BY <1>1, <1>2, <1>3, PTL DEF Spec, Events!Spec

(* The same of the schema diff.                                            *)
LEMMA SchemaRuns == Spec /\ tool = "schema" => Schema!Spec
<1>1. Init /\ tool = "schema" => Schema!Init
  BY DEF Init
<1>2. tool = "schema" /\ [Next]_vars => [Schema!Next]_(Schema!vars)
  BY DEF Next, vars, arguments, schema, CommandStep, EventStep, SchemaStep, RecordStep, BloomStep,
         FuzzyStep, WriterStep, Schema!vars, Schema!call
<1>3. tool = "schema" /\ [Next]_vars => (tool = "schema")'
  BY ToolIsKept
<1>. QED  BY <1>1, <1>2, <1>3, PTL DEF Spec, Schema!Spec

(* The same of the record file.                                            *)
LEMMA RecordsRun == Spec /\ tool = "records" => Records!Spec
<1>1. Init /\ tool = "records" => Records!Init
  BY DEF Init
<1>2. tool = "records" /\ [Next]_vars => [Records!Next]_(Records!vars)
  BY DEF Next, vars, arguments, records, CommandStep, EventStep, SchemaStep, RecordStep, BloomStep,
         FuzzyStep, WriterStep, Records!vars
<1>3. tool = "records" /\ [Next]_vars => (tool = "records")'
  BY DEF Next, vars, arguments, CommandStep, EventStep, SchemaStep, RecordStep, BloomStep,
      FuzzyStep, WriterStep
<1>. QED  BY <1>1, <1>2, <1>3, PTL DEF Spec, Records!Spec

(* The same of the Bloom filter candidates.                                *)
LEMMA BloomRuns == Spec /\ tool = "bloom" => Bloom!Spec
<1>1. Init /\ tool = "bloom" => Bloom!Init
  BY DEF Init
<1>2. tool = "bloom" /\ [Next]_vars => [Bloom!Next]_(Bloom!vars)
  BY DEF Next, vars, arguments, bloom, CommandStep, EventStep, SchemaStep, RecordStep, BloomStep,
         FuzzyStep, WriterStep, Bloom!vars
<1>3. tool = "bloom" /\ [Next]_vars => (tool = "bloom")'
  BY ToolIsKept
<1>. QED  BY <1>1, <1>2, <1>3, PTL DEF Spec, Bloom!Spec

(* The same of the fuzzy matching.                                         *)
LEMMA FuzzyRuns == Spec /\ tool = "fuzzy" => Fuzzy!Spec
<1>1. Init /\ tool = "fuzzy" => Fuzzy!Init
  BY DEF Init
<1>2. tool = "fuzzy" /\ [Next]_vars => [Fuzzy!Next]_(Fuzzy!vars)
  BY DEF Next, vars, fuzzy, CommandStep, EventStep, SchemaStep, RecordStep, BloomStep,
         FuzzyStep, WriterStep, Fuzzy!vars
<1>3. tool = "fuzzy" /\ [Next]_vars => (tool = "fuzzy")'
  BY ToolIsKept
<1>. QED  BY <1>1, <1>2, <1>3, PTL DEF Spec, Fuzzy!Spec

-----------------------------------------------------------------------------
(* Nothing is shown or saved before a comparison has its answer.           *)
UntouchedUntilAnswered ==
    /\ phase \notin {"handle", "ended"} => target = Command!Before /\ stdout = Command!Nothing
    /\ phase # "ended" => outcome = None
    /\ phase = "events" => config.events

OutputInv == UntouchedUntilAnswered /\ Command!FailureKeepsTheOutput

(* A call that raises before its answer is saved or shown has done nothing *)
(* to the output, whether main catches the exception or not.               *)
LEMMA RaisingKeeps ==
    ASSUME OutputInv, phase \in {"args", "run", "compare", "save"}, Command!Raise
    PROVE  OutputInv'
  BY DEF OutputInv, UntouchedUntilAnswered, Command!FailureKeepsTheOutput, Command!Raise,
         Command!Refuse, Command!Escape, Command!End, Command!call, Command!Before,
         Command!Nothing

(* Every step that raises is one of them.                                  *)
LEMMA RaisingSteps ==
    ASSUME Command!RefuseArgs \/ Command!RefusePlan \/ Command!CompareRaises \/ Command!SaveFails
    PROVE  phase \in {"args", "run", "compare", "save"} /\ Command!Raise
  BY DEF Command!RefuseArgs, Command!RefusePlan, Command!CompareRaises, Command!SaveFails,
         Command!Raise

(* A call that raises before its result is shown, whether main reports the *)
(* exception, lets it pass or is not there, has neither saved nor printed  *)
(* a result (core.py, cli.py main): for every input and every combination  *)
(* of options.  An event command may have printed events.                  *)
LEMMA FailureIsSilent == Command!Spec => []Command!FailureKeepsTheOutput
<1>1. Command!Init => OutputInv
  BY NoneIsNoValue
  DEF Command!Init, OutputInv, UntouchedUntilAnswered, Command!FailureKeepsTheOutput
<1>2. OutputInv /\ [Command!Next]_(Command!vars) => OutputInv'
  <2> SUFFICES ASSUME OutputInv, [Command!Next]_(Command!vars) PROVE OutputInv'
    OBVIOUS
  <2> USE NoneIsNoValue DEF OutputInv, UntouchedUntilAnswered, Command!FailureKeepsTheOutput,
      Command!call, Command!End, Command!Before, Command!Nothing
  <2>1. CASE Command!RefuseArgs \/ Command!RefusePlan \/ Command!CompareRaises \/ Command!SaveFails
    BY <2>1, RaisingSteps, RaisingKeeps
  <2>2. CASE Command!AcceptArgs
    BY <2>2 DEF Command!AcceptArgs
  <2>3. CASE Command!RunEvents
    BY <2>3 DEF Command!RunEvents
  <2>4. CASE Command!EventsFail
    BY <2>4 DEF Command!EventsFail
  <2>5. CASE Command!Plan
    BY <2>5 DEF Command!Plan
  <2>6. CASE Command!Compare
    BY <2>6 DEF Command!Compare
  <2>7. CASE Command!FindDuplicates \/ Command!CompareReport
    BY <2>7 DEF Command!FindDuplicates, Command!CompareReport
  <2>8. CASE Command!Save
    BY <2>8 DEF Command!Save
  <2>9. CASE Command!Handle
    BY <2>9 DEF Command!Handle, Command!ExitCode
  <2>10. CASE Command!HandleFails \/ Command!Return
    BY <2>10 DEF Command!HandleFails, Command!Return
  <2>11. CASE UNCHANGED Command!vars
    BY <2>11 DEF Command!vars
  <2>. QED  BY <2>1, <2>2, <2>3, <2>4, <2>5, <2>6, <2>7, <2>8, <2>9, <2>10, <2>11 DEF Command!Next
<1>3. OutputInv => Command!FailureKeepsTheOutput
  BY DEF OutputInv
<1>. QED  BY <1>1, <1>2, <1>3, PTL DEF Command!Spec

-----------------------------------------------------------------------------
(* What the planner reads of a call: two inputs of some length, a limit in *)
(* bytes or none, one of the disk strategies.                              *)
IsPlannable(inputs, options) ==
    /\ Len(inputs.first) \in Nat /\ Len(inputs.second) \in Nat
    /\ {"mode", "result_mode", "temp_dir", "memory_limit", "sized", "disk_strategy"}
          \subseteq DOMAIN options
    /\ options.memory_limit \in Int \cup {None, Unreadable}
    /\ options.disk_strategy # "memory"

(* The selection of the common section is none of them.                    *)
LEMMA OptionsAgree ==
    ASSUME IsPlannable(input, config)
    PROVE  \A name \in {"mode", "result_mode", "temp_dir", "memory_limit", "sized",
                        "disk_strategy"} : Command!Options[name] = config[name]
  BY DEF IsPlannable, Command!Options

(* A strategy is a disk backend: the planner answers "memory" only for a   *)
(* call it leaves in memory.                                               *)
LEMMA MemoryIsNoStrategy ==
    ASSUME IsPlannable(input, config),
           Command!CompareBackend(Command!Options, Command!EstimatedItems(Command!Options, input)) = "memory"
    PROVE  ~Command!UsesDisk(Command!Options, Command!EstimatedItems(Command!Options, input))
<1>1. Command!Options.disk_strategy # "memory"
  BY OptionsAgree DEF IsPlannable
<1>2. Command!AutoStrategy(Command!Options, Command!EstimatedItems(Command!Options, input)) # "memory"
  BY DEF Command!AutoStrategy
<1>. QED  BY <1>1, <1>2 DEF Command!CompareBackend, Command!Strategy

(* Rounding the part of the limit down costs nothing, and a limit below    *)
(* zero leaves no room for an item.                                        *)
LEMMA RoundedDown ==
    ASSUME NEW n \in Nat, n # 0, NEW limit \in Int, ~(n * 512 > Command!EffectiveLimit(limit))
    PROVE  n * 512 * 100 <= limit * 70
<1>1. CASE limit >= 0
  BY <1>1 DEF Command!EffectiveLimit
<1>2. CASE limit < 0
  <2>1. -limit \in Nat
    BY <1>2
  <2>2. \A m \in Nat : (m * 70) \div 100 >= 0
    OBVIOUS
  <2>3. (-limit * 70) \div 100 >= 0 /\ (-limit * 70) \div 100 \in Int
    BY <2>1, <2>2
  <2>4. Command!EffectiveLimit(limit) <= 0
    BY <1>2, <2>3 DEF Command!EffectiveLimit
  <2>. QED  BY <2>4, <2>3, <1>2 DEF Command!EffectiveLimit
<1>. QED  BY <1>1, <1>2

(* Whatever the limit is, a comparison that auto mode leaves in memory     *)
(* fits into the part of it that the safety factor leaves.                 *)
LEMMA MemoryFits ==
    ASSUME IsPlannable(input, config), config.mode = "auto", config.memory_limit # None,
           ~Command!PlanRaises(Command!Options),
           Command!CompareBackend(Command!Options, Command!EstimatedItems(Command!Options, input)) = "memory"
    PROVE  \/ Len(input.first) + Len(input.second) = 0
           \/ (Len(input.first) + Len(input.second)) * Command!BytesPerItem * 100
                <= config.memory_limit * 70
<1> DEFINE items == Command!EstimatedItems(Command!Options, input)
           limit == config.memory_limit
<1>1. ~Command!AutoUsesDisk(Command!Options, items)
  BY MemoryIsNoStrategy, OptionsAgree DEF Command!UsesDisk
<1>2. Command!LimitDecides(Command!Options) /\ ~Command!ExceedsLimit(Command!Options, items)
  BY <1>1, OptionsAgree DEF Command!AutoUsesDisk, Command!LimitDecides
<1>3. limit \in Int
  BY <1>2, OptionsAgree DEF Command!PlanRaises, IsPlannable
<1>4. items # None /\ ~(items * Command!BytesPerItem > Command!EffectiveLimit(Command!Options.memory_limit))
  BY <1>2 DEF Command!ExceedsLimit
<1>5. items = Len(input.first) + Len(input.second)
  BY <1>4 DEF Command!EstimatedItems
<1>6. Command!Options.memory_limit = limit
  BY OptionsAgree
<1> HIDE DEF items, limit
<1>7. items \in Nat
  <2>1. Len(input.first) \in Nat /\ Len(input.second) \in Nat
    BY DEF IsPlannable
  <2>2. \A m, n \in Nat : m + n \in Nat
    OBVIOUS
  <2>. QED  BY <1>5, <2>1, <2>2
<1>8. items = 0 \/ items * 512 * 100 <= limit * 70
  BY <1>3, <1>4, <1>6, <1>7, RoundedDown DEF Command!BytesPerItem
<1>. QED  BY <1>5, <1>8 DEF Command!BytesPerItem, limit

(* docs/auto-mode.md, "auto mode switches to disk before the configured    *)
(* limit is fully consumed", for every limit and inputs of every length.   *)
LEMMA MemoryLimitIsKept == Command!Spec => []Command!AutoKeepsTheLimit
<1> DEFINE Inv == IsPlannable(input, config) /\ Command!AutoKeepsTheLimit
<1>1. Command!Init => Inv
  <2> SUFFICES ASSUME Command!Init PROVE Inv
    OBVIOUS
  <2>1. PICK c \in CommandCalls : input = c.input /\ config = c.config
    BY DEF Command!Init
  <2>2. \A side \in {"first", "second"} : Len(c.input[side]) \in Nat
    BY CommandCallsAreReal, LenProperties
  <2>3. IsPlannable(c.input, c.config)
    BY <2>2, CommandCallsAreReal DEF IsPlannable
  <2>. QED  BY <2>1, <2>3, NoneIsNoValue DEF Command!Init, Command!AutoKeepsTheLimit
<1>2. Inv /\ [Command!Next]_(Command!vars) => Inv'
  <2> SUFFICES ASSUME Inv, [Command!Next]_(Command!vars) PROVE Inv'
    OBVIOUS
  <2>1. UNCHANGED Command!call
    BY DEF Command!Next, Command!vars, Command!RefuseArgs, Command!AcceptArgs, Command!RunEvents,
        Command!EventsFail, Command!RefusePlan, Command!Plan, Command!Compare,
           Command!FindDuplicates, Command!CompareReport, Command!CompareRaises, Command!Save,
           Command!SaveFails, Command!Handle, Command!HandleFails,
           Command!Return, Command!Raise, Command!Refuse, Command!Escape
  <2>2. IsPlannable(input', config')
    BY <2>1 DEF Command!call
  <2>3. CASE Command!Plan
    BY <2>1, <2>3, MemoryFits DEF Command!Plan, Command!PlanIsRefused, Command!AutoKeepsTheLimit,
        Command!IsComparison, Command!call
  <2>4. CASE ~Command!Plan
    <3>1. backend' = backend
      BY <2>4 DEF Command!Next, Command!vars, Command!RefuseArgs, Command!AcceptArgs,
          Command!RunEvents, Command!EventsFail, Command!RefusePlan, Command!Compare,
             Command!FindDuplicates, Command!CompareReport, Command!CompareRaises, Command!Save,
             Command!SaveFails, Command!Handle, Command!HandleFails,
             Command!Return, Command!Raise, Command!Refuse, Command!Escape
    <3>. QED  BY <2>1, <3>1 DEF Command!AutoKeepsTheLimit, Command!IsComparison, Command!call
  <2>. QED  BY <2>2, <2>3, <2>4 DEF IsPlannable
<1>3. Inv => Command!AutoKeepsTheLimit
  OBVIOUS
<1>. QED  BY <1>1, <1>2, <1>3, PTL DEF Command!Spec

-----------------------------------------------------------------------------
(* The calls a program can make: what CommandCallsAreReal says of each.    *)
IsCall(inputs, options) ==
    /\ \A side \in Command!Side : inputs[side] \in Seq({inputs[side][i] : i \in DOMAIN inputs[side]})
    /\ options.result_mode \in {"memory", "file"}
    /\ options.reports \subseteq {"fields", "schema"}
    /\ options.caller = "cli" => options.include_stats
    /\ options.command = "duplicates" => options.result_mode = "memory"

(* Two pairs of sequences whose entries are equal at the same places.      *)
Alike(s, other, t, another) ==
    /\ Len(s) \in Nat /\ Len(t) = Len(s)
    /\ Len(other) \in Nat /\ Len(another) = Len(other)
    /\ \A i, j \in 1..Len(s) : s[i] = s[j] <=> t[i] = t[j]
    /\ \A i \in 1..Len(s), j \in 1..Len(other) : s[i] = other[j] <=> t[i] = another[j]

(* The sections are determined by which of the tokens are equal. *)
LEMMA SameEqualities ==
    ASSUME NEW s, NEW other, NEW t, NEW another, Alike(s, other, t, another)
    PROVE  /\ Command!RepeatOrdinals(s) = Command!RepeatOrdinals(t)
           /\ Command!OnlyOrdinals(s, other) = Command!OnlyOrdinals(t, another)
           /\ Command!CommonOrdinals(s, other) = Command!CommonOrdinals(t, another)
<1> USE DEF Alike
<1>1. ASSUME NEW i \in 1..Len(s) PROVE Command!IsFirst(s, i) <=> Command!IsFirst(t, i)
  <2>1. 1..(i - 1) \subseteq 1..Len(s)
    OBVIOUS
  <2>. QED  BY <2>1 DEF Command!IsFirst
<1>2. ASSUME NEW i \in 1..Len(s) PROVE Command!Occurs(s[i], other) <=> Command!Occurs(t[i], another)
  BY DEF Command!Occurs
<1>3. /\ Command!FirstOrdinals(s) = Command!FirstOrdinals(t)
      /\ Command!RepeatOrdinals(s) = Command!RepeatOrdinals(t)
  BY <1>1 DEF Command!FirstOrdinals, Command!RepeatOrdinals
<1>4. \A i \in Command!FirstOrdinals(s) : i \in 1..Len(s)
  BY DEF Command!FirstOrdinals
<1>. QED  BY <1>2, <1>3, <1>4 DEF Command!OnlyOrdinals, Command!CommonOrdinals

(* The backend's tokens distinguish what the memory backend's do. *)
LEMMA BackendIsExact ==
    ASSUME IsCall(input, config), Command!BackendsAgreeOn(Command!Values)
    PROVE  /\ Command!Sections(Command!TokensOfBackend) = Command!Exact
           /\ Command!RepeatOrdinals(Command!TokensOfBackend["first"]) = Command!Repeats("first")
<1> DEFINE tokens == Command!TokensOfBackend
           exact == Command!InMemory
           size(side) == Len(input[side])
<1>1. \A side \in Command!Side : size(side) \in Nat /\ DOMAIN input[side] = 1..size(side)
  BY LenProperties DEF IsCall
<1>2. \A side \in Command!Side : /\ Len(tokens[side]) = size(side)
                                 /\ Len(exact[side]) = size(side)
  BY <1>1 DEF Command!TokensOfBackend, Command!InMemory, Command!OnDisk
<1>3. \A side, another \in Command!Side : \A i \in 1..size(side), j \in 1..size(another) :
         exact[side][i] = exact[another][j] <=> tokens[side][i] = tokens[another][j]
  <2> SUFFICES ASSUME NEW side \in Command!Side, NEW another \in Command!Side,
                      NEW i \in 1..size(side), NEW j \in 1..size(another)
               PROVE  exact[side][i] = exact[another][j] <=> tokens[side][i] = tokens[another][j]
    OBVIOUS
  <2>1. input[side][i] \in Command!Values /\ input[another][j] \in Command!Values
    BY <1>1 DEF Command!Values, Command!Range
  <2>2. /\ exact[side][i] = Command!MemoryToken(input[side][i])
        /\ exact[another][j] = Command!MemoryToken(input[another][j])
    BY <1>1 DEF Command!InMemory
  <2>3. CASE backend = "memory"
    BY <2>3 DEF Command!TokensOfBackend
  <2>4. CASE backend # "memory"
    <3>1. /\ tokens[side][i] = Command!DiskToken(input[side][i])
          /\ tokens[another][j] = Command!DiskToken(input[another][j])
      BY <1>1, <2>4 DEF Command!TokensOfBackend, Command!OnDisk
    <3>. QED  BY <2>1, <2>2, <3>1 DEF Command!BackendsAgreeOn
  <2>. QED  BY <2>3, <2>4
<1> HIDE DEF tokens, exact, size
<1>4. ASSUME NEW side \in Command!Side, NEW another \in Command!Side
      PROVE  /\ Command!RepeatOrdinals(tokens[side]) = Command!RepeatOrdinals(exact[side])
             /\ Command!OnlyOrdinals(tokens[side], tokens[another])
                   = Command!OnlyOrdinals(exact[side], exact[another])
             /\ Command!CommonOrdinals(tokens[side], tokens[another])
                   = Command!CommonOrdinals(exact[side], exact[another])
  <2>1. /\ Len(exact[side]) \in Nat /\ Len(tokens[side]) = Len(exact[side])
        /\ Len(exact[another]) \in Nat /\ Len(tokens[another]) = Len(exact[another])
    BY <1>1, <1>2
  <2>2. /\ \A i, j \in 1..Len(exact[side]) :
              exact[side][i] = exact[side][j] <=> tokens[side][i] = tokens[side][j]
        /\ \A i \in 1..Len(exact[side]), j \in 1..Len(exact[another]) :
              exact[side][i] = exact[another][j] <=> tokens[side][i] = tokens[another][j]
    BY <1>2, <1>3
  <2>3. Alike(exact[side], exact[another], tokens[side], tokens[another])
    BY <2>1, <2>2 DEF Alike
  <2>. QED  BY <2>3, SameEqualities
<1>5. \A side \in Command!Side : Command!Other(side) \in Command!Side
  BY DEF Command!Side, Command!Other
<1>6. "first" \in Command!Side /\ "second" \in Command!Side
  BY DEF Command!Side
<1>7. Command!Sections(tokens) = Command!Sections(exact)
  BY <1>4, <1>5, <1>6 DEF Command!Sections
<1>8. Command!RepeatOrdinals(tokens["first"]) = Command!Repeats("first")
  <2>1. Command!RepeatOrdinals(tokens["first"]) = Command!RepeatOrdinals(exact["first"])
    BY <1>4, <1>6
  <2>. QED  BY <2>1 DEF Command!Repeats, exact
<1>. QED  BY <1>7, <1>8 DEF Command!Exact, exact, tokens

(* A count is positive if and only if the section has an item. *)
LEMMA CountsAreSigns ==
    ASSUME IsCall(input, config), NEW side \in Command!Side
    PROVE  /\ Command!Cardinality(Command!Exact.only[side]) > 0 <=> Command!Exact.only[side] # {}
           /\ Command!Cardinality(Command!Repeats(side)) > 0 <=> Command!Repeats(side) # {}
<1>1. \A S : Command!Cardinality(S) = Cardinality(S)
  BY DEF Command!Cardinality, Cardinality
<1>2. Len(Command!InMemory[side]) \in Nat
  BY LenProperties DEF IsCall, Command!InMemory
<1>3. /\ Command!Exact.only[side] \subseteq 1..Len(Command!InMemory[side])
      /\ Command!Repeats(side) \subseteq 1..Len(Command!InMemory[side])
  BY DEF Command!Exact, Command!Sections, Command!OnlyOrdinals, Command!FirstOrdinals,
         Command!Repeats, Command!RepeatOrdinals
<1>4. IsFiniteSet(1..Len(Command!InMemory[side]))
  BY <1>2, FS_Interval
<1>5. IsFiniteSet(Command!Exact.only[side]) /\ IsFiniteSet(Command!Repeats(side))
  BY <1>3, <1>4, FS_Subset
<1>6. \A S : IsFiniteSet(S) => (Cardinality(S) > 0 <=> S # {})
  BY FS_EmptySet, FS_CardinalityType
<1>. QED  BY <1>1, <1>5, <1>6

-----------------------------------------------------------------------------
(* What a comparison has found, and how it is handed over. *)
Found == Command!Sections(Command!TokensOfBackend)
InFile == config.result_mode = "file"

(* The answer of the core is what the comparison found.                    *)
AnswerIsFound ==
    /\ Command!IsComparison =>
          answer = IF InFile THEN Command!Result(Command!NoSections, Command!Stats(Found), TRUE)
                             ELSE Command!Result(Found, Command!Stats(Found), FALSE)
    /\ config.command = "duplicates" =>
          answer = Command!List(Command!RepeatOrdinals(Command!TokensOfBackend["first"]))
    /\ config.command # "duplicates" /\ config.reports # {} =>
          answer.form \in {"fields", "schema"} /\ answer.content \in BOOLEAN

(* In file mode the rows are at the output before the answer is handed on. *)
RowsAreWritten ==
    Command!IsComparison /\ InFile =>
        /\ config.output # None
        /\ target = Command!Saved(Command!Result(Found, Command!Stats(Found), TRUE))

(* What is known of the answer on its way to the caller.  The two          *)
(* properties speak of the end alone and say nothing of the way.           *)
CommandInv ==
    /\ IsCall(input, config)
    /\ phase # "ended" => outcome = None
    /\ phase = "events" => config.events
    /\ phase \in {"run", "compare", "save", "handle"} => (config.caller = "cli" => ~config.events)
    /\ phase = "save" => Command!IsComparison /\ ~InFile
    /\ phase \in {"save", "handle"} => AnswerIsFound
    /\ phase = "handle" => RowsAreWritten
    /\ Command!DeliversTheComparison
    /\ Command!ExitCodeTellsDifferences

(* The properties speak of the call and of its outcome. *)
LEMMA SameCallSameSections ==
    ASSUME UNCHANGED <<input, config>>
    PROVE  /\ Command!Exact' = Command!Exact
           /\ \A side : Command!Repeats(side)' = Command!Repeats(side)
           /\ Command!Values' = Command!Values
           /\ \A values : Command!BackendsAgreeOn(values)' <=> Command!BackendsAgreeOn(values)
           /\ Command!IsComparison' <=> Command!IsComparison
           /\ backend' = backend => Found' = Found
<1>1. Command!InMemory' = Command!InMemory
  BY DEF Command!InMemory
<1>2. Command!OnDisk' = Command!OnDisk
  BY DEF Command!OnDisk
<1>3. \A tokens : Command!Sections(tokens)' = Command!Sections(tokens)
  BY DEF Command!Sections, Command!IncludeCommon, Command!IsCommand
<1>4. Command!Exact' = Command!Exact /\ \A side : Command!Repeats(side)' = Command!Repeats(side)
  BY <1>1, <1>3 DEF Command!Exact, Command!Repeats
<1>5. backend' = backend => Command!TokensOfBackend' = Command!TokensOfBackend
  BY <1>1, <1>2 DEF Command!TokensOfBackend
<1>6. backend' = backend => Found' = Found
  BY <1>3, <1>5 DEF Found
<1>7. Command!Values' = Command!Values
  BY DEF Command!Values
<1>8. \A values : Command!BackendsAgreeOn(values)' <=> Command!BackendsAgreeOn(values)
  BY DEF Command!BackendsAgreeOn
<1>9. Command!IsComparison' <=> Command!IsComparison
  BY DEF Command!IsComparison
<1>. QED  BY <1>4, <1>6, <1>7, <1>8, <1>9

(* What the caller should find.                                            *)
ExactResult ==
    IF InFile THEN Command!Result(Command!NoSections, Command!Stats(Command!Exact), TRUE)
              ELSE Command!Result(Command!Exact, Command!Stats(Command!Exact), FALSE)

(* What the command line shows of the answer, when the tokens agree. *)
LEMMA PayloadIsExact ==
    ASSUME CommandInv, phase = "handle", Command!BackendsAgreeOn(Command!Values),
           None \notin SUBSET Nat
    PROVE  /\ Command!IsComparison /\ config.command # "intersection" =>
                 Command!Payload = ExactResult
           /\ Command!IsComparison /\ config.command = "intersection" =>
                 /\ Command!Payload.form = "list"
                 /\ Command!Payload.streamed = FALSE
                 /\ ~InFile => Command!Payload.content = Command!Exact.common
           /\ config.command = "duplicates" =>
                 Command!Payload = Command!List(Command!Repeats("first"))
           /\ config.reports # {} /\ config.command # "duplicates" =>
                 /\ Command!Payload = answer
                 /\ answer.form \in {"fields", "schema"} /\ answer.content \in BOOLEAN
<1>1. AnswerIsFound /\ IsCall(input, config)
  BY DEF CommandInv
<1>2. /\ Found = Command!Exact
      /\ Command!RepeatOrdinals(Command!TokensOfBackend["first"]) = Command!Repeats("first")
  BY <1>1, BackendIsExact DEF Found
<1>3. CASE Command!IsComparison
  <2>1. answer = ExactResult
    BY <1>1, <1>2, <1>3 DEF AnswerIsFound, ExactResult
  <2>2. answer.form = "result"
    BY <2>1 DEF ExactResult, Command!Result
  <2>3. CASE config.command # "intersection"
    BY <1>3, <2>1, <2>3 DEF Command!Payload, Command!IsComparison
  <2>4. CASE config.command = "intersection"
    <3>1. /\ Command!Payload.form = "list"
          /\ Command!Payload.streamed = FALSE
          /\ Command!Payload.content =
                IF answer.content.common = None THEN {} ELSE answer.content.common
      BY <2>2, <2>4 DEF Command!Payload, Command!List
    <3>2. CASE ~InFile
      <4>1. answer.content = Command!Exact
        BY <2>1, <3>2 DEF ExactResult, Command!Result
      <4>2. Command!Exact.common =
               Command!CommonOrdinals(Command!InMemory.first, Command!InMemory.second)
        BY <2>4 DEF Command!Exact, Command!Sections, Command!IncludeCommon
      <4>3. Command!Exact.common \subseteq Nat
        <5>1. Len(Command!InMemory.first) \in Nat
          BY <1>1, LenProperties DEF IsCall, Command!InMemory, Command!Side
        <5>. QED  BY <4>2, <5>1 DEF Command!CommonOrdinals, Command!FirstOrdinals
      <4>4. Command!Exact.common # None
        BY <4>3
      <4>5. Command!Payload.content = Command!Exact.common
        BY <3>1, <4>1, <4>4
      <4>. QED  BY <1>3, <2>4, <3>1, <4>5 DEF Command!IsComparison
    <3>3. CASE InFile
      BY <1>3, <2>4, <3>1, <3>3 DEF Command!IsComparison
    <3>. QED  BY <3>2, <3>3
  <2>. QED  BY <2>3, <2>4
<1>4. CASE config.command = "duplicates"
  <2>1. answer = Command!List(Command!Repeats("first"))
    BY <1>1, <1>2, <1>4 DEF AnswerIsFound, Command!IsComparison
  <2>. QED  BY <1>4, <2>1 DEF Command!Payload, Command!IsComparison, Command!List
<1>5. CASE config.reports # {} /\ config.command # "duplicates"
  <2>1. answer.form \in {"fields", "schema"} /\ answer.content \in BOOLEAN
    BY <1>1, <1>5 DEF AnswerIsFound, Command!IsComparison
  <2>. QED  BY <1>5, <2>1 DEF Command!Payload, Command!IsComparison
<1>. QED  BY <1>3, <1>4, <1>5 DEF Command!IsComparison

(* _exit_code asks the same question as the documentation. *)
LEMMA DifferencesAreFound ==
    ASSUME CommandInv, phase = "handle", Command!IsCommand,
           Command!BackendsAgreeOn(Command!Values), None \notin SUBSET Nat
    PROVE  Command!HasDifferences(Command!Payload) <=> Command!DifferencesExist
<1>1. IsCall(input, config) /\ config.include_stats
  BY DEF CommandInv, IsCall, Command!IsCommand
<1>2. CASE Command!IsComparison /\ config.command # "intersection"
  <2>1. Command!Payload = ExactResult
    BY <1>2, PayloadIsExact
  <2>2. Command!Payload.form = "result" /\ Command!Payload.stats = Command!Stats(Command!Exact)
    BY <2>1 DEF ExactResult, Command!Result
  <2>3. ASSUME NEW side \in Command!Side
        PROVE  /\ Command!Payload.stats.only[side] > 0 <=> Command!Exact.only[side] # {}
               /\ Command!Payload.stats.duplicate[side] > 0 <=>
                     config.include_duplicates /\ Command!Repeats(side) # {}
    <3>1. /\ Command!Payload.stats.only[side] = Command!Cardinality(Command!Exact.only[side])
          /\ Command!Payload.stats.duplicate[side] =
                IF config.include_duplicates
                  THEN Command!Cardinality(Command!Exact.duplicates[side]) ELSE 0
      BY <1>1, <2>2 DEF Command!Stats
    <3>2. config.include_duplicates => Command!Exact.duplicates[side] = Command!Repeats(side)
      BY DEF Command!Exact, Command!Sections, Command!Repeats
    <3>. QED  BY <1>1, <3>1, <3>2, CountsAreSigns
  <2>. QED  BY <1>2, <2>2, <2>3
            DEF Command!HasDifferences, Command!DifferencesExist, Command!IsComparison
<1>3. CASE Command!IsComparison /\ config.command = "intersection"
  BY <1>3, PayloadIsExact DEF Command!HasDifferences, Command!DifferencesExist,
      Command!IsComparison
<1>4. CASE config.command = "duplicates"
  BY <1>4, PayloadIsExact DEF Command!HasDifferences, Command!DifferencesExist, Command!List
<1>5. CASE config.reports # {} /\ config.command # "duplicates"
  BY <1>5, PayloadIsExact DEF Command!HasDifferences, Command!DifferencesExist
<1>. QED  BY <1>2, <1>3, <1>4, <1>5 DEF Command!IsComparison

(* A command that ends without an error. *)
LEMMA HandleKeeps ==
    ASSUME CommandInv, Command!Handle, None \notin SUBSET Nat
    PROVE  Command!DeliversTheComparison' /\ Command!ExitCodeTellsDifferences'
<1>1. /\ phase = "handle" /\ Command!IsCommand
      /\ UNCHANGED <<input, config, backend, answer>>
      /\ phase' = "ended" /\ outcome' = Command!ExitCode(Command!Payload)
  BY DEF Command!Handle, Command!End, Command!call
<1>2. /\ Command!Exact' = Command!Exact /\ \A side : Command!Repeats(side)' = Command!Repeats(side)
      /\ Command!Values' = Command!Values
      /\ \A values : Command!BackendsAgreeOn(values)' <=> Command!BackendsAgreeOn(values)
  BY <1>1, SameCallSameSections
<1>3. Command!BackendsAgreeOn(Command!Values)' <=> Command!BackendsAgreeOn(Command!Values)
  BY <1>2
<1>4. Command!DifferencesExist' <=> Command!DifferencesExist
  BY <1>1, <1>2 DEF Command!DifferencesExist
<1>5. Command!ExitCodeTellsDifferences'
  <2>1. ~config.events
    BY <1>1 DEF CommandInv, Command!IsCommand
  <2>. QED
    BY <1>1, <1>3, <1>4, <2>1, DifferencesAreFound
    DEF Command!ExitCodeTellsDifferences, Command!ExitCode
<1>6. Command!DeliversTheComparison'
  <2> SUFFICES ASSUME config.reports = {}, ~config.events, ~config.summary,
                      ~(config.command = "intersection" /\ InFile),
                      Command!BackendsAgreeOn(Command!Values)
               PROVE  CASE config.command = "intersection" ->
                              Command!Holds(Command!Place', "list", Command!Exact.common)
                        [] config.command = "duplicates" ->
                              Command!Holds(Command!Place', "list", Command!Repeats("first"))
                        [] OTHER -> Command!Holds(Command!Place', "result", Command!Exact)
    BY <1>1, <1>2, <1>3 DEF Command!DeliversTheComparison, InFile
  <2>1. Command!Place' = IF ~Command!IsCommand /\ ~InFile THEN answer
                         ELSE IF config.output # None THEN target' ELSE stdout'
    BY <1>1 DEF Command!Place, Command!IsCommand, InFile, CommandInv, IsCall
  <2>3. CASE ~Command!Payload.streamed
    <3>1. Command!Shown = Command!Saved(Command!Payload) /\ ~Command!IsSilent
      BY <2>3 DEF Command!Shown, Command!IsSilent
    <3>2. Command!GoesToFile <=> config.output # None
      BY DEF Command!GoesToFile
    <3>3. Command!Place' = Command!Saved(Command!Payload)
      BY <1>1, <2>1, <3>1, <3>2 DEF Command!Handle
    <3>4. /\ Command!Place'.form = Command!Payload.form
          /\ Command!Place'.content = Command!Payload.content
      BY <3>3 DEF Command!Saved
    <3>5. CASE config.command = "intersection"
      BY <1>1, <3>4, <3>5, PayloadIsExact DEF Command!Holds, Command!IsComparison
    <3>6. CASE config.command = "duplicates"
      BY <1>1, <3>4, <3>6, PayloadIsExact DEF Command!Holds, Command!List
    <3>7. CASE config.command \notin {"intersection", "duplicates"}
      <4>1. Command!Payload = ExactResult
        BY <1>1, <3>7, PayloadIsExact DEF Command!IsComparison
      <4>2. ~InFile
        BY <2>3, <4>1 DEF ExactResult, Command!Result
      <4>3. Command!Payload.form = "result" /\ Command!Payload.content = Command!Exact
        BY <4>1, <4>2 DEF ExactResult, Command!Result
      <4>. QED  BY <3>4, <3>7, <4>3 DEF Command!Holds
    <3>. QED  BY <3>5, <3>6, <3>7
  <2>4. CASE Command!Payload.streamed
    <3>1. Command!IsComparison /\ config.command # "intersection" /\ InFile
      BY <1>1, <2>4, PayloadIsExact DEF Command!IsComparison, Command!List, ExactResult,
          Command!Result
    <3>2. Command!Payload = ExactResult
      BY <1>1, <3>1, PayloadIsExact
    <3>3. target' = target
      BY <2>4 DEF Command!Handle, Command!IsSilent
    <3>4. /\ config.output # None
          /\ target = Command!Saved(Command!Result(Found, Command!Stats(Found), TRUE))
      BY <1>1, <3>1 DEF CommandInv, RowsAreWritten
    <3>5. Found = Command!Exact
      BY BackendIsExact DEF CommandInv, Found
    <3>. QED
      BY <1>1, <2>1, <3>1, <3>3, <3>4, <3>5
      DEF Command!Holds, Command!Saved, Command!Result, Command!IsComparison
  <2>. QED  BY <2>3, <2>4
<1>. QED  BY <1>5, <1>6

(* A function of the API that returns. *)
LEMMA ReturnKeeps ==
    ASSUME CommandInv, Command!Return, None \notin SUBSET Nat
    PROVE  Command!DeliversTheComparison' /\ Command!ExitCodeTellsDifferences'
<1>1. /\ phase = "handle" /\ ~Command!IsCommand
      /\ UNCHANGED <<input, config, backend, target, stdout>>
      /\ answer' = Command!Payload /\ outcome' = "returned"
  BY DEF Command!Return, Command!End, Command!call
<1>2. /\ Command!Exact' = Command!Exact /\ \A side : Command!Repeats(side)' = Command!Repeats(side)
      /\ Command!Values' = Command!Values
      /\ \A values : Command!BackendsAgreeOn(values)' <=> Command!BackendsAgreeOn(values)
  BY <1>1, SameCallSameSections
<1>3. Command!ExitCodeTellsDifferences'
  BY <1>1 DEF Command!ExitCodeTellsDifferences
<1>4. Command!DeliversTheComparison'
  <2> SUFFICES ASSUME config.reports = {},
                      ~(config.command = "intersection" /\ InFile),
                      Command!BackendsAgreeOn(Command!Values)
               PROVE  CASE config.command = "intersection" ->
                              Command!Holds(Command!Place', "list", Command!Exact.common)
                        [] config.command = "duplicates" ->
                              Command!Holds(Command!Place', "list", Command!Repeats("first"))
                        [] OTHER -> Command!Holds(Command!Place', "result", Command!Exact)
    BY <1>1, <1>2 DEF Command!DeliversTheComparison, InFile
  <2>1. Command!Place' = IF ~InFile THEN Command!Payload
                         ELSE IF config.output # None THEN target ELSE stdout
    BY <1>1 DEF Command!Place, Command!IsCommand, InFile, CommandInv, IsCall
  <2>2. CASE config.command = "intersection"
    BY <1>1, <2>1, <2>2, PayloadIsExact DEF Command!Holds, Command!IsComparison
  <2>3. CASE config.command = "duplicates"
    <3>1. ~InFile
      BY <2>3 DEF CommandInv, IsCall, InFile
    <3>. QED  BY <1>1, <2>1, <2>3, <3>1, PayloadIsExact DEF Command!Holds, Command!List
  <2>4. CASE config.command \notin {"intersection", "duplicates"}
    <3>1. Command!IsComparison /\ Command!Payload = ExactResult
      BY <1>1, <2>4, PayloadIsExact DEF Command!IsComparison
    <3>2. CASE ~InFile
      <4>1. Command!Payload.form = "result" /\ Command!Payload.content = Command!Exact
        BY <3>1, <3>2 DEF ExactResult, Command!Result
      <4>. QED  BY <2>1, <2>4, <3>2, <4>1 DEF Command!Holds
    <3>3. CASE InFile
      <4>1. /\ config.output # None
            /\ target = Command!Saved(Command!Result(Found, Command!Stats(Found), TRUE))
        BY <1>1, <3>1, <3>3 DEF CommandInv, RowsAreWritten
      <4>2. Found = Command!Exact
        BY BackendIsExact DEF CommandInv, Found
      <4>. QED
        BY <2>1, <2>4, <3>3, <4>1, <4>2 DEF Command!Holds, Command!Saved, Command!Result
    <3>. QED  BY <3>2, <3>3
  <2>. QED  BY <2>2, <2>3, <2>4
<1>. QED  BY <1>3, <1>4

(* Every other step leaves the call unfinished, or ends it with an error.  *)
LEMMA OtherStepsDeliverNothing ==
    ASSUME UNCHANGED <<input, config>>,
           IF phase' = "ended" THEN outcome' \in {"exit 2", "uncaught", "raised", "traceback"}
                               ELSE outcome' = None
    PROVE  Command!DeliversTheComparison' /\ Command!ExitCodeTellsDifferences'
  BY NoneIsNoValue DEF Command!DeliversTheComparison, Command!ExitCodeTellsDifferences,
      Command!Succeeded

(* A step that raises. *)
LEMMA RaiseKeeps ==
    ASSUME CommandInv, Command!Raise
    PROVE  CommandInv'
<1>1. /\ UNCHANGED <<input, config, backend, answer>>
      /\ phase' = "ended" /\ outcome' \in {"exit 2", "uncaught", "raised"}
  BY DEF Command!Raise, Command!Refuse, Command!Escape, Command!End, Command!call
<1>. QED  BY <1>1, OtherStepsDeliverNothing DEF CommandInv, IsCall

(* _compare_inputs: the answer is what the backend finds, the rows of file *)
(* mode are written before it returns.                                     *)
LEMMA CompareKeeps ==
    ASSUME CommandInv, Command!Compare
    PROVE  CommandInv'
<1>1. /\ phase = "compare" /\ Command!IsComparison
      /\ UNCHANGED <<input, config, backend, outcome>>
      /\ phase' = IF config.result_mode = "memory" /\ config.output # None THEN "save" ELSE "handle"
  BY DEF Command!Compare, Command!call
<1>2. Found' = Found /\ (Command!IsComparison' <=> Command!IsComparison)
      /\ (InFile' <=> InFile)
  BY <1>1, SameCallSameSections DEF InFile
<1>3. \A sections : Command!Stats(sections)' = Command!Stats(sections)
  BY <1>1 DEF Command!Stats
<1>4. AnswerIsFound'
  <2>1. answer' = IF InFile THEN Command!Result(Command!NoSections, Command!Stats(Found), TRUE)
                            ELSE Command!Result(Found, Command!Stats(Found), FALSE)
    BY DEF Command!Compare, Found, InFile
  <2>. QED  BY <1>1, <1>2, <1>3, <2>1 DEF AnswerIsFound, Command!IsComparison
<1>5. RowsAreWritten'
  <2>1. CASE InFile
    <3>1. /\ config.output # None
          /\ target' = Command!Saved(Command!Result(Found, Command!Stats(Found), TRUE))
      BY <2>1, NoneIsNoValue DEF Command!Compare, Found, InFile
    <3>. QED  BY <1>1, <1>2, <1>3, <3>1 DEF RowsAreWritten
  <2>2. CASE ~InFile
    BY <1>2, <2>2 DEF RowsAreWritten
  <2>. QED  BY <2>1, <2>2
<1>6. outcome' = None /\ phase' # "ended"
  BY <1>1 DEF CommandInv
<1>7. phase' = "save" => ~InFile
  BY <1>1 DEF InFile
<1>8. Command!DeliversTheComparison' /\ Command!ExitCodeTellsDifferences'
  BY <1>1, <1>6, OtherStepsDeliverNothing
<1>9. IsCall(input', config')
  BY <1>1 DEF CommandInv
<1>. QED  BY <1>1, <1>2, <1>4, <1>5, <1>6, <1>7, <1>8, <1>9 DEF CommandInv

(* duplicates: the repeats the backend finds.                              *)
LEMMA FindDuplicatesKeeps ==
    ASSUME CommandInv, Command!FindDuplicates
    PROVE  CommandInv'
<1>1. /\ phase = "compare" /\ config.command = "duplicates" /\ phase' = "handle"
      /\ UNCHANGED <<input, config, backend, target, outcome>>
      /\ answer' = Command!List(Command!RepeatOrdinals(Command!TokensOfBackend["first"]))
  BY DEF Command!FindDuplicates, Command!call
<1>2. Command!TokensOfBackend' = Command!TokensOfBackend /\ (Command!IsComparison' <=> FALSE)
  BY <1>1 DEF Command!TokensOfBackend, Command!InMemory, Command!OnDisk, Command!IsComparison
<1>3. AnswerIsFound' /\ RowsAreWritten'
  BY <1>1, <1>2 DEF AnswerIsFound, RowsAreWritten
<1>4. outcome' = None
  BY <1>1 DEF CommandInv
<1>5. Command!DeliversTheComparison' /\ Command!ExitCodeTellsDifferences'
  BY <1>1, <1>4, OtherStepsDeliverNothing
<1>6. IsCall(input', config')
  BY <1>1 DEF CommandInv
<1>. QED  BY <1>1, <1>3, <1>4, <1>5, <1>6 DEF CommandInv

(* Field and schema reports answer with other forms.                       *)
LEMMA CompareReportKeeps ==
    ASSUME CommandInv, Command!CompareReport
    PROVE  CommandInv'
<1>1. /\ phase = "compare" /\ config.command # "duplicates" /\ phase' = "handle"
      /\ config.reports # {}
      /\ UNCHANGED <<input, config, backend, outcome>>
      /\ answer'.form \in config.reports /\ answer'.content \in BOOLEAN
  BY DEF Command!CompareReport, Command!call
<1>2. AnswerIsFound' /\ RowsAreWritten'
  BY <1>1 DEF AnswerIsFound, RowsAreWritten, Command!IsComparison, CommandInv, IsCall
<1>3. outcome' = None
  BY <1>1 DEF CommandInv
<1>4. Command!DeliversTheComparison' /\ Command!ExitCodeTellsDifferences'
  BY <1>1, <1>3, OtherStepsDeliverNothing
<1>5. IsCall(input', config')
  BY <1>1 DEF CommandInv
<1>. QED  BY <1>1, <1>2, <1>3, <1>4, <1>5 DEF CommandInv

(* _save_result: the answer stays, the output is what it says.             *)
LEMMA SaveKeeps ==
    ASSUME CommandInv, Command!Save
    PROVE  CommandInv'
<1>1. /\ phase = "save" /\ phase' = "handle"
      /\ UNCHANGED <<input, config, backend, answer, outcome>>
  BY DEF Command!Save, Command!call
<1>2. /\ Found' = Found /\ (Command!IsComparison' <=> Command!IsComparison)
      /\ InFile' <=> InFile
      /\ Command!TokensOfBackend' = Command!TokensOfBackend
  BY <1>1, SameCallSameSections
  DEF InFile, Command!TokensOfBackend, Command!InMemory, Command!OnDisk
<1>3. Command!Stats(Found)' = Command!Stats(Found)
  BY <1>1, <1>2 DEF Command!Stats
<1>4. AnswerIsFound' /\ RowsAreWritten'
  BY <1>1, <1>2, <1>3 DEF AnswerIsFound, RowsAreWritten, CommandInv
<1>5. outcome' = None
  BY <1>1 DEF CommandInv
<1>6. Command!DeliversTheComparison' /\ Command!ExitCodeTellsDifferences'
  BY <1>1, <1>5, OtherStepsDeliverNothing
<1>7. IsCall(input', config')
  BY <1>1 DEF CommandInv
<1>. QED  BY <1>1, <1>4, <1>5, <1>6, <1>7 DEF CommandInv

(* The steps before the comparison, and those of the event commands. *)
LEMMA EarlyStepKeeps ==
    ASSUME CommandInv, UNCHANGED <<input, config, outcome>>,
           phase # "ended",
           \/ phase' \in {"run", "compare"} /\ (config.caller = "cli" => ~config.events)
           \/ phase' = "events" /\ config.events
    PROVE  CommandInv'
  BY OtherStepsDeliverNothing DEF CommandInv, IsCall

(* An event command answers nothing that these properties speak of.        *)
LEMMA EventsKeep ==
    ASSUME CommandInv, Command!RunEvents \/ Command!EventsFail
    PROVE  CommandInv'
<1>1. /\ config.events /\ phase' = "ended" /\ UNCHANGED <<input, config>>
      /\ outcome' \in {"exit 0", "exit 2", "uncaught"}
  BY DEF Command!RunEvents, Command!EventsFail, Command!End, Command!call, CommandInv
<1>2. Command!DeliversTheComparison' /\ Command!ExitCodeTellsDifferences'
  BY <1>1 DEF Command!DeliversTheComparison, Command!ExitCodeTellsDifferences
<1>. QED  BY <1>1, <1>2 DEF CommandInv, IsCall

(* Every call and every step of it: the core of the two theorems on the    *)
(* command line.                                                           *)
LEMMA CommandDelivers ==
    ASSUME None \notin SUBSET Nat
    PROVE  Command!Spec => [](Command!DeliversTheComparison /\ Command!ExitCodeTellsDifferences)
<1>1. Command!Init => CommandInv
  <2> SUFFICES ASSUME Command!Init PROVE CommandInv
    OBVIOUS
  <2>1. IsCall(input, config)
    <3>1. PICK c \in CommandCalls : input = c.input /\ config = c.config
      BY DEF Command!Init
    <3>2. IsCall(c.input, c.config)
      <4>1. \A side \in {"first", "second"} :
               c.input[side] \in Seq({c.input[side][i] : i \in DOMAIN c.input[side]})
        BY CommandCallsAreReal
      <4>2. /\ c.config.result_mode \in {"memory", "file"}
            /\ c.config.reports \subseteq {"fields", "schema"}
            /\ c.config.caller = "cli" => c.config.include_stats
            /\ c.config.command = "duplicates" => c.config.result_mode = "memory"
        BY CommandCallsAreReal
      <4>. QED  BY <4>1, <4>2 DEF IsCall, Command!Side
    <3>. QED  BY <3>1, <3>2
  <2>2. outcome = None /\ phase \in {"args", "run"} /\ (phase = "run" => config.caller # "cli")
    BY DEF Command!Init
  <2>. QED
    BY <2>1, <2>2, NoneIsNoValue DEF CommandInv, Command!DeliversTheComparison,
        Command!ExitCodeTellsDifferences
<1>2. CommandInv /\ [Command!Next]_(Command!vars) => CommandInv'
  <2> SUFFICES ASSUME CommandInv, [Command!Next]_(Command!vars) PROVE CommandInv'
    OBVIOUS
  <2>1. CASE Command!RefuseArgs \/ Command!RefusePlan \/ Command!CompareRaises \/ Command!SaveFails
    BY <2>1, RaisingSteps, RaiseKeeps
  <2>2. CASE Command!AcceptArgs \/ Command!Plan
    BY <2>2, EarlyStepKeeps DEF Command!AcceptArgs, Command!Plan, Command!call, CommandInv
  <2>3. CASE Command!HandleFails
    <3>1. phase' = "ended" /\ outcome' = "traceback" /\ UNCHANGED <<input, config>>
      BY <2>3 DEF Command!HandleFails, Command!End, Command!call
    <3>. QED  BY <3>1, OtherStepsDeliverNothing DEF CommandInv, IsCall
  <2>4. CASE Command!Handle \/ Command!Return
    <3>1. phase' = "ended" /\ UNCHANGED <<input, config>>
      BY <2>4 DEF Command!Handle, Command!Return, Command!End, Command!call
    <3>. QED  BY <2>4, <3>1, HandleKeeps, ReturnKeeps DEF CommandInv, IsCall
  <2>5. CASE UNCHANGED Command!vars
    <3>1. UNCHANGED <<input, config, phase, backend, answer, target, stdout, outcome>>
      BY <2>5 DEF Command!vars, Command!call
    <3>2. /\ Command!Exact' = Command!Exact /\ \A side : Command!Repeats(side)' = Command!Repeats(side)
          /\ Command!Values' = Command!Values
          /\ \A values : Command!BackendsAgreeOn(values)' <=> Command!BackendsAgreeOn(values)
          /\ (Command!IsComparison' <=> Command!IsComparison)
          /\ Found' = Found /\ (InFile' <=> InFile)
          /\ Command!TokensOfBackend' = Command!TokensOfBackend
      BY <3>1, SameCallSameSections
      DEF InFile, Command!TokensOfBackend, Command!InMemory, Command!OnDisk
    <3>3. Command!Stats(Found)' = Command!Stats(Found)
      BY <3>1, <3>2 DEF Command!Stats
    <3>4. (AnswerIsFound' <=> AnswerIsFound) /\ (RowsAreWritten' <=> RowsAreWritten)
      BY <3>1, <3>2, <3>3 DEF AnswerIsFound, RowsAreWritten
    <3>5. (Command!BackendsAgreeOn(Command!Values))' <=> Command!BackendsAgreeOn(Command!Values)
      BY <3>2
    <3>6. Command!Place' = Command!Place /\ (Command!DifferencesExist' <=> Command!DifferencesExist)
      BY <3>1, <3>2 DEF Command!Place, Command!IsCommand, Command!DifferencesExist
    <3>7. Command!DeliversTheComparison' <=> Command!DeliversTheComparison
      BY <3>1, <3>2, <3>5, <3>6 DEF Command!DeliversTheComparison, Command!Succeeded
    <3>8. Command!ExitCodeTellsDifferences' <=> Command!ExitCodeTellsDifferences
      BY <3>1, <3>5, <3>6 DEF Command!ExitCodeTellsDifferences
    <3>. QED  BY <3>1, <3>2, <3>4, <3>7, <3>8 DEF CommandInv
  <2>. QED  BY <2>1, <2>2, <2>3, <2>4, <2>5, EventsKeep, CompareKeeps, FindDuplicatesKeeps,
               CompareReportKeeps, SaveKeeps DEF Command!Next
<1>3. CommandInv => Command!DeliversTheComparison /\ Command!ExitCodeTellsDifferences
  BY DEF CommandInv
<1>. QED  BY <1>1, <1>2, <1>3, PTL DEF Command!Spec

-----------------------------------------------------------------------------
(* What can be raised.                                                     *)
Cause == {"source", "interrupt", "output", "unlink"}

(* Where the command is while nothing has been raised. *)
Undisturbed == {"open", "metadata", "compare", "events", "fields", "field_events", "summary", "replace"}

(* A temporary result file lives from its making to the step that unlinks  *)
(* it, the sibling of the output file as long as it is written to.         *)
FilesAreHeld ==
    /\ raised \in Seq(Cause)
    /\ phase \in Undisturbed \cup {"unlink", "close", "discard", "ended"}
    /\ phase \in Undisturbed => Events!Succeeding
    /\ phase = "discard" => ~Events!Succeeding
    /\ phase = "open" => ~sibling
    /\ phase \notin {"open", "ended"} => (sibling <=> config.output)
    /\ phase \in {"open", "metadata", "summary", "replace"} => ~result
    /\ phase \in {"close", "discard", "ended"} /\ ~Events!Failed("unlink") => ~result
    /\ phase # "ended" => target = None
    /\ phase = "ended" /\ ~Events!Failed("unlink") =>
          (sibling => Events!Last(raised) = "interrupt")

EventInv == FilesAreHeld /\ Events!FailureLeavesNoTrace

(* An exception more. *)
LEMMA RaisedMore ==
    ASSUME raised \in Seq(Cause), NEW cause \in Cause, Events!RaiseNext(cause)
    PROVE  /\ raised' \in Seq(Cause) /\ ~Events!Succeeding'
           /\ \A c : Events!Failed(c)' <=> Events!Failed(c) \/ c = cause
           /\ Events!Last(raised') = cause
<1>1. raised' = Append(raised, cause)
  BY DEF Events!RaiseNext
<1>2. /\ raised' \in Seq(Cause) /\ Len(raised) \in Nat /\ Len(raised') = Len(raised) + 1
      /\ \A k \in 1..Len(raised) : raised'[k] = raised[k]
      /\ raised'[Len(raised) + 1] = cause
      /\ DOMAIN raised = 1..Len(raised) /\ DOMAIN raised' = 1..Len(raised')
  BY <1>1, AppendProperties, LenProperties
<1>3. raised' # <<>>
  BY <1>2
<1>4. 1..Len(raised') = 1..Len(raised) \cup {Len(raised')}
  BY <1>2
<1>5. \A c : Events!Failed(c)' <=> Events!Failed(c) \/ c = cause
  BY <1>2, <1>4 DEF Events!Failed, Events!ToSet
<1>. QED  BY <1>2, <1>3, <1>5 DEF Events!Succeeding, Events!Last

(* The steps of a command that succeeds so far. *)
LEMMA UndisturbedStepKeeps ==
    ASSUME EventInv,
           \/ Events!Open \/ Events!WriteMetadata \/ Events!MakeResult \/ Events!Compare
           \/ Events!CompareFields \/ Events!WriteNext \/ Events!FinishEvents \/ Events!WriteSummary
    PROVE  EventInv'
<1> USE DEF Events!Succeeding, Events!Failed, Events!FailureLeavesNoTrace, EventInv, FilesAreHeld, Undisturbed
<1>1. CASE Events!Open
  BY <1>1 DEF Events!Open, Events!call
<1>2. CASE Events!WriteMetadata \/ Events!WriteSummary
  BY <1>2 DEF Events!WriteMetadata, Events!WriteSummary, Events!Write, Events!call, Events!files
<1>3. CASE Events!MakeResult
  BY <1>3 DEF Events!MakeResult, Events!call
<1>4. CASE Events!Compare \/ Events!CompareFields
  <2>1. /\ phase \in {"compare", "fields"} /\ phase' \in {"events", "field_events"}
        /\ UNCHANGED <<config, raised, result, sibling, target>>
    BY <1>4 DEF Events!Compare, Events!CompareFields, Events!call, Events!files
  <2>. QED  BY <2>1
<1>5. CASE Events!WriteNext
  BY <1>5 DEF Events!WriteNext, Events!Write, Events!call, Events!files
<1>6. CASE Events!FinishEvents
  BY <1>6 DEF Events!FinishEvents, Events!call, Events!files
<1>. QED  BY <1>1, <1>2, <1>3, <1>4, <1>5, <1>6

(* A step that raises while the result file may exist. *)
LEMMA RaiseKeepsFiles ==
    ASSUME EventInv, NEW cause \in Cause, Events!Raise(cause), UNCHANGED <<config, result, sibling, target>>,
           phase \in Undisturbed \ {"open", "replace"}
    PROVE  EventInv'
<1>1. /\ raised' \in Seq(Cause) /\ ~Events!Succeeding'
      /\ \A c : Events!Failed(c)' <=> Events!Failed(c) \/ c = cause
  BY RaisedMore DEF Events!Raise, EventInv, FilesAreHeld
<1>2. phase' = IF result THEN "unlink" ELSE "close"
  BY DEF Events!Raise
<1>. QED
  BY <1>1, <1>2 DEF EventInv, FilesAreHeld, Events!FailureLeavesNoTrace, Undisturbed

(* The steps that end a command, or clean up after it. *)
LEMMA LastStepKeeps ==
    ASSUME EventInv,
           Events!UnlinkResult \/ Events!CloseWriter \/ Events!Replace \/ Events!Discard
    PROVE  EventInv'
<1> USE DEF Events!Succeeding, Events!Failed, Events!FailureLeavesNoTrace, EventInv, FilesAreHeld, Undisturbed
<1>1. CASE Events!UnlinkResult
  BY <1>1 DEF Events!UnlinkResult, Events!call
<1>2. CASE Events!CloseWriter
  <2>1. /\ phase = "close"
        /\ phase' = IF ~config.output THEN "ended" ELSE IF Events!Succeeding THEN "replace" ELSE "discard"
        /\ UNCHANGED <<config, raised, result, sibling, target>>
    BY <1>2 DEF Events!CloseWriter, Events!call, Events!files
  <2>2. Events!Succeeding => ~Events!Failed("unlink")
    <3>1. DOMAIN <<>> = {}
      OBVIOUS
    <3>. QED  BY <3>1 DEF Events!ToSet
  <2>3. phase' = "replace" => ~result
    BY <2>1, <2>2
  <2>. QED  BY <2>1, <2>3
<1>3. CASE Events!Replace
  BY <1>3 DEF Events!Replace, Events!call
<1>4. CASE Events!Discard
  BY <1>4 DEF Events!Discard, Events!call, Events!Last
<1>. QED  BY <1>1, <1>2, <1>3, <1>4

(* The failures outside the producers. *)
LEMMA FailureKeepsFiles ==
    ASSUME EventInv,
           \/ Events!OpenFails \/ Events!UnlinkResultFails \/ Events!CloseWriterFails
           \/ Events!ReplaceFails \/ Events!DiscardFails
    PROVE  EventInv'
<1>1. PICK cause \in {"output", "unlink"} :
         /\ Events!RaiseNext(cause)
         /\ cause = "unlink" <=> Events!UnlinkResultFails \/ Events!DiscardFails
  BY DEF Events!OpenFails, Events!UnlinkResultFails, Events!CloseWriterFails, Events!ReplaceFails,
         Events!DiscardFails
<1>2. /\ raised' \in Seq(Cause) /\ ~Events!Succeeding'
      /\ \A c : Events!Failed(c)' <=> Events!Failed(c) \/ c = cause
  BY <1>1, RaisedMore DEF Cause, EventInv, FilesAreHeld
<1>3. UNCHANGED <<config, result, sibling, target>>
  BY DEF Events!OpenFails, Events!UnlinkResultFails, Events!CloseWriterFails, Events!ReplaceFails,
         Events!DiscardFails, Events!call, Events!files
<1>4. CASE Events!OpenFails
  BY <1>1, <1>2, <1>3, <1>4
  DEF Events!OpenFails, EventInv, FilesAreHeld, Events!FailureLeavesNoTrace, Undisturbed
<1>5. CASE Events!UnlinkResultFails
  BY <1>1, <1>2, <1>3, <1>5
  DEF Events!UnlinkResultFails, EventInv, FilesAreHeld, Events!FailureLeavesNoTrace, Undisturbed
<1>6. CASE Events!CloseWriterFails
  BY <1>1, <1>2, <1>3, <1>6
  DEF Events!CloseWriterFails, EventInv, FilesAreHeld, Events!FailureLeavesNoTrace, Undisturbed
<1>7. CASE Events!ReplaceFails
  BY <1>1, <1>2, <1>3, <1>7
  DEF Events!ReplaceFails, EventInv, FilesAreHeld, Events!FailureLeavesNoTrace, Undisturbed
<1>8. CASE Events!DiscardFails
  BY <1>1, <1>2, <1>3, <1>8
  DEF Events!DiscardFails, EventInv, FilesAreHeld, Events!FailureLeavesNoTrace, Undisturbed
<1>. QED  BY <1>4, <1>5, <1>6, <1>7, <1>8

(* Every step of an event command, whether it fails or not.                *)
LEMMA FilesStayHeld == Events!Spec => []EventInv
<1>1. Events!Init => EventInv
  BY DEF Events!Init, EventInv, FilesAreHeld, Events!FailureLeavesNoTrace, Events!Succeeding,
      Undisturbed
<1>2. EventInv /\ [Events!Next]_(Events!vars) => EventInv'
  <2> SUFFICES ASSUME EventInv, [Events!Next]_(Events!vars) PROVE EventInv'
    OBVIOUS
  <2>1. CASE Events!SourceRaises
    BY <2>1, RaiseKeepsFiles DEF Events!SourceRaises, Events!call, Events!files, Cause,
        Undisturbed
  <2>2. CASE Events!EventFails
    BY <2>2, RaiseKeepsFiles
    DEF Events!EventFails, Events!WriteFails, Events!call, Events!files, Cause, Undisturbed
  <2>3. CASE UNCHANGED Events!vars
    BY <2>3 DEF Events!vars, Events!call, Events!files, EventInv, FilesAreHeld,
                Events!FailureLeavesNoTrace, Events!Succeeding, Events!Failed
  <2>. QED  BY <2>1, <2>2, <2>3, UndisturbedStepKeeps, LastStepKeeps, FailureKeepsFiles
            DEF Events!Next, Events!Progress, Events!Failure
<1>. QED  BY <1>1, <1>2, PTL DEF Events!Spec

(* The invariant says so of the last state.                                *)
LEMMA EventsLeaveNoTrace == Events!Spec => []Events!FailureLeavesNoTrace
<1>1. EventInv => Events!FailureLeavesNoTrace
  BY DEF EventInv
<1>. QED  BY <1>1, FilesStayHeld, PTL

-----------------------------------------------------------------------------
(* The rows of a side, and those among the first n that hold a column.     *)
RowsOf(side) == {input[side][i] : i \in DOMAIN input[side]}

HoldersTo(side, n, name) == {i \in 1..n : name \in DOMAIN input[side][i]}

TrackerFields == {"types", "present", "null", "missing"}

(* What a tracker says of a column after n rows: TrackersAreExact, with    *)
(* the two counters that make a column nullable apart.                     *)
EntryIsExact(side, n, name, tracker) ==
    /\ DOMAIN tracker = TrackerFields
    /\ tracker.null \in Nat /\ tracker.missing \in Nat
    /\ \A type : type \in tracker.types <=>
          \E i \in HoldersTo(side, n, name) :
             ~Schema!IsNull(input[side][i][name]) /\ type = Schema!TypeName(input[side][i][name])
    /\ tracker.present = Cardinality(HoldersTo(side, n, name))
    /\ tracker.null > 0 <=> \E i \in HoldersTo(side, n, name) : Schema!IsNull(input[side][i][name])
    /\ tracker.missing > 0 <=>
          \E i \in HoldersTo(side, n, name) : \E j \in i..n : j \notin HoldersTo(side, n, name)

ColumnsAreExact(side, n, columns) ==
    /\ \A name : name \in DOMAIN columns <=> HoldersTo(side, n, name) # {}
    /\ \A name \in DOMAIN columns : EntryIsExact(side, n, name, columns[name])

(* Who holds the column after one row more. *)
LEMMA HoldersGrow ==
    ASSUME NEW side, NEW n \in Nat, NEW name
    PROVE  /\ HoldersTo(side, n + 1, name) =
                 IF name \in DOMAIN input[side][n + 1] THEN HoldersTo(side, n, name) \cup {n + 1}
                                                       ELSE HoldersTo(side, n, name)
           /\ n + 1 \notin HoldersTo(side, n, name)
           /\ HoldersTo(side, n, name) \subseteq 1..n
           /\ IsFiniteSet(HoldersTo(side, n, name))
           /\ Cardinality(HoldersTo(side, n, name)) \in Nat
<1>1. 1..(n + 1) = 1..n \cup {n + 1} /\ n + 1 \notin 1..n
  OBVIOUS
<1>2. IsFiniteSet(1..n)
  BY FS_Interval
<1>3. HoldersTo(side, n, name) \subseteq 1..n
  BY DEF HoldersTo
<1>4. IsFiniteSet(HoldersTo(side, n, name)) /\ Cardinality(HoldersTo(side, n, name)) \in Nat
  BY <1>2, <1>3, FS_Subset, FS_CardinalityType
<1>. QED  BY <1>1, <1>3, <1>4 DEF HoldersTo

(* A column nobody had yet. *)
LEMMA NewTrackerIsExact ==
    ASSUME NEW side, NEW n \in Nat, NEW name, HoldersTo(side, n, name) = {}
    PROVE  EntryIsExact(side, n, name, Schema!NewTracker)
  BY FS_EmptySet DEF EntryIsExact, TrackerFields, Schema!NewTracker

(* The fields of a tracker that took one value more, or one row without.   *)
LEMMA RecordFields ==
    ASSUME NEW tracker, DOMAIN tracker = TrackerFields, NEW value
    PROVE  LET recorded == Schema!Record(tracker, value) IN
           /\ DOMAIN recorded = TrackerFields
           /\ recorded.types = IF Schema!IsNull(value) THEN tracker.types
                               ELSE tracker.types \cup {Schema!TypeName(value)}
           /\ recorded.present = tracker.present + 1
           /\ recorded.null = IF Schema!IsNull(value) THEN tracker.null + 1 ELSE tracker.null
           /\ recorded.missing = tracker.missing
  BY DEF Schema!Record, TrackerFields

(* A row without the column: nothing but the missing count changes.        *)
LEMMA MissFields ==
    ASSUME NEW tracker, DOMAIN tracker = TrackerFields
    PROVE  LET missed == [tracker EXCEPT !.missing = @ + 1] IN
           /\ DOMAIN missed = TrackerFields
           /\ missed.types = tracker.types
           /\ missed.present = tracker.present
           /\ missed.null = tracker.null
           /\ missed.missing = tracker.missing + 1
  BY DEF TrackerFields

(* _ColumnTracker.record keeps the tracker of a column exact. *)
LEMMA RecordIsExact ==
    ASSUME NEW side, NEW n \in Nat, NEW name, NEW tracker,
           EntryIsExact(side, n, name, tracker), name \in DOMAIN input[side][n + 1]
    PROVE  EntryIsExact(side, n + 1, name, Schema!Record(tracker, input[side][n + 1][name]))
<1> DEFINE value == input[side][n + 1][name]
           H == HoldersTo(side, n, name)
           recorded == Schema!Record(tracker, value)
<1>1. /\ HoldersTo(side, n + 1, name) = H \cup {n + 1}
      /\ n + 1 \notin H /\ H \subseteq 1..n /\ IsFiniteSet(H)
  BY HoldersGrow
<1>2. /\ DOMAIN recorded = TrackerFields
      /\ recorded.types = IF Schema!IsNull(value) THEN tracker.types
                          ELSE tracker.types \cup {Schema!TypeName(value)}
      /\ recorded.present = tracker.present + 1
      /\ recorded.null = IF Schema!IsNull(value) THEN tracker.null + 1 ELSE tracker.null
      /\ recorded.missing = tracker.missing
  BY RecordFields DEF EntryIsExact
<1> HIDE DEF recorded
<1>3. \A type : type \in recorded.types <=>
         \E i \in H \cup {n + 1} :
            ~Schema!IsNull(input[side][i][name]) /\ type = Schema!TypeName(input[side][i][name])
  <2>1. \A type : type \in tracker.types <=>
           \E i \in H : ~Schema!IsNull(input[side][i][name])
                      /\ type = Schema!TypeName(input[side][i][name])
    BY DEF EntryIsExact
  <2>. HIDE DEF H
  <2>. QED  BY <1>2, <2>1
<1>4. recorded.present = Cardinality(H \cup {n + 1})
  <2>1. tracker.present = Cardinality(H)
    BY DEF EntryIsExact
  <2>. HIDE DEF H
  <2>. QED  BY <1>1, <1>2, <2>1, FS_AddElement
<1>5. recorded.null \in Nat /\ recorded.missing \in Nat
  <2>1. tracker.null \in Nat /\ tracker.missing \in Nat
    BY DEF EntryIsExact
  <2>. QED  BY <1>2, <2>1
<1>6. recorded.null > 0 <=> \E i \in H \cup {n + 1} : Schema!IsNull(input[side][i][name])
  <2>1. tracker.null \in Nat /\ (tracker.null > 0 <=> \E i \in H : Schema!IsNull(input[side][i][name]))
    BY DEF EntryIsExact
  <2>. HIDE DEF H
  <2>2. CASE Schema!IsNull(value)
    BY <1>2, <2>1, <2>2
  <2>3. CASE ~Schema!IsNull(value)
    BY <1>2, <2>1, <2>3
  <2>. QED  BY <2>2, <2>3
<1>7. recorded.missing > 0 <=> \E i \in H \cup {n + 1} : \E j \in i..(n + 1) : j \notin H \cup {n + 1}
  <2>1. tracker.missing > 0 <=> \E i \in H : \E j \in i..n : j \notin H
    BY DEF EntryIsExact
  <2>2. \A i \in H : \A j : (j \in i..(n + 1) /\ j # n + 1) <=> j \in i..n
    BY <1>1
  <2>3. \A j \in (n + 1)..(n + 1) : j = n + 1
    OBVIOUS
  <2>. HIDE DEF H
  <2>. QED  BY <1>2, <2>1, <2>2, <2>3
<1> HIDE DEF value, H
<1>8. EntryIsExact(side, n + 1, name, recorded)
  BY <1>1, <1>2, <1>3, <1>4, <1>5, <1>6, <1>7 DEF EntryIsExact
<1>. QED  BY <1>8 DEF recorded, value

(* A row without the column, after one that has it. *)
LEMMA MissIsExact ==
    ASSUME NEW side, NEW n \in Nat, NEW name, NEW tracker,
           EntryIsExact(side, n, name, tracker), HoldersTo(side, n, name) # {},
           name \notin DOMAIN input[side][n + 1]
    PROVE  EntryIsExact(side, n + 1, name, [tracker EXCEPT !.missing = @ + 1])
<1> DEFINE H == HoldersTo(side, n, name)
           missed == [tracker EXCEPT !.missing = @ + 1]
<1>1. /\ HoldersTo(side, n + 1, name) = H
      /\ n + 1 \notin H /\ H \subseteq 1..n
  BY HoldersGrow
<1>2. /\ DOMAIN missed = TrackerFields
      /\ missed.types = tracker.types /\ missed.present = tracker.present
      /\ missed.null = tracker.null /\ missed.missing = tracker.missing + 1
  BY MissFields DEF EntryIsExact
<1> HIDE DEF missed
<1>3. missed.missing \in Nat /\ missed.missing > 0
  <2>1. tracker.missing \in Nat
    BY DEF EntryIsExact
  <2>. QED  BY <1>2, <2>1
<1>4. \E i \in H : \E j \in i..(n + 1) : j \notin H
  <2>1. PICK i \in H : TRUE
    OBVIOUS
  <2>2. i \in 1..n
    BY <1>1
  <2>3. n + 1 \in i..(n + 1)
    BY <2>2
  <2>. QED  BY <1>1, <2>3
<1>5. EntryIsExact(side, n + 1, name, missed)
  BY <1>1, <1>2, <1>3, <1>4 DEF EntryIsExact
<1>. QED  BY <1>5 DEF missed

(* infer_schema: one row more, every column it has or lacks. *)
LEMMA TrackIsExact ==
    ASSUME NEW side, NEW n \in Nat, NEW columns, ColumnsAreExact(side, n, columns)
    PROVE  ColumnsAreExact(side, n + 1, Schema!Track(columns, input[side][n + 1]))
<1> DEFINE row == input[side][n + 1]
           tracked == Schema!Track(columns, row)
<1>1. DOMAIN tracked = DOMAIN columns \cup DOMAIN row
  BY DEF Schema!Track
<1>2. ASSUME NEW name
      PROVE  name \in DOMAIN tracked <=> HoldersTo(side, n + 1, name) # {}
  BY <1>1, HoldersGrow DEF ColumnsAreExact
<1>3. ASSUME NEW name \in DOMAIN tracked
      PROVE  EntryIsExact(side, n + 1, name, tracked[name])
  <2>1. CASE name \notin DOMAIN row
    <3>1. tracked[name] = [columns[name] EXCEPT !.missing = @ + 1] /\ name \in DOMAIN columns
      BY <1>1, <2>1 DEF Schema!Track
    <3>2. EntryIsExact(side, n, name, columns[name]) /\ HoldersTo(side, n, name) # {}
      BY <3>1 DEF ColumnsAreExact
    <3>. QED  BY <2>1, <3>1, <3>2, MissIsExact
  <2>2. CASE name \in DOMAIN row
    <3> DEFINE tracker == IF name \in DOMAIN columns THEN columns[name] ELSE Schema!NewTracker
    <3>1. tracked[name] = Schema!Record(tracker, row[name])
      BY <1>1, <2>2 DEF Schema!Track
    <3>2. EntryIsExact(side, n, name, tracker)
      BY NewTrackerIsExact DEF ColumnsAreExact
    <3> HIDE DEF tracker
    <3>. QED  BY <2>2, <3>1, <3>2, RecordIsExact
  <2>. QED  BY <2>1, <2>2
<1> HIDE DEF tracked
<1>4. ColumnsAreExact(side, n + 1, tracked)
  BY <1>2, <1>3 DEF ColumnsAreExact
<1>. QED  BY <1>4 DEF tracked

(* The types that the counting relies on.                                  *)
SchemaTyped ==
    /\ phase \in {"config", "first", "second", "diff", "returned", "raised"}
    /\ DOMAIN trackers = Schema!Side
    /\ taken \in [Schema!Side -> Nat]
    /\ rowCount \in [Schema!Side -> Nat]
    /\ sampled \in [Schema!Side -> BOOLEAN]
    /\ \A side \in Schema!Side :
          Len(input[side]) \in Nat /\ rowCount[side] <= Len(input[side])

(* A side whose rows are still to come, and one whose rows are counted. *)
IsOpen(side) == phase \in {"config", "first"} \/ (phase = "second" /\ side = "second")
IsCounted(side) == phase \in {"diff", "returned"} \/ (phase = "second" /\ side = "first")

(* The row a side counts next is the next it takes, and a side was sampled *)
(* if and only if it left rows uncounted.                                  *)
SamplesAreTold ==
    \A side \in Schema!Side :
        /\ IsOpen(side) => taken[side] = rowCount[side] /\ ~sampled[side]
        /\ IsCounted(side) => (sampled[side] <=> rowCount[side] < Len(input[side]))

(* The trackers of each side are exact for the rows counted so far.        *)
SchemaInv ==
    /\ SchemaTyped
    /\ SamplesAreTold
    /\ \A side \in Schema!Side : ColumnsAreExact(side, rowCount[side], trackers[side])
    /\ Schema!SchemaDiffIsExact

(* The module of the schema diff has finite sets of its own. *)
LEMMA SameCardinality == \A S : Schema!Cardinality(S) = Cardinality(S)
  BY DEF Schema!Cardinality, Cardinality

(* The trackers of the invariant are those of the property. *)
LEMMA ExactColumns ==
    ASSUME NEW side \in Schema!Side, input[side] \in Seq(RowsOf(side)),
           rowCount[side] \in Nat, rowCount[side] <= Len(input[side]),
           ColumnsAreExact(side, rowCount[side], trackers[side])
    PROVE  /\ DOMAIN trackers[side] = Schema!Columns(side)
           /\ \A name \in Schema!Columns(side) :
                 /\ trackers[side][name].types = Schema!Types(side, name)
                 /\ trackers[side][name].present = Schema!Cardinality(Schema!Holders(side, name))
                 /\ Schema!Nullable(trackers[side][name]) = Schema!MayBeNull(side, name)
<1> DEFINE n == rowCount[side]
<1>1. \A name : Schema!Holders(side, name) = HoldersTo(side, n, name)
  BY DEF Schema!Holders, HoldersTo
<1>2. \A name : name \in Schema!Columns(side) <=> HoldersTo(side, n, name) # {}
  <2>1. \A i \in 1..n : Schema!Counted(side)[i] = input[side][i]
    <3>1. 1 \in 1..(Len(input[side]) + 1) /\ n \in 0..Len(input[side])
      BY LenProperties
    <3>. QED  BY <3>1, SubSeqProperties DEF Schema!Counted
  <2>. QED  BY <2>1 DEF Schema!Columns, HoldersTo
<1>3. DOMAIN trackers[side] = Schema!Columns(side)
  BY <1>2 DEF ColumnsAreExact
<1>4. ASSUME NEW name \in Schema!Columns(side)
      PROVE  /\ trackers[side][name].types = Schema!Types(side, name)
             /\ trackers[side][name].present = Schema!Cardinality(Schema!Holders(side, name))
             /\ Schema!Nullable(trackers[side][name]) = Schema!MayBeNull(side, name)
  <2>1. EntryIsExact(side, n, name, trackers[side][name])
    BY <1>3 DEF ColumnsAreExact
  <2>2. trackers[side][name].types = Schema!Types(side, name)
    BY <1>1, <2>1 DEF EntryIsExact, Schema!Types
  <2>3. trackers[side][name].present = Schema!Cardinality(Schema!Holders(side, name))
    BY <1>1, <2>1, SameCardinality DEF EntryIsExact
  <2>4. Schema!Nullable(trackers[side][name]) = Schema!MayBeNull(side, name)
    <3>1. Schema!Nullable(trackers[side][name]) <=>
             \/ \E i \in HoldersTo(side, n, name) : Schema!IsNull(input[side][i][name])
             \/ \E i \in HoldersTo(side, n, name) : \E j \in i..n : j \notin HoldersTo(side, n, name)
      BY <2>1 DEF EntryIsExact, Schema!Nullable
    <3>2. Schema!MayBeNull(side, name) <=>
             \/ \E i \in HoldersTo(side, n, name) : Schema!IsNull(input[side][i][name])
             \/ \E i \in HoldersTo(side, n, name) : \E j \in i..n : j \notin HoldersTo(side, n, name)
      BY <1>1 DEF Schema!MayBeNull
    <3>3. Schema!Nullable(trackers[side][name]) \in BOOLEAN /\ Schema!MayBeNull(side, name) \in BOOLEAN
      BY DEF Schema!Nullable, Schema!MayBeNull
    <3>. QED  BY <3>1, <3>2, <3>3
  <2>. QED  BY <2>2, <2>3, <2>4
<1>. QED  BY <1>3, <1>4

(* What the trackers say depends on the inputs and the options alone. *)
LEMMA SameRowsSameColumns ==
    ASSUME UNCHANGED <<input, config>>
    PROVE  \A side, n, columns : ColumnsAreExact(side, n, columns)' <=> ColumnsAreExact(side, n, columns)
<1>1. \A side, n, name : HoldersTo(side, n, name)' = HoldersTo(side, n, name)
  BY DEF HoldersTo
<1>2. \A value : /\ Schema!IsNull(value)' <=> Schema!IsNull(value)
                 /\ Schema!TypeName(value)' = Schema!TypeName(value)
  BY DEF Schema!IsNull, Schema!TypeName
<1>3. \A side, n, name, tracker : EntryIsExact(side, n, name, tracker)' <=> EntryIsExact(side, n, name, tracker)
  BY <1>1, <1>2 DEF EntryIsExact
<1>. QED  BY <1>1, <1>3 DEF ColumnsAreExact

(* A step that keeps the input keeps what is exact.                        *)
LEMMA ColumnsStayExact ==
    ASSUME \A side \in Schema!Side : ColumnsAreExact(side, rowCount'[side], trackers'[side]),
           UNCHANGED <<input, config>>
    PROVE  (\A side \in Schema!Side : ColumnsAreExact(side, rowCount[side], trackers[side]))'
  BY SameRowsSameColumns

(* The schema of a side is a function of the rows counted.                 *)
LEMMA SameRowsSameSchema ==
    ASSUME UNCHANGED <<input, config, rowCount>>
    PROVE  /\ \A side : Schema!Columns(side)' = Schema!Columns(side)
           /\ \A side, name : /\ Schema!Types(side, name)' = Schema!Types(side, name)
                              /\ Schema!MayBeNull(side, name)' = Schema!MayBeNull(side, name)
  BY DEF Schema!Columns, Schema!Counted, Schema!Types, Schema!MayBeNull, Schema!Holders,
         Schema!IsNull, Schema!TypeName

(* A step that counts no row and ends no side. *)
LEMMA NoRowKeeps ==
    ASSUME SchemaInv, UNCHANGED <<input, config, trackers, taken, rowCount, sampled>>,
           phase' \in {"first", "raised"}, phase' = "first" => phase = "config"
    PROVE  SchemaInv'
<1>1. SchemaTyped' /\ SamplesAreTold'
  BY DEF SchemaInv, SchemaTyped, SamplesAreTold, IsOpen, IsCounted
<1>2. (\A side \in Schema!Side : ColumnsAreExact(side, rowCount[side], trackers[side]))'
  BY ColumnsStayExact DEF SchemaInv
<1>. QED  BY <1>1, <1>2 DEF SchemaInv, Schema!SchemaDiffIsExact

(* _infer_schema counts one row: the columns it holds and the columns it   *)
(* misses.                                                                 *)
LEMMA TrackRowKeeps ==
    ASSUME SchemaInv, NEW side \in Schema!Side, Schema!TrackRow(side)
    PROVE  SchemaInv'
<1> DEFINE n == rowCount[side]
<1>1. /\ phase = side /\ phase' = phase /\ UNCHANGED <<input, config, sampled>>
      /\ taken[side] < Len(input[side])
      /\ taken' = [taken EXCEPT ![side] = @ + 1]
      /\ rowCount' = [rowCount EXCEPT ![side] = @ + 1]
      /\ trackers' = [trackers EXCEPT ![side] = Schema!Track(@, input[side][taken'[side]])]
  BY DEF Schema!TrackRow, Schema!Takes, Schema!call
<1>2. taken[side] = n /\ n \in Nat /\ taken'[side] = n + 1 /\ rowCount'[side] = n + 1
  BY <1>1 DEF SchemaInv, SchemaTyped, SamplesAreTold, IsOpen, Schema!Side
<1>3. trackers'[side] = Schema!Track(trackers[side], input[side][n + 1])
  BY <1>1, <1>2 DEF SchemaInv, SchemaTyped
<1>4. SchemaTyped'
  BY <1>1, <1>2 DEF SchemaInv, SchemaTyped
<1>5. SamplesAreTold'
  BY <1>1, <1>2 DEF SchemaInv, SchemaTyped, SamplesAreTold, IsOpen, IsCounted, Schema!Side
<1>6. ASSUME NEW s \in Schema!Side
      PROVE  ColumnsAreExact(s, rowCount'[s], trackers'[s])
  <2>1. CASE s = side
    BY <1>2, <1>3, <2>1, TrackIsExact DEF SchemaInv
  <2>2. CASE s # side
    BY <1>1, <2>2 DEF SchemaInv, SchemaTyped
  <2>. QED  BY <2>1, <2>2
<1>7. (\A s \in Schema!Side : ColumnsAreExact(s, rowCount[s], trackers[s]))'
  BY <1>1, <1>6, ColumnsStayExact
<1>8. Schema!SchemaDiffIsExact'
  BY <1>1 DEF Schema!SchemaDiffIsExact, Schema!Side
<1>. QED  BY <1>4, <1>5, <1>7, <1>8 DEF SchemaInv

(* A step that ends a side: its sample is full, or its input has no more.  *)
LEMMA EndSideKeeps ==
    ASSUME SchemaInv, NEW side \in Schema!Side, Schema!EndSample(side) \/ Schema!EndInput(side)
    PROVE  SchemaInv'
<1>1. /\ phase = side /\ phase' = Schema!AfterSide(side)
      /\ UNCHANGED <<input, config, trackers, rowCount>>
  BY DEF Schema!EndSample, Schema!EndInput, Schema!Takes, Schema!call
<1>2. taken[side] = rowCount[side] /\ ~sampled[side]
  BY <1>1 DEF SchemaInv, SamplesAreTold, IsOpen, Schema!Side
<1>3. /\ \A s \in Schema!Side : s # side => taken'[s] = taken[s] /\ sampled'[s] = sampled[s]
      /\ sampled'[side] <=> rowCount[side] < Len(input[side])
      /\ taken' \in [Schema!Side -> Nat] /\ sampled' \in [Schema!Side -> BOOLEAN]
  <2>1. CASE Schema!EndSample(side)
    BY <1>2, <2>1 DEF Schema!EndSample, Schema!Takes, SchemaInv, SchemaTyped
  <2>2. CASE Schema!EndInput(side)
    BY <1>2, <2>2 DEF Schema!EndInput, SchemaInv, SchemaTyped
  <2>. QED  BY <2>1, <2>2
<1>4. SchemaTyped'
  BY <1>1, <1>3 DEF SchemaInv, SchemaTyped, Schema!AfterSide
<1>5. SamplesAreTold'
  BY <1>1, <1>3 DEF SchemaInv, SamplesAreTold, IsOpen, IsCounted, Schema!AfterSide, Schema!Side
<1>6. (\A s \in Schema!Side : ColumnsAreExact(s, rowCount[s], trackers[s]))'
  BY <1>1, ColumnsStayExact DEF SchemaInv
<1>7. Schema!SchemaDiffIsExact'
  BY <1>1 DEF Schema!SchemaDiffIsExact, Schema!AfterSide
<1>. QED  BY <1>4, <1>5, <1>6, <1>7 DEF SchemaInv

(* _diff_schemas, from trackers that are exact. *)
LEMMA DiffKeeps ==
    ASSUME SchemaInv, \A side \in Schema!Side : input[side] \in Seq(RowsOf(side)),
           Schema!Diff
    PROVE  SchemaInv'
<1>1. /\ phase = "diff" /\ phase' = "returned"
      /\ UNCHANGED <<input, config, trackers, taken, rowCount, sampled>>
  BY DEF Schema!Diff, Schema!call
<1>2. SchemaTyped' /\ SamplesAreTold'
  BY <1>1 DEF SchemaInv, SchemaTyped, SamplesAreTold, IsOpen, IsCounted
<1>3. (\A s \in Schema!Side : ColumnsAreExact(s, rowCount[s], trackers[s]))'
  BY <1>1, ColumnsStayExact DEF SchemaInv
<1>4. Schema!SchemaDiffIsExact'
  <2> DEFINE left == trackers["first"]
             right == trackers["second"]
  <2>1. "first" \in Schema!Side /\ "second" \in Schema!Side
    BY DEF Schema!Side
  <2>2. /\ DOMAIN left = Schema!Columns("first") /\ DOMAIN right = Schema!Columns("second")
        /\ \A name \in Schema!Columns("first") :
              /\ left[name].types = Schema!Types("first", name)
              /\ Schema!Nullable(left[name]) = Schema!MayBeNull("first", name)
        /\ \A name \in Schema!Columns("second") :
              /\ right[name].types = Schema!Types("second", name)
              /\ Schema!Nullable(right[name]) = Schema!MayBeNull("second", name)
    BY <2>1, ExactColumns DEF SchemaInv, SchemaTyped
  <2>3. /\ changes'.added = DOMAIN right \ DOMAIN left
        /\ changes'.removed = DOMAIN left \ DOMAIN right
        /\ changes'.types = {name \in DOMAIN left \cap DOMAIN right :
                                left[name].types # right[name].types}
        /\ changes'.nullable = {name \in DOMAIN left \cap DOMAIN right :
                                   Schema!Nullable(left[name]) # Schema!Nullable(right[name])}
        /\ changes'.warned = (sampled["first"] \/ sampled["second"])
    BY DEF Schema!Diff
  <2>4. changes'.warned <=> \E side \in Schema!Side : rowCount[side] < Len(input[side])
    BY <1>1, <2>3 DEF SchemaInv, SamplesAreTold, IsCounted, Schema!Side
  <2>5. /\ \A side : Schema!Columns(side)' = Schema!Columns(side)
        /\ \A side, name : /\ Schema!Types(side, name)' = Schema!Types(side, name)
                           /\ Schema!MayBeNull(side, name)' = Schema!MayBeNull(side, name)
    BY <1>1, SameRowsSameSchema
  <2> HIDE DEF left, right
  <2>6. /\ changes'.added = Schema!Columns("second") \ Schema!Columns("first")
        /\ changes'.removed = Schema!Columns("first") \ Schema!Columns("second")
        /\ \A name \in Schema!Columns("first") \cap Schema!Columns("second") :
              /\ name \in changes'.types <=>
                    Schema!Types("first", name) # Schema!Types("second", name)
              /\ name \in changes'.nullable <=>
                    Schema!MayBeNull("first", name) # Schema!MayBeNull("second", name)
    BY <2>2, <2>3
  <2>. QED  BY <1>1, <2>4, <2>5, <2>6 DEF Schema!SchemaDiffIsExact
<1>. QED  BY <1>2, <1>3, <1>4 DEF SchemaInv

(* Every step of infer_schema and schema_diff.                             *)
LEMMA SchemaToolIsExact ==
    Schema!Spec => [](Schema!TrackersAreExact /\ Schema!SchemaDiffIsExact)
<1> DEFINE Inv == SchemaInv /\ \A side \in Schema!Side : input[side] \in Seq(RowsOf(side))
<1>1. Schema!Init => Inv
  <2> SUFFICES ASSUME Schema!Init PROVE Inv
    OBVIOUS
  <2>1. \A side \in Schema!Side : input[side] \in Seq(RowsOf(side)) /\ Len(input[side]) \in Nat
    <3>1. PICK c \in SchemaCalls : input = c.input
      BY DEF Schema!Init
    <3>. QED  BY <3>1, SchemaCallsAreReal, LenProperties DEF RowsOf, Schema!Side
  <2>2. SchemaTyped /\ SamplesAreTold
    BY <2>1 DEF Schema!Init, SchemaTyped, SamplesAreTold, IsOpen, IsCounted
  <2>3. \A side, name : HoldersTo(side, 0, name) = {}
    BY DEF HoldersTo
  <2>4. \A side \in Schema!Side : ColumnsAreExact(side, rowCount[side], trackers[side])
    <3>1. \A side \in Schema!Side : rowCount[side] = 0 /\ trackers[side] = <<>>
      BY DEF Schema!Init
    <3>2. DOMAIN <<>> = {}
      OBVIOUS
    <3>. QED  BY <2>3, <3>1, <3>2 DEF ColumnsAreExact
  <2>. QED  BY <2>1, <2>2, <2>4 DEF Schema!Init, SchemaInv, Schema!SchemaDiffIsExact
<1>2. Inv /\ [Schema!Next]_(Schema!vars) => Inv'
  <2> SUFFICES ASSUME Inv, [Schema!Next]_(Schema!vars) PROVE Inv'
    OBVIOUS
  <2>1. UNCHANGED <<input, config>>
    BY DEF Schema!Next, Schema!vars, Schema!call, Schema!RefuseConfig, Schema!Start,
        Schema!TrackRow,
           Schema!RefuseRow, Schema!EndSample, Schema!EndInput, Schema!SourceRaises, Schema!Diff
  <2>2. SchemaInv'
    <3>1. CASE Schema!RefuseConfig \/ Schema!Start
      BY <3>1, NoRowKeeps DEF Schema!RefuseConfig, Schema!Start, Schema!call
    <3>2. ASSUME NEW side \in Schema!Side, Schema!SourceRaises(side) PROVE SchemaInv'
      BY <3>2, NoRowKeeps DEF Schema!SourceRaises, Schema!call
    <3>3. ASSUME NEW side \in Schema!Side, Schema!RefuseRow(side) PROVE SchemaInv'
      <4>1. UNCHANGED <<input, config, trackers, rowCount, sampled>> /\ phase' = "raised"
        BY <3>3 DEF Schema!RefuseRow, Schema!call
      <4>2. taken' \in [Schema!Side -> Nat]
        BY <3>3 DEF Schema!RefuseRow, Schema!Takes, SchemaInv, SchemaTyped
      <4>3. SchemaTyped' /\ SamplesAreTold'
        BY <4>1, <4>2 DEF SchemaInv, SchemaTyped, SamplesAreTold, IsOpen, IsCounted
      <4>4. (\A s \in Schema!Side : ColumnsAreExact(s, rowCount[s], trackers[s]))'
        BY <4>1, ColumnsStayExact DEF SchemaInv
      <4>. QED  BY <4>1, <4>3, <4>4 DEF SchemaInv, Schema!SchemaDiffIsExact
    <3>4. ASSUME UNCHANGED Schema!vars PROVE SchemaInv'
      <4>1. UNCHANGED <<input, config, phase, trackers, taken, rowCount, sampled, changes>>
        BY <3>4 DEF Schema!vars, Schema!call
      <4>2. SchemaTyped' /\ SamplesAreTold'
        BY <4>1 DEF SchemaInv, SchemaTyped, SamplesAreTold, IsOpen, IsCounted
      <4>3. (\A s \in Schema!Side : ColumnsAreExact(s, rowCount[s], trackers[s]))'
        BY <4>1, ColumnsStayExact DEF SchemaInv
      <4>4. Schema!SchemaDiffIsExact'
        BY <4>1, SameRowsSameSchema DEF SchemaInv, Schema!SchemaDiffIsExact
      <4>. QED  BY <4>2, <4>3, <4>4 DEF SchemaInv
    <3>. QED  BY <3>1, <3>2, <3>3, <3>4, TrackRowKeeps, EndSideKeeps, DiffKeeps DEF Schema!Next
  <2>. QED  BY <2>1, <2>2 DEF RowsOf
<1>3. Inv => Schema!TrackersAreExact /\ Schema!SchemaDiffIsExact
  BY ExactColumns DEF SchemaInv, SchemaTyped, Schema!TrackersAreExact
<1>. QED  BY <1>1, <1>2, <1>3, PTL DEF Schema!Spec

-----------------------------------------------------------------------------
(* The types of the Bloom filter candidates.                               *)
BloomTyped ==
    /\ input \in [Bloom!Side -> Seq(Item)]
    /\ hashes \in [Bloom!Side -> [Item -> SUBSET Bit]]
    /\ bits \in [Bloom!Side -> SUBSET Bit]
    /\ taken \in [Bloom!Side -> Nat]
    /\ asked \in [Bloom!Side -> Nat]
    /\ candidates \in [Bloom!Side -> Seq(Item)]

(* The property alone is not inductive: why an item that was added is      *)
(* contained is that a filter never loses a bit of the items it took.      *)
FiltersHoldWhatTheyTook ==
    \A side \in Bloom!Side :
        /\ taken[side] <= Len(input[side])
        /\ \A k \in 1..taken[side] : hashes[side][input[side][k]] \subseteq bits[side]

BloomInv == BloomTyped /\ FiltersHoldWhatTheyTook /\ Bloom!CandidatesAreDifferences

-----------------------------------------------------------------------------
(* No false negative: a filter that took its whole input contains every    *)
(* item that occurs in it.                                                 *)
LEMMA NoFalseNegative ==
    ASSUME BloomInv, NEW side \in Bloom!Side, Bloom!Added(side),
           NEW element, Bloom!Occurs(element, input[side])
    PROVE  Bloom!Contains(side, element)
<1>1. PICK k \in 1..Len(input[side]) : input[side][k] = element
  BY DEF Bloom!Occurs
<1>2. k \in 1..taken[side]
  BY DEF Bloom!Added
<1>. QED  BY <1>1, <1>2 DEF BloomInv, FiltersHoldWhatTheyTook, Bloom!Contains
(* build_bloom_filter keeps the invariant: a bit that is set stays set.    *)
LEMMA AddNextKeeps ==
    ASSUME BloomInv, NEW side \in Bloom!Side, Bloom!AddNext(side)
    PROVE  BloomInv'
<1> USE DEF Bloom!AddNext, Bloom!Add, Bloom!Added
<1>0. /\ input[side] \in Seq(Item)
      /\ Len(input[side]) \in Nat
      /\ taken[side] \in Nat
      /\ taken[side] < Len(input[side])
  BY LenProperties DEF BloomInv, BloomTyped, FiltersHoldWhatTheyTook
<1> DEFINE element == input[side][taken[side] + 1]
<1>1. element \in Item
  <2>1. taken[side] + 1 \in 1..Len(input[side])
    BY <1>0
  <2>. QED  BY <1>0, <2>1, ElementOfSeq
<1>2. BloomTyped'
  BY <1>0, <1>1 DEF BloomInv, BloomTyped
<1>3. ASSUME NEW s \in Bloom!Side
      PROVE  /\ taken'[s] <= Len(input'[s])
             /\ \A k \in 1..taken'[s] : hashes'[s][input'[s][k]] \subseteq bits'[s]
  <2>1. CASE s = side
    BY <2>1, <1>0 DEF BloomInv, BloomTyped, FiltersHoldWhatTheyTook
  <2>2. CASE s # side
    BY <2>2 DEF BloomInv, BloomTyped, FiltersHoldWhatTheyTook
  <2>. QED  BY <2>1, <2>2
<1>4. Bloom!CandidatesAreDifferences'
  BY DEF BloomInv, Bloom!CandidatesAreDifferences, Bloom!Occurs
<1>. QED  BY <1>2, <1>3, <1>4 DEF BloomInv, FiltersHoldWhatTheyTook

(* The comprehensions keep the invariant: what a filter lacks its input    *)
(* lacks.                                                                  *)
LEMMA AskNextKeeps ==
    ASSUME BloomInv, NEW side \in Bloom!Side, Bloom!AskNext(side)
    PROVE  BloomInv'
<1> DEFINE element == input[side][asked[side] + 1]
<1>1. /\ asked[side] + 1 \in 1..Len(input[side])
      /\ element \in Item
      /\ Bloom!Occurs(element, input[side])
  <2>1. /\ input[side] \in Seq(Item) /\ Len(input[side]) \in Nat
        /\ asked[side] \in Nat /\ asked[side] < Len(input[side])
    BY LenProperties DEF BloomInv, BloomTyped, Bloom!AskNext
  <2>2. asked[side] + 1 \in 1..Len(input[side])
    BY <2>1
  <2>. QED  BY <2>1, <2>2, ElementOfSeq DEF Bloom!Occurs
<1>2. Bloom!Other(side) \in Bloom!Side /\ Bloom!Added(Bloom!Other(side))
  BY DEF Bloom!AskNext, Bloom!Other, Bloom!Side
<1>3. CASE Bloom!Contains(Bloom!Other(side), element)
  <2>1. candidates' = candidates /\ UNCHANGED <<input, hashes, bits, taken>>
    BY <1>3 DEF Bloom!AskNext
  <2>2. BloomTyped'
    BY <2>1 DEF Bloom!AskNext, BloomInv, BloomTyped
  <2>3. FiltersHoldWhatTheyTook' /\ Bloom!CandidatesAreDifferences'
    BY <2>1 DEF BloomInv, FiltersHoldWhatTheyTook, Bloom!CandidatesAreDifferences
  <2>. QED  BY <2>2, <2>3 DEF BloomInv
<1>4. CASE ~Bloom!Contains(Bloom!Other(side), element)
  <2>1. ~Bloom!Occurs(element, input[Bloom!Other(side)])
    BY <1>2, <1>4, NoFalseNegative
  <2>2. candidates' = [candidates EXCEPT ![side] = Append(@, element)]
    BY <1>4 DEF Bloom!AskNext
  <2>3. /\ candidates[side] \in Seq(Item)
        /\ Len(candidates'[side]) = Len(candidates[side]) + 1
        /\ Len(candidates[side]) \in Nat
        /\ \A k \in 1..Len(candidates[side]) : candidates'[side][k] = candidates[side][k]
        /\ candidates'[side][Len(candidates[side]) + 1] = element
    BY <1>1, <2>2, AppendProperties, LenProperties DEF BloomInv, BloomTyped
  <2>4. BloomTyped'
    BY <1>1, <2>2, <2>3, AppendProperties DEF BloomInv, BloomTyped, Bloom!AskNext
  <2>5. FiltersHoldWhatTheyTook'
    BY DEF BloomInv, FiltersHoldWhatTheyTook, Bloom!AskNext
  <2>6. ASSUME NEW s \in Bloom!Side, NEW k \in 1..Len(candidates'[s])
        PROVE  /\ Bloom!Occurs(candidates'[s][k], input'[s])
               /\ ~Bloom!Occurs(candidates'[s][k], input'[Bloom!Other(s)])
    <3>1. CASE s = side /\ k = Len(candidates[side]) + 1
      BY <3>1, <1>1, <2>1, <2>3 DEF Bloom!AskNext
    <3>2. CASE s = side /\ k # Len(candidates[side]) + 1
      BY <3>2, <2>3 DEF Bloom!AskNext, BloomInv, Bloom!CandidatesAreDifferences
    <3>3. CASE s # side
      BY <3>3, <2>2 DEF Bloom!AskNext, BloomInv, BloomTyped, Bloom!CandidatesAreDifferences
    <3>. QED  BY <3>1, <3>2, <3>3
  <2>. QED  BY <2>4, <2>5, <2>6 DEF BloomInv, Bloom!CandidatesAreDifferences
<1>. QED  BY <1>3, <1>4

-----------------------------------------------------------------------------
(* Bloom filters have no false negatives, so the candidates that           *)
(* probabilistic_diff_candidates returns are differences, for inputs of    *)
(* any length and for every family of hash functions.                      *)
LEMMA CandidatesDiffer == Bloom!Spec => []Bloom!CandidatesAreDifferences
<1>1. Bloom!Init => BloomInv
  BY BloomInputsAreSequences
  DEF Bloom!Init, BloomInv, BloomTyped, FiltersHoldWhatTheyTook, Bloom!CandidatesAreDifferences,
  Bloom!Side
<1>2. BloomInv /\ [Bloom!Next]_(Bloom!vars) => BloomInv'
  <2> SUFFICES ASSUME BloomInv, [Bloom!Next]_(Bloom!vars) PROVE BloomInv'
    OBVIOUS
  <2>1. CASE UNCHANGED Bloom!vars
    BY <2>1 DEF Bloom!vars, BloomInv, BloomTyped, FiltersHoldWhatTheyTook,
        Bloom!CandidatesAreDifferences
  <2>. QED  BY <2>1, AddNextKeeps, AskNextKeeps DEF Bloom!Next
<1>3. BloomInv => Bloom!CandidatesAreDifferences
  BY DEF BloomInv
<1>. QED  BY <1>1, <1>2, <1>3, PTL DEF Bloom!Spec

-----------------------------------------------------------------------------
(* A set of naturals that is not empty has a least element.                *)
LEMMA LeastElement ==
    ASSUME NEW S \in SUBSET Nat, S # {}
    PROVE  \E m \in S : \A n \in S : m <= n
<1> DEFINE R == {ss \in Nat \X Nat : ss[1] < ss[2]}
<1>1. IsWellFoundedOn(R, Nat)
  BY NatLessThanWellFounded DEF OpToRel
<1>2. \A m, n \in Nat : <<n, m>> \notin R => m <= n
  OBVIOUS
<1> HIDE DEF R
<1>3. \E m \in S : \A n \in S : <<n, m>> \notin R
  BY <1>1, WFMin
<1>. QED  BY <1>2, <1>3

(* What the entries of a sequence are when one is appended. *)
LEMMA AppendEntries ==
    ASSUME NEW T, NEW q \in Seq(T), NEW x \in T
    PROVE  LET r == Append(q, x) IN
           /\ r \in Seq(T)
           /\ \A k \in 1..Len(r) : r[k] = IF k \in 1..Len(q) THEN q[k] ELSE x
           /\ \A k \in 1..Len(q) : k \in 1..Len(r) /\ r[k] = q[k]
           /\ \E k \in 1..Len(r) : k \notin 1..Len(q) /\ r[k] = x
           /\ \A k, l \in 1..Len(r) : k \notin 1..Len(q) /\ l \notin 1..Len(q) => k = l
<1> DEFINE r == Append(q, x)
<1>1. /\ r \in Seq(T) /\ Len(q) \in Nat /\ Len(r) = Len(q) + 1
      /\ \A k \in 1..Len(q) : r[k] = q[k]
      /\ r[Len(q) + 1] = x
  BY AppendProperties, LenProperties
<1> HIDE DEF r
<1>2. \A k \in 1..Len(r) : k \in 1..Len(q) \/ k = Len(q) + 1
  BY <1>1
<1>3. Len(q) + 1 \in 1..Len(r) /\ Len(q) + 1 \notin 1..Len(q)
  BY <1>1
<1>4. 1..Len(q) \subseteq 1..Len(r)
  BY <1>1
<1>. QED  BY <1>1, <1>2, <1>3, <1>4 DEF r

(* The types of the fuzzy matching.                                        *)
FuzzyTyped ==
    /\ scores \in Seq(Seq(Score))
    /\ threshold \in Score
    /\ turn \in Nat
    /\ common \in Seq(Nat \X Nat)
    /\ onlyFirst \in Seq(Nat)

FuzzyInv == FuzzyTyped /\ Fuzzy!MatchingIsMaximal

(* A string that has anything left to choose from has a best partner: the  *)
(* first of those whose score lacks the least of 100.                      *)
LEMMA BestPartnerExists ==
    ASSUME Score \subseteq 0..100, FuzzyTyped, NEW i \in Fuzzy!Firsts,
           NEW free \in Fuzzy!Seconds(i) \ Fuzzy!Matched
    PROVE  \E j : Fuzzy!IsBest(i, j)
<1> DEFINE S == Fuzzy!Seconds(i) \ Fuzzy!Matched
           Lack(j) == 100 - scores[i][j]
<1>1. S \subseteq Nat /\ free \in S /\ \A j \in S : scores[i][j] \in 0..100
  <2>1. scores[i] \in Seq(Score)
    BY ElementOfSeq, LenProperties DEF FuzzyTyped, Fuzzy!Firsts
  <2>2. Fuzzy!Seconds(i) = 1..Len(scores[i]) /\ Len(scores[i]) \in Nat
    BY <2>1, LenProperties DEF Fuzzy!Seconds
  <2>3. \A j \in 1..Len(scores[i]) : scores[i][j] \in Score
    BY <2>1, ElementOfSeq
  <2>4. S \subseteq Nat
    BY <2>2
  <2>5. \A j \in S : scores[i][j] \in 0..100
    BY <2>2, <2>3
  <2>. QED  BY <2>4, <2>5
<1>2. PICK m \in {Lack(j) : j \in S} : \A n \in {Lack(j) : j \in S} : m <= n
  <2>1. \A j \in S : Lack(j) \in Nat
    BY <1>1
  <2>. HIDE DEF Lack, S
  <2>2. {Lack(j) : j \in S} \in SUBSET Nat /\ {Lack(j) : j \in S} # {}
    BY <1>1, <2>1
  <2>. QED  BY <2>2, LeastElement
<1>3. PICK best \in {j \in S : Lack(j) = m} : \A j \in {k \in S : Lack(k) = m} : best <= j
  <2>1. {j \in S : Lack(j) = m} \in SUBSET Nat /\ {j \in S : Lack(j) = m} # {}
    BY <1>1, <1>2
  <2>. HIDE DEF Lack, S
  <2>. QED  BY <2>1, LeastElement
<1>4. ASSUME NEW other \in S
      PROVE  \/ scores[i][other] < scores[i][best]
             \/ scores[i][other] = scores[i][best] /\ best <= other
  <2>1. Lack(best) = m /\ m <= Lack(other) /\ (Lack(other) = m => best <= other)
    <3>. HIDE DEF Lack, S
    <3>. QED  BY <1>2, <1>3
  <2>2. scores[i][other] \in Int /\ scores[i][best] \in Int
    BY <1>1, <1>3
  <2>. QED  BY <2>1, <2>2
<1>. QED  BY <1>3, <1>4 DEF Fuzzy!IsBest

(* A pair more: the partner was free.                                      *)
LEMMA TakePartnerKeeps ==
    ASSUME Score \subseteq 0..100, FuzzyInv, Fuzzy!TakePartner
    PROVE  FuzzyInv'
<1> USE DEF FuzzyInv, FuzzyTyped
<1>1. PICK j \in Fuzzy!Seconds(turn') :
         /\ Fuzzy!IsBest(turn', j) /\ Fuzzy!Reaches(turn', j)
         /\ common' = Append(common, <<turn', j>>)
  BY DEF Fuzzy!TakePartner
<1>2. /\ turn' = turn + 1 /\ turn + 1 \in Fuzzy!Firsts
      /\ UNCHANGED <<scores, threshold, onlyFirst>>
  BY DEF Fuzzy!TakePartner
<1>3. j \in Nat /\ j \notin Fuzzy!Matched /\ scores[turn + 1][j] >= threshold
  <2>1. scores[turn + 1] \in Seq(Score)
    BY <1>2, ElementOfSeq, LenProperties DEF Fuzzy!Firsts
  <2>2. Fuzzy!Seconds(turn') \subseteq Nat
    BY <1>2, <2>1, LenProperties DEF Fuzzy!Seconds
  <2>. QED  BY <1>1, <1>2, <2>2 DEF Fuzzy!IsBest, Fuzzy!Reaches
<1> DEFINE pair == <<turn + 1, j>>
<1>4. pair \in Nat \X Nat /\ pair[1] = turn + 1 /\ pair[2] = j /\ common' = Append(common, pair)
  BY <1>1, <1>2, <1>3
<1> HIDE DEF pair
<1>5. /\ common' \in Seq(Nat \X Nat)
      /\ \A k \in 1..Len(common') : common'[k] = IF k \in 1..Len(common) THEN common[k] ELSE pair
      /\ \A k \in 1..Len(common) : k \in 1..Len(common') /\ common'[k] = common[k]
      /\ \E k \in 1..Len(common') : k \notin 1..Len(common) /\ common'[k] = pair
      /\ \A k, l \in 1..Len(common') :
            k \notin 1..Len(common) /\ l \notin 1..Len(common) => k = l
  <2>1. common \in Seq(Nat \X Nat)
    OBVIOUS
  <2>. HIDE DEF FuzzyInv, FuzzyTyped
  <2>. QED  BY <1>4, <2>1, AppendEntries
<1>6. FuzzyTyped'
  BY <1>2, <1>5
<1>7. /\ {common'[k][1] : k \in 1..Len(common')}
            = {common[k][1] : k \in 1..Len(common)} \cup {turn + 1}
      /\ Fuzzy!Matched' = Fuzzy!Matched \cup {j}
  <2>1. /\ \A k \in 1..Len(common') : common'[k] = IF k \in 1..Len(common) THEN common[k] ELSE pair
        /\ \A k \in 1..Len(common) : k \in 1..Len(common') /\ common'[k] = common[k]
        /\ \E k \in 1..Len(common') : k \notin 1..Len(common) /\ common'[k] = pair
        /\ pair[1] = turn + 1 /\ pair[2] = j
    BY <1>4, <1>5
  <2> HIDE DEF FuzzyInv, FuzzyTyped
  <2>2. {common'[k][1] : k \in 1..Len(common')}
           = {common[k][1] : k \in 1..Len(common)} \cup {turn + 1}
    BY <2>1
  <2>3. {common'[k][2] : k \in 1..Len(common')} = {common[k][2] : k \in 1..Len(common)} \cup {j}
    BY <2>1
  <2>. QED  BY <2>2, <2>3 DEF Fuzzy!Matched
<1>8. \A k, l \in 1..Len(common') : k # l =>
         common'[k][1] # common'[l][1] /\ common'[k][2] # common'[l][2]
  <2>1. \A k \in 1..Len(common) : common[k][1] # pair[1] /\ common[k][2] # pair[2]
    <3>1. \A k \in 1..Len(common) : common[k][1] \in 1..turn /\ common[k][2] \in Fuzzy!Matched
      BY DEF Fuzzy!MatchingIsMaximal, Fuzzy!Matched
    <3>2. turn + 1 \notin 1..turn
      OBVIOUS
    <3>. QED  BY <1>3, <1>4, <3>1, <3>2
  <2>2. \A k, l \in 1..Len(common) : k # l =>
           common[k][1] # common[l][1] /\ common[k][2] # common[l][2]
    BY DEF Fuzzy!MatchingIsMaximal
  <2>. HIDE DEF FuzzyInv, FuzzyTyped
  <2>3. ASSUME NEW k \in 1..Len(common'), NEW l \in 1..Len(common'), k # l
        PROVE  common'[k][1] # common'[l][1] /\ common'[k][2] # common'[l][2]
    <3>0. /\ common'[k] = IF k \in 1..Len(common) THEN common[k] ELSE pair
          /\ common'[l] = IF l \in 1..Len(common) THEN common[l] ELSE pair
          /\ k \in 1..Len(common) \/ l \in 1..Len(common)
      BY <2>3, <1>5
    <3>1. CASE k \in 1..Len(common) /\ l \in 1..Len(common)
      <4>1. common[k][1] # common[l][1] /\ common[k][2] # common[l][2]
        BY <3>1, <2>2, <2>3
      <4>. QED  BY <3>0, <3>1, <4>1
    <3>2. CASE k \in 1..Len(common) /\ l \notin 1..Len(common)
      BY <3>0, <3>2, <2>1
    <3>3. CASE k \notin 1..Len(common) /\ l \in 1..Len(common)
      BY <3>0, <3>3, <2>1
    <3>. QED  BY <3>0, <3>1, <3>2, <3>3
  <2>. QED  BY <2>3
<1>9. {common'[k][1] : k \in 1..Len(common')} \cup {onlyFirst'[k] : k \in 1..Len(onlyFirst')}
         = 1..turn'
  <2>1. 1..turn' = 1..turn \cup {turn + 1}
    BY <1>2
  <2>. QED  BY <1>2, <1>7, <2>1 DEF Fuzzy!MatchingIsMaximal
<1>10. \A k \in 1..Len(common') : scores[common'[k][1]][common'[k][2]] >= threshold
  <2>1. \A k \in 1..Len(common) : scores[common[k][1]][common[k][2]] >= threshold
    BY DEF Fuzzy!MatchingIsMaximal
  <2>2. scores[pair[1]][pair[2]] >= threshold
    BY <1>3, <1>4
  <2>. QED  BY <1>5, <2>1, <2>2
<1>11. \A k \in 1..Len(onlyFirst) :
          \A other \in Fuzzy!Seconds(onlyFirst[k]) \ (Fuzzy!Matched \cup {j}) :
             scores[onlyFirst[k]][other] < threshold
  BY DEF Fuzzy!MatchingIsMaximal
<1>12. Fuzzy!MatchingIsMaximal'
  BY <1>2, <1>7, <1>8, <1>9, <1>10, <1>11 DEF Fuzzy!MatchingIsMaximal, Fuzzy!Seconds
<1>. QED  BY <1>6, <1>12

(* An item that stays alone: its best partner does not reach the threshold,*)
(* and what is left later was left when it chose.                          *)
LEMMA StayAloneKeeps ==
    ASSUME Score \subseteq 0..100, FuzzyInv, Fuzzy!StayAlone
    PROVE  FuzzyInv'
<1> USE DEF FuzzyInv, FuzzyTyped
<1>1. /\ turn' = turn + 1 /\ turn + 1 \in Fuzzy!Firsts
      /\ \A j \in Fuzzy!Seconds(turn + 1) : Fuzzy!IsBest(turn + 1, j) => ~Fuzzy!Reaches(turn + 1, j)
      /\ onlyFirst' = Append(onlyFirst, turn + 1)
      /\ UNCHANGED <<scores, threshold, common>>
  BY DEF Fuzzy!StayAlone
<1>2. /\ onlyFirst' \in Seq(Nat)
      /\ \A k \in 1..Len(onlyFirst') :
            onlyFirst'[k] = IF k \in 1..Len(onlyFirst) THEN onlyFirst[k] ELSE turn + 1
      /\ \A k \in 1..Len(onlyFirst) : k \in 1..Len(onlyFirst') /\ onlyFirst'[k] = onlyFirst[k]
      /\ \E k \in 1..Len(onlyFirst') : k \notin 1..Len(onlyFirst) /\ onlyFirst'[k] = turn + 1
  <2>1. turn + 1 \in Nat
    OBVIOUS
  <2>2. onlyFirst \in Seq(Nat)
    OBVIOUS
  <2>. HIDE DEF FuzzyInv, FuzzyTyped
  <2>. QED  BY <1>1, <2>1, <2>2, AppendEntries
<1>3. ASSUME NEW other \in Fuzzy!Seconds(turn + 1) \ Fuzzy!Matched
      PROVE  scores[turn + 1][other] < threshold
  <2>1. PICK best : Fuzzy!IsBest(turn + 1, best)
    BY <1>1, BestPartnerExists
  <2>2. best \in Fuzzy!Seconds(turn + 1) /\ ~Fuzzy!Reaches(turn + 1, best)
    BY <1>1, <2>1 DEF Fuzzy!IsBest
  <2>3. \/ scores[turn + 1][other] < scores[turn + 1][best]
        \/ scores[turn + 1][other] = scores[turn + 1][best]
    BY <2>1 DEF Fuzzy!IsBest
  <2>4. threshold \in Score /\ scores[turn + 1][other] \in Score /\ scores[turn + 1][best] \in Score
    <3>1. scores[turn + 1] \in Seq(Score)
      BY <1>1, ElementOfSeq, LenProperties DEF Fuzzy!Firsts
    <3>2. \A j \in Fuzzy!Seconds(turn + 1) : scores[turn + 1][j] \in Score
      BY <3>1, ElementOfSeq, LenProperties DEF Fuzzy!Seconds
    <3>. QED  BY <2>2, <3>2
  <2>5. \A x \in Score : x \in Int
    OBVIOUS
  <2>6. \A a, b, t \in Int : (a < b \/ a = b) /\ ~(b >= t) => a < t
    OBVIOUS
  <2>7. threshold \in Int /\ scores[turn + 1][other] \in Int /\ scores[turn + 1][best] \in Int
    BY <2>4, <2>5
  <2>. HIDE DEF FuzzyInv, FuzzyTyped
  <2>. QED  BY <2>2, <2>3, <2>6, <2>7 DEF Fuzzy!Reaches
<1>5. {onlyFirst'[k] : k \in 1..Len(onlyFirst')}
         = {onlyFirst[k] : k \in 1..Len(onlyFirst)} \cup {turn + 1}
  <2>. HIDE DEF FuzzyInv, FuzzyTyped
  <2>. QED  BY <1>2
<1>6. 1..turn' = 1..turn \cup {turn + 1}
  BY <1>1
<1>7. {common'[k][1] : k \in 1..Len(common')} \cup {onlyFirst'[k] : k \in 1..Len(onlyFirst')}
         = 1..turn'
  <2>1. {common[k][1] : k \in 1..Len(common)} \cup {onlyFirst[k] : k \in 1..Len(onlyFirst)} = 1..turn
    BY DEF Fuzzy!MatchingIsMaximal
  <2>2. {common'[k][1] : k \in 1..Len(common')} = {common[k][1] : k \in 1..Len(common)}
    BY <1>1
  <2>. HIDE DEF FuzzyInv, FuzzyTyped
  <2>. QED  BY <1>5, <1>6, <2>1, <2>2
<1>8. \A k \in 1..Len(onlyFirst') : \A other \in Fuzzy!Seconds(onlyFirst'[k]) \ Fuzzy!Matched :
         scores[onlyFirst'[k]][other] < threshold
  BY <1>2, <1>3 DEF Fuzzy!MatchingIsMaximal
<1>9. FuzzyTyped'
  BY <1>1, <1>2
<1>10. \A k, l \in 1..Len(common) : k # l =>
          common[k][1] # common[l][1] /\ common[k][2] # common[l][2]
  BY DEF Fuzzy!MatchingIsMaximal
<1>11. \A k \in 1..Len(common) : scores[common[k][1]][common[k][2]] >= threshold
  BY DEF Fuzzy!MatchingIsMaximal
<1> HIDE DEF FuzzyInv, FuzzyTyped
<1>12. Fuzzy!MatchingIsMaximal'
  <2>1. /\ turn' = turn + 1
        /\ UNCHANGED <<scores, threshold, common>>
        /\ Fuzzy!Matched' = Fuzzy!Matched
        /\ \A i : Fuzzy!Seconds(i)' = Fuzzy!Seconds(i)
    BY <1>1 DEF Fuzzy!Matched, Fuzzy!Seconds
  <2>2. \A k \in 1..Len(onlyFirst') :
           \A other \in (Fuzzy!Seconds(onlyFirst[k]) \ Fuzzy!Matched)' :
              scores'[onlyFirst'[k]][other] < threshold'
    BY <1>8, <2>1
  <2>. QED  BY <1>7, <1>10, <1>11, <2>1, <2>2 DEF Fuzzy!MatchingIsMaximal
<1>. QED  BY <1>9, <1>12 DEF FuzzyInv

(* Every turn of fuzzy_compare.                                            *)
LEMMA FuzzyMatchingIsMaximal == Fuzzy!Spec => []Fuzzy!MatchingIsMaximal
<1>1. Fuzzy!Init => FuzzyInv
  BY ScoresArePercents
  DEF Fuzzy!Init, FuzzyInv, FuzzyTyped, Fuzzy!MatchingIsMaximal
<1>2. FuzzyInv /\ [Fuzzy!Next]_(Fuzzy!vars) => FuzzyInv'
  <2> SUFFICES ASSUME FuzzyInv, [Fuzzy!Next]_(Fuzzy!vars) PROVE FuzzyInv'
    OBVIOUS
  <2>1. CASE UNCHANGED Fuzzy!vars
    <3>1. UNCHANGED <<scores, threshold, turn, common, onlyFirst>>
      BY <2>1 DEF Fuzzy!vars
    <3>2. Fuzzy!Matched' = Fuzzy!Matched /\ \A i : Fuzzy!Seconds(i)' = Fuzzy!Seconds(i)
      BY <3>1 DEF Fuzzy!Matched, Fuzzy!Seconds
    <3>3. FuzzyTyped'
      BY <3>1 DEF FuzzyInv, FuzzyTyped
    <3>4. \A k \in 1..Len(onlyFirst') :
             \A j \in (Fuzzy!Seconds(onlyFirst[k]) \ Fuzzy!Matched)' :
                scores'[onlyFirst'[k]][j] < threshold'
      BY <3>1, <3>2 DEF FuzzyInv, Fuzzy!MatchingIsMaximal
    <3>. QED  BY <3>1, <3>3, <3>4 DEF FuzzyInv, Fuzzy!MatchingIsMaximal
  <2>2. Score \subseteq 0..100
    BY ScoresArePercents
  <2>. QED  BY <2>1, <2>2, TakePartnerKeeps, StayAloneKeeps DEF Fuzzy!Next
<1>3. FuzzyInv => Fuzzy!MatchingIsMaximal
  BY DEF FuzzyInv
<1>. QED  BY <1>1, <1>2, <1>3, PTL DEF Fuzzy!Spec

-----------------------------------------------------------------------------
(* The bytes of the first records of a list, each as the record it is of   *)
(* and its place in it.                                                    *)
BytesOf(list, n) == UNION {{k} \X (1..Records!RecordSize(list[k])) : k \in 1..n}

Sizes == [token : Nat, payload : Nat]

AreRecords(list) == list \in Seq(Sizes)

(* The copy of Cardinality an instance has is the same. *)
LEMMA RecordsCardinality == \A S : Records!Cardinality(S) = Cardinality(S)
BY DEF Records!Cardinality, Cardinality

(* A record is as long as its header and its parts. *)
LEMMA RecordHasSize ==
    ASSUME NEW list, AreRecords(list), NEW k \in 1..Len(list)
    PROVE  /\ list[k] \in Sizes
           /\ list[k].token \in Nat /\ list[k].payload \in Nat
           /\ list[k] = [token |-> list[k].token, payload |-> list[k].payload]
           /\ Records!RecordSize(list[k]) = HeaderSize + list[k].token + list[k].payload
           /\ Records!RecordSize(list[k]) \in Nat
<1>1. list[k] \in Sizes
  BY ElementOfSeq DEF AreRecords
<1>2. /\ list[k].token \in Nat /\ list[k].payload \in Nat
      /\ list[k] = [token |-> list[k].token, payload |-> list[k].payload]
  BY <1>1 DEF Sizes
<1>3. Records!RecordSize(list[k]) = HeaderSize + list[k].token + list[k].payload
  BY DEF Records!RecordSize
<1>4. Records!RecordSize(list[k]) \in Nat
  BY <1>2, <1>3, HeaderIsNotEmpty
<1>. QED  BY <1>1, <1>2, <1>3, <1>4

(* The first n records of a list, and what SizeOf counts of them. *)
LEMMA FirstRecords ==
    ASSUME NEW list, AreRecords(list), NEW n \in 0..Len(list)
    PROVE  /\ AreRecords(SubSeq(list, 1, n))
           /\ Len(SubSeq(list, 1, n)) = n
           /\ \A k \in 1..n : SubSeq(list, 1, n)[k] = list[k]
           /\ Records!SizeOf(SubSeq(list, 1, n)) = Cardinality(BytesOf(list, n))
<1>1. Len(list) \in Nat /\ n \in Nat /\ n <= Len(list)
  BY LenProperties DEF AreRecords
<1>2. ASSUME NEW k \in 1..n
      PROVE  list[k] \in Sizes
  <2>1. k \in 1..Len(list)
    BY <1>1
  <2>. QED  BY <2>1, RecordHasSize
<1>3. SubSeq(list, 1, n) = [k \in 1..n |-> list[k]]
  BY <1>1 DEF AreRecords
<1>4. AreRecords(SubSeq(list, 1, n)) /\ Len(SubSeq(list, 1, n)) = n
  BY <1>1, <1>2, <1>3 DEF AreRecords
<1>5. \A k \in 1..n : SubSeq(list, 1, n)[k] = list[k]
  BY <1>3
<1>6. {{k} \X (1..Records!RecordSize(SubSeq(list, 1, n)[k])) : k \in 1..n}
        = {{k} \X (1..Records!RecordSize(list[k])) : k \in 1..n}
  BY <1>5
<1>7. Records!SizeOf(SubSeq(list, 1, n)) = Cardinality(BytesOf(list, n))
  BY <1>4, <1>6, RecordsCardinality DEF Records!SizeOf, BytesOf
<1>. QED  BY <1>4, <1>5, <1>7

(* The bytes of the first records are finitely many. *)
LEMMA BytesAreFinite ==
    ASSUME NEW list, AreRecords(list), NEW n \in 0..Len(list)
    PROVE  IsFiniteSet(BytesOf(list, n)) /\ Cardinality(BytesOf(list, n)) \in Nat
<1> DEFINE Part(k) == {k} \X (1..Records!RecordSize(list[k]))
           Parts == {Part(k) : k \in 1..n}
<1>1. Len(list) \in Nat /\ n \in Nat /\ n <= Len(list)
  BY LenProperties DEF AreRecords
<1>2. ASSUME NEW k \in 1..n
      PROVE  IsFiniteSet(Part(k))
  <2> DEFINE size == Records!RecordSize(list[k])
  <2>1. k \in 1..Len(list)
    BY <1>1
  <2>2. size \in Nat
    BY <2>1, RecordHasSize
  <2> HIDE DEF size
  <2>3. IsFiniteSet(1..size) /\ IsFiniteSet({k})
    <3>1. 1 \in Int /\ size \in Int
      BY <2>2
    <3>2. IsFiniteSet(1..size)
      BY <3>1, FS_Interval
    <3>. QED  BY <3>2, FS_Singleton
  <2>4. IsFiniteSet({k} \X (1..size))
    BY <2>3, FS_Product
  <2>. QED  BY <2>4 DEF size
<1> HIDE DEF Part
<1>3. IsFiniteSet(Parts)
  <2> DEFINE f == [k \in 1..n |-> Part(k)]
  <2>1. f \in Surjection(1..n, Parts)
    BY DEF Surjection
  <2>2. IsFiniteSet(1..n)
    BY <1>1, FS_Interval
  <2>. QED  BY <2>1, <2>2, FS_Surjection
<1>4. IsFiniteSet(UNION Parts)
  BY <1>2, <1>3, FS_UNION
<1>5. UNION Parts = BytesOf(list, n)
  BY DEF BytesOf, Part
<1>. QED  BY <1>4, <1>5, FS_CardinalityType

(* No record has no byte, one record more has the bytes of that one more, *)
(* and all records have what FilesAreCut bounds a file by.                *)
LEMMA SizesAdd ==
    ASSUME NEW list, AreRecords(list)
    PROVE  /\ Records!SizeOf(SubSeq(list, 1, 0)) = 0
           /\ \A n \in 0..Len(list) : Records!SizeOf(SubSeq(list, 1, n)) \in Nat
           /\ \A n \in 0..(Len(list) - 1) :
                 Records!SizeOf(SubSeq(list, 1, n + 1))
                   = Records!SizeOf(SubSeq(list, 1, n)) + Records!RecordSize(list[n + 1])
           /\ SubSeq(list, 1, Len(list)) = list
<1>1. Len(list) \in Nat
  BY LenProperties DEF AreRecords
<1>2. Records!SizeOf(SubSeq(list, 1, 0)) = 0
  <2>1. BytesOf(list, 0) = {}
    BY DEF BytesOf
  <2>2. 0 \in 0..Len(list)
    BY <1>1
  <2>3. Records!SizeOf(SubSeq(list, 1, 0)) = Cardinality(BytesOf(list, 0))
    BY <2>2, FirstRecords
  <2>. QED  BY <2>1, <2>3, FS_EmptySet
<1>3. \A n \in 0..Len(list) : Records!SizeOf(SubSeq(list, 1, n)) \in Nat
  BY FirstRecords, BytesAreFinite
<1>4. ASSUME NEW n \in 0..(Len(list) - 1)
      PROVE  Records!SizeOf(SubSeq(list, 1, n + 1))
               = Records!SizeOf(SubSeq(list, 1, n)) + Records!RecordSize(list[n + 1])
  <2> DEFINE places == 1..Records!RecordSize(list[n + 1])
             added == {n + 1} \X places
  <2>1. n + 1 \in 1..Len(list) /\ n + 1 \in 0..Len(list) /\ n \in 0..Len(list) /\ n \in Nat
    BY <1>1
  <2>2. Records!RecordSize(list[n + 1]) \in Nat
    BY <2>1, RecordHasSize
  <2>3. IsFiniteSet(places) /\ Cardinality(places) = Records!RecordSize(list[n + 1])
    BY <2>2, FS_Interval
  <2>4. 1..(n + 1) = 1..n \cup {n + 1}
    BY <2>1
  <2>5. BytesOf(list, n + 1) = BytesOf(list, n) \cup added
    BY <2>4 DEF BytesOf
  <2>6. BytesOf(list, n) \cap added = {}
    <3>1. ASSUME NEW place \in BytesOf(list, n), place \in added PROVE FALSE
      <4>1. PICK k \in 1..n : place \in {k} \X (1..Records!RecordSize(list[k]))
        BY <3>1 DEF BytesOf
      <4>2. place[1] = k /\ place[1] = n + 1
        BY <3>1, <4>1
      <4>. QED  BY <2>1, <4>1, <4>2
    <3>. QED  BY <3>1
  <2> HIDE DEF places
  <2>7. IsFiniteSet(added) /\ Cardinality(added) = Records!RecordSize(list[n + 1])
    <3>1. IsFiniteSet({n + 1}) /\ Cardinality({n + 1}) = 1
      BY FS_Singleton
    <3>2. IsFiniteSet(added) /\ Cardinality(added) = 1 * Cardinality(places)
      BY <2>3, <3>1, FS_Product
    <3>. QED  BY <2>2, <2>3, <3>2
  <2> HIDE DEF added
  <2>8. IsFiniteSet(BytesOf(list, n)) /\ Cardinality(BytesOf(list, n)) \in Nat
    BY <2>1, BytesAreFinite
  <2>9. Cardinality(BytesOf(list, n + 1))
          = Cardinality(BytesOf(list, n)) + Cardinality(added) - Cardinality({})
    BY <2>5, <2>6, <2>7, <2>8, FS_Union
  <2>10. Cardinality(BytesOf(list, n + 1))
           = Cardinality(BytesOf(list, n)) + Records!RecordSize(list[n + 1])
    BY <2>2, <2>7, <2>8, <2>9, FS_EmptySet
  <2>. QED  BY <2>1, <2>10, FirstRecords
<1>5. SubSeq(list, 1, Len(list)) = list
  BY <1>1 DEF AreRecords
<1>. QED  BY <1>2, <1>3, <1>4, <1>5

-----------------------------------------------------------------------------
(* What was read, and where the file is. *)
FirstWere == Len(read) \in 0..Len(file.records) /\ read = SubSeq(file.records, 1, Len(read))

IsCut ==
    /\ Records!SizeOf(read) < file.size
    /\ file.size < Records!SizeOf(Records!Whole(Len(read) + 1))

RecordInv ==
    /\ file \in Files
    /\ FirstWere
    /\ reading = "reading" => position = Records!SizeOf(read) /\ position <= file.size
    /\ reading = "end" => Records!SizeOf(read) = file.size
    /\ reading = "raised" => IsCut

(* What FilesAreCut says of the file being read. *)
LEMMA FileOf ==
    ASSUME file \in Files
    PROVE  /\ AreRecords(file.records)
           /\ file.size \in Nat
           /\ file.size <= Records!SizeOf(file.records)
<1>1. AreRecords(file.records) /\ file.size \in 0..Records!SizeOf(file.records)
  BY FilesAreCut DEF AreRecords, Sizes
<1>2. Records!SizeOf(file.records) \in Nat
  <2>1. Len(file.records) \in 0..Len(file.records)
    BY <1>1, LenProperties DEF AreRecords
  <2>. QED  BY <1>1, <2>1, SizesAdd
<1>. QED  BY <1>1, <1>2

(* At first no record was read and no byte. *)
LEMMA RecordInit == Records!Init => RecordInv
<1> SUFFICES ASSUME Records!Init PROVE RecordInv
  OBVIOUS
<1>1. AreRecords(file.records) /\ file.size \in Nat
  BY FileOf DEF Records!Init
<1>2. SubSeq(file.records, 1, 0) = <<>> /\ Len(read) = 0 /\ read = <<>>
  BY <1>1 DEF Records!Init, AreRecords
<1>3. Len(file.records) \in Nat
  BY <1>1, LenProperties DEF AreRecords
<1>4. FirstWere
  BY <1>2, <1>3 DEF FirstWere
<1>5. Records!SizeOf(read) = 0
  BY <1>1, <1>2, SizesAdd
<1>. QED  BY <1>1, <1>4, <1>5 DEF RecordInv, Records!Init

(* While a byte is left, the record at the position is the next one and ends *)
(* where the next longer prefix does.                                        *)
LEMMA NextRecord ==
    ASSUME RecordInv, reading = "reading", position < file.size
    PROVE  /\ Len(read) + 1 \in 1..Len(file.records)
           /\ Records!Current = file.records[Len(read) + 1]
           /\ Records!Current.token \in Nat /\ Records!Current.payload \in Nat
           /\ Records!Current = [token |-> Records!Current.token,
                                 payload |-> Records!Current.payload]
           /\ position \in Nat
           /\ Records!SizeOf(Records!Whole(Len(read) + 1))
                = position + HeaderSize + Records!Current.token + Records!Current.payload
<1> DEFINE list == file.records
           n == Len(read)
<1>1. AreRecords(list) /\ file.size \in Nat /\ file.size <= Records!SizeOf(list)
  BY FileOf DEF RecordInv
<1>2. Len(list) \in Nat /\ n \in 0..Len(list) /\ read = SubSeq(list, 1, n)
  BY <1>1, LenProperties DEF RecordInv, FirstWere, AreRecords
<1>3. position = Records!SizeOf(SubSeq(list, 1, n)) /\ position \in Nat
  <2>1. Records!SizeOf(SubSeq(list, 1, n)) \in Nat
    BY <1>1, <1>2, SizesAdd
  <2>. QED  BY <1>2, <2>1 DEF RecordInv
<1>4. n # Len(list)
  <2>1. SUFFICES ASSUME n = Len(list) PROVE FALSE
    OBVIOUS
  <2>2. position = Records!SizeOf(list)
    BY <1>1, <1>3, <2>1, SizesAdd
  <2>. QED  BY <1>1, <1>3, <2>2
<1>5. n + 1 \in 1..Len(list) /\ n \in 0..(Len(list) - 1)
  BY <1>2, <1>4
<1>6. /\ list[n + 1].token \in Nat /\ list[n + 1].payload \in Nat
      /\ list[n + 1] = [token |-> list[n + 1].token, payload |-> list[n + 1].payload]
      /\ Records!RecordSize(list[n + 1]) = HeaderSize + list[n + 1].token + list[n + 1].payload
  BY <1>1, <1>5, RecordHasSize
<1>7. Records!SizeOf(SubSeq(list, 1, n + 1)) = position + Records!RecordSize(list[n + 1])
  BY <1>1, <1>3, <1>5, SizesAdd
<1>8. Records!Current = list[n + 1]
  BY DEF Records!Current
<1>9. Records!SizeOf(Records!Whole(n + 1))
        = position + HeaderSize + list[n + 1].token + list[n + 1].payload
  <2> HIDE DEF list, n
  <2>. QED  BY <1>3, <1>6, <1>7, HeaderIsNotEmpty DEF Records!Whole, list
<1>. QED  BY <1>3, <1>5, <1>6, <1>8, <1>9

(* Every step of the reader keeps the position at a border of records, or *)
(* stops because the bytes left are none or too few for the next one.      *)
LEMMA RecordStepKeeps == ASSUME RecordInv, [Records!Next]_(Records!vars) PROVE RecordInv'
<1>1. file \in Files /\ AreRecords(file.records) /\ file.size \in Nat
  BY FileOf DEF RecordInv
<1>2. CASE UNCHANGED Records!vars
  BY <1>2 DEF Records!vars, RecordInv, FirstWere, IsCut, Records!Whole
<1>3. ASSUME reading = "reading", file' = file, read' = read, reading' = "end",
             position = file.size
      PROVE  RecordInv'
  BY <1>3 DEF RecordInv, FirstWere
<1>4. ASSUME reading = "reading", file' = file, read' = read, reading' = "raised",
             position < file.size,
             file.size < position + HeaderSize + Records!Current.token + Records!Current.payload
      PROVE  RecordInv'
  <2>1. IsCut
    BY <1>4, NextRecord DEF IsCut, RecordInv
  <2>2. IsCut'
    BY <1>4, <2>1 DEF IsCut, Records!Whole
  <2>. QED  BY <1>4, <2>2 DEF RecordInv, FirstWere
<1>5. reading = "reading" => position \in Nat /\ position <= file.size
  <2>1. Records!SizeOf(read) \in Nat
    BY <1>1, SizesAdd DEF RecordInv, FirstWere
  <2>. QED  BY <2>1 DEF RecordInv
<1>6. CASE Records!ReadNone
  <2>1. position = file.size
    BY <1>1, <1>5, <1>6, HeaderIsNotEmpty
       DEF Records!ReadNone, Records!Header, Records!Available, Records!Least
  <2>. QED  BY <1>3, <1>6, <2>1 DEF Records!ReadNone
<1>7. CASE Records!HeaderCut
  <2>1. position < file.size /\ file.size < position + HeaderSize
    BY <1>1, <1>5, <1>7, HeaderIsNotEmpty
       DEF Records!HeaderCut, Records!Header, Records!Available, Records!Least
  <2>2. Records!Current.token \in Nat /\ Records!Current.payload \in Nat
    BY <1>7, <2>1, NextRecord DEF Records!HeaderCut
  <2>3. file.size < position + HeaderSize + Records!Current.token + Records!Current.payload
    BY <1>1, <1>5, <1>7, <2>1, <2>2, HeaderIsNotEmpty DEF Records!HeaderCut
  <2>. QED  BY <1>4, <1>7, <2>1, <2>3 DEF Records!HeaderCut
<1>8. ASSUME reading = "reading", Records!Header = HeaderSize
      PROVE  /\ position + HeaderSize <= file.size
             /\ position < file.size
             /\ position \in Nat
  BY <1>1, <1>5, <1>8, HeaderIsNotEmpty DEF Records!Header, Records!Available, Records!Least
<1>9. CASE Records!BodyCut
  <2>1. position + HeaderSize <= file.size /\ position < file.size /\ position \in Nat
    BY <1>8, <1>9 DEF Records!BodyCut
  <2>2. Records!Current.token \in Nat /\ Records!Current.payload \in Nat
    BY <1>9, <2>1, NextRecord DEF Records!BodyCut
  <2>3. file.size < position + HeaderSize + Records!Current.token + Records!Current.payload
    <3>1. CASE Records!TokenRead # Records!Current.token
      <4>1. file.size < position + HeaderSize + Records!Current.token
        BY <1>1, <2>1, <2>2, <3>1, HeaderIsNotEmpty
           DEF Records!TokenRead, Records!Available, Records!Least
      <4>. QED  BY <1>1, <2>1, <2>2, <4>1, HeaderIsNotEmpty
    <3>2. CASE Records!TokenRead = Records!Current.token
      <4>1. Records!PayloadRead # Records!Current.payload
        BY <1>9, <3>2 DEF Records!BodyCut, Records!BodyIsCut
      <4>. QED  BY <1>1, <2>1, <2>2, <3>2, <4>1, HeaderIsNotEmpty
                DEF Records!PayloadRead, Records!Available, Records!Least
    <3>. QED  BY <3>1, <3>2
  <2>. QED  BY <1>4, <1>9, <2>1, <2>3 DEF Records!BodyCut
<1>10. CASE Records!ReadRecord
  <2> DEFINE list == file.records
             n == Len(read)
  <2>1. position + HeaderSize <= file.size /\ position < file.size /\ position \in Nat
    BY <1>8, <1>10 DEF Records!ReadRecord
  <2>2. /\ n + 1 \in 1..Len(list)
        /\ Records!Current = list[n + 1]
        /\ Records!Current.token \in Nat /\ Records!Current.payload \in Nat
        /\ Records!Current = [token |-> Records!Current.token, payload |-> Records!Current.payload]
        /\ Records!SizeOf(Records!Whole(n + 1))
             = position + HeaderSize + Records!Current.token + Records!Current.payload
    BY <1>10, <2>1, NextRecord DEF Records!ReadRecord
  <2>3. Records!TokenRead = Records!Current.token /\ Records!PayloadRead = Records!Current.payload
    BY <1>10 DEF Records!ReadRecord, Records!BodyIsCut
  <2>4. position + HeaderSize + Records!Current.token + Records!Current.payload <= file.size
    BY <1>1, <2>1, <2>2, <2>3, HeaderIsNotEmpty
       DEF Records!TokenRead, Records!PayloadRead, Records!Available, Records!Least
  <2>5. read' = Append(read, list[n + 1])
    BY <1>10, <2>2, <2>3 DEF Records!ReadRecord
  <2>6. read' = SubSeq(list, 1, n + 1) /\ Len(read') = n + 1
    <3>1. Len(list) \in Nat /\ n \in 0..Len(list) /\ read = SubSeq(list, 1, n) /\ n \in Nat
      BY <1>1, LenProperties DEF RecordInv, FirstWere, AreRecords
    <3>2. AreRecords(SubSeq(list, 1, n + 1)) /\ Len(SubSeq(list, 1, n + 1)) = n + 1
      BY <1>1, <2>2, <3>1, FirstRecords
    <3>3. \A k \in 1..(n + 1) : SubSeq(list, 1, n + 1)[k] = list[k]
      BY <1>1, <2>2, <3>1, FirstRecords
    <3>4. AreRecords(read) /\ \A k \in 1..n : read[k] = list[k]
      BY <1>1, <3>1, FirstRecords
    <3>5. list[n + 1] \in Sizes
      BY <1>1, <2>2, RecordHasSize
    <3>6. /\ read' \in Seq(Sizes) /\ Len(read') = n + 1
          /\ \A k \in 1..(n + 1) : read'[k] = list[k]
      BY <2>5, <3>1, <3>4, <3>5, AppendProperties DEF AreRecords
    <3> HIDE DEF list, n
    <3>7. read' = SubSeq(list, 1, n + 1)
      BY <3>1, <3>2, <3>3, <3>6, SeqEqual DEF AreRecords
    <3>. QED  BY <3>6, <3>7
  <2>7. file' = file /\ reading' = "reading"
        /\ position' = position + HeaderSize + Records!Current.token + Records!Current.payload
    BY <1>10, <2>3 DEF Records!ReadRecord
  <2>8. position' = Records!SizeOf(read')
    BY <2>2, <2>6, <2>7 DEF Records!Whole
  <2>9. FirstWere'
    <3>1. n + 1 \in 0..Len(list)
      BY <2>2
    <3>. QED  BY <2>6, <2>7, <3>1 DEF FirstWere
  <2>10. position' <= file'.size
    BY <2>4, <2>7
  <2>. QED  BY <1>1, <2>7, <2>8, <2>9, <2>10 DEF RecordInv
<1>. QED  BY <1>2, <1>6, <1>7, <1>9, <1>10 DEF Records!Next

(* So it holds of the reader alone. *)
LEMMA CutsAreNoticed == Records!Spec => []Records!CutIsNoticed
<1>1. RecordInv => Records!CutIsNoticed
  BY DEF RecordInv, FirstWere, IsCut, Records!CutIsNoticed, Records!Whole
<1>2. RecordInv /\ [Records!Next]_(Records!vars) => RecordInv'
  BY RecordStepKeeps
<1>. QED  BY <1>1, <1>2, RecordInit, PTL DEF Records!Spec

-----------------------------------------------------------------------------
Listing == INSTANCE ResultFileProofs
         WITH Writer <- {}, Kind <- <<>>, Content <- <<>>, session <- None

(* The copies of Cardinality that instances have are the same. *)
LEMMA SameCounts ==
    /\ \A S : Events!Cardinality(S) = Cardinality(S) /\ Listing!Cardinality(S) = Cardinality(S)
    /\ \A S : Listing!IsFiniteSet(S) <=> IsFiniteSet(S)
  BY DEF Events!Cardinality, Listing!Cardinality, Cardinality, Listing!IsFiniteSet, IsFiniteSet

(* A list that has every member of E once, and no other.                   *)
ListsOnce(q, E) ==
    /\ q \in Seq(E)
    /\ \A k, l \in 1..Len(q) : q[k] = q[l] => k = l
    /\ \A e \in E : \E k \in 1..Len(q) : q[k] = e

(* Ordinals in order.                                                      *)
LEMMA EventsInOrder ==
    ASSUME NEW S, IsFiniteSet(S), S \subseteq Nat
    PROVE  LET q == Events!InOrder(S) IN
           ListsOnce(q, S) /\ Len(q) = Cardinality(S) /\ Cardinality(S) \in Nat
<1> DEFINE q == Events!InOrder(S)
<1>1. Events!InOrder(S) = Listing!InOrder(S)
  BY DEF Events!InOrder, Listing!InOrder, Events!Cardinality, Listing!Cardinality
<1>2. /\ Listing!Lists(q, S, TRUE) /\ Len(q) = Cardinality(S) /\ q \in Seq(S)
  <2>1. Listing!IsFiniteSet(S)
    BY SameCounts
  <2>. QED  BY <1>1, <2>1, SameCounts, Listing!InOrderLists
<1>3. q \in Listing!Bijection(1..Len(q), S)
  BY <1>2 DEF Listing!Lists, Listing!Enumerates
<1>4. Cardinality(S) \in Nat
  BY FS_CardinalityType
<1>. QED  BY <1>2, <1>3, <1>4 DEF Listing!Bijection, Listing!Injection, Listing!Surjection, Listing!IsInjective,
      ListsOnce

(* A function on the first numbers is a list. *)
LEMMA TableIsList ==
    ASSUME NEW n \in Nat, NEW E, NEW q, q = [k \in 1..n |-> q[k]], \A k \in 1..n : q[k] \in E
    PROVE  q \in Seq(E) /\ Len(q) = n
<1>1. q \in [1..n -> E]
  OBVIOUS
<1>. QED  BY <1>1

(* What each member of a list stands for.                                  *)
LEMMA ImageIsListed ==
    ASSUME NEW S, NEW q, ListsOnce(q, S), NEW f, \A i, j \in S : f[i] = f[j] => i = j,
           NEW p, p = [k \in 1..Len(q) |-> f[q[k]]]
    PROVE  ListsOnce(p, {f[i] : i \in S}) /\ Len(p) = Len(q)
<1> DEFINE n == Len(q)
           E == {f[i] : i \in S}
<1>2. /\ n \in Nat
      /\ \A k \in 1..n : q[k] \in S
      /\ \A k, l \in 1..n : q[k] = q[l] => k = l
      /\ \A i \in S : \E k \in 1..n : q[k] = i
  <2>1. q \in Seq(S)
    BY DEF ListsOnce
  <2>2. \A k \in 1..n : q[k] \in S
    BY <2>1, ElementOfSeq
  <2>. QED  BY <2>1, <2>2 DEF ListsOnce
<1>3. p = [k \in 1..n |-> f[q[k]]]
  OBVIOUS
<1> HIDE DEF n
<1>4. \A k \in 1..n : p[k] = f[q[k]]
  BY <1>3
<1>5. p = [k \in 1..n |-> p[k]]
  BY <1>3, <1>4
<1>6. p \in Seq(E) /\ Len(p) = n
  <2>1. \A k \in 1..n : p[k] \in E
    BY <1>2, <1>4
  <2> HIDE DEF E
  <2>2. p \in [1..n -> E]
    BY <1>5, <2>1
  <2>. QED  BY <1>2, <2>2
<1>7. \A k, l \in 1..n : p[k] = p[l] => k = l
  BY <1>2, <1>4
<1>8. \A e \in E : \E k \in 1..n : p[k] = e
  BY <1>2, <1>4
<1>. QED  BY <1>6, <1>7, <1>8 DEF ListsOnce, n

(* Lists of different things one after the other.                          *)
LEMMA ListsJoin ==
    ASSUME NEW p, NEW q, NEW E, NEW F, ListsOnce(p, E), ListsOnce(q, F), E \cap F = {}
    PROVE  ListsOnce(p \o q, E \cup F) /\ Len(p \o q) = Len(p) + Len(q)
<1> DEFINE m == Len(p)
           n == Len(q)
           r == p \o q
<1>1. p \in Seq(E) /\ q \in Seq(F) /\ p \in Seq(E \cup F) /\ q \in Seq(E \cup F)
  BY DEF ListsOnce
<1>2. /\ m \in Nat /\ n \in Nat /\ r \in Seq(E \cup F) /\ Len(r) = m + n
      /\ \A k \in 1..m : r[k] = p[k] /\ p[k] \in E
      /\ \A k \in 1..n : r[m + k] = q[k] /\ q[k] \in F
  BY <1>1
<1>3. \A k \in 1..(m + n) : k \in 1..m \/ \E l \in 1..n : k = m + l
  <2> TAKE k \in 1..(m + n)
  <2>1. CASE k <= m
    BY <1>2, <2>1
  <2>2. CASE k > m
    <3>1. k - m \in 1..n /\ k = m + (k - m)
      BY <1>2, <2>2
    <3>. QED  BY <3>1
  <2>. QED  BY <1>2, <2>1, <2>2
<1>4. /\ \A k, l \in 1..m : p[k] = p[l] => k = l
      /\ \A k, l \in 1..n : q[k] = q[l] => k = l
      /\ \A e \in E : \E k \in 1..m : p[k] = e
      /\ \A e \in F : \E k \in 1..n : q[k] = e
  BY DEF ListsOnce
<1> HIDE DEF m, n, r
<1>5. ASSUME NEW k \in 1..(m + n), NEW l \in 1..(m + n), r[k] = r[l]
      PROVE  k = l
  <2>1. CASE k \in 1..m /\ l \in 1..m
    BY <1>2, <1>4, <1>5, <2>1
  <2>2. CASE k \in 1..m /\ \E j \in 1..n : l = m + j
    BY <1>2, <1>5, <2>2
  <2>3. CASE l \in 1..m /\ \E j \in 1..n : k = m + j
    BY <1>2, <1>5, <2>3
  <2>4. ASSUME NEW i \in 1..n, NEW j \in 1..n, k = m + i, l = m + j PROVE k = l
    <3>1. q[i] = q[j]
      BY <1>2, <1>5, <2>4
    <3>. QED  BY <1>4, <2>4, <3>1
  <2>. QED  BY <1>3, <2>1, <2>2, <2>3, <2>4
<1>6. ASSUME NEW e \in E \cup F PROVE \E k \in 1..(m + n) : r[k] = e
  <2>1. CASE e \in E
    <3>1. PICK k \in 1..m : p[k] = e
      BY <1>4, <2>1
    <3>2. k \in 1..(m + n)
      BY <1>2
    <3>. QED  BY <1>2, <3>1, <3>2
  <2>2. CASE e \in F
    <3>1. PICK k \in 1..n : q[k] = e
      BY <1>4, <2>2
    <3>2. m + k \in 1..(m + n)
      BY <1>2
    <3>. QED  BY <1>2, <3>1, <3>2
  <2>. QED  BY <2>1, <2>2
<1>. QED  BY <1>2, <1>5, <1>6 DEF ListsOnce, m, n, r

(* What a call of the event stream is.                                     *)
EventCallIsReal ==
    /\ \A side \in {"first", "second"} : input[side] \in Seq(RowsOf(side))
    /\ config.producer \in {"memory", "disk", "fields", "sorted"}
    /\ config.max_rows \in Int \cup {None}
    /\ config.max_output_rows \in Nat \cup {None}
    /\ config.max_output_bytes \in Int \cup {None}

(* The ordinals the events of a side stand for, and its events.            *)
OnlyOf(side) == Events!OnlyOrdinals(Events!Keys(side), Events!Keys(Events!Other(side)))

OnlySet(side) == {Events!OnlyEvent(side, i) : i \in OnlyOf(side)}

(* The ordinals of a side and their keys.                                  *)
LEMMA KeysOf ==
    ASSUME EventCallIsReal, NEW side \in {"first", "second"}
    PROVE  LET n == Len(input[side]) IN
           /\ n \in Nat /\ IsFiniteSet(1..n)
           /\ Len(Events!Keys(side)) = n
           /\ \A i \in 1..n : Events!Keys(side)[i] = Events!Key(side, i)
<1>1. Len(input[side]) \in Nat
  BY DEF EventCallIsReal
<1>2. Events!Keys(side) = [i \in 1..Len(input[side]) |-> Events!Key(side, i)]
  BY DEF Events!Keys, Events!Key
<1> DEFINE n == Len(input[side])
<1> HIDE DEF n
<1>3. Events!Keys(side) = [i \in 1..n |-> Events!Key(side, i)] /\ n \in Nat
  BY <1>1, <1>2 DEF n
<1>4. Len(Events!Keys(side)) = n
  <2> DEFINE X == {Events!Key(side, i) : i \in 1..n}
  <2>1. Events!Keys(side) \in [1..n -> X]
    BY <1>3
  <2> HIDE DEF X
  <2>. QED  BY <1>3, <2>1
<1>5. IsFiniteSet(1..n)
  BY <1>3, FS_Interval
<1>. QED  BY <1>3, <1>4, <1>5 DEF n

(* A token occurs on a side if it has a first ordinal there.               *)
LEMMA FirstOfKey ==
    ASSUME EventCallIsReal, NEW side \in {"first", "second"}, NEW i \in 1..Len(input[side])
    PROVE  \E j \in Events!FirstOrdinals(Events!Keys(side)) :
              Events!Key(side, j) = Events!Key(side, i) /\ j <= i
<1> DEFINE n == Len(input[side])
           P == {j \in 1..n : Events!Key(side, j) = Events!Key(side, i)}
<1>1. /\ n \in Nat /\ Len(Events!Keys(side)) = n
      /\ \A j \in 1..n : Events!Keys(side)[j] = Events!Key(side, j)
  BY KeysOf
<1>2. i \in P /\ P \subseteq Nat
  BY <1>1
<1>3. PICK j \in P : \A k \in P : j <= k
  BY <1>2, LeastElement
<1>4. ASSUME NEW k \in 1..(j - 1) PROVE Events!Keys(side)[k] # Events!Keys(side)[j]
  <2>1. k \in 1..n /\ ~(j <= k)
    BY <1>1, <1>3
  <2>. QED  BY <1>1, <1>3, <2>1
<1>5. j \in Events!FirstOrdinals(Events!Keys(side))
  BY <1>1, <1>3, <1>4 DEF Events!FirstOrdinals, Events!IsFirst
<1>6. j <= i
  BY <1>2, <1>3
<1>. QED  BY <1>3, <1>5, <1>6

(* First ordinals have different keys. *)
LEMMA FirstsDiffer ==
    ASSUME EventCallIsReal, NEW side \in {"first", "second"},
           NEW i \in Events!FirstOrdinals(Events!Keys(side)),
           NEW j \in Events!FirstOrdinals(Events!Keys(side)),
           Events!Key(side, i) = Events!Key(side, j)
    PROVE  i = j
<1> DEFINE n == Len(input[side])
<1>1. /\ n \in Nat /\ Len(Events!Keys(side)) = n
      /\ \A k \in 1..n : Events!Keys(side)[k] = Events!Key(side, k)
  BY KeysOf
<1>2. i \in 1..n /\ j \in 1..n
  BY <1>1 DEF Events!FirstOrdinals
<1>3. Events!Keys(side)[i] = Events!Keys(side)[j]
  BY <1>1, <1>2
<1>4. ~(i < j)
  <2>1. i < j => i \in 1..(j - 1)
    BY <1>1, <1>2
  <2>. QED  BY <1>3, <2>1 DEF Events!FirstOrdinals, Events!IsFirst
<1>5. ~(j < i)
  <2>1. j < i => j \in 1..(i - 1)
    BY <1>1, <1>2
  <2>. QED  BY <1>3, <2>1 DEF Events!FirstOrdinals, Events!IsFirst
<1>. QED  BY <1>1, <1>2, <1>4, <1>5

(* The only events of a side, one for each token the other side lacks.     *)
LEMMA OnlyEventsListed ==
    ASSUME EventCallIsReal, NEW side \in {"first", "second"}
    PROVE  /\ ListsOnce(Events!OnlyEvents(side), OnlySet(side))
           /\ IsFiniteSet(OnlySet(side))
           /\ Cardinality(OnlySet(side)) = Cardinality(OnlyOf(side))
<1> DEFINE n == Len(input[side])
           S == OnlyOf(side)
           q == Events!InOrder(S)
           f == [i \in S |-> Events!OnlyEvent(side, i)]
           p == Events!OnlyEvents(side)
<1>1. S \subseteq Events!FirstOrdinals(Events!Keys(side)) /\ S \subseteq 1..n
  <2>1. Len(Events!Keys(side)) = n
    BY KeysOf
  <2>. QED  BY <2>1 DEF OnlyOf, Events!OnlyOrdinals, Events!FirstOrdinals
<1>2. n \in Nat /\ IsFiniteSet(1..n)
  BY KeysOf
<1>3. IsFiniteSet(S) /\ S \subseteq Nat
  BY <1>1, <1>2, FS_Subset
<1>4. ListsOnce(q, S)
  BY <1>3, EventsInOrder
<1>5. \A i, j \in S : f[i] = f[j] => i = j
  <2> SUFFICES ASSUME NEW i \in S, NEW j \in S, f[i] = f[j] PROVE i = j
    OBVIOUS
  <2>1. Events!OnlyEvent(side, i) = Events!OnlyEvent(side, j)
    OBVIOUS
  <2>2. Events!Key(side, i) = Events!Key(side, j)
    BY <2>1 DEF Events!OnlyEvent
  <2>. QED  BY <1>1, <2>2, FirstsDiffer
<1>6. p = [k \in 1..Len(q) |-> f[q[k]]]
  <2>1. p = [k \in 1..Len(q) |-> Events!OnlyEvent(side, q[k])]
    BY DEF Events!OnlyEvents, Events!Events, OnlyOf
  <2>2. q \in Seq(S)
    BY <1>4 DEF ListsOnce
  <2>3. \A k \in 1..Len(q) : q[k] \in S
    BY <2>2, ElementOfSeq
  <2>4. \A k \in 1..Len(q) : Events!OnlyEvent(side, q[k]) = f[q[k]]
    BY <2>3
  <2>. QED  BY <2>1, <2>4
<1>7. {f[i] : i \in S} = OnlySet(side)
  BY DEF OnlySet
<1>8. f \in Bijection(S, OnlySet(side))
  <2>1. f \in [S -> OnlySet(side)]
    BY DEF OnlySet
  <2>. QED  BY <1>5, <1>7, <2>1 DEF Bijection, Injection, Surjection, IsInjective
<1> HIDE DEF f, S, q, p
<1>9. ListsOnce(p, {f[i] : i \in S})
  BY <1>4, <1>5, <1>6, ImageIsListed
<1>10. IsFiniteSet(OnlySet(side)) /\ Cardinality(OnlySet(side)) = Cardinality(S)
  <2>1. ExistsBijection(S, OnlySet(side))
    BY <1>8 DEF ExistsBijection
  <2>. QED  BY <1>3, <2>1, FS_Bijection
<1>. QED  BY <1>7, <1>9, <1>10 DEF p, S

(* The ordinals of a side that hold a key. *)
Holding(key, side) == {i \in 1..Len(input[side]) : Events!Key(side, i) = key}

(* They are counted by Occurrences.                                        *)
LEMMA HoldingIsFinite ==
    ASSUME EventCallIsReal, NEW side \in {"first", "second"}, NEW key
    PROVE  /\ IsFiniteSet(Holding(key, side)) /\ Holding(key, side) \subseteq Nat
           /\ Events!Occurrences(key, side) = Cardinality(Holding(key, side))
           /\ Events!Occurrences(key, side) \in Nat
           /\ Events!Occurrences(key, side) > 0 <=> Holding(key, side) # {}
<1>1. IsFiniteSet(1..Len(input[side])) /\ Len(input[side]) \in Nat
  BY KeysOf
<1>2. Holding(key, side) \subseteq 1..Len(input[side])
  BY DEF Holding
<1>3. IsFiniteSet(Holding(key, side))
  BY <1>1, <1>2, FS_Subset
<1>4. Events!Occurrences(key, side) = Cardinality(Holding(key, side))
  BY SameCounts DEF Events!Occurrences, Holding
<1>5. Cardinality(Holding(key, side)) \in Nat
      /\ (Cardinality(Holding(key, side)) = 0 <=> Holding(key, side) = {})
  BY <1>3, FS_CardinalityType, FS_EmptySet
<1>. QED  BY <1>1, <1>2, <1>3, <1>4, <1>5

(* A key is only on one side if an ordinal of that side stands for it.     *)
LEMMA OnlyIsExpected ==
    ASSUME EventCallIsReal, config.producer # "sorted"
    PROVE  Events!ExpectedOnly = OnlySet("first") \cup OnlySet("second")
<1> DEFINE event(key, side) == [type |-> Events!OnlyType(side), key |-> key]
           only(key, side) == Events!Occurrences(key, side) > 0
                              /\ Events!Occurrences(key, Events!Other(side)) = 0
<1>1. ASSUME NEW side \in {"first", "second"}, NEW key
      PROVE  only(key, side) <=> \E i \in OnlyOf(side) : Events!Key(side, i) = key
  <2> DEFINE other == Events!Other(side)
  <2>1. other \in {"first", "second"}
    BY DEF Events!Other
  <2>2. /\ Events!Occurrences(key, side) > 0 <=> Holding(key, side) # {}
        /\ Events!Occurrences(key, other) = 0 <=> Holding(key, other) = {}
    <3> HIDE DEF other
    <3>1. Events!Occurrences(key, side) > 0 <=> Holding(key, side) # {}
      BY HoldingIsFinite
    <3>2. Events!Occurrences(key, other) \in Nat
          /\ (Events!Occurrences(key, other) > 0 <=> Holding(key, other) # {})
      BY <2>1, HoldingIsFinite
    <3>. QED  BY <3>1, <3>2
  <2>3. Holding(key, other) = {} <=> ~Events!Occurs(key, Events!Keys(other))
    BY <2>1, KeysOf DEF Holding, Events!Occurs
  <2>4. ASSUME Holding(key, side) # {}, ~Events!Occurs(key, Events!Keys(other))
        PROVE  \E i \in OnlyOf(side) : Events!Key(side, i) = key
    <3>1. PICK j \in 1..Len(input[side]) : Events!Key(side, j) = key
      BY <2>4 DEF Holding
    <3>2. PICK i \in Events!FirstOrdinals(Events!Keys(side)) : Events!Key(side, i) = key
      BY <3>1, FirstOfKey
    <3>3. Events!Keys(side)[i] = key
      BY <3>2, KeysOf DEF Events!FirstOrdinals
    <3>. QED  BY <2>4, <3>2, <3>3 DEF OnlyOf, Events!OnlyOrdinals
  <2>5. ASSUME NEW i \in OnlyOf(side), Events!Key(side, i) = key
        PROVE  Holding(key, side) # {} /\ ~Events!Occurs(key, Events!Keys(other))
    <3>1. i \in Events!FirstOrdinals(Events!Keys(side))
          /\ ~Events!Occurs(Events!Keys(side)[i], Events!Keys(other))
      BY DEF OnlyOf, Events!OnlyOrdinals
    <3>2. i \in 1..Len(input[side]) /\ Events!Keys(side)[i] = key
      BY <2>5, <3>1, KeysOf DEF Events!FirstOrdinals
    <3>. QED  BY <2>5, <3>1, <3>2 DEF Holding
  <2>. QED  BY <2>2, <2>3, <2>4, <2>5
<1>2. ASSUME NEW side \in {"first", "second"}, NEW key, only(key, side)
      PROVE  key \in Events!AllKeys
  <2>1. Holding(key, side) # {}
    BY <1>2, HoldingIsFinite
  <2>. QED  BY <2>1 DEF Holding, Events!AllKeys
<1>3. \A e : e \in Events!ExpectedOnly
               <=> \E side \in {"first", "second"}, key \in Events!AllKeys :
                     only(key, side) /\ e = event(key, side)
  <2> DEFINE P == {pair \in Events!AllKeys \X {"first", "second"} : only(pair[1], pair[2])}
  <2>1. Events!ExpectedOnly = {event(ks[1], ks[2]) : ks \in P}
    BY DEF Events!ExpectedOnly, Events!Side
  <2>2. ASSUME NEW e, NEW ks \in P, e = event(ks[1], ks[2])
        PROVE  \E side \in {"first", "second"}, key \in Events!AllKeys :
                     only(key, side) /\ e = event(key, side)
    <3>1. ks[1] \in Events!AllKeys /\ ks[2] \in {"first", "second"} /\ only(ks[1], ks[2])
      OBVIOUS
    <3> HIDE DEF only, event
    <3>. QED  BY <2>2, <3>1
  <2>3. ASSUME NEW e, NEW side \in {"first", "second"}, NEW key \in Events!AllKeys,
               only(key, side), e = event(key, side)
        PROVE  \E ks \in P : e = event(ks[1], ks[2])
    <3> DEFINE ks == <<key, side>>
    <3>1. ks[1] = key /\ ks[2] = side /\ ks \in Events!AllKeys \X {"first", "second"}
      OBVIOUS
    <3> HIDE DEF ks
    <3>2. ks \in P
      BY <2>3, <3>1
    <3> HIDE DEF P
    <3>. QED  BY <2>3, <3>1, <3>2
  <2> HIDE DEF only, event, P
  <2>. QED  BY <2>1, <2>2, <2>3
<1>4. \A side \in {"first", "second"} :
          \A i : Events!OnlyEvent(side, i) = event(Events!Key(side, i), side)
  BY DEF Events!OnlyEvent
<1> HIDE DEF only, event
<1>5. ASSUME NEW e \in Events!ExpectedOnly PROVE e \in OnlySet("first") \cup OnlySet("second")
  <2>1. PICK side \in {"first", "second"}, key \in Events!AllKeys :
          only(key, side) /\ e = event(key, side)
    BY <1>3
  <2>2. PICK i \in OnlyOf(side) : Events!Key(side, i) = key
    BY <1>1, <2>1
  <2>3. e \in OnlySet(side)
    BY <1>4, <2>1, <2>2 DEF OnlySet
  <2>. QED  BY <2>3
<1>6. ASSUME NEW side \in {"first", "second"}, NEW e \in OnlySet(side) PROVE e \in Events!ExpectedOnly
  <2>1. PICK i \in OnlyOf(side) : e = event(Events!Key(side, i), side)
    BY <1>4 DEF OnlySet
  <2> DEFINE key == Events!Key(side, i)
  <2>2. only(key, side)
    BY <1>1
  <2>3. key \in Events!AllKeys
    BY <1>2, <2>2
  <2> HIDE DEF key
  <2>4. e = event(key, side)
    BY <2>1 DEF key
  <2>. QED  BY <1>3, <2>2, <2>3, <2>4
<1>. QED  BY <1>5, <1>6

(* The type of an only event tells its side.                               *)
LEMMA TypesOfOnly ==
    /\ \A e \in OnlySet("first") : e.type = "only_left"
    /\ \A e \in OnlySet("second") : e.type = "only_right"
    /\ Events!OnlyType("first") = "only_left" /\ Events!OnlyType("second") = "only_right"
  BY DEF OnlySet, Events!OnlyEvent, Events!OnlyType

-----------------------------------------------------------------------------
(* The duplicate events of a side, one for each key with repeats.          *)
DuplicateSet(side) ==
    {Events!DuplicateEvent(key, side, Events!Occurrences(key, side)) :
        key \in {k \in Events!AllKeys : config.include_duplicates /\ Events!Occurrences(k, side) > 1}}

(* A duplicate event has its type and its side.                            *)
LEMMA TypesOfDuplicates ==
    ASSUME NEW side, NEW e \in DuplicateSet(side)
    PROVE  e.type = "duplicate_key" /\ e.side = side
  BY DEF DuplicateSet, Events!DuplicateEvent

(* What is to report of repeats, side by side.                             *)
LEMMA DuplicatesAreExpected ==
    ASSUME EventCallIsReal, config.producer \in {"memory", "disk"}
    PROVE  Events!ExpectedDuplicates = DuplicateSet("first") \cup DuplicateSet("second")
<1> DEFINE event(key, side) == Events!DuplicateEvent(key, side, Events!Occurrences(key, side))
           more(key, side) == Events!Occurrences(key, side) > 1
           P == {pair \in Events!AllKeys \X {"first", "second"} : more(pair[1], pair[2])}
<1>1. CASE ~config.include_duplicates
  BY <1>1 DEF Events!ExpectedDuplicates, DuplicateSet
<1>2. CASE config.include_duplicates
  <2>1. Events!ExpectedDuplicates = {event(ks[1], ks[2]) : ks \in P}
    BY <1>2 DEF Events!ExpectedDuplicates, Events!Side
  <2>2. \A side : DuplicateSet(side) = {event(key, side) : key \in {k \in Events!AllKeys : more(k, side)}}
    BY <1>2 DEF DuplicateSet
  <2> HIDE DEF event, more
  <2>3. ASSUME NEW ks \in P
        PROVE  event(ks[1], ks[2]) \in DuplicateSet("first") \cup DuplicateSet("second")
    <3>1. ks[1] \in Events!AllKeys /\ ks[2] \in {"first", "second"} /\ more(ks[1], ks[2])
      OBVIOUS
    <3>2. event(ks[1], ks[2]) \in DuplicateSet(ks[2])
      BY <2>2, <3>1
    <3>. QED  BY <3>1, <3>2
  <2>4. ASSUME NEW side \in {"first", "second"}, NEW e \in DuplicateSet(side)
        PROVE  \E ks \in P : e = event(ks[1], ks[2])
    <3>1. PICK key \in Events!AllKeys : more(key, side) /\ e = event(key, side)
      BY <2>2
    <3> DEFINE ks == <<key, side>>
    <3>2. ks[1] = key /\ ks[2] = side /\ ks \in Events!AllKeys \X {"first", "second"}
      OBVIOUS
    <3> HIDE DEF ks
    <3>3. ks \in P
      BY <3>1, <3>2
    <3> HIDE DEF P
    <3>. QED  BY <3>1, <3>2, <3>3
  <2> HIDE DEF P
  <2>. QED  BY <2>1, <2>3, <2>4
<1>. QED  BY <1>1, <1>2

(* The repeats of a key on a side: all its ordinals but the first.         *)
Repeating(key, side) ==
    {i \in Events!RepeatOrdinals(Events!Keys(side)) : Events!Key(side, i) = key}

(* One repeat less than there are rows, and none if there is one row.      *)
LEMMA RepeatsCounted ==
    ASSUME EventCallIsReal, NEW side \in {"first", "second"}, NEW key
    PROVE  /\ IsFiniteSet(Repeating(key, side)) /\ Repeating(key, side) \subseteq Nat
           /\ Cardinality(Repeating(key, side)) \in Nat
           /\ Repeating(key, side) # {} <=> Events!Occurrences(key, side) > 1
           /\ Repeating(key, side) # {} =>
                 /\ Cardinality(Repeating(key, side)) + 1 = Events!Occurrences(key, side)
                 /\ key \in Events!AllKeys
<1> DEFINE n == Len(input[side])
           H == Holding(key, side)
           R == Repeating(key, side)
<1>1. /\ n \in Nat /\ IsFiniteSet(1..n) /\ Len(Events!Keys(side)) = n
      /\ \A i \in 1..n : Events!Keys(side)[i] = Events!Key(side, i)
  BY KeysOf
<1>2. /\ IsFiniteSet(H) /\ H \subseteq Nat
      /\ Events!Occurrences(key, side) = Cardinality(H) /\ Cardinality(H) \in Nat
      /\ Events!Occurrences(key, side) > 0 <=> H # {}
  BY HoldingIsFinite
<1>3. R \subseteq H
  BY <1>1 DEF Repeating, Events!RepeatOrdinals, Holding
<1>4. IsFiniteSet(R) /\ R \subseteq Nat /\ Cardinality(R) \in Nat
  BY <1>2, <1>3, FS_Subset, FS_CardinalityType
<1>5. ASSUME H # {}
      PROVE  /\ Cardinality(H) = Cardinality(R) + 1
             /\ key \in Events!AllKeys
  <2>1. PICK h \in 1..n : Events!Key(side, h) = key
    BY <1>5 DEF Holding
  <2>2. PICK i \in Events!FirstOrdinals(Events!Keys(side)) : Events!Key(side, i) = key
    BY <2>1, FirstOfKey
  <2>3. i \in 1..n /\ i \in H /\ i \notin R
    BY <1>1, <2>2 DEF Events!FirstOrdinals, Events!RepeatOrdinals, Holding, Repeating
  <2>4. ASSUME NEW j \in H, j \notin R PROVE j = i
    <3>1. j \in 1..n /\ Events!Key(side, j) = key
      BY DEF Holding
    <3>2. j \in Events!FirstOrdinals(Events!Keys(side))
      BY <1>1, <2>4, <3>1 DEF Repeating, Events!RepeatOrdinals, Events!FirstOrdinals
    <3>. QED  BY <2>2, <3>1, <3>2, FirstsDiffer
  <2>5. H = R \cup {i}
    BY <1>3, <2>3, <2>4
  <2>6. Cardinality(H) = Cardinality(R) + 1
    BY <1>4, <2>3, <2>5, FS_AddElement
  <2>7. key \in Events!AllKeys
    BY <2>1 DEF Events!AllKeys
  <2>. QED  BY <2>6, <2>7
<1> HIDE DEF H, R
<1>6. R # {} => H # {}
  BY <1>3
<1>7. Cardinality(R) = 0 <=> R = {}
  BY <1>4, FS_EmptySet
<1>8. R # {} <=> Events!Occurrences(key, side) > 1
  <2>1. CASE H = {}
    BY <1>2, <1>6, <2>1
  <2>2. CASE H # {}
    <3>1. Events!Occurrences(key, side) = Cardinality(R) + 1
      BY <1>2, <1>5, <2>2
    <3>2. Events!Occurrences(key, side) > 1 <=> Cardinality(R) # 0
      BY <1>4, <3>1
    <3>. QED  BY <1>7, <3>2
  <2>. QED  BY <2>1, <2>2
<1>. QED  BY <1>2, <1>4, <1>5, <1>6, <1>8 DEF R

(* compare_result_events: one duplicate event for each key with repeats.   *)
LEMMA DuplicatesListed ==
    ASSUME EventCallIsReal, NEW side \in {"first", "second"}
    PROVE  ListsOnce(Events!DuplicateEvents(side), DuplicateSet(side))
<1> DEFINE n == Len(input[side])
           repeats == Events!DuplicateRows(side)
           ofKey(i) == {j \in repeats : Events!Key(side, j) = Events!Key(side, i)}
           leading == {i \in repeats : \A j \in ofKey(i) : i <= j}
           q == Events!InOrder(leading)
           event(i) == Events!DuplicateEvent(Events!Key(side, i), side, Events!DuplicateCount(ofKey(i)))
           f == [i \in leading |-> event(i)]
           p == Events!DuplicateEvents(side)
<1>1. /\ n \in Nat /\ IsFiniteSet(1..n) /\ Len(Events!Keys(side)) = n
  BY KeysOf
<1>2. repeats \subseteq 1..n
  BY <1>1 DEF Events!DuplicateRows, Events!RepeatOrdinals
<1>3. IsFiniteSet(leading) /\ leading \subseteq Nat
  BY <1>1, <1>2, FS_Subset
<1>4. ListsOnce(q, leading)
  <2> HIDE DEF leading
  <2>. QED  BY <1>3, EventsInOrder
<1>5. p = [k \in 1..Len(q) |-> event(q[k])]
  BY DEF Events!DuplicateEvents, Events!Events
<1>6. ASSUME NEW i \in leading
      PROVE  /\ config.include_duplicates
             /\ ofKey(i) = Repeating(Events!Key(side, i), side)
             /\ event(i) = Events!DuplicateEvent(Events!Key(side, i), side,
                                                Events!Occurrences(Events!Key(side, i), side))
             /\ event(i) \in DuplicateSet(side)
  <2> DEFINE key == Events!Key(side, i)
  <2>1. i \in repeats /\ config.include_duplicates
    BY DEF Events!DuplicateRows
  <2>2. ofKey(i) = Repeating(key, side)
    BY <2>1 DEF Events!DuplicateRows, Repeating
  <2>3. i \in ofKey(i)
    BY <2>1
  <2> HIDE DEF ofKey
  <2>4. /\ Cardinality(Repeating(key, side)) + 1 = Events!Occurrences(key, side)
        /\ key \in Events!AllKeys /\ Events!Occurrences(key, side) > 1
    BY <2>2, <2>3, RepeatsCounted
  <2>5. Events!DuplicateCount(ofKey(i)) = Events!Occurrences(key, side)
    BY <2>2, <2>4, SameCounts DEF Events!DuplicateCount
  <2>. QED  BY <2>1, <2>2, <2>4, <2>5 DEF DuplicateSet
<1>7. ASSUME NEW i \in leading, NEW j \in leading, f[i] = f[j]
      PROVE  i = j
  <2>1. Events!Key(side, i) = Events!Key(side, j)
    <3>1. event(i) = event(j)
      BY <1>7
    <3>. QED  BY <3>1 DEF Events!DuplicateEvent
  <2>2. j \in ofKey(i) /\ i \in ofKey(j)
    BY <2>1
  <2>3. i <= j /\ j <= i
    BY <2>2
  <2>. QED  BY <1>3, <2>3
<1>8. ASSUME NEW e \in DuplicateSet(side)
      PROVE  \E i \in leading : event(i) = e
  <2>1. PICK key \in Events!AllKeys : /\ config.include_duplicates
                                      /\ Events!Occurrences(key, side) > 1
                                      /\ e = Events!DuplicateEvent(key, side, Events!Occurrences(key, side))
    BY DEF DuplicateSet
  <2> DEFINE R == Repeating(key, side)
  <2>2. R # {} /\ R \subseteq Nat
    BY <2>1, RepeatsCounted
  <2>3. PICK i \in R : \A j \in R : i <= j
    BY <2>2, LeastElement
  <2>4. i \in repeats /\ Events!Key(side, i) = key
    BY <2>1 DEF Repeating, Events!DuplicateRows
  <2>5. ofKey(i) = R
    BY <2>1, <2>4 DEF Repeating, Events!DuplicateRows
  <2>6. i \in leading
    BY <2>3, <2>4, <2>5
  <2>. QED  BY <1>6, <2>1, <2>4, <2>6
<1>9. p = [k \in 1..Len(q) |-> f[q[k]]]
  <2>1. \A k \in 1..Len(q) : q[k] \in leading
    <3> HIDE DEF leading, q
    <3>. QED  BY <1>4, ElementOfSeq DEF ListsOnce
  <2>2. \A k \in 1..Len(q) : f[q[k]] = event(q[k])
    BY <2>1
  <2> HIDE DEF f, event
  <2>. QED  BY <1>5, <2>2
<1>10. {f[i] : i \in leading} = DuplicateSet(side)
  <2>1. \A i \in leading : f[i] = event(i)
    OBVIOUS
  <2>2. \A i \in leading : event(i) \in DuplicateSet(side)
    BY <1>6
  <2> HIDE DEF f, leading, event
  <2>. QED  BY <1>8, <2>1, <2>2
<1> HIDE DEF f, leading, q, p
<1>11. ListsOnce(p, {f[i] : i \in leading})
  BY <1>4, <1>7, <1>9, ImageIsListed
<1>. QED  BY <1>10, <1>11 DEF p

(* A finite set of numbers has a greatest member. *)
LEMMA GreatestElement ==
    ASSUME NEW n \in Nat, NEW S \in SUBSET (1..n), S # {}
    PROVE  \E m \in S : \A k \in S : k <= m
<1> DEFINE T == {n - k : k \in S}
<1>1. T \in SUBSET Nat /\ T # {}
  <2>1. \A k \in 1..n : n - k \in Nat
    OBVIOUS
  <2>2. PICK k \in S : TRUE
    OBVIOUS
  <2>3. n - k \in T
    OBVIOUS
  <2>. QED  BY <2>1, <2>3
<1>2. PICK t \in T : \A u \in T : t <= u
  BY <1>1, LeastElement
<1>3. PICK m \in S : t = n - m
  OBVIOUS
<1>4. ASSUME NEW k \in S PROVE k <= m
  <2>1. n - k \in T /\ k \in Nat /\ m \in Nat
    <3>1. k \in 1..n /\ m \in 1..n
      OBVIOUS
    <3>2. n - k \in T
      OBVIOUS
    <3>. QED  BY <3>1, <3>2
  <2>2. t <= n - k
    BY <1>2, <2>1
  <2> HIDE DEF T
  <2>. QED  BY <1>3, <2>1, <2>2
<1>. QED  BY <1>4

(* The rows of a result file: the ordinals of each section of each side.   *)
RowsOfSection(section) == {row \in Events!FileRows : row.section = section}

(* Each row stands for an ordinal of its section.                          *)
LEMMA FileRowsAre ==
    /\ \A row : row \in RowsOfSection("only") <=>
          \E side \in {"first", "second"} : \E i \in OnlyOf(side) : row = Events!ResultRow("only", side, i)
    /\ \A row : row \in RowsOfSection("duplicates") <=>
          \E side \in {"first", "second"} : \E i \in Events!DuplicateRows(side) :
             row = Events!ResultRow("duplicates", side, i)
    /\ \A row \in Events!FileRows : row.section \in {"only", "duplicates"}
<1>1. \A row : row \in Events!FileRows <=>
        \/ \E side \in {"first", "second"} : \E i \in OnlyOf(side) : row = Events!ResultRow("only", side, i)
        \/ \E side \in {"first", "second"} : \E i \in Events!DuplicateRows(side) :
             row = Events!ResultRow("duplicates", side, i)
  BY DEF Events!FileRows, Events!Side, OnlyOf
<1>2. \A section, side, i : Events!ResultRow(section, side, i).section = section
  BY DEF Events!ResultRow
<1>. QED  BY <1>1, <1>2 DEF RowsOfSection

(* Finitely many, so that a file can list them.                            *)
LEMMA FileRowsAreFinite ==
    ASSUME EventCallIsReal
    PROVE  IsFiniteSet(Events!FileRows) /\ Cardinality(Events!FileRows) \in Nat
<1> DEFINE image(section, side, S) == {Events!ResultRow(section, side, i) : i \in S}
<1>1. ASSUME NEW section, NEW side, NEW S, IsFiniteSet(S)
      PROVE  IsFiniteSet(image(section, side, S))
  <2> DEFINE f == [i \in S |-> Events!ResultRow(section, side, i)]
  <2>1. f \in Surjection(S, image(section, side, S))
    BY DEF Surjection
  <2>. QED  BY <1>1, <2>1, FS_Surjection
<1>2. ASSUME NEW side \in {"first", "second"}
      PROVE  IsFiniteSet(OnlyOf(side)) /\ IsFiniteSet(Events!DuplicateRows(side))
  <2>1. /\ IsFiniteSet(1..Len(input[side])) /\ Len(Events!Keys(side)) = Len(input[side])
    BY KeysOf
  <2>2. OnlyOf(side) \subseteq 1..Len(input[side])
    BY <2>1 DEF OnlyOf, Events!OnlyOrdinals, Events!FirstOrdinals
  <2>3. Events!DuplicateRows(side) \subseteq 1..Len(input[side])
    BY <2>1 DEF Events!DuplicateRows, Events!RepeatOrdinals
  <2>. QED  BY <2>1, <2>2, <2>3, FS_Subset
<1> DEFINE rows(side) == image("only", side, OnlyOf(side))
                         \cup image("duplicates", side, Events!DuplicateRows(side))
<1>3. Events!FileRows = rows("first") \cup rows("second")
  BY DEF Events!FileRows, Events!Side, OnlyOf
<1> HIDE DEF image
<1>4. \A side \in {"first", "second"} : IsFiniteSet(rows(side))
  BY <1>1, <1>2, FS_Union
<1> HIDE DEF rows
<1>. QED  BY <1>3, <1>4, FS_Union, FS_CardinalityType

(* What the entries of a result file at some places are.                   *)
LEMMA EntriesListed ==
    ASSUME EventCallIsReal, NEW rows \in Events!ResultFiles, NEW section \in {"only", "duplicates"}
    PROVE  ListsOnce(Events!EntriesAt(rows, {k \in 1..Len(rows) : rows[k].section = section}),
                     RowsOfSection(section))
<1> DEFINE N == Cardinality(Events!FileRows)
           places == {k \in 1..Len(rows) : rows[k].section = section}
           q == Events!InOrder(places)
           p == Events!EntriesAt(rows, places)
<1>1. N \in Nat
  BY FileRowsAreFinite
<1>2. rows \in Events!Bijection(1..N, Events!FileRows)
  BY SameCounts DEF Events!ResultFiles
<1>3. /\ rows \in [1..N -> Events!FileRows]
      /\ \A k, l \in 1..N : rows[k] = rows[l] => k = l
      /\ \A row \in Events!FileRows : \E k \in 1..N : rows[k] = row
  BY <1>2 DEF Events!Bijection, Events!Injection, Events!Surjection, Events!IsInjective
<1> HIDE DEF N
<1>4. Len(rows) = N
  BY <1>1, <1>3
<1>5. places \subseteq 1..N /\ IsFiniteSet(places) /\ places \subseteq Nat
  <2>1. IsFiniteSet(1..N)
    BY <1>1, FS_Interval
  <2>. QED  BY <1>1, <1>4, <2>1, FS_Subset
<1>6. {rows[k] : k \in places} = RowsOfSection(section)
  <2>1. \A row : row \in RowsOfSection(section) <=> row \in Events!FileRows /\ row.section = section
    BY DEF RowsOfSection
  <2>2. ASSUME NEW k \in places PROVE rows[k] \in RowsOfSection(section)
    BY <1>3, <1>5, <2>1
  <2>3. ASSUME NEW row \in RowsOfSection(section) PROVE \E k \in places : rows[k] = row
    BY <1>3, <1>4, <2>1
  <2>. QED  BY <2>2, <2>3
<1>7. p = [k \in 1..Len(q) |-> rows[q[k]]]
  BY DEF Events!EntriesAt
<1>8. ListsOnce(q, places)
  <2> HIDE DEF places
  <2>. QED  BY <1>5, EventsInOrder
<1>9. \A k, l \in places : rows[k] = rows[l] => k = l
  BY <1>3, <1>5
<1> HIDE DEF places, q, p
<1>10. ListsOnce(p, {rows[k] : k \in places})
  BY <1>7, <1>8, <1>9, ImageIsListed
<1>. QED  BY <1>6, <1>10 DEF p, places

(* The only events of a result file, whatever the order of its rows.       *)
LEMMA OnlyOfFileListed ==
    ASSUME EventCallIsReal, NEW q, ListsOnce(q, RowsOfSection("only")),
           NEW p, p = [k \in 1..Len(q) |-> Events!OnlyEvent(q[k].side, q[k].ordinal)]
    PROVE  ListsOnce(p, OnlySet("first") \cup OnlySet("second"))
<1> DEFINE S == RowsOfSection("only")
           f == [row \in S |-> Events!OnlyEvent(row.side, row.ordinal)]
<1>1. ASSUME NEW row \in S
      PROVE  /\ row.side \in {"first", "second"} /\ row.ordinal \in OnlyOf(row.side)
             /\ row = Events!ResultRow("only", row.side, row.ordinal)
  <2>1. PICK side \in {"first", "second"} : \E i \in OnlyOf(side) : row = Events!ResultRow("only", side, i)
    BY FileRowsAre
  <2>0. PICK i \in OnlyOf(side) : row = Events!ResultRow("only", side, i)
    BY <2>1
  <2>2. row.side = side /\ row.ordinal = i
    BY <2>0 DEF Events!ResultRow
  <2>. QED  BY <2>0, <2>2
<1>2. ASSUME NEW row \in S, NEW other \in S, f[row] = f[other]
      PROVE  row = other
  <2>1. /\ Events!OnlyType(row.side) = Events!OnlyType(other.side)
        /\ Events!Key(row.side, row.ordinal) = Events!Key(other.side, other.ordinal)
    <3>1. Events!OnlyEvent(row.side, row.ordinal) = Events!OnlyEvent(other.side, other.ordinal)
      BY <1>2
    <3>. QED  BY <3>1 DEF Events!OnlyEvent
  <2>2. row.side = other.side
    BY <1>1, <2>1 DEF Events!OnlyType
  <2>3. row.ordinal \in OnlyOf(row.side) /\ other.ordinal \in OnlyOf(row.side)
    BY <1>1, <2>2
  <2>4. row.ordinal = other.ordinal
    <3>1. /\ row.ordinal \in Events!FirstOrdinals(Events!Keys(row.side))
          /\ other.ordinal \in Events!FirstOrdinals(Events!Keys(row.side))
      BY <2>3 DEF OnlyOf, Events!OnlyOrdinals
    <3>2. row.side \in {"first", "second"}
      BY <1>1
    <3>. QED  BY <2>1, <2>2, <3>1, <3>2, FirstsDiffer
  <2>. QED  BY <1>1, <2>2, <2>4
<1>3. p = [k \in 1..Len(q) |-> f[q[k]]]
  <2>1. \A k \in 1..Len(q) : q[k] \in S
    BY ElementOfSeq DEF ListsOnce
  <2>2. \A k \in 1..Len(q) : f[q[k]] = Events!OnlyEvent(q[k].side, q[k].ordinal)
    BY <2>1
  <2> HIDE DEF f
  <2>. QED  BY <2>2
<1>4. {f[row] : row \in S} = OnlySet("first") \cup OnlySet("second")
  <2>1. ASSUME NEW row \in S PROVE f[row] \in OnlySet("first") \cup OnlySet("second")
    BY <1>1 DEF OnlySet
  <2>2. ASSUME NEW side \in {"first", "second"}, NEW e \in OnlySet(side)
        PROVE  \E row \in S : f[row] = e
    <3>1. PICK i \in OnlyOf(side) : e = Events!OnlyEvent(side, i)
      BY DEF OnlySet
    <3> DEFINE row == Events!ResultRow("only", side, i)
    <3>2. row \in S
      BY FileRowsAre
    <3>3. row.side = side /\ row.ordinal = i
      BY DEF Events!ResultRow
    <3> HIDE DEF row
    <3>4. f[row] = e
      BY <3>1, <3>2, <3>3
    <3>. QED  BY <3>2, <3>4
  <2> HIDE DEF f, S
  <2>. QED  BY <2>1, <2>2
<1> HIDE DEF f, S
<1>5. ListsOnce(q, S)
  BY DEF S
<1>. QED  BY <1>2, <1>3, <1>4, <1>5, ImageIsListed

(* What FileEvents makes of the rows of the duplicates section.            *)
RepeatEvents(repeats) ==
    LET key(k) == Events!RowKey(repeats[k])
        ofKey(k) == {l \in 1..Len(repeats) : key(l) = key(k)}
        leading == {k \in 1..Len(repeats) : \A l \in ofKey(k) : k <= l}
        last(k) == CHOOSE l \in ofKey(k) : \A m \in ofKey(k) : m <= l
    IN [j \in 1..Len(Events!InOrder(leading)) |->
          LET k == Events!InOrder(leading)[j]
          IN Events!DuplicateEvent(key(k), repeats[last(k)].side, Events!DuplicateCount(ofKey(k)))]

(* What FileEvents makes of the repeats of a result file: if no token is   *)
(* repeated on both sides, one event for each of a side with repeats.      *)
LEMMA RepeatsOfFileListed ==
    ASSUME EventCallIsReal, config.include_duplicates => ~Events!DuplicateOnBothSides,
           NEW repeats, ListsOnce(repeats, RowsOfSection("duplicates"))
    PROVE  ListsOnce(RepeatEvents(repeats), DuplicateSet("first") \cup DuplicateSet("second"))
<1> DEFINE R == RowsOfSection("duplicates")
           m == Len(repeats)
           key(k) == Events!RowKey(repeats[k])
           ofKey(k) == {l \in 1..m : key(l) = key(k)}
           leading == {k \in 1..m : \A l \in ofKey(k) : k <= l}
           last(k) == CHOOSE l \in ofKey(k) : \A n \in ofKey(k) : n <= l
           q == Events!InOrder(leading)
           event(k) == Events!DuplicateEvent(key(k), repeats[last(k)].side, Events!DuplicateCount(ofKey(k)))
           p == RepeatEvents(repeats)
           E == DuplicateSet("first") \cup DuplicateSet("second")
<1>1. m \in Nat /\ (\A k \in 1..m : repeats[k] \in R)
      /\ (\A k, l \in 1..m : repeats[k] = repeats[l] => k = l)
      /\ (\A row \in R : \E k \in 1..m : repeats[k] = row)
  <2>1. repeats \in Seq(R)
    BY DEF ListsOnce
  <2>. QED  BY <2>1, ElementOfSeq DEF ListsOnce
<1>2. ASSUME NEW row \in R
      PROVE  /\ row.side \in {"first", "second"}
             /\ row.ordinal \in Repeating(Events!RowKey(row), row.side)
             /\ Events!RowKey(row) = Events!Key(row.side, row.ordinal)
             /\ row = Events!ResultRow("duplicates", row.side, row.ordinal)
             /\ config.include_duplicates
  <2>1. PICK side \in {"first", "second"} :
          \E i \in Events!DuplicateRows(side) : row = Events!ResultRow("duplicates", side, i)
    BY FileRowsAre
  <2>2. PICK i \in Events!DuplicateRows(side) : row = Events!ResultRow("duplicates", side, i)
    BY <2>1
  <2>3. row.side = side /\ row.ordinal = i
    BY <2>2 DEF Events!ResultRow
  <2>4. config.include_duplicates /\ i \in Events!RepeatOrdinals(Events!Keys(side))
    BY DEF Events!DuplicateRows
  <2>. QED  BY <2>2, <2>3, <2>4 DEF Repeating, Events!RowKey
<1>3. ASSUME NEW side \in {"first", "second"}, NEW k, config.include_duplicates,
             NEW i \in Repeating(k, side)
      PROVE  /\ Events!ResultRow("duplicates", side, i) \in R
             /\ Events!RowKey(Events!ResultRow("duplicates", side, i)) = k
  <2>1. i \in Events!DuplicateRows(side) /\ Events!Key(side, i) = k
    BY <1>3 DEF Repeating, Events!DuplicateRows
  <2>. QED  BY <2>1, FileRowsAre DEF Events!RowKey, Events!ResultRow
<1> HIDE DEF R
<1>4. ASSUME NEW row \in R, NEW other \in R, Events!RowKey(row) = Events!RowKey(other)
      PROVE  row.side = other.side
  <2>1. /\ Events!Occurrences(Events!RowKey(row), row.side) > 1
        /\ Events!Occurrences(Events!RowKey(row), other.side) > 1
        /\ Events!RowKey(row) \in Events!AllKeys
    BY <1>2, <1>4, RepeatsCounted
  <2>2. config.include_duplicates /\ row.side \in {"first", "second"} /\ other.side \in {"first", "second"}
    BY <1>2
  <2>. QED  BY <2>1, <2>2 DEF Events!DuplicateOnBothSides, Events!Side
<1>5. ASSUME NEW k \in 1..m
      PROVE  /\ k \in ofKey(k) /\ ofKey(k) \subseteq 1..m
             /\ last(k) \in ofKey(k)
             /\ repeats[last(k)].side = repeats[k].side
  <2>1. k \in ofKey(k) /\ ofKey(k) \subseteq 1..m
    OBVIOUS
  <2>2. \E l \in ofKey(k) : \A n \in ofKey(k) : n <= l
    <3> HIDE DEF ofKey
    <3>. QED  BY <1>1, <2>1, GreatestElement
  <2>3. last(k) \in ofKey(k)
    <3> HIDE DEF ofKey
    <3>. QED  BY <2>2
  <2>4. key(last(k)) = key(k) /\ last(k) \in 1..m
    <3> HIDE DEF last
    <3>. QED  BY <2>3
  <2> HIDE DEF last
  <2>5. repeats[last(k)].side = repeats[k].side
    BY <1>1, <1>4, <2>4
  <2>. QED  BY <2>1, <2>3, <2>5
<1>6. ASSUME NEW k \in 1..m
      PROVE  LET side == repeats[k].side IN
             /\ event(k) = Events!DuplicateEvent(key(k), side, Events!Occurrences(key(k), side))
             /\ event(k) \in DuplicateSet(side)
             /\ side \in {"first", "second"}
  <2> DEFINE side == repeats[k].side
             S == Repeating(key(k), side)
             f == [l \in ofKey(k) |-> repeats[l].ordinal]
  <2>1. /\ side \in {"first", "second"} /\ repeats[k].ordinal \in S /\ config.include_duplicates
    BY <1>1, <1>2
  <2>2. ASSUME NEW l \in ofKey(k)
        PROVE  /\ repeats[l].side = side /\ repeats[l].ordinal \in S
               /\ repeats[l] = Events!ResultRow("duplicates", side, repeats[l].ordinal)
    <3>1. l \in 1..m /\ key(l) = key(k)
      OBVIOUS
    <3>2. repeats[l].side = side
      BY <1>1, <1>4, <3>1
    <3>. QED  BY <1>1, <1>2, <3>1, <3>2
  <2>3. ASSUME NEW i \in S PROVE \E l \in ofKey(k) : repeats[l].ordinal = i
    <3> DEFINE row == Events!ResultRow("duplicates", side, i)
    <3>1. row \in R /\ Events!RowKey(row) = key(k)
      BY <1>3, <2>1
    <3>2. row.ordinal = i
      BY DEF Events!ResultRow
    <3> HIDE DEF row
    <3>3. PICK l \in 1..m : repeats[l] = row
      BY <1>1, <3>1
    <3>. QED  BY <3>1, <3>2, <3>3
  <2>4. f \in Bijection(ofKey(k), S)
    <3>1. f \in [ofKey(k) -> S]
      BY <2>2
    <3>2. \A i \in S : \E l \in ofKey(k) : f[l] = i
      BY <2>3
    <3>3. \A l, n \in ofKey(k) : f[l] = f[n] => l = n
      <4> SUFFICES ASSUME NEW l \in ofKey(k), NEW n \in ofKey(k), f[l] = f[n] PROVE l = n
        OBVIOUS
      <4>1. repeats[l].ordinal = repeats[n].ordinal
        OBVIOUS
      <4>2. repeats[l] = repeats[n]
        BY <2>2, <4>1
      <4>3. l \in 1..m /\ n \in 1..m
        OBVIOUS
      <4>. QED  BY <1>1, <4>2, <4>3
    <3> HIDE DEF f, S, ofKey
    <3>. QED  BY <3>1, <3>2, <3>3 DEF Bijection, Injection, Surjection, IsInjective
  <2>5. /\ S # {} /\ IsFiniteSet(S)
        /\ Cardinality(S) + 1 = Events!Occurrences(key(k), side)
        /\ key(k) \in Events!AllKeys /\ Events!Occurrences(key(k), side) > 1
    BY <2>1, RepeatsCounted
  <2>6. Cardinality(ofKey(k)) = Cardinality(S)
    <3>0. IsFiniteSet(1..m) /\ ofKey(k) \subseteq 1..m
      BY <1>1, FS_Interval
    <3> HIDE DEF f, S, ofKey
    <3>1. IsFiniteSet(ofKey(k))
      BY <3>0, FS_Subset
    <3>2. ExistsBijection(ofKey(k), S)
      BY <2>4 DEF ExistsBijection
    <3>. QED  BY <3>1, <3>2, FS_Bijection
  <2>7. Events!DuplicateCount(ofKey(k)) = Events!Occurrences(key(k), side)
    <3> HIDE DEF S, ofKey
    <3>. QED  BY <2>5, <2>6, SameCounts DEF Events!DuplicateCount
  <2>8. repeats[last(k)].side = side
    BY <1>5
  <2>9. event(k) = Events!DuplicateEvent(key(k), side, Events!Occurrences(key(k), side))
    <3> HIDE DEF last, ofKey, key, side
    <3>. QED  BY <2>7, <2>8
  <2>10. event(k) \in DuplicateSet(side)
    <3> HIDE DEF event
    <3>. QED  BY <2>1, <2>5, <2>9 DEF DuplicateSet
  <2>. QED  BY <2>1, <2>9, <2>10
<1>7. IsFiniteSet(leading) /\ leading \subseteq Nat /\ leading \subseteq 1..m
  <2>1. IsFiniteSet(1..m) /\ leading \subseteq 1..m /\ leading \subseteq Nat
    BY <1>1, FS_Interval
  <2> HIDE DEF leading
  <2>. QED  BY <2>1, FS_Subset
<1>8. ListsOnce(q, leading)
  <2> HIDE DEF leading
  <2>. QED  BY <1>7, EventsInOrder
<1>9. p = [j \in 1..Len(q) |-> event(q[j])]
  BY DEF RepeatEvents
<1>10. ASSUME NEW k \in leading, NEW l \in leading, event(k) = event(l)
       PROVE  k = l
  <2>1. k \in 1..m /\ l \in 1..m
    BY <1>7
  <2>2. key(k) = key(l)
    BY <1>10 DEF Events!DuplicateEvent
  <2>3. l \in ofKey(k) /\ k \in ofKey(l)
    BY <2>1, <2>2
  <2>4. k <= l /\ l <= k
    BY <2>3
  <2>. QED  BY <1>1, <2>1, <2>4
<1>11. ASSUME NEW side \in {"first", "second"}, NEW e \in DuplicateSet(side)
       PROVE  \E k \in leading : event(k) = e
  <2>1. PICK t \in Events!AllKeys : /\ config.include_duplicates
                                    /\ Events!Occurrences(t, side) > 1
                                    /\ e = Events!DuplicateEvent(t, side, Events!Occurrences(t, side))
    BY DEF DuplicateSet
  <2>2. PICK i \in Repeating(t, side) : TRUE
    BY <2>1, RepeatsCounted
  <2> DEFINE row == Events!ResultRow("duplicates", side, i)
  <2>3. row \in R /\ Events!RowKey(row) = t
    BY <1>3, <2>1
  <2>4. row.side = side
    BY DEF Events!ResultRow
  <2> HIDE DEF row
  <2>5. PICK n \in 1..m : repeats[n] = row
    BY <1>1, <2>3
  <2>6. PICK k \in ofKey(n) : \A l \in ofKey(n) : k <= l
    <3>1. ofKey(n) \in SUBSET Nat /\ ofKey(n) # {}
      BY <1>1, <1>5, <2>5
    <3> HIDE DEF ofKey
    <3>. QED  BY <3>1, LeastElement
  <2>7. k \in 1..m /\ key(k) = key(n) /\ key(n) = t
    BY <2>3, <2>5, <2>6
  <2>8. ofKey(k) = ofKey(n)
    BY <2>7
  <2>9. k \in leading
    <3> HIDE DEF ofKey
    <3>. QED  BY <2>6, <2>7, <2>8
  <2>10. repeats[k].side = side
    <3>1. repeats[k] \in R /\ Events!RowKey(repeats[k]) = Events!RowKey(row)
      BY <1>1, <2>3, <2>7
    <3>. QED  BY <1>4, <2>3, <2>4, <3>1
  <2>11. event(k) = e
    <3> HIDE DEF event
    <3>. QED  BY <1>6, <2>1, <2>7, <2>10
  <2>. QED  BY <2>9, <2>11
<1> DEFINE f == [k \in leading |-> event(k)]
<1>12. \A k \in leading : f[k] = event(k) /\ event(k) \in E
  <2>1. \A k \in leading : f[k] = event(k)
    OBVIOUS
  <2>2. ASSUME NEW k \in leading PROVE event(k) \in E
    <3>1. k \in 1..m
      BY <1>7
    <3>2. event(k) \in DuplicateSet(repeats[k].side) /\ repeats[k].side \in {"first", "second"}
      <4> HIDE DEF event
      <4>. QED  BY <1>6, <3>1
    <3>. QED  BY <3>2
  <2>. QED  BY <2>1, <2>2
<1> HIDE DEF event, leading, f, q, p
<1>13. p = [j \in 1..Len(q) |-> f[q[j]]]
  <2>1. \A j \in 1..Len(q) : q[j] \in leading
    BY <1>8, ElementOfSeq DEF ListsOnce
  <2>. QED  BY <1>9, <1>12, <2>1
<1>14. {f[k] : k \in leading} = E
  <2>1. \A e \in E : \E k \in leading : event(k) = e
    BY <1>11
  <2> HIDE DEF E
  <2>. QED  BY <1>12, <2>1
<1>15. \A k, l \in leading : f[k] = f[l] => k = l
  BY <1>10, <1>12
<1>16. ListsOnce(p, {f[k] : k \in leading})
  BY <1>8, <1>13, <1>15, ImageIsListed
<1>. QED  BY <1>14, <1>16 DEF p

(* A list, whatever its entries are. *)
IsList(q) == q \in Seq({q[k] : k \in 1..Len(q)})

(* A sequence of anything is a list.                                       *)
LEMMA ListOfAny ==
    ASSUME NEW T, NEW q \in Seq(T)
    PROVE  IsList(q) /\ Len(q) \in Nat /\ \A k \in 1..Len(q) : q[k] \in T
<1> DEFINE n == Len(q)
           X == {q[k] : k \in 1..n}
<1>1. n \in Nat /\ (\A k \in 1..n : q[k] \in T) /\ q = [k \in 1..n |-> q[k]]
  BY ElementOfSeq
<1>2. q \in [1..n -> X]
  BY <1>1
<1> HIDE DEF X
<1>3. q \in Seq(X)
  BY <1>1, <1>2
<1>. QED  BY <1>1, <1>3 DEF IsList, X

(* A list of the members of a set has these as its entries.                *)
LEMMA ListedOnceIsList ==
    ASSUME NEW q, NEW E, ListsOnce(q, E)
    PROVE  IsList(q) /\ Len(q) \in Nat /\ (\A k \in 1..Len(q) : q[k] \in E) /\ Events!ToSet(q) = E
<1>1. q \in Seq(E)
  BY DEF ListsOnce
<1>2. IsList(q) /\ Len(q) \in Nat /\ (\A k \in 1..Len(q) : q[k] \in E)
  BY <1>1, ListOfAny
<1>3. DOMAIN q = 1..Len(q)
  BY <1>1
<1>. QED  BY <1>2, <1>3 DEF ListsOnce, Events!ToSet

(* The row of the k-th event of a field diff, two events to a row.         *)
LEMMA Halves ==
    ASSUME NEW n \in Nat, NEW k \in 1..(2 * n)
    PROVE  /\ (k + 1) \div 2 \in 1..n
           /\ k % 2 = 1 => k = 2 * ((k + 1) \div 2) - 1
           /\ k % 2 # 1 => k = 2 * ((k + 1) \div 2)
  BY Z3

(* The rows that changed, as ordinals of the first file.                   *)
LEMMA ChangedAreFinite ==
    ASSUME EventCallIsReal
    PROVE  /\ IsFiniteSet(Events!ChangedRows) /\ Events!ChangedRows \subseteq Nat
           /\ Cardinality(Events!ChangedRows) \in Nat
<1>1. IsFiniteSet(1..Len(input["first"])) /\ Len(input["first"]) \in Nat
  BY KeysOf
<1>2. Events!ChangedRows \subseteq 1..Len(input["first"])
  BY DEF Events!ChangedRows, Events!Matched
<1>3. Events!ChangedRows \subseteq Nat
  BY <1>1, <1>2
<1>4. IsFiniteSet(Events!ChangedRows)
  BY <1>1, <1>2, FS_Subset
<1>. QED  BY <1>3, <1>4, FS_CardinalityType

(* field_diff_row_events: two events for each row reported, each once.     *)
LEMMA FieldEventsListed ==
    ASSUME EventCallIsReal
    PROVE  /\ ListsOnce(Events!FieldEvents, Events!ToSet(Events!FieldEvents))
           /\ IsFiniteSet(Events!ToSet(Events!FieldEvents))
           /\ \A e \in Events!ToSet(Events!FieldEvents) : e.type \in {"row_changed", "field_change"}
<1> DEFINE C == Events!ChangedRows
           n == Events!ReportedCount
           q == Events!InOrder(C)
           p == Events!FieldEvents
           E == Events!ToSet(p)
           type(k) == IF k % 2 = 1 THEN "row_changed" ELSE "field_change"
           row(k) == q[(k + 1) \div 2]
           event(k) == [type |-> type(k), key |-> Events!Key("first", row(k)), row |-> row(k)]
<1>1. ListsOnce(q, C) /\ Len(q) = Cardinality(C) /\ Cardinality(C) \in Nat
  BY ChangedAreFinite, EventsInOrder
<1>2. n \in Int /\ n <= Len(q)
  <2>1. Events!Cardinality(C) = Cardinality(C)
    BY SameCounts
  <2>. QED  BY <1>1, <2>1 DEF Events!ReportedCount, EventCallIsReal
<1>3. p = [k \in 1..(2 * n) |-> event(k)]
  BY DEF Events!FieldEvents
<1> DEFINE m == IF n < 0 THEN 0 ELSE n
<1> HIDE DEF n, q, C
<1>4. m \in Nat /\ m <= Len(q) /\ 1..(2 * n) = 1..(2 * m)
  BY <1>1, <1>2
<1> HIDE DEF m
<1>5. p = [k \in 1..(2 * m) |-> event(k)]
  BY <1>3, <1>4
<1> HIDE DEF p
<1>6. \A k \in 1..(2 * m) : p[k] = event(k)
  BY <1>5
<1>7. \A k \in 1..(2 * m) : p[k].type = type(k) /\ p[k].row = row(k)
  <2>1. \A k : event(k).type = type(k) /\ event(k).row = row(k)
    OBVIOUS
  <2> HIDE DEF event
  <2>. QED  BY <1>6, <2>1
<1>8. DOMAIN p = 1..(2 * m) /\ E = {p[k] : k \in 1..(2 * m)}
  BY <1>5 DEF Events!ToSet
<1> HIDE DEF event, E
<1>9. p \in Seq(E) /\ Len(p) = 2 * m
  <2>1. 2 * m \in Nat /\ \A k \in 1..(2 * m) : p[k] \in E
    BY <1>4, <1>8
  <2>2. p = [k \in 1..(2 * m) |-> p[k]]
    BY <1>5, <1>6
  <2>. QED  BY <2>1, <2>2, TableIsList
<1>10. ASSUME NEW k \in 1..(2 * m), NEW l \in 1..(2 * m), p[k] = p[l]
       PROVE  k = l
  <2>1. (k + 1) \div 2 \in 1..m /\ (l + 1) \div 2 \in 1..m
    BY <1>4, Halves
  <2>2. type(k) = type(l) /\ row(k) = row(l)
    BY <1>7, <1>10
  <2>3. \A i, j \in 1..Len(q) : q[i] = q[j] => i = j
    BY <1>1 DEF ListsOnce
  <2>4. (k + 1) \div 2 \in 1..Len(q) /\ (l + 1) \div 2 \in 1..Len(q)
    <3> HIDE DEF type, row
    <3>1. \A h \in 1..m : h \in 1..Len(q)
      BY <1>1, <1>4
    <3>. QED  BY <2>1, <3>1
  <2>5. (k + 1) \div 2 = (l + 1) \div 2
    BY <2>2, <2>3, <2>4
  <2>6. k % 2 = 1 <=> l % 2 = 1
    <3>1. "row_changed" # "field_change"
      OBVIOUS
    <3>. QED  BY <2>2, <3>1
  <2>7. /\ k % 2 = 1 => k = 2 * ((k + 1) \div 2) - 1
        /\ k % 2 # 1 => k = 2 * ((k + 1) \div 2)
        /\ l % 2 = 1 => l = 2 * ((l + 1) \div 2) - 1
        /\ l % 2 # 1 => l = 2 * ((l + 1) \div 2)
    BY <1>4, Halves
  <2> DEFINE h == (k + 1) \div 2
             g == (l + 1) \div 2
             odd == k % 2 = 1
             even == l % 2 = 1
  <2>8. h = g /\ (odd <=> even) /\ (odd => k = 2 * h - 1) /\ (~odd => k = 2 * h)
        /\ (even => l = 2 * g - 1) /\ (~even => l = 2 * g)
    BY <2>5, <2>6, <2>7
  <2> HIDE DEF h, g, odd, even
  <2>. QED  BY <2>8
<1>11. \A e \in E : \E k \in 1..(2 * m) : p[k] = e
  BY <1>8
<1>12. IsFiniteSet(E)
  <2>1. IsFiniteSet(1..(2 * m))
    <3>1. 2 * m \in Nat
      BY <1>4
    <3> DEFINE t == 2 * m
    <3> HIDE DEF t
    <3>2. IsFiniteSet(1..t)
      BY <3>1, FS_Interval DEF t
    <3>. QED  BY <3>2 DEF t
  <2>2. p \in Surjection(1..(2 * m), E)
    <3>1. p = [k \in 1..(2 * m) |-> p[k]]
      BY <1>5, <1>6
    <3>. QED  BY <1>8, <3>1 DEF Surjection
  <2>. QED  BY <2>1, <2>2, FS_Surjection
<1>13. \A e \in E : e.type \in {"row_changed", "field_change"}
  BY <1>7, <1>8
<1>. QED  BY <1>9, <1>10, <1>11, <1>12, <1>13 DEF ListsOnce, E, p

(* The types of the events that are no envelope.                           *)
DataTypes == {"only_left", "only_right", "duplicate_key", "row_changed", "field_change"}

(* What the comparison has to report, and what the field diff after it.    *)
Compared ==
    IF config.producer = "sorted" THEN Events!ToSet(Events!FieldEvents)
    ELSE Events!ExpectedOnly \cup Events!ExpectedDuplicates

(* The rows of the field diff, after the sections.                         *)
ComparedLater == IF config.producer = "fields" THEN Events!ToSet(Events!FieldEvents) ELSE {}

(* The case StreamIsWhole leaves out. *)
Assured ==
    ~(config.producer = "disk" /\ config.include_duplicates /\ Events!DuplicateOnBothSides)

(* The only events of both sides.                                          *)
LEMMA OnlyListed ==
    ASSUME EventCallIsReal
    PROVE  ListsOnce(Events!OnlyEvents("first") \o Events!OnlyEvents("second"),
                     OnlySet("first") \cup OnlySet("second"))
<1>1. /\ ListsOnce(Events!OnlyEvents("first"), OnlySet("first"))
      /\ ListsOnce(Events!OnlyEvents("second"), OnlySet("second"))
  BY OnlyEventsListed
<1>2. OnlySet("first") \cap OnlySet("second") = {}
  BY TypesOfOnly
<1>. QED  BY <1>1, <1>2, ListsJoin

(* Finitely many, as they are listed.                                      *)
LEMMA DuplicatesAreFinite ==
    ASSUME EventCallIsReal, NEW side \in {"first", "second"}
    PROVE  IsFiniteSet(DuplicateSet(side))
<1> DEFINE p == Events!DuplicateEvents(side)
           E == DuplicateSet(side)
<1>1. ListsOnce(p, E)
  BY DuplicatesListed
<1> HIDE DEF p, E
<1>2. p \in Seq(E) /\ Len(p) \in Nat /\ \A e \in E : \E k \in 1..Len(p) : p[k] = e
  BY <1>1 DEF ListsOnce
<1>3. p \in [1..Len(p) -> E]
  BY <1>2
<1>4. p \in Surjection(1..Len(p), E)
  BY <1>2, <1>3 DEF Surjection
<1>5. IsFiniteSet(1..Len(p))
  BY <1>2, FS_Interval
<1>6. IsFiniteSet(E)
  BY <1>4, <1>5, FS_Surjection
<1>. QED  BY <1>6 DEF E

(* What a command has to report, in its two parts.                         *)
LEMMA ExpectedParts ==
    ASSUME EventCallIsReal
    PROVE  /\ Events!Expected = Compared \cup ComparedLater
           /\ Compared \cap ComparedLater = {}
           /\ IsFiniteSet(Events!Expected)
           /\ \A e \in Events!Expected : e.type \in DataTypes
           /\ config.producer # "fields" => ComparedLater = {}
<1> DEFINE F == Events!ToSet(Events!FieldEvents)
<1>1. IsFiniteSet(F) /\ \A e \in F : e.type \in {"row_changed", "field_change"}
  BY FieldEventsListed
<1>2. \A side \in {"first", "second"} : IsFiniteSet(OnlySet(side)) /\ IsFiniteSet(DuplicateSet(side))
  BY OnlyEventsListed, DuplicatesAreFinite
<1>3. IsFiniteSet({})
  BY FS_EmptySet
<1> DEFINE O == OnlySet("first") \cup OnlySet("second")
           D == DuplicateSet("first") \cup DuplicateSet("second")
<1>4. IsFiniteSet(O) /\ IsFiniteSet(D) /\ IsFiniteSet(O \cup D)
  <2>1. IsFiniteSet(O)
    BY <1>2, FS_Union
  <2>2. IsFiniteSet(D)
    BY <1>2, FS_Union
  <2> HIDE DEF O, D
  <2>. QED  BY <2>1, <2>2, FS_Union
<1>5. /\ \A e \in O : e.type \in {"only_left", "only_right"}
      /\ \A e \in D : e.type = "duplicate_key"
  BY TypesOfOnly, TypesOfDuplicates
<1> HIDE DEF O, D, F
<1>6. CASE config.producer \in {"memory", "disk"}
  <2>1. Events!ExpectedOnly = O /\ Events!ExpectedDuplicates = D
    BY <1>6, OnlyIsExpected, DuplicatesAreExpected DEF O, D
  <2>2. Compared = O \cup D /\ ComparedLater = {} /\ Events!Expected = O \cup D
    BY <1>6, <2>1 DEF Compared, ComparedLater, Events!Expected
  <2>. QED  BY <1>4, <1>5, <2>2 DEF DataTypes
<1>7. CASE config.producer = "fields"
  <2>1. Events!ExpectedOnly = O /\ Events!ExpectedDuplicates = {}
    BY <1>7, OnlyIsExpected DEF O, Events!ExpectedDuplicates
  <2>2. Compared = O /\ ComparedLater = F /\ Events!Expected = O \cup F
    BY <1>7, <2>1 DEF Compared, ComparedLater, Events!Expected, F
  <2>3. IsFiniteSet(O \cup F)
    BY <1>1, <1>4, FS_Union
  <2>. QED  BY <1>1, <1>5, <1>7, <2>2, <2>3 DEF DataTypes
<1>8. CASE config.producer = "sorted"
  <2>1. Events!ExpectedOnly = {} /\ Events!ExpectedDuplicates = {}
    BY <1>8 DEF Events!ExpectedOnly, Events!ExpectedDuplicates
  <2>2. Compared = F /\ ComparedLater = {} /\ Events!Expected = F
    BY <1>8, <2>1 DEF Compared, ComparedLater, Events!Expected, F
  <2>. QED  BY <1>1, <2>2 DEF DataTypes
<1>. QED  BY <1>6, <1>7, <1>8 DEF EventCallIsReal

(* The only events are counted as the summary counts them.                 *)
LEMMA OnlyCounted ==
    ASSUME EventCallIsReal, config.producer # "sorted", NEW side \in {"first", "second"}
    PROVE  Cardinality({e \in Events!Expected : e.type = Events!OnlyType(side)})
             = Cardinality(OnlyOf(side))
<1>1. ASSUME NEW e \in Events!Expected
      PROVE  \/ e \in OnlySet("first") \/ e \in OnlySet("second")
             \/ e.type \notin {"only_left", "only_right"}
  <2>1. Events!ExpectedOnly = OnlySet("first") \cup OnlySet("second")
    BY OnlyIsExpected
  <2>2. ASSUME e \in Events!ExpectedDuplicates PROVE e.type = "duplicate_key"
    <3>1. config.producer \in {"memory", "disk"}
      BY <2>2 DEF Events!ExpectedDuplicates
    <3>2. e \in DuplicateSet("first") \cup DuplicateSet("second")
      BY <2>2, <3>1, DuplicatesAreExpected
    <3>. QED  BY <3>2, TypesOfDuplicates
  <2>3. e \in Events!ToSet(Events!FieldEvents) => e.type \in {"row_changed", "field_change"}
    BY FieldEventsListed
  <2>. QED  BY <2>1, <2>2, <2>3 DEF Events!Expected
<1>2. OnlySet("first") \cup OnlySet("second") \subseteq Events!Expected
  BY OnlyIsExpected DEF Events!Expected
<1>3. {e \in Events!Expected : e.type = Events!OnlyType(side)} = OnlySet(side)
  <2>1. CASE side = "first"
    BY <1>1, <1>2, <2>1, TypesOfOnly
  <2>2. CASE side = "second"
    BY <1>1, <1>2, <2>2, TypesOfOnly
  <2>. QED  BY <2>1, <2>2
<1>. QED  BY <1>3, OnlyEventsListed

(* The events of the repeats of a result file, in any case.                *)
LEMMA RepeatsAreDuplicates ==
    ASSUME NEW repeats, NEW R, ListsOnce(repeats, R)
    PROVE  IsList(RepeatEvents(repeats)) /\ Len(RepeatEvents(repeats)) \in Nat
           /\ \A k \in 1..Len(RepeatEvents(repeats)) : RepeatEvents(repeats)[k].type = "duplicate_key"
<1> DEFINE m == Len(repeats)
           key(k) == Events!RowKey(repeats[k])
           ofKey(k) == {l \in 1..m : key(l) = key(k)}
           leading == {k \in 1..m : \A l \in ofKey(k) : k <= l}
           last(k) == CHOOSE l \in ofKey(k) : \A n \in ofKey(k) : n <= l
           q == Events!InOrder(leading)
           event(k) == Events!DuplicateEvent(key(k), repeats[last(k)].side, Events!DuplicateCount(ofKey(k)))
           p == RepeatEvents(repeats)
           T == {event(q[j]) : j \in 1..Len(q)}
<1>1. m \in Nat
  BY ListedOnceIsList
<1>2. IsFiniteSet(leading) /\ leading \subseteq Nat /\ leading \subseteq 1..m
  <2>1. IsFiniteSet(1..m) /\ leading \subseteq 1..m /\ leading \subseteq Nat
    BY <1>1, FS_Interval
  <2> HIDE DEF leading
  <2>. QED  BY <2>1, FS_Subset
<1>3. Len(q) \in Nat
  <2> HIDE DEF leading
  <2>. QED  BY <1>2, EventsInOrder
<1>4. p = [j \in 1..Len(q) |-> event(q[j])]
  BY DEF RepeatEvents
<1>5. \A k : event(k).type = "duplicate_key"
  BY DEF Events!DuplicateEvent
<1> HIDE DEF event, q, p
<1>6. p \in [1..Len(q) -> T]
  BY <1>4
<1>7. \A e \in T : e.type = "duplicate_key"
  BY <1>5
<1> HIDE DEF T
<1>8. p \in Seq(T)
  BY <1>3, <1>6
<1>. QED  BY <1>7, <1>8, ListOfAny DEF p

(* _write_legacy_result_events, over the rows of a result file. *)
LEMMA FileEventsListed ==
    ASSUME EventCallIsReal, config.producer = "disk", NEW rows \in Events!ResultFiles
    PROVE  LET p == Events!FileEvents(rows) IN
           /\ IsList(p) /\ \A k \in 1..Len(p) : p[k].type \in DataTypes
           /\ Assured => ListsOnce(p, Compared)
<1> DEFINE in(section) == Events!EntriesAt(rows, {k \in 1..Len(rows) : rows[k].section = section})
           only == in("only")
           repeats == in("duplicates")
           first == [k \in 1..Len(only) |-> Events!OnlyEvent(only[k].side, only[k].ordinal)]
           second == RepeatEvents(repeats)
           O == OnlySet("first") \cup OnlySet("second")
           D == DuplicateSet("first") \cup DuplicateSet("second")
<1>1. ListsOnce(only, RowsOfSection("only")) /\ ListsOnce(repeats, RowsOfSection("duplicates"))
  <2>1. \A section \in {"only", "duplicates"} : ListsOnce(in(section), RowsOfSection(section))
    BY EntriesListed
  <2> HIDE DEF in
  <2>. QED  BY <2>1
<1>2. Events!FileEvents(rows) = first \o second
  BY DEF Events!FileEvents, Events!Events, RepeatEvents
<1> HIDE DEF only, repeats
<1>3. ListsOnce(first, O)
  BY <1>1, OnlyOfFileListed
<1>4. IsList(second) /\ \A k \in 1..Len(second) : second[k].type = "duplicate_key"
  BY <1>1, RepeatsAreDuplicates
<1>5. Assured => ListsOnce(second, D)
  BY <1>1, RepeatsOfFileListed DEF Assured
<1>6. /\ \A e \in O : e.type \in {"only_left", "only_right"}
      /\ \A e \in D : e.type = "duplicate_key"
  BY TypesOfOnly, TypesOfDuplicates
<1>7. Compared = O \cup D
  BY OnlyIsExpected, DuplicatesAreExpected DEF Compared
<1> HIDE DEF first, second, O, D
<1>8. IsList(first \o second) /\ \A k \in 1..Len(first \o second) : (first \o second)[k].type \in DataTypes
  <2> DEFINE T == O \cup {second[k] : k \in 1..Len(second)}
             p == first \o second
  <2>1. \A e \in T : e.type \in DataTypes
    BY <1>4, <1>6 DEF DataTypes
  <2>2. first \in Seq(T) /\ second \in Seq(T)
    BY <1>3, <1>4 DEF ListsOnce, IsList
  <2> HIDE DEF T
  <2>3. p \in Seq(T)
    BY <2>2
  <2> HIDE DEF p
  <2>4. IsList(p) /\ \A k \in 1..Len(p) : p[k].type \in DataTypes
    BY <2>1, <2>3, ListOfAny
  <2>. QED  BY <2>4 DEF p
<1>9. Assured => ListsOnce(first \o second, O \cup D)
  <2>1. O \cap D = {}
    BY <1>6
  <2>. QED  BY <1>3, <1>5, <2>1, ListsJoin
<1>. QED  BY <1>2, <1>7, <1>8, <1>9

(* compare_result_events. *)
LEMMA ResultEventsListed ==
    ASSUME EventCallIsReal, config.producer = "memory"
    PROVE  ListsOnce(Events!ResultEvents, Compared)
<1> DEFINE O == OnlySet("first") \cup OnlySet("second")
           D == DuplicateSet("first")
           B == DuplicateSet("second")
           o == Events!OnlyEvents("first") \o Events!OnlyEvents("second")
           d == Events!DuplicateEvents("first")
           b == Events!DuplicateEvents("second")
<1>1. ListsOnce(o, O) /\ ListsOnce(d, D) /\ ListsOnce(b, B)
  BY OnlyListed, DuplicatesListed
<1>2. O \cap D = {} /\ (O \cup D) \cap B = {}
  <2>1. /\ \A e \in O : e.type \in {"only_left", "only_right"}
        /\ \A e \in D : e.type = "duplicate_key" /\ e.side = "first"
        /\ \A e \in B : e.type = "duplicate_key" /\ e.side = "second"
    BY TypesOfOnly, TypesOfDuplicates
  <2> HIDE DEF O, D, B
  <2>. QED  BY <2>1
<1>3. Compared = (O \cup D) \cup B
  BY OnlyIsExpected, DuplicatesAreExpected DEF Compared
<1>4. Events!ResultEvents = (o \o d) \o b
  BY DEF Events!ResultEvents
<1> HIDE DEF O, D, B, o, d, b
<1>5. ListsOnce(o \o d, O \cup D)
  BY <1>1, <1>2, ListsJoin
<1>6. ListsOnce((o \o d) \o b, (O \cup D) \cup B)
  BY <1>1, <1>2, <1>5, ListsJoin
<1>. QED  BY <1>3, <1>4, <1>6

(* What a comparison leaves to be written. *)
LEMMA ComparisonListed ==
    ASSUME EventCallIsReal, Events!Compare
    PROVE  /\ IsList(pending') /\ \A k \in 1..Len(pending') : pending'[k].type \in DataTypes
           /\ Assured => ListsOnce(pending', Compared)
<1> SUFFICES ASSUME config.producer # "disk" PROVE ListsOnce(pending', Compared)
  <2>1. CASE config.producer = "disk"
    <3>1. PICK rows \in Events!ResultFiles : pending' = Events!FileEvents(rows)
      BY <2>1 DEF Events!Compare
    <3>. QED  BY <2>1, <3>1, FileEventsListed
  <2>2. CASE config.producer # "disk"
    <3>1. ListsOnce(pending', Compared)
      BY <2>2
    <3>2. IsList(pending') /\ \A k \in 1..Len(pending') : pending'[k] \in Compared
      BY <3>1, ListedOnceIsList
    <3>. QED  BY <3>1, <3>2, ExpectedParts
  <2>. QED  BY <2>1, <2>2
<1>1. CASE config.producer = "memory"
  BY <1>1, ResultEventsListed DEF Events!Compare
<1>2. CASE config.producer = "fields"
  <2>1. Compared = OnlySet("first") \cup OnlySet("second")
    BY <1>2, OnlyIsExpected DEF Compared, Events!ExpectedDuplicates
  <2>. QED  BY <1>2, <2>1, OnlyListed DEF Events!Compare
<1>3. CASE config.producer = "sorted"
  BY <1>3, FieldEventsListed DEF Events!Compare, Compared
<1>. QED  BY <1>1, <1>2, <1>3 DEF EventCallIsReal

(* The lines written so far, those in the buffer last.                     *)
Lines == fp \o buffer

(* A list after a list.                                                    *)
LEMMA ListsJoined ==
    ASSUME NEW p, NEW q, IsList(p), IsList(q)
    PROVE  /\ IsList(p \o q) /\ p \o <<>> = p
           /\ Len(p) \in Nat /\ Len(q) \in Nat /\ Len(p \o q) = Len(p) + Len(q)
<1> DEFINE T == {p[k] : k \in 1..Len(p)} \cup {q[k] : k \in 1..Len(q)}
<1>1. p \in Seq(T) /\ q \in Seq(T)
  BY DEF IsList
<1> HIDE DEF T
<1>2. p \o q \in Seq(T)
  BY <1>1
<1>3. IsList(p \o q)
  BY <1>2, ListOfAny
<1>. QED  BY <1>1, <1>3

(* An entry more at the end of the second of two lists.                    *)
LEMMA AppendIsJoined ==
    ASSUME NEW p, NEW q, IsList(p), IsList(q), NEW e
    PROVE  p \o Append(q, e) = Append(p \o q, e)
<1> DEFINE T == {p[k] : k \in 1..Len(p)} \cup {q[k] : k \in 1..Len(q)} \cup {e}
<1>1. p \in Seq(T) /\ q \in Seq(T) /\ e \in T
  BY DEF IsList
<1> HIDE DEF T
<1>. QED  BY <1>1

(* The empty list.                                                         *)
LEMMA EmptyIsList == IsList(<<>>) /\ <<>> \o <<>> = <<>> /\ Len(<<>>) = 0
  BY DEF IsList

(* An entry more at the end of a list.                                     *)
LEMMA ListAppends ==
    ASSUME NEW q, IsList(q), NEW e
    PROVE  /\ IsList(Append(q, e)) /\ Len(q) \in Nat /\ Len(Append(q, e)) = Len(q) + 1
           /\ \A k \in 1..Len(q) : Append(q, e)[k] = q[k]
           /\ Append(q, e)[Len(q) + 1] = e
<1> DEFINE T == {q[k] : k \in 1..Len(q)} \cup {e}
<1>1. q \in Seq(T) /\ e \in T
  BY DEF IsList
<1> HIDE DEF T
<1>2. Append(q, e) \in Seq(T)
  BY <1>1
<1>3. IsList(Append(q, e))
  BY <1>2, ListOfAny
<1>. QED  BY <1>1, <1>3

(* An event is skipped, or its line is the last of the lines.              *)
LEMMA WriteAddsLine ==
    ASSUME IsList(fp), IsList(buffer), NEW event, Events!WriteEvent(event)
    PROVE  /\ IsList(fp') /\ IsList(buffer')
           /\ \/ Events!SkipEvent(event) /\ Lines' = Lines
              \/ Events!EmitEvent(event) /\ Lines' = Append(Lines, Events!OutputEvent(event))
<1>1. CASE Events!SkipEvent(event)
  BY <1>1 DEF Events!SkipEvent, Lines
<1>2. CASE Events!EmitEvent(event)
  <2> DEFINE line == Events!OutputEvent(event)
  <2>1. Events!TakeLine(line)
    BY <1>2 DEF Events!EmitEvent
  <2> HIDE DEF line
  <2>2. /\ IsList(Append(buffer, line)) /\ IsList(fp \o Append(buffer, line))
        /\ fp \o Append(buffer, line) = Append(fp \o buffer, line)
    <3>1. fp \o Append(buffer, line) = Append(fp \o buffer, line)
      BY AppendIsJoined
    <3>2. IsList(Append(buffer, line))
      BY ListAppends
    <3>3. IsList(fp \o Append(buffer, line))
      BY <3>2, ListsJoined
    <3>. QED  BY <3>1, <3>2, <3>3
  <2>3. CASE Events!FlushIsDue
    <3>1. fp' = fp \o Append(buffer, line) /\ buffer' = <<>>
      BY <2>1, <2>3 DEF Events!TakeLine
    <3>3. IsList(fp') /\ IsList(buffer')
      BY <2>2, <3>1, EmptyIsList
    <3>4. fp' \o <<>> = fp'
      BY <3>3, EmptyIsList, ListsJoined
    <3>. QED  BY <1>2, <2>2, <3>1, <3>3, <3>4 DEF Lines, line
  <2>4. CASE ~Events!FlushIsDue
    <3>1. fp' = fp /\ buffer' = Append(buffer, line)
      BY <2>1, <2>4 DEF Events!TakeLine
    <3>. QED  BY <1>2, <2>2, <3>1 DEF Lines, line
  <2>. QED  BY <2>3, <2>4
<1>. QED  BY <1>1, <1>2 DEF Events!WriteEvent

(* Closing the writer adds no line. *)
LEMMA CloseKeepsLines ==
    ASSUME IsList(fp), IsList(buffer), Events!CloseBuffer
    PROVE  IsList(fp') /\ buffer' = <<>> /\ IsList(buffer') /\ Lines' = Lines /\ fp' = Lines
<1>1. fp' = fp \o buffer /\ buffer' = <<>>
  BY DEF Events!CloseBuffer
<1>2. IsList(fp')
  BY <1>1, ListsJoined
<1>3. fp' \o <<>> = fp'
  BY <1>2, EmptyIsList, ListsJoined
<1>. QED  BY <1>1, <1>2, <1>3, EmptyIsList DEF Lines

(* The summary has the type summary also with the fields of the limits,    *)
(* and the other events are written as they are.                           *)
LEMMA OutputTypes ==
    /\ Events!OutputEvent(Events!Summary).type = "summary"
    /\ Events!OutputEvent(Events!Metadata) = Events!Metadata
    /\ Events!Metadata.type = "metadata"
    /\ \A e : e.type \in DataTypes => Events!OutputEvent(e) = e /\ ~Events!Envelope(e)
                                      /\ e.type # "summary"
    /\ Events!Envelope(Events!Metadata) /\ Events!Envelope(Events!Summary)
    /\ \A e : Events!Skips(e) => ~Events!Envelope(e)
<1>1. Events!Summary.type = "summary"
  BY DEF Events!Summary
<1>2. Events!SummaryEvent(Events!Summary).type = "summary"
  <2>1. "type" \in DOMAIN Events!Summary
    BY DEF Events!Summary
  <2>. QED  BY <1>1, <2>1 DEF Events!SummaryEvent
<1>. QED  BY <1>1, <1>2 DEF Events!OutputEvent, Events!Metadata, Events!Envelope, DataTypes, Events!Skips

(* Is the summary among the lines?                                         *)
Summarized == Events!Succeeding /\ phase \in {"close", "replace", "ended"}

(* The first line and the last, while no write has failed.                 *)
EndsAreTold ==
    /\ IsList(fp) /\ IsList(buffer)
    /\ phase \in {"open", "metadata"} => fp = <<>> /\ buffer = <<>>
    /\ phase \notin {"open", "metadata"} =>
          /\ Len(Lines) > 0 /\ Lines[1] = Events!Metadata
          /\ Lines[Len(Lines)].type = "summary" <=> Summarized
    /\ phase \in {"replace", "discard", "ended"} => buffer = <<>>

(* The events that wait are data.                                          *)
EventsWait == IsList(pending) /\ \A k \in 1..Len(pending) : pending[k].type \in DataTypes

StreamInv == EventCallIsReal /\ EventsWait /\ (~Events!Failed("output") => EndsAreTold)

(* The rows of an input that does not change.                              *)
LEMMA RowsAreKept == UNCHANGED input => \A side : RowsOf(side)' = RowsOf(side)
  BY DEF RowsOf

(* A call stays the call it is.                                            *)
LEMMA EventCallIsKept == EventCallIsReal /\ UNCHANGED <<input, config>> => EventCallIsReal'
  BY DEF EventCallIsReal, RowsOf

(* The next event to be written. *)
LEMMA NextWaits ==
    ASSUME EventsWait, pending # <<>>
    PROVE  /\ Events!Head(pending).type \in DataTypes
           /\ \A q : q = Events!Tail(pending) => IsList(q) /\ \A k \in 1..Len(q) : q[k].type \in DataTypes
<1> DEFINE T == {e \in {pending[k] : k \in 1..Len(pending)} : e.type \in DataTypes}
<1>1. pending \in Seq(T)
  <2>1. {pending[k] : k \in 1..Len(pending)} = T
    BY DEF EventsWait
  <2>. QED  BY <2>1 DEF EventsWait, IsList
<1>2. \A e \in T : e.type \in DataTypes
  OBVIOUS
<1> HIDE DEF T
<1>3. Head(pending) \in T /\ Tail(pending) \in Seq(T)
  BY <1>1
<1>. QED  BY <1>2, <1>3, ListOfAny

(* A line more, at the end. *)
LEMMA LineKeepsEnds ==
    ASSUME EndsAreTold, phase \notin {"open", "metadata"}, ~Summarized,
           NEW event, Events!WriteEvent(event), phase' \notin {"open", "metadata", "replace", "discard", "ended"},
           Events!OutputEvent(event).type = "summary" <=> Summarized',
           Events!Skips(event) => ~Summarized'
    PROVE  EndsAreTold'
<1>1. /\ IsList(fp') /\ IsList(buffer')
      /\ \/ Events!SkipEvent(event) /\ Lines' = Lines
         \/ Lines' = Append(Lines, Events!OutputEvent(event))
  BY WriteAddsLine DEF EndsAreTold
<1>2. IsList(Lines) /\ Len(Lines) \in Nat
  <2>1. IsList(fp) /\ IsList(buffer)
    BY DEF EndsAreTold
  <2>2. IsList(fp \o buffer)
    BY <2>1, ListsJoined
  <2>3. IsList(Lines)
    BY <2>2 DEF Lines
  <2>. QED  BY <2>3 DEF IsList
<1>3. Len(Lines) > 0 /\ Lines[1] = Events!Metadata /\ Lines[Len(Lines)].type # "summary"
  BY DEF EndsAreTold
<1>4. CASE Events!SkipEvent(event) /\ Lines' = Lines
  BY <1>1, <1>3, <1>4 DEF EndsAreTold, Events!SkipEvent
<1>5. CASE Lines' = Append(Lines, Events!OutputEvent(event))
  <2> DEFINE line == Events!OutputEvent(event)
  <2>1. Len(Lines') = Len(Lines) + 1 /\ Lines'[1] = Lines[1] /\ Lines'[Len(Lines) + 1] = line
    <3>1. \A e : Len(Append(Lines, e)) = Len(Lines) + 1 /\ Append(Lines, e)[1] = Lines[1]
                 /\ Append(Lines, e)[Len(Lines) + 1] = e
      BY <1>2, <1>3, ListAppends
    <3>. QED  BY <1>5, <3>1
  <2> HIDE DEF line
  <2>2. Len(Lines') > 0 /\ Lines'[1] = Events!Metadata /\ Lines'[Len(Lines')] = line
    BY <1>2, <1>3, <2>1
  <2>. QED  BY <1>1, <2>2 DEF EndsAreTold, line
<1>. QED  BY <1>1, <1>4, <1>5

(* Nothing failed as long as nothing was raised.                           *)
LEMMA NoFailureYet == Events!Succeeding => \A cause : ~Events!Failed(cause)
  <1>1. DOMAIN <<>> = {}
    OBVIOUS
  <1>. QED  BY <1>1 DEF Events!ToSet, Events!Succeeding, Events!Failed

(* The steps that write a line.                                            *)
LEMMA WritingKeepsStream ==
    ASSUME StreamInv, EventInv, Events!WriteMetadata \/ Events!WriteNext \/ Events!WriteSummary
    PROVE  StreamInv'
<1>0. /\ UNCHANGED <<input, config, raised>> /\ Events!Succeeding /\ Events!Succeeding'
      /\ ~Events!Failed("output") /\ EndsAreTold
  <2>1. UNCHANGED <<input, config, raised>>
    BY DEF Events!WriteMetadata, Events!WriteNext, Events!WriteSummary, Events!Write, Events!call
  <2>2. Events!Succeeding
    BY DEF EventInv, FilesAreHeld, Undisturbed, Events!WriteMetadata, Events!WriteNext, Events!WriteSummary
  <2>. QED  BY <2>1, <2>2, NoFailureYet DEF StreamInv, Events!Succeeding
<1>1. EventCallIsReal'
  BY <1>0, EventCallIsKept DEF StreamInv
<1>2. CASE Events!WriteMetadata
  <2>1. /\ phase = "metadata" /\ phase' = "compare" /\ pending' = pending
        /\ Events!WriteEvent(Events!Metadata)
    BY <1>2 DEF Events!WriteMetadata, Events!Write
  <2>2. fp = <<>> /\ buffer = <<>>
    BY <1>0, <2>1 DEF EndsAreTold
  <2>3. Lines = <<>> /\ IsList(fp) /\ IsList(buffer) /\ IsList(Lines)
    BY <2>2, EmptyIsList DEF Lines
  <2>4. /\ IsList(fp') /\ IsList(buffer')
        /\ \/ Events!SkipEvent(Events!Metadata)
           \/ Lines' = Append(Lines, Events!OutputEvent(Events!Metadata))
    BY <2>1, <2>3, WriteAddsLine
  <2>5. ~Events!SkipEvent(Events!Metadata)
    BY OutputTypes DEF Events!SkipEvent
  <2>6. Lines' = Append(<<>>, Events!Metadata)
    BY <2>3, <2>4, <2>5, OutputTypes
  <2>7. Len(Lines') = 1 /\ Lines'[1] = Events!Metadata
    BY <2>6
  <2>8. Lines'[Len(Lines')].type = "metadata"
    BY <2>7, OutputTypes
  <2>9. EndsAreTold'
    BY <2>1, <2>4, <2>7, <2>8 DEF EndsAreTold, Summarized
  <2>10. EventsWait'
    BY <2>1 DEF StreamInv, EventsWait
  <2>. QED  BY <1>1, <2>9, <2>10 DEF StreamInv
<1>3. CASE Events!WriteNext
  <2> DEFINE event == Events!Head(pending)
  <2>1. /\ phase \in {"events", "field_events"} /\ phase' = phase /\ pending # <<>>
        /\ pending' = Events!Tail(pending) /\ Events!WriteEvent(event)
    BY <1>3 DEF Events!WriteNext, Events!Write
  <2>2. event.type \in DataTypes
    BY <2>1, NextWaits DEF StreamInv
  <2>3. Events!OutputEvent(event).type # "summary"
    BY <2>2, OutputTypes
  <2> HIDE DEF event
  <2>4. ~Summarized /\ ~Summarized'
    BY <2>1 DEF Summarized
  <2>5. EndsAreTold'
    BY <1>0, <2>1, <2>3, <2>4, LineKeepsEnds
  <2>6. EventsWait'
    BY <2>1, NextWaits DEF StreamInv, EventsWait
  <2>. QED  BY <1>1, <2>5, <2>6 DEF StreamInv
<1>4. CASE Events!WriteSummary
  <2>1. /\ phase = "summary" /\ phase' = "close" /\ pending' = pending
        /\ Events!WriteEvent(Events!Summary)
    BY <1>4 DEF Events!WriteSummary, Events!Write
  <2>2. ~Summarized /\ Summarized'
    BY <1>0, <2>1 DEF Summarized
  <2>3. Events!OutputEvent(Events!Summary).type = "summary" /\ ~Events!Skips(Events!Summary)
    BY OutputTypes
  <2>5. EndsAreTold'
    BY <1>0, <2>1, <2>2, <2>3, LineKeepsEnds
  <2>6. EventsWait'
    BY <2>1 DEF StreamInv, EventsWait
  <2>. QED  BY <1>1, <2>5, <2>6 DEF StreamInv
<1>. QED  BY <1>2, <1>3, <1>4

(* The steps that leave the lines alone.                                   *)
LEMMA QuietStepKeepsStream ==
    ASSUME StreamInv, EventInv, EventInv',
           \/ Events!Open \/ Events!MakeResult \/ Events!Compare \/ Events!CompareFields
           \/ Events!FinishEvents \/ Events!UnlinkResult \/ Events!Replace \/ Events!Discard
    PROVE  StreamInv'
<1>1. UNCHANGED <<input, config, fp, buffer, raised>>
  BY DEF Events!Open, Events!MakeResult, Events!Compare, Events!CompareFields, Events!FinishEvents,
         Events!UnlinkResult, Events!Replace, Events!Discard, Events!call, Events!files, Events!writer
<1>2. EventCallIsReal'
  BY <1>1, EventCallIsKept DEF StreamInv
<1>3. EventsWait'
  <2>1. CASE Events!Compare
    BY <2>1, ComparisonListed DEF StreamInv, EventsWait
  <2>2. CASE Events!CompareFields
    <3>1. pending' = Events!FieldEvents
      BY <2>2 DEF Events!CompareFields
    <3>2. IsList(pending') /\ \A k \in 1..Len(pending') : pending'[k] \in Events!ToSet(Events!FieldEvents)
      BY <3>1, FieldEventsListed, ListedOnceIsList DEF StreamInv
    <3>. QED  BY <3>2, FieldEventsListed DEF EventsWait, DataTypes, StreamInv
  <2>3. CASE ~Events!Compare /\ ~Events!CompareFields
    <3>1. pending' = pending
      BY <2>3 DEF Events!Open, Events!MakeResult, Events!FinishEvents,
         Events!UnlinkResult, Events!Replace, Events!Discard, Events!call, Events!files, Events!writer
    <3>. QED  BY <3>1 DEF StreamInv, EventsWait
  <2>. QED  BY <2>1, <2>2, <2>3
<1>4. ASSUME EndsAreTold PROVE EndsAreTold'
  <2>1. Lines' = Lines /\ (Events!Succeeding <=> Events!Succeeding')
    BY <1>1 DEF Lines, Events!Succeeding
  <2>2. /\ phase \in {"open", "metadata"} \/ phase' \notin {"open", "metadata"}
        /\ phase' \in {"open", "metadata"} \/ phase \notin {"open", "metadata"}
        /\ phase' \in {"replace", "discard", "ended"} => phase \in {"replace", "discard", "ended"}
        /\ Summarized <=> Summarized'
    BY <2>1 DEF Events!Open, Events!MakeResult, Events!Compare, Events!CompareFields, Events!FinishEvents,
         Events!UnlinkResult, Events!Replace, Events!Discard, Summarized, EventInv, FilesAreHeld, Undisturbed
  <2>. QED  BY <1>1, <1>4, <2>1, <2>2 DEF EndsAreTold
<1>5. Events!Failed("output")' <=> Events!Failed("output")
  BY <1>1 DEF Events!Failed
<1>. QED  BY <1>2, <1>3, <1>4, <1>5 DEF StreamInv

(* Closing the writer moves the buffer to the file.                        *)
LEMMA ClosingKeepsStream ==
    ASSUME StreamInv, EventInv, Events!CloseWriter
    PROVE  StreamInv'
<1>1. /\ UNCHANGED <<input, config, raised, pending>> /\ phase = "close" /\ Events!CloseBuffer
      /\ phase' = IF ~config.output THEN "ended" ELSE IF Events!Succeeding THEN "replace" ELSE "discard"
  BY DEF Events!CloseWriter, Events!call
<1>2. EventCallIsReal' /\ EventsWait'
  BY <1>1, EventCallIsKept DEF StreamInv, EventsWait
<1>3. Summarized <=> Summarized'
  BY <1>1 DEF Summarized, Events!Succeeding
<1>4. ASSUME EndsAreTold PROVE EndsAreTold'
  <2>1. IsList(fp') /\ buffer' = <<>> /\ IsList(buffer') /\ Lines' = Lines
    BY <1>1, <1>4, CloseKeepsLines DEF EndsAreTold
  <2>2. phase' \notin {"open", "metadata"}
    BY <1>1
  <2>. QED  BY <1>1, <1>3, <1>4, <2>1, <2>2 DEF EndsAreTold
<1>5. Events!Failed("output")' <=> Events!Failed("output")
  BY <1>1 DEF Events!Failed
<1>. QED  BY <1>2, <1>4, <1>5 DEF StreamInv

(* The steps that raise. *)
LEMMA RaisingKeepsStream ==
    ASSUME StreamInv, EventInv, Events!Failure
    PROVE  StreamInv'
<1>1. UNCHANGED <<input, config, pending>>
  BY DEF Events!Failure, Events!OpenFails, Events!SourceRaises, Events!EventFails, Events!WriteFails,
         Events!UnlinkResultFails, Events!CloseWriterFails, Events!ReplaceFails, Events!DiscardFails,
         Events!call, Events!files
<1>2. EventCallIsReal' /\ EventsWait'
  BY <1>1, EventCallIsKept DEF StreamInv, EventsWait
<1>3. raised \in Seq(Cause)
  BY DEF EventInv, FilesAreHeld
<1>4. ASSUME NEW cause \in Cause, Events!RaiseNext(cause)
      PROVE  /\ ~Events!Succeeding'
             /\ Events!Failed("output")' <=> Events!Failed("output") \/ cause = "output"
  BY <1>3, <1>4, RaisedMore
<1>5. CASE Events!OpenFails \/ Events!EventFails \/ Events!CloseWriterFails \/ Events!ReplaceFails
  <2>1. Events!RaiseNext("output")
    BY <1>5 DEF Events!OpenFails, Events!EventFails, Events!WriteFails, Events!CloseWriterFails,
                Events!ReplaceFails, Events!Raise
  <2>2. Events!Failed("output")'
    BY <1>4, <2>1 DEF Cause
  <2>. QED  BY <1>2, <2>2 DEF StreamInv
<1>6. CASE Events!SourceRaises \/ Events!UnlinkResultFails \/ Events!DiscardFails
  <2>1. PICK cause \in {"source", "interrupt", "unlink"} : Events!RaiseNext(cause)
    BY <1>6 DEF Events!SourceRaises, Events!UnlinkResultFails, Events!DiscardFails, Events!Raise
  <2>2. ~Events!Succeeding' /\ (Events!Failed("output")' <=> Events!Failed("output"))
    BY <1>4, <2>1 DEF Cause
  <2>3. /\ UNCHANGED <<fp, buffer>> /\ phase \notin {"open", "metadata"}
        /\ phase' \notin {"open", "metadata"}
        /\ phase' \in {"replace", "discard", "ended"} => phase \in {"replace", "discard", "ended"}
        /\ phase \in {"close", "replace", "ended"} => ~Events!Succeeding
    BY <1>6 DEF Events!SourceRaises, Events!UnlinkResultFails, Events!DiscardFails, Events!Raise,
                Events!writer
  <2>4. ~Summarized /\ ~Summarized' /\ Lines' = Lines
    BY <2>2, <2>3 DEF Summarized, Lines
  <2>5. EndsAreTold => EndsAreTold'
    BY <2>3, <2>4 DEF EndsAreTold
  <2>. QED  BY <1>2, <2>2, <2>5 DEF StreamInv
<1>. QED  BY <1>5, <1>6 DEF Events!Failure

(* A stream that is accepted is one that was ended.                        *)
LEMMA StreamIsRefused ==
    ASSUME StreamInv PROVE Events!RefusedWhenIncomplete
<1> SUFFICES ASSUME phase = "ended", ~Events!Failed("output")
             PROVE  Events!Accepted(fp) <=> Events!Succeeding
  BY DEF Events!RefusedWhenIncomplete
<1>1. EndsAreTold
  BY DEF StreamInv
<1>2. IsList(fp) /\ Lines = fp
  <2>1. IsList(fp) /\ buffer = <<>>
    BY <1>1 DEF EndsAreTold
  <2>2. fp \o <<>> = fp
    BY <2>1, EmptyIsList, ListsJoined
  <2>. QED  BY <2>1, <2>2 DEF Lines
<1>3. Len(fp) > 0 /\ fp[1] = Events!Metadata /\ (fp[Len(fp)].type = "summary" <=> Events!Succeeding)
  BY <1>1, <1>2 DEF EndsAreTold, Summarized
<1>4. Len(<<>>) = 0
  OBVIOUS
<1>5. fp # <<>>
  BY <1>3, <1>4
<1>. QED  BY <1>3, <1>5, OutputTypes DEF Events!Accepted, Events!Last

(* The bytes of the lines of a list of events.                             *)
BytesOfEvents(list) == UNION {{k} \X (1..Events!Size(list[k])) : k \in 1..Len(list)}

(* A line has one unit of length or two.                                   *)
LEMMA EventHasSize == \A e : Events!Size(e) \in {1, 2}
  BY DEF Events!Size

(* The bytes of the lines are finitely many, and SizeOf counts them.       *)
LEMMA EventBytesAreFinite ==
    ASSUME NEW list, IsList(list)
    PROVE  /\ IsFiniteSet(BytesOfEvents(list)) /\ Events!SizeOf(list) \in Nat
           /\ Events!SizeOf(list) = Cardinality(BytesOfEvents(list))
<1> DEFINE n == Len(list)
           Part(k) == {k} \X (1..Events!Size(list[k]))
           Parts == {Part(k) : k \in 1..n}
<1>1. n \in Nat
  BY DEF IsList
<1>2. ASSUME NEW k \in 1..n PROVE IsFiniteSet(Part(k))
  <2> DEFINE size == Events!Size(list[k])
  <2>1. size \in Int
    BY EventHasSize
  <2> HIDE DEF size
  <2>2. IsFiniteSet(1..size) /\ IsFiniteSet({k})
    <3>1. 1 \in Int /\ size \in Int
      BY <2>1
    <3>2. IsFiniteSet(1..size)
      BY <3>1, FS_Interval
    <3>. QED  BY <3>2, FS_Singleton
  <2>3. IsFiniteSet({k} \X (1..size))
    BY <2>2, FS_Product
  <2>. QED  BY <2>3 DEF size
<1> HIDE DEF Part, n
<1>3. IsFiniteSet(Parts)
  <2> DEFINE f == [k \in 1..n |-> Part(k)]
  <2>1. f \in Surjection(1..n, Parts)
    BY DEF Surjection
  <2>2. IsFiniteSet(1..n)
    BY <1>1, FS_Interval
  <2>. QED  BY <2>1, <2>2, FS_Surjection
<1>4. IsFiniteSet(UNION Parts)
  BY <1>2, <1>3, FS_UNION
<1>5. UNION Parts = BytesOfEvents(list)
  BY DEF BytesOfEvents, Part, n
<1>6. Events!SizeOf(list) = Cardinality(BytesOfEvents(list))
  BY SameCounts DEF Events!SizeOf, BytesOfEvents
<1>. QED  BY <1>4, <1>5, <1>6, FS_CardinalityType

(* A line more has its own bytes more.                                     *)
LEMMA EventSizesAdd ==
    ASSUME NEW list, IsList(list), NEW e
    PROVE  Events!SizeOf(Append(list, e)) = Events!SizeOf(list) + Events!Size(e)
<1> DEFINE n == Len(list)
           more == Append(list, e)
           size == Events!Size(e)
           places == 1..size
           added == {n + 1} \X places
<1>1. /\ n \in Nat /\ IsList(more) /\ Len(more) = n + 1
      /\ \A k \in 1..n : more[k] = list[k]
      /\ more[n + 1] = e
  BY ListAppends
<1> HIDE DEF more
<1>2. size \in Nat
  BY EventHasSize
<1>3. 1..(n + 1) = 1..n \cup {n + 1}
  BY <1>1
<1>4. BytesOfEvents(more) = BytesOfEvents(list) \cup added
  BY <1>1, <1>3 DEF BytesOfEvents
<1>5. BytesOfEvents(list) \cap added = {}
  <2>1. ASSUME NEW place \in BytesOfEvents(list), place \in added PROVE FALSE
    <3>1. PICK k \in 1..n : place \in {k} \X (1..Events!Size(list[k]))
      BY DEF BytesOfEvents
    <3>2. place[1] = k /\ place[1] = n + 1
      BY <2>1, <3>1
    <3>. QED  BY <1>1, <3>1, <3>2
  <2>. QED  BY <2>1
<1> HIDE DEF size
<1>6. IsFiniteSet(places) /\ Cardinality(places) = size
  BY <1>2, FS_Interval
<1> HIDE DEF places
<1>7. IsFiniteSet(added) /\ Cardinality(added) = size
  <2>1. IsFiniteSet({n + 1}) /\ Cardinality({n + 1}) = 1
    BY FS_Singleton
  <2>2. IsFiniteSet(added) /\ Cardinality(added) = 1 * Cardinality(places)
    BY <1>6, <2>1, FS_Product
  <2>. QED  BY <1>2, <1>6, <2>2
<1> HIDE DEF added
<1>8. IsFiniteSet(BytesOfEvents(list)) /\ Cardinality(BytesOfEvents(list)) \in Nat
  BY EventBytesAreFinite, FS_CardinalityType
<1>9. Cardinality(BytesOfEvents(more))
        = Cardinality(BytesOfEvents(list)) + Cardinality(added) - Cardinality({})
  BY <1>4, <1>5, <1>7, <1>8, FS_Union
<1>10. Cardinality(BytesOfEvents(more)) = Cardinality(BytesOfEvents(list)) + size
  BY <1>2, <1>7, <1>8, <1>9, FS_EmptySet
<1>. QED  BY <1>1, <1>10, EventBytesAreFinite DEF more, size

-----------------------------------------------------------------------------
(* What a command has to report does not change.                           *)
LEMMA ExpectedIsKept ==
    ASSUME UNCHANGED <<input, config>>
    PROVE  /\ Events!Expected' = Events!Expected
           /\ Compared' = Compared /\ ComparedLater' = ComparedLater
           /\ Assured' <=> Assured
           /\ \A side : OnlyOf(side)' = OnlyOf(side)
<1>1. /\ \A side, i : Events!Key(side, i)' = Events!Key(side, i)
      /\ \A side : Events!Keys(side)' = Events!Keys(side)
  BY DEF Events!Key, Events!Keys
<1>2. Events!AllKeys' = Events!AllKeys
  BY DEF Events!AllKeys, Events!Key
<1>3. \A key, side : Events!Occurrences(key, side)' = Events!Occurrences(key, side)
  BY DEF Events!Occurrences, Events!Key
<1>4. \A i : Events!Partner(i)' = Events!Partner(i)
  BY DEF Events!Partner, Events!Key, Events!Keys
<1>5. Events!Matched' = Events!Matched
  BY DEF Events!Matched, Events!Key, Events!Keys
<1>6. Events!ChangedRows' = Events!ChangedRows
  BY <1>4, <1>5 DEF Events!ChangedRows
<1>7. Events!ReportedCount' = Events!ReportedCount
  BY <1>6 DEF Events!ReportedCount
<1>8. Events!FieldEvents' = Events!FieldEvents
  BY <1>1, <1>6, <1>7 DEF Events!FieldEvents
<1>9. Events!ExpectedOnly' = Events!ExpectedOnly
  BY <1>2, <1>3 DEF Events!ExpectedOnly
<1>10. Events!ExpectedDuplicates' = Events!ExpectedDuplicates
  BY <1>2, <1>3 DEF Events!ExpectedDuplicates
<1>11. Events!DuplicateOnBothSides' <=> Events!DuplicateOnBothSides
  BY <1>2, <1>3 DEF Events!DuplicateOnBothSides
<1>12. \A side : OnlyOf(side)' = OnlyOf(side)
  BY <1>1 DEF OnlyOf
<1>. QED  BY <1>8, <1>9, <1>10, <1>11, <1>12 DEF Events!Expected, Compared, ComparedLater, Assured

(* The entries of a list.                                                  *)
Members(list) == {list[k] : k \in 1..Len(list)}

(* What was reported by no line and is not still ahead: it was skipped.    *)
Missing(data, ahead) == Events!Expected \ (Members(data) \cup ahead)

(* A limit that leaves no room for an event after these.                   *)
NoRoom(data, event) ==
    \/ config.max_output_rows # None /\ Len(data) = config.max_output_rows
    \/ config.max_output_bytes # None /\ Events!SizeOf(data) + Events!Size(event) > config.max_output_bytes

(* The data lines and the events that are still ahead are different parts  *)
(* of what there is to report, the counters hold the first, and each event *)
(* of the rest has been skipped at a limit.                                *)
Accounted(data, ahead) ==
    /\ IsList(data)
    /\ \A k, l \in 1..Len(data) : data[k] = data[l] => k = l
    /\ Members(data) \subseteq Events!Expected /\ ahead \subseteq Events!Expected
    /\ Members(data) \cap ahead = {}
    /\ emitted = Len(data)
    /\ dataBytes = Events!SizeOf(data)
    /\ skipped = Cardinality(Missing(data, ahead))
    /\ Missing(data, ahead) # {} => truncated
    /\ config.max_output_rows # None => Len(data) <= config.max_output_rows
    /\ config.max_output_bytes # None /\ Len(data) > 0 =>
          Events!SizeOf(data) <= config.max_output_bytes
    /\ \A event \in Missing(data, ahead) : NoRoom(data, event)

(* The next event is skipped. *)
LEMMA SkippedIsAccounted ==
    ASSUME EventCallIsReal, UNCHANGED <<input, config>>,
           NEW data, NEW ahead, Accounted(data, ahead),
           NEW event \in ahead, Events!SkipEvent(event)
    PROVE  Accounted(data, ahead \ {event})'
<1> DEFINE rest == ahead \ {event}
<1>1. Events!Expected' = Events!Expected /\ IsFiniteSet(Events!Expected)
  BY ExpectedIsKept, ExpectedParts
<1>2. Missing(data, rest) = Missing(data, ahead) \cup {event} /\ event \notin Missing(data, ahead)
  BY DEF Missing, Accounted
<1>3. IsFiniteSet(Missing(data, ahead)) /\ Cardinality(Missing(data, ahead)) \in Nat
  BY <1>1, FS_Subset, FS_CardinalityType DEF Missing
<1>4. Cardinality(Missing(data, rest)) = Cardinality(Missing(data, ahead)) + 1
  BY <1>2, <1>3, FS_AddElement
<1>5. skipped' = skipped + 1 /\ truncated' /\ UNCHANGED <<emitted, dataBytes>>
  BY DEF Events!SkipEvent
<1>6. Missing(data, rest)' = Missing(data, rest)
  BY <1>1 DEF Missing
<1>7. NoRoom(data, event)
  <2>1. Events!OverRowLimit \/ Events!OverByteLimit(Events!Size(event))
    BY DEF Events!SkipEvent, Events!Skips
  <2>2. CASE Events!OverRowLimit
    <3>1. config.max_output_rows # None /\ emitted >= config.max_output_rows
      BY <2>2 DEF Events!OverRowLimit
    <3>2. config.max_output_rows \in Nat /\ Len(data) \in Nat
      BY <3>1 DEF EventCallIsReal, Accounted, IsList
    <3>3. emitted = Len(data) /\ Len(data) <= config.max_output_rows
      BY <3>1 DEF Accounted
    <3>. QED  BY <3>1, <3>2, <3>3 DEF NoRoom
  <2>3. CASE Events!OverByteLimit(Events!Size(event))
    BY <2>3 DEF Events!OverByteLimit, Accounted, NoRoom
  <2>. QED  BY <2>1, <2>2, <2>3
<1>8. \A e \in Missing(data, rest) : NoRoom(data, e)
  BY <1>2, <1>7 DEF Accounted
<1>9. \A e : NoRoom(data, e)' <=> NoRoom(data, e)
  BY DEF NoRoom
<1>10. /\ Members(data) \subseteq Events!Expected /\ rest \subseteq Events!Expected
       /\ Members(data) \cap rest = {}
  BY DEF Accounted
<1> HIDE DEF rest
<1>11. Accounted(data, rest)'
  <2>1. /\ IsList(data) /\ (\A k, l \in 1..Len(data) : data[k] = data[l] => k = l)
        /\ emitted' = Len(data) /\ dataBytes' = Events!SizeOf(data)
        /\ skipped' = Cardinality(Missing(data, rest))
    BY <1>4, <1>5 DEF Accounted
  <2>2. config.max_output_rows # None => Len(data) <= config.max_output_rows
    BY DEF Accounted
  <2>3. config.max_output_bytes # None /\ Len(data) > 0 =>
          Events!SizeOf(data) <= config.max_output_bytes
    BY DEF Accounted
  <2>4. \A e \in Missing(data, rest)' : NoRoom(data, e)'
    BY <1>6, <1>8, <1>9
  <2>. QED  BY <1>1, <1>5, <1>6, <1>10, <2>1, <2>2, <2>3, <2>4 DEF Accounted
<1>. QED  BY <1>11 DEF rest

(* The next event is written. *)
LEMMA EmittedIsAccounted ==
    ASSUME EventCallIsReal, UNCHANGED <<input, config>>,
           NEW data, NEW ahead, Accounted(data, ahead),
           NEW event \in ahead, event.type \in DataTypes, Events!EmitEvent(event)
    PROVE  /\ Accounted(Append(data, event), ahead \ {event})'
           /\ bytes' = bytes + Events!Size(event) /\ dataBytes' = dataBytes + Events!Size(event)
<1> DEFINE rest == ahead \ {event}
           more == Append(data, event)
           n == Len(data)
           size == Events!Size(event)
<1>1. Events!Expected' = Events!Expected
  BY ExpectedIsKept
<1>2. /\ n \in Nat /\ IsList(more) /\ Len(more) = n + 1
      /\ \A k \in 1..n : more[k] = data[k]
      /\ more[n + 1] = event
  BY ListAppends DEF Accounted
<1>3. /\ Events!SizeOf(more) = Events!SizeOf(data) + size
      /\ Events!SizeOf(data) \in Nat /\ size \in Nat
  BY EventSizesAdd, EventBytesAreFinite, EventHasSize DEF Accounted
<1>4. ~Events!Envelope(event) /\ ~Events!Skips(event)
  BY OutputTypes DEF Events!EmitEvent
<1>5. ~Events!OverRowLimit /\ ~Events!OverByteLimit(size)
  BY <1>4 DEF Events!Skips
<1>6. /\ emitted' = emitted + 1 /\ dataBytes' = dataBytes + size /\ bytes' = bytes + size
      /\ UNCHANGED <<skipped, truncated>>
  BY <1>4 DEF Events!EmitEvent, Events!CountBytes
<1> HIDE DEF more, size
<1>7. \A k \in 1..(n + 1) : k \in 1..n \/ k = n + 1
  BY <1>2
<1>8. Members(more) = Members(data) \cup {event}
  BY <1>2, <1>7 DEF Members
<1>9. \A k \in 1..n : data[k] # event
  BY DEF Accounted, Members
<1>10. \A k, l \in 1..Len(more) : more[k] = more[l] => k = l
  <2>1. \A k, l \in 1..n : data[k] = data[l] => k = l
    BY DEF Accounted
  <2>. QED  BY <1>2, <1>7, <1>9, <2>1
<1>11. Missing(more, rest) = Missing(data, ahead)
  BY <1>8 DEF Missing
<1>12. Missing(more, rest)' = Missing(data, ahead)
  BY <1>1, <1>11 DEF Missing
<1>13. config.max_output_rows # None =>
          config.max_output_rows \in Nat /\ n < config.max_output_rows
  <2>1. emitted = n
    BY DEF Accounted
  <2>2. config.max_output_rows # None => config.max_output_rows \in Nat
    BY DEF EventCallIsReal
  <2>. QED  BY <1>2, <1>5, <2>1, <2>2 DEF Events!OverRowLimit
<1>14. config.max_output_bytes # None =>
          /\ config.max_output_bytes \in Int
          /\ Events!SizeOf(more) <= config.max_output_bytes
  <2>1. dataBytes = Events!SizeOf(data)
    BY DEF Accounted
  <2>2. config.max_output_bytes # None => config.max_output_bytes \in Int
    BY DEF EventCallIsReal
  <2>. QED  BY <1>3, <1>5, <2>1, <2>2 DEF Events!OverByteLimit
<1>15. ASSUME NEW e \in Missing(data, ahead) PROVE NoRoom(more, e)
  <2>1. NoRoom(data, e)
    BY DEF Accounted
  <2>2. Events!Size(e) \in Nat
    BY EventHasSize
  <2>. QED  BY <1>2, <1>3, <1>13, <1>14, <2>1, <2>2 DEF NoRoom
<1>16. \A e : NoRoom(more, e)' <=> NoRoom(more, e)
  BY DEF NoRoom
<1>17. /\ Members(more) \subseteq Events!Expected /\ rest \subseteq Events!Expected
       /\ Members(more) \cap rest = {}
  <2>1. Members(data) \subseteq Events!Expected /\ ahead \subseteq Events!Expected
        /\ Members(data) \cap ahead = {}
    BY DEF Accounted
  <2>. QED  BY <1>8, <2>1
<1> HIDE DEF rest, n
<1>18. Accounted(more, rest)'
  <2>1. emitted' = Len(more) /\ dataBytes' = Events!SizeOf(more)
    BY <1>2, <1>3, <1>6 DEF Accounted, n
  <2>2. skipped' = Cardinality(Missing(more, rest)') /\ (Missing(more, rest)' # {} => truncated')
    BY <1>6, <1>12 DEF Accounted
  <2>3. config.max_output_rows # None => Len(more) <= config.max_output_rows
    BY <1>2, <1>13
  <2>4. \A e \in Missing(more, rest)' : NoRoom(more, e)'
    BY <1>12, <1>15, <1>16
  <2>. QED  BY <1>1, <1>2, <1>10, <1>14, <1>17, <2>1, <2>2, <2>3, <2>4 DEF Accounted
<1>. QED  BY <1>6, <1>18 DEF rest, more, size

(* What is still to be written or skipped.                                 *)
Ahead ==
    IF phase = "compare" THEN Events!Expected
    ELSE IF phase = "events" THEN Members(pending) \cup ComparedLater
    ELSE IF phase = "fields" THEN ComparedLater
    ELSE IF phase = "field_events" THEN Members(pending)
    ELSE {}

(* What the summary says.                                                  *)
Tells(line) ==
    /\ line.type = "summary"
    /\ config.producer # "sorted" =>
          \A side \in {"first", "second"} : line.only[side] = Cardinality(OnlyOf(side))
    /\ truncated => /\ line.output_truncated
                    /\ line.emitted_events = emitted
                    /\ line.skipped_events = skipped
                    /\ line.output_bytes = dataBytes + 1

Ended == phase \in {"close", "replace", "ended"}

(* The lines before the summary.                                           *)
Opened(data) == <<Events!Metadata>> \o data

(* The lines are metadata, data and, at the end, the summary.              *)
LinesAre(data) ==
    /\ ~Ended => bytes = dataBytes + 1 /\ Lines = Opened(data)
    /\ Ended => \E line : Tells(line) /\ Lines = Append(Opened(data), line)

(* The events that wait differ, and from those of the field diff to come.  *)
PendingIsAhead ==
    /\ phase \in {"events", "field_events"} =>
          \A k, l \in 1..Len(pending) : pending[k] = pending[l] => k = l
    /\ phase = "events" => Members(pending) \cap ComparedLater = {}

(* Which producer takes which way, and which has a result file there.      *)
RoutesAreKept ==
    /\ phase \in {"fields", "field_events"} => config.producer = "fields"
    /\ phase = "field_events" => result
    /\ phase \in {"compare", "events"} /\ result => config.producer = "disk"

(* The counters before the metadata.                                       *)
NothingIsCounted == emitted = 0 /\ skipped = 0 /\ bytes = 0 /\ dataBytes = 0 /\ ~truncated

(* What holds of the stream of a command that succeeds so far.             *)
WholeInv ==
    /\ RoutesAreKept
    /\ phase \in {"open", "metadata"} => NothingIsCounted
    /\ Events!Succeeding /\ Assured /\ phase \notin {"open", "metadata"} =>
          /\ PendingIsAhead
          /\ \E data : Accounted(data, Ahead) /\ LinesAre(data)
          /\ phase = "ended" => Events!Stream = Lines

(* A data line more after the metadata.                                    *)
LEMMA OpenedAppends ==
    ASSUME NEW data, IsList(data), NEW e
    PROVE  /\ Append(Opened(data), e) = Opened(Append(data, e))
           /\ IsList(Opened(data)) /\ Len(Opened(data)) = Len(data) + 1
           /\ Opened(<<>>) = <<Events!Metadata>>
<1> DEFINE m == Events!Metadata
           T == Members(data) \cup {e, m}
<1>1. data \in Seq(T) /\ e \in T /\ m \in T
  BY DEF IsList, Members
<1> HIDE DEF T, m
<1>2. <<m>> \o Append(data, e) = Append(<<m>> \o data, e)
  BY <1>1
<1>3. <<m>> \o data \in Seq(T) /\ Len(<<m>> \o data) = Len(data) + 1
  BY <1>1
<1>4. IsList(<<m>> \o data)
  BY <1>3, ListOfAny
<1>5. <<m>> \o <<>> = <<m>>
  OBVIOUS
<1>. QED  BY <1>2, <1>3, <1>4, <1>5 DEF Opened, m

(* Counters, limits and what there is to report stay as they are. *)
LEMMA AccountIsKept ==
    ASSUME UNCHANGED <<input, config, emitted, skipped, dataBytes, truncated>>, NEW data, NEW ahead
    PROVE  Accounted(data, ahead)' <=> Accounted(data, ahead)
<1>1. Events!Expected' = Events!Expected
  BY ExpectedIsKept
<1>2. Missing(data, ahead)' = Missing(data, ahead)
  BY <1>1 DEF Missing
<1>3. \A e : NoRoom(data, e)' <=> NoRoom(data, e)
  BY DEF NoRoom
<1>. QED  BY <1>1, <1>2, <1>3 DEF Accounted

(* A summary says the same as long as the counters stay.                   *)
LEMMA TellingIsKept ==
    ASSUME UNCHANGED <<input, config, emitted, skipped, dataBytes, truncated>>, NEW line, Tells(line)
    PROVE  Tells(line)'
<1>1. \A side : OnlyOf(side)' = OnlyOf(side)
  BY ExpectedIsKept
<1>. QED  BY <1>1 DEF Tells

(* The steps that write no line keep the account.                          *)
LEMMA QuietKeepsAccount ==
    ASSUME UNCHANGED <<input, config, emitted, skipped, bytes, dataBytes, truncated>>,
           Lines' = Lines, Ahead' = Ahead, Ended' <=> Ended,
           \E data : Accounted(data, Ahead) /\ LinesAre(data)
    PROVE  (\E data : Accounted(data, Ahead) /\ LinesAre(data))'
<1>1. PICK data : Accounted(data, Ahead) /\ LinesAre(data)
  OBVIOUS
<1>2. PICK ahead : ahead = Ahead
  OBVIOUS
<1>3. Accounted(data, ahead)'
  BY <1>1, <1>2, AccountIsKept
<1>4. LinesAre(data)'
  <2>1. CASE ~Ended
    BY <1>1, <2>1 DEF LinesAre, Opened, Events!Metadata
  <2>2. CASE Ended
    <3>1. PICK line : Tells(line) /\ Lines = Append(Opened(data), line)
      BY <1>1, <2>2 DEF LinesAre
    <3>2. Tells(line)'
      BY <3>1, TellingIsKept
    <3>3. Opened(data)' = Opened(data)
      BY DEF Opened, Events!Metadata
    <3>. QED  BY <2>2, <3>1, <3>2, <3>3 DEF LinesAre
  <2>. QED  BY <2>1, <2>2
<1>5. Accounted(data, Ahead)'
  BY <1>2, <1>3
<1>. QED  BY <1>4, <1>5

(* The metadata opens the stream.                                          *)
LEMMA MetadataOpens ==
    ASSUME EventCallIsReal, EndsAreTold, NothingIsCounted, Events!WriteMetadata
    PROVE  \E data : Accounted(data, Ahead)' /\ LinesAre(data)'
<1>1. /\ phase = "metadata" /\ phase' = "compare" /\ Events!WriteEvent(Events!Metadata)
      /\ UNCHANGED <<input, config>>
  BY DEF Events!WriteMetadata, Events!Write, Events!call
<1>2. fp = <<>> /\ buffer = <<>> /\ IsList(fp) /\ IsList(buffer) /\ Lines = <<>>
  BY <1>1, EmptyIsList DEF EndsAreTold, Lines
<1>3. /\ Events!EmitEvent(Events!Metadata)
      /\ Lines' = Append(<<>>, Events!Metadata)
  <2>1. \/ Events!SkipEvent(Events!Metadata)
        \/ /\ Events!EmitEvent(Events!Metadata)
           /\ Lines' = Append(Lines, Events!OutputEvent(Events!Metadata))
    BY <1>1, <1>2, WriteAddsLine
  <2>2. ~Events!SkipEvent(Events!Metadata)
    BY OutputTypes DEF Events!SkipEvent
  <2>. QED  BY <1>2, <2>1, <2>2, OutputTypes
<1>4. /\ emitted' = 0 /\ skipped' = 0 /\ dataBytes' = 0 /\ bytes' = 1
  <2>1. Events!Size(Events!Metadata) = 1
    BY DEF Events!Size, Events!Metadata
  <2>. QED  BY <1>3, <2>1, OutputTypes DEF Events!EmitEvent, Events!CountBytes, NothingIsCounted
<1>5. Lines' = Opened(<<>>)
  <2>1. Append(<<>>, Events!Metadata) = <<Events!Metadata>>
    OBVIOUS
  <2>. QED  BY <1>3, <2>1, EmptyIsList, OpenedAppends
<1>6. Ahead' = Events!Expected'
  BY <1>1 DEF Ahead
<1>7. IsList(<<>>) /\ Len(<<>>) = 0 /\ Members(<<>>) = {}
  BY EmptyIsList DEF Members
<1>8. Events!SizeOf(<<>>) = 0
  <2>1. BytesOfEvents(<<>>) = {}
    BY <1>7 DEF BytesOfEvents
  <2>. QED  BY <1>7, <2>1, EventBytesAreFinite, FS_EmptySet
<1>9. PICK ahead : ahead = Events!Expected'
  OBVIOUS
<1>10. Missing(<<>>, ahead)' = {}
  BY <1>9 DEF Missing
<1>11. Accounted(<<>>, ahead)'
  <2>1. Cardinality({}) = 0
    BY FS_EmptySet
  <2>2. config.max_output_rows # None => config.max_output_rows \in Nat
    BY DEF EventCallIsReal
  <2>3. config.max_output_rows # None => 0 <= config.max_output_rows
    BY <2>2
  <2>4. PICK none : none = <<>>
    OBVIOUS
  <2>5. /\ IsList(none) /\ Len(none) = 0 /\ Members(none) = {} /\ Events!SizeOf(none) = 0
        /\ Missing(none, ahead)' = {}
    BY <1>7, <1>8, <1>10, <2>4
  <2>6. 1..0 = {}
    OBVIOUS
  <2>7. Accounted(none, ahead)'
    BY <1>1, <1>4, <1>9, <2>1, <2>3, <2>5, <2>6 DEF Accounted
  <2>. QED  BY <2>4, <2>7
<1>12. LinesAre(<<>>)'
  <2>1. Opened(<<>>)' = Opened(<<>>)
    BY DEF Opened, Events!Metadata
  <2>. QED  BY <1>1, <1>4, <1>5, <2>1 DEF LinesAre, Ended
<1>. QED  BY <1>6, <1>9, <1>11, <1>12

(* The next event is skipped or is the next data line.                     *)
LEMMA NextIsAccounted ==
    ASSUME EventCallIsReal, EventsWait, EndsAreTold, PendingIsAhead, Events!WriteNext,
           NEW data, Accounted(data, Ahead), LinesAre(data)
    PROVE  PendingIsAhead' /\ \E more : Accounted(more, Ahead)' /\ LinesAre(more)'
<1> DEFINE event == Events!Head(pending)
<1>1. /\ phase \in {"events", "field_events"} /\ phase' = phase /\ pending # <<>>
      /\ pending' = Events!Tail(pending) /\ Events!WriteEvent(event)
      /\ UNCHANGED <<input, config>>
  BY DEF Events!WriteNext, Events!Write, Events!call
<1>2. /\ Len(pending) \in Nat /\ Len(pending) > 0 /\ event = pending[1]
      /\ Len(pending') = Len(pending) - 1
      /\ \A k \in 1..Len(pending') : pending'[k] = pending[k + 1]
  <2> DEFINE T == Members(pending)
  <2>1. pending \in Seq(T)
    BY DEF EventsWait, IsList, Members
  <2> HIDE DEF T
  <2>. QED  BY <1>1, <2>1
<1>3. event.type \in DataTypes
  BY <1>1, NextWaits
<1> HIDE DEF event
<1>4. \A k, l \in 1..Len(pending) : pending[k] = pending[l] => k = l
  BY <1>1 DEF PendingIsAhead
<1>5. Members(pending') = Members(pending) \ {event} /\ event \in Members(pending)
  <2>1. 1..Len(pending) = {1} \cup {k + 1 : k \in 1..Len(pending')}
    <3>1. \A k \in 1..Len(pending) : k = 1 \/ (k - 1 \in 1..Len(pending') /\ (k - 1) + 1 = k)
      BY <1>2
    <3>2. \A k \in 1..Len(pending') : k + 1 \in 1..Len(pending)
      BY <1>2
    <3>3. 1 \in 1..Len(pending)
      BY <1>2
    <3>. QED  BY <3>1, <3>2, <3>3
  <2>2. \A k \in 1..Len(pending') : k + 1 # 1 /\ k + 1 \in 1..Len(pending)
    BY <1>2
  <2>3. 1 \in 1..Len(pending)
    BY <1>2
  <2>4. \A k \in 1..Len(pending') : pending'[k] # event /\ pending'[k] \in Members(pending)
    BY <1>2, <1>4, <2>2, <2>3 DEF Members
  <2>5. ASSUME NEW e \in Members(pending), e # event PROVE e \in Members(pending')
    <3>1. PICK k \in 1..Len(pending) : e = pending[k]
      BY DEF Members
    <3>2. k # 1
      BY <1>2, <2>5, <3>1
    <3>3. k - 1 \in 1..Len(pending') /\ (k - 1) + 1 = k
      BY <1>2, <3>2
    <3>. QED  BY <1>2, <3>1, <3>3 DEF Members
  <2>6. event \in Members(pending)
    BY <1>2, <2>3 DEF Members
  <2>. QED  BY <2>4, <2>5, <2>6 DEF Members
<1>6. ComparedLater' = ComparedLater
  BY <1>1, ExpectedIsKept
<1>7. Ahead' = Ahead \ {event} /\ event \in Ahead
  <2>1. CASE phase = "events"
    <3>1. Members(pending) \cap ComparedLater = {}
      BY <2>1 DEF PendingIsAhead
    <3>2. Ahead = Members(pending) \cup ComparedLater
      BY <2>1 DEF Ahead
    <3>3. Ahead' = Members(pending') \cup ComparedLater
      BY <1>1, <1>6, <2>1 DEF Ahead, Members
    <3>. QED  BY <1>5, <3>1, <3>2, <3>3
  <2>2. CASE phase = "field_events"
    <3>1. Ahead = Members(pending) /\ Ahead' = Members(pending')
      BY <1>1, <2>2 DEF Ahead, Members
    <3>. QED  BY <1>5, <3>1
  <2>. QED  BY <1>1, <2>1, <2>2
<1>8. PendingIsAhead'
  <2>1. \A k, l \in 1..Len(pending') : pending'[k] = pending'[l] => k = l
    <3> SUFFICES ASSUME NEW k \in 1..Len(pending'), NEW l \in 1..Len(pending'), pending'[k] = pending'[l]
                 PROVE  k = l
      OBVIOUS
    <3>1. k + 1 \in 1..Len(pending) /\ l + 1 \in 1..Len(pending) /\ pending[k + 1] = pending[l + 1]
      BY <1>2
    <3>2. k + 1 = l + 1
      BY <1>4, <3>1
    <3>. QED  BY <1>2, <3>2
  <2>2. phase' = "events" => Members(pending') \cap ComparedLater' = {}
    BY <1>1, <1>5, <1>6 DEF PendingIsAhead
  <2>. QED  BY <2>1, <2>2 DEF PendingIsAhead, Members
<1>9. PICK ahead : ahead = Ahead
  OBVIOUS
<1>10. IsList(data) /\ dataBytes = Events!SizeOf(data) /\ dataBytes \in Nat
  BY EventBytesAreFinite DEF Accounted
<1>11. ~Ended /\ ~Ended' /\ bytes = dataBytes + 1 /\ Lines = Opened(data)
  BY <1>1 DEF LinesAre, Ended
<1>12. \A list : Opened(list)' = Opened(list)
  BY DEF Opened, Events!Metadata
<1>13. \/ Events!SkipEvent(event) /\ Lines' = Lines
       \/ Events!EmitEvent(event) /\ Lines' = Append(Lines, Events!OutputEvent(event))
  BY <1>1, WriteAddsLine DEF EndsAreTold
<1>14. CASE Events!SkipEvent(event) /\ Lines' = Lines
  <2>0. PICK e : e = event
    OBVIOUS
  <2>1. Accounted(data, ahead \ {e})'
    BY <1>1, <1>7, <1>9, <1>14, <2>0, SkippedIsAccounted
  <2>2. Accounted(data, Ahead)'
    BY <1>7, <1>9, <2>0, <2>1
  <2>3. UNCHANGED <<bytes, dataBytes>>
    BY <1>14 DEF Events!SkipEvent
  <2>4. LinesAre(data)'
    BY <1>11, <1>12, <1>14, <2>3 DEF LinesAre
  <2>. QED  BY <1>8, <2>2, <2>4
<1>15. CASE Events!EmitEvent(event) /\ Lines' = Append(Lines, Events!OutputEvent(event))
  <2>0. PICK e : e = event
    OBVIOUS
  <2>1. /\ Accounted(Append(data, e), ahead \ {e})'
        /\ bytes' = bytes + Events!Size(e) /\ dataBytes' = dataBytes + Events!Size(e)
    BY <1>1, <1>3, <1>7, <1>9, <1>15, <2>0, EmittedIsAccounted
  <2>2. Accounted(Append(data, e), Ahead)'
    BY <1>7, <1>9, <2>0, <2>1
  <2>3. Lines' = Opened(Append(data, e))
    <3>1. Events!OutputEvent(e) = e
      BY <1>3, <2>0, OutputTypes
    <3>2. Append(Opened(data), e) = Opened(Append(data, e))
      BY <1>10, OpenedAppends
    <3>. QED  BY <1>11, <1>15, <2>0, <3>1, <3>2
  <2>4. bytes' = dataBytes' + 1
    <3>1. Events!Size(e) \in Nat
      BY EventHasSize
    <3>. QED  BY <1>10, <1>11, <2>1, <3>1
  <2>5. LinesAre(Append(data, e))'
    BY <1>11, <1>12, <2>3, <2>4 DEF LinesAre
  <2>. QED  BY <1>8, <2>2, <2>5
<1>. QED  BY <1>13, <1>14, <1>15

(* The summary tells what was left out.                                    *)
LEMMA SummaryTells ==
    ASSUME EventCallIsReal, EndsAreTold, Events!WriteSummary,
           NEW data, Accounted(data, Ahead), LinesAre(data)
    PROVE  Accounted(data, Ahead)' /\ LinesAre(data)'
<1>1. /\ phase = "summary" /\ phase' = "close" /\ Events!WriteEvent(Events!Summary)
      /\ UNCHANGED <<input, config>>
  BY DEF Events!WriteSummary, Events!Write, Events!call
<1>2. /\ Events!EmitEvent(Events!Summary)
      /\ Lines' = Append(Lines, Events!SummaryEvent(Events!Summary))
  <2>1. \/ Events!SkipEvent(Events!Summary)
        \/ /\ Events!EmitEvent(Events!Summary)
           /\ Lines' = Append(Lines, Events!OutputEvent(Events!Summary))
    BY <1>1, WriteAddsLine DEF EndsAreTold
  <2>2. ~Events!SkipEvent(Events!Summary)
    BY OutputTypes DEF Events!SkipEvent
  <2>3. Events!Summary.type = "summary"
    BY DEF Events!Summary
  <2>. QED  BY <2>1, <2>2, <2>3 DEF Events!OutputEvent
<1>3. UNCHANGED <<emitted, skipped, dataBytes, truncated>>
  BY <1>2, OutputTypes DEF Events!EmitEvent
<1>4. Ahead = {} /\ Ahead' = {}
  BY <1>1 DEF Ahead
<1>5. Accounted(data, {})'
  BY <1>1, <1>3, <1>4, AccountIsKept
<1>6. ~Ended /\ Ended' /\ Lines = Opened(data) /\ bytes = dataBytes + 1
  BY <1>1 DEF Ended, LinesAre
<1> DEFINE line == Events!SummaryEvent(Events!Summary)
<1>7. Tells(line)
  <2>1. /\ DOMAIN Events!Summary = {"type", "rows", "common", "only", "duplicate", "changed_rows", "changed_fields"}
        /\ Events!Summary.type = "summary"
    BY DEF Events!Summary
  <2>2. line.type = "summary" /\ line.only = Events!Summary.only
    BY <2>1 DEF Events!SummaryEvent
  <2>3. config.producer # "sorted" =>
          \A side \in {"first", "second"} : Events!Summary.only[side] = Cardinality(OnlyOf(side))
    BY SameCounts DEF Events!Summary, Events!Side, OnlyOf
  <2>4. ASSUME truncated
        PROVE  /\ line.output_truncated
               /\ line.emitted_events = emitted
               /\ line.skipped_events = skipped
               /\ line.output_bytes = dataBytes + 1
    BY <1>6, <2>1, <2>4 DEF Events!SummaryEvent
  <2>. QED  BY <2>2, <2>3, <2>4 DEF Tells
<1> HIDE DEF line
<1>8. PICK told : told = line
  OBVIOUS
<1>9. Tells(told)'
  BY <1>1, <1>3, <1>7, <1>8, TellingIsKept
<1>10. Lines' = Append(Opened(data), told)
  BY <1>2, <1>6, <1>8 DEF line
<1>11. Opened(data)' = Opened(data)
  BY DEF Opened, Events!Metadata
<1>12. LinesAre(data)'
  BY <1>6, <1>9, <1>10, <1>11 DEF LinesAre
<1>. QED  BY <1>4, <1>5, <1>12

(* A step that writes no line keeps the account, if what it finishes and   *)
(* what it makes ready are the same.                                       *)
LEMMA QuietKeepsWhole ==
    ASSUME WholeInv, UNCHANGED <<input, config, raised, emitted, skipped, bytes, dataBytes, truncated>>,
           Lines' = Lines, phase \notin {"open", "metadata"}, phase' \notin {"open", "metadata"},
           RoutesAreKept',
           Events!Succeeding /\ Assured =>
              /\ Ahead' = Ahead /\ (Ended' <=> Ended) /\ PendingIsAhead'
              /\ phase' = "ended" => Events!Stream' = Lines
    PROVE  WholeInv'
<1>1. Events!Succeeding' = Events!Succeeding /\ (Assured' <=> Assured)
  BY ExpectedIsKept DEF Events!Succeeding
<1>2. ASSUME Events!Succeeding, Assured
      PROVE  (\E data : Accounted(data, Ahead) /\ LinesAre(data))'
  <2>1. \E data : Accounted(data, Ahead) /\ LinesAre(data)
    BY <1>2 DEF WholeInv
  <2>. QED  BY <1>2, <2>1, QuietKeepsAccount
<1>. QED  BY <1>1, <1>2 DEF WholeInv

(* What is ahead after a step, phase by phase.                             *)
LEMMA AheadOf ==
    ASSUME UNCHANGED <<input, config>>
    PROVE  /\ phase' = "compare" => Ahead' = Events!Expected
           /\ phase' = "events" => Ahead' = Members(pending') \cup ComparedLater
           /\ phase' = "fields" => Ahead' = ComparedLater
           /\ phase' = "field_events" => Ahead' = Members(pending')
           /\ phase' \notin {"compare", "events", "fields", "field_events"} => Ahead' = {}
  BY ExpectedIsKept DEF Ahead, Members

(* Making the temporary result file.                                       *)
LEMMA MakingKeepsWhole ==
    ASSUME WholeInv, Events!MakeResult
    PROVE  WholeInv'
<1>1. /\ UNCHANGED <<input, config, raised, emitted, skipped, bytes, dataBytes, truncated, fp, buffer, pending, phase>>
      /\ \/ phase = "compare" /\ config.producer = "disk"
         \/ phase = "fields"
      /\ result'
  BY DEF Events!MakeResult, Events!call, Events!writer
<1>2. Lines' = Lines /\ RoutesAreKept'
  BY <1>1 DEF Lines, RoutesAreKept, WholeInv
<1>3. Ahead' = Ahead /\ (Ended' <=> Ended) /\ PendingIsAhead'
  BY <1>1, AheadOf DEF Ahead, Ended, PendingIsAhead
<1>. QED  BY <1>1, <1>2, <1>3, QuietKeepsWhole

(* The comparisons put the events that are ahead in their list.            *)
LEMMA ComparingKeepsWhole ==
    ASSUME WholeInv, EventCallIsReal, Events!Compare \/ Events!CompareFields
    PROVE  WholeInv'
<1>1. /\ UNCHANGED <<input, config, raised, emitted, skipped, bytes, dataBytes, truncated, fp, buffer, result>>
      /\ phase \in {"compare", "fields"} /\ phase' \in {"events", "field_events"}
  BY DEF Events!Compare, Events!CompareFields, Events!call, Events!writer, Events!files
<1>2. ComparedLater' = ComparedLater
  BY <1>1, ExpectedIsKept
<1>3. CASE Events!Compare
  <2>1. phase = "compare" /\ phase' = "events"
    BY <1>3 DEF Events!Compare
  <2>2. Lines' = Lines /\ RoutesAreKept'
    BY <1>1, <2>1 DEF Lines, RoutesAreKept, WholeInv
  <2>3. ASSUME Assured PROVE Ahead' = Ahead /\ PendingIsAhead'
    <3>1. ListsOnce(pending', Compared)
      BY <1>3, <2>3, ComparisonListed
    <3>2. Members(pending') = Compared
      <4>1. \A k \in 1..Len(pending') : pending'[k] \in Compared
        BY <3>1, ListedOnceIsList
      <4>. QED  BY <3>1, <4>1 DEF ListsOnce, Members
    <3>3. Ahead' = Members(pending') \cup ComparedLater /\ Ahead = Events!Expected
      BY <1>1, <2>1, AheadOf DEF Ahead
    <3>4. Ahead' = Ahead /\ Members(pending') \cap ComparedLater' = {}
      BY <1>2, <3>2, <3>3, ExpectedParts
    <3>5. \A k, l \in 1..Len(pending') : pending'[k] = pending'[l] => k = l
      BY <3>1 DEF ListsOnce
    <3>. QED  BY <3>4, <3>5 DEF PendingIsAhead, Members
  <2>. QED  BY <1>1, <2>1, <2>2, <2>3, QuietKeepsWhole DEF Ended
<1>4. CASE Events!CompareFields
  <2>1. phase = "fields" /\ phase' = "field_events" /\ result /\ pending' = Events!FieldEvents
    BY <1>4 DEF Events!CompareFields
  <2>2. config.producer = "fields"
    BY <2>1 DEF WholeInv, RoutesAreKept
  <2>3. Lines' = Lines /\ RoutesAreKept'
    BY <1>1, <2>1, <2>2 DEF Lines, RoutesAreKept
  <2>4. ListsOnce(pending', ComparedLater)
    BY <2>1, <2>2, FieldEventsListed DEF ComparedLater
  <2>5. Members(pending') = ComparedLater
    <3>1. \A k \in 1..Len(pending') : pending'[k] \in ComparedLater
      BY <2>4, ListedOnceIsList
    <3>. QED  BY <2>4, <3>1 DEF ListsOnce, Members
  <2>6. Ahead' = Ahead
    BY <1>1, <2>1, <2>5, AheadOf DEF Ahead
  <2>7. PendingIsAhead'
    BY <2>1, <2>4 DEF PendingIsAhead, ListsOnce
  <2>. QED  BY <1>1, <2>1, <2>3, <2>6, <2>7, QuietKeepsWhole DEF Ended
<1>. QED  BY <1>3, <1>4

(* A list of events is finished, or its result file unlinked.              *)
LEMMA FinishingKeepsWhole ==
    ASSUME WholeInv, EventCallIsReal, EventInv, Events!FinishEvents \/ Events!UnlinkResult
    PROVE  WholeInv'
<1>1. /\ UNCHANGED <<input, config, raised, emitted, skipped, bytes, dataBytes, truncated, fp, buffer, pending>>
      /\ phase \in {"events", "field_events", "unlink"}
      /\ phase' \in {"unlink", "fields", "summary", "close"}
      /\ phase' = "close" => ~Events!Succeeding
  BY DEF Events!FinishEvents, Events!UnlinkResult, Events!call, Events!writer, Events!files
<1>2. Lines' = Lines
  BY <1>1 DEF Lines
<1>3. CASE Events!FinishEvents
  <2>1. /\ phase \in {"events", "field_events"} /\ pending = <<>> /\ result' = result
        /\ phase' = IF result THEN "unlink"
                    ELSE IF config.producer = "fields" THEN "fields" ELSE "summary"
    BY <1>3 DEF Events!FinishEvents, Events!files
  <2>2. RoutesAreKept'
    BY <1>1, <2>1 DEF RoutesAreKept
  <2>3. Members(pending) = {}
    <3>1. 1..Len(<<>>) = {}
      OBVIOUS
    <3>. QED  BY <2>1, <3>1 DEF Members
  <2>4. Ahead = IF phase = "events" THEN ComparedLater ELSE {}
    BY <2>1, <2>3 DEF Ahead
  <2>5. Ahead' = IF phase' = "fields" THEN ComparedLater ELSE {}
    BY <1>1, AheadOf
  <2>6. config.producer # "fields" => ComparedLater = {}
    BY DEF ComparedLater
  <2>7. /\ phase = "field_events" => result
        /\ phase = "events" /\ result => config.producer = "disk"
    BY DEF WholeInv, RoutesAreKept
  <2>8. Ahead' = Ahead
    BY <2>1, <2>4, <2>5, <2>6, <2>7
  <2>. QED  BY <1>1, <1>2, <2>1, <2>2, <2>8, QuietKeepsWhole DEF Ended, PendingIsAhead
<1>4. CASE Events!UnlinkResult
  <2>1. phase = "unlink" /\ phase' \in {"summary", "close"} /\ ~result'
    BY <1>4 DEF Events!UnlinkResult
  <2>2. RoutesAreKept'
    BY <2>1 DEF RoutesAreKept
  <2>3. Ahead' = Ahead
    BY <1>1, <2>1, AheadOf DEF Ahead
  <2>. QED  BY <1>1, <1>2, <2>1, <2>2, <2>3, QuietKeepsWhole DEF Ended, PendingIsAhead
<1>. QED  BY <1>3, <1>4

(* The writer is closed, the sibling replaces the output file.             *)
LEMMA ClosingKeepsWhole ==
    ASSUME WholeInv, EventInv, EndsAreTold, Events!CloseWriter \/ Events!Replace
    PROVE  WholeInv'
<1>1. /\ UNCHANGED <<input, config, raised, emitted, skipped, bytes, dataBytes, truncated, pending>>
      /\ phase \in {"close", "replace"} /\ phase' \in {"replace", "discard", "ended"}
      /\ phase' = "discard" => ~Events!Succeeding
  BY DEF Events!CloseWriter, Events!Replace, Events!CloseBuffer, Events!call, Events!writer, Events!files
<1>2. Lines' = Lines /\ (phase' = "ended" => Events!Stream' = Lines)
  <2>1. CASE Events!CloseWriter
    <3>1. /\ Events!CloseBuffer
          /\ phase' = "ended" => ~config.output
      BY <2>1 DEF Events!CloseWriter
    <3>2. Lines' = Lines /\ fp' = Lines
      BY <3>1, CloseKeepsLines DEF EndsAreTold
    <3>. QED  BY <1>1, <3>1, <3>2 DEF Events!Stream
  <2>2. CASE Events!Replace
    <3>1. phase = "replace" /\ target' = fp /\ fp' = fp /\ buffer' = buffer
      BY <2>2 DEF Events!Replace, Events!writer
    <3>2. IsList(fp) /\ buffer = <<>>
      BY <3>1 DEF EndsAreTold
    <3>3. fp \o <<>> = fp
      BY <3>2, EmptyIsList, ListsJoined
    <3>4. Lines' = Lines /\ Lines = fp
      BY <3>1, <3>2, <3>3 DEF Lines
    <3>. QED  BY <3>1, <3>4 DEF Events!Stream
  <2>. QED  BY <2>1, <2>2
<1>3. RoutesAreKept' /\ PendingIsAhead'
  BY <1>1 DEF RoutesAreKept, PendingIsAhead
<1>4. Ahead' = Ahead
  BY <1>1, AheadOf DEF Ahead
<1>. QED  BY <1>1, <1>2, <1>3, <1>4, QuietKeepsWhole DEF Ended

(* The metadata, the next event or the summary is written.                 *)
LEMMA WritingKeepsWhole ==
    ASSUME WholeInv, StreamInv, EventInv, EndsAreTold, Events!WriteMetadata \/ Events!WriteNext \/ Events!WriteSummary
    PROVE  WholeInv'
<1>1. UNCHANGED <<input, config, raised, result>> /\ EventCallIsReal /\ EventsWait
  BY DEF Events!WriteMetadata, Events!WriteNext, Events!WriteSummary, Events!Write, Events!call, Events!files,
         StreamInv
<1>2. Events!Succeeding' = Events!Succeeding /\ (Assured' <=> Assured)
  BY <1>1, ExpectedIsKept DEF Events!Succeeding
<1>3. CASE Events!WriteMetadata
  <2>1. phase = "metadata" /\ phase' = "compare"
    BY <1>3 DEF Events!WriteMetadata
  <2>2. \E data : Accounted(data, Ahead)' /\ LinesAre(data)'
    BY <1>1, <1>3, <2>1, MetadataOpens DEF WholeInv
  <2>3. RoutesAreKept' /\ PendingIsAhead'
    BY <1>1, <2>1 DEF RoutesAreKept, PendingIsAhead, EventInv, FilesAreHeld
  <2>4. (\E data : Accounted(data, Ahead) /\ LinesAre(data))'
    BY <2>2
  <2>. QED  BY <2>1, <2>3, <2>4 DEF WholeInv
<1>4. CASE Events!WriteNext
  <2>1. phase \in {"events", "field_events"} /\ phase' = phase
    BY <1>4 DEF Events!WriteNext
  <2>2. RoutesAreKept'
    BY <1>1, <2>1 DEF RoutesAreKept, WholeInv
  <2>3. ASSUME Events!Succeeding, Assured
        PROVE  PendingIsAhead' /\ \E data : Accounted(data, Ahead)' /\ LinesAre(data)'
    <3>1. PendingIsAhead /\ \E data : Accounted(data, Ahead) /\ LinesAre(data)
      BY <2>1, <2>3 DEF WholeInv
    <3>2. PICK data : Accounted(data, Ahead) /\ LinesAre(data)
      BY <3>1
    <3>. QED  BY <1>1, <1>4, <3>1, <3>2, NextIsAccounted
  <2>. QED  BY <1>2, <2>1, <2>2, <2>3 DEF WholeInv
<1>5. CASE Events!WriteSummary
  <2>1. phase = "summary" /\ phase' = "close"
    BY <1>5 DEF Events!WriteSummary
  <2>2. RoutesAreKept' /\ PendingIsAhead'
    BY <2>1 DEF RoutesAreKept, PendingIsAhead
  <2>3. ASSUME Events!Succeeding, Assured
        PROVE  \E data : Accounted(data, Ahead)' /\ LinesAre(data)'
    <3>1. PICK data : Accounted(data, Ahead) /\ LinesAre(data)
      BY <2>1, <2>3 DEF WholeInv
    <3>. QED  BY <1>1, <1>5, <3>1, SummaryTells
  <2>. QED  BY <1>2, <2>1, <2>2, <2>3 DEF WholeInv
<1>. QED  BY <1>3, <1>4, <1>5

(* Nothing is promised of a command that failed.                           *)
LEMMA RaisingKeepsWhole ==
    ASSUME WholeInv, EventInv, Events!Failure
    PROVE  WholeInv'
<1>1. raised \in Seq(Cause)
  BY DEF EventInv, FilesAreHeld
<1>2. PICK cause \in Cause : Events!RaiseNext(cause)
  BY DEF Events!Failure, Events!OpenFails, Events!SourceRaises, Events!EventFails, Events!WriteFails,
         Events!UnlinkResultFails, Events!CloseWriterFails, Events!ReplaceFails, Events!DiscardFails,
         Events!Raise, Cause
<1>3. ~Events!Succeeding'
  BY <1>1, <1>2, RaisedMore
<1>4. phase' \in {"unlink", "close", "discard", "ended"}
  BY DEF Events!Failure, Events!OpenFails, Events!SourceRaises, Events!EventFails, Events!WriteFails,
         Events!UnlinkResultFails, Events!CloseWriterFails, Events!ReplaceFails, Events!DiscardFails,
         Events!Raise
<1>. QED  BY <1>3, <1>4 DEF WholeInv, RoutesAreKept

-----------------------------------------------------------------------------
(* A list without its first entry and its last.                            *)
LEMMA MiddleOf ==
    ASSUME NEW T, NEW n \in Nat, NEW s \in Seq(T), Len(s) = n + 2
    PROVE  LET part == SubSeq(s, 2, n + 1) IN
           /\ part \in Seq(T) /\ Len(part) = n
           /\ \A k \in 1..n : part[k] = s[k + 1]
<1> DEFINE part == SubSeq(s, 2, n + 1)
           last == n + 1
<1>1. 2 \in Int /\ last \in Int /\ \A i \in 2..last : s[i] \in T
  OBVIOUS
<1> HIDE DEF last
<1>2. /\ SubSeq(s, 2, last) \in Seq(T)
      /\ Len(SubSeq(s, 2, last)) = IF 2 <= last THEN last - 2 + 1 ELSE 0
  BY <1>1, SubSeqProperties
<1>3. \A i \in 1..(last - 2 + 1) : SubSeq(s, 2, last)[i] = s[2 + i - 1]
  BY <1>1, SubSeqProperties
<1> DEFINE q == SubSeq(s, 2, last)
<1> HIDE DEF q
<1>4. q \in Seq(T) /\ Len(q) = IF 2 <= last THEN last - 2 + 1 ELSE 0
  BY <1>2 DEF q
<1>5. \A i \in 1..(last - 2 + 1) : q[i] = s[2 + i - 1]
  BY <1>3 DEF q
<1>6. Len(q) = n
  BY <1>4 DEF last
<1>7. \A k \in 1..n : q[k] = s[k + 1]
  <2> SUFFICES ASSUME NEW k \in 1..n PROVE q[k] = s[k + 1]
    OBVIOUS
  <2>1. k \in 1..(last - 2 + 1) /\ 2 + k - 1 = k + 1
    BY DEF last
  <2>. QED  BY <1>5, <2>1
<1>. QED  BY <1>4, <1>6, <1>7 DEF q, last

(* What the lines say when the command is done.                            *)
LEMMA DataOfLines ==
    ASSUME NEW data, IsList(data), NEW line, NEW stream, stream = Append(Opened(data), line)
    PROVE  /\ Len(stream) = Len(data) + 2 /\ Len(stream) >= 2
           /\ Events!Head(stream) = Events!Metadata
           /\ Events!Last(stream) = line
           /\ Events!SubSeq(stream, 2, Events!Len(stream) - 1) = data
<1> DEFINE m == Events!Metadata
           n == Len(data)
           T == Members(data) \cup {line, m}
<1>1. data \in Seq(T) /\ line \in T /\ m \in T
  BY DEF IsList, Members
<1>2. n \in Nat /\ data = [k \in 1..n |-> data[k]]
  BY <1>1
<1>3. stream = Append(<<m>> \o data, line)
  BY DEF Opened
<1> HIDE DEF T, m, n
<1>4. /\ stream \in Seq(T) /\ Len(stream) = n + 2
      /\ stream[1] = m /\ stream[n + 2] = line
      /\ \A k \in 1..n : stream[k + 1] = data[k]
  BY <1>1, <1>2, <1>3 DEF n
<1>5. SubSeq(stream, 2, n + 1) \in Seq(T) /\ Len(SubSeq(stream, 2, n + 1)) = n
      /\ \A k \in 1..n : SubSeq(stream, 2, n + 1)[k] = stream[k + 1]
  BY <1>2, <1>4, MiddleOf
<1>6. SubSeq(stream, 2, n + 1) = data
  <2> DEFINE part == SubSeq(stream, 2, n + 1)
  <2>1. part = [k \in 1..n |-> part[k]]
    <3> HIDE DEF part
    <3>1. part \in Seq(T) /\ Len(part) = n
      BY <1>5 DEF part
    <3>. QED  BY <1>2, <3>1
  <2>2. \A k \in 1..n : part[k] = data[k]
    BY <1>4, <1>5
  <2> HIDE DEF part
  <2>3. part = data
    BY <1>2, <2>1, <2>2
  <2>. QED  BY <2>3 DEF part
<1>7. Len(stream) - 1 = n + 1
  BY <1>2, <1>4
<1>8. Head(stream) = m
  BY <1>4
<1>. QED  BY <1>2, <1>4, <1>6, <1>7, <1>8 DEF Events!Last, m, n

(* Done, the lines are the property's metadata, data and summary.          *)
LEMMA StreamHoldsAll ==
    ASSUME WholeInv, EventCallIsReal PROVE Events!StreamIsWhole
<1> SUFFICES ASSUME phase = "ended", Events!Succeeding, Assured
             PROVE  Events!StreamIsWhole
  BY DEF Events!StreamIsWhole, Events!Done, Assured
<1> DEFINE stream == Events!Stream
<1>1. PICK data : Accounted(data, Ahead) /\ LinesAre(data)
  BY DEF WholeInv
<1>2. stream = Lines
  BY DEF WholeInv
<1>3. PICK line : Tells(line) /\ Lines = Append(Opened(data), line)
  BY <1>1 DEF LinesAre, Ended
<1>4. /\ Len(stream) = Len(data) + 2 /\ Len(stream) >= 2
      /\ Events!Head(stream) = Events!Metadata
      /\ Events!Last(stream) = line
      /\ Events!SubSeq(stream, 2, Events!Len(stream) - 1) = data
  BY <1>1, <1>2, <1>3, DataOfLines DEF Accounted
<1>5. Ahead = {} /\ Missing(data, Ahead) = Events!Expected \ Members(data)
  BY DEF Ahead, Missing
<1>6. Events!ToSet(data) = Members(data) /\ DOMAIN data = 1..Len(data)
  BY <1>1 DEF Accounted, IsList, Events!ToSet, Members
<1> DEFINE missing == Events!Expected \ Events!ToSet(data)
<1>7. missing = Missing(data, Ahead)
  BY <1>5, <1>6
<1>8. Events!IsInjective(data) /\ Events!ToSet(data) \subseteq Events!Expected
  BY <1>1, <1>6 DEF Accounted, Events!IsInjective
<1>9. data # <<>> => Len(data) > 0
  BY <1>1 DEF Accounted, IsList
<1>10. \A event \in missing :
          \/ Len(data) = config.max_output_rows
          \/ /\ config.max_output_bytes # None
             /\ Events!SizeOf(data) + Events!Size(event) > config.max_output_bytes
  BY <1>1, <1>7 DEF Accounted, NoRoom
<1>11. \A side \in {"first", "second"} : config.producer # "sorted" =>
          line.only[side] = Events!Cardinality({e \in Events!Expected : e.type = Events!OnlyType(side)})
  BY <1>3, OnlyCounted, SameCounts DEF Tells
<1>12. missing # {} => /\ line.output_truncated
                       /\ line.skipped_events = Events!Cardinality(missing)
                       /\ line.emitted_events = Len(data)
                       /\ line.output_bytes = Events!SizeOf(data) + Events!Size(Events!Metadata)
  <2>1. Events!Size(Events!Metadata) = 1
    BY DEF Events!Size, Events!Metadata
  <2>2. Events!Cardinality(missing) = Cardinality(Missing(data, Ahead))
    BY <1>7, SameCounts
  <2>. QED  BY <1>1, <1>3, <1>7, <2>1, <2>2 DEF Accounted, Tells
<1>13. /\ config.max_output_rows # None => Len(data) <= config.max_output_rows
       /\ config.max_output_bytes # None /\ data # <<>> =>
             Events!SizeOf(data) <= config.max_output_bytes
  BY <1>1, <1>9 DEF Accounted
<1> HIDE DEF stream
<1>14. line.type = "summary"
  BY <1>3 DEF Tells
<1>. QED
  BY <1>4, <1>8, <1>10, <1>11, <1>12, <1>13, <1>14 DEF Events!StreamIsWhole, Events!Side, stream

(* The invariant of an event stream, from the first state on.              *)
LEMMA StreamBegins == Events!Init => StreamInv /\ WholeInv
<1> SUFFICES ASSUME Events!Init PROVE StreamInv /\ WholeInv
  OBVIOUS
<1>1. EventCallIsReal
  <2>1. PICK c \in EventCalls : input = c.input /\ config = c.config
    BY DEF Events!Init
  <2>. QED  BY <2>1, EventCallsAreReal DEF EventCallIsReal, RowsOf
<1>2. /\ fp = <<>> /\ buffer = <<>> /\ pending = <<>> /\ phase = "open"
      /\ emitted = 0 /\ skipped = 0 /\ bytes = 0 /\ dataBytes = 0 /\ truncated = FALSE
  BY DEF Events!Init, Events!WriterInit
<1>3. EventsWait
  <2>1. 1..Len(<<>>) = {}
    OBVIOUS
  <2>. QED  BY <1>2, <2>1, EmptyIsList DEF EventsWait
<1>4. EndsAreTold
  BY <1>2, EmptyIsList DEF EndsAreTold
<1>5. WholeInv
  BY <1>2 DEF WholeInv, RoutesAreKept, NothingIsCounted
<1>. QED  BY <1>1, <1>3, <1>4, <1>5 DEF StreamInv

(* Every step of an event command keeps both invariants.                   *)
LEMMA StreamStays ==
    ASSUME EventInv, EventInv', StreamInv, WholeInv, [Events!Next]_(Events!vars)
    PROVE  StreamInv' /\ WholeInv'
<1>1. CASE Events!Failure
  BY <1>1, RaisingKeepsStream, RaisingKeepsWhole
<1>2. CASE Events!WriteMetadata \/ Events!WriteNext \/ Events!WriteSummary
  <2>1. phase \in Undisturbed
    BY <1>2 DEF Events!WriteMetadata, Events!WriteNext, Events!WriteSummary, Undisturbed
  <2>2. EndsAreTold
    BY <2>1, NoFailureYet DEF StreamInv, EventInv, FilesAreHeld
  <2>. QED  BY <1>2, <2>2, WritingKeepsStream, WritingKeepsWhole
<1>3. CASE Events!CloseWriter
  <2>1. StreamInv'
    BY <1>3, ClosingKeepsStream
  <2>2. CASE Events!Succeeding
    <3>1. EndsAreTold
      BY <2>2, NoFailureYet DEF StreamInv
    <3>. QED  BY <1>3, <2>1, <3>1, ClosingKeepsWhole
  <2>3. CASE ~Events!Succeeding
    <3>1. ~Events!Succeeding' /\ phase' \in {"ended", "discard", "replace"}
      BY <1>3, <2>3 DEF Events!CloseWriter, Events!Succeeding
    <3>2. WholeInv'
      BY <3>1 DEF WholeInv, RoutesAreKept
    <3>. QED  BY <2>1, <3>2
  <2>. QED  BY <2>2, <2>3
<1>4. CASE Events!Replace
  <2>1. StreamInv'
    BY <1>4, QuietStepKeepsStream
  <2>2. EndsAreTold
    BY <1>4, NoFailureYet DEF StreamInv, EventInv, FilesAreHeld, Undisturbed, Events!Replace
  <2>. QED  BY <1>4, <2>1, <2>2, ClosingKeepsWhole
<1>5. CASE Events!MakeResult \/ Events!Compare \/ Events!CompareFields \/ Events!FinishEvents
           \/ Events!UnlinkResult
  <2>1. StreamInv'
    BY <1>5, QuietStepKeepsStream
  <2>2. WholeInv'
    BY <1>5, MakingKeepsWhole, ComparingKeepsWhole, FinishingKeepsWhole DEF StreamInv
  <2>. QED  BY <2>1, <2>2
<1>6. CASE Events!Open
  <2>1. StreamInv'
    BY <1>6, QuietStepKeepsStream
  <2>2. /\ phase = "open" /\ phase' = "metadata"
        /\ UNCHANGED <<emitted, skipped, bytes, dataBytes, truncated>>
    BY <1>6 DEF Events!Open, Events!writer
  <2>3. WholeInv'
    BY <2>2 DEF WholeInv, RoutesAreKept, NothingIsCounted
  <2>. QED  BY <2>1, <2>3
<1>7. CASE Events!Discard
  <2>1. StreamInv'
    BY <1>7, QuietStepKeepsStream
  <2>2. ~Events!Succeeding' /\ phase' = "ended"
    BY <1>7 DEF Events!Discard, EventInv, FilesAreHeld, Events!Succeeding
  <2>3. WholeInv'
    BY <2>2 DEF WholeInv, RoutesAreKept
  <2>. QED  BY <2>1, <2>3
<1>8. CASE UNCHANGED Events!vars
  <2>1. UNCHANGED <<input, config, fp, buffer, emitted, skipped, bytes, dataBytes, truncated,
                    phase, raised, pending, result, sibling, target>>
    BY <1>8 DEF Events!vars, Events!call, Events!files, Events!writer
  <2>2. Events!Succeeding' = Events!Succeeding /\ Lines' = Lines /\ Summarized' = Summarized
        /\ (Events!Failed("output")' <=> Events!Failed("output")) /\ (Ended' <=> Ended)
        /\ Events!Stream' = Events!Stream
    BY <2>1 DEF Events!Succeeding, Lines, Summarized, Events!Failed, Ended, Events!Stream
  <2>3. EndsAreTold' <=> EndsAreTold
    BY <2>1, <2>2 DEF EndsAreTold
  <2>4. StreamInv'
    BY <2>1, <2>2, <2>3, EventCallIsKept DEF StreamInv, EventsWait
  <2>5. RoutesAreKept' /\ (PendingIsAhead' <=> PendingIsAhead) /\ (NothingIsCounted' <=> NothingIsCounted)
        /\ Ahead' = Ahead
    BY <2>1, ExpectedIsKept DEF WholeInv, RoutesAreKept, PendingIsAhead, NothingIsCounted, Ahead, Members
  <2>6. CASE phase \in {"open", "metadata"}
    BY <2>1, <2>4, <2>5, <2>6 DEF WholeInv
  <2>7. CASE phase \notin {"open", "metadata"}
    <3>1. Events!Succeeding /\ Assured => PendingIsAhead' /\ (phase' = "ended" => Events!Stream' = Lines)
      BY <2>1, <2>2, <2>5, <2>7 DEF WholeInv
    <3>2. WholeInv'
      BY <2>1, <2>2, <2>5, <2>7, <3>1, QuietKeepsWhole
    <3>. QED  BY <2>4, <3>2
  <2>. QED  BY <2>4, <2>6, <2>7
<1>. QED  BY <1>1, <1>2, <1>3, <1>4, <1>5, <1>6, <1>7, <1>8 DEF Events!Next, Events!Progress

(* Both properties of the stream, of every state.                          *)
LEMMA StreamIsAccounted ==
    Events!Spec => [](Events!RefusedWhenIncomplete /\ Events!StreamIsWhole)
<1>1. Events!Init => StreamInv /\ WholeInv
  BY StreamBegins
<1>2. EventInv /\ EventInv' /\ StreamInv /\ WholeInv /\ [Events!Next]_(Events!vars)
        => StreamInv' /\ WholeInv'
  BY StreamStays
<1>3. StreamInv /\ WholeInv => Events!RefusedWhenIncomplete /\ Events!StreamIsWhole
  BY StreamIsRefused, StreamHoldsAll DEF StreamInv
<1>. QED  BY <1>1, <1>2, <1>3, FilesStayHeld, PTL DEF Events!Spec

-----------------------------------------------------------------------------
(* Whatever the inputs, the options and the backend, a call that succeeds  *)
(* leaves the exact sections at the place the options name (core.py,       *)
(* cli.py).  None is no set of ordinals.                                   *)
THEOREM CallerFindsTheComparison ==
    ASSUME None \notin SUBSET Nat
    PROVE  Spec => []DeliversTheComparison
<1>1. Command!Spec => [](Command!DeliversTheComparison /\ Command!ExitCodeTellsDifferences)
  BY CommandDelivers
<1>2. Command!DeliversTheComparison => DeliversTheComparison
  BY DEF DeliversTheComparison
<1>3. ~(tool = "command") => DeliversTheComparison
  BY DEF DeliversTheComparison
<1>4. ~(tool = "command") /\ [Next]_vars => ~(tool = "command")'
  BY ToolIsKept
<1>. QED  BY <1>1, <1>2, <1>3, <1>4, CommandRuns, PTL DEF Spec

(* Where main returns 0 or 1, 1 says that --fail-on-diff was given to a    *)
(* command without events and that the differences it asks for exist       *)
(* (cli.py main, _exit_code): for every call whose values have tokens that *)
(* are equal in memory if and only if they are on disk, and whatever the   *)
(* other options are.  Of the exceptions main does not catch it says       *)
(* nothing; they end the process with 1 too.                               *)
THEOREM DifferencesAreInTheExitCode ==
    ASSUME None \notin SUBSET Nat
    PROVE  Spec => []ExitCodeTellsDifferences
<1>1. Command!Spec => [](Command!DeliversTheComparison /\ Command!ExitCodeTellsDifferences)
  BY CommandDelivers
<1>2. Command!ExitCodeTellsDifferences => ExitCodeTellsDifferences
  BY DEF ExitCodeTellsDifferences
<1>3. ~(tool = "command") => ExitCodeTellsDifferences
  BY DEF ExitCodeTellsDifferences
<1>4. ~(tool = "command") /\ [Next]_vars => ~(tool = "command")'
  BY ToolIsKept
<1>. QED  BY <1>1, <1>2, <1>3, <1>4, CommandRuns, PTL DEF Spec

(* A call that raises before its result is shown, whether main reports the *)
(* exception, lets it pass or is not there, has neither saved nor printed  *)
(* a result (core.py, cli.py main): for every input and every combination  *)
(* of options.  An event command may have printed events.                  *)
THEOREM FailureIsSilentOutside == Spec => []FailureKeepsTheOutput
<1>1. Command!FailureKeepsTheOutput => FailureKeepsTheOutput
  BY DEF FailureKeepsTheOutput
<1>2. ~(tool = "command") => FailureKeepsTheOutput
  BY DEF FailureKeepsTheOutput
<1>3. ~(tool = "command") /\ [Next]_vars => ~(tool = "command")'
  BY ToolIsKept
<1>. QED  BY <1>1, <1>2, <1>3, CommandRuns, FailureIsSilent, PTL DEF Spec

(* docs/auto-mode.md, "auto mode switches to disk before the configured    *)
(* limit is fully consumed", for every limit and inputs of every length.   *)
THEOREM AutoModeKeepsTheLimit == Spec => []AutoKeepsTheLimit
<1>1. Command!AutoKeepsTheLimit => AutoKeepsTheLimit
  BY DEF AutoKeepsTheLimit
<1>2. ~(tool = "command") => AutoKeepsTheLimit
  BY DEF AutoKeepsTheLimit
<1>3. ~(tool = "command") /\ [Next]_vars => ~(tool = "command")'
  BY ToolIsKept
<1>. QED  BY <1>1, <1>2, <1>3, CommandRuns, MemoryLimitIsKept, PTL DEF Spec

(* An event command that fails leaves no temporary file and no output,     *)
(* wherever it fails (cli.py, core.py _iter_jsonl_result_events).  The     *)
(* exceptions are the ones the property names.                             *)
THEOREM EventCommandLeavesNoTrace == Spec => []FailureLeavesNoTrace
<1>1. Events!FailureLeavesNoTrace => FailureLeavesNoTrace
  BY DEF FailureLeavesNoTrace
<1>2. ~(tool = "events") => FailureLeavesNoTrace
  BY DEF FailureLeavesNoTrace
<1>3. ~(tool = "events") /\ [Next]_vars => ~(tool = "events")'
  BY ToolIsKept
<1>. QED  BY <1>1, <1>2, <1>3, EventsRun, EventsLeaveNoTrace, PTL DEF Spec

(* A reader of standard output accepts the stream of a command if and only *)
(* if the command succeeded, whatever failed but the writing itself        *)
(* (cli.py _write_event_output, events.py iter_event_rows).                *)
THEOREM IncompleteStreamsAreRefused == Spec => []RefusedWhenIncomplete
<1>1. Events!RefusedWhenIncomplete => RefusedWhenIncomplete
  BY DEF RefusedWhenIncomplete
<1>2. ~(tool = "events") => RefusedWhenIncomplete
  BY DEF RefusedWhenIncomplete
<1>3. ~(tool = "events") /\ [Next]_vars => ~(tool = "events")'
  BY ToolIsKept
<1>. QED  BY <1>1, <1>2, <1>3, EventsRun, StreamIsAccounted, PTL DEF Spec

(* For inputs of any length and any limits, the stream of a command that   *)
(* succeeds holds every difference once, but for those a limit leaves no   *)
(* room for, and its summary counts them.                                  *)
THEOREM StreamsHoldEveryDifference == Spec => []StreamIsWhole
<1>1. Events!StreamIsWhole => StreamIsWhole
  BY DEF StreamIsWhole
<1>2. ~(tool = "events") => StreamIsWhole
  BY DEF StreamIsWhole
<1>3. ~(tool = "events") /\ [Next]_vars => ~(tool = "events")'
  BY ToolIsKept
<1>. QED  BY <1>1, <1>2, <1>3, EventsRun, StreamIsAccounted, PTL DEF Spec

(* For rows of any length, with any values, the trackers of infer_schema   *)
(* say of every column exactly what the rows counted say of it.            *)
THEOREM TrackersCountTheRows == Spec => []TrackersAreExact
<1>1. Schema!TrackersAreExact => TrackersAreExact
  BY DEF TrackersAreExact
<1>2. ~(tool = "schema") => TrackersAreExact
  BY DEF TrackersAreExact
<1>3. ~(tool = "schema") /\ [Next]_vars => ~(tool = "schema")'
  BY ToolIsKept
<1>. QED  BY <1>1, <1>2, <1>3, SchemaRuns, SchemaToolIsExact, PTL DEF Spec

(* schema_diff reports exactly the columns that were added, removed or     *)
(* changed, and warns if and only if a side was sampled.                   *)
THEOREM SchemaDiffTellsTheChanges == Spec => []SchemaDiffIsExact
<1>1. Schema!SchemaDiffIsExact => SchemaDiffIsExact
  BY DEF SchemaDiffIsExact
<1>2. ~(tool = "schema") => SchemaDiffIsExact
  BY DEF SchemaDiffIsExact
<1>3. ~(tool = "schema") /\ [Next]_vars => ~(tool = "schema")'
  BY ToolIsKept
<1>. QED  BY <1>1, <1>2, <1>3, SchemaRuns, SchemaToolIsExact, PTL DEF Spec

(* A record file that was cut is read as whole records and then an         *)
(* exception; only one that ends between two records is read without one   *)
(* (read_record), whatever the sizes of the records and wherever the cut   *)
(* is.                                                                     *)
THEOREM CutRecordsAreNoticed == Spec => []CutIsNoticed
<1>1. Records!CutIsNoticed => CutIsNoticed
  BY DEF CutIsNoticed
<1>2. ~(tool = "records") => CutIsNoticed
  BY DEF CutIsNoticed
<1>3. ~(tool = "records") /\ [Next]_vars => ~(tool = "records")'
  BY ToolIsKept
<1>. QED  BY <1>1, <1>2, <1>3, RecordsRun, CutsAreNoticed, PTL DEF Spec

(* Bloom filters have no false negatives, so the candidates that           *)
(* probabilistic_diff_candidates returns are differences, for inputs of    *)
(* any length and for every family of hash functions.                      *)
THEOREM NoDifferenceIsMissed == Spec => []CandidatesAreDifferences
<1>1. Bloom!CandidatesAreDifferences => CandidatesAreDifferences
  BY DEF CandidatesAreDifferences
<1>2. ~(tool = "bloom") => CandidatesAreDifferences
  BY DEF CandidatesAreDifferences
<1>3. ~(tool = "bloom") /\ [Next]_vars => ~(tool = "bloom")'
  BY ToolIsKept
<1>. QED  BY <1>1, <1>2, <1>3, BloomRuns, CandidatesDiffer, PTL DEF Spec

(* For every matrix of scores and every threshold, the fuzzy pairs are a   *)
(* matching, each pair reaches the threshold, and no item that stayed      *)
(* alone reaches it with an item that is left.                             *)
THEOREM FuzzyPairsAreMaximal == Spec => []MatchingIsMaximal
<1>1. Fuzzy!MatchingIsMaximal => MatchingIsMaximal
  BY DEF MatchingIsMaximal
<1>2. ~(tool = "fuzzy") => MatchingIsMaximal
  BY DEF MatchingIsMaximal
<1>3. ~(tool = "fuzzy") /\ [Next]_vars => ~(tool = "fuzzy")'
  BY ToolIsKept
<1>. QED  BY <1>1, <1>2, <1>3, FuzzyRuns, FuzzyMatchingIsMaximal, PTL DEF Spec

-----------------------------------------------------------------------------
Output == INSTANCE ResultFileProofs WITH sibling <- siblings

(* The writers of one path, as ResultFileProofs knows them.                *)
LEMMA WritersRun == Spec /\ tool = "writers" => Output!Spec
<1>1. Init /\ tool = "writers" => Output!Init
  BY DEF Init, Writers!Init, Output!Init
<1>2. tool = "writers" /\ [Next]_vars => [Output!Next]_(Output!vars)
  <2>1. Writers!Next => Output!Next
    BY DEF Writers!Next, Output!Next, Writers!Progress, Output!Progress, Writers!Failure,
           Output!Failure, Writers!Enter, Output!Enter, Writers!WriteNext, Output!WriteNext,
           Writers!WriteRows, Output!WriteRows, Writers!CloseComplete, Output!CloseComplete,
           Writers!Close, Output!Close, Writers!Discard, Output!Discard, Writers!Replace,
           Output!Replace, Writers!EnterFails, Output!EnterFails, Writers!BodyRaises,
           Output!BodyRaises, Writers!CloseFails, Output!CloseFails, Writers!ReplaceFails,
           Output!ReplaceFails, Writers!Killed, Output!Killed, Writers!Step, Output!Step,
           Writers!FailedFile, Output!FailedFile, Writers!Ended, Output!Ended,
           Writers!RowsLeft, Output!RowsLeft
  <2>. QED  BY <2>1 DEF Next, vars, arguments, writers, CommandStep, EventStep, SchemaStep,
            RecordStep, BloomStep, FuzzyStep, WriterStep, Output!vars
<1>3. tool = "writers" /\ [Next]_vars => (tool = "writers")'
  BY ToolIsKept
<1>. QED  BY <1>1, <1>2, <1>3, PTL DEF Spec, Output!Spec

(* At every moment, and whoever fails or is killed, a temporary sibling    *)
(* holds a beginning of its own call's result and the output path one      *)
(* whole result or what it held before: for any number of writers of every *)
(* kind (result_files.py, fields.py, disk.py), interleaved.                *)
THEOREM OutputHoldsResults ==
    ASSUME NEW Entry, Content \in [Writer -> Seq(Entry)]
    PROVE  Spec => []FilesHoldResults
<1>1. Output!Spec => []Output!TypeOK
  BY Output!FilesHoldBeginnings
<1>2. Output!TypeOK => FilesHoldResults
  BY DEF Output!TypeOK, FilesHoldResults, Writers!TypeOK, Output!Session, Writers!Session
<1>3. ~(tool = "writers") => FilesHoldResults
  BY DEF FilesHoldResults
<1>4. ~(tool = "writers") /\ [Next]_vars => ~(tool = "writers")'
  BY ToolIsKept
<1>. QED  BY <1>1, <1>2, <1>3, <1>4, WritersRun, PTL DEF Spec

(* "If writing fails, the final output path is not replaced"               *)
(* (docs/limitations-security.md), for any number of concurrent writers:   *)
(* only os.replace of a whole file changes the path.                       *)
THEOREM PathChangesToWholeResults ==
    ASSUME NEW Entry, Content \in [Writer -> Seq(Entry)]
    PROVE  Spec => PublishedWhole
<1>1. Output!Spec => Output!PublishedWhole
  BY Output!PathHoldsWholeResults
<1>2. [Output!PublishesWhole]_(Output!vars) /\ [Next]_vars
        => [tool = "writers" => Writers!PublishesWhole]_vars
  BY DEF Output!PublishesWhole, Writers!PublishesWhole, Output!vars
<1>3. ~(tool = "writers") /\ [Next]_vars => [tool = "writers" => Writers!PublishesWhole]_vars
  OBVIOUS
<1>4. ~(tool = "writers") /\ [Next]_vars => ~(tool = "writers")'
  BY ToolIsKept
<1>. QED  BY <1>1, <1>2, <1>3, <1>4, WritersRun, PTL DEF Spec, PublishedWhole,
          Output!PublishedWhole
===============================================================================
