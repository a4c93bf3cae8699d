-------------------------- MODULE FieldDiffCallProofs --------------------------
(***************************************************************************)
(* Proofs about a field-level comparison, in either variant, for every     *)
(* input and every option: its types, the bound on its output file, and    *)
(* what the sorted merge promises of the rows it read and handed out.      *)
(***************************************************************************)
EXTENDS FieldDiffCall, SequenceTheorems, FiniteSetTheorems, TLAPS

(* Both variants are built on FieldReport, and each instance has its own   *)
(* copy of it: they name sides and keys alike,                             *)
LEMMA SharedKey ==
    Sorted!Side = Side /\ Unsorted!Side = Side
    /\ \A side, i : Sorted!Key(side, i) = Key(side, i) /\ Unsorted!Key(side, i) = Key(side, i)
BY DEF Sorted!Side, Unsorted!Side, Side, Sorted!Key, Unsorted!Key, Key

LEMMA SharedCardinality ==
    \A S : Sorted!Cardinality(S) = Cardinality(S) /\ Unsorted!Cardinality(S) = Cardinality(S)
BY DEF Sorted!Cardinality, Unsorted!Cardinality, Cardinality

(* ... compare rows alike, *)
LEMMA SharedReport ==
    /\ \A key, i, j : Sorted!Report(key, i, j) = Report(key, i, j)
    /\ \A key, i, j : Unsorted!Report(key, i, j) = Report(key, i, j)
    /\ \A acc, c : Sorted!RecordChanged(acc, c) = RecordChanged(acc, c)
    /\ \A acc, c : Unsorted!RecordChanged(acc, c) = RecordChanged(acc, c)
<1>1. /\ \A key, i, j : Sorted!Report(key, i, j) = Report(key, i, j)
      /\ \A key, i, j : Unsorted!Report(key, i, j) = Report(key, i, j)
  BY DEF Report, Sorted!Report, Unsorted!Report,
         ChangedFields, Sorted!ChangedFields, Unsorted!ChangedFields,
         Selected, Sorted!Selected, Unsorted!Selected
<1>2. \A acc, c : Sorted!RecordChanged(acc, c) = RecordChanged(acc, c)
  <2> TAKE acc, c
  <2>1. Sorted!Cardinality(c) = Cardinality(c)
    BY SharedCardinality
  <2>. QED  BY <2>1 DEF RecordChanged, Sorted!RecordChanged
<1>3. \A acc, c : Unsorted!RecordChanged(acc, c) = RecordChanged(acc, c)
  <2> TAKE acc, c
  <2>1. Unsorted!Cardinality(c) = Cardinality(c)
    BY SharedCardinality
  <2>. QED  BY <2>1 DEF RecordChanged, Unsorted!RecordChanged
<1>. QED  BY <1>1, <1>2, <1>3

(* ... emit rows alike, *)
LEMMA SharedEmit ==
    /\ \A acc, row : Sorted!Emit(acc, row) <=> Emit(acc, row)
    /\ \A acc, row : Unsorted!Emit(acc, row) <=> Emit(acc, row)
<1>1. \A row : Sorted!LineSize(row) = LineSize(row) /\ Unsorted!LineSize(row) = LineSize(row)
  <2> TAKE row
  <2>1. /\ Sorted!Cardinality(row.changes) = Cardinality(row.changes)
        /\ Unsorted!Cardinality(row.changes) = Cardinality(row.changes)
    BY SharedCardinality
  <2>. QED  BY <2>1 DEF LineSize, Sorted!LineSize, Unsorted!LineSize
<1>2. \A acc, row : Sorted!Emit(acc, row) <=> Emit(acc, row)
  BY <1>1 DEF Emit, Sorted!Emit, CanEmit, Sorted!CanEmit, Writing, Sorted!Writing,
              Fits, Sorted!Fits, output, Sorted!output, Out!WriteRows, Sorted!Out!WriteRows
<1>3. \A acc, row : Unsorted!Emit(acc, row) <=> Emit(acc, row)
  BY <1>1 DEF Emit, Unsorted!Emit, CanEmit, Unsorted!CanEmit, Writing, Unsorted!Writing,
              Fits, Unsorted!Fits, output, Unsorted!output, Out!WriteRows, Unsorted!Out!WriteRows
<1>. QED  BY <1>2, <1>3

(* ... and take the same steps of the writer. *)
LEMMA SharedSteps ==
    /\ \A cause : Sorted!Raise(cause) <=> Raise(cause)
    /\ \A cause : Unsorted!Raise(cause) <=> Raise(cause)
    /\ \A next : Sorted!OpenWriter(next) <=> OpenWriter(next)
    /\ \A next : Unsorted!OpenWriter(next) <=> OpenWriter(next)
    /\ (Sorted!ConfigRaises <=> ConfigRaises) /\ (Unsorted!ConfigRaises <=> ConfigRaises)
    /\ (Sorted!OpenFails <=> OpenFails) /\ (Unsorted!OpenFails <=> OpenFails)
    /\ (Sorted!CloseWriter <=> CloseWriter) /\ (Unsorted!CloseWriter <=> CloseWriter)
    /\ (Sorted!ExitWriter <=> ExitWriter) /\ (Unsorted!ExitWriter <=> ExitWriter)
    /\ (Sorted!ExitWriterFails <=> ExitWriterFails)
    /\ (Unsorted!ExitWriterFails <=> ExitWriterFails)
<1> USE DEF call, Sorted!call, Unsorted!call, output, Sorted!output, Unsorted!output,
            Writing, Sorted!Writing, Unsorted!Writing,
            Out!Step, Sorted!Out!Step, Unsorted!Out!Step
<1>1. /\ \A cause : Sorted!Raise(cause) <=> Raise(cause)
      /\ \A cause : Unsorted!Raise(cause) <=> Raise(cause)
  BY DEF Raise, Sorted!Raise, Unsorted!Raise,
         Out!BodyRaises, Sorted!Out!BodyRaises, Unsorted!Out!BodyRaises
<1>2. /\ \A next : Sorted!OpenWriter(next) <=> OpenWriter(next)
      /\ \A next : Unsorted!OpenWriter(next) <=> OpenWriter(next)
  BY DEF OpenWriter, Sorted!OpenWriter, Unsorted!OpenWriter,
         Out!Enter, Sorted!Out!Enter, Unsorted!Out!Enter
<1>3. (Sorted!ConfigRaises <=> ConfigRaises) /\ (Unsorted!ConfigRaises <=> ConfigRaises)
  BY DEF ConfigRaises, Sorted!ConfigRaises, Unsorted!ConfigRaises
<1>4. (Sorted!OpenFails <=> OpenFails) /\ (Unsorted!OpenFails <=> OpenFails)
  BY DEF OpenFails, Sorted!OpenFails, Unsorted!OpenFails,
         Out!EnterFails, Sorted!Out!EnterFails, Unsorted!Out!EnterFails,
         Call, Sorted!Call, Unsorted!Call
<1>5. (Sorted!CloseWriter <=> CloseWriter) /\ (Unsorted!CloseWriter <=> CloseWriter)
  BY DEF CloseWriter, Sorted!CloseWriter, Unsorted!CloseWriter,
         Out!Close, Sorted!Out!Close, Unsorted!Out!Close
<1>6. (Sorted!ExitWriter <=> ExitWriter) /\ (Unsorted!ExitWriter <=> ExitWriter)
  BY DEF ExitWriter, Sorted!ExitWriter, Unsorted!ExitWriter,
         Outcome, Sorted!Outcome, Unsorted!Outcome,
         Out!Replace, Sorted!Out!Replace, Unsorted!Out!Replace,
         Out!Discard, Sorted!Out!Discard, Unsorted!Out!Discard
<1>7. (Sorted!ExitWriterFails <=> ExitWriterFails) /\ (Unsorted!ExitWriterFails <=> ExitWriterFails)
  BY DEF ExitWriterFails, Sorted!ExitWriterFails, Unsorted!ExitWriterFails,
         Out!CloseFails, Sorted!Out!CloseFails, Unsorted!Out!CloseFails,
         Out!ReplaceFails, Sorted!Out!ReplaceFails, Unsorted!Out!ReplaceFails,
         Out!FailedFile, Sorted!Out!FailedFile, Unsorted!Out!FailedFile,
         Call, Sorted!Call, Unsorted!Call
<1>. QED  BY <1>1, <1>2, <1>3, <1>4, <1>5, <1>6, <1>7

-----------------------------------------------------------------------------
(* The invariant of the sorted merge. *)

KeyKinds == Int \cup {Text, Null}

Row == [key : KeyKinds, first : Nat, second : Nat, changes : SUBSET Field]

SortedCall ==
    /\ \A side \in Side :
          /\ input[side] \in Seq(ToSet(input[side]))
          /\ \A i \in 1..Len(input[side]) : Key(side, i) \in KeyKinds
    /\ config.columns # None => config.columns \subseteq Field

Typed ==
    /\ SortedCall
    /\ taken \in [Side -> Nat]
    /\ currentToken \in [Side -> KeyKinds]
    /\ currentRows \in [Side -> Seq(Nat)]
    /\ item \in [Side -> [key : KeyKinds, rows : Seq(Nat)]]
    /\ status \in [Side -> {"pull", "group", "end"}]
    /\ pending \in Row \cup {None}
    /\ rows \in Seq(Row)
    /\ \A side \in Side : taken[side] <= Len(input[side])

(* What was read of an input is sorted as far as `<` can tell. *)
ReadInOrder(side) ==
    config.validate_sorted =>
        \A i, j \in 1..taken[side] :
            i < j => Key(side, i) = Key(side, j) \/ Sorted!Less(Key(side, i), Key(side, j))

(* Row i was read, and is the first that has the key. *)
FirstRow(side, key, i) ==
    /\ i \in 1..taken[side]
    /\ Key(side, i) = key
    /\ \A j \in 1..(i - 1) : Key(side, j) # key

(* The group being read starts with the first row of its key, and has the  *)
(* key of the last row; a row with the None key is the last that is read.  *)
CurrentGroup(side) ==
    /\ currentToken[side] # Null => currentRows[side] # <<>>
    /\ config.validate_sorted =>
          \/ currentToken[side] # Null /\ taken[side] > 0
             /\ currentToken[side] = Key(side, taken[side])
             /\ FirstRow(side, currentToken[side], currentRows[side][1])
          \/ currentToken[side] = Null /\ taken[side] = 0 /\ currentRows[side] = <<>>
          \/ currentToken[side] = Null /\ taken[side] > 0 /\ Key(side, taken[side]) = Null
          \/ currentToken[side] = Null /\ taken[side] = Len(input[side])

YieldedGroup(side) ==
    status[side] = "group" =>
        /\ item[side].key # Null
        /\ item[side].rows # <<>>
        /\ config.validate_sorted => FirstRow(side, item[side].key, item[side].rows[1])

RowHolds(row) == \A side \in Side : FirstRow(side, row.key, row[side])

HandedOut ==
    config.validate_sorted =>
        /\ pending # None => RowHolds(pending)
        /\ \A k \in 1..Len(rows) : RowHolds(rows[k])

MergeInv ==
    /\ Typed
    /\ \A side \in Side : ReadInOrder(side) /\ CurrentGroup(side) /\ YieldedGroup(side)
    /\ HandedOut

(* What InputsAreRows and OptionsAreParsed say of the call that is made. *)
LEMMA SortedCallHolds ==
    ASSUME InitCall, config.sorted_input
    PROVE  SortedCall
<1>1. PICK c \in Calls : input = c.input /\ config = c.config
  BY DEF InitCall, Init
<1>2. \A side \in Side : input[side] \in Seq(ToSet(input[side]))
  BY <1>1, InputsAreRows
<1>3. \A side \in Side : \A i \in 1..Len(input[side]) : Key(side, i) \in KeyKinds
  <2> TAKE side \in Side
  <2> TAKE i \in 1..Len(input[side])
  <2>1. i \in DOMAIN input[side]
    BY <1>2, LenProperties
  <2>2. input[side][i] \in ToSet(input[side])
    BY <2>1 DEF ToSet
  <2>. QED  BY <1>1, <2>2, InputsAreRows DEF Key, KeyKinds
<1>4. config.columns # None => config.columns \subseteq Field
  BY <1>1, OptionsAreParsed
<1>. QED  BY <1>2, <1>3, <1>4 DEF SortedCall

(* Nothing was read at first. *)
LEMMA MergeInit ==
    ASSUME InitCall, config.sorted_input
    PROVE  MergeInv
<1>1. SortedCall
  BY SortedCallHolds
<1>2. /\ taken = [side \in Side |-> 0]
      /\ currentToken = [side \in Side |-> Null]
      /\ currentRows = [side \in Side |-> <<>>]
      /\ item = [side \in Side |-> [key |-> Null, rows |-> <<>>]]
      /\ status = [side \in Side |-> "pull"]
      /\ pending = None
      /\ rows = <<>>
  BY DEF InitCall, Init, Sorted!NothingTaken, Sorted!Side, Side
<1>3. <<>> \in Seq(Nat) /\ <<>> \in Seq(Row) /\ Len(<<>>) = 0
  OBVIOUS
<1>4. \A side \in Side : 0 <= Len(input[side])
  BY <1>1, LenProperties DEF SortedCall
<1>5. Typed
  BY <1>1, <1>2, <1>3, <1>4 DEF Typed, KeyKinds
<1>6. \A side \in Side : ReadInOrder(side) /\ CurrentGroup(side) /\ YieldedGroup(side)
  BY <1>2 DEF ReadInOrder, CurrentGroup, YieldedGroup
<1>7. HandedOut
  BY <1>2, <1>3 DEF HandedOut
<1>. QED  BY <1>5, <1>6, <1>7 DEF MergeInv

(* Reading on changes no row that was read. *)
LEMMA FirstRowStays ==
    ASSUME taken \in [Side -> Nat], taken' \in [Side -> Nat], UNCHANGED input,
           \A side \in Side : taken[side] <= taken'[side]
    PROVE  /\ \A side \in Side : \A key, i : FirstRow(side, key, i) => FirstRow(side, key, i)'
           /\ \A row : RowHolds(row) => RowHolds(row)'
BY DEF FirstRow, Key, RowHolds

(* A row that is not refused is in order; its key, if it is another than   *)
(* the one before, is a new one.                                           *)
LEMMA TakeKeepsOrder ==
    ASSUME NEW side \in Side, Typed, ReadInOrder(side), Sorted!Takes(side),
           ~Sorted!Refuses(side), UNCHANGED <<input, config>>,
           taken' = [taken EXCEPT ![side] = @ + 1]
    PROVE  /\ ReadInOrder(side)'
           /\ config.validate_sorted /\ taken[side] > 0 =>
                 /\ Key(side, taken[side]) # Null /\ Key(side, taken[side] + 1) # Null
                 /\ Key(side, taken[side] + 1) # Key(side, taken[side]) =>
                       \A i \in 1..taken[side] : Key(side, i) # Key(side, taken[side] + 1)
<1> DEFINE n == taken[side]
<1>1. n \in Nat /\ n + 1 <= Len(input[side]) /\ taken'[side] = n + 1 /\ Len(input[side]) \in Nat
  BY LenProperties DEF Typed, SortedCall, Sorted!Takes
<1>2. \A i \in 1..(n + 1) : Key(side, i) \in KeyKinds
  BY <1>1 DEF Typed, SortedCall
<1>3. \A i : Key(side, i)' = Key(side, i)
  BY DEF Key
<1>4. CASE ~config.validate_sorted
  BY <1>4 DEF ReadInOrder
<1>5. CASE config.validate_sorted
  <2>1. \A i, j \in 1..n :
            i < j => Key(side, i) = Key(side, j) \/ Sorted!Less(Key(side, i), Key(side, j))
    BY <1>5 DEF ReadInOrder
  <2>2. n > 0 => /\ Sorted!Orderable(Key(side, n + 1), Key(side, n))
                 /\ ~Sorted!Less(Key(side, n + 1), Key(side, n))
    BY <1>5, <1>1, SharedKey DEF Sorted!Refuses, Sorted!NextToken, Sorted!Previous
  <2> HIDE DEF n
  <2>3. n > 0 => /\ Key(side, n) # Null /\ Key(side, n + 1) # Null
                 /\ \/ Key(side, n + 1) = Key(side, n)
                    \/ Sorted!Less(Key(side, n), Key(side, n + 1))
    <3> SUFFICES ASSUME n > 0 PROVE /\ Key(side, n) # Null /\ Key(side, n + 1) # Null
                 /\ \/ Key(side, n + 1) = Key(side, n)
                    \/ Sorted!Less(Key(side, n), Key(side, n + 1))
      OBVIOUS
    <3>1. Key(side, n) \in KeyKinds /\ Key(side, n + 1) \in KeyKinds
      BY <1>1, <1>2
    <3>. QED  BY <2>2, <3>1, KeysAreKinds DEF Sorted!Orderable, Sorted!Less, KeyKinds
  <2>4. ASSUME NEW i \in 1..n
        PROVE  Key(side, i) = Key(side, n) \/ Sorted!Less(Key(side, i), Key(side, n))
    BY <1>1, <2>1, <2>4
  <2>5. ASSUME NEW i \in 1..n
        PROVE  Key(side, i) = Key(side, n + 1) \/ Sorted!Less(Key(side, i), Key(side, n + 1))
    <3>1. /\ Key(side, i) \in KeyKinds /\ Key(side, n) \in KeyKinds
          /\ Key(side, n + 1) \in KeyKinds /\ n > 0
      BY <1>1, <1>2, <2>5
    <3>2. \A a, b, c \in KeyKinds : Sorted!Less(a, b) /\ Sorted!Less(b, c) => Sorted!Less(a, c)
      BY KeysAreKinds DEF Sorted!Less, Sorted!Orderable, KeyKinds
    <3>. QED  BY <2>3, <2>4, <3>1, <3>2
  <2>6. n > 0 /\ Key(side, n + 1) # Key(side, n) =>
            \A i \in 1..n : Key(side, i) # Key(side, n + 1)
    <3> SUFFICES ASSUME n > 0, Key(side, n + 1) # Key(side, n), NEW i \in 1..n,
                        Key(side, i) = Key(side, n + 1)
                 PROVE  FALSE
      OBVIOUS
    <3>1. Key(side, i) \in KeyKinds /\ Key(side, n) \in KeyKinds
      BY <1>1, <1>2
    <3>2. Sorted!Less(Key(side, n), Key(side, i)) /\ Sorted!Less(Key(side, i), Key(side, n))
      BY <2>3, <2>4
    <3>. QED  BY <3>1, <3>2, KeysAreKinds DEF Sorted!Less, Sorted!Orderable, KeyKinds
  <2>7. \A i, j \in 1..(n + 1) :
            i < j => Key(side, i) = Key(side, j) \/ Sorted!Less(Key(side, i), Key(side, j))
    <3> SUFFICES ASSUME NEW i \in 1..(n + 1), NEW j \in 1..(n + 1), i < j
                 PROVE Key(side, i) = Key(side, j) \/ Sorted!Less(Key(side, i), Key(side, j))
      OBVIOUS
    <3>1. i \in 1..n /\ (j \in 1..n \/ j = n + 1)
      BY <1>1
    <3>. QED  BY <2>1, <2>5, <3>1
  <2>8. ReadInOrder(side)'
    BY <1>1, <1>3, <2>7 DEF ReadInOrder
  <2>. QED  BY <2>3, <2>6, <2>8 DEF n
<1>. QED  BY <1>4, <1>5

SideStays(side) ==
    /\ taken'[side] = taken[side]
    /\ currentToken'[side] = currentToken[side]
    /\ currentRows'[side] = currentRows[side]
    /\ item'[side] = item[side]
    /\ status'[side] \in {status[side], "pull", "end"}

(* A side that is not read from keeps its groups, or gives one away. *)
LEMMA OtherSideStays ==
    ASSUME NEW side \in Side, SideStays(side), UNCHANGED <<input, config>>,
           ReadInOrder(side), CurrentGroup(side), YieldedGroup(side)
    PROVE  ReadInOrder(side)' /\ CurrentGroup(side)' /\ YieldedGroup(side)'
<1>1. \A i : Key(side, i)' = Key(side, i)
  BY DEF Key
<1>3. ReadInOrder(side)'
  BY <1>1 DEF ReadInOrder, SideStays
<1>4. CurrentGroup(side)'
  <2>2. FirstRow(side, currentToken[side], currentRows[side][1])' 
           <=> FirstRow(side, currentToken[side], currentRows[side][1])
    BY <1>1 DEF FirstRow, SideStays
  <2>3. Key(side, taken[side])' = Key(side, taken[side])
    BY DEF Key, SideStays
  <2>. QED  BY <2>2, <2>3 DEF CurrentGroup, SideStays
<1>5. YieldedGroup(side)'
  <2>2. FirstRow(side, item[side].key, item[side].rows[1])' 
           <=> FirstRow(side, item[side].key, item[side].rows[1])
    BY <1>1 DEF FirstRow, SideStays
  <2>. QED  BY <2>2 DEF YieldedGroup, SideStays
<1>. QED  BY <1>3, <1>4, <1>5

(* The rows that were handed out, and the pending one, are the same. *)
LEMMA HandedOutStays ==
    ASSUME Typed, taken' \in [Side -> Nat], UNCHANGED <<input, config, rows>>,
           \A side \in Side : taken[side] <= taken'[side],
           pending' \in {pending, None}, HandedOut
    PROVE  HandedOut'
<1>1. \A row : RowHolds(row) => RowHolds(row)'
  BY FirstRowStays DEF Typed
<1>2. RowHolds(pending) => RowHolds(pending)' \/ pending' = None
  BY <1>1, FirstRowStays DEF RowHolds, FirstRow, Key, Typed
<1>3. \A k : RowHolds(rows[k]) => RowHolds(rows[k])'
  <2> TAKE k
  <2>1. rows'[k] = rows[k]
    OBVIOUS
  <2>. QED  BY <1>1, <2>1 DEF RowHolds, FirstRow, Key, Typed
<1>. QED  BY <1>2, <1>3 DEF HandedOut

(* A row is taken and begins the group or joins it. *)
LEMMA ExtendKeeps ==
    ASSUME MergeInv, NEW side \in Side, Sorted!ExtendGroup(side)
    PROVE  MergeInv'
<1> USE DEF Sorted!ExtendGroup, Sorted!Take, Sorted!call
<1> DEFINE n == taken[side]
<1>1. /\ Typed /\ Sorted!Takes(side) /\ ~Sorted!Refuses(side)
      /\ UNCHANGED <<input, config, rows, item, status, pending>>
      /\ taken' = [taken EXCEPT ![side] = @ + 1]
      /\ Key(side, n + 1) = Sorted!GroupToken(side)
      /\ currentToken' = [currentToken EXCEPT ![side] = Key(side, n + 1)]
      /\ currentRows' = [currentRows EXCEPT ![side] = Append(@, n + 1)]
  BY SharedKey DEF MergeInv, Sorted!NextToken, Typed
<1>2. n \in Nat /\ n + 1 <= Len(input[side]) /\ Len(input[side]) \in Nat
  BY <1>1, LenProperties DEF Typed, SortedCall, Sorted!Takes
<1>3. Key(side, n + 1) \in KeyKinds
  BY <1>1, <1>2 DEF Typed, SortedCall
<1>4. SortedCall'
  BY <1>1 DEF Typed, SortedCall, Key
<1>5. Append(currentRows[side], n + 1) \in Seq(Nat)
  BY <1>1, <1>2 DEF Typed
<1>6. Typed'
  <2>1. taken' \in [Side -> Nat] /\ \A s \in Side : taken'[s] <= Len(input'[s])
    BY <1>1, <1>2 DEF Typed
  <2>2. currentToken' \in [Side -> KeyKinds]
    BY <1>1, <1>3 DEF Typed
  <2>3. currentRows' \in [Side -> Seq(Nat)]
    BY <1>1, <1>5 DEF Typed
  <2>. QED  BY <1>1, <1>4, <2>1, <2>2, <2>3 DEF Typed
<1>7. ReadInOrder(side)' /\ YieldedGroup(side)' 
  <2>1. ReadInOrder(side)'
    BY <1>1, TakeKeepsOrder DEF MergeInv
  <2>2. FirstRow(side, item[side].key, item[side].rows[1])
           => FirstRow(side, item[side].key, item[side].rows[1])'
    BY <1>1, <1>2 DEF FirstRow, Key, Typed
  <2>. QED  BY <1>1, <2>1, <2>2 DEF YieldedGroup, MergeInv
<1>8. CurrentGroup(side)'
  <2>1. /\ taken'[side] = n + 1 /\ currentToken'[side] = Key(side, n + 1)
        /\ currentRows'[side] = Append(currentRows[side], n + 1)
        /\ \A i : Key(side, i)' = Key(side, i)
    BY <1>1 DEF Typed, Key
  <2>2. currentRows'[side] # <<>>
    <3>1. currentRows[side] \in Seq(Nat)
      BY <1>1 DEF Typed
    <3>2. n + 1 \in Nat
      BY <1>2
    <3>3. Append(currentRows[side], n + 1) # <<>>
      <4> DEFINE q == currentRows[side]
                 e == n + 1
      <4>1. q \in Seq(Nat) /\ e \in Nat
        BY <3>1, <3>2
      <4> HIDE DEF q, e
      <4>2. Append(q, e) # <<>>
        BY <4>1, AppendProperties
      <4>. QED  BY <4>2, Zenon DEF q, e
    <3>4. currentRows'[side] = Append(currentRows[side], n + 1)
      BY <2>1
    <3>. QED  BY <3>3, <3>4, Zenon
  <2>3. ASSUME config.validate_sorted, currentToken[side] # Null
        PROVE  CurrentGroup(side)'
    <3>1. /\ n > 0 /\ currentRows[side] # <<>> /\ currentToken[side] = Key(side, n)
          /\ FirstRow(side, currentToken[side], currentRows[side][1])
      BY <1>1, <2>3 DEF MergeInv, CurrentGroup
    <3>2. Key(side, n + 1) = currentToken[side]
      BY <1>1, <2>3 DEF Sorted!GroupToken
    <3>3. currentRows'[side][1] = currentRows[side][1]
      BY <1>1, <1>2, <2>1, <3>1, LenProperties, AppendProperties DEF Typed
    <3>4. FirstRow(side, currentToken[side], currentRows[side][1])'
      BY <1>1, <1>2, <2>1, <3>1, <3>2, <3>3 DEF FirstRow
    <3>5. currentToken'[side] = Key(side, taken[side])' /\ currentToken'[side] # Null
      BY <2>1, <2>3, <3>2 DEF Key
    <3>. QED  BY <1>1, <1>2, <2>1, <2>2, <3>4, <3>5 DEF CurrentGroup
  <2>4. ASSUME config.validate_sorted, currentToken[side] = Null
        PROVE  CurrentGroup(side)'
    <3>1. n > 0 => Key(side, n) # Null
      BY <1>1, <2>4, TakeKeepsOrder DEF MergeInv
    <3>2. n = 0 /\ currentRows[side] = <<>>
      BY <1>1, <1>2, <2>4, <3>1 DEF MergeInv, CurrentGroup
    <3>3. currentRows'[side][1] = 1
      BY <2>1, <3>2
    <3>4. FirstRow(side, currentToken[side], currentRows[side][1])'
      BY <2>1, <3>2, <3>3 DEF FirstRow
    <3>5. currentToken'[side] = Key(side, taken[side])'
      BY <2>1 DEF Key
    <3>. QED  BY <1>1, <1>2, <2>1, <2>2, <3>4, <3>5 DEF CurrentGroup
  <2>5. ASSUME ~config.validate_sorted
        PROVE  CurrentGroup(side)'
    BY <1>1, <2>2, <2>5 DEF CurrentGroup
  <2>. QED  BY <2>3, <2>4, <2>5
<1>9. \A s \in Side : s # side => SideStays(s)
  BY <1>1 DEF SideStays, Typed
<1>10. \A s \in Side : ReadInOrder(s)' /\ CurrentGroup(s)' /\ YieldedGroup(s)'
  BY <1>1, <1>7, <1>8, <1>9, OtherSideStays DEF MergeInv
<1>11. HandedOut'
  BY <1>1, <1>2, <1>6, HandedOutStays DEF MergeInv, Typed
<1>. QED  BY <1>6, <1>10, <1>11 DEF MergeInv

(* A row of another key completes the group. *)
LEMMA YieldKeeps ==
    ASSUME MergeInv, NEW side \in Side, Sorted!YieldGroup(side)
    PROVE  MergeInv'
<1> USE DEF Sorted!YieldGroup, Sorted!Take, Sorted!call
<1> DEFINE n == taken[side]
<1>1. /\ Typed /\ Sorted!Takes(side) /\ ~Sorted!Refuses(side)
      /\ UNCHANGED <<input, config, rows, pending>>
      /\ taken' = [taken EXCEPT ![side] = @ + 1]
      /\ Key(side, n + 1) # Sorted!GroupToken(side)
      /\ item' = [item EXCEPT ![side] = [key |-> currentToken[side], rows |-> currentRows[side]]]
      /\ currentToken' = [currentToken EXCEPT ![side] = Key(side, n + 1)]
      /\ currentRows' = [currentRows EXCEPT ![side] = <<n + 1>>]
      /\ status' = [status EXCEPT ![side] = "group"]
  BY SharedKey DEF MergeInv, Sorted!NextToken, Typed
<1>2. n \in Nat /\ n + 1 <= Len(input[side]) /\ Len(input[side]) \in Nat
  BY <1>1, LenProperties DEF Typed, SortedCall, Sorted!Takes
<1>3. Key(side, n + 1) \in KeyKinds
  BY <1>1, <1>2 DEF Typed, SortedCall
<1>4. SortedCall'
  BY <1>1 DEF Typed, SortedCall, Key
<1>5. currentToken[side] # Null /\ currentRows[side] # <<>> /\ Key(side, n + 1) # currentToken[side]
  BY <1>1, SharedKey DEF Sorted!GroupToken, Sorted!NextToken, MergeInv, CurrentGroup
<1>6. Typed'
  <2>1. taken' \in [Side -> Nat] /\ \A s \in Side : taken'[s] <= Len(input'[s])
    BY <1>1, <1>2 DEF Typed
  <2>2. currentToken' \in [Side -> KeyKinds]
    BY <1>1, <1>3 DEF Typed
  <2>3. currentRows' \in [Side -> Seq(Nat)]
    BY <1>1, <1>2 DEF Typed
  <2>4. item' \in [Side -> [key : KeyKinds, rows : Seq(Nat)]]
    BY <1>1 DEF Typed
  <2>5. status' \in [Side -> {"pull", "group", "end"}]
    BY <1>1 DEF Typed
  <2>. QED  BY <1>1, <1>4, <2>1, <2>2, <2>3, <2>4, <2>5 DEF Typed
<1>7. ReadInOrder(side)'
  BY <1>1, TakeKeepsOrder DEF MergeInv
<1>8. /\ taken'[side] = n + 1 /\ currentToken'[side] = Key(side, n + 1)
      /\ currentRows'[side] = <<n + 1>> /\ status'[side] = "group"
      /\ item'[side].key = currentToken[side] /\ item'[side].rows = currentRows[side]
      /\ \A i : Key(side, i)' = Key(side, i)
  BY <1>1 DEF Typed, Key
<1>9. ASSUME config.validate_sorted
      PROVE  /\ n > 0 /\ Key(side, n + 1) # Null
             /\ FirstRow(side, currentToken[side], currentRows[side][1])
             /\ \A i \in 1..n : Key(side, i) # Key(side, n + 1)
  <2>1. /\ n > 0 /\ currentToken[side] = Key(side, n)
        /\ FirstRow(side, currentToken[side], currentRows[side][1])
    BY <1>1, <1>5, <1>9 DEF MergeInv, CurrentGroup
  <2>. QED  BY <1>1, <1>5, <1>9, <2>1, TakeKeepsOrder DEF MergeInv
<1>10. YieldedGroup(side)'
  <2>1. FirstRow(side, currentToken[side], currentRows[side][1])
           => FirstRow(side, item[side].key, item[side].rows[1])'
    BY <1>2, <1>8 DEF FirstRow
  <2>. QED  BY <1>1, <1>5, <1>8, <1>9, <2>1 DEF YieldedGroup
<1>11. CurrentGroup(side)'
  <2>1. currentRows'[side] # <<>> /\ currentRows'[side][1] = n + 1
    BY <1>8
  <2>2. ASSUME config.validate_sorted
        PROVE  FirstRow(side, currentToken[side], currentRows[side][1])'
    BY <1>2, <1>8, <1>9, <2>1, <2>2 DEF FirstRow
  <2>3. currentToken'[side] = Key(side, taken[side])'
    BY <1>8 DEF Key
  <2>. QED  BY <1>1, <1>2, <1>8, <1>9, <2>1, <2>2, <2>3 DEF CurrentGroup
<1>12. \A s \in Side : s # side => SideStays(s)
  BY <1>1 DEF SideStays, Typed
<1>13. \A s \in Side : ReadInOrder(s)' /\ CurrentGroup(s)' /\ YieldedGroup(s)'
  BY <1>1, <1>7, <1>10, <1>11, <1>12, OtherSideStays DEF MergeInv
<1>14. HandedOut'
  BY <1>1, <1>2, <1>6, HandedOutStays DEF MergeInv, Typed
<1>. QED  BY <1>6, <1>13, <1>14 DEF MergeInv

(* The last group is yielded; nothing is left to be read. *)
LEMMA YieldLastKeeps ==
    ASSUME MergeInv, NEW side \in Side, Sorted!YieldLast(side)
    PROVE  MergeInv'
<1> USE DEF Sorted!YieldLast, Sorted!call
<1>1. /\ Typed
      /\ UNCHANGED <<input, config, rows, pending, taken>>
      /\ taken[side] = Len(input[side])
      /\ currentToken[side] # Null
      /\ item' = [item EXCEPT ![side] = [key |-> currentToken[side], rows |-> currentRows[side]]]
      /\ currentToken' = [currentToken EXCEPT ![side] = Null]
      /\ currentRows' = [currentRows EXCEPT ![side] = <<>>]
      /\ status' = [status EXCEPT ![side] = "group"]
  BY SharedKey DEF MergeInv
<1>2. SortedCall'
  BY <1>1 DEF Typed, SortedCall, Key
<1>3. Typed'
  <2>1. currentToken' \in [Side -> KeyKinds]
    BY <1>1 DEF Typed, KeyKinds
  <2>2. currentRows' \in [Side -> Seq(Nat)]
    BY <1>1 DEF Typed
  <2>3. item' \in [Side -> [key : KeyKinds, rows : Seq(Nat)]]
    BY <1>1 DEF Typed
  <2>4. status' \in [Side -> {"pull", "group", "end"}]
    BY <1>1 DEF Typed
  <2>. QED  BY <1>1, <1>2, <2>1, <2>2, <2>3, <2>4 DEF Typed
<1>4. /\ currentToken'[side] = Null /\ currentRows'[side] = <<>> /\ status'[side] = "group"
      /\ item'[side].key = currentToken[side] /\ item'[side].rows = currentRows[side]
      /\ \A i : Key(side, i)' = Key(side, i)
  BY <1>1 DEF Typed, Key
<1>5. ReadInOrder(side)'
  BY <1>1, <1>4 DEF MergeInv, ReadInOrder
<1>6. YieldedGroup(side)'
  <2>1. /\ currentRows[side] # <<>>
        /\ config.validate_sorted => FirstRow(side, currentToken[side], currentRows[side][1])
    BY <1>1 DEF MergeInv, CurrentGroup
  <2>2. FirstRow(side, currentToken[side], currentRows[side][1])
           => FirstRow(side, item[side].key, item[side].rows[1])'
    BY <1>1, <1>4 DEF FirstRow
  <2>. QED  BY <1>1, <1>4, <2>1, <2>2 DEF YieldedGroup
<1>7. CurrentGroup(side)'
  BY <1>1, <1>4 DEF CurrentGroup
<1>8. \A s \in Side : s # side => SideStays(s)
  BY <1>1 DEF SideStays, Typed
<1>9. \A s \in Side : ReadInOrder(s)' /\ CurrentGroup(s)' /\ YieldedGroup(s)'
  BY <1>1, <1>5, <1>6, <1>7, <1>8, OtherSideStays DEF MergeInv
<1>10. \A s \in Side : taken[s] <= taken'[s]
  BY <1>1 DEF Typed
<1>11. HandedOut'
  BY <1>1, <1>10, HandedOutStays DEF MergeInv, Typed
<1>. QED  BY <1>3, <1>9, <1>11 DEF MergeInv

(* Steps that leave the groups alone. *)
GroupsStay ==
    /\ UNCHANGED <<input, config, taken, currentToken, currentRows, item>>
    /\ status' \in [Side -> {"pull", "group", "end"}]
    /\ \A side \in Side : status'[side] \in {status[side], "pull", "end"}

(* Such a step keeps all but what was handed out. *)
LEMMA GroupsStayKeeps ==
    ASSUME MergeInv, GroupsStay, pending' \in Row \cup {None}, rows' \in Seq(Row)
    PROVE  /\ Typed'
           /\ \A side \in Side : ReadInOrder(side)' /\ CurrentGroup(side)' /\ YieldedGroup(side)'
<1>1. Typed'
  BY DEF MergeInv, Typed, SortedCall, Key, GroupsStay
<1>2. \A side \in Side : SideStays(side)
  BY DEF SideStays, GroupsStay
<1>. QED  BY <1>1, <1>2, OtherSideStays DEF MergeInv, GroupsStay

(* Such a step keeps everything if it hands nothing out. *)
LEMMA QuietKeeps ==
    ASSUME MergeInv, GroupsStay, UNCHANGED rows, pending' \in {pending, None}
    PROVE  MergeInv'
<1>1. pending' \in Row \cup {None} /\ rows' \in Seq(Row)
  BY DEF MergeInv, Typed
<1>2. \A side \in Side : taken[side] <= taken'[side]
  BY DEF MergeInv, Typed, GroupsStay
<1>3. HandedOut'
  BY <1>2, HandedOutStays DEF MergeInv, Typed, GroupsStay
<1>. QED  BY <1>1, <1>3, GroupsStayKeeps DEF MergeInv

(* The first rows of two groups of one key are compared. *)
LEMMA CompareKeeps ==
    ASSUME MergeInv, Sorted!CompareGroups
    PROVE  MergeInv'
<1> DEFINE row == Report(item["first"].key, item["first"].rows[1], item["second"].rows[1])
<1>1. /\ \A side \in Side : status[side] = "group"
      /\ item["first"].key = item["second"].key
      /\ pending' = IF row.changes = {} THEN None ELSE row
      /\ status' = [side \in Side |-> "pull"]
      /\ UNCHANGED <<input, config, rows, taken, currentToken, currentRows, item>>
  BY SharedKey, SharedReport
  DEF Sorted!CompareGroups, Sorted!BothReady, Sorted!LeftKey, Sorted!RightKey, Sorted!call
<1>2. /\ row.key = item["first"].key /\ row["first"] = item["first"].rows[1]
      /\ row["second"] = item["second"].rows[1]
  BY DEF Report
<1>3. \A side \in Side : item[side].rows \in Seq(Nat) /\ item[side].rows # <<>>
                         /\ item[side].key \in KeyKinds
  BY <1>1 DEF MergeInv, Typed, YieldedGroup
<1>4. \A side \in Side : item[side].rows[1] \in Nat
  BY <1>3
<1>5. ChangedFields(config, input.first[row.first], input.second[row.second]) \subseteq Field
  BY DEF ChangedFields, Selected, MergeInv, Typed, SortedCall
<1>6. row \in Row
  BY <1>3, <1>4, <1>5 DEF Report, Row, Side
<1>7. GroupsStay
  BY <1>1 DEF GroupsStay
<1>8. pending' \in Row \cup {None} /\ rows' \in Seq(Row)
  BY <1>1, <1>6 DEF MergeInv, Typed
<1>9. config.validate_sorted => RowHolds(row)
  <2>1. config.validate_sorted =>
           \A side \in Side : FirstRow(side, item[side].key, item[side].rows[1])
    BY <1>1 DEF MergeInv, YieldedGroup
  <2> HIDE DEF row
  <2>. QED  BY <1>1, <1>2, <2>1 DEF RowHolds, Side
<1> HIDE DEF row
<1>10. \A r : RowHolds(r)' <=> RowHolds(r)
  BY <1>1 DEF RowHolds, FirstRow, Key
<1>11. HandedOut'
  <2>1. \A k : RowHolds(rows[k])' <=> RowHolds(rows[k])
    BY <1>1 DEF RowHolds, FirstRow, Key
  <2>2. pending' = row => (RowHolds(row) => RowHolds(pending)')
    BY <1>1 DEF RowHolds, FirstRow, Key
  <2>. QED  BY <1>1, <1>9, <2>1, <2>2 DEF HandedOut, MergeInv
<1>. QED  BY <1>7, <1>8, <1>11, GroupsStayKeeps DEF MergeInv

(* The pending row is handed out, or goes to the file, or is dropped. *)
LEMMA HandOutKeeps ==
    ASSUME MergeInv, GroupsStay, pending # None, pending' = None,
           rows' = rows \/ rows' = Append(rows, pending)
    PROVE  MergeInv'
<1>1. CASE rows' = rows
  BY <1>1, QuietKeeps
<1>2. CASE rows' = Append(rows, pending)
  <2>1. rows \in Seq(Row) /\ pending \in Row
    BY DEF MergeInv, Typed
  <2>2. /\ rows' \in Seq(Row) /\ Len(rows') = Len(rows) + 1 /\ Len(rows) \in Nat
        /\ \A k \in 1..Len(rows) : rows'[k] = rows[k]
        /\ rows'[Len(rows) + 1] = pending
    BY <1>2, <2>1, LenProperties, AppendProperties
  <2>3. \A k \in 1..Len(rows) : RowHolds(rows[k])' <=> RowHolds(rows[k])
    <3> TAKE k \in 1..Len(rows)
    <3>1. rows'[k] = rows[k]
      BY <2>2
    <3>. QED  BY <3>1 DEF RowHolds, FirstRow, Key, GroupsStay
  <2>4. RowHolds(rows[Len(rows)])' <=> RowHolds(pending)
    <3>1. rows'[Len(rows')] = pending
      BY <2>2
    <3>. QED  BY <3>1 DEF RowHolds, FirstRow, Key, GroupsStay
  <2>5. ASSUME config.validate_sorted, NEW k \in 1..Len(rows')
        PROVE  RowHolds(rows[k])'
    <3>1. CASE k \in 1..Len(rows)
      BY <2>3, <2>5, <3>1 DEF HandedOut, MergeInv
    <3>2. CASE k = Len(rows')
      BY <2>4, <2>5, <3>2 DEF HandedOut, MergeInv
    <3>. QED  BY <2>2, <3>1, <3>2
  <2>6. HandedOut'
    BY <2>5 DEF HandedOut, GroupsStay
  <2>. QED  BY <2>2, <2>6, GroupsStayKeeps DEF MergeInv
<1>. QED  BY <1>1, <1>2

(* Every other step only moves a side on, or the call's phase. *)
LEMMA SidesMoveQuietly ==
    ASSUME MergeInv,
           \/ \E side \in Side : Sorted!EndGroups(side)
           \/ Sorted!SkipGroup("first", "second") \/ Sorted!SkipGroup("second", "first")
    PROVE  GroupsStay /\ UNCHANGED <<rows, pending>>
<1>1. CASE \E side \in Side : Sorted!EndGroups(side)
  BY <1>1, SharedKey DEF Sorted!EndGroups, Sorted!call, GroupsStay, MergeInv, Typed
<1>2. CASE Sorted!SkipGroup("first", "second")
  BY <1>2 DEF Sorted!SkipGroup, Sorted!call, GroupsStay, MergeInv, Typed
<1>3. CASE Sorted!SkipGroup("second", "first")
  BY <1>3 DEF Sorted!SkipGroup, Sorted!call, GroupsStay, MergeInv, Typed
<1>. QED  BY <1>1, <1>2, <1>3

CallMoves ==
    \/ Sorted!RefuseConfig \/ Sorted!StartMerge \/ Sorted!Open
    \/ \E side \in Side : Sorted!RefuseRow(side) \/ Sorted!SourceRaises(side)
    \/ Sorted!KeysRaise \/ Sorted!CompareRaises \/ Sorted!CollectRaises
    \/ Sorted!Finish \/ Sorted!Abandon \/ Sorted!Close \/ Sorted!Exit
    \/ (Sorted!OpenFails \/ Sorted!ExitWriterFails) /\ UNCHANGED <<Sorted!groups, pending>>

(* The phase of the call, the writer and the errors are beside the groups. *)
LEMMA CallMovesQuietly ==
    ASSUME MergeInv, CallMoves
    PROVE  GroupsStay /\ UNCHANGED <<rows, pending>>
<1>1. UNCHANGED <<input, config, rows>>
  BY SharedSteps
  DEF CallMoves, Sorted!call, call, Sorted!RefuseConfig, ConfigRaises, Sorted!StartMerge,
      Sorted!Open, OpenWriter, Sorted!RefuseRow, Sorted!SourceRaises, Sorted!KeysRaise,
      Sorted!CompareRaises, Sorted!CollectRaises, Sorted!Finish, Sorted!Abandon,
      Sorted!Close, CloseWriter, Sorted!Exit, ExitWriter, OpenFails, ExitWriterFails
<1>2. UNCHANGED <<Sorted!groups, pending>>
  BY DEF CallMoves, Sorted!RefuseConfig, Sorted!StartMerge,
      Sorted!Open, Sorted!RefuseRow, Sorted!SourceRaises, Sorted!KeysRaise,
      Sorted!CompareRaises, Sorted!CollectRaises, Sorted!Finish, Sorted!Abandon,
      Sorted!Close, Sorted!Exit
<1>. QED  BY <1>1, <1>2 DEF Sorted!groups, GroupsStay, MergeInv, Typed

(* The consumer takes the pending row, which leaves the groups alone. *)
LEMMA HandsOut ==
    ASSUME MergeInv, Sorted!CollectRow \/ Sorted!TakeRow
    PROVE  /\ GroupsStay /\ pending # None /\ pending' = None
           /\ rows' = rows \/ rows' = Append(rows, pending)
<1>1. CASE Sorted!TakeRow
  BY <1>1 DEF Sorted!TakeRow, Sorted!groups, Sorted!call, GroupsStay, MergeInv, Typed
<1>2. CASE Sorted!CollectRow
  <2>1. /\ pending # None /\ pending' = None
        /\ UNCHANGED <<input, config, taken, currentToken, currentRows, item, status>>
        /\ Emit(Sorted!RecordChanged(accumulator, pending.changes), pending)
    BY <1>2, SharedEmit DEF Sorted!CollectRow, Sorted!groups, Sorted!call
  <2>2. rows' = rows \/ rows' = Append(rows, pending)
    BY <2>1 DEF Emit
  <2>. QED  BY <2>1, <2>2 DEF GroupsStay, MergeInv, Typed
<1>. QED  BY <1>1, <1>2

(* Every step of the merge keeps the invariant. *)
LEMMA SortedStepKeeps ==
    ASSUME MergeInv, Sorted!Next
    PROVE  MergeInv'
<1>1. \/ CallMoves
      \/ \E side \in Side : Sorted!ExtendGroup(side)
      \/ \E side \in Side : Sorted!YieldGroup(side)
      \/ \E side \in Side : Sorted!YieldLast(side)
      \/ \E side \in Side : Sorted!EndGroups(side)
      \/ Sorted!SkipGroup("first", "second") \/ Sorted!SkipGroup("second", "first")
      \/ Sorted!CompareGroups
      \/ Sorted!CollectRow \/ Sorted!TakeRow
  BY SharedKey DEF Sorted!Next, Sorted!Progress, Sorted!Failure, CallMoves
<1>2. CASE CallMoves
  BY <1>2, CallMovesQuietly, QuietKeeps
<1>3. CASE \E side \in Side : Sorted!ExtendGroup(side)
  BY <1>3, ExtendKeeps
<1>4. CASE \E side \in Side : Sorted!YieldGroup(side)
  BY <1>4, YieldKeeps
<1>5. CASE \E side \in Side : Sorted!YieldLast(side)
  BY <1>5, YieldLastKeeps
<1>6. CASE \/ \E side \in Side : Sorted!EndGroups(side)
           \/ Sorted!SkipGroup("first", "second") \/ Sorted!SkipGroup("second", "first")
  BY <1>6, SidesMoveQuietly, QuietKeeps
<1>7. CASE Sorted!CompareGroups
  BY <1>7, CompareKeeps
<1>8. CASE Sorted!CollectRow \/ Sorted!TakeRow
  BY <1>8, HandsOut, HandOutKeeps
<1>. QED  BY <1>1, <1>2, <1>3, <1>4, <1>5, <1>6, <1>7, <1>8

(* The arguments of a call do not change. *)
LEMMA ConfigStays ==
    ASSUME [Next]_vars
    PROVE  config' = config
<1>1. CASE UNCHANGED vars
  BY <1>1 DEF vars, call
<1>2. CASE ~config.sorted_input /\ Unsorted!Next /\ UNCHANGED merge
  BY <1>2, SharedSteps
  DEF Unsorted!Next, Unsorted!Progress, Unsorted!Failure, Unsorted!RefuseConfig,
      Unsorted!StartIndex, Unsorted!IndexRow, Unsorted!FinishIndex, Unsorted!Open,
      Unsorted!SkipUnmatched, Unsorted!CompareRow, Unsorted!FinishCompare, Unsorted!Close,
      Unsorted!Exit, Unsorted!IndexRaises, Unsorted!CompareRaises, Unsorted!call, call,
      ConfigRaises, OpenWriter, CloseWriter, ExitWriter, OpenFails, ExitWriterFails
<1>3. CASE config.sorted_input /\ Sorted!Next /\ UNCHANGED index
  BY <1>3, SharedSteps
  DEF Sorted!Next, Sorted!Progress, Sorted!Failure, Sorted!RefuseConfig, Sorted!StartMerge,
      Sorted!Open, Sorted!ExtendGroup, Sorted!YieldGroup, Sorted!Take, Sorted!RefuseRow,
      Sorted!YieldLast, Sorted!EndGroups, Sorted!SkipGroup, Sorted!CompareGroups,
      Sorted!KeysRaise, Sorted!Finish, Sorted!CollectRow, Sorted!Close, Sorted!Exit,
      Sorted!SourceRaises, Sorted!CompareRaises, Sorted!CollectRaises, Sorted!TakeRow,
      Sorted!Abandon, Sorted!call, call,
      ConfigRaises, OpenWriter, CloseWriter, ExitWriter, OpenFails, ExitWriterFails
<1>. QED  BY <1>1, <1>2, <1>3 DEF Next

SortedInv == config.sorted_input => MergeInv

(* So does a stuttering step. *)
LEMMA MergeInvStays ==
    ASSUME MergeInv, UNCHANGED vars
    PROVE  MergeInv'
<1>1. GroupsStay /\ UNCHANGED <<rows, pending>>
  BY DEF GroupsStay, vars, call, merge, MergeInv, Typed
<1>. QED  BY <1>1, QuietKeeps

(* A call on sorted inputs keeps the invariant of the merge. *)
LEMMA SortedInvHolds == Spec => []SortedInv
<1>1. InitCall => SortedInv
  BY MergeInit DEF SortedInv
<1>2. SortedInv /\ [Next]_vars => SortedInv'
  <2> SUFFICES ASSUME SortedInv, [Next]_vars, config'.sorted_input PROVE MergeInv'
    BY DEF SortedInv
  <2>1. config.sorted_input
    BY ConfigStays
  <2>2. MergeInv /\ (Sorted!Next \/ UNCHANGED vars)
    BY <2>1 DEF SortedInv, Next
  <2>. QED  BY <2>2, SortedStepKeeps, MergeInvStays
<1>. QED  BY <1>1, <1>2, PTL DEF Spec

(* The rows read so far, as the specification of the merge has them. *)
LEMMA ReadIsPrefix ==
    ASSUME Typed, NEW side \in Side
    PROVE  /\ Len(Sorted!Read(side)) = taken[side]
           /\ \A i \in 1..taken[side] : Sorted!Read(side)[i].key = Key(side, i)
<1>1. taken[side] \in Nat /\ taken[side] <= Len(input[side]) /\ Len(input[side]) \in Nat
      /\ input[side] \in Seq(ToSet(input[side]))
  BY LenProperties DEF Typed, SortedCall
<1>2. /\ Len(SubSeq(input[side], 1, taken[side])) = taken[side]
      /\ \A i \in 1..taken[side] : SubSeq(input[side], 1, taken[side])[i] = input[side][i]
  BY <1>1, SubSeqProperties
<1>. QED  BY <1>2 DEF Sorted!Read, Key

(* "validates non-descending key order while reading" (docs/cli.md): a     *)
(* validated call that returns has read nothing out of order, whatever     *)
(* the inputs, the types of their keys, and the rows per key.              *)
THEOREM ReturnedMeansInOrder == Spec => []UnsortedIsRefused
<1>1. SortedInv => UnsortedIsRefused
  <2> SUFFICES ASSUME MergeInv, config.validate_sorted, NEW side \in Side
               PROVE  Sorted!NonDescending(Sorted!Read(side))
    BY SharedKey DEF SortedInv, UnsortedIsRefused, Sorted!UnsortedIsRefused
  <2>1. Typed /\ ReadInOrder(side)
    BY DEF MergeInv
  <2>2. /\ Len(Sorted!Read(side)) = taken[side]
        /\ \A i \in 1..taken[side] : Sorted!Read(side)[i].key = Key(side, i)
    BY <2>1, ReadIsPrefix
  <2>. QED  BY <2>1, <2>2 DEF ReadInOrder, Sorted!NonDescending
<1>. QED  BY <1>1, SortedInvHolds, PTL

(* iter_field_diff_sorted hands rows out before it has read its inputs.    *)
(* A row of a validated call names the first rows of its key, and no row   *)
(* that is read later changes that.                                        *)
THEOREM RowsAreNeverTakenBack == Spec => []RowsHoldForWhatWasRead
<1>1. SortedInv => RowsHoldForWhatWasRead
  <2> SUFFICES ASSUME MergeInv, config.validate_sorted, NEW k \in 1..Len(rows)
               PROVE  /\ Sorted!FirstOfKey(Sorted!Read("first"), rows[k].first)
                      /\ Sorted!FirstOfKey(Sorted!Read("second"), rows[k].second)
                      /\ Sorted!Key("first", rows[k].first) = rows[k].key
                      /\ Sorted!Key("second", rows[k].second) = rows[k].key
    BY DEF SortedInv, RowsHoldForWhatWasRead, Sorted!RowsHoldForWhatWasRead
  <2>1. Typed /\ RowHolds(rows[k])
    BY DEF MergeInv, HandedOut
  <2>2. ASSUME NEW side \in Side
        PROVE  /\ Sorted!FirstOfKey(Sorted!Read(side), rows[k][side])
               /\ Key(side, rows[k][side]) = rows[k].key
    <3>1. FirstRow(side, rows[k].key, rows[k][side])
      BY <2>1 DEF RowHolds
    <3>2. \A i \in 1..taken[side] : Sorted!Read(side)[i].key = Key(side, i)
      BY <2>1, ReadIsPrefix
    <3>3. taken[side] \in Nat
      BY <2>1 DEF Typed
    <3>4. /\ rows[k][side] \in 1..taken[side]
          /\ Key(side, rows[k][side]) = rows[k].key
          /\ \A j \in 1..(rows[k][side] - 1) : Key(side, j) # rows[k].key
      BY <3>1 DEF FirstRow
    <3>5. \A j \in 1..(rows[k][side] - 1) : j \in 1..taken[side]
      BY <3>3, <3>4
    <3>. QED  BY <3>2, <3>4, <3>5 DEF Sorted!FirstOfKey
  <2>. QED  BY <2>2, SharedKey DEF Side
<1>. QED  BY <1>1, SortedInvHolds, PTL

-----------------------------------------------------------------------------
(* The output file. *)

AreLines(lines) ==
    /\ lines \in Seq(ToSet(lines))
    /\ \A k \in 1..Len(lines) : lines[k].changes \in SUBSET Field

FieldsIn(lines) == UNION {{k} \X lines[k].changes : k \in 1..Len(lines)}

(* A file of lines has finitely many changed fields. *)
LEMMA FieldsAreCounted ==
    ASSUME NEW lines, AreLines(lines)
    PROVE  /\ IsFiniteSet(FieldsIn(lines))
           /\ FileSize(lines) \in Nat
<1>1. Len(lines) \in Nat
  BY LenProperties DEF AreLines
<1>2. IsFiniteSet((1..Len(lines)) \X Field)
  <2>1. IsFiniteSet(1..Len(lines))
    BY <1>1, FS_Interval
  <2>. QED  BY <2>1, FS_Product, FieldsAreFinite
<1>3. FieldsIn(lines) \subseteq (1..Len(lines)) \X Field
  <2> SUFFICES ASSUME NEW k \in 1..Len(lines), NEW place \in {k} \X lines[k].changes
               PROVE  place \in (1..Len(lines)) \X Field
    BY DEF FieldsIn
  <2>. QED  BY DEF AreLines
<1>4. IsFiniteSet(FieldsIn(lines))
  BY <1>2, <1>3, FS_Subset
<1>. QED  BY <1>1, <1>4, FS_CardinalityType DEF FileSize, FieldsIn

(* One more line makes the file larger by its length. *)
LEMMA LineIsAdded ==
    ASSUME NEW lines, AreLines(lines), NEW row, row.changes \in SUBSET Field
    PROVE  /\ AreLines(lines \o <<row>>)
           /\ FileSize(lines \o <<row>>) = FileSize(lines) + LineSize(row)
<1> DEFINE longer == lines \o <<row>>
           S == ToSet(lines) \cup {row}
<1>1. lines \in Seq(S) /\ <<row>> \in Seq(S) /\ Len(<<row>>) = 1 /\ <<row>>[1] = row
  <2>1. \A T : lines \in Seq(T) /\ T \subseteq S => lines \in Seq(S)
    OBVIOUS
  <2>. QED  BY <2>1 DEF AreLines
<1>2. /\ longer \in Seq(S) /\ Len(longer) = Len(lines) + 1 /\ Len(lines) \in Nat
      /\ \A k \in 1..Len(lines) : longer[k] = lines[k]
      /\ longer[Len(lines) + 1] = row
  <2> HIDE DEF S
  <2>1. /\ longer \in Seq(S) /\ Len(longer) = Len(lines) + 1 /\ Len(lines) \in Nat
        /\ \A k \in 1..(Len(lines) + 1) : longer[k] = IF k <= Len(lines) THEN lines[k]
                                                     ELSE <<row>>[k - Len(lines)]
    BY <1>1, ConcatProperties, LenProperties
  <2> HIDE DEF longer
  <2>. QED  BY <1>1, <2>1
<1> HIDE DEF longer, S
<1>3. longer \in Seq(ToSet(longer))
  <2>1. \A k \in 1..Len(longer) : longer[k] \in ToSet(longer)
    BY <1>2, LenProperties DEF ToSet
  <2>. QED  BY <1>2, <2>1, LenProperties
<1>4. AreLines(longer)
  BY <1>2, <1>3 DEF AreLines
<1>5. FieldsIn(longer) = FieldsIn(lines) \cup ({Len(lines) + 1} \X row.changes)
  <2>1. 1..Len(longer) = 1..Len(lines) \cup {Len(lines) + 1}
    BY <1>2
  <2>2. ASSUME NEW place \in FieldsIn(longer)
        PROVE  place \in FieldsIn(lines) \cup ({Len(lines) + 1} \X row.changes)
    <3>1. PICK k \in 1..Len(longer) : place \in {k} \X longer[k].changes
      BY <2>2 DEF FieldsIn
    <3>2. CASE k = Len(lines) + 1
      BY <1>2, <3>1, <3>2
    <3>3. CASE k \in 1..Len(lines)
      BY <1>2, <3>1, <3>3 DEF FieldsIn
    <3>. QED  BY <2>1, <3>2, <3>3
  <2>3. ASSUME NEW place \in FieldsIn(lines)
        PROVE  place \in FieldsIn(longer)
    <3>1. PICK k \in 1..Len(lines) : place \in {k} \X lines[k].changes
      BY <2>3 DEF FieldsIn
    <3>2. k \in 1..Len(longer) /\ longer[k] = lines[k]
      BY <1>2
    <3>. QED  BY <3>1, <3>2 DEF FieldsIn
  <2>4. {Len(lines) + 1} \X row.changes \subseteq FieldsIn(longer)
    <3>1. Len(lines) + 1 \in 1..Len(longer) /\ longer[Len(lines) + 1] = row
      BY <1>2
    <3>. QED  BY <3>1 DEF FieldsIn
  <2>. QED  BY <2>2, <2>3, <2>4
<1>6. FieldsIn(lines) \cap ({Len(lines) + 1} \X row.changes) = {}
  <2> SUFFICES ASSUME NEW place \in FieldsIn(lines), place \in {Len(lines) + 1} \X row.changes
               PROVE  FALSE
    OBVIOUS
  <2>1. PICK k \in 1..Len(lines) : place \in {k} \X lines[k].changes
    BY DEF FieldsIn
  <2>2. place[1] = k /\ place[1] = Len(lines) + 1
    BY <2>1
  <2>. QED  BY <1>2, <2>2
<1>7. IsFiniteSet(row.changes) /\ Cardinality(row.changes) \in Nat
  BY FS_Subset, FieldsAreFinite, FS_CardinalityType
<1>8. /\ IsFiniteSet({Len(lines) + 1} \X row.changes)
      /\ Cardinality({Len(lines) + 1} \X row.changes) = Cardinality(row.changes)
  <2>1. IsFiniteSet({Len(lines) + 1}) /\ Cardinality({Len(lines) + 1}) = 1
    BY FS_Singleton
  <2>2. /\ IsFiniteSet({Len(lines) + 1} \X row.changes)
        /\ Cardinality({Len(lines) + 1} \X row.changes) = 1 * Cardinality(row.changes)
    BY <1>7, <2>1, FS_Product
  <2>. QED  BY <1>7, <2>2
<1>9. Cardinality(FieldsIn(longer)) = Cardinality(FieldsIn(lines)) + Cardinality(row.changes)
  <2>1. IsFiniteSet(FieldsIn(lines)) /\ Cardinality(FieldsIn(lines)) \in Nat
    BY FieldsAreCounted, FS_CardinalityType
  <2>2. Cardinality(FieldsIn(lines) \cup ({Len(lines) + 1} \X row.changes)) =
           Cardinality(FieldsIn(lines)) + Cardinality({Len(lines) + 1} \X row.changes)
           - Cardinality(FieldsIn(lines) \cap ({Len(lines) + 1} \X row.changes))
    BY <1>8, <2>1, FS_Union
  <2>3. Cardinality(FieldsIn(lines) \cap ({Len(lines) + 1} \X row.changes)) = 0
    BY <1>6, FS_EmptySet
  <2>. QED  BY <1>5, <1>7, <1>8, <2>1, <2>2, <2>3
<1>10. FileSize(longer) = FileSize(lines) + LineSize(row)
  <2>1. Cardinality(FieldsIn(lines)) \in Nat
    BY FieldsAreCounted, FS_CardinalityType
  <2>2. FileSize(longer) = Len(longer) + Cardinality(FieldsIn(longer))
    BY DEF FileSize, FieldsIn
  <2>3. FileSize(lines) = Len(lines) + Cardinality(FieldsIn(lines))
    BY DEF FileSize, FieldsIn
  <2>. QED  BY <1>2, <1>7, <1>9, <2>1, <2>2, <2>3 DEF LineSize
<1>. QED  BY <1>4, <1>10 DEF longer

-----------------------------------------------------------------------------
WriterIsIn(states) == session["call"] \in states

(* The writer's file, and how the accumulator has counted it. *)
FileCounted ==
    /\ AreLines(sibling["call"])
    /\ FileSize(sibling["call"]) = accumulator.output_bytes
    /\ config.max_bytes # None => \/ FileSize(sibling["call"]) <= config.max_bytes
                                  \/ sibling["call"] = <<>>

BytesInv ==
    /\ "output_bytes" \in DOMAIN accumulator
    /\ sibling = [w \in Call |-> sibling["call"]]
    /\ session = [w \in Call |-> session["call"]]
    /\ config.columns # None => config.columns \subseteq Field
    /\ WriterIsIn({"idle"}) => accumulator.output_bytes = 0
    /\ Writing /\ (WriterIsIn({"open", "failing", "closed"}) \/ sibling["call"] # None) =>
          FileCounted

(* No file has no bytes. *)
LEMMA BytesInit == InitCall => BytesInv
<1> SUFFICES ASSUME InitCall PROVE BytesInv
  OBVIOUS
<1>1. PICK c \in Calls : config = c.config
  BY DEF InitCall, Init
<1>2. config.columns # None => config.columns \subseteq Field
  BY <1>1, OptionsAreParsed
<1>3. /\ accumulator = Empty /\ sibling = [w \in Call |-> None]
      /\ session = [w \in Call |-> "idle"]
  BY DEF InitCall, Init, Out!Init
<1>4. session["call"] = "idle" /\ sibling["call"] = None
  BY <1>3 DEF Call
<1>. QED  BY <1>2, <1>3, <1>4 DEF BytesInv, Empty, WriterIsIn

(* A step that counts rows and leaves the file alone. *)
LEMMA FileStays ==
    ASSUME BytesInv, UNCHANGED <<config, sibling, session>>,
           DOMAIN accumulator' = DOMAIN accumulator,
           accumulator'.output_bytes = accumulator.output_bytes
    PROVE  BytesInv'
BY DEF BytesInv, WriterIsIn, FileCounted, Writing

(* The writer starts with an empty file and no bytes counted. *)
LEMMA FileIsOpened ==
    ASSUME BytesInv, UNCHANGED <<config, accumulator>>, Out!Enter("call") \/ Out!EnterFails("call")
    PROVE  BytesInv'
<1>1. /\ session["call"] = "idle" /\ accumulator.output_bytes = 0
      /\ session' = [session EXCEPT !["call"] = session'["call"]]
      /\ sibling' = [sibling EXCEPT !["call"] = <<>>]
  BY DEF Out!Enter, Out!EnterFails, Out!Step, BytesInv, WriterIsIn, Call
<1>2. session'["call"] \in {"open", "failed"} /\ sibling'["call"] = <<>>
  BY <1>1 DEF Out!Enter, Out!EnterFails, Out!Step, BytesInv, Call
<1>3. /\ sibling' = [w \in Call |-> sibling'["call"]]
      /\ session' = [w \in Call |-> session'["call"]]
  BY <1>1 DEF BytesInv, Call
<1>4. AreLines(<<>>) /\ FileSize(<<>>) = 0
  <2>1. Len(<<>>) = 0 /\ FieldsIn(<<>>) = {}
    BY DEF FieldsIn
  <2>2. FileSize(<<>>) = Len(<<>>) + Cardinality(FieldsIn(<<>>))
    BY DEF FileSize, FieldsIn
  <2>. QED  BY <2>1, <2>2, FS_EmptySet DEF AreLines
<1>. QED  BY <1>1, <1>2, <1>3, <1>4 DEF BytesInv, WriterIsIn, FileCounted, Writing

(* The writer moves on, keeps its file or removes it. *)
LEMMA WriterMoves ==
    ASSUME BytesInv, UNCHANGED <<config, accumulator>>,
           \/ Out!BodyRaises("call") \/ Out!Close("call") \/ Out!CloseFails("call")
           \/ Out!Replace("call") \/ Out!ReplaceFails("call") \/ Out!Discard("call")
    PROVE  BytesInv'
<1>1. /\ session["call"] \in {"open", "failing", "closed"}
      /\ session'["call"] \in {"failing", "closed", "failed", "done"}
      /\ session'["call"] \in {"failing", "closed"} => sibling' = sibling
      /\ session' = [session EXCEPT !["call"] = session'["call"]]
      /\ sibling' = sibling \/ sibling' = [sibling EXCEPT !["call"] = None]
  BY DEF Out!BodyRaises, Out!Close, Out!CloseFails, Out!Replace, Out!ReplaceFails, Out!Discard,
         Out!Step, Out!FailedFile, BytesInv, Call
<1>2. /\ sibling' = [w \in Call |-> sibling'["call"]]
      /\ session' = [w \in Call |-> session'["call"]]
      /\ sibling' = sibling \/ sibling'["call"] = None
  BY <1>1 DEF BytesInv, Call
<1>. QED  BY <1>1, <1>2 DEF BytesInv, WriterIsIn, FileCounted, Writing

(* A row is written if it fits, and then counted. *)
LEMMA RowIsEmitted ==
    ASSUME BytesInv, UNCHANGED config, NEW acc, NEW row, Emit(acc, row),
           DOMAIN acc = DOMAIN accumulator, acc.output_bytes = accumulator.output_bytes,
           row.changes \in SUBSET Field
    PROVE  BytesInv'
<1>1. CASE ~CanEmit(acc) \/ (Writing /\ ~Fits(acc, row))
  <2>1. /\ accumulator' = [acc EXCEPT !.truncated = TRUE]
        /\ UNCHANGED <<sibling, session>>
    BY <1>1 DEF Emit, output
  <2>2. DOMAIN accumulator' = DOMAIN accumulator
        /\ accumulator'.output_bytes = accumulator.output_bytes
    BY <2>1
  <2>. QED  BY <2>1, <2>2, FileStays
<1>2. CASE CanEmit(acc) /\ ~Writing
  <2>1. /\ accumulator' = [acc EXCEPT !.emitted_row_count = @ + 1, !.output_bytes = @]
        /\ UNCHANGED <<sibling, session>>
    BY <1>2 DEF Emit, output
  <2>2. DOMAIN accumulator' = DOMAIN accumulator
        /\ accumulator'.output_bytes = accumulator.output_bytes
    BY <2>1
  <2>. QED  BY <2>1, <2>2, FileStays
<1>3. CASE CanEmit(acc) /\ Writing /\ Fits(acc, row)
  <2>1. /\ accumulator' = [acc EXCEPT !.emitted_row_count = @ + 1,
                                      !.output_bytes = @ + LineSize(row)]
        /\ session["call"] = "open"
        /\ session' = session
        /\ sibling' = [sibling EXCEPT !["call"] = @ \o <<row>>]
    BY <1>3 DEF Emit, Out!WriteRows
  <2>2. /\ DOMAIN accumulator' = DOMAIN accumulator
        /\ accumulator'.output_bytes = accumulator.output_bytes + LineSize(row)
    BY <2>1 DEF BytesInv
  <2>3. /\ sibling' = [w \in Call |-> sibling'["call"]]
        /\ sibling'["call"] = sibling["call"] \o <<row>>
    BY <2>1 DEF BytesInv, Call
  <2>4. FileCounted
    BY <1>3, <2>1 DEF BytesInv, WriterIsIn
  <2>5. /\ AreLines(sibling'["call"])
        /\ FileSize(sibling'["call"]) = accumulator'.output_bytes
    BY <2>2, <2>3, <2>4, LineIsAdded DEF FileCounted
  <2>6. config.max_bytes # None => FileSize(sibling'["call"]) <= config.max_bytes
    BY <1>3, <2>2, <2>5 DEF Fits
  <2>. QED  BY <1>3, <2>1, <2>2, <2>3, <2>5, <2>6 DEF BytesInv, WriterIsIn, FileCounted, Writing
<1>. QED  BY <1>1, <1>2, <1>3

Quietly == UNCHANGED <<config, accumulator, sibling, session>>

WritesNothing ==
    \/ Quietly
    \/ /\ UNCHANGED <<config, accumulator>>
       /\ \/ Out!Enter("call") \/ Out!EnterFails("call")
          \/ Out!BodyRaises("call") \/ Out!Close("call") \/ Out!CloseFails("call")
          \/ Out!Replace("call") \/ Out!ReplaceFails("call") \/ Out!Discard("call")

(* A step that writes no row keeps the count. *)
LEMMA WritesNothingKeeps ==
    ASSUME BytesInv, WritesNothing
    PROVE  BytesInv'
<1>1. CASE Quietly
  BY <1>1, FileStays DEF Quietly
<1>2. CASE ~Quietly
  BY <1>2, FileIsOpened, WriterMoves DEF WritesNothing
<1>. QED  BY <1>1, <1>2

(* The steps of the writer that both variants share. *)
LEMMA SharedStepsWriteNothing ==
    /\ (\E next : OpenWriter(next)) => WritesNothing
    /\ ConfigRaises => WritesNothing
    /\ OpenFails => WritesNothing
    /\ CloseWriter => WritesNothing
    /\ ExitWriter => WritesNothing
    /\ ExitWriterFails => WritesNothing
    /\ (\E cause : Raise(cause)) /\ UNCHANGED <<config, accumulator>> => WritesNothing
BY DEF OpenWriter, ConfigRaises, OpenFails, CloseWriter, ExitWriter, ExitWriterFails, Raise,
       WritesNothing, Quietly, call, output

(* The steps of the sorted variant keep the count; *)
LEMMA SortedStepBytes ==
    ASSUME BytesInv, MergeInv, Sorted!Next
    PROVE  BytesInv'
<1>1. CASE Sorted!CollectRow
  <2>1. /\ pending # None
        /\ UNCHANGED config
        /\ Emit(RecordChanged(accumulator, pending.changes), pending)
    BY <1>1, SharedEmit, SharedReport DEF Sorted!CollectRow, Sorted!call
  <2>2. pending \in Row
    BY <2>1 DEF MergeInv, Typed
  <2>3. pending.changes \in SUBSET Field
    BY <2>2 DEF Row
  <2> DEFINE acc == RecordChanged(accumulator, pending.changes)
  <2>4. DOMAIN acc = DOMAIN accumulator /\ acc.output_bytes = accumulator.output_bytes
    BY DEF RecordChanged
  <2> HIDE DEF acc
  <2>5. Emit(acc, pending)
    BY <2>1 DEF acc
  <2>. QED  BY <2>1, <2>3, <2>4, <2>5, RowIsEmitted
<1>2. ASSUME Sorted!Next, ~Sorted!CollectRow
      PROVE  WritesNothing
  <2>1. CASE \/ Sorted!RefuseConfig \/ Sorted!Open \/ Sorted!Close \/ Sorted!Exit
             \/ Sorted!OpenFails \/ Sorted!ExitWriterFails
    BY <2>1, SharedSteps, SharedStepsWriteNothing
    DEF Sorted!RefuseConfig, Sorted!Open, Sorted!Close, Sorted!Exit
  <2>2. CASE \/ \E side \in Sorted!Side : Sorted!RefuseRow(side) \/ Sorted!SourceRaises(side)
             \/ Sorted!KeysRaise \/ Sorted!CompareRaises \/ Sorted!CollectRaises
    <3>1. (\E cause : Raise(cause)) /\ UNCHANGED <<config, accumulator>>
      BY <2>2, SharedSteps
      DEF Sorted!RefuseRow, Sorted!SourceRaises, Sorted!KeysRaise, Sorted!CompareRaises,
          Sorted!CollectRaises, Sorted!call
    <3>. QED  BY <3>1, SharedStepsWriteNothing
  <2>3. CASE \/ Sorted!StartMerge
             \/ \E side \in Sorted!Side :
                   \/ Sorted!ExtendGroup(side) \/ Sorted!YieldGroup(side)
                   \/ Sorted!YieldLast(side) \/ Sorted!EndGroups(side)
             \/ Sorted!SkipGroup("first", "second") \/ Sorted!SkipGroup("second", "first")
             \/ Sorted!CompareGroups \/ Sorted!Finish \/ Sorted!TakeRow \/ Sorted!Abandon
    BY <2>3
    DEF Sorted!StartMerge, Sorted!ExtendGroup, Sorted!YieldGroup, Sorted!Take,
        Sorted!YieldLast, Sorted!EndGroups, Sorted!SkipGroup, Sorted!CompareGroups,
        Sorted!Finish, Sorted!TakeRow, Sorted!Abandon, Sorted!call, Sorted!output,
        WritesNothing, Quietly
  <2>. QED  BY <1>2, <2>1, <2>2, <2>3 DEF Sorted!Next, Sorted!Progress, Sorted!Failure
<1>. QED  BY <1>1, <1>2, WritesNothingKeeps

(* ... so do those of compare_fields. *)
LEMMA UnsortedStepBytes ==
    ASSUME BytesInv, Unsorted!Next
    PROVE  BytesInv'
<1>0. DOMAIN Unsorted!Counted = DOMAIN accumulator
      /\ Unsorted!Counted.output_bytes = accumulator.output_bytes
  BY DEF Unsorted!Counted
<1>1. DOMAIN Unsorted!CountedPair = DOMAIN accumulator
      /\ Unsorted!CountedPair.output_bytes = accumulator.output_bytes
  BY <1>0 DEF Unsorted!CountedPair
<1>2. CASE Unsorted!SkipUnmatched
  <2>1. accumulator' = Unsorted!Counted /\ UNCHANGED <<config, sibling, session>>
    BY <1>2 DEF Unsorted!SkipUnmatched, Unsorted!call, Unsorted!output
  <2>. QED  BY <1>0, <2>1, FileStays
<1>3. CASE Unsorted!CompareRow
  <2> DEFINE row == Report(Unsorted!Key("first", taken'.first), taken'.first,
                           rightIndex[Unsorted!Key("first", taken'.first)])
             acc == RecordChanged(Unsorted!CountedPair, row.changes)
  <2>1. /\ UNCHANGED config
        /\ \/ accumulator' = Unsorted!CountedPair /\ UNCHANGED <<sibling, session>>
           \/ Emit(acc, row)
    BY <1>3, SharedReport, SharedEmit
    DEF Unsorted!CompareRow, Unsorted!call, Unsorted!output
  <2>2. row.changes \in SUBSET Field
    BY DEF Report, ChangedFields, Selected, BytesInv
  <2>3. DOMAIN acc = DOMAIN accumulator /\ acc.output_bytes = accumulator.output_bytes
    BY <1>1 DEF RecordChanged
  <2> HIDE DEF row, acc
  <2>4. CASE Emit(acc, row)
    BY <2>1, <2>2, <2>3, <2>4, RowIsEmitted
  <2>5. CASE accumulator' = Unsorted!CountedPair /\ UNCHANGED <<sibling, session>>
    BY <1>1, <2>1, <2>5, FileStays
  <2>. QED  BY <2>1, <2>4, <2>5
<1>4. ASSUME Unsorted!Next, ~Unsorted!SkipUnmatched, ~Unsorted!CompareRow
      PROVE  WritesNothing
  <2>1. CASE \/ Unsorted!RefuseConfig \/ Unsorted!Open \/ Unsorted!Close \/ Unsorted!Exit
             \/ Unsorted!OpenFails \/ Unsorted!ExitWriterFails
    BY <2>1, SharedSteps, SharedStepsWriteNothing
    DEF Unsorted!RefuseConfig, Unsorted!Open, Unsorted!Close, Unsorted!Exit
  <2>2. CASE Unsorted!CompareRaises
    <3>1. (\E cause : Raise(cause)) /\ UNCHANGED <<config, accumulator>>
      BY <2>2, SharedSteps DEF Unsorted!CompareRaises, Unsorted!call
    <3>. QED  BY <3>1, SharedStepsWriteNothing
  <2>3. CASE \/ Unsorted!StartIndex \/ Unsorted!IndexRow \/ Unsorted!FinishIndex
             \/ Unsorted!FinishCompare \/ Unsorted!IndexRaises
    BY <2>3
    DEF Unsorted!StartIndex, Unsorted!IndexRow, Unsorted!FinishIndex, Unsorted!FinishCompare,
        Unsorted!IndexRaises, Unsorted!call, Unsorted!output, WritesNothing, Quietly
  <2>. QED  BY <1>4, <2>1, <2>2, <2>3 DEF Unsorted!Next, Unsorted!Progress, Unsorted!Failure
<1>. QED  BY <1>2, <1>3, <1>4, WritesNothingKeeps

(* In either variant the temporary file never outgrows max_bytes, not only *)
(* at the end, and output_bytes is its size, however many rows there are   *)
(* and whatever fails.                                                     *)
THEOREM FileStaysInBounds == Spec => []BytesAreBounded
<1>1. InitCall => BytesInv
  BY BytesInit
<1>2. BytesInv /\ SortedInv /\ [Next]_vars => BytesInv'
  <2> SUFFICES ASSUME BytesInv, SortedInv, [Next]_vars PROVE BytesInv'
    OBVIOUS
  <2>1. CASE UNCHANGED vars
    BY <2>1, FileStays DEF vars, call, output
  <2>2. CASE ~config.sorted_input /\ Unsorted!Next
    BY <2>2, UnsortedStepBytes
  <2>3. CASE config.sorted_input /\ Sorted!Next
    BY <2>3, SortedStepBytes DEF SortedInv
  <2>. QED  BY <2>1, <2>2, <2>3 DEF Next
<1>3. BytesInv => BytesAreBounded
  BY DEF BytesInv, FileCounted, BytesAreBounded
<1>. QED  BY <1>1, <1>2, <1>3, SortedInvHolds, PTL DEF Spec

-----------------------------------------------------------------------------
(* The types of a call on inputs that need not be sorted. *)
IndexedRows ==
    /\ \A key \in DOMAIN rightIndex :
          rightIndex[key] \in 1..taken.second /\ Key("second", rightIndex[key]) = key
    /\ IsFiniteSet(DOMAIN rightIndex)
    /\ duplicateKeys = taken.second - Cardinality(DOMAIN rightIndex)

IndexInv ==
    /\ phase \in {"config", "index", "open", "compare", "close", "returned", "raised"}
    /\ error \in {"config", "source", "row", "output", None}
    /\ taken \in [Side -> Nat]
    /\ \A side \in Side : Len(input[side]) \in Nat /\ taken[side] <= Len(input[side])
    /\ IndexedRows

(* Nothing is indexed at first. *)
LEMMA IndexInit == InitCall /\ ~config.sorted_input => IndexInv
<1> SUFFICES ASSUME InitCall PROVE IndexInv
  OBVIOUS
<1>1. PICK c \in Calls : input = c.input /\ config = c.config
  BY DEF InitCall, Init
<1>2. \A side \in Side : Len(input[side]) \in Nat
  BY <1>1, InputsAreRows, LenProperties
<1>3. /\ taken = [side \in Side |-> 0] /\ rightIndex = <<>> /\ duplicateKeys = 0
      /\ phase = "config" /\ error = None
  BY SharedKey DEF InitCall, Init, Unsorted!NothingTaken
<1>4. DOMAIN rightIndex = {}
  BY <1>3
<1>5. IndexedRows
  BY <1>3, <1>4, FS_EmptySet DEF IndexedRows, Side
<1>. QED  BY <1>2, <1>3, <1>5 DEF IndexInv

(* A row of the second input is indexed, or its key is a repeated one. *)
LEMMA IndexRowKeeps ==
    ASSUME IndexInv, Unsorted!IndexRow
    PROVE  IndexInv'
<1> DEFINE n == taken.second + 1
           key == Key("second", n)
<1>1. /\ UNCHANGED <<input, config, phase, error>>
      /\ taken' = [taken EXCEPT !.second = @ + 1]
      /\ taken.second < Len(input.second)
      /\ \/ key \in DOMAIN rightIndex /\ duplicateKeys' = duplicateKeys + 1
            /\ rightIndex' = rightIndex
         \/ key \notin DOMAIN rightIndex /\ duplicateKeys' = duplicateKeys
            /\ rightIndex' = [k \in DOMAIN rightIndex \cup {key} |->
                                IF k = key THEN n ELSE rightIndex[k]]
  BY SharedKey
  DEF Unsorted!IndexRow, Unsorted!Takes, Unsorted!call, Unsorted!Indexed, IndexInv, Side
<1>2. /\ taken' \in [Side -> Nat] /\ taken'.second = n /\ taken.second \in Nat
      /\ \A side \in Side : taken'[side] <= Len(input[side])
  BY <1>1 DEF IndexInv, Side
<1>3. \A k, i : Key(k, i)' = Key(k, i)
  BY <1>1 DEF Key
<1>4. Cardinality(DOMAIN rightIndex) \in Nat /\ IsFiniteSet(DOMAIN rightIndex)
  BY FS_CardinalityType DEF IndexInv, IndexedRows
<1>5. \A k \in DOMAIN rightIndex : rightIndex[k] \in 1..taken.second
                                   /\ Key("second", rightIndex[k]) = k
  BY DEF IndexInv, IndexedRows
<1>6. duplicateKeys = taken.second - Cardinality(DOMAIN rightIndex)
  BY DEF IndexInv, IndexedRows
<1> HIDE DEF key
<1>7. CASE key \in DOMAIN rightIndex
  <2>1. /\ rightIndex' = rightIndex /\ duplicateKeys' = duplicateKeys + 1
        /\ \A k \in DOMAIN rightIndex : Key("second", rightIndex[k])' = k
    BY <1>1, <1>5, <1>7 DEF Key
  <2>2. \A k \in DOMAIN rightIndex : rightIndex[k] \in 1..taken'.second
    BY <1>2, <1>5
  <2>3. duplicateKeys' = taken'.second - Cardinality(DOMAIN rightIndex')
    BY <1>2, <1>4, <1>6, <2>1
  <2>4. IndexedRows'
    BY <1>4, <2>1, <2>2, <2>3 DEF IndexedRows
  <2>. QED  BY <1>1, <1>2, <2>4 DEF IndexInv
<1>8. CASE key \notin DOMAIN rightIndex
  <2>1. /\ DOMAIN rightIndex' = DOMAIN rightIndex \cup {key}
        /\ duplicateKeys' = duplicateKeys
        /\ rightIndex'[key] = n
        /\ \A k \in DOMAIN rightIndex : rightIndex'[k] = rightIndex[k]
    BY <1>1, <1>8
  <2>2. /\ IsFiniteSet(DOMAIN rightIndex')
        /\ Cardinality(DOMAIN rightIndex') = Cardinality(DOMAIN rightIndex) + 1
    BY <1>4, <1>8, <2>1, FS_AddElement
  <2>3. Key("second", n) = key
    BY DEF key
  <2>4. \A k \in DOMAIN rightIndex' : /\ rightIndex'[k] \in 1..taken'.second
                                      /\ Key("second", rightIndex'[k]) = k
    BY <1>2, <1>5, <2>1, <2>3
  <2>5. \A k \in DOMAIN rightIndex' : Key("second", rightIndex[k])' = k
    BY <1>1, <2>4 DEF Key
  <2>6. duplicateKeys' = taken'.second - Cardinality(DOMAIN rightIndex')
    BY <1>2, <1>4, <1>6, <2>1, <2>2
  <2>7. IndexedRows'
    BY <2>2, <2>4, <2>5, <2>6 DEF IndexedRows
  <2>. QED  BY <1>1, <1>2, <2>7 DEF IndexInv
<1>. QED  BY <1>7, <1>8

(* Steps beside the index. *)
LEMMA IndexStays ==
    ASSUME IndexInv, UNCHANGED <<input, taken, rightIndex, duplicateKeys>>,
           phase' \in {"config", "index", "open", "compare", "close", "returned", "raised"},
           error' \in {"config", "source", "row", "output", None}
    PROVE  IndexInv'
BY DEF IndexInv, IndexedRows, Key

(* Every step of compare_fields keeps the index. *)
LEMMA UnsortedStepIndex ==
    ASSUME IndexInv, Unsorted!Next
    PROVE  IndexInv'
<1>1. CASE Unsorted!IndexRow
  BY <1>1, IndexRowKeeps
<1>2. CASE Unsorted!SkipUnmatched \/ Unsorted!CompareRow
  <2>1. /\ UNCHANGED <<input, phase, error, rightIndex, duplicateKeys>>
        /\ taken.first < Len(input.first)
        /\ taken' = [taken EXCEPT !.first = @ + 1]
    BY <1>2
    DEF Unsorted!SkipUnmatched, Unsorted!CompareRow, Unsorted!Takes, Unsorted!call, Unsorted!index
  <2>2. /\ taken' \in [Side -> Nat] /\ taken'.second = taken.second
        /\ \A side \in Side : taken'[side] <= Len(input[side])
    BY <2>1 DEF IndexInv, Side
  <2>. QED  BY <2>1, <2>2 DEF IndexInv, IndexedRows, Key
<1>3. CASE \/ Unsorted!RefuseConfig \/ Unsorted!Open \/ Unsorted!Close \/ Unsorted!Exit
           \/ (Unsorted!OpenFails \/ Unsorted!ExitWriterFails)
              /\ UNCHANGED <<taken, Unsorted!index>>
  <2>1. \/ ConfigRaises \/ OpenWriter("compare") \/ CloseWriter \/ ExitWriter
        \/ OpenFails \/ ExitWriterFails
    BY <1>3, SharedSteps
    DEF Unsorted!RefuseConfig, Unsorted!Open, Unsorted!Close, Unsorted!Exit
  <2>2. UNCHANGED <<taken, rightIndex, duplicateKeys>>
    BY <1>3
    DEF Unsorted!RefuseConfig, Unsorted!Open, Unsorted!Close, Unsorted!Exit, Unsorted!index
  <2>3. UNCHANGED input /\ error' \in {error, "config", "output"}
        /\ phase' \in {phase, "raised", "compare", "returned"}
    BY <2>1
    DEF ConfigRaises, OpenWriter, CloseWriter, ExitWriter, OpenFails, ExitWriterFails, call,
        Outcome
  <2>. QED  BY <2>2, <2>3, IndexStays DEF IndexInv
<1>4. CASE Unsorted!CompareRaises
  <2>1. /\ Raise("source") \/ Raise("row") \/ Raise("output")
        /\ UNCHANGED <<input, taken, rightIndex, duplicateKeys>>
    BY <1>4, SharedSteps DEF Unsorted!CompareRaises, Unsorted!call, Unsorted!index
  <2>2. phase' = "close" /\ error' \in {"source", "row", "output"}
    BY <2>1 DEF Raise
  <2>. QED  BY <2>1, <2>2, IndexStays
<1>5. CASE \/ Unsorted!StartIndex \/ Unsorted!FinishIndex \/ Unsorted!FinishCompare
           \/ Unsorted!IndexRaises
  <2>1. /\ UNCHANGED <<input, taken, rightIndex, duplicateKeys>>
        /\ phase' \in {"index", "open", "close", "raised"} /\ error' \in {error, "source"}
    BY <1>5
    DEF Unsorted!StartIndex, Unsorted!FinishIndex, Unsorted!FinishCompare,
        Unsorted!IndexRaises, Unsorted!call, Unsorted!index
  <2>. QED  BY <2>1, IndexStays DEF IndexInv
<1>. QED  BY <1>1, <1>2, <1>3, <1>4, <1>5 DEF Unsorted!Next, Unsorted!Progress, Unsorted!Failure

-----------------------------------------------------------------------------
(* The rows of a group were taken. *)
GroupsWereTaken ==
    /\ phase \in {"config", "open", "merge", "close", "closed", "returned", "raised"}
    /\ error \in {"config", "source", "row", "unsorted", "unorderable", "output", None}
    /\ \A side \in Side : /\ currentRows[side] \in Seq(1..taken[side])
                          /\ item[side].rows \in Seq(1..taken[side])

(* The groups are empty at first. *)
LEMMA GroupsWereTakenInit == InitCall => GroupsWereTaken
<1>1. \A S : <<>> \in Seq(S)
  OBVIOUS
<1> SUFFICES ASSUME InitCall PROVE GroupsWereTaken
  OBVIOUS
<1>2. /\ phase = "config" /\ error = None
      /\ currentRows = [side \in Side |-> <<>>]
      /\ item = [side \in Side |-> [key |-> Null, rows |-> <<>>]]
  BY SharedKey DEF InitCall, Init, Sorted!NothingTaken
<1>3. \A side \in Side : currentRows[side] = <<>> /\ item[side].rows = <<>>
  BY <1>2
<1>. QED  BY <1>1, <1>2, <1>3 DEF GroupsWereTaken

(* Rows that were taken stay taken. *)
LEMMA SeqIsMonotone ==
    ASSUME NEW m \in Nat, NEW n \in Nat, m <= n, NEW s \in Seq(1..m)
    PROVE  s \in Seq(1..n)
<1>1. Len(s) \in Nat /\ s \in [1..Len(s) -> 1..m]
  BY LenProperties
<1>2. s \in [1..Len(s) -> 1..n]
  BY <1>1
<1>. QED  BY <1>1, <1>2

(* The two inputs' groups as a step of one side leaves them. *)
LEMMA GroupsOfSide ==
    ASSUME MergeInv, GroupsWereTaken, NEW side \in Side,
           \/ Sorted!ExtendGroup(side) \/ Sorted!YieldGroup(side) \/ Sorted!YieldLast(side)
    PROVE  GroupsWereTaken'
<1>1. /\ taken \in [Side -> Nat] /\ taken' \in [Side -> Nat]
      /\ \A s \in Side : taken[s] <= taken'[s]
      /\ UNCHANGED <<phase, error>>
  <2>1. /\ taken \in [Side -> Nat] /\ UNCHANGED <<phase, error>>
        /\ taken' \in {taken, [taken EXCEPT ![side] = @ + 1]}
    BY DEF Sorted!ExtendGroup, Sorted!YieldGroup, Sorted!YieldLast, Sorted!Take, MergeInv, Typed
  <2>. QED  BY <2>1
<1>2. ASSUME NEW s \in Side
      PROVE  /\ currentRows[s] \in Seq(1..taken'[s])
             /\ item[s].rows \in Seq(1..taken'[s])
  BY <1>1, <1>2, SeqIsMonotone DEF GroupsWereTaken
<1>3. ASSUME NEW s \in Side
      PROVE  currentRows'[s] \in Seq(1..taken'[s])
  <2>1. CASE currentRows'[s] = currentRows[s]
    BY <1>2, <2>1
  <2>2. CASE currentRows'[s] # currentRows[s] /\ Sorted!YieldLast(side)
    <3>1. currentRows'[s] = <<>>
      BY <2>2 DEF Sorted!YieldLast, MergeInv, Typed
    <3>. QED  BY <3>1
  <2>3. CASE currentRows'[s] # currentRows[s] /\ Sorted!YieldGroup(side)
    <3>1. currentRows'[s] = <<taken'[s]>> /\ taken'[s] = taken[s] + 1
      BY <2>3 DEF Sorted!YieldGroup, Sorted!Take, MergeInv, Typed
    <3>2. taken'[s] \in 1..taken'[s]
      BY <1>1, <3>1
    <3>. QED  BY <3>1, <3>2
  <2>4. CASE currentRows'[s] # currentRows[s] /\ Sorted!ExtendGroup(side)
    <3>1. currentRows'[s] = Append(currentRows[s], taken'[s]) /\ taken'[s] = taken[s] + 1
      BY <2>4 DEF Sorted!ExtendGroup, Sorted!Take, MergeInv, Typed
    <3>2. taken'[s] \in 1..taken'[s]
      BY <1>1, <3>1
    <3>. QED  BY <1>2, <3>1, <3>2
  <2>. QED  BY <2>1, <2>2, <2>3, <2>4
<1>4. ASSUME NEW s \in Side
      PROVE  item'[s].rows \in Seq(1..taken'[s])
  <2>1. item' \in {item, [item EXCEPT ![side] = [key |-> currentToken[side],
                                               rows |-> currentRows[side]]]}
    BY DEF Sorted!ExtendGroup, Sorted!YieldGroup, Sorted!YieldLast
  <2>2. item \in [Side -> [key : KeyKinds, rows : Seq(Nat)]]
    BY DEF MergeInv, Typed
  <2>3. CASE item' = item
    BY <1>2, <2>3
  <2>4. CASE item' = [item EXCEPT ![side] = [key |-> currentToken[side],
                                            rows |-> currentRows[side]]]
    <3>1. item'[s] = IF s = side THEN [key |-> currentToken[side], rows |-> currentRows[side]]
                     ELSE item[s]
      BY <2>2, <2>4
    <3>. QED  BY <1>2, <3>1
  <2>. QED  BY <2>1, <2>3, <2>4
<1>. QED  BY <1>1, <1>3, <1>4 DEF GroupsWereTaken

(* Every step of the merge groups rows that were taken. *)
LEMMA SortedStepGroups ==
    ASSUME MergeInv, GroupsWereTaken, Sorted!Next
    PROVE  GroupsWereTaken'
<1>1. CASE \E side \in Side :
             Sorted!ExtendGroup(side) \/ Sorted!YieldGroup(side) \/ Sorted!YieldLast(side)
  BY <1>1, GroupsOfSide
<1>2. ASSUME GroupsStay,
             phase' \in {"config", "open", "merge", "close", "closed", "returned", "raised"},
             error' \in {"config", "source", "row", "unsorted", "unorderable", "output", None}
      PROVE  GroupsWereTaken'
  BY <1>2 DEF GroupsStay, GroupsWereTaken
<1>3. CASE \/ \E side \in Side : Sorted!EndGroups(side)
           \/ Sorted!SkipGroup("first", "second") \/ Sorted!SkipGroup("second", "first")
  <2>1. GroupsStay
    BY <1>3, SidesMoveQuietly
  <2>2. UNCHANGED <<phase, error>>
    BY <1>3 DEF Sorted!EndGroups, Sorted!SkipGroup
  <2>. QED  BY <1>2, <2>1, <2>2 DEF GroupsWereTaken
<1>4. CASE Sorted!CollectRow \/ Sorted!TakeRow
  <2>1. GroupsStay
    BY <1>4, HandsOut
  <2>2. UNCHANGED <<phase, error>>
    BY <1>4 DEF Sorted!CollectRow, Sorted!TakeRow
  <2>. QED  BY <1>2, <2>1, <2>2 DEF GroupsWereTaken
<1>5. CASE Sorted!CompareGroups
  BY <1>5, SharedKey DEF Sorted!CompareGroups, GroupsWereTaken
<1>6. CASE CallMoves
  <2>1. GroupsStay
    BY <1>6, CallMovesQuietly
  <2>2. CASE \/ Sorted!RefuseConfig \/ Sorted!Open \/ Sorted!Close \/ Sorted!Exit
             \/ Sorted!OpenFails \/ Sorted!ExitWriterFails
    <3>1. \/ ConfigRaises \/ OpenWriter("merge") \/ CloseWriter \/ ExitWriter
          \/ OpenFails \/ ExitWriterFails
      BY <2>2, SharedSteps
      DEF Sorted!RefuseConfig, Sorted!Open, Sorted!Close, Sorted!Exit
    <3>2. error' \in {error, "config", "output"}
          /\ phase' \in {phase, "raised", "merge", "returned"}
      BY <3>1
      DEF ConfigRaises, OpenWriter, CloseWriter, ExitWriter, OpenFails, ExitWriterFails, Outcome
    <3>. QED  BY <1>2, <2>1, <3>2 DEF GroupsWereTaken
  <2>3. CASE \/ \E side \in Side : Sorted!RefuseRow(side) \/ Sorted!SourceRaises(side)
             \/ Sorted!KeysRaise \/ Sorted!CompareRaises \/ Sorted!CollectRaises
    <3>1. \/ Raise("source") \/ Raise("row") \/ Raise("output")
          \/ Raise("unsorted") \/ Raise("unorderable")
      BY <2>3, SharedSteps
      DEF Sorted!RefuseRow, Sorted!SourceRaises, Sorted!KeysRaise, Sorted!CompareRaises,
          Sorted!CollectRaises
    <3>. QED  BY <1>2, <2>1, <3>1 DEF Raise
  <2>4. CASE Sorted!StartMerge \/ Sorted!Finish \/ Sorted!Abandon
    BY <1>2, <2>1, <2>4 DEF Sorted!StartMerge, Sorted!Finish, Sorted!Abandon, GroupsWereTaken
  <2>. QED  BY <1>6, <2>2, <2>3, <2>4 DEF CallMoves
<1>. QED
  BY <1>1, <1>3, <1>4, <1>5, <1>6, SharedKey
  DEF Sorted!Next, Sorted!Progress, Sorted!Failure, CallMoves

TypeInv ==
    /\ ~config.sorted_input => IndexInv
    /\ config.sorted_input => GroupsWereTaken

(* A stuttering step keeps the types. *)
LEMMA TypeInvStays ==
    ASSUME TypeInv, UNCHANGED vars
    PROVE  TypeInv'
<1>1. ~config.sorted_input => IndexInv'
  BY IndexStays DEF TypeInv, IndexInv, vars, call, index
<1>2. config.sorted_input => GroupsWereTaken'
  BY DEF TypeInv, GroupsWereTaken, vars, merge
<1>. QED  BY <1>1, <1>2 DEF TypeInv, vars, call

(* Every variable has its type: the phases and errors are those of the     *)
(* variant, no more rows are taken than there are, groups hold rows that   *)
(* were taken, and the index one row of every key, the others counted.     *)
THEOREM FieldDiffTypes == Spec => []TypeOK
<1>1. InitCall => TypeInv
  BY IndexInit, GroupsWereTakenInit DEF TypeInv
<1>2. TypeInv /\ SortedInv /\ [Next]_vars => TypeInv'
  <2> SUFFICES ASSUME TypeInv, SortedInv, [Next]_vars PROVE TypeInv'
    OBVIOUS
  <2>1. CASE UNCHANGED vars
    BY <2>1, TypeInvStays
  <2>2. CASE ~config.sorted_input /\ Unsorted!Next
    BY <2>2, UnsortedStepIndex, ConfigStays DEF TypeInv
  <2>3. CASE config.sorted_input /\ Sorted!Next
    BY <2>3, SortedStepGroups, ConfigStays DEF TypeInv, SortedInv
  <2>. QED  BY <2>1, <2>2, <2>3 DEF Next
<1>3. TypeInv /\ SortedInv => TypeOK
  <2> SUFFICES ASSUME TypeInv, SortedInv PROVE TypeOK
    OBVIOUS
  <2>1. CASE ~config.sorted_input
    <3>1. IndexInv
      BY <2>1 DEF TypeInv
    <3>2. \A side \in Side : taken[side] \in 0..Len(input[side])
      BY <3>1 DEF IndexInv
    <3>. QED  BY <2>1, <3>1, <3>2, SharedKey, SharedCardinality
         DEF TypeOK, IndexInv, IndexedRows, Unsorted!TypeOK
  <2>2. CASE config.sorted_input
    <3>1. GroupsWereTaken /\ MergeInv
      BY <2>2 DEF TypeInv, SortedInv
    <3>2. \A side \in Side :
             /\ taken[side] \in 0..Len(input[side])
             /\ status[side] \in {"pull", "group", "end"}
             /\ status[side] = "group" => item[side].key # Null /\ item[side].rows # <<>>
      <4>1. \A side \in Side : Len(input[side]) \in Nat
        BY <3>1, LenProperties DEF MergeInv, Typed, SortedCall
      <4>. QED  BY <3>1, <4>1 DEF MergeInv, Typed, YieldedGroup
    <3>. QED  BY <2>2, <3>1, <3>2, SharedKey DEF TypeOK, GroupsWereTaken, Sorted!TypeOK
  <2>. QED  BY <2>1, <2>2
<1>. QED  BY <1>1, <1>2, <1>3, SortedInvHolds, PTL DEF Spec
===============================================================================
