--------------------------- MODULE SortedStreamProofs ---------------------------
(***************************************************************************)
(* For all inputs and options: the lazy diff refuses what is not sorted,   *)
(* holds one group of each input, and never has to take back a row.        *)
(***************************************************************************)
EXTENDS SortedStream, SequenceTheorems, TLAPS

(* What is read of an input falls in three parts: the ordinals before      *)
(* LiveStart have been compared, those up to CurrentStart are the group in *)
(* the merge, and the rest is the group being collected.                   *)
CurrentStart(side) ==
    IF current[side] = <<>> THEN itemCount[side] + 1 ELSE current[side][1]

LiveStart(side) == IF status[side] = "group" THEN group[side][1] ELSE CurrentStart(side)

Typed ==
    /\ input \in [Side -> Seq(Int \cup {Unorderable})]
    /\ itemCount \in [Side -> Nat]
    /\ current \in [Side -> Seq(Nat)]
    /\ group \in [Side -> Seq(Nat)]
    /\ status \in [Side -> {"pull", "group", "end"}]

(* q lists the ordinals from..(to - 1). *)
IsRun(q, from, to) == Len(q) = to - from /\ \A k \in 1..Len(q) : q[k] = from + k - 1

CurrentIsARun(side) ==
    /\ itemCount[side] <= Len(input[side])
    /\ CurrentStart(side) \in 1..(itemCount[side] + 1)
    /\ IsRun(current[side], CurrentStart(side), itemCount[side] + 1)
    /\ \A k \in CurrentStart(side)..itemCount[side] :
          input[side][k] = input[side][CurrentStart(side)]
    /\ current[side] = <<>> => itemCount[side] \in {0, Len(input[side])}
    /\ status[side] = "end" => current[side] = <<>> /\ itemCount[side] = Len(input[side])

GroupIsARun(side) ==
    status[side] = "group" =>
        /\ Len(current[side]) <= 1
        /\ group[side][1] \in 1..(CurrentStart(side) - 1)
        /\ IsRun(group[side], group[side][1], CurrentStart(side))
        /\ \A k \in group[side][1]..(CurrentStart(side) - 1) : input[side][k] = TokenOf(side)
        /\ current[side] # <<>> => CurrentToken(side) # TokenOf(side)

Layout == Typed /\ \A side \in Side : CurrentIsARun(side) /\ GroupIsARun(side)

-----------------------------------------------------------------------------
(* A run grows by the ordinal behind it. *)
LEMMA RunGrows ==
    ASSUME NEW q \in Seq(Nat), NEW from \in Nat, NEW to \in Nat, IsRun(q, from, to)
    PROVE  IsRun(Append(q, to), from, to + 1)
<1>1. /\ Len(q) \in Nat
      /\ Len(Append(q, to)) = Len(q) + 1
      /\ \A k \in 1..Len(q) : Append(q, to)[k] = q[k]
      /\ Append(q, to)[Len(q) + 1] = to
  BY AppendProperties, LenProperties
<1>2. Len(q) = to - from /\ \A k \in 1..Len(q) : q[k] = from + k - 1
  BY DEF IsRun
<1>3. ASSUME NEW k \in 1..(Len(q) + 1) PROVE Append(q, to)[k] = from + k - 1
  <2>1. CASE k = Len(q) + 1
    BY <1>1, <1>2, <2>1
  <2>2. CASE k # Len(q) + 1
    BY <1>1, <1>2, <2>2
  <2>. QED  BY <2>1, <2>2
<1>. QED  BY <1>1, <1>2, <1>3 DEF IsRun

(* The side that acts is laid out as before, and the other is not touched. *)
LEMMA OtherSideUntouched ==
    ASSUME Layout, Typed', NEW side \in Side, UNCHANGED input,
           \A s \in Side \ {side} : /\ itemCount'[s] = itemCount[s]
                                    /\ current'[s] = current[s]
                                    /\ group'[s] = group[s]
                                    /\ status'[s] = status[s],
           CurrentIsARun(side)', GroupIsARun(side)'
    PROVE  Layout'
<1>1. ASSUME NEW s \in Side \ {side} PROVE CurrentIsARun(s)' /\ GroupIsARun(s)'
  <2>1. CurrentIsARun(s) /\ GroupIsARun(s)
    BY DEF Layout
  <2>2. CurrentStart(s)' = CurrentStart(s)
    BY DEF CurrentStart
  <2>3. TokenOf(s)' = TokenOf(s) /\ CurrentToken(s)' = CurrentToken(s)
    BY DEF TokenOf, CurrentToken
  <2>. QED  BY <2>1, <2>2, <2>3 DEF CurrentIsARun, GroupIsARun
<1>. QED  BY <1>1 DEF Layout

(* One more item for the group being collected. *)
LEMMA ExtendKeepsLayout ==
    ASSUME Layout, NEW side \in Side, ExtendGroup(side)
    PROVE  Layout'
<1> DEFINE n == itemCount[side]
           c == current[side]
<1>1. /\ status[side] = "pull"
      /\ n < Len(input[side])
      /\ c # <<>> => input[side][n + 1] = input[side][c[1]]
      /\ itemCount' = [itemCount EXCEPT ![side] = n + 1]
      /\ current' = [current EXCEPT ![side] = Append(c, n + 1)]
      /\ UNCHANGED <<input, group, status>>
  BY DEF ExtendGroup, Pulls, call, NextToken, CurrentToken, Layout, Typed
<1>2. n \in Nat /\ c \in Seq(Nat) /\ Len(c) \in Nat /\ Len(input[side]) \in Nat
  BY LenProperties DEF Layout, Typed
<1>3. /\ Append(c, n + 1) \in Seq(Nat)
      /\ Len(Append(c, n + 1)) = Len(c) + 1
      /\ \A k \in 1..Len(c) : Append(c, n + 1)[k] = c[k]
      /\ Append(c, n + 1)[Len(c) + 1] = n + 1
  BY <1>2, AppendProperties
<1>4. Typed'
  BY <1>1, <1>2, <1>3 DEF Layout, Typed
<1>5. CurrentIsARun(side)
  BY DEF Layout
<1>6. c = <<>> <=> Len(c) = 0
  BY <1>2, EmptySeq
<1>7. itemCount'[side] = n + 1 /\ current'[side] = Append(c, n + 1) /\ current'[side] # <<>>
  BY <1>1, <1>2, <1>3, EmptySeq DEF Layout, Typed
<1>8. CurrentStart(side)' = CurrentStart(side)
  BY <1>2, <1>3, <1>6, <1>7 DEF CurrentStart
<1> DEFINE start == CurrentStart(side)
<1>9. CurrentIsARun(side)'
  <2>1. /\ start \in 1..(n + 1)
        /\ Len(c) = (n + 1) - start
        /\ \A k \in 1..Len(c) : c[k] = start + k - 1
        /\ \A k \in start..n : input[side][k] = input[side][start]
    BY <1>5 DEF CurrentIsARun, IsRun
  <2>2. input[side][n + 1] = input[side][start]
    <3>1. CASE c = <<>>
      BY <3>1 DEF CurrentStart
    <3>2. CASE c # <<>>
      BY <1>1, <3>2 DEF CurrentStart
    <3>. QED  BY <3>1, <3>2
  <2>3. IsRun(Append(c, n + 1), start, n + 2)
    <3>1. start \in Nat /\ n + 1 \in Nat /\ (n + 1) + 1 = n + 2
      BY <1>2, <2>1
    <3>2. IsRun(c, start, n + 1)
      BY <1>5 DEF CurrentIsARun
    <3>. QED  BY <1>2, <3>1, <3>2, RunGrows
  <2> HIDE DEF start, n, c
  <2>4. /\ n + 1 <= Len(input[side])
        /\ start \in 1..((n + 1) + 1)
    BY <1>1, <1>2, <2>1
  <2>5. ASSUME NEW k \in start..(n + 1) PROVE input[side][k] = input[side][start]
    <3>1. CASE k = n + 1
      BY <2>2, <3>1
    <3>2. CASE k # n + 1
      BY <1>2, <2>1, <3>2
    <3>. QED  BY <3>1, <3>2
  <2>6. input' = input /\ status'[side] = "pull"
    BY <1>1
  <2>7. (n + 1) + 1 = n + 2
    BY <1>2
  <2>8. CurrentStart(side)' = start
    BY <1>8 DEF start
  <2>. QED  BY <1>7, <2>3, <2>4, <2>5, <2>6, <2>7, <2>8 DEF CurrentIsARun
<1>10. GroupIsARun(side)'
  BY <1>1 DEF GroupIsARun
<1>. QED  BY <1>1, <1>4, <1>9, <1>10, OtherSideUntouched DEF Layout, Typed

(* The group being collected is handed over, and the next one begins. *)
LEMMA YieldKeepsLayout ==
    ASSUME Layout, NEW side \in Side, YieldGroup(side)
    PROVE  Layout'
<1> DEFINE n == itemCount[side]
           c == current[side]
<1>1. /\ c # <<>>
      /\ n < Len(input[side])
      /\ input[side][n + 1] # input[side][c[1]]
      /\ itemCount' = [itemCount EXCEPT ![side] = n + 1]
      /\ current' = [current EXCEPT ![side] = <<n + 1>>]
      /\ group' = [group EXCEPT ![side] = c]
      /\ status' = [status EXCEPT ![side] = "group"]
      /\ UNCHANGED input
  BY DEF YieldGroup, EndsGroup, call, NextToken, CurrentToken, Layout, Typed
<1>2. n \in Nat /\ c \in Seq(Nat) /\ Len(c) \in Nat /\ Len(c) > 0 /\ Len(input[side]) \in Nat
  BY <1>1, LenProperties, EmptySeq DEF Layout, Typed
<1>3. /\ itemCount'[side] = n + 1
      /\ current'[side] = <<n + 1>>
      /\ group'[side] = c
      /\ status'[side] = "group"
      /\ input' = input
  BY <1>1 DEF Layout, Typed
<1>4. Typed'
  BY <1>1, <1>2 DEF Layout, Typed
<1>5. /\ CurrentStart(side) = c[1]
      /\ c[1] \in 1..(n + 1)
      /\ IsRun(c, c[1], n + 1)
      /\ \A k \in c[1]..n : input[side][k] = input[side][c[1]]
  BY <1>1 DEF Layout, CurrentIsARun, CurrentStart
<1>6. c[1] \in 1..n
  BY <1>2, <1>5 DEF IsRun
<1>7. CurrentStart(side)' = n + 1
  BY <1>3 DEF CurrentStart
<1>8. CurrentIsARun(side)'
  <2>1. IsRun(<<n + 1>>, n + 1, n + 2)
    BY <1>2 DEF IsRun
  <2> HIDE DEF n, c
  <2>2. n + 1 \in 1..((n + 1) + 1) /\ n + 1 <= Len(input[side]) /\ (n + 1) + 1 = n + 2
    BY <1>1, <1>2
  <2>3. \A k \in (n + 1)..(n + 1) : input[side][k] = input[side][n + 1]
    BY <1>2
  <2>. QED  BY <1>3, <1>7, <2>1, <2>2, <2>3 DEF CurrentIsARun
<1>9. GroupIsARun(side)'
  <2>1. TokenOf(side)' = input[side][c[1]] /\ CurrentToken(side)' = input[side][n + 1]
    BY <1>3 DEF TokenOf, CurrentToken
  <2>2. (n + 1) - 1 = n /\ Len(<<n + 1>>) = 1
    BY <1>2
  <2>3. Len(current[side])' <= 1
    BY <1>3, <2>2
  <2>4. group'[side][1] \in 1..(CurrentStart(side)' - 1)
    BY <1>3, <1>6, <1>7, <2>2
  <2>5. IsRun(group'[side], group'[side][1], CurrentStart(side)')
    BY <1>3, <1>5, <1>7
  <2>6. \A k \in (group'[side][1])..(CurrentStart(side)' - 1) :
           input'[side][k] = TokenOf(side)'
    BY <1>3, <1>5, <1>7, <2>1, <2>2
  <2>7. CurrentToken(side)' # TokenOf(side)'
    BY <1>1, <2>1
  <2>. QED  BY <2>3, <2>4, <2>5, <2>6, <2>7 DEF GroupIsARun
<1>. QED  BY <1>1, <1>4, <1>8, <1>9, OtherSideUntouched DEF Layout, Typed

(* The last group is handed over, or there is none left. *)
LEMMA EndKeepsLayout ==
    ASSUME Layout, NEW side \in Side, EndGroups(side)
    PROVE  Layout'
<1> DEFINE n == itemCount[side]
           c == current[side]
<1>1. /\ n = Len(input[side])
      /\ current' = [current EXCEPT ![side] = <<>>]
      /\ group' = [group EXCEPT ![side] = c]
      /\ status' = [status EXCEPT ![side] = IF c = <<>> THEN "end" ELSE "group"]
      /\ UNCHANGED <<input, itemCount>>
  BY DEF EndGroups, call
<1>2. n \in Nat /\ c \in Seq(Nat) /\ Len(c) \in Nat /\ (c = <<>> \/ Len(c) > 0)
  BY LenProperties, EmptySeq DEF Layout, Typed
<1>3. /\ current'[side] = <<>>
      /\ group'[side] = c
      /\ status'[side] = IF c = <<>> THEN "end" ELSE "group"
      /\ input' = input /\ itemCount' = itemCount
  BY <1>1 DEF Layout, Typed
<1>4. Typed'
  BY <1>1, <1>2, EmptySeq DEF Layout, Typed
<1>5. CurrentStart(side)' = n + 1
  BY <1>3 DEF CurrentStart
<1>6. CurrentIsARun(side)'
  <2>1. IsRun(<<>>, n + 1, n + 1)
    BY <1>2, EmptySeq DEF IsRun
  <2> HIDE DEF c
  <2>. QED  BY <1>1, <1>2, <1>3, <1>5, <2>1 DEF CurrentIsARun
<1>7. GroupIsARun(side)'
  <2>1. CASE c = <<>>
    BY <1>3, <2>1 DEF GroupIsARun
  <2>2. CASE c # <<>>
    <3>1. /\ c[1] \in 1..(n + 1)
          /\ IsRun(c, c[1], n + 1)
          /\ \A k \in c[1]..n : input[side][k] = input[side][c[1]]
      BY <2>2 DEF Layout, CurrentIsARun, CurrentStart
    <3>2. c[1] \in 1..n
      BY <1>2, <2>2, <3>1 DEF IsRun
    <3>3. TokenOf(side)' = input[side][c[1]]
      BY <1>3 DEF TokenOf
    <3>4. (n + 1) - 1 = n /\ Len(<<>>) = 0
      BY <1>2, EmptySeq
    <3> HIDE DEF n, c
    <3>. QED  BY <1>3, <1>5, <3>1, <3>2, <3>3, <3>4 DEF GroupIsARun
  <2>. QED  BY <2>1, <2>2
<1>. QED  BY <1>1, <1>4, <1>6, <1>7, OtherSideUntouched DEF Layout, Typed

(* A round of the merge gives up one group or both. *)
LEMMA EmitKeepsLayout ==
    ASSUME Layout, UNCHANGED <<input, itemCount, current, group>>,
           status' \in [Side -> {"pull", "group", "end"}],
           \A side \in Side : status'[side] \in {status[side], "pull"}
    PROVE  Layout'
<1>1. Typed'
  BY DEF Layout, Typed
<1>2. ASSUME NEW side \in Side PROVE CurrentIsARun(side)' /\ GroupIsARun(side)'
  <2>1. CurrentIsARun(side) /\ GroupIsARun(side)
    BY DEF Layout
  <2>2. /\ CurrentStart(side)' = CurrentStart(side)
        /\ TokenOf(side)' = TokenOf(side)
        /\ CurrentToken(side)' = CurrentToken(side)
        /\ status'[side] # "pull" => status'[side] = status[side]
    BY DEF CurrentStart, TokenOf, CurrentToken
  <2>. QED  BY <2>1, <2>2 DEF CurrentIsARun, GroupIsARun
<1>. QED  BY <1>1, <1>2 DEF Layout

(* What a step does to the groups. *)
Reads(side) == ExtendGroup(side) \/ YieldGroup(side) \/ EndGroups(side)
Emits == EmitCommon \/ \E side \in Side : EmitOnly(side)
Unread == UNCHANGED <<input, config, groups>>

(* The parts of both inputs stay what they are at every step. *)
LEMMA LayoutKept ==
    ASSUME Layout, [Next]_vars
    PROVE  /\ Layout'
           /\ Unread \/ Emits \/ \E side \in Side : Reads(side)
<1>1. ASSUME NEW side \in Side, Reads(side) PROVE Layout'
  BY <1>1, ExtendKeepsLayout, YieldKeepsLayout, EndKeepsLayout DEF Reads
<1>2. ASSUME Emits PROVE Layout'
  <2>1. /\ UNCHANGED <<input, itemCount, current, group>>
        /\ status' \in [Side -> {"pull", "group", "end"}]
        /\ \A side \in Side : status'[side] \in {status[side], "pull"}
    BY <1>2 DEF Emits, EmitCommon, EmitOnly, call, Layout, Typed
  <2>. QED  BY <2>1, EmitKeepsLayout
<1>3. ASSUME Unread PROVE Layout'
  BY <1>3, EmitKeepsLayout DEF Unread, groups, Layout, Typed
<1>4. Unread \/ Emits \/ \E side \in Side : Reads(side)
  BY DEF Next, Progress, Failure, Group, Reads, Emits, Unread, Start, OpenFails, RefuseItem,
         SourceRaises, CompareRaises, WriteRow, TakeRow, Abandon, WriteRaises, Finish,
         CloseWriter, ExitWriter, ExitWriterFails, vars, call, groups
<1>. QED  BY <1>1, <1>2, <1>3, <1>4

(* Nothing has been read, so every part is empty. *)
LEMMA LayoutInit == ASSUME Init PROVE Layout
<1>1. Typed
  BY InputsAreTokens, EmptySeq DEF Init, Typed
<1>2. ASSUME NEW side \in Side PROVE CurrentIsARun(side) /\ GroupIsARun(side)
  <2>1. /\ itemCount[side] = 0 /\ current[side] = <<>> /\ status[side] = "pull"
        /\ Len(input[side]) \in Nat /\ Len(<<>>) = 0
    BY <1>1, LenProperties, EmptySeq DEF Init, Typed
  <2>2. CurrentStart(side) = 1
    BY <2>1 DEF CurrentStart
  <2>. QED  BY <2>1, <2>2 DEF CurrentIsARun, GroupIsARun, IsRun
<1>. QED  BY <1>1, <1>2 DEF Layout

-----------------------------------------------------------------------------
(* "It keeps only the current equal-token group from each input in memory" *)
(* (streaming.py): while a group is in the merge, one item more is held,   *)
(* whatever the inputs.                                                    *)
THEOREM OneGroupHeld == Spec => []HoldsOneGroup
<1>1. Init => Layout
  BY LayoutInit
<1>2. Layout /\ [Next]_vars => Layout'
  BY LayoutKept
<1>3. Layout => HoldsOneGroup
  BY DEF Layout, GroupIsARun, HoldsOneGroup
<1>. QED  BY <1>1, <1>2, <1>3, PTL DEF Spec

-----------------------------------------------------------------------------
(* What validation adds: an input is read in order, whatever has been      *)
(* compared is less than all that is still to compare, on either side, and *)
(* nothing is compared before both inputs have been asked for an item.     *)
ReadInOrder ==
    \A s \in Side : \A i, j \in 1..itemCount[s] :
        i < j => input[s][i] = input[s][j] \/ Less(input[s][i], input[s][j])

ComparedIsLess ==
    \A o, s \in Side : \A i \in 1..(LiveStart(o) - 1) : \A k \in LiveStart(s)..itemCount[s] :
        Less(input[o][i], input[s][k])

BothWereAsked ==
    \A o, s \in Side : LiveStart(o) > 1 => itemCount[s] > 0 \/ itemCount[s] = Len(input[s])

BothInOrder == ReadInOrder /\ ComparedIsLess /\ BothWereAsked

(* Every token that is read is an integer or Unorderable, and the parts of *)
(* what was read lie behind one another.                                   *)
LEMMA PartsInOrder ==
    ASSUME Layout, NEW s \in Side
    PROVE  /\ itemCount[s] \in Nat /\ Len(input[s]) \in Nat /\ itemCount[s] <= Len(input[s])
           /\ \A k \in 1..Len(input[s]) : input[s][k] \in Int \cup {Unorderable}
           /\ LiveStart(s) \in 1..CurrentStart(s)
           /\ CurrentStart(s) \in 1..(itemCount[s] + 1)
           /\ status[s] = "group" => LiveStart(s) < CurrentStart(s)
           /\ status[s] # "group" => LiveStart(s) = CurrentStart(s)
           /\ LiveStart(s) > itemCount[s] => itemCount[s] \in {0, Len(input[s])}
<1>1. input[s] \in Seq(Int \cup {Unorderable}) /\ itemCount[s] \in Nat
  BY DEF Layout, Typed
<1>2. Len(input[s]) \in Nat /\ \A k \in 1..Len(input[s]) : input[s][k] \in Int \cup {Unorderable}
  BY <1>1, LenProperties, ElementOfSeq
<1>3. /\ itemCount[s] <= Len(input[s])
      /\ CurrentStart(s) \in 1..(itemCount[s] + 1)
      /\ current[s] = <<>> => itemCount[s] \in {0, Len(input[s])}
      /\ IsRun(current[s], CurrentStart(s), itemCount[s] + 1)
  BY DEF Layout, CurrentIsARun
<1>4. status[s] = "group" => LiveStart(s) \in 1..(CurrentStart(s) - 1)
  BY DEF Layout, GroupIsARun, LiveStart
<1>5. status[s] # "group" => LiveStart(s) = CurrentStart(s)
  BY DEF LiveStart
<1>6. LiveStart(s) > itemCount[s] => itemCount[s] \in {0, Len(input[s])}
  <2> SUFFICES ASSUME LiveStart(s) > itemCount[s] PROVE itemCount[s] \in {0, Len(input[s])}
    OBVIOUS
  <2>1. CurrentStart(s) = itemCount[s] + 1
    BY <1>1, <1>3, <1>4, <1>5
  <2>2. Len(current[s]) = 0
    BY <1>1, <1>3, <2>1 DEF IsRun
  <2>3. current[s] = <<>>
    BY <2>2, EmptySeq DEF Layout, Typed
  <2>. QED  BY <1>3, <2>3
<1>. QED  BY <1>1, <1>2, <1>3, <1>4, <1>5, <1>6

(* Nothing is read out of order at first. *)
LEMMA InOrderInit == ASSUME Init PROVE BothInOrder
<1>1. \A side \in Side : itemCount[side] = 0 /\ LiveStart(side) = 1
  BY DEF Init, LiveStart, CurrentStart
<1>. QED  BY <1>1 DEF BothInOrder, ReadInOrder, ComparedIsLess, BothWereAsked

(* The order of the tokens that have one. *)
LEMMA LessOrders ==
    ASSUME NEW a \in Int \cup {Unorderable}, NEW b \in Int \cup {Unorderable},
           NEW c \in Int \cup {Unorderable}
    PROVE  /\ Less(a, b) /\ Less(b, c) => Less(a, c)
           /\ Less(a, b) => a # b
  BY DEF Less, Orderable

(* A validated step that reads an item reads one that may follow.          *)
LEMMA ReadsInOrder ==
    ASSUME Layout, config.validate_sorted, NEW side \in Side, Reads(side)
    PROVE  /\ \A s \in Side : LiveStart(s)' = LiveStart(s)
           /\ input' = input /\ config' = config /\ pendingRows' = pendingRows
           /\ delivered' = delivered
           /\ \/ itemCount' = itemCount
              \/ /\ itemCount' = [itemCount EXCEPT ![side] = @ + 1]
                 /\ itemCount[side] < Len(input[side])
                 /\ LET last == input[side][itemCount[side]]
                        next == input[side][itemCount[side] + 1]
                    IN itemCount[side] = 0 \/ next = last \/ Less(last, next)
<1> DEFINE n == itemCount[side]
           c == current[side]
<1>1. /\ n \in Nat /\ c \in Seq(Nat) /\ Len(c) \in Nat
      /\ c = <<>> <=> Len(c) = 0
      /\ status[side] = "pull"
  BY LenProperties, EmptySeq DEF Layout, Typed, Reads, ExtendGroup, YieldGroup, EndsGroup,
                                 EndGroups, Pulls
<1>2. c # <<>> => /\ CurrentStart(side) = c[1]
                  /\ c[1] \in 1..n
                  /\ input[side][n] = input[side][c[1]]
  <2> SUFFICES ASSUME c # <<>>
               PROVE  /\ CurrentStart(side) = c[1]
                      /\ c[1] \in 1..n
                      /\ input[side][n] = input[side][c[1]]
    OBVIOUS
  <2>1. /\ CurrentStart(side) = c[1]
        /\ c[1] \in 1..(n + 1)
        /\ IsRun(c, c[1], n + 1)
        /\ \A k \in c[1]..n : input[side][k] = input[side][c[1]]
    BY DEF Layout, CurrentIsARun, CurrentStart
  <2>2. c[1] \in 1..n
    BY <1>1, <2>1 DEF IsRun
  <2>3. n \in c[1]..n
    BY <1>1, <2>2
  <2>. QED  BY <2>1, <2>2, <2>3
<1>3. c = <<>> => n \in {0, Len(input[side])}
  BY DEF Layout, CurrentIsARun
<1>4. ASSUME NEW s \in Side \ {side} PROVE LiveStart(s)' = LiveStart(s)
  <2>1. /\ itemCount'[s] = itemCount[s] /\ current'[s] = current[s]
        /\ group'[s] = group[s] /\ status'[s] = status[s]
    <3>1. CASE ExtendGroup(side)
      BY <3>1 DEF ExtendGroup, Layout, Typed
    <3>2. CASE YieldGroup(side)
      BY <3>2 DEF YieldGroup, Layout, Typed
    <3>3. CASE EndGroups(side)
      BY <3>3 DEF EndGroups, Layout, Typed
    <3>. QED  BY <3>1, <3>2, <3>3 DEF Reads
  <2>. QED  BY <2>1 DEF LiveStart, CurrentStart
<1>5. CASE ExtendGroup(side)
  <2>1. /\ n < Len(input[side])
        /\ c # <<>> => input[side][n + 1] = input[side][c[1]]
        /\ itemCount' = [itemCount EXCEPT ![side] = n + 1]
        /\ current'[side] = Append(c, n + 1)
        /\ status' = status
        /\ UNCHANGED <<input, config, pendingRows, delivered>>
    BY <1>5 DEF ExtendGroup, call, NextToken, CurrentToken, Layout, Typed
  <2>2. /\ Append(c, n + 1)[1] = IF c = <<>> THEN n + 1 ELSE c[1]
        /\ Append(c, n + 1) # <<>>
    <3>1. /\ Len(Append(c, n + 1)) = Len(c) + 1
          /\ Append(c, n + 1) \in Seq(Nat)
          /\ \A k \in 1..Len(c) : Append(c, n + 1)[k] = c[k]
          /\ Append(c, n + 1)[Len(c) + 1] = n + 1
      BY <1>1, AppendProperties
    <3>. QED  BY <1>1, <3>1, EmptySeq
  <2>3. LiveStart(side)' = LiveStart(side)
    BY <1>1, <2>1, <2>2 DEF LiveStart, CurrentStart
  <2>. QED  BY <1>1, <1>2, <1>3, <1>4, <2>1, <2>3
<1>6. CASE YieldGroup(side)
  <2>1. /\ c # <<>>
        /\ n < Len(input[side])
        /\ ~Refuses(side)
        /\ input[side][n + 1] # input[side][c[1]]
        /\ itemCount' = [itemCount EXCEPT ![side] = n + 1]
        /\ group'[side] = c
        /\ status'[side] = "group"
        /\ UNCHANGED <<input, config, pendingRows, delivered>>
    BY <1>6 DEF YieldGroup, EndsGroup, call, NextToken, CurrentToken, Layout, Typed
  <2>2. LiveStart(side)' = LiveStart(side)
    BY <1>1, <2>1 DEF LiveStart, CurrentStart
  <2>3. Less(input[side][n], input[side][n + 1])
    <3>1. /\ input[side][n + 1] \in Int \cup {Unorderable}
          /\ input[side][c[1]] \in Int \cup {Unorderable}
      <4>1. /\ Len(input[side]) \in Nat
            /\ \A k \in 1..Len(input[side]) : input[side][k] \in Int \cup {Unorderable}
        BY PartsInOrder
      <4>2. n + 1 \in 1..Len(input[side]) /\ c[1] \in 1..Len(input[side])
        BY <1>1, <1>2, <2>1, <4>1
      <4>. QED  BY <4>1, <4>2
    <3>2. /\ Orderable(input[side][n + 1], input[side][c[1]])
          /\ ~Less(input[side][n + 1], input[side][c[1]])
      BY <2>1 DEF Refuses, NextToken, CurrentToken
    <3>. QED  BY <1>2, <2>1, <3>1, <3>2 DEF Less, Orderable
  <2>. QED  BY <1>4, <2>1, <2>2, <2>3
<1>7. CASE EndGroups(side)
  <2>1. /\ current'[side] = <<>>
        /\ group'[side] = c
        /\ status'[side] = IF c = <<>> THEN "end" ELSE "group"
        /\ UNCHANGED <<input, config, itemCount, pendingRows, delivered>>
    BY <1>7 DEF EndGroups, call, Layout, Typed
  <2>2. LiveStart(side)' = LiveStart(side)
    BY <1>1, <2>1 DEF LiveStart, CurrentStart
  <2>. QED  BY <1>4, <2>1, <2>2
<1>. QED  BY <1>5, <1>6, <1>7 DEF Reads

(* Reading keeps the order: a new token is last, on its own side and       *)
(* behind whatever has been compared.                                      *)
LEMMA ReadsKeepOrder ==
    ASSUME Layout, config.validate_sorted, BothInOrder, NEW side \in Side, Reads(side)
    PROVE  BothInOrder'
<1>1. /\ \A s \in Side : LiveStart(s)' = LiveStart(s)
      /\ input' = input
      /\ itemCount \in [Side -> Nat]
  BY ReadsInOrder DEF Layout, Typed
<1>2. CASE itemCount' = itemCount
  BY <1>1, <1>2 DEF BothInOrder, ReadInOrder, ComparedIsLess, BothWereAsked
<1>3. CASE itemCount' # itemCount
  <2> DEFINE n == itemCount[side]
  <2>1. /\ itemCount'[side] = n + 1
        /\ \A s \in Side \ {side} : itemCount'[s] = itemCount[s]
        /\ n < Len(input[side]) /\ n \in Nat
        /\ \/ n = 0
           \/ input[side][n + 1] = input[side][n]
           \/ Less(input[side][n], input[side][n + 1])
    BY <1>1, <1>3, ReadsInOrder
  <2>2. \A s \in Side : \A k \in 1..Len(input[s]) : input[s][k] \in Int \cup {Unorderable}
    BY PartsInOrder
  <2>3. ReadInOrder'
    <3> SUFFICES ASSUME NEW s \in Side, NEW i \in 1..itemCount'[s], NEW j \in 1..itemCount'[s],
                        i < j
                 PROVE  input[s][i] = input[s][j] \/ Less(input[s][i], input[s][j])
      BY <1>1 DEF ReadInOrder
    <3>1. CASE s # side \/ j # n + 1
      BY <1>1, <2>1, <3>1 DEF BothInOrder, ReadInOrder
    <3>2. CASE s = side /\ j = n + 1
      <4>1. i \in 1..n /\ n \in 1..n /\ n # 0 /\ n + 1 \in 1..Len(input[side])
        BY <2>1, <3>2, PartsInOrder
      <4>2. i = n \/ input[side][i] = input[side][n] \/ Less(input[side][i], input[side][n])
        BY <2>1, <4>1 DEF BothInOrder, ReadInOrder
      <4>3. /\ input[side][i] \in Int \cup {Unorderable}
            /\ input[side][n] \in Int \cup {Unorderable}
            /\ input[side][n + 1] \in Int \cup {Unorderable}
        BY <2>1, <2>2, <4>1
      <4>. QED  BY <2>1, <3>2, <4>1, <4>2, <4>3, LessOrders
    <3>. QED  BY <3>1, <3>2
  <2>4. ComparedIsLess'
    <3> SUFFICES ASSUME NEW o \in Side, NEW s \in Side, NEW i \in 1..(LiveStart(o) - 1),
                        NEW k \in LiveStart(s)..itemCount'[s]
                 PROVE  Less(input[o][i], input[s][k])
      BY <1>1 DEF ComparedIsLess
    <3>1. CASE s # side \/ k # n + 1
      <4>1. k \in LiveStart(s)..itemCount[s]
        BY <1>1, <2>1, <3>1, PartsInOrder
      <4>. QED  BY <4>1 DEF BothInOrder, ComparedIsLess
    <3>2. CASE s = side /\ k = n + 1
      <4>1. LiveStart(o) > 1
        BY PartsInOrder
      <4>2. n > 0
        BY <2>1, <4>1 DEF BothInOrder, BothWereAsked
      <4>3. LiveStart(side) <= n
        BY <2>1, <4>2, PartsInOrder
      <4>4. Less(input[o][i], input[side][n])
        <5>1. n \in LiveStart(side)..itemCount[side]
          <6>1. LiveStart(side) \in 1..CurrentStart(side) /\ CurrentStart(side) \in 1..(n + 1)
            BY PartsInOrder
          <6>. QED  BY <2>1, <4>3, <6>1
        <5>2. ComparedIsLess
          BY DEF BothInOrder
        <5>. QED  BY <5>1, <5>2 DEF ComparedIsLess
      <4>5. /\ input[o][i] \in Int \cup {Unorderable}
            /\ input[side][n] \in Int \cup {Unorderable}
            /\ input[side][n + 1] \in Int \cup {Unorderable}
        <5>1. /\ LiveStart(o) \in 1..CurrentStart(o)
              /\ CurrentStart(o) \in 1..(itemCount[o] + 1)
              /\ itemCount[o] \in Nat /\ Len(input[o]) \in Nat
              /\ itemCount[o] <= Len(input[o])
          BY PartsInOrder
        <5>2. i \in 1..Len(input[o])
          BY <5>1
        <5>3. n \in 1..Len(input[side]) /\ n + 1 \in 1..Len(input[side])
          <6>1. Len(input[side]) \in Nat
            BY PartsInOrder
          <6>. QED  BY <2>1, <4>2, <6>1
        <5>. QED  BY <2>2, <5>2, <5>3
      <4>6. Less(input[side][n], input[side][n + 1]) =>
               Less(input[o][i], input[side][n + 1])
        BY <4>4, <4>5, LessOrders
      <4>. QED  BY <2>1, <3>2, <4>2, <4>4, <4>6
    <3>. QED  BY <3>1, <3>2
  <2>5. BothWereAsked'
    <3>1. \A s \in Side : itemCount'[s] = itemCount[s] \/ itemCount'[s] > 0
      BY <1>1, <2>1
    <3>. QED  BY <1>1, <3>1 DEF BothInOrder, BothWereAsked
  <2>. QED  BY <2>3, <2>4, <2>5 DEF BothInOrder
<1>. QED  BY <1>2, <1>3

-----------------------------------------------------------------------------
(* A group that is given up is less than everything that is left.          *)
GivesUp(side) == status[side] = "group" /\ status'[side] = "pull"

(* The round of the merge that a step is, whichever of the three it is.    *)
Round ==
    /\ BothReady
    /\ UNCHANGED <<input, config, itemCount, current, group>>
    /\ \A side \in Side : status'[side] = status[side] \/ GivesUp(side)
    /\ \A side \in Side : GivesUp(side) =>
          LET other == Other(side) IN
          \/ status[other] = "end"
          \/ status[other] = "group" /\ Less(TokenOf(side), TokenOf(other))
          \/ GivesUp(other) /\ TokenOf(side) = TokenOf(other)

(* A round of the merge that delivers an item is a round. *)
LEMMA EmitsAreRounds ==
    ASSUME Layout, Emits PROVE Round
<1>1. ASSUME EmitCommon PROVE Round
  BY <1>1 DEF EmitCommon, BothReady, TwoGroups, Round, GivesUp, call, Side, Other
<1>2. ASSUME NEW side \in Side, EmitOnly(side) PROVE Round
  <2>1. /\ BothReady
        /\ UNCHANGED <<input, config, itemCount, current, group>>
        /\ status[side] = "group"
        /\ status' = [status EXCEPT ![side] = "pull"]
        /\ TwoGroups => Less(TokenOf(side), TokenOf(Other(side)))
    BY <1>2 DEF EmitOnly, Ahead, call
  <2>2. status[Other(side)] \in {"group", "end"} /\ Other(side) \in Side
    BY <2>1 DEF Layout, Typed, BothReady, Side, Other
  <2>3. status[Other(side)] = "group" => TwoGroups
    BY <2>1 DEF TwoGroups, Side, Other
  <2>4. \A s \in Side : s # side => status'[s] = status[s] /\ ~GivesUp(s)
    BY <2>1, <2>2 DEF GivesUp, Layout, Typed, BothReady
  <2>5. GivesUp(side)
    BY <2>1 DEF GivesUp, Layout, Typed
  <2>. QED  BY <2>1, <2>2, <2>3, <2>4, <2>5 DEF Round
<1>. QED  BY <1>1, <1>2 DEF Emits

(* The group of a side is one token, behind it come larger ones.           *)
LEMMA GroupInOrder ==
    ASSUME Layout, BothInOrder, NEW s \in Side, status[s] = "group"
    PROVE  /\ itemCount[s] > 0
           /\ TokenOf(s) \in Int \cup {Unorderable}
           /\ TokenOf(s) = input[s][LiveStart(s)]
           /\ \A k \in LiveStart(s)..(CurrentStart(s) - 1) : input[s][k] = TokenOf(s)
           /\ \A k \in CurrentStart(s)..itemCount[s] : Less(TokenOf(s), input[s][k])
<1>1. /\ LiveStart(s) = group[s][1]
      /\ TokenOf(s) = input[s][LiveStart(s)]
      /\ \A k \in LiveStart(s)..(CurrentStart(s) - 1) : input[s][k] = TokenOf(s)
      /\ current[s] # <<>> => CurrentToken(s) # TokenOf(s)
      /\ \A k \in CurrentStart(s)..itemCount[s] : input[s][k] = input[s][CurrentStart(s)]
  BY DEF Layout, GroupIsARun, CurrentIsARun, LiveStart, TokenOf
<1>2. /\ LiveStart(s) \in 1..(CurrentStart(s) - 1)
      /\ CurrentStart(s) \in 1..(itemCount[s] + 1)
      /\ itemCount[s] \in Nat
      /\ LiveStart(s) \in 1..itemCount[s]
      /\ LiveStart(s) \in 1..Len(input[s])
  BY PartsInOrder
<1>3. ASSUME NEW k \in CurrentStart(s)..itemCount[s] PROVE Less(TokenOf(s), input[s][k])
  <2>1. current[s] # <<>> /\ CurrentStart(s) = current[s][1]
    BY <1>2 DEF CurrentStart
  <2>2. input[s][k] # TokenOf(s)
    BY <1>1, <2>1 DEF CurrentToken
  <2>3. LiveStart(s) < k /\ k \in 1..itemCount[s]
    BY <1>2
  <2>. QED  BY <1>1, <1>2, <2>2, <2>3 DEF BothInOrder, ReadInOrder
<1>. QED  BY <1>1, <1>2, <1>3, PartsInOrder

(* A round of the merge keeps the order: what is given up was compared     *)
(* with the group of the other side, or the other side has ended.          *)
LEMMA RoundsKeepOrder ==
    ASSUME Layout, BothInOrder, Round
    PROVE  BothInOrder'
<1>1. /\ input' = input /\ itemCount' = itemCount
      /\ \A s \in Side : LiveStart(s)' = IF GivesUp(s) THEN CurrentStart(s) ELSE LiveStart(s)
  BY DEF Round, GivesUp, LiveStart, CurrentStart
<1>2. ReadInOrder'
  BY <1>1 DEF BothInOrder, ReadInOrder
<1>3. ComparedIsLess'
  <2> SUFFICES ASSUME NEW o \in Side, NEW s \in Side, NEW i \in 1..(LiveStart(o)' - 1),
                      NEW k \in (LiveStart(s)')..itemCount[s]
               PROVE  Less(input[o][i], input[s][k])
    BY <1>1 DEF ComparedIsLess
  <2>1. /\ LiveStart(s) \in 1..CurrentStart(s)
        /\ CurrentStart(s) \in 1..(itemCount[s] + 1)
        /\ LiveStart(o) \in 1..CurrentStart(o)
        /\ CurrentStart(o) \in 1..(itemCount[o] + 1)
        /\ itemCount[s] \in Nat /\ itemCount[o] \in Nat
        /\ Len(input[s]) \in Nat /\ itemCount[s] <= Len(input[s])
    BY PartsInOrder
  <2>2. k \in LiveStart(s)..itemCount[s] /\ k \in 1..Len(input[s])
    BY <1>1, <2>1
  <2>3. CASE i < LiveStart(o)
    BY <2>1, <2>2, <2>3 DEF BothInOrder, ComparedIsLess
  <2>4. CASE i >= LiveStart(o)
    <3>1. GivesUp(o) /\ i \in LiveStart(o)..(CurrentStart(o) - 1)
      BY <1>1, <2>1, <2>4
    <3>2. input[o][i] = TokenOf(o)
      BY <3>1, GroupInOrder DEF GivesUp
    <3>3. CASE s = o
      BY <1>1, <3>1, <3>2, <3>3, GroupInOrder DEF GivesUp
    <3>4. CASE s # o
      <4>1. s = Other(o)
        BY <3>4 DEF Side, Other
      <4>2. CASE status[s] = "end"
        <5>1. current[s] = <<>> /\ ~GivesUp(s)
          BY <4>2 DEF Layout, CurrentIsARun, GivesUp
        <5>2. LiveStart(s) = itemCount[s] + 1
          BY <4>2, <5>1 DEF LiveStart, CurrentStart
        <5>. QED  BY <2>1, <2>2, <5>2
      <4>3. CASE status[s] = "group" /\ Less(TokenOf(o), TokenOf(s))
        <5>1. input[s][k] = TokenOf(s) \/ Less(TokenOf(s), input[s][k])
          BY <2>1, <2>2, <4>3, GroupInOrder
        <5>2. /\ TokenOf(o) \in Int \cup {Unorderable}
              /\ TokenOf(s) \in Int \cup {Unorderable}
              /\ input[s][k] \in Int \cup {Unorderable}
          BY <2>2, <3>1, <4>3, GroupInOrder, PartsInOrder DEF GivesUp
        <5>3. Less(TokenOf(s), input[s][k]) => Less(TokenOf(o), input[s][k])
          BY <4>3, <5>2, LessOrders
        <5>. QED  BY <3>2, <4>3, <5>1, <5>3
      <4>4. CASE GivesUp(s) /\ TokenOf(o) = TokenOf(s)
        BY <1>1, <3>2, <4>4, GroupInOrder DEF GivesUp
      <4>. QED  BY <3>1, <4>1, <4>2, <4>3, <4>4 DEF Round
    <3>. QED  BY <3>3, <3>4
  <2>. QED  BY <2>1, <2>3, <2>4, <1>1
<1>4. BothWereAsked'
  <2>1. \A s \in Side : status[s] \in {"group", "end"}
    BY DEF Round, BothReady, Layout, Typed
  <2>2. \A s \in Side : status[s] = "group" => itemCount[s] > 0
    BY GroupInOrder
  <2>3. \A s \in Side : status[s] = "end" => itemCount[s] = Len(input[s])
    BY DEF Layout, CurrentIsARun
  <2>. QED  BY <1>1, <2>1, <2>2, <2>3 DEF BothWereAsked
<1>. QED  BY <1>2, <1>3, <1>4 DEF BothInOrder

(* Every step of a validated call keeps the order. *)
LEMMA InOrderKept ==
    ASSUME Layout, config.validate_sorted, BothInOrder, [Next]_vars
    PROVE  BothInOrder'
<1>1. CASE Unread
  BY <1>1 DEF Unread, groups, BothInOrder, ReadInOrder, ComparedIsLess, BothWereAsked, LiveStart,
              CurrentStart
<1>. QED  BY <1>1, LayoutKept, EmitsAreRounds, RoundsKeepOrder, ReadsKeepOrder

-----------------------------------------------------------------------------
(* An input that was read to its end was in order; and a call ends without *)
(* an error only when both have been.                                      *)
ReadToTheEnd ==
    /\ session = [w \in Call |-> session[w]]
    /\ phase = "returned" \/ (phase = "close" /\ error = None) =>
          \A side \in Side : itemCount[side] = Len(input[side])
    /\ phase \in {"open", "merge"} => error = None

(* Every step keeps that. *)
LEMMA ReadToTheEndKept ==
    ASSUME None \notin {"unsorted", "source", "unorderable", "output"},
           Layout, ReadToTheEnd, [Next]_vars
    PROVE  ReadToTheEnd'
<1>1. ASSUME Start \/ OpenFails PROVE ReadToTheEnd'
  BY <1>1 DEF Start, OpenFails, ReadToTheEnd, output, Out!Enter, Out!EnterFails, Out!Step, Call
<1>2. ASSUME (\E side \in Side : Reads(side)) \/ Emits PROVE ReadToTheEnd'
  <2>1. phase = "merge" /\ UNCHANGED <<phase, error, output>>
    BY <1>2 DEF Reads, Emits, ExtendGroup, YieldGroup, EndsGroup, EndGroups, Pulls, EmitOnly,
                EmitCommon, BothReady
  <2>. QED  BY <2>1 DEF ReadToTheEnd, output
<1>3. ASSUME NEW cause \in {"unsorted", "source", "unorderable", "output"}, Raise(cause)
      PROVE  ReadToTheEnd'
  BY <1>3 DEF Raise, ReadToTheEnd, output, Out!BodyRaises, Out!Step, Call
<1>4. ASSUME WriteRow \/ TakeRow \/ Abandon PROVE ReadToTheEnd'
  BY <1>4 DEF WriteRow, TakeRow, Abandon, ReadToTheEnd, output, Out!WriteRows
<1>5. ASSUME Finish PROVE ReadToTheEnd'
  <2>1. \A side \in Side : itemCount[side] = Len(input[side])
    BY <1>5 DEF Finish, Layout, CurrentIsARun
  <2>. QED  BY <1>5, <2>1 DEF Finish, BothReady, ReadToTheEnd, call, groups, output
<1>6. ASSUME CloseWriter \/ ExitWriter \/ ExitWriterFails PROVE ReadToTheEnd'
  BY <1>6 DEF CloseWriter, ExitWriter, ExitWriterFails, ReadToTheEnd, call, groups, Out!Close,
              Out!Replace, Out!Discard, Out!CloseFails, Out!ReplaceFails, Out!Step, Call
<1>7. CASE UNCHANGED vars
  BY <1>7 DEF vars, call, groups, output, ReadToTheEnd
<1>. QED  BY <1>1, <1>2, <1>3, <1>4, <1>5, <1>6, <1>7
          DEF Next, Progress, Failure, Group, Reads, Emits, RefuseItem, SourceRaises,
              CompareRaises, WriteRaises

(* The options are the caller's and stay. *)
LEMMA ConfigKept == ASSUME [Next]_vars PROVE config' = config
BY DEF Next, Progress, Failure, Group, Start, OpenFails, RefuseItem, SourceRaises, CompareRaises,
       WriteRow, TakeRow, Abandon, WriteRaises, Finish, CloseWriter, ExitWriter, ExitWriterFails,
       ExtendGroup, YieldGroup, EndGroups, EmitOnly, EmitCommon, vars, call

-----------------------------------------------------------------------------
(* "Both inputs must be sorted by the same token ... descending tokens     *)
(* raise InvalidInputError" (streaming.py): a validated call that returns  *)
(* has read both inputs to their ends, and in order.                       *)
THEOREM UnsortedRefused ==
    ASSUME None \notin {"unsorted", "source", "unorderable", "output"}
    PROVE  Spec => []UnsortedIsRefused
<1> DEFINE Inv == Layout /\ ReadToTheEnd /\ (config.validate_sorted => BothInOrder)
<1>1. Init => Inv
  <2> SUFFICES ASSUME Init PROVE Inv
    OBVIOUS
  <2>1. Layout
    BY LayoutInit
  <2>2. ReadToTheEnd
    BY DEF Init, ReadToTheEnd, Out!Init, Call
  <2>. QED  BY <2>1, <2>2, InOrderInit
<1>2. Inv /\ [Next]_vars => Inv'
  <2> SUFFICES ASSUME Inv, [Next]_vars PROVE Inv'
    OBVIOUS
  <2>1. config' = config
    BY ConfigKept
  <2>. QED  BY <2>1, LayoutKept, ReadToTheEndKept, InOrderKept
<1>3. Inv => UnsortedIsRefused
  <2> SUFFICES ASSUME Inv, phase = "returned", config.validate_sorted, NEW side \in Side
               PROVE  NonDescending(input[side])
    BY DEF UnsortedIsRefused
  <2>1. itemCount[side] = Len(input[side])
    BY DEF ReadToTheEnd
  <2>. QED  BY <2>1 DEF BothInOrder, ReadInOrder, NonDescending
<1>. QED  BY <1>1, <1>2, <1>3, PTL DEF Spec

-----------------------------------------------------------------------------
(* The rows that are right for what has been read, and stay right whatever *)
(* is read next.                                                           *)
Seen(s, token) == \E i \in 1..itemCount[s] : input[s][i] = token

NoneToCome(s, token) ==
    \/ itemCount[s] = Len(input[s])
    \/ itemCount[s] > 0 /\ Less(token, input[s][itemCount[s]])

FirstRead(s, i) == \A j \in 1..(i - 1) : input[s][j] # input[s][i]

RightRow(row) ==
    LET token == input[row.side][row.ordinal] IN
    /\ row.ordinal \in 1..itemCount[row.side]
    /\ row.section = "only" =>
          /\ FirstRead(row.side, row.ordinal)
          /\ ~Seen(Other(row.side), token)
          /\ NoneToCome(Other(row.side), token)
    /\ row.section = "common" =>
          row.side = "first" /\ FirstRead("first", row.ordinal) /\ Seen("second", token)
    /\ row.section = "duplicates" => ~FirstRead(row.side, row.ordinal)

RowSpace == [section : {"only", "common", "duplicates"}, side : Side, ordinal : Nat]
RightRows == {row \in RowSpace : RightRow(row)}

RowsAreRight == pendingRows \in Seq(RightRows) /\ delivered \in Seq(RightRows)

(* A row that is right stays right when an item is read in order. *)
LEMMA RightRowsStay ==
    ASSUME Layout, config.validate_sorted, NEW side \in Side, Reads(side)
    PROVE  RightRows \subseteq RightRows'
<1>1. input' = input
  BY ReadsInOrder
<1>2. CASE itemCount' = itemCount
  BY <1>1, <1>2 DEF RightRows, RightRow, Seen, NoneToCome, FirstRead
<1>3. CASE itemCount' # itemCount
  <2> DEFINE n == itemCount[side]
  <2>1. /\ itemCount' = [itemCount EXCEPT ![side] = n + 1]
        /\ n < Len(input[side]) /\ n \in Nat
        /\ \/ n = 0
           \/ input[side][n + 1] = input[side][n]
           \/ Less(input[side][n], input[side][n + 1])
    BY <1>3, ReadsInOrder DEF Layout, Typed
  <2>2. /\ itemCount'[side] = n + 1
        /\ \A s \in Side \ {side} : itemCount'[s] = itemCount[s]
        /\ \A s \in Side : itemCount[s] \in Nat
    BY <2>1 DEF Layout, Typed
  <2> SUFFICES ASSUME NEW row \in RowSpace, RightRow(row) PROVE RightRow(row)'
    BY DEF RightRows
  <2> DEFINE other == Other(row.side)
             token == input[row.side][row.ordinal]
  <2>3. row.side \in Side /\ other \in Side /\ row.ordinal \in 1..itemCount[row.side]
    BY DEF RowSpace, RightRow, Side, Other
  <2>4. row.ordinal \in 1..itemCount'[row.side]
    BY <2>2, <2>3
  <2>5. ASSUME row.section = "only" PROVE ~Seen(other, token)' /\ NoneToCome(other, token)'
    <3>1. ~Seen(other, token) /\ NoneToCome(other, token)
      BY <2>5 DEF RightRow
    <3>2. CASE other # side
      <4>1. itemCount'[other] = itemCount[other]
        BY <2>2, <2>3, <3>2
      <4>. QED  BY <1>1, <3>1, <4>1 DEF Seen, NoneToCome
    <3>3. CASE other = side
      <4>1. n > 0 /\ Less(token, input[side][n])
        BY <2>1, <3>1, <3>3 DEF NoneToCome
      <4>2. /\ token \in Int \cup {Unorderable}
            /\ input[side][n] \in Int \cup {Unorderable}
            /\ input[side][n + 1] \in Int \cup {Unorderable}
        <5>1. /\ itemCount[row.side] \in Nat /\ Len(input[row.side]) \in Nat
              /\ itemCount[row.side] <= Len(input[row.side])
              /\ Len(input[side]) \in Nat
          BY <2>3, PartsInOrder
        <5>2. /\ row.ordinal \in 1..Len(input[row.side])
              /\ n \in 1..Len(input[side]) /\ n + 1 \in 1..Len(input[side])
          BY <2>1, <2>3, <4>1, <5>1
        <5>. QED  BY <2>3, <5>2, PartsInOrder
      <4>3. Less(token, input[side][n + 1])
        <5> DEFINE last == input[side][n]
                   next == input[side][n + 1]
        <5>1. next = last \/ Less(last, next)
          BY <2>1, <4>1
        <5> HIDE DEF token, last, next
        <5>2. Less(token, last) /\ Less(last, next) => Less(token, next)
          BY <4>2, LessOrders DEF last, next
        <5>3. Less(token, last)
          BY <4>1 DEF last
        <5>. QED  BY <5>1, <5>2, <5>3 DEF next
      <4>4. input[side][n + 1] # token
        BY <4>2, <4>3, LessOrders
      <4>5. \A i \in 1..(n + 1) : input[side][i] # token
        <5>1. \A i \in 1..n : input[side][i] # token
          BY <3>1, <3>3 DEF Seen
        <5> HIDE DEF token
        <5>. QED  BY <2>1, <4>4, <5>1
      <4> HIDE DEF token
      <4>6. \A i \in 1..itemCount'[other] : input'[other][i] # token
        BY <1>1, <2>2, <3>3, <4>5
      <4>7. itemCount'[other] > 0 /\ Less(token, input'[other][itemCount'[other]])
        BY <1>1, <2>1, <2>2, <3>3, <4>3
      <4>8. token' = token
        BY <1>1 DEF token
      <4>. QED  BY <4>6, <4>7, <4>8 DEF Seen, NoneToCome
    <3>. QED  BY <3>2, <3>3
  <2>6. ASSUME row.section = "common" PROVE Seen("second", token)'
    <3>1. Seen("second", token)
      BY <2>6 DEF RightRow
    <3>2. \A i \in 1..itemCount["second"] : i \in 1..itemCount'["second"]
      BY <2>1, <2>2 DEF Side
    <3>. QED  BY <1>1, <3>1, <3>2 DEF Seen
  <2>. QED  BY <1>1, <2>4, <2>5, <2>6 DEF RightRow, FirstRead
<1>. QED  BY <1>2, <1>3

(* What is known of a group when both sides are ready to be compared. *)
LEMMA GroupOrdinals ==
    ASSUME Layout, BothInOrder, NEW s \in Side, status[s] = "group"
    PROVE  /\ group[s][1] \in 1..itemCount[s] /\ group[s][1] = LiveStart(s)
           /\ FirstRead(s, group[s][1])
           /\ Seen(s, TokenOf(s))
           /\ Tail(group[s]) \in Seq(Nat)
           /\ \A k \in 1..Len(Tail(group[s])) :
                 /\ Tail(group[s])[k] \in 1..itemCount[s]
                 /\ ~FirstRead(s, Tail(group[s])[k])
<1> DEFINE g == group[s]
           start == LiveStart(s)
<1>1. /\ g \in Seq(Nat) /\ Len(g) \in Nat
      /\ start = g[1]
      /\ IsRun(g, start, CurrentStart(s))
      /\ TokenOf(s) = input[s][start]
  BY LenProperties DEF Layout, Typed, GroupIsARun, LiveStart, TokenOf
<1>2. /\ start \in 1..(CurrentStart(s) - 1)
      /\ CurrentStart(s) \in 1..(itemCount[s] + 1)
      /\ itemCount[s] \in Nat /\ Len(input[s]) \in Nat /\ itemCount[s] <= Len(input[s])
      /\ \A k \in 1..Len(input[s]) : input[s][k] \in Int \cup {Unorderable}
  BY PartsInOrder
<1>3. /\ Len(g) = CurrentStart(s) - start
      /\ \A k \in 1..Len(g) : g[k] = start + k - 1
  BY <1>1 DEF IsRun
<1>4. g # <<>>
  BY <1>1, <1>2, <1>3, EmptySeq
<1>5. /\ Tail(g) \in Seq(Nat) /\ Len(Tail(g)) = Len(g) - 1
      /\ \A k \in 1..Len(Tail(g)) : Tail(g)[k] = g[k + 1]
  BY <1>1, <1>4, HeadTailProperties
<1> HIDE DEF g, start
<1>6. start \in 1..itemCount[s]
  BY <1>2
<1>7. FirstRead(s, start)
  <2> SUFFICES ASSUME NEW j \in 1..(start - 1) PROVE input[s][j] # input[s][start]
    BY DEF FirstRead
  <2>1. Less(input[s][j], input[s][start])
    BY <1>6 DEF start, BothInOrder, ComparedIsLess
  <2>2. j \in 1..Len(input[s]) /\ start \in 1..Len(input[s])
    BY <1>2
  <2>. QED  BY <1>2, <2>1, <2>2, LessOrders
<1>8. ASSUME NEW k \in 1..Len(Tail(g))
      PROVE  Tail(g)[k] \in 1..itemCount[s] /\ ~FirstRead(s, Tail(g)[k])
  <2>1. Tail(g)[k] = start + k /\ start + k \in (start + 1)..(CurrentStart(s) - 1)
    <3>1. k + 1 \in 1..Len(g) /\ Tail(g)[k] = g[k + 1]
      BY <1>1, <1>5
    <3>2. g[k + 1] = start + (k + 1) - 1
      BY <1>3, <3>1
    <3>3. start \in Nat /\ CurrentStart(s) \in Nat /\ k \in Nat /\ k + 1 <= CurrentStart(s) - start
      <4>1. start \in Nat /\ CurrentStart(s) \in Nat /\ Len(Tail(g)) \in Nat
        BY <1>1, <1>2, <1>5
      <4>. QED  BY <1>3, <3>1, <4>1
    <3>. QED  BY <3>1, <3>2, <3>3
  <2>2. input[s][start + k] = TokenOf(s)
    BY <1>2, <2>1, GroupInOrder DEF start
  <2>3. start \in 1..((start + k) - 1) /\ start + k \in 1..itemCount[s]
    BY <1>2, <2>1
  <2>. QED  BY <1>1, <2>1, <2>2, <2>3 DEF FirstRead
<1>9. Seen(s, TokenOf(s))
  BY <1>1, <1>6 DEF Seen
<1>. QED  BY <1>1, <1>5, <1>6, <1>7, <1>8, <1>9 DEF g, start

(* The rows for the repeats of a group are right. *)
LEMMA DuplicateRowsAreRight ==
    ASSUME Layout, BothInOrder, NEW s \in Side, status[s] = "group"
    PROVE  DuplicateRows(s) \in Seq(RightRows)
<1> DEFINE q == Tail(group[s])
<1>1. q \in Seq(Nat) /\ Len(q) \in Nat
  BY GroupOrdinals, LenProperties
<1>2. ASSUME NEW k \in 1..Len(q) PROVE Row("duplicates", s, q[k]) \in RightRows
  <2>1. q[k] \in 1..itemCount[s] /\ ~FirstRead(s, q[k])
    BY GroupOrdinals
  <2> HIDE DEF q
  <2>2. Row("duplicates", s, q[k]) \in RowSpace
    BY <1>1, <2>1, ElementOfSeq DEF Row, RowSpace
  <2>3. RightRow(Row("duplicates", s, q[k]))
    BY <2>1 DEF RightRow, Row
  <2>. QED  BY <2>2, <2>3 DEF RightRows
<1>3. Rows("duplicates", s, q) \in Seq(RightRows)
  <2> HIDE DEF q
  <2>. QED  BY <1>1, <1>2 DEF Rows
<1>. QED  BY <1>3, EmptySeq DEF DuplicateRows

(* A token of one side only, when its group is given up, is behind what    *)
(* the other side has had compared and before all it has still to compare. *)
LEMMA OnlyRowIsRight ==
    ASSUME Layout, BothInOrder, NEW side \in Side, EmitOnly(side)
    PROVE  Row("only", side, group[side][1]) \in RightRows
<1> DEFINE other == Other(side)
           i == group[side][1]
           token == TokenOf(side)
<1>1. /\ status[side] = "group" /\ BothReady
      /\ TwoGroups => Less(token, TokenOf(other))
      /\ other \in Side
  BY DEF EmitOnly, Ahead, Side, Other
<1>2. /\ i \in 1..itemCount[side] /\ FirstRead(side, i)
      /\ i = LiveStart(side) /\ token = input[side][i]
  BY <1>1, GroupOrdinals DEF TokenOf
<1>3. /\ itemCount[other] \in Nat /\ Len(input[other]) \in Nat
      /\ itemCount[other] <= Len(input[other])
      /\ LiveStart(other) \in 1..CurrentStart(other)
      /\ CurrentStart(other) \in 1..(itemCount[other] + 1)
      /\ \A k \in 1..Len(input[other]) : input[other][k] \in Int \cup {Unorderable}
  BY <1>1, PartsInOrder
<1>4. token \in Int \cup {Unorderable}
  BY <1>1, GroupInOrder
<1> HIDE DEF other, i, token
<1>5. ASSUME NEW k \in 1..(LiveStart(other) - 1) PROVE input[other][k] # token
  <2>1. Less(input[other][k], token)
    <3>1. LiveStart(side) \in LiveStart(side)..itemCount[side]
      BY <1>2
    <3>. QED  BY <1>1, <1>2, <3>1 DEF BothInOrder, ComparedIsLess
  <2>2. input[other][k] \in Int \cup {Unorderable}
    BY <1>3
  <2>. QED  BY <1>4, <2>1, <2>2, LessOrders
<1>6. ~Seen(other, token) /\ NoneToCome(other, token)
  <2>1. CASE status[other] = "end"
    <3>1. /\ current[other] = <<>> /\ itemCount[other] = Len(input[other])
          /\ LiveStart(other) = itemCount[other] + 1
      BY <1>1, <2>1 DEF Layout, CurrentIsARun, LiveStart, CurrentStart
    <3>. QED  BY <1>3, <1>5, <3>1 DEF Seen, NoneToCome
  <2>2. CASE status[other] = "group"
    <3>1. Less(token, TokenOf(other))
      BY <1>1, <2>2 DEF TwoGroups, Side, Other, other
    <3>2. TokenOf(other) \in Int \cup {Unorderable} /\ itemCount[other] > 0
      BY <1>1, <2>2, GroupInOrder
    <3>3. ASSUME NEW k \in LiveStart(other)..itemCount[other]
          PROVE  Less(token, input[other][k]) /\ input[other][k] # token
      <4>1. input[other][k] = TokenOf(other) \/ Less(TokenOf(other), input[other][k])
        BY <1>1, <1>3, <2>2, GroupInOrder
      <4>2. input[other][k] \in Int \cup {Unorderable}
        BY <1>3
      <4>. QED  BY <1>4, <3>1, <3>2, <4>1, <4>2, LessOrders
    <3>4. itemCount[other] \in LiveStart(other)..itemCount[other]
      BY <1>1, <1>3, <2>2, PartsInOrder
    <3>. QED  BY <1>3, <1>5, <3>2, <3>3, <3>4 DEF Seen, NoneToCome
  <2>3. status[other] \in {"group", "end"}
    BY <1>1 DEF BothReady, Layout, Typed
  <2>. QED  BY <2>1, <2>2, <2>3
<1>7. Row("only", side, i) \in RowSpace /\ RightRow(Row("only", side, i))
  BY <1>2, <1>6, PartsInOrder DEF Row, RowSpace, RightRow, other
<1>. QED  BY <1>7 DEF RightRows, i

(* A round of the merge adds rows that are right. *)
LEMMA EmittedRowsAreRight ==
    ASSUME Layout, BothInOrder, RowsAreRight, Emits
    PROVE  RowsAreRight'
<1>1. UNCHANGED <<input, itemCount, delivered>>
  BY DEF Emits, EmitOnly, EmitCommon, call
<1>2. RightRows' = RightRows
  BY <1>1 DEF RightRows, RightRow, Seen, NoneToCome, FirstRead
<1>3. ASSUME NEW side \in Side, EmitOnly(side) PROVE pendingRows' \in Seq(RightRows)
  <2>1. <<Row("only", side, group[side][1])>> \in Seq(RightRows)
    BY <1>3, OnlyRowIsRight
  <2>2. DuplicateRows(side) \in Seq(RightRows)
    BY <1>3, DuplicateRowsAreRight DEF EmitOnly, Ahead
  <2>. QED  BY <1>3, <2>1, <2>2, ConcatProperties DEF EmitOnly
<1>4. ASSUME EmitCommon PROVE pendingRows' \in Seq(RightRows)
  <2> DEFINE row == Row("common", "first", group["first"][1])
             common == IF config.include_common THEN <<row>> ELSE <<>>
  <2>1. "first" \in Side /\ "second" \in Side /\ \A s \in Side : status[s] = "group"
    BY <1>4 DEF EmitCommon, TwoGroups, Side
  <2>2. row \in RightRows
    <3>1. /\ group["first"][1] \in 1..itemCount["first"]
          /\ FirstRead("first", group["first"][1])
          /\ Seen("second", TokenOf("second"))
      BY <2>1, GroupOrdinals
    <3>2. TokenOf("first") = TokenOf("second")
          /\ TokenOf("first") = input["first"][group["first"][1]]
      BY <1>4 DEF EmitCommon, TokenOf
    <3>3. row \in RowSpace
      BY <2>1, <3>1, PartsInOrder DEF Row, RowSpace
    <3>4. RightRow(row)
      BY <3>1, <3>2 DEF RightRow, Row
    <3>. QED  BY <3>3, <3>4 DEF RightRows
  <2> HIDE DEF row
  <2>3. common \in Seq(RightRows)
    BY <2>2, EmptySeq
  <2>4. /\ DuplicateRows("first") \in Seq(RightRows)
        /\ DuplicateRows("second") \in Seq(RightRows)
    BY <2>1, DuplicateRowsAreRight
  <2>5. pendingRows' = common \o DuplicateRows("first") \o DuplicateRows("second")
    BY <1>4 DEF EmitCommon, row
  <2> HIDE DEF common
  <2>. QED  BY <2>3, <2>4, <2>5, ConcatProperties
<1>5. pendingRows' \in Seq(RightRows)
  BY <1>3, <1>4 DEF Emits
<1>. QED  BY <1>1, <1>2, <1>5 DEF RowsAreRight

(* Whatever else happens, rows only move from the generator to its         *)
(* consumer.                                                               *)
LEMMA RowsAreRightKept ==
    ASSUME Layout, config.validate_sorted, BothInOrder, RowsAreRight, [Next]_vars
    PROVE  RowsAreRight'
<1>1. ASSUME NEW side \in Side, Reads(side) PROVE RowsAreRight'
  <2>1. pendingRows' = pendingRows /\ delivered' = delivered
    BY <1>1, ReadsInOrder
  <2>. QED  BY <1>1, <2>1, RightRowsStay, SeqMonotonic DEF RowsAreRight
<1>2. ASSUME Unread PROVE RowsAreRight'
  <2>1. RightRows' = RightRows
    BY <1>2 DEF Unread, groups, RightRows, RightRow, Seen, NoneToCome, FirstRead
  <2>2. \/ UNCHANGED <<pendingRows, delivered>>
        \/ /\ pendingRows # <<>> /\ pendingRows' = Tail(pendingRows)
           /\ delivered' \in {delivered, Append(delivered, Head(pendingRows))}
        \/ Emits \/ \E side \in Side : Reads(side)
    BY DEF Next, Progress, Failure, Group, Reads, Emits, Start, OpenFails, RefuseItem,
           SourceRaises, CompareRaises, WriteRow, TakeRow, Abandon, WriteRaises, Finish,
           CloseWriter, ExitWriter, ExitWriterFails, vars
  <2>3. CASE UNCHANGED <<pendingRows, delivered>>
    BY <2>1, <2>3 DEF RowsAreRight
  <2>4. CASE /\ pendingRows # <<>> /\ pendingRows' = Tail(pendingRows)
             /\ delivered' \in {delivered, Append(delivered, Head(pendingRows))}
    <3>1. Head(pendingRows) \in RightRows /\ Tail(pendingRows) \in Seq(RightRows)
      BY <2>4, HeadTailProperties DEF RowsAreRight
    <3>2. Append(delivered, Head(pendingRows)) \in Seq(RightRows)
      BY <3>1, AppendProperties DEF RowsAreRight
    <3>. QED  BY <2>1, <2>4, <3>1, <3>2 DEF RowsAreRight
  <2>. QED  BY <1>1, <2>2, <2>3, <2>4, EmittedRowsAreRight
<1>. QED  BY <1>1, <1>2, LayoutKept, EmittedRowsAreRight

(* Rows reach the consumer before the inputs are read: each is right for   *)
(* what has been read when it is delivered, however the call goes on, if   *)
(* the inputs are validated.                                               *)
THEOREM RowsAreFinal == Spec => []RowsHoldForWhatWasRead
<1> DEFINE Inv == Layout /\ (config.validate_sorted => BothInOrder /\ RowsAreRight)
<1>1. Init => Inv
  <2> SUFFICES ASSUME Init PROVE Inv
    OBVIOUS
  <2>1. RowsAreRight
    BY EmptySeq DEF Init, RowsAreRight
  <2>. QED  BY <2>1, LayoutInit, InOrderInit
<1>2. Inv /\ [Next]_vars => Inv'
  <2> SUFFICES ASSUME Inv, [Next]_vars PROVE Inv'
    OBVIOUS
  <2>1. config' = config
    BY ConfigKept
  <2>. QED  BY <2>1, LayoutKept, InOrderKept, RowsAreRightKept
<1>3. Inv => RowsHoldForWhatWasRead
  <2> DEFINE read(side) == SubSeq(input[side], 1, itemCount[side])
  <2> SUFFICES ASSUME Inv, config.validate_sorted, NEW k \in 1..Len(delivered)
               PROVE  LET row == delivered[k] IN
                      CASE row.section = "only" ->
                             row.ordinal \in OnlyOrdinals(read(row.side), read(Other(row.side)))
                        [] row.section = "common" ->
                             row.ordinal \in CommonOrdinals(read("first"), read("second"))
                        [] row.section = "duplicates" ->
                             row.ordinal \in RepeatOrdinals(read(row.side))
    BY DEF RowsHoldForWhatWasRead
  <2>1. ASSUME NEW s \in Side
        PROVE  Len(read(s)) = itemCount[s] /\ \A i \in 1..itemCount[s] : read(s)[i] = input[s][i]
    <3>1. /\ itemCount[s] \in Nat /\ Len(input[s]) \in Nat /\ itemCount[s] <= Len(input[s])
          /\ \A i \in 1..Len(input[s]) : input[s][i] \in Int \cup {Unorderable}
      BY PartsInOrder
    <3>2. \A i \in 1..itemCount[s] : input[s][i] \in Int \cup {Unorderable}
      BY <3>1
    <3>3. /\ Len(read(s)) = IF 1 <= itemCount[s] THEN itemCount[s] - 1 + 1 ELSE 0
          /\ \A i \in 1..(itemCount[s] - 1 + 1) : read(s)[i] = input[s][1 + i - 1]
      BY <3>1, <3>2, SubSeqProperties
    <3> HIDE DEF read
    <3>. QED  BY <3>1, <3>3
  <2> HIDE DEF read
  <2> DEFINE row == delivered[k]
             i == row.ordinal
  <2>2. row \in RowSpace /\ RightRow(row)
    BY ElementOfSeq DEF RowsAreRight, RightRows
  <2> HIDE DEF row
  <2>3. /\ row.section \in {"only", "common", "duplicates"}
        /\ row.side \in Side /\ Other(row.side) \in Side
        /\ "first" \in Side /\ "second" \in Side
        /\ \A s \in Side : itemCount[s] \in Nat
    BY <2>2, PartsInOrder DEF RowSpace, Side, Other
  <2>4. i \in 1..Len(read(row.side)) /\ read(row.side)[i] = input[row.side][i]
    BY <2>1, <2>2, <2>3 DEF RightRow
  <2>5. FirstRead(row.side, i) <=> IsFirst(read(row.side), i)
    <3>1. \A j \in 1..(i - 1) : read(row.side)[j] = input[row.side][j]
      <4>1. i \in 1..itemCount[row.side] /\ itemCount[row.side] \in Nat
        BY <2>1, <2>3, <2>4
      <4>2. \A j \in 1..(i - 1) : j \in 1..itemCount[row.side]
        BY <4>1
      <4>. QED  BY <2>1, <2>3, <4>2
    <3>. QED  BY <2>4, <3>1 DEF FirstRead, IsFirst
  <2>6. \A s \in Side : Seen(s, input[row.side][i]) <=> Occurs(read(row.side)[i], read(s))
    BY <2>1, <2>4 DEF Seen, Occurs
  <2>7. CASE row.section = "only"
    <3>1. i \in OnlyOrdinals(read(row.side), read(Other(row.side)))
      BY <2>2, <2>3, <2>4, <2>5, <2>6, <2>7 DEF RightRow, OnlyOrdinals, FirstOrdinals
    <3>. QED  BY <2>7, <3>1 DEF row
  <2>8. CASE row.section = "common"
    <3>1. row.side = "first" /\ i \in CommonOrdinals(read("first"), read("second"))
      BY <2>2, <2>3, <2>4, <2>5, <2>6, <2>8 DEF RightRow, CommonOrdinals, FirstOrdinals
    <3>. QED  BY <2>8, <3>1 DEF row
  <2>9. CASE row.section = "duplicates"
    <3>1. i \in RepeatOrdinals(read(row.side))
      BY <2>2, <2>3, <2>4, <2>5, <2>9 DEF RightRow, RepeatOrdinals
    <3>. QED  BY <2>9, <3>1 DEF row
  <2>. QED  BY <2>3, <2>7, <2>8, <2>9
<1>. QED  BY <1>1, <1>2, <1>3, PTL DEF Spec
===============================================================================
