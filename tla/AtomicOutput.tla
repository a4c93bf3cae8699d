----------------------------- MODULE AtomicOutput -----------------------------
(***************************************************************************)
(* The writers that replace an output path atomically: they write to a     *)
(* temporary sibling made by mkstemp and os.replace it at the end.         *)
(*   "stream"    output/result_files.py, StreamingResultWriter             *)
(*   "fields"    fields.py, _JSONLFieldWriter behind its context manager   *)
(*   "document"  disk.py, atomic_write_result                              *)
(* Several calls, of several processes, may write one path at a time; the  *)
(* specification lets them interleave, fail and be killed.  A backend that *)
(* streams its result instantiates this module and uses its actions.       *)
(***************************************************************************)
EXTENDS Naturals, Sequences

CONSTANTS
    Writer,     \* the calls that write the output path
    Kind,       \* [Writer -> {"stream", "fields", "document"}], which of the three
    Content,    \* [Writer -> the rows the call's result has]
    None

VARIABLES
    target,     \* what the output path holds: the rows of a result, or None
    sibling,    \* [Writer -> rows in its temporary file, or None if it has none]
    session     \* [Writer -> where the writer is]

vars == <<target, sibling, session>>

Session == {"idle", "open", "failing", "closed", "done", "failed"}
Ended(w) == session[w] \in {"done", "failed"}

Init ==
    /\ target = None
    /\ sibling = [w \in Writer |-> None]
    /\ session = [w \in Writer |-> "idle"]

Step(w, from, to) ==
    /\ session[w] = from
    /\ session' = [session EXCEPT ![w] = to]

(* What the call leaves behind when an exception of its own file handling  *)
(* escapes: only atomic_write_result unlinks in every such case.           *)
FailedFile(w) == IF Kind[w] = "document" THEN None ELSE sibling[w]

-----------------------------------------------------------------------------
(* mkstemp, then open: __enter__, open(), or the head of the function. *)
Enter(w) ==
    /\ Step(w, "idle", "open")
    /\ sibling' = [sibling EXCEPT ![w] = <<>>]
    /\ UNCHANGED target

(* The sibling exists and cannot be opened: __exit__ does not run. *)
EnterFails(w) ==
    /\ Step(w, "idle", "failed")
    /\ sibling' = [sibling EXCEPT ![w] = IF Kind[w] = "document" THEN None ELSE <<>>]
    /\ UNCHANGED target

WriteRows(w, rows) ==
    /\ session[w] = "open"
    /\ sibling' = [sibling EXCEPT ![w] = @ \o rows]
    /\ UNCHANGED <<target, session>>

(* The body raises: a row cannot be written, or producing it failed. *)
BodyRaises(w) ==
    /\ Step(w, "open", "failing")
    /\ UNCHANGED <<target, sibling>>

(* The body ended and the file closed. *)
Close(w) ==
    /\ Step(w, "open", "closed")
    /\ UNCHANGED <<target, sibling>>

(* Flushing the last rows fails. *)
CloseFails(w) ==
    /\ Step(w, "open", "failed") \/ Step(w, "failing", "failed")
    /\ sibling' = [sibling EXCEPT ![w] = FailedFile(w)]
    /\ UNCHANGED target

(* Mutant: a failing body closes the file like a finished one. *)
DiscardPublishes(w) ==
    /\ Step(w, "failing", "closed")
    /\ UNCHANGED <<target, sibling>>

Discard(w) ==
    /\ Step(w, "failing", "failed")
    /\ sibling' = [sibling EXCEPT ![w] = None]
    /\ UNCHANGED target

Replace(w) ==
    /\ Step(w, "closed", "done")
    /\ target' = sibling[w]
    /\ sibling' = [sibling EXCEPT ![w] = None]

ReplaceFails(w) ==
    /\ Step(w, "closed", "failed")
    /\ sibling' = [sibling EXCEPT ![w] = FailedFile(w)]
    /\ UNCHANGED target

(* The process is killed, or a KeyboardInterrupt passes the `except        *)
(* Exception` of atomic_write_result; whatever was written stays.          *)
Killed(w) ==
    /\ ~Ended(w)
    /\ session' = [session EXCEPT ![w] = "failed"]
    /\ UNCHANGED <<target, sibling>>

-----------------------------------------------------------------------------
RowsLeft(w) == Len(sibling[w]) < Len(Content[w])

(* A call writes its rows one by one and leaves the body after the last.   *)
WriteNext(w) ==
    /\ sibling[w] # None
    /\ RowsLeft(w)
    /\ WriteRows(w, <<Content[w][Len(sibling[w]) + 1]>>)

CloseComplete(w) ==
    /\ sibling[w] # None
    /\ ~RowsLeft(w)
    /\ Close(w)

Progress(w) ==
    \/ Enter(w)
    \/ WriteNext(w)
    \/ CloseComplete(w)
    \/ Discard(w)
    \/ Replace(w)

Failure(w) ==
    \/ EnterFails(w)
    \/ BodyRaises(w)
    \/ CloseFails(w)
    \/ ReplaceFails(w)
    \/ Killed(w)

Next == \E w \in Writer : Progress(w) \/ Failure(w)

Spec == Init /\ [][Next]_vars

-----------------------------------------------------------------------------
TypeOK ==
    /\ target \in {Content[w] : w \in Writer} \cup {None}
    /\ \A w \in Writer : \/ sibling[w] = None
                         \/ sibling[w] = SubSeq(Content[w], 1, Len(sibling[w]))
    /\ session \in [Writer -> Session]

(* "If writing fails, the final output path is not replaced"               *)
(* (docs/limitations-security.md): the path changes only when a writer is  *)
(* done, and then to that writer's whole result, whatever the other        *)
(* writers of the path are doing at that moment.                           *)
PublishesWhole ==
    target' # target =>
        \E w \in Writer : /\ session[w] # "done" /\ session'[w] = "done"
                          /\ target' = Content[w]

PublishedWhole == [][PublishesWhole]_vars
===============================================================================
