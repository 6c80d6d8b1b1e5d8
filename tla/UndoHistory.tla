---------------------------- MODULE UndoHistory ----------------------------
(***************************************************************************)
(* What Undo and Redo promise: the collection has a present state, the     *)
(* states that led to it (newest first) and the undone states that can be  *)
(* brought back (newest last). UndoManager keeps changes, not states; it   *)
(* implements this specification.                                          *)
(***************************************************************************)
EXTENDS Naturals, Sequences

CONSTANTS State, Limit

VARIABLES present, past, future,
          recording   \* given: whether an operation that can be undone is under way
hist == <<present, past, future>>

Trim(s) == SubSeq(s, 1, IF Len(s) < Limit THEN Len(s) ELSE Limit)

Init == present \in State /\ past = <<>> /\ future = <<>>

\* An undoable operation, or an empty step to merge into
Do == present' \in State /\ past' = Trim(<<present>> \o past) /\ future' = <<>>

\* An operation the newest step takes in: undo goes back to before both
Extend == past # <<>> /\ present' \in State /\ UNCHANGED past /\ future' = <<>>

\* An undoable operation that changes nothing, or skips the queue
Pass == future' = <<>> /\ UNCHANGED <<present, past>>

Undo ==
    /\ past # <<>>
    /\ present' = Head(past) /\ past' = Tail(past)
    /\ future' = Append(future, present)

\* A redone edit may be taken in by the step below it
Redo ==
    /\ future # <<>>
    /\ present' = future[Len(future)] /\ future' = SubSeq(future, 1, Len(future) - 1)
    /\ \/ past' = Trim(<<present>> \o past)
       \/ past # <<>> /\ UNCHANGED past

\* The i newest steps become one
Merge(i) ==
    /\ i \in DOMAIN past
    /\ past' = SubSeq(past, i, Len(past)) /\ UNCHANGED <<present, future>>

\* A failure, or a change of day: nothing but the history is lost
Forget == past' = <<>> /\ future' = <<>> /\ UNCHANGED present

\* A write that cannot be undone. It is never part of an operation that can:
\* one of those changes the present only by adding to the history.
Overwrite == ~recording /\ present' \in State /\ past' = <<>> /\ future' = <<>>

Next ==
    \/ Pass \/ Do \/ Extend \/ Undo \/ Redo \/ Forget \/ Overwrite
    \/ \E i \in 1..Limit : Merge(i)

Spec == Init /\ [][Next]_hist
=============================================================================
