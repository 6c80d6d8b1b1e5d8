---------------------------- MODULE UndoManager ----------------------------
(***************************************************************************)
(* The undo manager of the collection, and the transactions it records:    *)
(* rslib/src/undo/mod.rs, rslib/src/collection/transact.rs, the per-table  *)
(* undo.rs files and the transactions of rslib/src/backend/dbproxy.rs.     *)
(*                                                                         *)
(* The collection lock makes one transaction exclude another, but not a    *)
(* failure inside it: an operation is therefore the steps Begin, any       *)
(* number of row writes, then Commit or Fail; an undo replays its changes  *)
(* one at a time.                                                          *)
(***************************************************************************)
EXTENDS Naturals, Sequences, SequencesExt

CONSTANTS
    Notes, Cards, Keys,  \* rows of the notes, cards and config tables
    Value,               \* what a row can hold
    NoRow,               \* stands for a row that is not in its table
    NoStep,              \* no undo step (Option::None)
    Idle,                \* no transaction is running
    NoTrx,               \* no transaction opened through the DB proxy
    Ops,                 \* the kinds of transaction the clients start
    ProxyOutcomes,       \* how clients end a DBProxy.transact: "commit", "rollback", or
                         \* "rollbackWrites", only while there is nothing to undo or redo
    UndoLimit,           \* UNDO_LIMIT: steps kept
    CoalesceSecs,        \* note edits closer than this share an undo step
    MaxCounter,          \* bound: undo steps begun
    MaxProxyCounter,     \* bound: undo steps begun until the end of a DBProxy.transact
    MaxWrites,           \* bound: row writes in one transaction
    MaxMerged,           \* bound: changes of a merged step
    MaxTime              \* bound: clock

Rows   == Notes \cup Cards \cup Keys
Graved == Notes \cup Cards       \* rows whose removal is sent to the server
Time   == 0..MaxTime

\* Op: "Edit" is any kind without a rule of its own; "NoUndo" is transact_no_undo
OpKind == {"Edit", "UpdateNote", "SkipUndo", "Custom"}

ASSUME UndoAssumption ==
    /\ UndoLimit \in Nat \ {0} /\ CoalesceSecs \in Nat
    /\ MaxCounter \in Nat /\ MaxProxyCounter \in Nat /\ MaxWrites \in Nat /\ MaxMerged \in Nat /\ MaxTime \in Nat
    /\ Ops \subseteq OpKind \cup {"NoUndo"}
    /\ ProxyOutcomes \subseteq {"commit", "rollback", "rollbackWrites"}
    /\ NoRow \notin Value
    /\ Idle \notin OpKind \cup {"NoUndo"}
    /\ Notes \cap Cards = {} /\ Notes \cap Keys = {} /\ Cards \cap Keys = {}

(* Data *)

Db == [row : [Rows -> Value \cup {NoRow}], graves : SUBSET Graved, mod : Time]

RowChange   == [what : {"Added", "Updated", "Removed"}, row : Rows, val : Value]
GraveChange == [what : {"GraveAdded", "GraveRemoved"}, row : Graved]
ModChange   == [what : {"Modified"}, mod : Time]
Change      == RowChange \cup GraveChange \cup ModChange
Step        == [kind : OpKind, time : Time, counter : Nat, changes : Seq(Change)]
Trx         == [db : Db]

OnRow(what, r, v) == [what |-> what, row |-> r, val |-> v]
OnGrave(what, r)  == [what |-> what, row |-> r]
Modified(m)       == [what |-> "Modified", mod |-> m]

ASSUME NullAssumption == NoStep \notin Step /\ NoTrx \notin Trx

VARIABLES
    db,           \* the tables, the graves and col.mod
    saved,        \* db at the "rust" savepoint of the running transaction
    outer,        \* the db when DBProxy.transact began, or NoTrx
    proxyWrote,   \* state.modified_by_dbproxy
    undoSteps,    \* undo_steps, newest first
    redoSteps,    \* redo_steps, newest last
    mode,
    currentStep,
    counter,
    op,           \* Op passed to transact, "NoUndo", or Idle
    popped,       \* the step undo() or redo() took off its queue
    todo,         \* changes of popped still to be undone, in recording order
    writes,       \* row writes of the running transaction
    clock

dbVars   == <<db, saved, outer, proxyWrote>>
callVars == <<op, popped, todo, writes>>
undoVars == <<undoSteps, redoSteps, mode, currentStep, counter>>
vars     == <<dbVars, undoVars, callVars, clock>>

-----------------------------------------------------------------------------
(* Undoing one change: the effect on the database, and what is recorded.   *)

\* undo_*_change() returns an error for an update of a row that is gone.
Replayable(d, c) == c.what = "Updated" => d.row[c.row] # NoRow

\* Fault: restoring a row forgets the grave its removal left
RevertKeepingGraves(d, c) ==
    CASE c.what = "Added"               -> [d EXCEPT !.row[c.row] = NoRow]
      [] c.what \in {"Updated", "Removed"} -> [d EXCEPT !.row[c.row] = c.val]
      [] c.what = "Modified"            -> [d EXCEPT !.mod = c.mod]
      [] OTHER                          -> d

\* What undo_*_change() does to the database.
Revert(d, c) ==
    CASE c.what = "Added"               -> [d EXCEPT !.row[c.row] = NoRow]
      [] c.what \in {"Updated", "Removed"} -> [d EXCEPT !.row[c.row] = c.val]
      [] c.what = "GraveAdded"          -> [d EXCEPT !.graves = @ \ {c.row}]
      [] c.what = "GraveRemoved"        -> [d EXCEPT !.graves = @ \cup {c.row}]
      [] c.what = "Modified"            -> [d EXCEPT !.mod = c.mod]

\* Fault: the row to restore is read after it has been removed
InverseOfReadLate(d, c) ==
    CASE c.what = "Added"        -> <<OnRow("Removed", c.row, NoRow)>>
      [] c.what = "Updated"      -> <<OnRow("Updated", c.row, d.row[c.row])>>
      [] c.what = "Removed"      -> <<OnRow("Added", c.row, c.val)>>
      [] c.what = "GraveAdded"   -> <<OnGrave("GraveRemoved", c.row)>>
      [] c.what = "GraveRemoved" -> <<OnGrave("GraveAdded", c.row)>>
      [] c.what = "Modified"     -> <<Modified(d.mod)>>

\* What undo_*_change() saves so that the undo itself can be undone. A removed
\* note or card is saved as it was added; a removed config entry as it is now,
\* and config writes that change nothing are not saved.
InverseOf(d, c) ==
    CASE c.what = "Added" /\ c.row \in Graved -> <<OnRow("Removed", c.row, c.val)>>
      [] c.what = "Added" /\ c.row \in Keys ->
            IF d.row[c.row] = NoRow THEN <<>>
            ELSE <<OnRow("Removed", c.row, d.row[c.row])>>
      [] c.what = "Updated" ->
            IF c.row \in Keys /\ d.row[c.row] = c.val THEN <<>>
            ELSE <<OnRow("Updated", c.row, d.row[c.row])>>
      [] c.what = "Removed"      -> <<OnRow("Added", c.row, c.val)>>
      [] c.what = "GraveAdded"   -> <<OnGrave("GraveRemoved", c.row)>>
      [] c.what = "GraveRemoved" -> <<OnGrave("GraveAdded", c.row)>>
      [] c.what = "Modified"     -> <<Modified(d.mod)>>

\* The database a step leads back to: its changes undone, the last one first.
RevertStep(d, s) ==
    LET n == Len(s.changes)
        back[i \in 0..n] == IF i = 0 THEN d ELSE Revert(back[i - 1], s.changes[n + 1 - i])
    IN back[n]

-----------------------------------------------------------------------------
(* UndoManager                                                             *)

HasChanges(s) == s.changes # <<>> \/ s.kind = "Custom"

NewStep(k) == [kind |-> k, time |-> clock, counter |-> counter + 1, changes |-> <<>>]

\* begin_step(Some(k)) while the manager is in mode m
BeginStep(k, m, undo, redo) ==
    /\ undoSteps' = undo
    /\ redoSteps' = IF m = "NormalOp" THEN <<>> ELSE redo
    /\ currentStep' = NewStep(k)
    /\ counter' = counter + 1

\* Fault: an operation without undo clears only what could be redone
DiscardRedoOnly ==
    /\ redoSteps' = <<>> /\ currentStep' = NoStep
    /\ UNCHANGED <<undoSteps, counter>>

\* begin_step(None), as discard_undo_and_study_queues() calls it too
DiscardSteps ==
    /\ undoSteps' = <<>> /\ redoSteps' = <<>> /\ currentStep' = NoStep
    /\ UNCHANGED counter

\* Fault: makes room after the new step has taken its place
TruncateLate(steps) == SubSeq(steps, 1, IF Len(steps) < UndoLimit THEN Len(steps) ELSE UndoLimit)
Truncate(steps) == SubSeq(steps, 1, IF Len(steps) < UndoLimit - 1 THEN Len(steps) ELSE UndoLimit - 1)

\* end_step(skip) of step s
EndStep(s, skip) ==
    LET kept == HasChanges(s) /\ ~skip IN
    /\ currentStep' = NoStep
    /\ redoSteps' = IF kept /\ mode = "Undoing" THEN Append(redoSteps, s) ELSE redoSteps
    /\ undoSteps' = IF kept /\ mode # "Undoing" THEN <<s>> \o Truncate(undoSteps) ELSE undoSteps

\* Fault: the changes are kept newest first
SaveNewestFirst(changes) ==
    currentStep' = IF currentStep = NoStep THEN NoStep
                   ELSE [currentStep EXCEPT !.changes = changes \o @]

\* save(item): lost when no step is being recorded
SaveAll(changes) ==
    currentStep' = IF currentStep = NoStep THEN NoStep
                   ELSE [currentStep EXCEPT !.changes = @ \o changes]

\* One note update and the mtime bump that follows it
IsNoteEdit(s, n) ==
    /\ s.kind = "UpdateNote" /\ Len(s.changes) = 2
    /\ s.changes[1].what = "Updated" /\ s.changes[1].row = n
    /\ s.changes[2].what = "Modified"

\* Fault: any two note edits coalesce
CoalescesAnyNote(s) ==
    /\ undoSteps # <<>>
    /\ \E n, m \in Notes : IsNoteEdit(s, n) /\ IsNoteEdit(Head(undoSteps), m)
    /\ clock - Head(undoSteps).time < CoalesceSecs

\* maybe_coalesce_note_undo_entry(): a repeated edit keeps no step of its own
Coalesces(s) ==
    /\ undoSteps # <<>>
    /\ \E n \in Notes : IsNoteEdit(s, n) /\ IsNoteEdit(Head(undoSteps), n)
    /\ clock - Head(undoSteps).time < CoalesceSecs

Coalesced(s) == IF Coalesces(s) THEN [s EXCEPT !.changes = <<>>] ELSE s

-----------------------------------------------------------------------------
\* A collection just opened, with any content
Init ==
    /\ \E content \in [Rows -> Value \cup {NoRow}] :
          db = [row |-> content, graves |-> {}, mod |-> 0]
    /\ saved = db /\ outer = NoTrx /\ proxyWrote = FALSE
    /\ undoSteps = <<>> /\ redoSteps = <<>> /\ mode = "NormalOp"
    /\ currentStep = NoStep /\ counter = 0
    /\ op = Idle /\ popped = NoStep /\ todo = <<>> /\ writes = 0 /\ clock = 0

(* transact() and transact_no_undo() *)

\* The bounds on the steps begun
MayBegin == counter < MaxCounter /\ (outer # NoTrx => counter < MaxProxyCounter)

Start(k) == op' = k /\ writes' = 0 /\ saved' = db /\ UNCHANGED <<db, outer, proxyWrote, clock>>

BeginUndoable(k) ==
    /\ op = Idle /\ MayBegin
    /\ Start(k)
    /\ BeginStep(k, mode, undoSteps, redoSteps)
    /\ UNCHANGED <<mode, popped, todo>>

BeginNoUndo ==
    /\ op = Idle
    /\ Start("NoUndo")
    /\ DiscardSteps
    /\ UNCHANGED <<mode, popped, todo>>

Writing(kinds) == op \in kinds /\ mode = "NormalOp" /\ writes < MaxWrites

Write(d, changes) ==
    /\ db' = d /\ writes' = writes + 1
    /\ SaveAll(changes)
    /\ UNCHANGED <<saved, outer, proxyWrote, undoSteps, redoSteps, mode, counter,
                   op, popped, todo, clock>>

\* add_note, add_card, or the first set of a config key. Ids are never reused.
AddRow(r, v) ==
    /\ Writing({"Edit", "NoUndo"}) \/ (r \in Keys /\ Writing({"SkipUndo"}))
    /\ db.row[r] = NoRow /\ r \notin db.graves
    /\ Write([db EXCEPT !.row[r] = v], <<OnRow("Added", r, v)>>)

\* update_note, update_card, set_config; the client edits with SkipUndo only config
UpdateRow(r, v) ==
    /\ \/ Writing({"Edit", "NoUndo"})
       \/ r \in Notes /\ Writing({"UpdateNote"})
       \/ r \in Keys  /\ Writing({"SkipUndo"})
    /\ db.row[r] \notin {NoRow, v}
    /\ Write([db EXCEPT !.row[r] = v], <<OnRow("Updated", r, db.row[r])>>)

\* Removal: a note's row goes before its grave is written, a card's after.
RemoveRow(r) ==
    LET gone == OnRow("Removed", r, db.row[r]) IN
    /\ Writing({"Edit", "NoUndo"})
    /\ db.row[r] # NoRow
    /\ Write([db EXCEPT !.row[r] = NoRow, !.graves = @ \cup ({r} \cap Graved)],
             CASE r \in Notes -> <<gone, OnGrave("GraveAdded", r)>>
               [] r \in Cards -> <<OnGrave("GraveAdded", r), gone>>
               [] r \in Keys  -> <<gone>>)

\* transact_inner() on success: the mtime bump, the coalescing, the end of the step
Finish ==
    op' = Idle /\ popped' = NoStep /\ todo' = <<>> /\ writes' = 0 /\ mode' = "NormalOp"

CommitUndoable ==
    LET bump == HasChanges(currentStep) /\ mode = "NormalOp"
        step == IF bump THEN [currentStep EXCEPT !.changes = Append(@, Modified(db.mod))]
                ELSE currentStep
    IN
    /\ op \in OpKind /\ todo = <<>>
    /\ db' = IF bump THEN [db EXCEPT !.mod = clock] ELSE db
    /\ EndStep(Coalesced(step), op = "SkipUndo")
    /\ Finish
    /\ saved' = db'
    /\ UNCHANGED <<outer, proxyWrote, counter, clock>>

CommitNoUndo ==
    /\ op = "NoUndo"
    /\ db' = [db EXCEPT !.mod = clock]
    /\ Finish
    /\ saved' = db'
    /\ UNCHANGED <<outer, proxyWrote, undoSteps, redoSteps, currentStep, counter, clock>>

\* Fault: what the operation wrote before the error stays
FailKeepingWrites ==
    /\ op # Idle
    /\ saved' = db
    /\ DiscardSteps
    /\ Finish
    /\ UNCHANGED <<db, outer, proxyWrote, clock>>

\* transact_inner() on error, at any point of the operation or of an undo
Fail ==
    /\ op # Idle
    /\ db' = saved
    /\ DiscardSteps
    /\ Finish
    /\ UNCHANGED <<saved, outer, proxyWrote, clock>>

(* undo() and redo() *)

BeginUndo ==
    /\ op = Idle /\ undoSteps # <<>> /\ MayBegin
    /\ LET step == Head(undoSteps) IN
       /\ popped' = step /\ todo' = step.changes
       /\ Start(step.kind)
       /\ BeginStep(step.kind, "Undoing", Tail(undoSteps), redoSteps)
    /\ mode' = "Undoing"

BeginRedo ==
    /\ op = Idle /\ redoSteps # <<>> /\ MayBegin
    /\ LET step == Last(redoSteps) IN
       /\ popped' = step /\ todo' = step.changes
       /\ Start(step.kind)
       /\ BeginStep(step.kind, "Redoing", undoSteps, Front(redoSteps))
    /\ mode' = "Redoing"

\* One turn of undo_inner()'s loop; a change that cannot be replayed is an error
\* and leaves only Fail.
ReplayChange ==
    /\ todo # <<>> /\ Replayable(db, Last(todo))
    /\ db' = Revert(db, Last(todo))
    /\ SaveAll(InverseOf(db, Last(todo)))
    /\ todo' = Front(todo)
    /\ UNCHANGED <<saved, outer, proxyWrote, undoSteps, redoSteps, mode, counter,
                   op, popped, writes, clock>>

(* add_custom_undo_step() and merge_undoable_ops() *)

AddCustomStep ==
    /\ "Custom" \in Ops
    /\ op = Idle /\ MayBegin
    /\ redoSteps' = <<>>
    /\ undoSteps' = <<NewStep("Custom")>> \o Truncate(undoSteps)
    /\ counter' = counter + 1
    /\ UNCHANGED <<dbVars, callVars, mode, currentStep, clock>>

\* Fault: the newest step's changes come first
MergedNewestFirst(i) ==
    LET merged[k \in 0..i] == IF k = 0 THEN <<>> ELSE merged[k - 1] \o undoSteps[k].changes
    IN merged[i]

\* The changes of the first i steps, oldest step first
MergedChanges(i) ==
    LET merged[k \in 0..i] == IF k = 0 THEN <<>> ELSE undoSteps[k].changes \o merged[k - 1]
    IN merged[i]

\* Fault: the merged step keeps the newest step's counter
MergeIntoNewest(i) ==
    /\ "Custom" \in Ops
    /\ op = Idle /\ i \in DOMAIN undoSteps /\ Len(MergedChanges(i)) <= MaxMerged
    /\ undoSteps' = <<[undoSteps[1] EXCEPT !.changes = MergedChanges(i)]>>
                    \o SubSeq(undoSteps, i + 1, Len(undoSteps))
    /\ counter' = undoSteps[i].counter
    /\ UNCHANGED <<dbVars, callVars, redoSteps, mode, currentStep, clock>>

Merge(i) ==
    /\ "Custom" \in Ops
    /\ op = Idle /\ i \in DOMAIN undoSteps /\ Len(MergedChanges(i)) <= MaxMerged
    /\ undoSteps' = <<[undoSteps[i] EXCEPT !.changes = MergedChanges(i)]>>
                    \o SubSeq(undoSteps, i + 1, Len(undoSteps))
    /\ counter' = undoSteps[i].counter
    /\ UNCHANGED <<dbVars, callVars, redoSteps, mode, currentStep, clock>>

(* The DB proxy: statements and transactions of Python code *)

\* An UPDATE of a row, straight on the table
ProxyWrite(r, v) ==
    /\ "NoUndo" \in Ops
    /\ op = Idle /\ db.row[r] \notin {NoRow, v}
    /\ db' = [db EXCEPT !.row[r] = v]
    /\ saved' = db' /\ proxyWrote' = TRUE
    /\ DiscardSteps
    /\ UNCHANGED <<outer, mode, callVars, clock>>

ProxyBegin ==
    /\ ProxyOutcomes # {}
    /\ op = Idle /\ outer = NoTrx
    /\ outer' = [db |-> db]
    /\ UNCHANGED <<db, saved, proxyWrote, undoVars, callVars, clock>>

ProxyCommit ==
    /\ "commit" \in ProxyOutcomes
    /\ op = Idle /\ outer # NoTrx
    /\ db' = IF proxyWrote THEN [db EXCEPT !.mod = clock] ELSE db
    /\ saved' = db' /\ proxyWrote' = FALSE /\ outer' = NoTrx
    /\ UNCHANGED <<undoVars, callVars, clock>>

ProxyRollback ==
    /\ \/ "rollback" \in ProxyOutcomes
       \/ "rollbackWrites" \in ProxyOutcomes /\ undoSteps = <<>> /\ redoSteps = <<>>
    /\ op = Idle /\ outer # NoTrx
    /\ db' = outer.db
    /\ saved' = db' /\ outer' = NoTrx
    /\ UNCHANGED <<proxyWrote, undoVars, callVars, clock>>

\* A sync, or the day rollover seen by get_queues(), drops every step.
Discard ==
    /\ "NoUndo" \in Ops
    /\ op = Idle
    /\ DiscardSteps
    /\ UNCHANGED <<dbVars, mode, callVars, clock>>

Tick == op = Idle /\ clock < MaxTime /\ clock' = clock + 1 /\ UNCHANGED <<dbVars, undoVars, callVars>>

Next ==
    \/ \E k \in Ops \ {"NoUndo", "Custom"} : BeginUndoable(k)
    \/ ("NoUndo" \in Ops /\ BeginNoUndo)
    \/ \E r \in Rows, v \in Value : AddRow(r, v)
    \/ \E r \in Rows, v \in Value : UpdateRow(r, v)
    \/ \E r \in Rows : RemoveRow(r)
    \/ CommitUndoable
    \/ CommitNoUndo
    \/ Fail
    \/ BeginUndo
    \/ BeginRedo
    \/ ReplayChange
    \/ AddCustomStep
    \/ \E i \in 1..UndoLimit : Merge(i)
    \/ \E r \in Rows, v \in Value : ProxyWrite(r, v)
    \/ ProxyBegin
    \/ ProxyCommit
    \/ ProxyRollback
    \/ Discard
    \/ Tick

Spec == Init /\ [][Next]_vars

-----------------------------------------------------------------------------
(* Properties                                                              *)

TypeOK ==
    /\ db \in Db /\ saved \in Db /\ outer \in Trx \cup {NoTrx}
    /\ proxyWrote \in BOOLEAN
    /\ undoSteps \in Seq(Step) /\ redoSteps \in Seq(Step)
    /\ mode \in {"NormalOp", "Undoing", "Redoing"}
    /\ currentStep \in Step \cup {NoStep} /\ counter \in Nat
    /\ op \in OpKind \cup {"NoUndo", Idle}
    /\ popped \in Step \cup {NoStep} /\ todo \in Seq(Change)
    /\ writes \in 0..MaxWrites /\ clock \in Time

\* A caller of merge_undoable_ops() names its target by counter. Each step in
\* undo_steps has a counter of its own, newer steps have larger ones, and the
\* next step's will be larger than all, although a merge sets the counter back.
CountersDescend ==
    /\ \A i \in DOMAIN undoSteps : undoSteps[i].counter <= counter
    /\ \A i, j \in DOMAIN undoSteps : i < j => undoSteps[i].counter > undoSteps[j].counter

\* At most UNDO_LIMIT steps are kept, whatever operations, redos and merges
\* came before, and while a step is in flight it is in neither queue.
StepsBounded ==
    /\ Len(undoSteps) <= UndoLimit
    /\ currentStep # NoStep => \A i \in DOMAIN undoSteps : undoSteps[i].counter < currentStep.counter

\* An undo never meets an update of a row that is gone ("note disappeared",
\* "config disappeared"), whatever was skipped, merged, coalesced or dropped in
\* between. Nor does a redo, but for a config key that an operation outside the
\* undo queue wrote back between the recorded removal and the recorded update.
ReplayNeverMissesRow ==
    todo # <<>> /\ ~Replayable(db, Last(todo)) =>
        mode = "Redoing" /\ Last(todo).row \in Keys /\ "SkipUndo" \in Ops

(* Refinement: the history of states that the recorded changes encode.     *)

Steps == IF mode = "Undoing" THEN <<popped>> \o undoSteps ELSE undoSteps
Undone == IF mode = "Redoing" THEN Append(redoSteps, popped) ELSE redoSteps
Stable == IF op = Idle THEN db ELSE saved

\* The states that undoing steps one after the other leads to
Trail(steps, d) ==
    LET back[i \in 0..Len(steps)] ==
          IF i = 0 THEN d ELSE RevertStep(back[i - 1], steps[i])
    IN [i \in 1..Len(steps) |-> back[i]]

\* The history of the whole database, col.mod included, when every operation
\* is recorded.
H == INSTANCE UndoHistory WITH
        State <- Db, Limit <- UndoLimit, present <- Stable, recording <- op \in OpKind,
        past <- Trail(Steps, Stable), future <- Reverse(Trail(Reverse(Undone), Stable))

\* Undo brings back the very state the undone step began from, notes, cards,
\* config, graves and col.mod; redo the state the undo left. An operation or an
\* undo that fails after some of its writes loses the history, and nothing else.
History == H!Spec

\* The part of the database that SkipUndo operations do not write
Content(d) == [row |-> [r \in Graved |-> d.row[r]], graves |-> d.graves]
ContentOf(states) == [i \in DOMAIN states |-> Content(states[i])]

HC == INSTANCE UndoHistory WITH
        State <- [row : [Graved -> Value \cup {NoRow}], graves : SUBSET Graved],
        Limit <- UndoLimit, present <- Content(Stable), recording <- op \in OpKind,
        past <- ContentOf(Trail(Steps, Stable)),
        future <- ContentOf(Reverse(Trail(Reverse(Undone), Stable)))

\* With operations that skip the undo queue, and transactions of the DB proxy,
\* in between, undo and redo still bring back the notes, cards and graves, and
\* one that fails leaves them as they were.
ContentHistory == HC!Spec
=============================================================================
