------------------------- MODULE UndoManagerProofs -------------------------
(***************************************************************************)
(* Proofs about UndoManager, for every set of rows, limit and bound.       *)
(* The second half shows that it implements UndoHistory. The queues keep   *)
(* changes, not states, so the invariant keeps the states beside them: hs, *)
(* which the undo steps lead back to, and gs, which the redo steps lead on *)
(* to. A step leads from one state to another when its changes, undone     *)
(* last to first, do, each of them finding what it left behind (Walk,      *)
(* Leads). States that differ only in what unrecorded operations write are *)
(* near each other (Near), and undoing keeps them so. Every action of the  *)
(* model then moves hs and gs as an action of UndoHistory moves its past   *)
(* and future (Moves).                                                     *)
(***************************************************************************)
EXTENDS UndoManager, WellFoundedInduction, SequenceTheorems, TLAPS

\* A set of naturals that holds 0, and n + 1 with n, holds every natural.
LEMMA Induction ==
    ASSUME NEW P \in SUBSET Nat, 0 \in P, \A n \in P : n + 1 \in P
    PROVE  P = Nat
<1> DEFINE R == OpToRel(<, Nat)
<1> SUFFICES ASSUME Nat \ P # {} PROVE FALSE
  OBVIOUS
<1>1. IsWellFoundedOn(R, Nat)
  BY NatLessThanWellFounded
<1>2. PICK m \in Nat \ P : \A k \in Nat \ P : <<k, m>> \notin R
  <2> HIDE DEF R
  <2>1. Nat \ P \subseteq Nat
    OBVIOUS
  <2> QED
    BY <1>1, <2>1, WFMin
<1>3. m # 0 /\ m - 1 \in Nat /\ <<m - 1, m>> \in R
  BY DEF OpToRel
<1>4. m - 1 \in P
  BY <1>2, <1>3
<1>5. (m - 1) + 1 \in P
  BY <1>4
<1> QED
  BY <1>5

\* What MergedChanges takes its value from
MergesTo(f, n) == f = [k \in 0..n |-> IF k = 0 THEN <<>> ELSE undoSteps[k].changes \o f[k - 1]]

LEMMA MergeExists == \A n \in Nat : \E f : MergesTo(f, n)
<1> DEFINE P == {n \in Nat : \E f : MergesTo(f, n)}
<1>1. 0 \in P
  <2>1. MergesTo([k \in 0..0 |-> <<>>], 0)
    BY DEF MergesTo
  <2> QED
    BY <2>1
<1>2. ASSUME NEW n \in P PROVE n + 1 \in P
  <2>1. PICK f : MergesTo(f, n)
    OBVIOUS
  <2> DEFINE g == [k \in 0..(n + 1) |-> IF k = n + 1 THEN undoSteps[k].changes \o f[n] ELSE f[k]]
  <2>2. ASSUME NEW k \in 0..(n + 1)
        PROVE  g[k] = IF k = 0 THEN <<>> ELSE undoSteps[k].changes \o g[k - 1]
    <3>1. CASE k = n + 1
      <4>1. k # 0 /\ k - 1 = n /\ g[n] = f[n]
        BY <3>1
      <4> QED
        BY <3>1, <4>1
    <3>2. CASE k # n + 1
      <4>1. k \in 0..n
        BY <3>2
      <4>2. g[k] = f[k] /\ (k # 0 => g[k - 1] = f[k - 1])
        BY <3>2, <4>1
      <4>3. f[k] = IF k = 0 THEN <<>> ELSE undoSteps[k].changes \o f[k - 1]
        BY <2>1, <4>1 DEF MergesTo
      <4> QED
        BY <4>2, <4>3
    <3> QED
      BY <3>1, <3>2
  <2>3. MergesTo(g, n + 1)
    BY <2>2 DEF MergesTo
  <2> HIDE DEF g
  <2>4. \E h : MergesTo(h, n + 1)
    BY <2>3
  <2> QED
    BY <2>4
<1> HIDE DEF P
<1>3. P = Nat
  <2>1. P \in SUBSET Nat
    BY DEF P
  <2> QED
    BY <1>1, <1>2, <2>1, Induction
<1> QED
  BY <1>3 DEF P

\* merge_undoable_ops() joins changes into changes.
LEMMA MergedChangesType ==
    ASSUME undoSteps \in Seq(Step), NEW i \in DOMAIN undoSteps
    PROVE  MergedChanges(i) \in Seq(Change)
<1> DEFINE f == CHOOSE g : MergesTo(g, i)
           P == {n \in Nat : n <= i => f[n] \in Seq(Change)}
<1>1. i \in Nat /\ \A k \in 1..i : undoSteps[k].changes \in Seq(Change)
  <2>1. i \in Nat /\ i <= Len(undoSteps)
    BY LenProperties
  <2>2. ASSUME NEW k \in 1..i PROVE undoSteps[k] \in Step
    BY <2>1, ElementOfSeq
  <2>3. \A s \in Step : s.changes \in Seq(Change)
    BY DEF Step
  <2> QED
    BY <2>1, <2>2, <2>3
<1>2. MergesTo(f, i)
  <2>1. \E g : MergesTo(g, i)
    BY <1>1, MergeExists
  <2> QED
    BY <2>1
<1>3. MergedChanges(i) = f[i]
  BY DEF MergedChanges, MergesTo
<1> HIDE DEF f
<1>4. 0 \in P
  <2>1. f[0] = <<>>
    BY <1>1, <1>2 DEF MergesTo
  <2> QED
    BY <2>1, EmptySeq
<1>5. ASSUME NEW n \in P PROVE n + 1 \in P
  <2> SUFFICES ASSUME n + 1 <= i PROVE f[n + 1] \in Seq(Change)
    OBVIOUS
  <2>1. n \in Nat /\ n + 1 \in 1..i /\ f[n] \in Seq(Change)
    BY <1>1
  <2>2. f[n + 1] = undoSteps[n + 1].changes \o f[n]
    <3>1. n + 1 \in 0..i /\ n + 1 # 0 /\ (n + 1) - 1 = n
      BY <1>1, <2>1
    <3> QED
      BY <1>2, <3>1 DEF MergesTo
  <2>3. undoSteps[n + 1].changes \in Seq(Change)
    BY <1>1, <2>1
  <2> QED
    BY <2>1, <2>2, <2>3, ConcatProperties
<1>6. P = Nat
  <2>1. P \in SUBSET Nat
    OBVIOUS
  <2> HIDE DEF P
  <2> QED
    BY <1>4, <1>5, <2>1, Induction
<1> QED
  BY <1>1, <1>3, <1>6

-----------------------------------------------------------------------------
(* Types                                                                   *)

LEMMA RevertType ==
    ASSUME NEW d \in Db, NEW c \in Change
    PROVE  Revert(d, c) \in Db
<1>1. CASE c \in RowChange
  BY <1>1 DEF Revert, Db, RowChange
<1>2. CASE c \in GraveChange
  BY <1>2 DEF Revert, Db, GraveChange
<1>3. CASE c \in ModChange
  BY <1>3 DEF Revert, Db, ModChange
<1> QED
  BY <1>1, <1>2, <1>3 DEF Change

LEMMA InverseOfType ==
    ASSUME NEW d \in Db, NEW c \in Change, Replayable(d, c)
    PROVE  InverseOf(d, c) \in Seq(Change)
<1> USE DEF Change, RowChange, GraveChange, ModChange
<1>1. <<>> \in Seq(Change) /\ \A x \in Change : <<x>> \in Seq(Change)
  OBVIOUS
<1>2. CASE c \in RowChange
  <2>1. CASE c.what = "Added"
    <3>1. c.row \in Graved \/ (c.row \in Keys /\ c.row \notin Graved)
      BY <1>2 DEF Rows, Graved
    <3>2. d.row[c.row] # NoRow => OnRow("Removed", c.row, d.row[c.row]) \in RowChange
      BY <1>2 DEF Db, OnRow
    <3>3. OnRow("Removed", c.row, c.val) \in RowChange
      BY <1>2 DEF OnRow
    <3>4. CASE c.row \in Graved
      <4>1. InverseOf(d, c) = <<OnRow("Removed", c.row, c.val)>>
        BY <2>1, <3>4, UndoAssumption DEF InverseOf, Graved
      <4> QED
        BY <4>1, <3>3, <1>1
    <3>5. CASE c.row \in Keys /\ c.row \notin Graved
      <4>1. InverseOf(d, c) = IF d.row[c.row] = NoRow THEN <<>> ELSE <<OnRow("Removed", c.row, d.row[c.row])>>
        BY <2>1, <3>5 DEF InverseOf
      <4> QED
        BY <4>1, <3>2, <1>1
    <3> QED
      BY <3>1, <3>4, <3>5
  <2>2. CASE c.what = "Updated"
    <3>1. OnRow("Updated", c.row, d.row[c.row]) \in RowChange
      BY <1>2, <2>2 DEF Db, OnRow, Replayable
    <3>2. InverseOf(d, c) = IF c.row \in Keys /\ d.row[c.row] = c.val THEN <<>>
                            ELSE <<OnRow("Updated", c.row, d.row[c.row])>>
      BY <2>2 DEF InverseOf
    <3> QED
      BY <3>1, <3>2, <1>1
  <2>3. CASE c.what = "Removed"
    <3>1. OnRow("Added", c.row, c.val) \in RowChange
      BY <1>2 DEF OnRow
    <3>2. InverseOf(d, c) = <<OnRow("Added", c.row, c.val)>>
      BY <2>3 DEF InverseOf
    <3> QED
      BY <3>1, <3>2, <1>1
  <2> QED
    BY <1>2, <2>1, <2>2, <2>3
<1>3. CASE c \in GraveChange
  <2>1. InverseOf(d, c) \in {<<OnGrave("GraveRemoved", c.row)>>, <<OnGrave("GraveAdded", c.row)>>}
    BY <1>3 DEF InverseOf
  <2>2. OnGrave("GraveRemoved", c.row) \in GraveChange /\ OnGrave("GraveAdded", c.row) \in GraveChange
    BY <1>3 DEF OnGrave
  <2> QED
    BY <2>1, <2>2, <1>1
<1>4. CASE c \in ModChange
  <2>1. InverseOf(d, c) = <<Modified(d.mod)>> /\ Modified(d.mod) \in ModChange
    BY <1>4 DEF InverseOf, Modified, Db
  <2> QED
    BY <2>1, <1>1
<1> QED
  BY <1>2, <1>3, <1>4

LEMMA NewStepType ==
    ASSUME TypeOK, NEW k \in OpKind
    PROVE  NewStep(k) \in Step /\ NewStep(k).counter = counter + 1
BY DEF TypeOK, NewStep, Step

LEMMA SaveType ==
    ASSUME TypeOK, NEW changes \in Seq(Change), SaveAll(changes)
    PROVE  /\ currentStep' \in Step \cup {NoStep}
           /\ currentStep' = NoStep <=> currentStep = NoStep
           /\ currentStep # NoStep => currentStep'.counter = currentStep.counter
<1>1. CASE currentStep = NoStep
  BY <1>1 DEF SaveAll
<1>2. CASE currentStep # NoStep
  <2>1. currentStep \in Step
    BY <1>2 DEF TypeOK
  <2>2. currentStep.changes \o changes \in Seq(Change)
    BY <2>1, ConcatProperties DEF Step
  <2>3. currentStep' = [currentStep EXCEPT !.changes = currentStep.changes \o changes]
    BY <1>2 DEF SaveAll
  <2>4. currentStep' \in Step /\ currentStep'.counter = currentStep.counter
    BY <2>1, <2>2, <2>3 DEF Step
  <2> QED
    BY <1>2, <2>4, NullAssumption
<1> QED
  BY <1>1, <1>2

LEMMA TruncateType ==
    ASSUME NEW steps \in Seq(Step)
    PROVE  /\ Truncate(steps) \in Seq(Step)
           /\ Len(Truncate(steps)) <= UndoLimit - 1 /\ Len(Truncate(steps)) <= Len(steps)
           /\ \A i \in 1..Len(Truncate(steps)) : Truncate(steps)[i] = steps[i]
<1> DEFINE n == IF Len(steps) < UndoLimit - 1 THEN Len(steps) ELSE UndoLimit - 1
<1>1. n \in Nat /\ n <= Len(steps) /\ n <= UndoLimit - 1
  BY UndoAssumption, LenProperties
<1>2. \A i \in 1..n : steps[i] \in Step
  BY <1>1, ElementOfSeq
<1> HIDE DEF n
<1>3. /\ SubSeq(steps, 1, n) \in Seq(Step)
      /\ Len(SubSeq(steps, 1, n)) = IF 1 <= n THEN n - 1 + 1 ELSE 0
      /\ \A i \in 1..(n - 1 + 1) : SubSeq(steps, 1, n)[i] = steps[1 + i - 1]
  BY <1>1, <1>2, SubSeqProperties
<1>4. Len(SubSeq(steps, 1, n)) = n
  BY <1>1, <1>3
<1>5. \A i \in 1..n : SubSeq(steps, 1, n)[i] = steps[i]
  BY <1>1, <1>3
<1> QED
  BY <1>1, <1>3, <1>4, <1>5 DEF Truncate, n

\* Putting a step on top of the queue
LEMMA PushType ==
    ASSUME NEW steps \in Seq(Step), NEW s \in Step
    PROVE  LET pushed == <<s>> \o Truncate(steps) IN
           /\ pushed \in Seq(Step) /\ Len(pushed) <= UndoLimit
           /\ Len(pushed) >= 1 /\ Len(pushed) <= Len(steps) + 1
           /\ pushed[1] = s
           /\ \A i \in 2..Len(pushed) : pushed[i] = steps[i - 1]
<1> DEFINE t == Truncate(steps)
<1>1. <<s>> \in Seq(Step) /\ Len(<<s>>) = 1 /\ <<s>>[1] = s
  OBVIOUS
<1>2. /\ t \in Seq(Step) /\ Len(t) <= UndoLimit - 1 /\ Len(t) <= Len(steps)
      /\ \A i \in 1..Len(t) : t[i] = steps[i]
  BY TruncateType
<1>3. Len(t) \in Nat /\ Len(steps) \in Nat
  BY <1>2, LenProperties
<1> HIDE DEF t
<1>4. /\ <<s>> \o t \in Seq(Step) /\ Len(<<s>> \o t) = 1 + Len(t)
      /\ \A i \in 1..(1 + Len(t)) : (<<s>> \o t)[i] = IF i <= 1 THEN <<s>>[i] ELSE t[i - 1]
  BY <1>1, <1>2, ConcatProperties
<1>5. \A i \in 2..(1 + Len(t)) : (<<s>> \o t)[i] = steps[i - 1]
  BY <1>2, <1>3, <1>4
<1> QED
  BY <1>1, <1>2, <1>3, <1>4, <1>5, UndoAssumption DEF t

\* A queue without its last, or without its first elements
LEMMA FrontType ==
    ASSUME NEW S, NEW s \in Seq(S), s # <<>>
    PROVE  Front(s) \in Seq(S)
<1>1. Len(s) \in Nat /\ \A i \in 1..(Len(s) - 1) : s[i] \in S
  BY LenProperties, ElementOfSeq
<1> QED
  BY <1>1, SubSeqProperties DEF Front

LEMMA SuffixType ==
    ASSUME NEW S, NEW s \in Seq(S), NEW i \in Nat
    PROVE  /\ SubSeq(s, i + 1, Len(s)) \in Seq(S)
           /\ Len(SubSeq(s, i + 1, Len(s))) = IF i < Len(s) THEN Len(s) - i ELSE 0
           /\ \A k \in 1..(Len(s) - i) : SubSeq(s, i + 1, Len(s))[k] = s[i + k]
<1>1. Len(s) \in Nat /\ \A k \in (i + 1)..Len(s) : s[k] \in S
  BY LenProperties, ElementOfSeq
<1>2. /\ SubSeq(s, i + 1, Len(s)) \in Seq(S)
      /\ Len(SubSeq(s, i + 1, Len(s))) = IF i + 1 <= Len(s) THEN Len(s) - (i + 1) + 1 ELSE 0
      /\ \A k \in 1..(Len(s) - (i + 1) + 1) : SubSeq(s, i + 1, Len(s))[k] = s[(i + 1) + k - 1]
  BY <1>1, SubSeqProperties
<1>3. \A k \in 1..(Len(s) - i) : SubSeq(s, i + 1, Len(s))[k] = s[i + k]
  <2> TAKE k \in 1..(Len(s) - i)
  <2>1. k \in 1..(Len(s) - (i + 1) + 1) /\ (i + 1) + k - 1 = i + k
    BY <1>1
  <2> QED
    BY <1>2, <2>1
<1> QED
  BY <1>1, <1>2, <1>3

LEMMA EndStepType ==
    ASSUME TypeOK, NEW s \in Step, NEW skip, EndStep(s, skip)
    PROVE  undoSteps' \in Seq(Step) /\ redoSteps' \in Seq(Step) /\ currentStep' = NoStep
<1>1. <<s>> \o Truncate(undoSteps) \in Seq(Step)
  BY PushType DEF TypeOK
<1>2. Append(redoSteps, s) \in Seq(Step)
  BY AppendProperties DEF TypeOK
<1> QED
  BY <1>1, <1>2 DEF EndStep, TypeOK

-----------------------------------------------------------------------------
(* Type correctness                                                        *)

\* A step is being recorded exactly while an undoable operation, an undo or a
\* redo runs.
Recording == currentStep # NoStep <=> op \in OpKind

Types == TypeOK /\ Recording

\* What RemoveRow records
LEMMA RemovalType ==
    ASSUME TypeOK, NEW r \in Rows, db.row[r] # NoRow
    PROVE  LET gone == OnRow("Removed", r, db.row[r]) IN
           (CASE r \in Notes -> <<gone, OnGrave("GraveAdded", r)>>
              [] r \in Cards -> <<OnGrave("GraveAdded", r), gone>>
              [] r \in Keys  -> <<gone>>) \in Seq(Change)
<1> DEFINE gone == OnRow("Removed", r, db.row[r])
           grave == OnGrave("GraveAdded", r)
<1>1. gone \in Change
  BY DEF OnRow, Change, RowChange, TypeOK, Db
<1>2. r \in Graved => grave \in Change
  BY DEF OnGrave, Change, GraveChange
<1> HIDE DEF gone, grave
<1>3. /\ r \in Notes => <<gone, grave>> \in Seq(Change)
      /\ r \in Cards => <<grave, gone>> \in Seq(Change)
      /\ r \in Keys => <<gone>> \in Seq(Change)
  BY <1>1, <1>2 DEF Graved
<1>4. r \in Notes \/ r \in Cards \/ r \in Keys
  BY DEF Rows
<1>5. (CASE r \in Notes -> <<gone, grave>>
         [] r \in Cards -> <<grave, gone>>
         [] r \in Keys  -> <<gone>>) \in Seq(Change)
  BY <1>3, <1>4
<1> QED
  BY <1>5 DEF gone, grave

\* What CommitUndoable ends: the recorded step, with the mtime bump or coalesced
LEMMA CommittedStep ==
    ASSUME Types, CommitUndoable
    PROVE  \E s \in Step : EndStep(s, op = "SkipUndo") /\ s.counter = currentStep.counter
<1> DEFINE bump == HasChanges(currentStep) /\ mode = "NormalOp"
           step == IF bump THEN [currentStep EXCEPT !.changes = Append(@, Modified(db.mod))]
                   ELSE currentStep
<1>1. currentStep \in Step
  BY DEF Types, Recording, CommitUndoable, TypeOK
<1>2. step \in Step /\ step.counter = currentStep.counter
  <2>1. Modified(db.mod) \in Change
    BY DEF Modified, Change, ModChange, Types, TypeOK, Db
  <2>2. Append(currentStep.changes, Modified(db.mod)) \in Seq(Change)
    BY <1>1, <2>1, AppendProperties DEF Step
  <2> QED
    BY <1>1, <2>2 DEF Step
<1>3. EndStep(Coalesced(step), op = "SkipUndo")
  BY DEF CommitUndoable
<1> HIDE DEF step
<1>4. Coalesced(step) \in Step /\ Coalesced(step).counter = currentStep.counter
  <2>1. /\ [step EXCEPT !.changes = <<>>] \in Step
        /\ [step EXCEPT !.changes = <<>>].counter = step.counter
    BY <1>2, EmptySeq DEF Step
  <2> QED
    BY <1>2, <2>1 DEF Coalesced
<1> QED
  BY <1>3, <1>4

LEMMA InitTypes == Init => Types
<1> SUFFICES ASSUME Init PROVE Types
  OBVIOUS
<1>1. db \in Db
  BY UndoAssumption DEF Init, Db, Time
<1>2. saved \in Db /\ outer \in Trx \cup {NoTrx} /\ proxyWrote \in BOOLEAN
  BY <1>1 DEF Init
<1>3. /\ undoSteps \in Seq(Step) /\ redoSteps \in Seq(Step)
      /\ mode \in {"NormalOp", "Undoing", "Redoing"}
      /\ currentStep \in Step \cup {NoStep} /\ counter \in Nat
  BY EmptySeq DEF Init
<1>4. /\ op \in OpKind \cup {"NoUndo", Idle}
      /\ popped \in Step \cup {NoStep} /\ todo \in Seq(Change)
      /\ writes \in 0..MaxWrites /\ clock \in Time
  BY UndoAssumption, EmptySeq DEF Init, Time
<1>5. Recording
  BY UndoAssumption DEF Init, Recording
<1> QED
  BY <1>1, <1>2, <1>3, <1>4, <1>5 DEF Types, TypeOK

LEMMA NextTypes == Types /\ [Next]_vars => Types'
<1> SUFFICES ASSUME Types, [Next]_vars PROVE Types'
  OBVIOUS
<1> USE UndoAssumption, NullAssumption DEF Types, Recording
<1>1. ASSUME NEW k \in Ops \ {"NoUndo", "Custom"}, BeginUndoable(k) PROVE Types'
  <2>1. k \in OpKind
    BY DEF OpKind
  <2>2. NewStep(k) \in Step
    BY <2>1, NewStepType
  <2> QED
    BY <1>1, <2>1, <2>2, EmptySeq DEF BeginUndoable, Start, BeginStep, TypeOK
<1>2. CASE BeginNoUndo
  BY <1>2, EmptySeq DEF BeginNoUndo, Start, DiscardSteps, TypeOK, OpKind
<1>3. ASSUME NEW d \in Db, NEW changes \in Seq(Change), Write(d, changes), writes < MaxWrites
      PROVE  Types'
  BY <1>3, SaveType DEF Write, TypeOK
<1>4. ASSUME NEW r \in Rows, NEW v \in Value, AddRow(r, v) PROVE Types'
  <2>1. OnRow("Added", r, v) \in Change
    BY DEF OnRow, Change, RowChange
  <2>2. [db EXCEPT !.row[r] = v] \in Db
    BY DEF TypeOK, Db
  <2>3. <<OnRow("Added", r, v)>> \in Seq(Change)
    BY <2>1
  <2>4. writes < MaxWrites /\ Write([db EXCEPT !.row[r] = v], <<OnRow("Added", r, v)>>)
    BY <1>4 DEF AddRow, Writing
  <2> QED
    BY <1>3, <2>2, <2>3, <2>4
<1>5. ASSUME NEW r \in Rows, NEW v \in Value, UpdateRow(r, v) PROVE Types'
  <2>1. OnRow("Updated", r, db.row[r]) \in Change
    BY <1>5 DEF OnRow, Change, RowChange, UpdateRow, TypeOK, Db
  <2>2. [db EXCEPT !.row[r] = v] \in Db
    BY DEF TypeOK, Db
  <2>3. <<OnRow("Updated", r, db.row[r])>> \in Seq(Change)
    BY <2>1
  <2>4. writes < MaxWrites /\ Write([db EXCEPT !.row[r] = v], <<OnRow("Updated", r, db.row[r])>>)
    BY <1>5 DEF UpdateRow, Writing
  <2> QED
    BY <1>3, <2>2, <2>3, <2>4
<1>6. ASSUME NEW r \in Rows, RemoveRow(r) PROVE Types'
  <2>1. [db EXCEPT !.row[r] = NoRow, !.graves = @ \cup ({r} \cap Graved)] \in Db
    BY DEF TypeOK, Db
  <2> QED
    BY <1>3, <1>6, <2>1, RemovalType DEF RemoveRow, Writing
<1>7. CASE CommitUndoable
  <2>1. PICK s \in Step : EndStep(s, op = "SkipUndo")
    BY <1>7, CommittedStep
  <2>2. db' \in Db
    BY <1>7 DEF CommitUndoable, TypeOK, Db
  <2>3. undoSteps' \in Seq(Step) /\ redoSteps' \in Seq(Step) /\ currentStep' = NoStep
    BY <2>1, EndStepType
  <2> QED
    BY <1>7, <2>2, <2>3, EmptySeq DEF CommitUndoable, Finish, TypeOK, OpKind
<1>8. CASE CommitNoUndo
  <2>1. db' \in Db
    BY <1>8 DEF CommitNoUndo, TypeOK, Db
  <2> QED
    BY <1>8, <2>1, EmptySeq DEF CommitNoUndo, Finish, TypeOK, OpKind
<1>9. CASE Fail
  BY <1>9, EmptySeq DEF Fail, Finish, DiscardSteps, TypeOK
<1>10. CASE BeginUndo
  <2>1. Head(undoSteps) \in Step /\ Tail(undoSteps) \in Seq(Step)
    BY <1>10, HeadTailProperties DEF BeginUndo, TypeOK
  <2>2. Head(undoSteps).kind \in OpKind /\ Head(undoSteps).changes \in Seq(Change)
    BY <2>1 DEF Step
  <2>3. NewStep(Head(undoSteps).kind) \in Step
    BY <2>2, NewStepType
  <2> QED
    BY <1>10, <2>1, <2>2, <2>3 DEF BeginUndo, Start, BeginStep, TypeOK
<1>11. CASE BeginRedo
  <2>1. Last(redoSteps) \in Step
    <3>1. Len(redoSteps) \in 1..Len(redoSteps)
      BY <1>11, EmptySeq DEF BeginRedo, TypeOK
    <3> QED
      BY <3>1, ElementOfSeq DEF Last, TypeOK
  <2>2. Front(redoSteps) \in Seq(Step)
    BY <1>11, FrontType DEF BeginRedo, TypeOK
  <2>3. Last(redoSteps).kind \in OpKind /\ Last(redoSteps).changes \in Seq(Change)
    BY <2>1 DEF Step
  <2>4. NewStep(Last(redoSteps).kind) \in Step
    BY <2>3, NewStepType
  <2> QED
    BY <1>11, <2>1, <2>2, <2>3, <2>4 DEF BeginRedo, Start, BeginStep, TypeOK
<1>12. CASE ReplayChange
  <2>1. Last(todo) \in Change
    <3>1. Len(todo) \in 1..Len(todo)
      BY <1>12, EmptySeq DEF ReplayChange, TypeOK
    <3> QED
      BY <3>1, ElementOfSeq DEF Last, TypeOK
  <2>2. Front(todo) \in Seq(Change)
    BY <1>12, FrontType DEF ReplayChange, TypeOK
  <2>3. Revert(db, Last(todo)) \in Db
    BY <2>1, RevertType DEF TypeOK
  <2>4. InverseOf(db, Last(todo)) \in Seq(Change)
    BY <1>12, <2>1, InverseOfType DEF ReplayChange, TypeOK
  <2> QED
    BY <1>12, <2>2, <2>3, <2>4, SaveType DEF ReplayChange, TypeOK
<1>13. CASE AddCustomStep
  <2>1. NewStep("Custom") \in Step
    BY NewStepType DEF OpKind
  <2>2. <<NewStep("Custom")>> \o Truncate(undoSteps) \in Seq(Step)
    BY <2>1, PushType DEF TypeOK
  <2> QED
    BY <1>13, <2>2, EmptySeq DEF AddCustomStep, TypeOK, dbVars, callVars
<1>14. ASSUME NEW i \in 1..UndoLimit, Merge(i) PROVE Types'
  <2>1. MergedChanges(i) \in Seq(Change)
    BY <1>14, MergedChangesType DEF Merge, TypeOK
  <2>2. undoSteps[i] \in Step
    BY <1>14, LenProperties, ElementOfSeq DEF Merge, TypeOK
  <2> DEFINE merged == [undoSteps[i] EXCEPT !.changes = MergedChanges(i)]
  <2>3. merged \in Step /\ undoSteps[i].counter \in Nat
    BY <2>1, <2>2 DEF Step
  <2>4. SubSeq(undoSteps, i + 1, Len(undoSteps)) \in Seq(Step)
    BY SuffixType DEF TypeOK
  <2>5. <<merged>> \o SubSeq(undoSteps, i + 1, Len(undoSteps)) \in Seq(Step)
    <3> HIDE DEF merged
    <3>1. <<merged>> \in Seq(Step)
      BY <2>3
    <3> QED
      BY <2>4, <3>1, ConcatProperties
  <2> QED
    BY <1>14, <2>3, <2>5 DEF Merge, TypeOK, dbVars, callVars
<1>15. ASSUME NEW r \in Rows, NEW v \in Value, ProxyWrite(r, v) PROVE Types'
  <2>1. db' \in Db
    BY <1>15 DEF ProxyWrite, TypeOK, Db
  <2> QED
    BY <1>15, <2>1, EmptySeq DEF ProxyWrite, DiscardSteps, TypeOK, callVars, OpKind
<1>16. CASE ProxyBegin
  <2>1. [db |-> db] \in Trx
    BY DEF Trx, TypeOK
  <2> QED
    BY <1>16, <2>1 DEF ProxyBegin, TypeOK, undoVars, callVars
<1>17. CASE ProxyCommit
  <2>1. db' \in Db
    BY <1>17 DEF ProxyCommit, TypeOK, Db
  <2> QED
    BY <1>17, <2>1 DEF ProxyCommit, TypeOK, undoVars, callVars
<1>18. CASE ProxyRollback
  <2>1. db' \in Db
    BY <1>18 DEF ProxyRollback, TypeOK, Trx
  <2> QED
    BY <1>18, <2>1 DEF ProxyRollback, TypeOK, undoVars, callVars
<1>19. CASE Discard
  BY <1>19, EmptySeq DEF Discard, DiscardSteps, TypeOK, dbVars, callVars, OpKind
<1>20. CASE Tick
  BY <1>20 DEF Tick, TypeOK, Time, dbVars, undoVars, callVars
<1>21. CASE UNCHANGED vars
  BY <1>21 DEF TypeOK, vars, dbVars, undoVars, callVars
<1> QED
  BY <1>1, <1>2, <1>4, <1>5, <1>6, <1>7, <1>8, <1>9, <1>10, <1>11, <1>12, <1>13, <1>14,
     <1>15, <1>16, <1>17, <1>18, <1>19, <1>20, <1>21 DEF Next

\* Spec keeps every variable in its type: in particular what undo saves for
\* redo, and what a merge joins, are changes that can be undone in their turn.
THEOREM TypeCorrect == Spec => []TypeOK
<1>1. Types => TypeOK
  BY DEF Types
<1> QED
  BY InitTypes, NextTypes, <1>1, PTL DEF Spec

-----------------------------------------------------------------------------
(* The queue of undo steps                                                 *)

Descending(steps) ==
    \A i, j \in DOMAIN steps : i < j => steps[i].counter > steps[j].counter

Below(steps, n) == \A i \in DOMAIN steps : steps[i].counter < n

\* The queue alone: in order, within the limit, and older than the step being
\* recorded, which carries the latest counter.
Queue ==
    /\ Descending(undoSteps)
    /\ Len(undoSteps) <= UndoLimit
    /\ currentStep = NoStep => Below(undoSteps, counter + 1)
    /\ currentStep # NoStep => currentStep.counter = counter /\ Below(undoSteps, counter)

Inv == Types /\ Queue

LEMMA InvImplies == Inv => CountersDescend /\ StepsBounded
<1> SUFFICES ASSUME Inv PROVE CountersDescend /\ StepsBounded
  OBVIOUS
<1>1. counter \in Nat /\ \A i \in DOMAIN undoSteps : undoSteps[i].counter \in Nat
  <2>1. \A i \in DOMAIN undoSteps : undoSteps[i] \in Step
    BY LenProperties, ElementOfSeq DEF Inv, Types, TypeOK
  <2> QED
    BY <2>1 DEF Step, Inv, Types, TypeOK
<1>2. \A i \in DOMAIN undoSteps : undoSteps[i].counter <= counter
  BY <1>1 DEF Inv, Queue, Below
<1>3. currentStep # NoStep => \A i \in DOMAIN undoSteps : undoSteps[i].counter < currentStep.counter
  BY DEF Inv, Queue, Below
<1> QED
  BY <1>2, <1>3 DEF Inv, Queue, Descending, CountersDescend, StepsBounded

LEMMA PushKeepsOrder ==
    ASSUME NEW steps \in Seq(Step), NEW s \in Step, Descending(steps), Below(steps, s.counter)
    PROVE  LET pushed == <<s>> \o Truncate(steps) IN
           Descending(pushed) /\ Below(pushed, s.counter + 1)
<1> DEFINE p == <<s>> \o Truncate(steps)
<1>1. /\ p \in Seq(Step) /\ Len(p) <= Len(steps) + 1 /\ p[1] = s
      /\ \A i \in 2..Len(p) : p[i] = steps[i - 1]
  BY PushType
<1>2. DOMAIN p = 1..Len(p) /\ DOMAIN steps = 1..Len(steps) /\ Len(p) \in Nat /\ Len(steps) \in Nat
  BY <1>1, LenProperties
<1>3. s.counter \in Nat /\ \A i \in DOMAIN steps : steps[i].counter \in Nat
  <2>1. \A i \in DOMAIN steps : steps[i] \in Step
    BY <1>2, ElementOfSeq
  <2> QED
    BY <2>1 DEF Step
<1> HIDE DEF p
<1>4. \A i \in 2..Len(p) : i - 1 \in DOMAIN steps /\ p[i].counter = steps[i - 1].counter
  BY <1>1, <1>2
<1>5. \A i \in 2..Len(p) : p[i].counter < s.counter
  BY <1>4 DEF Below
<1>6. Below(p, s.counter + 1)
  <2> SUFFICES ASSUME NEW i \in DOMAIN p PROVE p[i].counter < s.counter + 1
    BY DEF Below
  <2>1. CASE i = 1
    BY <2>1, <1>1, <1>3
  <2>2. CASE i \in 2..Len(p)
    BY <2>2, <1>3, <1>4, <1>5
  <2> QED
    BY <2>1, <2>2, <1>2
<1>7. Descending(p)
  <2> SUFFICES ASSUME NEW i \in DOMAIN p, NEW j \in DOMAIN p, i < j
               PROVE  p[i].counter > p[j].counter
    BY DEF Descending
  <2>1. j \in 2..Len(p)
    BY <1>2
  <2>2. CASE i = 1
    BY <2>1, <2>2, <1>1, <1>5, <1>4, <1>3
  <2>3. CASE i \in 2..Len(p)
    <3>1. i - 1 < j - 1
      BY <2>1, <2>3
    <3> QED
      BY <2>1, <2>3, <3>1, <1>4 DEF Descending
  <2> QED
    BY <2>2, <2>3, <1>2
<1> QED
  BY <1>6, <1>7 DEF p

\* A merged step that takes the place of the i newest keeps the order.
LEMMA MergeKeepsOrder ==
    ASSUME NEW steps \in Seq(Step), Descending(steps), NEW i \in DOMAIN steps,
           NEW m \in Step, m.counter = steps[i].counter
    PROVE  LET p == <<m>> \o SubSeq(steps, i + 1, Len(steps)) IN
           Descending(p) /\ Below(p, m.counter + 1) /\ Len(p) <= Len(steps) /\ Len(p) \in Nat
<1> DEFINE rest == SubSeq(steps, i + 1, Len(steps))
           p == <<m>> \o rest
<1>1. Len(steps) \in Nat /\ DOMAIN steps = 1..Len(steps) /\ i \in Nat /\ i >= 1 /\ i <= Len(steps)
  BY LenProperties
<1>2. /\ rest \in Seq(Step)
      /\ Len(rest) = IF i < Len(steps) THEN Len(steps) - i ELSE 0
      /\ \A k \in 1..(Len(steps) - i) : rest[k] = steps[i + k]
  BY <1>1, SuffixType
<1>3. <<m>> \in Seq(Step) /\ Len(<<m>>) = 1 /\ <<m>>[1] = m
  OBVIOUS
<1> HIDE DEF rest
<1>4. Len(rest) = Len(steps) - i
  BY <1>1, <1>2
<1>5. /\ p \in Seq(Step) /\ Len(p) = 1 + Len(rest)
      /\ \A k \in 1..(1 + Len(rest)) : p[k] = IF k <= 1 THEN <<m>>[k] ELSE rest[k - 1]
  BY <1>2, <1>3, ConcatProperties
<1> HIDE DEF p
<1>6. DOMAIN p = 1..Len(p) /\ Len(p) \in Nat /\ Len(p) <= Len(steps)
  <2>1. DOMAIN p = 1..Len(p) /\ Len(p) \in Nat
    BY <1>5, LenProperties
  <2> QED
    BY <1>1, <1>4, <1>5, <2>1
<1>7. \A k \in DOMAIN p : (i - 1) + k \in DOMAIN steps /\ p[k].counter = steps[(i - 1) + k].counter
  <2> TAKE k \in DOMAIN p
  <2>1. k \in Nat /\ k >= 1 /\ k <= 1 + (Len(steps) - i)
    BY <1>4, <1>5, <1>6
  <2>2. (i - 1) + k \in DOMAIN steps
    BY <1>1, <2>1
  <2>3. CASE k = 1
    <3>1. p[k] = m /\ (i - 1) + k = i
      BY <1>1, <1>3, <1>5, <1>6, <2>3
    <3> QED
      BY <2>2, <3>1
  <2>4. CASE k # 1
    <3>1. k - 1 \in 1..(Len(steps) - i) /\ i + (k - 1) = (i - 1) + k
      BY <1>1, <2>1, <2>4
    <3>2. p[k] = rest[k - 1]
      BY <1>5, <1>6, <2>1, <2>4
    <3>3. rest[k - 1] = steps[i + (k - 1)]
      BY <1>2, <3>1
    <3> QED
      BY <2>2, <3>1, <3>2, <3>3
  <2> QED
    BY <2>3, <2>4
<1>8. \A k \in DOMAIN steps : steps[k].counter \in Nat
  <2>1. \A k \in DOMAIN steps : steps[k] \in Step
    BY <1>1, ElementOfSeq
  <2> QED
    BY <2>1 DEF Step
<1>9. Descending(p)
  <2> SUFFICES ASSUME NEW k \in DOMAIN p, NEW l \in DOMAIN p, k < l
               PROVE  p[k].counter > p[l].counter
    BY DEF Descending
  <2>1. (i - 1) + k < (i - 1) + l
    BY <1>1, <1>6
  <2> QED
    BY <1>7, <2>1 DEF Descending
<1>10. Below(p, m.counter + 1)
  <2> SUFFICES ASSUME NEW k \in DOMAIN p PROVE p[k].counter < m.counter + 1
    BY DEF Below
  <2>1. CASE k = 1
    BY <2>1, <1>1, <1>7, <1>8
  <2>2. CASE k # 1
    <3>1. i < (i - 1) + k
      BY <2>2, <1>1, <1>6
    <3>2. steps[i].counter > steps[(i - 1) + k].counter
      BY <3>1, <1>7 DEF Descending
    <3> QED
      BY <3>2, <1>7, <1>8
  <2> QED
    BY <2>1, <2>2
<1> QED
  BY <1>6, <1>9, <1>10 DEF p, rest

\* What drops every step keeps the queue in order.
LEMMA DiscardKeepsQueue == DiscardSteps => Queue'
BY UndoAssumption DEF DiscardSteps, Queue, Descending, Below

\* A step that begins takes a counter above the queue.
LEMMA BeginKeepsQueue ==
    ASSUME Inv, currentStep = NoStep, NEW k \in OpKind, NEW undo \in Seq(Step),
           Descending(undo), Len(undo) <= UndoLimit, Below(undo, counter + 1),
           undoSteps' = undo, currentStep' = NewStep(k), counter' = counter + 1
    PROVE  Queue'
<1>1. NewStep(k) \in Step /\ NewStep(k).counter = counter + 1
  BY NewStepType DEF Inv, Types
<1> QED
  BY <1>1, NullAssumption DEF Queue, Below, Descending

LEMMA NextQueue == Inv /\ [Next]_vars => Queue'
<1> SUFFICES ASSUME Inv, [Next]_vars PROVE Queue'
  OBVIOUS
<1> USE DEF Inv, Types
<1>1. /\ counter \in Nat /\ undoSteps \in Seq(Step) /\ Len(undoSteps) \in Nat
      /\ DOMAIN undoSteps = 1..Len(undoSteps)
      /\ op = Idle => currentStep = NoStep
      /\ \A i \in DOMAIN undoSteps : undoSteps[i] \in Step /\ undoSteps[i].counter \in Nat
  <2>1. undoSteps \in Seq(Step)
    BY DEF TypeOK
  <2>2. \A i \in DOMAIN undoSteps : undoSteps[i] \in Step
    BY <2>1, LenProperties, ElementOfSeq
  <2> QED
    BY <2>1, <2>2, LenProperties, UndoAssumption DEF TypeOK, Recording, Step
<1>2. ASSUME UNCHANGED <<undoSteps, counter, currentStep>> PROVE Queue'
  BY <1>2 DEF Queue, Descending, Below
<1>3. ASSUME NEW changes \in Seq(Change), SaveAll(changes), UNCHANGED <<undoSteps, counter>>
      PROVE  Queue'
  BY <1>3, SaveType DEF Queue, Descending, Below
<1>4. ASSUME NEW k \in Ops \ {"NoUndo", "Custom"}, BeginUndoable(k) PROVE Queue'
  <2>1. k \in OpKind
    BY UndoAssumption
  <2> QED
    BY <1>1, <1>4, <2>1, BeginKeepsQueue DEF BeginUndoable, BeginStep, Queue
<1>5. CASE BeginNoUndo
  BY <1>5, DiscardKeepsQueue DEF BeginNoUndo
<1>6. ASSUME NEW r \in Rows, NEW v \in Value, AddRow(r, v) PROVE Queue'
  <2>1. OnRow("Added", r, v) \in Change
    BY DEF OnRow, Change, RowChange
  <2>2. <<OnRow("Added", r, v)>> \in Seq(Change)
    BY <2>1
  <2> QED
    BY <1>3, <1>6, <2>2 DEF AddRow, Write
<1>7. ASSUME NEW r \in Rows, NEW v \in Value, UpdateRow(r, v) PROVE Queue'
  <2>1. OnRow("Updated", r, db.row[r]) \in Change
    BY <1>7 DEF OnRow, Change, RowChange, UpdateRow, TypeOK, Db
  <2>2. <<OnRow("Updated", r, db.row[r])>> \in Seq(Change)
    BY <2>1
  <2> QED
    BY <1>3, <1>7, <2>2 DEF UpdateRow, Write
<1>8. ASSUME NEW r \in Rows, RemoveRow(r) PROVE Queue'
  <2>1. PICK changes \in Seq(Change) : SaveAll(changes) /\ UNCHANGED <<undoSteps, counter>>
    BY <1>8, RemovalType DEF RemoveRow, Write
  <2> QED
    BY <1>3, <2>1
<1>9. CASE CommitUndoable
  <2>1. PICK s \in Step : EndStep(s, op = "SkipUndo") /\ s.counter = currentStep.counter
    BY <1>9, CommittedStep DEF Inv
  <2>2. currentStep # NoStep
    BY <1>9 DEF CommitUndoable, Recording
  <2>3. s.counter = counter /\ Below(undoSteps, counter) /\ Descending(undoSteps)
    BY <2>1, <2>2 DEF Queue
  <2>4. counter' = counter /\ currentStep' = NoStep
    BY <1>9, <2>1 DEF CommitUndoable, EndStep
  <2>5. CASE undoSteps' = undoSteps
    <3>1. Below(undoSteps, counter + 1)
      BY <1>1, <2>3 DEF Below
    <3> QED
      BY <2>4, <2>5, <3>1 DEF Queue, Below, Descending
  <2>6. CASE undoSteps' = <<s>> \o Truncate(undoSteps)
    <3> DEFINE p == <<s>> \o Truncate(undoSteps)
    <3>1. Descending(p) /\ Below(p, counter + 1)
      BY <1>1, <2>1, <2>3, PushKeepsOrder
    <3>2. Len(p) <= UndoLimit
      BY <1>1, <2>1, PushType
    <3> HIDE DEF p
    <3>3. undoSteps' = p
      BY <2>6 DEF p
    <3> QED
      BY <2>4, <3>1, <3>2, <3>3 DEF Queue, Below, Descending
  <2> QED
    BY <2>1, <2>5, <2>6 DEF EndStep
<1>10. CASE CommitNoUndo
  BY <1>2, <1>10 DEF CommitNoUndo
<1>11. CASE Fail
  BY <1>11, DiscardKeepsQueue DEF Fail
<1>12. CASE BeginUndo
  <2> DEFINE rest == Tail(undoSteps)
  <2>1. /\ rest \in Seq(Step) /\ Len(rest) = Len(undoSteps) - 1 /\ DOMAIN rest = 1..Len(rest)
        /\ \A i \in 1..Len(rest) : rest[i] = undoSteps[i + 1]
    BY <1>1, <1>12, HeadTailProperties, LenProperties DEF BeginUndo
  <2>2. Head(undoSteps).kind \in OpKind
    <3>1. Head(undoSteps) \in Step
      BY <1>1, <1>12, HeadTailProperties DEF BeginUndo
    <3> QED
      BY <3>1 DEF Step
  <2> HIDE DEF rest
  <2>3. \A i \in DOMAIN rest : i + 1 \in DOMAIN undoSteps
    BY <1>1, <2>1
  <2>4. Below(rest, counter + 1)
    BY <1>1, <1>12, <2>1, <2>3 DEF Below, Queue, BeginUndo
  <2>5. Descending(rest)
    <3> SUFFICES ASSUME NEW i \in DOMAIN rest, NEW j \in DOMAIN rest, i < j
                 PROVE  rest[i].counter > rest[j].counter
      BY DEF Descending
    <3>1. i + 1 < j + 1
      BY <2>1
    <3> QED
      BY <2>1, <2>3, <3>1 DEF Queue, Descending
  <2>6. Len(rest) <= UndoLimit
    BY <1>1, <2>1, UndoAssumption DEF Queue
  <2>7. /\ undoSteps' = rest /\ currentStep' = NewStep(Head(undoSteps).kind)
        /\ counter' = counter + 1 /\ currentStep = NoStep
    BY <1>1, <1>12 DEF BeginUndo, BeginStep, rest
  <2> QED
    BY <2>1, <2>2, <2>4, <2>5, <2>6, <2>7, BeginKeepsQueue
<1>13. CASE BeginRedo
  <2>1. Last(redoSteps).kind \in OpKind
    <3>1. Len(redoSteps) \in 1..Len(redoSteps)
      BY <1>13, EmptySeq DEF BeginRedo, TypeOK
    <3>2. Last(redoSteps) \in Step
      BY <3>1, ElementOfSeq DEF Last, TypeOK
    <3> QED
      BY <3>2 DEF Step
  <2> QED
    BY <1>1, <1>13, <2>1, BeginKeepsQueue DEF BeginRedo, BeginStep, Queue
<1>14. CASE ReplayChange
  <2>1. Last(todo) \in Change
    <3>1. Len(todo) \in 1..Len(todo)
      BY <1>14, EmptySeq DEF ReplayChange, TypeOK
    <3> QED
      BY <3>1, ElementOfSeq DEF Last, TypeOK
  <2>2. InverseOf(db, Last(todo)) \in Seq(Change)
    BY <1>14, <2>1, InverseOfType DEF ReplayChange, TypeOK
  <2> QED
    BY <1>3, <1>14, <2>2 DEF ReplayChange
<1>15. CASE AddCustomStep
  <2> DEFINE s == NewStep("Custom")
             p == <<s>> \o Truncate(undoSteps)
  <2>1. s \in Step /\ s.counter = counter + 1
    BY NewStepType DEF OpKind
  <2>2. Descending(undoSteps) /\ Below(undoSteps, s.counter)
    BY <1>1, <1>15, <2>1 DEF Queue, AddCustomStep
  <2> HIDE DEF s
  <2>3. Descending(p) /\ Below(p, (counter + 1) + 1) /\ Len(p) <= UndoLimit
    BY <1>1, <2>1, <2>2, PushKeepsOrder, PushType
  <2>4. undoSteps' = p /\ counter' = counter + 1 /\ currentStep' = NoStep
    BY <1>1, <1>15 DEF AddCustomStep, s
  <2> HIDE DEF p
  <2> QED
    BY <2>3, <2>4 DEF Queue, Below, Descending
<1>16. ASSUME NEW i \in 1..UndoLimit, Merge(i) PROVE Queue'
  <2> DEFINE merged == [undoSteps[i] EXCEPT !.changes = MergedChanges(i)]
             p == <<merged>> \o SubSeq(undoSteps, i + 1, Len(undoSteps))
  <2>1. i \in DOMAIN undoSteps /\ undoSteps[i] \in Step
    BY <1>1, <1>16 DEF Merge
  <2>2. merged \in Step /\ merged.counter = undoSteps[i].counter
    <3>1. MergedChanges(i) \in Seq(Change)
      BY <1>1, <2>1, MergedChangesType
    <3> QED
      BY <2>1, <3>1 DEF Step
  <2> HIDE DEF merged
  <2>3. Descending(p) /\ Below(p, merged.counter + 1) /\ Len(p) <= Len(undoSteps) /\ Len(p) \in Nat
    BY <1>1, <2>1, <2>2, MergeKeepsOrder DEF Queue
  <2> HIDE DEF p
  <2>4. undoSteps' = p /\ counter' = merged.counter /\ currentStep' = NoStep
    BY <1>1, <1>16, <2>2 DEF Merge, p, merged
  <2>5. Len(p) <= UndoLimit
    BY <1>1, <2>3, UndoAssumption DEF Queue
  <2> QED
    BY <2>3, <2>4, <2>5 DEF Queue, Below, Descending
<1>17. ASSUME NEW r \in Rows, NEW v \in Value, ProxyWrite(r, v) PROVE Queue'
  BY <1>17, DiscardKeepsQueue DEF ProxyWrite
<1>18. CASE ProxyBegin \/ ProxyCommit \/ ProxyRollback \/ Tick
  BY <1>2, <1>18 DEF ProxyBegin, ProxyCommit, ProxyRollback, Tick, undoVars
<1>19. CASE Discard
  BY <1>19, DiscardKeepsQueue DEF Discard
<1>20. CASE UNCHANGED vars
  BY <1>2, <1>20 DEF vars, undoVars
<1> QED
  BY <1>4, <1>5, <1>6, <1>7, <1>8, <1>9, <1>10, <1>11, <1>12, <1>13, <1>14, <1>15, <1>16,
     <1>17, <1>18, <1>19, <1>20 DEF Next

LEMMA Invariance == Spec => []Inv
<1>1. Init => Queue
  BY UndoAssumption DEF Init, Queue, Descending, Below
<1>2. Init => Inv
  BY <1>1, InitTypes DEF Inv
<1>3. Inv /\ [Next]_vars => Inv'
  BY NextTypes, NextQueue DEF Inv
<1> QED
  BY <1>2, <1>3, PTL DEF Spec

\* The counters of the undo queue descend strictly, through merges that set the
\* counter back, redos and discards: the target of a merge is never ambiguous.
THEOREM CountersDescendAlways == Spec => []CountersDescend
<1>1. Inv => CountersDescend
  BY InvImplies
<1> QED
  BY Invariance, <1>1, PTL

\* UNDO_LIMIT holds for every way a step can reach the queue, and the step being
\* recorded is newer than all of it.
THEOREM StepsBoundedAlways == Spec => []StepsBounded
<1>1. Inv => StepsBounded
  BY InvImplies
<1> QED
  BY Invariance, <1>1, PTL

-----------------------------------------------------------------------------
(* Recorded changes and the states they lead between                       *)

\* The rows that only recorded operations write
Watched == IF "SkipUndo" \in Ops THEN Graved ELSE Rows
ModKept == "SkipUndo" \notin Ops /\ ProxyOutcomes = {}

Alike(d, e) ==
    /\ \A r \in Watched : d.row[r] = e.row[r]
    /\ d.graves = e.graves
    /\ ModKept => d.mod = e.mod

Covers(d, e) == \A r \in Rows : d.row[r] # NoRow => e.row[r] # NoRow

\* e can take the place of d, the state that was there when the change was
\* recorded: operations outside the undo queue add rows and never take them away.
Near(dir, d, e) ==
    /\ Alike(d, e)
    /\ dir = "undo" => Covers(d, e)
    /\ dir = "redo" => Covers(e, d)

\* e holds what change c left behind.
Guard(dir, c, e) ==
    /\ c.what = "Added" /\ c.row \in Watched => e.row[c.row] = c.val
    /\ c.what = "Updated" /\ (c.row \in Watched \/ dir = "undo") => e.row[c.row] # NoRow
    /\ c.what = "Removed" /\ (c.row \in Watched \/ dir = "redo") => e.row[c.row] = NoRow
    /\ c.what = "GraveAdded" => c.row \in e.graves
    /\ c.what = "GraveRemoved" => c.row \notin e.graves

Fits(dir, d, c, e) == Near(dir, d, Revert(e, c)) /\ Guard(dir, c, e)

\* p is a walk along changes cs, from a state near a to one near b.
Walk(dir, a, cs, b, p) ==
    /\ p \in [0..Len(cs) -> Db]
    /\ Near(dir, a, p[0]) /\ Near(dir, p[Len(cs)], b)
    /\ \A i \in 1..Len(cs) : Fits(dir, p[i - 1], cs[i], p[i])

\* Undoing changes cs, the last one first, leads from b to a.
Leads(dir, a, cs, b) == \E p : Walk(dir, a, cs, b, p)

LEMMA WatchedRows == Watched \subseteq Rows /\ Graved \subseteq Watched /\ Graved \subseteq Rows
BY DEF Watched, Graved, Rows

LEMMA NearReflexive == ASSUME NEW dir, NEW d PROVE Near(dir, d, d)
BY DEF Near, Alike, Covers

LEMMA NearTransitive ==
    ASSUME NEW dir, NEW d, NEW e, NEW f, Near(dir, d, e), Near(dir, e, f)
    PROVE  Near(dir, d, f)
BY DEF Near, Alike, Covers

\* Undoing a change keeps states near each other.
LEMMA RevertNear ==
    ASSUME NEW dir, NEW d \in Db, NEW e \in Db, NEW c \in Change, Near(dir, d, e)
    PROVE  Near(dir, Revert(d, c), Revert(e, c))
<1>1. CASE c \in RowChange
  <2>1. PICK w \in Value \cup {NoRow} :
           /\ Revert(d, c) = [d EXCEPT !.row[c.row] = w]
           /\ Revert(e, c) = [e EXCEPT !.row[c.row] = w]
    BY <1>1 DEF RowChange, Revert
  <2>2. c.row \in Rows
    BY <1>1 DEF RowChange
  <2>3. /\ \A r \in Rows : Revert(d, c).row[r] = IF r = c.row THEN w ELSE d.row[r]
        /\ \A r \in Rows : Revert(e, c).row[r] = IF r = c.row THEN w ELSE e.row[r]
        /\ Revert(d, c).graves = d.graves /\ Revert(e, c).graves = e.graves
        /\ Revert(d, c).mod = d.mod /\ Revert(e, c).mod = e.mod
    BY <2>1, <2>2 DEF Db
  <2> QED
    BY <2>3, WatchedRows DEF Near, Alike, Covers
<1>2. CASE c \in GraveChange
  <2>1. /\ Revert(d, c).row = d.row /\ Revert(e, c).row = e.row
        /\ Revert(d, c).mod = d.mod /\ Revert(e, c).mod = e.mod
        /\ d.graves = e.graves => Revert(d, c).graves = Revert(e, c).graves
    BY <1>2 DEF GraveChange, Revert, Db
  <2> QED
    BY <2>1 DEF Near, Alike, Covers
<1>3. CASE c \in ModChange
  <2>1. /\ Revert(d, c).row = d.row /\ Revert(e, c).row = e.row
        /\ Revert(d, c).mod = c.mod /\ Revert(e, c).mod = c.mod
        /\ Revert(d, c).graves = d.graves /\ Revert(e, c).graves = e.graves
    BY <1>3 DEF ModChange, Revert, Db
  <2> QED
    BY <2>1 DEF Near, Alike, Covers
<1> QED
  BY <1>1, <1>2, <1>3 DEF Change

LEMMA GuardNear ==
    ASSUME NEW dir, NEW d \in Db, NEW e \in Db, NEW c \in Change, Near(dir, d, e), Guard(dir, c, d)
    PROVE  Guard(dir, c, e)
<1>1. c.what \in {"Added", "Updated", "Removed"} => c.row \in Rows
  BY DEF Change, RowChange, GraveChange, ModChange
<1> QED
  BY <1>1, WatchedRows DEF Near, Alike, Covers, Guard

LEMMA FitsNear ==
    ASSUME NEW dir, NEW a \in Db, NEW d \in Db, NEW c \in Change, NEW e \in Db, NEW b \in Db,
           Near(dir, a, d), Fits(dir, d, c, e), Near(dir, e, b)
    PROVE  Fits(dir, a, c, b)
<1>1. Guard(dir, c, b)
  BY GuardNear DEF Fits
<1>2. Near(dir, d, Revert(e, c)) /\ Near(dir, Revert(e, c), Revert(b, c))
  BY RevertNear DEF Fits
<1>3. Near(dir, a, Revert(b, c))
  BY <1>2, NearTransitive
<1> QED
  BY <1>1, <1>3 DEF Fits

-----------------------------------------------------------------------------
(* Walks                                                                   *)

LEMMA LeadsEmpty ==
    ASSUME NEW dir, NEW a \in Db, NEW b \in Db, Near(dir, a, b)
    PROVE  Leads(dir, a, <<>>, b)
<1> DEFINE p == [i \in 0..0 |-> b]
<1>1. p \in [0..0 -> Db] /\ p[0] = b /\ Len(<<>>) = 0
  OBVIOUS
<1>2. Near(dir, b, b)
  BY NearReflexive
<1> HIDE DEF p
<1>3. Walk(dir, a, <<>>, b, p)
  BY <1>1, <1>2 DEF Walk
<1> QED
  BY <1>3 DEF Leads

LEMMA LeadsNone ==
    ASSUME NEW dir, NEW a, NEW b, Leads(dir, a, <<>>, b)
    PROVE  Near(dir, a, b)
<1>1. PICK p : Walk(dir, a, <<>>, b, p)
  BY DEF Leads
<1>2. Len(<<>>) = 0
  OBVIOUS
<1>3. Near(dir, a, p[0]) /\ Near(dir, p[0], b)
  BY <1>1, <1>2 DEF Walk
<1> QED
  BY <1>3, NearTransitive

LEMMA LeadsOne ==
    ASSUME NEW dir, NEW a \in Db, NEW b \in Db, NEW c \in Change, Fits(dir, a, c, b)
    PROVE  Leads(dir, a, <<c>>, b)
<1> DEFINE p == [i \in 0..1 |-> IF i = 0 THEN a ELSE b]
<1>1. p \in [0..1 -> Db] /\ p[0] = a /\ p[1] = b /\ Len(<<c>>) = 1 /\ <<c>>[1] = c
  OBVIOUS
<1>2. Near(dir, a, a) /\ Near(dir, b, b)
  BY NearReflexive
<1> HIDE DEF p
<1>3. \A i \in 1..Len(<<c>>) : Fits(dir, p[i - 1], <<c>>[i], p[i])
  <2> TAKE i \in 1..Len(<<c>>)
  <2>1. i = 1 /\ i - 1 = 0
    BY <1>1
  <2> QED
    BY <1>1, <2>1
<1>4. Walk(dir, a, <<c>>, b, p)
  BY <1>1, <1>2, <1>3 DEF Walk
<1> QED
  BY <1>4 DEF Leads

\* The ends of a walk may be moved to states near them.
LEMMA LeadsNear ==
    ASSUME NEW dir, NEW a, NEW d, NEW cs, NEW e, NEW b,
           Near(dir, a, d), Leads(dir, d, cs, e), Near(dir, e, b)
    PROVE  Leads(dir, a, cs, b)
<1>1. PICK p : Walk(dir, d, cs, e, p)
  BY DEF Leads
<1>2. Near(dir, a, p[0]) /\ Near(dir, p[Len(cs)], b)
  BY <1>1, NearTransitive DEF Walk
<1>3. Walk(dir, a, cs, b, p)
  BY <1>1, <1>2 DEF Walk
<1> QED
  BY <1>3 DEF Leads

\* Two walks that meet
LEMMA LeadsConcat ==
    ASSUME NEW dir, NEW a, NEW cs \in Seq(Change), NEW b, NEW ds \in Seq(Change), NEW e \in Db,
           Leads(dir, a, cs, b), Leads(dir, b, ds, e)
    PROVE  Leads(dir, a, cs \o ds, e)
<1>1. PICK p : Walk(dir, a, cs, b, p)
  BY DEF Leads
<1>2. PICK q : Walk(dir, b, ds, e, q)
  BY DEF Leads
<1> DEFINE m == Len(cs)
           n == Len(ds)
           w == [i \in 0..(m + n) |-> IF i <= m THEN p[i] ELSE q[i - m]]
<1>3. /\ m \in Nat /\ n \in Nat /\ Len(cs \o ds) = m + n /\ cs \o ds \in Seq(Change)
      /\ \A i \in 1..(m + n) : (cs \o ds)[i] = IF i <= m THEN cs[i] ELSE ds[i - m]
  BY LenProperties, ConcatProperties
<1>4. p \in [0..m -> Db] /\ q \in [0..n -> Db]
  BY <1>1, <1>2 DEF Walk
<1>5. Near(dir, p[m], q[0])
  BY <1>1, <1>2, NearTransitive DEF Walk
<1> HIDE DEF m, n
<1>6. w \in [0..(m + n) -> Db]
  <2> SUFFICES ASSUME NEW i \in 0..(m + n) PROVE w[i] \in Db
    OBVIOUS
  <2>1. i <= m => i \in 0..m
    BY <1>3
  <2>2. ~(i <= m) => i - m \in 0..n
    BY <1>3
  <2> QED
    BY <1>4, <2>1, <2>2
<1>7. w[0] = p[0] /\ Near(dir, a, w[0])
  <2>1. 0 \in 0..(m + n) /\ 0 <= m
    BY <1>3
  <2> QED
    BY <1>1, <2>1 DEF Walk
<1>8. Near(dir, w[m + n], e)
  <2>1. m + n \in 0..(m + n)
    BY <1>3
  <2>2. CASE n = 0
    <3>1. w[m + n] = p[m] /\ Near(dir, q[0], e)
      BY <1>2, <1>3, <2>1, <2>2 DEF Walk, n
    <3> QED
      BY <1>5, <3>1, NearTransitive
  <2>3. CASE n # 0
    <3>1. ~(m + n <= m) /\ (m + n) - m = n
      BY <1>3, <2>3
    <3>2. w[m + n] = q[n]
      BY <2>1, <3>1
    <3> QED
      BY <1>2, <3>2 DEF Walk, n
  <2> QED
    BY <2>2, <2>3
<1>9. ASSUME NEW i \in 1..(m + n) PROVE Fits(dir, w[i - 1], (cs \o ds)[i], w[i])
  <2>1. i \in 0..(m + n) /\ i - 1 \in 0..(m + n) /\ i \in Int
    BY <1>3
  <2>2. CASE i <= m
    <3>1. i \in 1..m /\ i - 1 <= m
      BY <1>3, <2>2
    <3>2. w[i - 1] = p[i - 1] /\ w[i] = p[i] /\ (cs \o ds)[i] = cs[i]
      BY <1>3, <2>1, <2>2, <3>1
    <3> QED
      BY <1>1, <3>1, <3>2 DEF Walk, m
  <2>3. CASE i = m + 1
    <3>1. i - 1 <= m /\ ~(i <= m) /\ i - 1 = m /\ i - m = 1 /\ 1 \in 1..n /\ 1 - 1 = 0
      BY <1>3, <2>3
    <3>2. w[i - 1] = p[m] /\ w[i] = q[1] /\ (cs \o ds)[i] = ds[1]
      BY <1>3, <2>1, <3>1
    <3>3. Fits(dir, q[0], ds[1], q[1])
      BY <1>2, <3>1 DEF Walk, n
    <3>4. p[m] \in Db /\ q[0] \in Db /\ q[1] \in Db /\ ds[1] \in Change
      <4>1. m \in 0..m /\ 0 \in 0..n /\ 1 \in 0..n
        BY <1>3, <3>1
      <4>2. ds[1] \in Change
        BY <3>1, ElementOfSeq DEF n
      <4> QED
        BY <1>4, <4>1, <4>2
    <3>5. Near(dir, q[1], q[1])
      BY NearReflexive
    <3>6. Fits(dir, p[m], ds[1], q[1])
      BY <1>5, <3>3, <3>4, <3>5, FitsNear
    <3> QED
      BY <3>2, <3>6
  <2>4. CASE i > m + 1
    <3>1. ~(i <= m) /\ ~(i - 1 <= m) /\ i - m \in 1..n /\ (i - 1) - m = (i - m) - 1
      BY <1>3, <2>1, <2>4
    <3>2. w[i - 1] = q[(i - m) - 1] /\ w[i] = q[i - m] /\ (cs \o ds)[i] = ds[i - m]
      BY <1>3, <2>1, <3>1
    <3> QED
      BY <1>2, <3>1, <3>2 DEF Walk, n
  <2> QED
    BY <1>3, <2>2, <2>3, <2>4
<1> HIDE DEF w
<1>10. Walk(dir, a, cs \o ds, e, w)
  BY <1>3, <1>6, <1>7, <1>8, <1>9 DEF Walk
<1> QED
  BY <1>10 DEF Leads

\* The last change of a walk can be undone, and the rest leads on from there.
LEMMA LeadsFront ==
    ASSUME NEW dir, NEW a, NEW cs \in Seq(Change), cs # <<>>, NEW b \in Db, Leads(dir, a, cs, b)
    PROVE  /\ Last(cs) \in Change /\ Front(cs) \in Seq(Change)
           /\ Guard(dir, Last(cs), b)
           /\ Leads(dir, a, Front(cs), Revert(b, Last(cs)))
<1>1. PICK p : Walk(dir, a, cs, b, p)
  BY DEF Leads
<1> DEFINE n == Len(cs)
           q == [i \in 0..(n - 1) |-> p[i]]
<1>2. n \in Nat /\ n # 0 /\ n \in 1..n
  BY LenProperties, EmptySeq
<1>3. Last(cs) = cs[n] /\ cs[n] \in Change
  BY <1>2, ElementOfSeq DEF Last
<1>4. /\ Front(cs) \in Seq(Change) /\ Len(Front(cs)) = n - 1
      /\ \A i \in 1..(n - 1) : Front(cs)[i] = cs[i]
  <2>1. \A i \in 1..(n - 1) : cs[i] \in Change
    BY <1>2, ElementOfSeq
  <2>2. n - 1 \in Nat /\ 1 <= n - 1 + 1
    BY <1>2
  <2>3. /\ SubSeq(cs, 1, n - 1) \in Seq(Change)
        /\ Len(SubSeq(cs, 1, n - 1)) = IF 1 <= n - 1 THEN (n - 1) - 1 + 1 ELSE 0
        /\ \A i \in 1..((n - 1) - 1 + 1) : SubSeq(cs, 1, n - 1)[i] = cs[1 + i - 1]
    BY <2>1, <2>2, SubSeqProperties
  <2>4. \A i \in 1..(n - 1) : i \in 1..((n - 1) - 1 + 1) /\ 1 + i - 1 = i
    BY <1>2
  <2>5. Len(SubSeq(cs, 1, n - 1)) = n - 1
    <3>1. \A k \in Nat : k # 0 => (IF 1 <= k - 1 THEN (k - 1) - 1 + 1 ELSE 0) = k - 1
      OBVIOUS
    <3>2. (IF 1 <= n - 1 THEN (n - 1) - 1 + 1 ELSE 0) = n - 1
      BY <1>2, <3>1
    <3> QED
      BY <2>3, <3>2
  <2>6. \A i \in 1..(n - 1) : SubSeq(cs, 1, n - 1)[i] = cs[i]
    <3> TAKE i \in 1..(n - 1)
    <3>1. i \in 1..((n - 1) - 1 + 1) /\ 1 + i - 1 = i
      BY <2>4
    <3> QED
      BY <2>3, <3>1
  <2>7. Front(cs) = SubSeq(cs, 1, n - 1)
    BY DEF Front
  <2> QED
    BY <2>3, <2>5, <2>6, <2>7
<1>5. Fits(dir, p[n - 1], cs[n], p[n]) /\ Near(dir, p[n], b) /\ p \in [0..n -> Db]
  BY <1>1, <1>2 DEF Walk
<1> HIDE DEF n
<1>6. Fits(dir, p[n - 1], cs[n], b)
  <2>1. p[n - 1] \in Db /\ p[n] \in Db /\ Near(dir, p[n - 1], p[n - 1])
    BY <1>2, <1>5, NearReflexive
  <2> QED
    BY <1>3, <1>5, <2>1, FitsNear
<1>7. q \in [0..(n - 1) -> Db] /\ \A i \in 0..(n - 1) : q[i] = p[i]
  BY <1>2, <1>5
<1>8. 0 \in 0..(n - 1) /\ n - 1 \in 0..(n - 1)
  BY <1>2
<1>9. \A i \in 1..(n - 1) : Fits(dir, q[i - 1], Front(cs)[i], q[i])
  <2> TAKE i \in 1..(n - 1)
  <2>1. i \in 1..n /\ i - 1 \in 0..(n - 1) /\ i \in 0..(n - 1)
    BY <1>2
  <2>2. Fits(dir, p[i - 1], cs[i], p[i])
    BY <1>1, <2>1 DEF Walk, n
  <2> QED
    BY <1>4, <1>7, <2>1, <2>2
<1> HIDE DEF q
<1>10. Near(dir, a, q[0]) /\ Near(dir, q[n - 1], Revert(b, cs[n]))
  BY <1>1, <1>6, <1>7, <1>8 DEF Walk, Fits
<1>11. Walk(dir, a, Front(cs), Revert(b, cs[n]), q)
  BY <1>4, <1>7, <1>9, <1>10 DEF Walk
<1>12. Leads(dir, a, Front(cs), Revert(b, cs[n]))
  BY <1>11 DEF Leads
<1> QED
  BY <1>3, <1>4, <1>6, <1>12 DEF Fits

-----------------------------------------------------------------------------
(* Undoing a whole step, and one step after the other                      *)

\* What RevertStep takes its value from
ReplaysTo(f, d, cs, m) ==
    f = [i \in 0..m |-> IF i = 0 THEN d ELSE Revert(f[i - 1], cs[Len(cs) + 1 - i])]

LEMMA ReplayExists == ASSUME NEW d, NEW cs PROVE \A n \in Nat : \E f : ReplaysTo(f, d, cs, n)
<1> DEFINE P == {n \in Nat : \E f : ReplaysTo(f, d, cs, n)}
<1>1. 0 \in P
  <2>1. ReplaysTo([k \in 0..0 |-> d], d, cs, 0)
    BY DEF ReplaysTo
  <2> QED
    BY <2>1
<1>2. ASSUME NEW n \in P PROVE n + 1 \in P
  <2>1. PICK f : ReplaysTo(f, d, cs, n)
    OBVIOUS
  <2> DEFINE g == [k \in 0..(n + 1) |-> IF k = n + 1 THEN Revert(f[n], cs[Len(cs) + 1 - k]) ELSE f[k]]
  <2>2. ASSUME NEW k \in 0..(n + 1)
        PROVE  g[k] = IF k = 0 THEN d ELSE Revert(g[k - 1], cs[Len(cs) + 1 - k])
    <3>1. CASE k = n + 1
      <4>1. k # 0 /\ k - 1 = n /\ g[n] = f[n]
        BY <3>1
      <4> QED
        BY <3>1, <4>1
    <3>2. CASE k # n + 1
      <4>1. k \in 0..n
        BY <3>2
      <4>2. g[k] = f[k] /\ (k # 0 => g[k - 1] = f[k - 1])
        BY <3>2, <4>1
      <4>3. f[k] = IF k = 0 THEN d ELSE Revert(f[k - 1], cs[Len(cs) + 1 - k])
        BY <2>1, <4>1 DEF ReplaysTo
      <4> QED
        BY <4>2, <4>3
    <3> QED
      BY <3>1, <3>2
  <2>3. ReplaysTo(g, d, cs, n + 1)
    BY <2>2 DEF ReplaysTo
  <2> HIDE DEF g
  <2>4. \E h : ReplaysTo(h, d, cs, n + 1)
    BY <2>3
  <2> QED
    BY <2>4
<1> HIDE DEF P
<1>3. P = Nat
  <2>1. P \in SUBSET Nat
    BY DEF P
  <2> QED
    BY <1>1, <1>2, <2>1, Induction
<1> QED
  BY <1>3 DEF P

\* RevertStep follows the walk of the step's changes.
LEMMA RevertStepLeads ==
    ASSUME NEW dir, NEW a, NEW s, s.changes \in Seq(Change), NEW b \in Db,
           Leads(dir, a, s.changes, b)
    PROVE  RevertStep(b, s) \in Db /\ Near(dir, a, RevertStep(b, s))
<1> DEFINE cs == s.changes
           n == Len(cs)
           f == CHOOSE g : ReplaysTo(g, b, cs, n)
<1>1. n \in Nat
  BY LenProperties
<1>2. ReplaysTo(f, b, cs, n)
  <2>1. \E g : ReplaysTo(g, b, cs, n)
    BY <1>1, ReplayExists
  <2> QED
    BY <2>1
<1>3. RevertStep(b, s) = f[n]
  BY DEF RevertStep, ReplaysTo
<1>4. PICK p : Walk(dir, a, cs, b, p)
  BY DEF Leads
<1> HIDE DEF f
<1> DEFINE P == {i \in Nat : i <= n => f[i] \in Db /\ Near(dir, p[n - i], f[i])}
<1>5. 0 \in P
  <2>1. 0 \in 0..n /\ n - 0 = n
    BY <1>1
  <2>2. f[0] = b
    BY <1>2, <2>1 DEF ReplaysTo
  <2> QED
    BY <1>4, <2>1, <2>2 DEF Walk
<1>6. ASSUME NEW i \in P PROVE i + 1 \in P
  <2> SUFFICES ASSUME i + 1 <= n PROVE f[i + 1] \in Db /\ Near(dir, p[n - (i + 1)], f[i + 1])
    OBVIOUS
  <2>1. /\ i \in Nat /\ i <= n /\ i + 1 \in 0..n /\ i + 1 # 0 /\ (i + 1) - 1 = i
        /\ n + 1 - (i + 1) = n - i /\ n - i \in 1..n /\ (n - i) - 1 = n - (i + 1)
        /\ n - i \in 0..n /\ n - (i + 1) \in 0..n
    <3>1. \A j, k \in Nat : j + 1 <= k =>
             /\ j <= k /\ j + 1 \in 0..k /\ j + 1 # 0 /\ (j + 1) - 1 = j
             /\ k + 1 - (j + 1) = k - j /\ k - j \in 1..k /\ (k - j) - 1 = k - (j + 1)
             /\ k - j \in 0..k /\ k - (j + 1) \in 0..k
      OBVIOUS
    <3>2. i \in Nat
      OBVIOUS
    <3> HIDE DEF P, n, cs
    <3> QED
      BY <1>1, <3>1, <3>2
  <2>2. f[i] \in Db /\ Near(dir, p[n - i], f[i])
    BY <2>1
  <2>3. f[i + 1] = Revert(f[i], cs[n - i])
    <3>1. f[i + 1] = IF i + 1 = 0 THEN b ELSE Revert(f[(i + 1) - 1], cs[n + 1 - (i + 1)])
      BY <1>2, <2>1 DEF ReplaysTo
    <3> QED
      BY <2>1, <3>1
  <2>4. cs[n - i] \in Change
    BY <2>1, ElementOfSeq
  <2>5. Fits(dir, p[n - (i + 1)], cs[n - i], p[n - i])
    <3>1. Fits(dir, p[(n - i) - 1], cs[n - i], p[n - i])
      BY <1>4, <2>1 DEF Walk
    <3> QED
      BY <2>1, <3>1
  <2>6. p[n - i] \in Db /\ p[n - (i + 1)] \in Db
    BY <1>4, <2>1 DEF Walk
  <2>7. Near(dir, p[n - (i + 1)], p[n - (i + 1)])
    BY NearReflexive
  <2> HIDE DEF n, cs
  <2>8. Fits(dir, p[n - (i + 1)], cs[n - i], f[i])
    BY <2>2, <2>4, <2>5, <2>6, <2>7, FitsNear
  <2> QED
    BY <2>2, <2>3, <2>4, <2>8, RevertType DEF Fits
<1>7. P = Nat
  <2>1. P \in SUBSET Nat
    OBVIOUS
  <2> HIDE DEF P
  <2> QED
    BY <1>5, <1>6, <2>1, Induction
<1>8. f[n] \in Db /\ Near(dir, p[0], f[n])
  <2>1. n \in P /\ n - n = 0 /\ n <= n
    BY <1>1, <1>7
  <2> QED
    BY <2>1
<1> QED
  BY <1>3, <1>4, <1>8, NearTransitive DEF Walk

\* Rows of removed notes and cards are gone when their graves are written.
Clean(d) == \A r \in Graved : r \in d.graves => d.row[r] = NoRow

\* The states hs that steps ss lead through, from hs[1] on
Chain(dir, ss, hs) ==
    /\ hs \in Seq(Db) /\ Len(hs) = Len(ss) + 1
    /\ \A k \in 1..Len(ss) : Leads(dir, hs[k + 1], ss[k].changes, hs[k])
    /\ \A k \in 1..Len(hs) : Clean(hs[k])

\* What Trail takes its values from
TrailsTo(f, d, ss, m) == f = [i \in 0..m |-> IF i = 0 THEN d ELSE RevertStep(f[i - 1], ss[i])]

LEMMA TrailExists == ASSUME NEW d, NEW ss PROVE \A n \in Nat : \E f : TrailsTo(f, d, ss, n)
<1> DEFINE P == {n \in Nat : \E f : TrailsTo(f, d, ss, n)}
<1>1. 0 \in P
  <2>1. TrailsTo([k \in 0..0 |-> d], d, ss, 0)
    BY DEF TrailsTo
  <2> QED
    BY <2>1
<1>2. ASSUME NEW n \in P PROVE n + 1 \in P
  <2>1. PICK f : TrailsTo(f, d, ss, n)
    OBVIOUS
  <2> DEFINE g == [k \in 0..(n + 1) |-> IF k = n + 1 THEN RevertStep(f[n], ss[k]) ELSE f[k]]
  <2>2. ASSUME NEW k \in 0..(n + 1)
        PROVE  g[k] = IF k = 0 THEN d ELSE RevertStep(g[k - 1], ss[k])
    <3>1. CASE k = n + 1
      <4>1. k # 0 /\ k - 1 = n /\ g[n] = f[n]
        BY <3>1
      <4> QED
        BY <3>1, <4>1
    <3>2. CASE k # n + 1
      <4>1. k \in 0..n
        BY <3>2
      <4>2. g[k] = f[k] /\ (k # 0 => g[k - 1] = f[k - 1])
        BY <3>2, <4>1
      <4>3. f[k] = IF k = 0 THEN d ELSE RevertStep(f[k - 1], ss[k])
        BY <2>1, <4>1 DEF TrailsTo
      <4> QED
        BY <4>2, <4>3
    <3> QED
      BY <3>1, <3>2
  <2>3. TrailsTo(g, d, ss, n + 1)
    BY <2>2 DEF TrailsTo
  <2> HIDE DEF g
  <2>4. \E h : TrailsTo(h, d, ss, n + 1)
    BY <2>3
  <2> QED
    BY <2>4
<1> HIDE DEF P
<1>3. P = Nat
  <2>1. P \in SUBSET Nat
    BY DEF P
  <2> QED
    BY <1>1, <1>2, <2>1, Induction
<1> QED
  BY <1>3 DEF P

\* The trail of the steps goes through states like those of the chain.
LEMMA TrailFollowsChain ==
    ASSUME NEW dir, NEW ss \in Seq(Step), NEW hs, Chain(dir, ss, hs)
    PROVE  /\ Trail(ss, hs[1]) \in Seq(Db) /\ Len(Trail(ss, hs[1])) = Len(ss)
           /\ \A i \in 1..Len(ss) : Near(dir, hs[i + 1], Trail(ss, hs[1])[i])
<1> DEFINE n == Len(ss)
           d == hs[1]
           f == CHOOSE g : TrailsTo(g, d, ss, n)
<1>1. n \in Nat /\ \A i \in 1..n : ss[i].changes \in Seq(Change)
  <2>1. \A i \in 1..n : ss[i] \in Step
    BY ElementOfSeq
  <2> QED
    BY <2>1, LenProperties DEF Step
<1>2. TrailsTo(f, d, ss, n)
  <2>1. \E g : TrailsTo(g, d, ss, n)
    BY <1>1, TrailExists
  <2> QED
    BY <2>1
<1>3. Trail(ss, d) = [i \in 1..n |-> f[i]]
  BY DEF Trail, TrailsTo
<1>4. \A k \in 1..(n + 1) : hs[k] \in Db
  BY ElementOfSeq DEF Chain
<1> HIDE DEF f, d
<1> DEFINE P == {i \in Nat : i <= n => f[i] \in Db /\ Near(dir, hs[i + 1], f[i])}
<1>5. 0 \in P
  <2>1. 0 \in 0..n /\ 0 + 1 = 1 /\ 1 \in 1..(n + 1)
    BY <1>1
  <2>2. f[0] = d
    BY <1>2, <2>1 DEF TrailsTo
  <2>3. Near(dir, d, d) /\ d \in Db
    BY <1>4, <2>1, NearReflexive DEF d
  <2> QED
    BY <2>1, <2>2, <2>3 DEF d
<1>6. ASSUME NEW i \in P PROVE i + 1 \in P
  <2> SUFFICES ASSUME i + 1 <= n PROVE f[i + 1] \in Db /\ Near(dir, hs[(i + 1) + 1], f[i + 1])
    OBVIOUS
  <2>1. /\ i \in Nat /\ i <= n /\ i + 1 \in 0..n /\ i + 1 # 0 /\ (i + 1) - 1 = i
        /\ i + 1 \in 1..n
    BY <1>1
  <2>2. f[i] \in Db /\ Near(dir, hs[i + 1], f[i])
    BY <2>1
  <2>3. f[i + 1] = RevertStep(f[i], ss[i + 1])
    <3>1. f[i + 1] = IF i + 1 = 0 THEN d ELSE RevertStep(f[(i + 1) - 1], ss[i + 1])
      BY <1>2, <2>1 DEF TrailsTo
    <3> QED
      BY <2>1, <3>1
  <2>4. Leads(dir, hs[(i + 1) + 1], ss[i + 1].changes, hs[i + 1])
    BY <2>1 DEF Chain
  <2>5. Near(dir, hs[(i + 1) + 1], hs[(i + 1) + 1])
    BY NearReflexive
  <2>6. Leads(dir, hs[(i + 1) + 1], ss[i + 1].changes, f[i])
    BY <2>2, <2>4, <2>5, LeadsNear
  <2>7. ss[i + 1].changes \in Seq(Change)
    BY <1>1, <2>1
  <2> QED
    BY <2>2, <2>3, <2>6, <2>7, RevertStepLeads
<1>7. P = Nat
  <2>1. P \in SUBSET Nat
    OBVIOUS
  <2> HIDE DEF P
  <2> QED
    BY <1>5, <1>6, <2>1, Induction
<1>8. \A i \in 1..n : f[i] \in Db /\ Near(dir, hs[i + 1], f[i])
  <2> TAKE i \in 1..n
  <2>1. i \in P /\ i <= n
    BY <1>1, <1>7
  <2> QED
    BY <2>1
<1>9. [i \in 1..n |-> f[i]] \in Seq(Db) /\ Len([i \in 1..n |-> f[i]]) = n
  <2>1. [i \in 1..n |-> f[i]] \in [1..n -> Db]
    BY <1>8
  <2> QED
    BY <1>1, <2>1, SeqDef, LenProperties
<1>10. \A i \in 1..n : Trail(ss, d)[i] = f[i]
  BY <1>3
<1>11. Trail(ss, d) \in Seq(Db) /\ Len(Trail(ss, d)) = n
  BY <1>3, <1>9
<1> QED
  BY <1>8, <1>10, <1>11 DEF d

-----------------------------------------------------------------------------
(* What is recorded leads back.                                            *)

\* The direction of the step that replaying a step records
Other(dir) == IF dir = "undo" THEN "redo" ELSE "undo"

LEMMA ExactLeads ==
    ASSUME NEW dir, NEW d \in Db, NEW c \in Change, NEW e \in Db, Revert(e, c) = d, Guard(dir, c, e)
    PROVE  Leads(dir, d, <<c>>, e)
<1>1. Fits(dir, d, c, e)
  BY NearReflexive DEF Fits
<1> QED
  BY <1>1, LeadsOne

\* Two databases with the same parts
LEMMA SameDb ==
    ASSUME NEW d \in Db, NEW e \in Db, \A r \in Rows : d.row[r] = e.row[r],
           d.graves = e.graves, d.mod = e.mod
    PROVE  d = e
<1>1. d.row = e.row
  BY DEF Db
<1> QED
  BY <1>1 DEF Db

\* The rows after a row change is undone
LEMMA RevertRow ==
    ASSUME NEW d \in Db, NEW c \in RowChange
    PROVE  /\ \A r \in Rows : Revert(d, c).row[r] =
                  IF r = c.row THEN IF c.what = "Added" THEN NoRow ELSE c.val ELSE d.row[r]
           /\ Revert(d, c).graves = d.graves /\ Revert(d, c).mod = d.mod
           /\ Revert(d, c) \in Db
<1>1. Revert(d, c) = [d EXCEPT !.row[c.row] = IF c.what = "Added" THEN NoRow ELSE c.val]
  BY DEF RowChange, Revert
<1>2. c.row \in Rows
  BY DEF RowChange
<1>3. c \in Change
  BY DEF Change
<1> QED
  BY <1>1, <1>2, <1>3, RevertType DEF Db

\* What undoing a change records leads back from after to before the undo.
LEMMA InverseLeads ==
    ASSUME NEW dir \in {"undo", "redo"}, NEW d \in Db, NEW c \in Change,
           Guard(dir, c, d), Replayable(d, c)
    PROVE  Leads(Other(dir), d, InverseOf(d, c), Revert(d, c))
<1> DEFINE e == Revert(d, c)
<1>1. e \in Db
  BY RevertType
<1>2. CASE c \in RowChange
  <2>1. /\ c.row \in Rows /\ c.val \in Value /\ c.val # NoRow
        /\ \A r \in Rows : e.row[r] =
                  IF r = c.row THEN IF c.what = "Added" THEN NoRow ELSE c.val ELSE d.row[r]
        /\ e.graves = d.graves /\ e.mod = d.mod
    BY <1>2, RevertRow, UndoAssumption DEF RowChange
  <2>2. d.row[c.row] \in Value \cup {NoRow}
    BY <2>1 DEF Db
  <2> HIDE DEF e
  <2>3. ASSUME NEW w \in {"Added", "Updated", "Removed"}, NEW v \in Value,
               IF w = "Added" THEN d.row[c.row] = NoRow ELSE d.row[c.row] = v,
               Guard(Other(dir), OnRow(w, c.row, v), e)
        PROVE  Leads(Other(dir), d, <<OnRow(w, c.row, v)>>, e)
    <3> DEFINE i == OnRow(w, c.row, v)
    <3>1. i \in RowChange /\ i.what = w /\ i.row = c.row /\ i.val = v
      BY <2>1 DEF OnRow, RowChange
    <3> HIDE DEF i
    <3>2. /\ \A r \in Rows : Revert(e, i).row[r] =
                  IF r = c.row THEN IF w = "Added" THEN NoRow ELSE v ELSE e.row[r]
          /\ Revert(e, i).graves = e.graves /\ Revert(e, i).mod = e.mod
          /\ Revert(e, i) \in Db
      BY <1>1, <3>1, RevertRow
    <3>3. Revert(e, i) = d
      BY <2>1, <2>3, <3>2, SameDb
    <3>4. i \in Change /\ Guard(Other(dir), i, e)
      BY <2>3, <3>1 DEF Change, i
    <3>5. Leads(Other(dir), d, <<i>>, e)
      BY <1>1, <3>3, <3>4, ExactLeads
    <3> QED
      BY <3>5 DEF i
  <2>4. ASSUME \A r \in Rows : d.row[r] = e.row[r]
        PROVE  Leads(Other(dir), d, <<>>, e)
    <3>1. d = e
      BY <1>1, <2>1, <2>4, SameDb
    <3> QED
      BY <1>1, <3>1, NearReflexive, LeadsEmpty
  <2>5. CASE c.what = "Added"
    <3>1. e.row[c.row] = NoRow
      BY <2>1, <2>5
    <3>2. ASSUME NEW v \in Value, d.row[c.row] = v
          PROVE  Leads(Other(dir), d, <<OnRow("Removed", c.row, v)>>, e)
      <4>1. Guard(Other(dir), OnRow("Removed", c.row, v), e)
        BY <3>1 DEF Guard, OnRow
      <4> QED
        BY <2>3, <3>2, <4>1
    <3>3. CASE c.row \in Graved
      <4>1. InverseOf(d, c) = <<OnRow("Removed", c.row, c.val)>>
        BY <2>5, <3>3, UndoAssumption DEF InverseOf, Graved
      <4>2. d.row[c.row] = c.val
        BY <2>5, <3>3, WatchedRows DEF Guard
      <4> QED
        BY <2>1, <3>2, <4>1, <4>2 DEF e
    <3>4. CASE c.row \in Keys /\ c.row \notin Graved
      <4>1. InverseOf(d, c) = IF d.row[c.row] = NoRow THEN <<>>
                              ELSE <<OnRow("Removed", c.row, d.row[c.row])>>
        BY <2>5, <3>4 DEF InverseOf
      <4>2. CASE d.row[c.row] = NoRow
        <5>1. \A r \in Rows : d.row[r] = e.row[r]
          BY <2>1, <2>5, <4>2
        <5> QED
          BY <2>4, <4>1, <4>2, <5>1 DEF e
      <4>3. CASE d.row[c.row] # NoRow
        <5>1. d.row[c.row] \in Value
          BY <2>2, <4>3
        <5> QED
          BY <3>2, <4>1, <4>3, <5>1 DEF e
      <4> QED
        BY <4>2, <4>3
    <3> QED
      BY <2>1, <3>3, <3>4 DEF Rows, Graved
  <2>6. CASE c.what = "Updated"
    <3>1. e.row[c.row] = c.val /\ d.row[c.row] \in Value
      BY <2>1, <2>2, <2>6 DEF Replayable
    <3>2. InverseOf(d, c) = IF c.row \in Keys /\ d.row[c.row] = c.val THEN <<>>
                            ELSE <<OnRow("Updated", c.row, d.row[c.row])>>
      BY <2>6 DEF InverseOf
    <3>3. CASE c.row \in Keys /\ d.row[c.row] = c.val
      <4>1. \A r \in Rows : d.row[r] = e.row[r]
        BY <2>1, <2>6, <3>3
      <4> QED
        BY <2>4, <3>2, <3>3, <4>1 DEF e
    <3>4. CASE ~(c.row \in Keys /\ d.row[c.row] = c.val)
      <4>1. Guard(Other(dir), OnRow("Updated", c.row, d.row[c.row]), e)
        BY <2>1, <3>1 DEF Guard, OnRow
      <4>2. Leads(Other(dir), d, <<OnRow("Updated", c.row, d.row[c.row])>>, e)
        BY <2>3, <3>1, <4>1
      <4> QED
        BY <3>2, <3>4, <4>2 DEF e
    <3> QED
      BY <3>3, <3>4
  <2>7. CASE c.what = "Removed"
    <3>1. e.row[c.row] = c.val
      BY <2>1, <2>7
    <3>2. InverseOf(d, c) = <<OnRow("Added", c.row, c.val)>>
      BY <2>7 DEF InverseOf
    <3>3. Guard(Other(dir), OnRow("Added", c.row, c.val), e)
      BY <3>1 DEF Guard, OnRow
    <3>4. CASE d.row[c.row] = NoRow
      <4>1. Leads(Other(dir), d, <<OnRow("Added", c.row, c.val)>>, e)
        BY <2>1, <2>3, <3>3, <3>4
      <4> QED
        BY <3>2, <4>1 DEF e
    <3>5. CASE d.row[c.row] # NoRow
      <4> DEFINE i == OnRow("Added", c.row, c.val)
      <4>1. i \in RowChange /\ i \in Change /\ i.what = "Added" /\ i.row = c.row
        BY <2>1 DEF OnRow, RowChange, Change
      <4>2. Guard(Other(dir), i, e)
        BY <3>3
      <4> HIDE DEF i
      <4>3. /\ \A r \in Rows : Revert(e, i).row[r] = IF r = c.row THEN NoRow ELSE e.row[r]
            /\ Revert(e, i).graves = e.graves /\ Revert(e, i).mod = e.mod
        BY <1>1, <4>1, RevertRow
      <4>4. c.row \notin Watched /\ dir = "undo"
        BY <2>7, <3>5 DEF Guard
      <4>5. Near("redo", d, Revert(e, i))
        BY <2>1, <3>5, <4>3, <4>4, WatchedRows DEF Near, Alike, Covers
      <4>6. Fits("redo", d, i, e)
        BY <4>2, <4>4, <4>5 DEF Fits, Other
      <4>7. Leads("redo", d, <<i>>, e)
        BY <1>1, <4>1, <4>6, LeadsOne
      <4> QED
        BY <3>2, <4>4, <4>7 DEF Other, e, i
    <3> QED
      BY <3>4, <3>5
  <2> QED
    BY <1>2, <2>5, <2>6, <2>7 DEF RowChange
<1>3. CASE c \in GraveChange
  <2>1. CASE c.what = "GraveAdded"
    <3> DEFINE i == OnGrave("GraveRemoved", c.row)
    <3>1. i \in Change /\ InverseOf(d, c) = <<i>>
      BY <1>3, <2>1 DEF InverseOf, OnGrave, Change, GraveChange
    <3>2. e = [d EXCEPT !.graves = @ \ {c.row}] /\ Revert(e, i) = [e EXCEPT !.graves = @ \cup {c.row}]
      BY <2>1 DEF Revert, OnGrave
    <3>3. Guard(Other(dir), i, e)
      BY <3>2 DEF Guard, OnGrave, Db
    <3>4. c.row \in d.graves
      BY <2>1 DEF Guard
    <3>5. Revert(e, i) = d
      <4>1. e.row = d.row /\ e.mod = d.mod /\ e.graves = d.graves \ {c.row}
        BY <3>2 DEF Db
      <4>2. /\ Revert(e, i).row = e.row /\ Revert(e, i).mod = e.mod
            /\ Revert(e, i).graves = e.graves \cup {c.row}
        BY <1>1, <3>2 DEF Db
      <4>3. Revert(e, i) \in Db
        BY <1>1, <3>1, RevertType
      <4> HIDE DEF e, i
      <4>4. Revert(e, i).graves = d.graves
        BY <3>4, <4>1, <4>2
      <4> QED
        BY <4>1, <4>2, <4>3, <4>4, SameDb
    <3> QED
      BY <1>1, <3>1, <3>3, <3>5, ExactLeads
  <2>2. CASE c.what = "GraveRemoved"
    <3> DEFINE i == OnGrave("GraveAdded", c.row)
    <3>1. i \in Change /\ InverseOf(d, c) = <<i>>
      BY <1>3, <2>2 DEF InverseOf, OnGrave, Change, GraveChange
    <3>2. e = [d EXCEPT !.graves = @ \cup {c.row}] /\ Revert(e, i) = [e EXCEPT !.graves = @ \ {c.row}]
      BY <2>2 DEF Revert, OnGrave
    <3>3. Guard(Other(dir), i, e)
      BY <3>2 DEF Guard, OnGrave, Db
    <3>4. c.row \notin d.graves
      BY <2>2 DEF Guard
    <3>5. Revert(e, i) = d
      <4>1. e.row = d.row /\ e.mod = d.mod /\ e.graves = d.graves \cup {c.row}
        BY <3>2 DEF Db
      <4>2. /\ Revert(e, i).row = e.row /\ Revert(e, i).mod = e.mod
            /\ Revert(e, i).graves = e.graves \ {c.row}
        BY <1>1, <3>2 DEF Db
      <4>3. Revert(e, i) \in Db
        BY <1>1, <3>1, RevertType
      <4> HIDE DEF e, i
      <4>4. Revert(e, i).graves = d.graves
        BY <3>4, <4>1, <4>2
      <4> QED
        BY <4>1, <4>2, <4>3, <4>4, SameDb
    <3> QED
      BY <1>1, <3>1, <3>3, <3>5, ExactLeads
  <2> QED
    BY <1>3, <2>1, <2>2 DEF GraveChange
<1>4. CASE c \in ModChange
  <2> DEFINE i == Modified(d.mod)
  <2>1. i \in Change /\ InverseOf(d, c) = <<i>>
    BY <1>4 DEF InverseOf, Modified, Change, ModChange, Db
  <2>2. e = [d EXCEPT !.mod = c.mod] /\ Revert(e, i) = [e EXCEPT !.mod = d.mod]
    BY <1>4 DEF Revert, Modified, ModChange
  <2>3. Guard(Other(dir), i, e)
    BY DEF Guard, Modified
  <2>4. Revert(e, i) = d
    BY <2>2 DEF Db
  <2> QED
    BY <1>1, <2>1, <2>3, <2>4, ExactLeads
<1> QED
  BY <1>2, <1>3, <1>4 DEF Change

\* Two changes in a row
LEMMA PairOfChanges ==
    ASSUME NEW c \in Change, NEW m \in Change
    PROVE  /\ <<c>> \o <<m>> = <<c, m>> /\ <<c, m>> \in Seq(Change) /\ <<c, m>> # <<>>
           /\ Last(<<c, m>>) = m /\ Front(<<c, m>>) = <<c>>
           /\ Last(<<c>>) = c /\ Front(<<c>>) = <<>> /\ <<c>> # <<>> /\ <<c>> \in Seq(Change)
<1>1. <<c, m>> \in Seq(Change) /\ Len(<<c, m>>) = 2 /\ <<c, m>>[2] = m /\ <<c, m>>[1] = c
  OBVIOUS
<1>2. <<c>> \in Seq(Change) /\ <<m>> \in Seq(Change) /\ Len(<<c>>) = 1 /\ <<c>>[1] = c /\ Len(<<m>>) = 1 /\ <<m>>[1] = m
  OBVIOUS
<1>3. /\ <<c>> \o <<m>> \in Seq(Change) /\ Len(<<c>> \o <<m>>) = 2
      /\ \A i \in 1..2 : (<<c>> \o <<m>>)[i] = IF i <= 1 THEN <<c>>[i] ELSE <<m>>[i - 1]
  BY <1>2, ConcatProperties
<1>4. <<c>> \o <<m>> = <<c, m>>
  <2>1. (<<c>> \o <<m>>)[1] = c /\ (<<c>> \o <<m>>)[2] = m
    BY <1>2, <1>3
  <2>2. \A i \in 1..2 : (<<c>> \o <<m>>)[i] = <<c, m>>[i]
    BY <1>1, <2>1
  <2> QED
    BY <1>1, <1>3, <2>2, SeqEqual
<1>5. SubSeq(<<c, m>>, 1, 2 - 1) = <<c>>
  <2> DEFINE s == <<c, m>>
  <2>1. \A i \in 1..1 : s[i] \in Change
    BY <1>1
  <2> HIDE DEF s
  <2>2. /\ SubSeq(s, 1, 1) \in Seq(Change) /\ Len(SubSeq(s, 1, 1)) = IF 1 <= 1 THEN 1 - 1 + 1 ELSE 0
        /\ \A i \in 1..(1 - 1 + 1) : SubSeq(s, 1, 1)[i] = s[1 + i - 1]
    BY <2>1, SubSeqProperties
  <2>3. Len(SubSeq(s, 1, 1)) = 1 /\ SubSeq(s, 1, 1)[1] = c
    BY <1>1, <2>2 DEF s
  <2>4. SubSeq(s, 1, 1) = <<c>>
    <3>1. \A i \in 1..1 : SubSeq(s, 1, 1)[i] = <<c>>[i]
      BY <1>2, <2>3
    <3> QED
      BY <1>2, <2>2, <2>3, <3>1, SeqEqual
  <2> QED
    BY <2>4 DEF s
<1>6. SubSeq(<<c>>, 1, 1 - 1) = <<>>
  <2> DEFINE s == <<c>>
  <2>1. \A i \in 1..0 : s[i] \in Change
    OBVIOUS
  <2> HIDE DEF s
  <2>2. /\ SubSeq(s, 1, 0) \in Seq(Change) /\ Len(SubSeq(s, 1, 0)) = IF 1 <= 0 THEN 0 - 1 + 1 ELSE 0
    BY <2>1, SubSeqProperties
  <2>3. Len(SubSeq(s, 1, 0)) = 0
    BY <2>2
  <2>4. SubSeq(s, 1, 0) = <<>>
    BY <2>2, <2>3, EmptySeq
  <2> QED
    BY <2>4 DEF s
<1> QED
  BY <1>1, <1>2, <1>4, <1>5, <1>6 DEF Last, Front

(* The writes of an operation                                              *)

LEMMA RowLeads ==
    ASSUME NEW dir, NEW d \in Db, NEW e \in Db, NEW r \in Rows, NEW v \in Value,
           NEW w \in {"Added", "Updated", "Removed"},
           \A q \in Rows : q # r => d.row[q] = e.row[q],
           d.graves = e.graves, d.mod = e.mod,
           IF w = "Added" THEN d.row[r] = NoRow ELSE d.row[r] = v,
           Guard(dir, OnRow(w, r, v), e)
    PROVE  /\ <<OnRow(w, r, v)>> \in Seq(Change)
           /\ Leads(dir, d, <<OnRow(w, r, v)>>, e)
<1> DEFINE i == OnRow(w, r, v)
<1>1. i \in RowChange /\ i.what = w /\ i.row = r /\ i.val = v
  BY DEF OnRow, RowChange
<1> HIDE DEF i
<1>2. /\ \A q \in Rows : Revert(e, i).row[q] =
              IF q = r THEN IF w = "Added" THEN NoRow ELSE v ELSE e.row[q]
      /\ Revert(e, i).graves = e.graves /\ Revert(e, i).mod = e.mod
      /\ Revert(e, i) \in Db
  BY <1>1, RevertRow
<1>3. Revert(e, i) = d
  BY <1>2, SameDb
<1>4. i \in Change /\ Guard(dir, i, e)
  BY <1>1 DEF Change, i
<1>5. Leads(dir, d, <<i>>, e) /\ <<i>> \in Seq(Change)
  BY <1>3, <1>4, ExactLeads
<1> QED
  BY <1>5 DEF i

\* add_note, add_card, set_config: what they record takes the row back.
LEMMA AddLeads ==
    ASSUME NEW d \in Db, NEW r \in Rows, NEW v \in Value, d.row[r] = NoRow
    PROVE  /\ <<OnRow("Added", r, v)>> \in Seq(Change)
           /\ Leads("undo", d, <<OnRow("Added", r, v)>>, [d EXCEPT !.row[r] = v])
<1> DEFINE e == [d EXCEPT !.row[r] = v]
<1>1. /\ e \in Db /\ e.row[r] = v /\ e.graves = d.graves /\ e.mod = d.mod
      /\ \A q \in Rows : q # r => d.row[q] = e.row[q]
  BY DEF Db
<1> HIDE DEF e
<1>2. Guard("undo", OnRow("Added", r, v), e)
  BY <1>1 DEF Guard, OnRow
<1>3. /\ <<OnRow("Added", r, v)>> \in Seq(Change)
      /\ Leads("undo", d, <<OnRow("Added", r, v)>>, e)
  BY <1>1, <1>2, RowLeads
<1> QED
  BY <1>3 DEF e

\* update_note, update_card, set_config
LEMMA UpdateLeads ==
    ASSUME NEW d \in Db, NEW r \in Rows, NEW v \in Value, d.row[r] # NoRow
    PROVE  /\ <<OnRow("Updated", r, d.row[r])>> \in Seq(Change)
           /\ Leads("undo", d, <<OnRow("Updated", r, d.row[r])>>, [d EXCEPT !.row[r] = v])
<1> DEFINE e == [d EXCEPT !.row[r] = v]
<1>1. /\ e \in Db /\ e.row[r] = v /\ e.graves = d.graves /\ e.mod = d.mod
      /\ \A q \in Rows : q # r => d.row[q] = e.row[q]
  BY DEF Db
<1>2. d.row[r] \in Value /\ v # NoRow
  BY UndoAssumption DEF Db
<1> HIDE DEF e
<1> DEFINE u == d.row[r]
<1>3. Guard("undo", OnRow("Updated", r, u), e)
  BY <1>1, <1>2 DEF Guard, OnRow
<1>4. u \in Value /\ d.row[r] = u
  BY <1>2
<1> HIDE DEF u
<1>5. /\ <<OnRow("Updated", r, u)>> \in Seq(Change)
      /\ Leads("undo", d, <<OnRow("Updated", r, u)>>, e)
  BY <1>1, <1>3, <1>4, RowLeads
<1> QED
  BY <1>5 DEF e, u

LEMMA GraveLeads ==
    ASSUME NEW d \in Db, NEW r \in Graved, r \notin d.graves
    PROVE  /\ <<OnGrave("GraveAdded", r)>> \in Seq(Change)
           /\ Leads("undo", d, <<OnGrave("GraveAdded", r)>>, [d EXCEPT !.graves = @ \cup {r}])
<1> DEFINE e == [d EXCEPT !.graves = @ \cup {r}]
           i == OnGrave("GraveAdded", r)
<1>1. e \in Db /\ e.row = d.row /\ e.mod = d.mod /\ e.graves = d.graves \cup {r}
  BY DEF Db
<1>2. i \in Change /\ i.what = "GraveAdded" /\ i.row = r
  BY DEF OnGrave, Change, GraveChange
<1>3. Revert(e, i) = [e EXCEPT !.graves = @ \ {i.row}]
  BY <1>2 DEF Revert
<1> HIDE DEF e, i
<1>4. /\ Revert(e, i).row = e.row /\ Revert(e, i).mod = e.mod
      /\ Revert(e, i).graves = e.graves \ {r}
  BY <1>1, <1>2, <1>3 DEF Db
<1>5. Revert(e, i) \in Db /\ Revert(e, i).graves = d.graves
  BY <1>1, <1>2, <1>4, RevertType
<1>6. Revert(e, i) = d
  BY <1>1, <1>4, <1>5, SameDb
<1>7. Guard("undo", i, e)
  BY <1>1, <1>2 DEF Guard
<1>8. Leads("undo", d, <<i>>, e) /\ <<i>> \in Seq(Change)
  BY <1>1, <1>2, <1>6, <1>7, ExactLeads
<1> QED
  BY <1>8 DEF e, i

\* remove_note, remove_card, remove_config
LEMMA RemoveLeads ==
    ASSUME NEW d \in Db, Clean(d), NEW r \in Rows, d.row[r] # NoRow
    PROVE  LET gone == OnRow("Removed", r, d.row[r])
               changes == CASE r \in Notes -> <<gone, OnGrave("GraveAdded", r)>>
                            [] r \in Cards -> <<OnGrave("GraveAdded", r), gone>>
                            [] r \in Keys  -> <<gone>>
           IN changes \in Seq(Change)
              /\ Leads("undo", d, changes, [d EXCEPT !.row[r] = NoRow, !.graves = @ \cup ({r} \cap Graved)])
<1> DEFINE u == d.row[r]
           gone == OnRow("Removed", r, u)
           grave == OnGrave("GraveAdded", r)
           changes == CASE r \in Notes -> <<gone, grave>>
                        [] r \in Cards -> <<grave, gone>>
                        [] r \in Keys  -> <<gone>>
           e == [d EXCEPT !.row[r] = NoRow, !.graves = @ \cup ({r} \cap Graved)]
           m == [d EXCEPT !.row[r] = NoRow]
           g == [d EXCEPT !.graves = @ \cup {r}]
<1>1. u \in Value /\ d.row[r] = u
  BY DEF Db
<1>2. /\ m \in Db /\ m.row[r] = NoRow /\ m.graves = d.graves /\ m.mod = d.mod
      /\ \A q \in Rows : q # r => d.row[q] = m.row[q]
  BY DEF Db
<1>3. r \in Graved => r \notin d.graves
  BY DEF Clean
<1>4. e = IF r \in Graved THEN [m EXCEPT !.graves = @ \cup {r}] ELSE m
  <2>1. CASE r \in Graved
    <3>1. {r} \cap Graved = {r}
      BY <2>1
    <3> QED
      BY <2>1, <3>1 DEF Db
  <2>2. CASE r \notin Graved
    <3>1. {r} \cap Graved = {} /\ d.graves \cup ({r} \cap Graved) = d.graves
      BY <2>2
    <3> QED
      BY <2>2, <3>1 DEF Db
  <2> QED
    BY <2>1, <2>2
<1>5. r \in Graved => /\ g \in Db /\ g.row = d.row /\ g.graves = d.graves \cup {r} /\ g.mod = d.mod
  BY DEF Db
<1>6. r \in Graved => /\ e \in Db /\ e.row[r] = NoRow /\ e.graves = g.graves /\ e.mod = g.mod
                      /\ \A q \in Rows : q # r => g.row[q] = e.row[q]
  BY <1>2, <1>4, <1>5 DEF Db
<1>7. Guard("undo", OnRow("Removed", r, u), m)
  BY <1>2 DEF Guard, OnRow
<1>8. r \in Graved => Guard("undo", OnRow("Removed", r, u), e)
  BY <1>6 DEF Guard, OnRow
<1> HIDE DEF u, g, e, m
<1>9. <<gone>> \in Seq(Change) /\ Leads("undo", d, <<gone>>, m)
  BY <1>1, <1>2, <1>7, RowLeads
<1>10. CASE r \in Notes
  <2>1. r \in Graved /\ changes = <<gone, grave>>
    <3>1. r \notin Cards /\ r \notin Keys
      BY <1>10, UndoAssumption
    <3> HIDE DEF gone, grave
    <3> QED
      BY <1>10, <3>1 DEF Graved
  <2>2. <<grave>> \in Seq(Change) /\ Leads("undo", m, <<grave>>, [m EXCEPT !.graves = @ \cup {r}])
    BY <1>2, <1>3, <2>1, GraveLeads
  <2>3. e = [m EXCEPT !.graves = @ \cup {r}] /\ e \in Db
    BY <1>4, <1>6, <2>1
  <2> HIDE DEF gone, grave
  <2>4. <<gone>> \o <<grave>> \in Seq(Change) /\ Leads("undo", d, <<gone>> \o <<grave>>, e)
    BY <1>2, <1>9, <2>2, <2>3, LeadsConcat, ConcatProperties
  <2>5. <<gone>> \o <<grave>> = <<gone, grave>>
    <3>1. gone \in Change /\ grave \in Change
      BY <1>1, <2>1 DEF gone, grave, OnRow, OnGrave, Change, RowChange, GraveChange
    <3> QED
      BY <3>1, PairOfChanges
  <2> QED
    BY <2>1, <2>4, <2>5 DEF u, e, gone, grave
<1>11. CASE r \in Cards
  <2>1. r \in Graved /\ r \notin Notes /\ changes = <<grave, gone>>
    BY <1>11, UndoAssumption DEF Graved
  <2>2. <<grave>> \in Seq(Change) /\ Leads("undo", d, <<grave>>, g)
    <3>1. <<grave>> \in Seq(Change) /\ Leads("undo", d, <<grave>>, [d EXCEPT !.graves = @ \cup {r}])
      BY <1>3, <2>1, GraveLeads
    <3> QED
      BY <3>1 DEF g
  <2>3. <<gone>> \in Seq(Change) /\ Leads("undo", g, <<gone>>, e)
    <3>1. g.row[r] = u
      BY <1>1, <1>5, <2>1
    <3> QED
      BY <1>1, <1>5, <1>6, <1>8, <2>1, <3>1, RowLeads
  <2>4. e \in Db
    BY <1>6, <2>1
  <2> HIDE DEF gone, grave
  <2>5. <<grave>> \o <<gone>> \in Seq(Change) /\ Leads("undo", d, <<grave>> \o <<gone>>, e)
    BY <2>2, <2>3, <2>4, LeadsConcat, ConcatProperties
  <2>6. <<grave>> \o <<gone>> = <<grave, gone>>
    <3>1. gone \in Change /\ grave \in Change
      BY <1>1, <2>1 DEF gone, grave, OnRow, OnGrave, Change, RowChange, GraveChange
    <3> QED
      BY <3>1, PairOfChanges
  <2> QED
    BY <2>1, <2>5, <2>6 DEF u, e, gone, grave
<1>12. CASE r \in Keys
  <2>1. r \notin Graved /\ changes = <<gone>>
    BY <1>12, UndoAssumption DEF Graved
  <2>2. e = m
    BY <1>4, <2>1
  <2>3. changes \in Seq(Change) /\ Leads("undo", d, changes, e)
    BY <1>9, <2>1, <2>2
  <2> QED
    BY <2>3 DEF u, e
<1> QED
  BY <1>10, <1>11, <1>12 DEF Rows

\* The mtime bump of transact_inner()
LEMMA BumpLeads ==
    ASSUME NEW d \in Db, NEW t \in Time
    PROVE  /\ Modified(d.mod) \in Change
           /\ [d EXCEPT !.mod = t] \in Db
           /\ Leads("undo", d, <<Modified(d.mod)>>, [d EXCEPT !.mod = t])
<1> DEFINE e == [d EXCEPT !.mod = t]
           i == Modified(d.mod)
<1>1. e \in Db /\ i \in Change /\ i.what = "Modified" /\ i.mod = d.mod
  BY DEF Db, Modified, Change, ModChange
<1>2. Revert(e, i) = d
  BY <1>1 DEF Revert, Db
<1>3. Guard("undo", i, e)
  BY <1>1 DEF Guard
<1> QED
  BY <1>1, <1>2, <1>3, ExactLeads

-----------------------------------------------------------------------------
(* Coalescing and merging                                                  *)

\* What the step of a note edit leads back to, and from
LEMMA NoteEditLeads ==
    ASSUME NEW a \in Db, NEW e \in Db, NEW n \in Notes, NEW s \in Step, IsNoteEdit(s, n)
    PROVE  Leads("undo", a, s.changes, e) <=>
              /\ e.row[n] # NoRow
              /\ Near("undo", a, Revert(Revert(e, s.changes[2]), s.changes[1]))
<1> DEFINE c == s.changes[1]
           m == s.changes[2]
           x == Revert(e, m)
<1>1. /\ s.changes \in Seq(Change) /\ Len(s.changes) = 2 /\ c.what = "Updated" /\ c.row = n
      /\ m.what = "Modified"
  BY DEF IsNoteEdit, Step
<1>2. c \in Change /\ m \in Change
  <2>1. 1 \in 1..Len(s.changes) /\ 2 \in 1..Len(s.changes)
    BY <1>1
  <2> QED
    BY <1>1, <2>1, ElementOfSeq
<1>3. <<c>> \in Seq(Change) /\ <<m>> \in Seq(Change) /\ s.changes = <<c>> \o <<m>>
  BY <1>1, <1>2
<1>4. x \in Db /\ x.row = e.row
  <2>1. x = [e EXCEPT !.mod = m.mod] /\ x \in Db
    BY <1>1, <1>2, RevertType DEF Revert
  <2> QED
    BY <2>1 DEF Db
<1>5. n \in Watched
  BY WatchedRows DEF Graved
<1>6. Guard("undo", c, x) <=> e.row[n] # NoRow
  BY <1>1, <1>4, <1>5 DEF Guard
<1>7. Guard("undo", m, e)
  BY <1>1 DEF Guard
<1> HIDE DEF c, m, x
<1>8. ASSUME Leads("undo", a, <<c>> \o <<m>>, e)
      PROVE  Guard("undo", c, x) /\ Near("undo", a, Revert(x, c))
  <2> DEFINE cs == <<c>> \o <<m>>
  <2>1. cs \in Seq(Change) /\ cs # <<>> /\ Last(cs) = m /\ Front(cs) = <<c>>
    BY <1>2, PairOfChanges
  <2> HIDE DEF cs
  <2>2. Leads("undo", a, <<c>>, x)
    BY <1>8, <2>1, LeadsFront DEF cs, x
  <2>3. <<c>> # <<>> /\ Last(<<c>>) = c /\ Front(<<c>>) = <<>>
    BY <1>2, PairOfChanges
  <2>4. Guard("undo", Last(<<c>>), x) /\ Leads("undo", a, Front(<<c>>), Revert(x, Last(<<c>>)))
    BY <1>3, <1>4, <2>2, <2>3, LeadsFront
  <2> QED
    BY <2>3, <2>4, LeadsNone
<1>9. ASSUME Guard("undo", c, x), Near("undo", a, Revert(x, c))
      PROVE  Leads("undo", a, <<c>> \o <<m>>, e)
  <2>1. Leads("undo", a, <<c>>, x)
    BY <1>2, <1>4, <1>9, LeadsOne DEF Fits
  <2>2. Leads("undo", x, <<m>>, e)
    BY <1>2, <1>4, <1>7, ExactLeads DEF x
  <2> QED
    BY <1>3, <2>1, <2>2, LeadsConcat
<1>10. Leads("undo", a, s.changes, e) <=> Guard("undo", c, x) /\ Near("undo", a, Revert(x, c))
  BY <1>3, <1>8, <1>9
<1> QED
  BY <1>6, <1>10 DEF c, m, x

\* A step that edits a note takes in another edit of it: it leads back from
\* the state after both to the state before both.
LEMMA CoalescedLeads ==
    ASSUME NEW a \in Db, NEW b \in Db, NEW e \in Db, NEW n \in Notes, NEW s \in Step, NEW t \in Step,
           IsNoteEdit(s, n), IsNoteEdit(t, n),
           Leads("undo", a, t.changes, b), Leads("undo", b, s.changes, e)
    PROVE  Leads("undo", a, t.changes, e)
<1> DEFINE back(d, u) == Revert(Revert(d, u.changes[2]), u.changes[1])
<1>1. Near("undo", a, back(b, t)) /\ Near("undo", b, back(e, s)) /\ e.row[n] # NoRow
  BY NoteEditLeads
<1>2. ASSUME NEW d \in Db, NEW u \in Step, IsNoteEdit(u, n)
      PROVE  /\ back(d, u) \in Db /\ back(d, u).graves = d.graves
             /\ back(d, u).mod = u.changes[2].mod
             /\ \A r \in Rows : back(d, u).row[r] = IF r = n THEN u.changes[1].val ELSE d.row[r]
             /\ u.changes[1].val # NoRow
  <2> DEFINE c == u.changes[1]
             m == u.changes[2]
             x == Revert(d, m)
  <2>1. /\ u.changes \in Seq(Change) /\ Len(u.changes) = 2 /\ c.what = "Updated" /\ c.row = n
        /\ m.what = "Modified"
    BY <1>2 DEF IsNoteEdit, Step
  <2>2. c \in Change /\ m \in Change
    <3>1. 1 \in 1..Len(u.changes) /\ 2 \in 1..Len(u.changes)
      BY <2>1
    <3> QED
      BY <2>1, <3>1, ElementOfSeq
  <2>3. x \in Db /\ x.row = d.row /\ x.graves = d.graves /\ x.mod = m.mod
    <3>1. x = [d EXCEPT !.mod = m.mod] /\ x \in Db
      BY <2>1, <2>2, RevertType DEF Revert
    <3> QED
      BY <3>1 DEF Db
  <2>4. c \in RowChange /\ c.val \in Value
    BY <2>1, <2>2 DEF Change, RowChange, GraveChange, ModChange
  <2> HIDE DEF c, m, x
  <2>5. /\ \A r \in Rows : Revert(x, c).row[r] =
                IF r = c.row THEN IF c.what = "Added" THEN NoRow ELSE c.val ELSE x.row[r]
        /\ Revert(x, c).graves = x.graves /\ Revert(x, c).mod = x.mod /\ Revert(x, c) \in Db
    BY <2>3, <2>4, RevertRow
  <2>6. back(d, u) = Revert(x, c)
    BY DEF x, c, m
  <2> QED
    BY <2>1, <2>3, <2>4, <2>5, <2>6, UndoAssumption DEF c, m
<1> HIDE DEF back
<1>3. Near("undo", back(b, t), back(e, t))
  <2>1. /\ \A r \in Watched : r # n => b.row[r] = e.row[r]
        /\ b.graves = e.graves
        /\ \A r \in Rows : r # n /\ b.row[r] # NoRow => e.row[r] # NoRow
    <3>1. PICK x : x = back(e, s)
      OBVIOUS
    <3>2. /\ x.graves = e.graves
          /\ \A r \in Rows : r # n => x.row[r] = e.row[r]
      BY <1>2, <3>1
    <3>3. Near("undo", b, x)
      BY <1>1, <3>1
    <3> QED
      BY <3>2, <3>3, WatchedRows DEF Near, Alike, Covers
  <2>2. /\ \A r \in Rows : back(b, t).row[r] = IF r = n THEN t.changes[1].val ELSE b.row[r]
        /\ \A r \in Rows : back(e, t).row[r] = IF r = n THEN t.changes[1].val ELSE e.row[r]
        /\ back(b, t).graves = b.graves /\ back(e, t).graves = e.graves
        /\ back(b, t).mod = back(e, t).mod
    BY <1>2
  <2> QED
    BY <2>1, <2>2, WatchedRows DEF Near, Alike, Covers
<1>4. Near("undo", a, back(e, t))
  BY <1>1, <1>3, NearTransitive
<1> QED
  BY <1>1, <1>4, NoteEditLeads DEF back

\* The mtime bump of an operation is the last change of its step, the first of
\* the step that undoes it.
EndsModified(cs)   == cs # <<>> => Last(cs).what = "Modified"
StartsModified(cs) == cs # <<>> => cs[1].what = "Modified"

LEMMA ConcatEnds ==
    ASSUME NEW cs \in Seq(Change), NEW ds \in Seq(Change)
    PROVE  /\ EndsModified(cs) /\ EndsModified(ds) => EndsModified(cs \o ds)
           /\ ds # <<>> /\ EndsModified(ds) => EndsModified(cs \o ds)
           /\ cs # <<>> /\ StartsModified(cs) => StartsModified(cs \o ds)
           /\ cs = <<>> => cs \o ds = ds
           /\ cs # <<>> \/ ds # <<>> => cs \o ds # <<>>
<1> DEFINE m == Len(cs)
           n == Len(ds)
<1>1. /\ m \in Nat /\ n \in Nat /\ Len(cs \o ds) = m + n /\ cs \o ds \in Seq(Change)
      /\ \A i \in 1..(m + n) : (cs \o ds)[i] = IF i <= m THEN cs[i] ELSE ds[i - m]
  BY LenProperties, ConcatProperties
<1>2. (m = 0 <=> cs = <<>>) /\ (n = 0 <=> ds = <<>>) /\ (m + n = 0 <=> cs \o ds = <<>>)
  BY <1>1, EmptySeq
<1>3. ds = <<>> => cs \o ds = cs
  BY ConcatEmptySeq
<1>4. cs = <<>> => cs \o ds = ds
  BY ConcatEmptySeq
<1>5. n # 0 => Last(cs \o ds) = Last(ds)
  <2> SUFFICES ASSUME n # 0 PROVE Last(cs \o ds) = Last(ds)
    OBVIOUS
  <2> HIDE DEF m, n
  <2>1. m + n \in 1..(m + n) /\ ~(m + n <= m) /\ (m + n) - m = n
    BY <1>1
  <2>2. (cs \o ds)[m + n] = ds[n]
    BY <1>1, <2>1
  <2> QED
    BY <1>1, <2>2 DEF Last, n
<1>6. m # 0 => (cs \o ds)[1] = cs[1]
  <2> SUFFICES ASSUME m # 0 PROVE (cs \o ds)[1] = cs[1]
    OBVIOUS
  <2> HIDE DEF m, n
  <2>1. 1 \in 1..(m + n) /\ 1 <= m
    BY <1>1
  <2> QED
    BY <1>1, <2>1
<1>7. cs # <<>> \/ ds # <<>> => cs \o ds # <<>>
  <2> HIDE DEF m, n
  <2>1. m + n = 0 => m = 0 /\ n = 0
    BY <1>1
  <2> QED
    BY <1>2, <2>1
<1> HIDE DEF m, n
<1> QED
  BY <1>2, <1>3, <1>4, <1>5, <1>6, <1>7 DEF EndsModified, StartsModified

\* merge_undoable_ops(): the changes of the i newest steps lead back through them all.
LEMMA MergedLeads ==
    ASSUME undoSteps \in Seq(Step), NEW i \in DOMAIN undoSteps, NEW hs, Chain("undo", undoSteps, hs),
           \A k \in DOMAIN undoSteps : EndsModified(undoSteps[k].changes)
    PROVE  /\ Leads("undo", hs[i + 1], MergedChanges(i), hs[1])
           /\ EndsModified(MergedChanges(i))
           /\ undoSteps[i].changes # <<>> => MergedChanges(i) # <<>>
<1> DEFINE f == CHOOSE g : MergesTo(g, i)
           N == Len(undoSteps)
           Good(k) == /\ f[k] \in Seq(Change) /\ EndsModified(f[k])
                      /\ Leads("undo", hs[k + 1], f[k], hs[1])
           P == {k \in Nat : k <= i => Good(k)}
<1>1. /\ N \in Nat /\ i \in Nat /\ i >= 1 /\ i <= N
      /\ \A k \in 1..i : undoSteps[k].changes \in Seq(Change) /\ k \in DOMAIN undoSteps
  <2>1. N \in Nat /\ i \in Nat /\ i >= 1 /\ i <= N /\ DOMAIN undoSteps = 1..N
    BY LenProperties
  <2>2. \A k \in 1..i : undoSteps[k] \in Step /\ k \in 1..N
    BY <2>1, ElementOfSeq
  <2> QED
    BY <2>1, <2>2 DEF Step
<1>2. MergesTo(f, i)
  <2>1. \E g : MergesTo(g, i)
    BY <1>1, MergeExists
  <2> QED
    BY <2>1
<1>3. MergedChanges(i) = f[i]
  BY DEF MergedChanges, MergesTo
<1>4. \A k \in 1..(N + 1) : hs[k] \in Db
  BY ElementOfSeq DEF Chain
<1> HIDE DEF f, N
<1>5. 0 \in P
  <2>1. 0 \in 0..i /\ 1 \in 1..(N + 1) /\ 0 + 1 = 1
    BY <1>1
  <2>2. f[0] = <<>>
    BY <1>2, <2>1 DEF MergesTo
  <2>3. Leads("undo", hs[1], <<>>, hs[1])
    BY <1>4, <2>1, NearReflexive, LeadsEmpty
  <2>4. Good(0)
    BY <2>1, <2>2, <2>3, EmptySeq DEF EndsModified
  <2> HIDE DEF Good
  <2> QED
    BY <2>4
<1>6. ASSUME NEW k \in Nat, k + 1 <= i, Good(k)
      PROVE  /\ f[k + 1] = undoSteps[k + 1].changes \o f[k]
             /\ undoSteps[k + 1].changes \in Seq(Change)
             /\ Good(k + 1)
  <2>1. /\ k + 1 \in 1..i /\ k + 1 \in 0..i /\ k + 1 # 0 /\ (k + 1) - 1 = k
        /\ k + 1 \in 1..N /\ (k + 1) + 1 \in 1..(N + 1)
    BY <1>1, <1>6
  <2>2. f[k + 1] = undoSteps[k + 1].changes \o f[k]
    <3>1. f[k + 1] = IF k + 1 = 0 THEN <<>> ELSE undoSteps[k + 1].changes \o f[(k + 1) - 1]
      BY <1>2, <2>1 DEF MergesTo
    <3> QED
      BY <2>1, <3>1
  <2>3. undoSteps[k + 1].changes \in Seq(Change) /\ EndsModified(undoSteps[k + 1].changes)
    BY <1>1, <2>1
  <2>4. Leads("undo", hs[(k + 1) + 1], undoSteps[k + 1].changes, hs[k + 1])
    BY <2>1 DEF Chain, N
  <2>5. hs[1] \in Db
    BY <1>1, <1>4
  <2>6. Leads("undo", hs[(k + 1) + 1], undoSteps[k + 1].changes \o f[k], hs[1])
    BY <1>6, <2>3, <2>4, <2>5, LeadsConcat
  <2>7. undoSteps[k + 1].changes \o f[k] \in Seq(Change) /\ EndsModified(undoSteps[k + 1].changes \o f[k])
    BY <1>6, <2>3, ConcatEnds, ConcatProperties
  <2> QED
    BY <2>2, <2>3, <2>6, <2>7
<1> HIDE DEF Good
<1>7. ASSUME NEW k \in P PROVE k + 1 \in P
  <2> SUFFICES ASSUME k + 1 <= i PROVE Good(k + 1)
    OBVIOUS
  <2>1. k \in Nat /\ k <= i
    BY <1>1
  <2>2. Good(k)
    BY <2>1
  <2> QED
    BY <1>6, <2>1, <2>2
<1>8. P = Nat
  <2>1. P \in SUBSET Nat
    OBVIOUS
  <2> HIDE DEF P
  <2> QED
    BY <1>5, <1>7, <2>1, Induction
<1>9. Good(i) /\ Good(i - 1)
  <2>1. i \in P /\ i - 1 \in P /\ i <= i /\ i - 1 <= i
    BY <1>1, <1>8
  <2> QED
    BY <2>1
<1>10. undoSteps[i].changes # <<>> => f[i] # <<>>
  <2>1. i - 1 \in Nat /\ (i - 1) + 1 = i
    BY <1>1
  <2>2. f[i] = undoSteps[i].changes \o f[i - 1] /\ undoSteps[i].changes \in Seq(Change)
    <3>1. (i - 1) + 1 <= i
      BY <2>1
    <3>2. /\ f[(i - 1) + 1] = undoSteps[(i - 1) + 1].changes \o f[i - 1]
          /\ undoSteps[(i - 1) + 1].changes \in Seq(Change)
      BY <1>6, <1>9, <2>1, <3>1
    <3> QED
      BY <2>1, <3>2
  <2>3. f[i - 1] \in Seq(Change)
    BY <1>9 DEF Good
  <2> QED
    BY <2>2, <2>3, ConcatEnds
<1> QED
  BY <1>3, <1>9, <1>10 DEF Good

-----------------------------------------------------------------------------
(* Chains when steps come and go                                           *)

\* From its second state on, hs1 holds the states of hs from the m + 1st on.
Shift(hs, hs1, m, len) == Len(hs1) = len /\ \A k \in 2..len : hs1[k] = hs[(k + m) - 1]

\* Likewise ss1 and the steps of ss.
Reuses(ss, hs, ss1, m) ==
    /\ \A k \in 2..(Len(ss1) + 1) : (k + m) - 1 \in 1..Len(hs)
    /\ \A k \in 2..Len(ss1) : (k + m) - 1 \in 1..Len(ss) /\ ss1[k].changes = ss[(k + m) - 1].changes

LEMMA ChainShift ==
    ASSUME NEW dir, NEW ss, NEW hs, Chain(dir, ss, hs), NEW e \in Db, Clean(e),
           NEW ss1, Len(ss1) \in Nat, NEW m \in Nat,
           Reuses(ss, hs, ss1, m), Len(ss1) # 0 => Leads(dir, hs[m + 1], ss1[1].changes, e)
    PROVE  \E hs1 : Chain(dir, ss1, hs1) /\ hs1[1] = e /\ Shift(hs, hs1, m, Len(ss1) + 1)
<1> DEFINE n == Len(ss1)
           w == [k \in 1..(n + 1) |-> IF k = 1 THEN e ELSE hs[(k + m) - 1]]
<1>1. hs \in Seq(Db) /\ (\A k \in 1..Len(hs) : hs[k] \in Db /\ Clean(hs[k]))
  BY ElementOfSeq DEF Chain
<1> HIDE DEF n
<1>2. n \in Nat
  BY DEF n
<1>3. \A k \in 1..(n + 1) : k # 1 => k \in 2..(n + 1)
  BY <1>2
<1>4. \A k \in 1..(n + 1) : w[k] = IF k = 1 THEN e ELSE hs[(k + m) - 1]
  OBVIOUS
<1>5. \A k \in 1..(n + 1) : w[k] \in Db /\ Clean(w[k])
  BY <1>1, <1>3, <1>4 DEF n, Reuses
<1>6. w \in Seq(Db) /\ Len(w) = n + 1
  <2>1. n + 1 \in Nat
    BY <1>2
  <2>2. w \in [1..(n + 1) -> Db]
    <3> SUFFICES ASSUME NEW k \in 1..(n + 1) PROVE w[k] \in Db
      OBVIOUS
    <3> QED
      BY <1>5
  <2> HIDE DEF w
  <2>3. w \in Seq(Db)
    BY <2>1, <2>2, SeqDef
  <2>4. DOMAIN w = 1..(n + 1) /\ DOMAIN w = 1..Len(w) /\ Len(w) \in Nat
    BY <2>2, <2>3, LenProperties
  <2> QED
    BY <2>1, <2>2, <2>3, <2>4
<1> HIDE DEF w
<1>7. w[1] = e
  <2>1. 1 \in 1..(n + 1)
    BY <1>2
  <2> QED
    BY <1>4, <2>1
<1>8. Shift(hs, w, m, n + 1)
  <2>1. \A k \in 2..(n + 1) : k \in 1..(n + 1) /\ k # 1
    BY <1>2
  <2> QED
    BY <1>4, <1>6, <2>1 DEF Shift
<1>9. ASSUME NEW k \in 1..n PROVE Leads(dir, w[k + 1], ss1[k].changes, w[k])
  <2>1. k \in 1..(n + 1) /\ k + 1 \in 1..(n + 1) /\ k + 1 # 1 /\ w[k + 1] = hs[((k + 1) + m) - 1]
    BY <1>2, <1>4
  <2>2. CASE k = 1
    <3>1. n # 0 /\ ((k + 1) + m) - 1 = m + 1
      BY <2>2
    <3> QED
      BY <1>7, <2>1, <2>2, <3>1 DEF n
  <2>3. CASE k # 1
    <3>1. k \in 2..n /\ ((k + 1) + m) - 1 = ((k + m) - 1) + 1
      BY <1>2, <2>3
    <3>2. (k + m) - 1 \in 1..Len(ss) /\ ss1[k].changes = ss[(k + m) - 1].changes
      BY <3>1 DEF n, Reuses
    <3>3. Leads(dir, hs[((k + m) - 1) + 1], ss[(k + m) - 1].changes, hs[(k + m) - 1])
      BY <3>2 DEF Chain
    <3>4. w[k] = hs[(k + m) - 1]
      BY <1>4, <2>1, <2>3
    <3> QED
      BY <2>1, <3>1, <3>2, <3>3, <3>4
  <2> QED
    BY <2>2, <2>3
<1>10. Chain(dir, ss1, w)
  BY <1>5, <1>6, <1>9 DEF Chain, n
<1> QED
  BY <1>7, <1>8, <1>10 DEF n

LEMMA ChainLength ==
    ASSUME NEW dir, NEW ss \in Seq(Step), NEW hs, Chain(dir, ss, hs)
    PROVE  /\ Len(ss) \in Nat /\ Len(hs) = Len(ss) + 1 /\ 1 \in 1..Len(hs)
           /\ hs \in Seq(Db)
           /\ \A k \in 1..Len(hs) : hs[k] \in Db /\ Clean(hs[k])
           /\ ss # <<>> => Len(hs) > 1 /\ Leads(dir, hs[2], ss[1].changes, hs[1])
<1>1. Len(ss) \in Nat /\ (Len(ss) = 0 => ss = <<>>)
  BY LenProperties, EmptySeq
<1>2. hs \in Seq(Db) /\ Len(hs) = Len(ss) + 1
  BY DEF Chain
<1>3. \A k \in 1..Len(hs) : hs[k] \in Db /\ Clean(hs[k])
  BY <1>2, ElementOfSeq DEF Chain
<1>4. ss # <<>> => 1 \in 1..Len(ss) /\ 1 + 1 = 2
  BY <1>1
<1>5. ss # <<>> => Leads(dir, hs[2], ss[1].changes, hs[1])
  BY <1>4 DEF Chain
<1> QED
  BY <1>1, <1>2, <1>3, <1>5

\* No steps
LEMMA ChainEmpty ==
    ASSUME NEW dir, NEW e \in Db, Clean(e)
    PROVE  \E hs1 : Chain(dir, <<>>, hs1) /\ hs1[1] = e /\ Len(hs1) = 1
<1> DEFINE w == <<e>>
<1>1. w \in Seq(Db) /\ Len(w) = 1 /\ w[1] = e /\ Len(<<>>) = 0
  OBVIOUS
<1> HIDE DEF w
<1>2. Chain(dir, <<>>, w)
  BY <1>1 DEF Chain
<1> QED
  BY <1>1, <1>2

\* The same steps, from a state near the first
LEMMA ChainMove ==
    ASSUME NEW dir, NEW ss \in Seq(Step), NEW hs, Chain(dir, ss, hs),
           NEW e \in Db, Clean(e), Near(dir, hs[1], e)
    PROVE  \E hs1 : Chain(dir, ss, hs1) /\ hs1[1] = e /\ Shift(hs, hs1, 1, Len(hs))
<1>1. /\ Len(ss) \in Nat /\ Len(hs) = Len(ss) + 1
      /\ ss # <<>> => Leads(dir, hs[2], ss[1].changes, hs[1])
      /\ Len(ss) # 0 => ss # <<>>
  BY ChainLength, EmptySeq
<1>2. Len(ss) # 0 => Leads(dir, hs[1 + 1], ss[1].changes, e)
  <2>1. Near(dir, hs[2], hs[2]) /\ 1 + 1 = 2
    BY NearReflexive
  <2> QED
    BY <1>1, <2>1, LeadsNear
<1>3. Reuses(ss, hs, ss, 1)
  BY <1>1 DEF Reuses
<1>4. 1 \in Nat
  OBVIOUS
<1> QED
  BY <1>1, <1>2, <1>3, <1>4, ChainShift

\* The same steps, the first of them taking in what led to e
LEMMA ChainRetake ==
    ASSUME NEW dir, NEW ss \in Seq(Step), NEW hs, Chain(dir, ss, hs),
           NEW e \in Db, Clean(e), Leads(dir, hs[2], ss[1].changes, e)
    PROVE  \E hs1 : Chain(dir, ss, hs1) /\ hs1[1] = e /\ Shift(hs, hs1, 1, Len(hs))
<1>1. Len(ss) \in Nat /\ Len(hs) = Len(ss) + 1 /\ 1 \in Nat /\ 1 + 1 = 2
  BY ChainLength
<1>2. Reuses(ss, hs, ss, 1)
  BY <1>1 DEF Reuses
<1>3. Len(ss) # 0 => Leads(dir, hs[1 + 1], ss[1].changes, e)
  BY <1>1
<1> QED
  BY <1>1, <1>2, <1>3, ChainShift

\* One more step
LEMMA ChainPush ==
    ASSUME NEW dir, NEW ss \in Seq(Step), NEW hs, Chain(dir, ss, hs),
           NEW e \in Db, Clean(e), NEW s \in Step, Leads(dir, hs[1], s.changes, e)
    PROVE  \E hs1 : Chain(dir, <<s>> \o ss, hs1) /\ hs1[1] = e /\ Shift(hs, hs1, 0, Len(hs) + 1)
<1> DEFINE p == <<s>> \o ss
<1>1. Len(ss) \in Nat /\ Len(hs) = Len(ss) + 1
  BY ChainLength
<1>2. Len(ss) \in Nat /\ Len(hs) = Len(ss) + 1 /\ 0 \in Nat /\ 0 + 1 = 1
  BY <1>1
<1>3. <<s>> \in Seq(Step) /\ Len(<<s>>) = 1 /\ <<s>>[1] = s
  OBVIOUS
<1>4. /\ p \in Seq(Step) /\ Len(p) = 1 + Len(ss)
      /\ \A i \in 1..(1 + Len(ss)) : p[i] = IF i <= 1 THEN <<s>>[i] ELSE ss[i - 1]
  BY <1>3, ConcatProperties
<1> HIDE DEF p
<1>5. p[1] = s
  <2>1. 1 \in 1..(1 + Len(ss)) /\ 1 <= 1
    BY <1>2
  <2> QED
    BY <1>3, <1>4, <2>1
<1>6. Reuses(ss, hs, p, 0)
  <2>1. \A k \in 2..(Len(p) + 1) : (k + 0) - 1 \in 1..Len(hs)
    BY <1>2, <1>4
  <2>2. ASSUME NEW k \in 2..Len(p)
        PROVE  (k + 0) - 1 \in 1..Len(ss) /\ p[k].changes = ss[(k + 0) - 1].changes
    <3>1. k \in 1..(1 + Len(ss)) /\ ~(k <= 1) /\ (k + 0) - 1 = k - 1 /\ k - 1 \in 1..Len(ss)
      BY <1>2, <1>4
    <3> QED
      BY <1>4, <3>1
  <2> QED
    BY <2>1, <2>2 DEF Reuses
<1>7. Len(p) \in Nat /\ Len(p) + 1 = Len(hs) + 1
  BY <1>2, <1>4
<1>8. Leads(dir, hs[0 + 1], p[1].changes, e)
  BY <1>2, <1>5
<1>9. \E hs1 : Chain(dir, p, hs1) /\ hs1[1] = e /\ Shift(hs, hs1, 0, Len(p) + 1)
  BY <1>2, <1>6, <1>7, <1>8, ChainShift
<1> QED
  BY <1>7, <1>9 DEF p

\* How many states the limit leaves
Room(n) == IF n < UndoLimit THEN n + 1 ELSE UndoLimit + 1

\* One more step, with room made for it
LEMMA ChainPushTruncated ==
    ASSUME NEW dir, NEW ss \in Seq(Step), NEW hs, Chain(dir, ss, hs),
           NEW e \in Db, Clean(e), NEW s \in Step, Leads(dir, hs[1], s.changes, e)
    PROVE  \E hs1 : Chain(dir, <<s>> \o Truncate(ss), hs1) /\ hs1[1] = e
                    /\ Shift(hs, hs1, 0, Room(Len(hs)))
<1> DEFINE n == IF Len(ss) < UndoLimit - 1 THEN Len(ss) ELSE UndoLimit - 1
           t == Truncate(ss)
           p == <<s>> \o t
<1>1. Len(ss) \in Nat /\ Len(hs) = Len(ss) + 1
  BY ChainLength
<1>2. Len(ss) \in Nat /\ Len(hs) = Len(ss) + 1 /\ 0 \in Nat /\ 0 + 1 = 1
  BY <1>1
<1>3. n \in Nat /\ n <= Len(ss) /\ Room(Len(hs)) = (n + 1) + 1
  BY <1>2, UndoAssumption DEF Room
<1>4. /\ t \in Seq(Step) /\ Len(t) <= Len(ss)
      /\ \A i \in 1..Len(t) : t[i] = ss[i]
  BY TruncateType
<1>5. Len(t) = n
  <2>1. \A i \in 1..n : ss[i] \in Step
    BY <1>2, <1>3, ElementOfSeq
  <2> HIDE DEF n
  <2>2. Len(SubSeq(ss, 1, n)) = IF 1 <= n THEN n - 1 + 1 ELSE 0
    BY <1>3, <2>1, SubSeqProperties
  <2>3. Len(SubSeq(ss, 1, n)) = n
    BY <1>3, <2>2
  <2> QED
    BY <2>3 DEF Truncate, n
<1>6. <<s>> \in Seq(Step) /\ Len(<<s>>) = 1 /\ <<s>>[1] = s
  OBVIOUS
<1> HIDE DEF n, t
<1>7. /\ p \in Seq(Step) /\ Len(p) = 1 + n
      /\ \A i \in 1..(1 + n) : p[i] = IF i <= 1 THEN <<s>>[i] ELSE t[i - 1]
  BY <1>4, <1>5, <1>6, ConcatProperties
<1> HIDE DEF p
<1>8. p[1] = s
  <2>1. 1 \in 1..(1 + n) /\ 1 <= 1
    BY <1>3
  <2> QED
    BY <1>6, <1>7, <2>1
<1>9. Reuses(ss, hs, p, 0)
  <2>1. \A k \in 2..(Len(p) + 1) : (k + 0) - 1 \in 1..Len(hs)
    BY <1>2, <1>3, <1>7
  <2>2. ASSUME NEW k \in 2..Len(p)
        PROVE  (k + 0) - 1 \in 1..Len(ss) /\ p[k].changes = ss[(k + 0) - 1].changes
    <3>1. k \in 1..(1 + n) /\ ~(k <= 1) /\ (k + 0) - 1 = k - 1 /\ k - 1 \in 1..Len(ss) /\ k - 1 \in 1..n
      BY <1>2, <1>3, <1>7
    <3> QED
      BY <1>4, <1>5, <1>7, <3>1
  <2> QED
    BY <2>1, <2>2 DEF Reuses
<1>10. Len(p) \in Nat /\ Len(p) + 1 = Room(Len(hs))
  BY <1>3, <1>7
<1>11. Leads(dir, hs[0 + 1], p[1].changes, e)
  BY <1>2, <1>8
<1>12. \E hs1 : Chain(dir, p, hs1) /\ hs1[1] = e /\ Shift(hs, hs1, 0, Len(p) + 1)
  BY <1>2, <1>9, <1>10, <1>11, ChainShift
<1> QED
  BY <1>10, <1>12 DEF p, t

\* One step fewer
LEMMA ChainPop ==
    ASSUME NEW dir, NEW ss \in Seq(Step), NEW s \in Step, NEW hs, Chain(dir, <<s>> \o ss, hs),
           NEW e \in Db, Clean(e), Near(dir, hs[2], e)
    PROVE  /\ Len(hs) > 1
           /\ \E hs1 : Chain(dir, ss, hs1) /\ hs1[1] = e /\ Shift(hs, hs1, 2, Len(hs) - 1)
<1> DEFINE p == <<s>> \o ss
<1>1. <<s>> \in Seq(Step) /\ Len(<<s>>) = 1 /\ <<s>>[1] = s
  OBVIOUS
<1>2. /\ p \in Seq(Step) /\ Len(p) = 1 + Len(ss) /\ Len(ss) \in Nat
      /\ \A i \in 1..(1 + Len(ss)) : p[i] = IF i <= 1 THEN <<s>>[i] ELSE ss[i - 1]
  BY <1>1, ConcatProperties, LenProperties
<1>3. Chain(dir, p, hs)
  OBVIOUS
<1> HIDE DEF p
<1>4. Len(hs) = Len(p) + 1 /\ 2 \in Nat
  BY <1>2, <1>3, ChainLength
<1>5. \A k \in 1..Len(ss) : k + 1 \in 1..Len(p) /\ p[k + 1] = ss[k]
  <2> TAKE k \in 1..Len(ss)
  <2>1. k + 1 \in 1..(1 + Len(ss)) /\ ~(k + 1 <= 1) /\ (k + 1) - 1 = k
    BY <1>2
  <2> QED
    BY <1>2, <2>1
<1>6. Reuses(p, hs, ss, 2)
  <2>1. \A k \in 2..(Len(ss) + 1) : (k + 2) - 1 \in 1..Len(hs)
    BY <1>2, <1>4
  <2>2. \A k \in 2..Len(ss) : k \in 1..Len(ss) /\ (k + 2) - 1 = k + 1
    BY <1>2
  <2> QED
    BY <1>5, <2>1, <2>2 DEF Reuses
<1>7. Len(ss) # 0 => Leads(dir, hs[2 + 1], ss[1].changes, e)
  <2> SUFFICES ASSUME Len(ss) # 0 PROVE Leads(dir, hs[2 + 1], ss[1].changes, e)
    OBVIOUS
  <2>1. 1 \in 1..Len(ss) /\ 1 + 1 = 2
    BY <1>2
  <2>2. 2 \in 1..Len(p) /\ p[2] = ss[1]
    BY <1>5, <2>1
  <2>3. Leads(dir, hs[2 + 1], ss[1].changes, hs[2])
    BY <1>3, <2>2 DEF Chain
  <2>4. Near(dir, hs[2 + 1], hs[2 + 1])
    BY NearReflexive
  <2> QED
    BY <2>3, <2>4, LeadsNear
<1>8. \E hs1 : Chain(dir, ss, hs1) /\ hs1[1] = e /\ Shift(hs, hs1, 2, Len(ss) + 1)
  BY <1>2, <1>3, <1>4, <1>6, <1>7, ChainShift
<1>9. Len(hs) > 1 /\ Len(ss) + 1 = Len(hs) - 1
  BY <1>2, <1>4
<1> QED
  BY <1>8, <1>9

\* The i newest steps become one
LEMMA ChainMerge ==
    ASSUME NEW dir, NEW ss \in Seq(Step), NEW hs, Chain(dir, ss, hs), NEW i \in 1..Len(ss),
           NEW m \in Step, Leads(dir, hs[i + 1], m.changes, hs[1])
    PROVE  \E hs1 : Chain(dir, <<m>> \o SubSeq(ss, i + 1, Len(ss)), hs1) /\ hs1[1] = hs[1]
                    /\ Shift(hs, hs1, i, Len(hs) - (i - 1))
<1> DEFINE rest == SubSeq(ss, i + 1, Len(ss))
           p == <<m>> \o rest
           e == hs[1]
<1>1. Len(ss) \in Nat /\ Len(hs) = Len(ss) + 1 /\ e \in Db /\ Clean(e)
  BY ChainLength
<1>2. i \in Nat /\ i \in Nat /\ i >= 1 /\ i <= Len(ss)
  BY <1>1
<1>3. /\ rest \in Seq(Step)
      /\ Len(rest) = IF i < Len(ss) THEN Len(ss) - i ELSE 0
      /\ \A k \in 1..(Len(ss) - i) : rest[k] = ss[i + k]
  BY <1>2, SuffixType
<1>4. <<m>> \in Seq(Step) /\ Len(<<m>>) = 1 /\ <<m>>[1] = m
  OBVIOUS
<1> HIDE DEF rest, e
<1>5. Len(rest) = Len(ss) - i
  BY <1>1, <1>2, <1>3
<1>6. /\ p \in Seq(Step) /\ Len(p) = 1 + (Len(ss) - i)
      /\ \A k \in 1..(1 + (Len(ss) - i)) : p[k] = IF k <= 1 THEN <<m>>[k] ELSE rest[k - 1]
  <2>1. /\ p \in Seq(Step) /\ Len(p) = 1 + Len(rest)
        /\ \A k \in 1..(1 + Len(rest)) : p[k] = IF k <= 1 THEN <<m>>[k] ELSE rest[k - 1]
    BY <1>3, <1>4, ConcatProperties
  <2> HIDE DEF p
  <2> QED
    BY <1>5, <2>1
<1> HIDE DEF p
<1>7. p[1] = m
  <2>1. 1 \in 1..(1 + (Len(ss) - i)) /\ 1 <= 1
    BY <1>1, <1>2
  <2> QED
    BY <1>4, <1>6, <2>1
<1>8. \A k \in 2..(Len(p) + 1) : (k + i) - 1 \in 1..Len(hs)
  BY <1>1, <1>2, <1>6
<1>9. ASSUME NEW k \in 2..Len(p)
      PROVE  (k + i) - 1 \in 1..Len(ss) /\ p[k].changes = ss[(k + i) - 1].changes
  <2>1. /\ k \in 1..(1 + (Len(ss) - i)) /\ ~(k <= 1) /\ k - 1 \in 1..(Len(ss) - i)
        /\ i + (k - 1) = (k + i) - 1 /\ (k + i) - 1 \in 1..Len(ss)
    BY <1>1, <1>2, <1>6
  <2> QED
    BY <1>3, <1>6, <2>1
<1>10. Len(p) \in Nat /\ Len(p) + 1 = Len(hs) - (i - 1)
  BY <1>1, <1>2, <1>6
<1>11. Leads(dir, hs[i + 1], p[1].changes, e)
  BY <1>2, <1>7 DEF e
<1>12. Reuses(ss, hs, p, i)
  BY <1>8, <1>9 DEF Reuses
<1>13. \E hs1 : Chain(dir, p, hs1) /\ hs1[1] = e /\ Shift(hs, hs1, i, Len(p) + 1)
  <2>1. e \in Db /\ Clean(e)
    BY <1>1
  <2>2. i \in Nat /\ Len(p) \in Nat
    BY <1>2, <1>10
  <2>3. Len(p) # 0 => Leads(dir, hs[i + 1], p[1].changes, e)
    BY <1>11
  <2> QED
    BY <1>12, <2>1, <2>2, <2>3, ChainShift
<1> QED
  BY <1>10, <1>13 DEF p, rest, e

-----------------------------------------------------------------------------
(* The redo queue, newest last                                             *)

LEMMA ReverseProperties ==
    ASSUME NEW S, NEW s \in Seq(S)
    PROVE  /\ Reverse(s) \in Seq(S) /\ Len(Reverse(s)) = Len(s)
           /\ \A i \in 1..Len(s) : Reverse(s)[i] = s[(Len(s) - i) + 1]
<1> DEFINE r == [i \in 1..Len(s) |-> s[(Len(s) - i) + 1]]
<1>1. Len(s) \in Nat /\ \A i \in 1..Len(s) : s[i] \in S
  BY LenProperties, ElementOfSeq
<1>2. \A i \in 1..Len(s) : (Len(s) - i) + 1 \in 1..Len(s)
  BY <1>1
<1>3. r \in [1..Len(s) -> S]
  BY <1>1, <1>2
<1>4. \A i \in 1..Len(s) : r[i] = s[(Len(s) - i) + 1]
  OBVIOUS
<1> HIDE DEF r
<1>5. r \in Seq(S)
  BY <1>1, <1>3, SeqDef
<1>6. Len(r) = Len(s)
  <2>1. DOMAIN r = 1..Len(s) /\ DOMAIN r = 1..Len(r) /\ Len(r) \in Nat
    BY <1>3, <1>5, LenProperties
  <2> QED
    BY <1>1, <2>1
<1>7. Reverse(s) = r
  BY DEF Reverse, r
<1> QED
  BY <1>4, <1>5, <1>6, <1>7

LEMMA ReverseAppend ==
    ASSUME NEW S, NEW s \in Seq(S), NEW x \in S
    PROVE  Reverse(Append(s, x)) = <<x>> \o Reverse(s)
<1> DEFINE n == Len(s)
           t == Append(s, x)
           r == Reverse(s)
<1>1. /\ t \in Seq(S) /\ Len(t) = n + 1 /\ n \in Nat
      /\ \A i \in 1..n : t[i] = s[i]
      /\ t[n + 1] = x
  BY AppendProperties, LenProperties
<1>2. r \in Seq(S) /\ Len(r) = n /\ \A i \in 1..n : r[i] = s[(n - i) + 1]
  BY ReverseProperties
<1> HIDE DEF t, r, n
<1>3. Reverse(t) \in Seq(S) /\ Len(Reverse(t)) = n + 1
      /\ \A i \in 1..(n + 1) : Reverse(t)[i] = t[((n + 1) - i) + 1]
  BY <1>1, ReverseProperties
<1>4. <<x>> \in Seq(S) /\ Len(<<x>>) = 1 /\ <<x>>[1] = x
  OBVIOUS
<1>5. /\ <<x>> \o r \in Seq(S) /\ Len(<<x>> \o r) = 1 + n
      /\ \A i \in 1..(1 + n) : (<<x>> \o r)[i] = IF i <= 1 THEN <<x>>[i] ELSE r[i - 1]
  BY <1>2, <1>4, ConcatProperties
<1>6. \A i \in 1..(n + 1) : Reverse(t)[i] = (<<x>> \o r)[i]
  <2> TAKE i \in 1..(n + 1)
  <2>1. i \in 1..(1 + n) /\ i \in Nat
    BY <1>1
  <2>2. CASE i = 1
    <3>1. ((n + 1) - i) + 1 = n + 1 /\ i <= 1
      BY <1>1, <2>2
    <3> QED
      BY <1>1, <1>3, <1>4, <1>5, <2>1, <2>2, <3>1
  <2>3. CASE i # 1
    <3>1. /\ ~(i <= 1) /\ i - 1 \in 1..n /\ ((n + 1) - i) + 1 \in 1..n
          /\ (n - (i - 1)) + 1 = ((n + 1) - i) + 1
      BY <1>1, <2>3
    <3>2. Reverse(t)[i] = s[((n + 1) - i) + 1]
      BY <1>1, <1>3, <3>1
    <3>3. (<<x>> \o r)[i] = s[(n - (i - 1)) + 1]
      BY <1>2, <1>5, <2>1, <3>1
    <3> QED
      BY <3>1, <3>2, <3>3
  <2> QED
    BY <2>2, <2>3
<1>7. Reverse(t) = <<x>> \o r
  <2>1. Len(<<x>> \o r) = n + 1
    BY <1>1, <1>5
  <2> QED
    BY <1>3, <1>5, <1>6, <2>1, SeqEqual
<1> QED
  BY <1>7 DEF t, r

LEMMA FrontLast ==
    ASSUME NEW S, NEW s \in Seq(S), s # <<>>
    PROVE  /\ Front(s) \in Seq(S) /\ Last(s) \in S /\ Append(Front(s), Last(s)) = s
<1> DEFINE n == Len(s)
           f == Front(s)
<1>1. n \in Nat /\ n # 0 /\ n \in 1..n /\ f \in Seq(S)
  BY LenProperties, EmptySeq, FrontType
<1>2. Last(s) = s[n] /\ s[n] \in S
  BY <1>1, ElementOfSeq DEF Last
<1>3. \A i \in 1..(n - 1) : s[i] \in S
  BY <1>1, ElementOfSeq
<1>4. /\ Len(SubSeq(s, 1, n - 1)) = IF 1 <= n - 1 THEN (n - 1) - 1 + 1 ELSE 0
      /\ \A i \in 1..((n - 1) - 1 + 1) : SubSeq(s, 1, n - 1)[i] = s[1 + i - 1]
  BY <1>1, <1>3, SubSeqProperties
<1>5. f = SubSeq(s, 1, n - 1)
  BY DEF Front
<1> HIDE DEF n, f
<1>6. Len(f) = n - 1 /\ \A i \in 1..(n - 1) : f[i] = s[i]
  <2>1. (IF 1 <= n - 1 THEN (n - 1) - 1 + 1 ELSE 0) = n - 1
    BY <1>1
  <2>2. \A i \in 1..(n - 1) : i \in 1..((n - 1) - 1 + 1) /\ 1 + i - 1 = i
    BY <1>1
  <2> QED
    BY <1>4, <1>5, <2>1, <2>2
<1>7. /\ Append(f, s[n]) \in Seq(S) /\ Len(Append(f, s[n])) = (n - 1) + 1
      /\ \A i \in 1..(n - 1) : Append(f, s[n])[i] = f[i]
      /\ Append(f, s[n])[(n - 1) + 1] = s[n]
  <2>1. /\ Append(f, s[n]) \in Seq(S) /\ Len(Append(f, s[n])) = Len(f) + 1
        /\ \A i \in 1..Len(f) : Append(f, s[n])[i] = f[i]
        /\ Append(f, s[n])[Len(f) + 1] = s[n]
    BY <1>1, <1>2, AppendProperties
  <2> QED
    BY <1>6, <2>1
<1>8. \A i \in 1..n : Append(f, s[n])[i] = s[i]
  <2> TAKE i \in 1..n
  <2>1. i = n \/ i \in 1..(n - 1)
    BY <1>1
  <2>2. (n - 1) + 1 = n
    BY <1>1
  <2> QED
    BY <1>6, <1>7, <2>1, <2>2
<1>9. Append(f, s[n]) = s
  <2>1. Len(Append(f, s[n])) = n /\ Len(s) = n
    BY <1>1, <1>7 DEF n
  <2> QED
    BY <1>7, <1>8, <2>1, SeqEqual
<1> QED
  BY <1>1, <1>2, <1>9 DEF f

-----------------------------------------------------------------------------
(* What the operations leave in the queues                                 *)

\* EndStep keeps such a step.
Kept(s) == HasChanges(s) /\ s.kind # "SkipUndo"

\* The steps that the two queues hold
Undoable == {s \in Step : Kept(s) /\ EndsModified(s.changes)}
Redoable == {s \in Step : Kept(s) /\ StartsModified(s.changes)}

\* What the queues, the mode and the step being recorded have to do with each other
Flow ==
    /\ Steps \in Seq(Undoable) /\ Undone \in Seq(Redoable)
    /\ mode = "NormalOp" => todo = <<>> /\ (op # Idle => redoSteps = <<>>)
    /\ mode # "NormalOp" => popped \in Step /\ op = popped.kind
    /\ op = "NoUndo" => mode = "NormalOp" /\ undoSteps = <<>>
    /\ op = "SkipUndo" => mode = "NormalOp" /\ "SkipUndo" \in Ops
    /\ op \in OpKind => currentStep.kind = op
    /\ mode = "Undoing" =>
          IF currentStep.changes = <<>> THEN todo = popped.changes
          ELSE StartsModified(currentStep.changes)
    /\ mode = "Redoing" =>
          /\ StartsModified(todo)
          /\ todo = <<>> => /\ EndsModified(currentStep.changes)
                            /\ currentStep.changes = <<>> => popped.changes = <<>>

LEMMA FirstAndRest ==
    ASSUME NEW S, NEW G, NEW s \in S, NEW ss \in Seq(S), <<s>> \o ss \in Seq(G)
    PROVE  s \in G /\ ss \in Seq(G)
<1>1. <<s>> \in Seq(S) /\ Len(<<s>>) = 1 /\ <<s>>[1] = s
  OBVIOUS
<1>2. /\ Len(<<s>> \o ss) = 1 + Len(ss) /\ Len(ss) \in Nat /\ DOMAIN ss = 1..Len(ss)
      /\ \A i \in 1..(1 + Len(ss)) : (<<s>> \o ss)[i] = IF i <= 1 THEN <<s>>[i] ELSE ss[i - 1]
  BY <1>1, ConcatProperties, LenProperties
<1>3. \A i \in 1..(1 + Len(ss)) : (<<s>> \o ss)[i] \in G
  BY <1>2, ElementOfSeq
<1>4. s \in G
  <2>1. 1 \in 1..(1 + Len(ss)) /\ 1 <= 1
    BY <1>2
  <2> QED
    BY <1>1, <1>2, <1>3, <2>1
<1>5. ASSUME NEW i \in 1..Len(ss) PROVE ss[i] \in G
  <2>1. i + 1 \in 1..(1 + Len(ss)) /\ ~(i + 1 <= 1) /\ (i + 1) - 1 = i
    BY <1>2
  <2> QED
    BY <1>2, <1>3, <2>1
<1>6. ss \in Seq(G)
  <2>1. ss = [i \in 1..Len(ss) |-> ss[i]]
    BY <1>2, SeqDef
  <2>2. ss \in [1..Len(ss) -> G]
    BY <1>5, <2>1
  <2> QED
    BY <1>2, <2>2, SeqDef
<1> QED
  BY <1>4, <1>6

LEMMA FrontAndLast ==
    ASSUME NEW S, NEW G, NEW s \in S, NEW ss \in Seq(S), Append(ss, s) \in Seq(G)
    PROVE  s \in G /\ ss \in Seq(G)
<1>1. /\ Len(Append(ss, s)) = Len(ss) + 1 /\ Len(ss) \in Nat /\ DOMAIN ss = 1..Len(ss)
      /\ \A i \in 1..Len(ss) : Append(ss, s)[i] = ss[i]
      /\ Append(ss, s)[Len(ss) + 1] = s
  BY AppendProperties, LenProperties
<1>2. \A i \in 1..(Len(ss) + 1) : Append(ss, s)[i] \in G
  BY <1>1, ElementOfSeq
<1>3. Len(ss) + 1 \in 1..(Len(ss) + 1) /\ \A i \in 1..Len(ss) : i \in 1..(Len(ss) + 1)
  BY <1>1
<1>4. s \in G /\ \A i \in 1..Len(ss) : ss[i] \in G
  BY <1>1, <1>2, <1>3
<1>5. ss \in Seq(G)
  <2>1. ss = [i \in 1..Len(ss) |-> ss[i]]
    BY <1>1, SeqDef
  <2>2. ss \in [1..Len(ss) -> G]
    BY <1>4, <2>1
  <2> QED
    BY <1>1, <2>2, SeqDef
<1> QED
  BY <1>4, <1>5

\* Pushing a step, and making room for it
LEMMA PushKeeps ==
    ASSUME NEW G, NEW s \in G, NEW ss \in Seq(G)
    PROVE  <<s>> \o ss \in Seq(G) /\ <<s>> \o Truncate(ss) \in Seq(G)
<1> DEFINE n == IF Len(ss) < UndoLimit - 1 THEN Len(ss) ELSE UndoLimit - 1
<1>1. n \in Nat /\ n <= Len(ss) /\ Len(ss) \in Nat
  BY UndoAssumption, LenProperties
<1>2. \A i \in 1..n : ss[i] \in G
  BY <1>1, ElementOfSeq
<1> HIDE DEF n
<1>3. SubSeq(ss, 1, n) \in Seq(G)
  BY <1>1, <1>2, SubSeqProperties
<1>4. Truncate(ss) \in Seq(G)
  BY <1>3 DEF Truncate, n
<1>5. <<s>> \in Seq(G)
  OBVIOUS
<1> QED
  BY <1>4, <1>5, ConcatProperties

\* A queue without its first, and put together again
LEMMA HeadAndTail ==
    ASSUME NEW S, NEW ss \in Seq(S), ss # <<>>
    PROVE  Head(ss) \in S /\ Tail(ss) \in Seq(S) /\ <<Head(ss)>> \o Tail(ss) = ss
<1>1. /\ Head(ss) \in S /\ Head(ss) = ss[1] /\ Tail(ss) \in Seq(S) /\ Len(Tail(ss)) = Len(ss) - 1
      /\ \A i \in 1..Len(Tail(ss)) : Tail(ss)[i] = ss[i + 1]
      /\ Len(ss) \in Nat /\ Len(ss) # 0
  BY HeadTailProperties, LenProperties, EmptySeq
<1> DEFINE h == Head(ss)
           t == Tail(ss)
           p == <<h>> \o t
<1>2. <<h>> \in Seq(S) /\ Len(<<h>>) = 1 /\ <<h>>[1] = h
  BY <1>1
<1> HIDE DEF h, t
<1>3. /\ p \in Seq(S) /\ Len(p) = 1 + Len(t)
      /\ \A i \in 1..(1 + Len(t)) : p[i] = IF i <= 1 THEN <<h>>[i] ELSE t[i - 1]
  BY <1>1, <1>2, ConcatProperties DEF t
<1> HIDE DEF p
<1>4. Len(p) = Len(ss)
  BY <1>1, <1>3 DEF t
<1>5. ASSUME NEW i \in 1..Len(p) PROVE p[i] = ss[i]
  <2>1. i \in 1..(1 + Len(t)) /\ i \in Nat
    BY <1>3
  <2>2. CASE i = 1
    BY <1>1, <1>2, <1>3, <2>1, <2>2 DEF h
  <2>3. CASE i # 1
    <3>1. ~(i <= 1) /\ i - 1 \in 1..Len(t) /\ (i - 1) + 1 = i
      BY <1>1, <2>1, <2>3 DEF t
    <3> QED
      BY <1>1, <1>3, <2>1, <3>1 DEF t
  <2> QED
    BY <2>2, <2>3
<1>6. p = ss
  BY <1>3, <1>4, <1>5, SeqEqual
<1> QED
  BY <1>1, <1>6 DEF p, h, t

\* The step that CommitUndoable ends
Ended == IF HasChanges(currentStep) /\ mode = "NormalOp"
         THEN [currentStep EXCEPT !.changes = Append(@, Modified(db.mod))]
         ELSE currentStep

LEMMA EndedStep ==
    ASSUME Types, CommitUndoable
    PROVE  /\ currentStep \in Step /\ Ended \in Step /\ Ended.kind = currentStep.kind
           /\ EndStep(Coalesced(Ended), op = "SkipUndo")
           /\ Ended = currentStep \/ Ended.changes = currentStep.changes \o <<Modified(db.mod)>>
           /\ mode = "NormalOp" => IF HasChanges(currentStep)
                                   THEN Ended.changes = currentStep.changes \o <<Modified(db.mod)>>
                                   ELSE Ended = currentStep
           /\ mode # "NormalOp" => Ended = currentStep
           /\ Modified(db.mod) \in Change
<1>1. currentStep \in Step
  BY DEF Types, Recording, CommitUndoable, TypeOK
<1>2. Modified(db.mod) \in Change
  BY DEF Modified, Change, ModChange, Types, TypeOK, Db
<1>3. /\ Append(currentStep.changes, Modified(db.mod)) \in Seq(Change)
      /\ Append(currentStep.changes, Modified(db.mod)) = currentStep.changes \o <<Modified(db.mod)>>
  BY <1>1, <1>2, AppendProperties, AppendIsConcat DEF Step
<1>4. LET bumped == [currentStep EXCEPT !.changes = Append(@, Modified(db.mod))]
      IN bumped \in Step /\ bumped.kind = currentStep.kind
         /\ bumped.changes = currentStep.changes \o <<Modified(db.mod)>>
  BY <1>1, <1>3 DEF Step
<1>5. EndStep(Coalesced(Ended), op = "SkipUndo")
  BY DEF CommitUndoable, Ended
<1> QED
  BY <1>1, <1>2, <1>4, <1>5 DEF Ended

\* What becomes of the queues
LEMMA Commitment ==
    ASSUME Types, Flow, CommitUndoable
    PROVE  \/ /\ mode = "NormalOp" /\ (~HasChanges(currentStep) \/ op = "SkipUndo")
              /\ undoSteps' = undoSteps /\ redoSteps' = redoSteps
           \/ /\ mode = "NormalOp" /\ op # "SkipUndo" /\ HasChanges(currentStep) /\ ~Coalesces(Ended)
              /\ Ended \in Undoable
              /\ undoSteps' = <<Ended>> \o Truncate(undoSteps) /\ redoSteps' = redoSteps
           \/ /\ mode # "Undoing" /\ Coalesces(Ended)
              /\ undoSteps' = undoSteps /\ redoSteps' = redoSteps
           \/ /\ mode = "Redoing" /\ Ended = currentStep /\ currentStep \in Undoable
              /\ undoSteps' = <<currentStep>> \o Truncate(undoSteps) /\ redoSteps' = redoSteps
           \/ /\ mode = "Undoing" /\ Ended = currentStep /\ currentStep \in Redoable
              /\ undoSteps' = undoSteps /\ redoSteps' = Append(redoSteps, currentStep)
<1>1. /\ currentStep \in Step /\ Ended \in Step /\ Ended.kind = currentStep.kind
      /\ EndStep(Coalesced(Ended), op = "SkipUndo")
      /\ mode = "NormalOp" => IF HasChanges(currentStep)
                              THEN Ended.changes = currentStep.changes \o <<Modified(db.mod)>>
                              ELSE Ended = currentStep
      /\ mode # "NormalOp" => Ended = currentStep
      /\ Modified(db.mod) \in Change
  BY EndedStep
<1>2. op \in OpKind /\ todo = <<>> /\ currentStep.kind = op
      /\ mode \in {"NormalOp", "Undoing", "Redoing"}
  BY DEF CommitUndoable, Flow, Types, TypeOK
<1>3. Coalesces(Ended) => Ended.kind = "UpdateNote" /\ Ended.changes[1].what = "Updated"
                          /\ Ended.changes # <<>>
  BY EmptySeq DEF Coalesces, IsNoteEdit
<1>4. Coalesces(Ended) => ~HasChanges(Coalesced(Ended))
  <2> SUFFICES ASSUME Coalesces(Ended) PROVE ~HasChanges([Ended EXCEPT !.changes = <<>>])
    BY DEF Coalesced
  <2>1. [Ended EXCEPT !.changes = <<>>].changes = <<>> /\ [Ended EXCEPT !.changes = <<>>].kind = Ended.kind
    BY <1>1 DEF Step
  <2> QED
    BY <1>3, <2>1 DEF HasChanges
<1>5. ~Coalesces(Ended) => Coalesced(Ended) = Ended
  BY DEF Coalesced
<1>6. CASE mode = "NormalOp"
  <2>1. CASE ~HasChanges(currentStep) \/ op = "SkipUndo"
    <3>1. ~HasChanges(currentStep) => Ended = currentStep /\ ~Coalesces(Ended)
      BY <1>1, <1>3, <1>6 DEF HasChanges
    <3>2. undoSteps' = undoSteps /\ redoSteps' = redoSteps
      BY <1>1, <1>5, <1>6, <2>1, <3>1 DEF EndStep
    <3> QED
      BY <1>6, <2>1, <3>2
  <2>2. CASE HasChanges(currentStep) /\ op # "SkipUndo"
    <3>1. Ended.changes = currentStep.changes \o <<Modified(db.mod)>>
      BY <1>1, <1>6, <2>2
    <3>2. Ended.changes # <<>> /\ EndsModified(Ended.changes)
      <4>1. <<Modified(db.mod)>> \in Seq(Change) /\ <<Modified(db.mod)>> # <<>>
            /\ EndsModified(<<Modified(db.mod)>>)
        <5>1. PICK m \in Change : m = Modified(db.mod)
          BY <1>1
        <5>2. Last(<<m>>) = m /\ <<m>> # <<>> /\ <<m>> \in Seq(Change)
          BY PairOfChanges
        <5> QED
          BY <5>1, <5>2 DEF EndsModified, Modified
      <4>2. currentStep.changes \in Seq(Change)
        BY <1>1 DEF Step
      <4> QED
        BY <3>1, <4>1, <4>2, ConcatEnds
    <3>3. Ended \in Undoable
      BY <1>1, <1>2, <2>2, <3>2 DEF Undoable, Kept, HasChanges
    <3>4. CASE Coalesces(Ended)
      BY <1>1, <1>4, <1>6, <3>4 DEF EndStep
    <3>5. CASE ~Coalesces(Ended)
      BY <1>1, <1>5, <1>6, <2>2, <3>3, <3>5 DEF EndStep, Undoable, Kept
    <3> QED
      BY <3>4, <3>5
  <2> QED
    BY <2>1, <2>2
<1>7. CASE mode = "Undoing"
  <2>1. Ended = currentStep /\ popped \in Step /\ op = popped.kind /\ op # "SkipUndo" /\ popped \in Undoable
    <3>1. popped \in Step /\ op = popped.kind /\ op # "SkipUndo"
      BY <1>7 DEF Flow
    <3>2. <<popped>> \o undoSteps \in Seq(Undoable) /\ undoSteps \in Seq(Step)
      BY <1>7 DEF Flow, Steps, Types, TypeOK
    <3>3. popped \in Undoable
      BY <3>1, <3>2, FirstAndRest
    <3> QED
      BY <1>1, <1>7, <3>1, <3>3
  <2>2. IF currentStep.changes = <<>> THEN popped.changes = <<>> ELSE StartsModified(currentStep.changes)
    BY <1>2, <1>7 DEF Flow
  <2>3. HasChanges(currentStep)
    BY <1>2, <2>1, <2>2 DEF HasChanges, Undoable, Kept
  <2>4. currentStep \in Redoable
    BY <1>1, <1>2, <2>1, <2>2, <2>3 DEF Redoable, Kept, StartsModified
  <2>5. ~Coalesces(Ended)
    BY <1>3, <2>1, <2>2 DEF StartsModified
  <2> QED
    BY <1>1, <1>5, <1>7, <2>1, <2>3, <2>4, <2>5 DEF EndStep
<1>8. CASE mode = "Redoing"
  <2>1. Ended = currentStep /\ popped \in Step /\ op = popped.kind /\ op # "SkipUndo" /\ popped \in Redoable
    <3>1. popped \in Step /\ op = popped.kind /\ op # "SkipUndo"
      BY <1>8 DEF Flow
    <3>2. Append(redoSteps, popped) \in Seq(Redoable) /\ redoSteps \in Seq(Step)
      BY <1>8 DEF Flow, Undone, Types, TypeOK
    <3>3. popped \in Redoable
      BY <3>1, <3>2, FrontAndLast
    <3> QED
      BY <1>1, <1>8, <3>1, <3>3
  <2>2. EndsModified(currentStep.changes) /\ (currentStep.changes = <<>> => popped.changes = <<>>)
    BY <1>2, <1>8 DEF Flow
  <2>3. HasChanges(currentStep)
    BY <1>2, <2>1, <2>2 DEF HasChanges, Redoable, Kept
  <2>4. currentStep \in Undoable
    BY <1>1, <1>2, <2>1, <2>2, <2>3 DEF Undoable, Kept
  <2>5. CASE Coalesces(Ended)
    BY <1>1, <1>4, <1>8, <2>5 DEF EndStep
  <2>6. CASE ~Coalesces(Ended)
    BY <1>1, <1>5, <1>8, <2>1, <2>3, <2>4, <2>6 DEF EndStep
  <2> QED
    BY <2>5, <2>6
<1> QED
  BY <1>2, <1>6, <1>7, <1>8

LEMMA RestFlow ==
    /\ mode' = "NormalOp" /\ op' = Idle /\ todo' = <<>>
    /\ undoSteps' \in Seq(Undoable) /\ redoSteps' \in Seq(Redoable)
    => Flow'
BY UndoAssumption DEF Flow, Steps, Undone, OpKind

\* The queues between transactions
LEMMA IdleFlow ==
    ASSUME Types, Flow, op = Idle
    PROVE  /\ mode = "NormalOp" /\ todo = <<>> /\ currentStep = NoStep
           /\ Steps = undoSteps /\ Undone = redoSteps
           /\ undoSteps \in Seq(Undoable) /\ redoSteps \in Seq(Redoable)
<1>1. mode = "NormalOp"
  BY UndoAssumption DEF Flow, Types, TypeOK, Step, OpKind
<1> QED
  BY <1>1, UndoAssumption DEF Flow, Steps, Undone, Types, Recording, OpKind

LEMMA QueueElements ==
    /\ Undoable \subseteq Step /\ Redoable \subseteq Step
    /\ Seq(Undoable) \subseteq Seq(Step) /\ Seq(Redoable) \subseteq Seq(Step)
<1>1. Undoable \subseteq Step /\ Redoable \subseteq Step
  BY DEF Undoable, Redoable
<1> QED
  BY <1>1, SeqDef

LEMMA BeginFlow ==
    ASSUME Types, Flow, NEW k \in Ops \ {"NoUndo", "Custom"}, BeginUndoable(k)
    PROVE  Flow'
<1>1. /\ mode = "NormalOp" /\ todo = <<>> /\ undoSteps \in Seq(Undoable) /\ op = Idle
      /\ k \in OpKind /\ k # "NoUndo"
  BY IdleFlow, UndoAssumption DEF BeginUndoable, OpKind
<1>2. NewStep(k).kind = k
  BY DEF NewStep
<1>3. /\ mode' = "NormalOp" /\ todo' = <<>> /\ op' = k /\ undoSteps' = undoSteps
      /\ redoSteps' = <<>> /\ currentStep' = NewStep(k)
  BY <1>1 DEF BeginUndoable, Start, BeginStep
<1>4. Steps' \in Seq(Undoable) /\ Undone' \in Seq(Redoable)
  BY <1>1, <1>3, EmptySeq DEF Steps, Undone
<1> QED
  BY <1>1, <1>2, <1>3, <1>4 DEF Flow

LEMMA BeginNoUndoFlow ==
    ASSUME Types, Flow, BeginNoUndo
    PROVE  Flow'
<1>1. mode = "NormalOp" /\ todo = <<>> /\ op = Idle
  BY IdleFlow DEF BeginNoUndo
<1>2. /\ mode' = "NormalOp" /\ todo' = <<>> /\ op' = "NoUndo" /\ undoSteps' = <<>>
      /\ redoSteps' = <<>>
  BY <1>1 DEF BeginNoUndo, Start, DiscardSteps
<1>3. Steps' \in Seq(Undoable) /\ Undone' \in Seq(Redoable)
  BY <1>2, EmptySeq DEF Steps, Undone
<1> QED
  BY <1>2, <1>3 DEF Flow, OpKind

LEMMA SavedStep ==
    ASSUME Types, op \in OpKind, NEW changes \in Seq(Change), SaveAll(changes)
    PROVE  /\ currentStep \in Step /\ currentStep.changes \in Seq(Change)
           /\ currentStep' = [currentStep EXCEPT !.changes = currentStep.changes \o changes]
           /\ currentStep'.changes = currentStep.changes \o changes
           /\ currentStep'.kind = currentStep.kind
<1>1. currentStep \in Step /\ currentStep # NoStep
  BY NullAssumption DEF Types, Recording, TypeOK
<1>2. currentStep' = [currentStep EXCEPT !.changes = currentStep.changes \o changes]
  BY <1>1 DEF SaveAll
<1> QED
  BY <1>1, <1>2 DEF Step

LEMMA WriteFlow ==
    ASSUME Types, Flow, mode = "NormalOp", op # Idle, NEW d, NEW changes \in Seq(Change), Write(d, changes)
    PROVE  Flow'
<1>1. /\ mode' = "NormalOp" /\ todo' = <<>> /\ op' = op /\ undoSteps' = undoSteps
      /\ redoSteps' = redoSteps /\ redoSteps = <<>>
      /\ Steps' = Steps /\ Undone' = Undone
  BY DEF Write, Flow, Steps, Undone
<1>2. op \in OpKind => currentStep'.kind = currentStep.kind
  BY SavedStep DEF Write
<1> QED
  BY <1>1, <1>2 DEF Flow

LEMMA WritesFlow ==
    ASSUME Types, Flow
    PROVE  /\ \A r \in Rows, v \in Value : AddRow(r, v) \/ UpdateRow(r, v) => Flow'
           /\ \A r \in Rows : RemoveRow(r) => Flow'
<1>1. ASSUME NEW r \in Rows, NEW v \in Value, AddRow(r, v) PROVE Flow'
  <2>1. OnRow("Added", r, v) \in Change
    BY DEF OnRow, Change, RowChange
  <2>2. <<OnRow("Added", r, v)>> \in Seq(Change)
    BY <2>1
  <2>3. mode = "NormalOp" /\ op # Idle /\ Write([db EXCEPT !.row[r] = v], <<OnRow("Added", r, v)>>)
    BY <1>1, UndoAssumption DEF AddRow, Writing, OpKind
  <2> QED
    BY <2>2, <2>3, WriteFlow
<1>2. ASSUME NEW r \in Rows, NEW v \in Value, UpdateRow(r, v) PROVE Flow'
  <2>1. OnRow("Updated", r, db.row[r]) \in Change
    BY <1>2 DEF OnRow, Change, RowChange, UpdateRow, Types, TypeOK, Db
  <2>2. <<OnRow("Updated", r, db.row[r])>> \in Seq(Change)
    BY <2>1
  <2>3. /\ mode = "NormalOp" /\ op # Idle
        /\ Write([db EXCEPT !.row[r] = v], <<OnRow("Updated", r, db.row[r])>>)
    BY <1>2, UndoAssumption DEF UpdateRow, Writing, OpKind
  <2> QED
    BY <2>2, <2>3, WriteFlow
<1>3. ASSUME NEW r \in Rows, RemoveRow(r) PROVE Flow'
  <2>1. mode = "NormalOp" /\ op # Idle
    BY <1>3, UndoAssumption DEF RemoveRow, Writing, OpKind
  <2> QED
    BY <1>3, <2>1, RemovalType, WriteFlow DEF RemoveRow, Types
<1> QED
  BY <1>1, <1>2, <1>3

LEMMA CommitUndoableFlow ==
    ASSUME Types, Flow, CommitUndoable
    PROVE  Flow'
<1>1. mode' = "NormalOp" /\ op' = Idle /\ todo' = <<>>
  BY DEF CommitUndoable, Finish
<1>2. undoSteps \in Seq(Step) /\ redoSteps \in Seq(Step) /\ mode \in {"NormalOp", "Undoing", "Redoing"}
  BY DEF Types, TypeOK
<1>3. undoSteps \in Seq(Undoable)
  <2>1. CASE mode = "Undoing"
    <3>1. <<popped>> \o undoSteps \in Seq(Undoable) /\ popped \in Step
      BY <2>1 DEF Flow, Steps
    <3> QED
      BY <1>2, <3>1, FirstAndRest
  <2> QED
    BY <2>1 DEF Flow, Steps
<1>4. redoSteps \in Seq(Redoable)
  <2>1. CASE mode = "Redoing"
    <3>1. Append(redoSteps, popped) \in Seq(Redoable) /\ popped \in Step
      BY <2>1 DEF Flow, Undone
    <3> QED
      BY <1>2, <3>1, FrontAndLast
  <2> QED
    BY <2>1 DEF Flow, Undone
<1>5. undoSteps' \in Seq(Undoable) /\ redoSteps' \in Seq(Redoable)
  <2>1. /\ \A s \in Undoable : <<s>> \o Truncate(undoSteps) \in Seq(Undoable)
        /\ \A s \in Redoable : Append(redoSteps, s) \in Seq(Redoable)
    BY <1>3, <1>4, PushKeeps, AppendProperties
  <2> QED
    BY <1>3, <1>4, <2>1, Commitment
<1> QED
  BY <1>1, <1>5, RestFlow

LEMMA BeginUndoFlow ==
    ASSUME Types, Flow, BeginUndo
    PROVE  /\ Flow' /\ popped' \in Undoable /\ undoSteps = <<popped'>> \o undoSteps'
           /\ Steps' = undoSteps /\ Undone' = redoSteps /\ undoSteps' \in Seq(Step)
<1>1. /\ mode = "NormalOp" /\ undoSteps \in Seq(Undoable) /\ redoSteps \in Seq(Redoable)
      /\ undoSteps # <<>> /\ op = Idle
  BY IdleFlow DEF BeginUndo
<1>2. /\ Head(undoSteps) \in Undoable /\ Tail(undoSteps) \in Seq(Undoable)
      /\ <<Head(undoSteps)>> \o Tail(undoSteps) = undoSteps
  BY <1>1, HeadAndTail
<1>3. /\ mode' = "Undoing" /\ popped' = Head(undoSteps) /\ todo' = popped'.changes
      /\ op' = popped'.kind /\ undoSteps' = Tail(undoSteps) /\ redoSteps' = redoSteps
      /\ currentStep' = NewStep(popped'.kind)
  BY DEF BeginUndo, Start, BeginStep
<1>4. Steps' = undoSteps /\ Undone' = redoSteps
  BY <1>2, <1>3 DEF Steps, Undone
<1>5. popped' \in Undoable /\ currentStep'.kind = op' /\ currentStep'.changes = <<>>
  BY <1>2, <1>3 DEF NewStep
<1>6. popped' \in Step /\ op' \in OpKind /\ op' # "SkipUndo" /\ op' # "NoUndo"
  <2>1. popped'.kind \in OpKind /\ popped'.kind # "SkipUndo" /\ popped' \in Step
    BY <1>5 DEF Undoable, Kept, Step
  <2> QED
    BY <1>3, <2>1 DEF OpKind
<1>7. Flow'
  BY <1>1, <1>3, <1>4, <1>5, <1>6 DEF Flow
<1> QED
  BY <1>2, <1>3, <1>4, <1>5, <1>7, QueueElements

LEMMA BeginRedoFlow ==
    ASSUME Types, Flow, BeginRedo
    PROVE  /\ Flow' /\ popped' \in Redoable /\ redoSteps = Append(redoSteps', popped')
           /\ Steps' = undoSteps /\ Undone' = redoSteps /\ redoSteps' \in Seq(Step)
<1>1. /\ mode = "NormalOp" /\ undoSteps \in Seq(Undoable) /\ redoSteps \in Seq(Redoable)
      /\ redoSteps # <<>> /\ op = Idle
  BY IdleFlow DEF BeginRedo
<1>2. /\ Last(redoSteps) \in Redoable /\ Front(redoSteps) \in Seq(Redoable)
      /\ Append(Front(redoSteps), Last(redoSteps)) = redoSteps
  BY <1>1, FrontLast
<1>3. /\ mode' = "Redoing" /\ popped' = Last(redoSteps) /\ todo' = popped'.changes
      /\ op' = popped'.kind /\ undoSteps' = undoSteps /\ redoSteps' = Front(redoSteps)
      /\ currentStep' = NewStep(popped'.kind)
  BY DEF BeginRedo, Start, BeginStep
<1>4. Steps' = undoSteps /\ Undone' = redoSteps
  BY <1>2, <1>3 DEF Steps, Undone
<1>5. popped' \in Redoable /\ currentStep'.kind = op' /\ currentStep'.changes = <<>>
  BY <1>2, <1>3 DEF NewStep
<1>6. /\ popped' \in Step /\ op' \in OpKind /\ op' # "SkipUndo" /\ op' # "NoUndo"
      /\ StartsModified(todo')
  <2>1. popped'.kind \in OpKind /\ popped'.kind # "SkipUndo" /\ popped' \in Step
        /\ StartsModified(popped'.changes)
    BY <1>5 DEF Redoable, Kept, Step
  <2> QED
    BY <1>3, <2>1 DEF OpKind
<1>7. EndsModified(currentStep'.changes)
  BY <1>5 DEF EndsModified
<1>8. Flow'
  BY <1>1, <1>3, <1>4, <1>5, <1>6, <1>7 DEF Flow
<1> QED
  BY <1>2, <1>3, <1>4, <1>5, <1>8, QueueElements

\* What ReplayChange does while an undo or a redo runs
LEMMA Replaying ==
    ASSUME Types, Flow, ReplayChange
    PROVE  LET c == Last(todo)
           IN /\ mode \in {"Undoing", "Redoing"} /\ op \in OpKind /\ op # "SkipUndo" /\ popped \in Step
              /\ todo \in Seq(Change) /\ todo # <<>> /\ c \in Change /\ Front(todo) \in Seq(Change)
              /\ Append(Front(todo), c) = todo /\ Replayable(db, c)
              /\ InverseOf(db, c) \in Seq(Change) /\ Revert(db, c) \in Db
              /\ currentStep \in Step /\ currentStep.changes \in Seq(Change)
              /\ currentStep'.changes = currentStep.changes \o InverseOf(db, c)
              /\ currentStep'.kind = currentStep.kind
              /\ db' = Revert(db, c) /\ todo' = Front(todo)
              /\ Steps' = Steps /\ Undone' = Undone
              /\ UNCHANGED <<saved, outer, undoSteps, redoSteps, mode, op, popped>>
<1>1. mode # "NormalOp" /\ popped \in Step /\ op = popped.kind /\ op # "SkipUndo" /\ todo # <<>>
  BY DEF Flow, ReplayChange
<1>2. op \in OpKind /\ mode \in {"Undoing", "Redoing"} /\ db \in Db /\ todo \in Seq(Change)
  BY <1>1 DEF Step, Types, TypeOK
<1>3. /\ Last(todo) \in Change /\ Front(todo) \in Seq(Change)
      /\ Append(Front(todo), Last(todo)) = todo
  BY <1>1, <1>2, FrontLast
<1>4. Replayable(db, Last(todo)) /\ SaveAll(InverseOf(db, Last(todo)))
  BY DEF ReplayChange
<1>5. InverseOf(db, Last(todo)) \in Seq(Change) /\ Revert(db, Last(todo)) \in Db
  BY <1>2, <1>3, <1>4, InverseOfType, RevertType
<1>6. /\ currentStep \in Step /\ currentStep.changes \in Seq(Change)
      /\ currentStep'.changes = currentStep.changes \o InverseOf(db, Last(todo))
      /\ currentStep'.kind = currentStep.kind
  BY <1>2, <1>4, <1>5, SavedStep
<1>7. /\ db' = Revert(db, Last(todo)) /\ todo' = Front(todo)
      /\ UNCHANGED <<saved, outer, undoSteps, redoSteps, mode, op, popped>>
  BY DEF ReplayChange
<1>8. Steps' = Steps /\ Undone' = Undone
  BY <1>7 DEF Steps, Undone
<1> QED
  BY <1>1, <1>2, <1>3, <1>4, <1>5, <1>6, <1>7, <1>8

LEMMA ReplayFlow ==
    ASSUME Types, Flow, ReplayChange
    PROVE  Flow'
<1> DEFINE c == Last(todo)
           inv == InverseOf(db, c)
           cs == currentStep.changes
<1>1. /\ mode \in {"Undoing", "Redoing"} /\ op \in OpKind /\ op # "SkipUndo" /\ popped \in Step
      /\ todo \in Seq(Change) /\ todo # <<>> /\ c \in Change /\ Front(todo) \in Seq(Change)
      /\ Append(Front(todo), c) = todo /\ Replayable(db, c)
      /\ inv \in Seq(Change)
      /\ currentStep \in Step /\ cs \in Seq(Change)
      /\ currentStep'.changes = cs \o inv
      /\ currentStep'.kind = currentStep.kind /\ todo' = Front(todo)
      /\ Steps' = Steps /\ Undone' = Undone
      /\ UNCHANGED <<saved, outer, undoSteps, redoSteps, mode, op, popped>>
  BY Replaying
<1>2. c.what = "Modified" => /\ inv # <<>> /\ StartsModified(inv) /\ EndsModified(inv)
  <2> SUFFICES ASSUME c.what = "Modified" PROVE inv # <<>> /\ StartsModified(inv) /\ EndsModified(inv)
    OBVIOUS
  <2>1. inv = <<Modified(db.mod)>>
    BY DEF InverseOf
  <2>2. PICK m \in Change : m = Modified(db.mod)
    BY DEF Modified, Change, ModChange, Types, TypeOK, Db
  <2>3. Last(<<m>>) = m /\ <<m>> # <<>> /\ <<m>>[1] = m
    BY PairOfChanges
  <2>4. m.what = "Modified"
    BY <2>2 DEF Modified
  <2> QED
    BY <2>1, <2>2, <2>3, <2>4 DEF StartsModified, EndsModified
<1> HIDE DEF inv
<1>3. /\ cs # <<>> /\ StartsModified(cs) => StartsModified(cs \o inv)
      /\ inv # <<>> /\ EndsModified(inv) => EndsModified(cs \o inv)
      /\ cs = <<>> => cs \o inv = inv
      /\ cs # <<>> \/ inv # <<>> => cs \o inv # <<>>
  BY <1>1, ConcatEnds
<1>4. CASE mode = "Undoing"
  <2>1. IF cs = <<>> THEN todo = popped.changes ELSE StartsModified(cs)
    BY <1>4 DEF Flow
  <2>2. EndsModified(popped.changes)
    <3>1. <<popped>> \o undoSteps \in Seq(Undoable) /\ undoSteps \in Seq(Step)
      BY <1>4 DEF Flow, Steps, Types, TypeOK
    <3>2. popped \in Undoable
      BY <1>1, <3>1, FirstAndRest
    <3> QED
      BY <3>2 DEF Undoable
  <2>3. cs = <<>> => c.what = "Modified"
    BY <1>1, <2>1, <2>2 DEF EndsModified
  <2>4. cs \o inv # <<>> /\ StartsModified(cs \o inv)
    BY <1>2, <1>3, <2>1, <2>3
  <2>5. StartsModified(currentStep'.changes) /\ currentStep'.changes # <<>>
    BY <1>1, <2>4
  <2> QED
    BY <1>1, <1>4, <2>5 DEF Flow, OpKind
<1>5. CASE mode = "Redoing"
  <2> DEFINE f == Front(todo)
  <2>1. StartsModified(todo)
    BY <1>5 DEF Flow
  <2>2. /\ Len(todo) = Len(f) + 1 /\ Len(f) \in Nat
        /\ \A i \in 1..Len(f) : Append(f, c)[i] = f[i]
        /\ Append(f, c)[Len(f) + 1] = c
    <3> HIDE DEF f, c
    <3>1. f \in Seq(Change) /\ c \in Change /\ todo = Append(f, c)
      BY <1>1 DEF f, c
    <3> QED
      BY <3>1, AppendProperties, LenProperties
  <2>3. StartsModified(f)
    <3>1. f # <<>> => 1 \in 1..Len(f)
      BY <1>1, <2>2, EmptySeq
    <3> QED
      BY <1>1, <2>1, <2>2, <3>1 DEF StartsModified
  <2>4. f = <<>> => c.what = "Modified"
    <3>1. f = <<>> => Len(f) + 1 = 1
      BY <1>1, <2>2, EmptySeq
    <3> QED
      BY <1>1, <2>1, <2>2, <3>1 DEF StartsModified
  <2>5. f = <<>> => EndsModified(cs \o inv) /\ cs \o inv # <<>>
    BY <1>2, <1>3, <2>4
  <2>6. /\ StartsModified(todo')
        /\ todo' = <<>> => EndsModified(currentStep'.changes) /\ currentStep'.changes # <<>>
    BY <1>1, <2>3, <2>5
  <2> QED
    BY <1>1, <1>5, <2>6 DEF Flow, OpKind
<1> QED
  BY <1>1, <1>4, <1>5

LEMMA MergeFlow ==
    ASSUME Types, Flow, NEW i \in 1..UndoLimit, Merge(i), NEW hs, Chain("undo", undoSteps, hs)
    PROVE  /\ Flow' /\ i \in 1..Len(undoSteps) /\ undoSteps \in Seq(Step)
           /\ \E m \in Step : /\ undoSteps' = <<m>> \o SubSeq(undoSteps, i + 1, Len(undoSteps))
                              /\ Leads("undo", hs[i + 1], m.changes, hs[1])
<1>1. /\ mode = "NormalOp" /\ todo = <<>> /\ undoSteps \in Seq(Undoable) /\ redoSteps \in Seq(Redoable)
      /\ i \in DOMAIN undoSteps /\ undoSteps \in Seq(Step)
  BY IdleFlow, QueueElements DEF Merge
<1>2. i \in 1..Len(undoSteps) /\ i \in Nat /\ \A k \in DOMAIN undoSteps : undoSteps[k] \in Undoable
  BY <1>1, LenProperties, ElementOfSeq
<1>3. \A k \in DOMAIN undoSteps : EndsModified(undoSteps[k].changes)
  BY <1>2 DEF Undoable
<1>4. /\ Leads("undo", hs[i + 1], MergedChanges(i), hs[1])
      /\ EndsModified(MergedChanges(i))
      /\ undoSteps[i].changes # <<>> => MergedChanges(i) # <<>>
  BY <1>1, <1>3, MergedLeads
<1>5. MergedChanges(i) \in Seq(Change) /\ undoSteps[i] \in Step /\ Kept(undoSteps[i])
  BY <1>1, <1>2, MergedChangesType DEF Undoable
<1>6. PICK m : m = [undoSteps[i] EXCEPT !.changes = MergedChanges(i)]
  OBVIOUS
<1>7. m \in Step /\ m.changes = MergedChanges(i) /\ m.kind = undoSteps[i].kind
  BY <1>5, <1>6 DEF Step
<1>8. m \in Undoable
  BY <1>4, <1>5, <1>7 DEF Undoable, Kept, HasChanges
<1>9. undoSteps' = <<m>> \o SubSeq(undoSteps, i + 1, Len(undoSteps))
  BY <1>6 DEF Merge
<1>10. undoSteps' \in Seq(Undoable)
  <2>1. SubSeq(undoSteps, i + 1, Len(undoSteps)) \in Seq(Undoable)
    BY <1>1, <1>2, SuffixType
  <2>2. <<m>> \in Seq(Undoable)
    BY <1>8
  <2> QED
    BY <1>9, <2>1, <2>2, ConcatProperties
<1>11. Flow'
  <2>1. mode' = "NormalOp" /\ op' = Idle /\ todo' = <<>> /\ redoSteps' \in Seq(Redoable)
    BY <1>1 DEF Merge, callVars
  <2> QED
    BY <1>10, <2>1, RestFlow
<1> QED
  BY <1>1, <1>2, <1>4, <1>7, <1>9, <1>11

LEMMA FlowStep ==
    ASSUME Types, Flow, [Next]_vars, NEW hs, op = Idle => Chain("undo", undoSteps, hs)
    PROVE  Flow'
<1> USE DEF dbVars, callVars, undoVars
<1>1. ASSUME UNCHANGED <<undoVars, callVars>> PROVE Flow'
  BY <1>1 DEF Flow, Steps, Undone
<1>2. ASSUME op = Idle, DiscardSteps, UNCHANGED <<mode, callVars>> PROVE Flow'
  <2>1. mode = "NormalOp" /\ todo = <<>>
    BY <1>2, IdleFlow
  <2> QED
    BY <1>2, <2>1, EmptySeq, RestFlow DEF DiscardSteps
<1>3. CASE \E k \in Ops \ {"NoUndo", "Custom"} : BeginUndoable(k)
  BY <1>3, BeginFlow
<1>4. CASE BeginNoUndo
  BY <1>4, BeginNoUndoFlow
<1>5. CASE \/ \E r \in Rows, v \in Value : AddRow(r, v)
           \/ \E r \in Rows, v \in Value : UpdateRow(r, v)
           \/ \E r \in Rows : RemoveRow(r)
  BY <1>5, WritesFlow
<1>6. CASE CommitUndoable
  BY <1>6, CommitUndoableFlow
<1>7. CASE CommitNoUndo
  <2>1. mode = "NormalOp" /\ undoSteps = <<>> /\ redoSteps = <<>>
    BY <1>7, UndoAssumption DEF CommitNoUndo, Flow
  <2> QED
    BY <1>7, <2>1, EmptySeq, RestFlow DEF CommitNoUndo, Finish
<1>8. CASE Fail
  BY <1>8, EmptySeq, RestFlow DEF Fail, Finish, DiscardSteps
<1>9. CASE BeginUndo
  BY <1>9, BeginUndoFlow
<1>10. CASE BeginRedo
  BY <1>10, BeginRedoFlow
<1>11. CASE ReplayChange
  BY <1>11, ReplayFlow
<1>12. CASE AddCustomStep
  <2>1. /\ mode = "NormalOp" /\ op = Idle /\ todo = <<>> /\ undoSteps \in Seq(Undoable)
    BY <1>12, IdleFlow DEF AddCustomStep
  <2>2. NewStep("Custom") \in Undoable
    <3>1. NewStep("Custom") \in Step
      BY NewStepType DEF Types, OpKind
    <3>2. NewStep("Custom").kind = "Custom" /\ NewStep("Custom").changes = <<>>
      BY DEF NewStep
    <3> QED
      BY <3>1, <3>2 DEF Undoable, Kept, HasChanges, EndsModified
  <2>3. <<NewStep("Custom")>> \o Truncate(undoSteps) \in Seq(Undoable)
    BY <2>1, <2>2, PushKeeps
  <2> QED
    BY <1>12, <2>1, <2>3, EmptySeq, RestFlow DEF AddCustomStep
<1>13. CASE \E i \in 1..UndoLimit : Merge(i)
  BY <1>13, MergeFlow DEF Merge
<1>14. CASE \E r \in Rows, v \in Value : ProxyWrite(r, v)
  BY <1>2, <1>14 DEF ProxyWrite
<1>15. CASE ProxyBegin \/ ProxyCommit \/ ProxyRollback \/ Tick \/ UNCHANGED vars
  BY <1>1, <1>15 DEF ProxyBegin, ProxyCommit, ProxyRollback, Tick, vars
<1>16. CASE Discard
  BY <1>2, <1>16 DEF Discard
<1> QED
  BY <1>3, <1>4, <1>5, <1>6, <1>7, <1>8, <1>9, <1>10, <1>11, <1>12, <1>13, <1>14, <1>15, <1>16 DEF Next

LEMMA InitFlow == Init => Flow
BY EmptySeq, UndoAssumption DEF Init, Flow, Steps, Undone, OpKind

-----------------------------------------------------------------------------
(* The states that the queues hold, and how an operation moves through them *)

\* hs are the states that the undo steps lead back to, gs those that the redo
\* steps lead on to, both from the present one.
Held(hs, gs) ==
    /\ Chain("undo", Steps, hs) /\ hs[1] = Stable
    /\ Chain("redo", Reverse(Undone), gs) /\ gs[1] = Stable
    /\ op # Idle /\ mode = "NormalOp" => Clean(db)
    /\ op = "SkipUndo" => Near("undo", saved, db)
    /\ op \in OpKind /\ op # "SkipUndo" /\ mode = "NormalOp" =>
          Leads("undo", saved, currentStep.changes, db)
    /\ mode = "Undoing" => /\ Leads("undo", hs[2], todo, db)
                           /\ Leads("redo", saved, currentStep.changes, db)
    /\ mode = "Redoing" => /\ Leads("redo", gs[2], todo, db)
                           /\ Leads("undo", saved, currentStep.changes, db)
    /\ outer # NoTrx => Clean(outer.db)

\* What becomes of the states, action by action of UndoHistory
Stays(hs, gs, hs1, gs1) ==
    Alike(hs[1], hs1[1]) /\ Shift(hs, hs1, 1, Len(hs)) /\ Shift(gs, gs1, 1, Len(gs))
Passes(hs, hs1, gs1) ==
    Alike(hs[1], hs1[1]) /\ Shift(hs, hs1, 1, Len(hs)) /\ Len(gs1) = 1
Does(hs, hs1, gs1)    == Shift(hs, hs1, 0, Room(Len(hs))) /\ Len(gs1) = 1
Extends(hs, hs1, gs1) == Len(hs) > 1 /\ Shift(hs, hs1, 1, Len(hs)) /\ Len(gs1) = 1
Undoes(hs, gs, hs1, gs1) ==
    /\ Len(hs) > 1 /\ Alike(hs[2], hs1[1])
    /\ Shift(hs, hs1, 2, Len(hs) - 1) /\ Shift(gs, gs1, 0, Len(gs) + 1)
Redoes(hs, gs, hs1, gs1) ==
    /\ Len(gs) > 1 /\ Alike(gs[2], hs1[1]) /\ Shift(gs, gs1, 2, Len(gs) - 1)
    /\ Shift(hs, hs1, 0, Room(Len(hs))) \/ (Len(hs) > 1 /\ Shift(hs, hs1, 1, Len(hs)))
Forgets(hs, hs1, gs1) == Alike(hs[1], hs1[1]) /\ Len(hs1) = 1 /\ Len(gs1) = 1
Overwrites(hs1, gs1)  == op \notin OpKind /\ Len(hs1) = 1 /\ Len(gs1) = 1
Merges(hs, gs, hs1, gs1) ==
    /\ Alike(hs[1], hs1[1]) /\ Shift(gs, gs1, 1, Len(gs))
    /\ \E i \in 1..UndoLimit : i < Len(hs) /\ Shift(hs, hs1, i, Len(hs) - (i - 1))

Moves(hs, gs, hs1, gs1) ==
    /\ hs1[1] = gs1[1]
    /\ \/ Stays(hs, gs, hs1, gs1)
       \/ Passes(hs, hs1, gs1)
       \/ Does(hs, hs1, gs1)
       \/ Extends(hs, hs1, gs1)
       \/ Undoes(hs, gs, hs1, gs1)
       \/ Redoes(hs, gs, hs1, gs1)
       \/ Forgets(hs, hs1, gs1)
       \/ Overwrites(hs1, gs1)
       \/ Merges(hs, gs, hs1, gs1)

LEMMA ShiftSame ==
    ASSUME NEW S, NEW hs \in Seq(S)
    PROVE  Shift(hs, hs, 1, Len(hs))
<1>1. \A k \in 2..Len(hs) : (k + 1) - 1 = k
  BY LenProperties
<1> QED
  BY <1>1 DEF Shift

LEMMA AlikeReflexive == ASSUME NEW d PROVE Alike(d, d)
BY DEF Alike

LEMMA AlikeClean ==
    ASSUME NEW d, NEW e, Alike(d, e), Clean(d)
    PROVE  Clean(e)
BY WatchedRows DEF Alike, Clean

\* The same states
LEMMA StaySame ==
    ASSUME NEW hs \in Seq(Db), NEW gs \in Seq(Db), hs[1] = gs[1]
    PROVE  Moves(hs, gs, hs, gs)
BY ShiftSame, AlikeReflexive DEF Moves, Stays

LEMMA HeldTypes ==
    ASSUME Types, Flow, NEW hs, NEW gs, Held(hs, gs)
    PROVE  /\ Steps \in Seq(Step) /\ Undone \in Seq(Step) /\ Reverse(Undone) \in Seq(Step)
           /\ hs \in Seq(Db) /\ gs \in Seq(Db) /\ Len(hs) = Len(Steps) + 1
           /\ hs[1] = Stable /\ gs[1] = Stable /\ Stable \in Db /\ Clean(Stable)
           /\ \A k \in 1..Len(hs) : hs[k] \in Db /\ Clean(hs[k])
           /\ \A k \in 1..Len(gs) : gs[k] \in Db /\ Clean(gs[k])
           /\ Steps # <<>> => Len(hs) > 1 /\ Leads("undo", hs[2], Steps[1].changes, hs[1])
           /\ Reverse(Undone) # <<>> =>
                 Len(gs) > 1 /\ Leads("redo", gs[2], Reverse(Undone)[1].changes, gs[1])
           /\ db \in Db /\ saved \in Db
           /\ op # Idle => Clean(saved) /\ hs[1] = saved /\ gs[1] = saved
           /\ op = Idle => Clean(db) /\ hs[1] = db /\ gs[1] = db
<1>1. Steps \in Seq(Step) /\ Undone \in Seq(Step) /\ db \in Db /\ saved \in Db
  BY QueueElements DEF Flow, Types, TypeOK
<1>2. Reverse(Undone) \in Seq(Step)
  BY <1>1, ReverseProperties
<1>3. Chain("undo", Steps, hs) /\ Chain("redo", Reverse(Undone), gs) /\ hs[1] = Stable /\ gs[1] = Stable
  BY DEF Held
<1>4. /\ hs \in Seq(Db) /\ Len(hs) = Len(Steps) + 1 /\ 1 \in 1..Len(hs)
      /\ \A k \in 1..Len(hs) : hs[k] \in Db /\ Clean(hs[k])
      /\ Steps # <<>> => Len(hs) > 1 /\ Leads("undo", hs[2], Steps[1].changes, hs[1])
  BY <1>1, <1>3, ChainLength
<1>5. /\ gs \in Seq(Db)
      /\ \A k \in 1..Len(gs) : gs[k] \in Db /\ Clean(gs[k])
      /\ Reverse(Undone) # <<>> =>
                 Len(gs) > 1 /\ Leads("redo", gs[2], Reverse(Undone)[1].changes, gs[1])
  BY <1>2, <1>3, ChainLength
<1>6. Stable \in Db /\ Clean(Stable)
  BY <1>3, <1>4
<1>7. (op # Idle => Stable = saved) /\ (op = Idle => Stable = db)
  BY DEF Stable
<1> QED
  BY <1>1, <1>2, <1>3, <1>4, <1>5, <1>6, <1>7

\* Between transactions
LEMMA RestHeld ==
    ASSUME NEW e, NEW hs1, NEW gs1, mode' = "NormalOp", op' = Idle, db' = e,
           Chain("undo", undoSteps', hs1), Chain("redo", Reverse(redoSteps'), gs1),
           hs1[1] = e, gs1[1] = e, outer' # NoTrx => Clean(outer'.db)
    PROVE  Held(hs1, gs1)'
BY UndoAssumption DEF Held, Steps, Undone, Stable, OpKind

LEMMA ReverseEmpty == Reverse(<<>>) = <<>>
<1>1. <<>> \in Seq(Step) /\ Len(<<>>) = 0
  BY EmptySeq
<1>2. Reverse(<<>>) \in Seq(Step) /\ Len(Reverse(<<>>)) = 0
  BY <1>1, ReverseProperties
<1> QED
  BY <1>2, EmptySeq

\* Nothing is kept of the history; only outside an operation that can be undone
\* may the present have become another
LEMMA ForgetHeld ==
    ASSUME NEW e \in Db, Clean(e), NEW hs, NEW gs, op \in OpKind => hs[1] = e,
           mode' = "NormalOp", op' = Idle, db' = e,
           undoSteps' = <<>>, redoSteps' = <<>>, outer' # NoTrx => Clean(outer'.db)
    PROVE  \E hs1, gs1 : Held(hs1, gs1)' /\ Moves(hs, gs, hs1, gs1)
<1>1. PICK hs1 : Chain("undo", <<>>, hs1) /\ hs1[1] = e /\ Len(hs1) = 1
  BY ChainEmpty
<1>2. PICK gs1 : Chain("redo", <<>>, gs1) /\ gs1[1] = e /\ Len(gs1) = 1
  BY ChainEmpty
<1>3. Held(hs1, gs1)'
  BY <1>1, <1>2, RestHeld, ReverseEmpty
<1>4. Moves(hs, gs, hs1, gs1)
  BY <1>1, <1>2, AlikeReflexive DEF Moves, Forgets, Overwrites
<1> QED
  BY <1>3, <1>4

LEMMA BeginHeld ==
    ASSUME Types, Flow, NEW hs, NEW gs, Held(hs, gs),
           NEW k \in Ops \ {"NoUndo", "Custom"}, BeginUndoable(k)
    PROVE  \E hs1, gs1 : Held(hs1, gs1)' /\ Moves(hs, gs, hs1, gs1)
<1>1. /\ mode = "NormalOp" /\ op = Idle /\ Steps = undoSteps /\ undoSteps \in Seq(Undoable)
      /\ k \in OpKind
  BY IdleFlow, UndoAssumption DEF BeginUndoable, OpKind
<1>2. hs \in Seq(Db) /\ hs[1] = db /\ db \in Db /\ Clean(db)
  BY <1>1, HeldTypes
<1>3. /\ mode' = "NormalOp" /\ op' = k /\ undoSteps' = undoSteps /\ redoSteps' = <<>>
      /\ currentStep' = NewStep(k) /\ saved' = db /\ db' = db /\ outer' = outer
  BY <1>1 DEF BeginUndoable, Start, BeginStep
<1>4. PICK gs1 : Chain("redo", <<>>, gs1) /\ gs1[1] = db /\ Len(gs1) = 1
  BY <1>2, ChainEmpty
<1>5. Leads("undo", db, <<>>, db) /\ Near("undo", db, db)
  BY <1>2, NearReflexive, LeadsEmpty
<1>6. Held(hs, gs1)'
  <2>1. Steps' = Steps /\ Undone' = <<>> /\ Stable' = db
    BY <1>1, <1>3, UndoAssumption DEF Steps, Undone, Stable, OpKind
  <2>2. currentStep'.changes = <<>>
    BY <1>3 DEF NewStep
  <2>3. Chain("undo", Steps', hs) /\ hs[1] = Stable'
    BY <1>2, <2>1 DEF Held
  <2>4. Chain("redo", Reverse(Undone'), gs1) /\ gs1[1] = Stable'
    BY <1>4, <2>1, ReverseEmpty
  <2>5. outer' # NoTrx => Clean(outer'.db)
    BY <1>3 DEF Held
  <2>6. /\ op' = "SkipUndo" => Near("undo", saved', db')
        /\ Leads("undo", saved', currentStep'.changes, db') /\ Clean(db')
    BY <1>2, <1>3, <1>5, <2>2
  <2> QED
    BY <1>3, <2>3, <2>4, <2>5, <2>6 DEF Held
<1>7. Moves(hs, gs, hs, gs1)
  BY <1>2, <1>4, ShiftSame, AlikeReflexive DEF Moves, Passes
<1> QED
  BY <1>6, <1>7

LEMMA BeginNoUndoHeld ==
    ASSUME Types, Flow, NEW hs, NEW gs, Held(hs, gs), BeginNoUndo
    PROVE  \E hs1, gs1 : Held(hs1, gs1)' /\ Moves(hs, gs, hs1, gs1)
<1>1. mode = "NormalOp" /\ op = Idle
  BY IdleFlow DEF BeginNoUndo
<1>2. db \in Db /\ Clean(db) /\ hs[1] = db
  BY <1>1, HeldTypes
<1>3. /\ mode' = "NormalOp" /\ op' = "NoUndo" /\ undoSteps' = <<>> /\ redoSteps' = <<>>
      /\ saved' = db /\ db' = db /\ outer' = outer
  BY <1>1 DEF BeginNoUndo, Start, DiscardSteps
<1>4. PICK hs1 : Chain("undo", <<>>, hs1) /\ hs1[1] = db /\ Len(hs1) = 1
  BY <1>2, ChainEmpty
<1>5. PICK gs1 : Chain("redo", <<>>, gs1) /\ gs1[1] = db /\ Len(gs1) = 1
  BY <1>2, ChainEmpty
<1>6. Held(hs1, gs1)'
  <2>1. Steps' = <<>> /\ Undone' = <<>> /\ Stable' = db
    BY <1>3, UndoAssumption DEF Steps, Undone, Stable
  <2>2. outer' # NoTrx => Clean(outer'.db)
    BY <1>3 DEF Held
  <2>3. Chain("undo", Steps', hs1) /\ hs1[1] = Stable'
    BY <1>4, <2>1
  <2>4. Chain("redo", Reverse(Undone'), gs1) /\ gs1[1] = Stable'
    BY <1>5, <2>1, ReverseEmpty
  <2> QED
    BY <1>2, <1>3, <2>2, <2>3, <2>4 DEF Held, OpKind
<1>7. Moves(hs, gs, hs1, gs1)
  BY <1>2, <1>4, <1>5, AlikeReflexive DEF Moves, Forgets
<1> QED
  BY <1>6, <1>7

\* A write of an operation: recorded, or made to a row nothing recorded watches
LEMMA WriteHeld ==
    ASSUME Types, Flow, NEW hs, NEW gs, Held(hs, gs), mode = "NormalOp", op # Idle,
           NEW e \in Db, Clean(e), NEW changes \in Seq(Change), Write(e, changes),
           Leads("undo", db, changes, e), op = "SkipUndo" => Near("undo", db, e)
    PROVE  \E hs1, gs1 : Held(hs1, gs1)' /\ Moves(hs, gs, hs1, gs1)
<1>1. /\ mode' = mode /\ op' = op /\ undoSteps' = undoSteps /\ redoSteps' = redoSteps
      /\ saved' = saved /\ db' = e /\ outer' = outer /\ popped' = popped
  BY DEF Write
<1>2. Steps' = Steps /\ Undone' = Undone /\ Stable' = Stable
  BY <1>1 DEF Steps, Undone, Stable
<1>3. op = "SkipUndo" => Near("undo", saved, e)
  BY NearTransitive DEF Held
<1>4. ASSUME op \in OpKind, op # "SkipUndo" PROVE Leads("undo", saved, currentStep'.changes, e)
  <2>1. currentStep'.changes = currentStep.changes \o changes /\ currentStep.changes \in Seq(Change)
    BY <1>4, SavedStep DEF Write
  <2>2. Leads("undo", saved, currentStep.changes, db)
    BY <1>4 DEF Held
  <2> QED
    BY <2>1, <2>2, LeadsConcat
<1>5. Held(hs, gs)'
  BY <1>1, <1>2, <1>3, <1>4 DEF Held
<1>6. hs \in Seq(Db) /\ gs \in Seq(Db) /\ hs[1] = gs[1]
  BY HeldTypes
<1> QED
  BY <1>5, <1>6, StaySame

LEMMA AddHeld ==
    ASSUME Types, Flow, NEW hs, NEW gs, Held(hs, gs), NEW r \in Rows, NEW v \in Value, AddRow(r, v)
    PROVE  \E hs1, gs1 : Held(hs1, gs1)' /\ Moves(hs, gs, hs1, gs1)
<1> DEFINE e == [db EXCEPT !.row[r] = v]
           changes == <<OnRow("Added", r, v)>>
<1>1. /\ mode = "NormalOp" /\ op # Idle /\ db.row[r] = NoRow /\ r \notin db.graves /\ Write(e, changes)
      /\ op = "SkipUndo" => r \in Keys
  BY UndoAssumption DEF AddRow, Writing, OpKind
<1>2. db \in Db /\ Clean(db)
  BY <1>1 DEF Held, Types, TypeOK
<1>3. changes \in Seq(Change) /\ Leads("undo", db, changes, e)
  BY <1>1, <1>2, AddLeads
<1>4. /\ e \in Db /\ e.graves = db.graves /\ e.mod = db.mod
      /\ \A q \in Rows : e.row[q] = IF q = r THEN v ELSE db.row[q]
  BY <1>2 DEF Db
<1> HIDE DEF e, changes
<1>5. Clean(e)
  BY <1>1, <1>2, <1>4, WatchedRows DEF Clean
<1>6. op = "SkipUndo" => Near("undo", db, e)
  <2> SUFFICES ASSUME op = "SkipUndo" PROVE Near("undo", db, e)
    OBVIOUS
  <2>1. r \in Keys /\ "SkipUndo" \in Ops
    BY <1>1 DEF Flow
  <2>2. r \notin Watched /\ ~ModKept
    BY <2>1, UndoAssumption DEF Watched, ModKept, Graved
  <2> QED
    BY <1>1, <1>4, <2>2, WatchedRows, UndoAssumption DEF Near, Alike, Covers
<1> QED
  BY <1>1, <1>3, <1>4, <1>5, <1>6, WriteHeld

LEMMA UpdateHeld ==
    ASSUME Types, Flow, NEW hs, NEW gs, Held(hs, gs), NEW r \in Rows, NEW v \in Value, UpdateRow(r, v)
    PROVE  \E hs1, gs1 : Held(hs1, gs1)' /\ Moves(hs, gs, hs1, gs1)
<1> DEFINE e == [db EXCEPT !.row[r] = v]
           changes == <<OnRow("Updated", r, db.row[r])>>
<1>1. /\ mode = "NormalOp" /\ op # Idle /\ db.row[r] # NoRow /\ Write(e, changes)
      /\ op = "SkipUndo" => r \in Keys
  BY UndoAssumption DEF UpdateRow, Writing, OpKind
<1>2. db \in Db /\ Clean(db)
  BY <1>1 DEF Held, Types, TypeOK
<1>3. changes \in Seq(Change) /\ Leads("undo", db, changes, e)
  BY <1>1, <1>2, UpdateLeads
<1>4. /\ e \in Db /\ e.graves = db.graves /\ e.mod = db.mod
      /\ \A q \in Rows : e.row[q] = IF q = r THEN v ELSE db.row[q]
  BY <1>2 DEF Db
<1> HIDE DEF e, changes
<1>5. Clean(e)
  BY <1>1, <1>2, <1>4, WatchedRows DEF Clean
<1>6. op = "SkipUndo" => Near("undo", db, e)
  <2> SUFFICES ASSUME op = "SkipUndo" PROVE Near("undo", db, e)
    OBVIOUS
  <2>1. r \in Keys /\ "SkipUndo" \in Ops
    BY <1>1 DEF Flow
  <2>2. r \notin Watched /\ ~ModKept
    BY <2>1, UndoAssumption DEF Watched, ModKept, Graved
  <2> QED
    BY <1>1, <1>4, <2>2, WatchedRows, UndoAssumption DEF Near, Alike, Covers
<1> QED
  BY <1>1, <1>3, <1>4, <1>5, <1>6, WriteHeld

LEMMA RemoveHeld ==
    ASSUME Types, Flow, NEW hs, NEW gs, Held(hs, gs), NEW r \in Rows, RemoveRow(r)
    PROVE  \E hs1, gs1 : Held(hs1, gs1)' /\ Moves(hs, gs, hs1, gs1)
<1> DEFINE gone == OnRow("Removed", r, db.row[r])
           e == [db EXCEPT !.row[r] = NoRow, !.graves = @ \cup ({r} \cap Graved)]
           changes == CASE r \in Notes -> <<gone, OnGrave("GraveAdded", r)>>
                        [] r \in Cards -> <<OnGrave("GraveAdded", r), gone>>
                        [] r \in Keys  -> <<gone>>
<1>1. /\ mode = "NormalOp" /\ op # Idle /\ op # "SkipUndo" /\ db.row[r] # NoRow /\ Write(e, changes)
  BY UndoAssumption DEF RemoveRow, Writing, OpKind
<1>2. db \in Db /\ Clean(db)
  BY <1>1 DEF Held, Types, TypeOK
<1>3. changes \in Seq(Change) /\ Leads("undo", db, changes, e)
  BY <1>1, <1>2, RemoveLeads
<1>4. /\ e \in Db /\ e.graves = db.graves \cup ({r} \cap Graved)
      /\ \A q \in Rows : e.row[q] = IF q = r THEN NoRow ELSE db.row[q]
  BY <1>2 DEF Db
<1> HIDE DEF e, changes
<1>5. Clean(e)
  BY <1>2, <1>4, WatchedRows DEF Clean
<1> QED
  BY <1>1, <1>3, <1>4, <1>5, WriteHeld

\* The state an operation ends in
LEMMA EndedState ==
    ASSUME Types, Flow, NEW hs, NEW gs, Held(hs, gs), CommitUndoable
    PROVE  /\ db' \in Db /\ mode' = "NormalOp" /\ op' = Idle /\ outer' = outer
           /\ saved \in Db /\ hs[1] = saved /\ gs[1] = saved
           /\ Alike(db, db') \/ mode = "NormalOp"
           /\ mode = "NormalOp" => /\ Clean(db') /\ redoSteps = <<>> /\ Steps = undoSteps
                                   /\ op = "SkipUndo" => Near("undo", saved, db')
                                   /\ op # "SkipUndo" => Leads("undo", saved, Ended.changes, db')
           /\ mode # "NormalOp" => db' = db
<1>1. /\ mode' = "NormalOp" /\ op' = Idle /\ outer' = outer /\ op \in OpKind /\ op # Idle
      /\ db' = IF HasChanges(currentStep) /\ mode = "NormalOp" THEN [db EXCEPT !.mod = clock] ELSE db
      /\ op = "SkipUndo" => "SkipUndo" \in Ops
  BY UndoAssumption DEF CommitUndoable, Finish, Flow
<1>2. db \in Db /\ clock \in Time /\ saved \in Db /\ hs[1] = saved /\ gs[1] = saved
  BY <1>1, HeldTypes DEF Types, TypeOK
<1>3. [db EXCEPT !.mod = clock] \in Db
  BY <1>2, BumpLeads
<1>4. db' \in Db
  BY <1>1, <1>2, <1>3
<1>5. /\ currentStep \in Step
      /\ mode = "NormalOp" => IF HasChanges(currentStep)
                              THEN Ended.changes = currentStep.changes \o <<Modified(db.mod)>>
                              ELSE Ended = currentStep
      /\ Modified(db.mod) \in Change
  BY EndedStep
<1>6. ASSUME mode = "NormalOp"
      PROVE  /\ Clean(db') /\ redoSteps = <<>> /\ Steps = undoSteps
             /\ op = "SkipUndo" => Near("undo", saved, db')
             /\ op # "SkipUndo" => Leads("undo", saved, Ended.changes, db')
  <2>1. Clean(db) /\ redoSteps = <<>> /\ Steps = undoSteps
    BY <1>1, <1>6 DEF Held, Flow, Steps
  <2>2. db'.row = db.row /\ db'.graves = db.graves
    BY <1>1, <1>2 DEF Db
  <2>3. Clean(db')
    BY <2>1, <2>2 DEF Clean
  <2>4. op = "SkipUndo" => Near("undo", saved, db')
    <3>1. op = "SkipUndo" => Near("undo", saved, db) /\ ~ModKept
      BY <1>1 DEF Held, ModKept
    <3> QED
      BY <2>2, <3>1 DEF Near, Alike, Covers
  <2>5. ASSUME op # "SkipUndo" PROVE Leads("undo", saved, Ended.changes, db')
    <3>1. Leads("undo", saved, currentStep.changes, db)
      BY <1>1, <1>6, <2>5 DEF Held
    <3>2. CASE HasChanges(currentStep)
      <4>1. Leads("undo", db, <<Modified(db.mod)>>, db') /\ Ended.changes = currentStep.changes \o <<Modified(db.mod)>>
        BY <1>1, <1>2, <1>5, <1>6, <3>2, BumpLeads
      <4>2. currentStep.changes \in Seq(Change) /\ <<Modified(db.mod)>> \in Seq(Change)
        BY <1>5 DEF Step
      <4>3. PICK e : e = db'
        OBVIOUS
      <4>4. PICK ms : ms = <<Modified(db.mod)>>
        OBVIOUS
      <4>5. Leads("undo", saved, currentStep.changes \o ms, e)
        BY <1>4, <3>1, <4>1, <4>2, <4>3, <4>4, LeadsConcat
      <4> QED
        BY <4>1, <4>3, <4>4, <4>5
    <3>3. CASE ~HasChanges(currentStep)
      BY <1>1, <1>5, <1>6, <3>1, <3>3
    <3> QED
      BY <3>2, <3>3
  <2> QED
    BY <2>1, <2>3, <2>4, <2>5
<1>7. mode # "NormalOp" => db' = db
  BY <1>1
<1> QED
  BY <1>1, <1>2, <1>4, <1>6, <1>7, AlikeReflexive

\* The undo steps of a replay under way
LEMMA UndoingParts ==
    ASSUME Types, Flow, mode = "Undoing"
    PROVE  /\ Steps = <<popped>> \o undoSteps /\ undoSteps \in Seq(Step) /\ popped \in Step
           /\ Undone = redoSteps /\ redoSteps \in Seq(Step)
BY DEF Flow, Steps, Undone, Types, TypeOK

LEMMA RedoingParts ==
    ASSUME Types, Flow, mode = "Redoing"
    PROVE  /\ Steps = undoSteps /\ undoSteps \in Seq(Step) /\ popped \in Step
           /\ Undone = Append(redoSteps, popped) /\ redoSteps \in Seq(Step)
           /\ Reverse(redoSteps) \in Seq(Step)
           /\ Reverse(Undone) = <<popped>> \o Reverse(redoSteps)
<1>1. /\ Steps = undoSteps /\ undoSteps \in Seq(Step) /\ popped \in Step
      /\ Undone = Append(redoSteps, popped) /\ redoSteps \in Seq(Step)
  BY DEF Flow, Steps, Undone, Types, TypeOK
<1> QED
  BY <1>1, ReverseProperties, ReverseAppend

\* An operation whose changes are recorded, dropped, or taken in by the step before
LEMMA CommitNormalHeld ==
    ASSUME Types, Flow, NEW hs, NEW gs, Held(hs, gs), CommitUndoable, mode = "NormalOp"
    PROVE  \E hs1, gs1 : Held(hs1, gs1)' /\ Moves(hs, gs, hs1, gs1)
<1>1. PICK e \in Db : e = db'
  BY EndedState
<1>2. /\ mode' = "NormalOp" /\ op' = Idle /\ outer' # NoTrx => Clean(outer'.db)
      /\ saved \in Db /\ hs[1] = saved /\ Clean(e) /\ redoSteps = <<>> /\ Steps = undoSteps
      /\ op = "SkipUndo" => Near("undo", saved, e)
      /\ op # "SkipUndo" => Leads("undo", saved, Ended.changes, e)
  BY <1>1, EndedState DEF Held
<1>3. undoSteps \in Seq(Step) /\ hs \in Seq(Db) /\ Chain("undo", undoSteps, hs)
      /\ currentStep \in Step /\ Ended \in Step
  BY <1>2, HeldTypes, EndedStep DEF Held
<1>4. PICK gs1 : Chain("redo", <<>>, gs1) /\ gs1[1] = e /\ Len(gs1) = 1
  BY <1>1, <1>2, ChainEmpty
<1>5. ASSUME NEW hs1, Chain("undo", undoSteps', hs1), hs1[1] = e, redoSteps' = redoSteps
      PROVE  Held(hs1, gs1)' /\ hs1[1] = gs1[1]
  <2>1. Chain("redo", Reverse(redoSteps'), gs1) /\ gs1[1] = e
    BY <1>2, <1>4, <1>5, ReverseEmpty
  <2>2. db' = e /\ mode' = "NormalOp" /\ op' = Idle /\ (outer' # NoTrx => Clean(outer'.db))
    BY <1>1, EndedState DEF Held
  <2> QED
    BY <1>5, <2>1, <2>2, RestHeld
<1>6. CASE /\ ~HasChanges(currentStep) \/ op = "SkipUndo"
           /\ undoSteps' = undoSteps /\ redoSteps' = redoSteps
  <2>1. Near("undo", saved, e)
    <3>1. op # "SkipUndo" => Ended.changes = <<>>
      BY <1>6, EndedStep DEF HasChanges
    <3> QED
      BY <1>2, <3>1, LeadsNone
  <2>2. PICK hs1 : Chain("undo", undoSteps, hs1) /\ hs1[1] = e /\ Shift(hs, hs1, 1, Len(hs))
    BY <1>2, <1>3, <2>1, ChainMove
  <2>3. Alike(hs[1], hs1[1])
    BY <1>2, <2>1, <2>2 DEF Near
  <2>4. Held(hs1, gs1)' /\ hs1[1] = gs1[1]
    BY <1>5, <1>6, <2>2
  <2> QED
    BY <1>4, <2>2, <2>3, <2>4 DEF Moves, Passes
<1>7. CASE /\ op # "SkipUndo" /\ undoSteps' = <<Ended>> \o Truncate(undoSteps) /\ redoSteps' = redoSteps
  <2>1. PICK hs1 : /\ Chain("undo", <<Ended>> \o Truncate(undoSteps), hs1) /\ hs1[1] = e
                   /\ Shift(hs, hs1, 0, Room(Len(hs)))
    <3>1. Leads("undo", hs[1], Ended.changes, e)
      BY <1>2, <1>7
    <3>2. PICK s \in Step : s = Ended
      BY <1>3
    <3> QED
      BY <1>1, <1>2, <1>3, <3>1, <3>2, ChainPushTruncated
  <2>2. Held(hs1, gs1)' /\ hs1[1] = gs1[1]
    BY <1>5, <1>7, <2>1
  <2> QED
    BY <1>4, <2>1, <2>2 DEF Moves, Does
<1>8. CASE Coalesces(Ended) /\ undoSteps' = undoSteps /\ redoSteps' = redoSteps /\ op # "SkipUndo"
  <2>1. PICK n \in Notes : /\ IsNoteEdit(Ended, n) /\ IsNoteEdit(Head(undoSteps), n)
                           /\ undoSteps # <<>>
    BY <1>8 DEF Coalesces
  <2>2. Head(undoSteps) \in Step /\ Head(undoSteps) = undoSteps[1]
    BY <1>3, <2>1, HeadTailProperties
  <2>3. 1 \in 1..Len(hs) /\ 2 \in 1..Len(hs) /\ Len(hs) > 1
        /\ Leads("undo", hs[2], Head(undoSteps).changes, hs[1])
    <3>1. Len(hs) > 1 /\ Leads("undo", hs[2], undoSteps[1].changes, hs[1]) /\ Len(hs) \in Nat
      BY <1>2, <1>3, <2>1, HeldTypes, LenProperties
    <3> QED
      BY <2>2, <3>1
  <2>4. hs[2] \in Db /\ hs[1] \in Db
    BY <2>3, HeldTypes
  <2>5. Leads("undo", hs[2], Head(undoSteps).changes, e)
    BY <1>2, <1>3, <1>8, <2>1, <2>2, <2>3, <2>4, CoalescedLeads
  <2>6. PICK hs1 : Chain("undo", undoSteps, hs1) /\ hs1[1] = e /\ Shift(hs, hs1, 1, Len(hs))
    BY <1>2, <1>3, <2>2, <2>5, ChainRetake
  <2>7. Held(hs1, gs1)' /\ hs1[1] = gs1[1]
    BY <1>5, <1>8, <2>6
  <2> QED
    BY <1>4, <2>3, <2>6, <2>7 DEF Moves, Extends
<1>9. Coalesces(Ended) => op # "SkipUndo"
  <2>1. Coalesces(Ended) => Ended.kind = "UpdateNote"
    BY DEF Coalesces, IsNoteEdit
  <2>2. Ended.kind = op
    BY EndedStep DEF CommitUndoable, Flow
  <2> QED
    BY <2>1, <2>2
<1>10. \/ /\ ~HasChanges(currentStep) \/ op = "SkipUndo"
          /\ undoSteps' = undoSteps /\ redoSteps' = redoSteps
       \/ /\ op # "SkipUndo" /\ undoSteps' = <<Ended>> \o Truncate(undoSteps) /\ redoSteps' = redoSteps
       \/ /\ Coalesces(Ended) /\ undoSteps' = undoSteps /\ redoSteps' = redoSteps
  BY Commitment
<1> QED
  BY <1>6, <1>7, <1>8, <1>9, <1>10

\* The end of an undo
LEMMA CommitUndoHeld ==
    ASSUME Types, Flow, NEW hs, NEW gs, Held(hs, gs), CommitUndoable, mode = "Undoing"
    PROVE  \E hs1, gs1 : Held(hs1, gs1)' /\ Moves(hs, gs, hs1, gs1)
<1>1. /\ db' = db /\ mode' = "NormalOp" /\ op' = Idle /\ outer' = outer /\ gs[1] = saved
      /\ todo = <<>> /\ db \in Db
  BY EndedState DEF CommitUndoable, Types, TypeOK
<1>2. /\ Steps = <<popped>> \o undoSteps /\ undoSteps \in Seq(Step) /\ popped \in Step
      /\ Undone = redoSteps /\ redoSteps \in Seq(Step)
  BY UndoingParts
<1>3. /\ Chain("undo", <<popped>> \o undoSteps, hs) /\ Chain("redo", Reverse(redoSteps), gs)
      /\ Leads("undo", hs[2], <<>>, db) /\ Leads("redo", saved, currentStep.changes, db)
      /\ outer # NoTrx => Clean(outer.db)
  BY <1>1, <1>2 DEF Held
<1>4. undoSteps' = undoSteps /\ redoSteps' = Append(redoSteps, currentStep) /\ currentStep \in Step
  BY Commitment, EndedStep
<1>5. Near("undo", hs[2], db)
  BY <1>3, LeadsNone
<1>6. Len(hs) > 1 /\ Clean(hs[2])
  <2>1. Steps # <<>> /\ Len(hs) \in Nat
    <3>1. Len(<<popped>> \o undoSteps) = 1 + Len(undoSteps) /\ Len(undoSteps) \in Nat
      BY <1>2, ConcatProperties, LenProperties
    <3>2. hs \in Seq(Db)
      BY HeldTypes
    <3> QED
      BY <1>2, <3>1, <3>2, LenProperties, EmptySeq
  <2>2. Len(hs) > 1
    BY <2>1, HeldTypes
  <2>3. 2 \in 1..Len(hs)
    BY <2>1, <2>2
  <2> QED
    BY <2>2, <2>3, HeldTypes
<1>7. Clean(db)
  BY <1>5, <1>6, AlikeClean DEF Near
<1>8. PICK hs1 : Chain("undo", undoSteps, hs1) /\ hs1[1] = db /\ Shift(hs, hs1, 2, Len(hs) - 1)
  BY <1>1, <1>2, <1>3, <1>5, <1>7, ChainPop
<1>9. PICK gs1 : /\ Chain("redo", <<currentStep>> \o Reverse(redoSteps), gs1) /\ gs1[1] = db
                 /\ Shift(gs, gs1, 0, Len(gs) + 1)
  <2>1. Reverse(redoSteps) \in Seq(Step)
    BY <1>2, ReverseProperties
  <2> QED
    BY <1>1, <1>3, <1>4, <1>7, <2>1, ChainPush
<1>10. PICK d : d = db
  OBVIOUS
<1>11. Chain("redo", Reverse(redoSteps'), gs1) /\ Chain("undo", undoSteps', hs1)
  BY <1>2, <1>4, <1>8, <1>9, ReverseAppend
<1>12. Held(hs1, gs1)'
  BY <1>1, <1>3, <1>8, <1>9, <1>10, <1>11, RestHeld
<1>13. Alike(hs[2], hs1[1])
  BY <1>5, <1>8 DEF Near
<1> QED
  BY <1>6, <1>8, <1>9, <1>12, <1>13 DEF Moves, Undoes

\* The end of a redo
LEMMA CommitRedoHeld ==
    ASSUME Types, Flow, NEW hs, NEW gs, Held(hs, gs), CommitUndoable, mode = "Redoing"
    PROVE  \E hs1, gs1 : Held(hs1, gs1)' /\ Moves(hs, gs, hs1, gs1)
<1>1. /\ db' = db /\ mode' = "NormalOp" /\ op' = Idle /\ outer' = outer /\ hs[1] = saved
      /\ todo = <<>> /\ db \in Db
  BY EndedState DEF CommitUndoable, Types, TypeOK
<1>2. /\ Steps = undoSteps /\ undoSteps \in Seq(Step) /\ popped \in Step
      /\ redoSteps \in Seq(Step) /\ Reverse(redoSteps) \in Seq(Step)
      /\ Reverse(Undone) = <<popped>> \o Reverse(redoSteps)
  BY RedoingParts
<1>3. /\ Chain("undo", undoSteps, hs) /\ Chain("redo", <<popped>> \o Reverse(redoSteps), gs)
      /\ Leads("redo", gs[2], <<>>, db) /\ Leads("undo", saved, currentStep.changes, db)
      /\ outer # NoTrx => Clean(outer.db)
  BY <1>1, <1>2 DEF Held
<1>4. Near("redo", gs[2], db)
  BY <1>3, LeadsNone
<1>5. Len(gs) > 1 /\ Clean(gs[2])
  <2>1. Reverse(Undone) # <<>> /\ Len(gs) \in Nat
    <3>1. Len(<<popped>> \o Reverse(redoSteps)) = 1 + Len(Reverse(redoSteps))
          /\ Len(Reverse(redoSteps)) \in Nat
      BY <1>2, ConcatProperties, LenProperties
    <3>2. gs \in Seq(Db)
      BY HeldTypes
    <3> QED
      BY <1>2, <3>1, <3>2, LenProperties, EmptySeq
  <2>2. Len(gs) > 1
    BY <2>1, HeldTypes
  <2>3. 2 \in 1..Len(gs)
    BY <2>1, <2>2
  <2> QED
    BY <2>2, <2>3, HeldTypes
<1>6. Clean(db)
  BY <1>4, <1>5, AlikeClean DEF Near
<1>7. PICK gs1 : Chain("redo", Reverse(redoSteps), gs1) /\ gs1[1] = db /\ Shift(gs, gs1, 2, Len(gs) - 1)
  BY <1>1, <1>2, <1>3, <1>4, <1>6, ChainPop
<1>8. Alike(gs[2], gs1[1])
  BY <1>4, <1>7 DEF Near
<1>9. PICK d : d = db
  OBVIOUS
<1>10. ASSUME NEW hs1, Chain("undo", undoSteps', hs1), hs1[1] = db, redoSteps' = redoSteps
       PROVE  Held(hs1, gs1)' /\ hs1[1] = gs1[1]
  BY <1>1, <1>3, <1>7, <1>9, <1>10, RestHeld
<1>11. CASE /\ currentStep \in Undoable
            /\ undoSteps' = <<currentStep>> \o Truncate(undoSteps) /\ redoSteps' = redoSteps
  <2>1. PICK hs1 : /\ Chain("undo", <<currentStep>> \o Truncate(undoSteps), hs1) /\ hs1[1] = db
                   /\ Shift(hs, hs1, 0, Room(Len(hs)))
    <3>1. Leads("undo", hs[1], currentStep.changes, db)
      BY <1>1, <1>3
    <3>2. PICK s \in Step : s = currentStep
      BY <1>11, QueueElements
    <3>3. Chain("undo", undoSteps, hs) /\ undoSteps \in Seq(Step) /\ db \in Db
      BY <1>1, <1>2, <1>3
    <3>4. \E hs1 : Chain("undo", <<s>> \o Truncate(undoSteps), hs1) /\ hs1[1] = db
                  /\ Shift(hs, hs1, 0, Room(Len(hs)))
      BY <1>6, <3>1, <3>2, <3>3, ChainPushTruncated
    <3> QED
      BY <3>2, <3>4
  <2>2. Held(hs1, gs1)' /\ hs1[1] = gs1[1]
    BY <1>10, <1>11, <2>1
  <2> QED
    BY <1>5, <1>7, <1>8, <2>1, <2>2 DEF Moves, Redoes
<1>12. CASE Coalesces(Ended) /\ undoSteps' = undoSteps /\ redoSteps' = redoSteps
  <2>1. PICK n \in Notes : /\ IsNoteEdit(Ended, n) /\ IsNoteEdit(Head(undoSteps), n)
                           /\ undoSteps # <<>>
    BY <1>12 DEF Coalesces
  <2>2. Head(undoSteps) \in Step /\ Head(undoSteps) = undoSteps[1] /\ Ended = currentStep
        /\ currentStep \in Step
    BY <1>2, <2>1, HeadTailProperties, EndedStep
  <2>3. 1 \in 1..Len(hs) /\ 2 \in 1..Len(hs) /\ Len(hs) > 1
        /\ Leads("undo", hs[2], Head(undoSteps).changes, hs[1])
    <3>1. Len(hs) > 1 /\ Leads("undo", hs[2], undoSteps[1].changes, hs[1]) /\ Len(hs) \in Nat
      BY <1>2, <2>1, HeldTypes, LenProperties
    <3> QED
      BY <2>2, <3>1
  <2>4. hs[2] \in Db /\ hs[1] \in Db
    BY <2>3, HeldTypes
  <2>5. Leads("undo", hs[2], Head(undoSteps).changes, db)
    <3>1. Leads("undo", hs[1], currentStep.changes, db) /\ IsNoteEdit(currentStep, n)
      BY <1>1, <1>3, <2>1, <2>2
    <3> QED
      BY <1>1, <2>1, <2>2, <2>3, <2>4, <3>1, CoalescedLeads
  <2>6. PICK hs1 : Chain("undo", undoSteps, hs1) /\ hs1[1] = db /\ Shift(hs, hs1, 1, Len(hs))
    BY <1>1, <1>2, <1>3, <1>6, <2>2, <2>5, ChainRetake
  <2>7. Held(hs1, gs1)' /\ hs1[1] = gs1[1]
    BY <1>10, <1>12, <2>6
  <2> QED
    BY <1>5, <1>7, <1>8, <2>3, <2>6, <2>7 DEF Moves, Redoes
<1> QED
  BY <1>11, <1>12, Commitment

LEMMA BeginUndoHeld ==
    ASSUME Types, Flow, NEW hs, NEW gs, Held(hs, gs), BeginUndo
    PROVE  \E hs1, gs1 : Held(hs1, gs1)' /\ Moves(hs, gs, hs1, gs1)
<1>1. /\ op = Idle /\ Steps = undoSteps /\ Undone = redoSteps
      /\ undoSteps \in Seq(Step) /\ undoSteps # <<>>
  BY IdleFlow DEF BeginUndo, Types, TypeOK
<1>2. /\ hs[1] = db /\ gs[1] = db /\ db \in Db /\ hs \in Seq(Db) /\ gs \in Seq(Db)
      /\ Leads("undo", hs[2], undoSteps[1].changes, hs[1])
  BY <1>1, HeldTypes
<1>3. Steps' = undoSteps /\ Undone' = redoSteps
  BY BeginUndoFlow
<1>4. Head(undoSteps) = undoSteps[1]
  BY <1>1, HeadTailProperties
<1>5. /\ mode' = "Undoing" /\ op' = Head(undoSteps).kind /\ todo' = Head(undoSteps).changes
      /\ currentStep' = NewStep(Head(undoSteps).kind) /\ saved' = db /\ db' = db /\ outer' = outer
  BY DEF BeginUndo, Start, BeginStep
<1>6. currentStep'.changes = <<>> /\ Leads("redo", db, <<>>, db)
  BY <1>2, <1>5, NearReflexive, LeadsEmpty DEF NewStep
<1>7. op' \in OpKind /\ op' # "SkipUndo" /\ op' # Idle /\ op' # "NoUndo"
  <2>1. Head(undoSteps) \in Undoable
    BY <1>1, IdleFlow, HeadTailProperties
  <2> QED
    BY <1>5, <2>1, UndoAssumption DEF Undoable, Kept, Step, OpKind
<1>8. Stable' = db
  BY <1>5, <1>7 DEF Stable
<1>9. Chain("undo", Steps', hs) /\ Chain("redo", Reverse(Undone'), gs)
  BY <1>1, <1>3 DEF Held
<1>10. Leads("undo", hs[2], todo', db') /\ Leads("redo", saved', currentStep'.changes, db')
  BY <1>2, <1>4, <1>5, <1>6
<1>11. outer' # NoTrx => Clean(outer'.db)
  BY <1>5 DEF Held
<1>12. Held(hs, gs)'
  BY <1>2, <1>5, <1>7, <1>8, <1>9, <1>10, <1>11 DEF Held
<1> QED
  BY <1>2, <1>12, StaySame

LEMMA BeginRedoHeld ==
    ASSUME Types, Flow, NEW hs, NEW gs, Held(hs, gs), BeginRedo
    PROVE  \E hs1, gs1 : Held(hs1, gs1)' /\ Moves(hs, gs, hs1, gs1)
<1>1. /\ op = Idle /\ Steps = undoSteps /\ Undone = redoSteps
      /\ redoSteps \in Seq(Step) /\ redoSteps # <<>> /\ redoSteps \in Seq(Redoable)
  BY IdleFlow DEF BeginRedo, Types, TypeOK
<1>2. /\ Last(redoSteps) \in Redoable /\ Front(redoSteps) \in Seq(Redoable)
      /\ Append(Front(redoSteps), Last(redoSteps)) = redoSteps
  BY <1>1, FrontLast
<1>3. PICK s \in Step : s = Last(redoSteps)
  BY <1>2, QueueElements
<1>4. Reverse(redoSteps) # <<>> /\ Reverse(redoSteps)[1] = s
  <2>1. PICK f \in Seq(Step) : f = Front(redoSteps)
    BY <1>2, QueueElements
  <2>2. Reverse(redoSteps) = <<s>> \o Reverse(f) /\ Reverse(f) \in Seq(Step)
    BY <1>2, <1>3, <2>1, ReverseAppend, ReverseProperties
  <2>3. PICK r \in Seq(Step) : r = Reverse(f)
    BY <2>2
  <2>4. <<s>> \in Seq(Step) /\ Len(<<s>>) = 1 /\ <<s>>[1] = s
    OBVIOUS
  <2>5. /\ Len(<<s>> \o r) = 1 + Len(r) /\ Len(r) \in Nat
        /\ \A i \in 1..(1 + Len(r)) : (<<s>> \o r)[i] = IF i <= 1 THEN <<s>>[i] ELSE r[i - 1]
    BY <2>4, ConcatProperties, LenProperties
  <2>6. 1 \in 1..(1 + Len(r)) /\ 1 <= 1
    BY <2>5
  <2>7. (<<s>> \o r)[1] = s /\ <<s>> \o r # <<>>
    BY <2>4, <2>5, <2>6, EmptySeq
  <2> QED
    BY <2>2, <2>3, <2>7
<1>5. /\ hs[1] = db /\ gs[1] = db /\ db \in Db /\ hs \in Seq(Db) /\ gs \in Seq(Db)
      /\ Leads("redo", gs[2], s.changes, gs[1])
  BY <1>1, <1>4, HeldTypes
<1>6. Steps' = undoSteps /\ Undone' = redoSteps
  BY BeginRedoFlow
<1>7. /\ mode' = "Redoing" /\ op' = s.kind /\ todo' = s.changes
      /\ currentStep' = NewStep(s.kind) /\ saved' = db /\ db' = db /\ outer' = outer
  BY <1>3 DEF BeginRedo, Start, BeginStep
<1>8. currentStep'.changes = <<>> /\ Leads("undo", db, <<>>, db)
  BY <1>5, <1>7, NearReflexive, LeadsEmpty DEF NewStep
<1>9. op' \in OpKind /\ op' # "SkipUndo" /\ op' # Idle /\ op' # "NoUndo"
  BY <1>2, <1>3, <1>7, UndoAssumption DEF Redoable, Kept, Step, OpKind
<1>10. Stable' = db
  BY <1>7, <1>9 DEF Stable
<1>11. Chain("undo", Steps', hs) /\ Chain("redo", Reverse(Undone'), gs)
  BY <1>1, <1>6 DEF Held
<1>12. Leads("redo", gs[2], todo', db') /\ Leads("undo", saved', currentStep'.changes, db')
  BY <1>5, <1>7, <1>8
<1>13. outer' # NoTrx => Clean(outer'.db)
  BY <1>7 DEF Held
<1>14. Held(hs, gs)'
  BY <1>5, <1>7, <1>9, <1>10, <1>11, <1>12, <1>13 DEF Held
<1> QED
  BY <1>5, <1>14, StaySame

LEMMA ReplayHeld ==
    ASSUME Types, Flow, NEW hs, NEW gs, Held(hs, gs), ReplayChange
    PROVE  \E hs1, gs1 : Held(hs1, gs1)' /\ Moves(hs, gs, hs1, gs1)
<1>1. PICK c \in Change : c = Last(todo)
  BY Replaying
<1>2. PICK inv \in Seq(Change) : inv = InverseOf(db, c)
  BY <1>1, Replaying
<1>3. PICK e \in Db : e = Revert(db, c)
  BY <1>1, Replaying
<1>4. PICK f \in Seq(Change) : f = Front(todo)
  BY Replaying
<1>5. /\ mode \in {"Undoing", "Redoing"} /\ op \in OpKind /\ op # "SkipUndo"
      /\ todo \in Seq(Change) /\ todo # <<>> /\ Replayable(db, c)
      /\ currentStep.changes \in Seq(Change) /\ currentStep'.changes = currentStep.changes \o inv
      /\ db' = e /\ todo' = f /\ Steps' = Steps /\ Undone' = Undone
      /\ UNCHANGED <<saved, outer, mode, op>>
  BY <1>1, <1>2, <1>3, <1>4, Replaying
<1>6. db \in Db /\ hs \in Seq(Db) /\ gs \in Seq(Db) /\ hs[1] = gs[1] /\ op # Idle
  BY <1>5, HeldTypes, UndoAssumption
<1>7. /\ Chain("undo", Steps', hs) /\ hs[1] = Stable' /\ Chain("redo", Reverse(Undone'), gs)
      /\ gs[1] = Stable' /\ (outer' # NoTrx => Clean(outer'.db))
  BY <1>5, <1>6 DEF Held, Stable
<1>8. ASSUME NEW dir \in {"undo", "redo"}, NEW a, Leads(dir, a, todo, db),
             Leads(Other(dir), saved, currentStep.changes, db)
      PROVE  Leads(dir, a, f, e) /\ Leads(Other(dir), saved, currentStep'.changes, e)
  <2>1. Guard(dir, c, db) /\ Leads(dir, a, f, e)
    BY <1>1, <1>3, <1>4, <1>5, <1>6, <1>8, LeadsFront
  <2>2. Leads(Other(dir), db, inv, e)
    BY <1>2, <1>3, <1>5, <1>6, <2>1, InverseLeads
  <2>3. Leads(Other(dir), saved, currentStep.changes \o inv, e)
    BY <1>5, <1>8, <2>2, LeadsConcat
  <2> QED
    BY <1>5, <2>1, <2>3
<1>9. CASE mode = "Undoing"
  <2>1. Leads("undo", hs[2], todo, db) /\ Leads("redo", saved, currentStep.changes, db)
    BY <1>9 DEF Held
  <2>2. Other("undo") = "redo"
    BY DEF Other
  <2>3. Leads("undo", hs[2], f, e) /\ Leads("redo", saved, currentStep'.changes, e)
    BY <1>8, <2>1, <2>2
  <2>4. Held(hs, gs)'
    BY <1>5, <1>7, <1>9, <2>3 DEF Held
  <2> QED
    BY <1>6, <2>4, StaySame
<1>10. CASE mode = "Redoing"
  <2>1. Leads("redo", gs[2], todo, db) /\ Leads("undo", saved, currentStep.changes, db)
    BY <1>10 DEF Held
  <2>2. Other("redo") = "undo"
    BY DEF Other
  <2>3. Leads("redo", gs[2], f, e) /\ Leads("undo", saved, currentStep'.changes, e)
    BY <1>8, <2>1, <2>2
  <2>4. Held(hs, gs)'
    BY <1>5, <1>7, <1>10, <2>3 DEF Held
  <2> QED
    BY <1>6, <2>4, StaySame
<1> QED
  BY <1>5, <1>9, <1>10

LEMMA AddCustomHeld ==
    ASSUME Types, Flow, NEW hs, NEW gs, Held(hs, gs), AddCustomStep
    PROVE  \E hs1, gs1 : Held(hs1, gs1)' /\ Moves(hs, gs, hs1, gs1)
<1>1. /\ op = Idle /\ mode = "NormalOp" /\ Steps = undoSteps /\ undoSteps \in Seq(Step)
  BY IdleFlow DEF AddCustomStep, Types, TypeOK
<1>2. hs[1] = db /\ db \in Db /\ Clean(db) /\ Chain("undo", undoSteps, hs)
  BY <1>1, HeldTypes DEF Held
<1>3. PICK s \in Step : s = NewStep("Custom")
  BY NewStepType DEF Types, OpKind
<1>4. /\ undoSteps' = <<s>> \o Truncate(undoSteps) /\ redoSteps' = <<>> /\ mode' = "NormalOp"
      /\ op' = Idle /\ db' = db /\ outer' = outer
  BY <1>1, <1>3 DEF AddCustomStep, dbVars, callVars
<1>5. Leads("undo", hs[1], s.changes, db)
  <2>1. s.changes = <<>>
    BY <1>3 DEF NewStep
  <2> QED
    BY <1>2, <2>1, NearReflexive, LeadsEmpty
<1>6. PICK hs1 : /\ Chain("undo", <<s>> \o Truncate(undoSteps), hs1) /\ hs1[1] = db
                 /\ Shift(hs, hs1, 0, Room(Len(hs)))
  BY <1>1, <1>2, <1>5, ChainPushTruncated
<1>7. PICK gs1 : Chain("redo", <<>>, gs1) /\ gs1[1] = db /\ Len(gs1) = 1
  BY <1>2, ChainEmpty
<1>8. Held(hs1, gs1)'
  <2>1. PICK d : d = db
    OBVIOUS
  <2>2. outer' # NoTrx => Clean(outer'.db)
    BY <1>4 DEF Held
  <2>3. Chain("redo", Reverse(redoSteps'), gs1)
    BY <1>4, <1>7, ReverseEmpty
  <2> QED
    BY <1>4, <1>6, <1>7, <2>1, <2>2, <2>3, RestHeld
<1> QED
  BY <1>6, <1>7, <1>8 DEF Moves, Does

LEMMA MergeHeld ==
    ASSUME Types, Flow, NEW hs, NEW gs, Held(hs, gs), NEW i \in 1..UndoLimit, Merge(i)
    PROVE  \E hs1, gs1 : Held(hs1, gs1)' /\ Moves(hs, gs, hs1, gs1)
<1>1. /\ op = Idle /\ mode = "NormalOp" /\ Steps = undoSteps /\ Undone = redoSteps
  BY IdleFlow DEF Merge
<1>2. /\ hs[1] = db /\ gs[1] = db /\ Chain("undo", undoSteps, hs) /\ gs \in Seq(Db)
      /\ Chain("redo", Reverse(redoSteps), gs) /\ Len(hs) = Len(undoSteps) + 1
  BY <1>1, HeldTypes DEF Held
<1>3. i \in 1..Len(undoSteps) /\ undoSteps \in Seq(Step)
  BY <1>2, MergeFlow
<1>4. PICK m \in Step : /\ undoSteps' = <<m>> \o SubSeq(undoSteps, i + 1, Len(undoSteps))
                        /\ Leads("undo", hs[i + 1], m.changes, hs[1])
  BY <1>2, MergeFlow
<1>5. PICK hs1 : /\ Chain("undo", <<m>> \o SubSeq(undoSteps, i + 1, Len(undoSteps)), hs1)
                 /\ hs1[1] = hs[1] /\ Shift(hs, hs1, i, Len(hs) - (i - 1))
  BY <1>2, <1>3, <1>4, ChainMerge
<1>6. redoSteps' = redoSteps /\ mode' = "NormalOp" /\ op' = Idle /\ db' = db /\ outer' = outer
  BY <1>1 DEF Merge, dbVars, callVars
<1>7. Held(hs1, gs)'
  <2>1. PICK d : d = db
    OBVIOUS
  <2>2. outer' # NoTrx => Clean(outer'.db)
    BY <1>6 DEF Held
  <2> QED
    BY <1>2, <1>4, <1>5, <1>6, <2>1, <2>2, RestHeld
<1>8. i < Len(hs)
  BY <1>2, <1>3, LenProperties
<1>9. Merges(hs, gs, hs1, gs)
  BY <1>2, <1>5, <1>8, ShiftSame, AlikeReflexive DEF Merges
<1> QED
  BY <1>2, <1>5, <1>7, <1>9 DEF Moves

\* A transaction of the DB proxy that wrote and is committed
LEMMA ProxyCommitHeld ==
    ASSUME Types, Flow, NEW hs, NEW gs, Held(hs, gs), ProxyCommit
    PROVE  \E hs1, gs1 : Held(hs1, gs1)' /\ Moves(hs, gs, hs1, gs1)
<1>1. /\ op = Idle /\ mode = "NormalOp" /\ Steps = undoSteps /\ Undone = redoSteps
  BY IdleFlow DEF ProxyCommit
<1>2. /\ hs[1] = db /\ gs[1] = db /\ db \in Db /\ Clean(db)
      /\ Chain("undo", undoSteps, hs) /\ Chain("redo", Reverse(redoSteps), gs)
      /\ undoSteps \in Seq(Step) /\ Reverse(redoSteps) \in Seq(Step)
  BY <1>1, HeldTypes DEF Held
<1>3. /\ undoSteps' = undoSteps /\ redoSteps' = redoSteps /\ mode' = "NormalOp" /\ op' = Idle
      /\ outer' = NoTrx /\ ProxyOutcomes # {}
      /\ db' = IF proxyWrote THEN [db EXCEPT !.mod = clock] ELSE db
  BY <1>1 DEF ProxyCommit, undoVars, callVars
<1>4. PICK e : e = db'
  OBVIOUS
<1>5. e \in Db /\ e.row = db.row /\ e.graves = db.graves
  BY <1>2, <1>3, <1>4 DEF Db, Types, TypeOK
<1>6. Clean(e) /\ \A dir : Near(dir, db, e)
  BY <1>2, <1>3, <1>5 DEF Clean, Near, Alike, Covers, ModKept
<1>7. PICK hs1 : Chain("undo", undoSteps, hs1) /\ hs1[1] = e /\ Shift(hs, hs1, 1, Len(hs))
  BY <1>2, <1>5, <1>6, ChainMove
<1>8. PICK gs1 : Chain("redo", Reverse(redoSteps), gs1) /\ gs1[1] = e /\ Shift(gs, gs1, 1, Len(gs))
  BY <1>2, <1>5, <1>6, ChainMove
<1>9. Held(hs1, gs1)'
  BY <1>3, <1>4, <1>7, <1>8, RestHeld
<1>10. Alike(hs[1], hs1[1])
  BY <1>2, <1>6, <1>7 DEF Near
<1> QED
  BY <1>7, <1>8, <1>9, <1>10 DEF Moves, Stays

\* The steps that leave nothing to undo or redo
LEMMA ForgettingHeld ==
    ASSUME Types, Flow, NEW hs, NEW gs, Held(hs, gs), "rollback" \notin ProxyOutcomes,
           \/ CommitNoUndo
           \/ Fail
           \/ \E r \in Rows, v \in Value : ProxyWrite(r, v)
           \/ ProxyRollback
           \/ Discard
    PROVE  \E hs1, gs1 : Held(hs1, gs1)' /\ Moves(hs, gs, hs1, gs1)
<1>1. db \in Db /\ saved \in Db /\ (op = Idle => Clean(db)) /\ (op # Idle => Clean(saved))
  BY HeldTypes
<1>2. outer # NoTrx => Clean(outer.db)
  BY DEF Held
<1>3. op = Idle => mode = "NormalOp" /\ op \notin OpKind
  BY IdleFlow, UndoAssumption
<1>4. ASSUME NEW e \in Db, Clean(e), db' = e, op \in OpKind => hs[1] = e,
             mode' = "NormalOp", op' = Idle,
             undoSteps' = <<>>, redoSteps' = <<>>, outer' # NoTrx => Clean(outer'.db)
      PROVE  \E hs1, gs1 : Held(hs1, gs1)' /\ Moves(hs, gs, hs1, gs1)
  BY <1>4, ForgetHeld
<1>5. CASE CommitNoUndo
  <2>1. mode = "NormalOp" /\ undoSteps = <<>> /\ redoSteps = <<>> /\ Clean(db)
    BY <1>5, UndoAssumption DEF CommitNoUndo, Flow, Held
  <2>2. PICK e : e = db'
    OBVIOUS
  <2>3. e \in Db /\ e.row = db.row /\ e.graves = db.graves
    BY <1>1, <1>5, <2>2 DEF CommitNoUndo, Db, Types, TypeOK
  <2>4. Clean(e)
    BY <2>1, <2>3 DEF Clean
  <2>5. op \notin OpKind
    BY <1>5 DEF CommitNoUndo, OpKind
  <2> QED
    BY <1>2, <1>4, <1>5, <2>1, <2>2, <2>3, <2>4, <2>5 DEF CommitNoUndo, Finish
<1>6. CASE Fail
  <2>1. PICK e : e = saved
    OBVIOUS
  <2>2. hs[1] = e
    BY <1>6, <2>1, HeldTypes DEF Fail
  <2> QED
    BY <1>1, <1>2, <1>4, <1>6, <2>1, <2>2 DEF Fail, Finish, DiscardSteps
<1>7. ASSUME NEW r \in Rows, NEW v \in Value, ProxyWrite(r, v)
      PROVE  \E hs1, gs1 : Held(hs1, gs1)' /\ Moves(hs, gs, hs1, gs1)
  <2>1. op = Idle /\ db.row[r] # NoRow
    BY <1>7 DEF ProxyWrite
  <2>2. PICK e : e = [db EXCEPT !.row[r] = v]
    OBVIOUS
  <2>3. /\ e \in Db /\ e.graves = db.graves
        /\ \A q \in Rows : e.row[q] = IF q = r THEN v ELSE db.row[q]
    BY <1>1, <2>2 DEF Db
  <2>4. Clean(e)
    BY <1>1, <2>1, <2>3, WatchedRows DEF Clean
  <2>5. /\ db' = e /\ mode' = "NormalOp" /\ op' = Idle /\ undoSteps' = <<>> /\ redoSteps' = <<>>
        /\ outer' = outer /\ op \notin OpKind
    BY <1>3, <1>7, <2>1, <2>2 DEF ProxyWrite, DiscardSteps, callVars
  <2> QED
    BY <1>2, <1>4, <2>3, <2>4, <2>5
<1>8. CASE ProxyRollback
  <2>1. /\ op = Idle /\ outer # NoTrx /\ undoSteps = <<>> /\ redoSteps = <<>>
    BY <1>8 DEF ProxyRollback
  <2>2. outer.db \in Db
    BY <2>1 DEF Types, TypeOK, Trx
  <2>3. PICK e : e = outer.db
    OBVIOUS
  <2>4. /\ db' = e /\ mode' = "NormalOp" /\ op' = Idle /\ undoSteps' = <<>> /\ redoSteps' = <<>>
        /\ outer' = NoTrx /\ op \notin OpKind
    BY <1>3, <1>8, <2>1, <2>3 DEF ProxyRollback, undoVars, callVars
  <2> QED
    BY <1>2, <1>4, <2>1, <2>2, <2>3, <2>4
<1>9. CASE Discard
  <2>1. PICK e : e = db
    OBVIOUS
  <2>2. /\ db' = e /\ mode' = "NormalOp" /\ op' = Idle /\ undoSteps' = <<>> /\ redoSteps' = <<>>
        /\ outer' = outer /\ op = Idle /\ op \notin OpKind
    BY <1>3, <1>9, <2>1 DEF Discard, DiscardSteps, dbVars, callVars
  <2> QED
    BY <1>1, <1>2, <1>4, <2>1, <2>2
<1> QED
  BY <1>5, <1>6, <1>7, <1>8, <1>9

\* The steps that touch neither the queues nor the database
LEMMA ElsewhereHeld ==
    ASSUME Types, Flow, NEW hs, NEW gs, Held(hs, gs), ProxyBegin \/ Tick \/ UNCHANGED vars
    PROVE  \E hs1, gs1 : Held(hs1, gs1)' /\ Moves(hs, gs, hs1, gs1)
<1>1. hs \in Seq(Db) /\ gs \in Seq(Db) /\ hs[1] = gs[1] /\ (op = Idle => Clean(db))
  BY HeldTypes
<1>2. /\ UNCHANGED <<db, saved, undoSteps, redoSteps, mode, currentStep, op, popped, todo>>
      /\ outer' # NoTrx => Clean(outer'.db)
  <2>1. outer # NoTrx => Clean(outer.db)
    BY DEF Held
  <2>2. CASE ProxyBegin
    <3>1. outer'.db = db /\ op = Idle
      BY <2>2 DEF ProxyBegin
    <3> QED
      BY <1>1, <2>2, <3>1 DEF ProxyBegin, undoVars, callVars
  <2>3. CASE Tick \/ UNCHANGED vars
    BY <2>1, <2>3 DEF Tick, vars, dbVars, undoVars, callVars
  <2> QED
    BY <2>2, <2>3
<1>3. Steps' = Steps /\ Undone' = Undone /\ Stable' = Stable
  BY <1>2 DEF Steps, Undone, Stable
<1>4. Held(hs, gs)'
  BY <1>2, <1>3 DEF Held
<1> QED
  BY <1>1, <1>4, StaySame

\* Every step moves the states as an action of the history does.
LEMMA HeldStep ==
    ASSUME Types, Flow, NEW hs, NEW gs, Held(hs, gs), "rollback" \notin ProxyOutcomes, [Next]_vars
    PROVE  \E hs1, gs1 : Held(hs1, gs1)' /\ Moves(hs, gs, hs1, gs1)
<1>1. CASE CommitUndoable
  <2>1. mode \in {"NormalOp", "Undoing", "Redoing"}
    BY DEF Types, TypeOK
  <2> QED
    BY <1>1, <2>1, CommitNormalHeld, CommitUndoHeld, CommitRedoHeld
<1>2. CASE \/ CommitNoUndo \/ Fail \/ ProxyRollback \/ Discard
           \/ \E r \in Rows, v \in Value : ProxyWrite(r, v)
  BY <1>2, ForgettingHeld
<1>3. CASE \E k \in Ops \ {"NoUndo", "Custom"} : BeginUndoable(k)
  BY <1>3, BeginHeld
<1>4. CASE BeginNoUndo \/ BeginUndo \/ BeginRedo \/ ReplayChange \/ AddCustomStep
  BY <1>4, BeginNoUndoHeld, BeginUndoHeld, BeginRedoHeld, ReplayHeld, AddCustomHeld
<1>5. CASE \E r \in Rows, v \in Value : AddRow(r, v)
  BY <1>5, AddHeld
<1>6. CASE \E r \in Rows, v \in Value : UpdateRow(r, v)
  BY <1>6, UpdateHeld
<1>7. CASE \E r \in Rows : RemoveRow(r)
  BY <1>7, RemoveHeld
<1>8. CASE \E i \in 1..UndoLimit : Merge(i)
  BY <1>8, MergeHeld
<1>9. CASE ProxyCommit
  BY <1>9, ProxyCommitHeld
<1>10. CASE ProxyBegin \/ Tick \/ UNCHANGED vars
  BY <1>10, ElsewhereHeld
<1> QED
  BY <1>1, <1>2, <1>3, <1>4, <1>5, <1>6, <1>7, <1>8, <1>9, <1>10 DEF Next

LEMMA InitHeld ==
    ASSUME Init
    PROVE  \E hs, gs : Held(hs, gs) /\ Len(hs) = 1 /\ Len(gs) = 1
<1>1. db \in Db /\ Clean(db)
  <2>1. db \in Db
    BY InitTypes DEF Types, TypeOK
  <2>2. db.graves = {}
    BY DEF Init
  <2> QED
    BY <2>1, <2>2 DEF Clean
<1>2. PICK hs : Chain("undo", <<>>, hs) /\ hs[1] = db /\ Len(hs) = 1
  BY <1>1, ChainEmpty
<1>3. PICK gs : Chain("redo", <<>>, gs) /\ gs[1] = db /\ Len(gs) = 1
  BY <1>1, ChainEmpty
<1>4. Steps = <<>> /\ Undone = <<>> /\ Stable = db /\ mode = "NormalOp" /\ op = Idle /\ outer = NoTrx
  BY DEF Init, Steps, Undone, Stable
<1>5. Held(hs, gs)
  BY <1>2, <1>3, <1>4, ReverseEmpty, UndoAssumption DEF Held, OpKind
<1> QED
  BY <1>2, <1>3, <1>5

\* The inductive invariant
Recorded == Types /\ Flow /\ \E hs, gs : Held(hs, gs)

LEMMA RecordedStep ==
    ASSUME Recorded, "rollback" \notin ProxyOutcomes, [Next]_vars
    PROVE  Recorded'
<1>1. PICK hs, gs : Held(hs, gs)
  BY DEF Recorded
<1>2. Types /\ Flow
  BY DEF Recorded
<1>3. Types'
  BY <1>2, NextTypes
<1>4. op = Idle => Chain("undo", undoSteps, hs)
  BY <1>1, <1>2, IdleFlow DEF Held
<1>5. Flow'
  BY <1>2, <1>4, FlowStep
<1>6. \E hs1, gs1 : Held(hs1, gs1)'
  BY <1>1, <1>2, HeldStep
<1> QED
  BY <1>3, <1>5, <1>6 DEF Recorded

LEMMA RecordedInvariance ==
    ASSUME "rollback" \notin ProxyOutcomes
    PROVE  Spec => []Recorded
<1>1. Init => Recorded
  BY InitTypes, InitFlow, InitHeld DEF Recorded
<1>2. Recorded /\ [Next]_vars => Recorded'
  BY RecordedStep
<1> QED
  BY <1>1, <1>2, PTL DEF Spec

LEMMA RecordedReplays == Recorded => ReplayNeverMissesRow
<1> SUFFICES ASSUME Recorded, todo # <<>>, ~Replayable(db, Last(todo))
             PROVE  mode = "Redoing" /\ Last(todo).row \in Keys /\ "SkipUndo" \in Ops
  BY DEF ReplayNeverMissesRow
<1>1. PICK hs, gs : Held(hs, gs)
  BY DEF Recorded
<1>2. /\ mode \in {"NormalOp", "Undoing", "Redoing"} /\ mode # "NormalOp" /\ db \in Db
      /\ todo \in Seq(Change)
  BY DEF Recorded, Flow, Types, TypeOK
<1>3. PICK c : c = Last(todo)
  OBVIOUS
<1>4. c.what = "Updated" /\ db.row[c.row] = NoRow
  BY <1>3 DEF Replayable
<1>5. c \in Change
  BY <1>2, <1>3, FrontLast
<1>6. c.row \in Rows
  BY <1>4, <1>5 DEF Change, RowChange, GraveChange, ModChange
<1>7. mode # "Undoing"
  <2>1. mode = "Undoing" => Leads("undo", hs[2], todo, db)
    BY <1>1 DEF Held
  <2>2. mode = "Undoing" => Guard("undo", c, db)
    BY <1>2, <1>3, <2>1, LeadsFront
  <2> QED
    BY <1>4, <2>2 DEF Guard
<1>8. c.row \notin Watched
  <2>1. Leads("redo", gs[2], todo, db)
    BY <1>1, <1>2, <1>7 DEF Held
  <2>2. Guard("redo", c, db)
    BY <1>2, <1>3, <2>1, LeadsFront
  <2> QED
    BY <1>4, <2>2 DEF Guard
<1> QED
  BY <1>2, <1>3, <1>6, <1>7, <1>8 DEF Watched, Rows, Graved

\* No undo meets a row that is gone, whatever the operations, skipped, merged,
\* coalesced or refused, that came in between; a redo meets one only where a
\* config key was written outside the undo queue.
THEOREM ReplayNeverMissesRowAlways ==
    ASSUME "rollback" \notin ProxyOutcomes
    PROVE  Spec => []ReplayNeverMissesRow
BY RecordedInvariance, RecordedReplays, PTL

-----------------------------------------------------------------------------
(* The history that the states make, seen through a view V of the database *)

PastOf(V, hs)   == [i \in 1..(Len(hs) - 1) |-> V[hs[i + 1]]]
FutureOf(V, gs) == [i \in 1..(Len(gs) - 1) |-> V[gs[(Len(gs) - i) + 1]]]

LEMMA FunctionIsSeq ==
    ASSUME NEW S, NEW n \in Nat, NEW w, w \in [1..n -> S]
    PROVE  w \in Seq(S) /\ Len(w) = n
<1>1. w \in Seq(S)
  BY SeqDef
<1>2. DOMAIN w = 1..n /\ DOMAIN w = 1..Len(w) /\ Len(w) \in Nat
  BY <1>1, LenProperties
<1> QED
  BY <1>1, <1>2

LEMMA PastType ==
    ASSUME NEW S, NEW V \in [Db -> S], NEW hs \in Seq(Db), Len(hs) >= 1
    PROVE  /\ PastOf(V, hs) \in Seq(S) /\ Len(PastOf(V, hs)) = Len(hs) - 1
           /\ \A i \in 1..(Len(hs) - 1) : PastOf(V, hs)[i] = V[hs[i + 1]]
           /\ Len(hs) \in Nat /\ V[hs[1]] \in S
<1>1. Len(hs) \in Nat /\ Len(hs) - 1 \in Nat /\ 1 \in 1..Len(hs)
  BY LenProperties
<1>2. ASSUME NEW i \in 1..(Len(hs) - 1) PROVE PastOf(V, hs)[i] = V[hs[i + 1]] /\ V[hs[i + 1]] \in S
  <2>1. i + 1 \in 1..Len(hs)
    BY <1>1
  <2>2. hs[i + 1] \in Db
    BY <2>1, ElementOfSeq
  <2> QED
    BY <2>2 DEF PastOf
<1>3. PastOf(V, hs) \in [1..(Len(hs) - 1) -> S]
  BY <1>2 DEF PastOf
<1>4. hs[1] \in Db
  BY <1>1, ElementOfSeq
<1> QED
  BY <1>1, <1>2, <1>3, <1>4, FunctionIsSeq

LEMMA FutureType ==
    ASSUME NEW S, NEW V \in [Db -> S], NEW gs \in Seq(Db), Len(gs) >= 1
    PROVE  /\ FutureOf(V, gs) \in Seq(S) /\ Len(FutureOf(V, gs)) = Len(gs) - 1
           /\ \A i \in 1..(Len(gs) - 1) : FutureOf(V, gs)[i] = V[gs[(Len(gs) - i) + 1]]
           /\ Len(gs) \in Nat /\ V[gs[1]] \in S
<1>1. Len(gs) \in Nat /\ Len(gs) - 1 \in Nat /\ 1 \in 1..Len(gs)
  BY LenProperties
<1>2. ASSUME NEW i \in 1..(Len(gs) - 1)
      PROVE  FutureOf(V, gs)[i] = V[gs[(Len(gs) - i) + 1]] /\ V[gs[(Len(gs) - i) + 1]] \in S
  <2>1. (Len(gs) - i) + 1 \in 1..Len(gs)
    BY <1>1
  <2>2. gs[(Len(gs) - i) + 1] \in Db
    BY <2>1, ElementOfSeq
  <2> QED
    BY <2>2 DEF FutureOf
<1>3. FutureOf(V, gs) \in [1..(Len(gs) - 1) -> S]
  BY <1>2 DEF FutureOf
<1>4. gs[1] \in Db
  BY <1>1, ElementOfSeq
<1> QED
  BY <1>1, <1>2, <1>3, <1>4, FunctionIsSeq

LEMMA PastAlone ==
    ASSUME NEW S, NEW V \in [Db -> S], NEW hs \in Seq(Db), Len(hs) = 1
    PROVE  PastOf(V, hs) = <<>> /\ FutureOf(V, hs) = <<>>
<1>1. /\ PastOf(V, hs) \in Seq(S) /\ Len(PastOf(V, hs)) = 0
      /\ FutureOf(V, hs) \in Seq(S) /\ Len(FutureOf(V, hs)) = 0
  <2>1. Len(hs) >= 1 /\ Len(hs) - 1 = 0
    OBVIOUS
  <2>2. /\ PastOf(V, hs) \in Seq(S) /\ Len(PastOf(V, hs)) = Len(hs) - 1
        /\ \A i \in 1..(Len(hs) - 1) : PastOf(V, hs)[i] = V[hs[i + 1]]
    BY <2>1, PastType
  <2>3. /\ FutureOf(V, hs) \in Seq(S) /\ Len(FutureOf(V, hs)) = Len(hs) - 1
        /\ \A i \in 1..(Len(hs) - 1) : FutureOf(V, hs)[i] = V[hs[(Len(hs) - i) + 1]]
    BY <2>1, FutureType
  <2> QED
    BY <2>1, <2>2, <2>3
<1> QED
  BY <1>1, EmptySeq

LEMMA PastSame ==
    ASSUME NEW S, NEW V \in [Db -> S], NEW hs \in Seq(Db), Len(hs) >= 1, NEW hs1 \in Seq(Db),
           Shift(hs, hs1, 1, Len(hs))
    PROVE  PastOf(V, hs1) = PastOf(V, hs) /\ FutureOf(V, hs1) = FutureOf(V, hs)
<1>1. Len(hs1) = Len(hs) /\ Len(hs) \in Nat
  BY LenProperties DEF Shift
<1>2. \A k \in 2..Len(hs) : hs1[k] = hs[k]
  <2>1. \A k \in 2..Len(hs) : (k + 1) - 1 = k
    BY <1>1
  <2> QED
    BY <2>1 DEF Shift
<1>3. \A i \in 1..(Len(hs) - 1) : i + 1 \in 2..Len(hs) /\ (Len(hs) - i) + 1 \in 2..Len(hs)
  BY <1>1
<1> QED
  BY <1>1, <1>2, <1>3 DEF PastOf, FutureOf

\* UndoHistory's Trim
Cut(s) == SubSeq(s, 1, IF Len(s) < UndoLimit THEN Len(s) ELSE UndoLimit)

LEMMA PastPush ==
    ASSUME NEW S, NEW V \in [Db -> S], NEW hs \in Seq(Db), Len(hs) >= 1, NEW hs1 \in Seq(Db),
           Shift(hs, hs1, 0, Room(Len(hs)))
    PROVE  PastOf(V, hs1) = Cut(<<V[hs[1]]>> \o PastOf(V, hs))
<1> DEFINE n == Len(hs)
           x == V[hs[1]]
           p == PastOf(V, hs)
           s == <<x>> \o p
           m == IF n < UndoLimit THEN n ELSE UndoLimit
<1>1. n \in Nat /\ n >= 1 /\ UndoLimit \in Nat /\ UndoLimit >= 1 /\ UndoLimit # 0
  BY UndoAssumption, LenProperties
<1>2. x \in S /\ p \in Seq(S) /\ Len(p) = n - 1 /\ \A i \in 1..(n - 1) : p[i] = V[hs[i + 1]]
  BY PastType
<1> HIDE DEF n, x, p
<1>3. <<x>> \in Seq(S) /\ Len(<<x>>) = 1 /\ <<x>>[1] = x
  BY <1>2
<1>4. /\ s \in Seq(S) /\ Len(s) = 1 + Len(p)
      /\ \A i \in 1..(1 + Len(p)) : s[i] = IF i <= 1 THEN <<x>>[i] ELSE p[i - 1]
  BY <1>2, <1>3, ConcatProperties
<1>5. Len(s) = n
  BY <1>1, <1>2, <1>4
<1>6. \A i \in 1..n : s[i] = V[hs[i]]
  <2> TAKE i \in 1..n
  <2>1. i \in 1..(1 + Len(p))
    BY <1>1, <1>2
  <2>2. CASE i = 1
    BY <1>3, <1>4, <2>1, <2>2 DEF x
  <2>3. CASE i # 1
    <3>1. ~(i <= 1) /\ i - 1 \in 1..(n - 1) /\ (i - 1) + 1 = i
      BY <1>1, <2>3
    <3> QED
      BY <1>2, <1>4, <2>1, <3>1
  <2> QED
    BY <2>2, <2>3
<1> HIDE DEF s
<1>7. m \in Nat /\ m >= 1 /\ m <= n /\ Room(n) = m + 1 /\ (m - 1) + 1 = m
  BY <1>1 DEF Room
<1>8. Cut(s) = SubSeq(s, 1, m)
  BY <1>5 DEF Cut
<1> HIDE DEF m
<1>9. \A i \in 1..m : s[i] \in S /\ i \in 1..(m - 1 + 1) /\ (1 + i) - 1 = i /\ i \in 1..n
  BY <1>1, <1>4, <1>5, <1>7, ElementOfSeq
<1>10. /\ SubSeq(s, 1, m) \in Seq(S) /\ Len(SubSeq(s, 1, m)) = m
       /\ \A i \in 1..m : SubSeq(s, 1, m)[i] = s[i]
  <2>1. /\ SubSeq(s, 1, m) \in Seq(S)
        /\ Len(SubSeq(s, 1, m)) = IF 1 <= m THEN m - 1 + 1 ELSE 0
        /\ \A i \in 1..(m - 1 + 1) : SubSeq(s, 1, m)[i] = s[1 + i - 1]
    BY <1>7, <1>9, SubSeqProperties
  <2> QED
    BY <1>7, <1>9, <2>1
<1>11. Len(hs1) = m + 1 /\ \A k \in 2..(m + 1) : hs1[k] = hs[(k + 0) - 1]
  BY <1>7 DEF Shift, n
<1>12. /\ PastOf(V, hs1) \in Seq(S) /\ Len(PastOf(V, hs1)) = m
       /\ \A i \in 1..m : PastOf(V, hs1)[i] = V[hs1[i + 1]]
  <2>1. Len(hs1) >= 1 /\ Len(hs1) - 1 = m
    BY <1>7, <1>11
  <2>2. /\ PastOf(V, hs1) \in Seq(S) /\ Len(PastOf(V, hs1)) = Len(hs1) - 1
        /\ \A i \in 1..(Len(hs1) - 1) : PastOf(V, hs1)[i] = V[hs1[i + 1]]
    BY <2>1, PastType
  <2> QED
    BY <2>1, <2>2
<1>13. \A i \in 1..m : PastOf(V, hs1)[i] = SubSeq(s, 1, m)[i]
  <2> TAKE i \in 1..m
  <2>1. i + 1 \in 2..(m + 1) /\ ((i + 1) + 0) - 1 = i
    BY <1>7
  <2> QED
    BY <1>6, <1>9, <1>10, <1>11, <1>12, <2>1
<1>14. PastOf(V, hs1) = SubSeq(s, 1, m)
  BY <1>10, <1>12, <1>13, SeqEqual
<1> QED
  BY <1>8, <1>14 DEF s, x, p

LEMMA PastPop ==
    ASSUME NEW S, NEW V \in [Db -> S], NEW hs \in Seq(Db), Len(hs) > 1, NEW hs1 \in Seq(Db),
           Shift(hs, hs1, 2, Len(hs) - 1)
    PROVE  /\ PastOf(V, hs) # <<>> /\ V[hs[2]] = Head(PastOf(V, hs))
           /\ PastOf(V, hs1) = Tail(PastOf(V, hs))
<1> DEFINE p == PastOf(V, hs)
           n == Len(hs)
<1>1. /\ p \in Seq(S) /\ Len(p) = n - 1 /\ n \in Nat /\ n > 1
      /\ \A i \in 1..(n - 1) : p[i] = V[hs[i + 1]]
  <2>1. Len(hs) \in Nat /\ Len(hs) >= 1
    BY LenProperties
  <2> QED
    BY <2>1, PastType
<1>2. Len(hs1) = n - 1 /\ \A k \in 2..(n - 1) : hs1[k] = hs[(k + 2) - 1]
  BY DEF Shift
<1> HIDE DEF p, n
<1>3. p # <<>> /\ 1 \in 1..(n - 1)
  BY <1>1, EmptySeq
<1>4. /\ Head(p) = p[1] /\ Tail(p) \in Seq(S) /\ Len(Tail(p)) = n - 2
      /\ \A i \in 1..(n - 2) : Tail(p)[i] = p[i + 1]
  BY <1>1, <1>3, HeadTailProperties
<1>5. /\ PastOf(V, hs1) \in Seq(S) /\ Len(PastOf(V, hs1)) = n - 2
      /\ \A i \in 1..(n - 2) : PastOf(V, hs1)[i] = V[hs1[i + 1]]
  <2>1. Len(hs1) >= 1 /\ Len(hs1) - 1 = n - 2
    BY <1>1, <1>2
  <2>2. /\ PastOf(V, hs1) \in Seq(S) /\ Len(PastOf(V, hs1)) = Len(hs1) - 1
        /\ \A i \in 1..(Len(hs1) - 1) : PastOf(V, hs1)[i] = V[hs1[i + 1]]
    BY <2>1, PastType
  <2> QED
    BY <2>1, <2>2
<1>6. ASSUME NEW i \in 1..(n - 2) PROVE PastOf(V, hs1)[i] = Tail(p)[i]
  <2>1. /\ i + 1 \in 2..(n - 1) /\ i + 1 \in 1..(n - 1)
        /\ ((i + 1) + 2) - 1 = (i + 1) + 1
    BY <1>1
  <2>2. PastOf(V, hs1)[i] = V[hs1[i + 1]] /\ Tail(p)[i] = p[i + 1]
    BY <1>4, <1>5
  <2>3. p[i + 1] = V[hs[(i + 1) + 1]] /\ hs1[i + 1] = hs[((i + 1) + 2) - 1]
    BY <1>1, <1>2, <2>1
  <2>4. hs1[i + 1] = hs[(i + 1) + 1]
    BY <2>1, <2>3
  <2> QED
    BY <2>2, <2>3, <2>4
<1>7. PastOf(V, hs1) = Tail(p)
  BY <1>4, <1>5, <1>6, SeqEqual
<1>8. V[hs[2]] = Head(p)
  BY <1>1, <1>3, <1>4
<1> QED
  BY <1>3, <1>7, <1>8 DEF p

LEMMA PastMerge ==
    ASSUME NEW S, NEW V \in [Db -> S], NEW hs \in Seq(Db), NEW hs1 \in Seq(Db),
           NEW i \in Nat, i >= 1, i < Len(hs), Shift(hs, hs1, i, Len(hs) - (i - 1))
    PROVE  /\ i \in DOMAIN PastOf(V, hs)
           /\ PastOf(V, hs1) = SubSeq(PastOf(V, hs), i, Len(PastOf(V, hs)))
<1> DEFINE p == PastOf(V, hs)
           n == Len(hs)
           q == SubSeq(p, i, n - 1)
<1>1. n \in Nat /\ n >= 1 /\ i < n
  BY LenProperties
<1>2. /\ p \in Seq(S) /\ Len(p) = n - 1
      /\ \A j \in 1..(n - 1) : p[j] = V[hs[j + 1]]
  <2>1. Len(hs) >= 1
    BY <1>1
  <2> QED
    BY <2>1, PastType
<1>3. Len(hs1) = n - (i - 1) /\ \A k \in 2..(n - (i - 1)) : hs1[k] = hs[(k + i) - 1]
  BY DEF Shift
<1> HIDE DEF p, n
<1>4. DOMAIN p = 1..(n - 1) /\ i \in 1..(n - 1) /\ \A j \in i..(n - 1) : p[j] \in S
  BY <1>1, <1>2, LenProperties, ElementOfSeq
<1>5. /\ q \in Seq(S)
      /\ Len(q) = IF i <= n - 1 THEN (n - 1) - i + 1 ELSE 0
      /\ \A j \in 1..((n - 1) - i + 1) : q[j] = p[i + j - 1]
  BY <1>1, <1>4, SubSeqProperties
<1> HIDE DEF q
<1>6. /\ PastOf(V, hs1) \in Seq(S) /\ Len(PastOf(V, hs1)) = n - i
      /\ \A j \in 1..(n - i) : PastOf(V, hs1)[j] = V[hs1[j + 1]]
  <2>1. Len(hs1) >= 1 /\ Len(hs1) - 1 = n - i
    BY <1>1, <1>3
  <2>2. /\ PastOf(V, hs1) \in Seq(S) /\ Len(PastOf(V, hs1)) = Len(hs1) - 1
        /\ \A j \in 1..(Len(hs1) - 1) : PastOf(V, hs1)[j] = V[hs1[j + 1]]
    BY <2>1, PastType
  <2> QED
    BY <2>1, <2>2
<1>7. Len(q) = n - i /\ (n - 1) - i + 1 = n - i
  BY <1>1, <1>5
<1>8. ASSUME NEW j \in 1..(n - i) PROVE PastOf(V, hs1)[j] = q[j]
  <2>1. /\ j + 1 \in 2..(n - (i - 1)) /\ ((j + 1) + i) - 1 = (i + j - 1) + 1
        /\ i + j - 1 \in 1..(n - 1)
    BY <1>1
  <2>2. q[j] = p[i + j - 1]
    BY <1>5, <1>7
  <2>3. PastOf(V, hs1)[j] = V[hs1[j + 1]]
    BY <1>6
  <2>4. p[i + j - 1] = V[hs[(i + j - 1) + 1]] /\ hs1[j + 1] = hs[((j + 1) + i) - 1]
    BY <1>2, <1>3, <2>1
  <2>5. hs1[j + 1] = hs[(i + j - 1) + 1]
    BY <2>1, <2>4
  <2> QED
    BY <2>2, <2>3, <2>4, <2>5
<1>9. PastOf(V, hs1) = q
  BY <1>5, <1>6, <1>7, <1>8, SeqEqual
<1> QED
  BY <1>2, <1>4, <1>9 DEF p, q

LEMMA FuturePush ==
    ASSUME NEW S, NEW V \in [Db -> S], NEW gs \in Seq(Db), Len(gs) >= 1, NEW gs1 \in Seq(Db),
           Shift(gs, gs1, 0, Len(gs) + 1)
    PROVE  FutureOf(V, gs1) = Append(FutureOf(V, gs), V[gs[1]])
<1> DEFINE f == FutureOf(V, gs)
           n == Len(gs)
           x == V[gs[1]]
           a == Append(f, x)
<1>1. /\ f \in Seq(S) /\ Len(f) = n - 1 /\ n \in Nat /\ n >= 1 /\ x \in S
      /\ \A i \in 1..(n - 1) : f[i] = V[gs[(n - i) + 1]]
  BY FutureType
<1>2. Len(gs1) = n + 1 /\ \A k \in 2..(n + 1) : gs1[k] = gs[(k + 0) - 1]
  BY DEF Shift
<1> HIDE DEF f, n
<1>3. x = V[gs[1]]
  OBVIOUS
<1> HIDE DEF x
<1>4. /\ a \in Seq(S) /\ Len(a) = Len(f) + 1 /\ \A i \in 1..Len(f) : a[i] = f[i]
      /\ a[Len(f) + 1] = x
  BY <1>1, AppendProperties
<1> HIDE DEF a
<1>5. /\ FutureOf(V, gs1) \in Seq(S) /\ Len(FutureOf(V, gs1)) = n
      /\ \A i \in 1..n : FutureOf(V, gs1)[i] = V[gs1[((n + 1) - i) + 1]]
  <2>1. Len(gs1) >= 1 /\ Len(gs1) - 1 = n
    BY <1>1, <1>2
  <2>2. /\ FutureOf(V, gs1) \in Seq(S) /\ Len(FutureOf(V, gs1)) = Len(gs1) - 1
        /\ \A i \in 1..(Len(gs1) - 1) : FutureOf(V, gs1)[i] = V[gs1[(Len(gs1) - i) + 1]]
    BY <2>1, FutureType
  <2> QED
    BY <1>2, <2>1, <2>2
<1>6. Len(a) = n /\ a[n] = x /\ \A i \in 1..(n - 1) : a[i] = f[i]
  <2>1. Len(f) + 1 = n
    BY <1>1
  <2> QED
    BY <1>1, <1>4, <2>1
<1>7. ASSUME NEW i \in 1..n PROVE FutureOf(V, gs1)[i] = a[i]
  <2>1. /\ ((n + 1) - i) + 1 \in 2..(n + 1)
        /\ ((((n + 1) - i) + 1) + 0) - 1 = (n - i) + 1
    BY <1>1
  <2>2. FutureOf(V, gs1)[i] = V[gs[(n - i) + 1]]
    BY <1>2, <1>5, <2>1
  <2>3. CASE i = n
    <3>1. (n - i) + 1 = 1
      BY <1>1, <2>3
    <3> QED
      BY <1>3, <1>6, <2>2, <2>3, <3>1
  <2>4. CASE i # n
    <3>1. i \in 1..(n - 1)
      BY <1>1, <2>4
    <3> QED
      BY <1>1, <1>6, <2>2, <3>1
  <2> QED
    BY <2>3, <2>4
<1>8. FutureOf(V, gs1) = a
  BY <1>4, <1>5, <1>6, <1>7, SeqEqual
<1> QED
  BY <1>8 DEF a, f, x

LEMMA FuturePop ==
    ASSUME NEW S, NEW V \in [Db -> S], NEW gs \in Seq(Db), Len(gs) > 1, NEW gs1 \in Seq(Db),
           Shift(gs, gs1, 2, Len(gs) - 1)
    PROVE  LET f == FutureOf(V, gs)
           IN f # <<>> /\ V[gs[2]] = f[Len(f)] /\ FutureOf(V, gs1) = SubSeq(f, 1, Len(f) - 1)
<1> DEFINE f == FutureOf(V, gs)
           n == Len(gs)
           q == SubSeq(f, 1, n - 2)
<1>1. /\ f \in Seq(S) /\ Len(f) = n - 1 /\ n \in Nat /\ n > 1
      /\ \A i \in 1..(n - 1) : f[i] = V[gs[(n - i) + 1]]
  <2>1. Len(gs) \in Nat /\ Len(gs) >= 1
    BY LenProperties
  <2> QED
    BY <2>1, FutureType
<1>2. Len(gs1) = n - 1 /\ \A k \in 2..(n - 1) : gs1[k] = gs[(k + 2) - 1]
  BY DEF Shift
<1> HIDE DEF f, n
<1>3. f # <<>> /\ n - 1 \in 1..(n - 1) /\ (n - (n - 1)) + 1 = 2 /\ Len(f) - 1 = n - 2 /\ n - 2 \in Nat
  BY <1>1, EmptySeq
<1>4. V[gs[2]] = f[Len(f)]
  BY <1>1, <1>3
<1>5. \A i \in 1..(n - 2) : f[i] \in S /\ i \in 1..(n - 1)
  BY <1>1, ElementOfSeq
<1>6. /\ q \in Seq(S) /\ Len(q) = IF 1 <= n - 2 THEN (n - 2) - 1 + 1 ELSE 0
      /\ \A i \in 1..((n - 2) - 1 + 1) : q[i] = f[1 + i - 1]
  BY <1>3, <1>5, SubSeqProperties
<1> HIDE DEF q
<1>7. Len(q) = n - 2 /\ (n - 2) - 1 + 1 = n - 2 /\ \A i \in 1..(n - 2) : 1 + i - 1 = i
  BY <1>3, <1>6
<1>8. /\ FutureOf(V, gs1) \in Seq(S) /\ Len(FutureOf(V, gs1)) = n - 2
      /\ \A i \in 1..(n - 2) : FutureOf(V, gs1)[i] = V[gs1[((n - 1) - i) + 1]]
  <2>1. Len(gs1) >= 1 /\ Len(gs1) - 1 = n - 2
    BY <1>1, <1>2
  <2>2. /\ FutureOf(V, gs1) \in Seq(S) /\ Len(FutureOf(V, gs1)) = Len(gs1) - 1
        /\ \A i \in 1..(Len(gs1) - 1) : FutureOf(V, gs1)[i] = V[gs1[(Len(gs1) - i) + 1]]
    BY <2>1, FutureType
  <2> QED
    BY <1>2, <2>1, <2>2
<1>9. ASSUME NEW i \in 1..(n - 2) PROVE FutureOf(V, gs1)[i] = q[i]
  <2>1. /\ ((n - 1) - i) + 1 \in 2..(n - 1)
        /\ ((((n - 1) - i) + 1) + 2) - 1 = (n - i) + 1
    BY <1>1
  <2>2. FutureOf(V, gs1)[i] = V[gs[(n - i) + 1]]
    BY <1>2, <1>8, <2>1
  <2>3. q[i] = f[i]
    BY <1>6, <1>7
  <2> QED
    BY <1>1, <1>5, <2>2, <2>3
<1>10. FutureOf(V, gs1) = q
  BY <1>6, <1>7, <1>8, <1>9, SeqEqual
<1> QED
  BY <1>3, <1>4, <1>10 DEF f, q

\* A step of UndoHistory from present x, past p and future f
HistoryStep(S, x, p, f, x1, p1, f1) ==
    /\ x1 \in S
    /\ \/ x1 = x /\ p1 = p /\ f1 = f
       \/ x1 = x /\ p1 = p /\ f1 = <<>>
       \/ p1 = Cut(<<x>> \o p) /\ f1 = <<>>
       \/ p # <<>> /\ p1 = p /\ f1 = <<>>
       \/ p # <<>> /\ x1 = Head(p) /\ p1 = Tail(p) /\ f1 = Append(f, x)
       \/ /\ f # <<>> /\ x1 = f[Len(f)] /\ f1 = SubSeq(f, 1, Len(f) - 1)
          /\ p1 = Cut(<<x>> \o p) \/ (p # <<>> /\ p1 = p)
       \/ x1 = x /\ p1 = <<>> /\ f1 = <<>>
       \/ op \notin OpKind /\ p1 = <<>> /\ f1 = <<>>
       \/ /\ x1 = x /\ f1 = f
          /\ \E i \in 1..UndoLimit : i \in DOMAIN p /\ p1 = SubSeq(p, i, Len(p))

\* A view that does not see what the operations outside the undo queue write
View(V, S) == V \in [Db -> S] /\ \A d, e \in Db : Alike(d, e) => V[d] = V[e]

LEMMA MovesAreSteps ==
    ASSUME NEW S, NEW V, View(V, S), NEW hs \in Seq(Db), NEW gs \in Seq(Db),
           NEW hs1 \in Seq(Db), NEW gs1 \in Seq(Db), Len(hs) >= 1, Len(gs) >= 1,
           Len(hs1) >= 1, Len(gs1) >= 1, hs[1] = gs[1], Moves(hs, gs, hs1, gs1)
    PROVE  HistoryStep(S, V[hs[1]], PastOf(V, hs), FutureOf(V, gs),
                       V[hs1[1]], PastOf(V, hs1), FutureOf(V, gs1))
<1> DEFINE x  == V[hs[1]]
           p  == PastOf(V, hs)
           f  == FutureOf(V, gs)
           x1 == V[hs1[1]]
           p1 == PastOf(V, hs1)
           f1 == FutureOf(V, gs1)
<1>1. V \in [Db -> S] /\ \A d, e \in Db : Alike(d, e) => V[d] = V[e]
  BY DEF View
<1>2. Len(hs) \in Nat /\ Len(gs) \in Nat /\ Len(hs1) \in Nat /\ Len(gs1) \in Nat
  BY LenProperties
<1>3. hs[1] \in Db /\ hs1[1] \in Db /\ x1 \in S
  <2>1. 1 \in 1..Len(hs) /\ 1 \in 1..Len(hs1)
    BY <1>2
  <2>2. hs[1] \in Db /\ hs1[1] \in Db
    BY <2>1, ElementOfSeq
  <2> QED
    BY <1>1, <2>2
<1>4. Alike(hs[1], hs1[1]) => x1 = x
  BY <1>1, <1>3
<1>5. /\ Shift(hs, hs1, 1, Len(hs)) => p1 = p
      /\ Shift(gs, gs1, 1, Len(gs)) => f1 = f
      /\ Len(gs1) = 1 => f1 = <<>>
      /\ Len(hs1) = 1 => p1 = <<>>
  BY <1>1, PastSame, PastAlone
<1>6. Shift(hs, hs1, 0, Room(Len(hs))) => p1 = Cut(<<x>> \o p)
  BY <1>1, PastPush
<1>7. ASSUME Shift(gs, gs1, 0, Len(gs) + 1) PROVE f1 = Append(f, x)
  <2>1. FutureOf(V, gs1) = Append(FutureOf(V, gs), V[gs[1]])
    BY <1>1, <1>7, FuturePush
  <2> QED
    BY <2>1
<1>8. Len(hs) > 1 => p # <<>>
  <2>1. p \in Seq(S) /\ Len(p) = Len(hs) - 1
    BY <1>1, PastType
  <2> QED
    BY <1>2, <2>1, EmptySeq
<1>9. CASE Stays(hs, gs, hs1, gs1)
  <2>1. x1 = x /\ p1 = p /\ f1 = f
    BY <1>4, <1>5, <1>9 DEF Stays
  <2> QED
    BY <1>3, <2>1 DEF HistoryStep
<1>10. CASE Passes(hs, hs1, gs1)
  <2>1. x1 = x /\ p1 = p /\ f1 = <<>>
    BY <1>4, <1>5, <1>10 DEF Passes
  <2> QED
    BY <1>3, <2>1 DEF HistoryStep
<1>11. CASE Does(hs, hs1, gs1)
  <2>1. p1 = Cut(<<x>> \o p) /\ f1 = <<>>
    BY <1>5, <1>6, <1>11 DEF Does
  <2> QED
    BY <1>3, <2>1 DEF HistoryStep
<1>12. CASE Extends(hs, hs1, gs1)
  <2>1. p # <<>> /\ p1 = p /\ f1 = <<>>
    BY <1>5, <1>8, <1>12 DEF Extends
  <2> QED
    BY <1>3, <2>1 DEF HistoryStep
<1>13. CASE Undoes(hs, gs, hs1, gs1)
  <2>1. Len(hs) > 1 /\ Alike(hs[2], hs1[1]) /\ f1 = Append(f, x) /\ Shift(hs, hs1, 2, Len(hs) - 1)
    BY <1>7, <1>13 DEF Undoes
  <2>2. p # <<>> /\ V[hs[2]] = Head(p) /\ p1 = Tail(p)
    BY <1>1, <2>1, PastPop
  <2>3. 2 \in 1..Len(hs)
    BY <1>2, <2>1
  <2>4. hs[2] \in Db
    BY <2>3, ElementOfSeq
  <2>5. x1 = Head(p)
    BY <1>1, <1>3, <2>1, <2>2, <2>4
  <2> QED
    BY <1>3, <2>1, <2>2, <2>5 DEF HistoryStep
<1>14. CASE Redoes(hs, gs, hs1, gs1)
  <2>1. Len(gs) > 1 /\ Alike(gs[2], hs1[1]) /\ Shift(gs, gs1, 2, Len(gs) - 1)
    BY <1>14 DEF Redoes, Moves
  <2>2. f # <<>> /\ V[gs[2]] = f[Len(f)] /\ f1 = SubSeq(f, 1, Len(f) - 1)
    BY <1>1, <2>1, FuturePop
  <2>3. 2 \in 1..Len(gs)
    BY <1>2, <2>1
  <2>4. gs[2] \in Db
    BY <2>3, ElementOfSeq
  <2>5. x1 = f[Len(f)]
    BY <1>1, <1>3, <2>1, <2>2, <2>4
  <2>6. p1 = Cut(<<x>> \o p) \/ (p # <<>> /\ p1 = p)
    BY <1>5, <1>6, <1>8, <1>14 DEF Redoes
  <2> QED
    BY <1>3, <2>2, <2>5, <2>6 DEF HistoryStep
<1>15. CASE Forgets(hs, hs1, gs1)
  <2>1. x1 = x /\ p1 = <<>> /\ f1 = <<>>
    BY <1>4, <1>5, <1>15 DEF Forgets
  <2> QED
    BY <1>3, <2>1 DEF HistoryStep
<1>17. CASE Overwrites(hs1, gs1)
  <2>1. op \notin OpKind /\ p1 = <<>> /\ f1 = <<>>
    BY <1>5, <1>17 DEF Overwrites
  <2> QED
    BY <1>3, <2>1 DEF HistoryStep
<1>16. CASE Merges(hs, gs, hs1, gs1)
  <2>1. PICK i \in 1..UndoLimit : i < Len(hs) /\ Shift(hs, hs1, i, Len(hs) - (i - 1))
    BY <1>16 DEF Merges
  <2>2. x1 = x /\ f1 = f
    BY <1>4, <1>5, <1>16 DEF Merges
  <2>3. i \in Nat /\ i >= 1
    BY UndoAssumption
  <2>4. i \in DOMAIN p /\ p1 = SubSeq(p, i, Len(p))
    BY <1>1, <2>1, <2>3, PastMerge
  <2>5. \E j \in 1..UndoLimit : j \in DOMAIN p /\ p1 = SubSeq(p, j, Len(p))
    BY <2>4
  <2> QED
    BY <1>3, <2>2, <2>5 DEF HistoryStep
<1> QED
  BY <1>9, <1>10, <1>11, <1>12, <1>13, <1>14, <1>15, <1>16, <1>17 DEF Moves

\* States as a view shows them
Seen(V, states) == [i \in DOMAIN states |-> V[states[i]]]

\* Seen through a view, the trail of the steps is the history that the states make.
LEMMA TrailView ==
    ASSUME NEW S, NEW V, View(V, S), NEW dir, NEW ss \in Seq(Step), NEW hs, Chain(dir, ss, hs)
    PROVE  LET t == Trail(ss, hs[1])
               r == Reverse(t)
           IN /\ t \in Seq(Db) /\ Seen(V, t) = PastOf(V, hs)
              /\ r \in Seq(Db) /\ Seen(V, r) = FutureOf(V, hs)
<1> DEFINE t == Trail(ss, hs[1])
           r == Reverse(t)
           n == Len(ss)
<1>1. /\ t \in Seq(Db) /\ Len(t) = n
      /\ \A i \in 1..n : Near(dir, hs[i + 1], t[i])
  BY TrailFollowsChain
<1>2. /\ n \in Nat /\ Len(hs) = n + 1 /\ \A k \in 1..Len(hs) : hs[k] \in Db
  BY ChainLength
<1>3. /\ r \in Seq(Db) /\ Len(r) = Len(t)
      /\ \A i \in 1..Len(t) : r[i] = t[(Len(t) - i) + 1]
  BY <1>1, ReverseProperties
<1> HIDE DEF t, r, n
<1>4. DOMAIN t = 1..n /\ DOMAIN r = 1..n /\ Len(hs) - 1 = n
  BY <1>1, <1>2, <1>3, LenProperties
<1>5. ASSUME NEW i \in 1..n PROVE V[t[i]] = V[hs[i + 1]]
  <2>1. i + 1 \in 1..Len(hs)
    BY <1>2
  <2>2. hs[i + 1] \in Db /\ t[i] \in Db /\ Alike(hs[i + 1], t[i])
    BY <1>1, <1>2, <2>1, ElementOfSeq DEF Near
  <2> QED
    BY <2>2 DEF View
<1>6. ASSUME NEW i \in 1..n PROVE V[r[i]] = V[hs[(Len(hs) - i) + 1]]
  <2>1. (n - i) + 1 \in 1..n /\ ((n - i) + 1) + 1 = (Len(hs) - i) + 1
    BY <1>2
  <2>2. r[i] = t[(n - i) + 1]
    BY <1>1, <1>3
  <2>3. V[t[(n - i) + 1]] = V[hs[((n - i) + 1) + 1]]
    BY <1>5, <2>1
  <2> QED
    BY <2>1, <2>2, <2>3
<1>7. Seen(V, t) = PastOf(V, hs)
  BY <1>4, <1>5 DEF PastOf, Seen
<1>8. Seen(V, r) = FutureOf(V, hs)
  BY <1>4, <1>6 DEF FutureOf, Seen
<1> QED
  BY <1>1, <1>3, <1>7, <1>8 DEF t, r

\* The three variables of the history, in the state that steps ss, undone steps us
\* and stable state d make up
LEMMA HistoryView ==
    ASSUME NEW S, NEW V, View(V, S), NEW ss \in Seq(Step), NEW us \in Seq(Step), NEW d,
           NEW hs, NEW gs, Chain("undo", ss, hs), hs[1] = d,
           Chain("redo", Reverse(us), gs), gs[1] = d
    PROVE  LET t == Trail(ss, d)
               r == Reverse(Trail(Reverse(us), d))
           IN /\ d \in Db
              /\ t \in Seq(Db) /\ Seen(V, t) = PastOf(V, hs)
              /\ r \in Seq(Db) /\ Seen(V, r) = FutureOf(V, gs)
              /\ hs \in Seq(Db) /\ gs \in Seq(Db) /\ Len(hs) >= 1 /\ Len(gs) >= 1
<1>1. Reverse(us) \in Seq(Step)
  BY ReverseProperties
<1>2. PICK vs \in Seq(Step) : vs = Reverse(us)
  BY <1>1
<1>3. LET t == Trail(ss, hs[1]) IN t \in Seq(Db) /\ Seen(V, t) = PastOf(V, hs)
  BY TrailView
<1>4. LET r == Reverse(Trail(vs, gs[1]))
      IN r \in Seq(Db) /\ Seen(V, r) = FutureOf(V, gs)
  BY <1>2, TrailView
<1>5. hs \in Seq(Db) /\ 1 \in 1..Len(hs) /\ hs[1] \in Db
  BY ChainLength
<1>6. gs \in Seq(Db) /\ 1 \in 1..Len(gs)
  BY <1>2, ChainLength
<1>7. Len(hs) >= 1 /\ Len(gs) >= 1
  BY <1>5, <1>6, LenProperties
<1> QED
  BY <1>2, <1>3, <1>4, <1>5, <1>6, <1>7

PastStates   == Trail(Steps, Stable)
FutureStates == Reverse(Trail(Reverse(Undone), Stable))

LEMMA StepOfHistory ==
    ASSUME "rollback" \notin ProxyOutcomes, Recorded, [Next]_vars, NEW S, NEW V, View(V, S)
    PROVE  /\ HistoryStep(S, V[Stable], Seen(V, PastStates), Seen(V, FutureStates),
                          V[Stable'], Seen(V, PastStates'), Seen(V, FutureStates'))
           /\ Stable \in Db /\ PastStates \in Seq(Db) /\ FutureStates \in Seq(Db)
           /\ Stable' \in Db /\ PastStates' \in Seq(Db) /\ FutureStates' \in Seq(Db)
<1>1. PICK hs, gs : Held(hs, gs)
  BY DEF Recorded
<1>2. PICK hs1, gs1 : Held(hs1, gs1)' /\ Moves(hs, gs, hs1, gs1)
  BY <1>1, HeldStep DEF Recorded
<1>3. Recorded'
  BY RecordedStep
<1>4. Steps \in Seq(Step) /\ Undone \in Seq(Step) /\ Steps' \in Seq(Step) /\ Undone' \in Seq(Step)
  BY <1>3, QueueElements DEF Recorded, Flow
<1>5. PICK ss, us, d : ss \in Seq(Step) /\ us \in Seq(Step) /\ ss = Steps /\ us = Undone /\ d = Stable
  BY <1>4
<1>6. PICK ss1, us1, d1 : ss1 \in Seq(Step) /\ us1 \in Seq(Step) /\ ss1 = Steps' /\ us1 = Undone' /\ d1 = Stable'
  BY <1>4
<1>7. /\ Chain("undo", ss, hs) /\ hs[1] = d /\ Chain("redo", Reverse(us), gs) /\ gs[1] = d
      /\ Chain("undo", ss1, hs1) /\ hs1[1] = d1 /\ Chain("redo", Reverse(us1), gs1) /\ gs1[1] = d1
  BY <1>1, <1>2, <1>5, <1>6 DEF Held
<1>8. /\ d \in Db
      /\ Trail(ss, d) \in Seq(Db) /\ Seen(V, Trail(ss, d)) = PastOf(V, hs)
      /\ Reverse(Trail(Reverse(us), d)) \in Seq(Db)
      /\ Seen(V, Reverse(Trail(Reverse(us), d))) = FutureOf(V, gs)
      /\ hs \in Seq(Db) /\ gs \in Seq(Db) /\ Len(hs) >= 1 /\ Len(gs) >= 1
  <2>1. ss \in Seq(Step) /\ us \in Seq(Step)
    BY <1>5
  <2> QED
    BY <1>7, <2>1, HistoryView
<1>9. /\ d1 \in Db
      /\ Trail(ss1, d1) \in Seq(Db) /\ Seen(V, Trail(ss1, d1)) = PastOf(V, hs1)
      /\ Reverse(Trail(Reverse(us1), d1)) \in Seq(Db)
      /\ Seen(V, Reverse(Trail(Reverse(us1), d1))) = FutureOf(V, gs1)
      /\ hs1 \in Seq(Db) /\ gs1 \in Seq(Db) /\ Len(hs1) >= 1 /\ Len(gs1) >= 1
  <2>1. ss1 \in Seq(Step) /\ us1 \in Seq(Step)
    BY <1>6
  <2> QED
    BY <1>7, <2>1, HistoryView
<1>10. HistoryStep(S, V[hs[1]], PastOf(V, hs), FutureOf(V, gs),
                   V[hs1[1]], PastOf(V, hs1), FutureOf(V, gs1))
  BY <1>2, <1>7, <1>8, <1>9, MovesAreSteps
<1>11. /\ PastStates = Trail(ss, d) /\ FutureStates = Reverse(Trail(Reverse(us), d))
       /\ PastStates' = Trail(ss1, d1) /\ FutureStates' = Reverse(Trail(Reverse(us1), d1))
  BY <1>5, <1>6 DEF PastStates, FutureStates
<1> QED
  BY <1>5, <1>6, <1>7, <1>8, <1>9, <1>10, <1>11

LEMMA StartOfHistory ==
    ASSUME Init
    PROVE  Stable \in Db /\ PastStates = <<>> /\ FutureStates = <<>>
<1>1. Steps = <<>> /\ Undone = <<>> /\ Stable = db /\ db \in Db
  BY InitTypes DEF Init, Steps, Undone, Stable, Types, TypeOK
<1>2. Clean(db)
  <2>1. db.graves = {}
    BY DEF Init
  <2> QED
    BY <2>1 DEF Clean
<1>3. PICK hs : Chain("undo", <<>>, hs) /\ hs[1] = db /\ Len(hs) = 1
  BY <1>1, <1>2, ChainEmpty
<1>4. <<>> \in Seq(Step) /\ Len(<<>>) = 0
  BY EmptySeq
<1>5. Trail(<<>>, db) \in Seq(Db) /\ Len(Trail(<<>>, db)) = 0
  BY <1>3, <1>4, TrailFollowsChain
<1>6. Trail(<<>>, db) = <<>>
  BY <1>5, EmptySeq
<1> QED
  BY <1>1, <1>6, ReverseEmpty DEF PastStates, FutureStates

LEMMA SeenWhole ==
    ASSUME NEW V, \A d \in Db : V[d] = d, NEW t \in Seq(Db)
    PROVE  Seen(V, t) = t
<1>1. DOMAIN t = 1..Len(t) /\ t \in [1..Len(t) -> Db] /\ \A i \in 1..Len(t) : t[i] \in Db
  BY LenProperties, ElementOfSeq
<1>2. t = [i \in DOMAIN t |-> t[i]]
  BY <1>1
<1>3. \A i \in DOMAIN t : V[t[i]] = t[i]
  BY <1>1
<1> QED
  BY <1>2, <1>3 DEF Seen

\* When every operation is recorded, undo and redo move through the very states
\* that the collection went through, whatever fails, coalesces or is merged in
\* between: what a step saves is enough to replay it in either direction.
THEOREM HistoryImplemented ==
    ASSUME "SkipUndo" \notin Ops, ProxyOutcomes = {}
    PROVE  Spec => History
<1> DEFINE V == [d \in Db |-> d]
<1>1. View(V, Db) /\ \A d \in Db : V[d] = d
  <2>1. \A d, e \in Db : Alike(d, e) => d = e
    <3> SUFFICES ASSUME NEW d \in Db, NEW e \in Db, Alike(d, e) PROVE d = e
      OBVIOUS
    <3> QED
      BY SameDb DEF Alike, Watched, ModKept
  <2> QED
    BY <2>1 DEF View
<1>2. Init => H!Init
  BY StartOfHistory DEF H!Init, PastStates, FutureStates
<1>3. Recorded /\ [Next]_vars => [H!Next]_(H!hist)
  <2> SUFFICES ASSUME Recorded, [Next]_vars PROVE [H!Next]_(H!hist)
    OBVIOUS
  <2> HIDE DEF V
  <2>1. /\ HistoryStep(Db, V[Stable], Seen(V, PastStates), Seen(V, FutureStates),
                       V[Stable'], Seen(V, PastStates'), Seen(V, FutureStates'))
        /\ Stable \in Db /\ PastStates \in Seq(Db) /\ FutureStates \in Seq(Db)
        /\ Stable' \in Db /\ PastStates' \in Seq(Db) /\ FutureStates' \in Seq(Db)
    BY <1>1, StepOfHistory
  <2>2. PICK x, p, f : x = Stable /\ p = PastStates /\ f = FutureStates
    OBVIOUS
  <2>3. PICK x1, p1, f1 : x1 = Stable' /\ p1 = PastStates' /\ f1 = FutureStates'
    OBVIOUS
  <2>4. /\ V[Stable] = x /\ V[Stable'] = x1
        /\ Seen(V, PastStates) = p /\ Seen(V, FutureStates) = f
        /\ Seen(V, PastStates') = p1 /\ Seen(V, FutureStates') = f1
    BY <1>1, <2>1, <2>2, <2>3, SeenWhole
  <2>5. HistoryStep(Db, x, p, f, x1, p1, f1)
    BY <2>1, <2>4
  <2>6. \/ x1 = x /\ p1 = p /\ f1 = f
        \/ H!Next
    BY <2>2, <2>3, <2>5 DEF HistoryStep, Cut, PastStates, FutureStates, H!Next, H!Pass, H!Do,
       H!Extend, H!Undo, H!Redo, H!Forget, H!Overwrite, H!Merge, H!Trim
  <2> QED
    BY <2>2, <2>3, <2>6 DEF H!hist, PastStates, FutureStates
<1>4. Spec => []Recorded
  BY RecordedInvariance
<1> QED
  BY <1>2, <1>3, <1>4, PTL DEF Spec, History, H!Spec

\* With operations that skip the undo queue, and transactions of the DB proxy
\* that do not roll recorded steps back, undo and redo still bring back the
\* notes, cards and graves, in whatever order the two kinds mix.
THEOREM ContentHistoryImplemented ==
    ASSUME "rollback" \notin ProxyOutcomes
    PROVE  Spec => ContentHistory
<1> DEFINE V == [d \in Db |-> Content(d)]
           C == [row : [Graved -> Value \cup {NoRow}], graves : SUBSET Graved]
<1>1. View(V, C) /\ \A d \in Db : V[d] = Content(d)
  <2>1. \A d \in Db : Content(d) \in C
    BY WatchedRows DEF Db, Content
  <2>2. \A d, e \in Db : Alike(d, e) => Content(d) = Content(e)
    BY WatchedRows DEF Alike, Content
  <2> QED
    BY <2>1, <2>2 DEF View
<1>2. \A t : t \in Seq(Db) => Seen(V, t) = ContentOf(t)
  <2> SUFFICES ASSUME NEW t \in Seq(Db) PROVE Seen(V, t) = ContentOf(t)
    OBVIOUS
  <2>1. \A i \in DOMAIN t : t[i] \in Db
    BY LenProperties, ElementOfSeq
  <2> QED
    BY <1>1, <2>1 DEF Seen, ContentOf
<1>3. Init => HC!Init
  <2> SUFFICES ASSUME Init PROVE HC!Init
    OBVIOUS
  <2>1. Stable \in Db /\ PastStates = <<>> /\ FutureStates = <<>>
    BY StartOfHistory
  <2>2. Content(Stable) \in C
    BY <1>1, <2>1 DEF View
  <2>3. ContentOf(PastStates) = <<>> /\ ContentOf(FutureStates) = <<>>
    BY <2>1 DEF ContentOf
  <2> QED
    BY <2>2, <2>3 DEF HC!Init, PastStates, FutureStates
<1>4. Recorded /\ [Next]_vars => [HC!Next]_(HC!hist)
  <2> SUFFICES ASSUME Recorded, [Next]_vars PROVE [HC!Next]_(HC!hist)
    OBVIOUS
  <2> HIDE DEF V, C
  <2>1. /\ HistoryStep(C, V[Stable], Seen(V, PastStates), Seen(V, FutureStates),
                       V[Stable'], Seen(V, PastStates'), Seen(V, FutureStates'))
        /\ Stable \in Db /\ PastStates \in Seq(Db) /\ FutureStates \in Seq(Db)
        /\ Stable' \in Db /\ PastStates' \in Seq(Db) /\ FutureStates' \in Seq(Db)
    BY <1>1, StepOfHistory
  <2>2. PICK x, p, f : x = Content(Stable) /\ p = ContentOf(PastStates) /\ f = ContentOf(FutureStates)
    OBVIOUS
  <2>3. PICK x1, p1, f1 : /\ x1 = Content(Stable') /\ p1 = ContentOf(PastStates')
                          /\ f1 = ContentOf(FutureStates')
    OBVIOUS
  <2>4. /\ V[Stable] = x /\ V[Stable'] = x1
        /\ Seen(V, PastStates) = p /\ Seen(V, FutureStates) = f
        /\ Seen(V, PastStates') = p1 /\ Seen(V, FutureStates') = f1
    BY <1>1, <1>2, <2>1, <2>2, <2>3
  <2>5. HistoryStep(C, x, p, f, x1, p1, f1)
    BY <2>1, <2>4
  <2>6. \/ x1 = x /\ p1 = p /\ f1 = f
        \/ HC!Next
    BY <2>2, <2>3, <2>5 DEF HistoryStep, Cut, PastStates, FutureStates, HC!Next, HC!Pass, HC!Do,
       HC!Extend, HC!Undo, HC!Redo, HC!Forget, HC!Overwrite, HC!Merge, HC!Trim, C
  <2> QED
    BY <2>2, <2>3, <2>6 DEF HC!hist, PastStates, FutureStates
<1> QED
  BY <1>3, <1>4, RecordedInvariance, PTL DEF Spec, ContentHistory, HC!Spec

=============================================================================
