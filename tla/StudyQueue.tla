----------------------------- MODULE StudyQueue -----------------------------
(***************************************************************************)
(* The queue of cards being studied and its undo: rslib/src/scheduler/     *)
(* queue/, the answering of a card in scheduler/answering/, and the        *)
(* background work that drops or rebuilds the queue under the reviewer.    *)
(*                                                                         *)
(* The queue is a cache of the cards table. An answer patches it in place, *)
(* and its undo patches it back; every other operation drops it, and the   *)
(* next card asked for builds it again. A call of the backend holds the    *)
(* collection lock, so each action below is a whole call.                  *)
(***************************************************************************)
EXTENDS Integers, Sequences, FiniteSets, SequencesExt

CONSTANTS
    Cards,
    Previewed,      \* the cards studied in a filtered deck that only previews
    NoCard,         \* no card is on the screen
    NoQueues,       \* state.card_queues = None
    NoUpdate,       \* an operation that did not patch the queue
    NoEntry,        \* an answer that put nothing back
    Builds,         \* values of build_time
    StartAs,        \* what the cards are when the collection is opened
    Delays,         \* the learning steps, in seconds
    Leaving,        \* the queues a card that leaves learning goes to
    LearnAhead,     \* learn_ahead_secs
    DayLength,      \* seconds in a day
    Edits,          \* operations on cards: "bury", "setDue"
    Background,     \* what runs beside the reviewer: "drop" the queues between two
                    \* cards, "dropShown" also under a card, "rebuild",
                    \* "deferred" reviews become ready, "peek" at the counts
    MaxTime,        \* bound: clock
    MaxSteps        \* bound: steps in the undo and redo queues

Time == 0..MaxTime
MainKind == {"New", "Review", "InterdayLearning"}

ASSUME QueueAssumption ==
    /\ IsFiniteSet(Cards) /\ Previewed \subseteq Cards /\ NoCard \notin Cards
    /\ StartAs \subseteq {"New", "Learn", "DayLearn", "Buried"} /\ Leaving \subseteq {"DayLearn", "Review"}
    /\ Delays \subseteq Nat \ {0} /\ LearnAhead \in Nat /\ DayLength \in Nat \ {0}
    /\ MaxTime \in Nat /\ MaxSteps \in Nat
    /\ IsFiniteSet(Builds) /\ Cardinality(Builds) > MaxSteps + 1
    /\ Edits \subseteq {"bury", "setDue"}
    /\ Background \subseteq {"drop", "dropShown", "rebuild", "deferred", "peek"}

(* Data. due counts seconds for a learning card and days for a review card. *)

CardRecord == [queue : {"New", "Learn", "DayLearn", "Review"}, due : Nat, tried : BOOLEAN,
               at : {"deck", "buried", "away"}, mtime : Time]

MainEntry     == [id : Cards, kind : MainKind, mtime : Time]
LearningEntry == [id : Cards, kind : {"Learning"}, mtime : Time, due : Nat, tried : BOOLEAN]
Entry         == MainEntry \cup LearningEntry
Counts        == [new : Int, learning : Nat, review : Int]
CardQueues    == [main : Seq(MainEntry), learning : Seq(LearningEntry), counts : Counts,
                  cutoff : Time, day : Nat, build : Builds]

CutoffSnapshot == [learning : Nat, cutoff : Time]
QueueUpdate    == [entry : Entry, requeue : LearningEntry \cup {NoEntry},
                   build : Builds, snapshot : CutoffSnapshot]
Step           == [kind : {"AnswerCard", "Edit"}, id : Cards, was : CardRecord,
                   update : QueueUpdate \cup {NoUpdate}]

ASSUME NullAssumption ==
    NoQueues \notin CardQueues /\ NoUpdate \notin QueueUpdate /\ NoEntry \notin Entry

VARIABLES
    card,          \* the cards table
    queues,        \* state.card_queues
    undoSteps,     \* newest first
    redoSteps,     \* newest last
    shown,         \* the card the reviewer shows
    clock,
    panicked       \* a panic has poisoned the collection lock

undoVars == <<undoSteps, redoSteps>>
vars     == <<card, queues, undoVars, shown, clock, panicked>>

Day       == clock \div DayLength
NextDayAt == (Day + 1) * DayLength

-----------------------------------------------------------------------------
(* CardQueues                                                              *)

Ahead(q) == q.cutoff + LearnAhead

\* cmp_by_reps_then_due(): cards answered before come first, then those due first
Precedes(e, f) == (e.tried /\ ~f.tried) \/ (e.tried = f.tried /\ e.due < f.due)
Ties(e, f)     == e.tried = f.tried /\ e.due = f.due
InOrder(s)     == \A i, j \in DOMAIN s : i < j => ~Precedes(s[j], s[i])

\* Fault: an answered learning card always goes last
InsertLast(s, e) == {Len(s) + 1}

\* The places a binary search may answer with; in a list out of order, any place
InsertPositions(s, e) ==
    IF InOrder(s)
    THEN {p \in 1..(Len(s) + 1) :
            /\ \A i \in 1..(p - 1) : ~Precedes(e, s[i])
            /\ \A i \in p..Len(s) : ~Precedes(s[i], e)
            /\ (\E i \in DOMAIN s : Ties(s[i], e)) => p <= Len(s) /\ Ties(s[p], e)}
    ELSE 1..(Len(s) + 1)

One(condition) == IF condition THEN 1 ELSE 0
Less(n) == IF n = 0 THEN 0 ELSE n - 1            \* saturating_sub(1)

\* insert_intraday_learning_card() at position p
InsertLearning(q, e, p) ==
    [q EXCEPT !.learning = InsertAt(@, p, e),
              !.counts.learning = @ + One(e.due <= Ahead(q))]

\* Fault: the count goes down for a card due later, too
RemoveLearningUncounted(q, id) ==
    LET at == {i \in DOMAIN q.learning : q.learning[i].id = id} IN
    IF at = {} THEN q
    ELSE [q EXCEPT !.learning = RemoveAt(@, Min(at)), !.counts.learning = Less(@)]

\* remove_intraday_learning_card()
RemoveLearning(q, id) ==
    LET at == {i \in DOMAIN q.learning : q.learning[i].id = id} IN
    IF at = {} THEN q
    ELSE [q EXCEPT !.learning = RemoveAt(@, Min(at)),
                   !.counts.learning = IF q.learning[Min(at)].due <= Ahead(q) THEN Less(@) ELSE @]

CanPop(q, id) ==
    \/ \E i \in DOMAIN q.learning : q.learning[i].id = id
    \/ q.main # <<>> /\ Head(q.main).id = id

\* The counts without an entry popped
CountsWithout(c, e) ==
    CASE e.kind = "New"    -> [c EXCEPT !.new = @ - 1]
      [] e.kind = "Review" -> [c EXCEPT !.review = @ - 1]
      [] e.kind \in {"Learning", "InterdayLearning"} -> [c EXCEPT !.learning = Less(@)]

\* The counts with an entry put back
CountsWith(c, e) ==
    CASE e.kind = "New"    -> [c EXCEPT !.new = @ + 1]
      [] e.kind = "Review" -> [c EXCEPT !.review = @ + 1]
      [] e.kind \in {"Learning", "InterdayLearning"} -> [c EXCEPT !.learning = @ + 1]

\* pop_entry(id): a learning card from wherever it stands, any other only from the top
Popped(q, id) ==
    LET at == {i \in DOMAIN q.learning : q.learning[i].id = id} IN
    IF at # {}
    THEN [entry |-> q.learning[Min(at)],
          rest  |-> [q EXCEPT !.learning = RemoveAt(@, Min(at)),
                              !.counts = CountsWithout(@, q.learning[Min(at)])]]
    ELSE [entry |-> Head(q.main),
          rest  |-> [q EXCEPT !.main = Tail(@), !.counts = CountsWithout(@, Head(q.main))]]

\* Fault: the entry taken back goes to the end of the main queue
PushLast(q, e) ==
    IF e.kind = "Learning"
    THEN [q EXCEPT !.learning = <<e>> \o @, !.counts = CountsWith(@, e)]
    ELSE [q EXCEPT !.main = Append(@, e), !.counts = CountsWith(@, e)]

\* push_undo_entry()
Push(q, e) ==
    IF e.kind = "Learning"
    THEN [q EXCEPT !.learning = <<e>> \o @, !.counts = CountsWith(@, e)]
    ELSE [q EXCEPT !.main = <<e>> \o @, !.counts = CountsWith(@, e)]

\* Fault: counts the cards due between the cutoffs, not between the ends of the learn-ahead window
BumpByCutoff(q, now) ==
    [q EXCEPT !.cutoff = now,
              !.counts.learning = @ + Cardinality({i \in DOMAIN q.learning :
                    q.cutoff < q.learning[i].due /\ q.learning[i].due <= now})]

\* update_learning_cutoff_and_count()
Bump(q, now) ==
    [q EXCEPT !.cutoff = now,
              !.counts.learning = @ + Cardinality({i \in DOMAIN q.learning :
                    Ahead(q) < q.learning[i].due /\ q.learning[i].due <= now + LearnAhead})]

\* Fault: newly due cards are looked for on every call
CountedAlways(q) == Bump(q, clock)

\* counts(): looks for newly due cards only when nothing else is left
Counted(q) == IF q.counts = [new |-> 0, learning |-> 0, review |-> 0] THEN Bump(q, clock) ELSE q

Snapshot(q) == [learning |-> q.counts.learning, cutoff |-> q.cutoff]
Restore(q, s) == [q EXCEPT !.counts.learning = s.learning, !.cutoff = s.cutoff]

\* iter(): learning cards now due, the main queue, then learning cards due soon
TopEntry(q) ==
    LET dueBy(t) == {i \in DOMAIN q.learning : q.learning[i].due <= t} IN
    CASE dueBy(q.cutoff) # {} -> q.learning[Min(dueBy(q.cutoff))]
      [] dueBy(q.cutoff) = {} /\ q.main # <<>> -> Head(q.main)
      [] dueBy(q.cutoff) = {} /\ q.main = <<>> /\ dueBy(Ahead(q)) # {} ->
            q.learning[Min(dueBy(Ahead(q)))]
      [] OTHER -> NoEntry

-----------------------------------------------------------------------------
(* Answering a card and taking the answer back                             *)

LearningEntryOf(id, c) ==
    [id |-> id, kind |-> "Learning", mtime |-> c.mtime, due |-> c.due, tried |-> c.tried]

\* requeue_learning_entry(): behind the next card, if it would be shown again at once
RequeueEntry(q, e) ==
    IF /\ e.due <= Ahead(q) /\ q.main = <<>> /\ q.learning # <<>>
       /\ Head(q.learning).due >= e.due /\ Head(q.learning).due + 1 < Ahead(q)
    THEN [e EXCEPT !.due = Head(q.learning).due + 1] ELSE e

\* Fault: only a card due within the learn-ahead time goes back
GoesBackIfSoon(c, finished) == ~finished /\ c.queue = "Learn" /\ c.due <= clock + LearnAhead

\* Fault: a card whose preview is over goes back, too
GoesBackFinished(c, finished) == c.queue = "Learn" /\ c.due < NextDayAt

\* maybe_requeue_learning_card()
GoesBack(c, finished) == ~finished /\ c.queue = "Learn" /\ c.due < NextDayAt

\* update_queues_after_answering_card(): the queue patched for card id, now c, at
\* position p, and what undo needs to patch it back
Answered(q, id, c, finished, p) ==
    LET pop     == Popped(q, id)
        again   == RequeueEntry(pop.rest, LearningEntryOf(id, c))
        patched == IF GoesBack(c, finished) THEN InsertLearning(pop.rest, again, p) ELSE pop.rest
    IN  [queues |-> Bump(patched, clock),
         update |-> [entry    |-> pop.entry,
                     requeue  |-> IF GoesBack(c, finished) THEN again ELSE NoEntry,
                     build    |-> q.build,
                     snapshot |-> Snapshot(patched)]]

AnswerPositions(q, id, c, finished) ==
    LET rest == Popped(q, id).rest IN
    IF GoesBack(c, finished)
    THEN InsertPositions(rest.learning, RequeueEntry(rest, LearningEntryOf(id, c)))
    ELSE {1}

\* Fault: the requeued entry stays when the answer is taken back
UndoneKeepingRequeue(q, u) == Push(Restore(q, u.snapshot), u.entry)

\* undo_queue_change() of CardAnswered
Undone(q, u) ==
    LET back == Restore(q, u.snapshot) IN
    Push(IF u.requeue = NoEntry THEN back ELSE RemoveLearning(back, u.requeue.id), u.entry)

\* undo_queue_change() of CardAnswerUndone
Redone(q, u, p) ==
    LET rest == Popped(q, u.entry.id).rest IN
    Restore(IF u.requeue = NoEntry THEN rest ELSE InsertLearning(rest, u.requeue, p), u.snapshot)

RedoPositions(q, u) ==
    IF u.requeue = NoEntry THEN {1}
    ELSE InsertPositions(Popped(q, u.entry.id).rest.learning, u.requeue)

-----------------------------------------------------------------------------
(* Building the queue                                                      *)

MainEntryOf(id, c) ==
    [id |-> id, mtime |-> c.mtime,
     kind |-> IF c.queue = "DayLearn" THEN "InterdayLearning" ELSE c.queue]

MainDue(cs)     == {id \in Cards : cs[id].at = "deck" /\
                      (cs[id].queue = "New" \/ (cs[id].queue \in {"Review", "DayLearn"} /\ cs[id].due <= Day))}
LearningDue(cs) == {id \in Cards : cs[id].at = "deck" /\ cs[id].queue = "Learn" /\ cs[id].due < NextDayAt}

CountKind(main, kind) == Cardinality({i \in DOMAIN main : main[i].kind = kind})

\* A build time no queue and no step still has; there is always one
UsedBuilds == {s.update.build : s \in {t \in Range(undoSteps) \cup Range(redoSteps) : t.update # NoUpdate}}
              \cup (IF queues = NoQueues THEN {} ELSE {queues.build})
NewBuild == CHOOSE b \in Builds : b \notin UsedBuilds

\* QueueBuilder::build() of the gathered entries, at build time b
Built(main, learning, b) ==
    [main |-> main, learning |-> learning, cutoff |-> clock, day |-> Day, build |-> b,
     counts |-> [new      |-> CountKind(main, "New"),
                 review   |-> CountKind(main, "Review"),
                 learning |-> CountKind(main, "InterdayLearning")
                              + Cardinality({i \in DOMAIN learning : learning[i].due <= clock + LearnAhead})]]

\* Fault: the card shown is queued like any other
BuiltQueuesUnpinned(cs, pinned) ==
    {Built([i \in DOMAIN m |-> MainEntryOf(m[i], cs[m[i]])],
           [i \in DOMAIN l |-> LearningEntryOf(l[i], cs[l[i]])], NewBuild) :
        m \in UNION {SetToSeqs(S) : S \in SUBSET MainDue(cs)},
        l \in {o \in SetToSeqs(LearningDue(cs)) :
                  InOrder([i \in DOMAIN o |-> LearningEntryOf(o[i], cs[o[i]])])}}

\* Every queue that limits, sort orders and scores may make of the cards cs; a
\* pinned card comes first, or among the learning cards when it is one of them.
BuiltQueues(cs, pinned) ==
    LET pinMain == {id \in pinned : cs[id].queue # "Learn"}
        mains   == UNION {SetToSeqs(S) : S \in {T \in SUBSET (MainDue(cs) \cup pinMain) : pinMain \subseteq T}}
        orders  == SetToSeqs(LearningDue(cs) \cup (pinned \ pinMain))
    IN  {Built([i \in DOMAIN m |-> MainEntryOf(m[i], cs[m[i]])],
               [i \in DOMAIN l |-> LearningEntryOf(l[i], cs[l[i]])], NewBuild) :
            m \in {n \in mains : pinMain = {} \/ n[1] \in pinMain},
            l \in {o \in orders : InOrder([i \in DOMAIN o |-> LearningEntryOf(o[i], cs[o[i]])])}}

-----------------------------------------------------------------------------
Starting(q, due, tried, at) == [queue |-> q, due |-> due, tried |-> tried, at |-> at, mtime |-> 0]

\* A collection just opened
Init ==
    /\ card \in [Cards -> UNION {
            CASE k = "New"      -> {Starting("New", 0, FALSE, "deck")}
              [] k = "Learn"    -> {Starting("Learn", d, TRUE, "deck") : d \in Delays}
              [] k = "DayLearn" -> {Starting("DayLearn", 0, TRUE, "deck")}
              [] k = "Buried"   -> {Starting("Review", 0, TRUE, "buried")} : k \in StartAs}]
    /\ queues = NoQueues /\ undoSteps = <<>> /\ redoSteps = <<>>
    /\ shown = NoCard /\ clock = 0 /\ panicked = FALSE

Running == ~panicked

Discard == undoSteps' = <<>> /\ redoSteps' = <<>>

(* clear_queues_if_day_changed() *)

DayChanged == queues # NoQueues /\ queues.day # Day

Unburied == [id \in Cards |-> IF card[id].at = "buried" THEN [card[id] EXCEPT !.at = "deck"] ELSE card[id]]

\* The cards a queue is built of
CardsToday == IF DayChanged THEN Unburied ELSE card

ClearIfDayChanged ==
    /\ card' = CardsToday
    /\ IF DayChanged THEN Discard ELSE UNCHANGED undoVars

\* What get_queues() may return; deferred reviews that are ready have it built anew
GetQueues ==
    LET kept  == IF queues = NoQueues \/ DayChanged THEN {} ELSE {queues}
        stale == kept = {} \/ "deferred" \in Background
    IN  kept \cup (IF stale THEN BuiltQueues(CardsToday, {}) ELSE {})

\* get_queued_cards(1): the first card, unless it is not the one that was queued
Show(q) ==
    LET top == TopEntry(Counted(q)) IN
    /\ queues' = Counted(q)
    /\ shown' = IF top # NoEntry /\ card[top.id].mtime = top.mtime THEN top.id ELSE NoCard

\* get_queued_cards(0): the counts, for another part of the program
Peek ==
    /\ Running /\ "peek" \in Background
    /\ \E q \in GetQueues : queues' = Counted(q)
    /\ ClearIfDayChanged
    /\ UNCHANGED <<shown, clock, panicked>>

GetNextCard ==
    /\ Running
    /\ \E q \in GetQueues : Show(q)
    /\ ClearIfDayChanged
    /\ UNCHANGED <<clock, panicked>>

(* answer_card() of the card shown *)

\* What an answer makes of card id, and whether it ends a preview
Outcomes(id) ==
    LET c     == [card[id] EXCEPT !.mtime = clock]
        steps == {clock + d : d \in Delays}
    IN  IF id \in Previewed
        THEN {[c |-> [c EXCEPT !.queue = "Learn", !.due = t], finished |-> FALSE] : t \in steps}
             \cup {[c |-> [c EXCEPT !.at = "away"], finished |-> TRUE]}
        ELSE {[c |-> [c EXCEPT !.queue = "Learn", !.due = t, !.tried = TRUE], finished |-> FALSE] : t \in steps}
             \cup {[c |-> [c EXCEPT !.queue = q, !.due = Day + 1, !.tried = TRUE], finished |-> FALSE] :
                       q \in Leaving}

\* An operation ends with a step of its own, and nothing left to redo
Record(kind, id, c, update) ==
    /\ card' = [card EXCEPT ![id] = c]
    /\ undoSteps' = <<[kind |-> kind, id |-> id, was |-> card[id], update |-> update]>> \o undoSteps
    /\ redoSteps' = <<>>

\* Rolled back: no card changes, and the steps and the queues go
RollBack == queues' = NoQueues /\ Discard /\ UNCHANGED card

AnswerPatching(id, o) ==
    /\ queues # NoQueues /\ CanPop(queues, id)
    /\ \E p \in AnswerPositions(queues, id, o.c, o.finished) :
          LET a == Answered(queues, id, o.c, o.finished, p) IN
          queues' = a.queues /\ Record("AnswerCard", id, o.c, a.update)

AnswerWithoutQueue(id, o) ==
    /\ queues = NoQueues
    /\ Record("AnswerCard", id, o.c, NoUpdate)
    /\ UNCHANGED queues

AnswerRefused(id) == queues # NoQueues /\ ~CanPop(queues, id) /\ RollBack

Answer(id) ==
    /\ Running /\ shown = id /\ Len(undoSteps) < MaxSteps
    /\ \/ \E o \in Outcomes(id) : AnswerPatching(id, o) \/ AnswerWithoutQueue(id, o)
       \/ AnswerRefused(id)
    /\ shown' = NoCard
    /\ UNCHANGED <<clock, panicked>>

\* Any other operation on a card: the queues go, and the reviewer looks again
EditCard(id, c) ==
    /\ Running /\ c # card[id] /\ Len(undoSteps) < MaxSteps
    /\ Record("Edit", id, [c EXCEPT !.mtime = clock], NoUpdate)
    /\ queues' = NoQueues /\ shown' = NoCard
    /\ UNCHANGED <<clock, panicked>>

Bury(id) == /\ "bury" \in Edits /\ card[id].at = "deck"
            /\ EditCard(id, [card[id] EXCEPT !.at = "buried"])

SetDueToday(id) == /\ "setDue" \in Edits /\ card[id].at = "deck"
                   /\ EditCard(id, [card[id] EXCEPT !.queue = "Review", !.due = Day])

(* undo() and redo() *)

\* get_or_invalidate_queues(): the queues u was made on, if they are still there
SameBuild(u) == queues # NoQueues /\ queues.build = u.build

\* Fault: the undo of any other operation keeps the queues
ReplayedKeeping(s, patches) ==
    CASE s.update = NoUpdate -> {queues}
      [] OTHER -> IF SameBuild(s.update) THEN patches ELSE {NoQueues}

\* What becomes of the queues when step s is replayed
Replayed(s, patches) ==
    CASE s.kind = "Edit" -> {NoQueues}
      [] s.kind = "AnswerCard" /\ s.update = NoUpdate -> {queues}
      [] s.kind = "AnswerCard" /\ s.update # NoUpdate ->
            IF SameBuild(s.update) THEN patches ELSE {NoQueues}

\* A day change found half way through drops the step being recorded; the
\* transaction is committed and then panics over the missing step.
RollsOver(s) == s.update # NoUpdate /\ DayChanged
Panic(s) == /\ panicked' = TRUE /\ queues' = NoQueues /\ Discard
            /\ card' = [Unburied EXCEPT ![s.id] = s.was]

Inverted(s) == [s EXCEPT !.was = card[s.id]]

UndoStep(s) ==
    /\ queues' \in Replayed(s, {Undone(queues, s.update)})
    /\ card' = [card EXCEPT ![s.id] = s.was]
    /\ undoSteps' = Tail(undoSteps) /\ redoSteps' = Append(redoSteps, Inverted(s))
    /\ UNCHANGED panicked

Undo ==
    /\ Running /\ undoSteps # <<>>
    /\ IF RollsOver(Head(undoSteps)) THEN Panic(Head(undoSteps)) ELSE UndoStep(Head(undoSteps))
    /\ shown' = NoCard
    /\ UNCHANGED clock

Refused(s) == s.update # NoUpdate /\ SameBuild(s.update) /\ ~CanPop(queues, s.update.entry.id)

RedoStep(s) ==
    /\ queues' \in Replayed(s, {Redone(queues, s.update, p) : p \in RedoPositions(queues, s.update)})
    /\ card' = [card EXCEPT ![s.id] = s.was]
    /\ undoSteps' = <<Inverted(s)>> \o undoSteps /\ redoSteps' = Front(redoSteps)
    /\ UNCHANGED panicked

Redo ==
    /\ Running /\ redoSteps # <<>>
    /\ LET s == Last(redoSteps) IN
       IF RollsOver(s) THEN Panic(s)
       ELSE IF Refused(s) THEN RollBack /\ UNCHANGED panicked ELSE RedoStep(s)
    /\ shown' = NoCard
    /\ UNCHANGED clock

(* Beside the reviewer *)

\* New review scores drop the queues and leave the undo steps
InstallScores ==
    /\ Running /\ queues # NoQueues
    /\ ("drop" \in Background /\ shown = NoCard) \/ "dropShown" \in Background
    /\ queues' = NoQueues
    /\ UNCHANGED <<card, undoVars, shown, clock, panicked>>

\* A transaction without undo drops both
TransactNoUndo ==
    /\ Running
    /\ ("drop" \in Background /\ shown = NoCard) \/ "dropShown" \in Background
    /\ queues' = NoQueues /\ Discard
    /\ UNCHANGED <<card, shown, clock, panicked>>

\* rebuild_queued_cards_preserving_current_card(id): under the card shown, or with
\* the one whose answer has just been taken back
RebuildPreserving(id) ==
    /\ Running /\ "rebuild" \in Background
    /\ shown = id \/ (/\ shown = NoCard /\ redoSteps # <<>>
                        /\ Last(redoSteps).id = id /\ Last(redoSteps).kind = "AnswerCard")
    /\ card[id].at = "deck"
    /\ queues' \in BuiltQueues(CardsToday, {id})
    /\ ClearIfDayChanged
    /\ UNCHANGED <<shown, clock, panicked>>

\* The program ends, or is killed after a panic
Restart ==
    /\ queues' = NoQueues /\ Discard /\ shown' = NoCard /\ panicked' = FALSE
    /\ UNCHANGED <<card, clock>>

Tick == clock < MaxTime /\ clock' = clock + 1 /\ UNCHANGED <<card, queues, undoVars, shown, panicked>>

Next ==
    \/ GetNextCard \/ Peek \/ Undo \/ Redo
    \/ \E id \in Cards : Answer(id) \/ Bury(id) \/ SetDueToday(id) \/ RebuildPreserving(id)
    \/ InstallScores \/ TransactNoUndo \/ Restart \/ Tick

Spec == Init /\ [][Next]_vars

\* The cards are alike until they are answered
Symmetry == Permutations(Cards)

-----------------------------------------------------------------------------
(* Properties                                                              *)

Entries(q) == Range(q.main) \cup Range(q.learning)

\* The counts the reviewer shows are those of the cards left in the queue: the
\* counts are never computed again, but moved along by answers, undo and redo
\* and by the cutoff (queue/mod.rs 98-105, 272-306, learning.rs 45-64).
CountsMatch == queues # NoQueues =>
    queues.counts = [new      |-> CountKind(queues.main, "New"),
                     review   |-> CountKind(queues.main, "Review"),
                     learning |-> CountKind(queues.main, "InterdayLearning")
                        + Cardinality({i \in DOMAIN queues.learning : queues.learning[i].due <= Ahead(queues)})]

\* Every entry is of the card as it now is: the "bug: card modified without
\* updating queue" that get_queued_cards() looks for (queue/mod.rs 161-167)
\* does not happen.
QueueFresh == queues # NoQueues =>
    \A e \in Entries(queues) :
        LET c == card[e.id] IN
        /\ c.at = "deck" /\ c.mtime = e.mtime
        /\ e.kind = (IF c.queue = "Learn" THEN "Learning" ELSE MainEntryOf(e.id, c).kind)

\* No card is queued twice, whatever is answered, undone and redone.
NoCardTwice == queues # NoQueues =>
    Cardinality({e.id : e \in Entries(queues)}) = Len(queues.main) + Len(queues.learning)

\* A learning card due today is never lost from the day's queue.
LearnersKept == queues # NoQueues /\ queues.day = Day =>
    \A id \in LearningDue(card) : \E i \in DOMAIN queues.learning : queues.learning[i].id = id

\* The card on the screen can be answered: the queue never refuses it as "not at
\* top of queue" (queue/mod.rs 283-285), though it may have been rebuilt since.
ShownCanBeAnswered == shown # NoCard /\ queues # NoQueues => CanPop(queues, shown)

\* Redoing an answer finds its card where undo put it back (undo.rs 53-63).
RedoFindsCard == redoSteps # <<>> => ~Refused(Last(redoSteps))

\* The learning cards stay in the order in which they are to be shown.
LearningInOrder == queues # NoQueues => InOrder(queues.learning)

\* Taking an answer back, at once or after the cutoff has moved, leaves exactly
\* the queue from which the card was answered (undo.rs 35-41).
UndoneIsBefore ==
    queues # NoQueues /\ TopEntry(queues) # NoEntry =>
        LET id == TopEntry(queues).id IN
        \A o \in Outcomes(id) : \A p \in AnswerPositions(queues, id, o.c, o.finished) :
            LET a == Answered(queues, id, o.c, o.finished, p) IN
            \A now \in clock..MaxTime :
                LET later == IF a.queues.counts = [new |-> 0, learning |-> 0, review |-> 0]
                             THEN Bump(a.queues, now) ELSE a.queues
                IN  Undone(later, a.update) = queues

\* Asked again for the next card of the same queue, the reviewer gets the card it
\* shows, as long as that is at the head of the queue (an undo in the background may
\* have put another there): time that passes brings no learning card in front of it (queue/mod.rs
\* 39-42: "Ensures we don't show a newly-due learning card after a user returns
\* from editing a review card").
StaysOnCard == [][
    shown # NoCard /\ shown' # NoCard /\ queues # NoQueues /\ queues' # NoQueues
    /\ TopEntry(queues) # NoEntry /\ shown = TopEntry(queues).id
    /\ queues'.build = queues.build => shown' = shown ]_vars

\* Undo and redo do not panic, whenever they are asked for.
NeverPanics == ~panicked
=============================================================================
