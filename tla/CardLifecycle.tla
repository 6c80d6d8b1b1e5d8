---------------------------- MODULE CardLifecycle ----------------------------
(***************************************************************************)
(* A card's place in the scheduler: its type, its queue, when it is due,   *)
(* and where it is, at home or away in a filtered deck.                    *)
(*                                                                         *)
(* One number says when a card is due, and what it counts depends on type  *)
(* and queue: a position among new cards, a day, or a second.  A filtered  *)
(* deck puts a number of its own in its place and keeps the one of home    *)
(* beside it; holding a card (suspending, burying) hides its queue, which  *)
(* is found again from type and due.  The operations on cards, each of     *)
(* which minds some of these, are mixed here in any order.                 *)
(***************************************************************************)
EXTENDS Integers, FiniteSets, TLC

CONSTANTS
    Cards,         \* the cards of one note: siblings
    HomeDecks,
    FilteredDecks,
    NoDeck,        \* a model value: original_deck_id is 0
    NoPosition,    \* a model value: original_position is None
    Positions,     \* where new cards are put
    Delays,        \* seconds of a learning step or a preview
    Intervals,     \* days of an interval
    FirstDay,      \* the age of the collection in days
    DayLength,     \* seconds in a day
    Epoch,         \* 1,000,000,000: what is due beyond it is due at a second
    FilteredBase,  \* 100,000: places in a filtered deck are counted from -FilteredBase
    StartTime,     \* seconds of the first day that have passed
    MaxTime,       \* bound of the model: seconds that pass
    MaxDue         \* bound of the model: how far new cards at home are shifted

ASSUME CardAssumption ==
    /\ IsFiniteSet(Cards) /\ IsFiniteSet(FilteredDecks)
    /\ HomeDecks \cap FilteredDecks = {} /\ NoDeck \notin HomeDecks \cup FilteredDecks
    /\ NoPosition \notin Nat
    /\ Positions \subseteq 0..Epoch /\ Intervals \subseteq Nat
    /\ Delays \subseteq Nat \ {0} /\ DayLength \in Nat \ {0}
    /\ FirstDay \in Nat /\ StartTime \in Nat /\ MaxTime \in Nat /\ MaxDue \in Nat
    /\ Epoch \in Nat /\ FilteredBase \in Nat /\ FilteredBase > Cardinality(Cards)

VARIABLES
    card,       \* the cards: deck, home (original deck), type, queue, due, odue, position
    reschedule, \* reschedule[f]: answers in filtered deck f count
    unburied,   \* the day the buried cards were last given back
    clock       \* seconds since the first day began

vars == <<card, reschedule, unburied, clock>>

Buried == {"SchedBuried", "UserBuried"}
Held == Buried \cup {"Suspended"}
Decks == HomeDecks \cup FilteredDecks

Day == FirstDay + clock \div DayLength
Now == Epoch + 1 + clock
IsTime(due) == due > Epoch \* is_unix_epoch_timestamp()

Away(c) == c.home # NoDeck

\* A new card, as a note that is added makes them
NewCard(h, p) == [deck |-> h, home |-> NoDeck, type |-> "New", queue |-> "New",
                  due |-> p, odue |-> 0, position |-> NoPosition]

Init ==
    /\ \E h \in HomeDecks, p \in Positions : card = [id \in Cards |-> NewCard(h, p)]
    /\ reschedule = [f \in FilteredDecks |-> TRUE]
    /\ clock = StartTime /\ unburied = Day

(* One card *)

RestoredQueue(c) ==
    CASE c.type \in {"Learn", "Relearn"} -> IF IsTime(c.due) THEN "Learn" ELSE "DayLearn"
      [] OTHER -> c.type

RestoreQueue(c) == [c EXCEPT !.queue = RestoredQueue(c)]

RestoreIfHeld(c) == IF c.queue \in Held THEN RestoreQueue(c) ELSE c

MoveInto(c, f, counts, place) ==
    IF c.odue # 0 THEN c
    ELSE [c EXCEPT !.home = c.deck, !.deck = f, !.odue = c.due,
                   !.queue = IF counts THEN @ ELSE "Review",
                   !.due = IF @ > 0 THEN place ELSE @]

\* Fault: the due date of home stays behind
LeaveKeepingDue(c) == IF Away(c) THEN [c EXCEPT !.deck = c.home, !.home = NoDeck] ELSE c

\* remove_from_filtered_deck_before_reschedule()
Leave(c) == IF Away(c) THEN [c EXCEPT !.deck = c.home, !.home = NoDeck, !.odue = 0] ELSE c

\* Fault: the queue is found from the due date in the filtered deck
ReturnHomeQueueFirst(c) ==
    IF ~Away(c) THEN c
    ELSE LET queued == IF c.queue \in Held THEN c ELSE RestoreQueue(c)
         IN  [queued EXCEPT !.deck = c.home, !.home = NoDeck, !.odue = 0,
                            !.due = IF c.odue # 0 THEN c.odue ELSE @]

\* Fault: a card that is held comes home as it is
ReturnHomeHeldAsIs(c) ==
    IF ~Away(c) THEN c
    ELSE LET back == [c EXCEPT !.deck = c.home, !.home = NoDeck, !.odue = 0]
         IN  IF c.queue \in Held THEN back
             ELSE RestoreQueue([back EXCEPT !.due = IF c.odue # 0 THEN c.odue ELSE @])

\* remove_from_filtered_deck_restoring_queue()
ReturnHome(c) ==
    IF ~Away(c) THEN c
    ELSE LET back == [c EXCEPT !.deck = c.home, !.home = NoDeck, !.odue = 0,
                               !.due = IF c.odue # 0 THEN c.odue ELSE @]
         IN  IF c.queue \in Held THEN back ELSE RestoreQueue(back)

\* original_or_current_due()
DueAtHome(c) == IF Away(c) THEN c.odue ELSE c.due

\* Fault: the position is read where the card is
LastPositionHere(c) == IF c.type = "New" THEN c.due ELSE c.position

LastPosition(c) == IF c.type = "New" THEN DueAtHome(c) ELSE c.position

ScheduleAsReview(c, due) ==
    [Leave(c) EXCEPT !.position = LastPosition(c), !.due = due,
                     !.type = "Review", !.queue = "Review"]

ScheduleAsNew(c, p, restore) ==
    LET last == LastPosition(c) IN
    [Leave(c) EXCEPT !.due = IF restore /\ last # NoPosition THEN last ELSE p,
                     !.type = "New", !.queue = "New", !.position = NoPosition]

SetNewPosition(c, p) ==
    IF c.type = "New" /\ Away(c) THEN [c EXCEPT !.odue = p]
    ELSE IF c.type = "New" \/ c.queue = "New" THEN [c EXCEPT !.due = p] ELSE c

\* What the rescheduling of all reviews writes to
SetDueOfReview(c, due) == IF c.odue # 0 THEN [c EXCEPT !.odue = due] ELSE [c EXCEPT !.due = due]

(* Answers *)

Previewed(c) == c.deck \in FilteredDecks /\ ~reschedule[c.deck]

\* The position of a new card, as its state has it
CurrentPosition(c) ==
    LET due == IF Away(c) /\ c.odue # 0 THEN c.odue ELSE c.due
    IN  IF due > 0 THEN due ELSE 0

\* A learning step that passes the end of the day becomes days
StepEnd(secs) ==
    LET left == DayLength - (clock % DayLength)
    IN  IF secs >= left
        THEN [queue |-> "DayLearn", due |-> Day + (secs - left) \div DayLength + 1]
        ELSE [queue |-> "Learn", due |-> Now + secs]

Remember(c) == IF c.type = "New" THEN CurrentPosition(c) ELSE c.position

\* apply_learning_state(), apply_relearning_state()
ToStep(c, type, secs) ==
    [c EXCEPT !.type = type, !.position = Remember(c),
              !.queue = StepEnd(secs).queue, !.due = StepEnd(secs).due]

\* apply_review_state(); the card leaves a filtered deck first
ToReview(c, days) ==
    [Leave(c) EXCEPT !.type = "Review", !.position = Remember(c), !.queue = "Review", !.due = Day + days]

\* apply_study_state() to a state that waits in a filtered deck
StayAway(c) == IF Away(c) THEN [c EXCEPT !.odue = c.due] ELSE c

StepType(c) == IF c.type \in {"New", "Learn"} THEN "Learn" ELSE "Relearn"

\* The next states of a card, in a deck whose answers count: a review leaves the
\* filtered deck and a step stays in it
Studied(c) ==
    {StayAway(ToStep(c, StepType(c), secs)) : secs \in Delays}
        \cup {ToReview(c, days) : days \in Intervals \ {0}}

\* An answer Again may suspend a leech, unless it is learned for the first time
Leeched(c) == IF c.type \in {"Review", "Relearn"}
              THEN {[n EXCEPT !.queue = "Suspended"] : n \in Studied(c)} ELSE {}

\* apply_preview_state()
Shown(c) == {ReturnHome(c)} \cup {[c EXCEPT !.queue = "PreviewRepeat", !.due = Now + secs] : secs \in Delays}

Outcomes(c) == IF Previewed(c) THEN Shown(c) ELSE Studied(c) \cup Leeched(c)

\* What an answer buries of its siblings: those in queues that are gathered with it or later
Order(q) == CASE q \in {"Learn", "PreviewRepeat"} -> 0 [] q = "DayLearn" -> 1
              [] q = "Review" -> 2 [] q = "New" -> 3 [] OTHER -> 4
Buries(q, mode) == {r \in mode : r = "New" \/ Order(q) <= Order(r)}

SiblingsToBury(id, mode) == {x \in Cards \ {id} : card[x].queue \in Buries(card[id].queue, mode)}

\* answer_card_inner(), from the reviewer or by grade_now()
Answer(id) ==
    /\ \E siblings \in {SiblingsToBury(id, mode) : mode \in SUBSET {"New", "Review", "DayLearn"}} :
           \E c \in Outcomes(card[id]) :
               card' = [x \in Cards |-> CASE x = id -> c
                                          [] x \in siblings -> [card[x] EXCEPT !.queue = "SchedBuried"]
                                          [] OTHER -> card[x]]
    /\ UNCHANGED <<reschedule, unburied, clock>>

(* Operations on cards *)

Change(id, c) == card' = [card EXCEPT ![id] = c] /\ UNCHANGED <<reschedule, unburied, clock>>

BuryOrSuspend(id, queue) ==
    /\ card[id].queue # queue /\ card[id].queue # "Suspended"
    /\ Change(id, [card[id] EXCEPT !.queue = queue])

UnburyOrUnsuspend(id) == card[id].queue \in Held /\ Change(id, RestoreIfHeld(card[id]))

UnburyOnDayRollover ==
    /\ unburied < Day
    /\ card' = [id \in Cards |-> IF card[id].queue \in Buried THEN RestoreQueue(card[id]) ELSE card[id]]
    /\ unburied' = Day
    /\ UNCHANGED <<reschedule, clock>>

SetDueDate(id) == \E days \in Intervals : Change(id, ScheduleAsReview(card[id], Day + days))

RescheduleAsNew(id) ==
    \E p \in Positions, restore \in BOOLEAN : Change(id, ScheduleAsNew(card[id], p, restore))

\* New positions for some cards, the same for all cards of a note; with shift, the
\* cards at or above make room
SortCards(ids) ==
    \E start \in Positions, shift \in BOOLEAN :
        LET Shifted(c) == IF shift /\ c.type = "New" /\ c.due >= start
                          THEN SetNewPosition(c, c.due + 1) ELSE c
        IN  /\ \A x \in Cards : Shifted(card[x]) # card[x] => Away(card[x]) \/ card[x].due < MaxDue
            /\ card' = [x \in Cards |-> IF x \in ids THEN SetNewPosition(Shifted(card[x]), start)
                                        ELSE Shifted(card[x])]
            /\ UNCHANGED <<reschedule, unburied, clock>>

SetDeck(id) ==
    \E h \in HomeDecks \ {card[id].deck} : Change(id, [ReturnHome(card[id]) EXCEPT !.deck = h])

\* Advance and Postpone: reviews not yet due become due, reviews due become due later
AdvanceOrPostpone(id) ==
    LET c == card[id] IN
    /\ c.type = "Review" /\ c.queue = "Review"
    /\ \E due \in {Day} \cup {Day + days : days \in Intervals \ {0}} :
           /\ IF DueAtHome(c) > Day THEN due <= DueAtHome(c) ELSE due > Day
           /\ Change(id, IF Away(c) THEN [c EXCEPT !.odue = due] ELSE [c EXCEPT !.due = due])

\* The algorithm gives a review another interval
Reschedule(id) ==
    /\ card[id].type = "Review" /\ card[id].queue # "Suspended"
    /\ \E days \in Intervals : Change(id, SetDueOfReview(card[id], Day + days))

(* Filtered decks *)

Returned(f) == [id \in Cards |-> IF f \in {card[id].deck, card[id].home} THEN ReturnHome(card[id]) ELSE card[id]]

\* -is:suspended -is:buried -deck:filtered, and what the deck searches for
Gathered(cards) == SUBSET {id \in Cards : cards[id].queue \notin Held /\ ~Away(cards[id])}

\* add_or_update_filtered_deck() and rebuild_filtered_deck()
RebuildFilteredDeck(f) ==
    \E counts \in BOOLEAN, found \in Gathered(Returned(f)) :
        \E place \in [found -> -FilteredBase..Cardinality(found) - FilteredBase - 1] :
            /\ \A x, y \in found : place[x] = place[y] => x = y
            /\ card' = [id \in Cards |-> IF id \in found THEN MoveInto(Returned(f)[id], f, counts, place[id])
                                         ELSE Returned(f)[id]]
            /\ reschedule' = [reschedule EXCEPT ![f] = counts]
            /\ UNCHANGED <<unburied, clock>>

\* empty_filtered_deck(), and the removal of a filtered deck
EmptyFilteredDeck(f) == card' = Returned(f) /\ UNCHANGED <<reschedule, unburied, clock>>

Tick == clock < MaxTime /\ clock' = clock + 1 /\ UNCHANGED <<card, reschedule, unburied>>

Next ==
    \/ \E id \in Cards :
        \/ Answer(id) \/ UnburyOrUnsuspend(id) \/ SetDueDate(id) \/ RescheduleAsNew(id)
        \/ SetDeck(id) \/ AdvanceOrPostpone(id) \/ Reschedule(id)
        \/ \E queue \in {"Suspended", "UserBuried"} : BuryOrSuspend(id, queue)
    \/ \E f \in FilteredDecks : RebuildFilteredDeck(f) \/ EmptyFilteredDeck(f)
    \/ \E ids \in SUBSET Cards \ {{}} : SortCards(ids)
    \/ UnburyOnDayRollover \/ Tick

Spec == Init /\ [][Next]_vars

(* Correctness *)

\* The schedule a card has at home, wherever it is
DueKept(c) == IF Away(c) /\ c.odue # 0 THEN c.odue ELSE c.due
Schedule(c) == [type |-> c.type, due |-> DueKept(c), position |-> c.position]

\* No card is ever due at 0: new cards are placed at 1 or above, and the collection
\* is a day old.  A due number of 0 kept in a filtered deck would say that the card
\* is not in one (filtered/card.rs 28-33).
NothingDueAtZero == 0 \notin Positions /\ FirstDay > 0

\* No day is as far ahead as a billion: what is due at a day is not due at a second.
DaysBelowEpoch ==
    \A n \in {0} \cup Intervals \cup {secs + 1 : secs \in Delays} :
        FirstDay + (StartTime + MaxTime) \div DayLength + n <= Epoch

\* A card that is away knows where it belongs and when it was due there, and a card
\* that is at home has forgotten both: nothing is left of a filtered deck after an
\* answer, a new due date or a move, or the next filtered deck would not take the
\* card in (filtered/card.rs 28-33, "bug: odue was set").
AwayHasHome ==
    \A id \in Cards : LET c == card[id] IN
        /\ Away(c) <=> c.deck \in FilteredDecks
        /\ Away(c) <=> c.odue # 0

\* What the number of a learned card counts fits its queue, also once it is given
\* back: seconds in the learning queue, days in the others (card/mod.rs 70-85).
\* A review due at a second would not be shown again.
DueFitsQueue ==
    \A id \in Cards : LET c == RestoreIfHeld(card[id]) IN
        ~Away(c) /\ c.type # "New" =>
            /\ c.queue = RestoredQueue(c)
            /\ IsTime(c.due) <=> c.queue = "Learn"

\* Building, emptying and removing a filtered deck changes no card's schedule and
\* gives back no card that is held; and an answer in a deck that only previews
\* changes no schedule either (answering/preview.rs 130: "it should return to its
\* old state").
FilteredDecksKeepSchedules == [][
    /\ \/ \A id \in Cards : /\ Schedule(card'[id]) = Schedule(card[id])
                            /\ card[id].queue \in Held => card'[id].queue = card[id].queue
       \/ \A f \in FilteredDecks : ~RebuildFilteredDeck(f) /\ ~EmptyFilteredDeck(f)
    /\ \A id \in Cards :
           Previewed(card[id]) /\ Schedule(card'[id]) # Schedule(card[id]) => ~Answer(id)
    ]_vars

\* However a card stops being new - by an answer at home or away, by a due date -
\* its position among the new cards is kept until it is new again, for "restore
\* original position" (card/mod.rs 116: "The position in the new queue before
\* leaving it").
PositionRemembered == [][
    \A id \in Cards : card'[id].type # "New" =>
        card'[id].position = IF card[id].type = "New" THEN DueKept(card[id]) ELSE card[id].position ]_vars

\* Cards are alike
Alike == Permutations(Cards)
=============================================================================
