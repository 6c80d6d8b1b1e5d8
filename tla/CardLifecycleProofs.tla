------------------------- MODULE CardLifecycleProofs -------------------------
(***************************************************************************)
(* Proofs about a card's place in the scheduler.  A card is sound when it  *)
(* is either at home, with nothing left of a filtered deck, or away, with  *)
(* all it needs to return, and when what it is due at fits its queue.      *)
(* Each operation on one card keeps it sound, and the properties of the    *)
(* module follow.                                                          *)
(***************************************************************************)
EXTENDS CardLifecycle, TLAPS

Kinds == {"New", "Learn", "Relearn", "Review"}
Queues == {"New", "Learn", "DayLearn", "Review", "PreviewRepeat"} \cup Held
Position == Nat \cup {NoPosition}

CardRecord == [deck : Decks, home : HomeDecks \cup {NoDeck}, type : Kinds, queue : Queues,
               due : Int, odue : Int, position : Position]

AtHome(c) == c.home = NoDeck /\ c.deck \in HomeDecks /\ c.odue = 0 /\ c.due > 0
InFiltered(c) == c.home \in HomeDecks /\ c.deck \in FilteredDecks /\ c.odue > 0

\* A card that is not new has left the queue of new cards, and a position is not 0
NotQueuedAsNew(c) == c.type # "New" => c.queue # "New"
Remembers(c) == c.position \in Nat => c.position > 0

\* At home a card that is not held is in the queue it would be restored to
QueueFits(c) == c.type # "New" /\ ~Away(c) /\ c.queue \notin Held => c.queue = RestoredQueue(c)
ReviewOnDay(c) == c.type = "Review" => DueKept(c) <= Epoch

Fits(c) ==
    /\ NotQueuedAsNew(c) /\ Remembers(c)
    /\ DaysBelowEpoch => QueueFits(c) /\ ReviewOnDay(c)

Sound(c) == c \in CardRecord /\ (AtHome(c) \/ InFiltered(c)) /\ Fits(c)

ClockRuns == clock \in Nat /\ clock <= StartTime + MaxTime

Inv ==
    /\ card \in [Cards -> CardRecord] /\ \A id \in Cards : Sound(card[id])
    /\ reschedule \in [FilteredDecks -> BOOLEAN]
    /\ ClockRuns

-----------------------------------------------------------------------------
(* Days and seconds *)

LEMMA Division ==
    ASSUME NEW a \in Nat, NEW b \in Nat, NEW d \in Nat \ {0}, a <= b
    PROVE  a \div d \in Nat /\ a \div d <= a /\ a \div d <= b \div d /\ b \div d \in Nat
  BY SMT

LEMMA Remainder ==
    ASSUME NEW a \in Nat, NEW d \in Nat \ {0}
    PROVE  a % d \in Nat /\ a % d < d
  BY SMT

LEMMA DayReached ==
    ASSUME ClockRuns
    PROVE  /\ Day \in Nat /\ Day >= FirstDay
           /\ Day <= FirstDay + (StartTime + MaxTime) \div DayLength
           /\ Now \in Nat /\ Now > Epoch
  <1>1. clock \in Nat /\ StartTime + MaxTime \in Nat /\ clock <= StartTime + MaxTime
    BY CardAssumption DEF ClockRuns
  <1>2. DayLength \in Nat \ {0} /\ FirstDay \in Nat /\ Epoch \in Nat
    BY CardAssumption
  <1> DEFINE gone == clock \div DayLength
             last == (StartTime + MaxTime) \div DayLength
  <1>3. gone \in Nat /\ last \in Nat /\ gone <= last
    BY <1>1, <1>2, Division
  <1>4. Day = FirstDay + gone BY DEF Day
  <1> HIDE DEF gone, last
  <1>5. Day \in Nat /\ Day >= FirstDay /\ Day <= FirstDay + last
    BY <1>2, <1>3, <1>4
  <1> QED BY <1>1, <1>2, <1>5 DEF last, Now

\* A day some interval ahead is a day, and so is the one a long step ends on; a
\* short step ends at a second.
LEMMA DaysAhead ==
    ASSUME NothingDueAtZero, ClockRuns, NEW days \in Intervals
    PROVE  Day + days \in Nat /\ Day + days > 0 /\ (DaysBelowEpoch => Day + days <= Epoch)
  <1> DEFINE last == (StartTime + MaxTime) \div DayLength
  <1>1. days \in Nat /\ FirstDay \in Nat /\ Epoch \in Nat BY CardAssumption
  <1>2. Day \in Nat /\ Day >= FirstDay /\ Day <= FirstDay + last BY DayReached
  <1>3. DaysBelowEpoch => FirstDay + last + days <= Epoch BY DEF DaysBelowEpoch
  <1>4. FirstDay > 0 BY DEF NothingDueAtZero
  <1>5. last \in Nat
    BY CardAssumption, Division
  <1> HIDE DEF last
  <1> QED BY <1>1, <1>2, <1>3, <1>4, <1>5

LEMMA StepEndFits ==
    ASSUME ClockRuns, NEW secs \in Delays
    PROVE  LET end == StepEnd(secs) IN
           /\ end.due \in Nat /\ end.due > 0
           /\ \/ end.queue = "Learn" /\ end.due > Epoch
              \/ end.queue = "DayLearn" /\ (DaysBelowEpoch => end.due <= Epoch)
  <1> DEFINE left == DayLength - (clock % DayLength)
             last == (StartTime + MaxTime) \div DayLength
             over == (secs - left) \div DayLength
  <1>1. /\ secs \in Nat \ {0} /\ DayLength \in Nat \ {0} /\ clock \in Nat
        /\ FirstDay \in Nat /\ Epoch \in Nat
    BY CardAssumption DEF ClockRuns
  <1>2. left \in Nat BY <1>1, Remainder
  <1>3. Day \in Nat /\ Day <= FirstDay + last /\ Now \in Nat /\ Now > Epoch BY DayReached
  <1>4. last \in Nat BY CardAssumption, Division
  <1>5. CASE secs >= left
    <2>1. StepEnd(secs) = [queue |-> "DayLearn", due |-> Day + over + 1] BY <1>5 DEF StepEnd
    <2>2. secs - left \in Nat /\ secs - left <= secs BY <1>1, <1>2, <1>5
    <2>3. over \in Nat /\ over <= secs
      <3> DEFINE rest == secs - left
      <3>1. rest \in Nat /\ rest <= secs BY <2>2
      <3> HIDE DEF rest
      <3>2. rest \div DayLength \in Nat /\ rest \div DayLength <= rest BY <1>1, <3>1, Division
      <3>3. rest \div DayLength <= secs BY <1>1, <3>1, <3>2
      <3> QED BY <3>2, <3>3 DEF rest
    <2>4. DaysBelowEpoch => FirstDay + last + (secs + 1) <= Epoch BY DEF DaysBelowEpoch
    <2> HIDE DEF last, over, left
    <2>5. Day + over + 1 \in Nat /\ Day + over + 1 > 0 BY <1>3, <2>3
    <2>6. DaysBelowEpoch => Day + over + 1 <= Epoch BY <1>1, <1>3, <1>4, <2>3, <2>4
    <2> QED BY <2>1, <2>5, <2>6
  <1>6. CASE ~(secs >= left)
    <2>1. StepEnd(secs) = [queue |-> "Learn", due |-> Now + secs] BY <1>6 DEF StepEnd
    <2> QED BY <1>1, <1>3, <2>1
  <1> QED BY <1>5, <1>6

-----------------------------------------------------------------------------
(* Operations on one card *)

LEMMA Names ==
    /\ {"New", "Learn", "Relearn", "Review"} \subseteq Kinds
    /\ {"New", "Learn", "DayLearn", "Review", "PreviewRepeat",
        "Suspended", "SchedBuried", "UserBuried"} \subseteq Queues
    /\ Held \subseteq Queues /\ "Suspended" \in Held /\ "SchedBuried" \in Held
    /\ "UserBuried" \in Held
    /\ {"New", "Learn", "DayLearn", "Review", "PreviewRepeat"} \cap Held = {}
  BY DEF Kinds, Queues, Held, Buried

LEMMA Places ==
    /\ NoDeck \notin HomeDecks /\ NoDeck \notin FilteredDecks
    /\ \A d \in FilteredDecks : d \notin HomeDecks
    /\ HomeDecks \subseteq Decks /\ FilteredDecks \subseteq Decks
    /\ NoPosition \notin Nat /\ NoPosition \in Position /\ Nat \subseteq Position
    /\ Epoch \in Nat
  BY CardAssumption DEF Decks, Position

\* Where a sound card is, seen from any of its fields
LEMMA Whereabouts ==
    ASSUME NEW c, Sound(c)
    PROVE  /\ Away(c) <=> InFiltered(c)
           /\ ~Away(c) <=> AtHome(c)
           /\ Away(c) <=> c.deck \in FilteredDecks
           /\ Away(c) <=> c.odue # 0
  BY Places DEF Sound, AtHome, InFiltered, Away

LEMMA DueKeptPositive ==
    ASSUME NEW c, Sound(c)
    PROVE  /\ DueKept(c) \in Int /\ DueKept(c) > 0 /\ DueKept(c) = DueAtHome(c)
           /\ DueKept(c) = IF Away(c) THEN c.odue ELSE c.due
  <1>1. c.due \in Int /\ c.odue \in Int BY DEF Sound, CardRecord
  <1> QED BY <1>1, Whereabouts DEF DueKept, DueAtHome, AtHome, InFiltered

LEMMA RestoredIsQueue ==
    ASSUME NEW c, c.type \in Kinds
    PROVE  RestoredQueue(c) \in {"New", "Learn", "DayLearn", "Review"}
  BY DEF RestoredQueue, Kinds

\* A card that is held or given back, at home or away, stays sound and keeps its schedule
LEMMA HoldSound ==
    ASSUME NEW c, Sound(c), NEW q \in Held
    PROVE  LET n == [c EXCEPT !.queue = q]
           IN  Sound(n) /\ Schedule(n) = Schedule(c)
  <1> DEFINE n == [c EXCEPT !.queue = q]
  <1>1. c \in CardRecord BY DEF Sound
  <1>2. /\ n \in CardRecord /\ n.queue = q /\ n.deck = c.deck /\ n.home = c.home
        /\ n.type = c.type /\ n.due = c.due /\ n.odue = c.odue /\ n.position = c.position
    BY <1>1, Names DEF CardRecord
  <1> HIDE DEF n
  <1>3. AtHome(n) \/ InFiltered(n) BY <1>2 DEF Sound, AtHome, InFiltered
  <1>4. DueKept(n) = DueKept(c) BY <1>2 DEF DueKept, Away
  <1>5. q # "New" BY Names
  <1>6. Fits(n)
    BY <1>2, <1>4, <1>5 DEF Sound, Fits, NotQueuedAsNew, Remembers, QueueFits, ReviewOnDay
  <1>7. Schedule(n) = Schedule(c) BY <1>2, <1>4 DEF Schedule
  <1> QED BY <1>2, <1>3, <1>6, <1>7 DEF Sound, n

LEMMA RestoreSound ==
    ASSUME NEW c, Sound(c)
    PROVE  Sound(RestoreQueue(c)) /\ Schedule(RestoreQueue(c)) = Schedule(c)
  <1> DEFINE n == RestoreQueue(c)
  <1>1. c \in CardRecord BY DEF Sound
  <1>2. RestoredQueue(c) \in {"New", "Learn", "DayLearn", "Review"}
    BY <1>1, RestoredIsQueue DEF CardRecord
  <1>3. /\ n \in CardRecord /\ n.queue = RestoredQueue(c) /\ n.deck = c.deck /\ n.home = c.home
        /\ n.type = c.type /\ n.due = c.due /\ n.odue = c.odue /\ n.position = c.position
    BY <1>1, <1>2, Names DEF CardRecord, RestoreQueue
  <1> HIDE DEF n
  <1>4. AtHome(n) \/ InFiltered(n) BY <1>3 DEF Sound, AtHome, InFiltered
  <1>5. DueKept(n) = DueKept(c) BY <1>3 DEF DueKept, Away
  <1>6. RestoredQueue(n) = RestoredQueue(c) BY <1>3 DEF RestoredQueue
  <1>7. n.type # "New" => n.queue # "New"
    BY <1>1, <1>3 DEF RestoredQueue, CardRecord, Kinds
  <1>8. Fits(n)
    BY <1>3, <1>5, <1>6, <1>7 DEF Sound, Fits, NotQueuedAsNew, Remembers, QueueFits, ReviewOnDay
  <1>9. Schedule(n) = Schedule(c) BY <1>3, <1>5 DEF Schedule
  <1> QED BY <1>3, <1>4, <1>8, <1>9 DEF Sound, n

\* Going home and being gathered change where a card is, not its schedule
LEMMA ReturnHomeSound ==
    ASSUME NEW c, Sound(c)
    PROVE  LET n == ReturnHome(c) IN
           /\ Sound(n) /\ ~Away(n) /\ Schedule(n) = Schedule(c)
           /\ c.queue \in Held => n.queue = c.queue
  <1> DEFINE n == ReturnHome(c)
             back == [c EXCEPT !.deck = c.home, !.home = NoDeck, !.odue = 0,
                               !.due = IF c.odue # 0 THEN c.odue ELSE @]
  <1>1. CASE ~Away(c)
    BY <1>1 DEF ReturnHome
  <1>2. CASE Away(c)
    <2>1. InFiltered(c) /\ c \in CardRecord BY <1>2, Whereabouts DEF Sound
    <2>2. /\ back \in CardRecord /\ back.deck = c.home /\ back.home = NoDeck /\ back.odue = 0
          /\ back.due = c.odue /\ back.type = c.type /\ back.queue = c.queue
          /\ back.position = c.position
      <3> DEFINE home == c.home
                 due == c.odue
      <3>1. home \in Decks /\ NoDeck \in HomeDecks \cup {NoDeck} /\ due \in Int /\ c.odue # 0
        BY <2>1, Places DEF InFiltered, CardRecord
      <3>2. back = [c EXCEPT !.deck = home, !.home = NoDeck, !.odue = 0, !.due = due]
        BY <3>1
      <3>3. c \in CardRecord /\ 0 \in Int BY <2>1
      <3> HIDE DEF back, home, due
      <3>4. /\ back \in CardRecord /\ back.deck = home /\ back.home = NoDeck /\ back.odue = 0
            /\ back.due = due /\ back.type = c.type /\ back.queue = c.queue
            /\ back.position = c.position
        BY <3>1, <3>2, <3>3 DEF CardRecord
      <3> QED BY <3>4 DEF home, due
    <2>3. n = IF c.queue \in Held THEN back ELSE RestoreQueue(back)
      BY <1>2 DEF ReturnHome
    <2> HIDE DEF back, n
    <2>4. RestoredQueue(back) \in {"New", "Learn", "DayLearn", "Review"}
      BY <2>2, RestoredIsQueue DEF CardRecord
    <2>5. /\ n \in CardRecord /\ n.deck = c.home /\ n.home = NoDeck /\ n.odue = 0
          /\ n.due = c.odue /\ n.type = c.type /\ n.position = c.position
          /\ n.queue = IF c.queue \in Held THEN c.queue ELSE RestoredQueue(back)
      BY <2>2, <2>3, <2>4, Names DEF CardRecord, RestoreQueue
    <2>6. AtHome(n) BY <2>1, <2>5 DEF AtHome, InFiltered
    <2>7. ~Away(n) BY <2>5 DEF Away
    <2>8. DueKept(c) = c.odue BY <1>2, DueKeptPositive
    <2>9. DueKept(n) = DueKept(c) BY <2>5, <2>7, <2>8 DEF DueKept
    <2>10. RestoredQueue(n) = RestoredQueue(back) BY <2>2, <2>5 DEF RestoredQueue
    <2>11. c.type # "New" => RestoredQueue(back) # "New"
      BY <2>1, <2>2 DEF RestoredQueue, CardRecord, Kinds
    <2>12. Fits(n)
      BY <2>5, <2>9, <2>10, <2>11, Names
      DEF Sound, Fits, NotQueuedAsNew, Remembers, QueueFits, ReviewOnDay
    <2>13. Schedule(n) = Schedule(c) BY <2>5, <2>9 DEF Schedule
    <2> QED BY <2>5, <2>6, <2>7, <2>12, <2>13 DEF Sound, n
  <1> QED BY <1>1, <1>2

LEMMA MoveIntoSound ==
    ASSUME NEW c, Sound(c), ~Away(c), NEW f \in FilteredDecks, NEW counts \in BOOLEAN,
           NEW place \in Int
    PROVE  LET n == MoveInto(c, f, counts, place)
           IN  Sound(n) /\ Schedule(n) = Schedule(c)
  <1> DEFINE n == MoveInto(c, f, counts, place)
  <1>1. AtHome(c) /\ c \in CardRecord BY Whereabouts DEF Sound
  <1>2. n = [c EXCEPT !.home = c.deck, !.deck = f, !.odue = c.due,
                      !.queue = IF counts THEN @ ELSE "Review",
                      !.due = IF @ > 0 THEN place ELSE @]
    BY <1>1 DEF MoveInto, AtHome
  <1>3. /\ n \in CardRecord /\ n.deck = f /\ n.home = c.deck /\ n.odue = c.due
        /\ n.type = c.type /\ n.position = c.position /\ n.queue \in {c.queue, "Review"}
    <2> DEFINE queue == IF counts THEN c.queue ELSE "Review"
               due == IF c.due > 0 THEN place ELSE c.due
    <2>1. /\ c.deck \in HomeDecks \cup {NoDeck} /\ f \in Decks /\ c.due \in Int
          /\ queue \in Queues /\ queue \in {c.queue, "Review"} /\ due \in Int
      BY <1>1, Places, Names DEF CardRecord, AtHome
    <2>2. n = [c EXCEPT !.home = c.deck, !.deck = f, !.odue = c.due, !.queue = queue, !.due = due]
      BY <1>2
    <2> HIDE DEF queue, due, n
    <2> QED BY <1>1, <2>1, <2>2 DEF CardRecord
  <1> HIDE DEF n
  <1>4. InFiltered(n) BY <1>1, <1>3 DEF AtHome, InFiltered
  <1>5. Away(n) BY <1>4, Places DEF InFiltered, Away
  <1>6. DueKept(n) = DueKept(c)
    BY <1>1, <1>3, <1>5 DEF DueKept, AtHome
  <1>7. Fits(n)
    BY <1>3, <1>5, <1>6 DEF Sound, Fits, NotQueuedAsNew, Remembers, QueueFits, ReviewOnDay
  <1>8. Schedule(n) = Schedule(c) BY <1>3, <1>6 DEF Schedule
  <1> QED BY <1>3, <1>4, <1>7, <1>8 DEF Sound, n

\* What a card leaves the new cards with: its position among them
PositionKept(c) == IF c.type = "New" THEN DueKept(c) ELSE c.position

\* A change from c to n that does not forget it
Keeps(c, n) == n.type # "New" => n.position = PositionKept(c)

LEMMA PositionsAgree ==
    ASSUME NEW c, Sound(c)
    PROVE  /\ Remember(c) = PositionKept(c) /\ LastPosition(c) = PositionKept(c)
           /\ PositionKept(c) \in Position
           /\ PositionKept(c) \in Nat => PositionKept(c) > 0
  <1>1. c.position \in Position /\ c.due \in Int /\ c.odue \in Int BY DEF Sound, CardRecord
  <1>2. DueKept(c) \in Nat /\ DueKept(c) > 0 /\ DueKept(c) = DueAtHome(c)
    BY DueKeptPositive
  <1>3. c.position \in Nat => c.position > 0 BY DEF Sound, Fits, Remembers
  <1>4. CurrentPosition(c) = DueKept(c) BY <1>2 DEF CurrentPosition, DueKept
  <1>5. Remember(c) = PositionKept(c) BY <1>4 DEF Remember, PositionKept
  <1>6. LastPosition(c) = PositionKept(c) BY <1>2 DEF LastPosition, PositionKept
  <1>7. PositionKept(c) \in Position BY <1>1, <1>2, Places DEF PositionKept
  <1>8. PositionKept(c) \in Nat => PositionKept(c) > 0 BY <1>2, <1>3 DEF PositionKept
  <1> QED BY <1>5, <1>6, <1>7, <1>8

LEMMA ScheduleKeeps ==
    ASSUME NEW c, NEW n, Schedule(n) = Schedule(c)
    PROVE  Keeps(c, n)
  BY DEF Schedule, Keeps, PositionKept

LEMMA LeaveGoesHome ==
    ASSUME NEW c, Sound(c)
    PROVE  /\ Leave(c) \in CardRecord
           /\ Leave(c).home = NoDeck /\ Leave(c).deck \in HomeDecks /\ Leave(c).odue = 0
  <1>1. c \in CardRecord BY DEF Sound
  <1>2. CASE ~Away(c)
    BY <1>1, <1>2, Whereabouts DEF Leave, AtHome
  <1>3. CASE Away(c)
    <2> DEFINE home == c.home
               n == Leave(c)
    <2>1. n = [c EXCEPT !.deck = home, !.home = NoDeck, !.odue = 0] BY <1>3 DEF Leave
    <2>2. home \in HomeDecks BY <1>3, Whereabouts DEF InFiltered
    <2>3. home \in Decks /\ NoDeck \in HomeDecks \cup {NoDeck} /\ 0 \in Int BY <2>2, Places
    <2> HIDE DEF home, n
    <2>4. n \in CardRecord /\ n.home = NoDeck /\ n.deck \in HomeDecks /\ n.odue = 0
      BY <1>1, <2>1, <2>2, <2>3 DEF CardRecord
    <2> QED BY <2>4 DEF n
  <1> QED BY <1>2, <1>3

\* A card that has gone home and become a review due at a day
LEMMA ReviewSound ==
    ASSUME NEW c, Sound(c), NEW n \in CardRecord,
           n.home = NoDeck, n.deck \in HomeDecks, n.odue = 0, n.position = PositionKept(c),
           n.due > 0, DaysBelowEpoch => n.due <= Epoch, n.type = "Review", n.queue = "Review"
    PROVE  Sound(n) /\ Keeps(c, n)
  <1>1. PositionKept(c) \in Nat => PositionKept(c) > 0 BY PositionsAgree
  <1>2. AtHome(n) /\ ~Away(n) BY DEF AtHome, Away
  <1>3. RestoredQueue(n) = n.queue BY DEF RestoredQueue
  <1>4. DueKept(n) = n.due BY <1>2 DEF DueKept
  <1>5. Fits(n)
    BY <1>1, <1>3, <1>4 DEF Fits, NotQueuedAsNew, Remembers, QueueFits, ReviewOnDay
  <1> QED BY <1>2, <1>5 DEF Sound, Keeps

LEMMA ScheduleAsReviewSound ==
    ASSUME NothingDueAtZero, ClockRuns, NEW c, Sound(c), NEW days \in Intervals
    PROVE  LET n == ScheduleAsReview(c, Day + days) IN Sound(n) /\ Keeps(c, n)
  <1> DEFINE due == Day + days
             p == PositionKept(c)
             l == Leave(c)
             n == ScheduleAsReview(c, due)
  <1>1. LastPosition(c) = p /\ p \in Position BY PositionsAgree
  <1>2. n = [l EXCEPT !.position = p, !.due = due, !.type = "Review", !.queue = "Review"]
    BY <1>1 DEF ScheduleAsReview
  <1>3. l \in CardRecord /\ l.home = NoDeck /\ l.deck \in HomeDecks /\ l.odue = 0
    BY LeaveGoesHome
  <1>4. due \in Int /\ due > 0 /\ (DaysBelowEpoch => due <= Epoch) BY DaysAhead
  <1>5. "Review" \in Kinds /\ "Review" \in Queues BY Names
  <1> HIDE DEF due, p, l, n
  <1>6. /\ n \in CardRecord /\ n.home = NoDeck /\ n.deck = l.deck /\ n.odue = 0
        /\ n.position = p /\ n.due = due /\ n.type = "Review" /\ n.queue = "Review"
    BY <1>1, <1>2, <1>3, <1>4, <1>5 DEF CardRecord
  <1>7. Sound(n) /\ Keeps(c, n) BY <1>3, <1>4, <1>6, ReviewSound DEF p
  <1> QED BY <1>7 DEF n, due

LEMMA ToReviewSound ==
    ASSUME NothingDueAtZero, ClockRuns, NEW c, Sound(c), NEW days \in Intervals
    PROVE  LET n == ToReview(c, days) IN Sound(n) /\ Keeps(c, n)
  <1> DEFINE due == Day + days
             p == PositionKept(c)
             l == Leave(c)
             n == ToReview(c, days)
  <1>1. Remember(c) = p /\ p \in Position BY PositionsAgree
  <1>2. n = [l EXCEPT !.type = "Review", !.position = p, !.queue = "Review", !.due = due]
    BY <1>1 DEF ToReview
  <1>3. l \in CardRecord /\ l.home = NoDeck /\ l.deck \in HomeDecks /\ l.odue = 0
    BY LeaveGoesHome
  <1>4. due \in Int /\ due > 0 /\ (DaysBelowEpoch => due <= Epoch) BY DaysAhead
  <1>5. "Review" \in Kinds /\ "Review" \in Queues BY Names
  <1> HIDE DEF due, p, l, n
  <1>6. /\ n \in CardRecord /\ n.home = NoDeck /\ n.deck = l.deck /\ n.odue = 0
        /\ n.position = p /\ n.due = due /\ n.type = "Review" /\ n.queue = "Review"
    BY <1>1, <1>2, <1>3, <1>4, <1>5 DEF CardRecord
  <1>7. Sound(n) /\ Keeps(c, n) BY <1>3, <1>4, <1>6, ReviewSound DEF p
  <1> QED BY <1>7 DEF n

LEMMA ScheduleAsNewSound ==
    ASSUME NothingDueAtZero, NEW c, Sound(c), NEW p \in Positions, NEW restore \in BOOLEAN
    PROVE  LET n == ScheduleAsNew(c, p, restore) IN Sound(n) /\ Keeps(c, n)
  <1> DEFINE last == PositionKept(c)
             due == IF restore /\ last # NoPosition THEN last ELSE p
             n == ScheduleAsNew(c, p, restore)
             l == Leave(c)
  <1>1. LastPosition(c) = last /\ last \in Position /\ (last \in Nat => last > 0)
    BY PositionsAgree
  <1>2. n = [l EXCEPT !.due = due, !.type = "New", !.queue = "New", !.position = NoPosition]
    BY <1>1 DEF ScheduleAsNew
  <1> HIDE DEF last
  <1>3. p \in Int /\ p > 0 BY CardAssumption DEF NothingDueAtZero
  <1>4. due \in Int /\ due > 0
    <2>1. CASE restore /\ last # NoPosition BY <1>1, <2>1 DEF Position
    <2>2. CASE ~(restore /\ last # NoPosition) BY <1>3, <2>2
    <2> QED BY <2>1, <2>2
  <1>5. l \in CardRecord /\ l.home = NoDeck /\ l.deck \in HomeDecks /\ l.odue = 0
    BY LeaveGoesHome
  <1>6. "New" \in Kinds /\ "New" \in Queues /\ NoPosition \in Position /\ NoPosition \notin Nat
    BY Names, Places
  <1> HIDE DEF due, n, l
  <1>7. /\ n \in CardRecord /\ n.home = NoDeck /\ n.deck = l.deck /\ n.odue = 0
        /\ n.position = NoPosition /\ n.due = due /\ n.type = "New" /\ n.queue = "New"
    BY <1>2, <1>4, <1>5, <1>6 DEF CardRecord
  <1>8. AtHome(n) BY <1>4, <1>5, <1>7 DEF AtHome
  <1>9. Fits(n)
    BY <1>6, <1>7 DEF Fits, NotQueuedAsNew, Remembers, QueueFits, ReviewOnDay
  <1> QED BY <1>7, <1>8, <1>9 DEF Sound, Keeps, n

LEMMA SetNewPositionSound ==
    ASSUME NEW c, Sound(c), NEW p \in Int, p > 0
    PROVE  LET n == SetNewPosition(c, p) IN Sound(n) /\ Keeps(c, n) /\ n.type = c.type
  <1> DEFINE n == SetNewPosition(c, p)
  <1>1. c \in CardRecord /\ (c.queue = "New" => c.type = "New")
    BY DEF Sound, Fits, NotQueuedAsNew
  <1>2. CASE c.type # "New"
    <2>1. n = c BY <1>1, <1>2 DEF SetNewPosition
    <2> QED BY <2>1 DEF Keeps, PositionKept
  <1>3. CASE c.type = "New"
    <2>1. \/ Away(c) /\ n = [c EXCEPT !.odue = p]
          \/ ~Away(c) /\ n = [c EXCEPT !.due = p]
      BY <1>3 DEF SetNewPosition
    <2> HIDE DEF n
    <2>2. /\ n \in CardRecord /\ n.home = c.home /\ n.deck = c.deck /\ n.type = c.type
          /\ n.queue = c.queue /\ n.position = c.position
          /\ n.odue = IF Away(c) THEN p ELSE c.odue
          /\ n.due = IF Away(c) THEN c.due ELSE p
      BY <1>1, <2>1 DEF CardRecord
    <2>3. AtHome(n) \/ InFiltered(n) BY <2>2, Whereabouts DEF AtHome, InFiltered
    <2>4. Fits(n)
      BY <1>3, <2>2 DEF Sound, Fits, NotQueuedAsNew, Remembers, QueueFits, ReviewOnDay
    <2> QED BY <1>3, <2>2, <2>3, <2>4 DEF Sound, Keeps, n
  <1> QED BY <1>2, <1>3

\* A review gets another due number, at home or away
LEMMA SetDueOfReviewSound ==
    ASSUME NEW c, Sound(c), c.type = "Review", NEW due \in Int, due > 0,
           DaysBelowEpoch => due <= Epoch
    PROVE  LET n == SetDueOfReview(c, due) IN Sound(n) /\ Keeps(c, n)
  <1> DEFINE n == SetDueOfReview(c, due)
  <1>1. c \in CardRecord BY DEF Sound
  <1>2. n = IF Away(c) THEN [c EXCEPT !.odue = due] ELSE [c EXCEPT !.due = due]
    BY Whereabouts DEF SetDueOfReview
  <1> HIDE DEF n
  <1>3. /\ n \in CardRecord /\ n.home = c.home /\ n.deck = c.deck /\ n.type = c.type
        /\ n.queue = c.queue /\ n.position = c.position
        /\ n.odue = IF Away(c) THEN due ELSE c.odue
        /\ n.due = IF Away(c) THEN c.due ELSE due
    BY <1>1, <1>2 DEF CardRecord
  <1>4. AtHome(n) \/ InFiltered(n) BY <1>3, Whereabouts DEF AtHome, InFiltered
  <1>5. Away(n) <=> Away(c) BY <1>3 DEF Away
  <1>6. DueKept(n) = due BY <1>3, <1>5 DEF DueKept
  <1>7. RestoredQueue(n) = "Review" /\ RestoredQueue(c) = "Review"
    BY <1>3 DEF RestoredQueue
  <1>8. Fits(n)
    BY <1>3, <1>5, <1>6, <1>7 DEF Sound, Fits, NotQueuedAsNew, Remembers, QueueFits, ReviewOnDay
  <1>9. Keeps(c, n) BY <1>3 DEF Keeps, PositionKept
  <1> QED BY <1>3, <1>4, <1>8, <1>9 DEF Sound, n

LEMMA SetDeckSound ==
    ASSUME NEW c, Sound(c), NEW h \in HomeDecks
    PROVE  LET n == [ReturnHome(c) EXCEPT !.deck = h] IN Sound(n) /\ Schedule(n) = Schedule(c)
  <1> DEFINE b == ReturnHome(c)
             n == [b EXCEPT !.deck = h]
  <1>1. Sound(b) /\ ~Away(b) /\ Schedule(b) = Schedule(c) BY ReturnHomeSound
  <1> HIDE DEF b
  <1>2. b \in CardRecord /\ h \in Decks /\ AtHome(b) BY <1>1, Places, Whereabouts DEF Sound
  <1>3. /\ n \in CardRecord /\ n.home = b.home /\ n.deck = h /\ n.type = b.type /\ n.due = b.due
        /\ n.odue = b.odue /\ n.queue = b.queue /\ n.position = b.position
    BY <1>2 DEF CardRecord
  <1> HIDE DEF n
  <1>4. AtHome(n) BY <1>2, <1>3 DEF AtHome
  <1>5. DueKept(n) = DueKept(b) /\ RestoredQueue(n) = RestoredQueue(b) /\ (Away(n) <=> Away(b))
    BY <1>3 DEF DueKept, Away, RestoredQueue
  <1>6. Fits(n)
    BY <1>1, <1>3, <1>5 DEF Sound, Fits, NotQueuedAsNew, Remembers, QueueFits, ReviewOnDay
  <1>7. Schedule(n) = Schedule(b) BY <1>3, <1>5 DEF Schedule
  <1> QED BY <1>1, <1>3, <1>4, <1>6, <1>7 DEF Sound, n, b

\* Where the answer is a learning step, the card stays where it is
LEMMA ToStepSound ==
    ASSUME ClockRuns, NEW c, Sound(c), NEW k \in {"Learn", "Relearn"}, NEW secs \in Delays
    PROVE  LET n == StayAway(ToStep(c, k, secs)) IN Sound(n) /\ Keeps(c, n)
  <1> DEFINE q == StepEnd(secs).queue
             due == StepEnd(secs).due
             p == PositionKept(c)
             b == ToStep(c, k, secs)
             n == StayAway(b)
  <1>1. Remember(c) = p /\ p \in Position /\ (p \in Nat => p > 0) BY PositionsAgree
  <1>2. /\ due \in Int /\ due > 0
        /\ \/ q = "Learn" /\ due > Epoch
           \/ q = "DayLearn" /\ (DaysBelowEpoch => due <= Epoch)
    BY StepEndFits
  <1>3. b = [c EXCEPT !.type = k, !.position = p, !.queue = q, !.due = due]
    BY <1>1 DEF ToStep
  <1>4. c \in CardRecord /\ k \in Kinds /\ q \in Queues BY <1>2, Names DEF Sound
  <1> HIDE DEF q, due, p, b, n
  <1>5. /\ b \in CardRecord /\ b.home = c.home /\ b.deck = c.deck /\ b.type = k /\ b.due = due
        /\ b.odue = c.odue /\ b.queue = q /\ b.position = p
    BY <1>1, <1>2, <1>3, <1>4 DEF CardRecord
  <1>6. n = IF Away(c) THEN [b EXCEPT !.odue = due] ELSE b
    BY <1>5 DEF StayAway, Away, n
  <1>7. /\ n \in CardRecord /\ n.home = c.home /\ n.deck = c.deck /\ n.type = k /\ n.due = due
        /\ n.odue = (IF Away(c) THEN due ELSE c.odue) /\ n.queue = q /\ n.position = p
    BY <1>2, <1>5, <1>6 DEF CardRecord
  <1>8. AtHome(n) \/ InFiltered(n) BY <1>2, <1>7, Whereabouts DEF AtHome, InFiltered
  <1>9. RestoredQueue(n) = IF due > Epoch THEN "Learn" ELSE "DayLearn"
    BY <1>7 DEF RestoredQueue, IsTime
  <1>10. DaysBelowEpoch => RestoredQueue(n) = q
    BY <1>2, <1>9, Places
  <1>11. Fits(n)
    BY <1>1, <1>2, <1>7, <1>10 DEF Fits, NotQueuedAsNew, Remembers, QueueFits, ReviewOnDay
  <1> QED BY <1>7, <1>8, <1>11 DEF Sound, Keeps, n, p, b

\* A preview that comes again changes no schedule
LEMMA PreviewSound ==
    ASSUME ClockRuns, NEW c, Sound(c), Away(c), NEW secs \in Delays
    PROVE  LET n == [c EXCEPT !.queue = "PreviewRepeat", !.due = Now + secs]
           IN  Sound(n) /\ Schedule(n) = Schedule(c)
  <1> DEFINE due == Now + secs
             n == [c EXCEPT !.queue = "PreviewRepeat", !.due = due]
  <1>1. due \in Int /\ "PreviewRepeat" \in Queues /\ c \in CardRecord
    BY DayReached, Names, CardAssumption DEF Sound
  <1> HIDE DEF due
  <1>2. /\ n \in CardRecord /\ n.home = c.home /\ n.deck = c.deck /\ n.type = c.type
        /\ n.odue = c.odue /\ n.queue = "PreviewRepeat" /\ n.position = c.position
    BY <1>1 DEF CardRecord
  <1> HIDE DEF n
  <1>3. InFiltered(n) BY <1>2, Whereabouts DEF InFiltered
  <1>4. Away(n) /\ n.odue # 0 /\ c.odue # 0 BY <1>2, Whereabouts DEF Away
  <1>5. DueKept(n) = DueKept(c) BY <1>2, <1>4 DEF DueKept
  <1>6. Fits(n)
    BY <1>2, <1>4, <1>5 DEF Sound, Fits, NotQueuedAsNew, Remembers, QueueFits, ReviewOnDay
  <1>7. Schedule(n) = Schedule(c) BY <1>2, <1>5 DEF Schedule
  <1> QED BY <1>2, <1>3, <1>6, <1>7 DEF Sound, n, due

LEMMA StudiedSound ==
    ASSUME NothingDueAtZero, ClockRuns, NEW c, Sound(c), NEW n \in Studied(c)
    PROVE  Sound(n) /\ Keeps(c, n)
  <1>1. StepType(c) \in {"Learn", "Relearn"} BY DEF StepType
  <1>2. ASSUME NEW secs \in Delays, n = StayAway(ToStep(c, StepType(c), secs))
        PROVE  Sound(n) /\ Keeps(c, n)
    BY <1>1, <1>2, ToStepSound
  <1>3. ASSUME NEW days \in Intervals \ {0}, n = ToReview(c, days)
        PROVE  Sound(n) /\ Keeps(c, n)
    BY <1>3, ToReviewSound
  <1> QED BY <1>2, <1>3 DEF Studied

LEMMA OutcomeSound ==
    ASSUME NothingDueAtZero, ClockRuns, NEW c, Sound(c), NEW n \in Outcomes(c)
    PROVE  /\ Sound(n) /\ Keeps(c, n)
           /\ Previewed(c) => Schedule(n) = Schedule(c)
  <1>1. CASE Previewed(c)
    <2>1. Away(c) BY <1>1, Whereabouts DEF Previewed
    <2>2. Sound(n) /\ Schedule(n) = Schedule(c)
      <3>1. CASE n = ReturnHome(c) BY <3>1, ReturnHomeSound
      <3>2. ASSUME NEW secs \in Delays, n = [c EXCEPT !.queue = "PreviewRepeat", !.due = Now + secs]
            PROVE  Sound(n) /\ Schedule(n) = Schedule(c)
        BY <2>1, <3>2, PreviewSound
      <3> QED BY <1>1, <3>1, <3>2 DEF Outcomes, Shown
    <2> QED BY <2>2, ScheduleKeeps
  <1>2. CASE ~Previewed(c)
    <2>1. CASE n \in Studied(c) BY <1>2, <2>1, StudiedSound
    <2>2. CASE n \in Leeched(c)
      <3>1. PICK b \in Studied(c) : n = [b EXCEPT !.queue = "Suspended"] BY <2>2 DEF Leeched
      <3>2. Sound(b) /\ Keeps(c, b) BY StudiedSound
      <3>3. Sound(n) /\ Schedule(n) = Schedule(b) BY <3>1, <3>2, HoldSound, Names
      <3>4. n.type = b.type /\ n.position = b.position BY <3>3 DEF Schedule
      <3> QED BY <1>2, <3>2, <3>3, <3>4 DEF Keeps
    <2> QED BY <1>2, <2>1, <2>2 DEF Outcomes
  <1> QED BY <1>1, <1>2

-----------------------------------------------------------------------------
(* Steps of all cards *)

\* What every step does to the cards
CardsStaySound ==
    /\ card' \in [Cards -> CardRecord]
    /\ \A x \in Cards : Sound(card'[x]) /\ Keeps(card[x], card'[x])

LEMMA UnchangedKeeps == ASSUME NEW c PROVE Keeps(c, c)
  BY ScheduleKeeps

LEMMA ChangeSound ==
    ASSUME Inv, NEW id \in Cards, NEW c, Change(id, c), Sound(c), Keeps(card[id], c)
    PROVE  CardsStaySound
  <1>1. card' = [card EXCEPT ![id] = c] BY DEF Change
  <1>2. card' \in [Cards -> CardRecord] BY <1>1 DEF Inv, Sound
  <1>3. ASSUME NEW x \in Cards PROVE Sound(card'[x]) /\ Keeps(card[x], card'[x])
    <2>1. card'[x] = IF x = id THEN c ELSE card[x] BY <1>1 DEF Inv
    <2> QED BY <2>1, UnchangedKeeps DEF Inv
  <1> QED BY <1>2, <1>3 DEF CardsStaySound

LEMMA AnswerSound ==
    ASSUME NothingDueAtZero, Inv, NEW id \in Cards, Answer(id)
    PROVE  /\ CardsStaySound
           /\ Previewed(card[id]) => Schedule(card'[id]) = Schedule(card[id])
  <1> DEFINE modes == SUBSET {"New", "Review", "DayLearn"}
             Answered(siblings, c) ==
                 [x \in Cards |-> CASE x = id -> c
                                    [] x \in siblings -> [card[x] EXCEPT !.queue = "SchedBuried"]
                                    [] OTHER -> card[x]]
  <1>0. PICK siblings \in {SiblingsToBury(id, mode) : mode \in modes} :
            \E c \in Outcomes(card[id]) : card' = Answered(siblings, c)
    BY Zenon DEF Answer
  <1>1. PICK c \in Outcomes(card[id]) : card' = Answered(siblings, c)
    BY <1>0
  <1>2. Sound(card[id]) /\ ClockRuns BY DEF Inv
  <1>3. Sound(c) /\ Keeps(card[id], c) /\ (Previewed(card[id]) => Schedule(c) = Schedule(card[id]))
    BY <1>2, OutcomeSound
  <1>4. card'[id] = c
    <2>1. id \notin siblings BY <1>0 DEF SiblingsToBury
    <2> QED BY <1>1, <2>1
  <1>5. ASSUME NEW x \in Cards PROVE Sound(card'[x]) /\ Keeps(card[x], card'[x])
    <2>1. CASE x = id BY <1>3, <1>4, <2>1
    <2>2. CASE x # id /\ x \in siblings
      <3>1. card'[x] = [card[x] EXCEPT !.queue = "SchedBuried"] BY <1>1, <2>2
      <3>2. Sound(card[x]) /\ "SchedBuried" \in Held BY Names DEF Inv
      <3>3. Sound(card'[x]) /\ Schedule(card'[x]) = Schedule(card[x]) BY <3>1, <3>2, HoldSound
      <3> QED BY <3>3, ScheduleKeeps
    <2>3. CASE x # id /\ x \notin siblings
      <3>1. card'[x] = card[x] BY <1>1, <2>3
      <3> QED BY <3>1, UnchangedKeeps DEF Inv
    <2> QED BY <2>1, <2>2, <2>3
  <1>6. card' \in [Cards -> CardRecord]
    <2>1. card' = [x \in Cards |-> card'[x]] BY <1>1
    <2> QED BY <1>5, <2>1 DEF Sound
  <1> QED BY <1>3, <1>4, <1>5, <1>6 DEF CardsStaySound

LEMMA BuryOrSuspendSound ==
    ASSUME Inv, NEW id \in Cards, NEW q \in {"Suspended", "UserBuried"}, BuryOrSuspend(id, q)
    PROVE  CardsStaySound
  <1> DEFINE n == [card[id] EXCEPT !.queue = q]
  <1>1. Sound(card[id]) /\ q \in Held BY Names DEF Inv
  <1>2. Sound(n) /\ Schedule(n) = Schedule(card[id]) BY <1>1, HoldSound
  <1>3. Change(id, n) BY DEF BuryOrSuspend
  <1> HIDE DEF n
  <1> QED BY <1>2, <1>3, ScheduleKeeps, ChangeSound

LEMMA UnburyOrUnsuspendSound ==
    ASSUME Inv, NEW id \in Cards, UnburyOrUnsuspend(id)
    PROVE  CardsStaySound
  <1> DEFINE n == RestoreQueue(card[id])
  <1>1. Sound(n) /\ Schedule(n) = Schedule(card[id]) BY RestoreSound DEF Inv
  <1>2. Change(id, n) BY DEF UnburyOrUnsuspend, RestoreIfHeld
  <1> HIDE DEF n
  <1> QED BY <1>1, <1>2, ScheduleKeeps, ChangeSound

LEMMA UnburyOnDayRolloverSound ==
    ASSUME Inv, UnburyOnDayRollover
    PROVE  CardsStaySound
  <1>1. card' = [id \in Cards |-> IF card[id].queue \in Buried THEN RestoreQueue(card[id]) ELSE card[id]]
    BY DEF UnburyOnDayRollover
  <1>2. ASSUME NEW x \in Cards PROVE Sound(card'[x]) /\ Keeps(card[x], card'[x])
    <2>1. card'[x] = RestoreQueue(card[x]) \/ card'[x] = card[x] BY <1>1
    <2>2. Sound(card[x]) BY DEF Inv
    <2>3. Sound(card'[x]) /\ Schedule(card'[x]) = Schedule(card[x]) BY <2>1, <2>2, RestoreSound
    <2> QED BY <2>3, ScheduleKeeps
  <1>3. card' = [x \in Cards |-> card'[x]] BY <1>1
  <1> QED BY <1>2, <1>3 DEF CardsStaySound, Sound

LEMMA NewScheduleSound ==
    ASSUME NothingDueAtZero, Inv, NEW id \in Cards, SetDueDate(id) \/ RescheduleAsNew(id)
    PROVE  CardsStaySound
  <1>1. Sound(card[id]) /\ ClockRuns BY DEF Inv
  <1>2. ASSUME NEW days \in Intervals, Change(id, ScheduleAsReview(card[id], Day + days))
        PROVE  CardsStaySound
    BY <1>1, <1>2, ScheduleAsReviewSound, ChangeSound
  <1>3. ASSUME NEW p \in Positions, NEW restore \in BOOLEAN,
               Change(id, ScheduleAsNew(card[id], p, restore))
        PROVE  CardsStaySound
    BY <1>1, <1>3, ScheduleAsNewSound, ChangeSound
  <1> QED BY <1>2, <1>3 DEF SetDueDate, RescheduleAsNew

LEMMA SetDeckActionSound ==
    ASSUME Inv, NEW id \in Cards, SetDeck(id)
    PROVE  CardsStaySound
  <1>1. PICK h \in HomeDecks : Change(id, [ReturnHome(card[id]) EXCEPT !.deck = h]) BY DEF SetDeck
  <1> DEFINE n == [ReturnHome(card[id]) EXCEPT !.deck = h]
  <1>2. Sound(n) /\ Schedule(n) = Schedule(card[id]) BY SetDeckSound DEF Inv
  <1>3. Change(id, n) BY <1>1
  <1> HIDE DEF n
  <1> QED BY <1>2, <1>3, ScheduleKeeps, ChangeSound

LEMMA NewIntervalSound ==
    ASSUME NothingDueAtZero, Inv, NEW id \in Cards, AdvanceOrPostpone(id) \/ Reschedule(id)
    PROVE  CardsStaySound
  <1>1. Sound(card[id]) /\ ClockRuns BY DEF Inv
  <1>2. card[id].type = "Review" BY DEF AdvanceOrPostpone, Reschedule
  <1>3. PICK due : /\ due \in {Day} \cup {Day + days : days \in Intervals}
                   /\ Change(id, SetDueOfReview(card[id], due))
    BY <1>1, Whereabouts DEF AdvanceOrPostpone, Reschedule, SetDueOfReview
  <1>4. due \in Int /\ due > 0 /\ (DaysBelowEpoch => due <= Epoch)
    <2>1. CASE due = Day
      <3> DEFINE last == (StartTime + MaxTime) \div DayLength
      <3>1. Day \in Nat /\ Day >= FirstDay /\ Day <= FirstDay + last BY <1>1, DayReached
      <3>2. FirstDay > 0 /\ FirstDay \in Nat /\ Epoch \in Nat /\ last \in Nat
        BY CardAssumption, Division DEF NothingDueAtZero
      <3>3. DaysBelowEpoch => FirstDay + last + 0 <= Epoch BY DEF DaysBelowEpoch
      <3> HIDE DEF last
      <3> QED BY <2>1, <3>1, <3>2, <3>3
    <2>2. CASE due # Day
      BY <1>1, <1>3, <2>2, DaysAhead
    <2> QED BY <2>1, <2>2
  <1>5. Sound(SetDueOfReview(card[id], due)) /\ Keeps(card[id], SetDueOfReview(card[id], due))
    BY <1>1, <1>2, <1>4, SetDueOfReviewSound
  <1> QED BY <1>3, <1>5, ChangeSound

LEMMA SortCardsSound ==
    ASSUME NothingDueAtZero, Inv, NEW ids, SortCards(ids)
    PROVE  CardsStaySound
  <1> DEFINE Shifted(start, shift, c) ==
                 IF shift /\ c.type = "New" /\ c.due >= start
                 THEN SetNewPosition(c, c.due + 1) ELSE c
  <1>1. PICK start \in Positions, shift \in BOOLEAN :
           card' = [x \in Cards |-> IF x \in ids THEN SetNewPosition(Shifted(start, shift, card[x]), start)
                                    ELSE Shifted(start, shift, card[x])]
    BY DEF SortCards
  <1>2. start \in Int /\ start > 0 BY CardAssumption DEF NothingDueAtZero
  <1>3. ASSUME NEW x \in Cards PROVE Sound(card'[x]) /\ Keeps(card[x], card'[x])
    <2> DEFINE c == card[x]
               s == Shifted(start, shift, c)
    <2>1. Sound(c) /\ c.due \in Int BY DEF Inv, Sound, CardRecord
    <2>2. Sound(s) /\ s.type = c.type /\ (c.type # "New" => s = c)
      <3>1. CASE shift /\ c.type = "New" /\ c.due >= start
        <4> DEFINE p == c.due + 1
        <4>1. p \in Int /\ p > 0 BY <1>2, <2>1, <3>1
        <4>2. s = SetNewPosition(c, p) BY <3>1
        <4> HIDE DEF p, s, c
        <4> QED BY <2>1, <3>1, <4>1, <4>2, SetNewPositionSound
      <3>2. CASE ~(shift /\ c.type = "New" /\ c.due >= start)
        <4>1. s = c BY <3>2
        <4> HIDE DEF s, c
        <4> QED BY <2>1, <4>1
      <3> QED BY <3>1, <3>2
    <2>3. card'[x] = IF x \in ids THEN SetNewPosition(s, start) ELSE s BY <1>1
    <2> HIDE DEF s, Shifted
    <2>4. LET n == SetNewPosition(s, start) IN Sound(n) /\ Keeps(s, n) /\ n.type = s.type
      BY <1>2, <2>2, SetNewPositionSound
    <2>5. Sound(card'[x]) /\ Keeps(s, card'[x]) /\ card'[x].type = c.type
      BY <2>2, <2>3, <2>4, UnchangedKeeps
    <2> QED BY <2>2, <2>5 DEF Keeps
  <1>4. card' = [x \in Cards |-> card'[x]] BY <1>1
  <1> QED BY <1>3, <1>4 DEF CardsStaySound, Sound

\* What a filtered deck gives back, and what it takes in
LEMMA ReturnedSound ==
    ASSUME Inv, NEW f, NEW x \in Cards
    PROVE  LET c == Returned(f)[x] IN
           /\ Sound(c) /\ Schedule(c) = Schedule(card[x])
           /\ card[x].queue \in Held => c.queue = card[x].queue
  <1>1. Returned(f)[x] = ReturnHome(card[x]) \/ Returned(f)[x] = card[x] BY DEF Returned
  <1>2. Sound(card[x]) BY DEF Inv
  <1> QED BY <1>1, <1>2, ReturnHomeSound

\* No schedule is changed, and no card that is held is given back
SchedulesKept ==
    \A x \in Cards : /\ Schedule(card'[x]) = Schedule(card[x])
                     /\ card[x].queue \in Held => card'[x].queue = card[x].queue

LEMMA EmptySound ==
    ASSUME Inv, NEW f, EmptyFilteredDeck(f)
    PROVE  CardsStaySound /\ SchedulesKept
  <1>1. card' = Returned(f) BY DEF EmptyFilteredDeck
  <1>2. card' = [x \in Cards |-> card'[x]] BY <1>1 DEF Returned
  <1>3. ASSUME NEW x \in Cards
        PROVE  /\ Sound(card'[x]) /\ Schedule(card'[x]) = Schedule(card[x])
               /\ card[x].queue \in Held => card'[x].queue = card[x].queue
    BY <1>1, ReturnedSound
  <1> QED BY <1>2, <1>3, ScheduleKeeps DEF CardsStaySound, SchedulesKept, Sound

LEMMA RebuildSound ==
    ASSUME Inv, NEW f \in FilteredDecks, RebuildFilteredDeck(f)
    PROVE  CardsStaySound /\ SchedulesKept /\ reschedule' \in [FilteredDecks -> BOOLEAN]
  <1> DEFINE back == Returned(f)
  <1>1. PICK counts \in BOOLEAN, found \in Gathered(back) :
           \E place \in [found -> -FilteredBase..Cardinality(found) - FilteredBase - 1] :
               /\ card' = [id \in Cards |-> IF id \in found THEN MoveInto(back[id], f, counts, place[id])
                                            ELSE back[id]]
               /\ reschedule' = [reschedule EXCEPT ![f] = counts]
    BY DEF RebuildFilteredDeck
  <1>2. PICK place \in [found -> -FilteredBase..Cardinality(found) - FilteredBase - 1] :
           card' = [id \in Cards |-> IF id \in found THEN MoveInto(back[id], f, counts, place[id])
                                     ELSE back[id]]
    BY <1>1
  <1>3. card' = [x \in Cards |-> card'[x]] BY <1>2
  <1> HIDE DEF back
  <1>4. ASSUME NEW x \in Cards
        PROVE  /\ Sound(card'[x]) /\ Schedule(card'[x]) = Schedule(card[x])
               /\ card[x].queue \in Held => card'[x].queue = card[x].queue
    <2>1. /\ Sound(back[x]) /\ Schedule(back[x]) = Schedule(card[x])
          /\ card[x].queue \in Held => back[x].queue = card[x].queue
      BY ReturnedSound DEF back
    <2>2. CASE x \in found
      <3>1. back[x].queue \notin Held /\ ~Away(back[x]) BY <1>1, <2>2 DEF Gathered
      <3>2. place[x] \in Int BY <1>2, <2>2
      <3>3. card'[x] = MoveInto(back[x], f, counts, place[x]) BY <1>2, <2>2
      <3>4. Sound(card'[x]) /\ Schedule(card'[x]) = Schedule(back[x])
        BY <2>1, <3>1, <3>2, <3>3, MoveIntoSound
      <3> QED BY <2>1, <3>1, <3>4
    <2>3. CASE x \notin found
      <3>1. card'[x] = back[x] BY <1>2, <2>3
      <3> QED BY <2>1, <3>1
    <2> QED BY <2>2, <2>3
  <1>5. reschedule' \in [FilteredDecks -> BOOLEAN] BY <1>1 DEF Inv
  <1> QED BY <1>3, <1>4, <1>5, ScheduleKeeps DEF CardsStaySound, SchedulesKept, Sound

LEMMA StepSound ==
    ASSUME NothingDueAtZero, Inv, [Next]_vars
    PROVE  CardsStaySound /\ Inv'
  <1>1. ASSUME NEW id \in Cards, Answer(id) PROVE CardsStaySound /\ UNCHANGED <<reschedule, clock>>
    BY <1>1, AnswerSound DEF Answer
  <1>2. ASSUME NEW id \in Cards, UnburyOrUnsuspend(id)
        PROVE  CardsStaySound /\ UNCHANGED <<reschedule, clock>>
    BY <1>2, UnburyOrUnsuspendSound DEF UnburyOrUnsuspend, Change
  <1>3. ASSUME NEW id \in Cards, SetDueDate(id) \/ RescheduleAsNew(id)
        PROVE  CardsStaySound /\ UNCHANGED <<reschedule, clock>>
    BY <1>3, NewScheduleSound DEF SetDueDate, RescheduleAsNew, Change
  <1>4. ASSUME NEW id \in Cards, SetDeck(id) PROVE CardsStaySound /\ UNCHANGED <<reschedule, clock>>
    BY <1>4, SetDeckActionSound DEF SetDeck, Change
  <1>5. ASSUME NEW id \in Cards, AdvanceOrPostpone(id) \/ Reschedule(id)
        PROVE  CardsStaySound /\ UNCHANGED <<reschedule, clock>>
    BY <1>5, NewIntervalSound DEF AdvanceOrPostpone, Reschedule, Change
  <1>6. ASSUME NEW id \in Cards, NEW q \in {"Suspended", "UserBuried"}, BuryOrSuspend(id, q)
        PROVE  CardsStaySound /\ UNCHANGED <<reschedule, clock>>
    BY <1>6, BuryOrSuspendSound DEF BuryOrSuspend, Change
  <1>7. ASSUME NEW f \in FilteredDecks, RebuildFilteredDeck(f)
        PROVE  CardsStaySound /\ reschedule' \in [FilteredDecks -> BOOLEAN] /\ UNCHANGED clock
    BY <1>7, RebuildSound DEF RebuildFilteredDeck
  <1>8. ASSUME NEW f \in FilteredDecks, EmptyFilteredDeck(f)
        PROVE  CardsStaySound /\ UNCHANGED <<reschedule, clock>>
    BY <1>8, EmptySound DEF EmptyFilteredDeck
  <1>9. ASSUME NEW ids, SortCards(ids) PROVE CardsStaySound /\ UNCHANGED <<reschedule, clock>>
    BY <1>9, SortCardsSound DEF SortCards
  <1>10. ASSUME UnburyOnDayRollover PROVE CardsStaySound /\ UNCHANGED <<reschedule, clock>>
    BY <1>10, UnburyOnDayRolloverSound DEF UnburyOnDayRollover
  <1>11. ASSUME Tick PROVE UNCHANGED <<card, reschedule>> /\ ClockRuns'
    BY <1>11, CardAssumption DEF Tick, Inv, ClockRuns
  <1>12. ASSUME UNCHANGED card PROVE CardsStaySound
    BY <1>12, UnchangedKeeps DEF Inv, CardsStaySound
  <1>13. ClockRuns /\ reschedule \in [FilteredDecks -> BOOLEAN] BY DEF Inv
  <1>14. ASSUME UNCHANGED clock PROVE ClockRuns' BY <1>13, <1>14 DEF ClockRuns
  <1>15. CardsStaySound /\ reschedule' \in [FilteredDecks -> BOOLEAN] /\ ClockRuns'
    BY <1>1, <1>2, <1>3, <1>4, <1>5, <1>6, <1>7, <1>8, <1>9, <1>10, <1>11, <1>12, <1>13, <1>14
    DEF Next, vars
  <1>16. Inv' = (card' \in [Cards -> CardRecord] /\ (\A x \in Cards : Sound(card'[x]))
                 /\ reschedule' \in [FilteredDecks -> BOOLEAN] /\ ClockRuns')
    BY DEF Inv, Sound, Fits, AtHome, InFiltered
  <1> QED BY <1>15, <1>16 DEF CardsStaySound

LEMMA InitSound ==
    ASSUME NothingDueAtZero, Init
    PROVE  Inv
  <1>1. PICK h \in HomeDecks, p \in Positions : card = [id \in Cards |-> NewCard(h, p)] BY DEF Init
  <1> DEFINE c == NewCard(h, p)
  <1>2. p \in Int /\ p > 0 BY CardAssumption DEF NothingDueAtZero
  <1>3. /\ "New" \in Kinds /\ "New" \in Queues /\ NoPosition \in Position /\ NoPosition \notin Nat
        /\ h \in Decks
    BY Names, Places
  <1>4. /\ c \in CardRecord /\ c.deck = h /\ c.home = NoDeck /\ c.type = "New" /\ c.odue = 0
        /\ c.due = p /\ c.position = NoPosition
    BY <1>2, <1>3 DEF NewCard, CardRecord
  <1> HIDE DEF c
  <1>5. Sound(c)
    BY <1>2, <1>3, <1>4
    DEF Sound, AtHome, Fits, NotQueuedAsNew, Remembers, QueueFits, ReviewOnDay
  <1>6. \A id \in Cards : card[id] = c BY <1>1 DEF c
  <1>7. card \in [Cards -> CardRecord] BY <1>1, <1>4 DEF c
  <1>8. reschedule \in [FilteredDecks -> BOOLEAN] BY DEF Init
  <1>9. ClockRuns BY CardAssumption DEF Init, ClockRuns
  <1> QED BY <1>5, <1>6, <1>7, <1>8, <1>9 DEF Inv

LEMMA Invariance ==
    ASSUME NothingDueAtZero
    PROVE  Spec => []Inv
  <1>1. Init => Inv BY InitSound
  <1>2. Inv /\ [Next]_vars => Inv' BY StepSound
  <1> QED BY <1>1, <1>2, PTL DEF Spec

-----------------------------------------------------------------------------
(* The theorems *)

\* A card that is away knows its home and its due number there, and a card at home has
\* forgotten both, whatever was done to it, if no card is ever due at 0.
THEOREM AwayHasHomeAlways ==
    ASSUME NothingDueAtZero
    PROVE  Spec => []AwayHasHome
  <1>1. Inv => AwayHasHome BY Whereabouts DEF Inv, AwayHasHome
  <1> QED BY <1>1, Invariance, PTL

\* What a learned card at home is due at fits its queue, also once it is given back, as
\* long as no day reached is a billion days after the first.
THEOREM DueFitsQueueAlways ==
    ASSUME NothingDueAtZero, DaysBelowEpoch
    PROVE  Spec => []DueFitsQueue
  <1>1. ASSUME Inv, NEW id \in Cards, NEW c, c = RestoreIfHeld(card[id]), ~Away(c), c.type # "New"
        PROVE  c.queue = RestoredQueue(c) /\ (IsTime(c.due) <=> c.queue = "Learn")
    <2>1. Sound(card[id]) BY <1>1 DEF Inv
    <2>2. Sound(c) /\ c.queue \notin Held
      <3>1. CASE card[id].queue \notin Held BY <1>1, <2>1, <3>1 DEF RestoreIfHeld
      <3>2. CASE card[id].queue \in Held
        <4>1. c = RestoreQueue(card[id]) BY <1>1, <3>2 DEF RestoreIfHeld
        <4>2. c.queue = RestoredQueue(card[id])
          BY <2>1, <4>1 DEF RestoreQueue, Sound, CardRecord
        <4>3. RestoredQueue(card[id]) \in {"New", "Learn", "DayLearn", "Review"}
          BY <2>1, RestoredIsQueue DEF Sound, CardRecord
        <4> QED BY <2>1, <4>1, <4>2, <4>3, RestoreSound, Names
      <3> QED BY <3>1, <3>2
    <2>3. c.queue = RestoredQueue(c) BY <1>1, <2>2 DEF Sound, Fits, QueueFits
    <2>4. c.type = "Review" => c.due <= Epoch
      BY <1>1, <2>2, DueKeptPositive DEF Sound, Fits, ReviewOnDay
    <2>5. c.type \in {"Learn", "Relearn", "Review"} /\ c.due \in Int /\ Epoch \in Nat
      BY <1>1, <2>2, Places DEF Sound, CardRecord, Kinds
    <2>6. CASE c.type = "Review"
      BY <2>3, <2>4, <2>5, <2>6 DEF RestoredQueue, IsTime
    <2>7. CASE c.type # "Review"
      BY <2>3, <2>5, <2>7 DEF RestoredQueue
    <2> QED BY <2>3, <2>6, <2>7
  <1>2. Inv => DueFitsQueue BY <1>1 DEF DueFitsQueue
  <1> QED BY <1>2, Invariance, PTL

\* However a card stops being new, it remembers its position among the new cards.
THEOREM PositionRememberedAlways ==
    ASSUME NothingDueAtZero
    PROVE  Spec => PositionRemembered
  <1> DEFINE Remembered ==
          \A id \in Cards : card'[id].type # "New" =>
              card'[id].position = IF card[id].type = "New" THEN DueKept(card[id]) ELSE card[id].position
  <1>1. Inv /\ [Next]_vars => [Remembered]_vars
    BY StepSound DEF CardsStaySound, Keeps, PositionKept
  <1> QED BY <1>1, Invariance, PTL DEF Spec, PositionRemembered

\* Filtered decks that are built, emptied or removed, and answers in one that only
\* previews, change no card's schedule and give back no card that is held.
THEOREM FilteredDecksKeepSchedulesAlways ==
    ASSUME NothingDueAtZero
    PROVE  Spec => FilteredDecksKeepSchedules
  <1> DEFINE Kept ==
          /\ \/ \A id \in Cards : /\ Schedule(card'[id]) = Schedule(card[id])
                                  /\ card[id].queue \in Held => card'[id].queue = card[id].queue
             \/ \A f \in FilteredDecks : ~RebuildFilteredDeck(f) /\ ~EmptyFilteredDeck(f)
          /\ \A id \in Cards :
                 Previewed(card[id]) /\ Schedule(card'[id]) # Schedule(card[id]) => ~Answer(id)
  <1>1. ASSUME Inv PROVE Kept
    <2>1. ASSUME NEW f \in FilteredDecks, RebuildFilteredDeck(f) \/ EmptyFilteredDeck(f)
          PROVE  SchedulesKept
      BY <1>1, <2>1, RebuildSound, EmptySound
    <2>2. ASSUME NEW id \in Cards, Previewed(card[id]), Answer(id)
          PROVE  Schedule(card'[id]) = Schedule(card[id])
      BY <1>1, <2>2, AnswerSound
    <2> QED BY <2>1, <2>2 DEF SchedulesKept
  <1>2. Inv /\ [Next]_vars => [Kept]_vars BY <1>1
  <1> QED BY <1>2, Invariance, PTL DEF Spec, FilteredDecksKeepSchedules
=============================================================================
