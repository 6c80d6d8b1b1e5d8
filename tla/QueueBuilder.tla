---------------------------- MODULE QueueBuilder ----------------------------
(***************************************************************************)
(* How the study queue is made: which of the due cards today's limits and  *)
(* their siblings let in, and what is left of that when they are answered. *)
(*                                                                         *)
(* The builder visits the cards in an order the deck's options give, and   *)
(* takes each whose deck, with all decks above it, has something left of   *)
(* its daily limit, unless a sibling visited before has it buried.  An     *)
(* answer buries siblings by a rule of its own, which must not reach into  *)
(* the queue, and counts towards the limits of the deck and its parents.   *)
(*                                                                         *)
(* The deck list computes the same counts from sums and limits alone.      *)
(***************************************************************************)
EXTENDS Integers, FiniteSets, FiniteSetsExt, Sequences, SequencesExt

CONSTANTS
    Decks,      \* the decks
    Filtered,   \* those of them that are filtered
    Path,       \* Path[d]: deck d and its parents
    Cards,
    Notes,
    NoteOf,     \* NoteOf[c]: the note of card c
    HomeOf,     \* HomeOf[c]: the deck it is at home in, whose options it follows
    FirstIn,    \* FirstIn[c]: the deck it is in at first: home or a filtered one
    Starts,     \* the queues the cards may be in at first
    Confs,      \* the options of the decks, one of which is in force
    Changes,    \* and how they may be changed: pairs of them
    Roots,      \* the decks that are studied
    Extensions, \* by how much limits are extended for the day
    NoBuild, NoQueue, NoCard, \* model values
    MaxEvents   \* bound of the model: new days, changes of the deck, its options and limits

Kinds == {"DayLearn", "Review", "New"}  \* in the order they are gathered
DueKinds == {"DayLearn", "Review"}
Limit == [review : Nat, new : Nat]
Conf == [limit   : [Decks -> Limit],
         bury    : [Decks -> SUBSET Kinds],  \* bury_new, bury_reviews, bury_interday_learning
         ignore  : BOOLEAN,                  \* new cards ignore the review limit
         parents : BOOLEAN,                  \* limits of the studied deck's parents count
         order   : {"byKind", "byRetrievability", "byScore"},
         dayLearnMix : {"before", "after", "mixed"},
         newMix  : {"before", "after", "mixed"},
         sortNew : BOOLEAN]

ASSUME BuilderAssumption ==
    /\ IsFiniteSet(Decks) /\ IsFiniteSet(Cards) /\ Filtered \subseteq Decks
    /\ Path \in [Decks -> SUBSET Decks]
    /\ \A d \in Decks : d \in Path[d]
    /\ \A d, e \in Decks : e \in Path[d] => Path[e] \subseteq Path[d]
    /\ \A d, e \in Decks : e \in Path[d] /\ d \in Path[e] => d = e
    /\ \A d, e, f \in Decks : e \in Path[d] /\ f \in Path[d] => e \in Path[f] \/ f \in Path[e]
    /\ \A d \in Filtered, e \in Decks : d \in Path[e] => d = e
    /\ NoteOf \in [Cards -> Notes]
    /\ FirstIn \in [Cards -> Decks] /\ HomeOf \in [Cards -> Decks \ Filtered]
    /\ \A c \in Cards : FirstIn[c] \in Filtered \/ FirstIn[c] = HomeOf[c]
    /\ Starts \subseteq [Cards -> Kinds]
    /\ Changes \subseteq Confs \X Confs
    /\ Confs \subseteq Conf /\ Roots \subseteq Decks /\ Extensions \subseteq Limit
    /\ NoCard \notin Cards /\ MaxEvents \in Nat

VARIABLES
    card,       \* the cards: queue, whether due today, whether buried, deck
    studied,    \* studied[d]: new and review cards answered on a day
    today,
    unburied,   \* the day the buried cards were last given back
    conf,       \* the options in force
    deck,       \* the deck selected
    build,      \* the queue builder at work
    queue,      \* the queue
    shown,      \* the card on the reviewer's screen
    changed,    \* cards changed since the queue got its entry for them
    events      \* events so far, up to MaxEvents

vars == <<card, studied, today, unburied, conf, deck, build, queue, shown, changed, events>>

(* Limits *)

Unlimited == 9999
Least(a, b) == IF a <= b THEN a ELSE b
FloorZero(n) == IF n < 0 THEN 0 ELSE n

StudiedToday(d) == IF studied[d].day = today THEN studied[d] ELSE [new |-> 0, review |-> 0, day |-> today]

\* RemainingLimits::new
Remaining(d) ==
    LET s == StudiedToday(d)
        newLeft == conf.limit[d].new - s.new
        reviewLeft == conf.limit[d].review - s.review - (IF conf.ignore THEN 0 ELSE s.new)
    IN  IF d \in Filtered
        THEN [review |-> Unlimited, new |-> Unlimited, cap |-> FALSE]
        ELSE [review |-> FloorZero(reviewLeft),
              new    |-> FloorZero(IF conf.ignore THEN newLeft ELSE Least(newLeft, reviewLeft)),
              cap    |-> ~conf.ignore]

CapTo(l, m) == [l EXCEPT !.review = Least(@, m.review), !.new = Least(@, m.new)]

\* l, capped to each of ms
CapToAll(l, ms) ==
    [l EXCEPT !.review = Min({m.review : m \in ms \cup {l}}), !.new = Min({m.new : m \in ms \cup {l}})]

Within(root) == {d \in Decks : root \in Path[d]}

\* The decks of the limit tree
Scope(root) == Within(root) \cup (IF conf.parents THEN Path[root] ELSE {})

\* LimitTreeMap::build: no deck starts with more than those above it
LimitTree(root) ==
    [d \in Scope(root) |-> CapToAll(Remaining(d), {Remaining(e) : e \in Path[d] \cap Scope(root)})]

DecrementOne(l, kind) ==
    IF kind = "New" THEN [l EXCEPT !.new = FloorZero(@ - 1)]
    ELSE LET r == FloorZero(l.review - 1)
         IN  [l EXCEPT !.review = r, !.new = IF l.cap THEN Least(@, r) ELSE @]

\* Fault: a deck that has nothing left leaves those below it what they had
DecrementPathOnly(tree, e, kind) ==
    [d \in DOMAIN tree |-> IF d \in Path[e] THEN DecrementOne(tree[d], kind) ELSE tree[d]]

\* Decrement the deck and those above it.  One that has nothing left takes what is
\* left from all below it.
Decrement(tree, e, kind) ==
    LET after == [d \in DOMAIN tree |-> IF d \in Path[e] THEN DecrementOne(tree[d], kind) ELSE tree[d]]
        spent == {d \in DOMAIN tree : \/ tree[d].review > 0 /\ after[d].review = 0
                                      \/ tree[d].new > 0 /\ after[d].new = 0}
    IN  [d \in DOMAIN tree |-> CapToAll(after[d], {after[g] : g \in spent \cap Path[d]})]

Top(tree) == CHOOSE d \in DOMAIN tree : DOMAIN tree \subseteq Within(d)
Left(tree, d, kind) == IF kind = "New" THEN tree[d].new ELSE tree[d].review

(* Building *)

Kind(c) == IF card[c].buried THEN "Buried" ELSE card[c].queue
DeckOf(c) == card[c].deck
Active(c, b) == deck \in Path[DeckOf(c)] /\ c # b.pinned
Modes(c) == conf.bury[HomeOf[c]]

Phases == IF conf.order = "byKind" THEN <<"DayLearn", "Review", "New">> ELSE <<"Due", "New">>
KindsOf(phase) == IF phase = "Due" THEN DueKinds ELSE {phase}

\* The cards a phase may visit.  By score, any that have one: their due day does not count.
Candidates(b, phase) ==
    LET all == {c \in Cards : Active(c, b) /\ Kind(c) \in KindsOf(phase)} IN
    CASE phase = "Due" /\ conf.order = "byScore" -> SUBSET all
      [] OTHER -> {{c \in all : phase = "New" \/ card[c].due}}

WithModes(modes, c) == [modes EXCEPT ![NoteOf[c]] = @ \cup Modes(c)]

\* Fault: intraday learning cards bury nothing
WithoutLearners(modes, S) == modes

\* All the modes of the intraday learning cards, whatever their order
WithLearners(modes, S) ==
    [n \in Notes |-> modes[n] \cup UNION {Modes(c) : c \in {x \in S : NoteOf[x] = n}}]

\* pin_current_card(): the first to be gathered, within the limits or not
WithPinned(b, c) ==
    LET modes == WithModes(b.modes, c)
        one == Decrement(b.tree, DeckOf(c), Kind(c))
    IN  IF Kind(c) = "Learn" THEN [b EXCEPT !.learning = {c}, !.modes = modes]
        ELSE [b EXCEPT !.got = <<c>>, !.modes = modes,
                       !.tree = IF Kind(c) = "New" /\ one[Top(one)].cap
                                THEN Decrement(one, DeckOf(c), "Review") ELSE one]

\* Intraday learning cards are gathered first, and without limit
WithIntraday(b) ==
    LET S == {c \in Cards : Active(c, b) /\ Kind(c) = "Learn"} IN
    [b EXCEPT !.learning = @ \cup S, !.modes = WithLearners(@, S)]

\* QueueBuilder::new(), perhaps around the card on screen
Builder(around) ==
    [tree |-> LimitTree(deck), modes |-> [n \in Notes |-> {}],
     pinned |-> IF around # NoCard /\ deck \in Path[DeckOf(around)] THEN around ELSE NoCard,
     got |-> <<>>, learning |-> {}, phase |-> 0, left |-> {}]

(* Merging *)

\* Intersperser: the j-th of the second comes before the i-th of the first
Earlier(j, i, one, two) == j * (Len(one) + 1) < i * (Len(two) + 1)
Mixed(one, two) ==
    LET place1(i) == i + Cardinality({j \in DOMAIN two : Earlier(j, i, one, two)})
        place2(j) == j + Cardinality({i \in DOMAIN one : ~Earlier(j, i, one, two)})
    IN  [k \in 1..(Len(one) + Len(two)) |->
            IF \E i \in DOMAIN one : place1(i) = k
            THEN one[CHOOSE i \in DOMAIN one : place1(i) = k]
            ELSE two[CHOOSE j \in DOMAIN two : place2(j) = k]]

\* Where the second goes
Merge(one, two, mix) ==
    CASE mix = "after"  -> one \o two
      [] mix = "before" -> two \o one
      [] mix = "mixed"  -> Mixed(one, two)

Orders(s) == {t \in [DOMAIN s -> Range(s)] : \A i, j \in DOMAIN s : i # j => t[i] # t[j]}

\* The main queues that can be made of the cards gathered
MainQueues(got) ==
    LET of(kind) == SelectSeq(got, LAMBDA c : Kind(c) = kind)
        sorted(kind) == IF conf.order = "byScore" THEN Orders(of(kind)) ELSE {of(kind)}
        due == IF conf.order = "byRetrievability"
               THEN {SelectSeq(got, LAMBDA c : Kind(c) \in DueKinds)}
               ELSE {Merge(r, l, conf.dayLearnMix) : r \in sorted("Review"), l \in sorted("DayLearn")}
        news == IF conf.sortNew THEN Orders(of("New")) ELSE {of("New")}
    IN  {Merge(d, n, conf.newMix) : d \in due, n \in news}

\* preserve_current_card()
InFront(main, c) == IF c \in Range(main) THEN <<c>> \o SelectSeq(main, LAMBDA x : x # c) ELSE main

-----------------------------------------------------------------------------

Conditions == [queue : {"New", "Learn", "DayLearn", "Review"}, due : BOOLEAN,
               buried : BOOLEAN, deck : Decks]

Init ==
    /\ \E q \in Starts :
          card = [c \in Cards |-> [queue |-> q[c], due |-> TRUE, buried |-> FALSE, deck |-> FirstIn[c]]]
    /\ studied = [d \in Decks |-> [new |-> 0, review |-> 0, day |-> 0]]
    /\ today = 0 /\ unburied = 0
    /\ conf \in Confs /\ deck \in Roots
    /\ build = NoBuild /\ queue = NoQueue /\ shown = NoCard
    /\ changed = {} /\ events = 0

Idle == build = NoBuild

(* The queue *)

\* unbury_on_day_rollover(): the cards are given back, and none counts as changed
Unbury ==
    /\ card' = [c \in Cards |-> [card[c] EXCEPT !.buried = FALSE]]
    /\ unburied' = today

\* clear_queues_if_day_changed()
UnburyIfQueueStale ==
    IF queue # NoQueue /\ queue.day # today THEN Unbury ELSE UNCHANGED <<card, unburied>>

\* get_queues(), for the card after the one on screen
GetQueues ==
    /\ Idle /\ queue # NoQueue => queue.day # today
    /\ UnburyIfQueueStale
    /\ build' = Builder(NoCard)
    /\ queue' = NoQueue /\ shown' = NoCard /\ changed' = {}
    /\ UNCHANGED <<studied, today, conf, deck, events>>

\* rebuild_queued_cards_preserving_current_card()
RebuildPreserving ==
    /\ Idle /\ shown # NoCard /\ Kind(shown) # "Buried"
    /\ UnburyIfQueueStale
    /\ build' = Builder(shown)
    /\ queue' = NoQueue /\ changed' = {}
    /\ UNCHANGED <<studied, today, conf, deck, shown, events>>

\* The card on screen is pinned, then intraday learning cards are gathered
Open ==
    /\ ~Idle /\ build.phase = 0
    /\ LET b == WithIntraday(IF build.pinned = NoCard THEN build ELSE WithPinned(build, build.pinned)) IN
       \E S \in Candidates(b, Phases[1]) : build' = [b EXCEPT !.phase = 1, !.left = S]
    /\ UNCHANGED <<card, studied, today, unburied, conf, deck, queue, shown, changed, events>>

\* Fault: a buried card uses up the limits too
GatherCardBuriedCounts(c) ==
    /\ ~Idle /\ c \in build.left
    /\ Left(build.tree, Top(build.tree), Kind(c)) > 0 /\ Left(build.tree, DeckOf(c), Kind(c)) > 0
    /\ build' = [build EXCEPT
            !.left  = @ \ {c},
            !.modes = WithModes(@, c),
            !.got   = IF Kind(c) \in build.modes[NoteOf[c]] THEN @ ELSE Append(@, c),
            !.tree  = Decrement(@, DeckOf(c), Kind(c))]
    /\ UNCHANGED <<card, studied, today, unburied, conf, deck, queue, shown, changed, events>>

\* The builder visits a card there is something left for; all others it skips
GatherCard(c) ==
    /\ ~Idle /\ c \in build.left
    /\ Left(build.tree, Top(build.tree), Kind(c)) > 0 /\ Left(build.tree, DeckOf(c), Kind(c)) > 0
    /\ LET buried == Kind(c) \in build.modes[NoteOf[c]] IN
       build' = [build EXCEPT
            !.left  = @ \ {c},
            !.modes = WithModes(@, c),
            !.got   = IF buried THEN @ ELSE Append(@, c),
            !.tree  = IF buried THEN @ ELSE Decrement(@, DeckOf(c), Kind(c))]
    /\ UNCHANGED <<card, studied, today, unburied, conf, deck, queue, shown, changed, events>>

NothingToGather == build.phase > 0 /\ \A c \in build.left :
    Left(build.tree, Top(build.tree), Kind(c)) = 0 \/ Left(build.tree, DeckOf(c), Kind(c)) = 0

NextPhase ==
    /\ ~Idle /\ NothingToGather /\ build.phase < Len(Phases)
    /\ \E S \in Candidates(build, Phases[build.phase + 1]) :
          build' = [build EXCEPT !.phase = @ + 1, !.left = S]
    /\ UNCHANGED <<card, studied, today, unburied, conf, deck, queue, shown, changed, events>>

FinishBuild ==
    /\ ~Idle /\ NothingToGather /\ build.phase = Len(Phases)
    /\ \E main \in MainQueues(build.got) :
          queue' = [day |-> today, unburied |-> unburied, main |-> InFront(main, build.pinned),
                    learning |-> build.learning, pinned |-> build.pinned, got |-> Range(build.got)]
    /\ build' = NoBuild
    /\ UNCHANGED <<card, studied, today, unburied, conf, deck, shown, changed, events>>

(* The reviewer *)

AtTop == queue.learning \cup {queue.main[i] : i \in DOMAIN queue.main \cap {1}}

\* get_queued_cards(1): learning cards that are due before the main queue, others after
\* it.  An entry of a card that was changed is an error, and none is shown.
Show ==
    /\ Idle /\ shown = NoCard /\ queue # NoQueue /\ queue.day = today
    /\ \E c \in AtTop \ changed : shown' = c
    /\ UNCHANGED <<card, studied, today, unburied, conf, deck, build, queue, changed, events>>

\* exclude_earlier_gathered_queues()
Gathered(kind) == CASE kind = "Learn" -> 0 [] kind = "DayLearn" -> 1
                    [] kind = "Review" -> 2 [] kind = "New" -> 3
NotBefore(c) == {k \in Kinds : Gathered(Kind(c)) <= Gathered(k)}

\* maybe_bury_siblings()
SiblingsToBury(c) ==
    {s \in Cards \ {c} : NoteOf[s] = NoteOf[c] /\ Kind(s) \in Modes(c) \cap NotBefore(c)}

\* update_deck_stats_from_answer(): of the deck the card is in, and its parents
StudiedAfter(c) ==
    [d \in Decks |->
        IF d \in Path[DeckOf(c)] /\ Kind(c) \in Kinds
        THEN LET s == StudiedToday(d) IN
             IF Kind(c) = "New" THEN [s EXCEPT !.new = @ + 1] ELSE [s EXCEPT !.review = @ + 1]
        ELSE studied[d]]

\* A card that leaves the day's learning goes home
Outcomes(c) ==
    {[card[c] EXCEPT !.queue = "Learn"],
     [card[c] EXCEPT !.queue = "Review", !.due = FALSE, !.deck = HomeOf[c]]}
    \cup IF Kind(c) \in {"Learn", "DayLearn"}
         THEN {[card[c] EXCEPT !.queue = "DayLearn", !.due = FALSE, !.deck = HomeOf[c]]} ELSE {}

\* answer_card(): without a queue, as after a change of options, there is none to patch
Answer ==
    /\ Idle /\ shown # NoCard
    /\ queue # NoQueue => shown \in AtTop
    /\ LET buried == SiblingsToBury(shown) IN
       \E o \in Outcomes(shown) :
          /\ card' = [c \in Cards |-> CASE c = shown -> o
                                         [] c \in buried -> [card[c] EXCEPT !.buried = TRUE]
                                         [] OTHER -> card[c]]
          /\ IF queue = NoQueue THEN UNCHANGED <<queue, changed>>
             ELSE /\ queue' = [queue EXCEPT
                        !.main     = IF shown \in queue.learning THEN @ ELSE Tail(@),
                        !.learning = IF o.queue = "Learn" THEN @ \cup {shown} ELSE @ \ {shown}]
                  /\ changed' = (changed \ {shown}) \cup buried
    /\ studied' = StudiedAfter(shown)
    /\ shown' = NoCard
    /\ UNCHANGED <<today, unburied, conf, deck, build, events>>

(* Beside it *)

DropQueue == queue' = NoQueue /\ changed' = {}
Happens == Idle /\ events < MaxEvents /\ events' = events + 1

SelectDeck(d) ==
    /\ Happens /\ d # deck /\ deck' = d
    /\ DropQueue /\ shown' = NoCard
    /\ UNCHANGED <<card, studied, today, unburied, conf, build>>

\* The card on screen stays there until the next is asked for
ChangeOptions ==
    /\ Happens /\ conf' \in {c \in Confs : <<conf, c>> \in Changes} /\ DropQueue
    /\ UNCHANGED <<card, studied, today, unburied, deck, build, shown>>

\* extend_limits(), from custom study
ExtendLimits(more) ==
    /\ Happens
    /\ studied' = [d \in Decks |->
          IF d = deck \/ (conf.parents /\ d \in Path[deck])
          THEN [StudiedToday(d) EXCEPT !.new = @ - more.new, !.review = @ - more.review]
          ELSE studied[d]]
    /\ DropQueue /\ shown' = NoCard
    /\ UNCHANGED <<card, today, unburied, conf, deck, build>>

\* deck_tree(): the deck list gives back the cards buried before today
LookAtDecks ==
    /\ Idle /\ unburied # today /\ Unbury
    /\ UNCHANGED <<studied, today, conf, deck, build, queue, shown, changed, events>>

NewDay ==
    /\ Happens /\ today' = today + 1
    /\ card' = [c \in Cards |-> [card[c] EXCEPT !.due = TRUE]]
    /\ UNCHANGED <<studied, unburied, conf, deck, build, queue, shown, changed>>

Next ==
    \/ GetQueues \/ RebuildPreserving
    \/ Open \/ NextPhase \/ FinishBuild
    \/ \E c \in Cards : GatherCard(c)
    \/ Show \/ Answer
    \/ \E d \in Roots : SelectDeck(d)
    \/ \E more \in Extensions : ExtendLimits(more)
    \/ ChangeOptions \/ LookAtDecks \/ NewDay

Spec == Init /\ [][Next]_vars

-----------------------------------------------------------------------------
(* The deck list *)

\* due_counts()
DueCounts(d) ==
    LET of(kind) == Cardinality({c \in Cards : DeckOf(c) = d /\ Kind(c) = kind /\ (kind = "New" \/ card[c].due)})
    IN  [new |-> of("New"), review |-> of("Review"), dayLearn |-> of("DayLearn")]

Plus(a, b) == [new |-> a.new + b.new, review |-> a.review + b.review, dayLearn |-> a.dayLearn + b.dayLearn]

\* Fault: reviews have all of the limit, whatever the learning cards take
CappedApart(n, l) ==
    LET dayLearn == Least(n.dayLearn, l.review)
        review == Least(n.review, l.review)
        new == Least(n.new, l.new)
    IN  [dayLearn |-> dayLearn, review |-> review,
         new |-> IF l.cap THEN Least(new, FloorZero(l.review - dayLearn - review)) ELSE new]

\* NodeCountsV3::capped
Capped(n, l) ==
    LET dayLearn == Least(n.dayLearn, l.review)
        review == Least(n.review, l.review - dayLearn)
        new == Least(n.new, l.new)
    IN  [dayLearn |-> dayLearn, review |-> review,
         new |-> IF l.cap THEN Least(new, l.review - dayLearn - review) ELSE new]

Children(d) == {e \in Decks : d \in Path[e] /\ e # d /\ Path[e] \cap Within(d) = {d, e}}

\* sum_counts_and_apply_limits_v3(), of the decks with these counts of their own
Node(d, own) ==
    LET limit(e) == IF conf.parents THEN CapToAll(Remaining(e), {Remaining(f) : f \in Path[e]}) ELSE Remaining(e)
        node[e \in Decks] ==
            Capped(FoldSet(LAMBDA x, n : Plus(node[x], n), own[e], Children(e)), limit(e))
    IN  node[d]

\* The node in deck_tree()
TreeCounts(d) == Node(d, [e \in Decks |-> DueCounts(e)])

\* Fault: only the subtree's limits count
DeckDueCountsAlone(d) ==
    LET own(e) == [DueCounts(e) EXCEPT !.new = Least(@, Remaining(e).new)]
        node[e \in Decks] ==
            Capped(FoldSet(LAMBDA x, n : Plus(node[x], n), own(e), Children(e)), Remaining(e))
    IN  node[d]

\* deck_due_counts(): the subtree only, and no more new cards of a deck than its own limit
DeckDueCounts(d) ==
    Node(d, [e \in Decks |-> [DueCounts(e) EXCEPT !.new = Least(@, Remaining(e).new)]])

-----------------------------------------------------------------------------
(* Properties                                                              *)

Current == queue # NoQueue /\ queue.day = today
SeesAll == Current /\ queue.unburied = unburied  \* no card was given back after it was built
Queued == Range(queue.main)
CountIn(d, S, kinds) == Cardinality({c \in S : d \in Path[DeckOf(c)] /\ Kind(c) \in kinds})

\* The queue holds no more than is left today of any limit above its cards, at
\* every moment of the day; only the card it was rebuilt around may be one too
\* many (decks/limits.rs 298-437, decks/stats.rs 22-42).
WithinLimits == Current =>
    \A d \in Scope(deck) :
        LET left == Remaining(d)
            due == CountIn(d, Queued \ {queue.pinned}, DueKinds)
            new == CountIn(d, Queued \ {queue.pinned}, {"New"})
        IN  /\ due <= left.review /\ new <= left.new
            /\ left.cap => due + new <= left.review

\* The assertion of get_queued_cards() (queue/mod.rs 161-167): a card with an entry in
\* the queue does not change without it; no answer buries a sibling that is queued.
QueuedUnchanged == queue # NoQueue => (Queued \cup queue.learning) \cap changed = {}

\* The queue has as many as are left of deck d's limit for cards of this kind
Full(d, kind) ==
    LET left == Remaining(d)
        reserved == IF left.cap THEN CountIn(d, Queued \cap {queue.pinned}, {"New"}) ELSE 0
    IN  IF kind = "New"
        THEN \/ CountIn(d, Queued, {"New"}) >= left.new
             \/ left.cap /\ CountIn(d, Queued, Kinds) >= left.review
        ELSE CountIn(d, Queued, DueKinds) + reserved >= left.review

\* A card is left out of the queue for a reason: a deck above it has nothing left
\* today, or a sibling was gathered and the options of a sibling's deck bury cards
\* of its kind (queue/builder/gathering.rs 478-760).
NothingWithheld == SeesAll /\ conf.order # "byScore" =>
    \A c \in Cards \ Queued :
        deck \in Path[DeckOf(c)] /\ Kind(c) \in Kinds /\ (Kind(c) = "New" \/ card[c].due)
        => \/ LET siblings == {s \in Cards \ {c} : NoteOf[s] = NoteOf[c]} IN
              /\ siblings \cap (queue.got \cup queue.learning) # {}
              /\ \E s \in siblings : Kind(c) \in Modes(s)
           \/ \E d \in Path[DeckOf(c)] \cap Scope(deck) : Full(d, Kind(c))

QueuedKind(kind) == Cardinality({c \in Queued : Kind(c) = kind})

\* Without burying, the deck list's counts, got from sums and limits alone, are those
\* of the queue, and stay so as cards are answered (decks/tree.rs 145-203).
DeckListAgrees ==
    SeesAll /\ queue.pinned = NoCard /\ (\A d \in Decks : conf.bury[d] = {}) /\ conf.order # "byScore" =>
        LET node == TreeCounts(deck) IN
        /\ QueuedKind("New") = node.new
        /\ QueuedKind("DayLearn") + QueuedKind("Review") = node.dayLearn + node.review
        /\ conf.order = "byKind" => QueuedKind("Review") = node.review

\* The counts of one deck that are computed from its subtree are those of its node
\* in the whole tree (decks/tree.rs 323-390, "so the result is the same").
CountsOfOneDeck == Idle => \A d \in Roots : DeckDueCounts(d) = TreeCounts(d)
=============================================================================
