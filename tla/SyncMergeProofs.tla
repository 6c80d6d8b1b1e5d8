--------------------------- MODULE SyncMergeProofs ---------------------------
(***************************************************************************)
(* Proofs about what a normal sync does to the collections: that both      *)
(* sides agree when the server commits, that equal times mean equal        *)
(* collections, and that the sync implements SharedCollection, for any     *)
(* number of devices and objects and any chunk size, with lost and late    *)
(* requests, stopped syncs and stopped servers.                            *)
(*                                                                         *)
(* A session works on four collections: b and w, what the device had and   *)
(* what its transaction sees, v and d, the same on the server.  Together   *)
(* is the relation of b and v between syncs: they differ only in what is   *)
(* marked on the device or numbered from b.usn on at the server.  Common   *)
(* says what a session changes at all.  Stage says for each request how    *)
(* far w and d are from being alike: which rows are still to come from     *)
(* the other side, in an answer, in a request under way or in the chunks   *)
(* still to go.  The first lemmas are about the four collections alone,    *)
(* one for each step of the protocol; the next put them together into      *)
(* Merge, which every action keeps until a session crosses another.        *)
(*                                                                         *)
(* For the refinement rows are read by what the user changed last, which a *)
(* card made anew by a sync still stands for: Origins says that a session  *)
(* changes what a row stands for only where one side has news for the      *)
(* other.                                                                  *)
(***************************************************************************)
EXTENDS CollectionSyncProofs

-----------------------------------------------------------------------------
(* Two collections.                                                        *)

At(col, o) == IF Has(col, o) THEN col.rows[o].at ELSE 0
Dirty(b, o) == Marked(b, o) \/ b.graves[o] = Unsent
Stale(b, v, o) == (Has(v, o) /\ v.rows[o].usn >= b.usn) \/ v.graves[o] >= b.usn

\* A collection has a row or a grave for each object, with numbers below n.
Whole(col, n) == \A o \in Objects :
    /\ Has(col, o) <=> col.graves[o] = NoGrave
    /\ Has(col, o) => col.rows[o].usn < n
    /\ col.graves[o] < n

\* A device and the server, between syncs
Together(b, v) ==
    /\ Whole(b, b.usn) /\ b.usn <= v.usn
    /\ \A o \in Objects :
        /\ Has(b, o) /\ ~Has(v, o) => v.graves[o] >= b.usn
        /\ Has(v, o) /\ ~Has(b, o) => b.graves[o] = Unsent
        /\ Has(b, o) /\ Has(v, o) => /\ Stale(b, v, o) \/ v.rows[o].at <= b.rows[o].at
                                     /\ Dirty(b, o) \/ b.rows[o].at <= v.rows[o].at

\* What the session of a device that has b changes on the server
Moved(d, v, b) ==
    /\ d.usn = v.usn /\ d.mod = v.mod /\ d.scm = v.scm
    /\ \A o \in Objects :
        \/ d.rows[o] = v.rows[o] /\ d.graves[o] = v.graves[o]
        \/ /\ Dirty(b, o) /\ Has(v, o)
           /\ \/ Has(d, o) /\ d.rows[o].usn = v.usn /\ d.rows[o].at >= v.rows[o].at
              \/ ~Has(d, o) /\ d.graves[o] = v.usn

\* What it changes on the device
Kept(w, b, v) == \A o \in Objects :
     /\ Stale(b, v, o) \/ At(w, o) = At(b, o)
     /\ Has(w, o) => Has(b, o) /\ b.rows[o].at <= w.rows[o].at
     /\ Marked(w, o) => Marked(b, o)

Common(b, w, v, d) ==
    /\ Whole(d, v.usn + 1) /\ Whole(w, v.usn + 1)
    /\ Moved(d, v, b) /\ Kept(w, b, v)

\* The same once the device sends cards, any of which it may have made anew: a row that
\* changes is a later one.
Advanced(d, v) ==
    /\ d.usn = v.usn /\ d.mod = v.mod /\ d.scm = v.scm
    /\ \A o \in Objects :
        \/ d.rows[o] = v.rows[o] /\ d.graves[o] = v.graves[o]
        \/ /\ Has(v, o)
           /\ \/ Has(d, o) /\ d.rows[o].usn = v.usn /\ d.rows[o].at >= v.rows[o].at
              \/ ~Has(d, o) /\ d.graves[o] = v.usn

Grown(w, b) == \A o \in Objects : Has(w, o) => Has(b, o) /\ b.rows[o].at <= w.rows[o].at

Loose(b, w, v, d) ==
    /\ Whole(d, v.usn + 1) /\ Whole(w, v.usn + 1)
    /\ Advanced(d, v) /\ Grown(w, b)

-----------------------------------------------------------------------------
LEMMA RowFacts ==
    ASSUME NEW t \in Nat, NEW col \in DeviceCollection(t), NEW o \in Objects
    PROVE  /\ Has(col, o) => /\ col.rows[o] \in MarkedRow(t) /\ col.rows[o].at \in Nat
                             /\ 0 < col.rows[o].at /\ col.rows[o].at <= t
                             /\ col.rows[o].usn \in Int /\ col.rows[o].usn >= -1
                             /\ At(col, o) = col.rows[o].at
           /\ ~Has(col, o) => At(col, o) = 0
           /\ At(col, o) \in Nat /\ (At(col, o) > 0 <=> Has(col, o))
           /\ col.graves[o] \in Int /\ col.graves[o] >= -2
           /\ col.usn \in Nat
  <1>1. /\ col.rows[o] \in MarkedRow(t) \cup {NoRow} /\ col.graves[o] \in MarkedGraves
        /\ col.usn \in Nat
    BY DEF DeviceCollection, Collection
  <1>2. col.graves[o] \in Int /\ col.graves[o] >= -2 BY <1>1 DEF MarkedGraves, NoGrave, Unsent
  <1>3. CASE col.rows[o] = NoRow BY <1>1, <1>2, <1>3 DEF Has, At
  <1>4. CASE col.rows[o] # NoRow
    <2>1. /\ col.rows[o] \in MarkedRow(t) /\ col.rows[o].at \in 1..t
          /\ col.rows[o].usn \in Nat \cup {Unsent}
      BY <1>1, <1>4 DEF MarkedRow
    <2> QED BY <1>1, <1>2, <1>4, <2>1 DEF Has, At, Unsent
  <1> QED BY <1>3, <1>4

LEMMA SentRowFacts ==
    ASSUME NEW t \in Nat, NEW col \in ServerCollection(t), NEW o \in Objects
    PROVE  /\ Has(col, o) => col.rows[o] \in Row(t) /\ col.rows[o].usn \in Nat
           /\ col.graves[o] # Unsent /\ ~Marked(col, o)
           /\ col \in DeviceCollection(t)
  <1>1. col.rows[o] \in Row(t) \cup {NoRow} /\ col.graves[o] \in SentGraves
    BY DEF ServerCollection, Collection
  <1>2. Has(col, o) => col.rows[o] \in Row(t) /\ col.rows[o].usn \in Nat
    BY <1>1 DEF Has, Row
  <1> QED BY <1>1, <1>2, ServerIsDevice, SentIsUnmarked DEF Marked, SentGraves

\* What the operations do to each object
Beside(new, col) == new.mod = col.mod /\ new.scm = col.scm /\ new.usn = col.usn

LEMMA GravesApplied ==
    ASSUME NEW t \in Nat, NEW col \in DeviceCollection(t), NEW objs, NEW usn
    PROVE  LET new == ApplyGraves(col, objs, usn) IN
           /\ Beside(new, col) /\ new.conf = col.conf
           /\ \A o \in Objects :
                /\ new.rows[o] = IF o \in objs THEN NoRow ELSE col.rows[o]
                /\ new.graves[o] = IF o \in objs /\ col.graves[o] = NoGrave
                                   THEN usn ELSE col.graves[o]
  BY DEF ApplyGraves, DeviceCollection, Collection, Beside

WithNumber(row, usn) == [row EXCEPT !.usn = usn]

LEMMA RowsNumbered ==
    ASSUME NEW t \in Nat, NEW col \in DeviceCollection(t), NEW objs, NEW usn
    PROVE  LET new == WithUsn(col, objs, usn) IN
           /\ Beside(new, col) /\ new.conf = col.conf /\ new.graves = col.graves
           /\ \A o \in Objects :
                /\ o \notin objs => new.rows[o] = col.rows[o]
                /\ o \in objs => new.rows[o] = WithNumber(col.rows[o], usn)
  BY DEF WithNumber, WithUsn, SetUsn, DeviceCollection, Collection, Beside

LEMMA OneTick ==
    ASSUME MsPerSec = 1, NEW n \in Nat
    PROVE  Secs(n) = n
  BY DEF Secs

LEMMA CardsTaken ==
    ASSUME NEW t \in Nat, NEW col \in DeviceCollection(t), NEW entries, NEW pending
    PROVE  LET new == MergeCards(col, entries, pending) IN
           /\ Beside(new, col) /\ new.conf = col.conf /\ new.graves = col.graves
           /\ \A o \in Objects :
                new.rows[o] = IF o \in DOMAIN entries
                                 /\ (~Has(col, o) \/ CardProceeds(pending, col.rows[o], entries[o]))
                              THEN entries[o] ELSE col.rows[o]
  <1> DEFINE rows == Take(col.rows, entries, LAMBDA m, e : CardProceeds(pending, m, e))
             new == MergeCards(col, entries, pending)
  <1>1. new = [col EXCEPT !.rows = rows] BY DEF MergeCards
  <1>2. \A o \in Objects : rows[o] = IF o \in DOMAIN entries
                   /\ (~Has(col, o) \/ CardProceeds(pending, col.rows[o], entries[o]))
              THEN entries[o] ELSE col.rows[o]
    BY DEF Take, Has
  <1> HIDE DEF rows, new
  <1>3. Beside(new, col) /\ new.conf = col.conf /\ new.graves = col.graves /\ new.rows = rows
    BY <1>1 DEF DeviceCollection, Collection, Beside
  <1> QED BY <1>2, <1>3 DEF new

LEMMA ChangesTaken ==
    ASSUME NEW t \in Nat, NEW col \in DeviceCollection(t), NEW changes
    PROVE  LET new == ApplyChanges(col, changes) IN
           /\ Beside(new, col) /\ new.graves = col.graves
           /\ new.conf = IF changes.conf = Unsent THEN col.conf ELSE changes.conf
           /\ \A o \in Objects :
                new.rows[o] = IF o \in DOMAIN changes.decks
                                 /\ (~Has(col, o) \/ DeckProceeds(col.rows[o], changes.decks[o]))
                              THEN changes.decks[o] ELSE col.rows[o]
  <1> DEFINE rows == Take(col.rows, changes.decks, DeckProceeds)
             conf == IF changes.conf = Unsent THEN col.conf ELSE changes.conf
             new == ApplyChanges(col, changes)
  <1>1. new = [col EXCEPT !.rows = rows, !.conf = conf] BY DEF ApplyChanges
  <1>2. \A o \in Objects : rows[o] = IF o \in DOMAIN changes.decks
                   /\ (~Has(col, o) \/ DeckProceeds(col.rows[o], changes.decks[o]))
              THEN changes.decks[o] ELSE col.rows[o]
    BY DEF Take, Has
  <1> HIDE DEF rows, new, conf
  <1>3. Beside(new, col) /\ new.conf = conf /\ new.graves = col.graves /\ new.rows = rows
    BY <1>1 DEF DeviceCollection, Collection, Beside
  <1> QED BY <1>2, <1>3 DEF new, conf

LEMMA CardsReconciled ==
    ASSUME NEW t \in Nat, NEW col \in DeviceCollection(t), NEW cards
    PROVE  LET new == Reconciled(col, cards) IN
           /\ Beside(new, col) /\ new.conf = col.conf /\ new.graves = col.graves
           /\ \A o \in Objects :
                new.rows[o] = IF o \in cards THEN [at |-> Now, usn |-> Unsent] ELSE col.rows[o]
  BY DEF Reconciled, DeviceCollection, Collection, Beside

-----------------------------------------------------------------------------
(* The steps of a sync.                                                    *)

Present(w, d) == \A o \in Objects : Has(w, o) <=> Has(d, o)
Untouched(d, v, objs) == \A o \in objs : Has(d, o) => d.rows[o] = v.rows[o]
Alike(w, d, objs) == \A o \in objs : At(w, o) = At(d, o)

\* A card on which both sides will agree, once what comes has come or what is marked is sent
WillAgree(w, d, o) == At(w, o) = At(d, o) \/ (Marked(w, o) /\ d.rows[o].at < w.rows[o].at)
ToCome(w, d, o) == Marked(w, o) \/ w.rows[o].at <= d.rows[o].at
CardsToCome(w, d, coming) == \A o \in Cards : Has(w, o) =>
    (o \in coming /\ ToCome(w, d, o)) \/ WillAgree(w, d, o)

GravesDone(b, v, d) ==
    /\ \A o \in Objects : Has(d, o) <=> Has(v, o) /\ b.graves[o] # Unsent
    /\ Untouched(d, v, Objects)

\* Where both sides are between two requests: what the device has sent (a body of asks)
\* or been answered (a), and what has been merged on either side.
AtStart(b, a, v, d, ss) ==
    /\ ss.ids = {Unsent}
    /\ d.rows = v.rows /\ d.graves = v.graves
    /\ a.graves = PendingGraves(v, b.usn)

AtGraves(b, w, s, a, asks, v, d, ss) ==
    /\ ss.ids = {Unsent}
    /\ s.held = PendingGraves(v, b.usn) /\ w.rows = b.rows
    /\ Got(a) => GravesDone(b, v, d)
    /\ ~Got(a) => /\ d.rows = v.rows /\ d.graves = v.graves
                  /\ \A body \in asks : body = PendingGraves(b, Unsent)

DecksSent(b, w, v, d, s, asks) ==
    /\ Untouched(d, v, Decks)
    /\ \A o \in Decks : At(w, o) > 0 => At(w, o) = At(b, o)
    /\ \A body \in asks :
        /\ body.decks = Entries(w, {o \in Decks : Has(w, o) /\ Marked(b, o)})
        /\ body.conf = IF s.newer THEN w.conf ELSE Unsent
        /\ \A o \in Decks : Has(w, o) /\ Marked(b, o) => w.rows[o].usn = v.usn

DecksToCome(b, w, v, d, s, e) ==
    /\ IF s.newer THEN e.conf = Unsent /\ d.conf = w.conf ELSE e.conf = d.conf
    /\ DOMAIN e.decks \subseteq Decks
    /\ \A o \in Decks : o \in DOMAIN e.decks =>
        /\ Has(w, o) /\ Stale(b, v, o)
        /\ e.decks[o] \in {v.rows[o]} \ {NoRow}
    /\ \A o \in Decks : Has(w, o) =>
        At(d, o) = IF o \in DOMAIN e.decks /\ w.rows[o].at <= e.decks[o].at
                   THEN e.decks[o].at ELSE w.rows[o].at

AtChanges(b, w, s, a, asks, v, d, ss) ==
    /\ ss.ids = {Unsent} /\ Present(w, d) /\ Untouched(d, v, Cards)
    /\ CardsToCome(w, d, PendingRows(d, Cards, b.usn))
    /\ Got(a) => DecksToCome(b, w, v, d, s, a.changes)
    /\ ~Got(a) => DecksSent(b, w, v, d, s, asks)

Coming(b, a, d, ss) ==
    (IF ss.ids = {Unsent} THEN PendingRows(d, Cards, b.usn) ELSE ss.ids)
    \cup (IF Got(a) THEN DOMAIN a.cards ELSE {})

AtChunk(b, w, s, a, v, d, ss) ==
    /\ Present(w, d) /\ w.conf = d.conf /\ Alike(w, d, Decks) /\ Untouched(d, v, Cards)
    /\ ss.ids = {Unsent} \/ ss.ids \subseteq PendingRows(d, Cards, b.usn)
    /\ CardsToCome(w, d, Coming(b, a, d, ss))
    /\ Got(a) =>
        /\ DOMAIN a.cards \subseteq PendingRows(d, Cards, b.usn)
        /\ \A o \in DOMAIN a.cards : a.cards[o] = d.rows[o]
        /\ a.last => ss.ids = {}

\* Cards still to be sent: those of the request under way, and those held
CardsToSend(w, d, held) == \A o \in Cards : Has(w, o) =>
    At(w, o) = At(d, o) \/ (o \in held /\ d.rows[o].at < w.rows[o].at)

CardsSent(w, v, body) == \A o \in Cards : o \in DOMAIN body =>
    body[o] = w.rows[o] /\ Has(w, o) /\ w.rows[o].usn = v.usn

AtApply(w, s, a, asks, v, d) ==
    /\ Present(w, d) /\ w.conf = d.conf /\ Alike(w, d, Decks)
    /\ Got(a) => CardsToSend(w, d, s.held)
    /\ ~Got(a) => \A body \in asks :
                    CardsSent(w, v, body) /\ CardsToSend(w, d, s.held \cup DOMAIN body)

AtEnd(w, s, asks, d) ==
    /\ Present(w, d) /\ w.conf = d.conf /\ Alike(w, d, Objects)
    /\ s.at = "sanity" => \A body \in asks : body = Counts(w)

\* What the session knows of the device, and the device of the session
Numbers(b, s, v, ss) ==
    ss.usn = v.usn /\ s.usn = v.usn /\ ss.client = b.usn /\ ss.newer = s.newer

Stage(b, w, s, a, asks, v, d, ss) ==
    /\ Numbers(b, s, v, ss) /\ Loose(b, w, v, d)
    /\ s.at \notin {"apply", "sanity", "finish"} => Common(b, w, v, d)
    /\ s.at = "start" => AtStart(b, a, v, d, ss)
    /\ s.at = "graves" => AtGraves(b, w, s, a, asks, v, d, ss)
    /\ s.at = "changes" => AtChanges(b, w, s, a, asks, v, d, ss)
    /\ s.at = "chunk" => AtChunk(b, w, s, a, v, d, ss)
    /\ s.at = "apply" => AtApply(w, s, a, asks, v, d)
    /\ s.at \in {"sanity", "finish"} => AtEnd(w, s, asks, d)

\* The collections of a session at a time t, and where they come from
Setting(t, b, w, v, d) ==
    /\ b \in DeviceCollection(t) /\ w \in DeviceCollection(t)
    /\ v \in ServerCollection(t) /\ d \in ServerCollection(t)
    /\ Together(b, v) /\ Whole(v, v.usn) /\ Common(b, w, v, d)

\* The same while cards are sent
Open(t, b, w, v, d) ==
    /\ b \in DeviceCollection(t) /\ w \in DeviceCollection(t)
    /\ v \in ServerCollection(t) /\ d \in ServerCollection(t)
    /\ Together(b, v) /\ Whole(v, v.usn) /\ Loose(b, w, v, d)

-----------------------------------------------------------------------------
LEMMA PendingFrom ==
    ASSUME NEW col, NEW objs, NEW k \in Nat
    PROVE  /\ PendingRows(col, objs, k) = {o \in objs : Has(col, o) /\ col.rows[o].usn >= k}
           /\ PendingGraves(col, k) = {o \in Objects : col.graves[o] >= k}
  BY DEF PendingRows, PendingGraves, IsPending, Unsent

LEMMA SessionBegins ==
    ASSUME NEW t \in Nat, NEW b \in DeviceCollection(t), NEW v \in ServerCollection(t),
           Together(b, v), Whole(v, v.usn)
    PROVE  Common(b, b, v, v)
  <1>1. b.usn \in Nat /\ v.usn \in Nat BY DEF DeviceCollection, ServerCollection, Collection
  <1>2. Whole(v, v.usn + 1) /\ Whole(b, v.usn + 1)
    <2>1. ASSUME NEW o \in Objects
          PROVE  /\ Has(b, o) => b.rows[o].usn < v.usn + 1
                 /\ b.graves[o] < v.usn + 1
                 /\ Has(v, o) => v.rows[o].usn < v.usn + 1
                 /\ v.graves[o] < v.usn + 1
      <3>1. v \in DeviceCollection(t) BY ServerIsDevice
      <3>2. /\ Has(b, o) => b.rows[o].usn \in Int
            /\ b.graves[o] \in Int
            /\ Has(v, o) => v.rows[o].usn \in Int
            /\ v.graves[o] \in Int
        BY <3>1, RowFacts
      <3> QED BY <1>1, <3>2 DEF Together, Whole
    <2> QED BY <2>1 DEF Together, Whole
  <1>3. Moved(v, v, b) BY DEF Moved
  <1>4. Kept(b, b, v)
    <2>1. ASSUME NEW o \in Objects, Has(b, o) PROVE b.rows[o].at <= b.rows[o].at
      BY <2>1, RowFacts
    <2> QED BY <2>1 DEF Kept
  <1> QED BY <1>2, <1>3, <1>4 DEF Common

\* The device marks the graves it sends.
LEMMA GravesMarked ==
    ASSUME NEW t \in Nat, NEW b, NEW v, NEW d, Setting(t, b, b, v, d),
           NEW w, w.rows = b.rows,
           \A o \in Objects : w.graves[o] = IF b.graves[o] = Unsent THEN v.usn ELSE b.graves[o]
    PROVE  Common(b, w, v, d)
  <1>1. v.usn \in Nat BY DEF Setting, ServerCollection, Collection
  <1>2. ASSUME NEW o \in Objects
        PROVE  /\ Has(w, o) <=> w.graves[o] = NoGrave
               /\ Has(w, o) => w.rows[o].usn < v.usn + 1
               /\ w.graves[o] < v.usn + 1
    BY <1>1 DEF Setting, Common, Whole, Has, Unsent, NoGrave
  <1>3. Kept(w, b, v) BY DEF Setting, Common, Kept, Has, At, Marked
  <1> QED BY <1>2, <1>3 DEF Setting, Common, Whole

\* The server applies the graves it is sent.
LEMMA GravesServed ==
    ASSUME NEW t \in Nat, NEW b, NEW w, NEW v, NEW d, Setting(t, b, w, v, d),
           d.rows = v.rows, d.graves = v.graves
    PROVE  LET e == ApplyGraves(d, PendingGraves(b, Unsent), v.usn) IN
           Common(b, w, v, e) /\ GravesDone(b, v, e)
  <1> DEFINE dug == PendingGraves(b, Unsent)
             e == ApplyGraves(d, dug, v.usn)
  <1>1. dug = {o \in Objects : b.graves[o] = Unsent} BY PendingIsMarked
  <1>2. /\ Beside(e, d)
        /\ \A o \in Objects :
             /\ e.rows[o] = IF o \in dug THEN NoRow ELSE d.rows[o]
             /\ e.graves[o] = IF o \in dug /\ d.graves[o] = NoGrave THEN v.usn ELSE d.graves[o]
    BY GravesApplied, ServerIsDevice DEF Setting
  <1> HIDE DEF e, dug
  <1>3. v.usn \in Nat BY DEF Setting, ServerCollection, Collection
  <1>4. ASSUME NEW o \in Objects
        PROVE  /\ Has(e, o) <=> e.graves[o] = NoGrave
               /\ Has(e, o) => e.rows[o].usn < v.usn + 1
               /\ e.graves[o] < v.usn + 1
    BY <1>2, <1>3 DEF Setting, Common, Whole, Has, NoGrave
  <1>5. Whole(e, v.usn + 1) BY <1>4 DEF Whole
  <1>6. ASSUME NEW o \in Objects
        PROVE  \/ e.rows[o] = v.rows[o] /\ e.graves[o] = v.graves[o]
               \/ Dirty(b, o) /\ Has(v, o) /\ ~Has(e, o) /\ e.graves[o] = v.usn
    <2>1. Has(v, o) <=> v.graves[o] = NoGrave BY DEF Setting, Whole
    <2> QED BY <1>1, <1>2, <2>1 DEF Dirty, Has
  <1>7. Moved(e, v, b) BY <1>2, <1>6 DEF Moved, Beside, Setting, Common
  <1>8. GravesDone(b, v, e) BY <1>1, <1>2 DEF GravesDone, Untouched, Has
  <1> QED BY <1>5, <1>7, <1>8 DEF Setting, Common, e, dug

LEMMA SettingFacts ==
    ASSUME NEW t \in Nat, NEW b, NEW w, NEW v, NEW d, Setting(t, b, w, v, d)
    PROVE  /\ b \in DeviceCollection(t) /\ w \in DeviceCollection(t)
           /\ v \in DeviceCollection(t) /\ d \in DeviceCollection(t)
           /\ v \in ServerCollection(t) /\ d \in ServerCollection(t)
           /\ b.usn \in Nat /\ v.usn \in Nat /\ b.usn <= v.usn
           /\ Common(b, w, v, d)
           /\ Whole(b, b.usn) /\ Whole(v, v.usn) /\ Whole(d, v.usn + 1) /\ Whole(w, v.usn + 1)
           /\ Moved(d, v, b) /\ Kept(w, b, v)
  BY ServerIsDevice DEF Setting, Together, Common, DeviceCollection, ServerCollection, Collection

LEMMA OpenFacts ==
    ASSUME NEW t \in Nat, NEW b, NEW w, NEW v, NEW d, Open(t, b, w, v, d)
    PROVE  /\ b \in DeviceCollection(t) /\ w \in DeviceCollection(t)
           /\ v \in DeviceCollection(t) /\ d \in DeviceCollection(t)
           /\ v \in ServerCollection(t) /\ d \in ServerCollection(t)
           /\ b.usn \in Nat /\ v.usn \in Nat /\ b.usn <= v.usn
           /\ Loose(b, w, v, d)
           /\ Whole(b, b.usn) /\ Whole(v, v.usn) /\ Whole(d, v.usn + 1) /\ Whole(w, v.usn + 1)
           /\ Advanced(d, v) /\ Grown(w, b)
  BY ServerIsDevice DEF Open, Together, Loose, DeviceCollection, ServerCollection, Collection

LEMMA CommonIsLoose ==
    ASSUME NEW b, NEW w, NEW v, NEW d, Common(b, w, v, d)
    PROVE  Loose(b, w, v, d)
  <1>1. Advanced(d, v) BY DEF Common, Moved, Advanced
  <1>2. Grown(w, b) BY DEF Common, Kept, Grown
  <1> QED BY <1>1, <1>2 DEF Common, Loose

LEMMA SettingIsOpen ==
    ASSUME NEW t, NEW b, NEW w, NEW v, NEW d, Setting(t, b, w, v, d)
    PROVE  Open(t, b, w, v, d)
  BY CommonIsLoose DEF Setting, Open

\* The device applies the graves it was sent, once the server has applied its own: both
\* have the same objects, and the cards differ in what is pending on either side.
LEMMA GravesTaken ==
    ASSUME NEW t \in Nat, NEW b, NEW w, NEW v, NEW d, Setting(t, b, w, v, d),
           GravesDone(b, v, d), w.rows = b.rows
    PROVE  LET u == ApplyGraves(w, PendingGraves(v, b.usn), v.usn) IN
           /\ Common(b, u, v, d) /\ Present(u, d)
           /\ CardsToCome(u, d, PendingRows(d, Cards, b.usn))
           /\ \A o \in Objects : Has(u, o) => u.rows[o] = b.rows[o]
  <1> DEFINE buried == PendingGraves(v, b.usn)
             u == ApplyGraves(w, buried, v.usn)
  <1>1. /\ b \in DeviceCollection(t) /\ w \in DeviceCollection(t) /\ v \in DeviceCollection(t)
        /\ d \in DeviceCollection(t)
        /\ b.usn \in Nat /\ v.usn \in Nat /\ b.usn <= v.usn
        /\ Whole(b, b.usn) /\ Whole(v, v.usn) /\ Whole(d, v.usn + 1) /\ Whole(w, v.usn + 1)
        /\ Kept(w, b, v)
    BY SettingFacts
  <1>2. buried = {o \in Objects : v.graves[o] >= b.usn} BY <1>1, PendingFrom
  <1>3. /\ Beside(u, w)
        /\ \A o \in Objects :
             /\ u.rows[o] = IF o \in buried THEN NoRow ELSE w.rows[o]
             /\ u.graves[o] = IF o \in buried /\ w.graves[o] = NoGrave THEN v.usn ELSE w.graves[o]
    BY <1>1, GravesApplied
  <1>4. PendingRows(d, Cards, b.usn) = {o \in Cards : Has(d, o) /\ d.rows[o].usn >= b.usn}
    BY <1>1, PendingFrom
  <1> HIDE DEF u, buried
  <1>5. ASSUME NEW o \in Objects
        PROVE  /\ Has(u, o) <=> u.graves[o] = NoGrave
               /\ Has(u, o) => u.rows[o].usn < v.usn + 1
               /\ u.graves[o] < v.usn + 1
    BY <1>1, <1>3 DEF Whole, Has, NoGrave
  <1>6. Whole(u, v.usn + 1) BY <1>5 DEF Whole
  <1>7. \A o \in Objects : Has(u, o) => u.rows[o] = b.rows[o] BY <1>3 DEF Has
  <1>8. ASSUME NEW o \in Objects
        PROVE  /\ Stale(b, v, o) \/ At(u, o) = At(b, o)
               /\ Has(u, o) => Has(b, o) /\ b.rows[o].at <= u.rows[o].at
               /\ Marked(u, o) => Marked(b, o)
    <2>1. o \in buried => Stale(b, v, o) BY <1>2 DEF Stale
    <2>2. o \notin buried => u.rows[o] = b.rows[o] BY <1>3
    <2>3. Has(b, o) => b.rows[o].at \in Nat BY <1>1, RowFacts
    <2> QED BY <1>7, <2>1, <2>2, <2>3 DEF At, Has, Marked
  <1>9. Kept(u, b, v) BY <1>8 DEF Kept
  <1>10. ASSUME NEW o \in Objects
        PROVE  Has(u, o) <=> Has(d, o)
    <2>1. Has(u, o) <=> Has(b, o) /\ ~(v.graves[o] >= b.usn) BY <1>2, <1>3 DEF Has
    <2>2. Has(d, o) <=> Has(v, o) /\ b.graves[o] # Unsent BY DEF GravesDone
    <2>3. /\ Has(b, o) <=> b.graves[o] = NoGrave
          /\ Has(v, o) <=> v.graves[o] = NoGrave
      BY <1>1 DEF Whole
    <2>4. /\ Has(b, o) /\ ~Has(v, o) => v.graves[o] >= b.usn
          /\ Has(v, o) /\ ~Has(b, o) => b.graves[o] = Unsent
      BY DEF Setting, Together
    <2> QED BY <1>1, <2>1, <2>2, <2>3, <2>4 DEF NoGrave, Unsent
  <1>11. ASSUME NEW o \in Cards, Has(u, o)
         PROVE  (o \in PendingRows(d, Cards, b.usn) /\ ToCome(u, d, o)) \/ WillAgree(u, d, o)
    <2>1. o \in Objects BY DEF Objects
    <2>2. /\ Has(d, o) /\ Has(v, o) /\ Has(b, o) /\ d.rows[o] = v.rows[o] /\ u.rows[o] = b.rows[o]
      BY <1>7, <1>8, <1>10, <1>11, <2>1 DEF GravesDone, Untouched
    <2>3. b.graves[o] = NoGrave /\ v.graves[o] = NoGrave BY <1>1, <2>1, <2>2 DEF Whole
    <2>4. /\ v.rows[o].usn >= b.usn \/ v.rows[o].at <= b.rows[o].at
          /\ Marked(b, o) \/ b.rows[o].at <= v.rows[o].at
      BY <1>1, <2>1, <2>2, <2>3 DEF Setting, Together, Stale, Dirty, NoGrave, Unsent
    <2>5. Marked(u, o) <=> Marked(b, o) BY <1>11, <2>2 DEF Marked
    <2>6. /\ At(u, o) = b.rows[o].at /\ At(d, o) = v.rows[o].at
          /\ b.rows[o].at \in Nat /\ v.rows[o].at \in Nat
      BY <1>1, <1>11, <2>1, <2>2, RowFacts DEF At
    <2>7. CASE v.rows[o].usn >= b.usn
      BY <1>4, <2>2, <2>4, <2>5, <2>7 DEF ToCome
    <2>8. CASE v.rows[o].at <= b.rows[o].at
      BY <2>2, <2>4, <2>5, <2>6, <2>8 DEF WillAgree
    <2> QED BY <2>4, <2>7, <2>8
  <1> QED BY <1>6, <1>7, <1>9, <1>10, <1>11, SettingFacts DEF Common, Present, CardsToCome, u, buried

LEMMA RowNumbered ==
    ASSUME NEW t \in Nat, NEW row \in MarkedRow(t), NEW usn \in Nat
    PROVE  LET new == WithNumber(row, usn) IN
           new # NoRow /\ new.at = row.at /\ new.usn = usn
  <1> DEFINE new == WithNumber(row, usn)
  <1>1. new \in AnyRow /\ new.at = row.at /\ new.usn = usn
    BY DEF MarkedRow, WithNumber, AnyRow
  <1> QED BY <1>1, SyncAssumption

\* The marked decks get a number and are sent.
LEMMA DecksNumbered ==
    ASSUME NEW t \in Nat, NEW b, NEW w, NEW v, NEW d, Setting(t, b, w, v, d),
           Present(w, d), Untouched(d, v, Objects),
           CardsToCome(w, d, PendingRows(d, Cards, b.usn)),
           \A o \in Objects : Has(w, o) => w.rows[o] = b.rows[o]
    PROVE  LET mine == PendingRows(w, Decks, Unsent)
               u == WithUsn(w, mine, v.usn) IN
           /\ Common(b, u, v, d) /\ Present(u, d) /\ Untouched(d, v, Cards)
           /\ CardsToCome(u, d, PendingRows(d, Cards, b.usn))
           /\ mine = {o \in Decks : Has(u, o) /\ Marked(b, o)}
           /\ \A o \in Decks : At(u, o) > 0 => At(u, o) = At(b, o)
           /\ \A o \in Decks : Has(u, o) /\ Marked(b, o) => u.rows[o].usn = v.usn
  <1> DEFINE mine == PendingRows(w, Decks, Unsent)
             u == WithUsn(w, mine, v.usn)
  <1>1. /\ b \in DeviceCollection(t) /\ w \in DeviceCollection(t) /\ v \in DeviceCollection(t)
        /\ d \in DeviceCollection(t)
        /\ b.usn \in Nat /\ v.usn \in Nat /\ b.usn <= v.usn
        /\ Whole(b, b.usn) /\ Whole(v, v.usn) /\ Whole(d, v.usn + 1) /\ Whole(w, v.usn + 1)
        /\ Kept(w, b, v)
    BY SettingFacts
  <1>2. mine = {o \in Decks : Marked(w, o)} BY PendingIsMarked
  <1>3. /\ Beside(u, w) /\ u.graves = w.graves
        /\ \A o \in Objects :
             /\ o \notin mine => u.rows[o] = w.rows[o]
             /\ o \in mine => u.rows[o] = WithNumber(w.rows[o], v.usn)
    BY <1>1, RowsNumbered
  <1> HIDE DEF u, mine
  <1>4. ASSUME NEW o \in Objects
        PROVE  /\ Has(u, o) <=> Has(w, o)
               /\ Has(u, o) => /\ u.rows[o].at = w.rows[o].at
                               /\ u.rows[o].usn = IF o \in mine THEN v.usn ELSE w.rows[o].usn
               /\ At(u, o) = At(w, o)
    <2>1. CASE o \notin mine BY <1>3, <2>1 DEF Has, At
    <2>2. CASE o \in mine
      <3>1. Has(w, o) BY <1>2, <2>2 DEF Marked
      <3>2. w.rows[o] \in MarkedRow(t) BY <1>1, <3>1, RowFacts
      <3>3. u.rows[o] # NoRow /\ u.rows[o].at = w.rows[o].at /\ u.rows[o].usn = v.usn
        BY <1>1, <1>3, <2>2, <3>2, RowNumbered
      <3>4. Has(u, o) BY <3>3 DEF Has
      <3> QED BY <2>2, <3>1, <3>3, <3>4 DEF At
    <2> QED BY <2>1, <2>2
  <1>5. ASSUME NEW o \in Objects
        PROVE  Marked(u, o) <=> Marked(w, o) /\ o \notin mine
    BY <1>1, <1>4 DEF Marked, Unsent
  <1>6. Common(b, u, v, d)
    <2>1. Whole(u, v.usn + 1) BY <1>1, <1>3, <1>4 DEF Whole
    <2>2. Kept(u, b, v) BY <1>1, <1>4, <1>5 DEF Kept
    <2> QED BY <2>1, <2>2, SettingFacts DEF Common
  <1>7. Present(u, d) BY <1>4 DEF Present
  <1>8. Untouched(d, v, Cards) BY DEF Untouched, Objects
  <1>9. ASSUME NEW o \in Cards, Has(u, o)
        PROVE  (o \in PendingRows(d, Cards, b.usn) /\ ToCome(u, d, o)) \/ WillAgree(u, d, o)
    <2>1. o \in Objects /\ o \notin mine BY <1>2, SyncAssumption DEF Objects
    <2>2. u.rows[o] = w.rows[o] BY <1>3, <2>1
    <2> QED BY <1>9, <2>2 DEF CardsToCome, ToCome, WillAgree, At, Marked, Has
  <1>10. mine = {o \in Decks : Has(u, o) /\ Marked(b, o)}
    <2>1. ASSUME NEW o \in Decks PROVE o \in mine <=> Has(u, o) /\ Marked(b, o)
      BY <1>2, <1>4 DEF Marked, Has, Objects
    <2> QED BY <1>2, <2>1
  <1>11. \A o \in Decks : At(u, o) > 0 => At(u, o) = At(b, o)
    <2>1. ASSUME NEW o \in Objects, At(u, o) > 0 PROVE At(u, o) = At(b, o)
      <3>1. Has(w, o) BY <1>1, <1>4, <2>1, RowFacts
      <3> QED BY <1>4, <3>1 DEF At, Has
    <2> QED BY <2>1 DEF Objects
  <1>12. \A o \in Decks : Has(u, o) /\ Marked(b, o) => u.rows[o].usn = v.usn
    BY <1>4, <1>10 DEF Objects
  <1> QED BY <1>6, <1>7, <1>8, <1>9, <1>10, <1>11, <1>12 DEF CardsToCome, u, mine

-----------------------------------------------------------------------------
(* Changes: decks and the configuration.                                   *)

\* A deck that both have, before either has merged the other's
LEMMA SharedRow ==
    ASSUME NEW t \in Nat, NEW b, NEW w, NEW v, NEW d, Setting(t, b, w, v, d),
           NEW o \in Objects, Has(w, o), Has(v, o)
    PROVE  /\ Has(b, o) /\ b.graves[o] = NoGrave /\ v.graves[o] = NoGrave
           /\ w.graves[o] = NoGrave
           /\ Stale(b, v, o) <=> v.rows[o].usn >= b.usn
           /\ Dirty(b, o) <=> Marked(b, o)
           /\ v.rows[o].usn >= b.usn \/ v.rows[o].at <= b.rows[o].at
           /\ Marked(b, o) \/ b.rows[o].at <= v.rows[o].at
           /\ b.rows[o].at <= w.rows[o].at
           /\ v.rows[o].usn >= b.usn \/ w.rows[o].at = b.rows[o].at
           /\ v.rows[o].usn < v.usn
  <1>1. Has(b, o) /\ b.rows[o].at <= w.rows[o].at BY SettingFacts DEF Kept
  <1>2. b.graves[o] = NoGrave /\ v.graves[o] = NoGrave /\ w.graves[o] = NoGrave
    BY <1>1, SettingFacts DEF Whole
  <1>3. b.usn \in Nat BY SettingFacts
  <1>4. Stale(b, v, o) <=> v.rows[o].usn >= b.usn BY <1>2, <1>3 DEF Stale, NoGrave
  <1>5. Dirty(b, o) <=> Marked(b, o) BY <1>2 DEF Dirty, NoGrave, Unsent
  <1>6. /\ Stale(b, v, o) \/ v.rows[o].at <= b.rows[o].at
        /\ Dirty(b, o) \/ b.rows[o].at <= v.rows[o].at
    BY <1>1 DEF Setting, Together
  <1>7. Stale(b, v, o) \/ w.rows[o].at = b.rows[o].at BY <1>1, SettingFacts DEF Kept, At
  <1>8. v.rows[o].usn < v.usn BY SettingFacts DEF Whole
  <1> QED BY <1>1, <1>2, <1>4, <1>5, <1>6, <1>7, <1>8

LEMMA ChangesServed ==
    ASSUME MsPerSec = 1, NEW t \in Nat,
           NEW b, NEW w, NEW v, NEW d, Setting(t, b, w, v, d), NEW s, NEW asks, NEW body \in asks,
           Present(w, d), Untouched(d, v, Cards), s.newer \in BOOLEAN,
           CardsToCome(w, d, PendingRows(d, Cards, b.usn)), DecksSent(b, w, v, d, s, asks)
    PROVE  LET u == ApplyChanges(d, body) IN
           /\ Common(b, w, v, u) /\ Present(w, u) /\ Untouched(u, v, Cards)
           /\ CardsToCome(w, u, PendingRows(u, Cards, b.usn))
           /\ DecksToCome(b, w, v, u, s, Changes(d, b.usn, ~s.newer))
  <1> DEFINE u == ApplyChanges(d, body)
             e == Changes(d, b.usn, ~s.newer)
             mine == {o \in Decks : Has(w, o) /\ Marked(b, o)}
             theirs == PendingRows(d, Decks, b.usn)
  <1>1. /\ b \in DeviceCollection(t) /\ w \in DeviceCollection(t) /\ v \in DeviceCollection(t)
        /\ d \in DeviceCollection(t)
        /\ b.usn \in Nat /\ v.usn \in Nat /\ b.usn <= v.usn
        /\ Whole(b, b.usn) /\ Whole(v, v.usn) /\ Whole(d, v.usn + 1) /\ Whole(w, v.usn + 1)
        /\ Moved(d, v, b) /\ Kept(w, b, v)
    BY SettingFacts
  <1>2. /\ body.decks = Entries(w, mine) /\ body.conf = IF s.newer THEN w.conf ELSE Unsent
        /\ Untouched(d, v, Decks)
        /\ \A o \in Decks : At(w, o) > 0 => At(w, o) = At(b, o)
        /\ \A o \in mine : w.rows[o].usn = v.usn
    BY DEF DecksSent
  <1>3. DOMAIN body.decks = mine /\ \A o \in mine : body.decks[o] = w.rows[o]
    BY <1>2 DEF Entries
  <1>4. /\ DOMAIN e.decks = theirs /\ \A o \in theirs : e.decks[o] = d.rows[o]
        /\ e.conf = IF s.newer THEN Unsent ELSE d.conf
    BY DEF Changes, Entries
  <1>5. theirs = {o \in Decks : Has(d, o) /\ d.rows[o].usn >= b.usn} BY <1>1, PendingFrom
  <1>6. /\ Beside(u, d) /\ u.graves = d.graves
        /\ u.conf = IF body.conf = Unsent THEN d.conf ELSE body.conf
        /\ \A o \in Objects :
             u.rows[o] = IF o \in mine /\ (~Has(d, o) \/ DeckProceeds(d.rows[o], w.rows[o]))
                         THEN w.rows[o] ELSE d.rows[o]
    <2>1. d \in DeviceCollection(t) BY <1>1
    <2>2. /\ Beside(u, d) /\ u.graves = d.graves
          /\ u.conf = IF body.conf = Unsent THEN d.conf ELSE body.conf
          /\ \A o \in Objects :
               u.rows[o] = IF o \in DOMAIN body.decks
                              /\ (~Has(d, o) \/ DeckProceeds(d.rows[o], body.decks[o]))
                           THEN body.decks[o] ELSE d.rows[o]
      BY <2>1, ChangesTaken
    <2> QED BY <1>3, <2>2
  <1>7. w.conf \in Nat /\ w.conf # Unsent /\ d.conf # Unsent
    BY <1>1 DEF DeviceCollection, Collection, Unsent
  <1> HIDE DEF u, e, mine, theirs
  <1>8. \A o \in Cards : o \in Objects /\ o \notin mine /\ u.rows[o] = d.rows[o]
    BY <1>6, SyncAssumption DEF mine, Objects
  \* A deck that is sent is there on both sides; the later of the two stays.
  <1>9. ASSUME NEW o \in mine
        PROVE  /\ o \in Objects /\ Has(w, o) /\ Has(d, o) /\ Has(v, o) /\ Marked(b, o)
               /\ d.rows[o] = v.rows[o] /\ Has(u, o)
               /\ u.rows[o] = IF v.rows[o].at <= w.rows[o].at THEN w.rows[o] ELSE v.rows[o]
    <2>1. o \in Objects /\ Has(w, o) /\ o \in Decks /\ Marked(b, o) BY DEF mine, Objects
    <2>2. Has(d, o) BY <2>1 DEF Present
    <2>3. d.rows[o] = v.rows[o] /\ Has(v, o) BY <1>2, <2>1, <2>2 DEF Untouched, Has
    <2>4. DeckProceeds(d.rows[o], w.rows[o]) <=> v.rows[o].at <= w.rows[o].at
      BY <1>1, <2>1, <2>3, RowFacts, OneTick DEF DeckProceeds
    <2> QED BY <1>6, <2>1, <2>2, <2>3, <2>4 DEF Has
  <1>10. \A o \in Objects : o \notin mine => u.rows[o] = d.rows[o] BY <1>6
  <1>11. Present(w, u)
    BY <1>9, <1>10 DEF Present, Has
  <1>12. Whole(u, v.usn + 1)
    <2>1. ASSUME NEW o \in Objects
          PROVE  /\ Has(u, o) <=> u.graves[o] = NoGrave
                 /\ Has(u, o) => u.rows[o].usn < v.usn + 1
                 /\ u.graves[o] < v.usn + 1
      <3>1. CASE o \notin mine BY <1>1, <1>6, <1>10, <3>1 DEF Whole, Has
      <3>2. CASE o \in mine
        <4>1. u.graves[o] = NoGrave /\ u.graves[o] < v.usn + 1
          BY <1>1, <1>6, <1>9, <3>2 DEF Whole
        <4>2. v.rows[o].usn < v.usn /\ w.rows[o].usn = v.usn
          BY <1>1, <1>2, <1>9, <3>2 DEF Whole
        <4>3. v.rows[o].usn \in Int BY <1>1, <1>9, <3>2, RowFacts
        <4> QED BY <1>1, <1>9, <3>2, <4>1, <4>2, <4>3
      <3> QED BY <3>1, <3>2
    <2> QED BY <2>1 DEF Whole
  <1>13. Moved(u, v, b)
    <2>1. ASSUME NEW o \in Objects
          PROVE  \/ u.rows[o] = v.rows[o] /\ u.graves[o] = v.graves[o]
                 \/ /\ Dirty(b, o) /\ Has(v, o)
                    /\ \/ Has(u, o) /\ u.rows[o].usn = v.usn /\ u.rows[o].at >= v.rows[o].at
                       \/ ~Has(u, o) /\ u.graves[o] = v.usn
      <3>1. CASE o \notin mine BY <1>1, <1>6, <1>10, <3>1 DEF Moved, Has
      <3>2. CASE o \in mine
        <4>1. u.graves[o] = v.graves[o] BY <1>1, <1>6, <1>9, <3>2 DEF Whole
        <4>2. v.rows[o].at \in Nat /\ w.rows[o].at \in Nat BY <1>1, <1>9, <3>2, RowFacts
        <4> QED BY <1>2, <1>9, <3>2, <4>1, <4>2 DEF Dirty
      <3> QED BY <3>1, <3>2
    <2> QED BY <1>1, <1>6, <2>1 DEF Moved, Beside
  <1>14. Untouched(u, v, Cards) BY <1>8 DEF Untouched, Has
  <1>15. CardsToCome(w, u, PendingRows(u, Cards, b.usn))
    <2>1. PendingRows(u, Cards, b.usn) = PendingRows(d, Cards, b.usn)
      BY <1>8 DEF PendingRows, Has
    <2> QED BY <1>8, <2>1 DEF CardsToCome, ToCome, WillAgree, At, Has
  <1>16. DecksToCome(b, w, v, u, s, e)
    <2>1. IF s.newer THEN e.conf = Unsent /\ u.conf = w.conf ELSE e.conf = u.conf
      BY <1>2, <1>4, <1>6, <1>7
    <2>2. ASSUME NEW o \in Decks, Has(w, o)
          PROVE  /\ d.rows[o] = v.rows[o] /\ Has(v, o) /\ Has(d, o) /\ o \in Objects
                 /\ w.rows[o].at = b.rows[o].at
                 /\ At(u, o) = IF Marked(b, o) /\ v.rows[o].at <= w.rows[o].at
                               THEN w.rows[o].at ELSE v.rows[o].at
      <3>1. o \in Objects BY DEF Objects
      <3>2. Has(d, o) BY <2>2, <3>1 DEF Present
      <3>3. d.rows[o] = v.rows[o] /\ Has(v, o) BY <1>2, <3>2 DEF Untouched, Has
      <3>4. w.rows[o].at = b.rows[o].at
        <4>1. At(w, o) > 0 /\ At(w, o) = w.rows[o].at BY <1>1, <2>2, <3>1, RowFacts
        <4>2. Has(b, o) BY <1>1, <2>2, <3>1 DEF Kept
        <4>3. At(b, o) = b.rows[o].at BY <4>2 DEF At
        <4> QED BY <1>2, <4>1, <4>3
      <3>5. CASE Marked(b, o)
        <4>1. o \in mine BY <2>2, <3>5 DEF mine
        <4> QED BY <1>9, <3>1, <3>2, <3>3, <3>4, <3>5, <4>1 DEF At
      <3>6. CASE ~Marked(b, o)
        <4>1. u.rows[o] = d.rows[o] BY <1>10, <3>1, <3>6 DEF mine
        <4> QED BY <3>1, <3>2, <3>3, <3>4, <3>6, <4>1 DEF At, Has
      <3> QED BY <3>5, <3>6
    <2>3. ASSUME NEW o \in Decks, o \in theirs
          PROVE  Has(w, o) /\ Stale(b, v, o) /\ e.decks[o] \in {v.rows[o]} \ {NoRow}
      <3>1. o \in Objects /\ Has(d, o) /\ d.rows[o].usn >= b.usn BY <1>5, <2>3 DEF Objects
      <3>2. Has(w, o) BY <3>1 DEF Present
      <3> QED BY <1>4, <2>2, <2>3, <3>1, <3>2 DEF Stale, Has
    <2>4. ASSUME NEW o \in Decks, Has(w, o)
          PROVE  At(u, o) = IF o \in theirs /\ w.rows[o].at <= e.decks[o].at
                            THEN e.decks[o].at ELSE w.rows[o].at
      <3>1. /\ d.rows[o] = v.rows[o] /\ Has(v, o) /\ Has(d, o) /\ o \in Objects
            /\ w.rows[o].at = b.rows[o].at
            /\ At(u, o) = IF Marked(b, o) /\ v.rows[o].at <= w.rows[o].at
                          THEN w.rows[o].at ELSE v.rows[o].at
        BY <2>2, <2>4
      <3>2. /\ v.rows[o].usn >= b.usn \/ v.rows[o].at <= b.rows[o].at
            /\ Marked(b, o) \/ b.rows[o].at <= v.rows[o].at
        BY <2>4, <3>1, SharedRow
      <3>3. v.rows[o].at \in Nat /\ w.rows[o].at \in Nat BY <1>1, <2>4, <3>1, RowFacts
      <3>4. o \in theirs <=> v.rows[o].usn >= b.usn BY <1>5, <3>1
      <3>5. o \in theirs => e.decks[o] = v.rows[o] BY <1>4, <3>1
      <3> QED BY <3>1, <3>2, <3>3, <3>4, <3>5
    <2>5. DOMAIN e.decks \subseteq Decks BY <1>4, <1>5
    <2> QED BY <1>4, <2>1, <2>3, <2>4, <2>5 DEF DecksToCome
  <1> QED BY <1>11, <1>12, <1>13, <1>14, <1>15, <1>16, <1>1 DEF Common, u, e

LEMMA ChangesMerged ==
    ASSUME MsPerSec = 1, NEW t \in Nat,
           NEW b, NEW w, NEW v, NEW d, Setting(t, b, w, v, d), NEW s, NEW e,
           Present(w, d), Untouched(d, v, Cards), s.newer \in BOOLEAN,
           CardsToCome(w, d, PendingRows(d, Cards, b.usn)), DecksToCome(b, w, v, d, s, e)
    PROVE  LET u == ApplyChanges(w, e) IN
           /\ Common(b, u, v, d) /\ Present(u, d) /\ u.conf = d.conf
           /\ Alike(u, d, Decks) /\ CardsToCome(u, d, PendingRows(d, Cards, b.usn))
  <1> DEFINE u == ApplyChanges(w, e)
  <1>1. /\ b \in DeviceCollection(t) /\ w \in DeviceCollection(t) /\ v \in DeviceCollection(t)
        /\ d \in DeviceCollection(t)
        /\ b.usn \in Nat /\ v.usn \in Nat /\ b.usn <= v.usn
        /\ Whole(b, b.usn) /\ Whole(v, v.usn) /\ Whole(d, v.usn + 1) /\ Whole(w, v.usn + 1)
        /\ Moved(d, v, b) /\ Kept(w, b, v)
    BY SettingFacts
  <1>2. /\ Beside(u, w) /\ u.graves = w.graves
        /\ u.conf = IF e.conf = Unsent THEN w.conf ELSE e.conf
        /\ \A o \in Objects :
             u.rows[o] = IF o \in DOMAIN e.decks
                            /\ (~Has(w, o) \/ DeckProceeds(w.rows[o], e.decks[o]))
                         THEN e.decks[o] ELSE w.rows[o]
    <2>1. w \in DeviceCollection(t) BY <1>1
    <2> QED BY <2>1, ChangesTaken
  <1>3. u.conf = d.conf
    <2>1. d.conf # Unsent BY <1>1 DEF DeviceCollection, Collection, Unsent
    <2> QED BY <1>2, <2>1 DEF DecksToCome
  <1> HIDE DEF u
  <1>4. DOMAIN e.decks \subseteq Decks BY DEF DecksToCome
  <1>5. ASSUME NEW o \in DOMAIN e.decks
        PROVE  /\ o \in Decks /\ o \in Objects /\ Has(w, o) /\ Has(v, o) /\ Stale(b, v, o)
               /\ e.decks[o] = v.rows[o] /\ Has(u, o)
               /\ u.rows[o] = IF w.rows[o].at <= v.rows[o].at THEN v.rows[o] ELSE w.rows[o]
    <2>1. /\ o \in Decks /\ o \in Objects /\ Has(w, o) /\ Has(v, o) /\ Stale(b, v, o)
          /\ e.decks[o] = v.rows[o]
      BY <1>4 DEF DecksToCome, Objects, Has
    <2>2. DeckProceeds(w.rows[o], e.decks[o]) <=> w.rows[o].at <= v.rows[o].at
      BY <1>1, <2>1, RowFacts, OneTick DEF DeckProceeds
    <2> QED BY <1>2, <2>1, <2>2 DEF Has
  <1>6. \A o \in Objects : o \notin DOMAIN e.decks => u.rows[o] = w.rows[o] BY <1>2
  <1>7. \A o \in Cards : o \in Objects /\ u.rows[o] = w.rows[o]
    BY <1>4, <1>6, SyncAssumption DEF Objects
  <1>8. Present(u, d) BY <1>5, <1>6 DEF Present, Has
  <1>9. Whole(u, v.usn + 1)
    <2>1. ASSUME NEW o \in Objects
          PROVE  /\ Has(u, o) <=> u.graves[o] = NoGrave
                 /\ Has(u, o) => u.rows[o].usn < v.usn + 1
                 /\ u.graves[o] < v.usn + 1
      <3>1. CASE o \notin DOMAIN e.decks BY <1>1, <1>2, <1>6, <3>1 DEF Whole, Has
      <3>2. CASE o \in DOMAIN e.decks
        <4>1. u.graves[o] = NoGrave /\ u.graves[o] < v.usn + 1 /\ w.rows[o].usn < v.usn + 1
          BY <1>1, <1>2, <1>5, <3>2 DEF Whole
        <4>2. v.rows[o].usn < v.usn BY <1>1, <1>5, <3>2 DEF Whole
        <4>3. v.rows[o].usn \in Int BY <1>1, <1>5, <3>2, RowFacts
        <4> QED BY <1>1, <1>5, <3>2, <4>1, <4>2, <4>3
      <3> QED BY <3>1, <3>2
    <2> QED BY <2>1 DEF Whole
  <1>10. Kept(u, b, v)
    <2>1. ASSUME NEW o \in Objects
          PROVE  /\ Stale(b, v, o) \/ At(u, o) = At(b, o)
                 /\ Has(u, o) => Has(b, o) /\ b.rows[o].at <= u.rows[o].at
                 /\ Marked(u, o) => Marked(b, o)
      <3>1. CASE o \notin DOMAIN e.decks
        BY <1>1, <1>6, <3>1 DEF Kept, At, Has, Marked
      <3>2. CASE o \in DOMAIN e.decks
        <4>1. Has(b, o) /\ b.rows[o].at <= w.rows[o].at /\ (Marked(w, o) => Marked(b, o))
          BY <1>1, <1>5, <3>2 DEF Kept
        <4>2. v.rows[o].at \in Nat /\ w.rows[o].at \in Nat /\ b.rows[o].at \in Nat
          BY <1>1, <1>5, <3>2, <4>1, RowFacts
        <4>3. ~Marked(v, o) BY <1>5, <3>2, SettingFacts, SentRowFacts
        <4> QED BY <1>5, <3>2, <4>1, <4>2, <4>3 DEF Marked, Has
      <3> QED BY <3>1, <3>2
    <2> QED BY <2>1 DEF Kept
  <1>11. Alike(u, d, Decks)
    <2>1. ASSUME NEW o \in Decks PROVE At(u, o) = At(d, o)
      <3>1. o \in Objects BY DEF Objects
      <3>2. CASE ~Has(w, o)
        BY <1>5, <1>6, <3>1, <3>2 DEF Present, At, Has
      <3>3. CASE Has(w, o)
        <4>1. At(d, o) = IF o \in DOMAIN e.decks /\ w.rows[o].at <= e.decks[o].at
                         THEN e.decks[o].at ELSE w.rows[o].at
          BY <3>3 DEF DecksToCome
        <4> QED BY <1>5, <1>6, <3>1, <3>3, <4>1 DEF At, Has
      <3> QED BY <3>2, <3>3
    <2> QED BY <2>1 DEF Alike
  <1>12. CardsToCome(u, d, PendingRows(d, Cards, b.usn))
    BY <1>7 DEF CardsToCome, ToCome, WillAgree, At, Has, Marked
  <1> QED BY <1>3, <1>8, <1>9, <1>10, <1>11, <1>12, SettingFacts DEF Common, u

-----------------------------------------------------------------------------
(* Chunks: cards.                                                          *)

MarkedCards(col) == {o \in Cards : Marked(col, o)}

\* The ids of the chunks still to come
StillToGather(b, d, ss) == IF ss.ids = {Unsent} THEN PendingRows(d, Cards, b.usn) ELSE ss.ids

LEMMA ChunkServed ==
    ASSUME NEW t \in Nat, NEW b, NEW w, NEW v, NEW d, Setting(t, b, w, v, d), NEW s, NEW a, NEW ss,
           AtChunk(b, w, s, a, v, d, ss), ~Got(a),
           NEW ids, ids = StillToGather(b, d, ss), NEW take \in ChunksOf(ids),
           NEW rest, rest.ids = ids \ take,
           NEW e, Got(e), e.cards = Entries(d, take), e.last = IsLast(take)
    PROVE  AtChunk(b, w, s, e, v, d, rest)
  <1>1. PendingRows(d, Cards, b.usn) \subseteq Cards BY DEF PendingRows
  <1>2. ids \subseteq PendingRows(d, Cards, b.usn) BY DEF AtChunk, StillToGather
  <1>3. ids \in SUBSET Objects BY <1>1, <1>2 DEF Objects
  <1>4. take \subseteq ids /\ (IsLast(take) => ids \ take = {}) BY <1>3, LastChunk
  <1>5. rest.ids # {Unsent} BY <1>1, <1>2, SyncAssumption DEF Unsent
  <1>6. DOMAIN e.cards = take /\ \A o \in take : e.cards[o] = d.rows[o] BY DEF Entries
  <1>7. Coming(b, e, d, rest) = ids BY <1>4, <1>5, <1>6 DEF Coming
  <1>8. Coming(b, a, d, ss) = ids BY DEF Coming, StillToGather
  <1>9. rest.ids \subseteq PendingRows(d, Cards, b.usn) BY <1>2
  <1> QED BY <1>2, <1>4, <1>6, <1>7, <1>8, <1>9 DEF AtChunk

\* A card that arrives is one the server has left alone; of two the later stays, and a
\* card that is not marked is never the later.
LEMMA ChunkMerged ==
    ASSUME MsPerSec = 1, NEW t \in Nat,
           NEW b, NEW w, NEW v, NEW d, Setting(t, b, w, v, d), NEW s, NEW a, NEW ss,
           AtChunk(b, w, s, a, v, d, ss), Got(a)
    PROVE  LET u == MergeCards(w, a.cards, Unsent) IN
           /\ Common(b, u, v, d) /\ Present(u, d) /\ u.conf = d.conf /\ Alike(u, d, Decks)
           /\ CardsToCome(u, d, StillToGather(b, d, ss))
  <1> DEFINE u == MergeCards(w, a.cards, Unsent)
             sent == DOMAIN a.cards
  <1>1. /\ b \in DeviceCollection(t) /\ w \in DeviceCollection(t) /\ v \in DeviceCollection(t)
        /\ d \in DeviceCollection(t) /\ d \in ServerCollection(t)
        /\ b.usn \in Nat /\ v.usn \in Nat
        /\ Whole(d, v.usn + 1) /\ Whole(w, v.usn + 1) /\ Kept(w, b, v)
    BY SettingFacts
  <1>2. sent \subseteq PendingRows(d, Cards, b.usn) /\ \A o \in sent : a.cards[o] = d.rows[o]
    BY DEF AtChunk
  <1>3. /\ Beside(u, w) /\ u.conf = w.conf /\ u.graves = w.graves
        /\ \A o \in Objects :
             u.rows[o] = IF o \in sent
                            /\ (~Has(w, o) \/ CardProceeds(Unsent, w.rows[o], a.cards[o]))
                         THEN a.cards[o] ELSE w.rows[o]
    <2>1. w \in DeviceCollection(t) BY <1>1
    <2> QED BY <2>1, CardsTaken
  <1>4. PendingRows(d, Cards, b.usn) = {o \in Cards : Has(d, o) /\ d.rows[o].usn >= b.usn}
    BY <1>1, PendingFrom
  <1> HIDE DEF u, sent
  <1>5. ASSUME NEW o \in sent
        PROVE  /\ o \in Cards /\ o \in Objects /\ Has(d, o) /\ Has(w, o) /\ Has(u, o)
               /\ Stale(b, v, o)
               /\ u.rows[o] = IF ~Marked(w, o) \/ w.rows[o].at < d.rows[o].at
                              THEN d.rows[o] ELSE w.rows[o]
    <2>1. o \in Cards /\ o \in Objects /\ Has(d, o) /\ d.rows[o].usn >= b.usn
      BY <1>2, <1>4 DEF Objects
    <2>2. Has(w, o) BY <2>1 DEF AtChunk, Present
    <2>3. Has(v, o) /\ v.rows[o] = d.rows[o] BY <2>1 DEF AtChunk, Untouched, Has
    <2>4. a.cards[o] = d.rows[o] BY <1>2
    <2>5. w.rows[o].at \in Nat /\ d.rows[o].at \in Nat BY <1>1, <2>1, <2>2, RowFacts
    <2>6. CardProceeds(Unsent, w.rows[o], d.rows[o])
            <=> ~Marked(w, o) \/ w.rows[o].at < d.rows[o].at
      BY <2>2, <2>5, OneTick DEF CardProceeds, IsPending, Marked
    <2>7. u.rows[o] = IF ~Marked(w, o) \/ w.rows[o].at < d.rows[o].at
                      THEN d.rows[o] ELSE w.rows[o]
      BY <1>3, <2>1, <2>2, <2>4, <2>6
    <2> QED BY <2>1, <2>2, <2>3, <2>7 DEF Stale, Has
  <1>6. \A o \in Objects : o \notin sent => u.rows[o] = w.rows[o] BY <1>3
  <1>7. \A o \in Decks : o \in Objects /\ u.rows[o] = w.rows[o]
    BY <1>5, <1>6, SyncAssumption DEF Objects
  <1>8. \A o \in Objects : Has(u, o) <=> Has(w, o) BY <1>5, <1>6 DEF Has
  <1>9. Whole(u, v.usn + 1)
    <2>1. ASSUME NEW o \in Objects
          PROVE  /\ Has(u, o) <=> u.graves[o] = NoGrave
                 /\ Has(u, o) => u.rows[o].usn < v.usn + 1
                 /\ u.graves[o] < v.usn + 1
      <3>1. u.rows[o] = w.rows[o] \/ (u.rows[o] = d.rows[o] /\ Has(d, o)) BY <1>5, <1>6
      <3> QED BY <1>1, <1>3, <1>8, <3>1 DEF Whole
    <2> QED BY <2>1 DEF Whole
  <1>10. ASSUME NEW o \in sent
        PROVE  /\ Has(b, o) /\ b.rows[o].at <= u.rows[o].at
               /\ Marked(u, o) => Marked(b, o)
               /\ WillAgree(u, d, o)
    <2>1. /\ o \in Cards /\ o \in Objects /\ Has(d, o) /\ Has(w, o) /\ Has(u, o)
          /\ u.rows[o] = IF ~Marked(w, o) \/ w.rows[o].at < d.rows[o].at
                         THEN d.rows[o] ELSE w.rows[o]
      BY <1>5
    <2>2. Has(b, o) /\ b.rows[o].at <= w.rows[o].at /\ (Marked(w, o) => Marked(b, o))
      BY <1>1, <2>1 DEF Kept
    <2>3. /\ w.rows[o].at \in Nat /\ d.rows[o].at \in Nat /\ b.rows[o].at \in Nat
          /\ At(w, o) = w.rows[o].at /\ At(d, o) = d.rows[o].at
      BY <1>1, <2>1, <2>2, RowFacts
    <2>4. ToCome(w, d, o) \/ WillAgree(w, d, o)
      BY <2>1 DEF AtChunk, CardsToCome
    <2>5. Marked(w, o) \/ w.rows[o].at <= d.rows[o].at
      BY <2>3, <2>4 DEF ToCome, WillAgree
    <2>6. ~Marked(d, o) BY <1>1, <2>1, SentRowFacts
    <2>7. CASE ~Marked(w, o) \/ w.rows[o].at < d.rows[o].at
      BY <2>1, <2>2, <2>3, <2>5, <2>6, <2>7 DEF Marked, WillAgree, At, Has
    <2>8. CASE ~(~Marked(w, o) \/ w.rows[o].at < d.rows[o].at)
      BY <2>1, <2>2, <2>3, <2>5, <2>8 DEF Marked, WillAgree, At, Has
    <2> QED BY <2>7, <2>8
  <1>11. Kept(u, b, v)
    <2>1. ASSUME NEW o \in Objects
          PROVE  /\ Stale(b, v, o) \/ At(u, o) = At(b, o)
                 /\ Has(u, o) => Has(b, o) /\ b.rows[o].at <= u.rows[o].at
                 /\ Marked(u, o) => Marked(b, o)
      <3>1. CASE o \notin sent BY <1>1, <1>6, <3>1 DEF Kept, At, Has, Marked
      <3>2. CASE o \in sent BY <1>5, <1>10, <3>2
      <3> QED BY <3>1, <3>2
    <2> QED BY <2>1 DEF Kept
  <1>12. Present(u, d) BY <1>8 DEF AtChunk, Present
  <1>13. Alike(u, d, Decks) BY <1>7 DEF AtChunk, Alike, At, Has
  <1>14. ASSUME NEW o \in Cards, Has(u, o)
         PROVE  (o \in StillToGather(b, d, ss) /\ ToCome(u, d, o)) \/ WillAgree(u, d, o)
    <2>1. o \in Objects BY DEF Objects
    <2>2. CASE o \in sent BY <1>10, <2>2
    <2>3. CASE o \notin sent
      <3>1. u.rows[o] = w.rows[o] /\ Has(w, o) BY <1>6, <1>8, <1>14, <2>1, <2>3
      <3>2. (o \in Coming(b, a, d, ss) /\ ToCome(w, d, o)) \/ WillAgree(w, d, o)
        BY <3>1 DEF AtChunk, CardsToCome
      <3>3. o \in Coming(b, a, d, ss) => o \in StillToGather(b, d, ss)
        BY <2>3 DEF Coming, StillToGather, sent
      <3> QED BY <3>1, <3>2, <3>3 DEF ToCome, WillAgree, At, Has, Marked
    <2> QED BY <2>2, <2>3
  <1>15. u.conf = d.conf BY <1>3 DEF AtChunk
  <1> QED BY <1>9, <1>11, <1>12, <1>13, <1>14, <1>15, SettingFacts
          DEF Common, CardsToCome, u, sent

-----------------------------------------------------------------------------
\* The last chunk has come; any cards may be made anew.
LEMMA CardsMadeAnew ==
    ASSUME NEW t \in Nat, Now \in Nat,
           NEW b, NEW w, NEW v, NEW d, Setting(t, b, w, v, d),
           Present(w, d), w.conf = d.conf, Alike(w, d, Decks), CardsToCome(w, d, {}),
           NEW fix, fix \subseteq {o \in Cards : Has(w, o)}, fix # {} => Now > t
    PROVE  LET u == Reconciled(w, fix) IN
           /\ Loose(b, u, v, d) /\ Present(u, d) /\ u.conf = d.conf /\ Alike(u, d, Decks)
           /\ CardsToSend(u, d, MarkedCards(u))
  <1> DEFINE u == Reconciled(w, fix)
             anew == [at |-> Now, usn |-> Unsent]
  <1>1. /\ b \in DeviceCollection(t) /\ w \in DeviceCollection(t) /\ v \in DeviceCollection(t)
        /\ d \in DeviceCollection(t) /\ v.usn \in Nat
        /\ Whole(w, v.usn + 1) /\ Kept(w, b, v)
    BY SettingFacts
  <1>2. /\ Beside(u, w) /\ u.conf = w.conf /\ u.graves = w.graves
        /\ \A o \in Objects : u.rows[o] = IF o \in fix THEN anew ELSE w.rows[o]
    <2>1. w \in DeviceCollection(t) BY <1>1
    <2> QED BY <2>1, CardsReconciled
  <1>3. anew # NoRow /\ anew.at = Now /\ anew.usn = Unsent
    <2>1. anew \in AnyRow BY DEF Unsent, AnyRow
    <2> QED BY <2>1, SyncAssumption
  <1> HIDE DEF u, anew
  <1>4. ASSUME NEW o \in Objects
        PROVE  /\ Has(u, o) <=> Has(w, o)
               /\ o \in fix => /\ Has(u, o) /\ Marked(u, o) /\ At(u, o) = Now /\ u.rows[o] = anew
               /\ o \notin fix => u.rows[o] = w.rows[o]
    BY <1>2, <1>3 DEF Has, Marked, At
  <1>5. Whole(u, v.usn + 1)
    <2>1. ASSUME NEW o \in Objects, Has(u, o) PROVE u.rows[o].usn < v.usn + 1
      <3>1. o \in fix => u.rows[o].usn = -1 BY <1>3, <1>4 DEF Unsent
      <3>2. o \notin fix => u.rows[o].usn < v.usn + 1 BY <1>1, <1>4, <2>1 DEF Whole
      <3> QED BY <1>1, <3>1, <3>2
    <2> QED BY <1>1, <1>2, <1>4, <2>1 DEF Whole
  <1>6. ASSUME NEW o \in fix
        PROVE  /\ o \in Objects /\ Has(b, o) /\ b.rows[o].at <= Now /\ At(d, o) < Now /\ Has(d, o)
    <2>1. o \in Objects /\ Has(w, o) BY DEF Objects
    <2>2. Has(b, o) /\ Has(d, o) BY <1>1, <2>1 DEF Kept, Present
    <2>3. /\ b.rows[o].at <= t /\ b.rows[o].at \in Nat /\ At(d, o) <= t /\ At(d, o) \in Nat
          /\ Now > t
      BY <1>1, <2>1, <2>2, RowFacts
    <2> QED BY <2>1, <2>2, <2>3
  <1>7. Grown(u, b)
    <2>1. ASSUME NEW o \in Objects, Has(u, o)
          PROVE  Has(b, o) /\ b.rows[o].at <= u.rows[o].at
      <3>1. CASE o \notin fix BY <1>1, <1>4, <2>1, <3>1 DEF Kept, Has
      <3>2. CASE o \in fix BY <1>3, <1>4, <1>6, <3>2
      <3> QED BY <3>1, <3>2
    <2> QED BY <2>1 DEF Grown
  <1>8. Present(u, d) BY <1>4 DEF Present
  <1>9. Alike(u, d, Decks)
    <2>1. \A o \in Decks : o \in Objects /\ o \notin fix BY SyncAssumption DEF Objects
    <2> QED BY <1>4, <2>1 DEF Alike, At, Has
  <1>10. ASSUME NEW o \in Cards, Has(u, o)
        PROVE  At(u, o) = At(d, o) \/ (Marked(u, o) /\ d.rows[o].at < u.rows[o].at)
    <2>1. o \in Objects BY DEF Objects
    <2>2. CASE o \in fix
      <3>1. At(d, o) = d.rows[o].at BY <1>6, <2>2 DEF At
      <3> QED BY <1>3, <1>4, <1>6, <2>1, <2>2, <3>1
    <2>3. CASE o \notin fix
      <3>1. u.rows[o] = w.rows[o] /\ Has(w, o) BY <1>4, <1>10, <2>1, <2>3
      <3>2. WillAgree(w, d, o) BY <3>1 DEF CardsToCome
      <3> QED BY <3>1, <3>2 DEF WillAgree, At, Has, Marked
    <2> QED BY <2>2, <2>3
  <1>11. u.conf = d.conf BY <1>2
  <1>12. Loose(b, w, v, d) BY SettingFacts, CommonIsLoose
  <1> QED BY <1>5, <1>7, <1>8, <1>9, <1>10, <1>11, <1>12 DEF Loose, CardsToSend, MarkedCards, u

\* A chunk of the marked cards gets a number and is sent.
LEMMA ChunkNumbered ==
    ASSUME NEW t \in Nat, NEW b, NEW w, NEW v, NEW d, Open(t, b, w, v, d),
           Present(w, d), w.conf = d.conf, Alike(w, d, Decks),
           NEW ids, ids = MarkedCards(w), CardsToSend(w, d, ids),
           NEW take \in ChunksOf(ids)
    PROVE  LET u == WithUsn(w, take, v.usn)
               body == Entries(u, take) IN
           /\ Loose(b, u, v, d) /\ Present(u, d) /\ u.conf = d.conf /\ Alike(u, d, Decks)
           /\ CardsSent(u, v, body) /\ CardsToSend(u, d, (ids \ take) \cup DOMAIN body)
  <1> DEFINE u == WithUsn(w, take, v.usn)
             body == Entries(u, take)
  <1> take \subseteq ids BY DEF ChunksOf
  <1>1. /\ b \in DeviceCollection(t) /\ w \in DeviceCollection(t) /\ d \in DeviceCollection(t)
        /\ v.usn \in Nat /\ Whole(w, v.usn + 1) /\ Grown(w, b)
    BY OpenFacts
  <1>2. /\ Beside(u, w) /\ u.conf = w.conf /\ u.graves = w.graves
        /\ \A o \in Objects :
             /\ o \notin take => u.rows[o] = w.rows[o]
             /\ o \in take => u.rows[o] = WithNumber(w.rows[o], v.usn)
    <2>1. w \in DeviceCollection(t) BY <1>1
    <2> QED BY <2>1, RowsNumbered
  <1>3. DOMAIN body = take /\ \A o \in take : body[o] = u.rows[o] BY DEF Entries
  <1> HIDE DEF u, body
  <1>4. ASSUME NEW o \in Objects
        PROVE  /\ Has(u, o) <=> Has(w, o)
               /\ Has(u, o) => /\ u.rows[o].at = w.rows[o].at
                               /\ u.rows[o].usn = IF o \in take THEN v.usn ELSE w.rows[o].usn
               /\ At(u, o) = At(w, o)
    <2>1. CASE o \notin take BY <1>2, <2>1 DEF Has, At
    <2>2. CASE o \in take
      <3>1. Has(w, o) BY <2>2 DEF MarkedCards, Marked
      <3>2. w.rows[o] \in MarkedRow(t) BY <1>1, <3>1, RowFacts
      <3>3. u.rows[o] # NoRow /\ u.rows[o].at = w.rows[o].at /\ u.rows[o].usn = v.usn
        BY <1>1, <1>2, <2>2, <3>2, RowNumbered
      <3>4. Has(u, o) BY <3>3 DEF Has
      <3> QED BY <2>2, <3>1, <3>3, <3>4 DEF At
    <2> QED BY <2>1, <2>2
  <1>5. Grown(u, b) BY <1>1, <1>4 DEF Grown
  <1>6. Loose(b, u, v, d)
    <2>1. Whole(u, v.usn + 1) BY <1>1, <1>2, <1>4 DEF Whole
    <2> QED BY <1>5, <2>1, OpenFacts DEF Loose
  <1>7. Present(u, d) BY <1>4 DEF Present
  <1>8. Alike(u, d, Decks) BY <1>4 DEF Alike, Objects
  <1>9. CardsSent(u, v, body)
    <2>1. ASSUME NEW o \in take
          PROVE  body[o] = u.rows[o] /\ Has(u, o) /\ u.rows[o].usn = v.usn
      <3>1. o \in Objects /\ Has(w, o) BY DEF MarkedCards, Objects, Marked
      <3> QED BY <1>3, <1>4, <3>1
    <2> QED BY <1>3, <2>1 DEF CardsSent
  <1>10. CardsToSend(u, d, (ids \ take) \cup DOMAIN body)
    <2>1. ASSUME NEW o \in Cards, Has(u, o)
          PROVE  At(u, o) = At(d, o) \/ (o \in ids /\ d.rows[o].at < u.rows[o].at)
      BY <1>4, <2>1 DEF CardsToSend, Objects
    <2> QED BY <1>3, <2>1 DEF CardsToSend
  <1>11. u.conf = d.conf BY <1>2
  <1> QED BY <1>6, <1>7, <1>8, <1>9, <1>10, <1>11 DEF u, body

\* The server merges a chunk of cards: the later of two is the device's, if they differ.
LEMMA ApplyServed ==
    ASSUME MsPerSec = 1, NEW t \in Nat,
           NEW b, NEW w, NEW v, NEW d, Open(t, b, w, v, d),
           Present(w, d), w.conf = d.conf, Alike(w, d, Decks), NEW held, NEW body,
           DOMAIN body \subseteq Cards,
           CardsSent(w, v, body), CardsToSend(w, d, held \cup DOMAIN body)
    PROVE  LET u == MergeCards(d, body, b.usn) IN
           /\ Loose(b, w, v, u) /\ Present(w, u) /\ w.conf = u.conf /\ Alike(w, u, Decks)
           /\ CardsToSend(w, u, held)
  <1> DEFINE u == MergeCards(d, body, b.usn)
             sent == DOMAIN body
  <1>1. /\ b \in DeviceCollection(t) /\ w \in DeviceCollection(t) /\ d \in DeviceCollection(t)
        /\ v \in DeviceCollection(t) /\ b.usn \in Nat /\ v.usn \in Nat
        /\ Whole(d, v.usn + 1) /\ Advanced(d, v) /\ Whole(v, v.usn)
    BY OpenFacts
  <1>2. /\ Beside(u, d) /\ u.conf = d.conf /\ u.graves = d.graves
        /\ \A o \in Objects :
             u.rows[o] = IF o \in sent
                            /\ (~Has(d, o) \/ CardProceeds(b.usn, d.rows[o], body[o]))
                         THEN body[o] ELSE d.rows[o]
    <2>1. d \in DeviceCollection(t) BY <1>1
    <2> QED BY <2>1, CardsTaken
  <1> HIDE DEF u, sent
  <1>3. ASSUME NEW o \in sent
        PROVE  /\ o \in Cards /\ o \in Objects /\ Has(w, o) /\ Has(d, o)
               /\ w.rows[o].usn = v.usn /\ d.rows[o].at <= w.rows[o].at
               /\ w.rows[o].at \in Nat /\ d.rows[o].at \in Nat
               /\ u.rows[o] \in {w.rows[o], d.rows[o]}
               /\ d.rows[o].at < w.rows[o].at => u.rows[o] = w.rows[o]
               /\ Has(u, o) /\ At(w, o) = At(u, o)
    <2>1. o \in Cards /\ o \in Objects BY DEF sent, Objects
    <2>2. body[o] = w.rows[o] /\ Has(w, o) /\ w.rows[o].usn = v.usn
      BY <2>1 DEF CardsSent, sent
    <2>3. Has(d, o) BY <2>1, <2>2 DEF Present
    <2>4. /\ w.rows[o].at \in Nat /\ d.rows[o].at \in Nat
          /\ At(w, o) = w.rows[o].at /\ At(d, o) = d.rows[o].at
      BY <1>1, <2>1, <2>2, <2>3, RowFacts
    <2>5. At(w, o) = At(d, o) \/ d.rows[o].at < w.rows[o].at
      BY <2>1, <2>2 DEF CardsToSend
    <2>6. d.rows[o].at < w.rows[o].at => CardProceeds(b.usn, d.rows[o], w.rows[o])
      BY <2>4, OneTick DEF CardProceeds
    <2>7. /\ u.rows[o] \in {w.rows[o], d.rows[o]}
          /\ d.rows[o].at < w.rows[o].at => u.rows[o] = w.rows[o]
      BY <1>2, <2>1, <2>2, <2>6
    <2>8. Has(u, o) /\ At(u, o) = u.rows[o].at BY <2>2, <2>3, <2>7 DEF Has, At
    <2> QED BY <2>1, <2>2, <2>3, <2>4, <2>5, <2>7, <2>8
  <1>4. \A o \in Objects : o \notin sent => u.rows[o] = d.rows[o] BY <1>2
  <1>5. \A o \in Decks : o \in Objects /\ u.rows[o] = d.rows[o]
    BY <1>3, <1>4, SyncAssumption DEF Objects
  <1>6. \A o \in Objects : Has(u, o) <=> Has(d, o) BY <1>3, <1>4 DEF Has
  <1>7. Whole(u, v.usn + 1)
    <2>1. ASSUME NEW o \in Objects, Has(u, o) PROVE u.rows[o].usn < v.usn + 1
      <3>1. Has(d, o) /\ d.rows[o].usn < v.usn + 1 BY <1>1, <1>6, <2>1 DEF Whole
      <3>2. CASE o \notin sent BY <1>4, <3>1, <3>2
      <3>3. CASE o \in sent
        <4>1. w.rows[o].usn < v.usn + 1 BY <1>1, <1>3, <3>3
        <4> QED BY <1>3, <3>1, <3>3, <4>1
      <3> QED BY <3>2, <3>3
    <2> QED BY <1>1, <1>2, <1>6, <2>1 DEF Whole
  <1>8. Advanced(u, v)
    <2>1. ASSUME NEW o \in Objects
          PROVE  \/ u.rows[o] = v.rows[o] /\ u.graves[o] = v.graves[o]
                 \/ /\ Has(v, o)
                    /\ \/ Has(u, o) /\ u.rows[o].usn = v.usn /\ u.rows[o].at >= v.rows[o].at
                       \/ ~Has(u, o) /\ u.graves[o] = v.usn
      <3>1. CASE u.rows[o] = d.rows[o] BY <1>1, <1>2, <3>1 DEF Advanced, Has
      <3>2. CASE u.rows[o] # d.rows[o]
        <4>1. o \in sent /\ u.rows[o] = w.rows[o] BY <1>3, <1>4, <3>2
        <4>2. Has(v, o) /\ v.rows[o].at <= d.rows[o].at
          <5>1. Has(d, o) BY <1>3, <4>1
          <5>2. \/ d.rows[o] = v.rows[o]
                \/ Has(v, o) /\ d.rows[o].at >= v.rows[o].at
            BY <1>1, <5>1 DEF Advanced
          <5>3. Has(v, o) BY <5>1, <5>2 DEF Has
          <5>4. v.rows[o].at \in Nat BY <1>1, <5>3, RowFacts
          <5> QED BY <1>3, <4>1, <5>2, <5>3, <5>4
        <4>3. v.rows[o].at \in Nat BY <1>1, <4>2, RowFacts
        <4> QED BY <1>3, <4>1, <4>2, <4>3
      <3> QED BY <3>1, <3>2
    <2> QED BY <1>1, <1>2, <2>1 DEF Advanced, Beside
  <1>9. Present(w, u) BY <1>6 DEF Present
  <1>10. Alike(w, u, Decks) BY <1>5 DEF Alike, At, Has
  <1>11. ASSUME NEW o \in Cards, Has(w, o)
         PROVE  At(w, o) = At(u, o) \/ (o \in held /\ u.rows[o].at < w.rows[o].at)
    <2>1. CASE o \in sent BY <1>3, <2>1
    <2>2. CASE o \notin sent
      <3>1. u.rows[o] = d.rows[o] BY <1>4, <2>2 DEF Objects
      <3> QED BY <1>11, <2>2, <3>1 DEF CardsToSend, At, Has, sent
    <2> QED BY <2>1, <2>2
  <1> QED BY <1>2, <1>7, <1>8, <1>9, <1>10, <1>11, OpenFacts DEF Loose, CardsToSend, u

\* All is sent: the server counts what the device has counted.
LEMMA CountsAgree ==
    ASSUME NEW w, NEW d, Present(w, d)
    PROVE  Counts(w) = Counts(d)
  <1>1. {o \in Cards : Has(w, o)} = {o \in Cards : Has(d, o)} BY DEF Present, Objects
  <1>2. {o \in Decks : Has(w, o)} = {o \in Decks : Has(d, o)} BY DEF Present, Objects
  <1> QED BY <1>1, <1>2 DEF Counts

LEMMA NothingHeld ==
    ASSUME NEW w, NEW d, Present(w, d), Alike(w, d, Decks), CardsToSend(w, d, {})
    PROVE  Alike(w, d, Objects)
  <1>1. ASSUME NEW o \in Cards PROVE At(w, o) = At(d, o)
    BY DEF CardsToSend, Present, At, Objects
  <1> QED BY <1>1 DEF Alike, Objects

-----------------------------------------------------------------------------
(* The end of a sync.                                                      *)

\* What a device that has not heard of a commit has, beside the server
Behind(w, n, v) ==
    /\ n <= v.usn /\ Whole(w, n)
    /\ \A o \in Objects :
        /\ Has(v, o) => Has(w, o)
        /\ Has(w, o) /\ ~Has(v, o) => v.graves[o] >= n
        /\ Has(w, o) /\ Has(v, o) => /\ w.rows[o].at <= v.rows[o].at
                                     /\ w.rows[o].at = v.rows[o].at \/ v.rows[o].usn >= n

Ready(v, d) == Advanced(d, v) /\ Whole(d, v.usn + 1)

\* The server's collection after the commit of d
Bumped(d) == [d EXCEPT !.usn = d.usn + 1]

LEMMA Commit ==
    ASSUME NEW t \in Nat, NEW v \in ServerCollection(t), NEW d \in ServerCollection(t),
           Ready(v, d)
    PROVE  LET e == Bumped(d) IN
           /\ e.rows = d.rows /\ e.graves = d.graves /\ e.usn = v.usn + 1 /\ e.conf = d.conf
           /\ e.scm = v.scm /\ e.mod = v.mod
           /\ v.usn \in Nat /\ Whole(e, e.usn)
  <1> DEFINE e == Bumped(d)
  <1>1. /\ e.rows = d.rows /\ e.graves = d.graves /\ e.usn = d.usn + 1 /\ e.conf = d.conf
        /\ e.scm = d.scm /\ e.mod = d.mod
    BY DEF Bumped, ServerCollection, Collection
  <1> HIDE DEF e
  <1>2. v.usn \in Nat BY DEF ServerCollection, Collection
  <1> QED BY <1>1, <1>2 DEF Ready, Advanced, Whole, Has, e

\* A commit moves each object it changes to the number no device is past.
LEMMA CommitMoves ==
    ASSUME NEW t \in Nat, NEW v \in ServerCollection(t), NEW d \in ServerCollection(t),
           Ready(v, d), NEW o \in Objects
    PROVE  LET e == Bumped(d) IN
           \/ e.rows[o] = v.rows[o] /\ e.graves[o] = v.graves[o]
           \/ /\ Has(v, o) /\ v.rows[o].at \in Nat
              /\ \/ /\ Has(e, o) /\ e.rows[o].usn = v.usn /\ e.rows[o].at >= v.rows[o].at
                    /\ e.rows[o].at \in Nat
                 \/ ~Has(e, o) /\ e.graves[o] = v.usn
  <1>1. Bumped(d).rows = d.rows /\ Bumped(d).graves = d.graves BY Commit
  <1>2. \/ d.rows[o] = v.rows[o] /\ d.graves[o] = v.graves[o]
        \/ /\ Has(v, o)
           /\ \/ Has(d, o) /\ d.rows[o].usn = v.usn /\ d.rows[o].at >= v.rows[o].at
              \/ ~Has(d, o) /\ d.graves[o] = v.usn
    BY DEF Ready, Advanced
  <1>3. /\ Has(v, o) => v.rows[o].at \in Nat
        /\ Has(d, o) => d.rows[o].at \in Nat
    BY ServerIsDevice, RowFacts
  <1> QED BY <1>1, <1>2, <1>3 DEF Has

LEMMA CommitTogether ==
    ASSUME NEW t \in Nat, NEW v \in ServerCollection(t), NEW d \in ServerCollection(t),
           Ready(v, d), NEW x \in DeviceCollection(t), Together(x, v)
    PROVE  Together(x, Bumped(d))
  <1> DEFINE e == Bumped(d)
  <1>1. e.usn = v.usn + 1 /\ v.usn \in Nat /\ x.usn \in Nat
    BY Commit DEF DeviceCollection, Collection
  <1>2. Whole(x, x.usn) /\ x.usn <= v.usn BY DEF Together
  <1>3. ASSUME NEW o \in Objects
        PROVE  /\ Has(x, o) /\ ~Has(e, o) => e.graves[o] >= x.usn
               /\ Has(e, o) /\ ~Has(x, o) => x.graves[o] = Unsent
               /\ Has(x, o) /\ Has(e, o) => /\ Stale(x, e, o) \/ e.rows[o].at <= x.rows[o].at
                                            /\ Dirty(x, o) \/ x.rows[o].at <= e.rows[o].at
    <2>1. \/ e.rows[o] = v.rows[o] /\ e.graves[o] = v.graves[o]
          \/ /\ Has(v, o) /\ v.rows[o].at \in Nat
             /\ \/ /\ Has(e, o) /\ e.rows[o].usn = v.usn /\ e.rows[o].at >= v.rows[o].at
                   /\ e.rows[o].at \in Nat
                \/ ~Has(e, o) /\ e.graves[o] = v.usn
      BY CommitMoves
    <2>2. /\ Has(x, o) /\ ~Has(v, o) => v.graves[o] >= x.usn
          /\ Has(v, o) /\ ~Has(x, o) => x.graves[o] = Unsent
          /\ Has(x, o) /\ Has(v, o) => /\ Stale(x, v, o) \/ v.rows[o].at <= x.rows[o].at
                                       /\ Dirty(x, o) \/ x.rows[o].at <= v.rows[o].at
      BY DEF Together
    <2>3. Has(x, o) => x.rows[o].at \in Nat BY RowFacts
    <2> HIDE DEF e
    <2>4. CASE e.rows[o] = v.rows[o] /\ e.graves[o] = v.graves[o]
      BY <2>2, <2>4 DEF Has, Stale
    <2>5. CASE Has(e, o) /\ Has(v, o) /\ e.rows[o].usn = v.usn /\ e.rows[o].at >= v.rows[o].at
               /\ e.rows[o].at \in Nat /\ v.rows[o].at \in Nat
      BY <1>1, <1>2, <2>2, <2>3, <2>5 DEF Stale
    <2>6. CASE ~Has(e, o) /\ e.graves[o] = v.usn BY <1>1, <1>2, <2>6
    <2> QED BY <2>1, <2>4, <2>5, <2>6
  <1> QED BY <1>1, <1>2, <1>3 DEF Together

LEMMA CommitBehind ==
    ASSUME NEW t \in Nat, NEW v \in ServerCollection(t), NEW d \in ServerCollection(t),
           Ready(v, d), NEW x \in DeviceCollection(t), NEW n \in Nat, Behind(x, n, v)
    PROVE  Behind(x, n, Bumped(d))
  <1> DEFINE e == Bumped(d)
  <1>1. e.usn = v.usn + 1 /\ v.usn \in Nat BY Commit
  <1>2. Whole(x, n) /\ n <= v.usn BY DEF Behind
  <1>3. ASSUME NEW o \in Objects
        PROVE  /\ Has(e, o) => Has(x, o)
               /\ Has(x, o) /\ ~Has(e, o) => e.graves[o] >= n
               /\ Has(x, o) /\ Has(e, o) => /\ x.rows[o].at <= e.rows[o].at
                                            /\ x.rows[o].at = e.rows[o].at \/ e.rows[o].usn >= n
    <2>1. \/ e.rows[o] = v.rows[o] /\ e.graves[o] = v.graves[o]
          \/ /\ Has(v, o) /\ v.rows[o].at \in Nat
             /\ \/ /\ Has(e, o) /\ e.rows[o].usn = v.usn /\ e.rows[o].at >= v.rows[o].at
                   /\ e.rows[o].at \in Nat
                \/ ~Has(e, o) /\ e.graves[o] = v.usn
      BY CommitMoves
    <2>2. /\ Has(v, o) => Has(x, o)
          /\ Has(x, o) /\ ~Has(v, o) => v.graves[o] >= n
          /\ Has(x, o) /\ Has(v, o) => /\ x.rows[o].at <= v.rows[o].at
                                       /\ x.rows[o].at = v.rows[o].at \/ v.rows[o].usn >= n
      BY DEF Behind
    <2>3. Has(x, o) => x.rows[o].at \in Nat BY RowFacts
    <2> HIDE DEF e
    <2>4. CASE e.rows[o] = v.rows[o] /\ e.graves[o] = v.graves[o] BY <2>2, <2>4 DEF Has
    <2>5. CASE Has(e, o) /\ Has(v, o) /\ e.rows[o].usn = v.usn /\ e.rows[o].at >= v.rows[o].at
               /\ e.rows[o].at \in Nat /\ v.rows[o].at \in Nat
      BY <1>1, <1>2, <2>2, <2>3, <2>5
    <2>6. CASE ~Has(e, o) /\ Has(v, o) /\ e.graves[o] = v.usn BY <1>1, <1>2, <2>2, <2>6
    <2> QED BY <2>1, <2>4, <2>5, <2>6
  <1> QED BY <1>1, <1>2, <1>3 DEF Behind

\* The device of the commit itself
LEMMA CommitHeard ==
    ASSUME NEW t \in Nat, NEW b, NEW w, NEW v, NEW d, Open(t, b, w, v, d),
           Present(w, d), Alike(w, d, Objects)
    PROVE  Ready(v, d) /\ Behind(w, v.usn + 1, Bumped(d))
  <1>1. Ready(v, d) BY OpenFacts DEF Ready
  <1>2. d \in ServerCollection(t) /\ v \in ServerCollection(t) /\ w \in DeviceCollection(t)
        /\ d \in DeviceCollection(t) /\ Whole(w, v.usn + 1)
    BY OpenFacts
  <1> DEFINE e == Bumped(d)
  <1>3. e.rows = d.rows /\ e.usn = v.usn + 1 /\ v.usn \in Nat BY <1>1, <1>2, Commit
  <1> HIDE DEF e
  <1>4. ASSUME NEW o \in Objects
        PROVE  /\ Has(e, o) <=> Has(w, o)
               /\ Has(w, o) => w.rows[o].at = e.rows[o].at /\ w.rows[o].at \in Nat
    <2>1. (Has(d, o) <=> Has(w, o)) /\ At(w, o) = At(d, o) BY DEF Present, Alike
    <2>2. Has(w, o) => w.rows[o].at \in Nat BY <1>2, RowFacts
    <2> QED BY <1>3, <2>1, <2>2 DEF Has, At
  <1> QED BY <1>1, <1>2, <1>3, <1>4 DEF Behind, e

\* The device takes over what it has committed.
LEMMA Received ==
    ASSUME NEW t \in Nat, NEW w \in DeviceCollection(t), NEW v \in ServerCollection(t),
           NEW n \in Nat, Behind(w, n, v),
           NEW x, x.rows = w.rows, x.graves = w.graves, x.usn = n
    PROVE  Together(x, v)
  <1>1. Whole(x, x.usn) /\ x.usn <= v.usn BY DEF Behind, Whole, Has
  <1>2. ASSUME NEW o \in Objects
        PROVE  /\ Has(x, o) /\ ~Has(v, o) => v.graves[o] >= x.usn
               /\ Has(v, o) => Has(x, o)
               /\ Has(x, o) /\ Has(v, o) => /\ Stale(x, v, o) \/ v.rows[o].at <= x.rows[o].at
                                            /\ x.rows[o].at <= v.rows[o].at
    <2>1. Has(w, o) => w.rows[o].at \in Nat BY RowFacts
    <2> QED BY <2>1 DEF Behind, Stale, Has
  <1> QED BY <1>1, <1>2 DEF Together

-----------------------------------------------------------------------------
(* What the user does, and the server's times.                             *)

More(x, b) == \A o \in Objects : Dirty(b, o) => Dirty(x, o)

\* An object is written, or removed.
LEMMA Written ==
    ASSUME NEW t \in Nat, NEW b \in DeviceCollection(t), NEW v \in ServerCollection(t),
           Together(b, v), NEW o \in Objects, Has(b, o),
           NEW row, row # NoRow, row.usn = Unsent, row.at \in Nat, row.at > t,
           NEW x, x.rows = [b.rows EXCEPT ![o] = row], x.graves = b.graves, x.usn = b.usn
    PROVE  Together(x, v) /\ More(x, b)
  <1>1. b.usn \in Nat /\ v.usn \in Nat /\ DOMAIN b.rows = Objects
    BY DEF DeviceCollection, ServerCollection, Collection
  <1>2. /\ x.rows[o] = row /\ Has(x, o) /\ Marked(x, o)
        /\ \A p \in Objects \ {o} : x.rows[p] = b.rows[p]
    BY <1>1 DEF Has, Marked
  <1>3. Whole(b, b.usn) /\ b.usn <= v.usn BY DEF Together
  <1>4. Whole(x, x.usn)
    <2>1. ASSUME NEW p \in Objects
          PROVE  /\ Has(x, p) <=> x.graves[p] = NoGrave
                 /\ Has(x, p) => x.rows[p].usn < x.usn
                 /\ x.graves[p] < x.usn
      BY <1>1, <1>2, <1>3 DEF Whole, Has, Unsent
    <2> QED BY <2>1 DEF Whole
  <1>5. ASSUME NEW p \in Objects
        PROVE  /\ Has(x, p) /\ ~Has(v, p) => v.graves[p] >= x.usn
               /\ Has(v, p) /\ ~Has(x, p) => x.graves[p] = Unsent
               /\ Has(x, p) /\ Has(v, p) => /\ Stale(x, v, p) \/ v.rows[p].at <= x.rows[p].at
                                            /\ Dirty(x, p) \/ x.rows[p].at <= v.rows[p].at
               /\ Dirty(b, p) => Dirty(x, p)
    <2>1. /\ Has(b, p) /\ ~Has(v, p) => v.graves[p] >= b.usn
          /\ Has(v, p) /\ ~Has(b, p) => b.graves[p] = Unsent
          /\ Has(b, p) /\ Has(v, p) => /\ Stale(b, v, p) \/ v.rows[p].at <= b.rows[p].at
                                       /\ Dirty(b, p) \/ b.rows[p].at <= v.rows[p].at
      BY DEF Together
    <2>2. CASE p # o BY <1>2, <2>1, <2>2 DEF Has, Stale, Dirty, Marked
    <2>3. CASE p = o
      <3>1. Has(v, o) => v.rows[o].at <= t /\ v.rows[o].at \in Nat BY ServerIsDevice, RowFacts
      <3> QED BY <1>2, <2>1, <2>3, <3>1 DEF Dirty
    <2> QED BY <2>2, <2>3
  <1> QED BY <1>3, <1>4, <1>5 DEF Together, More

LEMMA Removed ==
    ASSUME NEW t \in Nat, NEW b \in DeviceCollection(t), NEW v \in ServerCollection(t),
           Together(b, v), NEW o \in Objects, Has(b, o),
           NEW x, x.usn = b.usn,
           \A p \in Objects : /\ x.rows[p] = IF p = o THEN NoRow ELSE b.rows[p]
                              /\ x.graves[p] = IF p = o THEN Unsent ELSE b.graves[p]
    PROVE  Together(x, v) /\ More(x, b)
  <1>1. b.usn \in Nat BY DEF DeviceCollection, Collection
  <1>2. ~Has(x, o) /\ x.graves[o] = Unsent /\ Dirty(x, o) BY DEF Has, Dirty
  <1>3. Whole(b, b.usn) /\ b.usn <= v.usn BY DEF Together
  <1>4. Whole(x, x.usn)
    <2>1. ASSUME NEW p \in Objects
          PROVE  /\ Has(x, p) <=> x.graves[p] = NoGrave
                 /\ Has(x, p) => x.rows[p].usn < x.usn
                 /\ x.graves[p] < x.usn
      BY <1>1, <1>3 DEF Whole, Has, Unsent, NoGrave
    <2> QED BY <2>1 DEF Whole
  <1>5. ASSUME NEW p \in Objects
        PROVE  /\ Has(x, p) /\ ~Has(v, p) => v.graves[p] >= x.usn
               /\ Has(v, p) /\ ~Has(x, p) => x.graves[p] = Unsent
               /\ Has(x, p) /\ Has(v, p) => /\ Stale(x, v, p) \/ v.rows[p].at <= x.rows[p].at
                                            /\ Dirty(x, p) \/ x.rows[p].at <= v.rows[p].at
               /\ Dirty(b, p) => Dirty(x, p)
    <2>1. /\ Has(b, p) /\ ~Has(v, p) => v.graves[p] >= b.usn
          /\ Has(v, p) /\ ~Has(b, p) => b.graves[p] = Unsent
          /\ Has(b, p) /\ Has(v, p) => /\ Stale(b, v, p) \/ v.rows[p].at <= b.rows[p].at
                                       /\ Dirty(b, p) \/ b.rows[p].at <= v.rows[p].at
      BY DEF Together
    <2>2. CASE p # o BY <2>1, <2>2 DEF Has, Stale, Dirty, Marked
    <2>3. CASE p = o BY <1>2, <2>3
    <2> QED BY <2>2, <2>3
  <1> QED BY <1>3, <1>4, <1>5 DEF Together, More

\* Only rows, graves and numbers count.
LEMMA SameRows ==
    ASSUME NEW b, NEW v, NEW x, x.rows = b.rows, x.graves = b.graves, x.usn = b.usn
    PROVE  /\ Together(b, v) => Together(x, v)
           /\ Together(v, b) => Together(v, x)
           /\ \A n : Whole(b, n) => Whole(x, n)
           /\ \A n : Behind(v, n, b) => Behind(v, n, x)
           /\ More(x, b)
  <1>1. \A o \in Objects : (Has(x, o) <=> Has(b, o)) /\ (Dirty(x, o) <=> Dirty(b, o))
          /\ (Stale(x, v, o) <=> Stale(b, v, o)) /\ (Stale(v, x, o) <=> Stale(v, b, o))
    BY DEF Has, Dirty, Marked, Stale
  <1> QED BY <1>1 DEF Together, Whole, Behind, More

-----------------------------------------------------------------------------
(* The invariant.                                                          *)

\* A device: between syncs it has what the server may still bring up to date, and what a
\* sync has changed is gone when it does not get to its end.
Side(b, w, s, a, v) ==
    /\ b.scm = 0 /\ w.scm = 0 /\ ~s.differ
    /\ s.at \notin {"full"} \cup Sides
    /\ s.at \notin SessionOps => w = b
    /\ s.at \notin {"chunk", "apply", "sanity", "finish"} => s.clash = {}
    /\ a # NoAnswer /\ a.ok => /\ s.at = "meta" => a.scm = 0
                               /\ s.at = "sanity" => a.agrees
    /\ Together(b, v)

Bodies(c) == {m.body : m \in Requests(c)}
Asked(b, s, asks) == s.at = "start" => \A body \in asks : body.usn = b.usn /\ body.newer = s.newer

\* The device is in the session that is open.
InIt(c) == sync[c].key = session.key /\ session.key # NoKey /\ Heard(c) /\ unstamped = NoRequest

\* A request that would commit the session that is open
Finishing(m) == m.op = "finish" /\ m.key = session.key /\ unstamped = NoRequest

MergeOf(c) ==
    /\ Side(base[c], work[c], sync[c], answer[c], server)
    /\ Asked(base[c], sync[c], Bodies(c))
    /\ InIt(c) => Stage(base[c], work[c], sync[c], answer[c], Bodies(c), server, draft, session)
    /\ HasCommitted(c) => Behind(work[c], sync[c].usn + 1, server)

Merge ==
    /\ server.scm = 0 /\ Whole(server, server.usn)
    /\ \A m \in net : m.op \notin Sides
    /\ \A c \in Clients : MergeOf(c)
    /\ \A m \in net : Finishing(m) => Ready(server, draft)

-----------------------------------------------------------------------------
(* A step of one device leaves the others as they are.                     *)

OnlyItsMessages(c) ==
    \A m : (m \in net' /\ m \notin net) \/ (m \in net /\ m \notin net') => m.from = c

LEMMA OthersMerge ==
    ASSUME Inv, Merge, NEW c \in Clients, OnlyDevice(c), OnlyItsMessages(c),
           sync' = [sync EXCEPT ![c] = sync'[c]], answer' = [answer EXCEPT ![c] = answer'[c]],
           MergeOf(c)', \A m \in net' : m.op \notin Sides,
           \A m \in net' : m.from = c /\ Finishing(m)' => Ready(server, draft)
    PROVE  Merge'
  <1>1. /\ UNCHANGED <<server, draft, session, unstamped>>
        /\ \A d \in Clients \ {c} :
             /\ base'[d] = base[d] /\ work'[d] = work[d]
             /\ sync'[d] = sync[d] /\ answer'[d] = answer[d]
    BY Functions DEF OnlyDevice, serverVars, IsFcn
  <1>2. ASSUME NEW d \in Clients \ {c} PROVE MergeOf(d)'
    <2>1. \A m : m.from = d => (m \in net' <=> m \in net) BY DEF OnlyItsMessages
    <2>2. Requests(d)' = Requests(d)
      <3>1. \A m : m.from = d => (Live(m)' <=> Live(m)) BY <1>1 DEF Live
      <3> QED BY <2>1, <3>1 DEF Requests
    <2>3. Bodies(d)' = Bodies(d) BY <2>2 DEF Bodies
    <2>4. InIt(d)' <=> InIt(d) BY <1>1 DEF InIt, Heard, Answered
    <2>5. HasCommitted(d)' <=> HasCommitted(d) BY <1>1 DEF HasCommitted, Answered
    <2>6. MergeOf(d) BY DEF Merge
    <2> QED BY <1>1, <2>3, <2>4, <2>5, <2>6 DEF MergeOf
  <1>3. \A d \in Clients : MergeOf(d)' BY <1>2
  <1>4. ASSUME NEW m \in net', Finishing(m)'
        PROVE  Ready(server', draft')
    <2>1. CASE m.from = c BY <1>1, <1>4, <2>1
    <2>2. CASE m.from # c
      <3>1. m \in net /\ Finishing(m) BY <1>1, <1>4, <2>2 DEF OnlyItsMessages, Finishing
      <3>2. m.from \in Clients BY <3>1 DEF Inv, MessageOK
      <3> QED BY <1>1, <2>2, <3>1, <3>2 DEF Merge
    <2> QED BY <2>1, <2>2
  <1> QED BY <1>1, <1>3, <1>4 DEF Merge

\* No other request of the device is under way when it has its answer.
LEMMA NoRequestLeft ==
    ASSUME Inv, Keyed, NEW c \in Clients, answer[c] # NoAnswer, sync[c].at \notin {"idle", "abort"}
    PROVE  /\ Requests(c) = {}
           /\ \A m \in Unanswered : m.op # "abort" => m.key # sync[c].key
           /\ Heard(c) => unstamped.from # c
  <1>1. \A m \in Unanswered : m.op # "abort" => m.key # sync[c].key
    BY DEF Keyed, KeysKept, Posted
  <1>2. Requests(c) = {} BY <1>1 DEF Requests, Live, Unanswered
  <1>3. ASSUME Heard(c), unstamped.from = c PROVE FALSE
    <2>1. unstamped # NoRequest BY <1>3, KeyNotDevice DEF NoRequest
    <2>2. unstamped \in Unanswered /\ unstamped.op = "finish" /\ unstamped.key = session.key
      BY <2>1 DEF Unanswered, Inv, Keyed, Opened
    <2>3. unstamped.key # NoKey BY <2>2 DEF Keyed, KeysKept, Posted
    <2>4. sync[c].key = unstamped.key BY <1>3, <2>2, <2>3 DEF Keyed, Opened
    <2> QED BY <1>1, <2>2, <2>4
  <1> QED BY <1>1, <1>2, <1>3

\* A device asks its next request.
LEMMA AskMerges ==
    ASSUME Inv, Keyed, Merge, NEW c \in Clients, OnlyDevice(c), base' = base,
           NEW s, NEW body, Ask(c, s, body),
           s.key = sync[c].key, s.at \in Ops \ ({"abort"} \cup Sides),
           sync[c].at \notin {"abort", "idle"}, answer[c] # NoAnswer,
           s.at \in SessionOps <=> Heard(c),
           Side(base[c], work'[c], s, NoAnswer, server), Asked(base[c], s, {body}),
           InIt(c) => Stage(base[c], work'[c], s, NoAnswer, {body}, server, draft, session)
    PROVE  Merge'
  <1> DEFINE new == Message(c, s.at, s.key, body)
  <1>1. /\ sync'[c] = s /\ answer'[c] = NoAnswer /\ net' = net \cup {new}
        /\ sync' = [sync EXCEPT ![c] = sync'[c]] /\ answer' = [answer EXCEPT ![c] = answer'[c]]
    BY Functions DEF Ask, IsFcn
  <1>2. UNCHANGED <<server, draft, session, unstamped>> BY DEF OnlyDevice, serverVars
  <1>3. new.from = c /\ new.op = s.at /\ new.key = s.key /\ new.body = body BY DEF Message
  <1> HIDE DEF new
  <1>4. OnlyItsMessages(c) BY <1>1, <1>3 DEF OnlyItsMessages
  <1>5. \A m \in net' : m.op \notin Sides BY <1>1, <1>3 DEF Merge
  <1>6. Bodies(c)' = {body}
    <2>1. \A m \in net : m.op # "abort" => m.key # sync[c].key BY NoRequestLeft DEF Unanswered
    <2>2. Requests(c)' = {new} BY <1>1, <1>3, <2>1 DEF Requests, Live
    <2> QED BY <1>3, <2>2 DEF Bodies
  <1>7. InIt(c)' => InIt(c) BY <1>1, <1>2 DEF InIt, Heard, Answered
  <1>8. ~HasCommitted(c)' BY <1>1, <1>2, NoRequestLeft DEF HasCommitted, Answered, SessionOps
  <1>9. MergeOf(c)' BY <1>1, <1>2, <1>6, <1>7, <1>8 DEF MergeOf
  <1>10. ASSUME NEW m \in net', m.from = c, Finishing(m)'
         PROVE  Ready(server, draft)
    <2>1. CASE m \in net
      <3>1. Finishing(m) BY <1>2, <1>10 DEF Finishing
      <3> QED BY <1>10, <2>1, <3>1 DEF Merge
    <2>2. CASE m = new
      <3>1. s.at = "finish" /\ s.key = session.key /\ unstamped = NoRequest
        BY <1>2, <1>3, <1>10, <2>2 DEF Finishing
      <3>2. s.key # NoKey BY DEF Keyed, KeysKept, DeviceKey
      <3>3. InIt(c) BY <3>1, <3>2 DEF InIt, SessionOps
      <3> QED BY <3>3 DEF Stage, Loose, Ready
    <2> QED BY <1>1, <2>1, <2>2
  <1> QED BY <1>1, <1>4, <1>5, <1>9, <1>10, OthersMerge

\* A device is, or comes to be, in no session.
LEMMA AwayMerges ==
    ASSUME Inv, Merge, NEW c \in Clients, OnlyDevice(c), base' = base, work'[c] = base[c],
           NEW s, sync' = [sync EXCEPT ![c] = s], answer' = [answer EXCEPT ![c] = NoAnswer],
           s.at \in {"idle", "meta", "abort"}, s.clash = {}, ~s.differ,
           OnlyItsMessages(c), \A m \in net' : m \in net \/ m.op \in {"meta", "abort"}
    PROVE  Merge'
  <1>1. /\ sync'[c] = s /\ answer'[c] = NoAnswer
        /\ sync' = [sync EXCEPT ![c] = sync'[c]] /\ answer' = [answer EXCEPT ![c] = answer'[c]]
    BY Functions DEF IsFcn
  <1>2. UNCHANGED <<server, draft, session, unstamped>> BY DEF OnlyDevice, serverVars
  <1>3. \A m \in net' : m.op \notin Sides BY DEF Merge, Sides
  <1>4. ~InIt(c)' /\ ~HasCommitted(c)'
    BY <1>1 DEF InIt, Heard, Answered, HasCommitted, SessionOps
  <1>5. Side(base'[c], work'[c], sync'[c], answer'[c], server')
    BY <1>1, <1>2 DEF Side, Merge, MergeOf, Sides
  <1>6. Asked(base'[c], sync'[c], Bodies(c)') BY <1>1 DEF Asked
  <1>7. MergeOf(c)' BY <1>4, <1>5, <1>6 DEF MergeOf
  <1>8. ASSUME NEW m \in net', m.from = c, Finishing(m)'
        PROVE  Ready(server, draft)
    <2>1. m \in net /\ Finishing(m) BY <1>2, <1>8 DEF Finishing
    <2> QED BY <1>8, <2>1 DEF Merge
  <1> QED BY <1>1, <1>3, <1>7, <1>8, OthersMerge

\* The user edits the collection of a device at rest.
LEMMA EditMerges ==
    ASSUME Inv, Merge, NEW c \in Clients, NEW col, Edit(c, col), OnlyDevice(c),
           Together(col, server), More(col, base[c]), col.scm = 0
    PROVE  Merge'
  <1>1. base'[c] = col /\ work'[c] = col /\ UNCHANGED <<sync, serverVars, net, answer>>
    BY Functions DEF Edit, IsFcn
  <1>2. sync' = [sync EXCEPT ![c] = sync'[c]] /\ answer' = [answer EXCEPT ![c] = answer'[c]]
    BY <1>1, Functions DEF IsFcn
  <1>3. sync[c].at = "idle" BY DEF Edit
  <1>4. UNCHANGED <<server, draft, session, unstamped>> BY <1>1 DEF serverVars
  <1>5. MergeOf(c) BY DEF Merge
  <1>6. Side(base'[c], work'[c], sync'[c], answer'[c], server')
    BY <1>1, <1>3, <1>4, <1>5 DEF Side, MergeOf, SessionOps
  <1>7. Asked(base'[c], sync'[c], Bodies(c)') BY <1>1, <1>3 DEF Asked
  <1>8. ~InIt(c)' /\ ~HasCommitted(c)'
    BY <1>1, <1>3 DEF InIt, Heard, Answered, HasCommitted, SessionOps
  <1>9. MergeOf(c)' BY <1>6, <1>7, <1>8 DEF MergeOf
  <1>10. ASSUME NEW m \in net', m.from = c, Finishing(m)'
         PROVE  Ready(server, draft)
    <2>1. m \in net /\ Finishing(m) BY <1>1, <1>4, <1>10 DEF Finishing
    <2> QED BY <1>10, <2>1 DEF Merge
  <1>11. OnlyItsMessages(c) BY <1>1 DEF OnlyItsMessages
  <1>12. \A m \in net' : m.op \notin Sides BY <1>1 DEF Merge
  <1> QED BY <1>2, <1>9, <1>10, <1>11, <1>12, OthersMerge

-----------------------------------------------------------------------------
(* The user, and the ends of a sync.                                       *)

\* A clock of whole seconds, and edits that keep the grave of what is removed and are not
\* taken back: what a merge can tell apart, and what the protocol relies on.
PlainSyncs == MsPerSec = 1 /\ Edits \subseteq {"write", "remove", "conf"}

LEMMA WriteMerges ==
    ASSUME Inv, Merge, NEW c \in Clients, NEW o \in Objects, Write(c, o)
    PROVE  Merge'
  <1> DEFINE row == [at |-> Now, usn |-> Unsent]
             b == base[c]
             x == [b EXCEPT !.rows[o] = row, !.mod = Now]
  <1>1. clock \in Nat /\ Now \in Nat /\ Now > clock BY Ticks DEF Now
  <1>2. b \in DeviceCollection(clock) /\ server \in ServerCollection(clock)
    BY <1>1, DeviceHas DEF Inv
  <1>3. row # NoRow /\ row.usn = Unsent /\ row.at = Now
    <2>1. row \in AnyRow BY <1>1 DEF Unsent, AnyRow
    <2> QED BY <2>1, SyncAssumption
  <1>4. Touched(b, o) = x BY DEF Touched
  <1> HIDE DEF row
  <1>5. /\ x.rows = [b.rows EXCEPT ![o] = row] /\ x.graves = b.graves
        /\ x.usn = b.usn /\ x.scm = b.scm
    BY <1>2 DEF DeviceCollection, Collection
  <1> HIDE DEF x
  <1>6. Side(b, work[c], sync[c], answer[c], server) BY DEF Merge, MergeOf
  <1>7. Together(b, server) /\ b.scm = 0 BY <1>6 DEF Side
  <1>8. Has(b, o) BY DEF Write
  <1> HIDE DEF b
  <1>9. Together(x, server) /\ More(x, b) BY <1>1, <1>2, <1>3, <1>5, <1>7, <1>8, Written
  <1>10. Edit(c, x) BY <1>4 DEF Write, b
  <1>11. OnlyDevice(c) BY <1>10, Functions DEF Write, Edit, OnlyDevice, IsFcn
  <1> QED BY <1>5, <1>7, <1>9, <1>10, <1>11, EditMerges DEF b

LEMMA RemoveMerges ==
    ASSUME Inv, Merge, NEW c \in Clients, NEW o \in Objects, Remove(c, o)
    PROVE  Merge'
  <1> DEFINE b == base[c]
             y == ApplyGraves(b, {o}, Unsent)
             x == [y EXCEPT !.mod = Now]
  <1>1. clock \in Nat /\ Now \in Nat /\ Now > clock BY Ticks DEF Now
  <1>2. b \in DeviceCollection(clock) /\ server \in ServerCollection(clock)
    BY <1>1, DeviceHas DEF Inv
  <1>3. Side(b, work[c], sync[c], answer[c], server) BY DEF Merge, MergeOf
  <1>4. Together(b, server) /\ b.scm = 0 BY <1>3 DEF Side
  <1>5. Has(b, o) BY DEF Remove
  <1>6. /\ Beside(y, b)
        /\ \A p \in Objects :
             /\ y.rows[p] = IF p \in {o} THEN NoRow ELSE b.rows[p]
             /\ y.graves[p] = IF p \in {o} /\ b.graves[p] = NoGrave THEN Unsent ELSE b.graves[p]
    BY <1>1, <1>2, GravesApplied
  <1>7. x.rows = y.rows /\ x.graves = y.graves /\ x.usn = y.usn /\ x.scm = y.scm
    BY <1>2 DEF ApplyGraves, DeviceCollection, Collection
  <1>8. b.graves[o] = NoGrave BY <1>4, <1>5 DEF Together, Whole
  <1>9. Edit(c, x) BY DEF Remove
  <1> HIDE DEF b, x, y
  <1>10. \A p \in Objects : /\ x.rows[p] = IF p = o THEN NoRow ELSE b.rows[p]
                            /\ x.graves[p] = IF p = o THEN Unsent ELSE b.graves[p]
    BY <1>6, <1>7, <1>8
  <1>11. x.usn = b.usn /\ x.scm = 0 BY <1>4, <1>6, <1>7 DEF Beside
  <1>12. Together(x, server) /\ More(x, b)
    BY <1>1, <1>2, <1>4, <1>5, <1>10, <1>11, Removed
  <1>13. OnlyDevice(c) BY <1>9, Functions DEF Remove, Edit, OnlyDevice, IsFcn
  <1> QED BY <1>9, <1>11, <1>12, <1>13, EditMerges DEF b

LEMMA WriteConfMerges ==
    ASSUME Inv, Merge, NEW c \in Clients, WriteConf(c)
    PROVE  Merge'
  <1> DEFINE b == base[c]
             x == [b EXCEPT !.conf = Now, !.mod = Now]
  <1>1. clock \in Nat BY DEF Inv
  <1>2. b \in DeviceCollection(clock) BY <1>1, DeviceHas
  <1>3. Side(b, work[c], sync[c], answer[c], server) BY DEF Merge, MergeOf
  <1>4. x.rows = b.rows /\ x.graves = b.graves /\ x.usn = b.usn /\ x.scm = b.scm
    BY <1>2 DEF DeviceCollection, Collection
  <1>5. Edit(c, x) BY DEF WriteConf
  <1> HIDE DEF b, x
  <1>6. Together(x, server) /\ More(x, b) /\ x.scm = 0 BY <1>3, <1>4, SameRows DEF Side
  <1>7. OnlyDevice(c) BY <1>5, Functions DEF WriteConf, Edit, OnlyDevice, IsFcn
  <1> QED BY <1>5, <1>6, <1>7, EditMerges DEF b

LEMMA UserMerges ==
    ASSUME PlainSyncs, Inv, Merge, NEW c \in Clients, User(c)
    PROVE  Merge'
  <1>1. /\ "readd" \notin Edits /\ "undo" \notin Edits /\ "schema" \notin Edits BY DEF PlainSyncs
  <1> QED BY <1>1, WriteMerges, RemoveMerges, WriteConfMerges
          DEF User, Readd, Undo, ChangeSchema

LEMMA BeginMerges ==
    ASSUME Inv, Merge, NEW c \in Clients, Begin(c)
    PROVE  Merge'
  <1> DEFINE s == [Idle EXCEPT !.at = "meta", !.key = FreshKey]
  <1>1. s.at = "meta" /\ s.clash = {} /\ ~s.differ BY DEF Idle
  <1>2. /\ sync' = [sync EXCEPT ![c] = s] /\ answer' = [answer EXCEPT ![c] = NoAnswer]
        /\ net' = net \cup {Message(c, s.at, s.key, {})}
        /\ UNCHANGED <<base, work, undo, serverVars>>
    BY DEF Begin, Ask
  <1> HIDE DEF s
  <1>3. OnlyItsMessages(c) /\ \A m \in net' : m \in net \/ m.op \in {"meta", "abort"}
    BY <1>1, <1>2 DEF Message, OnlyItsMessages
  <1>4. OnlyDevice(c) BY <1>2, Functions DEF OnlyDevice, IsFcn
  <1>5. MergeOf(c) BY DEF Merge
  <1>6. work'[c] = base[c]
    BY <1>2, <1>5 DEF MergeOf, Side, Begin, AtRest, SessionOps
  <1> QED BY <1>1, <1>2, <1>3, <1>4, <1>6, AwayMerges

LEMMA GotSameMetaMerges ==
    ASSUME Inv, Merge, NEW c \in Clients, GotSameMeta(c)
    PROVE  Merge'
  <1>1. MergeOf(c) BY DEF Merge
  <1>2. work'[c] = base[c]
    BY <1>1 DEF MergeOf, Side, GotSameMeta, Answered, SessionOps
  <1>3. OnlyDevice(c) /\ OnlyItsMessages(c) /\ net' = net /\ base' = base
    BY Functions DEF GotSameMeta, OnlyDevice, OnlyItsMessages, IsFcn
  <1>4. sync' = [sync EXCEPT ![c] = Idle] /\ answer' = [answer EXCEPT ![c] = NoAnswer]
    BY DEF GotSameMeta, Finished
  <1> QED BY <1>2, <1>3, <1>4, IdleIsAway, AwayMerges

\* A failure, with nothing wrong in the counts: the schema stays.
LEMMA FailureMerges ==
    ASSUME Inv, Merge, NEW c \in Clients, MarkSchema(c), NEW late \in BOOLEAN, RollBack(c, FALSE, late),
           UNCHANGED <<undo, serverVars>>
    PROVE  Merge'
  <1> DEFINE s == [Idle EXCEPT !.at = "abort", !.key = sync[c].key, !.differ = FALSE]
  <1>1. MergeOf(c) BY DEF Merge
  <1>2. base' = base BY <1>1 DEF MergeOf, Side, MarkSchema
  <1>3. work' = [work EXCEPT ![c] = base[c]] /\ answer' = [answer EXCEPT ![c] = NoAnswer]
    BY <1>2 DEF RollBack
  <1>4. OnlyDevice(c) /\ work'[c] = base[c] BY <1>2, <1>3, Functions DEF OnlyDevice, IsFcn
  <1>5. s.at = "abort" /\ s.clash = {} /\ ~s.differ BY DEF Idle
  <1>6. \/ sync' = [sync EXCEPT ![c] = s]
        \/ sync' = [sync EXCEPT ![c] = Idle]
    BY DEF RollBack
  <1>7. /\ \A m \in net' : m \in net \/ (m.op = "abort" /\ m.from = c)
        /\ \A m \in net : m \in net' \/ m.from = c
    BY DEF RollBack, Message, Requests
  <1> HIDE DEF s
  <1>8. OnlyItsMessages(c) /\ \A m \in net' : m \in net \/ m.op \in {"meta", "abort"}
    BY <1>7 DEF OnlyItsMessages
  <1> QED BY <1>2, <1>3, <1>4, <1>5, <1>6, <1>8, IdleIsAway, AwayMerges

LEMMA InterruptMerges ==
    ASSUME Inv, Merge, NEW c \in Clients, Interrupt(c)
    PROVE  Merge'
  <1>1. /\ base' = base /\ work' = [work EXCEPT ![c] = base[c]] /\ UNCHANGED <<undo, serverVars>>
        /\ sync' = [sync EXCEPT ![c] = Idle] /\ answer' = [answer EXCEPT ![c] = NoAnswer]
    BY DEF Interrupt, Finished
  <1>2. OnlyDevice(c) /\ work'[c] = base[c] BY <1>1, Functions DEF OnlyDevice, IsFcn
  <1>3. /\ \A m \in net' : m \in net \/ (m.op = "abort" /\ m.from = c)
        /\ \A m \in net : m \in net' \/ m.from = c
    BY DEF Interrupt, Message, Requests
  <1>4. OnlyItsMessages(c) /\ \A m \in net' : m \in net \/ m.op \in {"meta", "abort"}
    BY <1>3 DEF OnlyItsMessages
  <1> QED BY <1>1, <1>2, <1>4, IdleIsAway, AwayMerges

LEMMA GotAbortMerges ==
    ASSUME Inv, Merge, NEW c \in Clients, GotAbort(c)
    PROVE  Merge'
  <1>1. MergeOf(c) BY DEF Merge
  <1>2. base' = base BY <1>1 DEF MergeOf, Side, GotAbort, MarkSchema
  <1>3. /\ work' = [work EXCEPT ![c] = base[c]] /\ UNCHANGED <<undo, serverVars, net>>
        /\ sync' = [sync EXCEPT ![c] = Idle] /\ answer' = [answer EXCEPT ![c] = NoAnswer]
    BY <1>2 DEF GotAbort, Finished
  <1>4. OnlyDevice(c) /\ work'[c] = base[c] BY <1>2, <1>3, Functions DEF OnlyDevice, IsFcn
  <1>5. OnlyItsMessages(c) BY <1>3 DEF OnlyItsMessages
  <1> QED BY <1>2, <1>3, <1>4, <1>5, IdleIsAway, AwayMerges

\* The device hears of the commit.
LEMMA GotFinishMerges ==
    ASSUME Inv, Keyed, Merge, NEW c \in Clients, GotFinish(c)
    PROVE  Merge'
  <1> DEFINE w == work[c]
             n == sync[c].usn + 1
             x == [w EXCEPT !.mod = answer[c].mod, !.usn = n]
  <1>1. clock \in Nat /\ w \in DeviceCollection(clock) /\ server \in ServerCollection(clock)
        /\ sync[c] \in SyncRecord
    BY DeviceHas DEF Inv
  <1>2. n \in Nat BY <1>1 DEF SyncRecord
  <1>3. MergeOf(c) BY DEF Merge
  <1>4. Behind(w, n, server) BY <1>3 DEF MergeOf, HasCommitted, GotFinish, Answered
  <1>5. x.rows = w.rows /\ x.graves = w.graves /\ x.usn = n /\ x.scm = w.scm
    BY <1>1 DEF DeviceCollection, Collection
  <1>6. /\ base' = [base EXCEPT ![c] = x] /\ work' = [work EXCEPT ![c] = base'[c]]
        /\ sync' = [sync EXCEPT ![c] = Idle] /\ answer' = [answer EXCEPT ![c] = NoAnswer]
        /\ UNCHANGED <<undo, serverVars, net>>
    BY DEF GotFinish, Finished
  <1> HIDE DEF w, n, x
  <1>7. Together(x, server) BY <1>1, <1>2, <1>4, <1>5, Received
  <1>8. /\ base'[c] = x /\ work'[c] = x /\ sync'[c] = Idle /\ answer'[c] = NoAnswer
        /\ sync' = [sync EXCEPT ![c] = sync'[c]] /\ answer' = [answer EXCEPT ![c] = answer'[c]]
        /\ OnlyDevice(c) /\ UNCHANGED <<server, draft, session, unstamped>>
    BY <1>6, Functions DEF OnlyDevice, IsFcn, serverVars
  <1>9. Side(base'[c], work'[c], sync'[c], answer'[c], server')
    BY <1>3, <1>5, <1>7, <1>8, IdleIsAway DEF Side, MergeOf, Sides, w
  <1>10. ~InIt(c)' /\ ~HasCommitted(c)' /\ Asked(base'[c], sync'[c], Bodies(c)')
    BY <1>8, IdleIsAway DEF InIt, Heard, Answered, HasCommitted, SessionOps, Asked
  <1>11. MergeOf(c)' BY <1>9, <1>10 DEF MergeOf
  <1>12. ASSUME NEW m \in net', m.from = c, Finishing(m)'
         PROVE  Ready(server, draft)
    <2>1. m \in net /\ Finishing(m) /\ m \in Unanswered
      BY <1>6, <1>8, <1>12 DEF Finishing, Unanswered
    <2>2. Heard(c) /\ answer[c] # NoAnswer /\ sync[c].at = "finish"
      BY DEF GotFinish, Answered, Heard, SessionOps
    <2>3. m.key # NoKey BY <2>1 DEF Keyed, KeysKept, Posted, Finishing
    <2>4. sync[c].key = m.key BY <1>12, <2>1, <2>2, <2>3 DEF Keyed, Opened, Finishing
    <2>5. m.key # sync[c].key BY <2>1, <2>2, NoRequestLeft DEF Finishing
    <2> QED BY <2>4, <2>5
  <1>13. OnlyItsMessages(c) /\ \A m \in net' : m.op \notin Sides
    BY <1>6 DEF OnlyItsMessages, Merge
  <1> QED BY <1>8, <1>11, <1>12, <1>13, OthersMerge

-----------------------------------------------------------------------------
(* The device asks and merges.                                             *)

LEMMA SettingOf ==
    ASSUME Inv, Merge, NEW c \in Clients
    PROVE  /\ clock \in Nat /\ base[c] \in DeviceCollection(clock)
           /\ work[c] \in DeviceCollection(clock) /\ sync[c] \in SyncRecord
           /\ Side(base[c], work[c], sync[c], answer[c], server)
           /\ InIt(c) =>
                /\ sync[c].at \notin {"apply", "sanity", "finish"} =>
                     Setting(clock, base[c], work[c], server, draft)
                /\ Open(clock, base[c], work[c], server, draft)
                /\ Numbers(base[c], sync[c], server, session)
                /\ Stage(base[c], work[c], sync[c], answer[c], Bodies(c), server, draft, session)
  <1>1. /\ clock \in Nat /\ base[c] \in DeviceCollection(clock)
        /\ work[c] \in DeviceCollection(clock) /\ sync[c] \in SyncRecord
        /\ server \in ServerCollection(clock) /\ draft \in ServerCollection(clock)
    BY DeviceHas DEF Inv
  <1>2. MergeOf(c) /\ Whole(server, server.usn) BY DEF Merge
  <1>3. Side(base[c], work[c], sync[c], answer[c], server) BY <1>2 DEF MergeOf
  <1>4. Together(base[c], server) BY <1>3 DEF Side
  <1>5. ASSUME InIt(c)
        PROVE  /\ sync[c].at \notin {"apply", "sanity", "finish"} =>
                    Setting(clock, base[c], work[c], server, draft)
               /\ Open(clock, base[c], work[c], server, draft)
               /\ Numbers(base[c], sync[c], server, session)
               /\ Stage(base[c], work[c], sync[c], answer[c], Bodies(c), server, draft, session)
    <2>1. Stage(base[c], work[c], sync[c], answer[c], Bodies(c), server, draft, session)
      BY <1>2, <1>5 DEF MergeOf
    <2>2. /\ sync[c].at \notin {"apply", "sanity", "finish"} =>
               Common(base[c], work[c], server, draft)
          /\ Loose(base[c], work[c], server, draft)
          /\ Numbers(base[c], sync[c], server, session)
      BY <2>1 DEF Stage
    <2> QED BY <1>1, <1>2, <1>4, <2>1, <2>2 DEF Setting, Open
  <1> QED BY <1>1, <1>3, <1>5

LEMMA GotMetaMerges ==
    ASSUME Inv, Keyed, Merge, NEW c \in Clients, GotMeta(c)
    PROVE  Merge'
  <1> DEFINE newer == base[c].mod > answer[c].mod
             s == [sync[c] EXCEPT !.at = "start", !.usn = answer[c].usn, !.newer = newer]
             body == [usn |-> base[c].usn, newer |-> s.newer]
  <1>1. sync[c] \in SyncRecord /\ Side(base[c], work[c], sync[c], answer[c], server)
    BY SettingOf
  <1>2. /\ Ask(c, s, body) /\ undo' = [undo EXCEPT ![c] = NoAnswer]
        /\ UNCHANGED <<base, work, serverVars>> /\ sync[c].at = "meta" /\ answer[c] # NoAnswer
    BY DEF GotMeta, Answered
  <1>3. OnlyDevice(c) BY <1>2, Functions DEF OnlyDevice, IsFcn
  <1>4. s.at = "start" /\ s.key = sync[c].key /\ s.clash = sync[c].clash /\ s.differ = sync[c].differ
    BY <1>1 DEF SyncRecord
  <1>5. body.usn = base[c].usn /\ body.newer = s.newer OBVIOUS
  <1> HIDE DEF s, body
  <1>6. ~Heard(c) BY <1>2 DEF Heard, Answered, SessionOps
  <1>7. Side(base[c], work'[c], s, NoAnswer, server)
    BY <1>1, <1>2, <1>4 DEF Side, SessionOps, Sides
  <1>8. Asked(base[c], s, {body}) BY <1>5 DEF Asked
  <1>9. s.at \in Ops \ ({"abort"} \cup Sides) /\ s.at \notin SessionOps
    BY <1>4 DEF Ops, Steps, Sides, SessionOps
  <1> QED BY <1>2, <1>3, <1>4, <1>6, <1>7, <1>8, <1>9, AskMerges DEF InIt

\* The device asks for the next step of a session it has heard of.
LEMMA StepMerges ==
    ASSUME Inv, Keyed, Merge, NEW c \in Clients, NEW x, work' = [work EXCEPT ![c] = x],
           UNCHANGED <<base, undo, serverVars>>, NEW s, NEW body, Ask(c, s, body),
           s.key = sync[c].key, s.at \in SessionOps, ~s.differ,
           s.at \notin {"chunk", "apply", "sanity", "finish"} => s.clash = {},
           Heard(c), answer[c] # NoAnswer, x.scm = 0,
           InIt(c) => Stage(base[c], x, s, NoAnswer, {body}, server, draft, session)
    PROVE  Merge'
  <1>1. Side(base[c], work[c], sync[c], answer[c], server) BY SettingOf
  <1>2. OnlyDevice(c) /\ work'[c] = x BY Functions DEF OnlyDevice, IsFcn
  <1>3. s.at \in Ops \ ({"abort"} \cup Sides) BY DEF Ops, Steps, Sides, SessionOps
  <1>4. Side(base[c], x, s, NoAnswer, server) BY <1>1, <1>3 DEF Side, Ops
  <1>5. Asked(base[c], s, {body}) BY DEF Asked, SessionOps
  <1>6. sync[c].at \notin {"abort", "idle"} BY DEF Heard, Answered, SessionOps
  <1> QED BY <1>2, <1>3, <1>4, <1>5, <1>6, AskMerges

\* What the changes of a device are sent from
Gathering(b, x, s, graves, v, d, ss) ==
    /\ Numbers(b, s, v, ss) /\ ss.ids = {Unsent}
    /\ GravesDone(b, v, d) /\ x.rows = b.rows /\ graves = PendingGraves(v, b.usn)

LEMMA SendChangesMerges ==
    ASSUME Inv, Keyed, Merge, NEW c \in Clients, NEW x \in DeviceCollection(clock), x.scm = 0,
           NEW graves \in SUBSET Objects, SendChanges(c, x, graves), UNCHANGED <<base, undo, serverVars>>,
           Heard(c), sync[c].at \in {"start", "graves"}, answer[c] # NoAnswer,
           InIt(c) => /\ Setting(clock, base[c], x, server, draft)
                      /\ Gathering(base[c], x, sync[c], graves, server, draft, session)
    PROVE  Merge'
  <1> DEFINE b == base[c]
             n == sync[c].usn
             y == ApplyGraves(x, graves, n)
             mine == PendingRows(y, Decks, Unsent)
             z == WithUsn(y, mine, n)
             s == [sync[c] EXCEPT !.at = "changes", !.held = {}]
             conf == IF s.newer THEN z.conf ELSE Unsent
             body == [decks |-> Entries(z, mine), conf |-> conf]
  <1>1. /\ clock \in Nat /\ sync[c] \in SyncRecord
        /\ Side(b, work[c], sync[c], answer[c], server)
    BY SettingOf
  <1>2. work' = [work EXCEPT ![c] = z] /\ Ask(c, s, body) BY DEF SendChanges, WithUsn
  <1>3. n \in Nat BY <1>1 DEF SyncRecord
  <1>4. /\ s.at = "changes" /\ s.key = sync[c].key /\ s.clash = sync[c].clash
        /\ s.differ = sync[c].differ /\ s.usn = n /\ s.newer = sync[c].newer
    BY <1>1 DEF SyncRecord
  <1>5. y \in DeviceCollection(clock)
    <2>1. n \in MarkedGraves BY <1>3 DEF MarkedGraves
    <2> QED BY <1>1, <2>1, Buried DEF DeviceCollection
  <1>6. Beside(y, x) BY <1>1, GravesApplied
  <1>7. Beside(z, y) BY <1>1, <1>5, RowsNumbered
  <1>8. body.decks = Entries(z, mine) /\ body.conf = IF s.newer THEN z.conf ELSE Unsent OBVIOUS
  <1> HIDE DEF y, z, mine, s, body
  <1>9. ASSUME InIt(c)
        PROVE  Stage(b, z, s, NoAnswer, {body}, server, draft, session)
    <2>1. /\ Setting(clock, b, x, server, draft)
          /\ n = server.usn /\ session.ids = {Unsent} /\ GravesDone(b, server, draft)
          /\ x.rows = b.rows /\ graves = PendingGraves(server, b.usn)
          /\ Numbers(b, s, server, session)
      BY <1>4, <1>9 DEF Gathering, Numbers
    <2>2. /\ Common(b, y, server, draft) /\ Present(y, draft)
          /\ CardsToCome(y, draft, PendingRows(draft, Cards, b.usn))
          /\ \A o \in Objects : Has(y, o) => y.rows[o] = b.rows[o]
      BY <1>1, <2>1, GravesTaken DEF y
    <2>3. Setting(clock, b, y, server, draft) BY <1>5, <2>1, <2>2 DEF Setting
    <2>4. Untouched(draft, server, Objects) BY <2>1 DEF GravesDone
    <2>5. /\ Common(b, z, server, draft) /\ Present(z, draft) /\ Untouched(draft, server, Cards)
          /\ CardsToCome(z, draft, PendingRows(draft, Cards, b.usn))
          /\ mine = {o \in Decks : Has(z, o) /\ Marked(b, o)}
          /\ \A o \in Decks : At(z, o) > 0 => At(z, o) = At(b, o)
          /\ \A o \in Decks : Has(z, o) /\ Marked(b, o) => z.rows[o].usn = server.usn
      BY <1>1, <2>1, <2>2, <2>3, <2>4, DecksNumbered DEF z, mine
    <2>6. Untouched(draft, server, Decks) BY <2>4 DEF Untouched, Objects
    <2>7. DecksSent(b, z, server, draft, s, {body})
      BY <1>8, <2>5, <2>6 DEF DecksSent
    <2>8. AtChanges(b, z, s, NoAnswer, {body}, server, draft, session)
      BY <2>1, <2>5, <2>7 DEF AtChanges, Got
    <2> QED BY <1>4, <2>1, <2>5, <2>8, CommonIsLoose DEF Stage
  <1>10. z.scm = 0 BY <1>6, <1>7 DEF Beside
  <1>11. s.clash = {} /\ ~s.differ /\ s.at \in SessionOps
    BY <1>1, <1>4 DEF Side, SessionOps
  <1> QED BY <1>2, <1>4, <1>9, <1>10, <1>11, StepMerges

LEMMA GotStartMerges ==
    ASSUME Inv, Keyed, Merge, NEW c \in Clients, GotStart(c)
    PROVE  Merge'
  <1> DEFINE b == base[c]
             w == work[c]
             mine == PendingGraves(w, Unsent)
             graves == [o \in Objects |-> IF o \in mine THEN sync[c].usn ELSE w.graves[o]]
             marked == [w EXCEPT !.graves = graves]
             s == [sync[c] EXCEPT !.at = "graves", !.held = answer[c].graves]
  <1>1. /\ clock \in Nat /\ w \in DeviceCollection(clock) /\ sync[c] \in SyncRecord
        /\ b \in DeviceCollection(clock) /\ Side(b, w, sync[c], answer[c], server)
    BY SettingOf
  <1>2. sync[c].at = "start" /\ answer[c] # NoAnswer /\ Got(answer[c]) /\ Heard(c)
    BY DEF GotStart, Answered, Heard, Got
  <1>3. answer[c].graves \in SUBSET Objects
    BY <1>1, <1>2, DeviceHas DEF AnswerOK, Got
  <1>4. UNCHANGED <<base, undo, serverVars>> BY DEF GotStart
  <1>5. w = b /\ sync[c].clash = {} /\ ~sync[c].differ /\ w.scm = 0
    BY <1>1, <1>2 DEF Side, SessionOps
  <1>6. mine = {o \in Objects : w.graves[o] = Unsent} BY PendingIsMarked
  <1>7. /\ marked.rows = w.rows /\ marked.scm = w.scm
        /\ \A o \in Objects : marked.graves[o] = IF w.graves[o] = Unsent
                                                 THEN sync[c].usn ELSE w.graves[o]
    BY <1>1, <1>6 DEF DeviceCollection, Collection
  <1>8. \/ mine = {} /\ SendChanges(c, marked, answer[c].graves)
        \/ mine # {} /\ work' = [work EXCEPT ![c] = marked] /\ Ask(c, s, mine)
    BY DEF GotStart
  <1>9. /\ s.at = "graves" /\ s.key = sync[c].key /\ s.clash = sync[c].clash
        /\ s.differ = sync[c].differ /\ s.usn = sync[c].usn /\ s.newer = sync[c].newer
        /\ s.held = answer[c].graves
    BY <1>1 DEF SyncRecord
  <1>10. ASSUME InIt(c)
         PROVE  /\ Setting(clock, b, w, server, draft) /\ Numbers(b, sync[c], server, session)
                /\ AtStart(b, answer[c], server, draft, session)
    BY <1>2, <1>10, SettingOf DEF Stage
  <1>11. CASE mine = {}
    <2>1. graves = w.graves BY <1>1, <1>11 DEF DeviceCollection, Collection
    <2>2. marked = w BY <1>1, <2>1 DEF DeviceCollection, Collection
    <2>3. SendChanges(c, w, answer[c].graves) BY <1>8, <1>11, <2>2
    <2>4. ASSUME InIt(c)
          PROVE  Gathering(b, w, sync[c], answer[c].graves, server, draft, session)
      <3>1. \A o \in Objects : b.graves[o] # Unsent BY <1>5, <1>6, <1>11
      <3>2. draft.rows = server.rows /\ answer[c].graves = PendingGraves(server, b.usn)
            /\ session.ids = {Unsent}
        BY <1>10, <2>4 DEF AtStart
      <3>3. GravesDone(b, server, draft)
        BY <3>1, <3>2 DEF GravesDone, Has, Untouched
      <3> QED BY <1>5, <1>10, <2>4, <3>2, <3>3 DEF Gathering
    <2> QED BY <1>1, <1>2, <1>3, <1>4, <1>5, <1>10, <2>3, <2>4, SendChangesMerges
  <1>12. CASE mine # {}
    <2>1. work' = [work EXCEPT ![c] = marked] /\ Ask(c, s, mine) BY <1>8, <1>12
    <2> HIDE DEF s, marked
    <2>2. ASSUME InIt(c)
          PROVE  Stage(b, marked, s, NoAnswer, {mine}, server, draft, session)
      <3>1. sync[c].usn = server.usn /\ Setting(clock, b, b, server, draft)
        BY <1>5, <1>10, <2>2 DEF Numbers
      <3>2. Common(b, marked, server, draft) BY <1>1, <1>5, <1>7, <3>1, GravesMarked
      <3>3. AtGraves(b, marked, s, NoAnswer, {mine}, server, draft, session)
        BY <1>5, <1>7, <1>9, <1>10, <2>2 DEF AtGraves, AtStart, Got
      <3>4. Numbers(b, s, server, session) BY <1>9, <1>10, <2>2 DEF Numbers
      <3> QED BY <1>9, <3>2, <3>3, <3>4, CommonIsLoose DEF Stage
    <2>3. marked.scm = 0 BY <1>5, <1>7
    <2>4. s.at \in SessionOps /\ s.clash = {} /\ ~s.differ BY <1>5, <1>9 DEF SessionOps
    <2> QED BY <1>2, <1>4, <1>9, <2>1, <2>2, <2>3, <2>4, StepMerges
  <1> QED BY <1>11, <1>12

LEMMA GotGravesMerges ==
    ASSUME Inv, Keyed, Merge, NEW c \in Clients, GotGraves(c)
    PROVE  Merge'
  <1>1. /\ clock \in Nat /\ work[c] \in DeviceCollection(clock) /\ sync[c] \in SyncRecord
        /\ Side(base[c], work[c], sync[c], answer[c], server)
    BY SettingOf
  <1>2. /\ sync[c].at = "graves" /\ answer[c] # NoAnswer /\ Got(answer[c]) /\ Heard(c)
        /\ SendChanges(c, work[c], sync[c].held) /\ UNCHANGED <<base, undo, serverVars>>
    BY DEF GotGraves, Answered, Heard, Got, SessionOps
  <1>3. sync[c].held \in SUBSET Objects BY <1>1, <1>2, DeviceHas DEF Progress
  <1>4. work[c].scm = 0 BY <1>1 DEF Side
  <1>5. ASSUME InIt(c)
        PROVE  /\ Setting(clock, base[c], work[c], server, draft)
               /\ Gathering(base[c], work[c], sync[c], sync[c].held, server, draft, session)
    <2>1. /\ Setting(clock, base[c], work[c], server, draft)
          /\ Numbers(base[c], sync[c], server, session)
          /\ AtGraves(base[c], work[c], sync[c], answer[c], Bodies(c), server, draft, session)
      BY <1>2, <1>5, SettingOf DEF Stage
    <2> QED BY <1>2, <2>1 DEF AtGraves, Gathering
  <1> QED BY <1>1, <1>2, <1>3, <1>4, <1>5, SendChangesMerges

LEMMA GotChangesMerges ==
    ASSUME PlainSyncs, Inv, Keyed, Merge, NEW c \in Clients, GotChanges(c)
    PROVE  Merge'
  <1> DEFINE b == base[c]
             w == work[c]
             e == answer[c].changes
             x == ApplyChanges(w, e)
             s == [sync[c] EXCEPT !.at = "chunk"]
  <1>1. MsPerSec = 1 BY DEF PlainSyncs
  <1>2. /\ clock \in Nat /\ w \in DeviceCollection(clock) /\ sync[c] \in SyncRecord
        /\ Side(b, w, sync[c], answer[c], server)
    BY SettingOf
  <1>3. sync[c].at = "changes" /\ answer[c] # NoAnswer /\ Got(answer[c]) /\ Heard(c)
    BY DEF GotChanges, Answered, Heard, Got, SessionOps
  <1>4. work' = [work EXCEPT ![c] = x] /\ Ask(c, s, {}) /\ UNCHANGED <<base, undo, serverVars>>
    BY DEF GotChanges
  <1>5. /\ s.at = "chunk" /\ s.key = sync[c].key /\ s.clash = sync[c].clash
        /\ s.differ = sync[c].differ /\ s.usn = sync[c].usn /\ s.newer = sync[c].newer
    BY <1>2 DEF SyncRecord
  <1>6. Beside(x, w) BY <1>2, ChangesTaken
  <1>7. s.clash = {} /\ ~s.differ /\ s.at \in SessionOps /\ x.scm = 0
    BY <1>2, <1>3, <1>5, <1>6 DEF Side, SessionOps, Beside
  <1> HIDE DEF s
  <1>8. ASSUME InIt(c)
        PROVE  Stage(b, x, s, NoAnswer, {{}}, server, draft, session)
    <2>1. /\ Setting(clock, b, w, server, draft) /\ Numbers(b, sync[c], server, session)
          /\ AtChanges(b, w, sync[c], answer[c], Bodies(c), server, draft, session)
      BY <1>3, <1>8, SettingOf DEF Stage
    <2>2. /\ session.ids = {Unsent} /\ Present(w, draft) /\ Untouched(draft, server, Cards)
          /\ CardsToCome(w, draft, PendingRows(draft, Cards, b.usn))
          /\ DecksToCome(b, w, server, draft, sync[c], e)
      BY <1>3, <2>1 DEF AtChanges
    <2>3. sync[c].newer \in BOOLEAN BY <1>2 DEF SyncRecord
    <2>4. /\ Common(b, x, server, draft) /\ Present(x, draft) /\ x.conf = draft.conf
          /\ Alike(x, draft, Decks) /\ CardsToCome(x, draft, PendingRows(draft, Cards, b.usn))
      BY <1>1, <1>2, <2>1, <2>2, <2>3, ChangesMerged
    <2>5. Coming(b, NoAnswer, draft, session) = PendingRows(draft, Cards, b.usn)
      BY <2>2 DEF Coming, Got
    <2> HIDE DEF x
    <2>6. AtChunk(b, x, s, NoAnswer, server, draft, session)
      BY <1>7, <2>2, <2>4, <2>5 DEF AtChunk, Got
    <2>7. Numbers(b, s, server, session) BY <1>5, <2>1 DEF Numbers
    <2> QED BY <1>5, <2>4, <2>6, <2>7, CommonIsLoose DEF Stage
  <1> QED BY <1>3, <1>4, <1>5, <1>7, <1>8, StepMerges

\* A chunk of the marked cards leaves the device.
LEMMA SendChunkMerges ==
    ASSUME Inv, Keyed, Merge, NEW c \in Clients, NEW t \in Nat,
           NEW x \in DeviceCollection(t), x.scm = 0,
           NEW ids, ids = MarkedCards(x), SendChunk(c, x, ids),
           UNCHANGED <<base, undo, serverVars>>, Heard(c), answer[c] # NoAnswer,
           InIt(c) => /\ Open(t, base[c], x, server, draft)
                      /\ Numbers(base[c], sync[c], server, session)
                      /\ Present(x, draft) /\ x.conf = draft.conf /\ Alike(x, draft, Decks)
                      /\ CardsToSend(x, draft, ids)
    PROVE  Merge'
  <1> DEFINE b == base[c]
             n == sync[c].usn
  <1>1. sync[c] \in SyncRecord /\ Side(b, work[c], sync[c], answer[c], server) BY SettingOf
  <1> SUFFICES ASSUME NEW take \in ChunksOf(ids),
                      work' = [work EXCEPT ![c] = WithUsn(x, take, n)],
                      Ask(c, [sync[c] EXCEPT !.at = "apply", !.held = ids \ take,
                                             !.last = IsLast(take), !.clash = {}],
                          Entries(WithUsn(x, take, n), take))
               PROVE  Merge'
    BY DEF SendChunk, WithUsn
  <1> DEFINE z == WithUsn(x, take, n)
             held == ids \ take
             s == [sync[c] EXCEPT !.at = "apply", !.held = held,
                                  !.last = IsLast(take), !.clash = {}]
             body == Entries(z, take)
  <1>2. take \in ChunksOf(ids) OBVIOUS
  <1>3. Beside(z, x) BY RowsNumbered
  <1>4. /\ s.at = "apply" /\ s.key = sync[c].key /\ s.clash = {} /\ s.held = held
        /\ s.differ = sync[c].differ /\ s.usn = n /\ s.newer = sync[c].newer
    BY <1>1 DEF SyncRecord
  <1>5. work' = [work EXCEPT ![c] = z] /\ Ask(c, s, body) OBVIOUS
  <1>6. ~s.differ /\ s.at \in SessionOps /\ z.scm = 0
    BY <1>1, <1>3, <1>4 DEF Side, SessionOps, Beside
  <1> HIDE DEF s, z, body
  <1>7. ASSUME InIt(c)
        PROVE  Stage(b, z, s, NoAnswer, {body}, server, draft, session)
    <2>1. /\ Open(t, b, x, server, draft) /\ Numbers(b, s, server, session)
          /\ Present(x, draft) /\ x.conf = draft.conf /\ Alike(x, draft, Decks)
          /\ CardsToSend(x, draft, ids) /\ n = server.usn
      BY <1>4, <1>7 DEF Numbers
    <2>2. /\ Loose(b, z, server, draft) /\ Present(z, draft) /\ z.conf = draft.conf
          /\ Alike(z, draft, Decks)
          /\ CardsSent(z, server, body) /\ CardsToSend(z, draft, held \cup DOMAIN body)
      <3>1. z = WithUsn(x, take, server.usn) BY <2>1 DEF z
      <3> QED BY <1>2, <2>1, <3>1, ChunkNumbered DEF body
    <2>3. AtApply(z, s, NoAnswer, {body}, server, draft)
      BY <1>4, <2>2 DEF AtApply, Got
    <2> QED BY <1>4, <2>1, <2>2, <2>3 DEF Stage
  <1> QED BY <1>4, <1>5, <1>6, <1>7, StepMerges

\* What the device has merged with a chunk it has been sent
LEMMA ChunkCame ==
    ASSUME PlainSyncs, Inv, Merge, NEW c \in Clients, GotChunk(c),
           NEW merged, merged = MergeCards(work[c], answer[c].cards, Unsent)
    PROVE  /\ merged \in DeviceCollection(clock) /\ merged.scm = 0
           /\ InIt(c) =>
                /\ Setting(clock, base[c], merged, server, draft)
                /\ Numbers(base[c], sync[c], server, session)
                /\ AtChunk(base[c], work[c], sync[c], answer[c], server, draft, session)
                /\ Present(merged, draft) /\ merged.conf = draft.conf /\ Alike(merged, draft, Decks)
                /\ CardsToCome(merged, draft, StillToGather(base[c], draft, session))
                /\ answer[c].last => StillToGather(base[c], draft, session) = {}
  <1> DEFINE b == base[c]
             w == work[c]
             a == answer[c]
  <1>1. MsPerSec = 1 BY DEF PlainSyncs
  <1>2. /\ clock \in Nat /\ w \in DeviceCollection(clock) /\ sync[c] \in SyncRecord
        /\ Side(b, w, sync[c], a, server)
    BY SettingOf
  <1>3. sync[c].at = "chunk" /\ a # NoAnswer /\ Got(a)
    BY DEF GotChunk, Answered, Got
  <1>4. IsEntries(a.cards, Cards, clock)
    BY <1>2, <1>3, DeviceHas DEF AnswerOK, Got
  <1>5. merged \in DeviceCollection(clock)
    <2>1. Row(clock) \subseteq MarkedRow(clock) BY DEF Row, MarkedRow
    <2> QED BY <1>2, <1>4, <2>1, CardsMerged DEF DeviceCollection
  <1>6. Beside(merged, w) BY <1>2, CardsTaken
  <1>7. merged.scm = 0 BY <1>2, <1>6 DEF Side, Beside
  <1>8. ASSUME InIt(c)
        PROVE  /\ Setting(clock, b, merged, server, draft)
               /\ Numbers(b, sync[c], server, session)
               /\ AtChunk(b, w, sync[c], a, server, draft, session)
               /\ Present(merged, draft) /\ merged.conf = draft.conf /\ Alike(merged, draft, Decks)
               /\ CardsToCome(merged, draft, StillToGather(b, draft, session))
               /\ a.last => StillToGather(b, draft, session) = {}
    <2>1. /\ Setting(clock, b, w, server, draft) /\ Numbers(b, sync[c], server, session)
          /\ AtChunk(b, w, sync[c], a, server, draft, session)
      BY <1>3, <1>8, SettingOf DEF Stage
    <2>2. /\ Common(b, merged, server, draft)
          /\ Present(merged, draft) /\ merged.conf = draft.conf /\ Alike(merged, draft, Decks)
          /\ CardsToCome(merged, draft, StillToGather(b, draft, session))
      BY <1>1, <1>2, <1>3, <2>1, ChunkMerged
    <2>3. Setting(clock, b, merged, server, draft) BY <1>5, <2>1, <2>2 DEF Setting
    <2>4. a.last => StillToGather(b, draft, session) = {}
      BY <1>3, <2>1 DEF AtChunk, StillToGather
    <2> QED BY <2>1, <2>2, <2>3, <2>4
  <1> QED BY <1>5, <1>7, <1>8

LEMMA GotChunkMerges ==
    ASSUME PlainSyncs, Inv, Keyed, Merge, NEW c \in Clients, GotChunk(c)
    PROVE  Merge'
  <1> DEFINE b == base[c]
             w == work[c]
             a == answer[c]
             merged == MergeCards(w, a.cards, Unsent)
             clash == Clashes(c)
             s == [sync[c] EXCEPT !.clash = clash]
  <1>2. /\ clock \in Nat /\ sync[c] \in SyncRecord /\ Side(b, w, sync[c], a, server)
        /\ Now \in Nat /\ Now > clock
    BY SettingOf, Ticks DEF Now
  <1>3. sync[c].at = "chunk" /\ a # NoAnswer /\ Got(a) /\ Heard(c)
    BY DEF GotChunk, Answered, Heard, Got, SessionOps
  <1>5. merged \in DeviceCollection(clock) /\ merged.scm = 0 BY ChunkCame
  <1>7. ~sync[c].differ BY <1>2 DEF Side
  <1>8. UNCHANGED <<base, undo, serverVars>> BY DEF GotChunk
  <1>9. \/ ~a.last /\ work' = [work EXCEPT ![c] = merged] /\ Ask(c, s, {})
        \/ /\ a.last
           /\ \E fix \in SUBSET {o \in Cards : Has(merged, o)} :
                SendChunk(c, Reconciled(merged, fix),
                          PendingRows(Reconciled(merged, fix), Cards, Unsent))
    BY DEF GotChunk
  <1>11. ASSUME InIt(c)
         PROVE  /\ Setting(clock, b, merged, server, draft) /\ Numbers(b, sync[c], server, session)
                /\ AtChunk(b, w, sync[c], a, server, draft, session)
                /\ Present(merged, draft) /\ merged.conf = draft.conf /\ Alike(merged, draft, Decks)
                /\ CardsToCome(merged, draft, StillToGather(b, draft, session))
                /\ a.last => StillToGather(b, draft, session) = {}
    BY <1>11, ChunkCame
  <1> HIDE DEF merged, clash
  <1>12. CASE ~a.last
    <2>1. work' = [work EXCEPT ![c] = merged] /\ Ask(c, s, {}) BY <1>9, <1>12
    <2>2. /\ s.at = "chunk" /\ s.key = sync[c].key /\ s.clash = clash
          /\ s.differ = sync[c].differ /\ s.usn = sync[c].usn /\ s.newer = sync[c].newer
      BY <1>2, <1>3 DEF SyncRecord
    <2> HIDE DEF s
    <2>3. ASSUME InIt(c)
          PROVE  Stage(b, merged, s, NoAnswer, {{}}, server, draft, session)
      <3>1. Coming(b, NoAnswer, draft, session) = StillToGather(b, draft, session)
        BY DEF Coming, Got, StillToGather
      <3>2. AtChunk(b, merged, s, NoAnswer, server, draft, session)
        BY <1>11, <2>2, <2>3, <3>1 DEF AtChunk, Got
      <3>3. Common(b, merged, server, draft) /\ Numbers(b, s, server, session)
        BY <1>11, <2>2, <2>3 DEF Setting, Numbers
      <3> QED BY <2>2, <3>2, <3>3, CommonIsLoose DEF Stage
    <2>4. s.at \in SessionOps /\ ~s.differ BY <1>7, <2>2 DEF SessionOps
    <2> QED BY <1>3, <1>5, <1>8, <2>1, <2>2, <2>3, <2>4, StepMerges
  <1>13. ASSUME a.last, NEW fix \in SUBSET {o \in Cards : Has(merged, o)},
                SendChunk(c, Reconciled(merged, fix),
                          PendingRows(Reconciled(merged, fix), Cards, Unsent)),
                NEW t, t = IF fix = {} THEN clock ELSE Now
         PROVE  Merge'
    <2> DEFINE x == Reconciled(merged, fix)
    <2>1. t \in Nat /\ clock <= t /\ (fix # {} => Now > clock) BY <1>2, <1>13
    <2>2. x \in DeviceCollection(t)
      <3>1. CASE fix = {} BY <1>2, <1>5, <1>13, <3>1, NothingReconciled
      <3>2. CASE fix # {}
        <4>1. t = Now /\ Now \in 1..t /\ t > 0 BY <1>2, <1>13, <3>2
        <4>2. merged \in DeviceCollection(t) BY <1>2, <1>5, <2>1, CollectionsStay
        <4> QED BY <2>1, <4>1, <4>2, ReconciledIsCollection
      <3> QED BY <3>1, <3>2
    <2>3. PendingRows(x, Cards, Unsent) = MarkedCards(x) BY PendingIsMarked DEF MarkedCards
    <2>4. SendChunk(c, x, MarkedCards(x)) BY <1>13, <2>3
    <2>5. Beside(x, merged) BY <1>2, <1>5, CardsReconciled
    <2>6. x.scm = 0 BY <1>5, <2>5 DEF Beside
    <2>7. ASSUME InIt(c)
          PROVE  /\ Open(t, b, x, server, draft)
                 /\ Present(x, draft) /\ x.conf = draft.conf /\ Alike(x, draft, Decks)
                 /\ CardsToSend(x, draft, MarkedCards(x))
      <3>1. StillToGather(b, draft, session) = {} BY <1>11, <1>13, <2>7
      <3>2. CardsToCome(merged, draft, {}) BY <1>11, <2>7, <3>1
      <3>4. /\ Loose(b, x, server, draft)
            /\ Present(x, draft) /\ x.conf = draft.conf /\ Alike(x, draft, Decks)
            /\ CardsToSend(x, draft, MarkedCards(x))
        BY <1>2, <1>11, <2>1, <2>7, <3>2, CardsMadeAnew
      <3>5. /\ b \in DeviceCollection(t) /\ server \in ServerCollection(t)
            /\ draft \in ServerCollection(t)
        BY <1>2, <1>11, <2>1, <2>7, CollectionsStay DEF Setting
      <3> HIDE DEF x
      <3>6. Open(t, b, x, server, draft) BY <1>11, <2>2, <2>7, <3>4, <3>5 DEF Setting, Open
      <3> QED BY <3>4, <3>6
    <2> HIDE DEF x
    <2> QED BY <1>3, <1>8, <1>11, <2>1, <2>2, <2>4, <2>6, <2>7, SendChunkMerges
  <1> QED BY <1>9, <1>12, <1>13

LEMMA GotApplyMerges ==
    ASSUME Inv, Keyed, Merge, NEW c \in Clients, GotApply(c)
    PROVE  Merge'
  <1> DEFINE b == base[c]
             w == work[c]
             a == answer[c]
             s == [sync[c] EXCEPT !.at = "sanity"]
  <1>1. /\ clock \in Nat /\ w \in DeviceCollection(clock) /\ sync[c] \in SyncRecord
        /\ Side(b, w, sync[c], a, server)
    BY SettingOf
  <1>2. sync[c].at = "apply" /\ a # NoAnswer /\ Got(a) /\ Heard(c)
        /\ UNCHANGED <<base, undo, serverVars>>
    BY DEF GotApply, Answered, Heard, Got, SessionOps
  <1>3. sync[c].held = MarkedCards(w) /\ (sync[c].last => sync[c].held = {})
    BY <1>1, <1>2, DeviceHas DEF Progress, MarkedCards
  <1>4. w.scm = 0 /\ ~sync[c].differ BY <1>1 DEF Side
  <1>5. ASSUME InIt(c)
        PROVE  /\ Open(clock, b, w, server, draft) /\ Numbers(b, sync[c], server, session)
               /\ Present(w, draft) /\ w.conf = draft.conf /\ Alike(w, draft, Decks)
               /\ CardsToSend(w, draft, sync[c].held)
    <2>1. /\ Open(clock, b, w, server, draft) /\ Numbers(b, sync[c], server, session)
          /\ AtApply(w, sync[c], a, Bodies(c), server, draft)
      BY <1>2, <1>5, SettingOf DEF Stage
    <2> QED BY <1>2, <2>1 DEF AtApply
  <1>6. CASE sync[c].last
    <2>1. Ask(c, s, Counts(w)) /\ work' = work BY <1>6 DEF GotApply
    <2>2. work' = [work EXCEPT ![c] = w] BY <2>1, Functions DEF IsFcn
    <2>3. /\ s.at = "sanity" /\ s.key = sync[c].key
          /\ s.differ = sync[c].differ /\ s.usn = sync[c].usn /\ s.newer = sync[c].newer
      BY <1>1 DEF SyncRecord
    <2> HIDE DEF s
    <2>4. ASSUME InIt(c)
          PROVE  Stage(b, w, s, NoAnswer, {Counts(w)}, server, draft, session)
      <3>1. CardsToSend(w, draft, {}) BY <1>3, <1>5, <1>6, <2>4
      <3>2. Alike(w, draft, Objects) BY <1>5, <2>4, <3>1, NothingHeld
      <3>3. AtEnd(w, s, {Counts(w)}, draft) BY <1>5, <2>4, <3>2 DEF AtEnd
      <3>4. Loose(b, w, server, draft) /\ Numbers(b, s, server, session)
        BY <1>5, <2>3, <2>4 DEF Open, Numbers
      <3> QED BY <2>3, <3>3, <3>4 DEF Stage
    <2>5. s.at \in SessionOps /\ ~s.differ BY <1>4, <2>3 DEF SessionOps
    <2> QED BY <1>2, <1>4, <2>1, <2>2, <2>3, <2>4, <2>5, StepMerges
  <1>7. CASE ~sync[c].last
    <2>1. SendChunk(c, w, sync[c].held) BY <1>7 DEF GotApply
    <2> QED BY <1>1, <1>2, <1>3, <1>4, <1>5, <2>1, SendChunkMerges
  <1> QED BY <1>6, <1>7

LEMMA GotSanityMerges ==
    ASSUME Inv, Keyed, Merge, NEW c \in Clients, GotSanity(c)
    PROVE  Merge'
  <1> DEFINE b == base[c]
             w == work[c]
             s == [sync[c] EXCEPT !.at = "finish"]
  <1>1. sync[c] \in SyncRecord /\ Side(b, w, sync[c], answer[c], server) BY SettingOf
  <1>2. /\ sync[c].at = "sanity" /\ answer[c] # NoAnswer /\ Heard(c) /\ Ask(c, s, {})
        /\ UNCHANGED <<base, undo, serverVars>> /\ work' = work
    BY DEF GotSanity, Answered, Heard, SessionOps
  <1>3. work' = [work EXCEPT ![c] = w] BY <1>2, Functions DEF IsFcn
  <1>4. /\ s.at = "finish" /\ s.key = sync[c].key
        /\ s.differ = sync[c].differ /\ s.usn = sync[c].usn /\ s.newer = sync[c].newer
    BY <1>1 DEF SyncRecord
  <1> HIDE DEF s
  <1>5. ASSUME InIt(c)
        PROVE  Stage(b, w, s, NoAnswer, {{}}, server, draft, session)
    <2>1. /\ Open(clock, b, w, server, draft) /\ Numbers(b, sync[c], server, session)
          /\ AtEnd(w, sync[c], Bodies(c), draft)
      BY <1>2, <1>5, SettingOf DEF Stage
    <2>2. AtEnd(w, s, {{}}, draft) BY <1>4, <2>1 DEF AtEnd
    <2>3. Loose(b, w, server, draft) /\ Numbers(b, s, server, session)
      BY <1>4, <2>1 DEF Open, Numbers
    <2> QED BY <1>4, <2>2, <2>3 DEF Stage
  <1>6. s.at \in SessionOps /\ ~s.differ /\ w.scm = 0 BY <1>1, <1>4 DEF Side, SessionOps
  <1> QED BY <1>2, <1>3, <1>4, <1>5, <1>6, StepMerges

LEMMA DeviceMerges ==
    ASSUME PlainSyncs, Inv, Keyed, Merge, NEW c \in Clients,
           \/ User(c) \/ Begin(c) \/ Device(c) \/ Timeout(c) \/ Interrupt(c)
           \/ Upload(c) \/ Download(c)
    PROVE  Merge'
  <1>1. Side(base[c], work[c], sync[c], answer[c], server) BY SettingOf
  <1>2. /\ ~GotOtherSchema(c) /\ ~GotMismatch(c) /\ ~GotUpload(c) /\ ~GotDownload(c)
        /\ ~Upload(c) /\ ~Download(c)
    BY <1>1 DEF Side, Sides, Answered, GotOtherSchema, GotMismatch, GotUpload, GotDownload,
                Upload, Download
  <1>3. CASE GotConflict(c) BY <1>3, FailureMerges DEF GotConflict
  <1>4. CASE Timeout(c) BY <1>4, FailureMerges DEF Timeout
  <1>5. CASE Device(c)
    BY <1>2, <1>3, <1>5, GotSameMetaMerges, GotMetaMerges, GotStartMerges, GotGravesMerges,
       GotChangesMerges, GotChunkMerges, GotApplyMerges, GotSanityMerges, GotFinishMerges,
       GotAbortMerges DEF Device
  <1> QED BY <1>2, <1>4, <1>5, UserMerges, BeginMerges, InterruptMerges

-----------------------------------------------------------------------------
(* The server.                                                             *)

\* The request a session waits for is the only one with its key.
LEMMA OnlyRequest ==
    ASSUME Keyed, NEW m \in Unanswered, m.op # "abort"
    PROVE  /\ m.key # NoKey /\ m.from \in Clients
           /\ \A n \in Unanswered : n.op # "abort" /\ n.key = m.key => n = m
           /\ \A c \in Clients : sync[c].key = m.key /\ sync[c].at # "abort" =>
                m.from = c /\ Live(m)
  BY DEF Keyed, KeysKept, Posted, Live

LEMMA Served ==
    ASSUME Inv, Keyed, NEW m \in net, NEW a, Answer(m, a), sync' = sync
    PROVE  /\ \A c \in Clients : m.from # c \/ ~Live(m) =>
                answer'[c] = answer[c] /\ Requests(c)' = Requests(c)
           /\ m.from \in Clients
           /\ Live(m) => answer'[m.from] = a
           /\ Live(m) /\ m.op # "abort" => Requests(m.from)' = {}
           /\ \A c \in Clients : Requests(c)' \subseteq Requests(c)
           /\ net' = net \ {m}
  <1>1. /\ net' = net \ {m}
        /\ answer' = IF Live(m) THEN [answer EXCEPT ![m.from] = a] ELSE answer
    BY DEF Answer
  <1>2. m.from \in Clients BY DEF Inv, MessageOK
  <1>3. \A n : Live(n)' <=> Live(n) BY DEF Live
  <1>4. /\ Live(m) => answer'[m.from] = a
        /\ \A c \in Clients : m.from # c \/ ~Live(m) => answer'[c] = answer[c]
    BY <1>1, <1>2, Functions DEF IsFcn
  <1>5. \A c \in Clients : m.from # c \/ ~Live(m) => Requests(c)' = Requests(c)
    BY <1>1, <1>3 DEF Requests
  <1>6. \A c \in Clients : Requests(c)' \subseteq Requests(c) BY <1>1, <1>3 DEF Requests
  <1>7. ASSUME Live(m), m.op # "abort" PROVE Requests(m.from)' = {}
    <2>1. m \in Unanswered BY DEF Unanswered
    <2>2. \A n \in net : n.op # "abort" /\ n.key = m.key => n = m
      BY <1>7, <2>1, OnlyRequest DEF Unanswered
    <2> QED BY <1>1, <1>3, <1>7, <2>2 DEF Requests, Live
  <1> QED BY <1>1, <1>2, <1>4, <1>5, <1>6, <1>7

\* The server answers a request and commits nothing.
LEMMA AnswerMerges ==
    ASSUME Inv, Keyed, Merge, NEW m \in net, NEW a, Answer(m, a), unstamped = NoRequest,
           UNCHANGED <<base, work, sync, server, unstamped>>,
           a.ok => /\ m.op = "meta" => a.scm = 0
                   /\ m.op = "sanity" /\ Live(m) => a.agrees
                   /\ m.op # "finish",
           \/ session'.key = NoKey
           \/ m.op # "abort" /\ ~a.ok /\ m.key # session.key /\ UNCHANGED <<session, draft>>
           \/ /\ m.op # "abort" /\ session'.key = m.key
              /\ Live(m) /\ InIt(m.from)' =>
                   Stage(base[m.from], work[m.from], sync[m.from], a, {}, server, draft', session')
    PROVE  Merge'
  <1>1. /\ m.from \in Clients /\ net' = net \ {m} /\ (Live(m) => answer'[m.from] = a)
        /\ Live(m) /\ m.op # "abort" => Requests(m.from)' = {}
        /\ \A c \in Clients : Requests(c)' \subseteq Requests(c)
        /\ \A c \in Clients : m.from # c \/ ~Live(m) =>
             answer'[c] = answer[c] /\ Requests(c)' = Requests(c)
    BY Served
  <1>2. \A n \in net' : n.op \notin Sides BY <1>1 DEF Merge
  <1>3. ASSUME NEW c \in Clients
        PROVE  /\ Side(base'[c], work'[c], sync'[c], answer'[c], server')
               /\ Asked(base'[c], sync'[c], Bodies(c)')
               /\ HasCommitted(c)' => Behind(work'[c], sync'[c].usn + 1, server')
    <2>1. MergeOf(c) BY DEF Merge
    <2>2. Side(base[c], work[c], sync[c], answer'[c], server)
      <3>1. CASE m.from = c /\ Live(m) BY <1>1, <2>1, <3>1 DEF MergeOf, Side, Live
      <3>2. CASE ~(m.from = c /\ Live(m)) BY <1>1, <2>1, <3>2 DEF MergeOf
      <3> QED BY <3>1, <3>2
    <2>3. Asked(base[c], sync[c], Bodies(c)') BY <1>1, <2>1 DEF MergeOf, Asked, Bodies
    <2>4. HasCommitted(c)' => HasCommitted(c)
      <3>1. CASE m.from = c /\ Live(m)
        BY <1>1, <3>1, KeyNotDevice DEF HasCommitted, Answered, Live, NoRequest
      <3>2. CASE ~(m.from = c /\ Live(m)) BY <1>1, <3>2 DEF HasCommitted, Answered
      <3> QED BY <3>1, <3>2
    <2> QED BY <2>1, <2>2, <2>3, <2>4 DEF MergeOf
  <1>4. CASE session'.key = NoKey
    <2>1. \A c \in Clients : ~InIt(c)' BY <1>4 DEF InIt
    <2>2. \A n \in net' : ~Finishing(n)'
      BY <1>1, <1>4 DEF Finishing, Keyed, KeysKept, Posted, Unanswered
    <2> QED BY <1>2, <1>3, <2>1, <2>2 DEF Merge, MergeOf
  <1>5. CASE m.op # "abort" /\ ~a.ok /\ m.key # session.key /\ UNCHANGED <<session, draft>>
    <2>1. ASSUME NEW c \in Clients, InIt(c)'
          PROVE  Stage(base[c], work[c], sync[c], answer'[c], Bodies(c)', server, draft, session)
      <3>1. ~(m.from = c /\ Live(m)) BY <1>5, <2>1 DEF InIt, Live
      <3>2. answer'[c] = answer[c] /\ Bodies(c)' = Bodies(c) BY <1>1, <3>1 DEF Bodies
      <3>3. InIt(c) BY <1>5, <2>1, <3>2 DEF InIt, Heard, Answered
      <3> QED BY <3>2, <3>3 DEF Merge, MergeOf
    <2>2. \A n \in net' : Finishing(n)' => Ready(server', draft')
      BY <1>1, <1>5 DEF Merge, Finishing
    <2> QED BY <1>2, <1>3, <1>5, <2>1, <2>2 DEF Merge, MergeOf
  <1>6. CASE /\ m.op # "abort" /\ session'.key = m.key
             /\ Live(m) /\ InIt(m.from)' =>
                  Stage(base[m.from], work[m.from], sync[m.from], a, {}, server, draft', session')
    <2>1. m \in Unanswered /\ net \subseteq Unanswered BY DEF Unanswered
    <2>2. ASSUME NEW c \in Clients, InIt(c)'
          PROVE  Stage(base[c], work[c], sync[c], answer'[c], Bodies(c)', server, draft', session')
      <3>1. sync[c].key = m.key /\ sync[c].at # "abort"
        BY <1>6, <2>2 DEF InIt, Heard, Answered, SessionOps
      <3>2. m.from = c /\ Live(m) BY <1>6, <2>1, <3>1, OnlyRequest
      <3>3. answer'[c] = a /\ Bodies(c)' = {} BY <1>1, <1>6, <3>2 DEF Bodies
      <3> QED BY <1>6, <2>2, <3>2, <3>3
    <2>3. \A n \in net' : ~Finishing(n)'
      <3>1. ASSUME NEW n \in net', n.op = "finish", n.key = m.key PROVE FALSE
        BY <1>1, <1>6, <2>1, <3>1, OnlyRequest
      <3> QED BY <1>6, <3>1 DEF Finishing
    <2> QED BY <1>2, <1>3, <2>2, <2>3 DEF Merge, MergeOf
  <1> QED BY <1>4, <1>5, <1>6

-----------------------------------------------------------------------------
(* The server merges.                                                      *)

\* A request of the session that is open, of a device that waits for its answer
LEMMA Waits ==
    ASSUME Inv, Keyed, Merge, NEW m \in net, m.op \in SessionOps, unstamped = NoRequest,
           InSession(m), Live(m), NEW c, c = m.from
    PROVE  /\ c \in Clients /\ InIt(c) /\ clock \in Nat
           /\ sync[c] \in SyncRecord /\ sync[c].at = m.op
           /\ m.body \in Bodies(c) /\ ~Got(answer[c])
           /\ m.op \notin {"apply", "sanity", "finish"} =>
                Setting(clock, base[c], work[c], server, draft)
           /\ Open(clock, base[c], work[c], server, draft)
           /\ Numbers(base[c], sync[c], server, session)
           /\ Stage(base[c], work[c], sync[c], answer[c], Bodies(c), server, draft, session)
  <1>1. m \in Unanswered /\ m.op # "abort" BY DEF Unanswered, SessionOps
  <1>2. Posted(m) /\ c \in Clients BY <1>1 DEF Keyed, KeysKept, Posted
  <1>3. sync[c].at = m.op /\ sync[c].key = m.key BY DEF Live
  <1>4. m.key # NoKey /\ answer[c] = NoAnswer BY <1>1, <1>2, <1>3 DEF Posted
  <1>5. InIt(c) BY <1>3, <1>4 DEF InIt, Heard, InSession
  <1>6. m.body \in Bodies(c) BY DEF Bodies, Requests
  <1> QED BY <1>2, <1>3, <1>4, <1>5, <1>6, SettingOf DEF Got

LEMMA ServeMetaMerges ==
    ASSUME Inv, Keyed, Merge, NEW m \in net, ServeMeta(m)
    PROVE  Merge'
  <1> DEFINE a == [ok |-> TRUE, mod |-> server.mod, scm |-> server.scm,
                   usn |-> server.usn, empty |-> Empty(server)]
  <1>1. /\ Answer(m, a) /\ m.op = "meta" /\ unstamped = NoRequest /\ session'.key = NoKey
        /\ UNCHANGED <<base, work, sync, server, unstamped>>
    BY DEF ServeMeta, Serving, EndSession, NoSession, clientVars
  <1>2. a.scm = 0 BY DEF Merge
  <1> HIDE DEF a
  <1> QED BY <1>1, <1>2, AnswerMerges

LEMMA ServeAbortMerges ==
    ASSUME Inv, Keyed, Merge, NEW m \in net, ServeAbort(m)
    PROVE  Merge'
  <1> DEFINE a == [ok |-> TRUE]
  <1>1. /\ Answer(m, a) /\ m.op = "abort" /\ unstamped = NoRequest /\ session'.key = NoKey
        /\ UNCHANGED <<base, work, sync, server, unstamped>>
    BY DEF ServeAbort, Serving, EndSession, NoSession, clientVars
  <1> HIDE DEF a
  <1> QED BY <1>1, AnswerMerges

LEMMA RefuseMerges ==
    ASSUME Inv, Keyed, Merge, NEW m \in net, Refuse(m)
    PROVE  Merge'
  <1>1. /\ Answer(m, Conflict) /\ m.op # "abort" /\ unstamped = NoRequest /\ m.key # session.key
        /\ UNCHANGED <<base, work, sync, server, unstamped, session, draft>>
    BY DEF Refuse, Serving, SessionOps, InSession, clientVars, serverVars
  <1>2. ~Conflict.ok BY DEF Conflict
  <1> HIDE DEF Conflict
  <1> QED BY <1>1, <1>2, AnswerMerges

LEMMA ServeStartMerges ==
    ASSUME Inv, Keyed, Merge, NEW m \in net, ServeStart(m), ~crossed'
    PROVE  Merge'
  <1> DEFINE a == [ok |-> TRUE, graves |-> PendingGraves(server, m.body.usn)]
             ss == [NoSession EXCEPT !.key = m.key, !.usn = server.usn,
                                     !.client = m.body.usn, !.newer = m.body.newer]
             c == m.from
  <1>1. /\ Answer(m, a) /\ m.op = "start" /\ unstamped = NoRequest
        /\ session' = ss /\ draft' = server /\ (Live(m) => sync[c].usn = server.usn)
        /\ UNCHANGED <<base, work, sync, server, unstamped>>
    BY DEF ServeStart, Serving, Overtaken, clientVars
  <1>2. /\ ss.key = m.key /\ ss.usn = server.usn /\ ss.client = m.body.usn
        /\ ss.newer = m.body.newer /\ ss.ids = {Unsent}
    BY DEF NoSession
  <1>3. a.ok /\ a.graves = PendingGraves(server, m.body.usn) OBVIOUS
  <1> HIDE DEF a, ss, c
  <1>4. ASSUME Live(m)
        PROVE  Stage(base[c], work[c], sync[c], a, {}, server, server, ss)
    <2>1. c \in Clients BY DEF Inv, MessageOK, c
    <2>2. sync[c].at = "start" /\ m.body \in Bodies(c)
      BY <1>1, <1>4 DEF Live, Bodies, Requests, c
    <2>3. MergeOf(c) /\ Whole(server, server.usn) BY <2>1 DEF Merge
    <2>4. m.body.usn = base[c].usn /\ m.body.newer = sync[c].newer
      BY <2>2, <2>3 DEF MergeOf, Asked
    <2>5. work[c] = base[c] /\ Together(base[c], server)
      BY <2>2, <2>3 DEF MergeOf, Side, SessionOps
    <2>6. Numbers(base[c], sync[c], server, ss) BY <1>1, <1>2, <1>4, <2>4 DEF Numbers
    <2>7. clock \in Nat /\ base[c] \in DeviceCollection(clock) /\ server \in ServerCollection(clock)
      BY <2>1, DeviceHas DEF Inv
    <2>8. Common(base[c], work[c], server, server) BY <2>3, <2>5, <2>7, SessionBegins
    <2>9. AtStart(base[c], a, server, server, ss) BY <1>2, <1>3, <2>4 DEF AtStart
    <2> QED BY <2>2, <2>6, <2>8, <2>9, CommonIsLoose DEF Stage
  <1> QED BY <1>1, <1>2, <1>4, AnswerMerges DEF c

LEMMA ServeGravesMerges ==
    ASSUME Inv, Keyed, Merge, NEW m \in net, ServeGraves(m)
    PROVE  Merge'
  <1> DEFINE a == [ok |-> TRUE]
             e == ApplyGraves(draft, m.body, session.usn)
             c == m.from
  <1>1. /\ Answer(m, a) /\ m.op = "graves" /\ unstamped = NoRequest /\ InSession(m)
        /\ draft' = e
        /\ UNCHANGED <<base, work, sync, server, session, unstamped>>
    BY DEF ServeGraves, Serving, clientVars
  <1>2. Got(a)
    <2>1. a \in Answers BY DEF Answers
    <2> QED BY <2>1, SyncAssumption DEF Got
  <1> HIDE DEF a, e, c
  <1>3. ASSUME Live(m)
        PROVE  Stage(base[c], work[c], sync[c], a, {}, server, e, session)
    <2>1. /\ sync[c].at = "graves" /\ clock \in Nat /\ m.body \in Bodies(c) /\ ~Got(answer[c])
          /\ Setting(clock, base[c], work[c], server, draft)
          /\ Numbers(base[c], sync[c], server, session)
          /\ Stage(base[c], work[c], sync[c], answer[c], Bodies(c), server, draft, session)
      BY <1>1, <1>3, Waits DEF SessionOps, c
    <2>2. AtGraves(base[c], work[c], sync[c], answer[c], Bodies(c), server, draft, session)
      BY <2>1 DEF Stage
    <2>3. /\ draft.rows = server.rows /\ draft.graves = server.graves
          /\ m.body = PendingGraves(base[c], Unsent)
      BY <2>1, <2>2 DEF AtGraves
    <2>4. e = ApplyGraves(draft, PendingGraves(base[c], Unsent), server.usn)
      BY <2>1, <2>3 DEF e, Numbers
    <2>5. Common(base[c], work[c], server, e) /\ GravesDone(base[c], server, e)
      BY <2>1, <2>3, <2>4, GravesServed
    <2>6. AtGraves(base[c], work[c], sync[c], a, {}, server, e, session)
      BY <1>2, <2>2, <2>5 DEF AtGraves
    <2> QED BY <2>1, <2>5, <2>6, CommonIsLoose DEF Stage
  <1>4. m.op # "abort" BY <1>1
  <1> QED BY <1>1, <1>3, <1>4, AnswerMerges DEF c, InSession

LEMMA RowIsAny ==
    ASSUME NEW t \in Nat, NEW col \in ServerCollection(t), NEW objs, objs \subseteq Objects
    PROVE  Entries(col, objs) \in [objs -> AnyRow \cup {NoRow}]
  <1>1. \A o \in objs : col.rows[o] \in AnyRow \cup {NoRow}
    BY DEF ServerCollection, Collection, Row, AnyRow
  <1> QED BY <1>1 DEF Entries

LEMMA EntriesAreRows ==
    ASSUME NEW t \in Nat, NEW col \in ServerCollection(t), NEW all, all \subseteq Objects,
           NEW objs \in SUBSET all
    PROVE  Entries(col, objs) \in SomeRows(all)
  <1>1. Entries(col, objs) \in [objs -> AnyRow \cup {NoRow}] BY RowIsAny
  <1> QED BY <1>1 DEF SomeRows

LEMMA ServeChangesMerges ==
    ASSUME PlainSyncs, Inv, Keyed, Merge, NEW m \in net, ServeChanges(m)
    PROVE  Merge'
  <1> DEFINE changes == Changes(draft, session.client, ~session.newer)
             a == [ok |-> TRUE, changes |-> changes]
             e == ApplyChanges(draft, m.body)
             c == m.from
  <1>1. /\ Answer(m, a) /\ m.op = "changes" /\ unstamped = NoRequest /\ InSession(m)
        /\ draft' = e
        /\ UNCHANGED <<base, work, sync, server, session, unstamped>>
    BY DEF ServeChanges, Serving, clientVars
  <1>2. changes \in [decks : SomeRows(Decks), conf : Int]
    <2>1. clock \in Nat /\ draft \in ServerCollection(clock) BY DEF Inv
    <2> DEFINE mine == PendingRows(draft, Decks, session.client)
    <2>2. mine \in SUBSET Decks BY DEF PendingRows
    <2>3. draft.conf \in Int /\ Unsent \in Int BY <2>1 DEF ServerCollection, Collection, Unsent
    <2> HIDE DEF mine
    <2>4. Entries(draft, mine) \in SomeRows(Decks) BY <2>1, <2>2, EntriesAreRows DEF Objects
    <2> QED BY <2>3, <2>4 DEF Changes, mine
  <1> HIDE DEF changes
  <1>3. Got(a) /\ a.changes = changes
    <2>1. a \in Answers BY <1>2 DEF Answers
    <2> QED BY <2>1, SyncAssumption DEF Got
  <1> HIDE DEF a, e, c
  <1>4. ASSUME Live(m)
        PROVE  Stage(base[c], work[c], sync[c], a, {}, server, e, session)
    <2>1. /\ sync[c].at = "changes" /\ sync[c] \in SyncRecord
          /\ clock \in Nat /\ m.body \in Bodies(c) /\ ~Got(answer[c])
          /\ Setting(clock, base[c], work[c], server, draft)
          /\ Numbers(base[c], sync[c], server, session)
          /\ Stage(base[c], work[c], sync[c], answer[c], Bodies(c), server, draft, session)
      BY <1>1, <1>4, Waits DEF SessionOps, c
    <2>2. AtChanges(base[c], work[c], sync[c], answer[c], Bodies(c), server, draft, session)
      BY <2>1 DEF Stage
    <2>3. /\ session.ids = {Unsent} /\ Present(work[c], draft) /\ Untouched(draft, server, Cards)
          /\ CardsToCome(work[c], draft, PendingRows(draft, Cards, base[c].usn))
          /\ DecksSent(base[c], work[c], server, draft, sync[c], Bodies(c))
      BY <2>1, <2>2 DEF AtChanges
    <2>4. MsPerSec = 1 /\ sync[c].newer \in BOOLEAN BY <2>1 DEF PlainSyncs, SyncRecord
    <2>5. changes = Changes(draft, base[c].usn, ~sync[c].newer)
      BY <2>1 DEF Numbers, changes
    <2>6. /\ Common(base[c], work[c], server, e) /\ Present(work[c], e) /\ Untouched(e, server, Cards)
          /\ CardsToCome(work[c], e, PendingRows(e, Cards, base[c].usn))
          /\ DecksToCome(base[c], work[c], server, e, sync[c], changes)
      BY <2>1, <2>3, <2>4, <2>5, ChangesServed DEF e
    <2>7. AtChanges(base[c], work[c], sync[c], a, {}, server, e, session)
      BY <1>3, <2>3, <2>6 DEF AtChanges
    <2> QED BY <2>1, <2>6, <2>7, CommonIsLoose DEF Stage
  <1>5. m.op # "abort" BY <1>1
  <1>6. m.op # "meta" /\ m.op # "sanity" /\ m.op # "finish" BY <1>1
  <1>7. session'.key = m.key BY <1>1 DEF InSession
  <1> QED BY <1>1, <1>4, <1>5, <1>6, <1>7, AnswerMerges DEF c

LEMMA ServeChunkMerges ==
    ASSUME Inv, Keyed, Merge, NEW m \in net, ServeChunk(m)
    PROVE  Merge'
  <1> DEFINE ids == IF session.ids = {Unsent}
                    THEN PendingRows(draft, Cards, session.client) ELSE session.ids
             c == m.from
  <1>1. PICK take \in ChunksOf(ids) :
          /\ session' = [session EXCEPT !.ids = ids \ take]
          /\ Answer(m, [ok |-> TRUE, cards |-> Entries(draft, take), last |-> IsLast(take)])
    BY DEF ServeChunk
  <1> DEFINE a == [ok |-> TRUE, cards |-> Entries(draft, take), last |-> IsLast(take)]
             ss == [session EXCEPT !.ids = ids \ take]
  <1>2. /\ Answer(m, a) /\ m.op = "chunk" /\ unstamped = NoRequest /\ InSession(m)
        /\ session' = ss
        /\ UNCHANGED <<base, work, sync, server, draft, unstamped>>
    BY <1>1 DEF ServeChunk, Serving, clientVars
  <1>3. /\ ss.ids = ids \ take /\ ss.key = session.key /\ ss.usn = session.usn
        /\ ss.client = session.client /\ ss.newer = session.newer
    BY DEF Inv, SessionRecord
  <1>4. Got(a) /\ a.cards = Entries(draft, take) /\ a.last = IsLast(take)
    <2>1. clock \in Nat /\ draft \in ServerCollection(clock) BY DEF Inv
    <2>2. ids \subseteq Cards BY DEF Inv, SessionRecord, PendingRows
    <2>3. take \in SUBSET Cards BY <2>2 DEF ChunksOf
    <2>4. Entries(draft, take) \in SomeRows(Cards) BY <2>1, <2>3, EntriesAreRows DEF Objects
    <2>5. IsLast(take) \in BOOLEAN BY DEF IsLast
    <2>6. a \in Answers BY <2>4, <2>5 DEF Answers
    <2> QED BY <2>6, SyncAssumption DEF Got
  <1> HIDE DEF a, ss, c
  <1>5. ASSUME Live(m)
        PROVE  Stage(base[c], work[c], sync[c], a, {}, server, draft, ss)
    <2>1. /\ sync[c].at = "chunk" /\ clock \in Nat /\ ~Got(answer[c])
          /\ Setting(clock, base[c], work[c], server, draft)
          /\ Numbers(base[c], sync[c], server, session)
          /\ Stage(base[c], work[c], sync[c], answer[c], Bodies(c), server, draft, session)
      BY <1>2, <1>5, Waits DEF SessionOps, c
    <2>2. AtChunk(base[c], work[c], sync[c], answer[c], server, draft, session)
          /\ Common(base[c], work[c], server, draft)
      BY <2>1 DEF Stage
    <2>3. ids = StillToGather(base[c], draft, session) BY <2>1 DEF StillToGather, Numbers
    <2> HIDE DEF ids
    <2>4. AtChunk(base[c], work[c], sync[c], a, server, draft, ss)
      BY <1>3, <1>4, <2>1, <2>2, <2>3, ChunkServed
    <2>5. Numbers(base[c], sync[c], server, ss) BY <1>3, <2>1 DEF Numbers
    <2> QED BY <2>1, <2>2, <2>4, <2>5, CommonIsLoose DEF Stage
  <1>6. m.op # "abort" /\ m.op # "meta" /\ m.op # "sanity" /\ m.op # "finish" BY <1>2
  <1>7. session'.key = m.key BY <1>2, <1>3 DEF InSession
  <1> HIDE DEF ids
  <1> QED BY <1>2, <1>5, <1>6, <1>7, AnswerMerges DEF c

LEMMA ServeApplyMerges ==
    ASSUME PlainSyncs, Inv, Keyed, Merge, NEW m \in net, ServeApply(m)
    PROVE  Merge'
  <1> DEFINE a == [ok |-> TRUE]
             e == MergeCards(draft, m.body, session.client)
             c == m.from
  <1>1. /\ Answer(m, a) /\ m.op = "apply" /\ unstamped = NoRequest /\ InSession(m)
        /\ draft' = e
        /\ UNCHANGED <<base, work, sync, server, session, unstamped>>
    BY DEF ServeApply, Serving, clientVars
  <1>2. DOMAIN m.body \subseteq Cards BY <1>1 DEF Inv, MessageOK, IsEntries
  <1> HIDE DEF a, e, c
  <1>3. ASSUME Live(m)
        PROVE  Stage(base[c], work[c], sync[c], a, {}, server, e, session)
    <2>1. /\ sync[c].at = "apply" /\ clock \in Nat /\ m.body \in Bodies(c) /\ ~Got(answer[c])
          /\ Open(clock, base[c], work[c], server, draft)
          /\ Numbers(base[c], sync[c], server, session)
          /\ Stage(base[c], work[c], sync[c], answer[c], Bodies(c), server, draft, session)
      BY <1>1, <1>3, Waits DEF SessionOps, c
    <2>2. AtApply(work[c], sync[c], answer[c], Bodies(c), server, draft)
      BY <2>1 DEF Stage
    <2>3. /\ Present(work[c], draft) /\ work[c].conf = draft.conf /\ Alike(work[c], draft, Decks)
          /\ CardsSent(work[c], server, m.body)
          /\ CardsToSend(work[c], draft, sync[c].held \cup DOMAIN m.body)
      BY <2>1, <2>2 DEF AtApply
    <2>4. e = MergeCards(draft, m.body, base[c].usn) BY <2>1 DEF e, Numbers
    <2>5. /\ Loose(base[c], work[c], server, e) /\ Present(work[c], e)
          /\ work[c].conf = e.conf /\ Alike(work[c], e, Decks)
          /\ CardsToSend(work[c], e, sync[c].held)
      <3> DEFINE held == sync[c].held
      <3>1. MsPerSec = 1 BY DEF PlainSyncs
      <3>2. Open(clock, base[c], work[c], server, draft) /\ clock \in Nat BY <2>1
      <3> HIDE DEF held
      <3>3. CardsToSend(work[c], draft, held \cup DOMAIN m.body) BY <2>3 DEF held
      <3>4. /\ Loose(base[c], work[c], server, e) /\ Present(work[c], e)
            /\ work[c].conf = e.conf /\ Alike(work[c], e, Decks)
            /\ CardsToSend(work[c], e, held)
        BY <1>2, <2>3, <2>4, <3>1, <3>2, <3>3, ApplyServed
      <3> QED BY <3>4 DEF held
    <2>6. AtApply(work[c], sync[c], a, {}, server, e) BY <2>5 DEF AtApply
    <2> QED BY <2>1, <2>5, <2>6 DEF Stage
  <1>4. m.op # "abort" /\ m.op # "meta" /\ m.op # "sanity" /\ m.op # "finish" BY <1>1
  <1>5. session'.key = m.key BY <1>1 DEF InSession
  <1> QED BY <1>1, <1>3, <1>4, <1>5, AnswerMerges DEF c

LEMMA ServeSanityMerges ==
    ASSUME Inv, Keyed, Merge, NEW m \in net, ServeSanity(m)
    PROVE  Merge'
  <1> DEFINE agrees == m.body = Counts(draft)
             a == [ok |-> TRUE, agrees |-> agrees]
             c == m.from
  <1>1. /\ Answer(m, a) /\ m.op = "sanity" /\ unstamped = NoRequest /\ InSession(m)
        /\ (agrees => draft' = draft)
        /\ UNCHANGED <<base, work, sync, server, session, unstamped>>
    BY DEF ServeSanity, Serving, clientVars
  <1>2. a.agrees = agrees OBVIOUS
  <1> HIDE DEF a, c, agrees
  <1>3. ASSUME Live(m)
        PROVE  agrees /\ Stage(base[c], work[c], sync[c], a, {}, server, draft, session)
    <2>1. /\ sync[c].at = "sanity" /\ m.body \in Bodies(c)
          /\ Numbers(base[c], sync[c], server, session)
          /\ Stage(base[c], work[c], sync[c], answer[c], Bodies(c), server, draft, session)
      BY <1>1, <1>3, Waits DEF SessionOps, c
    <2>2. AtEnd(work[c], sync[c], Bodies(c), draft) /\ Loose(base[c], work[c], server, draft)
      BY <2>1 DEF Stage
    <2>3. m.body = Counts(work[c]) /\ Present(work[c], draft) BY <2>1, <2>2 DEF AtEnd
    <2>4. agrees BY <2>3, CountsAgree DEF agrees
    <2>5. AtEnd(work[c], sync[c], {}, draft) BY <2>2 DEF AtEnd
    <2> QED BY <2>1, <2>2, <2>4, <2>5 DEF Stage
  <1>4. m.op # "abort" /\ m.op # "meta" /\ m.op # "finish" BY <1>1
  <1>5. session'.key = m.key BY <1>1 DEF InSession
  <1>6. Live(m) => a.agrees /\ draft' = draft BY <1>1, <1>2, <1>3
  <1> QED BY <1>1, <1>3, <1>4, <1>5, <1>6, AnswerMerges DEF c

-----------------------------------------------------------------------------
(* The end of a session on the server.                                     *)

LEMMA ServeFinishMerges ==
    ASSUME Inv, Keyed, Merge, NEW m \in net, ServeFinish(m)
    PROVE  Merge'
  <1> DEFINE e == Bumped(draft)
  <1>1. /\ m.op = "finish" /\ unstamped = NoRequest /\ InSession(m)
        /\ server' = e /\ unstamped' = m /\ net' = net \ {m}
        /\ UNCHANGED <<base, work, sync, answer>>
    BY DEF ServeFinish, Serving, clientVars, Bumped
  <1>2. Ready(server, draft) BY <1>1 DEF Merge, Finishing, InSession
  <1>3. clock \in Nat /\ server \in ServerCollection(clock) /\ draft \in ServerCollection(clock)
    BY DEF Inv
  <1> HIDE DEF e
  <1>4. e.usn = server.usn + 1 /\ e.scm = server.scm /\ Whole(e, e.usn)
    BY <1>2, <1>3, Commit DEF e
  <1>5. unstamped' # NoRequest
    BY <1>1, KeyNotDevice DEF Inv, MessageOK, NoRequest
  <1>6. \A n \in net' : n.op \notin Sides /\ ~Finishing(n)' BY <1>1, <1>5 DEF Merge, Finishing
  <1>7. ASSUME NEW c \in Clients PROVE MergeOf(c)'
    <2>1. MergeOf(c) BY DEF Merge
    <2>2. base[c] \in DeviceCollection(clock) /\ work[c] \in DeviceCollection(clock)
          /\ sync[c] \in SyncRecord
      BY <1>3, SettingOf
    <2>3. Together(base[c], e)
      <3>1. Together(base[c], server) BY <2>1 DEF MergeOf, Side
      <3> QED BY <1>2, <1>3, <2>2, <3>1, CommitTogether DEF e
    <2>4. Side(base'[c], work'[c], sync'[c], answer'[c], server')
      BY <1>1, <2>1, <2>3 DEF MergeOf, Side
    <2>5. Asked(base'[c], sync'[c], Bodies(c)')
      <3>1. Bodies(c)' \subseteq Bodies(c) BY <1>1 DEF Bodies, Requests, Live
      <3> QED BY <1>1, <2>1, <3>1 DEF MergeOf, Asked
    <2>6. ~InIt(c)' BY <1>5 DEF InIt
    <2>7. ASSUME HasCommitted(c)' PROVE Behind(work[c], sync[c].usn + 1, e)
      <3>1. CASE HasCommitted(c)
        <4>1. Behind(work[c], sync[c].usn + 1, server) BY <2>1, <3>1 DEF MergeOf
        <4>2. sync[c].usn + 1 \in Nat BY <2>2 DEF SyncRecord
        <4> QED BY <1>2, <1>3, <2>2, <4>1, <4>2, CommitBehind DEF e
      <3>2. CASE ~HasCommitted(c)
        <4>1. m.from = c /\ sync[c].at = "finish"
          BY <1>1, <2>7, <3>2 DEF HasCommitted, Answered
        <4>2. m \in Unanswered /\ m.key = session.key /\ m.key # NoKey
          BY <1>1 DEF Unanswered, InSession, Keyed, KeysKept, Posted
        <4>3. Heard(c) BY <4>1 DEF Heard, SessionOps
        <4>4. sync[c].key = m.key BY <1>1, <4>1, <4>2, <4>3 DEF Keyed, Opened
        <4>5. Live(m) BY <1>1, <4>1, <4>4 DEF Live
        <4>6. /\ Open(clock, base[c], work[c], server, draft)
              /\ Numbers(base[c], sync[c], server, session)
              /\ Stage(base[c], work[c], sync[c], answer[c], Bodies(c), server, draft, session)
          BY <1>1, <4>1, <4>5, Waits DEF SessionOps
        <4>7. Present(work[c], draft) /\ Alike(work[c], draft, Objects)
          BY <4>1, <4>6 DEF Stage, AtEnd
        <4>8. Behind(work[c], server.usn + 1, e) BY <1>3, <4>6, <4>7, CommitHeard DEF e
        <4> QED BY <4>6, <4>8 DEF Numbers
      <3> QED BY <3>1, <3>2
    <2> QED BY <1>1, <2>4, <2>5, <2>6, <2>7 DEF MergeOf
  <1> QED BY <1>1, <1>4, <1>6, <1>7 DEF Merge

\* No session is open any more.
LEMMA ClosedMerges ==
    ASSUME Inv, Keyed, Merge, UNCHANGED <<base, work, sync>>,
           server'.scm = server.scm, server'.usn = server.usn,
           server'.rows = server.rows, server'.graves = server.graves,
           session'.key = NoKey, net' \subseteq net,
           \A c \in Clients :
             /\ answer'[c] = answer[c] \/ sync[c].at \notin {"meta", "sanity"}
             /\ HasCommitted(c)' => HasCommitted(c)
    PROVE  Merge'
  <1>1. ASSUME NEW c \in Clients PROVE MergeOf(c)'
    <2>1. MergeOf(c) BY DEF Merge
    <2>2. Together(base[c], server) => Together(base[c], server') BY SameRows
    <2>3. Side(base'[c], work'[c], sync'[c], answer'[c], server')
      BY <2>1, <2>2 DEF MergeOf, Side
    <2>4. Bodies(c)' \subseteq Bodies(c) BY DEF Bodies, Requests, Live
    <2>5. Asked(base'[c], sync'[c], Bodies(c)') BY <2>1, <2>4 DEF MergeOf, Asked
    <2>6. ~InIt(c)' BY DEF InIt
    <2>7. HasCommitted(c)' => Behind(work'[c], sync'[c].usn + 1, server')
      BY <2>1, SameRows DEF MergeOf
    <2> QED BY <2>3, <2>5, <2>6, <2>7 DEF MergeOf
  <1>2. \A n \in net' : ~Finishing(n)'
    BY DEF Finishing, Keyed, KeysKept, Posted, Unanswered
  <1>3. server'.scm = 0 /\ Whole(server', server'.usn) BY SameRows DEF Merge
  <1>4. \A n \in net' : n.op \notin Sides BY DEF Merge
  <1> QED BY <1>1, <1>2, <1>3, <1>4 DEF Merge

LEMMA StampMerges ==
    ASSUME Inv, Keyed, Merge, Stamp
    PROVE  Merge'
  <1> DEFINE a == [ok |-> TRUE, mod |-> Now]
             m == unstamped
  <1>1. /\ m # NoRequest /\ unstamped' = NoRequest /\ server' = [server EXCEPT !.mod = Now]
        /\ Answer(m, a) /\ session'.key = NoKey
        /\ UNCHANGED <<base, work, sync>>
    BY DEF Stamp, EndSession, NoSession, clientVars
  <1>2. m.op = "finish" /\ m.from \in Clients BY <1>1 DEF Inv, MessageOK
  <1>3. /\ server'.scm = server.scm /\ server'.usn = server.usn
        /\ server'.rows = server.rows /\ server'.graves = server.graves
    BY <1>1 DEF Inv, ServerCollection, Collection
  <1>4. net' \subseteq net BY <1>1 DEF Answer
  <1> HIDE DEF a
  <1>5. ASSUME NEW c \in Clients
        PROVE  /\ answer'[c] = answer[c] \/ sync[c].at \notin {"meta", "sanity"}
               /\ HasCommitted(c)' => HasCommitted(c)
    <2>1. CASE m.from = c /\ Live(m) BY <1>2, <2>1 DEF Live, HasCommitted
    <2>2. CASE ~(m.from = c /\ Live(m))
      <3>1. answer'[c] = answer[c] BY <1>1, <2>2, Functions DEF Answer, IsFcn
      <3>2. unstamped'.from # c BY <1>1, KeyNotDevice DEF NoRequest
      <3> QED BY <1>1, <3>1, <3>2 DEF HasCommitted, Answered
    <2> QED BY <2>1, <2>2
  <1> QED BY <1>1, <1>3, <1>4, <1>5, ClosedMerges

LEMMA CrashMerges ==
    ASSUME Inv, Keyed, Merge, Crash
    PROVE  Merge'
  <1>1. /\ UNCHANGED <<base, work, sync, server, net, answer>> /\ session'.key = NoKey
        /\ unstamped' = NoRequest
    BY DEF Crash, EndSession, NoSession, clientVars
  <1>2. \A c \in Clients : HasCommitted(c)' => HasCommitted(c)
    BY <1>1, KeyNotDevice DEF HasCommitted, Answered, NoRequest
  <1> QED BY <1>1, <1>2, ClosedMerges

LEMMA ServeMerges ==
    ASSUME PlainSyncs, Inv, Keyed, Merge, NEW m \in net, Serve(m), ~crossed'
    PROVE  Merge'
  <1>1. ~ServeUpload(m) /\ ~ServeDownload(m)
    BY DEF ServeUpload, ServeDownload, Serving, Merge, Sides
  <1> QED BY <1>1, ServeMetaMerges, ServeStartMerges, ServeGravesMerges, ServeChangesMerges,
             ServeChunkMerges, ServeApplyMerges, ServeSanityMerges, ServeFinishMerges,
             RefuseMerges, ServeAbortMerges DEF Serve

LEMMA NextMerges ==
    ASSUME PlainSyncs, Inv, Keyed, Merge, [Next]_vars, ~crossed'
    PROVE  Merge'
  <1>1. CASE UNCHANGED vars
    BY <1>1 DEF vars, Merge, MergeOf, InIt, Heard, HasCommitted, Answered, Bodies, Requests, Live,
                Finishing
  <1>2. CASE \E c \in Clients : User(c) \/ Begin(c) \/ Device(c) \/ Timeout(c) \/ Interrupt(c)
                                \/ Upload(c) \/ Download(c)
    BY <1>2, DeviceMerges
  <1>3. CASE \E m \in net : Serve(m) BY <1>3, ServeMerges
  <1> QED BY <1>1, <1>2, <1>3, StampMerges, CrashMerges DEF Next

-----------------------------------------------------------------------------
(* The invariant.                                                          *)

\* Sessions merge as they should until one has crossed another.
MInv == Inv /\ Keyed /\ crossed \in BOOLEAN /\ (crossed \/ Merge)

LEMMA CrossedStays ==
    ASSUME [Next]_vars, crossed \in BOOLEAN
    PROVE  crossed' \in BOOLEAN /\ (crossed => crossed')
  <1>1. CASE UNCHANGED crossed BY <1>1
  <1>2. CASE \E m \in net : ServeStart(m) BY <1>2 DEF ServeStart
  <1>3. CASE UNCHANGED vars BY <1>3, <1>1 DEF vars
  <1>4. CASE Stamp \/ Crash BY <1>1, <1>4 DEF Stamp, Crash
  <1>5. ASSUME NEW m \in net, Serve(m), ~ServeStart(m) PROVE UNCHANGED crossed
    BY <1>5 DEF Serve, ServeMeta, ServeGraves, ServeChanges, ServeChunk, ServeApply, ServeSanity,
                ServeFinish, Refuse, ServeAbort, ServeUpload, ServeDownload, serverVars
  <1>6. ASSUME NEW c \in Clients,
               \/ User(c) \/ Begin(c) \/ Device(c) \/ Timeout(c) \/ Interrupt(c)
               \/ Upload(c) \/ Download(c)
        PROVE  UNCHANGED crossed
    BY <1>6 DEF User, Write, Remove, Readd, WriteConf, Undo, ChangeSchema, Edit, Begin, Timeout,
                Interrupt, Upload, Download, Device, GotSameMeta, GotOtherSchema, GotMeta, GotStart,
                GotGraves, GotChanges, GotChunk, GotApply, GotSanity, GotFinish, GotConflict,
                GotMismatch, GotUpload, GotDownload, GotAbort, serverVars
  <1> QED BY <1>1, <1>2, <1>3, <1>4, <1>5, <1>6 DEF Next

LEMMA FirstIsWhole ==
    /\ FirstCollection.scm = 0 /\ FirstCollection.usn = 1
    /\ Whole(FirstCollection, FirstCollection.usn)
    /\ Together(FirstCollection, FirstCollection)
  <1> DEFINE f == FirstCollection
  <1>1. f.scm = 0 /\ f.usn = 1 BY DEF FirstCollection
  <1>2. ASSUME NEW o \in Objects
        PROVE  Has(f, o) /\ f.rows[o].usn = 0 /\ f.rows[o].at = 1 /\ f.graves[o] = NoGrave
    <2>1. f.rows[o] = [at |-> 1, usn |-> 0] /\ f.graves[o] = NoGrave BY DEF FirstCollection
    <2>2. f.rows[o] \in AnyRow BY <2>1 DEF AnyRow
    <2> QED BY <2>1, <2>2, SyncAssumption DEF Has
  <1> HIDE DEF f
  <1>3. Whole(f, f.usn) BY <1>1, <1>2 DEF Whole, NoGrave
  <1>4. Together(f, f) BY <1>1, <1>2, <1>3 DEF Together
  <1> QED BY <1>1, <1>3, <1>4 DEF f

LEMMA InitMerges == Init => Merge
  <1> SUFFICES ASSUME Init PROVE Merge
    OBVIOUS
  <1>1. /\ \A c \in Clients : /\ sync[c] = Idle /\ answer[c] = NoAnswer
                              /\ base[c] = FirstCollection /\ work[c] = FirstCollection
        /\ server = FirstCollection /\ unstamped = NoRequest /\ net = {}
    BY DEF Init
  <1>2. \A c \in Clients : sync[c].at = "idle" /\ sync[c].key = NoKey
    BY <1>1, IdleIsAway
  <1>3. ASSUME NEW c \in Clients PROVE MergeOf(c)
    <2>1. Side(base[c], work[c], sync[c], answer[c], server)
      BY <1>1, <1>2, FirstIsWhole, IdleIsAway DEF Side, Sides, SessionOps
    <2>2. Asked(base[c], sync[c], Bodies(c)) BY <1>2 DEF Asked
    <2>3. ~InIt(c) /\ ~HasCommitted(c) BY <1>1, <1>2 DEF InIt, HasCommitted
    <2> QED BY <2>1, <2>2, <2>3 DEF MergeOf
  <1> QED BY <1>1, <1>3, FirstIsWhole DEF Merge

LEMMA MergeInvariance == ASSUME PlainSyncs PROVE Spec => []MInv
  <1>1. Init => MInv BY InitInv, InitKeyed, InitMerges DEF MInv, Init
  <1>2. MInv /\ [Next]_vars => MInv'
    <2> SUFFICES ASSUME MInv, [Next]_vars PROVE MInv'
      OBVIOUS
    <2>1. Inv' BY NextKeeps, StutterKeeps DEF MInv
    <2>2. Keyed' BY NextKeyed DEF MInv
    <2>3. crossed' \in BOOLEAN /\ (crossed => crossed') BY CrossedStays DEF MInv
    <2>4. crossed' \/ Merge' BY <2>3, NextMerges DEF MInv
    <2> QED BY <2>1, <2>2, <2>3, <2>4 DEF MInv
  <1> QED BY <1>1, <1>2, PTL DEF Spec

-----------------------------------------------------------------------------
(* What both sides have when the server commits.                           *)

\* A commit is a request to finish the session that is open, under way until then.
LEMMA CommitIsFinish ==
    ASSUME Inv, Keyed, [Next]_vars, NEW m \in net, unstamped' = m
    PROVE  ServeFinish(m)
  <1>1. unstamped # m BY DEF Keyed, KeysKept
  <1>2. m # NoRequest BY KeyNotDevice DEF Inv, MessageOK, NoRequest
  <1>3. ASSUME NEW n \in net, Serve(n) PROVE ServeFinish(m)
    <2>1. CASE ServeFinish(n) BY <2>1 DEF ServeFinish
    <2>2. CASE ~ServeFinish(n)
      BY <1>1, <1>3, <2>2 DEF Serve, ServeMeta, ServeStart, ServeGraves, ServeChanges, ServeChunk,
         ServeApply, ServeSanity, Refuse, ServeAbort, ServeUpload, ServeDownload, serverVars
    <2> QED BY <2>1, <2>2
  <1>4. ASSUME NEW c \in Clients,
               \/ User(c) \/ Begin(c) \/ Device(c) \/ Timeout(c) \/ Interrupt(c)
               \/ Upload(c) \/ Download(c)
        PROVE  UNCHANGED unstamped
    BY <1>4 DEF User, Write, Remove, Readd, WriteConf, Undo, ChangeSchema, Edit, Begin, Timeout,
                Interrupt, Upload, Download, Device, GotSameMeta, GotOtherSchema, GotMeta, GotStart,
                GotGraves, GotChanges, GotChunk, GotApply, GotSanity, GotFinish, GotConflict,
                GotMismatch, GotUpload, GotDownload, GotAbort, serverVars
  <1> QED BY <1>1, <1>2, <1>3, <1>4 DEF Next, vars, Stamp, Crash

LEMMA SameContent ==
    ASSUME NEW w, NEW d, Alike(w, d, Objects), w.conf = d.conf
    PROVE  Content(w) = Content(d)
  <1>1. \A o \in Objects : (IF Has(w, o) THEN w.rows[o].at ELSE 0)
                             = IF Has(d, o) THEN d.rows[o].at ELSE 0
    BY DEF Alike, At
  <1> QED BY <1>1 DEF Content

\* What both sides have when the server commits a sync that its device still waits for
LEMMA AtCommit ==
    ASSUME Inv, Keyed, Merge, NEW m \in net, ServeFinish(m), Live(m), NEW c, c = m.from
    PROVE  /\ c \in Clients /\ clock \in Nat /\ server' = Bumped(draft)
           /\ Open(clock, base[c], work[c], server, draft)
           /\ Present(work[c], server') /\ Alike(work[c], server', Objects)
           /\ Content(work[c]) = Content(server')
  <1>1. m.op = "finish" /\ unstamped = NoRequest /\ InSession(m) /\ server' = Bumped(draft)
    BY DEF ServeFinish, Serving, Bumped
  <1>2. /\ c \in Clients /\ clock \in Nat /\ sync[c].at = "finish"
        /\ Open(clock, base[c], work[c], server, draft)
        /\ Stage(base[c], work[c], sync[c], answer[c], Bodies(c), server, draft, session)
    BY <1>1, Waits DEF SessionOps
  <1>3. Present(work[c], draft) /\ Alike(work[c], draft, Objects) /\ work[c].conf = draft.conf
    BY <1>2 DEF Stage, AtEnd
  <1>4. server'.rows = draft.rows /\ server'.conf = draft.conf
    BY <1>1, <1>2 DEF Bumped, Open, ServerCollection, Collection
  <1>5. Present(work[c], server') /\ Alike(work[c], server', Objects)
    BY <1>3, <1>4 DEF Present, Alike, At, Has
  <1> QED BY <1>1, <1>2, <1>3, <1>4, <1>5, SameContent

LEMMA Agreed ==
    ASSUME Inv, Keyed, Merge, NEW m \in net, ServeFinish(m), Live(m)
    PROVE  /\ Content(server') = Content(work[m.from])
           /\ \A o \in Objects, col \in {server, base[m.from]} :
                Has(server', o) /\ Has(col, o) => server'.rows[o].at >= col.rows[o].at
  <1> DEFINE c == m.from
             e == server'
  <1>1. /\ c \in Clients /\ clock \in Nat /\ e = Bumped(draft)
        /\ Open(clock, base[c], work[c], server, draft)
        /\ Present(work[c], e) /\ Alike(work[c], e, Objects)
        /\ Content(work[c]) = Content(e)
    BY AtCommit
  <1>2. Ready(server, draft) BY <1>1, OpenFacts DEF Ready
  <1>3. /\ server \in ServerCollection(clock) /\ draft \in ServerCollection(clock)
        /\ base[c] \in DeviceCollection(clock) /\ work[c] \in DeviceCollection(clock)
    BY <1>1 DEF Open
  <1> HIDE DEF c, e
  <1>4. ASSUME NEW o \in Objects, Has(e, o)
        PROVE  /\ Has(server, o) => e.rows[o].at >= server.rows[o].at
               /\ Has(base[c], o) => e.rows[o].at >= base[c].rows[o].at
    <2>1. \/ e.rows[o] = server.rows[o] /\ e.graves[o] = server.graves[o]
          \/ Has(e, o) /\ e.rows[o].at >= server.rows[o].at
          \/ ~Has(e, o)
      BY <1>1, <1>2, <1>3, CommitMoves
    <2>2. Has(server, o) => server.rows[o].at \in Nat BY <1>1, <1>3, ServerIsDevice, RowFacts
    <2>3. Has(work[c], o) /\ work[c].rows[o].at = e.rows[o].at
      BY <1>1, <1>4 DEF Present, Alike, At
    <2>4. base[c].rows[o].at <= work[c].rows[o].at BY <1>1, <2>3 DEF Open, Loose, Grown
    <2>5. /\ Has(base[c], o) => base[c].rows[o].at \in Nat
          /\ work[c].rows[o].at \in Nat
      BY <1>1, <1>3, <2>3, RowFacts
    <2> QED BY <1>4, <2>1, <2>2, <2>3, <2>4, <2>5
  <1> QED BY <1>1, <1>4 DEF c, e

\* When the server commits a sync its device still waits for, both sides have merged to
\* the same rows and configuration, each by its own rules, and no row is older than it
\* was on either side.
THEOREM AgreeAtCommitAlways == ASSUME PlainSyncs PROVE Spec => AgreeAtCommit
  <1>1. MInv /\ [Next]_vars =>
          [\A m \in net : unstamped' = m /\ Live(m) /\ ~crossed =>
             /\ Content(server') = Content(work[m.from])
             /\ \A o \in Objects, col \in {server, base[m.from]} :
                  Has(server', o) /\ Has(col, o) => server'.rows[o].at >= col.rows[o].at]_vars
    BY CommitIsFinish, Agreed DEF MInv
  <1> QED BY <1>1, MergeInvariance, PTL DEF Spec, AgreeAtCommit

\* The counts of both sides never differ, and no one-way sync is forced on the user, as
\* long as no session has begun on a server that has changed since its meta request.
THEOREM CountsAgreeAlways == ASSUME PlainSyncs PROVE Spec => [](crossed \/ CountsNeverDiffer)
  <1>1. MInv => crossed \/ CountsNeverDiffer
    BY DEF MInv, Merge, MergeOf, Side, CountsNeverDiffer, Answered
  <1> QED BY <1>1, MergeInvariance, PTL

-----------------------------------------------------------------------------
(* A sync takes nothing over before its end.                               *)

\* A step of the sync of a device that takes nothing over
Quiet(c) ==
    /\ UNCHANGED <<base, server, unstamped, crossed>>
    /\ \A d \in Clients \ {c} :
         work'[d] = work[d] /\ sync'[d] = sync[d] /\ answer'[d] = answer[d]
    /\ ~HasCommitted(c)'

\* It has no answer after the step, and is at no commit.
LEMMA QuietStep ==
    ASSUME Inv, NEW c \in Clients, NEW s, UNCHANGED base, UNCHANGED serverVars,
           work' = [work EXCEPT ![c] = work'[c]], sync' = [sync EXCEPT ![c] = s],
           answer' = [answer EXCEPT ![c] = NoAnswer],
           s.at # "finish" \/ unstamped.from # c
    PROVE  Quiet(c)
  <1>1. /\ sync'[c] = s /\ answer'[c] = NoAnswer
        /\ \A d \in Clients \ {c} :
             work'[d] = work[d] /\ sync'[d] = sync[d] /\ answer'[d] = answer[d]
        /\ UNCHANGED <<base, server, unstamped, crossed>>
    BY Functions DEF IsFcn, serverVars
  <1> QED BY <1>1 DEF Quiet, HasCommitted, Answered

LEMMA RollBackIsQuiet ==
    ASSUME Inv, Merge, NEW c \in Clients, MarkSchema(c), NEW differ, NEW late,
           RollBack(c, differ, late), UNCHANGED serverVars
    PROVE  Quiet(c)
  <1> DEFINE s == [Idle EXCEPT !.at = "abort", !.key = sync[c].key, !.differ = differ]
  <1>1. MergeOf(c) BY DEF Merge
  <1>2. base' = base BY <1>1 DEF MergeOf, Side, MarkSchema
  <1>3. work' = [work EXCEPT ![c] = work'[c]] /\ answer' = [answer EXCEPT ![c] = NoAnswer]
    BY Functions DEF RollBack, IsFcn
  <1>4. sync' = [sync EXCEPT ![c] = s] \/ sync' = [sync EXCEPT ![c] = Idle] BY DEF RollBack
  <1>5. s.at = "abort" /\ Idle.at = "idle" BY DEF Idle
  <1> HIDE DEF s
  <1> QED BY <1>2, <1>3, <1>4, <1>5, QuietStep

LEMMA AskIsQuiet ==
    ASSUME Inv, NEW c \in Clients, NEW s, NEW body, Ask(c, s, body), UNCHANGED base,
           UNCHANGED serverVars, work' = [work EXCEPT ![c] = work'[c]],
           s.at # "finish" \/ unstamped.from # c
    PROVE  Quiet(c)
  BY QuietStep DEF Ask

LEMMA SyncIsQuiet ==
    ASSUME Inv, Keyed, Merge, NEW c \in Clients,
           Begin(c) \/ (Device(c) /\ ~GotFinish(c)) \/ Timeout(c) \/ Interrupt(c)
    PROVE  Quiet(c)
  <1>1. sync[c] \in SyncRecord /\ Side(base[c], work[c], sync[c], answer[c], server) BY SettingOf
  <1>2. ~GotOtherSchema(c) /\ ~GotMismatch(c) /\ ~GotUpload(c) /\ ~GotDownload(c)
    BY <1>1 DEF Side, Sides, Answered, GotOtherSchema, GotMismatch, GotUpload, GotDownload
  <1>3. CASE GotConflict(c) \/ Timeout(c)
    BY <1>3, RollBackIsQuiet DEF GotConflict, Timeout, serverVars
  <1>4. CASE GotSameMeta(c) \/ GotAbort(c) \/ Interrupt(c)
    <2>1. base' = base BY <1>1, <1>4 DEF GotSameMeta, GotAbort, Interrupt, Side, MarkSchema
    <2>2. work' = [work EXCEPT ![c] = work'[c]]
      BY <1>4, Functions DEF GotSameMeta, GotAbort, Interrupt, IsFcn
    <2> QED BY <1>4, <2>1, <2>2, QuietStep, IdleIsAway
            DEF GotSameMeta, GotAbort, Interrupt, Finished, serverVars
  <1>5. CASE Begin(c) \/ GotMeta(c)
    <2>1. \E op \in {"meta", "start"} : \E s, body : Ask(c, s, body) /\ s.at = op
      <3>1. CASE Begin(c)
        <4> DEFINE s == [Idle EXCEPT !.at = "meta", !.key = FreshKey]
        <4>1. s.at = "meta" BY DEF Idle
        <4>2. \E body : Ask(c, s, body) BY <3>1 DEF Begin
        <4> HIDE DEF s
        <4> QED BY <4>1, <4>2
      <3>2. CASE GotMeta(c)
        <4> DEFINE s == [sync[c] EXCEPT !.at = "start", !.usn = answer[c].usn,
                                        !.newer = base[c].mod > answer[c].mod]
        <4>1. s.at = "start" BY <1>1 DEF SyncRecord
        <4>2. \E body : Ask(c, s, body) BY <3>2 DEF GotMeta
        <4> HIDE DEF s
        <4> QED BY <4>1, <4>2
      <3> QED BY <1>5, <3>1, <3>2
    <2>2. UNCHANGED base /\ UNCHANGED serverVars /\ UNCHANGED work BY <1>5 DEF Begin, GotMeta, serverVars
    <2>3. work' = [work EXCEPT ![c] = work'[c]] BY <2>2, Functions DEF IsFcn
    <2> QED BY <2>1, <2>2, <2>3, AskIsQuiet
  <1>6. CASE GotStart(c) \/ GotGraves(c) \/ GotChanges(c) \/ GotChunk(c) \/ GotApply(c) \/ GotSanity(c)
    <2>1. \E s, body : Ask(c, s, body)
      <3>1. CASE GotStart(c) BY <3>1, Zenon DEF GotStart, SendChanges
      <3>2. CASE GotGraves(c) BY <3>2, Zenon DEF GotGraves, SendChanges
      <3>3. CASE GotChanges(c) BY <3>3, Zenon DEF GotChanges
      <3>4. CASE GotChunk(c) BY <3>4, Zenon DEF GotChunk, SendChunk
      <3>5. CASE GotApply(c) BY <3>5, Zenon DEF GotApply, SendChunk
      <3>6. CASE GotSanity(c) BY <3>6, Zenon DEF GotSanity
      <3> QED BY <1>6, <3>1, <3>2, <3>3, <3>4, <3>5, <3>6
    <2>2. UNCHANGED base /\ UNCHANGED serverVars
      BY <1>6 DEF GotStart, GotGraves, GotChanges, GotChunk, GotApply, GotSanity, serverVars
    <2>3. work' = [work EXCEPT ![c] = work'[c]]
      <3>1. work' = work \/ \E x : work' = [work EXCEPT ![c] = x]
        BY <1>6, Zenon DEF GotStart, GotGraves, GotChanges, GotChunk, GotApply, GotSanity, SendChanges,
                  SendChunk
      <3> QED BY <3>1, Functions DEF IsFcn
    <2>4. Heard(c) /\ answer[c] # NoAnswer /\ sync[c].at \notin {"idle", "abort"}
      BY <1>6 DEF GotStart, GotGraves, GotChanges, GotChunk, GotApply, GotSanity, Answered, Heard,
                  SessionOps
    <2>5. unstamped.from # c BY <2>4, NoRequestLeft
    <2> QED BY <2>1, <2>2, <2>3, <2>5, AskIsQuiet
  <1> QED BY <1>2, <1>3, <1>4, <1>5, <1>6 DEF Device

-----------------------------------------------------------------------------
(* Equal times mean equal contents.                                        *)

\* Also of what a device has committed and has still to take over
Stamped ==
    \A c \in Clients :
       /\ unstamped = NoRequest /\ base[c].mod = server.mod => Content(base[c]) = Content(server)
       /\ HasCommitted(c) /\ unstamped.from = c => Content(work[c]) = Content(server)
       /\ HasCommitted(c) /\ unstamped = NoRequest /\ answer[c].mod = server.mod =>
            Content(work[c]) = Content(server)

LEMMA QuietIsStamped ==
    ASSUME Stamped, NEW c \in Clients, Quiet(c)
    PROVE  Stamped'
  <1>1. \A d \in Clients \ {c} : HasCommitted(d)' <=> HasCommitted(d)
    BY DEF Quiet, HasCommitted, Answered
  <1> QED BY <1>1 DEF Stamped, Quiet

\* A device has a new time, or what the server has with its time.
LEMMA TakenIsStamped ==
    ASSUME Inv, Stamped, NEW c \in Clients, UNCHANGED serverVars,
           NEW col, base' = [base EXCEPT ![c] = col], work' = [work EXCEPT ![c] = base'[c]],
           sync'[c].at = "idle",
           \A d \in Clients \ {c} : sync'[d] = sync[d] /\ answer'[d] = answer[d],
           unstamped = NoRequest /\ col.mod = server.mod => Content(col) = Content(server)
    PROVE  Stamped'
  <1>1. /\ UNCHANGED <<server, unstamped>> /\ base'[c] = col
        /\ \A d \in Clients \ {c} : base'[d] = base[d] /\ work'[d] = work[d]
    BY Functions DEF serverVars, IsFcn
  <1>2. ~HasCommitted(c)' BY DEF HasCommitted, Answered
  <1>3. \A d \in Clients \ {c} : HasCommitted(d)' <=> HasCommitted(d)
    BY <1>1 DEF HasCommitted, Answered
  <1> QED BY <1>1, <1>2, <1>3 DEF Stamped

LEMMA EditIsStamped ==
    ASSUME Inv, Stamped, NEW c \in Clients, NEW col, Edit(c, col), col.mod = Now
    PROVE  Stamped'
  <1>1. Now # server.mod
    <2>1. clock \in Nat /\ server.mod \in 0..clock BY DEF Inv, ServerCollection, Collection
    <2> QED BY <2>1 DEF Now
  <1> QED BY <1>1, TakenIsStamped DEF Edit, serverVars

LEMMA UserIsStamped ==
    ASSUME PlainSyncs, Inv, Stamped, NEW c \in Clients, User(c)
    PROVE  Stamped'
  <1>1. base[c] \in DeviceCollection(clock) BY DeviceHas DEF Inv
  <1>2. ASSUME NEW o \in Objects, Write(c, o) PROVE Stamped'
    <2>1. Touched(base[c], o).mod = Now BY <1>1 DEF Touched, DeviceCollection, Collection
    <2> QED BY <1>2, <2>1, EditIsStamped DEF Write
  <1>3. ASSUME NEW o \in Objects, Remove(c, o) PROVE Stamped'
    <2> DEFINE x == [ApplyGraves(base[c], {o}, Unsent) EXCEPT !.mod = Now]
    <2>1. x.mod = Now BY <1>1 DEF ApplyGraves, DeviceCollection, Collection
    <2>2. Edit(c, x) BY <1>3 DEF Remove
    <2> HIDE DEF x
    <2> QED BY <2>1, <2>2, EditIsStamped
  <1>4. CASE WriteConf(c)
    <2> DEFINE x == [base[c] EXCEPT !.conf = Now, !.mod = Now]
    <2>1. x.mod = Now BY <1>1 DEF DeviceCollection, Collection
    <2>2. Edit(c, x) BY <1>4 DEF WriteConf
    <2> HIDE DEF x
    <2> QED BY <2>1, <2>2, EditIsStamped
  <1>5. "readd" \notin Edits /\ "undo" \notin Edits /\ "schema" \notin Edits BY DEF PlainSyncs
  <1> QED BY <1>2, <1>3, <1>4, <1>5 DEF User, Readd, Undo, ChangeSchema

LEMMA GotFinishIsStamped ==
    ASSUME Inv, Stamped, NEW c \in Clients, GotFinish(c)
    PROVE  Stamped'
  <1> DEFINE x == [work[c] EXCEPT !.mod = answer[c].mod, !.usn = sync[c].usn + 1]
  <1>1. work[c] \in DeviceCollection(clock) BY DeviceHas DEF Inv
  <1>2. x.mod = answer[c].mod /\ x.rows = work[c].rows /\ x.conf = work[c].conf
    BY <1>1 DEF DeviceCollection, Collection
  <1>3. /\ base' = [base EXCEPT ![c] = x] /\ work' = [work EXCEPT ![c] = base'[c]]
        /\ UNCHANGED serverVars /\ sync' = [sync EXCEPT ![c] = Idle]
        /\ answer' = [answer EXCEPT ![c] = NoAnswer]
    BY DEF GotFinish, Finished, serverVars
  <1> HIDE DEF x
  <1>4. Content(x) = Content(work[c]) BY <1>2 DEF Content, Has
  <1>5. HasCommitted(c) BY DEF GotFinish, Answered, HasCommitted
  <1>6. unstamped = NoRequest /\ x.mod = server.mod => Content(x) = Content(server)
    BY <1>2, <1>4, <1>5 DEF Stamped
  <1>7. sync'[c].at = "idle" BY <1>3, Functions, IdleIsAway DEF IsFcn
  <1>8. \A d \in Clients \ {c} : sync'[d] = sync[d] /\ answer'[d] = answer[d]
    BY <1>3, Functions DEF IsFcn
  <1> QED BY <1>3, <1>6, <1>7, <1>8, TakenIsStamped

\* The same syncs have committed, and know as much of it.
SameCommits == \A c \in Clients :
    /\ HasCommitted(c)' <=> HasCommitted(c)
    /\ HasCommitted(c) => answer'[c] = answer[c]

LEMMA ReplyCommitsNothing ==
    ASSUME Inv, Keyed, NEW m \in net, NEW a, Answer(m, a), UNCHANGED <<sync, unstamped>>,
           unstamped = NoRequest, m.op = "finish" => ~a.ok
    PROVE  SameCommits
  <1>1. \A c \in Clients : unstamped.from # c BY KeyNotDevice DEF NoRequest
  <1>2. ASSUME NEW c \in Clients
        PROVE  /\ HasCommitted(c)' <=> HasCommitted(c)
               /\ HasCommitted(c) => answer'[c] = answer[c]
    <2>1. CASE ~(Live(m) /\ m.from = c)
      <3>1. answer'[c] = answer[c] BY <2>1, Functions DEF Answer, IsFcn
      <3> QED BY <3>1 DEF HasCommitted, Answered
    <2>2. CASE Live(m) /\ m.from = c /\ m.op # "finish"
      BY <2>2 DEF HasCommitted, Live
    <2>3. CASE Live(m) /\ m.from = c /\ m.op = "finish"
      <3>1. answer'[c] = a BY <2>3, Functions DEF Answer, IsFcn
      <3>2. answer[c] = NoAnswer
        BY <2>3 DEF Keyed, KeysKept, Posted, Unanswered, Live
      <3> QED BY <1>1, <2>3, <3>1, <3>2 DEF HasCommitted, Answered
    <2> QED BY <2>1, <2>2, <2>3
  <1> QED BY <1>2 DEF SameCommits

LEMMA ServeIsQuiet ==
    ASSUME Inv, Keyed, Merge, NEW m \in net, Serve(m), ~ServeFinish(m)
    PROVE  /\ UNCHANGED <<base, work, sync, server, unstamped>>
           /\ unstamped = NoRequest /\ SameCommits
  <1>1. ~ServeUpload(m) /\ ~ServeDownload(m)
    BY DEF ServeUpload, ServeDownload, Serving, Merge, Sides
  <1>2. /\ UNCHANGED <<base, work, sync, server, unstamped>> /\ unstamped = NoRequest
    BY <1>1 DEF Serve, ServeMeta, ServeStart, ServeGraves, ServeChanges, ServeChunk, ServeApply,
            ServeSanity, Refuse, ServeAbort, clientVars, serverVars, Serving
  <1>3. \E a : Answer(m, a) /\ (m.op = "finish" => ~a.ok)
    <2>1. CASE Refuse(m) BY <2>1 DEF Refuse, Conflict
    <2>2. CASE ~Refuse(m)
      <3>1. m.op # "finish"
        BY <1>1, <2>2 DEF Serve, ServeMeta, ServeStart, ServeGraves, ServeChanges, ServeChunk,
            ServeApply, ServeSanity, ServeAbort, Serving
      <3>2. \E a : Answer(m, a)
        BY <1>1, <2>2 DEF Serve, ServeMeta, ServeStart, ServeGraves, ServeChanges, ServeChunk,
            ServeApply, ServeSanity, ServeAbort
      <3> QED BY <3>1, <3>2
    <2> QED BY <2>1, <2>2
  <1> QED BY <1>2, <1>3, ReplyCommitsNothing

\* The devices that have committed after ServeFinish
LEMMA CommitIsHeard ==
    ASSUME Inv, Keyed, NEW m \in net, ServeFinish(m), NEW c \in Clients
    PROVE  /\ m.from = c /\ sync[c].at = "finish" => Live(m)
           /\ ~(Live(m) /\ m.from = c) => (HasCommitted(c)' <=> HasCommitted(c))
           /\ Live(m) /\ m.from = c => HasCommitted(c)'
  <1>1. /\ m.op = "finish" /\ unstamped = NoRequest /\ InSession(m) /\ unstamped' = m
        /\ UNCHANGED <<sync, answer>>
    BY DEF ServeFinish, Serving, clientVars
  <1>2. ASSUME m.from = c, sync[c].at = "finish" PROVE Live(m)
    <2>1. m \in Unanswered /\ m.key = session.key /\ m.key # NoKey
      BY <1>1 DEF Unanswered, InSession, Keyed, KeysKept, Posted
    <2>2. Heard(c) BY <1>2 DEF Heard, SessionOps
    <2>3. sync[c].key = m.key BY <1>1, <1>2, <2>1, <2>2 DEF Keyed, Opened
    <2> QED BY <1>1, <1>2, <2>3 DEF Live
  <1>3. unstamped.from # c BY <1>1, KeyNotDevice DEF NoRequest
  <1> QED BY <1>1, <1>2, <1>3 DEF HasCommitted, Answered, Live

LEMMA ServeFinishIsStamped ==
    ASSUME Inv, Keyed, Merge, Stamped, NEW m \in net, ServeFinish(m)
    PROVE  Stamped'
  <1>1. /\ unstamped' = m /\ m # NoRequest /\ unstamped = NoRequest
        /\ UNCHANGED <<base, work, sync, answer>>
    BY KeyNotDevice DEF ServeFinish, Serving, clientVars, Inv, MessageOK, NoRequest
  <1>2. ASSUME NEW c \in Clients, HasCommitted(c)', m.from = c
        PROVE  Content(work[c]) = Content(server')
    <2>1. Live(m) BY <1>1, <1>2, CommitIsHeard DEF HasCommitted
    <2> QED BY <1>2, <2>1, AtCommit
  <1> QED BY <1>1, <1>2 DEF Stamped

LEMMA UnstampedIsLive ==
    ASSUME Inv, Keyed, unstamped # NoRequest
    PROVE  /\ unstamped.from \in Clients /\ unstamped.op = "finish"
           /\ HasCommitted(unstamped.from) <=> Live(unstamped)
           /\ Live(unstamped) => answer[unstamped.from] = NoAnswer
  <1> DEFINE m == unstamped
             c == m.from
  <1>1. c \in Clients /\ m.op = "finish" /\ m \in Unanswered
    BY DEF Inv, MessageOK, Unanswered
  <1>2. m.key = session.key /\ m.key # NoKey BY <1>1 DEF Keyed, KeysKept, Posted, Opened
  <1>3. ASSUME sync[c].at = "finish" PROVE Live(m)
    <2>1. Heard(c) BY <1>3 DEF Heard, SessionOps
    <2>2. sync[c].key = m.key BY <1>1, <1>2, <2>1 DEF Keyed, Opened
    <2> QED BY <1>1, <1>3, <2>2 DEF Live
  <1>4. Live(m) => answer[c] = NoAnswer BY <1>1 DEF Keyed, KeysKept, Posted, Live
  <1> QED BY <1>1, <1>3, <1>4 DEF HasCommitted, Live

LEMMA StampIs ==
    ASSUME Inv, Keyed, Stamp
    PROVE  /\ unstamped # NoRequest /\ unstamped' = NoRequest /\ server'.mod = Now
           /\ server'.rows = server.rows /\ server'.graves = server.graves
           /\ server'.conf = server.conf /\ server'.usn = server.usn
           /\ UNCHANGED <<base, work, sync, crossed>>
           /\ \A c \in Clients : HasCommitted(c)' <=> HasCommitted(c)
           /\ \A c \in Clients : unstamped.from # c => answer'[c] = answer[c] \/ ~HasCommitted(c)
  <1> DEFINE a == [ok |-> TRUE, mod |-> Now]
             m == unstamped
  <1>1. /\ m # NoRequest /\ unstamped' = NoRequest /\ server' = [server EXCEPT !.mod = Now]
        /\ Answer(m, a) /\ UNCHANGED <<base, work, sync, crossed>>
    BY DEF Stamp, clientVars
  <1>2. server'.mod = Now /\ server'.rows = server.rows /\ server'.graves = server.graves
        /\ server'.conf = server.conf /\ server'.usn = server.usn
    BY <1>1 DEF Inv, ServerCollection, Collection
  <1>3. Got(a)
    <2>1. Now \in Nat BY DEF Inv, Now
    <2>2. a \in Answers BY <2>1 DEF Answers
    <2> QED BY <2>2, SyncAssumption DEF Got
  <1> HIDE DEF a
  <1>4. /\ m.from \in Clients /\ m.op = "finish" /\ (HasCommitted(m.from) <=> Live(m))
    BY <1>1, UnstampedIsLive
  <1>5. ASSUME NEW c \in Clients
        PROVE  /\ HasCommitted(c)' <=> HasCommitted(c)
               /\ m.from # c => answer'[c] = answer[c]
    <2>1. unstamped'.from # c BY <1>1, KeyNotDevice DEF NoRequest
    <2>2. CASE m.from = c /\ Live(m)
      <3>1. answer'[c] = a BY <1>1, <2>2, Functions DEF Answer, IsFcn
      <3> QED BY <1>1, <1>3, <1>4, <2>2, <3>1 DEF HasCommitted, Answered, Got, Live
    <2>3. CASE ~(m.from = c /\ Live(m))
      <3>1. answer'[c] = answer[c] BY <1>1, <2>3, Functions DEF Answer, IsFcn
      <3>2. CASE m.from = c
        <4>1. ~HasCommitted(c) BY <1>4, <2>3, <3>2
        <4> QED BY <1>1, <2>1, <3>1, <3>2, <4>1 DEF HasCommitted, Answered
      <3>3. CASE m.from # c BY <1>1, <2>1, <3>1, <3>3 DEF HasCommitted, Answered
      <3> QED BY <3>2, <3>3
    <2> QED BY <2>2, <2>3
  <1> QED BY <1>1, <1>2, <1>5

LEMMA StampIsStamped ==
    ASSUME Inv, Keyed, Stamped, Stamp
    PROVE  Stamped'
  <1>1. /\ unstamped # NoRequest /\ unstamped' = NoRequest /\ server'.mod = Now
        /\ server'.rows = server.rows /\ server'.conf = server.conf
        /\ UNCHANGED <<base, work, sync>>
        /\ \A c \in Clients : HasCommitted(c)' <=> HasCommitted(c)
        /\ \A c \in Clients : unstamped.from # c => answer'[c] = answer[c] \/ ~HasCommitted(c)
    BY StampIs
  <1>2. clock \in Nat /\ \A t \in 0..clock : t # Now BY DEF Inv, Now
  <1>3. Content(server') = Content(server) BY <1>1 DEF Content, Has
  <1>4. ASSUME NEW c \in Clients
        PROVE  /\ base'[c].mod # server'.mod
               /\ unstamped'.from # c
               /\ HasCommitted(c)' /\ answer'[c].mod = server'.mod => Content(work'[c]) = Content(server')
    <2>1. base[c].mod \in 0..clock BY <1>2, DeviceHas DEF DeviceCollection, Collection
    <2>2. unstamped'.from # c BY <1>1, KeyNotDevice DEF NoRequest
    <2>3. ASSUME HasCommitted(c)', answer'[c].mod = server'.mod
          PROVE  Content(work'[c]) = Content(server')
      <3>1. CASE unstamped.from = c BY <1>1, <1>3, <2>3, <3>1 DEF Stamped
      <3>2. CASE unstamped.from # c
        <4>1. HasCommitted(c) /\ answer'[c] = answer[c] BY <1>1, <2>3, <3>2
        <4>2. answer[c].mod \in 0..clock
          BY <3>2, <4>1 DEF HasCommitted, Answered, Inv, DeviceOK, AnswerOK
        <4> QED BY <1>1, <1>2, <2>3, <4>1, <4>2
      <3> QED BY <3>1, <3>2
    <2> QED BY <1>1, <1>2, <2>1, <2>2, <2>3
  <1> QED BY <1>1, <1>4 DEF Stamped

LEMMA NextStamped ==
    ASSUME PlainSyncs, "unstamped" \notin Crashes, Inv, Keyed, Merge, Stamped, [Next]_vars
    PROVE  Stamped'
  <1>1. CASE UNCHANGED vars BY <1>1 DEF vars, Stamped, HasCommitted, Answered
  <1>2. ASSUME NEW c \in Clients,
               \/ User(c) \/ Begin(c) \/ Device(c) \/ Timeout(c) \/ Interrupt(c)
               \/ Upload(c) \/ Download(c)
        PROVE  Stamped'
    <2>1. ~Upload(c) /\ ~Download(c)
      <3>1. Side(base[c], work[c], sync[c], answer[c], server) BY SettingOf
      <3> QED BY <3>1 DEF Side, Upload, Download
    <2> QED BY <1>2, <2>1, UserIsStamped, GotFinishIsStamped, SyncIsQuiet, QuietIsStamped
  <1>3. ASSUME NEW m \in net, Serve(m) PROVE Stamped'
    <2>1. CASE ServeFinish(m) BY <2>1, ServeFinishIsStamped
    <2>2. CASE ~ServeFinish(m)
      BY <1>3, <2>2, ServeIsQuiet DEF Stamped, SameCommits
    <2> QED BY <2>1, <2>2
  <1>4. CASE Crash
    <2>1. /\ UNCHANGED <<base, work, sync, server, answer, unstamped>>
      BY <1>4 DEF Crash, clientVars
    <2> QED BY <2>1 DEF Stamped, HasCommitted, Answered
  <1> QED BY <1>1, <1>2, <1>3, <1>4, StampIsStamped DEF Next

LEMMA InitStamped == Init => Stamped
  <1> SUFFICES ASSUME Init PROVE Stamped
    OBVIOUS
  <1>1. \A c \in Clients : base[c] = server /\ sync[c] = Idle BY DEF Init
  <1>2. \A c \in Clients : ~HasCommitted(c) BY <1>1, IdleIsAway DEF HasCommitted, Answered
  <1> QED BY <1>1, <1>2 DEF Stamped

\* Equal modification times mean equal collections, so that a sync may end at meta,
\* unless a server stops between its commit and the stamp that follows it.
THEOREM SameStampAlways ==
    ASSUME PlainSyncs, "unstamped" \notin Crashes
    PROVE  Spec => []SameStampSameContent
  <1>1. Init => crossed \/ Stamped BY InitStamped
  <1>2. MInv /\ (crossed \/ Stamped) /\ [Next]_vars => (crossed \/ Stamped)'
    BY NextStamped, CrossedStays DEF MInv
  <1>3. (crossed \/ Stamped) => SameStampSameContent BY DEF Stamped, SameStampSameContent
  <1> QED BY <1>1, <1>2, <1>3, MergeInvariance, PTL DEF Spec

-----------------------------------------------------------------------------
(* What the rows stand for: a card made anew for the user's change it was  *)
(* made from.                                                              *)

Late == {"apply", "sanity", "finish"}

Of(r, o, at) == IF at # 0 /\ <<o, at>> \in DOMAIN r THEN r[<<o, at>>] ELSE at
From(r, col, o) == Of(r, o, At(col, o))
Seen(r, col) == [o \in Objects |-> From(r, col, o)]

\* What only one side has changed stands for the same on the other, while cards are sent.
Own(r, b, w, v, d) == \A o \in Objects :
    /\ Dirty(b, o) \/ (From(r, d, o) = From(r, v, o) /\ From(r, w, o) = From(r, v, o))
    /\ Stale(b, v, o) \/ From(r, w, o) = From(r, b, o)
Sound(r, b, v, d) == \A o \in Objects : Dirty(b, o) \/ From(r, d, o) = From(r, v, o)

OwnOf(c) ==
    InIt(c) /\ sync[c].at \in Late => Own(made, base[c], work[c], server, draft)

Origins ==
    /\ \A p \in DOMAIN made : made[p] \in Nat
    /\ \A c \in Clients : OwnOf(c)
    /\ \A m \in net : Finishing(m) => Sound(made, base[m.from], server, draft)

\* Rows that there are go on standing for the same.
MadeStays == \A o \in Objects, at \in Nat : at <= clock => Of(made', o, at) = Of(made, o, at)

LEMMA FromStays ==
    ASSUME Inv, MadeStays, NEW col \in DeviceCollection(clock)
    PROVE  /\ \A o \in Objects : From(made', col, o) = From(made, col, o)
           /\ Seen(made', col) = Seen(made, col)
  <1>1. ASSUME NEW o \in Objects PROVE From(made', col, o) = From(made, col, o)
    <2>1. clock \in Nat BY DEF Inv
    <2>2. At(col, o) \in Nat /\ At(col, o) <= clock BY <2>1, RowFacts
    <2> QED BY <2>2 DEF From, MadeStays
  <1> QED BY <1>1 DEF Seen

LEMMA RemadeStays ==
    ASSUME Inv, NEW col, NEW cards, cards \subseteq Cards, made' = Remade(col, cards)
    PROVE  /\ MadeStays
           /\ \A o \in cards : Has(col, o) /\ At(col, o) # 0 =>
                Of(made', o, Now) = Of(made, o, At(col, o))
  <1>1. /\ DOMAIN made' = DOMAIN made \cup (cards \X {Now})
        /\ \A p \in cards \X {Now} : made'[p] = Origin(p[1], col.rows[p[1]].at)
        /\ \A p \in DOMAIN made \ (cards \X {Now}) : made'[p] = made[p]
    BY DEF Remade
  <1>2. clock \in Nat /\ Now \in Nat /\ Now > clock BY DEF Inv, Now
  <1>3. ASSUME NEW o \in Objects, NEW at \in Nat, at <= clock
        PROVE  Of(made', o, at) = Of(made, o, at)
    <2>1. at # Now BY <1>2, <1>3
    <2>2. <<o, at>> \notin cards \X {Now} BY <2>1
    <2> QED BY <1>1, <2>2 DEF Of
  <1>4. ASSUME NEW o \in cards, Has(col, o), At(col, o) # 0
        PROVE  Of(made', o, Now) = Of(made, o, At(col, o))
    <2>1. <<o, Now>> \in cards \X {Now} /\ Now # 0 BY <1>2
    <2>2. made'[<<o, Now>>] = Origin(o, At(col, o)) BY <1>1, <1>4, <2>1 DEF At
    <2>3. <<o, Now>> \in DOMAIN made' BY <1>1, <2>1
    <2> HIDE DEF Remade
    <2> QED BY <1>4, <2>1, <2>2, <2>3 DEF Of, Origin
  <1> QED BY <1>3, <1>4 DEF MadeStays

\* Before cards are sent, the times of the rows themselves say so.
LEMMA OwnWhenMerged ==
    ASSUME NEW t \in Nat, NEW b, NEW w, NEW v, NEW d, Setting(t, b, w, v, d),
           Present(w, d), Alike(w, d, Decks), CardsToCome(w, d, {}), NEW r
    PROVE  Own(r, b, w, v, d)
  <1>1. Moved(d, v, b) /\ Kept(w, b, v) BY SettingFacts
  <1>2. ASSUME NEW o \in Objects, ~Dirty(b, o)
        PROVE  At(d, o) = At(v, o) /\ At(w, o) = At(d, o)
    <2>1. d.rows[o] = v.rows[o] BY <1>1, <1>2 DEF Moved
    <2>2. ~Marked(w, o) BY <1>1, <1>2 DEF Kept, Dirty
    <2>3. CASE o \in Decks BY <2>1, <2>3 DEF Alike, At, Has
    <2>4. CASE o \in Cards /\ Has(w, o)
      <3>1. WillAgree(w, d, o) BY <2>4 DEF CardsToCome
      <3> QED BY <2>1, <2>2, <3>1 DEF WillAgree, At, Has
    <2>5. CASE o \in Cards /\ ~Has(w, o)
      <3>1. ~Has(d, o) BY <2>5 DEF Present
      <3> QED BY <2>1, <2>5, <3>1 DEF At, Has
    <2> QED BY <2>3, <2>4, <2>5 DEF Objects
  <1>3. \A o \in Objects : Stale(b, v, o) \/ At(w, o) = At(b, o) BY <1>1 DEF Kept
  <1> QED BY <1>2, <1>3 DEF Own, From

LEMMA OwnCarriesOver ==
    ASSUME NEW r, NEW s, NEW b, NEW w, NEW x, NEW v, NEW d, Own(r, b, w, v, d),
           \A o \in Objects : /\ From(s, b, o) = From(r, b, o) /\ From(s, v, o) = From(r, v, o)
                              /\ From(s, d, o) = From(r, d, o) /\ From(s, x, o) = From(r, w, o)
    PROVE  Own(s, b, x, v, d)
  BY DEF Own

\* A step of one device
LEMMA OwnersStay ==
    ASSUME Inv, Origins, NEW c \in Clients, MadeStays, \A p \in DOMAIN made' : made'[p] \in Nat,
           UNCHANGED <<server, draft, session, unstamped>>,
           \A d \in Clients \ {c} : /\ base'[d] = base[d] /\ work'[d] = work[d]
                                    /\ sync'[d] = sync[d] /\ answer'[d] = answer[d],
           OwnOf(c)', \A m \in net' : m \in net \/ m.from = c,
           \A m \in net' : m.from = c /\ Finishing(m)' => Sound(made', base'[c], server, draft)
    PROVE  Origins'
  <1>1. /\ server \in DeviceCollection(clock) /\ draft \in DeviceCollection(clock)
        /\ clock \in Nat
    BY ServerIsDevice DEF Inv
  <1>2. \A o \in Objects : /\ From(made', server, o) = From(made, server, o)
                           /\ From(made', draft, o) = From(made, draft, o)
    BY <1>1, FromStays
  <1>3. ASSUME NEW d \in Clients \ {c} PROVE OwnOf(d)'
    <2>1. base[d] \in DeviceCollection(clock) /\ work[d] \in DeviceCollection(clock)
      BY <1>1, DeviceHas
    <2>2. \A o \in Objects : /\ From(made', base[d], o) = From(made, base[d], o)
                             /\ From(made', work[d], o) = From(made, work[d], o)
      BY <2>1, FromStays
    <2>3. InIt(d)' <=> InIt(d) BY DEF InIt, Heard, Answered
    <2>4. OwnOf(d) BY DEF Origins
    <2>5. Own(made, base[d], work[d], server, draft) => Own(made', base[d], work[d], server, draft)
      BY <1>2, <2>2, OwnCarriesOver
    <2> QED BY <2>3, <2>4, <2>5 DEF OwnOf
  <1>4. ASSUME NEW m \in net', Finishing(m)' PROVE Sound(made', base'[m.from], server', draft')
    <2>1. CASE m.from = c BY <1>4, <2>1
    <2>2. CASE m.from # c
      <3>1. m \in net /\ Finishing(m) BY <1>4, <2>2 DEF Finishing
      <3>2. m.from \in Clients \ {c} BY <2>2, <3>1 DEF Inv, MessageOK
      <3>3. Sound(made, base[m.from], server, draft) BY <3>1 DEF Origins
      <3> QED BY <1>2, <3>2, <3>3 DEF Sound
    <2> QED BY <2>1, <2>2
  <1> QED BY <1>3, <1>4 DEF Origins

\* A device that is not about to send cards
Early(c) ==
    /\ made' = made /\ UNCHANGED <<server, draft, session, unstamped>>
    /\ sync'[c].at \notin Late
    /\ \A m \in net' : m \in net \/ (m.from = c /\ m.op \notin Late)

LEMMA EarlyStays ==
    ASSUME Inv, Origins, NEW c \in Clients, Early(c), More(base'[c], base[c]),
           \A d \in Clients \ {c} : /\ base'[d] = base[d] /\ work'[d] = work[d]
                                    /\ sync'[d] = sync[d] /\ answer'[d] = answer[d]
    PROVE  Origins'
  <1>1. MadeStays BY DEF Early, MadeStays
  <1>2. OwnOf(c)' BY DEF Early, OwnOf
  <1>3. ASSUME NEW m \in net', m.from = c, Finishing(m)'
        PROVE  Sound(made', base'[c], server, draft)
    <2>1. m \in net BY <1>3 DEF Early, Finishing, Late
    <2>2. Finishing(m) BY <1>3 DEF Early, Finishing
    <2>3. Sound(made, base[c], server, draft) BY <1>3, <2>1, <2>2 DEF Origins
    <2> QED BY <2>3 DEF Early, Sound, More
  <1>4. \A p \in DOMAIN made' : made'[p] \in Nat BY DEF Early, Origins
  <1>5. \A m \in net' : m \in net \/ m.from = c BY DEF Early
  <1>6. UNCHANGED <<server, draft, session, unstamped>> BY DEF Early
  <1> QED BY <1>1, <1>2, <1>3, <1>4, <1>5, <1>6, OwnersStay

LEMMA AskIsEarly ==
    ASSUME Inv, NEW c \in Clients, NEW s, NEW body, Ask(c, s, body), s.at \notin Late,
           made' = made, UNCHANGED serverVars
    PROVE  Early(c)
  <1>1. sync'[c] = s /\ net' = net \cup {Message(c, s.at, s.key, body)}
    BY Functions DEF Ask, IsFcn
  <1>2. Message(c, s.at, s.key, body).from = c /\ Message(c, s.at, s.key, body).op = s.at
    BY DEF Message
  <1> QED BY <1>1, <1>2 DEF Early, serverVars

LEMMA RollBackIsEarly ==
    ASSUME Inv, NEW c \in Clients, NEW differ, NEW late, RollBack(c, differ, late),
           made' = made, UNCHANGED serverVars
    PROVE  Early(c)
  <1> DEFINE s == [Idle EXCEPT !.at = "abort", !.key = sync[c].key, !.differ = differ]
             m == Message(c, "abort", s.key, {})
  <1>1. sync' = [sync EXCEPT ![c] = s] \/ sync' = [sync EXCEPT ![c] = Idle] BY DEF RollBack
  <1>2. \A n \in net' : n \in net \/ n = m BY DEF RollBack
  <1>3. s.at = "abort" /\ Idle.at = "idle" BY DEF Idle
  <1>4. m.from = c /\ m.op = "abort" BY DEF Message
  <1> HIDE DEF s, m
  <1>5. sync'[c] = s \/ sync'[c] = Idle BY <1>1, Functions DEF IsFcn
  <1> QED BY <1>2, <1>3, <1>4, <1>5 DEF Early, Late, serverVars

LEMMA SyncIsEarly ==
    ASSUME Inv, Merge, NEW c \in Clients,
           \/ Begin(c) \/ GotSameMeta(c) \/ GotMeta(c) \/ GotStart(c) \/ GotGraves(c)
           \/ GotChanges(c) \/ GotConflict(c) \/ GotAbort(c) \/ Timeout(c) \/ Interrupt(c)
    PROVE  Early(c)
  <1>1. sync[c] \in SyncRecord BY SettingOf
  <1>2. CASE GotConflict(c) \/ Timeout(c)
    BY <1>2, RollBackIsEarly DEF GotConflict, Timeout, serverVars
  <1>3. CASE GotSameMeta(c) \/ GotAbort(c) \/ Interrupt(c)
    <2>1. /\ sync' = [sync EXCEPT ![c] = Idle] /\ UNCHANGED serverVars /\ made' = made
          /\ \A n \in net' : n \in net \/ n = Message(c, "abort", NoKey, {})
      BY <1>3 DEF GotSameMeta, GotAbort, Interrupt, Finished, serverVars
    <2>2. sync'[c] = Idle /\ Idle.at = "idle" BY <2>1, Functions DEF IsFcn, Idle
    <2>3. /\ Message(c, "abort", NoKey, {}).from = c
          /\ Message(c, "abort", NoKey, {}).op = "abort"
      BY DEF Message
    <2> QED BY <2>1, <2>2, <2>3 DEF Early, Late, serverVars
  <1>4. CASE Begin(c) \/ GotMeta(c) \/ GotStart(c) \/ GotGraves(c) \/ GotChanges(c)
    <2>1. UNCHANGED serverVars /\ made' = made
      BY <1>4 DEF Begin, GotMeta, GotStart, GotGraves, GotChanges, serverVars
    <2>2. \E s, body : Ask(c, s, body) /\ s.at \notin Late
      <3>1. CASE Begin(c)
        <4> DEFINE s == [Idle EXCEPT !.at = "meta", !.key = FreshKey]
        <4>1. s.at \notin Late BY DEF Idle, Late
        <4>2. \E body : Ask(c, s, body) BY <3>1 DEF Begin
        <4> HIDE DEF s
        <4> QED BY <4>1, <4>2
      <3>2. CASE GotMeta(c)
        <4> DEFINE s == [sync[c] EXCEPT !.at = "start", !.usn = answer[c].usn,
                                        !.newer = base[c].mod > answer[c].mod]
        <4>1. s.at \notin Late BY <1>1 DEF SyncRecord, Late
        <4>2. \E body : Ask(c, s, body) BY <3>2 DEF GotMeta
        <4> HIDE DEF s
        <4> QED BY <4>1, <4>2
      <3>3. ASSUME NEW x, NEW graves, SendChanges(c, x, graves)
            PROVE  \E s, body : Ask(c, s, body) /\ s.at \notin Late
        <4> DEFINE s == [sync[c] EXCEPT !.at = "changes", !.held = {}]
        <4>1. s.at \notin Late BY <1>1 DEF SyncRecord, Late
        <4>2. \E body : Ask(c, s, body) BY <3>3 DEF SendChanges
        <4> HIDE DEF s
        <4> QED BY <4>1, <4>2
      <3>4. CASE GotStart(c)
        <4> DEFINE s == [sync[c] EXCEPT !.at = "graves", !.held = answer[c].graves]
        <4>1. s.at \notin Late BY <1>1 DEF SyncRecord, Late
        <4>2. (\E body : Ask(c, s, body)) \/ \E x, graves : SendChanges(c, x, graves)
          BY <3>4, Zenon DEF GotStart
        <4> HIDE DEF s
        <4> QED BY <3>3, <4>1, <4>2
      <3>5. CASE GotGraves(c) BY <3>3, <3>5 DEF GotGraves
      <3>6. CASE GotChanges(c)
        <4> DEFINE s == [sync[c] EXCEPT !.at = "chunk"]
        <4>1. s.at \notin Late BY <1>1 DEF SyncRecord, Late
        <4>2. \E body : Ask(c, s, body) BY <3>6 DEF GotChanges
        <4> HIDE DEF s
        <4> QED BY <4>1, <4>2
      <3> QED BY <1>4, <3>1, <3>2, <3>4, <3>5, <3>6
    <2> QED BY <2>1, <2>2, AskIsEarly
  <1> QED BY <1>2, <1>3, <1>4

\* The user makes no change of a device unmade.
LEMMA UserIsMore ==
    ASSUME PlainSyncs, Inv, Merge, NEW c \in Clients, User(c)
    PROVE  Early(c) /\ More(base'[c], base[c])
           /\ \A d \in Clients \ {c} : /\ base'[d] = base[d] /\ work'[d] = work[d]
                                       /\ sync'[d] = sync[d] /\ answer'[d] = answer[d]
  <1> DEFINE b == base[c]
  <1>1. clock \in Nat /\ b \in DeviceCollection(clock) BY DeviceHas DEF Inv
  <1>2. ASSUME NEW x, Edit(c, x), More(x, b)
        PROVE  /\ Early(c) /\ More(base'[c], b)
               /\ \A d \in Clients \ {c} : /\ base'[d] = base[d] /\ work'[d] = work[d]
                                           /\ sync'[d] = sync[d] /\ answer'[d] = answer[d]
    <2>1. /\ base'[c] = x /\ UNCHANGED <<sync, serverVars, net, answer, made>>
          /\ \A d \in Clients \ {c} : base'[d] = base[d] /\ work'[d] = work[d]
          /\ sync[c].at = "idle"
      BY <1>2, Functions DEF Edit, IsFcn
    <2> QED BY <1>2, <2>1 DEF Early, Late, serverVars
  <1>3. ASSUME NEW o \in Objects, Write(c, o)
        PROVE  \E x : Edit(c, x) /\ More(x, b)
    <2> DEFINE row == [at |-> Now, usn |-> Unsent]
               x == [b EXCEPT !.rows[o] = row, !.mod = Now]
    <2>1. row # NoRow /\ row.usn = Unsent
      <3>1. row \in AnyRow BY <1>1 DEF Unsent, AnyRow, Now
      <3> QED BY <3>1, SyncAssumption
    <2>2. Edit(c, x) BY <1>3 DEF Write, Touched
    <2> HIDE DEF row
    <2>3. x.graves = b.graves /\ x.rows = [b.rows EXCEPT ![o] = row] /\ DOMAIN b.rows = Objects
      BY <1>1 DEF DeviceCollection, Collection
    <2> HIDE DEF x
    <2>4. More(x, b) BY <2>1, <2>3 DEF More, Dirty, Marked, Has
    <2> QED BY <2>2, <2>4
  <1>4. ASSUME NEW o \in Objects, Remove(c, o)
        PROVE  \E x : Edit(c, x) /\ More(x, b)
    <2> DEFINE y == ApplyGraves(b, {o}, Unsent)
               x == [y EXCEPT !.mod = Now]
    <2>1. Edit(c, x) BY <1>4 DEF Remove
    <2>2. \A p \in Objects :
            /\ y.rows[p] = IF p \in {o} THEN NoRow ELSE b.rows[p]
            /\ y.graves[p] = IF p \in {o} /\ b.graves[p] = NoGrave THEN Unsent ELSE b.graves[p]
      BY <1>1, GravesApplied DEF Beside
    <2>3. x.rows = y.rows /\ x.graves = y.graves
      BY <1>1 DEF ApplyGraves, DeviceCollection, Collection
    <2>4. b.graves[o] = NoGrave
      <3>1. Side(b, work[c], sync[c], answer[c], server) BY SettingOf
      <3> QED BY <1>4, <3>1 DEF Side, Together, Whole, Remove
    <2> HIDE DEF x, y
    <2>5. More(x, b) BY <2>2, <2>3, <2>4 DEF More, Dirty, Marked, Has
    <2> QED BY <2>1, <2>5
  <1>5. CASE WriteConf(c)
    <2> DEFINE x == [b EXCEPT !.conf = Now, !.mod = Now]
    <2>1. Edit(c, x) BY <1>5 DEF WriteConf
    <2>2. x.rows = b.rows /\ x.graves = b.graves BY <1>1 DEF DeviceCollection, Collection
    <2> HIDE DEF x
    <2>3. More(x, b) BY <2>2 DEF More, Dirty, Marked, Has
    <2> QED BY <1>2, <2>1, <2>3
  <1>6. "readd" \notin Edits /\ "undo" \notin Edits /\ "schema" \notin Edits BY DEF PlainSyncs
  <1> QED BY <1>2, <1>3, <1>4, <1>5, <1>6 DEF User, Readd, Undo, ChangeSchema

\* The steps of a device that is not about to send cards
LEMMA EarlyOrigins ==
    ASSUME PlainSyncs, Inv, Keyed, Merge, Origins, NEW c \in Clients,
           \/ User(c) \/ Begin(c) \/ GotSameMeta(c) \/ GotMeta(c) \/ GotStart(c) \/ GotGraves(c)
           \/ GotChanges(c) \/ GotConflict(c) \/ GotAbort(c) \/ Timeout(c) \/ Interrupt(c)
    PROVE  Origins'
  <1>1. CASE User(c) BY <1>1, UserIsMore, EarlyStays
  <1>2. CASE \/ Begin(c) \/ GotSameMeta(c) \/ GotMeta(c) \/ GotStart(c) \/ GotGraves(c)
             \/ GotChanges(c) \/ GotConflict(c) \/ GotAbort(c) \/ Timeout(c) \/ Interrupt(c)
    <2>1. Early(c) BY <1>2, SyncIsEarly
    <2>2. ~GotFinish(c) \/ Begin(c) \/ Timeout(c) \/ Interrupt(c)
      <3>1. CASE \/ GotSameMeta(c) \/ GotMeta(c) \/ GotStart(c) \/ GotGraves(c)
                 \/ GotChanges(c) \/ GotAbort(c)
        <4>1. sync[c].at # "finish"
          BY <3>1 DEF GotSameMeta, GotMeta, GotStart, GotGraves, GotChanges, GotAbort, Answered
        <4> QED BY <4>1 DEF GotFinish, Answered
      <3>2. CASE GotConflict(c)
        <4>1. ~answer[c].ok BY <3>2 DEF GotConflict, Conflict
        <4> QED BY <4>1 DEF GotFinish, Answered
      <3> QED BY <1>2, <3>1, <3>2
    <2>3. Begin(c) \/ (Device(c) /\ ~GotFinish(c)) \/ Timeout(c) \/ Interrupt(c)
      BY <1>2, <2>2 DEF Device
    <2>4. Quiet(c) BY <2>3, SyncIsQuiet
    <2>5. /\ base' = base
          /\ \A d \in Clients \ {c} :
               work'[d] = work[d] /\ sync'[d] = sync[d] /\ answer'[d] = answer[d]
      BY <2>4 DEF Quiet
    <2>6. More(base'[c], base[c]) BY <2>5 DEF More
    <2> QED BY <2>1, <2>5, <2>6, EarlyStays
  <1> QED BY <1>1, <1>2

\* No request to commit is left of a device that takes over what it has committed.
LEMMA GotFinishOrigins ==
    ASSUME Inv, Keyed, Merge, Origins, NEW c \in Clients, GotFinish(c)
    PROVE  Origins'
  <1>1. /\ UNCHANGED <<server, draft, session, unstamped, net, made>>
        /\ \E x : base' = [base EXCEPT ![c] = x]
        /\ work' = [work EXCEPT ![c] = base'[c]] /\ sync' = [sync EXCEPT ![c] = Idle]
        /\ answer' = [answer EXCEPT ![c] = NoAnswer]
    BY DEF GotFinish, Finished, serverVars
  <1>2. /\ sync'[c] = Idle
        /\ \A d \in Clients \ {c} : /\ base'[d] = base[d] /\ work'[d] = work[d]
                                    /\ sync'[d] = sync[d] /\ answer'[d] = answer[d]
    BY <1>1, Functions DEF IsFcn
  <1>3. OwnOf(c)' BY <1>2, IdleIsAway DEF OwnOf, Late
  <1>4. ASSUME NEW m \in net', m.from = c, Finishing(m)' PROVE FALSE
    <2>1. m \in net /\ Finishing(m) /\ m \in Unanswered
      BY <1>1, <1>4 DEF Finishing, Unanswered
    <2>2. Heard(c) /\ answer[c] # NoAnswer /\ sync[c].at = "finish"
      BY DEF GotFinish, Answered, Heard, SessionOps
    <2>3. m.key # NoKey BY <2>1 DEF Keyed, KeysKept, Posted, Finishing
    <2>4. sync[c].key = m.key BY <1>4, <2>1, <2>2, <2>3 DEF Keyed, Opened, Finishing
    <2>5. m.key # sync[c].key BY <2>1, <2>2, NoRequestLeft DEF Finishing
    <2> QED BY <2>4, <2>5
  <1>5. MadeStays /\ \A p \in DOMAIN made' : made'[p] \in Nat BY <1>1 DEF MadeStays, Origins
  <1>6. \A m \in net' : m \in net \/ m.from = c BY <1>1
  <1> QED BY <1>1, <1>2, <1>3, <1>4, <1>5, <1>6, OwnersStay

\* A device in a session asks its next request.
LEMMA AskKeepsOrigins ==
    ASSUME Inv, Keyed, Origins, NEW c \in Clients, Heard(c), base' = base, UNCHANGED serverVars,
           MadeStays, \A p \in DOMAIN made' : made'[p] \in Nat,
           NEW x, work' = [work EXCEPT ![c] = x],
           NEW s, NEW body, Ask(c, s, body), s.key = sync[c].key,
           InIt(c) /\ s.at \in Late => Own(made', base[c], x, server, draft)
    PROVE  Origins'
  <1> DEFINE new == Message(c, s.at, s.key, body)
  <1>1. /\ sync'[c] = s /\ work'[c] = x /\ net' = net \cup {new}
        /\ \A d \in Clients \ {c} : /\ base'[d] = base[d] /\ work'[d] = work[d]
                                    /\ sync'[d] = sync[d] /\ answer'[d] = answer[d]
        /\ UNCHANGED <<server, draft, session, unstamped>>
    BY Functions DEF Ask, IsFcn, serverVars
  <1>2. new.from = c /\ new.op = s.at /\ new.key = s.key BY DEF Message
  <1> HIDE DEF new
  <1>3. InIt(c)' => InIt(c) BY <1>1 DEF InIt
  <1>4. OwnOf(c)' BY <1>1, <1>3 DEF OwnOf
  <1>5. ASSUME NEW m \in net', m.from = c, Finishing(m)'
        PROVE  Sound(made', base'[c], server, draft)
    <2>1. CASE m \in net
      <3>1. Finishing(m) BY <1>1, <1>5 DEF Finishing
      <3>2. Sound(made, base[c], server, draft) BY <1>5, <2>1, <3>1 DEF Origins
      <3>3. server \in DeviceCollection(clock) /\ draft \in DeviceCollection(clock)
        BY ServerIsDevice DEF Inv
      <3>4. \A o \in Objects : /\ From(made', server, o) = From(made, server, o)
                               /\ From(made', draft, o) = From(made, draft, o)
        BY <3>3, FromStays
      <3> QED BY <1>1, <3>2, <3>4 DEF Sound
    <2>2. CASE m = new
      <3>1. s.at = "finish" /\ s.key = session.key /\ unstamped = NoRequest
        BY <1>1, <1>2, <1>5, <2>2 DEF Finishing
      <3>2. s.key # NoKey BY DEF Keyed, KeysKept, DeviceKey, Heard, Answered, SessionOps
      <3>3. InIt(c) BY <3>1, <3>2 DEF InIt
      <3>4. Own(made', base[c], x, server, draft) BY <3>1, <3>3 DEF Late
      <3> QED BY <1>1, <3>4 DEF Own, Sound
    <2> QED BY <1>1, <2>1, <2>2
  <1>6. \A m \in net' : m \in net \/ m.from = c BY <1>1, <1>2
  <1> QED BY <1>1, <1>4, <1>5, <1>6, OwnersStay

\* Numbers change no time.
LEMMA NumberedAt ==
    ASSUME NEW t \in Nat, NEW x \in DeviceCollection(t), NEW usn \in Nat,
           NEW take \in ChunksOf(MarkedCards(x)), NEW o \in Objects
    PROVE  At(WithUsn(x, take, usn), o) = At(x, o)
  <1> DEFINE u == WithUsn(x, take, usn)
  <1> take \subseteq MarkedCards(x) BY DEF ChunksOf
  <1>1. /\ o \notin take => u.rows[o] = x.rows[o]
        /\ o \in take => u.rows[o] = WithNumber(x.rows[o], usn)
    BY RowsNumbered
  <1> HIDE DEF u
  <1>2. o \notin take => At(u, o) = At(x, o) BY <1>1 DEF Has, At
  <1>3. ASSUME o \in take PROVE At(u, o) = At(x, o)
    <2>1. Has(x, o) BY <1>3 DEF MarkedCards, Marked
    <2>2. x.rows[o] \in MarkedRow(t) BY <2>1, RowFacts
    <2>3. u.rows[o] # NoRow /\ u.rows[o].at = x.rows[o].at BY <1>1, <1>3, <2>2, RowNumbered
    <2> QED BY <2>1, <2>3 DEF At, Has
  <1> QED BY <1>2, <1>3 DEF u

LEMMA SendChunkOrigins ==
    ASSUME Inv, Keyed, Merge, Origins, NEW c \in Clients, Heard(c), NEW t \in Nat,
           NEW x \in DeviceCollection(t), NEW ids, ids = MarkedCards(x), SendChunk(c, x, ids),
           UNCHANGED <<base, undo, serverVars>>,
           MadeStays, \A p \in DOMAIN made' : made'[p] \in Nat,
           InIt(c) => Own(made', base[c], x, server, draft)
    PROVE  Origins'
  <1> DEFINE n == sync[c].usn
  <1>1. sync[c] \in SyncRecord BY SettingOf
  <1> SUFFICES ASSUME NEW take \in ChunksOf(ids),
                      work' = [work EXCEPT ![c] = WithUsn(x, take, n)],
                      Ask(c, [sync[c] EXCEPT !.at = "apply", !.held = ids \ take,
                                             !.last = IsLast(take), !.clash = {}],
                          Entries(WithUsn(x, take, n), take))
               PROVE  Origins'
    BY DEF SendChunk, WithUsn
  <1> DEFINE z == WithUsn(x, take, n)
             s == [sync[c] EXCEPT !.at = "apply", !.held = ids \ take,
                                  !.last = IsLast(take), !.clash = {}]
             body == Entries(z, take)
  <1>2. s.key = sync[c].key BY <1>1 DEF SyncRecord
  <1>3. work' = [work EXCEPT ![c] = z] /\ Ask(c, s, body) OBVIOUS
  <1>4. n \in Nat BY <1>1 DEF SyncRecord
  <1>5. \A o \in Objects : At(z, o) = At(x, o) BY <1>4, NumberedAt
  <1> HIDE DEF s, z, body
  <1>6. ASSUME InIt(c) PROVE Own(made', base[c], z, server, draft)
    <2>1. Own(made', base[c], x, server, draft) BY <1>6
    <2>2. \A o \in Objects : From(made', z, o) = From(made', x, o) BY <1>5 DEF From
    <2> QED BY <2>1, <2>2, OwnCarriesOver
  <1> QED BY <1>2, <1>3, <1>6, AskKeepsOrigins DEF serverVars

\* A card made anew stands for what it was made from.
LEMMA AnewStandsFor ==
    ASSUME Inv, NEW w \in DeviceCollection(clock),
           NEW fix, fix \subseteq {o \in Cards : Has(w, o)}, made' = Remade(w, fix)
    PROVE  \A o \in Objects : From(made', Reconciled(w, fix), o) = From(made, w, o)
  <1> DEFINE x == Reconciled(w, fix)
             anew == [at |-> Now, usn |-> Unsent]
  <1>1. clock \in Nat /\ Now \in Nat BY DEF Inv, Now
  <1>2. \A o \in Objects : x.rows[o] = IF o \in fix THEN anew ELSE w.rows[o]
    BY <1>1, CardsReconciled
  <1>3. anew # NoRow /\ anew.at = Now
    <2>1. anew \in AnyRow BY <1>1 DEF Unsent, AnyRow
    <2> QED BY <2>1, SyncAssumption
  <1>4. /\ MadeStays
        /\ \A o \in fix : Has(w, o) /\ At(w, o) # 0 =>
             Of(made', o, Now) = Of(made, o, At(w, o))
    BY RemadeStays
  <1> HIDE DEF x, anew
  <1>5. ASSUME NEW o \in Objects PROVE From(made', x, o) = From(made, w, o)
    <2>1. /\ At(w, o) \in Nat /\ At(w, o) <= clock /\ (Has(w, o) => At(w, o) # 0)
      BY <1>1, RowFacts
    <2>2. CASE o \in fix
      <3>1. At(x, o) = Now BY <1>2, <1>3, <2>2 DEF At, Has
      <3>2. Has(w, o) BY <2>2
      <3> QED BY <1>4, <2>1, <2>2, <3>1, <3>2 DEF From
    <2>3. CASE o \notin fix
      <3>1. At(x, o) = At(w, o) BY <1>2, <2>3 DEF At, Has
      <3> QED BY <1>4, <2>1, <3>1 DEF From, MadeStays
    <2> QED BY <2>2, <2>3
  <1> QED BY <1>5 DEF x

\* What a history of cards made anew maps to stays a time.
LEMMA RemadeIsTime ==
    ASSUME Inv, NEW w \in DeviceCollection(clock),
           NEW fix, fix \subseteq {o \in Cards : Has(w, o)}, made' = Remade(w, fix),
           \A p \in DOMAIN made : made[p] \in Nat
    PROVE  \A p \in DOMAIN made' : made'[p] \in Nat
  <1>1. /\ DOMAIN made' = DOMAIN made \cup (fix \X {Now})
        /\ \A p \in fix \X {Now} : made'[p] = Origin(p[1], w.rows[p[1]].at)
        /\ \A p \in DOMAIN made \ (fix \X {Now}) : made'[p] = made[p]
    BY DEF Remade
  <1>2. ASSUME NEW p \in fix \X {Now} PROVE made'[p] \in Nat
    <2>1. p[1] \in fix /\ Has(w, p[1]) /\ p[1] \in Objects BY DEF Objects
    <2>2. clock \in Nat BY DEF Inv
    <2>3. w.rows[p[1]].at \in Nat BY <2>1, <2>2, RowFacts
    <2>4. Origin(p[1], w.rows[p[1]].at) \in Nat BY <2>3 DEF Origin
    <2> QED BY <1>1, <2>4
  <1> QED BY <1>1, <1>2

LEMMA GotChunkOrigins ==
    ASSUME PlainSyncs, Inv, Keyed, Merge, Origins, NEW c \in Clients, GotChunk(c)
    PROVE  Origins'
  <1> DEFINE merged == MergeCards(work[c], answer[c].cards, Unsent)
             clash == Clashes(c)
             s == [sync[c] EXCEPT !.clash = clash]
  <1>1. /\ clock \in Nat /\ sync[c] \in SyncRecord /\ Now \in Nat /\ Now > clock
    BY SettingOf, Ticks DEF Now
  <1>2. sync[c].at = "chunk" /\ Heard(c) /\ UNCHANGED <<base, undo, serverVars>>
    BY DEF GotChunk, Answered, Heard, SessionOps
  <1>3. /\ merged \in DeviceCollection(clock)
        /\ InIt(c) /\ answer[c].last =>
             /\ Setting(clock, base[c], merged, server, draft)
             /\ Present(merged, draft) /\ Alike(merged, draft, Decks)
             /\ CardsToCome(merged, draft, {})
    <2>1. /\ merged \in DeviceCollection(clock)
          /\ InIt(c) =>
               /\ Setting(clock, base[c], merged, server, draft)
               /\ Present(merged, draft) /\ Alike(merged, draft, Decks)
               /\ CardsToCome(merged, draft, StillToGather(base[c], draft, session))
               /\ answer[c].last => StillToGather(base[c], draft, session) = {}
      BY ChunkCame
    <2> HIDE DEF merged
    <2> QED BY <2>1
  <1>4. CASE ~answer[c].last
    <2>1. work' = [work EXCEPT ![c] = merged] /\ Ask(c, s, {}) /\ made' = made
      BY <1>4 DEF GotChunk
    <2>2. s.at \notin Late /\ s.key = sync[c].key BY <1>1, <1>2 DEF SyncRecord, Late
    <2>3. MadeStays /\ \A p \in DOMAIN made' : made'[p] \in Nat BY <2>1 DEF MadeStays, Origins
    <2> HIDE DEF s, merged
    <2> QED BY <1>2, <2>1, <2>2, <2>3, AskKeepsOrigins
  <1>5. CASE answer[c].last
    <2>1. PICK fix \in SUBSET {o \in Cards : Has(merged, o)} :
            /\ SendChunk(c, Reconciled(merged, fix),
                         PendingRows(Reconciled(merged, fix), Cards, Unsent))
            /\ made' = Remade(merged, fix)
      BY <1>5 DEF GotChunk, MakeAnew
    <2> DEFINE x == Reconciled(merged, fix)
    <2>2. PICK t \in Nat : clock <= t /\ x \in DeviceCollection(t)
      <3> HIDE DEF merged
      <3>1. CASE fix = {} BY <1>1, <1>3, <3>1, NothingReconciled
      <3>2. CASE fix # {}
        <4>1. Now \in 1..Now /\ clock <= Now BY <1>1
        <4>2. merged \in DeviceCollection(Now) BY <1>1, <1>3, <4>1, CollectionsStay
        <4> QED BY <1>1, <4>1, <4>2, ReconciledIsCollection
      <3> QED BY <3>1, <3>2
    <2>3. PendingRows(x, Cards, Unsent) = MarkedCards(x) BY PendingIsMarked DEF MarkedCards
    <2>4. SendChunk(c, x, MarkedCards(x)) BY <2>1, <2>3
    <2> HIDE DEF merged
    <2>5. fix \subseteq Cards /\ made' = Remade(merged, fix) BY <2>1
    <2>6. MadeStays BY <2>5, RemadeStays
    <2>7. \A p \in DOMAIN made' : made'[p] \in Nat
      <3>1. \A p \in DOMAIN made : made[p] \in Nat BY DEF Origins
      <3> QED BY <1>3, <2>1, <2>5, <3>1, RemadeIsTime
    <2>8. ASSUME InIt(c) PROVE Own(made', base[c], x, server, draft)
      <3>1. Setting(clock, base[c], merged, server, draft) BY <1>3, <1>5, <2>8
      <3>2. Own(made, base[c], merged, server, draft)
        BY <1>1, <1>3, <1>5, <2>8, <3>1, OwnWhenMerged
      <3>3. \A o \in Objects : From(made', x, o) = From(made, merged, o)
        BY <1>3, <2>1, <2>5, AnewStandsFor
      <3>4. /\ base[c] \in DeviceCollection(clock) /\ server \in DeviceCollection(clock)
            /\ draft \in DeviceCollection(clock)
        BY <1>1, <3>1, SettingFacts
      <3>5. \A o \in Objects : /\ From(made', base[c], o) = From(made, base[c], o)
                               /\ From(made', server, o) = From(made, server, o)
                               /\ From(made', draft, o) = From(made, draft, o)
        BY <2>6, <3>4, FromStays
      <3> HIDE DEF x
      <3> QED BY <3>2, <3>3, <3>5, OwnCarriesOver
    <2> HIDE DEF x
    <2> QED BY <1>2, <2>2, <2>4, <2>6, <2>7, <2>8, SendChunkOrigins
  <1> QED BY <1>4, <1>5

LEMMA GotApplyOrigins ==
    ASSUME Inv, Keyed, Merge, Origins, NEW c \in Clients, GotApply(c)
    PROVE  Origins'
  <1> DEFINE w == work[c]
             s == [sync[c] EXCEPT !.at = "sanity"]
  <1>1. clock \in Nat /\ w \in DeviceCollection(clock) /\ sync[c] \in SyncRecord
    BY SettingOf
  <1>2. /\ sync[c].at = "apply" /\ Heard(c) /\ UNCHANGED <<base, undo, serverVars>> /\ made' = made
    BY DEF GotApply, Answered, Heard, SessionOps
  <1>3. sync[c].held = MarkedCards(w)
    BY <1>1, <1>2, DeviceHas DEF Progress, MarkedCards
  <1>4. MadeStays /\ \A p \in DOMAIN made' : made'[p] \in Nat BY <1>2 DEF MadeStays, Origins
  <1>5. InIt(c) => Own(made', base[c], w, server, draft)
    BY <1>2 DEF Origins, OwnOf, Late
  <1>6. CASE sync[c].last
    <2>1. Ask(c, s, Counts(w)) /\ work' = work BY <1>6 DEF GotApply
    <2>2. work' = [work EXCEPT ![c] = w] BY <2>1, Functions DEF IsFcn
    <2>3. s.key = sync[c].key BY <1>1 DEF SyncRecord
    <2> HIDE DEF s, w
    <2> QED BY <1>2, <1>4, <1>5, <2>1, <2>2, <2>3, AskKeepsOrigins
  <1>7. CASE ~sync[c].last
    <2>1. SendChunk(c, w, MarkedCards(w)) BY <1>3, <1>7 DEF GotApply
    <2> HIDE DEF w
    <2> QED BY <1>1, <1>2, <1>4, <1>5, <2>1, SendChunkOrigins
  <1> QED BY <1>6, <1>7

LEMMA GotSanityOrigins ==
    ASSUME Inv, Keyed, Merge, Origins, NEW c \in Clients, GotSanity(c)
    PROVE  Origins'
  <1> DEFINE s == [sync[c] EXCEPT !.at = "finish"]
  <1>1. sync[c] \in SyncRecord BY SettingOf
  <1>2. /\ sync[c].at = "sanity" /\ Heard(c) /\ Ask(c, s, {})
        /\ UNCHANGED <<base, undo, serverVars>> /\ work' = work /\ made' = made
    BY DEF GotSanity, Answered, Heard, SessionOps
  <1>3. work' = [work EXCEPT ![c] = work[c]] BY <1>2, Functions DEF IsFcn
  <1>4. s.key = sync[c].key BY <1>1 DEF SyncRecord
  <1>5. MadeStays /\ \A p \in DOMAIN made' : made'[p] \in Nat BY <1>2 DEF MadeStays, Origins
  <1>6. InIt(c) => Own(made', base[c], work[c], server, draft)
    BY <1>2 DEF Origins, OwnOf, Late
  <1> HIDE DEF s
  <1> QED BY <1>2, <1>3, <1>4, <1>5, <1>6, AskKeepsOrigins

LEMMA DeviceOrigins ==
    ASSUME PlainSyncs, Inv, Keyed, Merge, Origins, NEW c \in Clients,
           \/ User(c) \/ Begin(c) \/ Device(c) \/ Timeout(c) \/ Interrupt(c)
           \/ Upload(c) \/ Download(c)
    PROVE  Origins'
  <1>1. Side(base[c], work[c], sync[c], answer[c], server) BY SettingOf
  <1>2. /\ ~GotOtherSchema(c) /\ ~GotMismatch(c) /\ ~GotUpload(c) /\ ~GotDownload(c)
        /\ ~Upload(c) /\ ~Download(c)
    BY <1>1 DEF Side, Sides, Answered, GotOtherSchema, GotMismatch, GotUpload, GotDownload,
                Upload, Download
  <1> QED BY <1>2, EarlyOrigins, GotFinishOrigins, GotChunkOrigins, GotApplyOrigins,
             GotSanityOrigins DEF Device

\* The server answers a request and commits nothing.
LEMMA AnswerOrigins ==
    ASSUME Inv, Keyed, Origins, NEW m \in net, NEW a, Answer(m, a),
           UNCHANGED <<base, work, sync, server, unstamped, made>>,
           \/ session'.key = NoKey
           \/ m.op # "abort" /\ m.key # session.key /\ UNCHANGED <<session, draft>>
           \/ /\ m.op # "abort" /\ session'.key = m.key
              /\ Live(m) /\ m.op \in Late =>
                   Own(made, base[m.from], work[m.from], server, draft')
    PROVE  Origins'
  <1>1. /\ net' = net \ {m}
        /\ \A c \in Clients : m.from # c \/ ~Live(m) => answer'[c] = answer[c]
    BY Served
  <1>2. CASE session'.key = NoKey
    <2>1. \A c \in Clients : ~InIt(c)' BY <1>2 DEF InIt
    <2>2. \A n \in net' : ~Finishing(n)'
      BY <1>1, <1>2 DEF Finishing, Keyed, KeysKept, Posted, Unanswered
    <2> QED BY <2>1, <2>2 DEF Origins, OwnOf
  <1>3. CASE m.op # "abort" /\ m.key # session.key /\ UNCHANGED <<session, draft>>
    <2>1. ASSUME NEW c \in Clients PROVE OwnOf(c)'
      <3>1. ASSUME InIt(c)' PROVE InIt(c)
        <4>1. ~(m.from = c /\ Live(m)) BY <1>3, <3>1 DEF InIt, Live
        <4>2. answer'[c] = answer[c] BY <1>1, <4>1
        <4> QED BY <1>3, <3>1, <4>2 DEF InIt, Heard, Answered
      <3>2. OwnOf(c) BY DEF Origins
      <3> QED BY <1>3, <3>1, <3>2 DEF OwnOf
    <2>2. ASSUME NEW n \in net', Finishing(n)'
          PROVE  Sound(made, base[n.from], server, draft)
      <3>1. n \in net /\ Finishing(n) BY <1>1, <1>3, <2>2 DEF Finishing
      <3> QED BY <3>1 DEF Origins
    <2> QED BY <1>3, <2>1, <2>2 DEF Origins
  <1>4. CASE /\ m.op # "abort" /\ session'.key = m.key
             /\ Live(m) /\ m.op \in Late => Own(made, base[m.from], work[m.from], server, draft')
    <2>1. m \in Unanswered /\ net \subseteq Unanswered BY DEF Unanswered
    <2>2. ASSUME NEW c \in Clients, InIt(c)', sync[c].at \in Late
          PROVE  Own(made, base[c], work[c], server, draft')
      <3>1. sync[c].key = m.key /\ sync[c].at # "abort" BY <1>4, <2>2 DEF InIt, Late
      <3>2. m.from = c /\ Live(m) BY <1>4, <2>1, <3>1, OnlyRequest
      <3> QED BY <1>4, <2>2, <3>2 DEF Live
    <2>3. \A c \in Clients : OwnOf(c)' BY <2>2 DEF OwnOf
    <2>4. \A n \in net' : ~Finishing(n)'
      <3>1. ASSUME NEW n \in net', n.op = "finish", n.key = m.key PROVE FALSE
        BY <1>1, <1>4, <2>1, <3>1, OnlyRequest
      <3> QED BY <1>4, <3>1 DEF Finishing
    <2> QED BY <2>3, <2>4 DEF Origins
  <1> QED BY <1>2, <1>3, <1>4

\* What a session knows of its device when a late request is served
LEMMA LateOrigins ==
    ASSUME Inv, Keyed, Merge, Origins, NEW m \in net, m.op \in Late, unstamped = NoRequest,
           InSession(m), Live(m), NEW c, c = m.from
    PROVE  Own(made, base[c], work[c], server, draft)
  <1>1. m.op \in SessionOps BY DEF Late, SessionOps
  <1>2. c \in Clients /\ InIt(c) /\ sync[c].at = m.op BY <1>1, Waits
  <1> QED BY <1>2 DEF Origins, OwnOf

LEMMA ServeApplyOrigins ==
    ASSUME PlainSyncs, Inv, Keyed, Merge, Origins, NEW m \in net, ServeApply(m)
    PROVE  Origins'
  <1> DEFINE a == [ok |-> TRUE]
             e == MergeCards(draft, m.body, session.client)
             c == m.from
  <1>1. /\ Answer(m, a) /\ m.op = "apply" /\ unstamped = NoRequest /\ InSession(m)
        /\ draft' = e
        /\ UNCHANGED <<base, work, sync, server, session, unstamped, made>>
    BY DEF ServeApply, Serving, clientVars
  <1>2. DOMAIN m.body \subseteq Cards BY <1>1 DEF Inv, MessageOK, IsEntries
  <1> HIDE DEF a, e, c
  <1>3. ASSUME Live(m) PROVE Own(made, base[c], work[c], server, e)
    <2>1. /\ sync[c].at = "apply" /\ clock \in Nat /\ m.body \in Bodies(c) /\ ~Got(answer[c])
          /\ Open(clock, base[c], work[c], server, draft)
          /\ Stage(base[c], work[c], sync[c], answer[c], Bodies(c), server, draft, session)
      BY <1>1, <1>3, Waits DEF SessionOps, c
    <2>2. CardsSent(work[c], server, m.body) BY <2>1 DEF Stage, AtApply
    <2>3. draft \in DeviceCollection(clock) BY <2>1, OpenFacts
    <2>4. \A o \in Objects : e.rows[o] = draft.rows[o] \/ (o \in DOMAIN m.body /\ e.rows[o] = m.body[o])
      BY <2>1, <2>3, CardsTaken DEF e
    <2>5. ASSUME NEW o \in Objects PROVE At(e, o) = At(draft, o) \/ At(e, o) = At(work[c], o)
      <3>1. CASE e.rows[o] = draft.rows[o] BY <3>1 DEF At, Has
      <3>2. CASE o \in DOMAIN m.body /\ e.rows[o] = m.body[o]
        <4>1. e.rows[o] = work[c].rows[o] BY <1>2, <2>2, <3>2 DEF CardsSent
        <4> QED BY <4>1 DEF At, Has
      <3> QED BY <2>4, <3>1, <3>2
    <2>6. \A o \in Objects : \/ From(made, e, o) = From(made, draft, o)
                             \/ From(made, e, o) = From(made, work[c], o)
      BY <2>5 DEF From
    <2>7. Own(made, base[c], work[c], server, draft)
      <3>1. m.op \in Late BY <1>1 DEF Late
      <3> QED BY <1>1, <1>3, <3>1, LateOrigins DEF c
    <2> QED BY <2>6, <2>7 DEF Own
  <1>4. m.op # "abort" /\ session'.key = m.key BY <1>1 DEF InSession
  <1> QED BY <1>1, <1>3, <1>4, AnswerOrigins DEF c

LEMMA ServeSanityOrigins ==
    ASSUME Inv, Keyed, Merge, Origins, NEW m \in net, ServeSanity(m)
    PROVE  Origins'
  <1> DEFINE agrees == m.body = Counts(draft)
             a == [ok |-> TRUE, agrees |-> agrees]
             c == m.from
  <1>1. /\ Answer(m, a) /\ m.op = "sanity" /\ unstamped = NoRequest /\ InSession(m)
        /\ (agrees => draft' = draft)
        /\ UNCHANGED <<base, work, sync, server, session, unstamped, made>>
    BY DEF ServeSanity, Serving, clientVars
  <1> HIDE DEF a, c, agrees
  <1>2. ASSUME Live(m) PROVE Own(made, base[c], work[c], server, draft')
    <2>1. /\ sync[c].at = "sanity" /\ m.body \in Bodies(c)
          /\ Stage(base[c], work[c], sync[c], answer[c], Bodies(c), server, draft, session)
      BY <1>1, <1>2, Waits DEF SessionOps, c
    <2>2. m.body = Counts(work[c]) /\ Present(work[c], draft) BY <2>1 DEF Stage, AtEnd
    <2>3. agrees BY <2>2, CountsAgree DEF agrees
    <2>4. Own(made, base[c], work[c], server, draft)
      <3>1. m.op \in Late BY <1>1 DEF Late
      <3> QED BY <1>1, <1>2, <3>1, LateOrigins DEF c
    <2> QED BY <1>1, <2>3, <2>4
  <1>3. m.op # "abort" /\ session'.key = m.key BY <1>1 DEF InSession
  <1> QED BY <1>1, <1>2, <1>3, AnswerOrigins DEF c

\* No session is open any more.
LEMMA ClosedOrigins ==
    ASSUME Keyed, Origins, UNCHANGED made, net' \subseteq net,
           session'.key = NoKey \/ unstamped' # NoRequest
    PROVE  Origins'
  <1>1. \A c \in Clients : ~InIt(c)' BY DEF InIt
  <1>2. \A n \in net' : ~Finishing(n)'
    BY DEF Finishing, Keyed, KeysKept, Posted, Unanswered
  <1> QED BY <1>1, <1>2 DEF Origins, OwnOf

LEMMA ServeOrigins ==
    ASSUME PlainSyncs, Inv, Keyed, Merge, Origins, NEW m \in net, Serve(m)
    PROVE  Origins'
  <1>1. ~ServeUpload(m) /\ ~ServeDownload(m)
    BY DEF ServeUpload, ServeDownload, Serving, Merge, Sides
  <1>2. CASE ServeMeta(m) \/ ServeAbort(m)
    <2>1. /\ \E a : Answer(m, a)
          /\ session'.key = NoKey /\ UNCHANGED made
      BY <1>2 DEF ServeMeta, ServeAbort, EndSession, NoSession
    <2>2. net' \subseteq net BY <2>1 DEF Answer
    <2> QED BY <2>1, <2>2, ClosedOrigins
  <1>3. CASE ServeStart(m) \/ ServeGraves(m) \/ ServeChanges(m) \/ ServeChunk(m)
    <2>1. UNCHANGED <<base, work, sync, server, unstamped, made>>
          /\ m.op \in {"start", "graves", "changes", "chunk"}
      BY <1>3 DEF ServeStart, ServeGraves, ServeChanges, ServeChunk, Serving, clientVars
    <2>2. \E a : Answer(m, a) BY <1>3 DEF ServeStart, ServeGraves, ServeChanges, ServeChunk
    <2>3. session'.key = m.key
      <3>1. CASE ServeStart(m) BY <3>1 DEF ServeStart, NoSession
      <3>2. CASE ServeGraves(m) \/ ServeChanges(m)
        BY <3>2 DEF ServeGraves, ServeChanges, InSession
      <3>3. CASE ServeChunk(m) BY <3>3 DEF ServeChunk, InSession, Inv, SessionRecord
      <3> QED BY <1>3, <3>1, <3>2, <3>3
    <2>4. m.op # "abort" /\ m.op \notin Late BY <2>1 DEF Late
    <2> QED BY <2>1, <2>2, <2>3, <2>4, AnswerOrigins
  <1>4. CASE Refuse(m)
    <2>1. /\ Answer(m, Conflict) /\ m.op # "abort" /\ m.key # session.key
          /\ UNCHANGED <<base, work, sync, server, unstamped, session, draft, made>>
      BY <1>4 DEF Refuse, Serving, SessionOps, InSession, clientVars, serverVars
    <2> QED BY <2>1, AnswerOrigins
  <1>5. CASE ServeFinish(m)
    <2>1. unstamped' = m /\ net' = net \ {m} /\ UNCHANGED made BY <1>5 DEF ServeFinish
    <2>2. m # NoRequest BY KeyNotDevice DEF Inv, MessageOK, NoRequest
    <2> QED BY <2>1, <2>2, ClosedOrigins
  <1> QED BY <1>1, <1>2, <1>3, <1>4, <1>5, ServeApplyOrigins, ServeSanityOrigins DEF Serve

LEMMA NextOrigins ==
    ASSUME PlainSyncs, Inv, Keyed, Merge, Origins, [Next]_vars
    PROVE  Origins'
  <1>1. CASE UNCHANGED vars
    BY <1>1 DEF vars, Origins, OwnOf, InIt, Heard, Answered, Finishing
  <1>2. CASE \E c \in Clients : User(c) \/ Begin(c) \/ Device(c) \/ Timeout(c) \/ Interrupt(c)
                                \/ Upload(c) \/ Download(c)
    BY <1>2, DeviceOrigins
  <1>3. CASE \E m \in net : Serve(m) BY <1>3, ServeOrigins
  <1>4. CASE Stamp \/ Crash
    <2>1. session'.key = NoKey /\ net' \subseteq net /\ UNCHANGED made
      BY <1>4 DEF Stamp, Crash, EndSession, NoSession, Answer
    <2> QED BY <2>1, ClosedOrigins
  <1> QED BY <1>1, <1>2, <1>3, <1>4 DEF Next

LEMMA InitOrigins == Init => Origins
  <1> SUFFICES ASSUME Init PROVE Origins
    OBVIOUS
  <1>1. /\ \A c \in Clients : sync[c] = Idle
        /\ net = {} /\ DOMAIN made = {}
    BY DEF Init
  <1>2. \A c \in Clients : ~InIt(c)
    BY <1>1, IdleIsAway DEF InIt, Heard, Answered, SessionOps
  <1> QED BY <1>1, <1>2 DEF Origins, OwnOf

OInv == MInv /\ (crossed \/ Origins)

LEMMA OriginsInvariance == ASSUME PlainSyncs PROVE Spec => []OInv
  <1>1. Init => crossed \/ Origins BY InitOrigins
  <1>2. MInv /\ (crossed \/ Origins) /\ [Next]_vars => (crossed \/ Origins)'
    BY NextOrigins, CrossedStays DEF MInv
  <1> QED BY <1>1, <1>2, MergeInvariance, PTL DEF Spec, OInv

-----------------------------------------------------------------------------
(* The sync implements SharedCollection.                                   *)

\* What SharedCollection is told of a device
HeldOf(c) == IF HasCommitted(c) THEN Rows(work[c]) ELSE NoAnswer
DirtyIn(b) == {o \in Objects : Dirty(b, o)}
StaleIn(b, v) == {o \in Objects : Stale(b, v, o)}

LEMMA RowsAre ==
    ASSUME NEW t \in Nat, NEW col \in DeviceCollection(t)
    PROVE  Rows(col) = Seen(made, col)
  <1>1. ASSUME NEW o \in Objects
        PROVE  (IF Has(col, o) THEN Origin(o, col.rows[o].at) ELSE 0) = From(made, col, o)
    <2>1. /\ Has(col, o) => At(col, o) = col.rows[o].at /\ At(col, o) # 0
          /\ ~Has(col, o) => At(col, o) = 0
      BY RowFacts
    <2> QED BY <2>1 DEF From, Of, Origin
  <1> QED BY <1>1 DEF Rows, Seen

LEMMA AllRowsAre ==
    Inv => /\ Rows(server) = Seen(made, server)
           /\ \A c \in Clients : /\ Rows(base[c]) = Seen(made, base[c])
                                /\ Rows(work[c]) = Seen(made, work[c])
  <1> SUFFICES ASSUME Inv
               PROVE  /\ Rows(server) = Seen(made, server)
                      /\ \A c \in Clients : /\ Rows(base[c]) = Seen(made, base[c])
                                           /\ Rows(work[c]) = Seen(made, work[c])
    OBVIOUS
  <1>1. clock \in Nat /\ server \in DeviceCollection(clock) BY ServerIsDevice DEF Inv
  <1> QED BY <1>1, DeviceHas, RowsAre

\* What the collections stand for, before and after a step
LEMMA SeenIs ==
    ASSUME Inv, Inv'
    PROVE  /\ Rows(server) = Seen(made, server) /\ Rows(server)' = Seen(made', server')
           /\ \A c \in Clients :
                /\ Rows(base[c]) = Seen(made, base[c]) /\ Rows(base[c])' = Seen(made', base'[c])
                /\ Rows(work[c]) = Seen(made, work[c]) /\ Rows(work[c])' = Seen(made', work'[c])
  <1>1. Inv' => (/\ Rows(server) = Seen(made, server)
                 /\ \A c \in Clients : /\ Rows(base[c]) = Seen(made, base[c])
                                      /\ Rows(work[c]) = Seen(made, work[c]))'
    BY AllRowsAre, PTL
  <1>2. /\ Rows(server)' = Seen(made', server')
        /\ \A c \in Clients : /\ Rows(base[c])' = Seen(made', base'[c])
                             /\ Rows(work[c])' = Seen(made', work'[c])
    BY <1>1 DEF Seen, From, Of, At, Has
  <1> QED BY <1>2, AllRowsAre

\* Every step leaves what the rows that there are stand for.
LEMMA NextMadeStays ==
    ASSUME Inv, [Next]_vars
    PROVE  MadeStays
  <1>1. CASE made' = made BY <1>1 DEF MadeStays
  <1>2. CASE \E c \in Clients : GotChunk(c)
    <2>1. PICK c \in Clients : GotChunk(c) BY <1>2
    <2>2. \/ made' = made
          \/ \E col : \E cards \in SUBSET {o \in Cards : Has(col, o)} : made' = Remade(col, cards)
      BY <2>1 DEF GotChunk, MakeAnew
    <2>3. ASSUME NEW col, NEW cards \in SUBSET {o \in Cards : Has(col, o)},
                 made' = Remade(col, cards)
          PROVE  MadeStays
      <3>1. cards \subseteq Cards OBVIOUS
      <3> QED BY <2>3, <3>1, RemadeStays
    <2> QED BY <1>1, <2>2, <2>3
  <1>3. ASSUME NEW c \in Clients,
               \/ User(c) \/ Begin(c) \/ (Device(c) /\ ~GotChunk(c)) \/ Timeout(c) \/ Interrupt(c)
               \/ Upload(c) \/ Download(c)
        PROVE  made' = made
    BY <1>3 DEF User, Write, Remove, Readd, WriteConf, Undo, ChangeSchema, Edit, Begin, Timeout,
                Interrupt, Upload, Download, Device, GotSameMeta, GotOtherSchema, GotMeta, GotStart,
                GotGraves, GotChanges, GotApply, GotSanity, GotFinish, GotConflict,
                GotMismatch, GotUpload, GotDownload, GotAbort
  <1>4. ASSUME NEW m \in net, Serve(m) PROVE made' = made
    BY <1>4 DEF Serve, ServeMeta, ServeStart, ServeGraves, ServeChanges, ServeChunk, ServeApply,
                ServeSanity, ServeFinish, Refuse, ServeAbort, ServeUpload, ServeDownload
  <1> QED BY <1>1, <1>2, <1>3, <1>4 DEF Next, vars, Stamp, Crash, Device

LEMMA ToSendIs == \A c \in Clients : ToSend(c) = DirtyIn(base[c])
  BY PendingIsMarked DEF ToSend, DirtyIn, Dirty, Marked, PendingRows, IsPending

LEMMA ToBeSentIs == Inv => \A c \in Clients : ToBeSent(c) = StaleIn(base[c], server)
  <1> SUFFICES ASSUME Inv, NEW c \in Clients PROVE ToBeSent(c) = StaleIn(base[c], server)
    OBVIOUS
  <1> DEFINE k == base[c].usn
  <1>1. k \in Nat BY DeviceHas DEF Inv, DeviceCollection, Collection
  <1>2. /\ PendingRows(server, Objects, k) = {o \in Objects : Has(server, o) /\ server.rows[o].usn >= k}
        /\ PendingGraves(server, k) = {o \in Objects : server.graves[o] >= k}
    BY <1>1 DEF PendingRows, PendingGraves, IsPending, Unsent
  <1>3. ToBeSent(c) = PendingRows(server, Objects, k) \cup PendingGraves(server, k)
    BY DEF ToBeSent
  <1>4. \A o \in Objects : Stale(base[c], server, o) <=>
          (Has(server, o) /\ server.rows[o].usn >= k) \/ server.graves[o] >= k
    BY DEF Stale
  <1> HIDE DEF k
  <1> QED BY <1>2, <1>3, <1>4 DEF StaleIn

\* What is to be sent one way or the other, before and after a step
LEMMA SentIs ==
    ASSUME Inv, Inv'
    PROVE  \A c \in Clients :
             /\ ToSend(c) = DirtyIn(base[c]) /\ ToSend(c)' = DirtyIn(base'[c])
             /\ ToBeSent(c) = StaleIn(base[c], server)
             /\ ToBeSent(c)' = StaleIn(base'[c], server')
  <1>1. \A c \in Clients : ToSend(c) = DirtyIn(base[c]) BY ToSendIs
  <1>2. (\A c \in Clients : ToSend(c) = DirtyIn(base[c]))' BY ToSendIs, PTL
  <1>3. Inv' => (\A c \in Clients : ToBeSent(c) = StaleIn(base[c], server))'
    BY ToBeSentIs, PTL
  <1>4. \A c \in Clients : ToSend(c)' = DirtyIn(base'[c]) BY <1>2 DEF DirtyIn, Dirty, Marked, Has
  <1>5. \A c \in Clients : ToBeSent(c)' = StaleIn(base'[c], server')
    BY <1>3 DEF StaleIn, Stale, Has
  <1> QED BY <1>1, <1>4, <1>5, ToBeSentIs

-----------------------------------------------------------------------------
(* When a step is one of SharedCollection's.                               *)

SameSides == \A d \in Clients :
    Rows(base[d])' = Rows(base[d]) /\ ToSend(d)' = ToSend(d)

LEMMA Forgets ==
    ASSUME NEW c \in Clients, ~HasCommitted(c)', Rows(server)' = Rows(server), UNCHANGED crossed,
           SameSides, \A d \in Clients : ToBeSent(d)' = ToBeSent(d),
           \A d \in Clients \ {c} : HeldOf(d)' = HeldOf(d)
    PROVE  Shared!Forget(c)
  <1>1. [d \in Clients |-> HeldOf(d)]' = [[d \in Clients |-> HeldOf(d)] EXCEPT ![c] = NoAnswer]
    BY DEF HeldOf
  <1> QED BY <1>1 DEF Shared!Forget, HeldOf, SameSides

LEMMA Stutters ==
    ASSUME Rows(server)' = Rows(server), UNCHANGED crossed, SameSides,
           \A d \in Clients : ToBeSent(d)' = ToBeSent(d) /\ HeldOf(d)' = HeldOf(d)
    PROVE  UNCHANGED Shared!vars
  <1>1. [d \in Clients |-> HeldOf(d)]' = [d \in Clients |-> HeldOf(d)] OBVIOUS
  <1> QED BY <1>1 DEF Shared!vars, HeldOf, SameSides

LEMMA EditsOne ==
    ASSUME NEW c \in Clients, NEW o \in Objects, HeldOf(c) = NoAnswer,
           Rows(server)' = Rows(server), UNCHANGED crossed,
           \A d \in Clients : ToBeSent(d)' = ToBeSent(d) /\ HeldOf(d)' = HeldOf(d),
           \A d \in Clients \ {c} : Rows(base[d])' = Rows(base[d]) /\ ToSend(d)' = ToSend(d),
           ToSend(c)' = ToSend(c) \cup {o},
           \A p \in Objects \ {o} : Rows(base[c])'[p] = Rows(base[c])[p]
    PROVE  Shared!Edit(c)
  <1>1. [d \in Clients |-> HeldOf(d)]' = [d \in Clients |-> HeldOf(d)] OBVIOUS
  <1>2. [d \in Clients |-> ToSend(d)]'
          = [[d \in Clients |-> ToSend(d)] EXCEPT ![c] = ToSend(c) \cup {o}]
    OBVIOUS
  <1>3. [d \in Clients |-> Rows(base[d])]'
          = [[d \in Clients |-> Rows(base[d])] EXCEPT ![c] = Rows(base[c])']
    OBVIOUS
  <1> QED BY <1>1, <1>2, <1>3 DEF Shared!Edit, HeldOf

LEMMA Receives ==
    ASSUME NEW c \in Clients, HeldOf(c) # NoAnswer, HeldOf(c)' = NoAnswer,
           Rows(server)' = Rows(server), UNCHANGED crossed,
           Rows(base[c])' = HeldOf(c), ToSend(c)' = {},
           {o \in Objects : HeldOf(c)[o] # Rows(server)[o]} \subseteq ToBeSent(c)',
           \A d \in Clients \ {c} :
             /\ Rows(base[d])' = Rows(base[d]) /\ ToSend(d)' = ToSend(d)
             /\ ToBeSent(d)' = ToBeSent(d) /\ HeldOf(d)' = HeldOf(d)
    PROVE  Shared!Receive(c)
  <1>1. [d \in Clients |-> HeldOf(d)]' = [[d \in Clients |-> HeldOf(d)] EXCEPT ![c] = NoAnswer]
    OBVIOUS
  <1>2. [d \in Clients |-> ToSend(d)]' = [[d \in Clients |-> ToSend(d)] EXCEPT ![c] = {}]
    OBVIOUS
  <1>3. [d \in Clients |-> Rows(base[d])]'
          = [[d \in Clients |-> Rows(base[d])] EXCEPT ![c] = HeldOf(c)]
    OBVIOUS
  <1>4. [d \in Clients |-> ToBeSent(d)]'
          = [[d \in Clients |-> ToBeSent(d)] EXCEPT ![c] = ToBeSent(c)']
    OBVIOUS
  <1> QED BY <1>1, <1>2, <1>3, <1>4 DEF Shared!Receive, HeldOf

\* A meeting of device c changes the server.
Spreads(c) ==
    /\ UNCHANGED crossed /\ \A d \in Clients : Rows(base[d])' = Rows(base[d])
    /\ \A o \in Objects \ ToSend(c) : Rows(server)'[o] = Rows(server)[o]
    /\ \A d \in Clients :
         /\ ToSend(d)' = ToSend(d) /\ ToBeSent(d) \subseteq ToBeSent(d)'
         /\ \A o \in Objects : Rows(server)'[o] # Rows(server)[o] => o \in ToBeSent(d)'

LEMMA SpreadIs ==
    ASSUME NEW c \in Clients, Spreads(c)
    PROVE  Shared!Spread(c)
  <1>1. [d \in Clients |-> ToSend(d)]' = [d \in Clients |-> ToSend(d)]
    BY DEF Spreads
  <1>2. [d \in Clients |-> Rows(base[d])]' = [d \in Clients |-> Rows(base[d])]
    BY DEF Spreads
  <1> QED BY <1>1, <1>2 DEF Shared!Spread, Spreads

LEMMA MeetsLate ==
    ASSUME NEW c \in Clients, Spreads(c), \A d \in Clients : HeldOf(d)' = HeldOf(d)
    PROVE  Shared!MeetLate(c)
  <1>1. [d \in Clients |-> HeldOf(d)]' = [d \in Clients |-> HeldOf(d)] OBVIOUS
  <1> QED BY <1>1, SpreadIs DEF Shared!MeetLate, HeldOf

LEMMA Meets ==
    ASSUME NEW c \in Clients, Spreads(c), HeldOf(c)' = Rows(server)',
           \A d \in Clients \ {c} : HeldOf(d)' = HeldOf(d),
           \A o \in Objects \ ToBeSent(c) : Rows(server)'[o] = Rows(base[c])[o]
    PROVE  Shared!Meet(c)
  <1>1. [d \in Clients |-> HeldOf(d)]'
          = [[d \in Clients |-> HeldOf(d)] EXCEPT ![c] = Rows(server)']
    OBVIOUS
  <1> QED BY <1>1, SpreadIs DEF Shared!Meet, HeldOf

LEMMA SameSidesStay ==
    ASSUME Inv, Inv', MadeStays, NEW c \in Clients,
           base'[c].rows = base[c].rows, base'[c].graves = base[c].graves, base'[c].usn = base[c].usn,
           server'.rows = server.rows, server'.graves = server.graves
    PROVE  /\ Rows(base[c])' = Rows(base[c]) /\ Rows(server)' = Rows(server)
           /\ ToSend(c)' = ToSend(c) /\ ToBeSent(c)' = ToBeSent(c)
  <1>1. \A o \in Objects :
          /\ At(base'[c], o) = At(base[c], o) /\ At(server', o) = At(server, o)
          /\ Dirty(base'[c], o) <=> Dirty(base[c], o)
          /\ Stale(base'[c], server', o) <=> Stale(base[c], server, o)
    BY DEF At, Has, Dirty, Marked, Stale
  <1>2. base[c] \in DeviceCollection(clock) /\ server \in DeviceCollection(clock)
    BY DeviceHas, ServerIsDevice DEF Inv
  <1>3. /\ Seen(made', base[c]) = Seen(made, base[c])
        /\ Seen(made', server) = Seen(made, server)
    BY <1>2, FromStays
  <1>4. Seen(made', base'[c]) = Seen(made', base[c]) /\ Seen(made', server') = Seen(made', server)
    BY <1>1 DEF Seen, From
  <1>5. Rows(base[c])' = Rows(base[c]) /\ Rows(server)' = Rows(server) BY <1>3, <1>4, SeenIs
  <1> QED BY <1>1, <1>5, SentIs DEF DirtyIn, StaleIn

LEMMA ServerStays ==
    ASSUME Inv, Inv', MadeStays, server'.rows = server.rows
    PROVE  Rows(server)' = Rows(server)
  <1>1. server \in DeviceCollection(clock) BY ServerIsDevice DEF Inv
  <1>2. Seen(made', server) = Seen(made, server) BY <1>1, FromStays
  <1>3. \A o \in Objects : At(server', o) = At(server, o) BY DEF At, Has
  <1>4. Seen(made', server') = Seen(made', server) BY <1>3 DEF Seen, From
  <1> QED BY <1>2, <1>4, SeenIs

LEMMA HeldStays ==
    ASSUME Inv, Inv', MadeStays, NEW c \in Clients, work'[c] = work[c] \/ ~HasCommitted(c),
           HasCommitted(c)' <=> HasCommitted(c)
    PROVE  HeldOf(c)' = HeldOf(c)
  <1>1. CASE ~HasCommitted(c) BY <1>1 DEF HeldOf
  <1>2. CASE HasCommitted(c)
    <2>1. work[c] \in DeviceCollection(clock) BY DeviceHas DEF Inv
    <2>2. Seen(made', work[c]) = Seen(made, work[c]) BY <2>1, FromStays
    <2>3. Rows(work[c])' = Rows(work[c]) BY <1>2, <2>2, SeenIs
    <2> QED BY <1>2, <2>3 DEF HeldOf
  <1> QED BY <1>1, <1>2

LEMMA QuietForgets ==
    ASSUME Inv, Inv', MadeStays, NEW c \in Clients, Quiet(c)
    PROVE  Shared!Forget(c)
  <1>1. UNCHANGED <<base, server, crossed>> /\ ~HasCommitted(c)' BY DEF Quiet
  <1>2. \A d \in Clients : /\ Rows(base[d])' = Rows(base[d]) /\ Rows(server)' = Rows(server)
                           /\ ToSend(d)' = ToSend(d) /\ ToBeSent(d)' = ToBeSent(d)
    BY <1>1, SameSidesStay
  <1>3. \A d \in Clients \ {c} : HeldOf(d)' = HeldOf(d)
    BY HeldStays DEF Quiet, HasCommitted, Answered
  <1>4. Rows(server)' = Rows(server) BY <1>1, ServerStays
  <1>5. SameSides BY <1>2 DEF SameSides
  <1> QED BY <1>1, <1>2, <1>3, <1>4, <1>5, Forgets

\* The user writes or removes an object.
LEMMA EditIsEdit ==
    ASSUME Inv, Inv', MadeStays, NEW c \in Clients, NEW x, Edit(c, x), NEW o \in Objects,
           x.usn = base[c].usn,
           \A p \in Objects \ {o} : x.rows[p] = base[c].rows[p] /\ x.graves[p] = base[c].graves[p],
           Dirty(x, o)
    PROVE  Shared!Edit(c)
  <1>1. /\ base'[c] = x /\ \A d \in Clients \ {c} : base'[d] = base[d] /\ work'[d] = work[d]
        /\ UNCHANGED <<sync, server, unstamped, crossed, answer>> /\ sync[c].at = "idle"
    BY Functions DEF Edit, IsFcn, serverVars
  <1>2. \A d \in Clients : HasCommitted(d)' <=> HasCommitted(d)
    BY <1>1 DEF HasCommitted, Answered
  <1>3. ~HasCommitted(c) BY <1>1 DEF HasCommitted
  <1>4. \A d \in Clients : HeldOf(d)' = HeldOf(d) BY <1>1, <1>2, <1>3, HeldStays
  <1>5. \A d \in Clients \ {c} : /\ Rows(base[d])' = Rows(base[d])
                                 /\ ToSend(d)' = ToSend(d) /\ ToBeSent(d)' = ToBeSent(d)
    BY <1>1, SameSidesStay
  <1>6. \A p \in Objects :
          /\ p # o => At(x, p) = At(base[c], p) /\ (Dirty(x, p) <=> Dirty(base[c], p))
          /\ Stale(x, server, p) <=> Stale(base[c], server, p)
    BY DEF At, Has, Dirty, Marked, Stale
  <1>7. ToSend(c)' = ToSend(c) \cup {o}
    BY <1>1, <1>6, SentIs DEF DirtyIn
  <1>8. ToBeSent(c)' = ToBeSent(c) BY <1>1, <1>6, SentIs DEF StaleIn
  <1>9. \A p \in Objects \ {o} : Rows(base[c])'[p] = Rows(base[c])[p]
    <2>1. base[c] \in DeviceCollection(clock) BY DeviceHas DEF Inv
    <2>2. \A p \in Objects : From(made', base[c], p) = From(made, base[c], p)
      BY <2>1, FromStays
    <2>3. \A p \in Objects \ {o} : From(made', x, p) = From(made', base[c], p) BY <1>6 DEF From
    <2>4. Rows(base[c])' = Seen(made', x) /\ Rows(base[c]) = Seen(made, base[c]) BY <1>1, SeenIs
    <2> QED BY <2>2, <2>3, <2>4 DEF Seen
  <1>10. HeldOf(c) = NoAnswer BY <1>3 DEF HeldOf
  <1>11. Rows(server)' = Rows(server) BY <1>1, ServerStays
  <1>12. \A d \in Clients : ToBeSent(d)' = ToBeSent(d) BY <1>5, <1>8
  <1> QED BY <1>1, <1>4, <1>5, <1>7, <1>9, <1>10, <1>11, <1>12, EditsOne

LEMMA UserMaps ==
    ASSUME PlainSyncs, Inv, Inv', MadeStays, Merge, NEW c \in Clients, User(c)
    PROVE  Shared!Edit(c) \/ UNCHANGED Shared!vars
  <1> DEFINE b == base[c]
  <1>1. clock \in Nat /\ b \in DeviceCollection(clock) BY DeviceHas DEF Inv
  <1>2. ASSUME NEW o \in Objects, Write(c, o) PROVE Shared!Edit(c)
    <2> DEFINE row == [at |-> Now, usn |-> Unsent]
               x == [b EXCEPT !.rows[o] = row, !.mod = Now]
    <2>1. row # NoRow /\ row.usn = Unsent
      <3>1. row \in AnyRow BY <1>1 DEF Unsent, AnyRow, Now
      <3> QED BY <3>1, SyncAssumption
    <2>2. Edit(c, x) BY <1>2 DEF Write, Touched
    <2> HIDE DEF row
    <2>3. x.usn = b.usn /\ x.graves = b.graves /\ x.rows = [b.rows EXCEPT ![o] = row]
          /\ DOMAIN b.rows = Objects
      BY <1>1 DEF DeviceCollection, Collection
    <2> HIDE DEF x
    <2>4. Dirty(x, o) BY <2>1, <2>3 DEF Dirty, Marked, Has
    <2>5. \A p \in Objects \ {o} : x.rows[p] = b.rows[p] /\ x.graves[p] = b.graves[p]
      BY <2>3
    <2> QED BY <2>2, <2>3, <2>4, <2>5, EditIsEdit
  <1>3. ASSUME NEW o \in Objects, Remove(c, o) PROVE Shared!Edit(c)
    <2> DEFINE y == ApplyGraves(b, {o}, Unsent)
               x == [y EXCEPT !.mod = Now]
    <2>1. Edit(c, x) BY <1>3 DEF Remove
    <2>2. /\ y.usn = b.usn
          /\ \A p \in Objects :
               /\ y.rows[p] = IF p \in {o} THEN NoRow ELSE b.rows[p]
               /\ y.graves[p] = IF p \in {o} /\ b.graves[p] = NoGrave THEN Unsent ELSE b.graves[p]
      BY <1>1, GravesApplied DEF Beside
    <2>3. x.rows = y.rows /\ x.graves = y.graves /\ x.usn = y.usn
      BY <1>1 DEF ApplyGraves, DeviceCollection, Collection
    <2>4. b.graves[o] = NoGrave
      <3>1. Side(b, work[c], sync[c], answer[c], server) BY SettingOf
      <3> QED BY <1>3, <3>1 DEF Side, Together, Whole, Remove
    <2> HIDE DEF x, y
    <2>5. Dirty(x, o) BY <2>2, <2>3, <2>4 DEF Dirty
    <2>6. \A p \in Objects \ {o} : x.rows[p] = b.rows[p] /\ x.graves[p] = b.graves[p]
      BY <2>2, <2>3
    <2> QED BY <2>1, <2>2, <2>3, <2>5, <2>6, EditIsEdit
  <1>4. CASE WriteConf(c)
    <2> DEFINE x == [b EXCEPT !.conf = Now, !.mod = Now]
    <2>1. Edit(c, x) BY <1>4 DEF WriteConf
    <2>2. x.usn = b.usn /\ x.rows = b.rows /\ x.graves = b.graves
      BY <1>1 DEF DeviceCollection, Collection
    <2> HIDE DEF x
    <2>3. /\ base'[c] = x /\ \A d \in Clients \ {c} : base'[d] = base[d] /\ work'[d] = work[d]
          /\ UNCHANGED <<sync, server, unstamped, crossed, answer>> /\ sync[c].at = "idle"
      BY <2>1, Functions DEF Edit, IsFcn, serverVars
    <2>4. \A d \in Clients : (HasCommitted(d)' <=> HasCommitted(d)) /\ ~HasCommitted(c)
      BY <2>3 DEF HasCommitted, Answered
    <2>5. \A d \in Clients : HeldOf(d)' = HeldOf(d) BY <2>3, <2>4, HeldStays
    <2>6. \A d \in Clients : /\ Rows(base[d])' = Rows(base[d]) /\ Rows(server)' = Rows(server)
                             /\ ToSend(d)' = ToSend(d) /\ ToBeSent(d)' = ToBeSent(d)
      BY <2>2, <2>3, SameSidesStay
    <2>7. SameSides BY <2>6 DEF SameSides
    <2>8. Rows(server)' = Rows(server) BY <2>3, ServerStays
    <2> QED BY <2>3, <2>5, <2>6, <2>7, <2>8, Stutters
  <1>5. "readd" \notin Edits /\ "undo" \notin Edits /\ "schema" \notin Edits BY DEF PlainSyncs
  <1> QED BY <1>2, <1>3, <1>4, <1>5 DEF User, Readd, Undo, ChangeSchema

\* The device takes over what it has committed, and has nothing more to send.
LEMMA GotFinishIsReceive ==
    ASSUME Inv, Inv', MadeStays, Merge, Origins, NEW c \in Clients, GotFinish(c)
    PROVE  Shared!Receive(c)
  <1> DEFINE w == work[c]
             n == sync[c].usn + 1
             x == [w EXCEPT !.mod = answer[c].mod, !.usn = n]
  <1>1. clock \in Nat /\ w \in DeviceCollection(clock) /\ sync[c] \in SyncRecord
        /\ server \in ServerCollection(clock) /\ Progress(sync[c], w)
    BY DeviceHas DEF Inv, DeviceOK
  <1>2. HasCommitted(c) /\ sync[c].at = "finish"
    BY DEF GotFinish, Answered, HasCommitted
  <1>3. Behind(w, n, server) BY <1>2 DEF Merge, MergeOf
  <1>4. x.rows = w.rows /\ x.graves = w.graves /\ x.usn = n
    BY <1>1 DEF DeviceCollection, Collection
  <1>5. NoneMarked(w, Cards) /\ NoneMarked(w, Decks) /\ NoMarkedGrave(w)
    BY <1>1, <1>2 DEF Progress, SessionOps
  <1>6. /\ base' = [base EXCEPT ![c] = x] /\ work' = [work EXCEPT ![c] = base'[c]]
        /\ sync' = [sync EXCEPT ![c] = Idle] /\ answer' = [answer EXCEPT ![c] = NoAnswer]
        /\ UNCHANGED <<server, unstamped, crossed>>
    BY DEF GotFinish, Finished, serverVars
  <1> HIDE DEF x
  <1>7. /\ base'[c] = x /\ sync'[c].at = "idle"
        /\ \A d \in Clients \ {c} : /\ base'[d] = base[d] /\ work'[d] = work[d]
                                    /\ sync'[d] = sync[d] /\ answer'[d] = answer[d]
    BY <1>6, Functions, IdleIsAway DEF IsFcn
  <1>8. ~HasCommitted(c)' /\ HeldOf(c)' = NoAnswer BY <1>7 DEF HeldOf, HasCommitted
  <1>9. \A d \in Clients \ {c} :
          /\ Rows(base[d])' = Rows(base[d]) /\ ToSend(d)' = ToSend(d)
          /\ ToBeSent(d)' = ToBeSent(d) /\ HeldOf(d)' = HeldOf(d)
    BY <1>6, <1>7, SameSidesStay, HeldStays DEF HasCommitted, Answered
  <1>10. HeldOf(c) = Rows(w) BY <1>2 DEF HeldOf
  <1>11. HeldOf(c) # NoAnswer
    <2>1. \A o \in Objects : At(w, o) \in Nat BY <1>1, RowFacts
    <2>2. \A o \in Objects : From(made, w, o) \in Nat BY <2>1 DEF From, Of, Origins
    <2>3. Rows(w) \in [Objects -> Nat] BY <1>1, <2>2, RowsAre DEF Seen
    <2> QED BY <1>10, <2>3, SyncAssumption
  <1>12. \A o \in Objects : At(x, o) = At(w, o) /\ ~Dirty(x, o)
    BY <1>4, <1>5 DEF At, Has, Dirty, Marked, NoneMarked, NoMarkedGrave, Objects
  <1>13. Rows(base[c])' = HeldOf(c)
    <2>1. Seen(made', x) = Seen(made', w) BY <1>12 DEF Seen, From
    <2>2. Seen(made', w) = Seen(made, w) BY <1>1, FromStays
    <2>3. Rows(base[c])' = Seen(made', x) BY <1>7, SeenIs
    <2>4. Rows(w) = Seen(made, w) BY <1>1, RowsAre
    <2> QED BY <1>10, <2>1, <2>2, <2>3, <2>4
  <1>14. ToSend(c)' = {} BY <1>7, <1>12, SentIs DEF DirtyIn
  <1>15. ASSUME NEW o \in Objects, Rows(w)[o] # Rows(server)[o] PROVE o \in ToBeSent(c)'
    <2>1. At(w, o) # At(server, o)
      <3>1. Rows(w) = Seen(made, w) BY <1>1, RowsAre
      <3>2. Rows(server) = Seen(made, server) BY SeenIs
      <3> QED BY <1>15, <3>1, <3>2 DEF Seen, From
    <2>2. Stale(x, server, o) BY <1>3, <1>4, <2>1 DEF Behind, At, Stale
    <2>3. ToBeSent(c)' = StaleIn(x, server) BY <1>6, <1>7, SentIs
    <2> QED BY <2>2, <2>3 DEF StaleIn
  <1>16. {o \in Objects : HeldOf(c)[o] # Rows(server)[o]} \subseteq ToBeSent(c)'
    BY <1>10, <1>15
  <1>17. Rows(server)' = Rows(server) /\ UNCHANGED crossed BY <1>6, ServerStays
  <1> HIDE DEF w
  <1> QED BY <1>8, <1>9, <1>11, <1>13, <1>14, <1>16, <1>17, Receives

\* What the server commits goes to each device with its next sync.
LEMMA FinishSpreads ==
    ASSUME Inv, Inv', Merge, NEW m \in net, ServeFinish(m), NEW c \in Clients, c = m.from,
           Ready(server, draft), Sound(made, base[c], server, draft)
    PROVE  Spreads(c)
  <1> DEFINE v == server
             e == Bumped(draft)
  <1>1. server' = e /\ UNCHANGED <<base, crossed, made>>
    BY DEF ServeFinish, Bumped, clientVars
  <1>2. clock \in Nat /\ v \in ServerCollection(clock) /\ draft \in ServerCollection(clock)
    BY DEF Inv
  <1>3. e.rows = draft.rows /\ e.graves = draft.graves BY <1>2, Commit
  <1>4. v.usn \in Nat BY <1>2 DEF ServerCollection, Collection
  <1>5. \A o \in Objects : Rows(server)'[o] = From(made, e, o) /\ Rows(server)[o] = From(made, v, o)
    BY <1>1, SeenIs DEF Seen
  <1>6. ASSUME NEW o \in Objects \ ToSend(c) PROVE Rows(server)'[o] = Rows(server)[o]
    <2>1. ~Dirty(base[c], o) BY <1>6, SentIs DEF DirtyIn
    <2>2. From(made, draft, o) = From(made, v, o) BY <2>1 DEF Sound
    <2> HIDE DEF e
    <2>3. At(e, o) = At(draft, o) BY <1>3 DEF At, Has
    <2> QED BY <1>5, <2>2, <2>3 DEF From
  <1>7. ASSUME NEW d \in Clients, NEW o \in Objects
        PROVE  /\ o \in ToBeSent(d) => o \in ToBeSent(d)'
               /\ Rows(server)'[o] # Rows(server)[o] => o \in ToBeSent(d)'
    <2>1. Together(base[d], v) /\ base[d].usn <= v.usn
      <3>1. Side(base[d], work[d], sync[d], answer[d], server) BY SettingOf
      <3> QED BY <3>1 DEF Side, Together
    <2>2. \/ e.rows[o] = v.rows[o] /\ e.graves[o] = v.graves[o]
          \/ Has(e, o) /\ e.rows[o].usn = v.usn
          \/ ~Has(e, o) /\ e.graves[o] = v.usn
      BY <1>2, CommitMoves
    <2> HIDE DEF e
    <2>3. \/ At(e, o) = At(v, o) /\ (Stale(base[d], e, o) <=> Stale(base[d], v, o))
          \/ Stale(base[d], e, o)
      BY <2>1, <2>2 DEF Stale, At, Has
    <2>4. /\ ToBeSent(d) = StaleIn(base[d], v) /\ ToBeSent(d)' = StaleIn(base[d], e)
      BY <1>1, SentIs
    <2>5. At(e, o) = At(v, o) => Rows(server)'[o] = Rows(server)[o] BY <1>5 DEF From
    <2> QED BY <2>3, <2>4, <2>5 DEF StaleIn
  <1>8. \A d \in Clients : ToSend(d)' = ToSend(d) BY <1>1, SentIs
  <1>9. \A d \in Clients : ToBeSent(d) \subseteq ToBeSent(d)'
    <2>1. \A d \in Clients : ToBeSent(d) \subseteq Objects BY SentIs DEF StaleIn
    <2> QED BY <1>7, <2>1
  <1>10. \A d \in Clients : Rows(base[d])' = Rows(base[d]) BY <1>1, SeenIs
  <1> QED BY <1>1, <1>6, <1>7, <1>8, <1>9, <1>10 DEF Spreads

LEMMA FinishIsMeet ==
    ASSUME Inv, Inv', Keyed, Merge, Origins, NEW m \in net, ServeFinish(m)
    PROVE  Shared!Meet(m.from) \/ Shared!MeetLate(m.from)
  <1> DEFINE c == m.from
  <1>1. c \in Clients /\ Finishing(m)
    BY DEF Inv, MessageOK, ServeFinish, Serving, Finishing, InSession
  <1>2. Spreads(c)
    <2>1. Ready(server, draft) BY <1>1 DEF Merge
    <2>2. Sound(made, base[c], server, draft) BY <1>1 DEF Origins
    <2> QED BY <1>1, <2>1, <2>2, FinishSpreads
  <1>3. UNCHANGED <<base, work, made>> /\ MadeStays BY DEF ServeFinish, clientVars, MadeStays
  <1>4. \A d \in Clients : ~(Live(m) /\ c = d) => HeldOf(d)' = HeldOf(d)
    BY <1>3, CommitIsHeard, HeldStays
  <1>5. CASE ~Live(m)
    <2>1. \A d \in Clients : HeldOf(d)' = HeldOf(d) BY <1>4, <1>5
    <2> HIDE DEF c
    <2> QED BY <1>1, <1>2, <2>1, MeetsLate DEF c
  <1>6. CASE Live(m)
    <2>1. /\ Alike(work[c], server', Objects)
          /\ Own(made, base[c], work[c], server, draft)
      <3>1. m.op \in Late /\ unstamped = NoRequest /\ InSession(m)
        BY DEF ServeFinish, Serving, Late
      <3> QED BY <1>6, <3>1, AtCommit, LateOrigins
    <2>2. HeldOf(c)' = Rows(server)'
      <3>1. HasCommitted(c)' BY <1>1, <1>6, CommitIsHeard
      <3>2. HeldOf(c)' = Rows(work[c])' BY <3>1 DEF HeldOf
      <3>3. Seen(made', work[c]) = Seen(made', server') BY <2>1 DEF Seen, From, Alike
      <3> QED BY <1>1, <1>3, <3>2, <3>3, SeenIs
    <2>3. ASSUME NEW o \in Objects \ ToBeSent(c) PROVE Rows(server)'[o] = Rows(base[c])[o]
      <3>1. ~Stale(base[c], server, o) BY <1>1, <2>3, SentIs DEF StaleIn
      <3>2. From(made, work[c], o) = From(made, base[c], o) BY <2>1, <3>1 DEF Own
      <3>3. At(work[c], o) = At(server', o) BY <2>1 DEF Alike
      <3>4. /\ Rows(server)' = Seen(made, server') /\ Rows(base[c]) = Seen(made, base[c])
        BY <1>1, <1>3, SeenIs
      <3> QED BY <3>2, <3>3, <3>4 DEF Seen, From
    <2>4. \A d \in Clients \ {c} : HeldOf(d)' = HeldOf(d) BY <1>4
    <2> HIDE DEF c
    <2> QED BY <1>1, <1>2, <2>2, <2>3, <2>4, Meets DEF c
  <1> QED BY <1>5, <1>6

LEMMA OthersServe ==
    ASSUME Inv, Inv', MadeStays, Keyed, Merge, NEW m \in net, Serve(m), ~ServeFinish(m),
           UNCHANGED crossed
    PROVE  UNCHANGED Shared!vars
  <1>1. UNCHANGED <<base, work, sync, server, unstamped>> /\ SameCommits BY ServeIsQuiet
  <1>2. \A d \in Clients : HeldOf(d)' = HeldOf(d) BY <1>1, HeldStays DEF SameCommits
  <1>3. \A d \in Clients : /\ Rows(base[d])' = Rows(base[d]) /\ Rows(server)' = Rows(server)
                           /\ ToSend(d)' = ToSend(d) /\ ToBeSent(d)' = ToBeSent(d)
    BY <1>1, SameSidesStay
  <1>4. SameSides BY <1>3 DEF SameSides
  <1>5. Rows(server)' = Rows(server) BY <1>1, ServerStays
  <1> QED BY <1>2, <1>3, <1>4, <1>5, Stutters

LEMMA StampStutters ==
    ASSUME Inv, Inv', MadeStays, Keyed, Stamp
    PROVE  UNCHANGED Shared!vars
  <1>1. /\ server'.rows = server.rows /\ server'.graves = server.graves
        /\ UNCHANGED <<base, work, sync, crossed>>
        /\ \A c \in Clients : HasCommitted(c)' <=> HasCommitted(c)
    BY StampIs
  <1>2. \A d \in Clients : HeldOf(d)' = HeldOf(d) BY <1>1, HeldStays
  <1>3. \A d \in Clients : /\ Rows(base[d])' = Rows(base[d]) /\ Rows(server)' = Rows(server)
                           /\ ToSend(d)' = ToSend(d) /\ ToBeSent(d)' = ToBeSent(d)
    BY <1>1, SameSidesStay
  <1>4. SameSides BY <1>3 DEF SameSides
  <1>5. Rows(server)' = Rows(server) BY <1>1, ServerStays
  <1> QED BY <1>1, <1>2, <1>3, <1>4, <1>5, Stutters

\* A server that stops after a commit leaves a device without an answer.
LEMMA CrashForgets ==
    ASSUME Inv, Inv', MadeStays, Keyed, Crash
    PROVE  UNCHANGED Shared!vars \/ \E c \in Clients : Shared!Forget(c)
  <1>1. UNCHANGED <<base, work, sync, server, answer, crossed>> /\ unstamped' = NoRequest
    BY DEF Crash, clientVars
  <1>2. \A d \in Clients : unstamped.from # d => HeldOf(d)' = HeldOf(d)
    <2>1. NoRequest.from \notin Clients BY KeyNotDevice DEF NoRequest
    <2>2. \A d \in Clients : unstamped.from # d => (HasCommitted(d)' <=> HasCommitted(d))
      BY <1>1, <2>1 DEF HasCommitted, Answered
    <2> QED BY <1>1, <2>2, HeldStays
  <1>3. \A d \in Clients : /\ Rows(base[d])' = Rows(base[d])
                           /\ ToSend(d)' = ToSend(d) /\ ToBeSent(d)' = ToBeSent(d)
    BY <1>1, SameSidesStay
  <1>4. SameSides BY <1>3 DEF SameSides
  <1>5. Rows(server)' = Rows(server) BY <1>1, ServerStays
  <1>6. CASE unstamped = NoRequest
    <2>1. \A d \in Clients : unstamped.from # d BY <1>6, KeyNotDevice DEF NoRequest
    <2> QED BY <1>1, <1>2, <1>3, <1>4, <1>5, <2>1, Stutters
  <1>7. CASE unstamped # NoRequest
    <2>1. PICK c \in Clients : c = unstamped.from /\ (HasCommitted(c) => answer[c] = NoAnswer)
      BY <1>7, UnstampedIsLive
    <2>2. NoRequest.from # c BY <2>1, KeyNotDevice DEF NoRequest
    <2>3. ~HasCommitted(c)' BY <1>1, <2>1, <2>2 DEF HasCommitted, Answered
    <2>4. \A d \in Clients \ {c} : HeldOf(d)' = HeldOf(d) BY <1>2, <2>1
    <2>5. Shared!Forget(c) BY <1>1, <1>3, <1>4, <1>5, <2>1, <2>3, <2>4, Forgets
    <2> QED BY <2>1, <2>5
  <1> QED BY <1>6, <1>7

LEMMA DeviceMaps ==
    ASSUME PlainSyncs, Inv, Inv', MadeStays, Keyed, Merge, Origins, NEW c \in Clients,
           \/ User(c) \/ Begin(c) \/ Device(c) \/ Timeout(c) \/ Interrupt(c)
           \/ Upload(c) \/ Download(c)
    PROVE  \/ UNCHANGED Shared!vars
           \/ Shared!Edit(c) \/ Shared!Receive(c) \/ Shared!Forget(c)
  <1>1. ~Upload(c) /\ ~Download(c)
    <2>1. Side(base[c], work[c], sync[c], answer[c], server) BY SettingOf
    <2> QED BY <2>1 DEF Side, Upload, Download
  <1>2. CASE User(c) BY <1>2, UserMaps
  <1>3. CASE GotFinish(c) BY <1>3, GotFinishIsReceive
  <1>4. CASE Begin(c) \/ (Device(c) /\ ~GotFinish(c)) \/ Timeout(c) \/ Interrupt(c)
    BY <1>4, SyncIsQuiet, QuietForgets
  <1> QED BY <1>1, <1>2, <1>3, <1>4

\* Every step is one of SharedCollection's, or none: once a session has crossed another,
\* nothing is promised.
LEMMA NextMaps ==
    ASSUME PlainSyncs, OInv, OInv', [Next]_vars
    PROVE  UNCHANGED Shared!vars \/ Shared!Next
  <1>1. Inv /\ Inv' /\ Keyed /\ MadeStays
    <2>1. Inv /\ Inv' /\ Keyed BY DEF OInv, MInv
    <2> QED BY <2>1, NextMadeStays
  <1>2. CASE crossed' BY <1>2 DEF Shared!Next, Shared!Break
  <1>3. CASE ~crossed'
    <2>1. UNCHANGED crossed /\ Merge /\ Origins
      <3>1. crossed \in BOOLEAN /\ crossed' \in BOOLEAN /\ (crossed => crossed')
        BY CrossedStays DEF OInv, MInv
      <3> QED BY <1>3, <3>1 DEF OInv, MInv
    <2>2. CASE UNCHANGED vars
      BY <2>2 DEF vars, Shared!vars, Rows, Origin, Has, ToSend, ToBeSent, HasCommitted, Answered,
                  PendingRows, PendingGraves
    <2>3. CASE \E c \in Clients : User(c) \/ Begin(c) \/ Device(c) \/ Timeout(c) \/ Interrupt(c)
                                  \/ Upload(c) \/ Download(c)
      BY <1>1, <2>1, <2>3, DeviceMaps DEF Shared!Next
    <2>4. ASSUME NEW m \in net, Serve(m) PROVE UNCHANGED Shared!vars \/ Shared!Next
      <3>1. CASE ServeFinish(m)
        <4>1. m.from \in Clients BY <1>1 DEF Inv, MessageOK
        <4>2. Shared!Meet(m.from) \/ Shared!MeetLate(m.from) BY <1>1, <2>1, <3>1, FinishIsMeet
        <4> QED BY <4>1, <4>2 DEF Shared!Next
      <3>2. CASE ~ServeFinish(m) BY <1>1, <2>1, <2>4, <3>2, OthersServe
      <3> QED BY <3>1, <3>2
    <2>5. CASE Stamp BY <1>1, <2>5, StampStutters
    <2>6. CASE Crash BY <1>1, <2>6, CrashForgets DEF Shared!Next
    <2> QED BY <2>2, <2>3, <2>4, <2>5, <2>6 DEF Next
  <1> QED BY <1>2, <1>3

LEMMA InitMaps == Init => Shared!Init
  <1> SUFFICES ASSUME Init PROVE Shared!Init
    OBVIOUS
  <1> DEFINE f == FirstCollection
  <1>1. /\ server = f /\ base = [c \in Clients |-> f] /\ crossed = FALSE
        /\ \A c \in Clients : base[c] = f /\ sync[c] = Idle
    BY DEF Init
  <1>2. f.usn = 1 /\ \A o \in Objects : f.rows[o].usn = 0 /\ f.graves[o] = NoGrave
    BY DEF FirstCollection
  <1> HIDE DEF f
  <1>3. \A c \in Clients : HeldOf(c) = NoAnswer
    BY <1>1, IdleIsAway DEF HeldOf, HasCommitted, Answered
  <1>4. Inv BY InitInv
  <1>5. \A c \in Clients : ToSend(c) = {} /\ ToBeSent(c) = {}
    <2>1. \A o \in Objects : ~Dirty(f, o) /\ ~Stale(f, f, o)
      BY <1>2 DEF Dirty, Marked, Stale, Unsent, NoGrave
    <2> QED BY <1>1, <1>4, <2>1, ToSendIs, ToBeSentIs DEF DirtyIn, StaleIn
  <1>6. /\ [c \in Clients |-> HeldOf(c)] = [c \in Clients |-> NoAnswer]
        /\ [c \in Clients |-> ToSend(c)] = [c \in Clients |-> {}]
        /\ [c \in Clients |-> ToBeSent(c)] = [c \in Clients |-> {}]
        /\ [c \in Clients |-> Rows(base[c])] = [c \in Clients |-> Rows(server)]
    BY <1>1, <1>3, <1>5
  <1> QED BY <1>1, <1>6 DEF Shared!Init, HeldOf

\* Syncs implement SharedCollection, and with it NothingForgotten: no change of any device
\* is lost, also when the answer to finish never arrives or the server stops.
THEOREM MergeImplementsShared == ASSUME PlainSyncs PROVE Spec => SharedSpec
  <1>1. OInv /\ OInv' /\ [Next]_vars => UNCHANGED Shared!vars \/ Shared!Next
    BY NextMaps
  <1>2. OInv /\ OInv' /\ [Next]_vars => [UNCHANGED Shared!vars \/ Shared!Next]_(Shared!vars)
    BY <1>1
  <1> QED BY <1>2, InitMaps, OriginsInvariance, PTL DEF Spec, SharedSpec

=============================================================================
