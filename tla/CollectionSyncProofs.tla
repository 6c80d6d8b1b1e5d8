------------------------ MODULE CollectionSyncProofs ------------------------
(***************************************************************************)
(* Proofs about a collection sync, for any number of devices and objects,  *)
(* any interleaving of their syncs, lost answers, stopped syncs and        *)
(* servers.  What travels carries no mark: rows lose theirs before they    *)
(* leave a device, so that nothing the server holds or sends is marked,    *)
(* and what a device merges never marks its rows.  With that, each step of *)
(* a sync leaves fewer marks behind: no grave once the graves are sent, no *)
(* deck once the changes are, no card but those still to send while the    *)
(* chunks go, and nothing when the rows are counted.                       *)
(***************************************************************************)
EXTENDS CollectionSync, FiniteSetTheorems, TLAPS

Steps == {"idle", "full", "meta", "start", "graves", "changes", "chunk", "apply",
          "sanity", "finish", "abort", "upload", "download"}
Sides == {"upload", "download"}

\* What a collection holds at time t: its rows are of R, its graves of G.
Row(t) == [at : 1..t, usn : Nat]
MarkedRow(t) == [at : 1..t, usn : Nat \cup {Unsent}]
SentGraves == Nat \cup {NoGrave}
MarkedGraves == Nat \cup {NoGrave, Unsent}

Collection(t, R, G) ==
    [mod : 0..t, scm : 0..t, usn : Nat, conf : 0..t,
     rows : [Objects -> R \cup {NoRow}], graves : [Objects -> G]]
DeviceCollection(t) == Collection(t, MarkedRow(t), MarkedGraves)
ServerCollection(t) == Collection(t, Row(t), SentGraves)

\* Rows as they are sent; one that was removed since it was promised is NoRow.
IsEntries(entries, objs, t) ==
    /\ DOMAIN entries \subseteq objs
    /\ \A o \in DOMAIN entries : entries[o] \in Row(t) \cup {NoRow}
IsConf(conf, t) == conf \in 0..t \cup {Unsent}

SyncRecord ==
    [at : Steps, key : Keys \cup {NoKey}, usn : Nat, newer : BOOLEAN,
     held : SUBSET (Objects \cup Sides), last : BOOLEAN, clash : SUBSET Cards,
     differ : BOOLEAN]
SessionRecord ==
    [key : Keys \cup {NoKey}, usn : Nat, client : Nat, newer : BOOLEAN,
     ids : {{Unsent}} \cup SUBSET Cards]

MessageOK(m, t) ==
    /\ m.from \in Clients /\ m.key \in Keys \cup {NoKey}
    /\ m.op = "start" => m.body.usn \in Nat /\ m.body.newer \in BOOLEAN
    /\ m.op = "graves" => m.body \subseteq Objects
    /\ m.op = "changes" => IsEntries(m.body.decks, Decks, t) /\ IsConf(m.body.conf, t)
    /\ m.op = "apply" => IsEntries(m.body, Cards, t)
    /\ m.op = "upload" => m.body \in ServerCollection(t)

\* What the answer to the request of step `at' holds
AnswerOK(a, at, t) == a # NoAnswer /\ a.ok =>
    /\ at = "meta" => a.mod \in 0..t /\ a.usn \in Nat
    /\ at = "start" => a.graves \subseteq Objects
    /\ at = "changes" => IsEntries(a.changes.decks, Decks, t) /\ IsConf(a.changes.conf, t)
    /\ at = "chunk" => IsEntries(a.cards, Cards, t)
    /\ at = "finish" => a.mod \in 0..t
    /\ at = "download" => a.file \in ServerCollection(t)

Marked(col, o) == Has(col, o) /\ col.rows[o].usn = Unsent
NoMarkedGrave(col) == \A o \in Objects : col.graves[o] # Unsent
NoneMarked(col, objs) == \A o \in objs : ~Marked(col, o)

\* What a sync at its step s has left marked in the collection it works on
Progress(s, col) ==
    /\ s.at \in SessionOps => NoMarkedGrave(col)
    /\ s.at = "graves" => s.held \subseteq Objects
    /\ s.at \in SessionOps \ {"graves"} => NoneMarked(col, Decks)
    /\ s.at = "apply" => s.held = {o \in Cards : Marked(col, o)} /\ (s.last => s.held = {})
    /\ s.at \in {"sanity", "finish"} => NoneMarked(col, Cards)

DeviceOK(b, w, u, s, a, t) ==
    /\ b \in DeviceCollection(t) /\ w \in DeviceCollection(t)
    /\ u # NoAnswer => u \in DeviceCollection(t)
    /\ s \in SyncRecord /\ Progress(s, w) /\ AnswerOK(a, s.at, t)

IsFcn(f) == f = [c \in Clients |-> f[c]]

Inv ==
    /\ clock \in Nat /\ clock > 0
    /\ IsFcn(base) /\ IsFcn(work) /\ IsFcn(undo) /\ IsFcn(sync) /\ IsFcn(answer)
    /\ \A c \in Clients : DeviceOK(base[c], work[c], undo[c], sync[c], answer[c], clock)
    /\ server \in ServerCollection(clock) /\ draft \in ServerCollection(clock)
    /\ session \in SessionRecord
    /\ unstamped # NoRequest => unstamped.op = "finish" /\ MessageOK(unstamped, clock)
    /\ \A m \in net : MessageOK(m, clock)

-----------------------------------------------------------------------------
(* What time and the operations keep of a collection.                      *)

LEMMA RowsStay ==
    ASSUME NEW t \in Nat, NEW u \in Nat, t <= u
    PROVE  Row(t) \subseteq Row(u) /\ MarkedRow(t) \subseteq MarkedRow(u)
  <1>1. 1..t \subseteq 1..u OBVIOUS
  <1> QED BY <1>1 DEF Row, MarkedRow

LEMMA CollectionsStay ==
    ASSUME NEW t \in Nat, NEW u \in Nat, t <= u
    PROVE  /\ DeviceCollection(t) \subseteq DeviceCollection(u)
           /\ ServerCollection(t) \subseteq ServerCollection(u)
  <1>1. 0..t \subseteq 0..u OBVIOUS
  <1>2. Row(t) \subseteq Row(u) /\ MarkedRow(t) \subseteq MarkedRow(u) BY RowsStay
  <1>3. ASSUME NEW R, NEW S, NEW G, R \subseteq S
        PROVE  Collection(t, R, G) \subseteq Collection(u, S, G)
    BY <1>1, <1>3 DEF Collection
  <1> QED BY <1>2, <1>3 DEF DeviceCollection, ServerCollection

LEMMA EntriesStay ==
    ASSUME NEW t \in Nat, NEW u \in Nat, t <= u, NEW entries, NEW objs, NEW conf
    PROVE  /\ IsEntries(entries, objs, t) => IsEntries(entries, objs, u)
           /\ IsConf(conf, t) => IsConf(conf, u)
  <1>1. 0..t \subseteq 0..u OBVIOUS
  <1> QED BY <1>1, RowsStay DEF IsEntries, IsConf

LEMMA MessageStays ==
    ASSUME NEW t \in Nat, NEW u \in Nat, t <= u, NEW m, MessageOK(m, t)
    PROVE  MessageOK(m, u)
  BY CollectionsStay, EntriesStay DEF MessageOK

LEMMA AnswerStays ==
    ASSUME NEW t \in Nat, NEW u \in Nat, t <= u, NEW a, NEW at, AnswerOK(a, at, t)
    PROVE  AnswerOK(a, at, u)
  <1>1. 0..t \subseteq 0..u OBVIOUS
  <1> QED BY <1>1, CollectionsStay, EntriesStay DEF AnswerOK

LEMMA DeviceStays ==
    ASSUME NEW t \in Nat, NEW v \in Nat, t <= v,
           NEW b, NEW w, NEW u, NEW s, NEW a, DeviceOK(b, w, u, s, a, t)
    PROVE  DeviceOK(b, w, u, s, a, v)
  BY CollectionsStay, AnswerStays DEF DeviceOK

LEMMA SentIsUnmarked == Unsent \notin Nat /\ NoGrave \notin Nat /\ NoGrave # Unsent
  BY DEF Unsent, NoGrave

LEMMA ServerIsDevice ==
    ASSUME NEW t \in Nat
    PROVE  ServerCollection(t) \subseteq DeviceCollection(t)
  <1>1. Row(t) \subseteq MarkedRow(t) /\ SentGraves \subseteq MarkedGraves
    BY DEF Row, MarkedRow, SentGraves, MarkedGraves
  <1> QED BY <1>1 DEF ServerCollection, DeviceCollection, Collection

LEMMA ServerUnmarked ==
    ASSUME NEW t \in Nat, NEW col \in ServerCollection(t)
    PROVE  NoMarkedGrave(col) /\ NoneMarked(col, Objects)
  BY SentIsUnmarked
     DEF ServerCollection, Collection, Row, SentGraves, NoMarkedGrave, NoneMarked, Marked, Has

\* A grave hides rows and marks none, unless it is itself a mark.
LEMMA Buried ==
    ASSUME NEW t \in Nat, NEW R, NEW G, NEW col \in Collection(t, R, G),
           NEW objs, NEW usn \in G
    PROVE  LET new == ApplyGraves(col, objs, usn) IN
           /\ new \in Collection(t, R, G)
           /\ usn # Unsent /\ NoMarkedGrave(col) => NoMarkedGrave(new)
           /\ \A o \in Objects : Marked(new, o) => Marked(col, o)
  <1> DEFINE rows == [o \in Objects |-> IF o \in objs THEN NoRow ELSE col.rows[o]]
             graves == [o \in Objects |-> IF o \in objs /\ col.graves[o] = NoGrave
                                          THEN usn ELSE col.graves[o]]
             new == ApplyGraves(col, objs, usn)
  <1>1. new = [col EXCEPT !.rows = rows, !.graves = graves] BY DEF ApplyGraves
  <1>2. rows \in [Objects -> R \cup {NoRow}] /\ graves \in [Objects -> G]
    BY DEF Collection
  <1> HIDE DEF new, rows, graves
  <1>3. new \in Collection(t, R, G) /\ new.rows = rows /\ new.graves = graves
    BY <1>1, <1>2 DEF Collection
  <1>4. \A o \in Objects : rows[o] = NoRow \/ rows[o] = col.rows[o] BY DEF rows
  <1>5. \A o \in Objects : graves[o] = usn \/ graves[o] = col.graves[o] BY DEF graves
  <1>6. usn # Unsent /\ NoMarkedGrave(col) => NoMarkedGrave(new)
    BY <1>3, <1>5 DEF NoMarkedGrave
  <1>7. \A o \in Objects : Marked(new, o) => Marked(col, o)
    BY <1>3, <1>4 DEF Marked, Has
  <1> QED BY <1>3, <1>6, <1>7 DEF new

WithRows(col, rows, conf) == [col EXCEPT !.rows = rows, !.conf = conf]

\* Rows that are each sent without a mark, or left alone: none is marked anew.
LEMMA RowsTaken ==
    ASSUME NEW t \in Nat, NEW R, NEW G, Row(t) \subseteq R,
           NEW col \in Collection(t, R, G), NEW conf \in 0..t,
           NEW rows, rows = [o \in Objects |-> rows[o]],
           \A o \in Objects : rows[o] = col.rows[o] \/ rows[o] \in Row(t) \cup {NoRow}
    PROVE  LET new == WithRows(col, rows, conf) IN
           /\ rows \in [Objects -> R \cup {NoRow}]
           /\ new \in Collection(t, R, G) /\ new.rows = rows /\ new.graves = col.graves
           /\ NoMarkedGrave(col) => NoMarkedGrave(new)
           /\ \A o \in Objects : Marked(new, o) => Marked(col, o)
  <1> DEFINE new == WithRows(col, rows, conf)
  <1>1. \A o \in Objects : col.rows[o] \in R \cup {NoRow} BY DEF Collection
  <1>2. rows \in [Objects -> R \cup {NoRow}] BY <1>1
  <1>3. new \in Collection(t, R, G) /\ new.rows = rows /\ new.graves = col.graves
    BY <1>2 DEF Collection, WithRows
  <1> HIDE DEF new
  <1>4. ASSUME NEW o \in Objects, Marked(new, o)
        PROVE  Marked(col, o)
    <2>1. rows[o] \notin Row(t) BY <1>3, <1>4, SentIsUnmarked DEF Marked, Row
    <2>2. rows[o] # NoRow BY <1>3, <1>4 DEF Marked, Has
    <2> QED BY <1>3, <1>4, <2>1, <2>2 DEF Marked, Has
  <1> QED BY <1>2, <1>3, <1>4 DEF NoMarkedGrave, new

\* Merging takes rows as they were sent, without a mark, or leaves them alone.
LEMMA CardsMerged ==
    ASSUME NEW t \in Nat, NEW R, NEW G, Row(t) \subseteq R,
           NEW col \in Collection(t, R, G), NEW pending,
           NEW entries, IsEntries(entries, Cards, t)
    PROVE  LET new == MergeCards(col, entries, pending) IN
           /\ new \in Collection(t, R, G)
           /\ NoMarkedGrave(col) => NoMarkedGrave(new)
           /\ \A o \in Objects : Marked(new, o) => Marked(col, o)
  <1> DEFINE rows == Take(col.rows, entries, LAMBDA m, e : CardProceeds(pending, m, e))
             new == MergeCards(col, entries, pending)
  <1>1. new = [col EXCEPT !.rows = rows] BY DEF MergeCards
  <1>2. \A o \in Objects : rows[o] = col.rows[o]
                         \/ (o \in DOMAIN entries /\ rows[o] = entries[o])
    BY DEF Take
  <1>3. rows = [o \in Objects |-> rows[o]] BY DEF Take
  <1> HIDE DEF rows, new
  <1>4. \A o \in Objects : rows[o] = col.rows[o] \/ rows[o] \in Row(t) \cup {NoRow}
    BY <1>2 DEF IsEntries
  <1>5. col.conf \in 0..t BY DEF Collection
  <1>6. new = WithRows(col, rows, col.conf) BY <1>1 DEF WithRows, Collection
  <1> QED BY <1>3, <1>4, <1>5, <1>6, RowsTaken DEF new

LEMMA ChangesApplied ==
    ASSUME NEW t \in Nat, NEW R, NEW G, Row(t) \subseteq R,
           NEW col \in Collection(t, R, G), NEW changes,
           IsEntries(changes.decks, Decks, t), IsConf(changes.conf, t)
    PROVE  LET new == ApplyChanges(col, changes) IN
           /\ new \in Collection(t, R, G)
           /\ NoMarkedGrave(col) => NoMarkedGrave(new)
           /\ \A o \in Objects : Marked(new, o) => Marked(col, o)
  <1> DEFINE rows == Take(col.rows, changes.decks, DeckProceeds)
             conf == IF changes.conf = Unsent THEN col.conf ELSE changes.conf
             new == ApplyChanges(col, changes)
  <1>1. new = WithRows(col, rows, conf) BY DEF ApplyChanges, WithRows
  <1>2. \A o \in Objects : rows[o] = col.rows[o]
                         \/ (o \in DOMAIN changes.decks /\ rows[o] = changes.decks[o])
    BY DEF Take
  <1>3. rows = [o \in Objects |-> rows[o]] BY DEF Take
  <1>4. conf \in 0..t BY DEF IsConf, Collection
  <1> HIDE DEF rows, new, conf
  <1>5. \A o \in Objects : rows[o] = col.rows[o] \/ rows[o] \in Row(t) \cup {NoRow}
    BY <1>2 DEF IsEntries
  <1> QED BY <1>1, <1>3, <1>4, <1>5, RowsTaken DEF new

AllPresent(objs, col) == \A o \in objs : o \in Objects /\ Has(col, o)
WithUsn(col, objs, usn) == [col EXCEPT !.rows = SetUsn(col.rows, objs, usn)]

\* Rows that are given a number lose their mark.
LEMMA Numbered ==
    ASSUME NEW t \in Nat, NEW G, NEW col \in Collection(t, MarkedRow(t), G),
           NEW objs, AllPresent(objs, col), NEW usn \in Nat
    PROVE  LET new == WithUsn(col, objs, usn) IN
           /\ new \in Collection(t, MarkedRow(t), G) /\ new.graves = col.graves
           /\ \A o \in Objects : Marked(new, o) <=> Marked(col, o) /\ o \notin objs
           /\ \A o \in objs : new.rows[o] \in Row(t)
  <1> DEFINE rows == SetUsn(col.rows, objs, usn)
             new == WithUsn(col, objs, usn)
  <1>1. DOMAIN col.rows = Objects /\ \A o \in objs : col.rows[o] \in MarkedRow(t)
    BY DEF Collection, Has, AllPresent
  <1>2. \A o \in objs : [col.rows[o] EXCEPT !.usn = usn] \in Row(t)
    BY <1>1 DEF Row, MarkedRow
  <1>3. rows = [o \in Objects |-> IF o \in objs THEN [col.rows[o] EXCEPT !.usn = usn]
                                               ELSE col.rows[o]]
    BY <1>1 DEF SetUsn
  <1>4. \A o \in objs : rows[o] \in Row(t) BY <1>2, <1>3 DEF AllPresent
  <1>5. \A o \in Objects \ objs : rows[o] = col.rows[o] BY <1>3
  <1>6. rows = [o \in Objects |-> rows[o]] BY <1>3
  <1>7. new = [col EXCEPT !.rows = rows] BY DEF WithUsn
  <1> HIDE DEF rows, new
  <1>8. Row(t) \subseteq MarkedRow(t) BY DEF Row, MarkedRow
  <1>9. \A o \in Objects : rows[o] = col.rows[o] \/ rows[o] \in Row(t) \cup {NoRow}
    BY <1>4, <1>5
  <1>10. /\ rows \in [Objects -> MarkedRow(t) \cup {NoRow}]
        /\ new \in Collection(t, MarkedRow(t), G)
        /\ new.rows = rows /\ new.graves = col.graves
        /\ \A o \in Objects : Marked(new, o) => Marked(col, o)
    <2>1. col.conf \in 0..t BY DEF Collection
    <2>2. new = WithRows(col, rows, col.conf) BY <1>7 DEF WithRows, Collection
    <2> QED BY <1>6, <1>8, <1>9, <2>1, <2>2, RowsTaken
  <1>11. \A o \in objs : ~Marked(new, o)
    BY <1>4, <1>10, SentIsUnmarked DEF Marked, Row
  <1>12. \A o \in Objects \ objs : Marked(col, o) => Marked(new, o)
    BY <1>5, <1>10 DEF Marked, Has
  <1> QED BY <1>4, <1>10, <1>11, <1>12 DEF new

-----------------------------------------------------------------------------
(* A step of one device, and a step of the server.                         *)

OnlyDevice(c) ==
    /\ base' = [base EXCEPT ![c] = base'[c]] /\ work' = [work EXCEPT ![c] = work'[c]]
    /\ undo' = [undo EXCEPT ![c] = undo'[c]]
    /\ UNCHANGED serverVars

ClockGoesOn == clock' \in Nat /\ clock <= clock'

\* A device that leaves a good copy, sync and request leaves the rest good.
LEMMA DeviceKeeps ==
    ASSUME Inv, NEW c \in Clients, OnlyDevice(c), ClockGoesOn,
           sync' = [sync EXCEPT ![c] = sync'[c]], answer' = [answer EXCEPT ![c] = answer'[c]],
           DeviceOK(base'[c], work'[c], undo'[c], sync'[c], answer'[c], clock'),
           \A m \in net' : m \in net \/ MessageOK(m, clock')
    PROVE  Inv'
  <1> USE DEF ClockGoesOn
  <1>1. clock \in Nat /\ clock' > 0 BY DEF Inv
  <1>2. /\ IsFcn(base') /\ IsFcn(work') /\ IsFcn(undo') /\ IsFcn(sync') /\ IsFcn(answer')
        /\ \A d \in Clients \ {c} :
             /\ base'[d] = base[d] /\ work'[d] = work[d] /\ undo'[d] = undo[d]
             /\ sync'[d] = sync[d] /\ answer'[d] = answer[d]
    BY DEF Inv, IsFcn, OnlyDevice
  <1>3. ASSUME NEW d \in Clients
        PROVE  DeviceOK(base'[d], work'[d], undo'[d], sync'[d], answer'[d], clock')
    <2>1. CASE d = c BY <2>1
    <2>2. CASE d # c
      <3>1. DeviceOK(base[d], work[d], undo[d], sync[d], answer[d], clock) BY DEF Inv
      <3>2. DeviceOK(base[d], work[d], undo[d], sync[d], answer[d], clock')
        BY <1>1, <3>1, DeviceStays
      <3> QED BY <1>2, <2>2, <3>2
    <2> QED BY <2>1, <2>2
  <1>4. /\ server' \in ServerCollection(clock') /\ draft' \in ServerCollection(clock')
        /\ session' \in SessionRecord
    BY <1>1, CollectionsStay DEF Inv, OnlyDevice, serverVars
  <1>5. unstamped' # NoRequest => unstamped'.op = "finish" /\ MessageOK(unstamped', clock')
    BY <1>1, MessageStays DEF Inv, OnlyDevice, serverVars
  <1>6. \A m \in net' : MessageOK(m, clock') BY <1>1, MessageStays DEF Inv
  <1> QED BY <1>1, <1>2, <1>3, <1>4, <1>5, <1>6 DEF Inv

\* A device that asks its next request
LEMMA AskKeeps ==
    ASSUME Inv, NEW c \in Clients, OnlyDevice(c), ClockGoesOn,
           NEW s \in SyncRecord, NEW body, Ask(c, s, body),
           base'[c] \in DeviceCollection(clock'), work'[c] \in DeviceCollection(clock'),
           undo'[c] # NoAnswer => undo'[c] \in DeviceCollection(clock'),
           Progress(s, work'[c]), MessageOK(Message(c, s.at, s.key, body), clock')
    PROVE  Inv'
  <1>1. sync'[c] = s /\ answer'[c] = NoAnswer BY DEF Ask, Inv, IsFcn
  <1>2. /\ sync' = [sync EXCEPT ![c] = sync'[c]]
        /\ answer' = [answer EXCEPT ![c] = answer'[c]]
    BY <1>1 DEF Ask
  <1>3. AnswerOK(answer'[c], sync'[c].at, clock') BY <1>1 DEF AnswerOK
  <1>4. DeviceOK(base'[c], work'[c], undo'[c], sync'[c], answer'[c], clock')
    BY <1>1, <1>3 DEF DeviceOK
  <1>5. \A m \in net' : m \in net \/ MessageOK(m, clock') BY DEF Ask
  <1> QED BY <1>2, <1>4, <1>5, DeviceKeeps

IdleSync == Idle \in SyncRecord /\ Idle.at = "idle"
LEMMA IdleIsSync == IdleSync
  <1>1. 0 \in Nat /\ NoKey \in Keys \cup {NoKey} /\ "idle" \in Steps BY DEF Steps
  <1> QED BY <1>1 DEF IdleSync, Idle, SyncRecord

\* A device whose sync ends, or is told to the server to have ended
LEMMA LeaveKeeps ==
    ASSUME Inv, NEW c \in Clients, OnlyDevice(c), ClockGoesOn,
           sync' = [sync EXCEPT ![c] = sync'[c]], sync'[c] \in SyncRecord,
           sync'[c].at \in {"idle", "full", "abort"},
           answer' = [answer EXCEPT ![c] = NoAnswer],
           base'[c] \in DeviceCollection(clock'), work'[c] \in DeviceCollection(clock'),
           undo'[c] # NoAnswer => undo'[c] \in DeviceCollection(clock'),
           \A m \in net' : m \in net \/ MessageOK(m, clock')
    PROVE  Inv'
  <1>1. answer'[c] = NoAnswer BY DEF Inv, IsFcn
  <1>2. answer' = [answer EXCEPT ![c] = answer'[c]] BY <1>1
  <1>3. AnswerOK(answer'[c], sync'[c].at, clock') BY <1>1 DEF AnswerOK
  <1>4. Progress(sync'[c], work'[c]) BY DEF Progress, SessionOps
  <1>5. DeviceOK(base'[c], work'[c], undo'[c], sync'[c], answer'[c], clock')
    BY <1>3, <1>4 DEF DeviceOK
  <1> QED BY <1>2, <1>5, DeviceKeeps

\* What the server changes stays good, and what it answers fits what was asked.
LEMMA ServerKeeps ==
    ASSUME Inv, UNCHANGED clientVars, ClockGoesOn,
           server' \in ServerCollection(clock'), draft' \in ServerCollection(clock'),
           session' \in SessionRecord,
           unstamped' # NoRequest => unstamped'.op = "finish" /\ MessageOK(unstamped', clock'),
           net' \subseteq net, IsFcn(answer'),
           \A d \in Clients : \/ answer'[d] = answer[d]
                             \/ AnswerOK(answer'[d], sync[d].at, clock')
    PROVE  Inv'
  <1> USE DEF ClockGoesOn
  <1>1. clock \in Nat /\ clock' > 0 BY DEF Inv
  <1>2. IsFcn(base') /\ IsFcn(work') /\ IsFcn(undo') /\ IsFcn(sync')
    BY DEF Inv, IsFcn, clientVars
  <1>3. ASSUME NEW d \in Clients
        PROVE  DeviceOK(base'[d], work'[d], undo'[d], sync'[d], answer'[d], clock')
    <2>1. DeviceOK(base[d], work[d], undo[d], sync[d], answer[d], clock) BY DEF Inv
    <2>2. DeviceOK(base[d], work[d], undo[d], sync[d], answer[d], clock')
      BY <1>1, <2>1, DeviceStays
    <2>3. DeviceOK(base[d], work[d], undo[d], sync[d], answer'[d], clock')
      BY <2>2 DEF DeviceOK
    <2> QED BY <2>3 DEF clientVars
  <1>4. \A m \in net' : MessageOK(m, clock') BY <1>1, MessageStays DEF Inv
  <1> QED BY <1>1, <1>2, <1>3, <1>4 DEF Inv

LEMMA AnswerKeeps ==
    ASSUME Inv, UNCHANGED clientVars, ClockGoesOn,
           server' \in ServerCollection(clock'), draft' \in ServerCollection(clock'),
           session' \in SessionRecord,
           unstamped' # NoRequest => unstamped'.op = "finish" /\ MessageOK(unstamped', clock'),
           NEW m, NEW a, Answer(m, a), AnswerOK(a, m.op, clock')
    PROVE  Inv'
  <1>1. net' \subseteq net BY DEF Answer
  <1>2. /\ IsFcn(answer')
        /\ \A d \in Clients : \/ answer'[d] = answer[d]
                              \/ d = m.from /\ answer'[d] = a /\ Live(m)
    BY DEF Answer, Inv, IsFcn
  <1>3. \A d \in Clients : \/ answer'[d] = answer[d]
                          \/ AnswerOK(answer'[d], sync[d].at, clock')
    BY <1>2 DEF Live
  <1> QED BY <1>1, <1>2, <1>3, ServerKeeps

-----------------------------------------------------------------------------
(* The user's edits.                                                       *)

LEMMA Ticks ==
    ASSUME Inv
    PROVE  /\ clock \in Nat /\ Now \in Nat /\ Now > 0 /\ clock <= Now
           /\ clock' = Now => ClockGoesOn
           /\ clock' = clock => ClockGoesOn
  BY DEF Inv, Now, ClockGoesOn

\* What the device has, also when time has gone on
LEMMA DeviceHas ==
    ASSUME Inv, NEW c \in Clients, NEW t \in Nat, clock <= t
    PROVE  /\ base[c] \in DeviceCollection(t) /\ work[c] \in DeviceCollection(t)
           /\ undo[c] # NoAnswer => undo[c] \in DeviceCollection(t)
           /\ sync[c] \in SyncRecord /\ Progress(sync[c], work[c])
           /\ AnswerOK(answer[c], sync[c].at, t)
  <1>1. clock \in Nat BY DEF Inv
  <1>2. DeviceOK(base[c], work[c], undo[c], sync[c], answer[c], clock) BY DEF Inv
  <1>3. DeviceOK(base[c], work[c], undo[c], sync[c], answer[c], t) BY <1>1, <1>2, DeviceStays
  <1> QED BY <1>3 DEF DeviceOK

LEMMA EditKeeps ==
    ASSUME Inv, NEW c \in Clients, ClockGoesOn,
           NEW col \in DeviceCollection(clock'), Edit(c, col),
           \/ undo' = undo
           \/ undo' = [undo EXCEPT ![c] = base[c]]
           \/ undo' = [undo EXCEPT ![c] = NoAnswer]
    PROVE  Inv'
  <1> USE DEF ClockGoesOn
  <1>1. base'[c] = col /\ work'[c] = col BY DEF Edit, Inv, IsFcn
  <1>2. /\ base' = [base EXCEPT ![c] = base'[c]] /\ work' = [work EXCEPT ![c] = work'[c]]
        /\ undo' = [undo EXCEPT ![c] = undo'[c]] /\ sync' = [sync EXCEPT ![c] = sync'[c]]
        /\ answer' = [answer EXCEPT ![c] = answer'[c]]
    BY <1>1 DEF Edit, Inv, IsFcn
  <1>3. OnlyDevice(c) BY <1>2 DEF OnlyDevice, Edit
  <1>4. undo'[c] # NoAnswer => undo'[c] \in DeviceCollection(clock')
    <2>1. undo'[c] \in {undo[c], base[c], NoAnswer} BY DEF Inv, IsFcn
    <2> QED BY <2>1, DeviceHas
  <1>5. sync'[c] = sync[c] /\ sync[c].at = "idle" /\ answer'[c] = answer[c] BY DEF Edit
  <1>6. sync'[c] \in SyncRecord /\ AnswerOK(answer'[c], sync'[c].at, clock')
    BY <1>5, DeviceHas
  <1>7. Progress(sync'[c], work'[c]) BY <1>5 DEF Progress, SessionOps
  <1>8. DeviceOK(base'[c], work'[c], undo'[c], sync'[c], answer'[c], clock')
    BY <1>1, <1>4, <1>6, <1>7 DEF DeviceOK
  <1>9. net' = net BY DEF Edit
  <1> QED BY <1>2, <1>3, <1>8, <1>9, DeviceKeeps

\* A row made now, still marked
LEMMA NewRow ==
    ASSUME NEW t \in Nat, t > 0
    PROVE  [at |-> t, usn |-> Unsent] \in MarkedRow(t)
  BY DEF MarkedRow

LEMMA TouchedIsCollection ==
    ASSUME NEW t \in Nat, t > 0, NEW col \in DeviceCollection(t), NEW o \in Objects
    PROVE  [col EXCEPT !.rows[o] = [at |-> t, usn |-> Unsent], !.mod = t] \in DeviceCollection(t)
  <1> DEFINE new == [at |-> t, usn |-> Unsent]
             rows == [col.rows EXCEPT ![o] = new]
  <1>1. new \in MarkedRow(t) BY NewRow
  <1> HIDE DEF new
  <1>2. rows \in [Objects -> MarkedRow(t) \cup {NoRow}]
    BY <1>1 DEF DeviceCollection, Collection
  <1>3. [col EXCEPT !.rows[o] = new, !.mod = t] = [col EXCEPT !.rows = rows, !.mod = t]
    BY DEF DeviceCollection, Collection
  <1> HIDE DEF rows
  <1>4. t \in 0..t OBVIOUS
  <1>5. [col EXCEPT !.rows = rows, !.mod = t] \in DeviceCollection(t)
    BY <1>2, <1>4 DEF DeviceCollection, Collection
  <1> QED BY <1>3, <1>5 DEF new

LEMMA WriteKeeps ==
    ASSUME Inv, NEW c \in Clients, NEW o \in Objects, Write(c, o) \/ Readd(c, o)
    PROVE  Inv'
  <1>1. clock' = Now /\ Now \in Nat /\ Now > 0 /\ clock <= Now /\ ClockGoesOn
    BY Ticks DEF Write, Readd
  <1>2. Touched(base[c], o) \in DeviceCollection(clock')
    BY <1>1, DeviceHas, TouchedIsCollection DEF Touched
  <1>3. Edit(c, Touched(base[c], o)) /\ undo' = [undo EXCEPT ![c] = base[c]]
    BY DEF Write, Readd
  <1> QED BY <1>1, <1>2, <1>3, EditKeeps

LEMMA RemoveKeeps ==
    ASSUME Inv, NEW c \in Clients, NEW o \in Objects, Remove(c, o)
    PROVE  Inv'
  <1>1. clock' = Now /\ Now \in Nat /\ Now > 0 /\ clock <= Now /\ ClockGoesOn
    BY Ticks DEF Remove
  <1> DEFINE buried == ApplyGraves(base[c], {o}, Unsent)
             new == [buried EXCEPT !.mod = Now]
  <1>2. buried \in DeviceCollection(clock')
    <2>1. Unsent \in MarkedGraves BY DEF MarkedGraves
    <2>2. base[c] \in DeviceCollection(clock') BY <1>1, DeviceHas
    <2> QED BY <1>1, <2>1, <2>2, Buried DEF DeviceCollection
  <1>3. Edit(c, new) /\ undo' = [undo EXCEPT ![c] = base[c]] BY DEF Remove
  <1> HIDE DEF buried
  <1>4. new \in DeviceCollection(clock')
    <2>1. Now \in 0..clock' BY <1>1
    <2> QED BY <1>2, <2>1 DEF DeviceCollection, Collection
  <1> HIDE DEF new
  <1> QED BY <1>1, <1>3, <1>4, EditKeeps

LEMMA WriteConfKeeps ==
    ASSUME Inv, NEW c \in Clients, WriteConf(c) \/ ChangeSchema(c)
    PROVE  Inv'
  <1>1. clock' = Now /\ Now \in Nat /\ Now > 0 /\ clock <= Now /\ ClockGoesOn
    BY Ticks DEF WriteConf, ChangeSchema
  <1>2. base[c] \in DeviceCollection(clock') /\ Now \in 0..clock' BY <1>1, DeviceHas
  <1> DEFINE new == [base[c] EXCEPT !.conf = Now, !.mod = Now]
             schema == [base[c] EXCEPT !.scm = Now, !.mod = Now]
  <1>3. new \in DeviceCollection(clock') /\ schema \in DeviceCollection(clock')
    BY <1>2 DEF DeviceCollection, Collection
  <1>4. CASE WriteConf(c)
    <2>1. Edit(c, new) /\ undo' = undo BY <1>4 DEF WriteConf
    <2> HIDE DEF new
    <2> QED BY <1>1, <1>3, <2>1, EditKeeps
  <1>5. CASE ChangeSchema(c)
    <2>1. Edit(c, schema) /\ undo' = [undo EXCEPT ![c] = NoAnswer] BY <1>5 DEF ChangeSchema
    <2> HIDE DEF schema
    <2> QED BY <1>1, <1>3, <2>1, EditKeeps
  <1> QED BY <1>4, <1>5

LEMMA UndoKeeps ==
    ASSUME Inv, NEW c \in Clients, Undo(c)
    PROVE  Inv'
  <1> DEFINE now == base[c]
             then == undo[c]
             back == {o \in Objects : Has(then, o) /\ ~Has(now, o)}
             graves == [o \in Objects |-> IF o \in back THEN NoGrave ELSE now.graves[o]]
             new == [now EXCEPT !.rows = then.rows, !.mod = then.mod, !.graves = graves]
  <1>1. clock' = clock /\ clock \in Nat /\ ClockGoesOn BY Ticks DEF Undo
  <1>2. now \in DeviceCollection(clock') /\ then \in DeviceCollection(clock')
    BY <1>1, DeviceHas DEF Undo
  <1>3. Edit(c, new) /\ undo' = [undo EXCEPT ![c] = NoAnswer] BY DEF Undo
  <1>4. graves \in [Objects -> MarkedGraves]
    BY <1>2 DEF DeviceCollection, Collection, MarkedGraves
  <1> HIDE DEF graves
  <1>5. new \in DeviceCollection(clock') BY <1>2, <1>4 DEF DeviceCollection, Collection
  <1> HIDE DEF new
  <1> QED BY <1>1, <1>3, <1>5, EditKeeps

LEMMA UserKeeps ==
    ASSUME Inv, NEW c \in Clients, User(c)
    PROVE  Inv'
  BY WriteKeeps, RemoveKeeps, WriteConfKeeps, UndoKeeps DEF User

-----------------------------------------------------------------------------
(* The device's way through a sync.                                        *)

LEMMA PendingIsMarked ==
    ASSUME NEW col, NEW objs
    PROVE  /\ PendingRows(col, objs, Unsent) = {o \in objs : Marked(col, o)}
           /\ PendingGraves(col, Unsent) = {o \in Objects : col.graves[o] = Unsent}
  BY DEF PendingRows, PendingGraves, IsPending, Marked

\* A chunk that is not filled takes all there is.
LEMMA LastChunk ==
    ASSUME NEW ids \in SUBSET Objects, NEW take \in ChunksOf(ids)
    PROVE  take \subseteq ids /\ (IsLast(take) => ids \ take = {})
  <1>1. IsFiniteSet(ids) BY SyncAssumption, FS_Subset
  <1>2. take \subseteq ids /\ Cardinality(take) = Min({ChunkSize, Cardinality(ids)})
    BY DEF ChunksOf
  <1>3. Cardinality(ids) \in Nat /\ ChunkSize \in Nat
    BY <1>1, FS_CardinalityType, SyncAssumption
  <1>4. Min({ChunkSize, Cardinality(ids)}) \in {ChunkSize, Cardinality(ids)}
    BY <1>3 DEF Min
  <1>5. IsLast(take) => Cardinality(take) = Cardinality(ids) BY <1>2, <1>3, <1>4 DEF IsLast
  <1>6. Cardinality(take) = Cardinality(ids) => take = ids BY <1>1, <1>2, FS_Subset
  <1> QED BY <1>2, <1>5, <1>6

LEMMA PlainMessage ==
    ASSUME NEW t, NEW c \in Clients, NEW s \in SyncRecord, NEW body,
           s.at \notin {"start", "graves", "changes", "apply", "upload"}
    PROVE  MessageOK(Message(c, s.at, s.key, body), t)
  BY DEF MessageOK, Message, SyncRecord

LEMMA BeginKeeps ==
    ASSUME Inv, NEW c \in Clients, Begin(c)
    PROVE  Inv'
  <1> DEFINE s == [Idle EXCEPT !.at = "meta", !.key = FreshKey]
  <1>1. clock' = clock /\ clock \in Nat /\ ClockGoesOn BY Ticks DEF Begin
  <1>2. FreshKey \in Keys BY DEF Begin, FreshKey, FreshKeys
  <1>3. Ask(c, s, {}) BY DEF Begin
  <1>4. s \in SyncRecord /\ s.at = "meta"
    <2>1. Idle \in SyncRecord BY IdleIsSync DEF IdleSync
    <2>2. "meta" \in Steps BY DEF Steps
    <2> QED BY <1>2, <2>1, <2>2 DEF SyncRecord
  <1> HIDE DEF s
  <1>5. MessageOK(Message(c, s.at, s.key, {}), clock') BY <1>4, PlainMessage
  <1>6. Progress(s, work'[c]) BY <1>4 DEF Progress, SessionOps
  <1>7. OnlyDevice(c) /\ base'[c] = base[c] /\ work'[c] = work[c] /\ undo'[c] = undo[c]
    BY DEF Begin, OnlyDevice, Inv, IsFcn
  <1> QED BY <1>1, <1>3, <1>4, <1>5, <1>6, <1>7, DeviceHas, AskKeeps

LEMMA GotSameMetaKeeps ==
    ASSUME Inv, NEW c \in Clients, GotSameMeta(c) \/ GotUpload(c)
    PROVE  Inv'
  <1>1. clock' = clock /\ clock \in Nat /\ ClockGoesOn BY Ticks DEF GotSameMeta, GotUpload
  <1>2. Finished(c) /\ net' = net BY DEF GotSameMeta, GotUpload
  <1>3. OnlyDevice(c) /\ base'[c] = base[c] /\ work'[c] = work[c] /\ undo'[c] = undo[c]
    BY DEF GotSameMeta, GotUpload, OnlyDevice, Inv, IsFcn
  <1>4. sync'[c] = Idle /\ sync' = [sync EXCEPT ![c] = sync'[c]]
        /\ answer' = [answer EXCEPT ![c] = NoAnswer]
    BY <1>2 DEF Finished, Inv, IsFcn
  <1>5. /\ base'[c] \in DeviceCollection(clock') /\ work'[c] \in DeviceCollection(clock')
        /\ undo'[c] # NoAnswer => undo'[c] \in DeviceCollection(clock')
    BY <1>1, <1>3, DeviceHas
  <1> QED BY <1>1, <1>2, <1>3, <1>4, <1>5, IdleIsSync, LeaveKeeps DEF IdleSync

LEMMA GotOtherSchemaKeeps ==
    ASSUME Inv, NEW c \in Clients, GotOtherSchema(c)
    PROVE  Inv'
  <1> DEFINE may == {w \in {"upload", "download"} :
                      IF w = "upload" THEN ~Empty(base[c]) \/ answer[c].empty
                                      ELSE ~answer[c].empty \/ Empty(base[c])}
             s == [sync[c] EXCEPT !.at = "full", !.held = may]
  <1>1. clock' = clock /\ clock \in Nat /\ ClockGoesOn BY Ticks DEF GotOtherSchema
  <1>2. may \subseteq Sides BY DEF Sides
  <1>3. sync' = [sync EXCEPT ![c].at = "full", ![c].held = may]
    BY DEF GotOtherSchema
  <1> HIDE DEF may
  <1>4. sync'[c] = s /\ sync' = [sync EXCEPT ![c] = s]
    BY <1>3, DeviceHas DEF Inv, IsFcn, SyncRecord
  <1>5. s \in SyncRecord /\ s.at = "full"
    <2>1. sync[c] \in SyncRecord BY <1>1, DeviceHas
    <2>2. "full" \in Steps /\ may \in SUBSET (Objects \cup Sides) BY <1>2 DEF Steps
    <2> QED BY <2>1, <2>2 DEF SyncRecord
  <1> HIDE DEF s
  <1>6. OnlyDevice(c) /\ base'[c] = base[c] /\ work'[c] = work[c] /\ undo'[c] = undo[c]
    BY DEF GotOtherSchema, OnlyDevice, Inv, IsFcn
  <1>7. answer' = [answer EXCEPT ![c] = NoAnswer] /\ net' = net BY DEF GotOtherSchema
  <1>8. /\ base'[c] \in DeviceCollection(clock') /\ work'[c] \in DeviceCollection(clock')
        /\ undo'[c] # NoAnswer => undo'[c] \in DeviceCollection(clock')
    BY <1>1, <1>6, DeviceHas
  <1>9. sync' = [sync EXCEPT ![c] = sync'[c]] /\ sync'[c].at \in {"idle", "full", "abort"}
    BY <1>4, <1>5
  <1>10. sync'[c] \in SyncRecord BY <1>4, <1>5
  <1> QED BY <1>1, <1>6, <1>7, <1>8, <1>9, <1>10, LeaveKeeps

LEMMA GotMetaKeeps ==
    ASSUME Inv, NEW c \in Clients, GotMeta(c)
    PROVE  Inv'
  <1> DEFINE newer == base[c].mod > answer[c].mod
             s == [sync[c] EXCEPT !.at = "start", !.usn = answer[c].usn, !.newer = newer]
             body == [usn |-> base[c].usn, newer |-> s.newer]
  <1>1. clock' = clock /\ clock \in Nat /\ ClockGoesOn BY Ticks DEF GotMeta
  <1>2. /\ base[c] \in DeviceCollection(clock) /\ sync[c] \in SyncRecord
        /\ AnswerOK(answer[c], sync[c].at, clock)
    BY <1>1, DeviceHas
  <1>3. answer[c].usn \in Nat BY <1>2 DEF GotMeta, Answered, AnswerOK
  <1>4. newer \in BOOLEAN OBVIOUS
  <1>5. Ask(c, s, body) BY DEF GotMeta
  <1> HIDE DEF newer
  <1>6. s \in SyncRecord /\ s.at = "start"
    <2>1. "start" \in Steps BY DEF Steps
    <2> QED BY <1>2, <1>3, <1>4, <2>1 DEF SyncRecord
  <1> HIDE DEF s
  <1>7. body.usn \in Nat /\ body.newer \in BOOLEAN
    BY <1>2, <1>6 DEF DeviceCollection, Collection, SyncRecord
  <1> HIDE DEF body
  <1>8. MessageOK(Message(c, s.at, s.key, body), clock')
    BY <1>6, <1>7 DEF MessageOK, Message, SyncRecord
  <1>9. Progress(s, work'[c]) BY <1>6 DEF Progress, SessionOps
  <1>10. OnlyDevice(c) /\ base'[c] = base[c] /\ work'[c] = work[c] /\ undo'[c] = NoAnswer
    BY DEF GotMeta, OnlyDevice, Inv, IsFcn
  <1> QED BY <1>1, <1>5, <1>6, <1>8, <1>9, <1>10, DeviceHas, AskKeeps

LEMMA SendChangesKeeps ==
    ASSUME Inv, NEW c \in Clients, NEW col \in DeviceCollection(clock), NoMarkedGrave(col),
           NEW remoteGraves, SendChanges(c, col, remoteGraves),
           UNCHANGED <<base, undo, serverVars, clock>>
    PROVE  Inv'
  <1> DEFINE buried == ApplyGraves(col, remoteGraves, sync[c].usn)
             mine == PendingRows(buried, Decks, Unsent)
             sent == WithUsn(buried, mine, sync[c].usn)
             s == [sync[c] EXCEPT !.at = "changes", !.held = {}]
             body == [decks |-> Entries(sent, mine),
                      conf |-> IF sync[c].newer THEN sent.conf ELSE Unsent]
  <1>1. clock' = clock /\ clock \in Nat /\ ClockGoesOn BY Ticks
  <1>2. sync[c] \in SyncRecord /\ sync[c].usn \in Nat BY <1>1, DeviceHas DEF SyncRecord
  <1>3. Ask(c, s, body) /\ work' = [work EXCEPT ![c] = sent] BY DEF SendChanges, WithUsn
  <1>4. buried \in DeviceCollection(clock) /\ NoMarkedGrave(buried)
    <2>1. sync[c].usn \in MarkedGraves /\ sync[c].usn # Unsent
      BY <1>2, SentIsUnmarked DEF MarkedGraves
    <2> QED BY <1>1, <2>1, Buried DEF DeviceCollection
  <1>5. mine = {o \in Decks : Marked(buried, o)} BY PendingIsMarked
  <1> HIDE DEF buried, mine
  <1>6. AllPresent(mine, buried) BY <1>5 DEF Marked, Objects, AllPresent
  <1>7. /\ sent \in DeviceCollection(clock) /\ sent.graves = buried.graves
        /\ \A o \in Objects : Marked(sent, o) <=> Marked(buried, o) /\ o \notin mine
        /\ \A o \in mine : sent.rows[o] \in Row(clock)
    <2>1. buried \in Collection(clock, MarkedRow(clock), MarkedGraves)
      BY <1>4 DEF DeviceCollection
    <2>2. clock \in Nat /\ sync[c].usn \in Nat BY <1>1, <1>2
    <2> QED BY <1>6, <2>1, <2>2, Numbered DEF DeviceCollection
  <1>8. NoMarkedGrave(sent) /\ NoneMarked(sent, Decks)
    BY <1>4, <1>5, <1>7 DEF NoMarkedGrave, NoneMarked, Objects
  <1>9. IsEntries(body.decks, Decks, clock') /\ IsConf(body.conf, clock')
    <2>1. IsEntries(Entries(sent, mine), Decks, clock')
      BY <1>1, <1>5, <1>7 DEF Entries, IsEntries
    <2>2. sent.conf \in 0..clock' BY <1>1, <1>7 DEF DeviceCollection, Collection
    <2> HIDE DEF sent
    <2> QED BY <2>1, <2>2 DEF IsConf
  <1> HIDE DEF sent, body
  <1>10. s \in SyncRecord /\ s.at = "changes"
    <2>1. "changes" \in Steps BY DEF Steps
    <2> QED BY <1>2, <2>1 DEF SyncRecord
  <1> HIDE DEF s
  <1>11. MessageOK(Message(c, s.at, s.key, body), clock')
    BY <1>9, <1>10 DEF MessageOK, Message, SyncRecord
  <1>12. base'[c] = base[c] /\ undo'[c] = undo[c] /\ work'[c] = sent
    BY <1>3 DEF Inv, IsFcn
  <1>13. OnlyDevice(c) BY <1>3, <1>12 DEF OnlyDevice, Inv, IsFcn
  <1>14. Progress(s, work'[c]) BY <1>8, <1>10, <1>12 DEF Progress, SessionOps
  <1> QED BY <1>1, <1>3, <1>7, <1>10, <1>11, <1>12, <1>13, <1>14, DeviceHas, AskKeeps

LEMMA GotStartKeeps ==
    ASSUME Inv, NEW c \in Clients, GotStart(c)
    PROVE  Inv'
  <1> DEFINE mine == PendingGraves(work[c], Unsent)
             graves == [o \in Objects |-> IF o \in mine THEN sync[c].usn ELSE work[c].graves[o]]
             marked == [work[c] EXCEPT !.graves = graves]
             s == [sync[c] EXCEPT !.at = "graves", !.held = answer[c].graves]
  <1>1. clock' = clock /\ clock \in Nat /\ ClockGoesOn BY Ticks DEF GotStart
  <1>2. /\ work[c] \in DeviceCollection(clock) /\ sync[c] \in SyncRecord /\ sync[c].usn \in Nat
        /\ AnswerOK(answer[c], sync[c].at, clock)
    BY <1>1, DeviceHas DEF SyncRecord
  <1>3. answer[c].graves \subseteq Objects BY <1>2 DEF GotStart, Answered, AnswerOK
  <1>4. UNCHANGED <<base, undo, serverVars, clock>> BY DEF GotStart
  <1>5. mine = {o \in Objects : work[c].graves[o] = Unsent} BY PendingIsMarked
  <1>6. \/ mine = {} /\ SendChanges(c, marked, answer[c].graves)
        \/ mine # {} /\ work' = [work EXCEPT ![c] = marked] /\ Ask(c, s, mine)
    BY DEF GotStart
  <1> HIDE DEF mine
  <1>7. graves \in [Objects -> MarkedGraves] /\ \A o \in Objects : graves[o] # Unsent
    BY <1>2, <1>5, SentIsUnmarked DEF DeviceCollection, Collection, MarkedGraves
  <1> HIDE DEF graves
  <1>8. marked \in DeviceCollection(clock) /\ marked.graves = graves
    BY <1>2, <1>7 DEF DeviceCollection, Collection
  <1>9. NoMarkedGrave(marked) BY <1>7, <1>8 DEF NoMarkedGrave
  <1> HIDE DEF marked
  <1>10. CASE mine = {}
    BY <1>4, <1>6, <1>8, <1>9, <1>10, SendChangesKeeps
  <1>11. CASE mine # {}
    <2>1. Ask(c, s, mine) /\ work' = [work EXCEPT ![c] = marked] BY <1>6, <1>11
    <2>2. s \in SyncRecord /\ s.at = "graves" /\ s.held = answer[c].graves
      <3>1. "graves" \in Steps BY DEF Steps
      <3>2. answer[c].graves \in SUBSET (Objects \cup Sides) BY <1>3
      <3> QED BY <1>2, <3>1, <3>2 DEF SyncRecord
    <2> HIDE DEF s
    <2>3. MessageOK(Message(c, s.at, s.key, mine), clock')
      BY <1>5, <2>2 DEF MessageOK, Message, SyncRecord
    <2>4. base'[c] = base[c] /\ undo'[c] = undo[c] /\ work'[c] = marked
      BY <1>4, <2>1 DEF Inv, IsFcn
    <2>5. OnlyDevice(c) BY <1>4, <2>1, <2>4 DEF OnlyDevice, Inv, IsFcn
    <2>6. Progress(s, work'[c]) BY <1>3, <1>9, <2>2, <2>4 DEF Progress, SessionOps
    <2> QED BY <1>1, <1>8, <2>1, <2>2, <2>3, <2>4, <2>5, <2>6, DeviceHas, AskKeeps
  <1> QED BY <1>10, <1>11

LEMMA GotGravesKeeps ==
    ASSUME Inv, NEW c \in Clients, GotGraves(c)
    PROVE  Inv'
  <1>1. clock \in Nat BY Ticks
  <1>2. work[c] \in DeviceCollection(clock) /\ Progress(sync[c], work[c]) BY <1>1, DeviceHas
  <1>3. NoMarkedGrave(work[c]) BY <1>2 DEF GotGraves, Answered, Progress, SessionOps
  <1>4. SendChanges(c, work[c], sync[c].held) /\ UNCHANGED <<base, undo, serverVars, clock>>
    BY DEF GotGraves
  <1> QED BY <1>2, <1>3, <1>4, SendChangesKeeps

LEMMA GotChangesKeeps ==
    ASSUME Inv, NEW c \in Clients, GotChanges(c)
    PROVE  Inv'
  <1> DEFINE new == ApplyChanges(work[c], answer[c].changes)
             s == [sync[c] EXCEPT !.at = "chunk"]
  <1>1. clock' = clock /\ clock \in Nat /\ ClockGoesOn BY Ticks DEF GotChanges
  <1>2. /\ work[c] \in DeviceCollection(clock) /\ sync[c] \in SyncRecord
        /\ AnswerOK(answer[c], sync[c].at, clock) /\ Progress(sync[c], work[c])
    BY <1>1, DeviceHas
  <1>3. /\ IsEntries(answer[c].changes.decks, Decks, clock) /\ IsConf(answer[c].changes.conf, clock)
        /\ NoMarkedGrave(work[c]) /\ NoneMarked(work[c], Decks)
    BY <1>2 DEF GotChanges, Answered, AnswerOK, Progress, SessionOps
  <1>4. Ask(c, s, {}) /\ work' = [work EXCEPT ![c] = new] BY DEF GotChanges
  <1>5. Row(clock) \subseteq MarkedRow(clock) BY DEF Row, MarkedRow
  <1>6. /\ new \in DeviceCollection(clock) /\ NoMarkedGrave(new)
        /\ \A o \in Objects : Marked(new, o) => Marked(work[c], o)
    BY <1>1, <1>2, <1>3, <1>5, ChangesApplied DEF DeviceCollection
  <1>7. NoneMarked(new, Decks) BY <1>3, <1>6 DEF NoneMarked, Objects
  <1> HIDE DEF new
  <1>8. s \in SyncRecord /\ s.at = "chunk"
    <2>1. "chunk" \in Steps BY DEF Steps
    <2> QED BY <1>2, <2>1 DEF SyncRecord
  <1> HIDE DEF s
  <1>9. MessageOK(Message(c, s.at, s.key, {}), clock') BY <1>8, PlainMessage
  <1>10. base'[c] = base[c] /\ undo'[c] = undo[c] /\ work'[c] = new
    BY <1>4 DEF GotChanges, Inv, IsFcn
  <1>11. OnlyDevice(c) BY <1>4, <1>10 DEF GotChanges, OnlyDevice, Inv, IsFcn
  <1>12. Progress(s, work'[c]) BY <1>6, <1>7, <1>8, <1>10 DEF Progress, SessionOps
  <1> QED BY <1>1, <1>4, <1>6, <1>8, <1>9, <1>10, <1>11, <1>12, DeviceHas, AskKeeps

\* What is held back for the next chunk is what is still marked.
LEMMA SendChunkKeeps ==
    ASSUME Inv, NEW c \in Clients, ClockGoesOn,
           NEW col \in DeviceCollection(clock'), NoMarkedGrave(col), NoneMarked(col, Decks),
           NEW ids, ids = {o \in Cards : Marked(col, o)}, SendChunk(c, col, ids),
           UNCHANGED <<base, undo, serverVars>>
    PROVE  Inv'
  <1>1. clock' \in Nat /\ clock <= clock' BY DEF ClockGoesOn
  <1>2. sync[c] \in SyncRecord /\ sync[c].usn \in Nat BY <1>1, DeviceHas DEF SyncRecord
  <1> SUFFICES ASSUME NEW take \in ChunksOf(ids),
                      work' = [work EXCEPT ![c] = WithUsn(col, take, sync[c].usn)],
                      Ask(c, [sync[c] EXCEPT !.at = "apply", !.held = ids \ take,
                                             !.last = IsLast(take), !.clash = {}],
                          Entries(WithUsn(col, take, sync[c].usn), take))
               PROVE  Inv'
    BY DEF SendChunk, WithUsn
  <1> DEFINE marked == WithUsn(col, take, sync[c].usn)
             last == IsLast(take)
             held == ids \ take
             s == [sync[c] EXCEPT !.at = "apply", !.held = held, !.last = last, !.clash = {}]
             body == Entries(marked, take)
  <1>3. ids \in SUBSET Objects /\ ids \subseteq Cards BY DEF Objects
  <1>4. take \subseteq ids /\ (last => held = {}) BY <1>3, LastChunk
  <1>5. AllPresent(take, col) BY <1>3, <1>4 DEF Marked, AllPresent
  <1>6. /\ marked \in DeviceCollection(clock') /\ marked.graves = col.graves
        /\ \A o \in Objects : Marked(marked, o) <=> Marked(col, o) /\ o \notin take
        /\ \A o \in take : marked.rows[o] \in Row(clock')
    BY <1>1, <1>2, <1>5, Numbered DEF DeviceCollection
  <1>7. Ask(c, s, body) /\ work' = [work EXCEPT ![c] = marked] OBVIOUS
  <1> HIDE DEF marked
  <1>8. IsEntries(body, Cards, clock') BY <1>3, <1>4, <1>6 DEF Entries, IsEntries
  <1>9. NoMarkedGrave(marked) /\ NoneMarked(marked, Decks)
    BY <1>6 DEF NoMarkedGrave, NoneMarked, Objects
  <1>10. held = {o \in Cards : Marked(marked, o)} BY <1>3, <1>4, <1>6 DEF Objects
  <1>11. last \in BOOLEAN BY DEF IsLast
  <1>12. held \in SUBSET (Objects \cup Sides) BY <1>3
  <1> HIDE DEF body, held, last
  <1>13. s \in SyncRecord /\ s.at = "apply" /\ s.held = held /\ s.last = last
    <2>1. "apply" \in Steps BY DEF Steps
    <2> QED BY <1>2, <1>11, <1>12, <2>1 DEF SyncRecord
  <1> HIDE DEF s
  <1>14. MessageOK(Message(c, s.at, s.key, body), clock')
    BY <1>8, <1>13 DEF MessageOK, Message, SyncRecord
  <1>15. base'[c] = base[c] /\ undo'[c] = undo[c] /\ work'[c] = marked
    BY <1>7 DEF Inv, IsFcn
  <1>16. OnlyDevice(c) BY <1>7, <1>15 DEF OnlyDevice, Inv, IsFcn
  <1>17. Progress(s, work'[c])
    BY <1>4, <1>9, <1>10, <1>13, <1>15 DEF Progress, SessionOps
  <1> QED BY <1>1, <1>6, <1>7, <1>13, <1>14, <1>15, <1>16, <1>17, DeviceHas, AskKeeps

\* Cards made anew are marked again, before those to send are gathered.
LEMMA ReconciledIsCollection ==
    ASSUME NEW t \in Nat, t > 0, Now \in 1..t, NEW col \in DeviceCollection(t), NEW cards
    PROVE  LET new == Reconciled(col, cards) IN
           /\ new \in DeviceCollection(t) /\ new.graves = col.graves
           /\ \A o \in Objects \ cards : Marked(new, o) => Marked(col, o)
  <1> DEFINE row == [at |-> Now, usn |-> Unsent]
             rows == [o \in Objects |-> IF o \in cards THEN row ELSE col.rows[o]]
             new == [col EXCEPT !.rows = rows]
  <1>1. row \in MarkedRow(t) BY DEF MarkedRow
  <1>2. Reconciled(col, cards) = new BY DEF Reconciled
  <1> HIDE DEF row
  <1>3. rows \in [Objects -> MarkedRow(t) \cup {NoRow}]
    BY <1>1 DEF DeviceCollection, Collection
  <1>4. \A o \in Objects \ cards : rows[o] = col.rows[o] OBVIOUS
  <1> HIDE DEF rows
  <1>5. new \in DeviceCollection(t) /\ new.rows = rows /\ new.graves = col.graves
    BY <1>3 DEF DeviceCollection, Collection
  <1> HIDE DEF new
  <1>6. \A o \in Objects \ cards : Marked(new, o) => Marked(col, o)
    BY <1>4, <1>5 DEF Marked, Has
  <1> QED BY <1>2, <1>5, <1>6

LEMMA NothingReconciled ==
    ASSUME NEW t \in Nat, NEW col \in DeviceCollection(t)
    PROVE  Reconciled(col, {}) = col
  <1> DEFINE rows == [o \in Objects |-> IF o \in {} THEN [at |-> Now, usn |-> Unsent]
                                                   ELSE col.rows[o]]
  <1>1. Reconciled(col, {}) = [col EXCEPT !.rows = rows] BY DEF Reconciled
  <1>2. rows = col.rows BY DEF DeviceCollection, Collection
  <1> HIDE DEF rows
  <1> QED BY <1>1, <1>2 DEF DeviceCollection, Collection

LEMMA GotChunkKeeps ==
    ASSUME Inv, NEW c \in Clients, GotChunk(c)
    PROVE  Inv'
  <1> DEFINE chunk == answer[c]
             merged == MergeCards(work[c], chunk.cards, Unsent)
             clash == Clashes(c)
             held == {o \in Cards : Has(merged, o)}
             s == [sync[c] EXCEPT !.clash = clash]
  <1>1. clock \in Nat /\ Now \in Nat /\ Now > 0 /\ clock <= Now BY Ticks
  <1>2. /\ work[c] \in DeviceCollection(clock) /\ sync[c] \in SyncRecord
        /\ AnswerOK(answer[c], sync[c].at, clock) /\ Progress(sync[c], work[c])
    BY <1>1, DeviceHas
  <1>3. sync[c].at = "chunk" /\ IsEntries(chunk.cards, Cards, clock)
        /\ NoMarkedGrave(work[c]) /\ NoneMarked(work[c], Decks)
    BY <1>2 DEF GotChunk, Answered, AnswerOK, Progress, SessionOps
  <1>4. Row(clock) \subseteq MarkedRow(clock) BY DEF Row, MarkedRow
  <1>5. /\ merged \in DeviceCollection(clock) /\ NoMarkedGrave(merged)
        /\ \A o \in Objects : Marked(merged, o) => Marked(work[c], o)
    BY <1>1, <1>2, <1>3, <1>4, CardsMerged DEF DeviceCollection
  <1>6. NoneMarked(merged, Decks) BY <1>3, <1>5 DEF NoneMarked, Objects
  <1>7. clash \subseteq Cards /\ held \subseteq Cards BY <1>2, <1>3 DEF Clashes, SyncRecord, IsEntries
  <1>8. UNCHANGED <<base, undo, serverVars>> BY DEF GotChunk
  <1>9. \/ /\ work' = [work EXCEPT ![c] = merged] /\ Ask(c, s, {}) /\ UNCHANGED clock
        \/ \E fix \in SUBSET held :
             /\ SendChunk(c, Reconciled(merged, fix),
                          PendingRows(Reconciled(merged, fix), Cards, Unsent))
             /\ clock' = IF fix = {} THEN clock ELSE Now
    BY DEF GotChunk, MakeAnew
  <1> HIDE DEF merged, clash, held
  <1>10. CASE work' = [work EXCEPT ![c] = merged] /\ Ask(c, s, {}) /\ UNCHANGED clock
    <2>1. s \in SyncRecord /\ s.at = "chunk" BY <1>2, <1>3, <1>7 DEF SyncRecord
    <2>2. Ask(c, s, {}) BY <1>10
    <2> HIDE DEF s
    <2>3. MessageOK(Message(c, s.at, s.key, {}), clock') BY <2>1, PlainMessage
    <2>4. base'[c] = base[c] /\ undo'[c] = undo[c] /\ work'[c] = merged
      BY <1>8, <1>10 DEF Inv, IsFcn
    <2>5. OnlyDevice(c) BY <1>8, <1>10, <2>4 DEF OnlyDevice, Inv, IsFcn
    <2>6. Progress(s, work'[c]) BY <1>5, <1>6, <2>1, <2>4 DEF Progress, SessionOps
    <2>7. clock' = clock /\ ClockGoesOn BY <1>10, Ticks
    <2> QED BY <1>1, <1>5, <2>1, <2>2, <2>3, <2>4, <2>5, <2>6, <2>7, DeviceHas, AskKeeps
  <1>11. ASSUME NEW fix \in SUBSET held,
                SendChunk(c, Reconciled(merged, fix),
                          PendingRows(Reconciled(merged, fix), Cards, Unsent)),
                clock' = IF fix = {} THEN clock ELSE Now
         PROVE  Inv'
    <2> DEFINE col == Reconciled(merged, fix)
               ids == PendingRows(col, Cards, Unsent)
    <2>1. ClockGoesOn /\ clock' \in Nat /\ clock <= clock' BY <1>1, <1>11, Ticks
    <2>2. /\ col \in DeviceCollection(clock') /\ col.graves = merged.graves
          /\ \A o \in Objects \ fix : Marked(col, o) => Marked(merged, o)
      <3>1. CASE fix = {} BY <1>1, <1>5, <1>11, <3>1, NothingReconciled
      <3>2. CASE fix # {}
        <4>1. clock' = Now /\ Now \in 1..clock' BY <1>1, <1>11, <3>2
        <4>2. merged \in DeviceCollection(clock') BY <1>1, <1>5, <2>1, CollectionsStay
        <4> QED BY <1>1, <4>1, <4>2, ReconciledIsCollection
      <3> QED BY <3>1, <3>2
    <2>3. ids = {o \in Cards : Marked(col, o)} BY PendingIsMarked
    <2>4. SendChunk(c, col, ids) BY <1>11
    <2> HIDE DEF col, ids
    <2>5. NoMarkedGrave(col) BY <1>5, <2>2 DEF NoMarkedGrave
    <2>6. NoneMarked(col, Decks)
      <3>1. \A o \in Decks : o \in Objects \ fix BY <1>7, SyncAssumption DEF Objects
      <3> QED BY <1>6, <2>2, <3>1 DEF NoneMarked
    <2> QED BY <1>8, <2>1, <2>2, <2>3, <2>4, <2>5, <2>6, SendChunkKeeps
  <1> QED BY <1>9, <1>10, <1>11

LEMMA GotApplyKeeps ==
    ASSUME Inv, NEW c \in Clients, GotApply(c)
    PROVE  Inv'
  <1> DEFINE s == [sync[c] EXCEPT !.at = "sanity"]
             body == Counts(work[c])
  <1>1. clock' = clock /\ clock \in Nat /\ ClockGoesOn BY Ticks DEF GotApply
  <1>2. work[c] \in DeviceCollection(clock) /\ sync[c] \in SyncRecord /\ Progress(sync[c], work[c])
    BY <1>1, DeviceHas
  <1>3. /\ NoMarkedGrave(work[c]) /\ NoneMarked(work[c], Decks)
        /\ sync[c].held = {o \in Cards : Marked(work[c], o)}
        /\ sync[c].last => sync[c].held = {}
    BY <1>2 DEF GotApply, Answered, Progress, SessionOps
  <1>4. UNCHANGED <<base, undo, serverVars>> BY DEF GotApply
  <1>5. CASE sync[c].last
    <2>1. Ask(c, s, body) /\ work' = work BY <1>5 DEF GotApply
    <2>2. s \in SyncRecord /\ s.at = "sanity"
      <3>1. "sanity" \in Steps BY DEF Steps
      <3> QED BY <1>2, <3>1 DEF SyncRecord
    <2> HIDE DEF s, body
    <2>3. MessageOK(Message(c, s.at, s.key, body), clock') BY <2>2, PlainMessage
    <2>4. base'[c] = base[c] /\ undo'[c] = undo[c] /\ work'[c] = work[c] BY <1>4, <2>1
    <2>5. OnlyDevice(c) BY <1>4, <2>1 DEF OnlyDevice, Inv, IsFcn
    <2>6. NoneMarked(work[c], Cards) BY <1>3, <1>5 DEF NoneMarked
    <2>7. Progress(s, work'[c]) BY <1>3, <2>2, <2>4, <2>6 DEF Progress, SessionOps
    <2> QED BY <1>1, <2>1, <2>2, <2>3, <2>4, <2>5, <2>7, DeviceHas, AskKeeps
  <1>6. CASE ~sync[c].last
    <2>1. SendChunk(c, work[c], sync[c].held) BY <1>6 DEF GotApply
    <2> QED BY <1>1, <1>2, <1>3, <1>4, <2>1, SendChunkKeeps
  <1> QED BY <1>5, <1>6

LEMMA GotSanityKeeps ==
    ASSUME Inv, NEW c \in Clients, GotSanity(c)
    PROVE  Inv'
  <1> DEFINE s == [sync[c] EXCEPT !.at = "finish"]
  <1>1. clock' = clock /\ clock \in Nat /\ ClockGoesOn BY Ticks DEF GotSanity
  <1>2. sync[c] \in SyncRecord /\ Progress(sync[c], work[c]) /\ sync[c].at = "sanity"
    BY <1>1, DeviceHas DEF GotSanity, Answered
  <1>3. Ask(c, s, {}) /\ base' = base /\ work' = work /\ undo' = undo BY DEF GotSanity
  <1>4. s \in SyncRecord /\ s.at = "finish"
    <2>1. "finish" \in Steps BY DEF Steps
    <2> QED BY <1>2, <2>1 DEF SyncRecord
  <1> HIDE DEF s
  <1>5. MessageOK(Message(c, s.at, s.key, {}), clock') BY <1>4, PlainMessage
  <1>6. OnlyDevice(c) BY <1>3 DEF GotSanity, OnlyDevice, Inv, IsFcn
  <1>7. Progress(s, work'[c]) BY <1>2, <1>3, <1>4 DEF Progress, SessionOps
  <1>8. base'[c] = base[c] /\ undo'[c] = undo[c] /\ work'[c] = work[c] BY <1>3
  <1> QED BY <1>1, <1>3, <1>4, <1>5, <1>6, <1>7, <1>8, DeviceHas, AskKeeps

\* A device whose sync is over: the file it has now is a collection.
LEMMA FinishedKeeps ==
    ASSUME Inv, NEW c \in Clients, ClockGoesOn, Finished(c), NEW file,
           base' = [base EXCEPT ![c] = file], work' = [work EXCEPT ![c] = file],
           file \in DeviceCollection(clock'), UNCHANGED <<undo, serverVars>>,
           \A m \in net' : m \in net \/ MessageOK(m, clock')
    PROVE  Inv'
  <1>1. clock' \in Nat /\ clock <= clock' BY DEF ClockGoesOn
  <1>2. base'[c] = file /\ work'[c] = file /\ undo'[c] = undo[c] /\ sync'[c] = Idle
    BY DEF Finished, Inv, IsFcn
  <1>3. OnlyDevice(c) BY <1>2 DEF OnlyDevice, Inv, IsFcn
  <1>4. sync' = [sync EXCEPT ![c] = sync'[c]] /\ answer' = [answer EXCEPT ![c] = NoAnswer]
    BY <1>2 DEF Finished
  <1>5. undo'[c] # NoAnswer => undo'[c] \in DeviceCollection(clock') BY <1>1, <1>2, DeviceHas
  <1>6. sync'[c] \in SyncRecord /\ sync'[c].at \in {"idle", "full", "abort"}
    BY <1>2, IdleIsSync DEF IdleSync
  <1>7. base'[c] \in DeviceCollection(clock') /\ work'[c] \in DeviceCollection(clock') BY <1>2
  <1> QED BY <1>3, <1>4, <1>5, <1>6, <1>7, LeaveKeeps

LEMMA GotFinishKeeps ==
    ASSUME Inv, NEW c \in Clients, GotFinish(c)
    PROVE  Inv'
  <1> DEFINE file == [work[c] EXCEPT !.mod = answer[c].mod, !.usn = sync[c].usn + 1]
  <1>1. clock' = clock /\ clock \in Nat /\ ClockGoesOn BY Ticks DEF GotFinish
  <1>2. /\ work[c] \in DeviceCollection(clock) /\ sync[c] \in SyncRecord
        /\ AnswerOK(answer[c], sync[c].at, clock)
    BY <1>1, DeviceHas
  <1>3. answer[c].mod \in 0..clock /\ sync[c].usn + 1 \in Nat
    BY <1>2 DEF GotFinish, Answered, AnswerOK, SyncRecord
  <1>4. file \in DeviceCollection(clock') BY <1>1, <1>2, <1>3 DEF DeviceCollection, Collection
  <1>5. base' = [base EXCEPT ![c] = file] /\ work' = [work EXCEPT ![c] = base'[c]]
    BY DEF GotFinish
  <1> HIDE DEF file
  <1>6. base'[c] = file BY <1>5 DEF Inv, IsFcn
  <1>7. net' = net /\ Finished(c) /\ UNCHANGED <<undo, serverVars>> BY DEF GotFinish
  <1> QED BY <1>1, <1>4, <1>5, <1>6, <1>7, FinishedKeeps

LEMMA GotDownloadKeeps ==
    ASSUME Inv, NEW c \in Clients, GotDownload(c)
    PROVE  Inv'
  <1>1. clock' = clock /\ clock \in Nat /\ ClockGoesOn BY Ticks DEF GotDownload
  <1>2. AnswerOK(answer[c], sync[c].at, clock) BY <1>1, DeviceHas
  <1>3. answer[c].file \in ServerCollection(clock) BY <1>2 DEF GotDownload, Answered, AnswerOK
  <1>4. answer[c].file \in DeviceCollection(clock') BY <1>1, <1>3, ServerIsDevice
  <1>5. base' = [base EXCEPT ![c] = answer[c].file] /\ work' = [work EXCEPT ![c] = base'[c]]
    BY DEF GotDownload
  <1>6. base'[c] = answer[c].file BY <1>5 DEF Inv, IsFcn
  <1>7. net' = net /\ Finished(c) /\ UNCHANGED <<undo, serverVars>> BY DEF GotDownload
  <1> QED BY <1>1, <1>4, <1>5, <1>6, <1>7, FinishedKeeps

-----------------------------------------------------------------------------
(* Syncs that fail, and one-way syncs.                                     *)

LEMMA SchemaMarked ==
    ASSUME Inv, NEW c \in Clients, MarkSchema(c)
    PROVE  /\ ClockGoesOn /\ clock' \in Nat /\ clock <= clock'
           /\ base' = [base EXCEPT ![c] = base'[c]] /\ base'[c] \in DeviceCollection(clock')
  <1>1. clock \in Nat /\ Now \in Nat /\ clock <= Now BY Ticks
  <1>2. CASE sync[c].differ
    <2>1. base' = [base EXCEPT ![c].scm = Now] /\ clock' = Now BY <1>2 DEF MarkSchema
    <2>2. base[c] \in DeviceCollection(Now) BY <1>1, DeviceHas
    <2> DEFINE file == [base[c] EXCEPT !.scm = Now]
    <2>3. file \in DeviceCollection(Now) BY <1>1, <2>2 DEF DeviceCollection, Collection
    <2>4. base' = [base EXCEPT ![c] = file] BY <2>1
    <2> HIDE DEF file
    <2>5. base'[c] = file BY <2>4 DEF Inv, IsFcn
    <2> QED BY <1>1, <2>1, <2>3, <2>4, <2>5, Ticks
  <1>3. CASE ~sync[c].differ
    <2>1. base' = base /\ clock' = clock BY <1>3 DEF MarkSchema
    <2>2. base[c] \in DeviceCollection(clock) BY <1>1, DeviceHas
    <2> QED BY <1>1, <2>1, <2>2, Ticks DEF Inv, IsFcn
  <1> QED BY <1>2, <1>3

LEMMA RollBackKeeps ==
    ASSUME Inv, NEW c \in Clients, NEW differ \in BOOLEAN, NEW late \in BOOLEAN,
           MarkSchema(c), RollBack(c, differ, late), UNCHANGED <<undo, serverVars>>
    PROVE  Inv'
  <1> DEFINE abort == [Idle EXCEPT !.at = "abort", !.key = sync[c].key, !.differ = differ]
             message == Message(c, "abort", abort.key, {})
             stay == IF late THEN net ELSE net \ Requests(c)
  <1>1. /\ ClockGoesOn /\ clock' \in Nat /\ clock <= clock'
        /\ base' = [base EXCEPT ![c] = base'[c]] /\ base'[c] \in DeviceCollection(clock')
    BY SchemaMarked
  <1>2. abort \in SyncRecord /\ abort.at = "abort"
    <2>1. Idle \in SyncRecord BY IdleIsSync DEF IdleSync
    <2>2. sync[c].key \in Keys \cup {NoKey} BY <1>1, DeviceHas DEF SyncRecord
    <2>3. "abort" \in Steps BY DEF Steps
    <2> QED BY <2>1, <2>2, <2>3 DEF SyncRecord
  <1>3. /\ work' = [work EXCEPT ![c] = base'[c]] /\ answer' = [answer EXCEPT ![c] = NoAnswer]
        /\ \/ sync' = [sync EXCEPT ![c] = abort] /\ net' = stay \cup {message}
           \/ sync' = [sync EXCEPT ![c] = Idle] /\ net' = stay
    BY DEF RollBack
  <1>4. MessageOK(message, clock')
    <2> HIDE DEF abort
    <2> QED BY <1>2 DEF MessageOK, Message, SyncRecord
  <1> HIDE DEF abort, message
  <1>5. \A m \in net' : m \in net \/ MessageOK(m, clock') BY <1>3, <1>4
  <1>6. sync'[c] \in {abort, Idle} /\ sync' = [sync EXCEPT ![c] = sync'[c]]
    BY <1>3 DEF Inv, IsFcn
  <1>7. sync'[c] \in SyncRecord /\ sync'[c].at \in {"idle", "full", "abort"}
    BY <1>2, <1>6, IdleIsSync DEF IdleSync
  <1>8. work'[c] = base'[c] /\ undo'[c] = undo[c] BY <1>3 DEF Inv, IsFcn
  <1>9. OnlyDevice(c) BY <1>1, <1>3, <1>8 DEF OnlyDevice, Inv, IsFcn
  <1>10. undo'[c] # NoAnswer => undo'[c] \in DeviceCollection(clock') BY <1>1, <1>8, DeviceHas
  <1>11. work'[c] \in DeviceCollection(clock') BY <1>1, <1>8
  <1> QED BY <1>1, <1>3, <1>5, <1>6, <1>7, <1>9, <1>10, <1>11, LeaveKeeps

LEMMA FailureKeeps ==
    ASSUME Inv, NEW c \in Clients, Timeout(c) \/ GotConflict(c) \/ GotMismatch(c)
    PROVE  Inv'
  <1>1. /\ MarkSchema(c) /\ UNCHANGED <<undo, serverVars>>
        /\ \E differ \in BOOLEAN, late \in BOOLEAN : RollBack(c, differ, late)
    BY DEF Timeout, GotConflict, GotMismatch
  <1> QED BY <1>1, RollBackKeeps

LEMMA InterruptKeeps ==
    ASSUME Inv, NEW c \in Clients, Interrupt(c)
    PROVE  Inv'
  <1>1. clock' = clock /\ clock \in Nat /\ ClockGoesOn BY Ticks DEF Interrupt
  <1>2. base[c] \in DeviceCollection(clock') BY <1>1, DeviceHas
  <1>3. base' = [base EXCEPT ![c] = base[c]] /\ work' = [work EXCEPT ![c] = base[c]]
    BY DEF Interrupt, Inv, IsFcn
  <1>4. MessageOK(Message(c, "abort", NoKey, {}), clock') BY DEF MessageOK, Message
  <1>5. \A m \in net' : m \in net \/ m = Message(c, "abort", NoKey, {}) BY DEF Interrupt
  <1>6. Finished(c) /\ UNCHANGED <<undo, serverVars>> BY DEF Interrupt
  <1> QED BY <1>1, <1>2, <1>3, <1>4, <1>5, <1>6, FinishedKeeps

LEMMA GotAbortKeeps ==
    ASSUME Inv, NEW c \in Clients, GotAbort(c)
    PROVE  Inv'
  <1>1. MarkSchema(c) /\ Finished(c) /\ work' = [work EXCEPT ![c] = base'[c]] /\ net' = net
        /\ UNCHANGED <<undo, serverVars>>
    BY DEF GotAbort
  <1>2. /\ ClockGoesOn /\ base' = [base EXCEPT ![c] = base'[c]]
        /\ base'[c] \in DeviceCollection(clock')
    BY <1>1, SchemaMarked
  <1> QED BY <1>1, <1>2, FinishedKeeps

\* What is uploaded carries no mark.
LEMMA UploadKeeps ==
    ASSUME Inv, NEW c \in Clients, Upload(c)
    PROVE  Inv'
  <1> DEFINE old == base[c]
             mine == PendingRows(old, Objects, Unsent)
             rows == SetUsn(old.rows, mine, 0)
             graves == [o \in Objects |-> NoGrave]
             numbered == WithUsn(old, mine, 0)
             file == [old EXCEPT !.rows = rows, !.graves = graves,
                                 !.usn = old.usn + 1, !.scm = Now, !.mod = Now]
             s == [sync[c] EXCEPT !.at = "upload"]
  <1>1. clock' = Now /\ Now \in Nat /\ Now > 0 /\ clock <= Now /\ ClockGoesOn
    BY Ticks DEF Upload
  <1>2. old \in DeviceCollection(Now) /\ sync[c] \in SyncRecord BY <1>1, DeviceHas
  <1>3. /\ base' = [base EXCEPT ![c] = file] /\ work' = [work EXCEPT ![c] = base'[c]]
        /\ Ask(c, s, file) /\ undo' = [undo EXCEPT ![c] = NoAnswer] /\ UNCHANGED serverVars
    BY DEF Upload
  <1>4. mine = {o \in Objects : Marked(old, o)} BY PendingIsMarked
  <1>5. numbered.rows = rows BY <1>2 DEF WithUsn, DeviceCollection, Collection
  <1>6. old \in Collection(Now, MarkedRow(Now), MarkedGraves) /\ 0 \in Nat
    BY <1>2 DEF DeviceCollection
  <1> HIDE DEF mine, rows
  <1>7. AllPresent(mine, old) BY <1>4 DEF Marked, AllPresent
  <1>8. /\ numbered \in DeviceCollection(Now)
        /\ \A o \in Objects : Marked(numbered, o) <=> Marked(old, o) /\ o \notin mine
    BY <1>1, <1>6, <1>7, Numbered DEF DeviceCollection
  <1> HIDE DEF numbered
  <1>9. \A o \in Objects : ~Marked(numbered, o) BY <1>4, <1>8
  <1>10. rows \in [Objects -> Row(Now) \cup {NoRow}]
    <2>1. rows \in [Objects -> MarkedRow(Now) \cup {NoRow}]
      BY <1>5, <1>8 DEF DeviceCollection, Collection
    <2>2. \A o \in Objects : rows[o] # NoRow => rows[o].usn # Unsent
      BY <1>5, <1>9 DEF Marked, Has
    <2>3. \A r \in MarkedRow(Now) : r.usn # Unsent => r \in Row(Now) BY DEF MarkedRow, Row
    <2> QED BY <2>1, <2>2, <2>3
  <1>11. graves \in [Objects -> SentGraves] BY DEF SentGraves
  <1> HIDE DEF graves
  <1>12. file \in ServerCollection(Now)
    <2> DEFINE usn == old.usn + 1
    <2>1. usn \in Nat /\ Now \in 0..Now BY <1>1, <1>2 DEF DeviceCollection, Collection
    <2> HIDE DEF usn
    <2>2. [old EXCEPT !.rows = rows, !.graves = graves, !.usn = usn, !.scm = Now, !.mod = Now]
            \in ServerCollection(Now)
      BY <1>2, <1>10, <1>11, <2>1 DEF ServerCollection, DeviceCollection, Collection
    <2> QED BY <2>2 DEF usn
  <1> HIDE DEF file
  <1>13. file \in DeviceCollection(clock') BY <1>1, <1>12, ServerIsDevice
  <1>14. s \in SyncRecord /\ s.at = "upload"
    <2>1. "upload" \in Steps BY DEF Steps
    <2> QED BY <1>2, <2>1 DEF SyncRecord
  <1> HIDE DEF s
  <1>15. MessageOK(Message(c, s.at, s.key, file), clock')
    BY <1>1, <1>12, <1>14 DEF MessageOK, Message, SyncRecord
  <1>16. base'[c] = file /\ work'[c] = file /\ undo'[c] = NoAnswer BY <1>3 DEF Inv, IsFcn
  <1>17. OnlyDevice(c) BY <1>3, <1>16 DEF OnlyDevice
  <1>18. Progress(s, work'[c]) BY <1>14 DEF Progress, SessionOps
  <1> QED BY <1>1, <1>3, <1>13, <1>14, <1>15, <1>16, <1>17, <1>18, AskKeeps

LEMMA DownloadKeeps ==
    ASSUME Inv, NEW c \in Clients, Download(c)
    PROVE  Inv'
  <1> DEFINE s == [sync[c] EXCEPT !.at = "download"]
  <1>1. clock' = clock /\ clock \in Nat /\ ClockGoesOn BY Ticks DEF Download
  <1>2. sync[c] \in SyncRecord BY <1>1, DeviceHas
  <1>3. Ask(c, s, {}) BY DEF Download
  <1>4. s \in SyncRecord /\ s.at = "download"
    <2>1. "download" \in Steps BY DEF Steps
    <2> QED BY <1>2, <2>1 DEF SyncRecord
  <1> HIDE DEF s
  <1>5. MessageOK(Message(c, s.at, s.key, {}), clock') BY <1>4, PlainMessage
  <1>6. OnlyDevice(c) /\ base'[c] = base[c] /\ work'[c] = work[c] /\ undo'[c] = NoAnswer
    BY DEF Download, OnlyDevice, Inv, IsFcn
  <1>7. Progress(s, work'[c]) BY <1>4 DEF Progress, SessionOps
  <1> QED BY <1>1, <1>3, <1>4, <1>5, <1>6, <1>7, DeviceHas, AskKeeps

LEMMA DeviceActionKeeps ==
    ASSUME Inv, NEW c \in Clients, Device(c)
    PROVE  Inv'
  BY GotSameMetaKeeps, GotOtherSchemaKeeps, GotMetaKeeps, GotStartKeeps, GotGravesKeeps,
     GotChangesKeeps, GotChunkKeeps, GotApplyKeeps, GotSanityKeeps, GotFinishKeeps,
     FailureKeeps, GotDownloadKeeps, GotAbortKeeps DEF Device

-----------------------------------------------------------------------------
(* The server's requests.                                                  *)

\* What the server has, also when time has gone on
LEMMA ServerHas ==
    ASSUME Inv, NEW t \in Nat, clock <= t
    PROVE  /\ server \in ServerCollection(t) /\ draft \in ServerCollection(t)
           /\ session \in SessionRecord
           /\ unstamped # NoRequest => unstamped.op = "finish" /\ MessageOK(unstamped, t)
           /\ \A m \in net : MessageOK(m, t)
  BY CollectionsStay, MessageStays DEF Inv

LEMMA NoSessionIsRecord == NoSession \in SessionRecord
  BY DEF NoSession, SessionRecord

LEMMA NoKindOfAnswer ==
    ASSUME NEW t, NEW a,
           NEW op, op \notin {"meta", "start", "changes", "chunk", "finish", "download"}
    PROVE  AnswerOK(a, op, t)
  BY DEF AnswerOK

LEMMA ServeMetaKeeps ==
    ASSUME Inv, NEW m \in net, ServeMeta(m)
    PROVE  Inv'
  <1> DEFINE a == [ok |-> TRUE, mod |-> server.mod, scm |-> server.scm,
                   usn |-> server.usn, empty |-> Empty(server)]
  <1>1. clock' = clock /\ clock \in Nat /\ ClockGoesOn BY Ticks DEF ServeMeta
  <1>2. /\ UNCHANGED clientVars /\ server' = server /\ unstamped' = unstamped
        /\ session' = NoSession /\ draft' = server /\ Answer(m, a) /\ m.op = "meta"
    BY DEF ServeMeta, EndSession, Serving
  <1>3. server.mod \in 0..clock' /\ server.usn \in Nat
    BY <1>1, ServerHas DEF ServerCollection, Collection
  <1>4. AnswerOK(a, m.op, clock') BY <1>2, <1>3 DEF AnswerOK
  <1> HIDE DEF a
  <1>5. server' \in ServerCollection(clock') /\ draft' \in ServerCollection(clock')
    BY <1>1, <1>2, ServerHas
  <1>6. unstamped' # NoRequest => unstamped'.op = "finish" /\ MessageOK(unstamped', clock')
    BY <1>1, <1>2, ServerHas
  <1> QED BY <1>1, <1>2, <1>4, <1>5, <1>6, NoSessionIsRecord, AnswerKeeps

LEMMA ServeStartKeeps ==
    ASSUME Inv, NEW m \in net, ServeStart(m)
    PROVE  Inv'
  <1> DEFINE a == [ok |-> TRUE, graves |-> PendingGraves(server, m.body.usn)]
             s == [NoSession EXCEPT !.key = m.key, !.usn = server.usn,
                                    !.client = m.body.usn, !.newer = m.body.newer]
  <1>1. clock' = clock /\ clock \in Nat /\ ClockGoesOn BY Ticks DEF ServeStart
  <1>2. /\ UNCHANGED clientVars /\ server' = server /\ unstamped' = unstamped
        /\ session' = s /\ draft' = server /\ Answer(m, a) /\ m.op = "start"
    BY DEF ServeStart, Serving
  <1>3. s \in SessionRecord
    <2>1. MessageOK(m, clock) BY <1>1, ServerHas
    <2>2. m.key \in Keys \cup {NoKey} /\ m.body.usn \in Nat /\ m.body.newer \in BOOLEAN
      BY <1>2, <2>1 DEF MessageOK
    <2>3. server.usn \in Nat BY <1>1, ServerHas DEF ServerCollection, Collection
    <2> QED BY <2>2, <2>3, NoSessionIsRecord DEF SessionRecord
  <1>4. AnswerOK(a, m.op, clock') BY <1>2 DEF AnswerOK, PendingGraves
  <1> HIDE DEF a, s
  <1>5. server' \in ServerCollection(clock') /\ draft' \in ServerCollection(clock')
    BY <1>1, <1>2, ServerHas
  <1>6. unstamped' # NoRequest => unstamped'.op = "finish" /\ MessageOK(unstamped', clock')
    BY <1>1, <1>2, ServerHas
  <1> QED BY <1>1, <1>2, <1>3, <1>4, <1>5, <1>6, AnswerKeeps

\* The draft changes, in a session that stays.
LEMMA DraftKeeps ==
    ASSUME Inv, ClockGoesOn, clock' = clock, UNCHANGED clientVars,
           server' = server, unstamped' = unstamped, session' \in SessionRecord,
           draft' \in ServerCollection(clock),
           NEW m, NEW a, Answer(m, a), AnswerOK(a, m.op, clock)
    PROVE  Inv'
  <1>1. clock \in Nat BY Ticks
  <1>2. server' \in ServerCollection(clock') /\ draft' \in ServerCollection(clock')
    BY <1>1, ServerHas
  <1>3. unstamped' # NoRequest => unstamped'.op = "finish" /\ MessageOK(unstamped', clock')
    BY <1>1, ServerHas
  <1> QED BY <1>1, <1>2, <1>3, AnswerKeeps

LEMMA ServeGravesKeeps ==
    ASSUME Inv, NEW m \in net, ServeGraves(m)
    PROVE  Inv'
  <1> DEFINE new == ApplyGraves(draft, m.body, session.usn)
             a == [ok |-> TRUE]
  <1>1. clock' = clock /\ clock \in Nat /\ ClockGoesOn BY Ticks DEF ServeGraves
  <1>2. draft \in ServerCollection(clock) /\ session \in SessionRecord BY <1>1, ServerHas
  <1>3. session.usn \in SentGraves BY <1>2 DEF SessionRecord, SentGraves
  <1>4. new \in ServerCollection(clock) BY <1>1, <1>2, <1>3, Buried DEF ServerCollection
  <1>5. /\ UNCHANGED clientVars /\ server' = server /\ unstamped' = unstamped
        /\ session' = session /\ draft' = new /\ Answer(m, a) /\ m.op = "graves"
    BY DEF ServeGraves, Serving
  <1>6. AnswerOK(a, m.op, clock) BY <1>5, NoKindOfAnswer
  <1> HIDE DEF new, a
  <1> QED BY <1>1, <1>2, <1>4, <1>5, <1>6, DraftKeeps

LEMMA ServeChangesKeeps ==
    ASSUME Inv, NEW m \in net, ServeChanges(m)
    PROVE  Inv'
  <1> DEFINE new == ApplyChanges(draft, m.body)
             mine == PendingRows(draft, Decks, session.client)
             a == [ok |-> TRUE, changes |-> Changes(draft, session.client, ~session.newer)]
  <1>1. clock' = clock /\ clock \in Nat /\ ClockGoesOn BY Ticks DEF ServeChanges
  <1>2. /\ draft \in ServerCollection(clock) /\ session \in SessionRecord
        /\ MessageOK(m, clock)
    BY <1>1, ServerHas
  <1>3. /\ UNCHANGED clientVars /\ server' = server /\ unstamped' = unstamped
        /\ session' = session /\ draft' = new /\ Answer(m, a) /\ m.op = "changes"
    BY DEF ServeChanges, Serving
  <1>4. IsEntries(m.body.decks, Decks, clock) /\ IsConf(m.body.conf, clock)
    BY <1>2, <1>3 DEF MessageOK
  <1>5. new \in ServerCollection(clock)
    BY <1>1, <1>2, <1>4, ChangesApplied DEF ServerCollection
  <1>6. AnswerOK(a, m.op, clock)
    <2>1. mine \subseteq Decks /\ \A o \in mine : draft.rows[o] \in Row(clock) \cup {NoRow}
      BY <1>2 DEF PendingRows, ServerCollection, Collection, Objects
    <2> HIDE DEF mine
    <2>2. IsEntries(Entries(draft, mine), Decks, clock) BY <2>1 DEF Entries, IsEntries
    <2>3. draft.conf \in 0..clock BY <1>2 DEF ServerCollection, Collection
    <2>4. a.changes.decks = Entries(draft, mine) BY DEF Changes, mine
    <2>5. a.changes.conf \in {draft.conf, Unsent} BY DEF Changes
    <2> HIDE DEF a
    <2> QED BY <1>3, <2>2, <2>3, <2>4, <2>5 DEF AnswerOK, IsConf
  <1> HIDE DEF new, a
  <1> QED BY <1>1, <1>2, <1>3, <1>5, <1>6, DraftKeeps

LEMMA ServeChunkKeeps ==
    ASSUME Inv, NEW m \in net, ServeChunk(m)
    PROVE  Inv'
  <1> DEFINE ids == IF session.ids = {Unsent}
                    THEN PendingRows(draft, Cards, session.client) ELSE session.ids
  <1>1. clock' = clock /\ clock \in Nat /\ ClockGoesOn BY Ticks DEF ServeChunk
  <1>2. draft \in ServerCollection(clock) /\ session \in SessionRecord BY <1>1, ServerHas
  <1>3. ids \subseteq Cards BY <1>2 DEF SessionRecord, PendingRows
  <1>4. PICK take \in ChunksOf(ids) :
          /\ session' = [session EXCEPT !.ids = ids \ take]
          /\ Answer(m, [ok |-> TRUE, cards |-> Entries(draft, take), last |-> IsLast(take)])
    BY DEF ServeChunk
  <1>5. /\ UNCHANGED clientVars /\ server' = server /\ unstamped' = unstamped
        /\ draft' = draft /\ m.op = "chunk"
    BY DEF ServeChunk, Serving
  <1> DEFINE a == [ok |-> TRUE, cards |-> Entries(draft, take), last |-> IsLast(take)]
  <1>6. take \subseteq Cards BY <1>3 DEF ChunksOf
  <1> HIDE DEF ids
  <1>7. session' \in SessionRecord
    <2>1. (ids \ take) \in {{Unsent}} \cup SUBSET Cards BY <1>3
    <2> QED BY <1>2, <1>4, <2>1 DEF SessionRecord
  <1>8. AnswerOK(a, m.op, clock)
    <2>1. \A o \in take : draft.rows[o] \in Row(clock) \cup {NoRow}
      BY <1>2, <1>6 DEF ServerCollection, Collection, Objects
    <2>2. IsEntries(a.cards, Cards, clock) BY <1>6, <2>1 DEF Entries, IsEntries
    <2> QED BY <1>5, <2>2 DEF AnswerOK
  <1>9. Answer(m, a) BY <1>4
  <1> HIDE DEF a
  <1> QED BY <1>1, <1>2, <1>5, <1>7, <1>8, <1>9, DraftKeeps

LEMMA ServeApplyKeeps ==
    ASSUME Inv, NEW m \in net, ServeApply(m)
    PROVE  Inv'
  <1> DEFINE new == MergeCards(draft, m.body, session.client)
             a == [ok |-> TRUE]
  <1>1. clock' = clock /\ clock \in Nat /\ ClockGoesOn BY Ticks DEF ServeApply
  <1>2. /\ draft \in ServerCollection(clock) /\ session \in SessionRecord
        /\ MessageOK(m, clock)
    BY <1>1, ServerHas
  <1>3. /\ UNCHANGED clientVars /\ server' = server /\ unstamped' = unstamped
        /\ session' = session /\ draft' = new /\ Answer(m, a) /\ m.op = "apply"
    BY DEF ServeApply, Serving
  <1>4. IsEntries(m.body, Cards, clock) BY <1>2, <1>3 DEF MessageOK
  <1>5. new \in ServerCollection(clock) BY <1>1, <1>2, <1>4, CardsMerged DEF ServerCollection
  <1>6. AnswerOK(a, m.op, clock) BY <1>3, NoKindOfAnswer
  <1> HIDE DEF new, a
  <1> QED BY <1>1, <1>2, <1>3, <1>5, <1>6, DraftKeeps

LEMMA ServeSanityKeeps ==
    ASSUME Inv, NEW m \in net, ServeSanity(m)
    PROVE  Inv'
  <1> DEFINE agrees == m.body = Counts(draft)
             a == [ok |-> TRUE, agrees |-> agrees]
  <1>1. clock' = clock /\ clock \in Nat /\ ClockGoesOn BY Ticks DEF ServeSanity
  <1>2. /\ UNCHANGED clientVars /\ server' = server /\ unstamped' = unstamped
        /\ session' = session /\ Answer(m, a) /\ m.op = "sanity"
        /\ draft' = draft \/ draft' = server
    BY DEF ServeSanity, Serving
  <1>3. draft' \in ServerCollection(clock) /\ session' \in SessionRecord
    BY <1>1, <1>2, ServerHas
  <1>4. AnswerOK(a, m.op, clock) BY <1>2, NoKindOfAnswer
  <1> HIDE DEF a
  <1> QED BY <1>1, <1>2, <1>3, <1>4, DraftKeeps

\* The server's file gets a new number, a new time, or both.
LEMMA Renumbered ==
    ASSUME NEW t \in Nat, NEW col \in ServerCollection(t)
    PROVE  /\ [col EXCEPT !.usn = @ + 1] \in ServerCollection(t)
           /\ [col EXCEPT !.mod = t] \in ServerCollection(t)
           /\ [col EXCEPT !.usn = @ + 1, !.mod = t] \in ServerCollection(t)
  <1> DEFINE usn == col.usn + 1
  <1>1. usn \in Nat /\ t \in 0..t BY DEF ServerCollection, Collection
  <1> HIDE DEF usn
  <1>2. /\ [col EXCEPT !.usn = usn] \in ServerCollection(t)
        /\ [col EXCEPT !.mod = t] \in ServerCollection(t)
        /\ [col EXCEPT !.usn = usn, !.mod = t] \in ServerCollection(t)
    BY <1>1 DEF ServerCollection, Collection
  <1> QED BY <1>2 DEF usn

LEMMA ServeFinishKeeps ==
    ASSUME Inv, NEW m \in net, ServeFinish(m)
    PROVE  Inv'
  <1> DEFINE new == [draft EXCEPT !.usn = @ + 1]
  <1>1. clock' = clock /\ clock \in Nat /\ ClockGoesOn BY Ticks DEF ServeFinish
  <1>2. draft \in ServerCollection(clock) /\ session \in SessionRecord /\ MessageOK(m, clock)
    BY <1>1, ServerHas
  <1>3. new \in ServerCollection(clock) BY <1>1, <1>2, Renumbered
  <1>4. /\ UNCHANGED clientVars /\ server' = new /\ draft' = server' /\ unstamped' = m
        /\ session' = session /\ answer' = answer /\ net' \subseteq net /\ m.op = "finish"
    BY DEF ServeFinish, Serving
  <1> HIDE DEF new
  <1>5. IsFcn(answer') BY <1>4 DEF Inv
  <1> QED BY <1>1, <1>2, <1>3, <1>4, <1>5, ServerKeeps

LEMMA StampKeeps ==
    ASSUME Inv, Stamp
    PROVE  Inv'
  <1> DEFINE new == [server EXCEPT !.mod = Now]
             a == [ok |-> TRUE, mod |-> Now]
  <1>1. clock' = Now /\ Now \in Nat /\ clock <= Now /\ ClockGoesOn BY Ticks DEF Stamp
  <1>2. /\ server \in ServerCollection(Now)
        /\ unstamped # NoRequest => unstamped.op = "finish"
    BY <1>1, ServerHas
  <1>3. new \in ServerCollection(Now) BY <1>1, <1>2, Renumbered
  <1>4. /\ UNCHANGED clientVars /\ server' = new /\ draft' = server' /\ unstamped' = NoRequest
        /\ session' = NoSession /\ Answer(unstamped, a) /\ unstamped.op = "finish"
    BY <1>2 DEF Stamp, EndSession
  <1>5. a.mod \in 0..clock' BY <1>1
  <1>6. AnswerOK(a, unstamped.op, clock') BY <1>4, <1>5 DEF AnswerOK
  <1> HIDE DEF new, a
  <1> QED BY <1>1, <1>3, <1>4, <1>6, NoSessionIsRecord, AnswerKeeps

LEMMA RefuseKeeps ==
    ASSUME Inv, NEW m \in net, Refuse(m)
    PROVE  Inv'
  <1>1. clock' = clock /\ clock \in Nat /\ ClockGoesOn BY Ticks DEF Refuse
  <1>2. UNCHANGED clientVars /\ UNCHANGED serverVars /\ Answer(m, Conflict) BY DEF Refuse
  <1>3. server' = server /\ draft' = draft /\ session' = session /\ unstamped' = unstamped
    BY <1>2 DEF serverVars
  <1>4. AnswerOK(Conflict, m.op, clock) BY DEF AnswerOK, Conflict
  <1>5. draft \in ServerCollection(clock) /\ session \in SessionRecord BY <1>1, ServerHas
  <1> QED BY <1>1, <1>2, <1>3, <1>4, <1>5, DraftKeeps

LEMMA ServeAbortKeeps ==
    ASSUME Inv, NEW m \in net, ServeAbort(m)
    PROVE  Inv'
  <1> DEFINE a == [ok |-> TRUE]
  <1>1. clock' = clock /\ clock \in Nat /\ ClockGoesOn BY Ticks DEF ServeAbort
  <1>2. /\ UNCHANGED clientVars /\ server' = server /\ unstamped' = unstamped
        /\ session' = NoSession /\ draft' = server /\ Answer(m, a) /\ m.op = "abort"
    BY DEF ServeAbort, EndSession, Serving
  <1>3. AnswerOK(a, m.op, clock) BY <1>2, NoKindOfAnswer
  <1>4. draft' \in ServerCollection(clock) BY <1>1, <1>2, ServerHas
  <1> HIDE DEF a
  <1> QED BY <1>1, <1>2, <1>3, <1>4, NoSessionIsRecord, DraftKeeps

LEMMA ServeUploadKeeps ==
    ASSUME Inv, NEW m \in net, ServeUpload(m)
    PROVE  Inv'
  <1> DEFINE a == [ok |-> TRUE]
  <1>1. clock' = clock /\ clock \in Nat /\ ClockGoesOn BY Ticks DEF ServeUpload
  <1>2. /\ UNCHANGED clientVars /\ server' = m.body /\ unstamped' = unstamped
        /\ session' = NoSession /\ draft' = server' /\ Answer(m, a) /\ m.op = "upload"
    BY DEF ServeUpload, EndSession, Serving
  <1>3. AnswerOK(a, m.op, clock') BY <1>2, NoKindOfAnswer
  <1>4. MessageOK(m, clock) BY <1>1, ServerHas
  <1>5. m.body \in ServerCollection(clock') BY <1>1, <1>2, <1>4 DEF MessageOK
  <1>6. unstamped' # NoRequest => unstamped'.op = "finish" /\ MessageOK(unstamped', clock')
    BY <1>1, <1>2, ServerHas
  <1> HIDE DEF a
  <1> QED BY <1>1, <1>2, <1>3, <1>5, <1>6, NoSessionIsRecord, AnswerKeeps

LEMMA ServeDownloadKeeps ==
    ASSUME Inv, NEW m \in net, ServeDownload(m)
    PROVE  Inv'
  <1> DEFINE new == [server EXCEPT !.usn = @ + 1, !.mod = Now]
             a == [ok |-> TRUE, file |-> new]
  <1>1. clock' = Now /\ Now \in Nat /\ clock <= Now /\ ClockGoesOn BY Ticks DEF ServeDownload
  <1>2. server \in ServerCollection(Now) BY <1>1, ServerHas
  <1>3. new \in ServerCollection(Now) BY <1>1, <1>2, Renumbered
  <1>4. /\ UNCHANGED clientVars /\ server' = new /\ draft' = server' /\ unstamped' = unstamped
        /\ session' = NoSession /\ m.op = "download"
    BY DEF ServeDownload, EndSession, Serving
  <1>5. Answer(m, a) BY DEF ServeDownload
  <1> HIDE DEF new
  <1>6. AnswerOK(a, m.op, clock') BY <1>1, <1>3, <1>4 DEF AnswerOK
  <1> HIDE DEF a
  <1>7. unstamped' # NoRequest => unstamped'.op = "finish" /\ MessageOK(unstamped', clock')
    BY <1>1, <1>4, ServerHas
  <1> QED BY <1>1, <1>3, <1>4, <1>5, <1>6, <1>7, NoSessionIsRecord, AnswerKeeps

LEMMA CrashKeeps ==
    ASSUME Inv, Crash
    PROVE  Inv'
  <1>1. clock' = clock /\ clock \in Nat /\ ClockGoesOn BY Ticks DEF Crash
  <1>2. /\ UNCHANGED clientVars /\ server' = server /\ draft' = server
        /\ session' = NoSession /\ unstamped' = NoRequest /\ net' = net /\ answer' = answer
    BY DEF Crash, EndSession
  <1>3. server \in ServerCollection(clock') BY <1>1, ServerHas
  <1>4. IsFcn(answer') BY <1>2 DEF Inv
  <1> QED BY <1>1, <1>2, <1>3, <1>4, NoSessionIsRecord, ServerKeeps

LEMMA ServeKeeps ==
    ASSUME Inv, NEW m \in net, Serve(m)
    PROVE  Inv'
  BY ServeMetaKeeps, ServeStartKeeps, ServeGravesKeeps, ServeChangesKeeps, ServeChunkKeeps,
     ServeApplyKeeps, ServeSanityKeeps, ServeFinishKeeps, RefuseKeeps, ServeAbortKeeps,
     ServeUploadKeeps, ServeDownloadKeeps DEF Serve

-----------------------------------------------------------------------------
(* Every step.                                                             *)

LEMMA InitInv == Init => Inv
  <1> SUFFICES ASSUME Init PROVE Inv OBVIOUS
  <1>1. clock = 1 BY DEF Init
  <1>2. FirstCollection \in ServerCollection(1)
    <2> DEFINE row == [at |-> 1, usn |-> 0]
               rows == [o \in Objects |-> row]
               graves == [o \in Objects |-> NoGrave]
    <2>1. row \in Row(1) BY DEF Row
    <2> HIDE DEF row
    <2>2. rows \in [Objects -> Row(1) \cup {NoRow}] /\ graves \in [Objects -> SentGraves]
      BY <2>1 DEF SentGraves
    <2> HIDE DEF rows, graves
    <2>3. FirstCollection = [mod |-> 1, scm |-> 0, usn |-> 1, conf |-> 0,
                             rows |-> rows, graves |-> graves]
      BY DEF FirstCollection, rows, graves, row
    <2>4. 0 \in 0..1 /\ 1 \in 0..1 OBVIOUS
    <2> QED BY <2>2, <2>3, <2>4 DEF ServerCollection, Collection
  <1>3. FirstCollection \in DeviceCollection(1) BY <1>2, ServerIsDevice
  <1>4. IsFcn(base) /\ IsFcn(work) /\ IsFcn(undo) /\ IsFcn(sync) /\ IsFcn(answer)
    BY DEF Init, IsFcn
  <1>5. ASSUME NEW c \in Clients
        PROVE  DeviceOK(base[c], work[c], undo[c], sync[c], answer[c], clock)
    <2>1. /\ base[c] = FirstCollection /\ work[c] = FirstCollection /\ undo[c] = NoAnswer
          /\ sync[c] = Idle /\ answer[c] = NoAnswer
      BY DEF Init
    <2>2. Progress(Idle, FirstCollection) BY DEF Progress, Idle, SessionOps
    <2>3. AnswerOK(NoAnswer, Idle.at, clock) BY DEF AnswerOK
    <2> QED BY <1>1, <1>3, <2>1, <2>2, <2>3, IdleIsSync DEF DeviceOK, IdleSync
  <1>6. /\ server = FirstCollection /\ draft = FirstCollection /\ session = NoSession
        /\ unstamped = NoRequest /\ net = {}
    BY DEF Init
  <1> QED BY <1>1, <1>2, <1>4, <1>5, <1>6, NoSessionIsRecord DEF Inv

LEMMA StutterKeeps == Inv /\ UNCHANGED vars => Inv'
  BY DEF Inv, vars, IsFcn

LEMMA NextKeeps ==
    ASSUME Inv, Next
    PROVE  Inv'
  <1>1. ASSUME NEW c \in Clients,
               \/ User(c) \/ Begin(c) \/ Device(c) \/ Timeout(c) \/ Interrupt(c)
               \/ Upload(c) \/ Download(c)
        PROVE  Inv'
    BY <1>1, UserKeeps, BeginKeeps, DeviceActionKeeps, FailureKeeps, InterruptKeeps,
       UploadKeeps, DownloadKeeps
  <1>2. ASSUME NEW m \in net, Serve(m) PROVE Inv' BY <1>2, ServeKeeps
  <1> QED BY <1>1, <1>2, StampKeeps, CrashKeeps DEF Next

LEMMA Invariance == Spec => []Inv
  <1>1. Inv /\ [Next]_vars => Inv' BY NextKeeps, StutterKeeps
  <1> QED BY <1>1, InitInv, PTL DEF Spec

-----------------------------------------------------------------------------
LEMMA InvTyped ==
    ASSUME Inv
    PROVE  TypeOK
  <1>1. clock \in Nat BY Ticks
  <1>2. ASSUME NEW col \in {base[c] : c \in Clients} \cup {work[c] : c \in Clients}
                              \cup {server, draft}
        PROVE  col \in DeviceCollection(clock)
    <2>1. CASE col \in {server, draft} BY <1>1, <2>1, ServerHas, ServerIsDevice
    <2>2. CASE col \in {base[c] : c \in Clients} \cup {work[c] : c \in Clients}
      BY <1>1, <2>2, DeviceHas
    <2> QED BY <2>1, <2>2
  <1>3. ASSUME NEW col \in DeviceCollection(clock)
        PROVE  /\ {col.mod, col.scm, col.conf} \subseteq 0..clock /\ col.usn \in Nat
               /\ \A o \in Objects :
                    /\ Has(col, o) => /\ col.rows[o].at \in 1..clock
                                      /\ col.rows[o].usn \in Nat \cup {Unsent}
                    /\ col.graves[o] \in Nat \cup {NoGrave, Unsent}
    BY DEF DeviceCollection, Collection, MarkedRow, MarkedGraves, Has
  <1>4. ASSUME NEW col \in {server, draft}
        PROVE  PendingRows(col, Objects, Unsent) = {} /\ PendingGraves(col, Unsent) = {}
    <2>1. col \in ServerCollection(clock) BY <1>1, ServerHas
    <2>2. NoMarkedGrave(col) /\ NoneMarked(col, Objects) BY <1>1, <2>1, ServerUnmarked
    <2> QED BY <2>2, PendingIsMarked DEF NoMarkedGrave, NoneMarked
  <1> QED BY <1>2, <1>3, <1>4 DEF TypeOK

\* Every collection holds whole rows at times that have been, whatever the order
\* of requests, and nothing the server holds is marked as not sent: devices
\* give their rows a number before they send them, also before they upload.
THEOREM TypeCorrect == Spec => []TypeOK
  <1>1. Inv => TypeOK BY InvTyped
  <1> QED BY <1>1, Invariance, PTL

\* A device that counts its rows, or ends its sync, has marked nothing left to
\* send: no row, no grave, not even cards the sync itself made anew.
THEOREM NothingLeftUnsentAlways == Spec => []NothingLeftUnsent
  <1>1. ASSUME Inv, NEW c \in Clients, sync[c].at \in {"sanity", "finish"}
        PROVE  PendingRows(work[c], Objects, Unsent) \cup PendingGraves(work[c], Unsent) = {}
    <2>1. Progress(sync[c], work[c]) BY <1>1, Ticks, DeviceHas
    <2>2. NoMarkedGrave(work[c]) /\ NoneMarked(work[c], Decks) /\ NoneMarked(work[c], Cards)
      BY <1>1, <2>1 DEF Progress, SessionOps
    <2> QED BY <2>2, PendingIsMarked DEF NoMarkedGrave, NoneMarked, Objects
  <1>2. Inv => NothingLeftUnsent BY <1>1 DEF NothingLeftUnsent
  <1> QED BY <1>2, Invariance, PTL

-----------------------------------------------------------------------------
(* Keys: whose a request is, and what the session that is open has heard.  *)

Ops == Steps \ {"idle", "full"}

\* The requests that have no answer yet: the one being stamped is still one.
Unanswered == net \cup ({unstamped} \ {NoRequest})

\* The server has opened a session for the device, and the device knows.
Heard(c) == sync[c].at \in SessionOps \/ Answered(c, "start")

DeviceKey(c) ==
    /\ sync[c].at = "idle" <=> sync[c].key = NoKey
    /\ \A d \in Clients : sync[d].key = sync[c].key /\ sync[c].key # NoKey => d = c

Posted(m) ==
    /\ m.from \in Clients /\ m.op \in Ops /\ (m.key = NoKey => m.op = "abort")
    /\ m.op # "abort" =>
        /\ \A n \in Unanswered : n.op # "abort" /\ n.key = m.key => n = m
        /\ \A c \in Clients : sync[c].key = m.key =>
             /\ m.from = c
             /\ sync[c].at = "abort" \/ (sync[c].at = m.op /\ answer[c] = NoAnswer)

Got(a) == a # NoAnswer /\ a.ok

KeysKept ==
    /\ \A c \in Clients : DeviceKey(c)
    /\ \A m \in Unanswered : Posted(m)
    /\ unstamped \notin net

Opened ==
    /\ unstamped # NoRequest => unstamped.key = session.key
    /\ session.key # NoKey =>
        /\ \A m \in Unanswered : m.key = session.key /\ m.op # "abort" =>
            /\ m.op \in SessionOps
            /\ sync[m.from].key = m.key \/ ~Heard(m.from)
        /\ \A c \in Clients : sync[c].key = session.key => Heard(c) \/ sync[c].at = "abort"

Keyed == KeysKept /\ Opened

\* What is known of the functions on the devices
LEMMA Functions ==
    ASSUME Inv
    PROVE  IsFcn(base) /\ IsFcn(work) /\ IsFcn(undo) /\ IsFcn(sync) /\ IsFcn(answer)
  BY DEF Inv

LEMMA KeyNotDevice == NoKey \notin Clients /\ NoKey \notin Keys
  BY SyncAssumption

\* A device asks its next request: its last has been answered, or its user.
LEMMA AskKeyed ==
    ASSUME Inv, Keyed, NEW c \in Clients, NEW s, NEW body, Ask(c, s, body),
           s.key = sync[c].key, s.at \in Ops \ {"abort"}, sync[c].at \notin {"abort", "idle"},
           answer[c] # NoAnswer \/ sync[c].at = "full", s.at \in SessionOps <=> Heard(c),
           UNCHANGED <<session, unstamped>>
    PROVE  Keyed'
  <1> DEFINE new == Message(c, s.at, s.key, body)
  <1>1. /\ sync'[c] = s /\ answer'[c] = NoAnswer /\ net' = net \cup {new}
        /\ \A d \in Clients \ {c} : sync'[d] = sync[d] /\ answer'[d] = answer[d]
    BY Functions DEF Ask, IsFcn
  <1>2. new.from = c /\ new.op = s.at /\ new.key = s.key BY DEF Message
  <1>3. s.key # NoKey BY DEF Keyed, KeysKept, DeviceKey
  <1>4. \A n \in Unanswered : n.op # "abort" => n.key # s.key
    BY DEF Keyed, KeysKept, Posted, Ops
  <1>5. Unanswered' = Unanswered \cup {new} BY <1>1 DEF Unanswered
  <1>6. new # NoRequest /\ new # unstamped
    <2>1. NoRequest.from \notin Clients BY KeyNotDevice DEF NoRequest
    <2>2. new # NoRequest BY <1>2, <2>1
    <2>3. unstamped # NoRequest => unstamped \in Unanswered /\ unstamped.op = "finish"
      BY DEF Unanswered, Inv
    <2> QED BY <1>2, <1>4, <2>2, <2>3
  <1> HIDE DEF new
  <1>7. \A d \in Clients : DeviceKey(d)'
    BY <1>1, <1>3 DEF Keyed, KeysKept, DeviceKey, Ops
  <1>8. ASSUME NEW m \in Unanswered' PROVE Posted(m)'
    <2>1. CASE m = new BY <1>1, <1>2, <1>3, <1>4, <1>5, <2>1 DEF Posted, Keyed, KeysKept, DeviceKey
    <2>2. CASE m \in Unanswered
      BY <1>1, <1>2, <1>4, <1>5, <2>2 DEF Posted, Keyed, KeysKept
    <2> QED BY <1>5, <2>1, <2>2
  <1>9. KeysKept' BY <1>1, <1>6, <1>7, <1>8 DEF Keyed, KeysKept
  <1>10. Heard(c)' <=> s.at \in SessionOps BY <1>1 DEF Heard, Answered
  <1>11. \A d \in Clients \ {c} : Heard(d)' <=> Heard(d) BY <1>1 DEF Heard, Answered
  <1>12. Opened'
    BY <1>1, <1>2, <1>5, <1>10, <1>11 DEF Keyed, Opened, KeysKept, Posted
  <1> QED BY <1>9, <1>12 DEF Keyed

\* A device gives its sync up, and may tell the server.
LEMMA LeaveKeyed ==
    ASSUME Inv, Keyed, NEW c \in Clients, NEW s, sync' = [sync EXCEPT ![c] = s],
           answer' = [answer EXCEPT ![c] = NoAnswer],
           \/ s.at = "idle" /\ s.key = NoKey
           \/ s.at = "abort" /\ s.key = sync[c].key /\ sync[c].at # "idle",
           \A m \in net' : m \in net \/ (m.from \in Clients /\ m.op = "abort"),
           UNCHANGED <<session, unstamped>>
    PROVE  Keyed'
  <1>1. /\ sync'[c] = s /\ answer'[c] = NoAnswer
        /\ \A d \in Clients \ {c} : sync'[d] = sync[d] /\ answer'[d] = answer[d]
    BY Functions DEF IsFcn
  <1>2. \A m \in Unanswered' : m \in Unanswered \/ (m.from \in Clients /\ m.op = "abort")
    BY DEF Unanswered
  <1>3. \A d \in Clients : DeviceKey(d)'
    BY <1>1 DEF Keyed, KeysKept, DeviceKey
  <1>4. ASSUME NEW m \in Unanswered' PROVE Posted(m)'
    <2>1. CASE m.op = "abort"
      BY <1>2, <2>1 DEF Posted, Ops, Steps, Keyed, KeysKept
    <2>2. CASE m.op # "abort"
      <3>1. m \in Unanswered /\ Posted(m) BY <1>2, <2>2 DEF Keyed, KeysKept
      <3>2. \A n \in Unanswered' : n.op # "abort" /\ n.key = m.key => n = m
        BY <1>2, <2>2, <3>1 DEF Posted
      <3>3. ASSUME NEW d \in Clients, sync'[d].key = m.key
            PROVE  /\ m.from = d
                   /\ sync'[d].at = "abort" \/ (sync'[d].at = m.op /\ answer'[d] = NoAnswer)
        <4>1. m.key # NoKey BY <2>2, <3>1 DEF Posted
        <4>2. sync[d].key = m.key BY <1>1, <3>3, <4>1
        <4> QED BY <1>1, <2>2, <3>1, <3>3, <4>1, <4>2 DEF Posted
      <3> QED BY <3>1, <3>2, <3>3 DEF Posted
    <2> QED BY <2>1, <2>2
  <1>5. unstamped' \notin net'
    BY KeyNotDevice DEF Keyed, KeysKept, Inv, NoRequest
  <1>6. KeysKept' BY <1>3, <1>4, <1>5 DEF KeysKept
  <1>7. ~Heard(c)' BY <1>1 DEF Heard, Answered, SessionOps
  <1>8. \A d \in Clients \ {c} : Heard(d)' <=> Heard(d) BY <1>1 DEF Heard, Answered
  <1>9. ASSUME session.key # NoKey, NEW m \in Unanswered', m.key = session.key, m.op # "abort"
        PROVE  m.op \in SessionOps /\ (sync'[m.from].key = m.key \/ ~Heard(m.from)')
    BY <1>1, <1>2, <1>7, <1>8, <1>9 DEF Keyed, Opened, KeysKept, Posted
  <1>10. ASSUME session.key # NoKey, NEW d \in Clients, sync'[d].key = session.key
         PROVE  Heard(d)' \/ sync'[d].at = "abort"
    BY <1>1, <1>8, <1>10 DEF Keyed, Opened
  <1>11. Opened' BY <1>9, <1>10 DEF Opened, Keyed
  <1> QED BY <1>6, <1>11 DEF Keyed

LEMMA BeginKeyed ==
    ASSUME Inv, Keyed, NEW c \in Clients, Begin(c)
    PROVE  Keyed'
  <1> DEFINE s == [Idle EXCEPT !.at = "meta", !.key = FreshKey]
             new == Message(c, s.at, s.key, {})
  <1>1. FreshKey \in FreshKeys BY DEF Begin, FreshKey
  <1>2. /\ FreshKey \in Keys /\ FreshKey # session.key /\ FreshKey # NoKey
        /\ \A d \in Clients : sync[d].key # FreshKey
        /\ \A m \in net : m.key # FreshKey
    BY <1>1, KeyNotDevice DEF FreshKeys
  <1>3. s.at = "meta" /\ s.key = FreshKey BY DEF Idle
  <1>4. /\ sync'[c] = s /\ answer'[c] = NoAnswer /\ net' = net \cup {new}
        /\ \A d \in Clients \ {c} : sync'[d] = sync[d] /\ answer'[d] = answer[d]
        /\ UNCHANGED <<session, unstamped>>
    BY Functions DEF Begin, Ask, IsFcn, serverVars
  <1>5. new.from = c /\ new.op = "meta" /\ new.key = FreshKey BY <1>3 DEF Message
  <1> HIDE DEF new, s
  <1>6. \A n \in Unanswered : n.key # FreshKey
    BY <1>2 DEF Keyed, Opened, Unanswered
  <1>7. Unanswered' = Unanswered \cup {new} BY <1>4 DEF Unanswered
  <1>8. new # unstamped'
    <2>1. NoRequest.from \notin Clients BY KeyNotDevice DEF NoRequest
    <2> QED BY <1>4, <1>5, <1>6, <2>1 DEF Unanswered
  <1>9. \A d \in Clients : DeviceKey(d)'
    BY <1>2, <1>3, <1>4 DEF Keyed, KeysKept, DeviceKey
  <1>10. sync[c].key = NoKey BY DEF Keyed, KeysKept, DeviceKey, Begin, AtRest
  <1>11. ASSUME NEW m \in Unanswered' PROVE Posted(m)'
    <2>1. CASE m = new
      BY <1>2, <1>3, <1>4, <1>5, <1>6, <1>7, <2>1 DEF Posted, Ops, Steps
    <2>2. CASE m \in Unanswered
      BY <1>3, <1>4, <1>5, <1>6, <1>7, <1>10, <2>2 DEF Posted, Keyed, KeysKept
    <2> QED BY <1>7, <2>1, <2>2
  <1>12. KeysKept' BY <1>4, <1>8, <1>9, <1>11 DEF Keyed, KeysKept
  <1>13. ~Heard(c)' BY <1>3, <1>4 DEF Heard, Answered, SessionOps
  <1>14. \A d \in Clients \ {c} : Heard(d)' <=> Heard(d) BY <1>4 DEF Heard, Answered
  <1>15. Opened'
    BY <1>2, <1>3, <1>4, <1>5, <1>7, <1>13, <1>14 DEF Keyed, Opened, KeysKept, Posted
  <1> QED BY <1>12, <1>15 DEF Keyed

\* Nobody's sync moves.
LEMMA EditKeyed ==
    ASSUME Keyed, UNCHANGED <<sync, answer, net, session, unstamped>>
    PROVE  Keyed'
  BY DEF Keyed, KeysKept, DeviceKey, Posted, Opened, Unanswered, Heard, Answered

\* The server answers a request, or the last step of one; it keeps the session, ends
\* it, or opens one for that request.
LEMMA AnswerKeyed ==
    ASSUME Inv, Keyed, NEW m \in Unanswered, NEW a, UNCHANGED sync,
           Unanswered' = Unanswered \ {m}, net' \subseteq net, unstamped' = NoRequest,
           answer' = IF Live(m) THEN [answer EXCEPT ![m.from] = a] ELSE answer,
           \/ session'.key = NoKey
           \/ session'.key = session.key /\ m.op # "start"
           \/ session'.key = m.key /\ m.op = "start" /\ Got(a)
    PROVE  Keyed'
  <1>1. Posted(m) BY DEF Keyed, KeysKept
  <1>2. /\ \A d \in Clients : d # m.from \/ ~Live(m) => answer'[d] = answer[d]
        /\ Live(m) => answer'[m.from] = a
    BY Functions, <1>1 DEF IsFcn, Posted
  <1>3. \A d \in Clients : DeviceKey(d)' BY DEF Keyed, KeysKept, DeviceKey
  <1>4. ASSUME NEW n \in Unanswered' PROVE Posted(n)'
    <2>1. n \in Unanswered /\ n # m /\ Posted(n) BY DEF Keyed, KeysKept
    <2>2. CASE n.op = "abort" BY <2>1, <2>2 DEF Posted
    <2>3. CASE n.op # "abort"
      <3>1. ASSUME NEW d \in Clients, sync[d].key = n.key
            PROVE  /\ n.from = d
                   /\ sync[d].at = "abort" \/ (sync[d].at = n.op /\ answer'[d] = NoAnswer)
        <4>1. n.from = d /\ (sync[d].at = "abort" \/ (sync[d].at = n.op /\ answer[d] = NoAnswer))
          BY <2>1, <2>3, <3>1 DEF Posted
        <4>2. CASE sync[d].at = "abort" BY <4>1, <4>2
        <4>3. CASE sync[d].at = n.op
          <5>1. ~(Live(m) /\ m.from = d)
            BY <1>1, <2>1, <2>3, <3>1, <4>3 DEF Live, Posted
          <5> QED BY <1>2, <2>3, <4>1, <4>3, <5>1
        <4> QED BY <4>1, <4>2, <4>3
      <3> QED BY <2>1, <2>3, <3>1 DEF Posted
    <2> QED BY <2>2, <2>3
  <1>5. unstamped' \notin net'
    <2>1. \A n \in net : n.from \in Clients BY DEF Inv, MessageOK
    <2> QED BY <2>1, KeyNotDevice DEF NoRequest
  <1>6. KeysKept' BY <1>3, <1>4, <1>5 DEF KeysKept
  <1>7. \A d \in Clients : Heard(d) => Heard(d)' \/ (Live(m) /\ m.from = d /\ m.op = "start")
    BY <1>2 DEF Heard, Answered, Live
  <1>8. \A d \in Clients : Heard(d)' => Heard(d) \/ (Live(m) /\ m.from = d /\ m.op = "start")
    BY <1>2 DEF Heard, Answered, Live
  <1>9. Opened'
    <2>1. CASE session'.key = NoKey BY <2>1 DEF Opened
    <2>2. CASE session'.key = session.key /\ m.op # "start"
      <3>1. \A d \in Clients : Heard(d)' <=> Heard(d) BY <1>7, <1>8, <2>2
      <3>2. \A n \in Unanswered : n.from \in Clients BY DEF Keyed, KeysKept, Posted
      <3> QED BY <2>2, <3>1, <3>2 DEF Opened, Keyed
    <2>3. CASE session'.key = m.key /\ m.op = "start" /\ Got(a)
      <3>1. \A n \in Unanswered' : n.op # "abort" => n.key # m.key
        BY <1>1, <2>3 DEF Posted
      <3>2. ASSUME NEW d \in Clients, sync[d].key = m.key
            PROVE  Heard(d)' \/ sync[d].at = "abort"
        <4>1. m.from = d /\ (sync[d].at = "abort" \/ sync[d].at = m.op)
          BY <1>1, <2>3, <3>2 DEF Posted
        <4>2. CASE sync[d].at = m.op
          <5>1. Live(m) BY <3>2, <4>1, <4>2 DEF Live
          <5> QED BY <1>2, <2>3, <4>1, <4>2, <5>1 DEF Heard, Answered, Got
        <4> QED BY <4>1, <4>2
      <3> QED BY <2>3, <3>1, <3>2 DEF Opened
    <2> QED BY <2>1, <2>2, <2>3
  <1> QED BY <1>6, <1>9 DEF Keyed

\* A commit leaves its request to be answered; a stop of the server loses it.
LEMMA CommitKeyed ==
    ASSUME Inv, Keyed, UNCHANGED <<sync, answer>>, net' \subseteq net,
           \/ /\ session' = session /\ Unanswered' = Unanswered /\ unstamped' \notin net'
              /\ unstamped'.key = session.key
           \/ session'.key = NoKey /\ Unanswered' \subseteq Unanswered /\ unstamped' = NoRequest
    PROVE  Keyed'
  <1>1. \A d \in Clients : DeviceKey(d)' BY DEF Keyed, KeysKept, DeviceKey
  <1>2. \A n \in Unanswered' : Posted(n)' BY DEF Keyed, KeysKept, Posted
  <1>3. unstamped' \notin net'
    <2>1. \A n \in net : n.from \in Clients BY DEF Inv, MessageOK
    <2> QED BY <2>1, KeyNotDevice DEF NoRequest
  <1>4. Opened' BY DEF Keyed, Opened, Heard, Answered
  <1> QED BY <1>1, <1>2, <1>3, <1>4 DEF Keyed, KeysKept

LEMMA IdleIsAway == Idle.at = "idle" /\ Idle.clash = {} /\ ~Idle.differ /\ Idle.key = NoKey
  BY DEF Idle

\* The ends of a sync that tell the server nothing
LEMMA FinishedKeyed ==
    ASSUME Inv, Keyed, NEW c \in Clients, Finished(c), net' \subseteq net,
           UNCHANGED <<session, unstamped>>
    PROVE  Keyed'
  BY IdleIsAway, LeaveKeyed DEF Finished

LEMMA RollBackKeyed ==
    ASSUME Inv, Keyed, NEW c \in Clients, NEW differ, NEW late, RollBack(c, differ, late),
           UNCHANGED <<session, unstamped>>
    PROVE  Keyed'
  <1> DEFINE s == [Idle EXCEPT !.at = "abort", !.key = sync[c].key, !.differ = differ]
  <1>1. s.at = "abort" /\ s.key = sync[c].key BY DEF Idle
  <1>2. InTransaction(c) => sync[c].at # "idle" BY DEF InTransaction, SessionOps
  <1>3. answer' = [answer EXCEPT ![c] = NoAnswer] BY DEF RollBack
  <1>4. \A m \in net' : m \in net \/ (m.from \in Clients /\ m.op = "abort")
    BY DEF RollBack, Message
  <1>5. \/ sync' = [sync EXCEPT ![c] = s] /\ sync[c].at # "idle"
        \/ sync' = [sync EXCEPT ![c] = Idle]
    BY <1>2 DEF RollBack
  <1> HIDE DEF s
  <1> QED BY <1>1, <1>3, <1>4, <1>5, IdleIsAway, LeaveKeyed

\* The user is asked which side to keep.
LEMMA GotOtherSchemaKeyed ==
    ASSUME Inv, Keyed, NEW c \in Clients, GotOtherSchema(c)
    PROVE  Keyed'
  <1>1. /\ sync[c].at = "meta" /\ answer[c] # NoAnswer /\ answer'[c] = NoAnswer
        /\ sync'[c].at = "full" /\ sync'[c].key = sync[c].key
        /\ \A d \in Clients \ {c} : sync'[d] = sync[d] /\ answer'[d] = answer[d]
        /\ UNCHANGED <<net, session, unstamped>>
    <2>1. sync[c] \in SyncRecord BY DeviceHas DEF Inv, DeviceOK
    <2> QED BY <2>1, Functions DEF GotOtherSchema, Answered, IsFcn, serverVars, SyncRecord
  <1>2. Unanswered' = Unanswered BY <1>1 DEF Unanswered
  <1>3. \A m \in Unanswered : m.op # "abort" => m.key # sync[c].key
    BY <1>1 DEF Keyed, KeysKept, Posted
  <1>4. ASSUME NEW m \in Unanswered PROVE Posted(m)'
    BY <1>1, <1>2, <1>3 DEF Keyed, KeysKept, Posted
  <1>5. ~Heard(c) /\ ~Heard(c)' /\ \A d \in Clients \ {c} : Heard(d)' <=> Heard(d)
    BY <1>1 DEF Heard, Answered, SessionOps
  <1>6. KeysKept' BY <1>1, <1>2, <1>4 DEF Keyed, KeysKept, DeviceKey
  <1>7. Opened' BY <1>1, <1>2, <1>5 DEF Keyed, KeysKept, Posted, Opened
  <1> QED BY <1>6, <1>7 DEF Keyed

\* The requests of a sync follow one another.
LEMMA StepKeyed ==
    ASSUME Inv, Keyed, NEW c \in Clients, NEW s, NEW body, Ask(c, s, body), s.key = sync[c].key,
           Answered(c, sync[c].at), sync[c].at \in {"start"} \cup SessionOps,
           s.at \in SessionOps, UNCHANGED <<session, unstamped>>
    PROVE  Keyed'
  <1>1. Heard(c) /\ answer[c] # NoAnswer BY DEF Heard, Answered
  <1> QED BY <1>1, AskKeyed DEF SessionOps, Ops, Steps

LEMMA DeviceKeyed ==
    ASSUME Inv, Keyed, NEW c \in Clients,
           User(c) \/ Begin(c) \/ Device(c) \/ Timeout(c) \/ Interrupt(c)
           \/ Upload(c) \/ Download(c)
    PROVE  Keyed'
  <1>1. sync[c] \in SyncRecord BY DEF Inv, DeviceOK
  <1>2. CASE User(c) BY <1>2, EditKeyed DEF User, Write, Remove, Readd, WriteConf, Undo,
                       ChangeSchema, Edit, serverVars
  <1>3. CASE GotSameMeta(c) \/ GotFinish(c) \/ GotUpload(c) \/ GotDownload(c) \/ GotAbort(c)
    BY <1>3, FinishedKeyed DEF GotSameMeta, GotFinish, GotUpload, GotDownload, GotAbort, serverVars
  <1>4. CASE Interrupt(c)
    <2>1. \A m \in net' : m \in net \/ (m.from \in Clients /\ m.op = "abort")
      BY <1>4 DEF Interrupt, Message
    <2> QED BY <1>4, <2>1, IdleIsAway, LeaveKeyed DEF Interrupt, Finished, serverVars
  <1>5. CASE GotConflict(c) \/ GotMismatch(c) \/ Timeout(c)
    BY <1>5, RollBackKeyed DEF GotConflict, GotMismatch, Timeout, serverVars
  <1>6. CASE Upload(c) \/ Download(c)
    <2>1. /\ sync[c].at = "full" /\ UNCHANGED <<session, unstamped>>
          /\ \E op \in Sides : \E body : Ask(c, [sync[c] EXCEPT !.at = op], body)
      BY <1>6 DEF Upload, Download, serverVars, Sides
    <2>2. PICK op \in Sides : \E body : Ask(c, [sync[c] EXCEPT !.at = op], body) BY <2>1
    <2> DEFINE s == [sync[c] EXCEPT !.at = op]
    <2>3. s.at = op /\ s.key = sync[c].key BY <1>1 DEF SyncRecord
    <2>4. \E body : Ask(c, s, body) BY <2>2
    <2> HIDE DEF s
    <2>5. ~Heard(c) /\ s.at \in Ops \ {"abort"} /\ s.at \notin SessionOps
      BY <2>1, <2>3 DEF Heard, Answered, Ops, Steps, Sides, SessionOps
    <2> QED BY <2>1, <2>3, <2>4, <2>5, AskKeyed
  <1>7. CASE GotMeta(c)
    <2> DEFINE s == [sync[c] EXCEPT !.at = "start", !.usn = answer[c].usn,
                                    !.newer = base[c].mod > answer[c].mod]
    <2>1. /\ sync[c].at = "meta" /\ answer[c] # NoAnswer /\ UNCHANGED <<session, unstamped>>
          /\ \E body : Ask(c, s, body)
      BY <1>7 DEF GotMeta, Answered, serverVars
    <2>2. s.at = "start" /\ s.key = sync[c].key BY <1>1 DEF SyncRecord
    <2> HIDE DEF s
    <2>3. ~Heard(c) /\ s.at \in Ops \ {"abort"} /\ s.at \notin SessionOps
      BY <2>1, <2>2 DEF Heard, Answered, Ops, Steps, SessionOps
    <2> QED BY <2>1, <2>2, <2>3, AskKeyed
  <1>8. CASE GotStart(c) \/ GotGraves(c) \/ GotChanges(c) \/ GotChunk(c) \/ GotApply(c) \/ GotSanity(c)
    <2>1. /\ sync[c].at \in {"start"} \cup SessionOps /\ Answered(c, sync[c].at)
          /\ UNCHANGED <<session, unstamped>>
      BY <1>8 DEF GotStart, GotGraves, GotChanges, GotChunk, GotApply, GotSanity, Answered,
                  SessionOps, serverVars
    <2> DEFINE Asks(s) == \E body : Ask(c, s, body)
               ToGraves == [sync[c] EXCEPT !.at = "graves", !.held = answer[c].graves]
               ToChanges == [sync[c] EXCEPT !.at = "changes", !.held = {}]
               ToChunk == [sync[c] EXCEPT !.at = "chunk"]
               Clashing(clash) == [sync[c] EXCEPT !.clash = clash]
               ToApply(held, last) == [sync[c] EXCEPT !.at = "apply", !.held = held, !.last = last,
                                                  !.clash = {}]
               ToEnd(at) == [sync[c] EXCEPT !.at = at]
    <2>2. \/ Asks(ToGraves) \/ Asks(ToChanges) \/ Asks(ToChunk)
          \/ sync[c].at = "chunk" /\ \E clash : Asks(Clashing(clash))
          \/ \E held, last : Asks(ToApply(held, last))
          \/ \E at \in {"sanity", "finish"} : Asks(ToEnd(at))
      <3>1. CASE GotStart(c) BY <3>1 DEF GotStart, SendChanges
      <3>2. CASE GotGraves(c) BY <3>2 DEF GotGraves, SendChanges
      <3>3. CASE GotChanges(c) BY <3>3 DEF GotChanges
      <3>4. CASE GotChunk(c) BY <3>4, Zenon DEF GotChunk, Answered, SendChunk
      <3>5. CASE GotApply(c) BY <3>5, Zenon DEF GotApply, SendChunk
      <3>6. CASE GotSanity(c) BY <3>6 DEF GotSanity
      <3> QED BY <1>8, <3>1, <3>2, <3>3, <3>4, <3>5, <3>6
    <2>3. /\ ToGraves.at = "graves" /\ ToGraves.key = sync[c].key
          /\ ToChanges.at = "changes" /\ ToChanges.key = sync[c].key
          /\ ToChunk.at = "chunk" /\ ToChunk.key = sync[c].key
          /\ \A clash : Clashing(clash).at = sync[c].at /\ Clashing(clash).key = sync[c].key
          /\ \A held, last : ToApply(held, last).at = "apply" /\ ToApply(held, last).key = sync[c].key
          /\ \A at : ToEnd(at).at = at /\ ToEnd(at).key = sync[c].key
      BY <1>1 DEF SyncRecord
    <2> HIDE DEF ToGraves, ToChanges, ToChunk, Clashing, ToApply, ToEnd
    <2>4. \E s : Asks(s) /\ s.key = sync[c].key /\ s.at \in SessionOps
      BY <2>2, <2>3 DEF SessionOps
    <2> QED BY <2>1, <2>4, StepKeyed
  <1> QED BY <1>2, <1>3, <1>4, <1>5, <1>6, <1>7, <1>8, BeginKeyed, GotOtherSchemaKeyed DEF Device

LEMMA ReplyKeyed ==
    ASSUME Inv, Keyed, NEW m \in net, NEW a, Answer(m, a), UNCHANGED sync,
           unstamped = NoRequest, unstamped' = NoRequest,
           \/ session'.key = NoKey
           \/ session'.key = session.key /\ m.op # "start"
           \/ session'.key = m.key /\ m.op = "start" /\ Got(a)
    PROVE  Keyed'
  <1>1. m \in Unanswered /\ Unanswered' = Unanswered \ {m} /\ net' \subseteq net
    BY DEF Unanswered, Answer
  <1> QED BY <1>1, AnswerKeyed DEF Answer

LEMMA ServeKeyed ==
    ASSUME Inv, Keyed, NEW m \in net, Serve(m)
    PROVE  Keyed'
  <1>1. CASE ServeMeta(m) \/ ServeAbort(m) \/ ServeUpload(m) \/ ServeDownload(m)
    <2>1. /\ UNCHANGED sync /\ unstamped = NoRequest /\ unstamped' = NoRequest
          /\ session'.key = NoKey /\ \E a : Answer(m, a)
      BY <1>1 DEF ServeMeta, ServeAbort, ServeUpload, ServeDownload, Serving, EndSession,
                  NoSession, clientVars
    <2> QED BY <2>1, ReplyKeyed
  <1>2. CASE ServeStart(m)
    <2> DEFINE a == [ok |-> TRUE, graves |-> PendingGraves(server, m.body.usn)]
    <2>1. /\ UNCHANGED sync /\ unstamped = NoRequest /\ unstamped' = NoRequest
          /\ session'.key = m.key /\ m.op = "start" /\ Answer(m, a)
      BY <1>2 DEF ServeStart, Serving, NoSession, clientVars
    <2>2. Got(a)
      <3>1. a \in Answers BY DEF Answers, PendingGraves
      <3> QED BY <3>1, SyncAssumption DEF Got
    <2> HIDE DEF a
    <2> QED BY <2>1, <2>2, ReplyKeyed
  <1>3. CASE \/ ServeGraves(m) \/ ServeChanges(m) \/ ServeChunk(m) \/ ServeApply(m)
             \/ ServeSanity(m) \/ Refuse(m)
    <2>1. /\ UNCHANGED sync /\ unstamped = NoRequest /\ unstamped' = NoRequest
          /\ m.op # "start"
      BY <1>3 DEF ServeGraves, ServeChanges, ServeChunk, ServeApply, ServeSanity, Refuse,
                  Serving, clientVars, serverVars, SessionOps
    <2>2. \E a : Answer(m, a)
      BY <1>3 DEF ServeGraves, ServeChanges, ServeChunk, ServeApply, ServeSanity, Refuse
    <2>3. session'.key = session.key
      BY <1>3 DEF ServeGraves, ServeChanges, ServeChunk, ServeApply, ServeSanity, Refuse,
                  serverVars, Inv, SessionRecord
    <2> QED BY <2>1, <2>2, <2>3, ReplyKeyed
  <1>4. CASE ServeFinish(m)
    <2>1. /\ UNCHANGED <<sync, answer, session>> /\ unstamped = NoRequest /\ unstamped' = m
          /\ net' = net \ {m} /\ m.key = session.key
      BY <1>4 DEF ServeFinish, Serving, InSession, clientVars
    <2>2. m # NoRequest BY KeyNotDevice DEF Inv, MessageOK, NoRequest
    <2>3. Unanswered' = Unanswered /\ net' \subseteq net /\ unstamped' \notin net'
      BY <2>1, <2>2 DEF Unanswered
    <2> QED BY <2>1, <2>3, CommitKeyed
  <1> QED BY <1>1, <1>2, <1>3, <1>4 DEF Serve

LEMMA NextKeyed ==
    ASSUME Inv, Keyed, [Next]_vars
    PROVE  Keyed'
  <1>1. CASE UNCHANGED vars BY <1>1, EditKeyed DEF vars
  <1>2. CASE Stamp
    <2>1. /\ UNCHANGED sync /\ unstamped # NoRequest /\ unstamped' = NoRequest
          /\ session'.key = NoKey /\ \E a : Answer(unstamped, a)
      BY <1>2 DEF Stamp, EndSession, NoSession, clientVars
    <2>2. PICK a : Answer(unstamped, a) BY <2>1
    <2>3. /\ unstamped \in Unanswered /\ Unanswered' = Unanswered \ {unstamped}
          /\ net' \subseteq net
      BY <2>1, <2>2 DEF Unanswered, Answer, Keyed, KeysKept
    <2> QED BY <2>1, <2>2, <2>3, AnswerKeyed DEF Answer
  <1>3. CASE Crash
    <2>1. /\ UNCHANGED <<sync, answer, net>> /\ unstamped' = NoRequest /\ session'.key = NoKey
      BY <1>3 DEF Crash, EndSession, NoSession, clientVars
    <2>2. Unanswered' \subseteq Unanswered BY <2>1 DEF Unanswered
    <2> QED BY <2>1, <2>2, CommitKeyed
  <1>4. CASE \E c \in Clients : User(c) \/ Begin(c) \/ Device(c) \/ Timeout(c) \/ Interrupt(c)
                                \/ Upload(c) \/ Download(c)
    BY <1>4, DeviceKeyed
  <1>5. CASE \E m \in net : Serve(m) BY <1>5, ServeKeyed
  <1> QED BY <1>1, <1>2, <1>3, <1>4, <1>5 DEF Next

LEMMA InitKeyed == Init => Keyed
  <1> SUFFICES ASSUME Init PROVE Keyed
    OBVIOUS
  <1>1. /\ \A c \in Clients : sync[c] = Idle /\ answer[c] = NoAnswer
        /\ session.key = NoKey /\ unstamped = NoRequest /\ net = {}
    BY DEF Init, NoSession
  <1>2. \A c \in Clients : sync[c].at = "idle" /\ sync[c].key = NoKey
    BY <1>1, IdleIsAway
  <1>3. Unanswered = {} BY <1>1 DEF Unanswered
  <1> QED BY <1>1, <1>2, <1>3 DEF Keyed, KeysKept, Opened, DeviceKey

\* Each request with a key is of one device, the one whose sync has that key, and each key
\* is of one sync: a request that a device has given up never finds another's session,
\* and no two requests of one sync are under way at once, a stray abort apart, which ends
\* whatever session is open.
THEOREM KeysKeptApart == Spec => []Keyed
  <1>1. Inv /\ Keyed /\ [Next]_vars => Keyed'
    BY NextKeyed
  <1> QED BY <1>1, InitKeyed, Invariance, PTL DEF Spec

=============================================================================
