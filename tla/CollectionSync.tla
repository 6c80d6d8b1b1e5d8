--------------------------- MODULE CollectionSync ---------------------------
(***************************************************************************)
(* A normal sync of the collection, and the one-way syncs that replace it. *)
(*                                                                         *)
(* Devices keep a copy of one collection; a server keeps the shared one.   *)
(* A device that syncs works in a transaction of its own, and so does the  *)
(* server, in a session it knows by the key every request carries:         *)
(*                                                                         *)
(*    meta - start - applyGraves* - applyChanges - chunk+ - applyChunk+    *)
(*         - sanityCheck2 - finish                                         *)
(*                                                                         *)
(* A row has a USN: -1 while only this device has it, else the server's    *)
(* number when the row reached the server.  A device asks for the rows     *)
(* whose number is not below its own; the server bumps its number at the   *)
(* end of a sync.  Nothing is acknowledged but the end: a request or an    *)
(* answer that is lost rolls the device back, and it starts over.          *)
(*                                                                         *)
(* Cards stand for everything sent in chunks (cards and notes; review log  *)
(* rows are only ever added), decks for everything sent in one piece       *)
(* (decks, presets, note types), conf for the configuration.               *)
(***************************************************************************)
EXTENDS Integers, FiniteSets, FiniteSetsExt, TLC

CONSTANTS
    Clients,    \* the devices
    Cards,      \* the rows sent in chunks
    Decks,      \* the rows sent in one piece
    ChunkSize,  \* rows in a chunk
    MsPerSec,   \* ticks of the clock that share a row's modification second
    Edits,      \* what a user may do between syncs: a subset of EditKinds
    Crashes,    \* where the server may stop: a subset of {"session", "unstamped"}
    MaxEdits, MaxFaults, MaxStray, \* bounds of the model
    NoRow, NoKey, NoAnswer         \* model values

Objects == Cards \cup Decks
Keys == 1..(Cardinality(Clients) + MaxStray + 1)
EditKinds == {"write", "remove", "readd", "conf", "undo", "schema"}

\* What the model values are not
AnyRow == [at : Nat, usn : Int]
SomeRows(objs) == UNION {[some -> AnyRow \cup {NoRow}] : some \in SUBSET objs}
Answers ==
    [ok : BOOLEAN] \cup [ok : BOOLEAN, mod : Nat]
    \cup [ok : BOOLEAN, graves : SUBSET Objects]
    \cup [ok : BOOLEAN, changes : [decks : SomeRows(Decks), conf : Int]]
    \cup [ok : BOOLEAN, cards : SomeRows(Cards), last : BOOLEAN]

ASSUME SyncAssumption ==
    /\ Cards \cap Decks = {} /\ IsFiniteSet(Objects) /\ IsFiniteSet(Clients)
    /\ ChunkSize \in Nat \ {0} /\ MsPerSec \in Nat \ {0}
    /\ Edits \subseteq EditKinds /\ Crashes \subseteq {"session", "unstamped"}
    /\ MaxEdits \in Nat /\ MaxFaults \in Nat /\ MaxStray \in Nat
    /\ NoRow \notin AnyRow /\ NoKey \notin Keys \cup Clients
    /\ NoAnswer \notin [Objects -> Nat] \cup Answers
    /\ -1 \notin Cards

VARIABLES
    base,       \* base[c]: the collection file of device c, as committed
    work,       \* work[c]: what its open transaction sees
    sync,       \* sync[c]: the sync the device is in
    undo,       \* undo[c]: the collection before the last undoable operation
    server,     \* the collection file of the server, as committed
    draft,      \* what the server's open transaction sees
    session,    \* User.sync_state
    unstamped,  \* the finish request that has committed, not yet stamped
    net,        \* requests under way
    answer,     \* answer[c]: the server's answer to the device's last request
    crossed,    \* a device in a session: the server had changed since its meta request
    clock,
    made,       \* a history: what a card made anew by a sync was made from
    edits, faults

clientVars == <<base, work, sync, undo>>
serverVars == <<server, draft, session, unstamped, crossed>>
bounds == <<edits, faults>>
vars == <<base, work, sync, undo, server, draft, session, unstamped, crossed,
          net, answer, clock, made, edits, faults>>

-----------------------------------------------------------------------------
(* Collections.                                                            *)

Unsent == -1    \* the USN of what only this device has
NoGrave == -2   \* no row of table graves
Now == clock + 1

\* Cards and notes carry whole seconds, the collection milliseconds.
Secs(at) == at \div MsPerSec

Has(col, o) == col.rows[o] # NoRow
Empty(col) == \A o \in Cards : ~Has(col, o)
Counts(col) == <<Cardinality({o \in Cards : Has(col, o)}),
                 Cardinality({o \in Decks : Has(col, o)})>>

\* What a user sees of a collection: the rows and the configuration.
Content(col) ==
    [rows |-> [o \in Objects |-> IF Has(col, o) THEN col.rows[o].at ELSE 0],
     conf |-> col.conf]

\* The devices begin as copies of the server's file, each row present.
FirstCollection ==
    [mod |-> 1, scm |-> 0, usn |-> 1, conf |-> 0,
     rows |-> [o \in Objects |-> [at |-> 1, usn |-> 0]],
     graves |-> [o \in Objects |-> NoGrave]]

IsPending(usn, pending) == IF pending = Unsent THEN usn = Unsent ELSE usn >= pending

PendingRows(col, objs, pending) ==
    {o \in objs : Has(col, o) /\ IsPending(col.rows[o].usn, pending)}
PendingGraves(col, pending) == {o \in Objects : IsPending(col.graves[o], pending)}

SetUsn(rows, objs, usn) ==
    [o \in DOMAIN rows |-> IF o \in objs THEN [rows[o] EXCEPT !.usn = usn] ELSE rows[o]]

\* The primary key of table graves is the object: a second grave is ignored.
ApplyGraves(col, objs, usn) ==
    [col EXCEPT
        !.rows = [o \in Objects |-> IF o \in objs THEN NoRow ELSE @[o]],
        !.graves = [o \in Objects |-> IF o \in objs /\ @[o] = NoGrave THEN usn ELSE @[o]]]

Take(rows, entries, Proceed(_, _)) ==
    [o \in Objects |->
        IF o \in DOMAIN entries /\ (rows[o] = NoRow \/ Proceed(rows[o], entries[o]))
        THEN entries[o] ELSE rows[o]]

CardProceeds(pending, mine, entry) ==
    ~IsPending(mine.usn, pending) \/ Secs(mine.at) < Secs(entry.at)

\* Fault: the deck that arrives wins, even if older.
DeckAlwaysProceeds(mine, entry) == TRUE

DeckProceeds(mine, entry) == Secs(mine.at) <= Secs(entry.at)

MergeCards(col, entries, pending) ==
    [col EXCEPT !.rows = Take(@, entries, LAMBDA m, e : CardProceeds(pending, m, e))]

\* Fault: a configuration that was not sent replaces the one here.
ApplyChangesBlindly(col, changes) ==
    [col EXCEPT !.rows = Take(@, changes.decks, DeckProceeds), !.conf = changes.conf]

\* Decks first, then the configuration, which replaces the one here.
ApplyChanges(col, changes) ==
    [col EXCEPT !.rows = Take(@, changes.decks, DeckProceeds),
                !.conf = IF changes.conf = Unsent THEN @ ELSE changes.conf]

Entries(col, objs) == [o \in objs |-> col.rows[o]]
Changes(col, pending, newer) ==
    [decks |-> Entries(col, PendingRows(col, Decks, pending)),
     conf |-> IF newer THEN col.conf ELSE Unsent]

\* Some ids are popped for a chunk; the last chunk is the one not filled.
ChunksOf(ids) == {take \in SUBSET ids :
    Cardinality(take) = Min({ChunkSize, Cardinality(ids)})}
IsLast(take) == Cardinality(take) < ChunkSize

-----------------------------------------------------------------------------
(* Requests and answers.                                                   *)

Idle == [at |-> "idle", key |-> NoKey, usn |-> 0, newer |-> FALSE,
         held |-> {}, last |-> FALSE, clash |-> {}, differ |-> FALSE]
NoSession == [key |-> NoKey, usn |-> 0, client |-> 0, newer |-> FALSE, ids |-> {Unsent}]
NoRequest == [from |-> NoKey]

Message(c, op, key, body) == [from |-> c, op |-> op, key |-> key, body |-> body]

\* The request a device still waits on; the others are strays.
Live(m) == sync[m.from].at = m.op /\ sync[m.from].key = m.key
Requests(c) == {m \in net : m.from = c /\ Live(m)}
Strays == {m \in net : ~Live(m)}

AtRest(c) == sync[c].at = "idle"

\* Nothing will come any more: the request, the answer or the server is gone.
Hung(c) ==
    /\ sync[c].at \notin {"idle", "full"}
    /\ Requests(c) = {} /\ answer[c] = NoAnswer /\ unstamped.from # c

Ask(c, s, body) ==
    /\ sync' = [sync EXCEPT ![c] = s]
    /\ net' = net \cup {Message(c, s.at, s.key, body)}
    /\ answer' = [answer EXCEPT ![c] = NoAnswer]

Answer(m, a) ==
    /\ net' = net \ {m}
    /\ answer' = IF Live(m) THEN [answer EXCEPT ![m.from] = a] ELSE answer

SessionOps == {"graves", "changes", "chunk", "apply", "sanity", "finish"}

Conflict == [ok |-> FALSE]
Answered(c, op) == sync[c].at = op /\ answer[c] # NoAnswer /\ answer[c].ok

\* The session ends and the server's open transaction with it.
EndSession(col) == session' = NoSession /\ draft' = col

-----------------------------------------------------------------------------
Init ==
    /\ base = [c \in Clients |-> FirstCollection]
    /\ work = base
    /\ sync = [c \in Clients |-> Idle]
    /\ undo = [c \in Clients |-> NoAnswer]
    /\ server = FirstCollection /\ draft = server
    /\ session = NoSession /\ unstamped = NoRequest /\ crossed = FALSE
    /\ net = {} /\ answer = [c \in Clients |-> NoAnswer]
    /\ clock = 1 /\ made = <<>> /\ edits = 0 /\ faults = 0

-----------------------------------------------------------------------------
(* The user, between syncs: the sync holds the collection while it runs.   *)

Edit(c, col) ==
    /\ sync[c].at = "idle" /\ edits < MaxEdits
    /\ base' = [base EXCEPT ![c] = col] /\ work' = [work EXCEPT ![c] = base'[c]]
    /\ edits' = edits + 1
    /\ UNCHANGED <<sync, serverVars, net, answer, made, faults>>

\* Fault: the collection's modification time is left alone.
TouchedQuietly(col, o) == [col EXCEPT !.rows[o] = [at |-> Now, usn |-> Unsent]]
Touched(col, o) ==
    [col EXCEPT !.rows[o] = [at |-> Now, usn |-> Unsent], !.mod = Now]

\* An undoable change keeps what its undo will restore.
Write(c, o) ==
    /\ "write" \in Edits /\ Has(base[c], o)
    /\ Edit(c, Touched(base[c], o))
    /\ undo' = [undo EXCEPT ![c] = base[c]] /\ clock' = Now

Remove(c, o) ==
    /\ "remove" \in Edits /\ Has(base[c], o)
    /\ Edit(c, [ApplyGraves(base[c], {o}, Unsent) EXCEPT !.mod = Now])
    /\ undo' = [undo EXCEPT ![c] = base[c]] /\ clock' = Now

\* An imported package brings a removed object back under its old id; the
\* grave stays.
Readd(c, o) ==
    /\ "readd" \in Edits /\ ~Has(base[c], o)
    /\ Edit(c, Touched(base[c], o))
    /\ undo' = [undo EXCEPT ![c] = base[c]] /\ clock' = Now

\* Most configuration is written with Op::SkipUndo: the undo queue stays.
WriteConf(c) ==
    /\ "conf" \in Edits
    /\ Edit(c, [base[c] EXCEPT !.conf = Now, !.mod = Now])
    /\ UNCHANGED undo /\ clock' = Now

\* Undoing restores the rows and the collection's modification time, not the
\* configuration written since; a row that comes back loses its grave.
Undo(c) ==
    LET now == base[c]
        then == undo[c]
        back == {o \in Objects : Has(then, o) /\ ~Has(now, o)}
    IN  /\ "undo" \in Edits /\ then # NoAnswer
        /\ Edit(c, [now EXCEPT
              !.rows = then.rows, !.mod = then.mod,
              !.graves = [o \in Objects |-> IF o \in back THEN NoGrave ELSE @[o]]])
        /\ undo' = [undo EXCEPT ![c] = NoAnswer] /\ UNCHANGED clock

ChangeSchema(c) ==
    /\ "schema" \in Edits
    /\ Edit(c, [base[c] EXCEPT !.scm = Now, !.mod = Now])
    /\ undo' = [undo EXCEPT ![c] = NoAnswer] /\ clock' = Now

-----------------------------------------------------------------------------
(* The device: each action takes an answer and asks the next request.      *)

\* Keys no sync, session or message has; the bound MaxStray leaves one.
FreshKeys == {k \in Keys :
    /\ k # session.key
    /\ \A c \in Clients : sync[c].key # k
    /\ \A m \in net : m.key # k}
FreshKey == CHOOSE k \in FreshKeys : TRUE

\* A sync while no other runs is free, if this device and the server have
\* different times and some device has still to send or to be sent something.
\* Any other counts as a fault, to bound them: every sync moves the server's
\* time, so that the next sync of each other device is a normal one, for ever.
ToSend(c) == PendingRows(base[c], Objects, Unsent) \cup PendingGraves(base[c], Unsent)
Differs(c) ==
    \/ Content(base[c]) # Content(server) \/ base[c].scm # server.scm
    \/ ToSend(c) # {}
HasWork(c) == base[c].mod # server.mod /\ \E d \in Clients : Differs(d)

Begin(c) ==
    /\ AtRest(c) /\ FreshKeys # {}
    /\ IF HasWork(c) /\ ~crossed /\ \A d \in Clients : AtRest(d)
       THEN UNCHANGED faults
       ELSE faults < MaxFaults /\ faults' = faults + 1
    /\ Ask(c, [Idle EXCEPT !.at = "meta", !.key = FreshKey], {})
    /\ UNCHANGED <<base, work, undo, serverVars, clock, made, edits>>

Finished(c) ==
    /\ sync' = [sync EXCEPT ![c] = Idle]
    /\ answer' = [answer EXCEPT ![c] = NoAnswer]

\* Equal modification times mean equal collections.
GotSameMeta(c) ==
    /\ Answered(c, "meta") /\ answer[c].mod = base[c].mod
    /\ Finished(c)
    /\ UNCHANGED <<base, work, undo, serverVars, net, clock, made, bounds>>

\* The user is asked which side to keep.
GotOtherSchema(c) ==
    LET remote == answer[c]
        local == base[c]
        may == {w \in {"upload", "download"} :
                  IF w = "upload" THEN ~Empty(local) \/ remote.empty
                                  ELSE ~remote.empty \/ Empty(local)}
    IN  /\ Answered(c, "meta") /\ remote.mod # local.mod /\ remote.scm # local.scm
        /\ sync' = [sync EXCEPT ![c].at = "full", ![c].held = may]
        /\ answer' = [answer EXCEPT ![c] = NoAnswer]
        /\ UNCHANGED <<base, work, undo, serverVars, net, clock, made, bounds>>

\* A transaction begins; the undo queue is discarded.
GotMeta(c) ==
    LET remote == answer[c]
        local == base[c]
        s == [sync[c] EXCEPT !.at = "start", !.usn = remote.usn,
                             !.newer = local.mod > remote.mod]
    IN  /\ Answered(c, "meta") /\ remote.mod # local.mod /\ remote.scm = local.scm
        /\ Ask(c, s, [usn |-> local.usn, newer |-> s.newer])
        /\ undo' = [undo EXCEPT ![c] = NoAnswer]
        /\ UNCHANGED <<base, work, serverVars, clock, made, bounds>>

\* Remote graves are applied, then the local changes are gathered and sent.
SendChanges(c, col, remoteGraves) ==
    LET s == sync[c]
        buried == ApplyGraves(col, remoteGraves, s.usn)
        mine == PendingRows(buried, Decks, Unsent)
        sent == [buried EXCEPT !.rows = SetUsn(@, mine, s.usn)]
    IN  /\ work' = [work EXCEPT ![c] = sent]
        /\ Ask(c, [s EXCEPT !.at = "changes", !.held = {}],
               [decks |-> Entries(sent, mine),
                conf |-> IF s.newer THEN sent.conf ELSE Unsent])

GotStart(c) ==
    LET s == sync[c]
        mine == PendingGraves(work[c], Unsent)
        marked == [work[c] EXCEPT
            !.graves = [o \in Objects |-> IF o \in mine THEN s.usn ELSE @[o]]]
    IN  /\ Answered(c, "start")
        /\ IF mine = {}
           THEN SendChanges(c, marked, answer[c].graves)
           ELSE /\ work' = [work EXCEPT ![c] = marked]
                /\ Ask(c, [s EXCEPT !.at = "graves", !.held = answer[c].graves], mine)
        /\ UNCHANGED <<base, undo, serverVars, clock, made, bounds>>

GotGraves(c) ==
    /\ Answered(c, "graves")
    /\ SendChanges(c, work[c], sync[c].held)
    /\ UNCHANGED <<base, undo, serverVars, clock, made, bounds>>

GotChanges(c) ==
    /\ Answered(c, "changes")
    /\ work' = [work EXCEPT ![c] = ApplyChanges(@, answer[c].changes)]
    /\ Ask(c, [sync[c] EXCEPT !.at = "chunk"], {})
    /\ UNCHANGED <<base, undo, serverVars, clock, made, bounds>>

\* The next chunk of the ids still to send; their rows lose the mark.
SendChunk(c, col, ids) ==
    \E take \in ChunksOf(ids) :
        LET marked == [col EXCEPT !.rows = SetUsn(@, take, sync[c].usn)]
        IN  /\ work' = [work EXCEPT ![c] = marked]
            /\ Ask(c, [sync[c] EXCEPT !.at = "apply", !.held = ids \ take,
                                      !.last = IsLast(take), !.clash = {}],
                   Entries(marked, take))

\* The rows a sync makes anew, with another FSRS state, are new local changes.
Reconciled(col, cards) ==
    [col EXCEPT !.rows = [o \in Objects |->
        IF o \in cards THEN [at |-> Now, usn |-> Unsent] ELSE @[o]]]

\* The time of the user's change that a row holds, which is not the time of the
\* row if a sync has made it anew
Origin(o, at) == IF <<o, at>> \in DOMAIN made THEN made[<<o, at>>] ELSE at
Remade(col, cards) ==
    [p \in DOMAIN made \cup (cards \X {Now}) |->
        IF p \in cards \X {Now} THEN Origin(p[1], col.rows[p[1]].at) ELSE made[p]]

\* Any card here may be one that another client program wrote, and then its
\* state is made anew; so may be a card that both sides changed.  Which ones
\* depends on their data.  What another program wrote counts as an edit.
MakeAnew(col, cards, clash) ==
    /\ clock' = IF cards = {} THEN clock ELSE Now
    /\ made' = Remade(col, cards)
    /\ IF cards \subseteq clash THEN UNCHANGED edits
                                ELSE edits < MaxEdits /\ edits' = edits + 1

Clashes(c) == sync[c].clash \cup
    {o \in DOMAIN answer[c].cards :
        Has(work[c], o) /\ IsPending(work[c].rows[o].usn, Unsent)}

\* Fault: what to send is gathered before the cards are made anew.
GotChunkGathering(c) ==
    LET merged == MergeCards(work[c], answer[c].cards, Unsent)
    IN  /\ Answered(c, "chunk")
        /\ IF ~answer[c].last
           THEN /\ work' = [work EXCEPT ![c] = merged]
                /\ Ask(c, [sync[c] EXCEPT !.clash = Clashes(c)], {})
                /\ UNCHANGED <<clock, made, edits>>
           ELSE \E cards \in SUBSET {o \in Cards : Has(merged, o)} :
                LET col == Reconciled(merged, cards)
                IN  /\ SendChunk(c, col, PendingRows(merged, Cards, Unsent))
                    /\ MakeAnew(merged, cards, Clashes(c))
        /\ UNCHANGED <<base, undo, serverVars, faults>>

GotChunk(c) ==
    LET merged == MergeCards(work[c], answer[c].cards, Unsent)
    IN  /\ Answered(c, "chunk")
        /\ IF ~answer[c].last
           THEN /\ work' = [work EXCEPT ![c] = merged]
                /\ Ask(c, [sync[c] EXCEPT !.clash = Clashes(c)], {})
                /\ UNCHANGED <<clock, made, edits>>
           ELSE \E cards \in SUBSET {o \in Cards : Has(merged, o)} :
                LET col == Reconciled(merged, cards)
                IN  /\ SendChunk(c, col, PendingRows(col, Cards, Unsent))
                    /\ MakeAnew(merged, cards, Clashes(c))
        /\ UNCHANGED <<base, undo, serverVars, faults>>

GotApply(c) ==
    /\ Answered(c, "apply")
    /\ IF sync[c].last
       THEN /\ Ask(c, [sync[c] EXCEPT !.at = "sanity"], Counts(work[c]))
            /\ UNCHANGED work
       ELSE SendChunk(c, work[c], sync[c].held)
    /\ UNCHANGED <<base, undo, serverVars, clock, made, bounds>>

GotSanity(c) ==
    /\ Answered(c, "sanity") /\ answer[c].agrees
    /\ Ask(c, [sync[c] EXCEPT !.at = "finish"], {})
    /\ UNCHANGED <<base, work, undo, serverVars, clock, made, bounds>>

GotFinish(c) ==
    /\ Answered(c, "finish")
    /\ base' = [base EXCEPT ![c] =
          [work[c] EXCEPT !.mod = answer[c].mod, !.usn = sync[c].usn + 1]]
    /\ work' = [work EXCEPT ![c] = base'[c]]
    /\ Finished(c)
    /\ UNCHANGED <<undo, serverVars, net, clock, made, bounds>>

-----------------------------------------------------------------------------
(* Syncs that fail: the device rolls back, and tells the server.           *)

InTransaction(c) == sync[c].at \in {"start"} \cup SessionOps

\* The transaction is rolled back and abort sent; others just end.  What the
\* server sends later, to a request that is still under way, finds no one.
RollBack(c, differ, late) ==
    /\ work' = [work EXCEPT ![c] = base'[c]]
    /\ answer' = [answer EXCEPT ![c] = NoAnswer]
    /\ LET stay == IF late THEN net ELSE net \ Requests(c)
           s == [Idle EXCEPT !.at = "abort", !.key = sync[c].key, !.differ = differ]
       IN  IF InTransaction(c)
           THEN sync' = [sync EXCEPT ![c] = s]
                /\ net' = stay \cup {Message(c, "abort", s.key, {})}
           ELSE sync' = [sync EXCEPT ![c] = Idle] /\ net' = stay

\* Once the server has been told, or cannot be: if the counts differed, the next
\* sync must be a one-way sync.
MarkSchema(c) ==
    IF sync[c].differ THEN base' = [base EXCEPT ![c].scm = Now] /\ clock' = Now
                      ELSE UNCHANGED <<base, clock>>

\* The request gets no answer: it is lost, or late.
Timeout(c) ==
    /\ sync[c].at \notin {"idle", "full"} /\ answer[c] = NoAnswer
    /\ IF Hung(c) THEN UNCHANGED faults
                  ELSE faults < MaxFaults /\ faults' = faults + 1
    /\ MarkSchema(c)
    /\ \E late \in BOOLEAN :
          /\ late => Requests(c) # {} /\ Cardinality(Strays) < MaxStray
          /\ RollBack(c, FALSE, late)
    /\ UNCHANGED <<undo, serverVars, made, edits>>

\* The user stops the sync: the device is free at once, and a thread of its
\* own tells the server, from a session of its own.  A one-way sync just ends.
Interrupt(c) ==
    /\ sync[c].at \notin {"idle", "full"}
    /\ faults < MaxFaults /\ faults' = faults + 1
    /\ Cardinality(Strays) < MaxStray
    /\ \E late \in BOOLEAN :
          net' = (IF late THEN net ELSE net \ Requests(c)) \cup
                 IF sync[c].at \in {"upload", "download"} THEN {}
                 ELSE {Message(c, "abort", NoKey, {})}
    /\ work' = [work EXCEPT ![c] = base[c]]
    /\ Finished(c)
    /\ UNCHANGED <<base, undo, serverVars, clock, made, edits>>

\* The server refused a request: it knows no sync, or not this one.
GotConflict(c) ==
    /\ answer[c] = Conflict
    /\ MarkSchema(c) /\ RollBack(c, FALSE, FALSE)
    /\ UNCHANGED <<undo, serverVars, made, bounds>>

\* Fault: the schema will stay, and normal syncs go on failing.
GotMismatchInVain(c) ==
    /\ Answered(c, "sanity") /\ ~answer[c].agrees
    /\ MarkSchema(c) /\ RollBack(c, FALSE, FALSE)
    /\ UNCHANGED <<undo, serverVars, made, bounds>>

\* The counts differ.
GotMismatch(c) ==
    /\ Answered(c, "sanity") /\ ~answer[c].agrees
    /\ MarkSchema(c) /\ RollBack(c, TRUE, FALSE)
    /\ UNCHANGED <<undo, serverVars, made, bounds>>

GotAbort(c) ==
    /\ Answered(c, "abort")
    /\ MarkSchema(c) /\ work' = [work EXCEPT ![c] = base'[c]]
    /\ Finished(c)
    /\ UNCHANGED <<undo, serverVars, net, made, bounds>>

-----------------------------------------------------------------------------
(* One-way syncs.                                                          *)

\* Marks and graves are cleared before the file leaves.  Where a download
\* would do, uploading is the user's choice, and counts as an edit.
Upload(c) ==
    LET old == base[c]
        file == [old EXCEPT
            !.rows = SetUsn(@, PendingRows(old, Objects, Unsent), 0),
            !.graves = [o \in Objects |-> NoGrave],
            !.usn = @ + 1, !.scm = Now, !.mod = Now]
    IN  /\ sync[c].at = "full" /\ "upload" \in sync[c].held
        /\ IF "download" \in sync[c].held
           THEN edits < MaxEdits /\ edits' = edits + 1 ELSE UNCHANGED edits
        /\ base' = [base EXCEPT ![c] = file] /\ work' = [work EXCEPT ![c] = base'[c]]
        /\ Ask(c, [sync[c] EXCEPT !.at = "upload"], file)
        /\ undo' = [undo EXCEPT ![c] = NoAnswer] /\ clock' = Now
        /\ UNCHANGED <<serverVars, made, faults>>

Download(c) ==
    /\ sync[c].at = "full" /\ "download" \in sync[c].held
    /\ Ask(c, [sync[c] EXCEPT !.at = "download"], {})
    /\ undo' = [undo EXCEPT ![c] = NoAnswer]
    /\ UNCHANGED <<base, work, serverVars, clock, made, bounds>>

GotUpload(c) ==
    /\ Answered(c, "upload") /\ Finished(c)
    /\ UNCHANGED <<base, work, undo, serverVars, net, clock, made, bounds>>

GotDownload(c) ==
    /\ Answered(c, "download")
    /\ base' = [base EXCEPT ![c] = answer[c].file] /\ work' = [work EXCEPT ![c] = base'[c]]
    /\ Finished(c)
    /\ UNCHANGED <<undo, serverVars, net, clock, made, bounds>>

-----------------------------------------------------------------------------
(* The server: one request at a time, under the lock of its state.         *)

InSession(m) == session.key = m.key
Serving(m, op) == m \in net /\ m.op = op /\ unstamped = NoRequest

ServeMeta(m) ==
    /\ Serving(m, "meta")
    /\ EndSession(server)
    /\ Answer(m, [ok |-> TRUE, mod |-> server.mod, scm |-> server.scm,
                  usn |-> server.usn, empty |-> Empty(server)])
    /\ UNCHANGED <<clientVars, crossed, server, unstamped, clock, made, bounds>>

\* Another device has finished a sync since this one asked for meta.
Overtaken(c) == sync[c].usn # server.usn \/ base[c].scm # server.scm

\* Fault: only the deletions of the server's last sync are sent.
ServeStartLate(m) ==
    /\ Serving(m, "start")
    /\ session' = [NoSession EXCEPT !.key = m.key, !.usn = server.usn,
                       !.client = m.body.usn, !.newer = m.body.newer]
    /\ draft' = server
    /\ crossed' = (crossed \/ (Live(m) /\ Overtaken(m.from)))
    /\ Answer(m, [ok |-> TRUE, graves |-> PendingGraves(server, server.usn)])
    /\ UNCHANGED <<clientVars, server, unstamped, clock, made, bounds>>

ServeStart(m) ==
    /\ Serving(m, "start")
    /\ session' = [NoSession EXCEPT !.key = m.key, !.usn = server.usn,
                       !.client = m.body.usn, !.newer = m.body.newer]
    /\ draft' = server
    /\ crossed' = (crossed \/ (Live(m) /\ Overtaken(m.from)))
    /\ Answer(m, [ok |-> TRUE, graves |-> PendingGraves(server, m.body.usn)])
    /\ UNCHANGED <<clientVars, server, unstamped, clock, made, bounds>>

ServeGraves(m) ==
    /\ Serving(m, "graves") /\ InSession(m)
    /\ draft' = ApplyGraves(draft, m.body, session.usn)
    /\ Answer(m, [ok |-> TRUE])
    /\ UNCHANGED <<clientVars, crossed, server, session, unstamped, clock, made, bounds>>

\* The server's own changes are gathered before the device's are applied.
ServeChanges(m) ==
    /\ Serving(m, "changes") /\ InSession(m)
    /\ Answer(m, [ok |-> TRUE,
                  changes |-> Changes(draft, session.client, ~session.newer)])
    /\ draft' = ApplyChanges(draft, m.body)
    /\ UNCHANGED <<clientVars, crossed, server, session, unstamped, clock, made, bounds>>

\* The ids to send are gathered at the first call.
ServeChunk(m) ==
    LET ids == IF session.ids = {Unsent}
               THEN PendingRows(draft, Cards, session.client) ELSE session.ids
    IN  /\ Serving(m, "chunk") /\ InSession(m)
        /\ \E take \in ChunksOf(ids) :
             /\ session' = [session EXCEPT !.ids = ids \ take]
             /\ Answer(m, [ok |-> TRUE, cards |-> Entries(draft, take),
                           last |-> IsLast(take)])
        /\ UNCHANGED <<clientVars, crossed, server, draft, unstamped, clock, made, bounds>>

ServeApply(m) ==
    /\ Serving(m, "apply") /\ InSession(m)
    /\ draft' = MergeCards(draft, m.body, session.client)
    /\ Answer(m, [ok |-> TRUE])
    /\ UNCHANGED <<clientVars, crossed, server, session, unstamped, clock, made, bounds>>

\* Counts that differ roll the server back at once; the key is kept.
ServeSanity(m) ==
    LET agrees == m.body = Counts(draft)
    IN  /\ Serving(m, "sanity") /\ InSession(m)
        /\ draft' = IF agrees THEN draft ELSE server
        /\ Answer(m, [ok |-> TRUE, agrees |-> agrees])
        /\ UNCHANGED <<clientVars, crossed, server, session, unstamped, clock, made, bounds>>

\* Fault: the server's number is not moved.
ServeFinishStill(m) ==
    /\ Serving(m, "finish") /\ InSession(m)
    /\ server' = draft /\ draft' = server'
    /\ unstamped' = m /\ net' = net \ {m}
    /\ UNCHANGED <<clientVars, crossed, session, answer, clock, made, bounds>>

\* The commit, and only then the modification time.
ServeFinish(m) ==
    /\ Serving(m, "finish") /\ InSession(m)
    /\ server' = [draft EXCEPT !.usn = @ + 1] /\ draft' = server'
    /\ unstamped' = m /\ net' = net \ {m}
    /\ UNCHANGED <<clientVars, crossed, session, answer, clock, made, bounds>>

Stamp ==
    /\ unstamped # NoRequest /\ unstamped' = NoRequest
    /\ server' = [server EXCEPT !.mod = Now] /\ clock' = Now
    /\ EndSession(server')
    /\ Answer(unstamped, [ok |-> TRUE, mod |-> Now])
    /\ UNCHANGED <<clientVars, crossed, made, bounds>>

\* No sync, or one with another key.
Refuse(m) ==
    /\ \E op \in SessionOps : Serving(m, op)
    /\ ~InSession(m)
    /\ Answer(m, Conflict)
    /\ UNCHANGED <<clientVars, serverVars, clock, made, bounds>>

\* Ends whichever sync is active.
ServeAbort(m) ==
    /\ Serving(m, "abort")
    /\ EndSession(server)
    /\ Answer(m, [ok |-> TRUE])
    /\ UNCHANGED <<clientVars, crossed, server, unstamped, clock, made, bounds>>

ServeUpload(m) ==
    /\ Serving(m, "upload")
    /\ server' = m.body
    /\ EndSession(server')
    /\ Answer(m, [ok |-> TRUE])
    /\ UNCHANGED <<clientVars, crossed, unstamped, clock, made, bounds>>

\* The number and the time move before the file is read.
ServeDownload(m) ==
    /\ Serving(m, "download")
    /\ server' = [server EXCEPT !.usn = @ + 1, !.mod = Now] /\ clock' = Now
    /\ EndSession(server')
    /\ Answer(m, [ok |-> TRUE, file |-> server'])
    /\ UNCHANGED <<clientVars, crossed, unstamped, made, bounds>>

\* The server stops; its open transaction and its sessions are gone.
Crash ==
    /\ faults < MaxFaults /\ faults' = faults + 1
    /\ IF unstamped = NoRequest
       THEN "session" \in Crashes /\ session # NoSession
       ELSE "unstamped" \in Crashes
    /\ EndSession(server)
    /\ unstamped' = NoRequest
    /\ UNCHANGED <<clientVars, crossed, server, net, answer, clock, made, edits>>

Serve(m) ==
    \/ ServeMeta(m) \/ ServeStart(m) \/ ServeGraves(m) \/ ServeChanges(m)
    \/ ServeChunk(m) \/ ServeApply(m) \/ ServeSanity(m) \/ ServeFinish(m)
    \/ Refuse(m) \/ ServeAbort(m) \/ ServeUpload(m) \/ ServeDownload(m)

Device(c) ==
    \/ GotSameMeta(c) \/ GotOtherSchema(c) \/ GotMeta(c) \/ GotStart(c)
    \/ GotGraves(c) \/ GotChanges(c) \/ GotChunk(c) \/ GotApply(c)
    \/ GotSanity(c) \/ GotFinish(c) \/ GotConflict(c) \/ GotMismatch(c)
    \/ GotUpload(c) \/ GotDownload(c) \/ GotAbort(c)

User(c) ==
    \/ \E o \in Objects : Write(c, o) \/ Remove(c, o) \/ Readd(c, o)
    \/ WriteConf(c) \/ Undo(c) \/ ChangeSchema(c)

Next ==
    \/ \E c \in Clients : User(c) \/ Begin(c) \/ Device(c) \/ Timeout(c) \/ Interrupt(c)
                          \/ Upload(c) \/ Download(c)
    \/ \E m \in net : Serve(m)
    \/ Stamp \/ Crash

Spec == Init /\ [][Next]_vars

\* Devices sync again while there is something to sync (when the program opens
\* and closes), go on with what they are told, time out when nothing will
\* come, and choose a side; the server serves what waits.
Fairness ==
    /\ \A c \in Clients :
        /\ WF_vars(Begin(c)) /\ WF_vars(Device(c))
        /\ WF_vars(Hung(c) /\ Timeout(c))
        /\ WF_vars(Download(c) \/ Upload(c))
        /\ WF_vars(\E m \in Requests(c) : Serve(m))
    /\ WF_vars(Stamp)

FairSpec == Spec /\ Fairness

DeviceSymmetry == Permutations(Clients)

-----------------------------------------------------------------------------
(* Properties.  `crossed' excuses those about both sides: once a session     *)
(* begins on a server another device has changed since the meta request, the *)
(* device stamps its rows with a USN that others have already been served.   *)

\* Collections hold rows with whole stamps and a configuration that is a time, and
\* in the server's collection no row or grave is marked as one the server lacks.
\* (A row's USN may be above the server's: an upload sets the server's back.)
TypeOK ==
    /\ \A col \in {base[c] : c \in Clients} \cup {work[c] : c \in Clients} \cup {server, draft} :
        /\ {col.mod, col.scm, col.conf} \subseteq 0..clock /\ col.usn \in Nat
        /\ \A o \in Objects :
             /\ Has(col, o) => col.rows[o].at \in 1..clock /\ col.rows[o].usn \in Nat \cup {Unsent}
             /\ col.graves[o] \in Nat \cup {NoGrave, Unsent}
    /\ \A col \in {server, draft} :
        PendingRows(col, Objects, Unsent) = {} /\ PendingGraves(col, Unsent) = {}

\* Equal modification times mean equal collections: a device at rest that has
\* the server's time, and so ends its syncs at meta, misses nothing.
SameStampSameContent == crossed \/
    \A c \in Clients : AtRest(c) /\ unstamped = NoRequest /\ base[c].mod = server.mod =>
        Content(base[c]) = Content(server)

\* Normal syncs never lead both sides to different counts: a one-way sync,
\* which throws one side's changes away, is never forced on the user.
CountsNeverDiffer == \A c \in Clients : Answered(c, "sanity") => answer[c].agrees

\* When the device counts its rows it has sent all it had to send, what the merge
\* and the reconciliation of cards made anew included: the count fails, and each
\* sync after it, if a row or a grave is still marked (storage/sync_check.rs 26-43).
NothingLeftUnsent == \A c \in Clients : sync[c].at \in {"sanity", "finish"} =>
    PendingRows(work[c], Objects, Unsent) \cup PendingGraves(work[c], Unsent) = {}

\* When the server commits a sync that the device still waits for, both have
\* merged to the same rows and configuration, each by its own rules, and no
\* row is older than it was on either side.
AgreeAtCommit ==
    [][\A m \in net : unstamped' = m /\ Live(m) /\ ~crossed =>
         /\ Content(server') = Content(work[m.from])
         /\ \A o \in Objects, col \in {server, base[m.from]} :
              Has(server', o) /\ Has(col, o) => server'.rows[o].at >= col.rows[o].at]_vars

\* The sync implements SharedCollection: meetings lose no change, also when
\* the answer to finish never arrives or the server stops in a session.  A card
\* that a sync made anew stands for the user's change it was made from.
Rows(col) == [o \in Objects |-> IF Has(col, o) THEN Origin(o, col.rows[o].at) ELSE 0]
HasCommitted(c) == sync[c].at = "finish" /\ (unstamped.from = c \/ Answered(c, "finish"))
ToBeSent(c) == PendingRows(server, Objects, base[c].usn) \cup PendingGraves(server, base[c].usn)

Shared == INSTANCE SharedCollection WITH
    Nothing <- NoAnswer,
    shared <- Rows(server),
    replica <- [c \in Clients |-> Rows(base[c])],
    dirty <- [c \in Clients |-> ToSend(c)],
    stale <- [c \in Clients |-> ToBeSent(c)],
    held <- [c \in Clients |-> IF HasCommitted(c) THEN Rows(work[c]) ELSE NoAnswer],
    broken <- crossed

SharedSpec == Shared!Init /\ [][UNCHANGED Shared!vars \/ Shared!Next]_(Shared!vars)

\* Every device comes to rest with the server's content, whatever stopped in
\* between, be it the server after its commit; counts that differ are mended
\* by a one-way sync.
Converges ==
    <>[](crossed \/ \A c \in Clients : AtRest(c) /\ Content(base[c]) = Content(server))
=============================================================================
