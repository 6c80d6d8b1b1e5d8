------------------------ MODULE BackendThreadsProofs ------------------------
(***************************************************************************)
(* The locks and handles of the backend, for any threads, any calls and    *)
(* any number of them.                                                     *)
(*                                                                         *)
(* Where a thread is tells what it holds (Owners) and which call it makes  *)
(* (Routes): both are needed of the other threads whenever one takes a     *)
(* lock.  The rest follows the handle of the media sync from the thread    *)
(* that starts it to the one that clears it (Handle), and a backup from    *)
(* the thread that began it to the one that waits for it (Written).        *)
(***************************************************************************)
EXTENDS BackendThreads, FiniteSetTheorems, TLAPS

Places == {"idle", "at once", "wait", "lock", "part", "partLock", "partLockLate", "in",
           "quiet", "loop", "nap", "register", "unregister", "task", "slot", "spawn",
           "fullRun", "takeBackup", "takeBackup2", "joinBackup", "joinBackup2", "waitBackup"}
MediaPlaces == {"none", "spawned", "run", "busy", "ending", "leaving", "finished"}
Counters == [call : Calls \cup {None}, at : Places, left : Nat]

WithTask == {"slot", "spawn"}
WithBackup == {"joinBackup", "joinBackup2", "waitBackup"}

Types ==
    /\ pc \in [Threads -> Counters] /\ passed \in [Threads -> Nat]
    /\ media \in [at : MediaPlaces, told : BOOLEAN]
    /\ col \in {"open", "closed", "taken"}
    /\ slot \in BOOLEAN /\ want \in BOOLEAN /\ stored \in BOOLEAN /\ backups \in Nat
    /\ colLock \in Threads \cup {None} /\ taskLock \in Threads \cup {None}
    /\ backupLock \in Threads \cup {None} /\ syncAbort \in Threads \cup {None}

\* The place of a thread tells what it holds.
Owners ==
    /\ waiting = {t \in Threads : At(t, "wait")}
    /\ \A t \in Threads :
        /\ colLock = t <=> Inside(pc[t].call, pc[t].at)
        /\ taskLock = t <=> pc[t].at \in WithTask
        /\ backupLock = t <=> pc[t].at \in WithBackup

\* The place of a thread tells which call it makes.
Suits(t, c) ==
    /\ c.at # "idle" => c.call \in Does[t]
    /\ c.left > 0 => c.call = "read"
    /\ c.at \in {"part", "partLock", "partLockLate"} => c.call = "read"
    /\ c.at = "at once" => c.call \in {"abortMedia", "wantAbort", "abortSync", "mediaStatus"}
    /\ c.at = "wait" => c.call \in {"call", "sync"}
    /\ c.at = "register" => c.call \in {"sync", "login"}
    /\ c.at \in {"quiet", "loop", "nap"} => c.call \in {"close", "full"}
    /\ c.at = "fullRun" => c.call = "full"
    /\ c.at \in {"task", "slot", "spawn"} => c.call \in {"media", "sync", "full"}

Routes == \A t \in Threads : Suits(t, pc[t])

\* The handle of a media sync is there from before its thread starts until
\* it has ended, and one that is being started is the only one.
Handle ==
    /\ taskLock # None => media.at = "none"
    /\ \A t \in Threads : At(t, "spawn") => slot
    /\ media.at \in {"spawned", "run", "busy", "ending"} => slot

\* A backup that is being written can be waited for, or somebody waits for it.
Written ==
    /\ backups <= 1
    /\ backups > 0 /\ ~stored => \E t \in Threads : At(t, "waitBackup")

Inv == Types /\ Owners /\ Routes /\ Handle /\ Written

-----------------------------------------------------------------------------
(* Steps of one thread *)

\* Thread t goes to place; the other threads stay where they are.
Moved(t, place) ==
    /\ pc' \in [Threads -> Counters]
    /\ pc'[t].at = place
    /\ \A u \in Threads \ {t} : pc'[u] = pc[u]

\* A lock that t has before or after a step.
Passes(lock, next, t, before, after) ==
    \/ before /\ after /\ next = lock
    \/ ~before /\ after /\ lock = None /\ next = t
    \/ before /\ ~after /\ next = None
    \/ ~before /\ ~after /\ next = lock

LEMMA GotoMoves ==
    ASSUME Types, NEW t \in Threads, NEW place \in Places, Goto(t, place)
    PROVE  Moved(t, place) /\ pc'[t].call = pc[t].call /\ pc'[t].left = pc[t].left
  BY DEF Types, Goto, Moved, Counters

LEMMA RestType == Rest \in Counters /\ Rest.at = "idle" /\ Rest.left = 0
  <1>1. "idle" \in Places BY DEF Places
  <1> QED BY <1>1 DEF Rest, Counters

LEMMA ReturnMoves ==
    ASSUME Types, NEW t \in Threads, Return(t)
    PROVE  Moved(t, "idle") /\ pc'[t].left = 0
  BY RestType DEF Types, Return, Moved

LEMMA OwnersMove ==
    ASSUME Types, Owners, NEW t \in Threads, NEW place \in Places, Moved(t, place),
           waiting' = IF place = "wait" THEN waiting \cup {t} ELSE waiting \ {t},
           Passes(colLock, colLock', t, Inside(pc[t].call, pc[t].at), Inside(pc'[t].call, place)),
           Passes(taskLock, taskLock', t, pc[t].at \in WithTask, place \in WithTask),
           Passes(backupLock, backupLock', t, pc[t].at \in WithBackup, place \in WithBackup)
    PROVE  Owners'
  <1>1. waiting' = {u \in Threads : At(u, "wait")}'
    BY DEF Owners, Moved, At
  <1>2. ASSUME NEW u \in Threads
        PROVE  /\ colLock' = u <=> Inside(pc'[u].call, pc'[u].at)
               /\ taskLock' = u <=> pc'[u].at \in WithTask
               /\ backupLock' = u <=> pc'[u].at \in WithBackup
    <2>1. None \notin Threads BY BackendAssumption
    <2>2. CASE u = t BY <2>1, <2>2 DEF Owners, Moved, Passes
    <2>3. CASE u # t BY <2>1, <2>3 DEF Owners, Moved, Passes
    <2> QED BY <2>2, <2>3
  <1> QED BY <1>1, <1>2 DEF Owners, WithTask, WithBackup

LEMMA RoutesMove ==
    ASSUME Routes, NEW t \in Threads, NEW place \in Places, Moved(t, place), Suits(t, pc'[t])
    PROVE  Routes'
  BY DEF Routes, Moved, Suits

\* A step that moves t from one place to another, and what it leaves alone.
LEMMA HandleKept ==
    ASSUME Handle, NEW t \in Threads, NEW place \in Places, Moved(t, place), place # "spawn",
           taskLock' = taskLock, slot' = slot, media'.at = media.at
    PROVE  Handle'
  BY DEF Handle, Moved, At

LEMMA WrittenKept ==
    ASSUME Written, NEW t \in Threads, NEW place \in Places, Moved(t, place),
           ~At(t, "waitBackup"), stored' = stored, backups' = backups
    PROVE  Written'
  BY DEF Written, Moved, At

\* A step that touches neither a media sync nor a backup.
LEMMA PlainStep ==
    ASSUME Inv, NEW t \in Threads, NEW place \in Places, Moved(t, place), Suits(t, pc'[t]),
           pc[t].at \notin WithTask \cup WithBackup, place \notin WithTask \cup WithBackup,
           waiting' = IF place = "wait" THEN waiting \cup {t} ELSE waiting \ {t},
           Passes(colLock, colLock', t, Inside(pc[t].call, pc[t].at), Inside(pc'[t].call, place)),
           passed' \in [Threads -> Nat], col' \in {"open", "closed", "taken"},
           media' \in [at : MediaPlaces, told : BOOLEAN], media'.at = media.at,
           want' \in BOOLEAN, syncAbort' \in Threads \cup {None},
           UNCHANGED <<taskLock, slot, backupLock, stored, backups>>
    PROVE  Inv'
  <1>1. Types' BY DEF Inv, Types, Moved, Passes
  <1>2. Owners' BY OwnersMove DEF Inv, Passes, WithTask, WithBackup
  <1>3. Routes' BY RoutesMove DEF Inv
  <1>4. Handle' BY DEF Inv, Handle, Moved, At, WithTask
  <1>5. Written' BY DEF Inv, Written, Moved, At, WithBackup
  <1> QED BY <1>1, <1>2, <1>3, <1>4, <1>5 DEF Inv

\* The handle of the media sync is used, or its thread goes on.
LEMMA MediaType ==
    ASSUME Types, NEW place \in MediaPlaces
    PROVE  /\ [media EXCEPT !.told = @ \/ slot] \in [at : MediaPlaces, told : BOOLEAN]
           /\ [media EXCEPT !.told = @ \/ slot].at = media.at
           /\ [media EXCEPT !.at = place] \in [at : MediaPlaces, told : BOOLEAN]
           /\ [media EXCEPT !.at = place].at = place
  <1>1. (media.told \/ slot) \in BOOLEAN OBVIOUS
  <1> QED BY <1>1 DEF Types

-----------------------------------------------------------------------------
LEMMA ThreadStepKeeps ==
    ASSUME Inv, NEW t \in Threads, ThreadStep(t)
    PROVE  Inv'
  <1> USE DEF At, Calling, Inside, WithTask, WithBackup, Passes, colVars, mediaVars, backupVars
  <1>t. Types /\ Routes /\ Owners /\ Suits(t, pc[t]) BY DEF Inv, Routes
  <1>p. \A u \in Threads : pc[u].at \in Places BY <1>t DEF Types, Counters
  <1>1. CASE AtOnce(t)
    <2>1. "idle" \in Places /\ "none" \in MediaPlaces BY DEF Places, MediaPlaces
    <2>2. Moved(t, "idle") /\ pc'[t].left = 0 BY <1>1, <1>t, ReturnMoves DEF AtOnce
    <2>3. Suits(t, pc'[t]) BY <2>2 DEF Moved, Suits
    <2>4. CASE media.at = "finished" /\ Calling(t, {"mediaStatus"})
      <3>1. media' = [media EXCEPT !.at = "none"] BY <1>1, <2>4 DEF AtOnce
      <3>2. UNCHANGED <<taskLock, slot, want, syncAbort, colVars, backupVars>> BY <1>1, <2>4 DEF AtOnce
      <3>3. Types' BY <2>1, <2>2, <3>1, <3>2, <1>t, MediaType DEF Types, Moved
      <3>4. Owners' BY <1>1, <2>1, <2>2, <3>2, <1>t, OwnersMove DEF AtOnce, Owners
      <3>5. Routes' BY <2>1, <2>2, <2>3, <1>t, RoutesMove
      <3>6. Handle' BY <2>1, <2>2, <3>1, <3>2, <1>t, MediaType DEF Inv, Handle, Moved
      <3>7. Written' BY <1>1, <2>1, <2>2, <3>2, WrittenKept DEF AtOnce, Inv
      <3> QED BY <3>3, <3>4, <3>5, <3>6, <3>7 DEF Inv
    <2>5. CASE ~(media.at = "finished" /\ Calling(t, {"mediaStatus"}))
      <3>1. /\ media' \in [at : MediaPlaces, told : BOOLEAN] /\ media'.at = media.at
            /\ want' \in BOOLEAN /\ syncAbort' \in Threads \cup {None}
            /\ UNCHANGED <<taskLock, slot>>
        BY <1>1, <2>5, <1>t, MediaType DEF AtOnce, Types, Suits
      <3> QED BY <1>1, <2>1, <2>2, <2>3, <3>1, <1>t, PlainStep DEF AtOnce, Types, Owners
    <2> QED BY <2>4, <2>5
  <1>2. CASE WithCol(t)
    <2>1. "in" \in Places BY DEF Places
    <2>2. Moved(t, "in") /\ pc'[t].call = pc[t].call /\ pc'[t].left = pc[t].left
      BY <1>2, <2>1, <1>t, GotoMoves DEF WithCol
    <2>s. Suits(t, pc'[t]) BY <1>2, <2>1, <2>2, <1>t DEF WithCol, Moved, Suits
    <2> QED BY <1>2, <2>1, <2>2, <2>s, <1>t, PlainStep DEF WithCol, Types, Owners
  <1>3. CASE LockCol(t)
    <2>1. "in" \in Places BY DEF Places
    <2>2. Moved(t, "in") /\ pc'[t].call = pc[t].call /\ pc'[t].left = pc[t].left
      BY <1>3, <2>1, <1>t, GotoMoves DEF LockCol
    <2>s. Suits(t, pc'[t]) BY <1>3, <2>1, <2>2, <1>t DEF LockCol, Moved, Suits
    <2> QED BY <1>3, <2>1, <2>2, <2>s, <1>t, PlainStep DEF LockCol, Types, Owners
  <1>7. CASE OpenCollection(t)
    <2>1. "idle" \in Places BY DEF Places
    <2>2. Moved(t, "idle") /\ pc'[t].left = 0 BY <1>7, <1>t, ReturnMoves DEF OpenCollection
    <2>s. Suits(t, pc'[t]) BY <1>7, <2>1, <2>2, <1>t DEF OpenCollection, Moved, Suits
    <2> QED BY <1>7, <2>1, <2>2, <2>s, <1>t, PlainStep DEF OpenCollection, Types, Owners
  <1>8. CASE CloseCollection(t)
    <2>1. "idle" \in Places BY DEF Places
    <2>2. Moved(t, "idle") /\ pc'[t].left = 0 BY <1>8, <1>t, ReturnMoves DEF CloseCollection
    <2>s. Suits(t, pc'[t]) BY <1>8, <2>1, <2>2, <1>t DEF CloseCollection, Moved, Suits
    <2> QED BY <1>8, <2>1, <2>2, <2>s, <1>t, PlainStep DEF CloseCollection, Types, Owners
  <1>11. CASE Nap(t)
    <2>1. "loop" \in Places BY DEF Places
    <2>2. Moved(t, "loop") /\ pc'[t].call = pc[t].call /\ pc'[t].left = pc[t].left
      BY <1>11, <2>1, <1>t, GotoMoves DEF Nap
    <2>s. Suits(t, pc'[t]) BY <1>11, <2>1, <2>2, <1>t DEF Nap, Moved, Suits
    <2> QED BY <1>11, <2>1, <2>2, <2>s, <1>t, PlainStep DEF Nap, Types, Owners
  <1>13. CASE Unregister(t)
    <2>1. "idle" \in Places BY DEF Places
    <2>2. Moved(t, "idle") /\ pc'[t].left = 0 BY <1>13, <1>t, ReturnMoves DEF Unregister
    <2>s. Suits(t, pc'[t]) BY <1>13, <2>1, <2>2, <1>t DEF Unregister, Moved, Suits
    <2> QED BY <1>13, <2>1, <2>2, <2>s, <1>t, PlainStep DEF Unregister, Types, Owners
  <1>4. CASE PartMayBegin(t)
    <2>1. PICK place \in {"partLock", "partLockLate"} : Goto(t, place) BY <1>4 DEF PartMayBegin
    <2>2. place \in Places BY DEF Places
    <2>3. Moved(t, place) /\ pc'[t].call = pc[t].call /\ pc'[t].left = pc[t].left
      BY <2>1, <2>2, <1>t, GotoMoves
    <2>s. Suits(t, pc'[t]) BY <1>4, <2>2, <2>3, <1>t DEF PartMayBegin, Moved, Suits
    <2> QED BY <1>4, <2>2, <2>3, <2>s, <1>t, PlainStep DEF PartMayBegin, Types, Owners
  <1>10. CASE SeeSlot(t)
    <2>1. PICK place \in {"nap", "lock"} : Goto(t, place) BY <1>10 DEF SeeSlot
    <2>2. place \in Places BY DEF Places
    <2>3. Moved(t, place) /\ pc'[t].call = pc[t].call /\ pc'[t].left = pc[t].left
      BY <2>1, <2>2, <1>t, GotoMoves
    <2>s. Suits(t, pc'[t]) BY <1>10, <2>2, <2>3, <1>t DEF SeeSlot, Moved, Suits
    <2> QED BY <1>10, <2>2, <2>3, <2>s, <1>t, PlainStep DEF SeeSlot, Types, Owners
  <1>5. CASE LockForPart(t)
    <2>1. "in" \in Places BY DEF Places
    <2>2. Moved(t, "in") /\ pc'[t].call = pc[t].call /\ pc'[t].left = pc[t].left
      BY <1>5, <2>1, <1>t, GotoMoves DEF LockForPart
    <2>3. passed' \in [Threads -> Nat] BY <1>5, <1>t DEF LockForPart, Types
    <2>s. Suits(t, pc'[t]) BY <1>5, <2>1, <2>2, <2>3, <1>t DEF LockForPart, Moved, Suits
    <2> QED BY <1>5, <2>1, <2>2, <2>3, <2>s, <1>t, PlainStep DEF LockForPart, Types, Owners
  <1>9. CASE AbortMedia(t)
    <2>1. "loop" \in Places BY DEF Places
    <2>2. Moved(t, "loop") /\ pc'[t].call = pc[t].call /\ pc'[t].left = pc[t].left
      BY <1>9, <2>1, <1>t, GotoMoves DEF AbortMedia
    <2>3. /\ media' \in [at : MediaPlaces, told : BOOLEAN] /\ media'.at = media.at
          /\ want' \in BOOLEAN
      BY <1>9, <1>t, MediaType DEF AbortMedia, Types
    <2>s. Suits(t, pc'[t]) BY <1>9, <2>1, <2>2, <2>3, <1>t DEF AbortMedia, Moved, Suits
    <2> QED BY <1>9, <2>1, <2>2, <2>3, <2>s, <1>t, PlainStep DEF AbortMedia, Types, Owners
  <1>12. CASE Register(t)
    <2>1. CASE pc[t].call = "sync"
      <3>1. "wait" \in Places BY DEF Places
      <3>2. Moved(t, "wait") /\ pc'[t].call = pc[t].call /\ pc'[t].left = pc[t].left
        BY <1>12, <2>1, <3>1, <1>t, GotoMoves DEF Register
      <3>3. passed' \in [Threads -> Nat] BY <1>12, <2>1, <1>t DEF Register, Types
      <3>s. Suits(t, pc'[t]) BY <1>12, <2>1, <3>1, <3>2, <3>3, <1>t DEF Register, Moved, Suits
      <3> QED BY <1>12, <2>1, <3>1, <3>2, <3>3, <3>s, <1>t, PlainStep DEF Register, Types, Owners
    <2>2. CASE pc[t].call # "sync"
      <3>1. "unregister" \in Places BY DEF Places
      <3>2. Moved(t, "unregister") /\ pc'[t].call = pc[t].call /\ pc'[t].left = pc[t].left
        BY <1>12, <2>2, <3>1, <1>t, GotoMoves DEF Register
      <3>s. Suits(t, pc'[t]) BY <1>12, <2>2, <3>1, <3>2, <1>t DEF Register, Moved, Suits
      <3>3. pc[t].call # "full" BY <1>12, <1>t DEF Register, Suits
      <3> QED BY <1>12, <2>2, <3>1, <3>2, <3>3, <3>s, <1>t, PlainStep DEF Register, Types, Owners
    <2> QED BY <2>1, <2>2
  <1>6. CASE Leave(t)
    <2>1. CASE pc[t].left > 1
      <3>1. "part" \in Places BY DEF Places
      <3>2. pc' = [pc EXCEPT ![t].at = "part", ![t].left = @ - 1] BY <1>6, <2>1 DEF Leave
      <3>3. pc[t].left \in Nat /\ pc[t].left - 1 \in Nat /\ pc[t] \in Counters
        BY <1>t, <2>1 DEF Types, Counters
      <3>4. Moved(t, "part") /\ pc'[t].call = pc[t].call
        BY <3>1, <3>2, <3>3, <1>t DEF Types, Moved, Counters
      <3>5. pc[t].call = "read"
        <4>1. pc[t].left > 0 BY <2>1, <3>3
        <4> QED BY <4>1, <1>t DEF Suits
      <3>s. Suits(t, pc'[t]) BY <1>6, <3>4, <3>5, <1>t DEF Leave, Moved, Suits
      <3> QED BY <1>6, <3>1, <3>4, <3>s, <1>t, PlainStep DEF Leave, Types, Owners
    <2>2. CASE ~(pc[t].left > 1)
      <3>1. "idle" \in Places BY DEF Places
      <3>2. Moved(t, "idle") /\ pc'[t].left = 0 BY <1>6, <2>2, <1>t, ReturnMoves DEF Leave
      <3>s. Suits(t, pc'[t]) BY <3>2 DEF Moved, Suits
      <3> QED BY <1>6, <3>1, <3>2, <3>s, <1>t, PlainStep DEF Leave, Types, Owners
    <2> QED BY <2>1, <2>2
  <1>14. CASE SyncEnds(t)
    <2>1. PICK place \in {"task", "unregister"} : Goto(t, place) BY <1>14 DEF SyncEnds
    <2>2. place \in Places BY DEF Places
    <2>3. Moved(t, place) /\ pc'[t].call = pc[t].call /\ pc'[t].left = pc[t].left
      BY <2>1, <2>2, <1>t, GotoMoves
    <2>s. Suits(t, pc'[t]) BY <1>14, <2>2, <2>3, <1>t DEF SyncEnds, Moved, Suits
    <2> QED BY <1>14, <2>2, <2>3, <2>s, <1>t, PlainStep DEF SyncEnds, Types, Owners
  <1>15. CASE FullSync(t)
    <2>1. CASE col = "open"
      <3>1. "fullRun" \in Places BY DEF Places
      <3>2. Moved(t, "fullRun") /\ pc'[t].call = pc[t].call /\ pc'[t].left = pc[t].left
        BY <1>15, <2>1, <3>1, <1>t, GotoMoves DEF FullSync
      <3>s. Suits(t, pc'[t]) BY <1>15, <3>2, <1>t DEF FullSync, Moved, Suits
      <3> QED BY <1>15, <2>1, <3>1, <3>2, <3>s, <1>t, PlainStep DEF FullSync, Types, Owners
    <2>2. CASE col # "open"
      <3>1. "idle" \in Places BY DEF Places
      <3>2. Moved(t, "idle") /\ pc'[t].left = 0 BY <1>15, <2>2, <1>t, ReturnMoves DEF FullSync
      <3>s. Suits(t, pc'[t]) BY <3>2 DEF Moved, Suits
      <3> QED BY <1>15, <2>2, <3>1, <3>2, <3>s, <1>t, PlainStep DEF FullSync, Types, Owners
    <2> QED BY <2>1, <2>2
  <1>16. CASE FullSyncEnds(t)
    <2>1. PICK place \in {"task", "unregister"} : Goto(t, place) BY <1>16 DEF FullSyncEnds
    <2>2. place \in Places BY DEF Places
    <2>3. Moved(t, place) /\ pc'[t].call = pc[t].call /\ pc'[t].left = pc[t].left
      BY <2>1, <2>2, <1>t, GotoMoves
    <2>s. Suits(t, pc'[t]) BY <1>16, <2>2, <2>3, <1>t DEF FullSyncEnds, Moved, Suits
    <2>4. pc[t].call = "full" BY <1>16, <1>t DEF FullSyncEnds, Suits
    <2> QED BY <1>16, <2>2, <2>3, <2>4, <2>s, <1>t, PlainStep DEF FullSyncEnds, Types, Owners
  <1>17. CASE TakeTask(t)
    <2>1. CASE media.at \in {"none", "finished"}
      <3>1. "slot" \in Places /\ "none" \in MediaPlaces BY DEF Places, MediaPlaces
      <3>2. Moved(t, "slot") /\ pc'[t].call = pc[t].call /\ pc'[t].left = pc[t].left
        BY <1>17, <2>1, <3>1, <1>t, GotoMoves DEF TakeTask
      <3>3. Types'
        <4>1. [at |-> "none", told |-> FALSE] \in [at : MediaPlaces, told : BOOLEAN] BY <3>1
        <4> QED BY <1>17, <2>1, <3>2, <4>1, <1>t DEF TakeTask, Types, Moved
      <3>4. Owners' BY <1>17, <2>1, <3>1, <3>2, <1>t, OwnersMove DEF TakeTask, Owners
      <3>5. Suits(t, pc'[t]) BY <1>17, <3>2, <1>t DEF TakeTask, Moved, Suits
      <3>6. Routes' BY <3>1, <3>2, <3>5, <1>t, RoutesMove
      <3>7. Handle' BY <1>17, <2>1, <3>2 DEF TakeTask, Inv, Handle, Moved
      <3>8. Written' BY <1>17, <2>1, <3>1, <3>2, WrittenKept DEF TakeTask, Inv
      <3> QED BY <3>3, <3>4, <3>6, <3>7, <3>8 DEF Inv
    <2>2. CASE media.at \notin {"none", "finished"} /\ pc[t].call = "media"
      <3>1. "idle" \in Places BY DEF Places
      <3>2. Moved(t, "idle") /\ pc'[t].left = 0
        BY <1>17, <2>2, <1>t, ReturnMoves DEF TakeTask, AfterTask
      <3>s. Suits(t, pc'[t]) BY <3>2 DEF Moved, Suits
      <3> QED BY <1>17, <2>2, <3>1, <3>2, <3>s, <1>t, PlainStep DEF TakeTask, Types, Owners
    <2>3. CASE media.at \notin {"none", "finished"} /\ pc[t].call # "media"
      <3>1. "unregister" \in Places BY DEF Places
      <3>2. Moved(t, "unregister") /\ pc'[t].call = pc[t].call /\ pc'[t].left = pc[t].left
        BY <1>17, <2>3, <3>1, <1>t, GotoMoves DEF TakeTask, AfterTask
      <3>s. Suits(t, pc'[t]) BY <1>17, <3>2, <1>t DEF TakeTask, Moved, Suits
      <3> QED BY <1>17, <2>3, <3>1, <3>2, <3>s, <1>t, PlainStep DEF TakeTask, Types, Owners
    <2> QED BY <2>1, <2>2, <2>3
  <1>18. CASE SetSlot(t)
    <2>1. "spawn" \in Places BY DEF Places
    <2>2. Moved(t, "spawn") /\ pc'[t].call = pc[t].call /\ pc'[t].left = pc[t].left
      BY <1>18, <2>1, <1>t, GotoMoves DEF SetSlot
    <2>3. Types' BY <1>18, <2>2, <1>t DEF SetSlot, Types, Moved
    <2>4. Owners' BY <1>18, <2>1, <2>2, <1>t, OwnersMove DEF SetSlot, Owners
    <2>5. Suits(t, pc'[t]) BY <1>18, <2>2, <1>t DEF SetSlot, Moved, Suits
    <2>6. Routes' BY <2>1, <2>2, <2>5, <1>t, RoutesMove
    <2>7. Handle' BY <1>18, <2>2 DEF SetSlot, Inv, Handle, Moved
    <2>8. Written' BY <1>18, <2>1, <2>2, WrittenKept DEF SetSlot, Inv
    <2> QED BY <2>3, <2>4, <2>6, <2>7, <2>8 DEF Inv
  <1>19. CASE Spawn(t)
    <2>1. \E place \in {"idle", "unregister"} :
             /\ Moved(t, place) /\ Suits(t, pc'[t])
             /\ IF place = "idle" THEN pc[t].call # "full" ELSE pc'[t].call = pc[t].call
      <3>1. "idle" \in Places /\ "unregister" \in Places BY DEF Places
      <3>2. CASE Return(t)
        <4>1. Moved(t, "idle") /\ pc'[t].left = 0 BY <3>2, <1>t, ReturnMoves
        <4>2. Suits(t, pc'[t]) BY <4>1 DEF Moved, Suits
        <4>3. pc[t].call # "full"
          <5>1. CASE pc[t].call = "full"
            <6>1. Goto(t, "unregister") BY <1>19, <5>1 DEF Spawn, AfterTask
            <6>2. Moved(t, "unregister") BY <3>1, <6>1, <1>t, GotoMoves
            <6> QED BY <4>1, <6>2 DEF Moved
          <5> QED BY <5>1
        <4> QED BY <4>1, <4>2, <4>3
      <3>3. CASE Goto(t, "unregister")
        <4>1. Moved(t, "unregister") /\ pc'[t].call = pc[t].call /\ pc'[t].left = pc[t].left
          BY <3>1, <3>3, <1>t, GotoMoves
        <4> QED BY <1>19, <4>1, <1>t DEF Spawn, Moved, Suits
      <3> QED BY <1>19, <3>2, <3>3 DEF Spawn, AfterTask
    <2>2. PICK place \in {"idle", "unregister"} :
             /\ Moved(t, place) /\ Suits(t, pc'[t])
             /\ IF place = "idle" THEN pc[t].call # "full" ELSE pc'[t].call = pc[t].call
      BY <2>1
    <2>3. place \in Places /\ "spawned" \in MediaPlaces BY DEF Places, MediaPlaces
    <2>4. Types' BY <1>19, <2>2, <2>3, <1>t, MediaType DEF Spawn, Types, Moved
    <2>5. Owners' BY <1>19, <2>2, <2>3, <1>t, OwnersMove DEF Spawn, Owners
    <2>6. Routes' BY <2>2, <2>3, <1>t, RoutesMove
    <2>7. Handle'
      <3>1. slot /\ slot' = slot /\ taskLock' = None /\ media'.at = "spawned"
        BY <1>19, <2>3, <1>t, MediaType DEF Spawn, Inv, Handle
      <3> QED BY <2>2, <3>1 DEF Inv, Handle, Moved
    <2>8. Written' BY <1>19, <2>2, <2>3, WrittenKept DEF Spawn, Inv
    <2> QED BY <2>4, <2>5, <2>6, <2>7, <2>8 DEF Inv
  <1>20. CASE GoToBackup(t)
    <2>1. CASE col = "open"
      <3>1. "takeBackup" \in Places BY DEF Places
      <3>2. Moved(t, "takeBackup") /\ pc'[t].call = pc[t].call /\ pc'[t].left = pc[t].left
        BY <1>20, <2>1, <3>1, <1>t, GotoMoves DEF GoToBackup
      <3>s. Suits(t, pc'[t]) BY <1>20, <3>2, <1>t DEF GoToBackup, Moved, Suits
      <3> QED BY <1>20, <2>1, <3>1, <3>2, <3>s, <1>t, PlainStep DEF GoToBackup, Types, Owners
    <2>2. CASE col # "open"
      <3>1. "idle" \in Places BY DEF Places
      <3>2. Moved(t, "idle") /\ pc'[t].left = 0 BY <1>20, <2>2, <1>t, ReturnMoves DEF GoToBackup
      <3>s. Suits(t, pc'[t]) BY <3>2 DEF Moved, Suits
      <3> QED BY <1>20, <2>2, <3>1, <3>2, <3>s, <1>t, PlainStep DEF GoToBackup, Types, Owners
    <2> QED BY <2>1, <2>2
  <1>21. CASE TakeBackupTask(t)
    <2>1. DEFINE place == IF At(t, "takeBackup") THEN "joinBackup" ELSE "joinBackup2"
    <2>2. place \in Places BY DEF Places
    <2>3. Moved(t, place) /\ pc'[t].call = pc[t].call /\ pc'[t].left = pc[t].left
      BY <1>21, <2>2, <1>t, GotoMoves DEF TakeBackupTask
    <2>4. Types' BY <1>21, <2>3, <1>t DEF TakeBackupTask, Types, Moved
    <2>5. Owners' BY <1>21, <2>2, <2>3, <1>t, OwnersMove DEF TakeBackupTask, Owners
    <2>6. Suits(t, pc'[t]) BY <1>21, <2>3, <1>t DEF TakeBackupTask, Moved, Suits
    <2>7. Routes' BY <2>2, <2>3, <2>6, <1>t, RoutesMove
    <2>8. Handle' BY <1>21, <2>2, <2>3, HandleKept DEF TakeBackupTask, Inv
    <2>9. Written' BY <1>21, <2>2, <2>3, WrittenKept DEF TakeBackupTask, Inv
    <2> QED BY <2>4, <2>5, <2>7, <2>8, <2>9 DEF Inv
  <1>22. CASE StartBackup(t)
    <2>1. ~\E u \in Threads : At(u, "waitBackup")
      <3>1. backupLock = t BY <1>22, <1>t DEF StartBackup, Owners
      <3> QED BY <1>22, <3>1, <1>t DEF StartBackup, Owners
    <2>2. backups = 0 BY <1>22, <2>1, <1>t DEF StartBackup, Inv, Written, Types
    <2>3. CASE pc[t].call = "backupAndWait" /\ backups' = backups + 1
      <3>1. "waitBackup" \in Places BY DEF Places
      <3>2. Goto(t, "waitBackup") /\ ~stored' /\ stored' \in BOOLEAN /\ backupLock' = backupLock /\ backups' = 1
        <4>1. stored' = FALSE /\ Goto(t, "waitBackup") /\ backupLock' = backupLock
          BY <1>22, <2>2, <2>3 DEF StartBackup
        <4>2. backups' = 1 BY <2>2, <2>3
        <4>3. ~stored' /\ stored' \in BOOLEAN BY <4>1
        <4> QED BY <4>1, <4>2, <4>3
      <3>3. Moved(t, "waitBackup") /\ pc'[t].call = pc[t].call /\ pc'[t].left = pc[t].left
        BY <3>1, <3>2, <1>t, GotoMoves
      <3>4. Types' BY <1>22, <3>2, <3>3, <1>t DEF StartBackup, Types, Moved
      <3>5. Owners' BY <1>22, <3>1, <3>2, <3>3, <1>t, OwnersMove DEF StartBackup, Owners
      <3>6. Suits(t, pc'[t]) BY <1>22, <3>3, <1>t DEF StartBackup, Moved, Suits
      <3>7. Routes' BY <3>1, <3>3, <3>6, <1>t, RoutesMove
      <3>8. Handle' BY <1>22, <3>1, <3>3, HandleKept DEF StartBackup, Inv
      <3>9. Written' BY <3>2, <3>3 DEF Written, Moved
      <3> QED BY <3>4, <3>5, <3>7, <3>8, <3>9 DEF Inv
    <2>4. CASE pc[t].call # "backupAndWait" \/ backups' = backups
      <3>1. "idle" \in Places BY DEF Places
      <3>2. /\ Return(t) /\ backupLock' = None /\ stored' \in BOOLEAN /\ backups' \in 0..1
            /\ backups' > 0 => stored'
        <4>1. CASE pc[t].call # "backupAndWait" /\ backups' = backups + 1
          <5>1. stored' = TRUE /\ Return(t) /\ backupLock' = None BY <1>22, <2>2, <4>1 DEF StartBackup
          <5>2. backups' = 1 BY <2>2, <4>1
          <5> QED BY <5>1, <5>2
        <4>2. CASE backups' = backups
          <5>1. stored' = FALSE /\ Return(t) /\ backupLock' = None BY <1>22, <2>2, <4>2 DEF StartBackup
          <5>2. backups' = 0 BY <2>2, <4>2
          <5>3. stored' \in BOOLEAN BY <5>1
          <5>4. backups' \in 0..1 /\ ~(backups' > 0) BY <5>2
          <5> QED BY <5>1, <5>3, <5>4
        <4> QED BY <1>22, <2>4, <4>1, <4>2 DEF StartBackup
      <3>3. Moved(t, "idle") /\ pc'[t].left = 0 BY <3>2, <1>t, ReturnMoves
      <3>4. Types' BY <1>22, <3>2, <3>3, <1>t DEF StartBackup, Types, Moved
      <3>5. Owners' BY <1>22, <3>1, <3>2, <3>3, <1>t, OwnersMove DEF StartBackup, Owners
      <3>6. Suits(t, pc'[t]) BY <3>3 DEF Moved, Suits
      <3>7. Routes' BY <3>1, <3>3, <3>6, <1>t, RoutesMove
      <3>8. Handle' BY <1>22, <3>1, <3>3, HandleKept DEF StartBackup, Inv
      <3>9. Written' BY <3>2 DEF Written
      <3> QED BY <3>4, <3>5, <3>7, <3>8, <3>9 DEF Inv
    <2> QED BY <1>22, <2>3, <2>4 DEF StartBackup
  <1>23. CASE BackupAwaited(t)
    <2>1. "idle" \in Places BY DEF Places
    <2>2. Moved(t, "idle") /\ pc'[t].left = 0 BY <1>23, <1>t, ReturnMoves DEF BackupAwaited
    <2>3. Types' BY <1>23, <2>2, <1>t DEF BackupAwaited, Types, Moved
    <2>4. Owners' BY <1>23, <2>1, <2>2, <1>t, OwnersMove DEF BackupAwaited, Owners
    <2>5. Suits(t, pc'[t]) BY <2>2 DEF Moved, Suits
    <2>6. Routes' BY <2>1, <2>2, <2>5, <1>t, RoutesMove
    <2>7. Handle' BY <1>23, <2>1, <2>2, HandleKept DEF BackupAwaited, Inv
    <2>8. Written'
      <3>1. backups' = 0 \/ (stored' = FALSE /\ ~At(t, "waitBackup") /\ backups' = backups)
        BY <1>23 DEF BackupAwaited
      <3>2. CASE backups' = 0 BY <3>2 DEF Written
      <3>3. CASE stored' = FALSE /\ ~At(t, "waitBackup") /\ backups' = backups /\ backups # 0
        <4>1. ~stored BY <1>23, <3>3 DEF BackupAwaited
        <4> QED BY <2>2, <3>3, <4>1 DEF Inv, Written, Moved
      <3> QED BY <1>23, <3>1, <3>2, <3>3 DEF BackupAwaited
    <2> QED BY <2>3, <2>4, <2>6, <2>7, <2>8 DEF Inv
  <1> QED BY <1>1, <1>2, <1>3, <1>4, <1>5, <1>6, <1>7, <1>8, <1>9, <1>10, <1>11, <1>12, <1>13,
             <1>14, <1>15, <1>16, <1>17, <1>18, <1>19, <1>20, <1>21, <1>22, <1>23 DEF ThreadStep

-----------------------------------------------------------------------------
(* The other steps *)

LEMMA BeginKeeps ==
    ASSUME Inv, NEW t \in Threads, NEW call \in Calls, Begin(t, call)
    PROVE  Inv'
  <1> DEFINE began == [call |-> call, at |-> FirstPlace(call), left |-> IF call = "read" THEN Parts ELSE 0]
             place == FirstPlace(call)
  <1>1. /\ place \in Places /\ place \notin WithTask \cup WithBackup /\ ~Inside(call, place)
        /\ place = "wait" <=> call = "call"
    BY DEF FirstPlace, Places, Calls, Inside, WithTask, WithBackup
  <1>2. began.left \in Nat /\ (began.left > 0 => call = "read")
    BY BackendAssumption
  <1>3. began \in Counters BY <1>1, <1>2 DEF Counters
  <1>4. Moved(t, place) /\ pc'[t] = began BY <1>3 DEF Begin, Inv, Types, Moved
  <1>5. Suits(t, began)
    <2>1. place \notin {"idle", "partLock", "partLockLate", "loop", "nap", "fullRun", "slot", "spawn"}
      BY DEF FirstPlace, Calls
    <2>2. /\ place = "part" => call = "read"
          /\ place = "at once" => call \in {"abortMedia", "wantAbort", "abortSync", "mediaStatus"}
          /\ place = "register" => call \in {"sync", "login"}
          /\ place = "quiet" => call \in {"close", "full"}
          /\ place = "task" => call = "media"
      BY DEF FirstPlace, Calls
    <2>3. call \in Does[t] BY DEF Begin
    <2>4. began.call = call /\ began.at = place OBVIOUS
    <2> HIDE DEF began, place
    <2> QED BY <1>1, <1>2, <2>1, <2>2, <2>3, <2>4 DEF Suits
  <1>6. passed' \in [Threads -> Nat] BY DEF Begin, Inv, Types
  <1>7. pc[t].at = "idle" BY DEF Begin, At
  <1> QED
    BY <1>1, <1>4, <1>5, <1>6, <1>7, PlainStep
    DEF Begin, Inv, Types, Owners, At, Passes, Inside, WithTask, WithBackup, mediaVars, backupVars

\* The steps that no thread of calls makes leave them where they are.
LEMMA OthersKeep ==
    ASSUME Inv, UNCHANGED <<pc, waiting, colLock, taskLock, backupLock>>
    PROVE  Owners' /\ Routes'
  BY DEF Inv, Owners, Routes, At

LEMMA MediaKeeps ==
    ASSUME Inv, MediaStep \/ MediaHears \/ MediaDone
    PROVE  Inv'
  <1> USE DEF MediaStep, MediaStarts, MediaWorks, MediaAborted, MediaClears, MediaLeaves, MediaHears,
              MediaDone, MediaUnchanged, colVars, backupVars
  <1>1. PICK place \in MediaPlaces \ {"none", "spawned"} : media' = [media EXCEPT !.at = place]
    BY DEF MediaPlaces
  <1>2. /\ media' \in [at : MediaPlaces, told : BOOLEAN] /\ media'.at = place
    BY <1>1, MediaType DEF Inv
  <1>3. Types' BY <1>2 DEF Inv, Types
  <1>4. Owners' /\ Routes' BY OthersKeep
  <1>5. Handle'
    <2>1. taskLock = None /\ (media.at \in {"spawned", "run", "busy", "ending"} => slot)
      BY DEF Inv, Handle
    <2>2. taskLock' = None BY <2>1
    <2>3. media'.at \in {"spawned", "run", "busy", "ending"} => slot'
      BY <1>2, <2>1
    <2>4. \A t \in Threads : ~At(t, "spawn")'
      <3>1. None \notin Threads BY BackendAssumption
      <3> QED BY <3>1, <2>1 DEF Inv, Owners, WithTask, At
    <2> QED BY <2>2, <2>3, <2>4 DEF Handle
  <1>6. Written' BY DEF Inv, Written, At
  <1> QED BY <1>3, <1>4, <1>5, <1>6 DEF Inv

LEMMA BackupWrittenKeeps ==
    ASSUME Inv, BackupWritten
    PROVE  Inv'
  <1> USE DEF BackupWritten, colVars, mediaVars
  <1>1. backups' = 0 BY DEF Inv, Types, Written
  <1>2. Types' BY <1>1 DEF Inv, Types
  <1>3. Owners' /\ Routes' BY OthersKeep
  <1>4. Handle' BY DEF Inv, Handle, At
  <1>5. Written' BY <1>1 DEF Written
  <1> QED BY <1>2, <1>3, <1>4, <1>5 DEF Inv

LEMMA StutterKeeps == Inv /\ UNCHANGED vars => Inv'
  BY DEF vars, colVars, mediaVars, backupVars, Inv, Types, Owners, Routes, Handle, Written, At

LEMMA InitInv == Init => Inv
  <1> SUFFICES ASSUME Init PROVE Inv OBVIOUS
  <1>1. Types
    <2>1. [at |-> "none", told |-> FALSE] \in [at : MediaPlaces, told : BOOLEAN] BY DEF MediaPlaces
    <2> QED BY <2>1, RestType DEF Init, Types
  <1>2. \A t \in Threads : pc[t] = Rest BY DEF Init
  <1>3. Owners
    BY <1>2, RestType, BackendAssumption DEF Init, Owners, At, Inside, WithTask, WithBackup
  <1>4. Routes
    <2>1. ~(Rest.left > 0) BY RestType
    <2> QED BY <1>2, <2>1, RestType DEF Routes, Suits
  <1>5. Handle BY <1>2, RestType DEF Init, Handle, At
  <1>6. Written BY DEF Init, Written
  <1> QED BY <1>1, <1>3, <1>4, <1>5, <1>6 DEF Inv

LEMMA Invariance == Spec => []Inv
  <1>1. Inv /\ [Next]_vars => Inv'
    BY BeginKeeps, ThreadStepKeeps, MediaKeeps, BackupWrittenKeeps, StutterKeeps DEF Next
  <1> QED BY InitInv, <1>1, PTL DEF Spec

-----------------------------------------------------------------------------
\* Types, and who holds what.
THEOREM TypeCorrect == Spec => []TypeOK
  <1>1. Inv => TypeOK BY DEF Inv, Types, Owners, TypeOK, MediaPlaces
  <1> QED BY Invariance, <1>1, PTL

\* A media sync that has not ended can be aborted.
THEOREM AbortReachesMediaAlways == Spec => []AbortReachesMedia
  <1>1. Inv => AbortReachesMedia BY DEF Inv, Handle, AbortReachesMedia
  <1> QED BY Invariance, <1>1, PTL

\* One backup is written at a time.
THEOREM BackupsOneAtATimeAlways == Spec => []BackupsOneAtATime
  <1>1. Inv => BackupsOneAtATime BY DEF Inv, Written, BackupsOneAtATime
  <1> QED BY Invariance, <1>1, PTL

-----------------------------------------------------------------------------
(* Closing in quiet, and the parts of long reads *)

\* Where a thread that has seen the handle gone goes on to close the collection.
Closing == {"lock", "in", "fullRun"}

\* Who closes the collection has seen the handle gone, and nobody else can have
\* put another one there.
Quiet ==
    /\ \A t \in Threads : pc[t].at \in Closing /\ pc[t].call \in {"close", "full"} => ~slot
    /\ QuietWhileClosed

Readers == {r \in Threads : "read" \in Does[r]}
AtPartLock == {r \in Threads : At(r, "partLock")}

\* The parts that may still go first are counted with those that have.
PartsAhead == \A t \in waiting : passed[t] + Cardinality(AtPartLock) <= Cardinality(Readers)

\* A step that brings nobody nearer to the collection.
Calm(t) ==
    /\ \E place \in Places \ (Closing \cup {"wait", "partLock"}) : Moved(t, place)
    /\ ~At(t, "partLock") /\ UNCHANGED <<waiting, passed, slot>>
    /\ col' = col \/ col' = "open"
    /\ media'.at \in {media.at, "none", "spawned"}

LEMMA CalmSteps ==
    ASSUME Inv, NEW t \in Threads,
           \/ AtOnce(t) \/ Leave(t) \/ OpenCollection(t) \/ AbortMedia(t) \/ Nap(t) \/ Unregister(t)
           \/ SyncEnds(t) \/ TakeTask(t) \/ Spawn(t)
           \/ GoToBackup(t) \/ TakeBackupTask(t) \/ StartBackup(t) \/ BackupAwaited(t)
    PROVE  Calm(t)
  <1> DEFINE Far == Places \ (Closing \cup {"wait", "partLock"})
  <1> USE DEF At, Calling, colVars, mediaVars, backupVars, Calm
  <1>t. Types /\ Suits(t, pc[t]) BY DEF Inv, Routes
  <1>p. /\ {"idle", "loop", "part", "unregister", "task", "slot"} \subseteq Far
        /\ {"takeBackup", "joinBackup", "joinBackup2", "waitBackup"} \subseteq Far
    BY DEF Places, Closing
  <1>r. Return(t) => \E place \in Far : Moved(t, place) BY <1>t, <1>p, ReturnMoves
  <1>g. ASSUME NEW place \in Far, Goto(t, place) PROVE \E q \in Far : Moved(t, q)
    BY <1>t, <1>g, GotoMoves
  <1>m. {"none", "spawned"} \subseteq MediaPlaces BY DEF MediaPlaces
  <1> HIDE DEF Far
  <1>1. CASE AtOnce(t) BY <1>1, <1>r, <1>t, <1>m, MediaType DEF AtOnce, Suits, Far
  <1>2. CASE Leave(t)
    <2>1. CASE pc[t].left > 1
      <3>1. pc' = [pc EXCEPT ![t].at = "part", ![t].left = @ - 1] BY <1>2, <2>1 DEF Leave
      <3>2. pc[t].left - 1 \in Nat /\ pc[t] \in Counters BY <1>t, <2>1 DEF Types, Counters
      <3>3. Moved(t, "part") BY <3>1, <3>2, <1>t DEF Types, Moved, Counters, Places
      <3> QED BY <1>2, <1>p, <3>3 DEF Leave, Far
    <2>2. CASE ~(pc[t].left > 1) BY <1>2, <2>2, <1>r DEF Leave, Far
    <2> QED BY <2>1, <2>2
  <1>3. CASE OpenCollection(t) BY <1>3, <1>r DEF OpenCollection, Far
  <1>4. CASE AbortMedia(t) BY <1>4, <1>g, <1>p, <1>t, MediaType DEF AbortMedia, Far
  <1>5. CASE Nap(t) BY <1>5, <1>g, <1>p DEF Nap, Far
  <1>6. CASE Unregister(t) BY <1>6, <1>r DEF Unregister, Far
  <1>7. CASE SyncEnds(t) BY <1>7, <1>g, <1>p DEF SyncEnds, Far
  <1>8. CASE TakeTask(t) BY <1>8, <1>g, <1>r, <1>p DEF TakeTask, AfterTask, Far
  <1>9. CASE Spawn(t) BY <1>9, <1>g, <1>r, <1>p, <1>t, MediaType DEF Spawn, AfterTask, MediaPlaces, Far
  <1>10. CASE GoToBackup(t) BY <1>10, <1>g, <1>r, <1>p DEF GoToBackup, Far
  <1>11. CASE TakeBackupTask(t) BY <1>11, <1>g, <1>p DEF TakeBackupTask, Far
  <1>12. CASE StartBackup(t) BY <1>12, <1>g, <1>r, <1>p DEF StartBackup, Far
  <1>13. CASE BackupAwaited(t) BY <1>13, <1>r DEF BackupAwaited, Far
  <1> QED BY <1>1, <1>2, <1>3, <1>4, <1>5, <1>6, <1>7, <1>8, <1>9, <1>10, <1>11, <1>12, <1>13

LEMMA QuietStep ==
    ASSUME Inv, OneThreadSyncs, Quiet, NEW t \in Threads, ThreadStep(t)
    PROVE  Quiet'
  <1> USE DEF At, Calling, colVars, mediaVars, backupVars, Closing
  <1>t. Types /\ Suits(t, pc[t]) BY DEF Inv, Routes
  <1>h. media.at \in {"run", "busy"} => slot BY DEF Inv, Handle
  <1>p. {"in", "lock", "nap", "fullRun", "task", "unregister", "partLock", "partLockLate", "wait", "spawn"}
           \subseteq Places
    BY DEF Places
  <1>k. ASSUME NEW place \in Places, Moved(t, place), slot' = slot,
               place \in Closing /\ pc'[t].call \in {"close", "full"} => ~slot
        PROVE  \A u \in Threads : pc'[u].at \in Closing /\ pc'[u].call \in {"close", "full"} => ~slot'
    BY <1>k DEF Moved, Quiet
  <1>1. CASE Calm(t)
    <2>1. PICK place \in Places \ (Closing \cup {"wait", "partLock"}) : Moved(t, place) BY <1>1 DEF Calm
    <2> QED BY <1>1, <1>k, <2>1 DEF Calm, Quiet, QuietWhileClosed
  <1>2. CASE WithCol(t) \/ LockCol(t) \/ LockForPart(t)
    <2>1. Goto(t, "in") BY <1>2 DEF WithCol, LockCol, LockForPart
    <2>2. Moved(t, "in") /\ pc'[t].call = pc[t].call BY <2>1, <1>p, <1>t, GotoMoves
    <2>3. slot' = slot /\ col' = col /\ media' = media BY <1>2 DEF WithCol, LockCol, LockForPart
    <2>4. pc[t].at = "lock" \/ pc[t].call \notin {"close", "full"}
      BY <1>2, <1>t DEF WithCol, LockCol, LockForPart, Suits
    <2>5. pc'[t].call \in {"close", "full"} => ~slot BY <2>2, <2>4 DEF Quiet
    <2> QED BY <1>k, <1>p, <2>2, <2>3, <2>5 DEF Quiet, QuietWhileClosed
  <1>3. CASE PartMayBegin(t)
    <2>1. PICK place \in {"partLock", "partLockLate"} : Goto(t, place) BY <1>3 DEF PartMayBegin
    <2>2. Moved(t, place) BY <2>1, <1>p, <1>t, GotoMoves
    <2> QED BY <1>3, <1>k, <1>p, <2>2 DEF PartMayBegin, Quiet, QuietWhileClosed
  <1>4. CASE CloseCollection(t)
    <2>1. Moved(t, "idle") /\ "idle" \in Places BY <1>4, <1>t, ReturnMoves DEF CloseCollection, Places
    <2>2. media.at \notin {"run", "busy"} BY <1>4, <1>h DEF CloseCollection, Quiet
    <2> QED BY <1>4, <1>k, <2>1, <2>2 DEF CloseCollection, Quiet, QuietWhileClosed
  <1>5. CASE SeeSlot(t)
    <2>1. PICK place \in {"nap", "lock"} : Goto(t, place) /\ (place = "lock" => ~slot) BY <1>5 DEF SeeSlot
    <2>2. Moved(t, place) BY <2>1, <1>p, <1>t, GotoMoves
    <2> QED BY <1>5, <1>k, <1>p, <2>1, <2>2 DEF SeeSlot, Quiet, QuietWhileClosed
  <1>6. CASE Register(t)
    <2>1. PICK place \in {"wait", "unregister"} : Goto(t, place) BY <1>6 DEF Register
    <2>2. Moved(t, place) BY <2>1, <1>p, <1>t, GotoMoves
    <2> QED BY <1>6, <1>k, <1>p, <2>2 DEF Register, Quiet, QuietWhileClosed
  <1>7. CASE FullSync(t)
    <2>1. ~slot /\ media.at \notin {"run", "busy"} BY <1>7, <1>h DEF FullSync, Quiet
    <2>2. slot' = slot /\ media' = media BY <1>7 DEF FullSync
    <2>3. \E place \in Places : Moved(t, place)
      BY <1>7, <1>p, <1>t, GotoMoves, ReturnMoves DEF FullSync, Places
    <2> QED BY <1>k, <2>1, <2>2, <2>3 DEF Quiet, QuietWhileClosed
  <1>8. CASE FullSyncEnds(t)
    <2>1. PICK place \in {"task", "unregister"} : Goto(t, place) BY <1>8 DEF FullSyncEnds
    <2>2. Moved(t, place) BY <2>1, <1>p, <1>t, GotoMoves
    <2>3. media.at \notin {"run", "busy"} BY <1>8, <1>h, <1>t DEF FullSyncEnds, Quiet, Suits
    <2> QED BY <1>8, <1>k, <1>p, <2>2, <2>3 DEF FullSyncEnds, Quiet, QuietWhileClosed
  <1>9. CASE SetSlot(t)
    <2>1. Moved(t, "spawn") BY <1>9, <1>p, <1>t, GotoMoves DEF SetSlot
    <2>2. ASSUME NEW u \in Threads, pc'[u].at \in Closing, pc'[u].call \in {"close", "full"} PROVE FALSE
      <3>1. u # t /\ pc'[u] = pc[u] BY <2>1, <2>2 DEF Moved
      <3>2. pc[u].call \in Does[u] \cap {"close", "full"} BY <3>1, <2>2 DEF Inv, Routes, Suits
      <3>3. pc[t].call \in Does[t] \cap {"sync", "full", "media"} BY <1>9, <1>t DEF SetSlot, Suits
      <3> QED BY <3>1, <3>2, <3>3 DEF OneThreadSyncs
    <2>3. col' = col /\ media' = media BY <1>9 DEF SetSlot
    <2> QED BY <2>2, <2>3 DEF Quiet, QuietWhileClosed
  <1> QED BY <1>1, <1>2, <1>3, <1>4, <1>5, <1>6, <1>7, <1>8, <1>9, CalmSteps DEF ThreadStep

LEMMA QuietKept ==
    ASSUME Inv, OneThreadSyncs, Quiet, [Next]_vars
    PROVE  Quiet'
  <1>1. ASSUME NEW t \in Threads, NEW call \in Calls, Begin(t, call) PROVE Quiet'
    <2>1. /\ \A u \in Threads \ {t} : pc'[u] = pc[u]
          /\ pc'[t].call = call /\ pc'[t].at = FirstPlace(call)
      BY <1>1 DEF Begin, Inv, Types
    <2>2. FirstPlace(call) \in Closing => call \notin {"close", "full"} BY DEF FirstPlace, Closing
    <2> QED BY <1>1, <2>1, <2>2 DEF Begin, Quiet, QuietWhileClosed, mediaVars
  <1>2. ASSUME MediaStep \/ MediaHears \/ MediaDone PROVE Quiet'
    <2> USE <1>2 DEF MediaStep, MediaStarts, MediaWorks, MediaAborted, MediaClears, MediaLeaves, MediaHears,
                     MediaDone, MediaUnchanged, colVars
    <2>1. pc' = pc /\ col' = col /\ (slot' = slot \/ slot' = FALSE) OBVIOUS
    <2>2. /\ media' \in [at : MediaPlaces, told : BOOLEAN]
          /\ media'.at \in {"run", "busy"} => col = "open" \/ media.at \in {"run", "busy"}
      BY MediaType DEF Inv, MediaPlaces
    <2> QED BY <2>1, <2>2 DEF Quiet, QuietWhileClosed
  <1>3. CASE BackupWritten
    BY <1>3 DEF BackupWritten, Quiet, QuietWhileClosed, colVars, mediaVars
  <1>4. CASE UNCHANGED vars
    BY <1>4 DEF vars, Quiet, QuietWhileClosed, colVars, mediaVars
  <1> QED BY <1>1, <1>2, <1>3, <1>4, QuietStep DEF Next

\* With one thread that closes and syncs, no media sync runs on a collection that
\* is closed or being replaced.
THEOREM QuietWhileClosedAlways ==
    ASSUME OneThreadSyncs
    PROVE  Spec => []QuietWhileClosed
  <1>1. Init => Quiet BY RestType DEF Init, Quiet, QuietWhileClosed, Closing
  <1>2. Inv /\ Quiet /\ [Next]_vars => Quiet' BY QuietKept
  <1>3. Quiet => QuietWhileClosed BY DEF Quiet
  <1> QED BY Invariance, <1>1, <1>2, <1>3, PTL DEF Spec
-----------------------------------------------------------------------------
LEMMA ReadersFinite ==
    /\ IsFiniteSet(Readers) /\ Cardinality(Readers) \in Nat
    /\ IsFiniteSet(AtPartLock) /\ Cardinality(AtPartLock) \in Nat
    /\ IsFiniteSet(AtPartLock') /\ Cardinality(AtPartLock') \in Nat
  <1>1. AtPartLock \subseteq Threads /\ AtPartLock' \subseteq Threads /\ Readers \subseteq Threads
    BY DEF AtPartLock, Readers
  <1> QED BY <1>1, BackendAssumption, FS_Subset, FS_CardinalityType

\* A step in which nobody arrives where a part may go first, or begins to wait.
LEMMA PartsUndisturbed ==
    ASSUME PartsAhead, NEW t \in Threads, NEW place \in Places, Moved(t, place),
           place # "partLock", ~At(t, "partLock"), waiting' \subseteq waiting, passed' = passed
    PROVE  PartsAhead'
  <1>1. AtPartLock' = AtPartLock BY DEF AtPartLock, Moved, At
  <1> QED BY <1>1 DEF PartsAhead, Readers

\* Who begins to wait is behind the parts that are on their way to the lock.
LEMMA PartsArrival ==
    ASSUME Inv, PartsAhead, NEW t \in Threads, Moved(t, "wait"), ~At(t, "partLock"),
           waiting' = waiting \cup {t}, passed' = [passed EXCEPT ![t] = 0]
    PROVE  PartsAhead'
  <1>1. AtPartLock' = AtPartLock BY DEF AtPartLock, Moved, At
  <1>2. AtPartLock \subseteq Readers BY DEF Inv, Routes, Suits, AtPartLock, Readers, At
  <1>3. Cardinality(AtPartLock) <= Cardinality(Readers) BY <1>2, ReadersFinite, FS_Subset
  <1>4. ASSUME NEW w \in waiting'
        PROVE  passed'[w] + Cardinality(AtPartLock') <= Cardinality(Readers)
    <2>1. w \in Threads /\ passed \in [Threads -> Nat] BY DEF Inv, Types, Owners
    <2>2. CASE w = t BY <1>1, <1>3, <2>1, <2>2, ReadersFinite
    <2>3. CASE w # t BY <1>1, <2>1, <2>3 DEF PartsAhead
    <2> QED BY <2>2, <2>3
  <1> QED BY <1>4 DEF PartsAhead, Readers

\* A part that goes first is counted once for each call that waits.
LEMMA PartTaken ==
    ASSUME Inv, PartsAhead, NEW t \in Threads, LockForPart(t), At(t, "partLock")
    PROVE  PartsAhead'
  <1>1. Moved(t, "in") BY GotoMoves DEF LockForPart, Places, Inv
  <1>2. AtPartLock' = AtPartLock \ {t} /\ t \in AtPartLock BY <1>1 DEF AtPartLock, Moved, At
  <1>3. Cardinality(AtPartLock') = Cardinality(AtPartLock) - 1
    BY <1>2, ReadersFinite, FS_RemoveElement
  <1>4. waiting' = waiting BY DEF LockForPart
  <1>5. ASSUME NEW w \in waiting
        PROVE  passed'[w] + Cardinality(AtPartLock') <= Cardinality(Readers)
    <2>1. w \in Threads /\ passed[w] \in Nat BY DEF Inv, Types, Owners
    <2>2. passed'[w] = passed[w] + 1 BY <2>1 DEF LockForPart
    <2>3. passed[w] + Cardinality(AtPartLock) <= Cardinality(Readers) BY DEF PartsAhead
    <2> QED BY <1>3, <2>1, <2>2, <2>3, ReadersFinite
  <1> QED BY <1>4, <1>5 DEF PartsAhead, Readers

LEMMA PartsStep ==
    ASSUME Inv, PartsAhead, NEW t \in Threads, ThreadStep(t)
    PROVE  PartsAhead'
  <1> USE DEF At, Calling
  <1>t. Types BY DEF Inv
  <1>p. {"in", "lock", "nap", "fullRun", "idle", "task", "unregister", "partLock", "partLockLate", "wait", "spawn"}
           \subseteq Places
    BY DEF Places
  <1>1. CASE Calm(t) BY <1>1, PartsUndisturbed DEF Calm
  <1>2. CASE WithCol(t) BY <1>2, <1>p, <1>t, GotoMoves, PartsUndisturbed DEF WithCol
  <1>3. CASE LockCol(t) BY <1>3, <1>p, <1>t, GotoMoves, PartsUndisturbed DEF LockCol
  <1>4. CASE PartMayBegin(t)
    <2>1. CASE waiting = {} BY <1>4, <2>1 DEF PartMayBegin, PartsAhead, colVars
    <2>2. CASE waiting # {} /\ Goto(t, "partLockLate")
      BY <1>4, <2>2, <1>p, <1>t, GotoMoves, PartsUndisturbed DEF PartMayBegin, colVars
    <2> QED BY <1>4, <2>1, <2>2 DEF PartMayBegin
  <1>5. CASE LockForPart(t)
    <2>1. CASE At(t, "partLockLate")
      BY <1>5, <2>1, <1>p, <1>t, GotoMoves, PartsUndisturbed DEF LockForPart
    <2> QED BY <1>5, <2>1, PartTaken DEF LockForPart
  <1>6. CASE CloseCollection(t) BY <1>6, <1>p, <1>t, ReturnMoves, PartsUndisturbed DEF CloseCollection
  <1>7. CASE SeeSlot(t) BY <1>7, <1>p, <1>t, GotoMoves, PartsUndisturbed DEF SeeSlot, colVars
  <1>8. CASE Register(t)
    <2>1. CASE pc[t].call = "sync"
      BY <1>8, <2>1, <1>p, <1>t, GotoMoves, PartsArrival DEF Register
    <2>2. CASE pc[t].call # "sync"
      BY <1>8, <2>2, <1>p, <1>t, GotoMoves, PartsUndisturbed DEF Register
    <2> QED BY <2>1, <2>2
  <1>9. CASE FullSync(t)
    BY <1>9, <1>p, <1>t, GotoMoves, ReturnMoves, PartsUndisturbed DEF FullSync
  <1>10. CASE FullSyncEnds(t)
    BY <1>10, <1>p, <1>t, GotoMoves, PartsUndisturbed DEF FullSyncEnds
  <1>11. CASE SetSlot(t) BY <1>11, <1>p, <1>t, GotoMoves, PartsUndisturbed DEF SetSlot, colVars
  <1> QED BY <1>1, <1>2, <1>3, <1>4, <1>5, <1>6, <1>7, <1>8, <1>9, <1>10, <1>11, CalmSteps DEF ThreadStep

LEMMA PartsKept ==
    ASSUME Inv, PartsAhead, [Next]_vars
    PROVE  PartsAhead'
  <1>1. ASSUME NEW t \in Threads, NEW call \in Calls, Begin(t, call) PROVE PartsAhead'
    <2> DEFINE began == [call |-> call, at |-> FirstPlace(call), left |-> IF call = "read" THEN Parts ELSE 0]
    <2>1. /\ FirstPlace(call) \in Places /\ FirstPlace(call) # "partLock"
          /\ FirstPlace(call) = "wait" <=> call = "call"
      BY DEF FirstPlace, Places, Calls
    <2>2. began \in Counters BY <2>1, BackendAssumption DEF Counters
    <2>3. Moved(t, FirstPlace(call)) BY <1>1, <2>2 DEF Begin, Inv, Types, Moved
    <2>4. CASE call = "call" BY <1>1, <2>1, <2>3, <2>4, PartsArrival DEF Begin, At
    <2>5. CASE call # "call" BY <1>1, <2>1, <2>3, <2>5, PartsUndisturbed DEF Begin, At
    <2> QED BY <2>4, <2>5
  <1>2. CASE UNCHANGED <<pc, waiting, passed>> BY <1>2 DEF PartsAhead, AtPartLock, Readers, At
  <1>3. MediaStep \/ MediaHears \/ MediaDone => UNCHANGED <<pc, waiting, passed>>
    BY DEF MediaStep, MediaStarts, MediaWorks, MediaAborted, MediaClears, MediaLeaves, MediaHears,
           MediaDone, MediaUnchanged, colVars
  <1>4. BackupWritten \/ UNCHANGED vars => UNCHANGED <<pc, waiting, passed>>
    BY DEF BackupWritten, vars, colVars
  <1> QED BY <1>1, <1>2, <1>3, <1>4, PartsStep DEF Next

\* A call that waits for the collection lets at most one part of each long read
\* go first, however often the others call.
THEOREM PartsLetCallsInAlways == Spec => []PartsLetCallsIn
  <1>1. Init => PartsAhead BY DEF Init, PartsAhead
  <1>2. Inv /\ PartsAhead /\ [Next]_vars => PartsAhead' BY PartsKept
  <1>3. Inv /\ PartsAhead => PartsLetCallsIn
    <2> SUFFICES ASSUME Inv, PartsAhead, NEW t \in waiting PROVE passed[t] <= Cardinality(Readers)
      BY DEF PartsLetCallsIn, Readers, Inv, Owners
    <2>1. passed[t] \in Nat BY DEF Inv, Types, Owners
    <2>2. passed[t] + Cardinality(AtPartLock) <= Cardinality(Readers) BY DEF PartsAhead
    <2> QED BY <2>1, <2>2, ReadersFinite
  <1> QED BY Invariance, <1>1, <1>2, <1>3, PTL DEF Spec
=============================================================================
