--------------------------- MODULE BackendThreads ---------------------------
(***************************************************************************)
(* The threads of a program that share one Backend.                        *)
(*                                                                         *)
(* The collection is behind a lock that is not fair.  Calls wait for it    *)
(* and are counted while they do; a long read takes it part by part and    *)
(* lets the calls that wait go first.  A media sync and a backup have a    *)
(* thread of their own: their handles, and the handle that aborts the      *)
(* media sync, are behind further locks.  Closing the collection, and      *)
(* replacing it in a one-way sync, first abort the media sync and wait     *)
(* for it to clear its handle.                                             *)
(*                                                                         *)
(* Which thread makes which calls is the program's discipline (Does); the  *)
(* desktop program runs what uses the collection in one thread.            *)
(***************************************************************************)
EXTENDS Integers, FiniteSets

CONSTANTS
    Threads,
    Does,      \* Does[t]: the calls thread t makes
    Parts,     \* parts of a long read
    MaxCalls,  \* bound of the model: MaxCalls[t] calls of thread t
    None       \* a model value: nobody

Calls == {"call", "read", "open", "close", "full", "sync", "login", "media",
          "mediaStatus", "abortSync", "abortMedia", "wantAbort", "backup",
          "backupAndWait", "awaitBackup"}

ASSUME BackendAssumption ==
    /\ IsFiniteSet(Threads) /\ None \notin Threads
    /\ Does \in [Threads -> SUBSET Calls]
    /\ Parts \in Nat \ {0} /\ MaxCalls \in [Threads -> Nat]

VARIABLES
    col,        \* "open", "closed", or "taken" while a one-way sync has it
    colLock,    \* who holds the collection
    waiting,    \* the calls counted in col_waiters
    passed,     \* passed[t]: parts that went first since t began to wait
    taskLock,   \* who holds media_sync_task
    slot,       \* media_sync_abort is there
    media,      \* the media thread: where it is, and whether it was told to abort
    want,       \* progress_state.want_abort
    syncAbort,  \* whose handle is in sync_abort
    backupLock, \* who holds backup_task
    stored,     \* backup_task is there
    backups,    \* backups being written
    pc,         \* pc[t]: the call of t, its place in it, the parts left
    calls       \* calls[t]: calls made

colVars == <<col, colLock, waiting, passed>>
mediaVars == <<taskLock, slot, media, want>>
backupVars == <<backupLock, stored, backups>>
vars == <<colVars, mediaVars, syncAbort, backupVars, pc, calls>>

Rest == [call |-> None, at |-> "idle", left |-> 0]
At(t, place) == pc[t].at = place
Calling(t, names) == pc[t].call \in names
Goto(t, place) == pc' = [pc EXCEPT ![t].at = place]
Return(t) == pc' = [pc EXCEPT ![t] = Rest]

\* Where a thread holds the collection; a one-way sync does so to its very end,
\* also while it starts the media sync that follows.
Inside(call, place) ==
    \/ place \in {"in", "takeBackup", "joinBackup", "fullRun"}
    \/ call = "full" /\ place \in {"task", "slot", "spawn", "unregister"}

TypeOK ==
    /\ col \in {"open", "closed", "taken"} /\ slot \in BOOLEAN /\ want \in BOOLEAN
    /\ media.at \in {"none", "spawned", "run", "busy", "ending", "leaving",
                     "finished"}
    /\ stored \in BOOLEAN /\ backups \in Nat
    /\ {taskLock, backupLock, syncAbort} \subseteq Threads \cup {None}
    /\ waiting = {t \in Threads : At(t, "wait")}
    /\ \A t \in Threads : colLock = t <=> Inside(pc[t].call, pc[t].at)

Init ==
    /\ col = "open" /\ colLock = None /\ waiting = {}
    /\ passed = [t \in Threads |-> 0]
    /\ taskLock = None /\ slot = FALSE /\ want = FALSE
    /\ media = [at |-> "none", told |-> FALSE]
    /\ syncAbort = None
    /\ backupLock = None /\ stored = FALSE /\ backups = 0
    /\ pc = [t \in Threads |-> Rest] /\ calls = [t \in Threads |-> 0]

-----------------------------------------------------------------------------
FirstPlace(call) ==
    CASE call = "call" -> "wait"
      [] call = "read" -> "part"
      [] call \in {"open", "backup", "backupAndWait"} -> "lock"
      [] call \in {"close", "full"} -> "quiet"
      [] call \in {"sync", "login"} -> "register"
      [] call = "media" -> "task"
      [] call = "awaitBackup" -> "takeBackup2"
      [] OTHER -> "at once"

Begin(t, call) ==
    /\ At(t, "idle") /\ call \in Does[t] /\ calls[t] < MaxCalls[t]
    /\ calls' = [calls EXCEPT ![t] = @ + 1]
    /\ pc' = [pc EXCEPT ![t] = [call |-> call, at |-> FirstPlace(call),
                                left |-> IF call = "read" THEN Parts ELSE 0]]
    /\ waiting' = IF call = "call" THEN waiting \cup {t} ELSE waiting
    /\ passed' = IF call = "call" THEN [passed EXCEPT ![t] = 0] ELSE passed
    /\ UNCHANGED <<col, colLock, mediaVars, syncAbort, backupVars>>

\* The calls that take no time: flags, handles, and the status of the media
\* sync, which takes its handle away once it has finished.
AtOnce(t) ==
    /\ At(t, "at once") /\ Return(t)
    /\ CASE Calling(t, {"abortMedia"}) ->
              /\ media' = [media EXCEPT !.told = @ \/ slot]
              /\ UNCHANGED <<taskLock, slot, want, syncAbort>>
         [] Calling(t, {"wantAbort"}) ->
              /\ want' = TRUE /\ UNCHANGED <<taskLock, slot, media, syncAbort>>
         [] Calling(t, {"abortSync"}) ->
              /\ syncAbort' = None /\ UNCHANGED mediaVars
         [] Calling(t, {"mediaStatus"}) ->
              /\ taskLock = None
              /\ media' = IF media.at = "finished"
                          THEN [media EXCEPT !.at = "none"] ELSE media
              /\ UNCHANGED <<taskLock, slot, want, syncAbort>>
    /\ UNCHANGED <<colVars, backupVars, calls>>

-----------------------------------------------------------------------------
\* The collection's lock.

\* Fault: the call that has the collection still counts as waiting.
WithColCounted(t) ==
    /\ At(t, "wait") /\ colLock = None
    /\ colLock' = t /\ Goto(t, "in")
    /\ UNCHANGED <<col, waiting, passed, mediaVars, syncAbort, backupVars, calls>>

\* with_col
WithCol(t) ==
    /\ At(t, "wait") /\ colLock = None
    /\ colLock' = t /\ waiting' = waiting \ {t} /\ Goto(t, "in")
    /\ UNCHANGED <<col, passed, mediaVars, syncAbort, backupVars, calls>>

\* lock_open_collection and the others that are not counted
LockCol(t) ==
    /\ At(t, "lock") /\ colLock = None
    /\ colLock' = t /\ Goto(t, "in")
    /\ UNCHANGED <<col, waiting, passed, mediaVars, syncAbort, backupVars, calls>>

\* Fault: a part begins whoever waits.
PartRushes(t) ==
    /\ At(t, "part") /\ Goto(t, "partLock")
    /\ UNCHANGED <<colVars, mediaVars, syncAbort, backupVars, calls>>

\* with_col_for_a_part: nobody waits, or they have waited for a second.
PartMayBegin(t) ==
    /\ At(t, "part")
    /\ \/ waiting = {} /\ Goto(t, "partLock")
       \/ waiting # {} /\ Goto(t, "partLockLate")
    /\ UNCHANGED <<colVars, mediaVars, syncAbort, backupVars, calls>>

LockForPart(t) ==
    /\ pc[t].at \in {"partLock", "partLockLate"} /\ colLock = None
    /\ colLock' = t /\ Goto(t, "in")
    /\ passed' = IF At(t, "partLock")
                 THEN [w \in Threads |->
                         passed[w] + IF w \in waiting THEN 1 ELSE 0]
                 ELSE passed
    /\ UNCHANGED <<col, waiting, mediaVars, syncAbort, backupVars, calls>>

\* The end of a call, or of a part of a read.
Leave(t) ==
    /\ At(t, "in") /\ Calling(t, {"call", "read"})
    /\ colLock' = None
    /\ IF pc[t].left > 1
       THEN pc' = [pc EXCEPT ![t].at = "part", ![t].left = @ - 1]
       ELSE Return(t)
    /\ UNCHANGED <<col, waiting, passed, mediaVars, syncAbort, backupVars, calls>>

\* It is an error if the collection is open already, and it may fail to open.
OpenCollection(t) ==
    /\ At(t, "in") /\ Calling(t, {"open"})
    /\ col' \in {col, "open"}
    /\ colLock' = None /\ Return(t)
    /\ UNCHANGED <<waiting, passed, mediaVars, syncAbort, backupVars, calls>>

CloseCollection(t) ==
    /\ At(t, "in") /\ Calling(t, {"close"})
    /\ colLock' = None /\ col' = "closed" /\ Return(t)
    /\ UNCHANGED <<waiting, passed, mediaVars, syncAbort, backupVars, calls>>

-----------------------------------------------------------------------------
\* abort_media_sync_and_wait

\* Fault: the flag is raised, the handle is not used.
RaiseFlagOnly(t) ==
    /\ At(t, "quiet") /\ Goto(t, "loop")
    /\ want' = (want \/ slot)
    /\ UNCHANGED <<colVars, taskLock, slot, media, syncAbort, backupVars, calls>>

AbortMedia(t) ==
    /\ At(t, "quiet") /\ Goto(t, "loop")
    /\ media' = [media EXCEPT !.told = @ \/ slot]
    /\ want' = (want \/ slot)
    /\ UNCHANGED <<colVars, taskLock, slot, syncAbort, backupVars, calls>>

\* Fault: the aborted sync is not waited for.
SeeSlotOnce(t) ==
    /\ At(t, "loop") /\ Goto(t, "lock")
    /\ UNCHANGED <<colVars, mediaVars, syncAbort, backupVars, calls>>

SeeSlot(t) ==
    /\ At(t, "loop") /\ Goto(t, IF slot THEN "nap" ELSE "lock")
    /\ UNCHANGED <<colVars, mediaVars, syncAbort, backupVars, calls>>

Nap(t) ==
    /\ At(t, "nap") /\ Goto(t, "loop") /\ want' = TRUE
    /\ UNCHANGED <<colVars, taskLock, slot, media, syncAbort, backupVars, calls>>

-----------------------------------------------------------------------------
\* The syncs.

\* sync_abort_handle
Register(t) ==
    /\ At(t, "register") /\ syncAbort' = t
    /\ IF Calling(t, {"sync"})
       THEN /\ Goto(t, "wait") /\ waiting' = waiting \cup {t}
            /\ passed' = [passed EXCEPT ![t] = 0]
       ELSE Goto(t, "unregister") /\ UNCHANGED <<waiting, passed>>
    /\ UNCHANGED <<col, colLock, mediaVars, backupVars, calls>>

\* The guard takes whatever handle is there; a one-way sync lets go of the
\* collection after that.
Unregister(t) ==
    /\ At(t, "unregister") /\ syncAbort' = None /\ Return(t)
    /\ colLock' = IF Calling(t, {"full"}) THEN None ELSE colLock
    /\ UNCHANGED <<col, waiting, passed, mediaVars, backupVars, calls>>

\* The sync of the collection ends; if it went well the media sync follows.
SyncEnds(t) ==
    /\ At(t, "in") /\ Calling(t, {"sync"})
    /\ colLock' = None
    /\ \/ col = "open" /\ Goto(t, "task")
       \/ Goto(t, "unregister")
    /\ UNCHANGED <<col, waiting, passed, mediaVars, syncAbort, backupVars, calls>>

\* full_sync_inner takes the collection out of its place while it holds it.
FullSync(t) ==
    /\ At(t, "in") /\ Calling(t, {"full"})
    /\ IF col = "open"
       THEN col' = "taken" /\ syncAbort' = t /\ Goto(t, "fullRun") /\ UNCHANGED colLock
       ELSE colLock' = None /\ Return(t) /\ UNCHANGED <<col, syncAbort>>
    /\ UNCHANGED <<waiting, passed, mediaVars, backupVars, calls>>

\* It is reopened, whatever came of the sync; that may fail. The collection is
\* held further on.
FullSyncEnds(t) ==
    /\ At(t, "fullRun")
    /\ \/ col' = "open" /\ Goto(t, "task")
       \/ col' \in {"open", "closed"} /\ Goto(t, "unregister")
    /\ UNCHANGED <<colLock, waiting, passed, mediaVars, syncAbort, backupVars, calls>>

AfterTask(t) ==
    IF Calling(t, {"media"}) THEN Return(t) ELSE Goto(t, "unregister")

\* sync_media_in_background: one media sync at a time.
TakeTask(t) ==
    /\ At(t, "task") /\ taskLock = None
    /\ IF media.at \in {"none", "finished"}
       THEN /\ taskLock' = t /\ Goto(t, "slot")
            /\ media' = [at |-> "none", told |-> FALSE]
       ELSE UNCHANGED <<taskLock, media>> /\ AfterTask(t)
    /\ UNCHANGED <<colVars, slot, want, syncAbort, backupVars, calls>>

\* Fault: the handle is put in its place after the thread has been started.
SpawnFirst(t) ==
    /\ At(t, "slot")
    /\ IF media.at = "none"
       THEN /\ media' = [media EXCEPT !.at = "spawned"]
            /\ UNCHANGED <<taskLock, slot, pc>>
       ELSE slot' = TRUE /\ taskLock' = None /\ AfterTask(t) /\ UNCHANGED media
    /\ UNCHANGED <<colVars, want, syncAbort, backupVars, calls>>

SetSlot(t) ==
    /\ At(t, "slot") /\ slot' = TRUE /\ Goto(t, "spawn")
    /\ UNCHANGED <<colVars, taskLock, media, want, syncAbort, backupVars, calls>>

Spawn(t) ==
    /\ At(t, "spawn") /\ taskLock' = None
    /\ media' = [media EXCEPT !.at = "spawned"] /\ AfterTask(t)
    /\ UNCHANGED <<colVars, slot, want, syncAbort, backupVars, calls>>

-----------------------------------------------------------------------------
\* The media thread: sync_media_blocking.

MediaUnchanged ==
    UNCHANGED <<colVars, taskLock, syncAbort, backupVars, pc, calls>>

\* It takes what it needs of the collection; its progress clears the flag.
MediaStarts ==
    /\ media.at = "spawned" /\ colLock = None
    /\ IF col = "open"
       THEN media' = [media EXCEPT !.at = "run"] /\ want' = FALSE
       ELSE media' = [media EXCEPT !.at = "ending"] /\ UNCHANGED want
    /\ UNCHANGED slot /\ MediaUnchanged

\* It waits for the network, or works and looks at the flag now and then.
MediaHears ==
    /\ media.at = "run" /\ ~media.told /\ media' = [media EXCEPT !.at = "busy"]
    /\ UNCHANGED <<slot, want>> /\ MediaUnchanged

MediaWorks ==
    /\ media.at = "busy"
    /\ IF want THEN media' = [media EXCEPT !.at = "ending"]
       ELSE media' = [media EXCEPT !.at = "run"]
    /\ want' = FALSE
    /\ UNCHANGED slot /\ MediaUnchanged

MediaAborted ==
    /\ media.at = "run" /\ media.told
    /\ media' = [media EXCEPT !.at = "ending"]
    /\ UNCHANGED <<slot, want>> /\ MediaUnchanged

MediaDone ==
    /\ media.at = "run" /\ media' = [media EXCEPT !.at = "ending"]
    /\ UNCHANGED <<slot, want>> /\ MediaUnchanged

MediaClears ==
    /\ media.at = "ending" /\ slot' = FALSE
    /\ media' = [media EXCEPT !.at = "leaving"]
    /\ UNCHANGED want /\ MediaUnchanged

MediaLeaves ==
    /\ media.at = "leaving" /\ media' = [media EXCEPT !.at = "finished"]
    /\ UNCHANGED <<slot, want>> /\ MediaUnchanged

-----------------------------------------------------------------------------
\* Backups.

\* create_backup, with the collection held
GoToBackup(t) ==
    /\ At(t, "in") /\ Calling(t, {"backup", "backupAndWait"})
    /\ IF col = "open" THEN Goto(t, "takeBackup") /\ UNCHANGED colLock
       ELSE Return(t) /\ colLock' = None
    /\ UNCHANGED <<col, waiting, passed, mediaVars, syncAbort, backupVars, calls>>

TakeBackupTask(t) ==
    /\ pc[t].at \in {"takeBackup", "takeBackup2"} /\ backupLock = None
    /\ backupLock' = t
    /\ Goto(t, IF At(t, "takeBackup") THEN "joinBackup" ELSE "joinBackup2")
    /\ UNCHANGED <<colVars, mediaVars, syncAbort, stored, backups, calls>>

\* Fault: the previous backup is not awaited.
StartBackupAtOnce(t) ==
    /\ At(t, "joinBackup")
    /\ colLock' = None /\ backups' = backups + 1
    /\ IF Calling(t, {"backupAndWait"})
       THEN stored' = FALSE /\ Goto(t, "waitBackup") /\ UNCHANGED backupLock
       ELSE stored' = TRUE /\ Return(t) /\ backupLock' = None
    /\ UNCHANGED <<col, waiting, passed, mediaVars, syncAbort, calls>>

\* The previous backup is awaited; the new one has its own copy of the data.
StartBackup(t) ==
    /\ At(t, "joinBackup") /\ (stored => backups = 0)
    /\ colLock' = None
    /\ \/ /\ backups' = backups + 1
          /\ IF Calling(t, {"backupAndWait"})
             THEN stored' = FALSE /\ Goto(t, "waitBackup") /\ UNCHANGED backupLock
             ELSE stored' = TRUE /\ Return(t) /\ backupLock' = None
       \/ /\ stored' = FALSE /\ backupLock' = None /\ Return(t)
          /\ UNCHANGED backups
    /\ UNCHANGED <<col, waiting, passed, mediaVars, syncAbort, calls>>

BackupAwaited(t) ==
    /\ \/ At(t, "waitBackup") /\ backups = 0 /\ UNCHANGED stored
       \/ At(t, "joinBackup2") /\ (stored => backups = 0) /\ stored' = FALSE
    /\ backupLock' = None /\ Return(t)
    /\ UNCHANGED <<colVars, mediaVars, syncAbort, backups, calls>>

BackupWritten ==
    /\ backups > 0 /\ backups' = backups - 1
    /\ UNCHANGED <<colVars, mediaVars, syncAbort, backupLock, stored, pc, calls>>

-----------------------------------------------------------------------------
ThreadStep(t) ==
    \/ AtOnce(t) \/ WithCol(t) \/ LockCol(t) \/ PartMayBegin(t) \/ LockForPart(t)
    \/ Leave(t) \/ OpenCollection(t) \/ CloseCollection(t)
    \/ AbortMedia(t) \/ SeeSlot(t) \/ Nap(t)
    \/ Register(t) \/ Unregister(t) \/ SyncEnds(t) \/ FullSync(t) \/ FullSyncEnds(t)
    \/ TakeTask(t) \/ SetSlot(t) \/ Spawn(t)
    \/ GoToBackup(t) \/ TakeBackupTask(t) \/ StartBackup(t) \/ BackupAwaited(t)

MediaStep ==
    MediaStarts \/ MediaWorks \/ MediaAborted \/ MediaClears \/ MediaLeaves

Next ==
    \/ \E t \in Threads : (\E call \in Calls : Begin(t, call)) \/ ThreadStep(t)
    \/ MediaStep \/ MediaHears \/ MediaDone
    \/ BackupWritten

Spec == Init /\ [][Next]_vars

\* A thread goes on, and so does a media sync that works or is aborted; one
\* that waits for the network may do so for as long as it likes.
FairSpec ==
    /\ Spec /\ \A t \in Threads : WF_vars(ThreadStep(t))
    /\ WF_vars(MediaStep) /\ WF_vars(BackupWritten)

-----------------------------------------------------------------------------
\* A media sync that has not ended can be aborted: its handle is there before its
\* thread is, and goes only with it (backend/sync.rs 216-220, 257-259).
AbortReachesMedia ==
    media.at \in {"spawned", "run", "busy"} => slot

\* One thread alone closes the collection, replaces it and syncs.
OneThreadSyncs == \A t, u \in Threads :
    Does[t] \cap {"close", "full"} # {} /\ Does[u] \cap {"sync", "full", "media"} # {} => t = u

\* No media sync runs on a collection that is closed or being replaced, as long
\* as one thread alone closes and syncs: the wait for the handle comes before the
\* lock of the collection (backend/collection.rs 42-43, backend/sync.rs 421-425).
QuietWhileClosed == col # "open" => media.at \notin {"run", "busy"}

\* A call that waits for the collection waits for one part of each long read
\* that runs, unless it has waited for a second (backend/mod.rs 144-151).
PartsLetCallsIn ==
    \A t \in waiting :
        passed[t] <= Cardinality({r \in Threads : "read" \in Does[r]})

\* A backup begins when the previous one has been written (backend/collection.rs
\* 60-64), whether or not somebody waits for that one.
BackupsOneAtATime == backups <= 1

\* Every call returns, whatever others hold and wait for: a one-way sync takes
\* media_sync_task with the collection held, a backup backup_task. Closing the
\* collection aborts a media sync that waits for the network (backend/sync.rs
\* 282-297, 425-469).
CallsReturn == \A t \in Threads : ~At(t, "idle") ~> At(t, "idle")
=============================================================================
