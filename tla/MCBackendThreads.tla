-------------------------- MODULE MCBackendThreads --------------------------
(***************************************************************************)
(* The desktop program: what uses the collection for long runs in one      *)
(* thread, the requests of web pages in another. The main thread opens the *)
(* collection, makes short calls and presses the buttons; the status of    *)
(* the media sync, asked for by threads of a pool, is counted to it.       *)
(***************************************************************************)
EXTENDS BackendThreads, TLC

CONSTANTS executor, page, main

DesktopDoes ==
    (executor :> {"close", "full", "sync", "login", "media", "backup"})
    @@ (page :> {"call", "read", "backupAndWait"})
    @@ (main :> {"open", "call", "mediaStatus", "abortSync", "abortMedia",
                 "wantAbort", "awaitBackup"})

\* Of these only the executor closes, replaces and syncs the collection: the
\* hypothesis under which QuietWhileClosed is proved. The main thread does close
\* it after a failed load (main.py 693-695), when no sync has been queued yet.
ASSUME DesktopDiscipline == OneThreadSyncs

DesktopCalls == (executor :> 2) @@ (page :> 1) @@ (main :> 1)
=============================================================================
