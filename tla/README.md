# Clanki: a verification of the collection core

Clanki is a fork of Anki: a desktop program (Python and Qt, `src/qt`, `src/pylib`) and web views
(`src/ts`) over a Rust library (`src/rslib`) that owns the collection, an SQLite database of notes,
cards, decks, presets and review logs. Everything that changes the collection goes through the
library, as a call that takes the collection's lock (`backend/mod.rs`, `with_col`), runs in a
transaction (`collection/transact.rs`), and records what it takes to undo it (`undo/`).

This directory holds TLA+ models of that core, the runs that check them with TLC, and proofs
checked by TLAPS. Paths below are relative to `src/rslib/src/` unless they begin with `src/`.

- [1. The system](#1-the-system)
- [2. UndoManager and UndoHistory](#2-undomanager-and-undohistory)
- [3. StudyQueue](#3-studyqueue)
- [4. CardLifecycle](#4-cardlifecycle)
- [5. QueueBuilder](#5-queuebuilder)
- [6. CollectionSync and SharedCollection](#6-collectionsync-and-sharedcollection)
- [7. MediaSync](#7-mediasync)
- [8. BackendThreads](#8-backendthreads)
- [9. The runs](#9-the-runs)
- [10. Disagreements found, and races let out](#10-disagreements-found-and-races-let-out)
- [11. The proofs](#11-the-proofs)
- [12. Not modelled, and the plan](#12-not-modelled-and-the-plan)

## 1. The system

| component | state it keeps | operations | what makes it hard |
|---|---|---|---|
| Undo manager and transactions (`undo/`, `collection/transact.rs`, the `undo.rs` of each table) | undo and redo queues, the step being recorded, a counter, a mode | transact, transact without undo, undo, redo, custom step, merge | failure half way; edits that share a step; operations that skip the queue; a counter that goes back |
| DB proxy (`backend/dbproxy.rs`) | an open transaction, `modified_by_dbproxy` | statement, begin, commit, rollback | it wraps whole operations of the manager |
| Study queue (`scheduler/queue/`) | a cache of due cards, their counts, a learning cutoff, the day and time it was built | fetch, answer, undo and redo of an answer, drop, rebuild around a card | a cache that is patched, not rebuilt; time passes; it is dropped and rebuilt behind the reviewer |
| Queue builder (`scheduler/queue/builder/`) | limits and notes already seen, while building | gather, bury siblings, sort, mix | limits of nested decks; burying that depends on the order |
| Answering, card states (`scheduler/answering/`, `scheduler/states/`) | none: from a state and an answer to the next state | next states, answer, grade now | boundaries of steps, intervals and days |
| Burying, suspending, rescheduling (`scheduler/bury_and_suspend.rs`, `reviews.rs`, `new.rs`) | fields of cards | bury, unbury, suspend, set due date, forget, reposition | they change cards behind the queue; the day's end undoes some |
| Filtered decks (`scheduler/filtered/`) | cards away from their home deck | build, empty, return a card | a card has two decks and two due dates |
| Collection sync (`sync/collection/`, `backend/sync.rs`) | USNs, graves, three timestamps; the server's active sync | meta, start, graves, changes, chunks, sanity check, finish, abort | lost answers, aborts, two clients, merging by time |
| Sync server (`sync/http_server/`) | per user: collection, active sync and its key | the handlers of that protocol | one client's request ends another's sync |
| Full upload and download (`sync/collection/upload.rs`, `download.rs`) | the collection file | replace it, open it again | failure between closing and opening |
| Media sync (`sync/media/`) | folder, media database, last USN | register changes, fetch, send, sanity check | files and database are not one transaction |
| Backend (`backend/mod.rs`, `backend/collection.rs`, `progress.rs`) | locks, abort handles, a backup task, one progress and abort flag | open, close, backup, abort | threads; waiting under a lock |
| Sidecars (`storage/sidecar.rs`) | two attached databases | attach, check, replace, bring into step | a crash between two commits |
| Decks, presets, algorithm (`decks/`, `deckconfig/`) | the deck tree, presets, one algorithm mirrored in all presets | add, rename, move, remove; limits; change the algorithm | presets that arrive one by one from a sync |
| RWKV in the desktop program (`src/qt/aqt/rwkv_scheduler.py`) | model state, scores, undo frames, background passes | score the queue, review, undo, stop for a close or full sync | threads beside the reviewer; state keyed by undo counters |
| Reviewer and operations (`src/qt/aqt/reviewer.py`, `operations/`, `taskman.py`) | the card shown; one worker for the collection | show, answer, undo | callbacks that arrive late |
| Notes, tags, search, import, export, checks, rendering, statistics | tables, or nothing | mostly sequential conversion | little that tests do not reach |

How they interact: the reviewer asks the study queue for the next card and answers it; answering is a
transaction, so the undo manager records the card, the review log entry and *the patch of the queue*
as changes of one step; any other operation that touches cards drops the queue when it commits; a sync,
a statement of the DB proxy or a transaction without undo drops both the queue and the steps; the
desktop's background work installs scores, which drops the queue but not the steps. So the two caches
of the collection - the queue and the undo steps - refer to each other and are invalidated by different
rules. `UndoManager` models how steps are recorded and replayed over the database, `StudyQueue` how the queue
survives answers, their undo and everything beside them, `QueueBuilder` which cards the queue is made of, and
`CardLifecycle` what all the operations on cards, mixed, do to the cards themselves.

Outside the collection lock there are three more conversations. A sync of the collection is a dozen requests
between two transactions, one on each side, and the only acknowledgment is the last: `CollectionSync`. A media
sync is a dialogue of three parties, folder, database and server, that share no transaction: `MediaSync`. And
the threads that hold all this together wait for each other through three locks, two abort handles and a
flag: `BackendThreads`.

`PROJECT.json` lists the components with their sources, and every hazard at the line where it bites with
the properties that cover it, or the reason why none does yet.

## 2. UndoManager and UndoHistory

| in the model | in the code |
|---|---|
| `undoSteps`, `redoSteps`, `mode`, `currentStep`, `counter` | `UndoManager` (`undo/mod.rs`) |
| `db` (rows, graves, `mod`) | the tables notes, cards, config; graves; `col.mod` |
| `saved`, `outer` | the savepoint "rust"; the transaction of `DBProxy.transact` |
| `BeginUndoable`, `BeginNoUndo`, `CommitUndoable`, `CommitNoUndo`, `Fail` | `transact_inner` |
| `AddRow`, `UpdateRow`, `RemoveRow` | the `*_undoable` functions of `notes/undo.rs`, `card/undo.rs`, `config/undo.rs` |
| `BeginUndo`, `BeginRedo`, `ReplayChange` | `undo`, `redo`, `undo_inner`, `undo_*_change` |
| `Coalesced` (in `CommitUndoable`) | `maybe_coalesce_note_undo_entry` |
| `AddCustomStep`, `Merge` | `add_custom_step`, `merge_undoable_ops` |
| `ProxyWrite`, `ProxyBegin`, `ProxyCommit`, `ProxyRollback` | `db_command_bytes_inner` |
| `Discard` | `discard_undo_and_study_queues` from sync and day rollover |

The collection lock excludes other operations but not a failure inside one. An operation is therefore
several steps - begin, row writes, commit or fail - and undo replays one change per step, so a failure may
come at every point. Notes and cards stand for all tables whose removal leaves a grave, keys for those
whose removal does not; they differ in the order in which row and grave are recorded and in what is saved
for redo, and the model keeps those differences (`RemoveRow`, `InverseOf`).

`UndoHistory` is what undo promises to the user: a present state, a past and a future of whole states.
`UndoManager` keeps only changes. The refinement mapping computes the past from them - `Trail` reverts the
steps one after the other - and `History` says that the result behaves like `UndoHistory`: whatever was
written several times in one step, coalesced or merged, undo leads to the very state before it,
with graves and the modification time; and an operation or an undo that fails leaves the present as it was
and takes only the history (`Forget`). That the present changes and the history is lost as well (`Overwrite`) is
the mark of a write that cannot be undone, and is allowed only while no operation that can be undone is under way
(`recording`); a failed operation without undo may pass for one. `ContentHistory` says the same of notes, cards
and graves only, when operations with `Op::SkipUndo` and proxy transactions come in between, which write config
and the modification time without recording them.

The other properties: `ReplayNeverMissesRow` (an update is never undone on a row that is gone, nor redone but for
a config key that was written back outside the queue, see 10),
`CountersDescend` (a merge target is unambiguous although merging sets the counter back), `StepsBounded`,
and one `TypeOK`.

Bounds: `MaxCounter` (steps begun), `MaxProxyCounter` (steps begun until the end of a transaction of
`DBProxy`), `MaxWrites` (row writes in a transaction), `MaxMerged` (changes of a merged step), `MaxTime`. With
`UndoLimit = 2` the queue overflows, is undone to its end and filled again, and a merge takes in the whole queue.
Both runs have one write in a transaction, before or after which it may fail. In `undo_merge` the writes are those of an
edit - additions, updates and removals with their graves, all recorded - of the update of a note, which coalesces,
of a custom step and of an operation without undo; a row is changed twice in a step, or added and removed, by steps
that are merged. Transactions of several writes are left to the proof (11), which has no bound on them. `undo_skip` has seven
steps, enough for three operations, two undos and two redos of them. Two values tell a restored value from another. `Ops` and `ProxyOutcomes` pick the kinds of operation a run mixes. `MCUndoManager`
declares the symmetry: notes are alike, and so are values, for properties that are all safety.

No fairness is assumed: a caller may stop anywhere, and every property is a safety property. A transaction
without undo is always possible, so deadlock is checked.

## 3. StudyQueue

| in the model | in the code |
|---|---|
| `queues` (`main`, `learning`, `counts`, `cutoff`, `day`, `build`) | `CardQueues` (`scheduler/queue/mod.rs`) |
| `card` (queue, due, tried, at, mtime) | the fields of a card the queue reads; `tried` is `reps > 0` |
| `undoSteps`, `redoSteps` | the steps, each with its `QueueUpdate` (`scheduler/queue/undo.rs`) |
| `shown` | the card on the reviewer's screen |
| `GetNextCard`, `Peek` | `get_queued_cards(1)`, and `get_queued_cards(0)` for counts |
| `Answer` | `answer_card`, `update_queues_after_answering_card` |
| `Undo`, `Redo` | `undo`, `redo` with `undo_queue_change` |
| `Bury`, `SetDueToday` | operations that drop the queue (`maybe_clear_study_queues_after_op`) |
| `InstallScores`, `TransactNoUndo`, `RebuildPreserving` | `set_rwkv_review_queue_score_entries`, `transact_no_undo`, `rebuild_queued_cards_preserving_current_card` |
| `Tick`, `Restart` | the clock; the program ends |

Each action is one call of the backend: calls hold the collection lock from beginning to end, so the
interleaving is of whole calls, and what can go stale is what the reviewer holds between two calls (the card
shown) and what one cache holds of another (a step's patch of a queue that was rebuilt).

What the builder gathers from the cards is abstracted to *any* subset of the due cards in *any* order for the
main queue - deck limits, sibling burying, sort orders and scores can all make such a queue - and to all
learning cards due today in their order. A binary search in a list with equal keys may answer any place
among them, in an unordered list any place at all. Build times are distinct: two queues built in the same
millisecond are not modelled; the mutant `SameBuildUnchecked` shows what would happen.

The properties:

- `CountsMatch`: the counts on the screen are those of the queue, although they are only ever moved along;
- `UndoneIsBefore`: from every queue reached, an answer undone at once or later gives back that very queue;
- `RedoFindsCard`, `NoCardTwice`, `LearningInOrder`: what undo leaves is what redo and insertion rely on;
- `QueueFresh`, `ShownCanBeAnswered`: neither the queue nor the screen is stale when used;
- `LearnersKept`: no learning card of today falls out of the queue;
- `StaysOnCard`: time that passes does not change the card on the screen;
- `NeverPanics`.

Bounds: two cards, `MaxTime` 2 to 4 seconds. Two cards suffice for "another card stands before it" and for a
requeue behind the next card. `study_replay` keeps two steps in each queue (`MaxSteps`), so that a step is undone
behind another and redone in turn; `study_day`, about one answer or edit against the end of the day and a queue that
is rebuilt, keeps one. `LearnAhead` is 0 or 1 and a learning step takes 1 or 3 seconds, so a step can end before, at
and beyond the learn-ahead cutoff. With `DayLength` 2 or 3 the day ends within the clock's bound; with 20 it does
not. `Background` says what may happen beside the reviewer: in `study_replay` queues are dropped between two cards and
counts are asked for under a card, in `study_day` the queue is rebuilt around a card and deferred reviews become
ready. `Previewed` says which cards are in a deck that only previews. Nothing but safety is stated, so no fairness is
assumed. The cards are symmetric in the runs that do not single one out.

`shown_top_card` of `CardQueues` is not in the model: the queue sets and clears it, and only a test reads it.

## 4. CardLifecycle

| in the model | in the code |
|---|---|
| `card[id]`: `deck`, `home`, `type`, `queue`, `due`, `odue`, `position` | `Card`: `deck_id`, `original_deck_id`, `ctype`, `queue`, `due`, `original_due`, `original_position` |
| `reschedule[f]` | the setting of a filtered deck: its answers count, or it only previews |
| `unburied` | the config entry `lastUnburied` |
| `Answer` | `answer_card_inner`, from the reviewer or by Grade Now, with leeches and siblings buried |
| `BuryOrSuspend`, `UnburyOrUnsuspend`, `UnburyOnDayRollover` | `scheduler/bury_and_suspend.rs` |
| `SetDueDate`, `RescheduleAsNew`, `SortCards`, `SetDeck` | `scheduler/reviews.rs`, `scheduler/new.rs`, `card/mod.rs` |
| `AdvanceOrPostpone`, `Reschedule` | `scheduler/advance_postpone.rs`; the rescheduling of `scheduler/fsrs/memory_state.rs` |
| `RebuildFilteredDeck`, `EmptyFilteredDeck` | `scheduler/filtered/mod.rs` |

One number, `due`, is a position, a day or a second, and which of them it is follows from type and queue, which
several operations hide, replace and find again. Each operation is one transaction under the collection lock;
the hazard is a long legal sequence of them. Values are symbolic: which interval, delay, order or position an
operation gives is any of a small set, which of the buttons was pressed any possible outcome.

The properties: `AwayHasHome` and `DueFitsQueue` (a card away knows its way home, a card at home has a due
number of its own kind), `FilteredDecksKeepSchedules` (building, emptying and previewing change no schedule),
`PositionRemembered` (a card's place among the new cards survives whatever makes it cease to be new).

Bounds: two siblings, one home deck and one filtered deck, one position, one delay (it passes the end of the day
or not, by the time of the answer), an interval of one day, and a clock that passes from the last second of a
day into the next; a card is due today when that day has come, or by `AdvanceOrPostpone`. The collection is five days old and a timestamp is anything beyond 100, so that a day, a
position, a place in the filtered deck (from -50) and a second never coincide. `MaxDue` bounds how far positions
are shifted: a new card at position 1 may be shifted to 2 by a reposition of its sibling. The two cards are interchangeable (symmetry). No fairness: all properties are safety.

A card due at 0 at home is excluded here by the choice of positions and of `FirstDay`: with `Positions = {0, 1}`
`FilteredDecksKeepSchedules` is violated (section 10).

## 5. QueueBuilder

| in the model | in the code |
|---|---|
| `conf`, `Path`, `HomeOf` | the presets and limits of decks, the deck tree, `original_deck_id` |
| `studied` | `new_studied`, `review_studied` and `last_day_studied` of each deck |
| `build`: `tree`, `modes`, `pinned`, `got`, `learning`, `left` | `QueueBuilder`: `limits`, `seen_note_ids`, `pinned_card_id`, what is gathered, and what its query still has to give |
| `queue`, `changed` | `CardQueues`, and the cards whose `mtime` is no longer that of their entry |
| `GetQueues`, `RebuildPreserving` | `get_queues`, `rebuild_queued_cards_preserving_current_card` |
| `Open`, `GatherCard`, `NextPhase`, `FinishBuild` | `pin_current_card`, `gather_cards` card by card, `build` |
| `Show`, `Answer` | `get_queued_cards(1)`; `answer_card` with `maybe_bury_siblings` and `update_deck_stats_from_answer` |
| `SelectDeck`, `ChangeOptions`, `ExtendLimits` | `set_current_deck`; a change of presets; custom study's longer limits |
| `LookAtDecks`, `NewDay` | `deck_tree`, which gives back yesterday's buried cards; the day ends |
| `TreeCounts`, `DeckDueCounts` | `deck_tree`, `deck_due_counts` |

`StudyQueue` takes a built queue to be any choice of due cards; this module is about the choice. The builder visits
cards in one of three ways - each kind by itself, all due cards by retrievability, or whatever cards have scores -
and within them in any order, which is every sort key there is. A card is taken if the top of the tree of limits
and the card's deck have something left and no sibling visited before buries its kind; a visit of a buried card still
adds to what buries its siblings. The reviewer then answers from the queue while options, limits, the selected deck or
the day change. Learning cards of the day are outside limits and come before or after the rest by the clock, so either.

- `WithinLimits`: at every moment of the day the queue holds no more than is left of every limit above its cards,
  although the builder decrements one tree and the answers count in another place. Only the card a queue was rebuilt
  around may be one too many: it is kept whatever the limits say.
- `QueuedUnchanged`: no answer changes a card that is still queued; the code's own assertion.
- `NothingWithheld`: a due card is left out only for a limit that is used up, or for a sibling that was gathered where the
  options of a sibling's deck bury cards of its kind.
- `DeckListAgrees`: the deck list, which never looks at single cards, has the numbers of the queue.
- `CountsOfOneDeck`: the shortcut for one deck's counts equals its node in the whole tree, as its comment says.

Bounds: three nested decks and a filtered one below the top; two notes of two cards, one with cards in two decks, one
with a card in the filtered deck; limits of 0 to 3, so that each is met before, at and beyond the number of cards, and a
child's is below or above its parent's; one event of `MaxEvents` (a new day, a deck selected, a change of options or
limits) in a day of any number of answers. `Confs` has five sets of options: the three gather orders, nothing buried,
all buried and a preset per deck, limits of parents counted or not, new cards counted as reviews or not, every mix.
The options under which an answer does bury a queued card are those of the run `queue_siblings` (10.2). All
properties are safety, so no fairness; when all is answered and no event is left the day is over, and deadlock is not
checked.

## 6. CollectionSync and SharedCollection

| in the model | in the code |
|---|---|
| `base[c]`, `work[c]` | the collection file of a device; what its open transaction sees |
| `sync[c]`: `at`, `key`, `usn`, `newer`, ... | where `normal_sync_inner` is, with `ClientSyncState` |
| `server`, `draft`, `session` | the server's collection, its open transaction, `User.sync_state` with its `ServerSyncState` |
| `unstamped` | between the commit and `set_modified_time` in `server_finish` |
| `net`, `answer` | requests under way, and the answer to the last |
| `undo[c]` | what the last undoable operation would restore, which matters for the modification time |
| `MakeAnew`, `Reconciled` | `reconcile_fsrs_state_after_sync` and `repair_fsrs7_state_of_foreign_cards_inner`, between the last chunk received and the first sent |
| `made` | nothing: a history, of which change of a user a card made anew was made from |
| `Begin`, `Got*` | one step of the client for each answer (`sync/collection/*.rs`) |
| `Serve*`, `Refuse`, `Stamp` | one handler of the server each (`sync/http_server/handlers.rs`, `user.rs`) |
| `Timeout`, `Interrupt`, `RollBack`, `MarkSchema` | the ways a sync fails (`normal.rs`, `backend/sync.rs`) |
| `Upload`, `Download` | one-way syncs |
| `Write`, `Remove`, `Readd`, `WriteConf`, `Undo`, `ChangeSchema` | what users do between syncs |
| `Crash` | the server stops, in a session or between commit and stamp |

Two devices and a server. A request may be lost, answered late, or arrive when its sender has given up; the
server serves one at a time. Cards stand for what is sent in chunks and merged row by row by USN and second,
decks for what is sent in one piece and merged by second alone, `conf` for the configuration, of which the newer
collection's wins whole. Chunks have one or two rows, so a transfer has an empty last chunk, one, or two.

When a device has received all cards, it may compute the FSRS state of *any* card it holds anew, before it sends its
own (`sync/collection/normal.rs:213-222`): of a card both sides changed, and of every card whose state was written by
another client program, whoever changed it last or if nobody did. Which ones depends on their data, so any subset; each is
a new row with the time of the sync, marked as unsent. A card in which another program wrote its state has been edited by that
program, so that making anew a card that is no clash counts as one of `MaxEdits`.

`SharedCollection` says what normal syncs promise: devices edit copies of one collection and meet it one at a
time; a copy differs from it only in what the device has still to send or to be sent; a meeting keeps every
object that only one side has changed; a device takes over a meeting whole or not at all. What is kept is the change a
*user* made last: a card that a sync has made anew stands for the change it was made from (`Origin`), so the repair may
put another row in its place but may not bring back an older change, or lose one. `SharedSpec` is the
refinement: the meeting is the server's commit, and what a device does with it - take it over, or never hear of
it - comes after. The mapping reads pending rows as *dirty* and rows with a USN not below the device's as *stale*.
It is checked by `sync_merge` and proved for any number of devices and objects (11).

The other properties: `SameStampSameContent` (equal modification times, which end a sync at its first answer,
mean equal collections), `CountsNeverDiffer` (no one-way sync is forced on users by normal ones),
`NothingLeftUnsent`, `AgreeAtCommit` (both sides merge alike, by different rules, and no older row wins; a card made anew
is pending and goes with the same sync), and `Converges` (liveness). `crossed` records that another device's sync came
between the requests for meta and start of a device that *is in a session now*, after which its rows carry a USN others
have been served already (section 10); the properties about both sides promise nothing from then on. A start that arrives
late, from a device that has given up, ends the session that is open and opens one nobody uses; it excuses nothing, and the
properties hold over it.

Bounds: one card and one deck (one card where users remove and add), two or three edits, one fault (a sync while
another runs, a lost or late request, an interrupt or a crash), one stray request. Two edits are a conflict, or an
edit on each device; three are remove, add, remove. Each edit has a second of its own (`MsPerSec = 1`), so two edits of one
object in the same second, on two devices, are not among what the properties are about: `AgreeAtCommit`,
`SameStampSameContent` and `SharedSpec` are false of them (sections 10 and 11). `sync_converge` has no stray request; they are in
`sync_merge` and in the proofs. Devices are interchangeable in `sync_merge`; there is no symmetry in the run with liveness. Users may stop editing, and a device in
the midst of nothing need not sync, so deadlock is not an error here and is not checked.

Fairness (`FairSpec`): a device syncs again while there is something to sync (the program syncs when it opens and
closes), goes on with an answer it has, gives up when none can come (the network has timeouts), and its user
chooses a side when asked; the server serves what waits, and goes on from the commit to the stamp unless it stops.
None of it makes users edit, faults happen or an undelivered request arrive.

## 7. MediaSync

| in the model | in the code |
|---|---|
| `disk[c]` | the media folder |
| `row[c]`, `usn[c]`, `fresh[c]` | the client's media database: rows with checksum and pending flag, `last_sync_usn`, and whether `folder_mtime` is the folder's |
| `job[c]` | where `MediaSyncer::sync_inner` is |
| `entry`, `lastUsn` | the server's media database |
| `Start`, `Compare` | `register_changes`, and the USN that came with the collection's sync or from `begin` |
| `Fetch`, `Download`, `Record` | `fetch_changes`: remove, download in parts, and the transaction that ends a batch |
| `Upload`, `MarkSent` | `send_changes`: the request, and the transaction after its answer |
| `FinalizeSync` | `finalize_sync`, and the forced resync when the numbers of files differ |
| `AddFile`, `TrashFile`, `ChangeOutside` | the editor, the media check, another program |
| `Stop` | abort, network failure or the end of the program, anywhere |

The parties share no transaction: between any two steps of a sync the user may change the folder, through the
program (which writes a row) or behind its back (which changes the folder's time), another device may sync, and the
sync may stop. `NothingSkipped`: a device that has seen the server's number *n* has applied every change up to *n*.
`FolderRegistered`: while the folder's time is the one in the database, the rows are right. `FoldersConverge`
(liveness): once users stop, all folders become equal.

These hold but for devices that a race has put out of step, in the model a member of `slipped`; which races those are
is listed in 10. `slipped` is emptied of a device by its forced resync.

Bounds: two devices, two files, two contents, two edits and one stop; a batch and a zip take both files. With three
files or batches of one the run passes its time; what a second batch adds is a stop or an edit between two
transactions, which the two edits and the stop already place everywhere. For the two invariants the proof (11) makes these bounds
immaterial. Fairness: each device goes on with its media
sync while there is work - the program starts one periodically (`src/qt/aqt/main.py:1994`, `2017`) and after each
sync of the collection. A state in which all is synced and no edit is left is an end, so deadlock is not checked.

## 8. BackendThreads

| in the model | in the code |
|---|---|
| `col`, `colLock`, `waiting`, `passed` | `Backend.col`, its mutex, `col_waiters` |
| `slot`, `taskLock`, `media` | `media_sync_abort`, the lock of `media_sync_task`, and the media thread |
| `want` | `progress_state.want_abort` |
| `syncAbort` | `sync_abort`, the handle that login, sync and one-way sync share |
| `backupLock`, `stored`, `backups` | `backup_task`, and the backups being written |
| `pc[t]` | where in which call a thread is |
| `WithCol`, `LockCol`, `PartMayBegin`, `LockForPart`, `Leave` | `with_col`, `lock_open_collection`, `with_col_for_a_part` |
| `AbortMedia`, `SeeSlot`, `Nap` | `abort_media_sync_and_wait` |
| `Media*` | `sync_media_blocking` in its thread, with the network and the progress handler |
| `StartBackup`, `BackupAwaited`, `BackupWritten` | `create_backup`, `await_backup_completion`, the backup's thread |

A step is what a thread does between two of its locks. Mutexes are not fair: whoever waits may be passed over.
A one-way sync keeps the collection to its very end, also while it starts the media sync that follows
(`backend/sync.rs:425-469`): the one place where `media_sync_task` is taken with the collection held (`Inside`).
`Does` gives the calls each thread makes; `MCBackendThreads` instantiates it as the desktop program does: what uses the
collection for long runs in one executor (`src/qt/aqt/taskman.py`), web pages read in parts and make backups in
another thread, the main thread opens the collection (`src/qt/aqt/main.py:681-734`, `772-778`), makes short calls and presses
the buttons. The status of the media sync and of the collection's sync is asked for in the pool for work without a collection
(`src/qt/aqt/mediasync.py:59-65`, `src/qt/aqt/sync.py:106-111`); the model counts those calls to the main thread.

`CallsReturn` (liveness): every call returns. It contains that nothing deadlocks, and that closing and one-way syncs reach
a media sync that waits for the network. It says nothing of starvation: with finitely many calls and parts nobody is passed
over for ever, and the limit on how long a part of a read waits for other callers (`MAX_WAIT_FOR_WAITING_CALLS`), which the
model has as a choice (`PartMayBegin`), would not be missed. What bounds how often a waiting call is passed over is `PartsLetCallsIn`.
`AbortReachesMedia`, `QuietWhileClosed`, `PartsLetCallsIn`, `BackupsOneAtATime` and `TypeOK` are invariants.
`QuietWhileClosed` needs the desktop's discipline: if two threads could close and start media syncs, one could begin
between the wait and the lock (`backend/collection.rs:42-43`). The executor closes and syncs everywhere but in one place: after
a load that failed the main thread closes the collection itself (`src/qt/aqt/main.py:693-695`). No sync has been started by then,
so nothing is lost by leaving it out, but the discipline is not enforced by the code.

Bounds: two calls of the executor, one of each of the others, reads of two parts. Each pair of calls meets in every
interleaving; a third call of the executor multiplies the states beyond the time of a run. Fairness: weak fairness of
each thread, of the media thread's own steps once it is aborted or works, and of the backup's; the network may take
for ever. When all calls are made the run stops, so deadlock is not checked: `CallsReturn` would be violated by one.

## 9. The runs

| run | checks | shows |
|---|---|---|
| `undo_merge` | `History`, `CountersDescend`, `StepsBounded` | undo and redo walk a history of whole states, with additions, removals, edits that coalesce, custom steps, merges, a full queue; a failure at any point changes nothing but the history |
| `undo_skip` | `TypeOK`, `ContentHistory`, `ReplayNeverMissesRow` | undo and redo replay over operations that skip the queue and proxy transactions, and are faithful about cards |
| `study_replay` | `NoCardTwice`, `RedoFindsCard`, `UndoneIsBefore`, `CountsMatch`, `LearningInOrder`, `StaysOnCard` | undo is exact and redo succeeds while time passes and the queue is dropped and rebuilt |
| `study_day` | `LearnersKept`, `QueueFresh`, `ShownCanBeAnswered` | other operations, previews, a queue rebuilt under the card shown, the end of the day |
| `study_panic` | `NeverPanics` | violated: see 10.1 |
| `sync_merge` | `TypeOK`, `SameStampSameContent`, `CountsNeverDiffer`, `NothingLeftUnsent`, `AgreeAtCommit`, `SharedSpec` | edits, removals and config on two devices, cards made anew by a sync, with a request lost, late or stopped by the user |
| `sync_converge` | `Converges` | objects removed, added again and restored by undo, schema changes, one-way syncs, a server that stops |
| `media_sync` | `NothingSkipped`, `FolderRegistered`, `FoldersConverge` | two devices, two files, changes at any time, one sync that stops |
| `backend_desktop` | `TypeOK`, `AbortReachesMedia`, `QuietWhileClosed`, `PartsLetCallsIn`, `BackupsOneAtATime`, `CallsReturn` | the desktop's three callers, a media sync and backups, in any interleaving |
| `cards_home` | `AwayHasHome`, `DueFitsQueue`, `FilteredDecksKeepSchedules`, `PositionRemembered` | all operations on two siblings, in any order, over the end of a day |
| `queue_day` | `WithinLimits`, `QueuedUnchanged`, `NothingWithheld`, `DeckListAgrees`, `CountsOfOneDeck` | queues built under five sets of options and studied, while deck, options, limits and day change |
| `queue_siblings` | `QueuedUnchanged` | violated: see 10.2 |

`UndoneIsBefore` is an invariant about operators: in each state reached it tries every answer to the card on top and
every later time of undo, including times at which the counts have meanwhile moved the cutoff.

Each property of each passing run has a mutant: a definition of the module marked "Fault:" that changes one piece of
code the way a mistake would (a missing reset, a swapped order, a check left out), under which the run finds the
property violated.

To run one: `tlc -config study_day.cfg StudyQueue.tla` (the module is named in `PROJECT.json`); to check the proofs: `tlapm UndoManagerProofs.tla`.

## 10. Disagreements found, and races let out

Shown by a run:

1. *Undo after the day's end panics* (`study_panic`). The queue's undo finds a queue of yesterday and discards all
   steps, also the one that is being recorded; the transaction commits, and asking for its changes panics.
2. *An answer buries a card that is queued* (`queue_siblings`). What an answer may bury depends on the queue its card is
   in, which is not the one it was gathered from once it has been answered: a new card shown before reviews and
   answered twice buries its review sibling. The next fetch that reaches the sibling fails ("bug: card modified without
   updating queue"), until something drops the queue.

Seen while modelling, with no run of their own:

- The same failure follows from two presets: if only one of a note's new cards is in a deck that buries new siblings, is
  gathered after the other and sorted before it, its answer buries the other (with `sortNew`, `QueuedUnchanged` is
  violated).
- The deck list gives back cards buried yesterday without dropping the queue (`decks/tree.rs:293`). A queue built before
  that today - from nothing, so that no stale queue had them given back (`scheduler/queue/mod.rs:417-430`) - lacks them until
  it is rebuilt, though the deck list counts them; selecting the same deck again does not rebuild it. `NothingWithheld`
  and `DeckListAgrees` are about queues that were built since.
- A sync takes the server's USN from the answer to meta (`sync/collection/normal.rs:63`, "latest server usn"), and the
  server opens the session with the one it has at start. If another device finishes in between, the rows a device
  uploads carry a USN that a third device has already been served, and are never sent to it. `crossed` marks it.
- A card due at 0 at home - a new card at position 0, which the reposition dialog offers - loses its due number to a
  preview, since `original_due = 0` says "none" (`scheduler/filtered/card.rs:73`).
- A note edit that is coalesced takes a counter but keeps no step: the `last_step` a client then reads cannot be merged
  into, though `src/pylib/anki/collection.py:1164-1165` says so of every standard action.
- `DBProxy.transact` promises "completely or not at all" (`src/pylib/anki/dbproxy.py:36-43`), but the undo steps of what
  it rolled back remain.
- If the queue is dropped under the card shown, its answer records no patch; the undo of that answer leaves the queue
  built since with an entry for the card as it was answered (`scheduler/queue/mod.rs:163`, `372`), or without the learning
  card that the undo has restored. `QueueFresh`, `LearnersKept` and `CountsMatch` hold as long as the queue is never dropped
  under the card shown, which is how they are proved (11).
- A redo can fail for good. A key is removed by an undoable operation, written back by `set_config` without undo
  (`config/mod.rs:88-103`), and written again by an undoable one, which records an update; two undos, and the redo of the
  removal takes the key away, so that the redo of the update ends with "config disappeared" (`config/undo.rs:41-44`) and
  drops all steps. TLC finds it in `undo_skip` if `ReplayNeverMissesRow` is stated without its exception; the proof shows
  that there is no other such case: an undo never fails, and notes and cards never do.
- Redo gives a step a new timestamp (`undo/mod.rs:82`), so two edits of a note made minutes apart coalesce
  when they are redone within a minute of each other (`notes/undo.rs:62-63` speaks of "quick succession").
- `requeue_learning_entry` moves a card's due time behind the next card so that it is not "shown again
  immediately" (`scheduler/queue/learning.rs:113-121`), but entries are sorted by whether the card was answered
  before, first: an answered card still comes before a next card that never was. Cards in previewing
  decks keep `reps = 0`.
- A queue rebuilt around the card shown has its cutoff at the present (`builder/mod.rs:382`), so the next fetch may
  return a learning card that has become due since, instead of the preserved review card
  (`scheduler/queue/mod.rs:39-42`; the reviewer logs a warning when it meets this after an undo).
- Undo restores the collection's modification time. Config written with `Op::SkipUndo` since then stays, and a sync that
  compares times sees nothing to send.
- `abort` carries no check of the key (`sync/http_server/handlers.rs:162-169`): a late abort ends another device's sync.
  Nothing is lost by it (`AgreeAtCommit`, `SharedSpec`).
- A server that stops between its commit and its stamp leaves new rows under the old time: other devices find nothing to
  sync until somebody, at the latest the interrupted device, syncs again (`Converges`).
- Two devices that change one card within the same second each keep their own version (`chunks.rs:224`), and the later of
  two configurations replaces the other whole.
- An object that is removed, brought back by an import and removed again is not sent as removed: its grave is there
  already (`storage/graves/add.sql`). The counts then differ, and a one-way sync follows.
- An interrupt while the client tells the server of differing counts loses the mark that forces the one-way sync; the next
  sync finds the difference again.
- Siblings buried by an answer may include a card that waits for a repeated preview; given back while still in the filtered
  deck it is a review with a timestamp for a due number. Repositioning with shift moves new cards in filtered decks by the
  number they have there.

Races that put a media folder out of step until its forced resync or the next change of that file; `NothingSkipped`,
`FolderRegistered` and `FoldersConverge` are about devices none of them has met:

- after an upload the client compares `last_sync_usn + count` with the server's number (`syncer.rs:240`); if one file of
  the zip changed nothing and another device counted instead, the two coincide and that device's change is skipped;
- the transaction that ends a batch or an upload clears or overwrites a row the user has changed since it was read
  (`syncer.rs:179-181`, `238`);
- the folder's time is stored after a batch (`syncer.rs:175`, `185`) though another program may have written to the folder
  since the scan;
- `remove_files` returns at the first file that is gone already and leaves the rest (`media/files.rs:348-352`);
- what is sent is the file as it is now, what is marked clean the row as it was (`upload.rs:65`, `syncer.rs:238`);
- a sync that stops after downloads have replaced files in place leaves no trace in the folder's time.

## 11. The proofs

`UndoManagerProofs` proves, for any rows, values, limit and bounds that satisfy `UndoAssumption` (limits are
numbers, the tables disjoint, the sentinels no values of their types) and `NullAssumption`:

- `TypeCorrect`: `Spec => []TypeOK`;
- `CountersDescendAlways`: `Spec => []CountersDescend`;
- `StepsBoundedAlways`: `Spec => []StepsBounded`;
- `ReplayNeverMissesRowAlways`: `Spec => []ReplayNeverMissesRow`, whatever `Ops`, and `ProxyOutcomes` but for `"rollback"`;
- `HistoryImplemented`: `Spec => History`, the refinement of `UndoHistory`, where every write of an operation that can be undone is
  recorded (no `SkipUndo`, no proxy transactions), for any number of writes in an operation and a failure after any of them;
- `ContentHistoryImplemented`: `Spec => ContentHistory`, the refinement for notes, cards and graves, with `SkipUndo` and all
  proxy transactions but those that take operations of the backend back.

A `"rollback"` takes back operations whose steps stay, and then undo is not what it promises (10).

`TypeOK` is not inductive by itself: that what undo saves is a change needs to know that a row to be updated
is there (`InverseOfType`), and that a step being ended is a step at all needs `Recording`, which ties
`currentStep` to the operation under way. `Types` is their conjunction. `CountersDescend` and `StepsBounded` need `Queue`: the undo queue descends strictly
and stays at or below the counter; a step in flight carries the counter itself and everything in the queue is
below it; and so on through undo, where the popped step is out of the queue, and merge, which sets the counter to
the target's, the largest left. `Types /\ Queue` is inductive (`Inv`), one step per action.

`MergedChanges` joins the steps with a recursive function. That it yields a sequence of changes needs an
induction: the library's induction theorems take an operator and cannot be used here, so `Induction` is
proved from the well-foundedness of `<` on `Nat` for *sets* of naturals, and the existence of the recursive
function by it (`MergeExists`).

The other three rest on one invariant, `Recorded`. The queues keep changes, not states, so it keeps the states beside
them: there are sequences `hs` and `gs` of databases such that the undo steps lead from the present along `hs`, and the
redo steps along `gs` (`Held`). A step leads from one state to another when its changes, undone last to first, do, each of
them finding what it left behind (`Walk`, `Leads`); `Chain` says it of a whole queue, and a step in flight, a half-replayed
one and the inverse it has recorded so far each have their place. `Flow` says what the steps look like at each point of an
operation. Operations outside the queue move a state to one
that is near it: equal but for config and modification time, which it may add to but not take from, or equal in everything where such
operations are excluded (`Near`); undoing keeps near states near, and finds its rows in the one if it does in the other. The exception for config keys in
`ReplayNeverMissesRow` is just where it does not.

`HeldStep` shows that each action changes `hs` and `gs` as an action of `UndoHistory` changes its past and future (`Moves`):
that the inverse of a step leads back (`InverseLeads`), that an edit folded into the step below it leads to the state
below both (`CoalescedLeads`), that merged steps lead where they led one by one (`MergedLeads`). Where an operation that can be
undone fails, the present stays the state it was (`Forgets`): what it wrote is taken back with the savepoint, and an undo or redo that
fails half way has written nothing that stays. Both `History` and
`ContentHistory` follow: `Trail`, which the refinement mapping computes from the changes, *is* `hs` (`TrailFollowsChain`), so what
moves `hs` moves the mapping (`MovesAreSteps`). `RevertStep` is a recursive function for this reason; like `MergedChanges` it
is unfolded by `Induction`. TLC checked `Flow` on instances before it was proved.

`CollectionSyncProofs` proves of `CollectionSync`, for any number of devices, objects, edits, faults and stray requests,
with any chunk size, kinds of edits and stops of the server:

- `TypeCorrect`: `Spec => []TypeOK`, with the part that matters: nothing marked as unsent is ever in the server's
  collection or its open transaction;
- `NothingLeftUnsentAlways`: `Spec => []NothingLeftUnsent`.

The invariant types collections in two ways: a device's may hold marked rows and graves, the server's may not. What travels
is typed like the server's - requests by their kind (`MessageOK`), answers by the step that waits for them (`AnswerOK`) -
so that merging it, on either side, marks nothing. `Progress` says for each step of a sync what is still marked: no graves
from the changes on, no decks after the changes, no cards when the rows are counted. Two assumptions had to be made
explicit (`NoKey` is no key; a transaction finds a key that is not in use), and one half of an earlier `TypeOK` was not
inductive and not true of larger instances: a row's USN may exceed the collection's, after an upload sets the server's back.

A third theorem, `KeysKeptApart`, is what the merge rests on: each key is of one sync and each request with a key of one device
(`Posted`), and a device in the session that is open has heard so (`Opened`). A request that its device has given up finds no
other device's session, and no two requests of one sync are under way at once; only an abort, which carries no key when it
comes from a stopped sync, ends whatever is open.

`SyncMergeProofs` proves what a sync does to the collections, for any number of devices, cards, decks, edits and faults, and
any chunk size:

- `AgreeAtCommitAlways`: `Spec => AgreeAtCommit`;
- `MergeImplementsShared`: `Spec => SharedSpec`, the refinement;
- `SameStampAlways`: `Spec => []SameStampSameContent`, unless the server stops between commit and stamp;
- `CountsAgreeAlways`: `Spec => [](crossed \/ CountsNeverDiffer)`.

Between syncs a device `b` and the server `v` are `Together`: each object has a row or a grave; what the device has
newer is marked, what the server has newer has a number from the device's own on. In a session there are two more
collections, the device's transaction `w` and the server's `d`. That both end alike cannot be shown from the merge
rules alone: it depends on what has been sent and what is still to come. `Stage` says so for each request: the rows
and graves that an answer, a request under way or a chunk still to go will bring, and that for every other object
both sides agree already; for a card both have changed, that the newer one is marked on the device or among those to
come. `Merge` puts this together for the device of the open session and adds, for a device whose commit has happened
and whose answer has not come, that it is `Behind` the server by no more than what the server has numbered since.
The lemmas about one step of four collections have no variables; each action then is one of them. `Stamped`, which
`SameStampAlways` adds, covers what a device has committed and not yet taken over.

The refinement compares what rows stand for, and the cards made anew between receiving and sending stand for a user's earlier
change (`Origin`, of the history `made`). `Origins` says of a session what that changes: what only the device has news of
stands for the same in its transaction as in its collection, what only the server has news of, the same on both sides; so that the
meeting is one of `SharedCollection` whichever cards were made anew. Until a card is sent it is made anew on the device
alone, and the sanity check, the commit and the taking over need no more of it (`OInv` is `MInv` with `Origins`). All four theorems
hold over requests that arrive late, a stray start among them; what they leave out by `crossed` is only a device whose own
session opened on a server that had changed since its meta request.

Hypotheses; for those named in the first two TLC finds the counterexamples given, on the instance of `sync_merge` without them:

- `PlainSyncs`, all four: `MsPerSec = 1`, each edit in a second of its own - with three ticks to a second, a card
  changed on both sides within one stays different (`AgreeAtCommit`, `SameStampSameContent` and `SharedSpec` fail);
  and `Edits \subseteq {"write", "remove", "conf"}` - an object added again beside its grave is counted differently
  (`CountsNeverDiffer`, `AgreeAtCommit` and `SharedSpec` fail, 10), undo takes a change back that has been sent or
  restores an old time (`SharedSpec` and `SameStampSameContent` fail), and a schema change leads to a one-way
  sync, which replaces a collection whole (`SharedSpec` fails).
- `"unstamped" \notin Crashes`, for `SameStampAlways` only.
- The excuse `crossed` in `CountsAgreeAlways`, which the run does not need: with two devices the counts agree even then, with
  three a device can miss an object whose USN has been served already (10).
- That the model values `NoRow`, `NoAnswer` and `NoKey` are no rows, answers or keys (`SyncAssumption`).

`BackendThreadsProofs` proves of `BackendThreads`, for any threads, calls and numbers of calls and parts (what the run
bounds tightest):

- `TypeCorrect`, `AbortReachesMediaAlways`, `BackupsOneAtATimeAlways`, `PartsLetCallsInAlways`;
- `QuietWhileClosedAlways`, from `OneThreadSyncs`: at most one thread closes, replaces or syncs the collection. That is the
  desktop's discipline (`src/qt/aqt/taskman.py`: one executor), but for the close after a failed load; without it the property is
  false, see 8.

Where a thread is tells what it holds (`Owners`) and which call it makes (`Routes`). `Handle` follows the abort handle of a
media sync from the thread that puts it in the slot to the media thread that clears it, `Written` a backup from the thread
that begins it to the one that waits for it. `PartsLetCallsIn` is not inductive: what is bounded is the parts that have
passed a waiting call and those that still may, together (`PartsAhead`).

`CardLifecycleProofs` proves of `CardLifecycle`, for any siblings, decks, intervals, steps and times:

- `AwayHasHomeAlways`, `DueFitsQueueAlways`, `PositionRememberedAlways`, `FilteredDecksKeepSchedulesAlways`.

All four rest on one invariant of a card, `Sound`: it is at home with nothing left of a filtered deck, or away with all it
needs to return; a card that is not new has left the queue of new cards; a card at home is in the queue it would be
restored to. Each operation on one card is shown to keep it, and the actions apply them to cards one by one. Hypotheses:

- `NothingDueAtZero`: no new card gets position 0 and the collection is past its first day. The program numbers new
  cards from 1 and days from the collection's creation; a position of 0 can be asked for when repositioning, and then
  `AwayHasHome` is false (10), so this is the boundary of the code's promise;
- `DaysBelowEpoch` (for `DueFitsQueue` only): no day number reaches 1,000,000,000, by which the code tells days from
  seconds (`is_unix_epoch_timestamp`, `scheduler/timing.rs:182-184`; `Epoch` in the model).

`StudyQueueProofs` proves of `StudyQueue`, for any cards, previewing decks, learning steps, edits, lengths of the day and of
the learn-ahead window, and any number of steps to undo:

- `TypeCorrect`, `NoCardTwiceAlways`, `RedoFindsCardAlways`, whatever happens beside the reviewer;
- `CountsMatchAlways`, `QueueFreshAlways`, `LearnersKeptAlways`, `StaysOnCardAlways`, from
  `"dropShown" \notin Background`: queues are not dropped under a card that is shown;
- `ShownCanBeAnsweredAlways`, from `"peek" \notin Background`: only the reviewer asks for the queue;
- `LearningInOrderAlways`, from `Previewed = {}` (all decks reschedule, so that a learning card has been answered), from
  `"rebuild" \notin Background` and, if others ask for the counts (`"peek"`), from no drop under a card shown, no deferred
  rebuild and no end of the day: the queue is not built again under a card that is shown (`Ordered`);
- `UndoneIsBeforeAlways`, from the same and `"dropShown" \notin Background`.

An undo does not look at the queue it patches: it trusts that the queue is as its answer left it, but for the learn-ahead
cutoff, which has moved and moved the learning count with it. None of the properties is inductive, for what a step patches
later is not in the queue now. The invariant, `IInv`, says that the queue has a `History` (`HInv`): what it held at moment 0, which is
now, before each answer that can still be taken back (moments 1, 2, ...) and after each that can be given again (moments
-1, -2, ...). A step made on this queue leads from one moment to the next (`Linked`: one entry popped, at most one put in),
a step made on another queue, or on none, leads nowhere (`Led`). Which is which the code tells by the build time; that
a queue just built shares its own with no step left is counted out (`NewBuildIsNew`: there are more times than steps). Each
moment is `Sound`: no card twice and, where the queue is not dropped under a card, every entry of its card as it was then
(`Fresh`), every learning card of the day in it (`KeptOn`). An answer adds a moment, undo and redo move along the history, a
rebuild starts another. The counts are those of the entries up to the learn-ahead time (`Tally`), at the time of the
snapshot (`Counted1`) and after any move of the cutoff. That sequences and their tallies
change by just one entry is stated once, in the lemmas about `InsertAt`, `RemoveAt` and `Tally`.

The order needs more, and `IInv` adds it where `Ordered` holds (`Lined`): the learning cards are in order and have all been
answered before, and the card shown, if it is one of them, is due first (`ShownFirst`). Undo pushes its entry to the front without a
comparison (`push_undo_entry`), which is the right place only if the entry was the first when it was popped; and of the card
shown nobody checks that again when it is answered. So the history, too, records that each learning card popped
was due before all that its answer left (`Foremost`, part of `Led`), and an undo finds these very cards. For `UndoneIsBefore`,
the queue is taken apart and put together: popped and pushed back (`PoppedPushed`), put in line and taken out again
(`RequeueRemoved`, since no other entry has the card's id), the cutoff moved and restored with its counts (`LaterRestored`).

For the hypotheses TLC finds the counterexamples on the instance of `study_day` with other `Background`s: with
`{"drop", "dropShown", "rebuild", "deferred"}` `CountsMatch`, `QueueFresh` and `LearnersKept` fail (10), with `{"peek"}` `ShownCanBeAnswered` does: somebody asks for
the counts after the day has ended, and is given a queue built without regard for the card on the screen. A previewing deck
breaks `LearningInOrder` and `UndoneIsBefore` (10), and `{"peek", "dropShown"}` breaks `LearningInOrder`. For `"rebuild"`, for
`"peek"` with `"deferred"` or over the end of a day, and for `UndoneIsBefore` and `StaysOnCard` with `"dropShown"`, five minutes
of TLC found no violation on instances of two cards: those hypotheses are what the proofs need, not known to be what the
properties need.

`SharedCollectionProofs` proves `NothingForgottenAlways`, of the abstract specification that `CollectionSync` implements: for
any devices, objects and values, `Spec => []NothingForgotten` - what differs between a device and the shared collection is
still to be sent one way or the other. The inductive invariant adds only that the variables are functions on the devices
(`Functions`), so that a step of one device leaves the others alone. `MergeImplementsShared`, above, carries it over to the
protocol.

`MediaSyncProofs` proves of `MediaSync`, for any devices, files, contents, sizes of batches and zips, and numbers of edits and
stops (the run has batches and zips that take everything, two edits and one stop):

- `NothingSkippedAlways`, `FolderRegisteredAlways`, of all devices that no race of 10 has put out of step.

Neither is kept by the steps alone: a sync changes files, then rows,
then the number, with other devices and the user in between. The invariant, `Inv`, says of every step of it what is still owed.
At any moment the rows agree with the server up to the number seen (`KnownAsSeen`), and the folder, once read, agrees
with the rows but for what a batch has brought, or left half removed, beyond that number (`KnownAsFound`). Of the files of a
batch (`BatchFile`): each up to the number the batch will record is on one of its lists - what was fetched is the server's content
and the folder's, what is to be removed is gone on both sides - or agrees already; a file that the server has changed since the
batch was read has a number beyond the batch and is left to the next one. Of files that have been sent (`SentFile`): the
rows say what was sent, and if the device's number and the answer differ by just these changes, nobody else's lies in between:
that is what lets the device follow the server's number without asking. All of it rests on the server giving each
change a number of its own above all that anybody has seen (`Numbered`): then what the server does for one device takes nothing
from what is known of another (`OthersSound`). A device in `slipped` keeps only the shape of its sync (`Shape`), and its
forced resync, which forgets all rows and the number, makes it sound again from nothing. Which files a batch holds is proved from
the places of the numbers in it (`ChunkFiles`). Of the constants it needs `MediaAssumption` (finitely many files, batches and zips
that take at least one) and that the model value `NoRow` is no row.

Model-checked only: everything about `QueueBuilder`. `DeckListAgrees` and `CountsOfOneDeck` compare sums over the tree of decks,
which is induction over data; `WithinLimits`, `QueuedUnchanged` and `NothingWithheld` would need an invariant of the gathering,
card by card, that has not been worked out. Liveness under fairness
(`Converges`, `FoldersConverge`, `CallsReturn`), `ENABLED`, and what a recursive definition computes for every input are
beyond the proof system and stay with TLC.

## 12. Not modelled, and the plan

Within the modelled components:

- *Undo*: operations that begin inside a proxy transaction and end after it.
- *Study queue*: the check that a client's `current_state` still fits the card (`scheduler/answering/mod.rs:470-474`),
  which ends like a refused answer; the load balancer; the limit of undo steps (it is in `UndoManager`).
- *Queue builder*: the daily minimum of scored reviews and when a score makes a card due (any cards may have one); sort
  keys (any order); limits "for today" (a deck's limit is the one in force); burying by hand (`CardLifecycle`).
- *Cards*: which next state a button gives, and its interval; custom study; undo of these operations (it restores whole
  cards, `UndoManager`); the repair of cards by the database check.
- *Sync*: the cached sync status, version and clock checks, the review log (rows are only added), `CheckDatabase` on the
  server; two edits of one object within one second, but for what 10 says of them. Which cards a sync makes anew
  depends on their data and on whether FSRS is on; the model takes any subset of the cards held, the empty one for a
  repair that is off or fails, and some for one that fails half way. What a sync does in transactions of its own before and
  after its own one - cards given back at the day's end, "ignore reviews before" dates, the algorithm of presets that
  arrived (`sync/collection/normal.rs:118-160`) - and the repair of foreign cards at open (`collection/mod.rs:114`) are edits like a user's.
- *Media*: names (normalisation, length), sizes and zip limits, files that cannot be read, edits in place that keep the
  folder's time, two changes within one tick of the folder's time.
- *Backend*: the progress itself, calls that need no collection, and whether short calls and long reads starve each other
  when there is no end of them.

Not modelled at all, with reasons, are listed as components in `PROJECT.json`: pure conversion (rendering,
import, search), floating-point models (FSRS, RWKV), generated code, layout.

Order of work, the most consequential first; what is done is above:

1. `UndoManager`, `StudyQueue`, `CollectionSync`, `MediaSync`, `BackendThreads`, `CardLifecycle`, `QueueBuilder` - done.
2. `Sidecars`: two databases, two commits, a crash, and the recovery at open: no record is lost that either holds.
3. The algorithm that every preset mirrors, and its repair after a sync; `BackgroundPasses` of the desktop program.

Theorems worth proving next: that the builder never takes more than is left of any limit, the half of `WithinLimits` that is about building.
