------------------------------ MODULE MediaSync ------------------------------
(***************************************************************************)
(* The media sync: the files of a folder, on every device and the server.  *)
(*                                                                         *)
(* A device keeps, beside the folder, a database with a row for each file  *)
(* it knows (its checksum, or nothing once it is gone, and whether the     *)
(* server has still to hear of it), the last server number it has seen,    *)
(* and the folder's modification time when the rows were last brought up   *)
(* to date.  A sync reads the folder if that time has changed, fetches     *)
(* what the server has changed, sends what is pending, and compares the    *)
(* number of files; if they differ it forgets its database.  Between any   *)
(* two of its requests the user may change the folder, through the program *)
(* or behind its back, other devices may sync, and the sync may stop.      *)
(*                                                                         *)
(* A file's content stands for its checksum.                               *)
(***************************************************************************)
EXTENDS Integers, Sequences, FiniteSets, SequencesExt, TLC

CONSTANTS
    Clients, Files, Contents,
    BatchSize,  \* changes the server reports at a time (1000)
    ZipSize,    \* files sent at a time (25)
    MaxEdits, MaxStops, \* bounds of the model
    NoFile, NoRow       \* model values

ASSUME MediaAssumption ==
    /\ IsFiniteSet(Clients) /\ IsFiniteSet(Files) /\ NoFile \notin Contents /\ Contents # {}
    /\ BatchSize \in Nat \ {0} /\ ZipSize \in Nat \ {0}
    /\ MaxEdits \in Nat /\ MaxStops \in Nat

VARIABLES
    disk,     \* disk[c]: the media folder
    row,      \* row[c]: the table of the media database
    usn,      \* usn[c]: last_sync_usn
    fresh,    \* fresh[c]: the folder's time is the one in the database
    job,      \* job[c]: the sync under way
    entry,    \* the server's table
    lastUsn,  \* the server's last_usn
    slipped,  \* devices that a race known to the README has put out of step
    edits, stops

deviceVars == <<disk, row, usn, fresh, job>>
serverVars == <<entry, lastUsn>>
vars == <<deviceVars, serverVars, slipped, edits, stops>>

Data == Contents \cup {NoFile}

\* A row of the table; a file without one has NoRow.
Row == [data : Data, dirty : BOOLEAN]

ASSUME NullAssumption == NoRow \notin Row

NoChanges == [f \in {} |-> NoFile]

Idle == [at |-> "idle", seen |-> 0, last |-> 0, get |-> <<>>, del |-> {},
         clear |-> {}, got |-> NoChanges, sent |-> {}, changed |-> 0,
         reply |-> 0, acted |-> FALSE, outside |-> FALSE, crossed |-> FALSE,
         left |-> FALSE]

\* The devices and the server have some files in common.
Init == \E common \in SUBSET Files :
    LET d == CHOOSE content \in Contents : TRUE
        order == SetToSeq(common)
        number(f) == CHOOSE n \in DOMAIN order : order[n] = f
    IN /\ disk = [c \in Clients |->
                    [f \in Files |-> IF f \in common THEN d ELSE NoFile]]
       /\ row = [c \in Clients |->
                    [f \in Files |-> IF f \in common
                                     THEN [data |-> d, dirty |-> FALSE]
                                     ELSE NoRow]]
       /\ entry = [f \in Files |->
                    IF f \in common THEN [data |-> d, usn |-> number(f)]
                    ELSE [data |-> NoFile, usn |-> 0]]
       /\ usn = [c \in Clients |-> Len(order)] /\ lastUsn = Len(order)
       /\ fresh = [c \in Clients |-> TRUE]
       /\ job = [c \in Clients |-> Idle]
       /\ slipped = {} /\ edits = 0 /\ stops = 0

-----------------------------------------------------------------------------
\* What the rows of a device say.

Known(c, f) == IF row[c][f] = NoRow THEN NoFile ELSE row[c][f].data
Dirty(c, f) == row[c][f] # NoRow /\ row[c][f].dirty
Pending(c) == {f \in Files : Dirty(c, f)}
FileCount(c) == Cardinality({f \in Files : Known(c, f) # NoFile})
NonemptyFileCount == Cardinality({f \in Files : entry[f].data # NoFile})

\* Fault: a change to a registered file does not set its flag.
RegisteredQuietly(c) ==
    [f \in Files |->
        CASE disk[c][f] = Known(c, f) -> row[c][f]
          [] disk[c][f] # NoFile /\ Known(c, f) # NoFile ->
                [row[c][f] EXCEPT !.data = disk[c][f]]
          [] OTHER -> [data |-> disk[c][f], dirty |-> TRUE]]

\* The rows after a scan of the folder: a file with no row, or with one that
\* says it is gone, is new; one whose row has the same content keeps its flag.
Registered(c) ==
    [f \in Files |->
        CASE disk[c][f] = Known(c, f) -> row[c][f]
          [] OTHER -> [data |-> disk[c][f], dirty |-> TRUE]]

-----------------------------------------------------------------------------
\* What the user does, at any time.

\* The files the sync of device c has read about and will write rows for.
Involved(c) ==
    CASE job[c].at \in {"get", "record"} ->
            Range(job[c].get) \cup job[c].del \cup job[c].clear
                \cup DOMAIN job[c].got
      [] job[c].at = "mark" -> job[c].sent
      [] OTHER -> {}

\* Fault: the folder's time is recorded though it was not the one in the database.
AddFileStamping(c, f, d) ==
    /\ edits < MaxEdits /\ edits' = edits + 1
    /\ disk[c][f] \in {NoFile, d}
    /\ disk' = [disk EXCEPT ![c][f] = d]
    /\ row' = IF Known(c, f) = d THEN row
              ELSE [row EXCEPT ![c][f] = [data |-> d, dirty |-> TRUE]]
    /\ job' = [job EXCEPT ![c].crossed = @ \/ f \in Involved(c)]
    /\ fresh' = [fresh EXCEPT ![c] = TRUE]
    /\ UNCHANGED <<usn, serverVars, slipped, stops>>

\* The editor or an import adds a file.  One that is there with another
\* content is left alone: the new file gets another name.
AddFile(c, f, d) ==
    /\ edits < MaxEdits /\ edits' = edits + 1
    /\ disk[c][f] \in {NoFile, d}
    /\ disk' = [disk EXCEPT ![c][f] = d]
    /\ row' = IF Known(c, f) = d THEN row
              ELSE [row EXCEPT ![c][f] = [data |-> d, dirty |-> TRUE]]
    /\ job' = [job EXCEPT ![c].crossed = @ \/ f \in Involved(c)]
    /\ UNCHANGED <<usn, fresh, serverVars, slipped, stops>>

\* The media check moves a file to the trash.
TrashFile(c, f) ==
    /\ edits < MaxEdits /\ edits' = edits + 1
    /\ disk[c][f] # NoFile
    /\ disk' = [disk EXCEPT ![c][f] = NoFile]
    /\ row' = IF row[c][f] = NoRow THEN row
              ELSE [row EXCEPT ![c][f] = [data |-> NoFile, dirty |-> TRUE]]
    /\ job' = [job EXCEPT ![c].crossed = @ \/ f \in Involved(c)]
    /\ UNCHANGED <<usn, fresh, serverVars, slipped, stops>>

\* Another program adds, replaces or removes a file.
ChangeOutside(c, f, d) ==
    /\ edits < MaxEdits /\ edits' = edits + 1
    /\ disk[c][f] # d
    /\ disk' = [disk EXCEPT ![c][f] = d]
    /\ fresh' = [fresh EXCEPT ![c] = FALSE]
    /\ job' = [job EXCEPT ![c].outside = job[c].at # "idle"]
    /\ UNCHANGED <<row, usn, serverVars, slipped, stops>>

-----------------------------------------------------------------------------
\* A sync of device c.

HasWork(c) == usn[c] # lastUsn \/ ~fresh[c] \/ Pending(c) # {}

\* register_changes, and the server's number when it comes with the sync of
\* the collection.
Start(c) ==
    /\ job[c].at = "idle" /\ HasWork(c)
    /\ row' = IF fresh[c] THEN row ELSE [row EXCEPT ![c] = Registered(c)]
    /\ fresh' = [fresh EXCEPT ![c] = TRUE]
    /\ job' = [job EXCEPT ![c].at = "begin", ![c].seen = lastUsn]
    /\ UNCHANGED <<disk, usn, serverVars, slipped, edits, stops>>

\* The number may be the one of that earlier answer.
Compare(c) ==
    /\ job[c].at = "begin"
    /\ \E server_usn \in {job[c].seen, lastUsn} :
          job' = [job EXCEPT
                    ![c].at = IF usn[c] # server_usn THEN "fetch" ELSE "send",
                    ![c].last = usn[c], ![c].seen = 0,
                    ![c].acted = usn[c] # server_usn]
    /\ UNCHANGED <<disk, row, usn, fresh, serverVars, slipped, edits, stops>>

\* The entries with a higher number, the lowest first, as many as go in a batch.
MediaChangesChunk(after) ==
    LET newer == {f \in Files : entry[f].usn > after}
        Place(f) == Cardinality({g \in newer : entry[g].usn <= entry[f].usn})
    IN [i \in {n \in 1..Cardinality(newer) : n <= BatchSize} |->
           CHOOSE f \in newer : Place(f) = i]

\* determine_required_change: the server wins, but for a file added or changed
\* here that the server has deleted.
RequiredChange(c, f) ==
    LET mine == Known(c, f)
        theirs == entry[f].data
    IN CASE theirs # NoFile /\ mine # theirs -> "download"
         [] theirs # NoFile /\ mine = theirs /\ Dirty(c, f) -> "clear"
         [] theirs = NoFile /\ mine = NoFile /\ row[c][f] # NoRow -> "delete"
         [] theirs = NoFile /\ mine # NoFile /\ ~Dirty(c, f) -> "delete"
         [] OTHER -> "none"

\* The files of a batch of which determine_required_change says so, in its order.
Wanted(c, batch, what) ==
    LET chosen[i \in 0..Len(batch)] ==
            IF i = 0 THEN <<>>
            ELSE chosen[i - 1] \o (IF RequiredChange(c, batch[i]) = what
                                   THEN <<batch[i]>> ELSE <<>>)
    IN chosen[Len(batch)]

\* Of the listed files, those that files::remove_files moves to the trash: it
\* returns at the first one that is not in the folder.
Removable(c, files) ==
    {files[i] : i \in {n \in DOMAIN files :
                          \A m \in 1..n : disk[c][files[m]] # NoFile}}

\* The next batch of changes; the files to remove are removed at once, in a
\* transaction of their own that leaves their deletion pending.
Fetch(c) ==
    /\ job[c].at = "fetch"
    /\ LET batch == MediaChangesChunk(job[c].last)
           to_delete == Wanted(c, batch, "delete")
           gone == Removable(c, to_delete)
       IN IF batch = <<>>
          THEN /\ job' = [job EXCEPT ![c].at = "send"]
               /\ UNCHANGED <<disk, row>>
          ELSE /\ disk' = [disk EXCEPT ![c] =
                     [f \in Files |-> IF f \in gone THEN NoFile ELSE @[f]]]
               /\ row' = [row EXCEPT ![c] =
                     [f \in Files |->
                        IF f \in Range(to_delete) /\ @[f] # NoRow
                        THEN [data |-> NoFile, dirty |-> TRUE] ELSE @[f]]]
               /\ job' = [job EXCEPT
                     ![c].at = IF Wanted(c, batch, "download") = <<>>
                               THEN "record" ELSE "get",
                     ![c].last = entry[Last(batch)].usn,
                     ![c].get = Wanted(c, batch, "download"),
                     ![c].del = Range(to_delete),
                     ![c].clear = Range(Wanted(c, batch, "clear")),
                     ![c].crossed = FALSE,
                     ![c].left = \E f \in Range(to_delete) :
                                    disk'[c][f] # NoFile]
    /\ UNCHANGED <<usn, fresh, serverVars, slipped, edits, stops>>

\* Files have been overwritten in place, which the folder's time does not show.
Unrecorded(c) == fresh[c] /\ DOMAIN job[c].got # {}

\* The first n files the device asks for, fewer than it wants if they are big;
\* a file whose entry is gone meanwhile is a conflict that ends the sync.
Download(c, n) ==
    /\ job[c].at = "get" /\ n \in DOMAIN job[c].get
    /\ LET files == SubSeq(job[c].get, 1, n)
           rest == SubSeq(job[c].get, n + 1, Len(job[c].get))
       IN IF \E f \in Range(files) : entry[f].data = NoFile
          THEN /\ job' = [job EXCEPT ![c] = Idle]
               /\ slipped' = IF Unrecorded(c) THEN slipped \cup {c} ELSE slipped
               /\ UNCHANGED <<disk, fresh>>
          ELSE /\ disk' = [disk EXCEPT ![c] =
                     [f \in Files |->
                        IF f \in Range(files) THEN entry[f].data ELSE @[f]]]
               /\ fresh' = [fresh EXCEPT ![c] =
                     @ /\ \A f \in Range(files) : disk[c][f] # NoFile]
               /\ job' = [job EXCEPT
                     ![c].at = IF rest = <<>> THEN "record" ELSE "get",
                     ![c].get = rest,
                     ![c].got = [f \in Range(files) \cup DOMAIN @ |->
                                   IF f \in Range(files) THEN entry[f].data ELSE @[f]]]
               /\ UNCHANGED slipped
    /\ UNCHANGED <<row, usn, serverVars, edits, stops>>

\* The transaction that ends a batch.
Record(c) ==
    /\ job[c].at = "record"
    /\ row' = [row EXCEPT ![c] =
          [f \in Files |->
             IF f \in DOMAIN job[c].got
             THEN [data |-> job[c].got[f], dirty |-> FALSE]
             ELSE IF f \in job[c].del THEN NoRow
             ELSE IF f \in job[c].clear /\ @[f] # NoRow
             THEN [@[f] EXCEPT !.dirty = FALSE]
             ELSE @[f]]]
    /\ usn' = [usn EXCEPT ![c] = job[c].last]
    /\ fresh' = [fresh EXCEPT ![c] = TRUE]
    /\ slipped' = IF job[c].outside \/ job[c].crossed \/ job[c].left
                  THEN slipped \cup {c} ELSE slipped
    /\ job' = [job EXCEPT ![c] = [Idle EXCEPT
                  !.at = "fetch", !.last = job[c].last, !.acted = TRUE,
                  !.outside = job[c].outside]]
    /\ UNCHANGED <<disk, serverVars, edits, stops>>

\* Some of what is pending is sent as it is in the folder, a file that is not
\* there as a deletion; the server numbers what is a change to it.
Upload(c, files) ==
    /\ job[c].at = "send"
    /\ files \subseteq Pending(c) /\ files # {}
    /\ Cardinality(files) <= ZipSize
    /\ Cardinality(files) = ZipSize \/ files = Pending(c)
    /\ LET content(f) == IF Known(c, f) = NoFile THEN NoFile ELSE disk[c][f]
           changed == {f \in files : entry[f].data # content(f)}
           order == SetToSeq(changed)
       IN /\ entry' = [f \in Files |->
                IF f \in changed
                THEN [data |-> content(f),
                      usn |-> lastUsn + CHOOSE i \in DOMAIN order : order[i] = f]
                ELSE entry[f]]
          /\ lastUsn' = lastUsn + Len(order)
          /\ job' = [job EXCEPT ![c].at = "mark", ![c].acted = TRUE,
                       ![c].sent = files, ![c].changed = Len(order),
                       ![c].reply = lastUsn',
                       ![c].crossed = \E f \in files :
                                         content(f) # Known(c, f)]
    /\ UNCHANGED <<disk, row, usn, fresh, slipped, edits, stops>>

\* Fault: the number of the answer, whoever else has made the server count.
FollowedAlways(c) == job[c].reply

\* The number of the answer, if it is what these files alone have made it.
Followed(c) ==
    IF usn[c] + Cardinality(job[c].sent) = job[c].reply THEN job[c].reply
    ELSE usn[c]

\* The answer: the rows are clean, and the device may follow the server's number.
MarkSent(c) ==
    /\ job[c].at = "mark"
    /\ LET follows == Followed(c) # usn[c]
       IN /\ row' = [row EXCEPT ![c] =
                [f \in Files |-> IF f \in job[c].sent /\ @[f] # NoRow
                                 THEN [@[f] EXCEPT !.dirty = FALSE] ELSE @[f]]]
          /\ usn' = [usn EXCEPT ![c] = Followed(c)]
          /\ slipped' = IF \/ job[c].crossed
                           \/ follows /\ job[c].changed # Cardinality(job[c].sent)
                        THEN slipped \cup {c} ELSE slipped
    /\ job' = [job EXCEPT ![c] = [Idle EXCEPT
                  !.at = "send", !.acted = TRUE, !.outside = job[c].outside]]
    /\ UNCHANGED <<disk, fresh, serverVars, edits, stops>>

\* Nothing is pending.  A sync that did something compares the number of
\* files; if it differs, the database is emptied and the sync fails.
FinalizeSync(c) ==
    /\ job[c].at = "send" /\ Pending(c) = {}
    /\ IF job[c].acted /\ FileCount(c) # NonemptyFileCount
       THEN /\ row' = [row EXCEPT ![c] = [f \in Files |-> NoRow]]
            /\ usn' = [usn EXCEPT ![c] = 0]
            /\ fresh' = [fresh EXCEPT ![c] = FALSE]
            /\ slipped' = slipped \ {c}
       ELSE UNCHANGED <<row, usn, fresh, slipped>>
    /\ job' = [job EXCEPT ![c] = Idle]
    /\ UNCHANGED <<disk, serverVars, edits, stops>>

\* The sync is aborted, the network fails, or the program ends: what the steps
\* so far have written stays.
Stop(c) ==
    /\ job[c].at # "idle" /\ stops < MaxStops /\ stops' = stops + 1
    /\ job' = [job EXCEPT ![c] = Idle]
    /\ slipped' = IF Unrecorded(c) THEN slipped \cup {c} ELSE slipped
    /\ UNCHANGED <<disk, row, usn, fresh, serverVars, edits>>

-----------------------------------------------------------------------------
DeviceSymmetry == Permutations(Clients)

User(c) ==
    \E f \in Files :
        \/ \E d \in Contents : AddFile(c, f, d)
        \/ TrashFile(c, f)
        \/ \E d \in Data : ChangeOutside(c, f, d)

SyncStep(c) ==
    \/ Start(c) \/ Compare(c) \/ Fetch(c)
    \/ \E n \in 1..Cardinality(Files) : Download(c, n)
    \/ Record(c)
    \/ \E files \in SUBSET Files : Upload(c, files)
    \/ MarkSent(c) \/ FinalizeSync(c)

Next == \E c \in Clients : User(c) \/ SyncStep(c) \/ Stop(c)

Spec == Init /\ [][Next]_vars

\* The program starts a media sync on its own again and again (the periodic
\* one, and one after each sync of the collection), and its steps do not block.
FairSpec == Spec /\ \A c \in Clients : WF_vars(SyncStep(c))

-----------------------------------------------------------------------------
\* A device that has seen the server's number n has applied every change up to
\* it (syncer.rs 178-186, 226-238): at any moment, a file that is not pending is
\* known as the server has it.
NothingSkipped ==
    \A c \in Clients \ slipped : \A f \in Files :
        entry[f].usn <= usn[c] /\ ~Dirty(c, f) => Known(c, f) = entry[f].data

\* A folder that counts as registered has been: while its time is the one in
\* the database, no change to it is overlooked (changetracker.rs 56-75).
FolderRegistered ==
    \A c \in Clients \ slipped : fresh[c] =>
        \A f \in Files : entry[f].usn <= usn[c] => disk[c][f] = Known(c, f)

\* The folders become equal to the server's once the users stop, however the syncs
\* of the devices overlapped with each other and with the users.
FoldersConverge ==
    <>[](\A c \in Clients \ slipped : \A f \in Files :
            disk[c][f] = entry[f].data)
=============================================================================
