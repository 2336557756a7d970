--------------------------- MODULE RecordingStore ----------------------------
(***************************************************************************)
(* The archive of call recordings of one Intercom: the files of            *)
(* ring_recording_store.rs and the handlers of ring_recording_api.rs that  *)
(* reach it through ring_recording_manager.rs.                             *)
(*                                                                         *)
(* The store holds no lock and the handlers run on the threads of the      *)
(* runtime, so one step is one call to the file system: a rename, a        *)
(* removal, the reading of a directory entry.  A recording is two files,   *)
(* <id>.<extension> and <id>.json, each put in place by atomic_write, of   *)
(* which only the rename shows: a temporary file has another extension, is *)
(* never listed and never counted.  A request that is refused before it    *)
(* touches a file changes nothing and is no action.                        *)
(*                                                                         *)
(* Any call may fail, and the process may die at any point and start       *)
(* again; the directory survives.  (Power loss is not modelled: the        *)
(* directory itself is not synced.)                                        *)
(***************************************************************************)
EXTENDS Integers, FiniteSets

CONSTANTS Tasks,       \* requests in flight, one handler each
          Ids,         \* Uuid::new_v4 never repeats: each is drawn once
          NoId,        \* the id of no recording
          Sizes,       \* lengths of the bodies clients send
          MinMedia,    \* MIN_MEDIA_BYTES
          MaxMedia,    \* MAX_MEDIA_BYTES
          MaxArchive,  \* MAX_ARCHIVE_BYTES
          Retention,   \* RETENTION_SECONDS
          MaxClock,    \* bound: the clock stops here
          MaxFaults    \* bound: calls that fail, crashes

Kinds == {"mp4", "webm"}

\* RecordingItem, the contents of a manifest.  started_at and ended_at only order
\* what a listing shows.
Item == [id : Ids \cup {NoId}, saved : Nat, bytes : Nat, kind : Kinds]

ASSUME IdAssumption == NoId \notin Ids
ASSUME SizeAssumption == /\ Sizes \subseteq Nat
                         /\ MinMedia \in Nat /\ MaxMedia \in Nat
                         /\ MaxArchive \in Nat /\ Retention \in Nat
ASSUME BoundAssumption == MaxClock \in Nat /\ MaxFaults \in Nat

VARIABLES
    media,      \* files <id>.<extension>, by id and kind
    manifests,  \* contents of the files <id>.json
    clock,      \* SystemTime::now
    faults,     \* failed calls and crashes so far
    drawn,      \* ids that were drawn
    pc,         \* the call the task makes next
    op,         \* the handler it runs
    item,       \* upload: its item; read: the manifest it found
    opened,     \* list: manifests that were there when the directory was opened
    listing,    \* list: items read; cleanup: those not deleted
    target,     \* delete: the id whose files go
    orphans,    \* history: uploads cut short between their two files
    torn,       \* history: deletions cut short between two files
    unswept,    \* history: uploads whose cleanup did not end
    gone        \* history: ids whose files were all removed

disk  == <<media, manifests>>
local == <<item, opened, listing, target>>
hist  == <<orphans, torn, unswept, gone>>
vars  == <<disk, clock, faults, drawn, pc, op, local, hist>>

NoItem == [id |-> NoId, saved |-> 0, bytes |-> 0, kind |-> "mp4"]

Init ==
    /\ media = {} /\ manifests = {}
    /\ clock = 0 /\ faults = 0 /\ drawn = {}
    /\ pc = [t \in Tasks |-> "idle"]
    /\ op = [t \in Tasks |-> "list"]
    /\ item = [t \in Tasks |-> NoItem]
    /\ opened = [t \in Tasks |-> {}]
    /\ listing = [t \in Tasks |-> {}]
    /\ target = [t \in Tasks |-> NoId]
    /\ orphans = {} /\ torn = {} /\ unswept = {}
    /\ gone = {}

Named(S) == {m.id : m \in S}

\* The sum of the items' bytes, counted one by one.
Total(S) == Cardinality(UNION {{m} \X (1..m.bytes) : m \in S})

Fault == faults < MaxFaults /\ faults' = faults + 1

Goto(t, l) == pc' = [pc EXCEPT ![t] = l]

\* The handler answers; its locals are forgotten.
Return(t) ==
    /\ Goto(t, "idle")
    /\ op' = [op EXCEPT ![t] = "list"]
    /\ item' = [item EXCEPT ![t] = NoItem]
    /\ opened' = [opened EXCEPT ![t] = {}]
    /\ listing' = [listing EXCEPT ![t] = {}]
    /\ target' = [target EXCEPT ![t] = NoId]

\* What a task leaves behind when it ends here: a manifest without its media file,
\* a media file without its manifest, an upload that nobody cleaned up after.
HalfRemoved(t) == IF pc[t] \in {"webm", "json"} THEN {target[t]} ELSE {}
HalfWritten(t) == IF pc[t] \in {"manifest", "undo"} THEN {item[t].id} ELSE {}
Unswept(t) == IF op[t] = "upload" /\ pc[t] \notin {"media", "manifest", "undo"}
              THEN {item[t].id} ELSE {}

-----------------------------------------------------------------------------
(* Requests.                                                               *)

\* RecordingMedia::parse and validate: the declared type is one of two, the length
\* is within bounds and the signature is that of the declared container.
Accepted(declared, bytes, signature) ==
    /\ declared \in Kinds
    /\ bytes \in MinMedia..MaxMedia
    /\ signature = declared

\* upload_recording and the start of commit, up to the first file.
StartUpload(t) ==
    \E id \in Ids \ drawn, k \in Kinds \cup {"other"}, s \in Kinds \cup {"other"},
       n \in Sizes :
        /\ pc[t] = "idle"
        /\ Accepted(k, n, s)
        /\ drawn' = drawn \cup {id}
        /\ item' = [item EXCEPT ![t] =
                      [id |-> id, saved |-> clock, bytes |-> n, kind |-> k]]
        /\ op' = [op EXCEPT ![t] = "upload"]
        /\ Goto(t, "media")
        /\ UNCHANGED <<disk, clock, faults, opened, listing, target, hist>>

\* recordings: the directory is opened.
StartList(t) ==
    /\ pc[t] = "idle"
    /\ op' = [op EXCEPT ![t] = "list"]
    /\ opened' = [opened EXCEPT ![t] = Named(manifests)]
    /\ Goto(t, "scan")
    /\ UNCHANGED <<disk, clock, faults, drawn, item, listing, target, hist>>

\* media: RecordingStore::read looks for the manifest first.
StartRead(t) ==
    /\ pc[t] = "idle"
    /\ \E m \in manifests :
        /\ item' = [item EXCEPT ![t] = m]
        /\ op' = [op EXCEPT ![t] = "read"]
    /\ Goto(t, "file")
    /\ UNCHANGED <<disk, clock, faults, drawn, opened, listing, target, hist>>

\* Then for the file the manifest names: the answer is the recording, 404 when it is
\* gone by now, or the error of the read.  None leaves a trace.
ReadFile(t) ==
    /\ pc[t] = "file"
    /\ Return(t)
    /\ UNCHANGED <<disk, clock, faults, drawn, hist>>

\* delete_recording, for an id that was listed or answered; deleting twice is fine.
StartDelete(t) ==
    /\ pc[t] = "idle"
    /\ \E id \in Named(manifests) \cup gone : target' = [target EXCEPT ![t] = id]
    /\ op' = [op EXCEPT ![t] = "delete"]
    /\ Goto(t, "mp4")
    /\ UNCHANGED <<disk, clock, faults, drawn, item, opened, listing, hist>>

-----------------------------------------------------------------------------
(* commit: the two files.                                                  *)

\* The rename of the media file.
WriteMedia(t) ==
    /\ pc[t] = "media"
    /\ media' = media \cup {<<item[t].id, item[t].kind>>}
    /\ Goto(t, "manifest")
    /\ UNCHANGED <<manifests, clock, faults, drawn, op, local, hist>>

\* The rename of the manifest; cleanup then opens the directory.
WriteManifest(t) ==
    /\ pc[t] = "manifest"
    /\ manifests' = manifests \cup {item[t]}
    /\ Goto(t, "open")
    /\ UNCHANGED <<media, clock, faults, drawn, op, local, hist>>

\* Mutation: a media file that could not be written is not noticed.
WriteFailsUnseen(t) ==
    /\ Fault
    /\ pc[t] \in {"media", "manifest"}
    /\ Goto(t, IF pc[t] = "media" THEN "manifest" ELSE "undo")
    /\ UNCHANGED <<disk, clock, drawn, op, local, hist>>

\* atomic_write fails before its rename; without a manifest the media file goes
\* again, as well as it can.
WriteFails(t) ==
    /\ Fault
    /\ \/ pc[t] = "media" /\ Return(t)
       \/ pc[t] = "manifest" /\ Goto(t, "undo") /\ UNCHANGED <<op, local>>
    /\ UNCHANGED <<disk, clock, drawn, hist>>

Undo(t) ==
    /\ pc[t] = "undo"
    /\ \/ /\ media' = media \ {<<item[t].id, item[t].kind>>}
          /\ UNCHANGED <<orphans, faults>>
       \/ /\ Fault
          /\ orphans' = orphans \cup {item[t].id}
          /\ UNCHANGED media
    /\ Return(t)
    /\ UNCHANGED <<manifests, clock, drawn, torn, unswept, gone>>

-----------------------------------------------------------------------------
(* list, for a client and at the start of cleanup.                         *)

OpenDir(t) ==
    /\ pc[t] = "open"
    /\ opened' = [opened EXCEPT ![t] = Named(manifests)]
    /\ Goto(t, "scan")
    /\ UNCHANGED <<disk, clock, faults, drawn, op, item, listing, target, hist>>

\* The next entry is read.  One that came after the directory was opened may show.
ReadEntry(t) ==
    /\ pc[t] = "scan"
    /\ \E m \in manifests \ listing[t] : listing' = [listing EXCEPT ![t] = @ \cup {m}]
    /\ UNCHANGED <<disk, clock, faults, drawn, pc, op, item, opened, target, hist>>

\* Mutation: an upload whose cleanup fails takes its media file back.
EntryFailsTaken(t) ==
    /\ pc[t] \in {"open", "scan"}
    /\ Fault
    /\ media' = media \ {<<item[t].id, item[t].kind>>}
    /\ unswept' = unswept \cup Unswept(t)
    /\ Return(t)
    /\ UNCHANGED <<manifests, clock, drawn, orphans, torn, gone>>

\* One that was removed meanwhile may show and cannot be read: the whole listing
\* fails, and with it the upload, whose recording stays.
EntryFails(t) ==
    /\ \/ /\ pc[t] = "scan"
          /\ \E i \in opened[t] : i \notin Named(manifests) \cup Named(listing[t])
          /\ UNCHANGED faults
       \/ /\ pc[t] \in {"open", "scan"}
          /\ Fault
    /\ unswept' = unswept \cup Unswept(t)
    /\ Return(t)
    /\ UNCHANGED <<disk, clock, drawn, orphans, torn, gone>>

\* The end of the directory: all that was there from beginning to end was read.  A
\* client gets the items, cleanup goes through them.
EndScan(t) ==
    /\ pc[t] = "scan"
    /\ opened[t] \cap Named(manifests) \subseteq Named(listing[t])
    /\ \/ /\ op[t] = "list"
          /\ Return(t)
       \/ /\ op[t] = "upload"
          /\ Goto(t, "sweep")
          /\ UNCHANGED <<op, item, opened, listing, target>>
    /\ UNCHANGED <<disk, clock, faults, drawn, hist>>

-----------------------------------------------------------------------------
(* cleanup and delete.                                                     *)

\* Items in the order of saved_at.
Oldest(S) == {m \in S : \A n \in S : m.saved <= n.saved}

\* Mutation: the sum leaves out the recording of this upload.
SurplusOthers(t, m) == \/ item[t].saved - m.saved > Retention
                       \/ Total(listing[t] \ {item[t]}) > MaxArchive

\* An item goes when it is past its retention at the time of this upload, or while
\* what is left of the listing does not fit.
Surplus(t, m) == \/ item[t].saved - m.saved > Retention
                 \/ Total(listing[t]) > MaxArchive

\* The loop of cleanup deletes a first part of the listing: once an item stays, the
\* rest fits and is younger, and all that follow stay.
Sweep(t) ==
    /\ pc[t] = "sweep"
    /\ \E m \in Oldest(listing[t]) :
        /\ Surplus(t, m)
        /\ listing' = [listing EXCEPT ![t] = @ \ {m}]
        /\ target' = [target EXCEPT ![t] = m.id]
    /\ Goto(t, "mp4")
    /\ UNCHANGED <<disk, clock, faults, drawn, op, item, opened, hist>>

\* The upload is answered: what was there when it began to list was cleaned up.
EndSweep(t) ==
    /\ pc[t] = "sweep"
    /\ \A m \in Oldest(listing[t]) : ~ Surplus(t, m)
    /\ unswept' = unswept \ opened[t]
    /\ Return(t)
    /\ UNCHANGED <<disk, clock, faults, drawn, orphans, torn, gone>>

\* Mutation: the manifest goes first.
RemoveMp4Last(t) ==
    /\ pc[t] = "mp4"
    /\ manifests' = {m \in manifests : m.id # target[t]}
    /\ Goto(t, "webm")
    /\ UNCHANGED <<media, clock, faults, drawn, op, local, hist>>

\* delete: a file that is not there is as good as removed.
RemoveMp4(t) ==
    /\ pc[t] = "mp4"
    /\ media' = media \ {<<target[t], "mp4">>}
    /\ Goto(t, "webm")
    /\ UNCHANGED <<manifests, clock, faults, drawn, op, local, hist>>

\* Mutation: recordings are taken to be MP4 only.
RemoveWebmForgotten(t) ==
    /\ pc[t] = "webm"
    /\ Goto(t, "json")
    /\ UNCHANGED <<disk, clock, faults, drawn, op, local, hist>>

RemoveWebm(t) ==
    /\ pc[t] = "webm"
    /\ media' = media \ {<<target[t], "webm">>}
    /\ Goto(t, "json")
    /\ UNCHANGED <<manifests, clock, faults, drawn, op, local, hist>>

RemoveJson(t) ==
    /\ pc[t] = "json"
    /\ manifests' = {m \in manifests : m.id # target[t]}
    /\ gone' = gone \cup {target[t]}
    /\ torn' = torn \ {target[t]}
    /\ unswept' = unswept \ {target[t]}
    /\ IF op[t] = "delete"
       THEN Return(t)
       ELSE Goto(t, "sweep") /\ UNCHANGED <<op, local>>
    /\ UNCHANGED <<media, clock, faults, drawn, orphans>>

\* A removal fails; delete and the cleanup that called it give up.
RemoveFails(t) ==
    /\ Fault
    /\ pc[t] \in {"mp4", "webm", "json"}
    /\ torn' = torn \cup HalfRemoved(t)
    /\ unswept' = unswept \cup Unswept(t)
    /\ Return(t)
    /\ UNCHANGED <<disk, clock, drawn, orphans, gone>>

-----------------------------------------------------------------------------
(* Around the handlers.                                                    *)

\* The process dies and starts again.
Crash ==
    /\ Fault
    /\ \E t \in Tasks : pc[t] # "idle"
    /\ orphans' = orphans \cup UNION {HalfWritten(t) : t \in Tasks}
    /\ torn' = torn \cup UNION {HalfRemoved(t) : t \in Tasks}
    /\ unswept' = unswept \cup UNION {Unswept(t) : t \in Tasks}
    /\ pc' = [t \in Tasks |-> "idle"]
    /\ op' = [t \in Tasks |-> "list"]
    /\ item' = [t \in Tasks |-> NoItem]
    /\ opened' = [t \in Tasks |-> {}]
    /\ listing' = [t \in Tasks |-> {}]
    /\ target' = [t \in Tasks |-> NoId]
    /\ UNCHANGED <<disk, clock, drawn, gone>>

Tick ==
    /\ clock < MaxClock
    /\ clock' = clock + 1
    /\ UNCHANGED <<disk, faults, drawn, pc, op, local, hist>>

Next ==
    \/ \E t \in Tasks :
        \/ StartUpload(t) \/ StartList(t) \/ StartRead(t) \/ StartDelete(t)
        \/ ReadFile(t)
        \/ WriteMedia(t) \/ WriteManifest(t) \/ WriteFails(t) \/ Undo(t)
        \/ OpenDir(t) \/ ReadEntry(t) \/ EntryFails(t) \/ EndScan(t)
        \/ Sweep(t) \/ EndSweep(t)
        \/ RemoveMp4(t) \/ RemoveWebm(t) \/ RemoveJson(t) \/ RemoveFails(t)
    \/ Crash
    \/ Tick

Spec == Init /\ [][Next]_vars

-----------------------------------------------------------------------------
(* Properties.                                                             *)

\* Every variable keeps its type.
TypeOK ==
    /\ media \subseteq Ids \X Kinds
    /\ manifests \subseteq Item /\ Named(manifests) \subseteq Ids
    /\ clock \in 0..MaxClock /\ faults \in 0..MaxFaults
    /\ drawn \subseteq Ids
    /\ pc \in [Tasks -> {"idle", "media", "manifest", "undo", "open", "scan", "sweep",
                         "mp4", "webm", "json", "file"}]
    /\ op \in [Tasks -> {"upload", "list", "read", "delete"}]
    /\ item \in [Tasks -> Item]
    /\ opened \in [Tasks -> SUBSET Ids]
    /\ listing \in [Tasks -> SUBSET Item]
    /\ target \in [Tasks -> Ids \cup {NoId}]
    /\ orphans \subseteq Ids /\ torn \subseteq Ids
    /\ unswept \subseteq Ids /\ gone \subseteq Ids

\* A recording that is listed can be fetched: commit puts the media file in place
\* first.  The exceptions are a deletion that is between its files and one that a
\* failure or a crash cut short there (a repeated DELETE completes it).
ListedHasMedia ==
    \A m \in manifests :
        \/ <<m.id, m.kind>> \in media
        \/ m.id \in torn
        \/ \E t \in Tasks : m.id \in HalfRemoved(t)

\* Media that no listing shows, and that no limit counts, comes only from an upload
\* that is between its files or was cut short there: a deletion in any state, by any
\* number of tasks, never leaves some, because delete removes the manifest last.
MediaAccounted ==
    \A f \in media :
        \/ f[1] \in Named(manifests)
        \/ f[1] \in orphans
        \/ \E t \in Tasks : f[1] \in HalfWritten(t)

\* A reader that found the manifest finds the file, unless it meets a deletion of
\* that recording, under way, cut short or complete; an upload and its failures never
\* take a file away from a reader.
ReaderServed ==
    \A t \in Tasks : pc[t] = "file" =>
        \/ <<item[t].id, item[t].kind>> \in media
        \/ item[t].id \in torn \cup gone
        \/ \E u \in Tasks : item[t].id \in HalfRemoved(u)

\* When no upload is under way what is listed fits in MAX_ARCHIVE_BYTES, however the
\* uploads, their cleanups and the deletions overlapped, except for an upload whose
\* own cleanup was cut short, until another cleanup has gone through the directory.
ArchiveFits ==
    \/ \E t \in Tasks : op[t] = "upload"
    \/ unswept # {}
    \/ Total(manifests) <= MaxArchive

\* A recording whose deletion was acknowledged has no file left and gets none.
DeletedIsGone ==
    \A i \in gone : i \notin Named(manifests) /\ \A k \in Kinds : <<i, k>> \notin media

=============================================================================
