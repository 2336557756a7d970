------------------------ MODULE RecordingStoreProofs -------------------------
(***************************************************************************)
(* Proofs about RecordingStore, for any number of requests, recordings,    *)
(* failures and crashes.                                                   *)
(***************************************************************************)
EXTENDS RecordingStore, FiniteSetTheorems, WellFoundedInduction, TLAPS

Writing == {"media", "manifest", "undo"}
Removing == {"mp4", "webm", "json"}

\* Ids that others than their upload may know.
Shown(i) ==
    \/ i \in Named(manifests) \cup gone \cup torn \cup orphans
    \/ \E t \in Tasks : \/ pc[t] \in Removing /\ target[t] = i
                        \/ i \in Named(listing[t]) \cup opened[t]
                        \/ pc[t] = "file" /\ item[t].id = i

\* An id is known to others only after it was drawn; uploads and removals work on
\* drawn ids.
DrawnInv ==
    /\ \A i \in Ids \cup {NoId} : Shown(i) => i \in drawn
    /\ \A f \in media : f[1] \in drawn
    /\ \A t \in Tasks : pc[t] \in Writing \/ op[t] = "upload" => item[t].id \in drawn

\* Until its manifest is written, an upload's id is its own.
OwnInv ==
    \A t \in Tasks : pc[t] \in Writing =>
        /\ op[t] = "upload"
        /\ ~ Shown(item[t].id)
        /\ \A u \in Tasks : pc[u] \in Writing /\ item[u].id = item[t].id => u = t

\* What an upload has written so far, and what a removal has left.
FileInv ==
    /\ \A t \in Tasks : pc[t] \in Writing =>
          \A f \in media : f[1] = item[t].id => pc[t] # "media" /\ f[2] = item[t].kind
    /\ \A t \in Tasks : pc[t] = "manifest" => <<item[t].id, item[t].kind>> \in media
    /\ \A t \in Tasks : pc[t] \in {"webm", "json"} => <<target[t], "mp4">> \notin media
    /\ \A t \in Tasks : pc[t] = "json" => <<target[t], "webm">> \notin media

\* The inductive invariant.
Inv == /\ TypeOK /\ DrawnInv /\ OwnInv /\ FileInv
       /\ ListedHasMedia /\ MediaAccounted /\ ReaderServed /\ DeletedIsGone

USE IdAssumption, SizeAssumption, BoundAssumption

\* Every point of a handler is one of these.
Steps == {"idle", "media", "manifest", "undo", "open", "scan", "sweep",
          "mp4", "webm", "json", "file"}

\* An answer, with the two files of nothing half done.
LEMMA ReturnKeeps ==
  ASSUME Inv, NEW t \in Tasks, Return(t), pc[t] \notin {"manifest", "undo", "webm", "json"},
         UNCHANGED <<media, manifests, clock, drawn, orphans, torn, gone>>,
         faults' \in 0..MaxFaults, unswept' \subseteq Ids
  PROVE  Inv'
<1>1. TypeOK'
  BY DEF Inv, Return, Goto, TypeOK, DrawnInv, Shown, Removing, Writing, Item, NoItem,
         Kinds, Named
<1>2. DrawnInv'
  BY DEF Inv, Return, Goto, TypeOK, DrawnInv, Shown, Writing, Removing, Item, NoItem,
         Named
<1>3. OwnInv'
  BY DEF Inv, Return, Goto, TypeOK, DrawnInv, OwnInv, Shown, Writing, Removing, Item,
         NoItem, Named
<1>4. FileInv'
  BY DEF Inv, Return, Goto, TypeOK, DrawnInv, OwnInv, FileInv, Shown, Writing, Removing,
         Item, Kinds, NoItem
<1>5. ListedHasMedia'
  <2>1. \A u \in Tasks : HalfRemoved(u) \subseteq HalfRemoved(u)'
    BY DEF Inv, Return, Goto, TypeOK, HalfRemoved
  <2> QED BY <2>1 DEF Inv, ListedHasMedia
<1>6. MediaAccounted'
  <2>1. \A u \in Tasks : HalfWritten(u) \subseteq HalfWritten(u)'
    BY DEF Inv, Return, Goto, TypeOK, HalfWritten
  <2> QED BY <2>1 DEF Inv, MediaAccounted
<1>7. ReaderServed'
  <2>1. \A u \in Tasks : HalfRemoved(u) \subseteq HalfRemoved(u)'
    BY DEF Inv, Return, Goto, TypeOK, HalfRemoved
  <2>2. \A x \in Tasks : pc'[x] = "file" => pc[x] = "file" /\ item'[x] = item[x]
    BY DEF Inv, Return, Goto, TypeOK
  <2> QED BY <2>1, <2>2 DEF Inv, ReaderServed
<1>8. DeletedIsGone'
  BY DEF Inv, Return, Goto, TypeOK, OwnInv, FileInv, DeletedIsGone, Shown, Writing,
         Removing, Item, Kinds, Named
<1> QED BY <1>1, <1>2, <1>3, <1>4, <1>5, <1>6, <1>7, <1>8 DEF Inv

\* An upload draws an id that nobody knows.
LEMMA StartUploadKeeps ==
  ASSUME Inv, NEW t \in Tasks, StartUpload(t)
  PROVE  Inv'
<1>1. TypeOK'
  BY DEF Inv, StartUpload, Goto, disk, hist, TypeOK, DrawnInv, Shown, Removing, Writing,
         Item, NoItem, Kinds, Named, Accepted
<1>2. DrawnInv'
  BY DEF Inv, StartUpload, Goto, disk, hist, TypeOK, DrawnInv, Shown, Writing, Removing,
         Item, NoItem, Named
<1>3. OwnInv'
  BY DEF Inv, StartUpload, Goto, disk, hist, TypeOK, DrawnInv, OwnInv, Shown, Writing,
         Removing, Item, NoItem, Named
<1>4. FileInv'
  BY DEF Inv, StartUpload, Goto, disk, hist, TypeOK, DrawnInv, OwnInv, FileInv, Shown,
         Writing, Removing, Item, Kinds, NoItem
<1>5. ListedHasMedia'
  <2>1. \A u \in Tasks : HalfRemoved(u) \subseteq HalfRemoved(u)'
    BY DEF Inv, StartUpload, Goto, TypeOK, HalfRemoved
  <2> QED BY <2>1 DEF Inv, StartUpload, disk, hist, ListedHasMedia
<1>6. MediaAccounted'
  <2>1. \A u \in Tasks : HalfWritten(u) \subseteq HalfWritten(u)'
    BY DEF Inv, StartUpload, Goto, TypeOK, HalfWritten
  <2> QED BY <2>1 DEF Inv, StartUpload, disk, hist, MediaAccounted
<1>7. ReaderServed'
  <2> SUFFICES ASSUME NEW x \in Tasks, pc'[x] = "file"
               PROVE  \/ <<item'[x].id, item'[x].kind>> \in media'
                      \/ item'[x].id \in torn' \cup gone'
                      \/ \E u \in Tasks : item'[x].id \in HalfRemoved(u)'
    BY DEF ReaderServed
  <2>1. pc[x] = "file" /\ item'[x] = item[x] /\ x # t
    BY DEF Inv, StartUpload, Goto, disk, hist, TypeOK
  <2>2. CASE <<item[x].id, item[x].kind>> \in media
    BY <2>1, <2>2 DEF Inv, StartUpload, Goto, disk, hist, TypeOK, OwnInv, Shown,
       Writing, HalfRemoved
  <2>3. CASE item[x].id \in torn \cup gone
    BY <2>1, <2>3 DEF Inv, StartUpload, Goto, disk, hist, TypeOK
  <2>4. CASE \E u \in Tasks : item[x].id \in HalfRemoved(u)
    BY <2>1, <2>4 DEF Inv, StartUpload, Goto, disk, hist, TypeOK, HalfRemoved
  <2> QED BY <2>1, <2>2, <2>3, <2>4 DEF Inv, ReaderServed
<1>8. DeletedIsGone'
  BY DEF Inv, StartUpload, Goto, disk, hist, TypeOK, OwnInv, FileInv, DeletedIsGone,
         Shown, Writing, Removing, Item, Kinds, Named
<1> QED BY <1>1, <1>2, <1>3, <1>4, <1>5, <1>6, <1>7, <1>8 DEF Inv

\* A listing begins.
LEMMA StartListKeeps ==
  ASSUME Inv, NEW t \in Tasks, StartList(t)
  PROVE  Inv'
<1>1. TypeOK'
  BY DEF Inv, StartList, Goto, disk, hist, TypeOK, DrawnInv, Shown, Removing, Writing,
         Item, NoItem, Kinds, Named
<1>2. DrawnInv'
  BY DEF Inv, StartList, Goto, disk, hist, TypeOK, DrawnInv, Shown, Writing, Removing,
         Item, NoItem, Named
<1>3. OwnInv'
  BY DEF Inv, StartList, Goto, disk, hist, TypeOK, DrawnInv, OwnInv, Shown, Writing,
         Removing, Item, NoItem, Named
<1>4. FileInv'
  BY DEF Inv, StartList, Goto, disk, hist, TypeOK, DrawnInv, OwnInv, FileInv, Shown,
         Writing, Removing, Item, Kinds, NoItem
<1>5. ListedHasMedia'
  BY DEF Inv, StartList, Goto, disk, hist, TypeOK, OwnInv, FileInv, ListedHasMedia,
         Shown, Writing, Removing, Item, Kinds, Named, HalfRemoved
<1>6. MediaAccounted'
  BY DEF Inv, StartList, Goto, disk, hist, TypeOK, OwnInv, FileInv, MediaAccounted,
         Shown, Writing, Removing, Item, Kinds, Named, HalfWritten
<1>7. ReaderServed'
  <2>1. \A u \in Tasks : HalfRemoved(u) \subseteq HalfRemoved(u)'
    BY DEF Inv, StartList, Goto, TypeOK, HalfRemoved
  <2>2. \A x \in Tasks : pc'[x] = "file" => pc[x] = "file"
    BY DEF Inv, StartList, Goto, TypeOK
  <2> QED BY <2>1, <2>2 DEF Inv, StartList, disk, hist, ReaderServed
<1>8. DeletedIsGone'
  BY DEF Inv, StartList, Goto, disk, hist, TypeOK, OwnInv, FileInv, DeletedIsGone,
         Shown, Writing, Removing, Item, Kinds, Named
<1> QED BY <1>1, <1>2, <1>3, <1>4, <1>5, <1>6, <1>7, <1>8 DEF Inv

\* A reader finds a manifest.
LEMMA StartReadKeeps ==
  ASSUME Inv, NEW t \in Tasks, StartRead(t)
  PROVE  Inv'
<1>1. TypeOK'
  BY DEF Inv, StartRead, Goto, disk, hist, TypeOK, DrawnInv, Shown, Removing, Writing,
         Item, NoItem, Kinds, Named
<1>2. DrawnInv'
  BY DEF Inv, StartRead, Goto, disk, hist, TypeOK, DrawnInv, Shown, Writing, Removing,
         Item, NoItem, Named
<1>3. OwnInv'
  BY DEF Inv, StartRead, Goto, disk, hist, TypeOK, DrawnInv, OwnInv, Shown, Writing,
         Removing, Item, NoItem, Named
<1>4. FileInv'
  BY DEF Inv, StartRead, Goto, disk, hist, TypeOK, DrawnInv, OwnInv, FileInv, Shown,
         Writing, Removing, Item, Kinds, NoItem
<1>5. ListedHasMedia'
  BY DEF Inv, StartRead, Goto, disk, hist, TypeOK, OwnInv, FileInv, ListedHasMedia,
         Shown, Writing, Removing, Item, Kinds, Named, HalfRemoved
<1>6. MediaAccounted'
  BY DEF Inv, StartRead, Goto, disk, hist, TypeOK, OwnInv, FileInv, MediaAccounted,
         Shown, Writing, Removing, Item, Kinds, Named, HalfWritten
<1>7. ReaderServed'
  <2> SUFFICES ASSUME NEW x \in Tasks, pc'[x] = "file"
               PROVE  \/ <<item'[x].id, item'[x].kind>> \in media'
                      \/ item'[x].id \in torn' \cup gone'
                      \/ \E u \in Tasks : item'[x].id \in HalfRemoved(u)'
    BY DEF ReaderServed
  <2>1. \A u \in Tasks : HalfRemoved(u) \subseteq HalfRemoved(u)'
    BY DEF Inv, StartRead, Goto, TypeOK, HalfRemoved
  <2>2. CASE x = t
    BY <2>1, <2>2 DEF Inv, StartRead, disk, hist, TypeOK, ListedHasMedia
  <2>3. CASE x # t
    BY <2>1, <2>3 DEF Inv, StartRead, Goto, disk, hist, TypeOK, ReaderServed
  <2> QED BY <2>2, <2>3
<1>8. DeletedIsGone'
  BY DEF Inv, StartRead, Goto, disk, hist, TypeOK, OwnInv, FileInv, DeletedIsGone,
         Shown, Writing, Removing, Item, Kinds, Named
<1> QED BY <1>1, <1>2, <1>3, <1>4, <1>5, <1>6, <1>7, <1>8 DEF Inv

\* A deletion begins.
LEMMA StartDeleteKeeps ==
  ASSUME Inv, NEW t \in Tasks, StartDelete(t)
  PROVE  Inv'
<1>1. TypeOK'
  BY DEF Inv, StartDelete, Goto, disk, hist, TypeOK, DrawnInv, Shown, Removing, Writing,
         Item, NoItem, Kinds, Named
<1>2. DrawnInv'
  BY DEF Inv, StartDelete, Goto, disk, hist, TypeOK, DrawnInv, Shown, Writing, Removing,
         Item, NoItem, Named
<1>3. OwnInv'
  BY DEF Inv, StartDelete, Goto, disk, hist, TypeOK, DrawnInv, OwnInv, Shown, Writing,
         Removing, Item, NoItem, Named
<1>4. FileInv'
  BY DEF Inv, StartDelete, Goto, disk, hist, TypeOK, DrawnInv, OwnInv, FileInv, Shown,
         Writing, Removing, Item, Kinds, NoItem
<1>5. ListedHasMedia'
  BY DEF Inv, StartDelete, Goto, disk, hist, TypeOK, OwnInv, FileInv, ListedHasMedia,
         Shown, Writing, Removing, Item, Kinds, Named, HalfRemoved
<1>6. MediaAccounted'
  BY DEF Inv, StartDelete, Goto, disk, hist, TypeOK, OwnInv, FileInv, MediaAccounted,
         Shown, Writing, Removing, Item, Kinds, Named, HalfWritten
<1>7. ReaderServed'
  <2>1. \A u \in Tasks : HalfRemoved(u) \subseteq HalfRemoved(u)'
    BY DEF Inv, StartDelete, Goto, TypeOK, HalfRemoved
  <2>2. \A x \in Tasks : pc'[x] = "file" => pc[x] = "file"
    BY DEF Inv, StartDelete, Goto, TypeOK
  <2> QED BY <2>1, <2>2 DEF Inv, StartDelete, disk, hist, ReaderServed
<1>8. DeletedIsGone'
  BY DEF Inv, StartDelete, Goto, disk, hist, TypeOK, OwnInv, FileInv, DeletedIsGone,
         Shown, Writing, Removing, Item, Kinds, Named
<1> QED BY <1>1, <1>2, <1>3, <1>4, <1>5, <1>6, <1>7, <1>8 DEF Inv

\* The media file appears under an id that nobody knows.
LEMMA WriteMediaKeeps ==
  ASSUME Inv, NEW t \in Tasks, WriteMedia(t)
  PROVE  Inv'
<1>1. TypeOK'
  BY DEF Inv, WriteMedia, Goto, local, hist, TypeOK, DrawnInv, Shown, Removing, Writing,
         Item, NoItem, Kinds, Named
<1>2. DrawnInv'
  BY DEF Inv, WriteMedia, Goto, local, hist, TypeOK, DrawnInv, Shown, Writing, Removing,
         Item, NoItem, Named
<1>3. OwnInv'
  BY DEF Inv, WriteMedia, Goto, local, hist, TypeOK, DrawnInv, OwnInv, Shown, Writing,
         Removing, Item, NoItem, Named
<1>4. FileInv'
  BY DEF Inv, WriteMedia, Goto, local, hist, TypeOK, DrawnInv, OwnInv, FileInv, Shown,
         Writing, Removing, Item, Kinds, NoItem
<1>5. ListedHasMedia'
  BY DEF Inv, WriteMedia, Goto, local, hist, TypeOK, OwnInv, FileInv, ListedHasMedia,
         Shown, Writing, Removing, Item, Kinds, Named, HalfRemoved
<1>6. MediaAccounted'
  <2>1. \A u \in Tasks : HalfWritten(u) \subseteq HalfWritten(u)'
    BY DEF Inv, WriteMedia, Goto, local, TypeOK, HalfWritten
  <2>2. item[t].id \in HalfWritten(t)'
    BY DEF Inv, WriteMedia, Goto, local, TypeOK, HalfWritten
  <2> QED BY <2>1, <2>2 DEF Inv, WriteMedia, local, hist, TypeOK, MediaAccounted
<1>7. ReaderServed'
  <2>1. \A u \in Tasks : HalfRemoved(u) \subseteq HalfRemoved(u)'
    BY DEF Inv, WriteMedia, Goto, local, TypeOK, HalfRemoved
  <2>2. \A x \in Tasks : pc'[x] = "file" => pc[x] = "file" /\ item'[x] = item[x]
    BY DEF Inv, WriteMedia, Goto, local, TypeOK
  <2> QED BY <2>1, <2>2 DEF Inv, WriteMedia, hist, ReaderServed
<1>8. DeletedIsGone'
  <2>1. item[t].id \notin gone
    BY DEF Inv, WriteMedia, OwnInv, Shown, Writing
  <2> QED BY <2>1 DEF Inv, WriteMedia, hist, DeletedIsGone
<1> QED BY <1>1, <1>2, <1>3, <1>4, <1>5, <1>6, <1>7, <1>8 DEF Inv

\* The manifest appears beside its media file.
LEMMA WriteManifestKeeps ==
  ASSUME Inv, NEW t \in Tasks, WriteManifest(t)
  PROVE  Inv'
<1>1. TypeOK'
  BY DEF Inv, WriteManifest, Goto, local, hist, TypeOK, DrawnInv, Shown, Removing,
         Writing, Item, NoItem, Kinds, Named
<1>2. DrawnInv'
  BY DEF Inv, WriteManifest, Goto, local, hist, TypeOK, DrawnInv, Shown, Writing,
         Removing, Item, NoItem, Named
<1>3. OwnInv'
  BY DEF Inv, WriteManifest, Goto, local, hist, TypeOK, DrawnInv, OwnInv, Shown,
         Writing, Removing, Item, NoItem, Named
<1>4. FileInv'
  BY DEF Inv, WriteManifest, Goto, local, hist, TypeOK, DrawnInv, OwnInv, FileInv,
         Shown, Writing, Removing, Item, Kinds, NoItem
<1>5. ListedHasMedia'
  BY DEF Inv, WriteManifest, Goto, local, hist, TypeOK, OwnInv, FileInv, ListedHasMedia,
         Shown, Writing, Removing, Item, Kinds, Named, HalfRemoved
<1>6. MediaAccounted'
  <2>1. Named(manifests) \subseteq Named(manifests') /\ item[t].id \in Named(manifests')
    BY DEF WriteManifest, Named
  <2>2. \A u \in Tasks \ {t} : HalfWritten(u) \subseteq HalfWritten(u)'
    BY DEF Inv, WriteManifest, Goto, local, TypeOK, HalfWritten
  <2>3. HalfWritten(t) = {item[t].id}
    BY DEF WriteManifest, HalfWritten
  <2> QED BY <2>1, <2>2, <2>3 DEF Inv, WriteManifest, hist, TypeOK, MediaAccounted
<1>7. ReaderServed'
  <2>1. \A u \in Tasks : HalfRemoved(u) \subseteq HalfRemoved(u)'
    BY DEF Inv, WriteManifest, Goto, local, TypeOK, HalfRemoved
  <2>2. \A x \in Tasks : pc'[x] = "file" => pc[x] = "file" /\ item'[x] = item[x]
    BY DEF Inv, WriteManifest, Goto, local, TypeOK
  <2> QED BY <2>1, <2>2 DEF Inv, WriteManifest, hist, ReaderServed
<1>8. DeletedIsGone'
  <2>1. Named(manifests') = Named(manifests) \cup {item[t].id}
    BY DEF WriteManifest, Named
  <2>2. item[t].id \notin gone
    BY DEF Inv, WriteManifest, OwnInv, Shown, Writing
  <2> QED BY <2>1, <2>2 DEF Inv, WriteManifest, hist, DeletedIsGone
<1> QED BY <1>1, <1>2, <1>3, <1>4, <1>5, <1>6, <1>7, <1>8 DEF Inv

\* The media file goes, or is left behind as an orphan.
LEMMA UndoKeeps ==
  ASSUME Inv, NEW t \in Tasks, Undo(t)
  PROVE  Inv'
<1>1. TypeOK'
  BY DEF Inv, Undo, Return, Goto, Fault, TypeOK, DrawnInv, Shown, Removing, Writing,
         Item, NoItem, Kinds, Named
<1>2. DrawnInv'
  BY DEF Inv, Undo, Return, Goto, Fault, TypeOK, DrawnInv, Shown, Writing, Removing,
         Item, NoItem, Named
<1>3. OwnInv'
  BY DEF Inv, Undo, Return, Goto, Fault, TypeOK, DrawnInv, OwnInv, Shown, Writing,
         Removing, Item, NoItem, Named
<1>4. FileInv'
  BY DEF Inv, Undo, Return, Goto, Fault, TypeOK, DrawnInv, OwnInv, FileInv, Shown,
         Writing, Removing, Item, Kinds, NoItem
<1>5. ListedHasMedia'
  <2>1. \A u \in Tasks : HalfRemoved(u) \subseteq HalfRemoved(u)'
    BY DEF Inv, Undo, Return, Goto, TypeOK, HalfRemoved
  <2>2. \A m \in manifests : m.id # item[t].id
    BY DEF Inv, Undo, OwnInv, Shown, Writing, Named
  <2> QED BY <2>1, <2>2 DEF Inv, Undo, TypeOK, ListedHasMedia
<1>6. MediaAccounted'
  <2> SUFFICES ASSUME NEW f \in media'
               PROVE  \/ f[1] \in Named(manifests') \cup orphans'
                      \/ \E u \in Tasks : f[1] \in HalfWritten(u)'
    BY DEF MediaAccounted
  <2>1. f \in media /\ f = <<f[1], f[2]>>
    BY DEF Inv, Undo, TypeOK
  <2>2. CASE f[1] = item[t].id
    BY <2>1, <2>2 DEF Inv, Undo, FileInv, Writing
  <2>3. CASE f[1] # item[t].id
    <3>1. \A u \in Tasks \ {t} : HalfWritten(u) \subseteq HalfWritten(u)'
      BY DEF Inv, Undo, Return, Goto, TypeOK, HalfWritten
    <3>2. f[1] \notin HalfWritten(t)
      BY <2>3 DEF HalfWritten
    <3> QED BY <2>1, <3>1, <3>2 DEF Inv, Undo, MediaAccounted
  <2> QED BY <2>2, <2>3
<1>7. ReaderServed'
  <2>1. \A u \in Tasks : HalfRemoved(u) \subseteq HalfRemoved(u)'
    BY DEF Inv, Undo, Return, Goto, TypeOK, HalfRemoved
  <2>2. \A x \in Tasks : pc'[x] = "file" => pc[x] = "file" /\ item'[x] = item[x]
    BY DEF Inv, Undo, Return, Goto, TypeOK
  <2>3. \A x \in Tasks : pc[x] = "file" => item[x].id # item[t].id
    BY DEF Inv, Undo, OwnInv, Shown, Writing
  <2> QED BY <2>1, <2>2, <2>3 DEF Inv, Undo, ReaderServed
<1>8. DeletedIsGone'
  BY DEF Inv, Undo, Return, Goto, Fault, TypeOK, OwnInv, FileInv, DeletedIsGone, Shown,
         Writing, Removing, Item, Kinds, Named
<1> QED BY <1>1, <1>2, <1>3, <1>4, <1>5, <1>6, <1>7, <1>8 DEF Inv

\* Cleanup opens the directory.
LEMMA OpenDirKeeps ==
  ASSUME Inv, NEW t \in Tasks, OpenDir(t)
  PROVE  Inv'
<1>1. TypeOK'
  BY DEF Inv, OpenDir, Goto, disk, hist, TypeOK, DrawnInv, Shown, Removing, Writing,
         Item, NoItem, Kinds, Named
<1>2. DrawnInv'
  BY DEF Inv, OpenDir, Goto, disk, hist, TypeOK, DrawnInv, Shown, Writing, Removing,
         Item, NoItem, Named
<1>3. OwnInv'
  BY DEF Inv, OpenDir, Goto, disk, hist, TypeOK, DrawnInv, OwnInv, Shown, Writing,
         Removing, Item, NoItem, Named
<1>4. FileInv'
  BY DEF Inv, OpenDir, Goto, disk, hist, TypeOK, DrawnInv, OwnInv, FileInv, Shown,
         Writing, Removing, Item, Kinds, NoItem
<1>5. ListedHasMedia'
  BY DEF Inv, OpenDir, Goto, disk, hist, TypeOK, OwnInv, FileInv, ListedHasMedia, Shown,
         Writing, Removing, Item, Kinds, Named, HalfRemoved
<1>6. MediaAccounted'
  BY DEF Inv, OpenDir, Goto, disk, hist, TypeOK, OwnInv, FileInv, MediaAccounted, Shown,
         Writing, Removing, Item, Kinds, Named, HalfWritten
<1>7. ReaderServed'
  <2>1. \A u \in Tasks : HalfRemoved(u) \subseteq HalfRemoved(u)'
    BY DEF Inv, OpenDir, Goto, TypeOK, HalfRemoved
  <2>2. \A x \in Tasks : pc'[x] = "file" => pc[x] = "file" /\ item'[x] = item[x]
    BY DEF Inv, OpenDir, Goto, TypeOK
  <2> QED BY <2>1, <2>2 DEF Inv, OpenDir, disk, hist, ReaderServed
<1>8. DeletedIsGone'
  BY DEF Inv, OpenDir, Goto, disk, hist, TypeOK, OwnInv, FileInv, DeletedIsGone, Shown,
         Writing, Removing, Item, Kinds, Named
<1> QED BY <1>1, <1>2, <1>3, <1>4, <1>5, <1>6, <1>7, <1>8 DEF Inv

\* An entry is read.
LEMMA ReadEntryKeeps ==
  ASSUME Inv, NEW t \in Tasks, ReadEntry(t)
  PROVE  Inv'
<1>1. TypeOK'
  BY DEF Inv, ReadEntry, disk, hist, TypeOK, DrawnInv, Shown, Removing, Writing, Item,
         NoItem, Kinds, Named
<1>2. DrawnInv'
  BY DEF Inv, ReadEntry, disk, hist, TypeOK, DrawnInv, Shown, Writing, Removing, Item,
         NoItem, Named
<1>3. OwnInv'
  BY DEF Inv, ReadEntry, disk, hist, TypeOK, DrawnInv, OwnInv, Shown, Writing, Removing,
         Item, NoItem, Named
<1>4. FileInv'
  BY DEF Inv, ReadEntry, disk, hist, TypeOK, DrawnInv, OwnInv, FileInv, Shown, Writing,
         Removing, Item, Kinds, NoItem
<1>5. ListedHasMedia'
  BY DEF Inv, ReadEntry, disk, hist, TypeOK, OwnInv, FileInv, ListedHasMedia, Shown,
         Writing, Removing, Item, Kinds, Named, HalfRemoved
<1>6. MediaAccounted'
  BY DEF Inv, ReadEntry, disk, hist, TypeOK, OwnInv, FileInv, MediaAccounted, Shown,
         Writing, Removing, Item, Kinds, Named, HalfWritten
<1>7. ReaderServed'
  BY DEF Inv, ReadEntry, disk, hist, TypeOK, OwnInv, FileInv, ListedHasMedia,
         ReaderServed, Shown, Writing, Removing, HalfRemoved, Named
<1>8. DeletedIsGone'
  BY DEF Inv, ReadEntry, disk, hist, TypeOK, OwnInv, FileInv, DeletedIsGone, Shown,
         Writing, Removing, Item, Kinds, Named
<1> QED BY <1>1, <1>2, <1>3, <1>4, <1>5, <1>6, <1>7, <1>8 DEF Inv

\* Cleanup picks a recording.
LEMMA SweepKeeps ==
  ASSUME Inv, NEW t \in Tasks, Sweep(t)
  PROVE  Inv'
<1>1. TypeOK'
  BY DEF Inv, Sweep, Goto, disk, hist, Oldest, TypeOK, DrawnInv, Shown, Removing,
         Writing, Item, NoItem, Kinds, Named
<1>2. DrawnInv'
  BY DEF Inv, Sweep, Goto, disk, hist, Oldest, TypeOK, DrawnInv, Shown, Writing,
         Removing, Item, NoItem, Named
<1>3. OwnInv'
  BY DEF Inv, Sweep, Goto, disk, hist, Oldest, TypeOK, DrawnInv, OwnInv, Shown, Writing,
         Removing, Item, NoItem, Named
<1>4. FileInv'
  BY DEF Inv, Sweep, Goto, disk, hist, Oldest, TypeOK, DrawnInv, OwnInv, FileInv, Shown,
         Writing, Removing, Item, Kinds, NoItem
<1>5. ListedHasMedia'
  BY DEF Inv, Sweep, Goto, disk, hist, Oldest, TypeOK, OwnInv, FileInv, ListedHasMedia,
         Shown, Writing, Removing, Item, Kinds, Named, HalfRemoved
<1>6. MediaAccounted'
  BY DEF Inv, Sweep, Goto, disk, hist, Oldest, TypeOK, OwnInv, FileInv, MediaAccounted,
         Shown, Writing, Removing, Item, Kinds, Named, HalfWritten
<1>7. ReaderServed'
  <2>1. \A u \in Tasks : HalfRemoved(u) \subseteq HalfRemoved(u)'
    BY DEF Inv, Sweep, Goto, TypeOK, HalfRemoved
  <2>2. \A x \in Tasks : pc'[x] = "file" => pc[x] = "file" /\ item'[x] = item[x]
    BY DEF Inv, Sweep, Goto, TypeOK
  <2> QED BY <2>1, <2>2 DEF Inv, Sweep, disk, hist, ReaderServed
<1>8. DeletedIsGone'
  BY DEF Inv, Sweep, Goto, disk, hist, Oldest, TypeOK, OwnInv, FileInv, DeletedIsGone,
         Shown, Writing, Removing, Item, Kinds, Named
<1> QED BY <1>1, <1>2, <1>3, <1>4, <1>5, <1>6, <1>7, <1>8 DEF Inv

\* A removal's first file.
LEMMA RemoveMp4Keeps ==
  ASSUME Inv, NEW t \in Tasks, RemoveMp4(t)
  PROVE  Inv'
<1>1. TypeOK'
  BY DEF Inv, RemoveMp4, Goto, local, hist, TypeOK, DrawnInv, Shown, Removing, Writing,
         Item, NoItem, Kinds, Named
<1>2. DrawnInv'
  BY DEF Inv, RemoveMp4, Goto, local, hist, TypeOK, DrawnInv, Shown, Writing, Removing,
         Item, NoItem, Named
<1>3. OwnInv'
  BY DEF Inv, RemoveMp4, Goto, local, hist, TypeOK, DrawnInv, OwnInv, Shown, Writing,
         Removing, Item, NoItem, Named
<1>4. FileInv'
  BY DEF Inv, RemoveMp4, Goto, local, hist, TypeOK, DrawnInv, OwnInv, FileInv, Shown,
         Writing, Removing, Item, Kinds, NoItem
<1>5. ListedHasMedia'
  BY DEF Inv, RemoveMp4, Goto, local, hist, TypeOK, OwnInv, FileInv, ListedHasMedia,
         Shown, Writing, Removing, Item, Kinds, Named, HalfRemoved
<1>6. MediaAccounted'
  BY DEF Inv, RemoveMp4, Goto, local, hist, TypeOK, OwnInv, FileInv, MediaAccounted,
         Shown, Writing, Removing, Item, Kinds, Named, HalfWritten
<1>7. ReaderServed'
  <2> SUFFICES ASSUME NEW x \in Tasks, pc'[x] = "file"
               PROVE  \/ <<item'[x].id, item'[x].kind>> \in media'
                      \/ item'[x].id \in torn' \cup gone'
                      \/ \E u \in Tasks : item'[x].id \in HalfRemoved(u)'
    BY DEF ReaderServed
  <2>1. pc[x] = "file" /\ item'[x] = item[x] /\ x # t
    BY DEF Inv, RemoveMp4, Goto, local, hist, TypeOK
  <2>2. CASE <<item[x].id, item[x].kind>> \in media
    BY <2>1, <2>2 DEF Inv, RemoveMp4, Goto, local, hist, TypeOK, OwnInv, Shown, Writing,
       HalfRemoved
  <2>3. CASE item[x].id \in torn \cup gone
    BY <2>1, <2>3 DEF Inv, RemoveMp4, Goto, local, hist, TypeOK
  <2>4. CASE \E u \in Tasks : item[x].id \in HalfRemoved(u)
    BY <2>1, <2>4 DEF Inv, RemoveMp4, Goto, local, hist, TypeOK, HalfRemoved
  <2> QED BY <2>1, <2>2, <2>3, <2>4 DEF Inv, ReaderServed
<1>8. DeletedIsGone'
  BY DEF Inv, RemoveMp4, Goto, local, hist, TypeOK, OwnInv, FileInv, DeletedIsGone,
         Shown, Writing, Removing, Item, Kinds, Named
<1> QED BY <1>1, <1>2, <1>3, <1>4, <1>5, <1>6, <1>7, <1>8 DEF Inv

\* Its second file.
LEMMA RemoveWebmKeeps ==
  ASSUME Inv, NEW t \in Tasks, RemoveWebm(t)
  PROVE  Inv'
<1>1. TypeOK'
  BY DEF Inv, RemoveWebm, Goto, local, hist, TypeOK, DrawnInv, Shown, Removing, Writing,
         Item, NoItem, Kinds, Named
<1>2. DrawnInv'
  BY DEF Inv, RemoveWebm, Goto, local, hist, TypeOK, DrawnInv, Shown, Writing, Removing,
         Item, NoItem, Named
<1>3. OwnInv'
  BY DEF Inv, RemoveWebm, Goto, local, hist, TypeOK, DrawnInv, OwnInv, Shown, Writing,
         Removing, Item, NoItem, Named
<1>4. FileInv'
  BY DEF Inv, RemoveWebm, Goto, local, hist, TypeOK, DrawnInv, OwnInv, FileInv, Shown,
         Writing, Removing, Item, Kinds, NoItem
<1>5. ListedHasMedia'
  BY DEF Inv, RemoveWebm, Goto, local, hist, TypeOK, OwnInv, FileInv, ListedHasMedia,
         Shown, Writing, Removing, Item, Kinds, Named, HalfRemoved
<1>6. MediaAccounted'
  BY DEF Inv, RemoveWebm, Goto, local, hist, TypeOK, OwnInv, FileInv, MediaAccounted,
         Shown, Writing, Removing, Item, Kinds, Named, HalfWritten
<1>7. ReaderServed'
  <2> SUFFICES ASSUME NEW x \in Tasks, pc'[x] = "file"
               PROVE  \/ <<item'[x].id, item'[x].kind>> \in media'
                      \/ item'[x].id \in torn' \cup gone'
                      \/ \E u \in Tasks : item'[x].id \in HalfRemoved(u)'
    BY DEF ReaderServed
  <2>1. pc[x] = "file" /\ item'[x] = item[x] /\ x # t
    BY DEF Inv, RemoveWebm, Goto, local, hist, TypeOK
  <2>2. CASE <<item[x].id, item[x].kind>> \in media
    BY <2>1, <2>2 DEF Inv, RemoveWebm, Goto, local, hist, TypeOK, OwnInv, Shown,
       Writing, HalfRemoved
  <2>3. CASE item[x].id \in torn \cup gone
    BY <2>1, <2>3 DEF Inv, RemoveWebm, Goto, local, hist, TypeOK
  <2>4. CASE \E u \in Tasks : item[x].id \in HalfRemoved(u)
    BY <2>1, <2>4 DEF Inv, RemoveWebm, Goto, local, hist, TypeOK, HalfRemoved
  <2> QED BY <2>1, <2>2, <2>3, <2>4 DEF Inv, ReaderServed
<1>8. DeletedIsGone'
  BY DEF Inv, RemoveWebm, Goto, local, hist, TypeOK, OwnInv, FileInv, DeletedIsGone,
         Shown, Writing, Removing, Item, Kinds, Named
<1> QED BY <1>1, <1>2, <1>3, <1>4, <1>5, <1>6, <1>7, <1>8 DEF Inv

\* A manifest cannot be written.
LEMMA GotoUndoKeeps ==
  ASSUME Inv, NEW t \in Tasks, pc[t] = "manifest", Goto(t, "undo"), faults' \in 0..MaxFaults,
         UNCHANGED <<op, local, disk, clock, drawn, hist>>
  PROVE  Inv'
<1>1. TypeOK'
  BY DEF Inv, Goto, disk, local, hist, TypeOK, DrawnInv, Shown, Removing, Writing, Item,
         NoItem, Kinds, Named
<1>2. DrawnInv'
  BY DEF Inv, Goto, disk, local, hist, TypeOK, DrawnInv, Shown, Writing, Removing, Item,
         NoItem, Named
<1>3. OwnInv'
  BY DEF Inv, Goto, disk, local, hist, TypeOK, DrawnInv, OwnInv, Shown, Writing,
         Removing, Item, NoItem, Named
<1>4. FileInv'
  BY DEF Inv, Goto, disk, local, hist, TypeOK, DrawnInv, OwnInv, FileInv, Shown,
         Writing, Removing, Item, Kinds, NoItem
<1>5. ListedHasMedia'
  BY DEF Inv, Goto, disk, local, hist, TypeOK, OwnInv, FileInv, ListedHasMedia, Shown,
         Writing, Removing, Item, Kinds, Named, HalfRemoved
<1>6. MediaAccounted'
  BY DEF Inv, Goto, disk, local, hist, TypeOK, OwnInv, FileInv, MediaAccounted, Shown,
         Writing, Removing, Item, Kinds, Named, HalfWritten
<1>7. ReaderServed'
  <2>1. \A u \in Tasks : HalfRemoved(u) \subseteq HalfRemoved(u)'
    BY DEF Inv, Goto, local, TypeOK, HalfRemoved
  <2>2. \A x \in Tasks : pc'[x] = "file" => pc[x] = "file" /\ item'[x] = item[x]
    BY DEF Inv, Goto, local, TypeOK
  <2> QED BY <2>1, <2>2 DEF Inv, disk, hist, ReaderServed
<1>8. DeletedIsGone'
  BY DEF Inv, Goto, disk, local, hist, TypeOK, OwnInv, FileInv, DeletedIsGone, Shown,
         Writing, Removing, Item, Kinds, Named
<1> QED BY <1>1, <1>2, <1>3, <1>4, <1>5, <1>6, <1>7, <1>8 DEF Inv

\* Cleanup has its listing.
LEMMA GotoSweepKeeps ==
  ASSUME Inv, NEW t \in Tasks, pc[t] = "scan", Goto(t, "sweep"),
         UNCHANGED <<op, item, opened, listing, target, disk, clock, faults, drawn, hist>>
  PROVE  Inv'
<1>1. TypeOK'
  BY DEF Inv, Goto, disk, hist, TypeOK, DrawnInv, Shown, Removing, Writing, Item,
         NoItem, Kinds, Named
<1>2. DrawnInv'
  BY DEF Inv, Goto, disk, hist, TypeOK, DrawnInv, Shown, Writing, Removing, Item,
         NoItem, Named
<1>3. OwnInv'
  BY DEF Inv, Goto, disk, hist, TypeOK, DrawnInv, OwnInv, Shown, Writing, Removing,
         Item, NoItem, Named
<1>4. FileInv'
  BY DEF Inv, Goto, disk, hist, TypeOK, DrawnInv, OwnInv, FileInv, Shown, Writing,
         Removing, Item, Kinds, NoItem
<1>5. ListedHasMedia'
  BY DEF Inv, Goto, disk, hist, TypeOK, OwnInv, FileInv, ListedHasMedia, Shown, Writing,
         Removing, Item, Kinds, Named, HalfRemoved
<1>6. MediaAccounted'
  BY DEF Inv, Goto, disk, hist, TypeOK, OwnInv, FileInv, MediaAccounted, Shown, Writing,
         Removing, Item, Kinds, Named, HalfWritten
<1>7. ReaderServed'
  <2> SUFFICES ASSUME NEW x \in Tasks, pc'[x] = "file"
               PROVE  \/ <<item'[x].id, item'[x].kind>> \in media'
                      \/ item'[x].id \in torn' \cup gone'
                      \/ \E u \in Tasks : item'[x].id \in HalfRemoved(u)'
    BY DEF ReaderServed
  <2>1. pc[x] = "file" /\ item'[x] = item[x] /\ x # t
    BY DEF Inv, Goto, disk, hist, TypeOK
  <2>2. CASE <<item[x].id, item[x].kind>> \in media
    BY <2>1, <2>2 DEF Inv, Goto, disk, hist, TypeOK, OwnInv, Shown, Writing, HalfRemoved
  <2>3. CASE item[x].id \in torn \cup gone
    BY <2>1, <2>3 DEF Inv, Goto, disk, hist, TypeOK
  <2>4. CASE \E u \in Tasks : item[x].id \in HalfRemoved(u)
    BY <2>1, <2>4 DEF Inv, Goto, disk, hist, TypeOK, HalfRemoved
  <2> QED BY <2>1, <2>2, <2>3, <2>4 DEF Inv, ReaderServed
<1>8. DeletedIsGone'
  BY DEF Inv, Goto, disk, hist, TypeOK, OwnInv, FileInv, DeletedIsGone, Shown, Writing,
         Removing, Item, Kinds, Named
<1> QED BY <1>1, <1>2, <1>3, <1>4, <1>5, <1>6, <1>7, <1>8 DEF Inv

\* A removal is cut short.
LEMMA RemoveFailsKeeps ==
  ASSUME Inv, NEW t \in Tasks, RemoveFails(t)
  PROVE  Inv'
<1>1. TypeOK'
  BY DEF Inv, RemoveFails, Return, Goto, Fault, disk, HalfRemoved, Unswept, TypeOK,
         DrawnInv, Shown, Removing, Writing, Item, NoItem, Kinds, Named
<1>2. DrawnInv'
  BY DEF Inv, RemoveFails, Return, Goto, Fault, disk, HalfRemoved, Unswept, TypeOK,
         DrawnInv, Shown, Writing, Removing, Item, NoItem, Named
<1>3. OwnInv'
  BY DEF Inv, RemoveFails, Return, Goto, Fault, disk, HalfRemoved, Unswept, TypeOK,
         DrawnInv, OwnInv, Shown, Writing, Removing, Item, NoItem, Named
<1>4. FileInv'
  BY DEF Inv, RemoveFails, Return, Goto, Fault, disk, HalfRemoved, Unswept, TypeOK,
         DrawnInv, OwnInv, FileInv, Shown, Writing, Removing, Item, Kinds, NoItem
<1>5. ListedHasMedia'
  BY DEF Inv, RemoveFails, Return, Goto, Fault, disk, HalfRemoved, Unswept, TypeOK,
         OwnInv, FileInv, ListedHasMedia, Shown, Writing, Removing, Item, Kinds, Named
<1>6. MediaAccounted'
  BY DEF Inv, RemoveFails, Return, Goto, Fault, disk, HalfRemoved, Unswept, TypeOK,
         OwnInv, FileInv, MediaAccounted, Shown, Writing, Removing, Item, Kinds, Named,
         HalfWritten
<1>7. ReaderServed'
  BY DEF Inv, RemoveFails, Return, Goto, Fault, disk, HalfRemoved, Unswept, TypeOK,
         OwnInv, FileInv, ListedHasMedia, ReaderServed, Shown, Writing, Removing, Named
<1>8. DeletedIsGone'
  BY DEF Inv, RemoveFails, Return, Goto, Fault, disk, HalfRemoved, Unswept, TypeOK,
         OwnInv, FileInv, DeletedIsGone, Shown, Writing, Removing, Item, Kinds, Named
<1> QED BY <1>1, <1>2, <1>3, <1>4, <1>5, <1>6, <1>7, <1>8 DEF Inv

\* A removal's last file: the manifest.
LEMMA RemoveJsonKeeps ==
  ASSUME Inv, NEW t \in Tasks, RemoveJson(t)
  PROVE  Inv'
<1>1. /\ pc' = [pc EXCEPT ![t] = pc'[t]] /\ pc'[t] \in {"idle", "sweep"}
      /\ op' = [op EXCEPT ![t] = op'[t]] /\ op'[t] \in {op[t], "list"}
      /\ item' = [item EXCEPT ![t] = item'[t]] /\ item'[t] \in {item[t], NoItem}
      /\ opened' = [opened EXCEPT ![t] = opened'[t]] /\ opened'[t] \in {opened[t], {}}
      /\ listing' = [listing EXCEPT ![t] = listing'[t]] /\ listing'[t] \in {listing[t], {}}
      /\ target' = [target EXCEPT ![t] = target'[t]] /\ target'[t] \in {target[t], NoId}
      /\ op'[t] = "upload" => item'[t] = item[t]
  <2>1. CASE op[t] = "delete"
    BY <2>1 DEF Inv, TypeOK, RemoveJson, Return, Goto
  <2>2. CASE op[t] # "delete"
    BY <2>2 DEF Inv, TypeOK, RemoveJson, Goto, local
  <2> QED BY <2>1, <2>2
<1>2. /\ manifests' = {m \in manifests : m.id # target[t]} /\ media' = media
      /\ gone' = gone \cup {target[t]} /\ torn' = torn \ {target[t]}
      /\ unswept' = unswept \ {target[t]}
      /\ clock' = clock /\ faults' = faults /\ drawn' = drawn /\ orphans' = orphans
      /\ pc[t] = "json"
  BY DEF RemoveJson
<1>3. target[t] \in drawn
  BY <1>2 DEF Inv, TypeOK, DrawnInv, Shown, Removing
<1>4. Named(manifests') = Named(manifests) \ {target[t]}
  BY <1>2 DEF Named
<1>5. \A k \in Kinds : <<target[t], k>> \notin media
  BY <1>2 DEF Inv, FileInv, Kinds
<1>6. TypeOK'
  <2>1. NoItem \in Item
    BY DEF Item, NoItem, Kinds
  <2>2. /\ pc' \in [Tasks -> Steps] /\ op' \in [Tasks -> {"upload", "list", "read", "delete"}]
        /\ item' \in [Tasks -> Item] /\ opened' \in [Tasks -> SUBSET Ids]
        /\ listing' \in [Tasks -> SUBSET Item] /\ target' \in [Tasks -> Ids \cup {NoId}]
    BY <1>1, <2>1 DEF Inv, TypeOK, Steps
  <2>3. gone' \subseteq Ids
    BY <1>2, <1>3 DEF Inv, TypeOK
  <2> QED BY <1>2, <1>4, <2>2, <2>3 DEF Inv, TypeOK, Steps
<1>7. DrawnInv'
  BY <1>1, <1>2, <1>3, <1>4 DEF Inv, TypeOK, DrawnInv, Shown, Writing, Removing, Named
<1>8. OwnInv'
  BY <1>1, <1>2, <1>3, <1>4 DEF Inv, TypeOK, OwnInv, Shown, Writing, Removing, Named
<1>9. FileInv'
  BY <1>1, <1>2 DEF Inv, TypeOK, FileInv, Writing
<1>10. ListedHasMedia'
  <2>1. \A u \in Tasks \ {t} : HalfRemoved(u) \subseteq HalfRemoved(u)'
    BY <1>1 DEF Inv, TypeOK, HalfRemoved
  <2>2. HalfRemoved(t) = {target[t]}
    BY <1>2 DEF HalfRemoved
  <2> QED BY <1>2, <2>1, <2>2 DEF Inv, ListedHasMedia
<1>11. MediaAccounted'
  <2>1. \A u \in Tasks : HalfWritten(u) \subseteq HalfWritten(u)'
    BY <1>1, <1>2 DEF Inv, TypeOK, HalfWritten
  <2>2. \A f \in media : f[1] # target[t]
    BY <1>5 DEF Inv, TypeOK
  <2> QED BY <1>2, <1>4, <2>1, <2>2 DEF Inv, MediaAccounted
<1>12. ReaderServed'
  <2>1. \A u \in Tasks \ {t} : HalfRemoved(u) \subseteq HalfRemoved(u)'
    BY <1>1 DEF Inv, TypeOK, HalfRemoved
  <2>2. HalfRemoved(t) = {target[t]}
    BY <1>2 DEF HalfRemoved
  <2>3. \A x \in Tasks : pc'[x] = "file" => pc[x] = "file" /\ item'[x] = item[x]
    BY <1>1 DEF Inv, TypeOK
  <2> QED BY <1>2, <2>1, <2>2, <2>3 DEF Inv, ReaderServed
<1>13. DeletedIsGone'
  BY <1>2, <1>4, <1>5 DEF Inv, DeletedIsGone
<1> QED BY <1>6, <1>7, <1>8, <1>9, <1>10, <1>11, <1>12, <1>13 DEF Inv

\* Every step of every request keeps the invariant.
LEMMA RequestKeeps ==
  ASSUME Inv, NEW t \in Tasks,
         \/ StartUpload(t) \/ StartList(t) \/ StartRead(t) \/ StartDelete(t)
         \/ ReadFile(t)
         \/ WriteMedia(t) \/ WriteManifest(t) \/ WriteFails(t) \/ Undo(t)
         \/ OpenDir(t) \/ ReadEntry(t) \/ EntryFails(t) \/ EndScan(t)
         \/ Sweep(t) \/ EndSweep(t)
         \/ RemoveMp4(t) \/ RemoveWebm(t) \/ RemoveJson(t) \/ RemoveFails(t)
  PROVE  Inv'
<1>1. \A u \in Tasks : op[u] = "upload" => item[u].id \in Ids
  BY DEF Inv, TypeOK, DrawnInv
<1>2. faults \in 0..MaxFaults /\ unswept \subseteq Ids
  BY DEF Inv, TypeOK
<1>3. Fault => faults' \in 0..MaxFaults
  BY <1>2 DEF Fault
<1>4. CASE ReadFile(t)
  BY <1>2, <1>4, ReturnKeeps DEF ReadFile, disk, hist
<1>5. CASE WriteFails(t)
  <2>1. CASE pc[t] = "media" /\ Return(t)
    BY <1>2, <1>3, <1>5, <2>1, ReturnKeeps DEF WriteFails, disk, hist
  <2>2. CASE pc[t] = "manifest" /\ Goto(t, "undo") /\ UNCHANGED <<op, local>>
    BY <1>3, <1>5, <2>2, GotoUndoKeeps DEF WriteFails
  <2> QED BY <1>5, <2>1, <2>2 DEF WriteFails
<1>6. CASE EntryFails(t)
  <2>1. faults' \in 0..MaxFaults /\ unswept' \subseteq Ids
    BY <1>1, <1>2, <1>3, <1>6 DEF EntryFails, Unswept
  <2>2. pc[t] \notin {"manifest", "undo", "webm", "json"}
    BY <1>6 DEF EntryFails
  <2> QED BY <1>6, <2>1, <2>2, ReturnKeeps DEF EntryFails, disk
<1>7. CASE EndScan(t)
  <2>1. CASE Return(t)
    BY <1>2, <1>7, <2>1, ReturnKeeps DEF EndScan, disk, hist
  <2>2. CASE Goto(t, "sweep") /\ UNCHANGED <<op, item, opened, listing, target>>
    BY <1>7, <2>2, GotoSweepKeeps DEF EndScan
  <2> QED BY <1>7, <2>1, <2>2 DEF EndScan
<1>8. CASE EndSweep(t)
  BY <1>2, <1>8, ReturnKeeps DEF EndSweep, disk
<1> QED
  BY <1>4, <1>5, <1>6, <1>7, <1>8, StartUploadKeeps, StartListKeeps, StartReadKeeps,
     StartDeleteKeeps, WriteMediaKeeps, WriteManifestKeeps, UndoKeeps, OpenDirKeeps,
     ReadEntryKeeps, SweepKeeps, RemoveMp4Keeps, RemoveWebmKeeps, RemoveJsonKeeps,
     RemoveFailsKeeps

\* So does a crash.
LEMMA CrashKeeps ==
  ASSUME Inv, Crash
  PROVE  Inv'
<1>1. /\ \A t \in Tasks : /\ pc'[t] = "idle" /\ op'[t] = "list" /\ item'[t] = NoItem
                          /\ opened'[t] = {} /\ listing'[t] = {} /\ target'[t] = NoId
      /\ media' = media /\ manifests' = manifests /\ gone' = gone
      /\ drawn' = drawn /\ clock' = clock
  BY DEF Crash, disk
<1>2. /\ \A i : i \in orphans' <=> i \in orphans \/ \E t \in Tasks : i \in HalfWritten(t)
      /\ \A i : i \in torn' <=> i \in torn \/ \E t \in Tasks : i \in HalfRemoved(t)
      /\ \A i : i \in unswept' <=> i \in unswept \/ \E t \in Tasks : i \in Unswept(t)
  BY DEF Crash
<1>3. \A t \in Tasks : /\ HalfWritten(t) \subseteq drawn /\ HalfRemoved(t) \subseteq drawn
                      /\ Unswept(t) \subseteq drawn
  BY DEF Inv, TypeOK, DrawnInv, HalfWritten, HalfRemoved, Unswept, Shown, Writing,
         Removing
<1>4. TypeOK'
  <2>1. faults' \in 0..MaxFaults
    BY DEF Inv, TypeOK, Crash, Fault
  <2>2. /\ pc' \in [Tasks -> Steps] /\ op' \in [Tasks -> {"upload", "list", "read", "delete"}]
        /\ item' \in [Tasks -> Item] /\ opened' \in [Tasks -> SUBSET Ids]
        /\ listing' \in [Tasks -> SUBSET Item] /\ target' \in [Tasks -> Ids \cup {NoId}]
    BY DEF Crash, Item, NoItem, Kinds, Steps
  <2>3. orphans' \subseteq Ids /\ torn' \subseteq Ids /\ unswept' \subseteq Ids
    BY <1>2, <1>3 DEF Inv, TypeOK
  <2> QED BY <1>1, <2>1, <2>2, <2>3 DEF Inv, TypeOK, Steps
<1>5. DrawnInv'
  BY <1>1, <1>2, <1>3 DEF Inv, DrawnInv, Shown, Writing, Removing, Named
<1>6. OwnInv' /\ FileInv'
  BY <1>1 DEF OwnInv, FileInv, Writing
<1>7. ListedHasMedia' /\ MediaAccounted' /\ ReaderServed'
  BY <1>1, <1>2 DEF Inv, ListedHasMedia, MediaAccounted, ReaderServed
<1>8. DeletedIsGone'
  BY <1>1 DEF Inv, DeletedIsGone
<1> QED BY <1>4, <1>5, <1>6, <1>7, <1>8 DEF Inv

\* And a step that changes no more than the clock.
LEMMA QuietKeeps ==
  ASSUME Inv, clock' \in 0..MaxClock,
         UNCHANGED <<disk, faults, drawn, pc, op, local, hist>>
  PROVE  Inv'
<1>1. TypeOK' /\ DrawnInv' /\ OwnInv' /\ FileInv'
  BY DEF Inv, TypeOK, DrawnInv, OwnInv, FileInv, Shown, disk, local, hist, Named
<1>2. ListedHasMedia' /\ MediaAccounted' /\ ReaderServed' /\ DeletedIsGone'
  BY DEF Inv, ListedHasMedia, MediaAccounted, ReaderServed, DeletedIsGone, HalfRemoved,
         HalfWritten, disk, local, hist, Named
<1> QED BY <1>1, <1>2 DEF Inv

\* The invariant holds in every reachable state.
THEOREM InvariantHolds == Spec => []Inv
<1>1. Init => Inv
  BY DEF Init, Inv, TypeOK, DrawnInv, OwnInv, FileInv, Shown, Writing, Removing, Named,
         Item, NoItem, Kinds, ListedHasMedia, MediaAccounted, ReaderServed, DeletedIsGone
<1>2. Inv /\ [Next]_vars => Inv'
  <2> SUFFICES ASSUME Inv, [Next]_vars
               PROVE  Inv'
    OBVIOUS
  <2>1. CASE Crash
    BY <2>1, CrashKeeps
  <2>2. CASE Tick
    BY <2>2, QuietKeeps DEF Tick, Inv, TypeOK
  <2>3. CASE UNCHANGED vars
    BY <2>3, QuietKeeps DEF vars, Inv, TypeOK
  <2> QED BY <2>1, <2>2, <2>3, RequestKeeps DEF Next
<1> QED BY <1>1, <1>2, PTL DEF Spec

\* The store's variables keep their types: in particular a task only ever writes and
\* removes files of ids that were drawn.
THEOREM TypeCorrect == Spec => []TypeOK
BY InvariantHolds, PTL DEF Inv

\* What a listing shows can be fetched, but for deletions under way or cut short.
THEOREM ListedCanBeFetched == Spec => []ListedHasMedia
BY InvariantHolds, PTL DEF Inv

\* Media without a manifest comes from an upload under way or cut short.
THEOREM MediaIsAccountedFor == Spec => []MediaAccounted
BY InvariantHolds, PTL DEF Inv

\* A reader is let down only by a deletion of what it reads.
THEOREM ReadersAreServed == Spec => []ReaderServed
BY InvariantHolds, PTL DEF Inv

\* What was deleted stays deleted.
THEOREM DeletedStaysGone == Spec => []DeletedIsGone
BY InvariantHolds, PTL DEF Inv

-----------------------------------------------------------------------------
(* The limit of the archive.                                               *)

\* Which handler is at which point.
HandlerInv ==
    \A t \in Tasks :
        /\ pc[t] = "idle" => op[t] = "list"
        /\ pc[t] = "file" => op[t] = "read"
        /\ pc[t] = "scan" => op[t] \in {"upload", "list"}
        /\ pc[t] \in {"open", "sweep"} => op[t] = "upload"
        /\ pc[t] \in Removing => op[t] \in {"upload", "delete"}

\* An upload has its id to itself.
SoleInv ==
    \A t, u \in Tasks :
        op[t] = "upload" /\ op[u] = "upload" /\ item[t].id = item[u].id => t = u

\* There are finitely many recordings, and an id has one manifest, now and in any
\* listing.
SameInv ==
    /\ IsFiniteSet(manifests)
    /\ \A t \in Tasks : IsFiniteSet(listing[t])
    /\ \A m \in manifests : \A n \in manifests : m.id = n.id => m = n
    /\ \A t \in Tasks : \A m \in manifests : \A n \in listing[t] : m.id = n.id => m = n

\* Of what is still there, B has all that A has.
Within(A, B) == \A m \in manifests : m.id \in A => m.id \in B

\* Of two tasks that opened the directory, the later one found all that is left of what
\* the earlier one found.
NestInv ==
    \A t, u \in Tasks : Within(opened[t], opened[u]) \/ Within(opened[u], opened[t])

\* A cleanup that has opened the directory found its own recording, and one that has its
\* listing has in it, or is removing, all that is left of what it found.
Cleaning(t) == op[t] = "upload" /\ pc[t] \in {"scan", "sweep"} \cup Removing
ScanInv ==
    \A t \in Tasks :
        /\ Cleaning(t) => Within({item[t].id}, opened[t])
        /\ Cleaning(t) /\ pc[t] # "scan" =>
              \A m \in manifests : m.id \in opened[t] =>
                  m \in listing[t] \/ (pc[t] \in Removing /\ target[t] = m.id)

\* C is what the latest cleanup that ended had found: what is left of it fits, what is
\* there besides has its own cleanup ahead or failed it, and the directory was opened for
\* C before or after it was opened for any other task.
Pending(i) == i \in unswept \/ \E t \in Tasks : i \in Unswept(t)
Swept(C) ==
    /\ Total({m \in manifests : m.id \in C}) <= MaxArchive
    /\ \A m \in manifests : m.id \in C \/ Pending(m.id)
    /\ \A t \in Tasks : Within(C, opened[t]) \/ Within(opened[t], C)
SweptInv == \E C \in SUBSET Ids : Swept(C)

ArchiveInv == HandlerInv /\ SameInv /\ NestInv /\ ScanInv /\ SweptInv

\* A part of a set of recordings has no more bytes than the whole.
LEMMA TotalMonotone ==
  ASSUME NEW T, T \subseteq Item, IsFiniteSet(T), NEW S, S \subseteq T
  PROVE  Total(S) \in Nat /\ Total(T) \in Nat /\ Total(S) <= Total(T)
<1> DEFINE B(m) == {m} \X (1..m.bytes)
           Bytes(U) == UNION {B(m) : m \in U}
           f == [m \in T |-> B(m)]
<1>1. \A m \in T : IsFiniteSet(B(m))
  <2> SUFFICES ASSUME NEW m \in T PROVE IsFiniteSet(B(m))
    OBVIOUS
  <2>1. m.bytes \in Int
    BY DEF Item
  <2>2. IsFiniteSet(1..m.bytes)
    BY <2>1, FS_Interval
  <2>3. IsFiniteSet({m})
    BY FS_Singleton
  <2> QED BY <2>2, <2>3, FS_Product
<1>2. IsFiniteSet({B(m) : m \in T})
  <2> HIDE DEF B
  <2>1. f \in Surjection(T, {B(m) : m \in T})
    BY DEF Surjection
  <2> QED BY <2>1, FS_Surjection DEF ExistsSurjection
<1>3. IsFiniteSet(Bytes(T))
  <2>1. \A U \in {B(m) : m \in T} : IsFiniteSet(U)
    BY <1>1
  <2> HIDE DEF B
  <2> QED BY <1>2, <2>1, FS_UNION
<1>4. Bytes(S) \in SUBSET Bytes(T)
  <2> HIDE DEF B
  <2> QED OBVIOUS
<1>5. Total(S) = Cardinality(Bytes(S)) /\ Total(T) = Cardinality(Bytes(T))
  BY DEF Total
<1> HIDE DEF Bytes
<1>6. IsFiniteSet(Bytes(S)) /\ Cardinality(Bytes(S)) <= Cardinality(Bytes(T))
  BY <1>3, <1>4, FS_Subset
<1> QED BY <1>3, <1>5, <1>6, FS_CardinalityType

\* No recordings have no bytes.
LEMMA TotalEmpty == Total({}) = 0
<1>1. UNION {{m} \X (1..m.bytes) : m \in {}} = {}
  OBVIOUS
<1> QED BY <1>1, FS_EmptySet DEF Total

\* Some recording was saved first.
LEMMA OldestExists ==
  ASSUME NEW S, S \subseteq Item, S # {}
  PROVE  \E m \in Oldest(S) : TRUE
<1> DEFINE T == {m.saved : m \in S}
           R == OpToRel(<, Nat)
<1>1. T \subseteq Nat /\ T # {}
  BY DEF Item
<1>2. IsWellFoundedOn(R, Nat)
  BY NatLessThanWellFounded, Zenon
<1>3. PICK x \in T : \A y \in T : ~(<<y, x>> \in R)
  <2> HIDE DEF T, R
  <2> QED BY <1>1, <1>2, WFMin
<1>4. \A y \in T : ~(y < x)
  BY <1>1, <1>3 DEF OpToRel
<1>5. PICK m \in S : x = m.saved
  OBVIOUS
<1>6. \A n \in S : m.saved \in Nat /\ n.saved \in Nat /\ ~(n.saved < m.saved)
  BY <1>4, <1>5 DEF Item
<1>7. \A n \in S : m.saved <= n.saved
  BY <1>6
<1> QED BY <1>7 DEF Oldest

\* Where C fits, what a removal leaves of it fits.
LEMMA FewerFit ==
  ASSUME Inv, SameInv, NEW C, Total({m \in manifests : m.id \in C}) <= MaxArchive,
         manifests' \subseteq manifests
  PROVE  Total({m \in manifests' : m.id \in C}) <= MaxArchive
<1> DEFINE S == {m \in manifests' : m.id \in C}
           T == {m \in manifests : m.id \in C}
<1>1. T \in SUBSET manifests /\ S \subseteq T /\ T \subseteq Item
  BY DEF Inv, TypeOK
<1>2. IsFiniteSet(T)
  BY <1>1, FS_Subset DEF SameInv
<1>3. Total(T) <= MaxArchive
  OBVIOUS
<1> HIDE DEF S, T
<1>4. Total(S) \in Nat /\ Total(T) \in Nat /\ Total(S) <= Total(T)
  BY <1>1, <1>2, TotalMonotone
<1>5. Total(S) <= MaxArchive
  BY <1>3, <1>4
<1> QED BY <1>5 DEF S

\* A task goes on with the same work, answers, or is not a cleanup.
Settled(u) ==
    /\ \/ opened'[u] = opened[u] \/ opened'[u] = {}
    /\ listing'[u] \subseteq listing[u]
    /\ \/ op'[u] = "list" /\ pc'[u] \in {"idle", "scan"}
       \/ op'[u] = "read" /\ pc'[u] = "file"
       \/ op'[u] = "delete" /\ pc'[u] \in Removing
       \/ op'[u] = "upload" /\ pc'[u] \in Writing
       \/ /\ op'[u] = op[u] /\ item'[u] = item[u] /\ target'[u] = target[u]
          /\ listing'[u] = listing[u] /\ opened'[u] = opened[u]
          /\ pc'[u] = pc[u] \/ {pc[u], pc'[u]} \subseteq Removing

\* A step that adds no manifest and ends no cleanup.
LEMMA SettledKeeps ==
  ASSUME Inv, ArchiveInv, manifests' \subseteq manifests,
         \A u \in Tasks : Settled(u),
         \A m \in manifests' : Pending(m.id) => Pending(m.id)'
  PROVE  ArchiveInv'
<1>1. HandlerInv'
  BY DEF ArchiveInv, HandlerInv, Settled, Writing, Removing
<1>2. SameInv'
  <2>1. IsFiniteSet(manifests') /\ \A u \in Tasks : IsFiniteSet(listing'[u])
    BY FS_Subset DEF ArchiveInv, SameInv, Settled
  <2> QED BY <2>1 DEF ArchiveInv, SameInv, Settled
<1>3. NestInv'
  BY DEF ArchiveInv, NestInv, Within, Settled
<1>4. ScanInv'
  BY DEF ArchiveInv, ScanInv, Within, Settled, Cleaning, Writing, Removing
<1>5. SweptInv'
  <2>1. PICK C \in SUBSET Ids : Swept(C)
    BY DEF ArchiveInv, SweptInv
  <2>2. Total({m \in manifests' : m.id \in C}) <= MaxArchive
    BY <2>1, FewerFit DEF ArchiveInv, Swept
  <2>3. \A m \in manifests' : m.id \in C \/ Pending(m.id)'
    BY <2>1 DEF Swept
  <2>4. \A u \in Tasks : Within(C, opened[u])' \/ Within(opened[u], C)'
    BY <2>1 DEF Swept, Within, Settled
  <2> QED BY <2>2, <2>3, <2>4 DEF SweptInv, Swept
<1> QED BY <1>1, <1>2, <1>3, <1>4, <1>5 DEF ArchiveInv

\* Only t moves.
Moves(t) ==
    \A u \in Tasks \ {t} :
        /\ pc'[u] = pc[u] /\ op'[u] = op[u] /\ item'[u] = item[u]
        /\ opened'[u] = opened[u] /\ listing'[u] = listing[u] /\ target'[u] = target[u]

\* A task opens the directory.
LEMMA OpenSwept ==
  ASSUME Inv, ArchiveInv, NEW t \in Tasks, StartList(t) \/ OpenDir(t)
  PROVE  ArchiveInv'
<1>1. /\ Moves(t) /\ opened'[t] = Named(manifests) /\ listing'[t] = listing[t]
      /\ pc'[t] = "scan" /\ op'[t] \in {"upload", "list"} /\ item'[t] = item[t]
      /\ op'[t] = "upload" => op[t] = "upload" /\ pc[t] = "open"
      /\ op[t] = "upload" => op'[t] = "upload" /\ pc[t] = "open"
      /\ manifests' = manifests /\ unswept' = unswept
  BY DEF Inv, TypeOK, ArchiveInv, HandlerInv, StartList, OpenDir, Goto, disk, hist, Moves
<1>2. HandlerInv'
  BY <1>1 DEF ArchiveInv, HandlerInv, Moves, Removing
<1>3. SameInv'
  BY <1>1 DEF ArchiveInv, SameInv, Moves
<1>4. \A A : Within(A, opened[t])'
  BY <1>1 DEF Within, Named
<1>5. NestInv'
  BY <1>1, <1>4 DEF ArchiveInv, NestInv, Moves, Within
<1>6. ScanInv'
  <2>1. Within({item[t].id}, opened[t])' /\ pc'[t] = "scan"
    BY <1>1, <1>4
  <2>2. \A u \in Tasks \ {t} : Cleaning(u)' = Cleaning(u)
    BY <1>1 DEF Moves, Cleaning
  <2> QED BY <1>1, <2>1, <2>2 DEF ArchiveInv, ScanInv, Moves, Within
<1>7. SweptInv'
  <2>1. PICK C \in SUBSET Ids : Swept(C)
    BY DEF ArchiveInv, SweptInv
  <2>2. \A u \in Tasks : Unswept(u)' = Unswept(u)
    BY <1>1 DEF Moves, Unswept
  <2>3. \A m \in manifests' : m.id \in C \/ Pending(m.id)'
    BY <1>1, <2>1, <2>2 DEF Swept, Pending
  <2>4. \A u \in Tasks : Within(C, opened[u])' \/ Within(opened[u], C)'
    BY <1>1, <1>4, <2>1 DEF Swept, Within, Moves
  <2> QED BY <1>1, <2>1, <2>3, <2>4 DEF SweptInv, Swept
<1> QED BY <1>2, <1>3, <1>5, <1>6, <1>7 DEF ArchiveInv

\* A manifest appears: its upload has its cleanup ahead.
LEMMA WriteSwept ==
  ASSUME Inv, SoleInv, ArchiveInv, NEW t \in Tasks, WriteManifest(t)
  PROVE  ArchiveInv'
<1>1. /\ Moves(t) /\ pc[t] = "manifest" /\ pc'[t] = "open" /\ op'[t] = op[t]
      /\ item'[t] = item[t] /\ opened' = opened /\ listing' = listing
      /\ manifests' = manifests \cup {item[t]} /\ unswept' = unswept
  BY DEF Inv, TypeOK, WriteManifest, Goto, local, hist, Moves
<1>2. op[t] = "upload" /\ ~ Shown(item[t].id)
  BY <1>1 DEF Inv, OwnInv, Writing
<1>3. /\ \A m \in manifests : m.id # item[t].id
      /\ \A u \in Tasks : /\ item[t].id \notin opened[u]
                          /\ \A n \in listing[u] : n.id # item[t].id
  BY <1>2 DEF Shown, Named
<1>4. item[t].id \in Ids
  BY <1>2 DEF Inv, TypeOK, DrawnInv
<1>5. HandlerInv'
  BY <1>1, <1>2 DEF ArchiveInv, HandlerInv, Moves, Removing
<1>6. SameInv'
  <2>1. IsFiniteSet(manifests')
    BY <1>1, FS_AddElement DEF ArchiveInv, SameInv
  <2> QED BY <1>1, <1>3, <2>1 DEF ArchiveInv, SameInv
<1>7. NestInv'
  BY <1>1, <1>3 DEF ArchiveInv, NestInv, Within
<1>8. ScanInv'
  <2> SUFFICES ASSUME NEW u \in Tasks, Cleaning(u)'
               PROVE  /\ Within({item[u].id}, opened[u])'
                      /\ pc'[u] # "scan" => \A m \in manifests' : m.id \in opened'[u] =>
                            m \in listing'[u] \/ (pc'[u] \in Removing /\ target'[u] = m.id)
    BY DEF ScanInv
  <2>1. u # t /\ Cleaning(u)
    BY <1>1 DEF Cleaning, Moves, Removing
  <2>2. Within({item[u].id}, opened[u])
    BY <2>1 DEF ArchiveInv, ScanInv
  <2>3. item[u].id # item[t].id
    BY <1>2, <2>1 DEF SoleInv, Cleaning
  <2> QED BY <1>1, <1>3, <2>1, <2>2, <2>3 DEF ArchiveInv, ScanInv, Moves, Within
<1>9. SweptInv'
  <2>1. PICK C \in SUBSET Ids : Swept(C)
    BY DEF ArchiveInv, SweptInv
  <2> DEFINE D == C \ {item[t].id}
  <2>2. {m \in manifests' : m.id \in D} = {m \in manifests : m.id \in C}
    BY <1>1, <1>3
  <2>3. /\ \A u \in Tasks \ {t} : Unswept(u)' = Unswept(u)
        /\ Unswept(t) = {} /\ Unswept(t)' = {item[t].id}
    BY <1>1, <1>2 DEF Moves, Unswept
  <2>4. \A m \in manifests' : m.id \in D \/ Pending(m.id)'
    BY <1>1, <1>3, <2>1, <2>3 DEF Swept, Pending
  <2>5. \A u \in Tasks : \/ \A m \in manifests' : m.id \in D => m.id \in opened'[u]
                         \/ \A m \in manifests' : m.id \in opened'[u] => m.id \in D
    BY <1>1, <1>3, <2>1 DEF Swept, Within
  <2>6. D \in SUBSET Ids /\ Total({m \in manifests' : m.id \in D}) <= MaxArchive
    BY <2>1, <2>2 DEF Swept
  <2>7. \E E \in SUBSET Ids :
           /\ Total({m \in manifests' : m.id \in E}) <= MaxArchive
           /\ \A m \in manifests' : m.id \in E \/ Pending(m.id)'
           /\ \A u \in Tasks : Within(E, opened[u])' \/ Within(opened[u], E)'
    BY <2>4, <2>5, <2>6 DEF Within
  <2> QED BY <2>7 DEF SweptInv, Swept
<1> QED BY <1>5, <1>6, <1>7, <1>8, <1>9 DEF ArchiveInv

\* An entry is read.
LEMMA EntrySwept ==
  ASSUME Inv, ArchiveInv, NEW t \in Tasks, ReadEntry(t)
  PROVE  ArchiveInv'
<1>1. PICK m \in manifests : listing' = [listing EXCEPT ![t] = @ \cup {m}]
  BY DEF ReadEntry
<1>2. /\ UNCHANGED <<manifests, unswept, pc, op, item, opened, target>> /\ pc[t] = "scan"
      /\ \A u \in Tasks \ {t} : listing'[u] = listing[u]
      /\ listing'[t] = listing[t] \cup {m}
  BY <1>1 DEF Inv, TypeOK, ReadEntry, disk, hist
<1>3. SameInv'
  <2>1. IsFiniteSet(listing'[t])
    BY <1>2, FS_AddElement DEF ArchiveInv, SameInv
  <2> QED BY <1>2, <2>1 DEF ArchiveInv, SameInv
<1>4. HandlerInv' /\ NestInv'
  BY <1>2 DEF ArchiveInv, HandlerInv, NestInv, Within
<1>5. ScanInv'
  BY <1>2 DEF ArchiveInv, ScanInv, Within, Cleaning
<1>6. SweptInv'
  <2>1. PICK C \in SUBSET Ids : Swept(C)
    BY DEF ArchiveInv, SweptInv
  <2>2. \A u \in Tasks : Unswept(u)' = Unswept(u)
    BY <1>2 DEF Unswept
  <2>3. Swept(C)'
    BY <1>2, <2>1, <2>2 DEF Swept, Pending, Within
  <2> QED BY <2>1, <2>3 DEF SweptInv
<1> QED BY <1>3, <1>4, <1>5, <1>6 DEF ArchiveInv

\* Cleanup has its listing and begins to go through it.
LEMMA ListedSwept ==
  ASSUME Inv, ArchiveInv, NEW t \in Tasks, EndScan(t), op[t] = "upload"
  PROVE  ArchiveInv'
<1>1. /\ pc[t] = "scan" /\ pc' = [pc EXCEPT ![t] = "sweep"]
      /\ opened[t] \cap Named(manifests) \subseteq Named(listing[t])
      /\ UNCHANGED <<manifests, unswept, op, item, opened, listing, target>>
  BY DEF EndScan, Goto, disk, hist
<1>2. pc'[t] = "sweep" /\ \A u \in Tasks \ {t} : pc'[u] = pc[u]
  BY <1>1 DEF Inv, TypeOK
<1>3. HandlerInv' /\ SameInv' /\ NestInv'
  BY <1>1, <1>2 DEF ArchiveInv, HandlerInv, SameInv, NestInv, Within, Removing
<1>4. ScanInv'
  <2>1. \A m \in manifests : m.id \in opened[t] => m \in listing[t]
    BY <1>1 DEF ArchiveInv, SameInv, Named
  <2> QED BY <1>1, <1>2, <2>1 DEF ArchiveInv, ScanInv, Within, Cleaning
<1>5. SweptInv'
  <2>1. PICK C \in SUBSET Ids : Swept(C)
    BY DEF ArchiveInv, SweptInv
  <2>2. \A u \in Tasks : Unswept(u)' = Unswept(u)
    BY <1>1, <1>2 DEF Unswept
  <2>3. Swept(C)'
    BY <1>1, <2>1, <2>2 DEF Swept, Pending, Within
  <2> QED BY <2>1, <2>3 DEF SweptInv
<1> QED BY <1>3, <1>4, <1>5 DEF ArchiveInv

\* Cleanup chooses what to remove.
LEMMA ChosenSwept ==
  ASSUME Inv, ArchiveInv, NEW t \in Tasks, Sweep(t)
  PROVE  ArchiveInv'
<1>1. PICK m \in listing[t] : /\ listing' = [listing EXCEPT ![t] = @ \ {m}]
                             /\ target' = [target EXCEPT ![t] = m.id]
  BY DEF Sweep, Oldest
<1>2. /\ pc[t] = "sweep" /\ pc'[t] = "mp4" /\ target'[t] = m.id
      /\ listing'[t] = listing[t] \ {m}
      /\ \A u \in Tasks \ {t} : /\ pc'[u] = pc[u] /\ listing'[u] = listing[u]
                               /\ target'[u] = target[u]
      /\ UNCHANGED <<manifests, unswept, op, item, opened>>
  BY <1>1 DEF Inv, TypeOK, Sweep, Goto, disk, hist
<1>3. op[t] = "upload"
  BY <1>2 DEF ArchiveInv, HandlerInv
<1>4. HandlerInv' /\ NestInv'
  BY <1>2, <1>3 DEF ArchiveInv, HandlerInv, NestInv, Within, Removing
<1>5. SameInv'
  <2>1. IsFiniteSet(listing'[t])
    BY <1>2, FS_RemoveElement DEF ArchiveInv, SameInv
  <2> QED BY <1>2, <2>1 DEF ArchiveInv, SameInv
<1>6. ScanInv'
  BY <1>2, <1>3 DEF ArchiveInv, ScanInv, Within, Cleaning, Removing
<1>7. SweptInv'
  <2>1. PICK C \in SUBSET Ids : Swept(C)
    BY DEF ArchiveInv, SweptInv
  <2>2. \A u \in Tasks : Unswept(u)' = Unswept(u)
    BY <1>2 DEF Unswept
  <2>3. Swept(C)'
    BY <1>2, <2>1, <2>2 DEF Swept, Pending, Within
  <2> QED BY <2>1, <2>3 DEF SweptInv
<1> QED BY <1>4, <1>5, <1>6, <1>7 DEF ArchiveInv

\* A manifest is removed, by a DELETE or by a cleanup that goes on.
LEMMA RemovedSwept ==
  ASSUME Inv, ArchiveInv, NEW t \in Tasks, RemoveJson(t)
  PROVE  ArchiveInv'
<1>1. /\ manifests' = {m \in manifests : m.id # target[t]}
      /\ unswept' = unswept \ {target[t]} /\ pc[t] = "json"
  BY DEF RemoveJson
<1>2. CASE op[t] = "delete"
  <2>1. /\ Moves(t) /\ op'[t] = "list" /\ pc'[t] = "idle" /\ opened'[t] = {}
        /\ listing'[t] = {}
    BY <1>2 DEF Inv, TypeOK, RemoveJson, Return, Goto, Moves
  <2>2. \A u \in Tasks : Settled(u)
    BY <2>1 DEF Settled, Moves
  <2>3. \A u \in Tasks \ {t} : Unswept(u)' = Unswept(u)
    BY <2>1 DEF Moves, Unswept
  <2>4. Unswept(t) = {}
    BY <1>2 DEF Unswept
  <2>5. \A m \in manifests' : Pending(m.id) => Pending(m.id)'
    BY <1>1, <2>3, <2>4 DEF Pending
  <2> QED BY <1>1, <2>2, <2>5, SettledKeeps
<1>3. CASE op[t] # "delete"
  <2>1. op[t] = "upload"
    BY <1>1, <1>3 DEF ArchiveInv, HandlerInv, Removing
  <2>2. /\ pc'[t] = "sweep" /\ \A u \in Tasks \ {t} : pc'[u] = pc[u]
        /\ UNCHANGED <<op, item, opened, listing, target>>
    BY <1>3 DEF Inv, TypeOK, RemoveJson, Goto, local
  <2>3. HandlerInv'
    BY <2>1, <2>2 DEF ArchiveInv, HandlerInv, Removing
  <2>4. SameInv'
    <3>1. IsFiniteSet(manifests')
      BY <1>1, FS_Subset DEF ArchiveInv, SameInv
    <3> QED BY <1>1, <2>2, <3>1 DEF ArchiveInv, SameInv
  <2>5. NestInv'
    BY <1>1, <2>2 DEF ArchiveInv, NestInv, Within
  <2>6. ScanInv'
    BY <1>1, <2>1, <2>2 DEF ArchiveInv, ScanInv, Within, Cleaning, Removing
  <2>7. SweptInv'
    <3>1. PICK C \in SUBSET Ids : Swept(C)
      BY DEF ArchiveInv, SweptInv
    <3>2. \A u \in Tasks : Unswept(u)' = Unswept(u)
      BY <1>1, <2>2 DEF Unswept
    <3>3. /\ \A m \in manifests' : m.id \in C \/ Pending(m.id)'
          /\ \A u \in Tasks : Within(C, opened[u])' \/ Within(opened[u], C)'
      BY <1>1, <2>2, <3>1, <3>2 DEF Swept, Pending, Within
    <3>4. Total({m \in manifests' : m.id \in C}) <= MaxArchive
      BY <1>1, <3>1, FewerFit DEF ArchiveInv, Swept
    <3> QED BY <3>3, <3>4 DEF SweptInv, Swept
  <2> QED BY <2>3, <2>4, <2>5, <2>6, <2>7 DEF ArchiveInv
<1> QED BY <1>2, <1>3

\* A cleanup ends: unless a later one has ended, all that it found now fits.
LEMMA EndedSwept ==
  ASSUME Inv, ArchiveInv, NEW t \in Tasks, EndSweep(t)
  PROVE  ArchiveInv'
<1>1. /\ Moves(t) /\ pc[t] = "sweep" /\ op'[t] = "list" /\ pc'[t] = "idle"
      /\ opened'[t] = {} /\ listing'[t] = {}
      /\ manifests' = manifests /\ unswept' = unswept \ opened[t]
  BY DEF Inv, TypeOK, EndSweep, Return, Goto, disk, Moves
<1>2. op[t] = "upload" /\ Cleaning(t)
  BY <1>1 DEF ArchiveInv, HandlerInv, Cleaning
<1>3. HandlerInv'
  BY <1>1 DEF ArchiveInv, HandlerInv, Moves, Removing
<1>4. SameInv'
  BY <1>1, FS_EmptySet DEF ArchiveInv, SameInv, Moves
<1>5. NestInv'
  BY <1>1 DEF ArchiveInv, NestInv, Within, Moves
<1>6. ScanInv'
  BY <1>1 DEF ArchiveInv, ScanInv, Within, Cleaning, Moves
<1>7. /\ \A u \in Tasks \ {t} : Unswept(u)' = Unswept(u)
      /\ Unswept(t) = {item[t].id}
  BY <1>1, <1>2 DEF Moves, Unswept
<1>8. \A m \in manifests : Pending(m.id) => Pending(m.id)' \/ m.id \in opened[t]
  BY <1>1, <1>2, <1>7 DEF ArchiveInv, ScanInv, Within, Pending
<1>9. PICK C \in SUBSET Ids : Swept(C)
  BY DEF ArchiveInv, SweptInv
<1>10. CASE Within(opened[t], C)
  <2>1. \A m \in manifests' : m.id \in C \/ Pending(m.id)'
    BY <1>1, <1>8, <1>9, <1>10 DEF Swept, Within
  <2>2. \A u \in Tasks : Within(C, opened[u])' \/ Within(opened[u], C)'
    BY <1>1, <1>9 DEF Swept, Within, Moves
  <2>3. Total({m \in manifests' : m.id \in C}) <= MaxArchive
    BY <1>1, <1>9 DEF Swept
  <2>4. SweptInv'
    BY <2>1, <2>2, <2>3 DEF SweptInv, Swept
  <2> QED BY <1>3, <1>4, <1>5, <1>6, <2>4 DEF ArchiveInv
<1>11. CASE Within(C, opened[t])
  <2> DEFINE D == opened[t]
             S == {m \in manifests : m.id \in D}
  <2>1. S \subseteq listing[t]
    BY <1>1, <1>2 DEF ArchiveInv, ScanInv, Removing
  <2>2. listing[t] \subseteq Item /\ IsFiniteSet(listing[t])
    BY DEF Inv, TypeOK, ArchiveInv, SameInv
  <2>3. Total(listing[t]) <= MaxArchive
    <3>1. CASE listing[t] = {}
      BY <3>1, TotalEmpty
    <3>2. CASE listing[t] # {}
      <4>1. PICK m \in Oldest(listing[t]) : TRUE
        BY <2>2, <3>2, OldestExists
      <4>2. ~(Total(listing[t]) > MaxArchive)
        BY <4>1 DEF EndSweep, Surplus
      <4>3. Total(listing[t]) \in Nat
        BY <2>2, TotalMonotone
      <4> QED BY <4>2, <4>3
    <3> QED BY <3>1, <3>2
  <2>4. Total(S) <= MaxArchive
    <3> HIDE DEF S
    <3>1. Total(S) \in Nat /\ Total(listing[t]) \in Nat /\ Total(S) <= Total(listing[t])
      BY <2>1, <2>2, TotalMonotone
    <3> QED BY <2>3, <3>1
  <2>5. \A m \in manifests' : m.id \in D \/ Pending(m.id)'
    BY <1>1, <1>8, <1>9, <1>11 DEF Swept, Within
  <2>6. \A u \in Tasks : Within(D, opened'[u]) \/ Within(opened'[u], D)
    BY <1>1 DEF ArchiveInv, NestInv, Within, Moves
  <2>7. D \in SUBSET Ids
    BY DEF Inv, TypeOK
  <2>8. \E E \in SUBSET Ids :
           /\ Total({m \in manifests' : m.id \in E}) <= MaxArchive
           /\ \A m \in manifests' : m.id \in E \/ Pending(m.id)'
           /\ \A u \in Tasks : Within(E, opened[u])' \/ Within(opened[u], E)'
    BY <1>1, <2>4, <2>5, <2>6, <2>7 DEF Within
  <2>9. SweptInv'
    BY <2>8 DEF SweptInv, Swept
  <2> QED BY <1>3, <1>4, <1>5, <1>6, <2>9 DEF ArchiveInv
<1> QED BY <1>9, <1>10, <1>11 DEF Swept

\* A task answers without having changed the directory, or fails its cleanup.
LEMMA ReturnSwept ==
  ASSUME Inv, ArchiveInv, NEW t \in Tasks, Return(t), manifests' = manifests,
         unswept' = unswept \cup Unswept(t)
  PROVE  ArchiveInv'
<1>1. /\ Moves(t) /\ op'[t] = "list" /\ pc'[t] = "idle" /\ opened'[t] = {}
      /\ listing'[t] = {}
  BY DEF Inv, TypeOK, Return, Goto, Moves
<1>2. \A u \in Tasks : Settled(u)
  BY <1>1 DEF Settled, Moves
<1>3. \A u \in Tasks \ {t} : Unswept(u)' = Unswept(u)
  BY <1>1 DEF Moves, Unswept
<1>4. \A m \in manifests' : Pending(m.id) => Pending(m.id)'
  BY <1>3 DEF Pending
<1> QED BY <1>2, <1>4, SettledKeeps

\* A task begins, goes from one file to the next, or takes its media file back.
LEMMA GoesSwept ==
  ASSUME Inv, ArchiveInv, NEW t \in Tasks, Moves(t), UNCHANGED <<manifests, unswept>>,
         Settled(t), Unswept(t)' = Unswept(t)
  PROVE  ArchiveInv'
<1>1. \A u \in Tasks : Settled(u)
  BY DEF Settled, Moves
<1>2. \A u \in Tasks : Unswept(u)' = Unswept(u)
  BY DEF Moves, Unswept
<1>3. \A m \in manifests' : Pending(m.id) => Pending(m.id)'
  BY <1>2 DEF Pending
<1> QED BY <1>1, <1>3, SettledKeeps

\* Every step of every request keeps the limit.
LEMMA RequestSwept ==
  ASSUME Inv, SoleInv, ArchiveInv, NEW t \in Tasks,
         \/ StartUpload(t) \/ StartList(t) \/ StartRead(t) \/ StartDelete(t)
         \/ ReadFile(t)
         \/ WriteMedia(t) \/ WriteManifest(t) \/ WriteFails(t) \/ Undo(t)
         \/ OpenDir(t) \/ ReadEntry(t) \/ EntryFails(t) \/ EndScan(t)
         \/ Sweep(t) \/ EndSweep(t)
         \/ RemoveMp4(t) \/ RemoveWebm(t) \/ RemoveJson(t) \/ RemoveFails(t)
  PROVE  ArchiveInv'
<1>1. pc[t] = "idle" => op[t] = "list"
  BY DEF ArchiveInv, HandlerInv
<1>2. pc[t] \in Writing => op[t] = "upload"
  BY DEF Inv, OwnInv
<1>3. CASE StartUpload(t)
  <2>1. /\ Moves(t) /\ UNCHANGED <<manifests, unswept, opened, listing>>
        /\ pc[t] = "idle" /\ pc'[t] = "media" /\ op'[t] = "upload"
    BY <1>3 DEF Inv, TypeOK, StartUpload, Goto, disk, hist, Moves
  <2> QED BY <1>1, <2>1, GoesSwept DEF Settled, Unswept, Writing
<1>4. CASE StartRead(t)
  <2>1. /\ Moves(t) /\ UNCHANGED <<manifests, unswept, opened, listing>>
        /\ pc[t] = "idle" /\ pc'[t] = "file" /\ op'[t] = "read"
    BY <1>4 DEF Inv, TypeOK, StartRead, Goto, disk, hist, Moves
  <2> QED BY <1>1, <2>1, GoesSwept DEF Settled, Unswept
<1>5. CASE StartDelete(t)
  <2>1. /\ Moves(t) /\ UNCHANGED <<manifests, unswept, opened, listing>>
        /\ pc[t] = "idle" /\ pc'[t] = "mp4" /\ op'[t] = "delete"
    BY <1>5 DEF Inv, TypeOK, StartDelete, Goto, disk, hist, Moves
  <2> QED BY <1>1, <2>1, GoesSwept DEF Settled, Unswept, Removing
<1>6. CASE ReadFile(t)
  <2>1. Unswept(t) = {}
    BY <1>6 DEF ReadFile, Unswept, ArchiveInv, HandlerInv
  <2> QED BY <1>6, <2>1, ReturnSwept DEF ReadFile, disk, hist
<1>7. CASE WriteMedia(t)
  <2>1. /\ Moves(t) /\ UNCHANGED <<manifests, unswept, opened, listing, op>>
        /\ pc[t] = "media" /\ pc'[t] = "manifest"
    BY <1>7 DEF Inv, TypeOK, WriteMedia, Goto, local, hist, Moves
  <2> QED BY <1>2, <2>1, GoesSwept DEF Settled, Unswept, Writing
<1>8. CASE WriteFails(t)
  <2>1. CASE Return(t)
    <3>1. Unswept(t) = {} /\ UNCHANGED <<manifests, unswept>>
      BY <1>8 DEF WriteFails, Unswept, disk, hist
    <3> QED BY <2>1, <3>1, ReturnSwept
  <2>2. CASE pc[t] = "manifest" /\ Goto(t, "undo") /\ UNCHANGED <<op, local>>
    <3>1. /\ Moves(t) /\ UNCHANGED <<manifests, unswept, opened, listing, op>>
          /\ pc[t] = "manifest" /\ pc'[t] = "undo"
      BY <1>8, <2>2 DEF Inv, TypeOK, WriteFails, Goto, disk, local, hist, Moves
    <3> QED BY <1>2, <3>1, GoesSwept DEF Settled, Unswept, Writing
  <2> QED BY <1>8, <2>1, <2>2 DEF WriteFails
<1>9. CASE Undo(t)
  <2>1. Unswept(t) = {} /\ Return(t) /\ UNCHANGED <<manifests, unswept>>
    BY <1>9 DEF Undo, Unswept
  <2> QED BY <2>1, ReturnSwept
<1>10. CASE EntryFails(t)
  BY <1>10, ReturnSwept DEF EntryFails, disk
<1>11. CASE EndScan(t)
  <2>1. CASE op[t] = "list" /\ Return(t)
    <3>1. Unswept(t) = {} /\ UNCHANGED <<manifests, unswept>>
      BY <1>11, <2>1 DEF EndScan, Unswept, disk, hist
    <3> QED BY <2>1, <3>1, ReturnSwept
  <2> QED BY <1>11, <2>1, ListedSwept DEF EndScan
<1>12. CASE RemoveMp4(t) \/ RemoveWebm(t)
  <2>1. /\ Moves(t) /\ UNCHANGED <<manifests, unswept, op, item, opened, listing, target>>
        /\ {pc[t], pc'[t]} \subseteq Removing
    BY <1>12 DEF Inv, TypeOK, RemoveMp4, RemoveWebm, Goto, local, hist, Moves, Removing
  <2> QED BY <2>1, GoesSwept DEF Settled, Unswept, Removing
<1>13. CASE RemoveFails(t)
  BY <1>13, ReturnSwept DEF RemoveFails, disk
<1> QED
  BY <1>3, <1>4, <1>5, <1>6, <1>7, <1>8, <1>9, <1>10, <1>11, <1>12, <1>13, OpenSwept,
     WriteSwept, EntrySwept, ChosenSwept, RemovedSwept, EndedSwept

\* After a crash nobody cleans up, and every cleanup that was ahead has failed.
LEMMA CrashSwept ==
  ASSUME Inv, ArchiveInv, Crash
  PROVE  ArchiveInv'
<1>1. \A u \in Tasks : Settled(u)
  BY DEF Crash, Settled
<1>2. \A m \in manifests' : Pending(m.id) => Pending(m.id)'
  BY DEF Crash, Pending
<1> QED BY <1>1, <1>2, SettledKeeps DEF Crash, disk

\* No other step touches what the limit is about.
LEMMA QuietSwept ==
  ASSUME Inv, ArchiveInv, UNCHANGED <<disk, pc, op, local, hist>>
  PROVE  ArchiveInv'
<1>1. \A u \in Tasks : Settled(u)
  BY DEF Settled, local
<1>2. \A u \in Tasks : Unswept(u)' = Unswept(u)
  BY DEF Unswept, local
<1>3. \A m \in manifests' : Pending(m.id) => Pending(m.id)'
  BY <1>2 DEF Pending, hist
<1> QED BY <1>1, <1>3, SettledKeeps DEF disk

\* Only the start of an upload gives a task an upload's id, and the id is new.
LEMMA SoleKeeps ==
  ASSUME Inv, SoleInv, [Next]_vars
  PROVE  SoleInv'
<1>1. CASE \E t \in Tasks : StartUpload(t)
  <2>1. PICK t \in Tasks : StartUpload(t)
    BY <1>1
  <2>2. /\ item'[t].id \notin drawn
        /\ \A u \in Tasks \ {t} : op'[u] = op[u] /\ item'[u] = item[u]
    BY <2>1 DEF Inv, TypeOK, StartUpload
  <2>3. \A u \in Tasks : op[u] = "upload" => item[u].id \in drawn
    BY DEF Inv, DrawnInv
  <2> QED BY <2>2, <2>3 DEF SoleInv
<1>2. CASE ~ \E t \in Tasks : StartUpload(t)
  <2>1. \A u \in Tasks : op'[u] = "upload" => op[u] = "upload" /\ item'[u] = item[u]
    BY <1>2 DEF Inv, TypeOK, Next, vars, Crash, Tick, StartList, StartRead, StartDelete,
       ReadFile, WriteMedia, WriteManifest, WriteFails, Undo, OpenDir, ReadEntry,
       EntryFails, EndScan, Sweep, EndSweep, RemoveMp4, RemoveWebm, RemoveJson,
       RemoveFails, Return, Goto, local, hist, disk
  <2> QED BY <2>1 DEF SoleInv
<1> QED BY <1>1, <1>2

\* The limit's invariant holds in every reachable state.
THEOREM ArchiveInvariant == Spec => [](SoleInv /\ ArchiveInv)
<1>1. Init => SoleInv /\ ArchiveInv
  <2> SUFFICES ASSUME Init PROVE SoleInv /\ ArchiveInv
    OBVIOUS
  <2>1. SoleInv /\ HandlerInv /\ NestInv /\ ScanInv
    BY DEF Init, SoleInv, HandlerInv, NestInv, ScanInv, Within, Cleaning, Removing
  <2>2. SameInv
    BY FS_EmptySet DEF Init, SameInv
  <2>3. Swept({})
    <3>1. {m \in manifests : m.id \in {}} = {}
      OBVIOUS
    <3> QED BY <3>1, TotalEmpty DEF Init, Swept, Within
  <2> QED BY <2>1, <2>2, <2>3 DEF ArchiveInv, SweptInv
<1>2. Inv /\ SoleInv /\ ArchiveInv /\ [Next]_vars => (SoleInv /\ ArchiveInv)'
  <2> SUFFICES ASSUME Inv, SoleInv, ArchiveInv, [Next]_vars
               PROVE  SoleInv' /\ ArchiveInv'
    OBVIOUS
  <2>1. Tick => ArchiveInv'
    BY QuietSwept DEF Tick
  <2>2. UNCHANGED vars => ArchiveInv'
    BY QuietSwept DEF vars
  <2>3. ArchiveInv'
    BY <2>1, <2>2, RequestSwept, CrashSwept DEF Next
  <2> QED BY <2>3, SoleKeeps
<1> QED BY <1>1, <1>2, InvariantHolds, PTL DEF Spec

\* When no upload is under way and no cleanup failed, the archive fits.
THEOREM ArchiveStaysWithinLimit == Spec => []ArchiveFits
<1>1. ArchiveInv => ArchiveFits
  <2> SUFFICES ASSUME ArchiveInv, \A t \in Tasks : op[t] # "upload", unswept = {}
               PROVE  Total(manifests) <= MaxArchive
    BY DEF ArchiveFits
  <2>1. PICK C \in SUBSET Ids : Swept(C)
    BY DEF ArchiveInv, SweptInv
  <2>2. {m \in manifests : m.id \in C} = manifests
    BY <2>1 DEF Swept, Pending, Unswept
  <2> QED BY <2>1, <2>2 DEF Swept
<1> QED BY <1>1, ArchiveInvariant, PTL

=============================================================================
