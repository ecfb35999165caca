-------------------------- MODULE SegmentLogProofs --------------------------
(***************************************************************************)
(* SegmentLog keeps the inductive invariant IInv of SegmentLogInv, and     *)
(* what follows from it, for every value of the constants, until a power   *)
(* loss undoes a rename of the manifest that an open had built on          *)
(* (`reverted`).                                                           *)
(*                                                                         *)
(* The Keep lemmas carry a part of IInv over a step that leaves alone what *)
(* the part reads.  One lemma for each action of Next shows that the action*)
(* keeps IInv, with one step for each part; the lemmas between them say    *)
(* what the harder actions need of sequences and of the head.  The third   *)
(* part proves the properties of SegmentLogFaults from an invariant of its *)
(* own, FInv, and the last that types hold whatever is reverted.           *)
(***************************************************************************)
EXTENDS SegmentLogFaults, SegmentLogInv, TLAPS, WellFoundedInduction

\* The order of frames and files depends on the files, and on which of them
\* the manifest and the process count.
LEMMA KeepFiles ==
  ASSUME FilesChained, FilesOrdered, UNCHANGED <<segments, removed, frames, synced>>,
         manifest'.active = manifest.active, Serving' => Serving
  PROVE  FilesChained' /\ FilesOrdered'
<1>1. FilesChained'
  BY DEF FilesChained, Files, Follows, End
<1>2. FilesOrdered'
  BY DEF FilesOrdered, Files, End
<1> QED BY <1>1, <1>2

\* A step that leaves the files alone and scans none keeps torn frames where
\* they are.
LEMMA KeepTail ==
  ASSUME TornOnlyAtTail, UNCHANGED <<frames, synced>>,
         phase' \in {"down", "scan"} \/ phase \notin {"down", "scan"}
  PROVE  TornOnlyAtTail'
  BY DEF TornOnlyAtTail, End

\* A step that leaves the files and both manifests alone, and starts no roll,
\* leaves unsynced frames where they are.
LEMMA KeepDirty ==
  ASSUME DirtyOnlyActive, UNCHANGED <<frames, synced, manifest, durableManifest>>,
         \/ phase \in {"roll_create", "roll_link", "roll_write"}
         \/ phase' \notin {"roll_create", "roll_link", "roll_write"}
  PROVE  DirtyOnlyActive'
  BY DEF DirtyOnlyActive

\* A manifest stays sound while the files stay, and a copy of it is.
LEMMA KeepManifest ==
  ASSUME UNCHANGED <<segments, removed, linked, frames>>
  PROVE  /\ ManifestSound(manifest) /\ manifest' = manifest => ManifestSound(manifest)'
         /\ ManifestSound(durableManifest) /\ durableManifest' = durableManifest => ManifestSound(durableManifest)'
         /\ ManifestSound(manifest) /\ durableManifest' = manifest => ManifestSound(durableManifest)'
  BY DEF ManifestSound, Files, End

\* Acknowledged frames stay located under a manifest while the files stay.
LEMMA KeepLocated ==
  ASSUME UNCHANGED <<linked, frames, synced, acked>>
  PROVE  /\ Located(manifest) /\ manifest' = manifest => Located(manifest)'
         /\ Located(durableManifest) /\ durableManifest' = durableManifest => Located(durableManifest)'
         /\ Located(manifest) /\ durableManifest' = manifest => Located(durableManifest)'
  BY DEF Located, Above, End

\* A non-empty set of naturals below some bound has a largest member.
LEMMA LargestExists ==
  ASSUME NEW S \in SUBSET Nat, NEW n \in Nat, \A x \in S : x <= n, S # {}
  PROVE  \E x \in S : \A y \in S : y <= x
<1> DEFINE gaps == {k \in Nat : k <= n /\ n - k \in S}
<1>1. gaps # {} /\ gaps \subseteq Nat
  <2>1. PICK x \in S : TRUE OBVIOUS
  <2>2. n - x \in gaps BY <2>1
  <2> QED BY <2>2
<1>2. PICK k \in gaps : \A j \in gaps : ~(<<j, k>> \in OpToRel(<, Nat))
  BY <1>1, NatLessThanWellFounded, WFMin
<1>3. \A y \in S : y <= n - k
  <2> SUFFICES ASSUME NEW y \in S, ~(y <= n - k) PROVE FALSE OBVIOUS
  <2>a. k \in Nat /\ k <= n /\ y \in Nat /\ y <= n BY <1>2
  <2>1. n - y \in Nat /\ n - y <= n /\ n - (n - y) = y /\ n - y < k BY <2>a
  <2>3. n - y \in gaps BY <2>1
  <2>2. <<n - y, k>> \in OpToRel(<, Nat) BY <2>1, <2>a DEF OpToRel
  <2> QED BY <2>3, <2>2, <1>2
<1> QED BY <1>2, <1>3

\* Taking the lock.
LEMMA OpenInv == ASSUME IInv, Open PROVE IInv'
<1>1. /\ phase = "down" /\ phase' = "scan" /\ ~lock /\ lock' = TRUE
      /\ durableManifest' = manifest /\ stale' = stale \cup ({durableManifest} \ {manifest})
      /\ UNCHANGED <<segments, removed, linked, frames, synced, manifest, active, closed, next, size, floor, acked, lastId, crashes, reverted>>
  BY DEF Open, memory, history
<1>2. TypeOK' BY <1>1 DEF IInv, TypeOK, Phases
<1>3. FilesChained' /\ FilesOrdered' BY <1>1, KeepFiles DEF IInv, Serving
<1>4. TornOnlyAtTail' BY <1>1, KeepTail DEF IInv
<1>5. DirtyOnlyActive' BY <1>1 DEF IInv, DirtyOnlyActive
<1>6. ManifestSound(manifest)' /\ ManifestSound(durableManifest)' BY <1>1, KeepManifest DEF IInv
<1>7. Located(manifest)' /\ Located(durableManifest)' BY <1>1, KeepLocated DEF IInv
<1>8. Settled' BY <1>1 DEF IInv, Settled, TypeOK, Manifest, Position, Serving
<1>9. MemorySound' BY <1>1 DEF MemorySound, Serving
<1> QED BY <1>2,<1>3,<1>4,<1>5,<1>6,<1>7,<1>8,<1>9 DEF IInv

\* Dropping the Log.
LEMMA CloseInv == ASSUME IInv, Close PROVE IInv'
<1>1. /\ phase = "idle" /\ phase' = "down" /\ lock' = FALSE
      /\ UNCHANGED <<segments, removed, linked, frames, synced, manifest, durableManifest, stale, acked, lastId, crashes, reverted>>
  BY DEF Close, disk, history
<1>2. TypeOK'
  <2>1. 0 \in Position BY BoundsAssumption DEF Position
  <2>2. active' = 0 /\ closed' = {} /\ next' = 0 /\ size' = 0 /\ floor' = 0
    BY DEF Close, Forget
  <2> QED BY <1>1, <2>1, <2>2 DEF IInv, TypeOK, Phases
<1>3. FilesChained' /\ FilesOrdered' BY <1>1, KeepFiles DEF IInv, Serving
<1>4. TornOnlyAtTail' BY <1>1, KeepTail DEF IInv
<1>5. DirtyOnlyActive' BY <1>1, KeepDirty DEF IInv
<1>6. ManifestSound(manifest)' /\ ManifestSound(durableManifest)' BY <1>1, KeepManifest DEF IInv
<1>7. Located(manifest)' /\ Located(durableManifest)' BY <1>1, KeepLocated DEF IInv
<1>8. Settled' BY <1>1 DEF IInv, Settled, Serving
<1>9. MemorySound' BY <1>1 DEF MemorySound, Serving
<1> QED BY <1>2,<1>3,<1>4,<1>5,<1>6,<1>7,<1>8,<1>9 DEF IInv

\* Removing a stale lock.
LEMMA RemoveStaleLockInv == ASSUME IInv, RemoveStaleLock PROVE IInv'
<1>1. /\ phase = "down" /\ phase' = "down" /\ lock' = FALSE
      /\ UNCHANGED <<segments, removed, linked, frames, synced, manifest, durableManifest, stale, active, closed, next, size, floor, acked, lastId, crashes, reverted>>
  BY DEF RemoveStaleLock, disk, memory, history
<1>2. TypeOK' BY <1>1 DEF IInv, TypeOK
<1>3. FilesChained' /\ FilesOrdered' BY <1>1, KeepFiles DEF IInv, Serving
<1>4. TornOnlyAtTail' BY <1>1, KeepTail DEF IInv
<1>5. DirtyOnlyActive' BY <1>1, KeepDirty DEF IInv
<1>6. ManifestSound(manifest)' /\ ManifestSound(durableManifest)' BY <1>1, KeepManifest DEF IInv
<1>7. Located(manifest)' /\ Located(durableManifest)' BY <1>1, KeepLocated DEF IInv
<1>8. Settled' BY <1>1 DEF IInv, Settled, Serving
<1>9. MemorySound' BY <1>1 DEF MemorySound, Serving
<1> QED BY <1>2,<1>3,<1>4,<1>5,<1>6,<1>7,<1>8,<1>9 DEF IInv

\* The rename of the manifest inside a roll.
LEMMA RollWriteInv == ASSUME IInv, RollWrite PROVE IInv'
<1>1. /\ phase = "roll_write" /\ phase' = "roll_sync" /\ manifest' = [active |-> active, floor |-> floor]
      /\ stale' = stale \cup ({manifest} \ {durableManifest})
      /\ UNCHANGED <<segments, removed, linked, frames, synced, durableManifest, lock, active, closed, next, size, floor, acked, lastId, crashes, reverted>>
  BY DEF RollWrite, Rename, memory, history
<1>b. manifest'.active = active /\ manifest'.floor = floor
  BY <1>1
<1>a. /\ lock /\ linked = segments /\ removed = {} /\ manifest = durableManifest
      /\ active \in segments /\ closed = {b \in segments : b < active}
      /\ (\A b \in segments : b <= active)
      /\ HeadOf(active) /\ floor <= active /\ frames[active] = <<>>
      /\ manifest.floor = floor /\ manifest.active < active
  BY <1>1 DEF IInv, MemorySound, Settled, Serving
<1>2. TypeOK'
  BY <1>1 DEF IInv, TypeOK, Manifest, Phases
<1>3. FilesChained' BY <1>1 DEF IInv, FilesChained, Files, Follows, End
<1>3a. FilesOrdered' BY <1>1, <1>a DEF IInv, FilesOrdered, Files, Serving, End
<1>4. TornOnlyAtTail' BY <1>1, KeepTail DEF IInv
<1>5. DirtyOnlyActive' BY <1>1 DEF IInv, DirtyOnlyActive
<1>6. ManifestSound(durableManifest)' BY <1>1, KeepManifest DEF IInv
<1>6a. ManifestSound(manifest)'
  BY <1>1, <1>a, <1>b DEF IInv, ManifestSound, Files, TypeOK, End, Position
<1>7. Located(durableManifest)' BY <1>1, KeepLocated DEF IInv
<1>7a. Located(manifest)'
  <2> SUFFICES ASSUME NEW fr \in acked, Above(fr, floor)
               PROVE \E b \in linked : b <= active /\ \E i \in 1 .. synced[b] : frames[b][i] = fr
    BY <1>1 DEF Located, Above, End
  <2>1. PICK b \in linked : b <= manifest.active /\ \E i \in 1 .. synced[b] : frames[b][i] = fr
    BY <1>a DEF IInv, Located
  <2> QED BY <2>1, <1>a DEF IInv, TypeOK, Position, Manifest
<1>8. Settled' BY <1>1, <1>a, <1>b DEF IInv, TypeOK, Position, Manifest, Settled, Serving
<1>9. MemorySound' BY <1>1, <1>a, <1>b DEF IInv, TypeOK, Position, Manifest, MemorySound, Serving, HeadOf, End
<1> QED BY <1>2,<1>3,<1>3a,<1>4,<1>5,<1>6,<1>6a,<1>7,<1>7a,<1>8,<1>9 DEF IInv

\* The sync of that rename.
LEMMA RollSyncInv == ASSUME IInv, RollSync PROVE IInv'
<1>1. /\ phase = "roll_sync" /\ phase' = "rolled" /\ durableManifest' = manifest /\ stale' = {}
      /\ UNCHANGED <<segments, removed, linked, frames, synced, manifest, lock, active, closed, next, size, floor, acked, lastId, crashes, reverted>>
  BY DEF RollSync, SyncManifest, memory, history
<1>2. TypeOK' BY <1>1 DEF IInv, TypeOK, Phases
<1>3. FilesChained' /\ FilesOrdered' BY <1>1, KeepFiles DEF IInv, Serving
<1>4. TornOnlyAtTail' BY <1>1, KeepTail DEF IInv
<1>5. DirtyOnlyActive' BY <1>1 DEF IInv, DirtyOnlyActive
<1>6. ManifestSound(manifest)' /\ ManifestSound(durableManifest)' BY <1>1, KeepManifest DEF IInv
<1>7. Located(manifest)' /\ Located(durableManifest)' BY <1>1, KeepLocated DEF IInv
<1>8. Settled' BY <1>1 DEF IInv, TypeOK, Manifest, Position, Settled, Serving
<1>9. MemorySound' BY <1>1 DEF IInv, TypeOK, Position, MemorySound, Serving, HeadOf, End
<1> QED BY <1>2,<1>3,<1>4,<1>5,<1>6,<1>7,<1>8,<1>9 DEF IInv

\* The sync of the manifest with a new floor.
LEMMA FloorSyncInv == ASSUME IInv, FloorSync PROVE IInv'
<1>1. /\ phase = "floor_sync" /\ phase' = "reclaim" /\ durableManifest' = manifest /\ stale' = {} /\ floor' = manifest.floor
      /\ UNCHANGED <<segments, removed, linked, frames, synced, manifest, lock, active, closed, next, size, acked, lastId, crashes, reverted>>
  BY DEF FloorSync, SyncManifest, history
<1>2. TypeOK' BY <1>1 DEF IInv, TypeOK, Phases, Manifest
<1>3. FilesChained' /\ FilesOrdered' BY <1>1, KeepFiles DEF IInv, Serving
<1>4. TornOnlyAtTail' BY <1>1, KeepTail DEF IInv
<1>5. DirtyOnlyActive' BY <1>1 DEF IInv, DirtyOnlyActive, MemorySound, Serving
<1>6. ManifestSound(manifest)' /\ ManifestSound(durableManifest)' BY <1>1, KeepManifest DEF IInv
<1>7. Located(manifest)' /\ Located(durableManifest)' BY <1>1, KeepLocated DEF IInv
<1>8. Settled' BY <1>1 DEF IInv, TypeOK, Manifest, Position, Settled, Serving
<1>9. MemorySound' BY <1>1 DEF IInv, TypeOK, Position, Manifest, ManifestSound, MemorySound, Serving, HeadOf, End
<1> QED BY <1>2,<1>3,<1>4,<1>5,<1>6,<1>7,<1>8,<1>9 DEF IInv

\* The end of an open: orphans are removed, the Log is built.
LEMMA FinishOpenInv == ASSUME IInv, Openable, FinishOpen PROVE IInv'
<1>1. /\ phase = "orphans" /\ phase' = "idle" /\ active' = manifest.active /\ closed' = {b \in segments : b < manifest.active}
      /\ floor' = manifest.floor /\ segments' = segments \ Orphans /\ linked' = linked \ Orphans
      /\ removed' = removed \cup Orphans
      /\ UNCHANGED <<frames, synced, manifest, durableManifest, stale, lock, next, size, acked, lastId, crashes, reverted>>
  BY DEF FinishOpen, history
<1>a. /\ lock /\ manifest = durableManifest /\ manifest.active \in linked /\ linked \subseteq segments
      /\ \A b \in segments \ linked : b > manifest.active
      /\ removed \cap segments = {}
      /\ manifest.floor <= manifest.active /\ HeadOf(manifest.active)
      /\ \A b \in Files : b > manifest.active => frames[b] = <<>>
  BY <1>1 DEF IInv, TypeOK, MemorySound, Settled, Serving, ManifestSound
<1>c. manifest.active \in Nat /\ manifest.floor \in Nat /\ segments \subseteq Nat
  BY DEF IInv, TypeOK, Manifest, Position
<1>b. /\ segments' = {b \in segments : b <= manifest.active}
      /\ linked' = segments'
      /\ segments' \subseteq segments
      /\ manifest.active \in segments'
  <2>1. segments' = segments \ Orphans /\ linked' = segments \ Orphans
    BY <1>1, <1>a DEF Orphans
  <2>2. segments \ Orphans = {b \in segments : b <= manifest.active}
    <3>1. \A b \in segments : b > manifest.active <=> ~(b <= manifest.active)
      BY <1>c
    <3> QED BY <3>1 DEF Orphans
  <2>3. manifest.active \in segments \ Orphans
    BY <1>a, <1>c DEF Orphans
  <2> QED BY <2>1, <2>2, <2>3
<1>f. Files' = Files BY <1>1 DEF Files, Orphans
<1>2. TypeOK' BY <1>1, <1>b DEF IInv, TypeOK, Phases, Manifest, Orphans
<1>3. FilesChained' BY <1>1, <1>f DEF IInv, FilesChained, Follows, End
<1>3a. FilesOrdered' BY <1>1, <1>b, <1>f DEF IInv, FilesOrdered, End
<1>4. TornOnlyAtTail' BY <1>1, KeepTail DEF IInv
<1>5. DirtyOnlyActive' BY <1>1, KeepDirty DEF IInv
<1>6. ManifestSound(manifest)' /\ ManifestSound(durableManifest)' BY <1>1, <1>a, <1>b, <1>f DEF IInv, ManifestSound, End
<1>7. Located(manifest)' /\ Located(durableManifest)'
  <2> SUFFICES ASSUME NEW fr \in acked, Above(fr, manifest.floor)
               PROVE \E b \in linked' : b <= manifest.active /\ \E i \in 1 .. synced[b] : frames[b][i] = fr
    BY <1>1, <1>a DEF Located, Above, End
  <2>1. PICK b \in linked : b <= manifest.active /\ \E i \in 1 .. synced[b] : frames[b][i] = fr
    BY <1>a DEF IInv, Located
  <2> QED BY <2>1, <1>a, <1>b
<1>8. Settled'
  <2>1. removed' \cap segments' = {} BY <1>1, <1>a DEF Orphans
  <2> QED BY <2>1, <1>1, <1>a, <1>b, <1>c DEF Settled
<1>9. MemorySound'
  <2>1. HeadOf(active)'
    <3>1. active' = manifest.active /\ frames' = frames /\ next' = next BY <1>1
    <3>2. HeadOf(manifest.active) BY <1>a
    <3> QED BY <3>1, <3>2 DEF HeadOf, End
  <2>2. closed' = {b \in segments' : b < active'}
    <3>1. \A b \in segments : b < manifest.active => b <= manifest.active BY <1>c
    <3> QED BY <1>1, <1>b, <3>1
  <2>3. \A b \in segments' : b <= active' BY <1>1, <1>b, <1>c
  <2> QED BY <1>1, <1>a, <1>b, <1>c, <2>1, <2>2, <2>3 DEF MemorySound, Serving
<1> QED BY <1>2,<1>3,<1>3a,<1>4,<1>5,<1>6,<1>7,<1>8,<1>9 DEF IInv

\* After the scan of the active segment nothing is left to refuse: what lies
\* beyond it is empty and the floor is below the head.
LEMMA OpenAlwaysSucceeds == ASSUME IInv, phase = "orphans" PROVE Openable
<1>1. /\ manifest.active \in segments /\ manifest.floor <= manifest.active /\ HeadOf(manifest.active)
      /\ \A b \in segments : b > manifest.active => frames[b] = <<>>
  BY DEF IInv, MemorySound, Serving, ManifestSound, Files, TypeOK
<1>2. manifest.active <= next
  <2>1. CASE frames[manifest.active] = <<>>
    BY <1>1, <2>1 DEF HeadOf, IInv, TypeOK, Manifest, Position
  <2>2. CASE frames[manifest.active] # <<>>
    <3> DEFINE b == manifest.active
               n == Len(frames[b])
    <3>1. n \in 1 .. n /\ n \in Nat /\ frames[b][n] \in Frame
      BY <2>2, <1>1 DEF IInv, TypeOK
    <3>2. frames[b][n].whole
      BY <3>1, <1>1 DEF IInv, TypeOK, TornOnlyAtTail, Position
    <3>3. b <= frames[b][n].first
      BY <3>1, <3>2, <1>1 DEF IInv, TypeOK, FilesChained
    <3>4. next = frames[b][n].first + frames[b][n].count BY <2>2, <1>1 DEF HeadOf, End
    <3>5. b \in Nat BY DEF IInv, TypeOK, Manifest, Position
    <3>6. frames[b][n].first \in Nat /\ frames[b][n].count \in Nat
      <4> DEFINE fr == frames[b][n]
      <4>1. fr \in Frame BY <3>1
      <4> HIDE DEF fr
      <4>2. fr.first \in Nat /\ fr.count \in Nat BY <4>1 DEF Frame, Position
      <4> QED BY <4>2 DEF fr
    <3> QED BY <3>3, <3>4, <3>5, <3>6
  <2> QED BY <2>1, <2>2
<1> QED BY <1>1, <1>2 DEF Openable, Orphans, IInv, TypeOK, Manifest, Position

\* So an open is never refused.
LEMMA EndOpenInv == ASSUME IInv, EndOpen PROVE IInv'
<1>1. phase = "orphans" BY DEF EndOpen, FinishOpen, RefuseOpen
<1>2. Openable BY <1>1, OpenAlwaysSucceeds
<1> QED BY <1>2, FinishOpenInv DEF EndOpen

\* What FilesChained says of frame i of a file fs with base c.
ChainedAt(fs, c, i) ==
    /\ End(fs[i]) <= MaxPosition
    /\ fs[i].whole =>
          /\ fs[i].first = IF i = 1 THEN c ELSE End(fs[i - 1])
          /\ c <= fs[i].first
    /\ \A j \in 1 .. i - 1 : fs[i].whole => fs[j].whole /\ End(fs[j]) <= fs[i].first

\* FilesChained, read one file at a time.
LEMMA ChainedForm ==
  /\ FilesChained <=> \A c \in Position : /\ c \notin Files => frames[c] = <<>>
                                          /\ synced[c] <= Len(frames[c])
                                          /\ \A i \in 1 .. Len(frames[c]) : ChainedAt(frames[c], c, i)
  /\ FilesChained' <=> \A c \in Position : /\ c \notin Files' => frames'[c] = <<>>
                                           /\ synced'[c] <= Len(frames'[c])
                                           /\ \A i \in 1 .. Len(frames'[c]) : ChainedAt(frames'[c], c, i)
<1>1. FilesChained <=> \A c \in Position : /\ c \notin Files => frames[c] = <<>>
                                           /\ synced[c] <= Len(frames[c])
                                           /\ \A i \in 1 .. Len(frames[c]) : ChainedAt(frames[c], c, i)
  BY DEF FilesChained, ChainedAt, Follows
<1>2. FilesChained' <=> \A c \in Position : /\ c \notin Files' => frames'[c] = <<>>
                                            /\ synced'[c] <= Len(frames'[c])
                                            /\ \A i \in 1 .. Len(frames'[c]) : ChainedAt(frames'[c], c, i)
  BY DEF FilesChained, ChainedAt, Follows, End
<1> QED BY <1>1, <1>2

\* A frame stays chained as long as the frames up to it stay.
LEMMA ChainedPrefix ==
  ASSUME NEW fs, NEW gs, NEW c, NEW i \in Nat \ {0}, ChainedAt(fs, c, i),
         \A j \in 1 .. i : gs[j] = fs[j]
  PROVE  ChainedAt(gs, c, i)
<1>1. i \in 1 .. i /\ (i # 1 => i - 1 \in 1 .. i) /\ \A j \in 1 .. i - 1 : j \in 1 .. i
  OBVIOUS
<1> QED BY <1>1 DEF ChainedAt

\* Acknowledged frames stay located while synced prefixes only grow and no
\* safe file goes away.
LEMMA GrowLocated ==
  ASSUME TypeOK, acked' = acked,
         \A b \in linked : /\ b \in linked'
                           /\ synced[b] <= synced'[b] /\ synced'[b] \in Nat
                           /\ \A i \in 1 .. synced[b] : frames'[b][i] = frames[b][i]
  PROVE  /\ Located(manifest) /\ manifest' = manifest => Located(manifest)'
         /\ Located(durableManifest) /\ durableManifest' = durableManifest => Located(durableManifest)'
<1>1. \A b \in linked : synced[b] \in Nat /\ synced'[b] \in Nat
  BY DEF TypeOK
<1>2. \A b \in linked : \A i \in 1 .. synced[b] : i \in 1 .. synced'[b]
  BY <1>1
<1>3. ASSUME NEW m, NEW fr,
             \E b \in linked : b <= m.active /\ \E i \in 1 .. synced[b] : frames[b][i] = fr
      PROVE  \E b \in linked' : b <= m.active /\ \E i \in 1 .. synced'[b] : frames'[b][i] = fr
  <2>1. PICK b \in linked : b <= m.active /\ \E i \in 1 .. synced[b] : frames[b][i] = fr
    BY <1>3
  <2>2. PICK i \in 1 .. synced[b] : frames[b][i] = fr BY <2>1
  <2>3. b \in linked' /\ i \in 1 .. synced'[b] /\ frames'[b][i] = fr BY <1>2, <2>2
  <2> QED BY <2>1, <2>3
<1>4. ASSUME Located(manifest), manifest' = manifest PROVE Located(manifest)'
  <2>1. \A fr \in acked : Above(fr, manifest.floor) =>
          \E b \in linked : b <= manifest.active /\ \E i \in 1 .. synced[b] : frames[b][i] = fr
    BY <1>4 DEF Located
  <2>2. \A fr \in acked : Above(fr, manifest.floor) =>
          \E b \in linked' : b <= manifest.active /\ \E i \in 1 .. synced'[b] : frames'[b][i] = fr
    <3> SUFFICES ASSUME NEW fr \in acked, Above(fr, manifest.floor)
                 PROVE  \E b \in linked' : b <= manifest.active /\ \E i \in 1 .. synced'[b] : frames'[b][i] = fr
      OBVIOUS
    <3>1. \E b \in linked : b <= manifest.active /\ \E i \in 1 .. synced[b] : frames[b][i] = fr
      BY <2>1
    <3> QED BY <3>1, <1>3
  <2> QED BY <2>2, <1>4 DEF Located, Above, End
<1>5. ASSUME Located(durableManifest), durableManifest' = durableManifest PROVE Located(durableManifest)'
  <2>1. \A fr \in acked : Above(fr, durableManifest.floor) =>
          \E b \in linked : b <= durableManifest.active /\ \E i \in 1 .. synced[b] : frames[b][i] = fr
    BY <1>5 DEF Located
  <2>2. \A fr \in acked : Above(fr, durableManifest.floor) =>
          \E b \in linked' : b <= durableManifest.active /\ \E i \in 1 .. synced'[b] : frames'[b][i] = fr
    <3> SUFFICES ASSUME NEW fr \in acked, Above(fr, durableManifest.floor)
                 PROVE  \E b \in linked' : b <= durableManifest.active /\ \E i \in 1 .. synced'[b] : frames'[b][i] = fr
      OBVIOUS
    <3>1. \E b \in linked : b <= durableManifest.active /\ \E i \in 1 .. synced[b] : frames[b][i] = fr
      BY <2>1
    <3> QED BY <3>1, <1>3
  <2> QED BY <2>2, <1>5 DEF Located, Above, End
<1> QED BY <1>4, <1>5

\* The fsync of the full segment.
LEMMA BeginRollInv == ASSUME IInv, BeginRoll PROVE IInv'
<1>1. /\ phase = "idle" /\ phase' = "roll_create"
      /\ synced' = [synced EXCEPT ![active] = Len(frames[active])]
      /\ UNCHANGED <<segments, removed, linked, frames, manifest, durableManifest, stale, lock, active, closed, next, size, floor, acked, lastId, crashes, reverted>>
  BY DEF BeginRoll, SyncActive, memory, history
<1>a. /\ lock /\ linked = segments /\ manifest = durableManifest
      /\ active = manifest.active /\ active \in Position
  BY <1>1 DEF IInv, MemorySound, Settled, Serving, TypeOK
<1>b. \A b \in Position : /\ synced[b] \in Nat /\ Len(frames[b]) \in Nat /\ synced[b] <= Len(frames[b])
                          /\ synced'[b] = IF b = active THEN Len(frames[b]) ELSE synced[b]
  BY <1>1 DEF IInv, TypeOK, FilesChained
<1>2. TypeOK' BY <1>1, <1>b DEF IInv, TypeOK, Phases
<1>3. FilesChained' BY <1>1, <1>b DEF IInv, FilesChained, Files, Follows, End
<1>3a. FilesOrdered' BY <1>1 DEF IInv, FilesOrdered, Files, Serving, End
<1>4. TornOnlyAtTail' BY <1>1 DEF IInv, TornOnlyAtTail, End
<1>5. DirtyOnlyActive' BY <1>1, <1>a, <1>b DEF IInv, DirtyOnlyActive
<1>6. ManifestSound(manifest)' /\ ManifestSound(durableManifest)' BY <1>1, KeepManifest DEF IInv
<1>7. Located(manifest)' /\ Located(durableManifest)'
  <2>1. \A b \in linked : /\ b \in linked' /\ synced[b] <= synced'[b] /\ synced'[b] \in Nat
                          /\ \A i \in 1 .. synced[b] : frames'[b][i] = frames[b][i]
    BY <1>1, <1>b DEF IInv, TypeOK
  <2> QED BY <2>1, <1>1, GrowLocated DEF IInv
<1>8. Settled' BY <1>1, <1>a DEF IInv, Settled, Serving
<1>9. MemorySound' BY <1>1 DEF IInv, MemorySound, Serving, HeadOf, End
<1> QED BY <1>2,<1>3,<1>3a,<1>4,<1>5,<1>6,<1>7,<1>8,<1>9 DEF IInv

\* A roll refused because the file exists.
LEMMA RollRefusedInv ==
  ASSUME IInv, phase = "roll_create", phase' = "idle",
         UNCHANGED <<segments, removed, linked, frames, synced, manifest, durableManifest, stale, lock, memory, acked, lastId, crashes, reverted>>
  PROVE  IInv'
<1>1. UNCHANGED <<active, closed, next, size, floor>> BY DEF memory
<1>2. TypeOK' BY <1>1 DEF IInv, TypeOK, Phases
<1>3. FilesChained' /\ FilesOrdered' BY KeepFiles DEF IInv, Serving
<1>4. TornOnlyAtTail' BY KeepTail DEF IInv
<1>5. DirtyOnlyActive' BY KeepDirty DEF IInv
<1>6. ManifestSound(manifest)' /\ ManifestSound(durableManifest)' BY KeepManifest DEF IInv
<1>7. Located(manifest)' /\ Located(durableManifest)' BY KeepLocated DEF IInv
<1>8. Settled' BY DEF IInv, Settled, Serving
<1>9. MemorySound' BY <1>1 DEF IInv, MemorySound, Serving, HeadOf, End
<1> QED BY <1>2,<1>3,<1>4,<1>5,<1>6,<1>7,<1>8,<1>9 DEF IInv

\* In a serving process with no new file yet, every frame ends at or below
\* the head and every file starts there or below.
LEMMA HeadIsTop ==
  ASSUME IInv, Serving
  PROVE  /\ active <= next
         /\ \A b \in Files : b <= active => \A i \in 1 .. Len(frames[b]) : End(frames[b][i]) <= next
<1>a. /\ active \in segments /\ HeadOf(active) /\ phase \notin {"down", "scan"}
  BY DEF IInv, MemorySound, Serving
<1>t. /\ Files \subseteq Position /\ active \in Nat /\ next \in Nat
      /\ \A b \in Position : b \in Nat /\ frames[b] \in Seq(Frame) /\ Len(frames[b]) \in Nat
      /\ \A b \in Position : \A i \in 1 .. Len(frames[b]) :
           frames[b][i] \in Frame /\ End(frames[b][i]) \in Nat /\ frames[b][i].first \in Nat
  <2>1. \A fr \in Frame : End(fr) \in Nat /\ fr.first \in Nat BY DEF Frame, Position, End
  <2>2. \A b \in Position : \A i \in 1 .. Len(frames[b]) : frames[b][i] \in Frame BY DEF IInv, TypeOK
  <2> QED BY <2>1, <2>2 DEF IInv, TypeOK, Position, Files
<1>w. \A b \in Position : \A i \in 1 .. Len(frames[b]) : frames[b][i].whole
  BY <1>a DEF IInv, TornOnlyAtTail
<1>1. /\ active <= next
      /\ \A i \in 1 .. Len(frames[active]) : End(frames[active][i]) <= next
  <2>1. CASE frames[active] = <<>>
    BY <1>a, <1>t, <2>1 DEF HeadOf
  <2>2. CASE frames[active] # <<>>
    <3> DEFINE n == Len(frames[active])
    <3>0. active \in Position BY <1>a DEF IInv, TypeOK
    <3>1. n \in 1 .. n /\ n \in Nat /\ active \in Position BY <2>2, <3>0, <1>t
    <3>2. next = End(frames[active][n]) BY <2>2, <1>a DEF HeadOf
    <3>3. active <= frames[active][n].first BY <3>1, <1>w DEF IInv, FilesChained
    <3>4. \A j \in 1 .. n - 1 : End(frames[active][j]) <= frames[active][n].first
      BY <3>1, <1>w DEF IInv, FilesChained
    <3>5. frames[active][n].first <= End(frames[active][n])
      <4> DEFINE fr == frames[active][n]
      <4>1. fr \in Frame BY <3>1, <1>t
      <4> HIDE DEF fr
      <4>2. fr.first <= End(fr) BY <4>1 DEF Frame, Position, End
      <4> QED BY <4>2 DEF fr
    <3>6. \A j \in 1 .. n : j = n \/ j \in 1 .. n - 1 BY <3>1
    <3>7. active <= next BY <3>1, <3>2, <3>3, <3>5, <1>t
    <3>8. \A j \in 1 .. n - 1 : End(frames[active][j]) <= next
      <4> SUFFICES ASSUME NEW j \in 1 .. n - 1 PROVE End(frames[active][j]) <= next OBVIOUS
      <4>1. j \in 1 .. n BY <3>1
      <4>2. End(frames[active][j]) \in Nat /\ frames[active][n].first \in Nat /\ End(frames[active][n]) \in Nat
        BY <3>1, <4>1, <1>t
      <4>3. End(frames[active][j]) <= frames[active][n].first BY <3>4
      <4> QED BY <4>2, <4>3, <3>5, <3>2
    <3>9. End(frames[active][n]) <= next BY <3>2, <1>t
    <3> QED BY <3>6, <3>7, <3>8, <3>9
  <2> QED BY <2>1, <2>2
<1>2. ASSUME NEW b \in Files, b <= active, NEW i \in 1 .. Len(frames[b])
      PROVE  End(frames[b][i]) <= next
  <2>1. CASE b = active BY <2>1, <1>1, <1>2
  <2>2. CASE b < active
    <3>1. End(frames[b][i]) <= active BY <2>2, <1>a, <1>2 DEF IInv, FilesOrdered, Files
    <3> QED BY <3>1, <1>1, <1>t, <1>2
  <2> QED BY <2>1, <2>2, <1>t, <1>2
<1> QED BY <1>1, <1>2

\* The creation of the next segment's file.
LEMMA RollCreateInv == ASSUME IInv, RollCreate PROVE IInv'
<1>1. /\ phase = "roll_create"
      /\ UNCHANGED <<linked, manifest, durableManifest, stale, lock, memory, acked, lastId, crashes, reverted>>
  BY DEF RollCreate, history
<1>2. CASE next \in segments
  <2>1. phase' = "idle" /\ UNCHANGED <<segments, removed, frames, synced>> BY <1>2 DEF RollCreate
  <2> QED BY <1>1, <2>1, RollRefusedInv
<1>3. CASE next \notin segments
  <2>1. /\ phase' = "roll_link" /\ segments' = segments \cup {next} /\ removed' = removed \ {next}
        /\ frames' = [frames EXCEPT ![next] = <<>>]
        /\ synced' = [synced EXCEPT ![next] = 0]
        /\ UNCHANGED <<active, closed, next, size, floor>>
    BY <1>1, <1>3 DEF RollCreate, memory
  <2>a. /\ lock /\ linked = segments /\ manifest = durableManifest
        /\ active = manifest.active /\ active \in segments
        /\ closed = {b \in segments : b < active} /\ HeadOf(active) /\ floor <= active
        /\ manifest.floor = floor
        /\ \A b \in segments : b <= active
        /\ removed \cap segments = {}
    BY <1>1 DEF IInv, MemorySound, Settled, Serving
  <2>t. next \in Position /\ segments \subseteq Position /\ Files \subseteq Nat /\ active \in Nat /\ next \in Nat /\ floor \in Nat
    BY <2>a DEF IInv, TypeOK, Position, Files
  <2>b. active < next
    <3>1. active <= next BY <1>1, HeadIsTop DEF Serving
    <3> QED BY <3>1, <2>a, <2>t, <1>3
  <2>e. \A b \in Files : b > active => frames[b] = <<>>
    BY <2>a DEF IInv, ManifestSound
  <2>n. frames[next] = <<>> /\ synced[next] = 0
    <3>1. frames[next] = <<>>
      BY <2>b, <2>e, <2>t DEF IInv, FilesChained
    <3>2. synced[next] \in Nat /\ synced[next] <= Len(frames[next])
      BY <2>t DEF IInv, FilesChained, TypeOK
    <3> QED BY <3>1, <3>2
  <2>c. frames' = frames /\ synced' = synced
    BY <2>1, <2>n, <2>t DEF IInv, TypeOK
  <2>f. Files' = Files \cup {next} BY <2>1 DEF Files
  <2>2. TypeOK' BY <1>1, <2>1, <2>c, <2>t DEF IInv, TypeOK, Phases
  <2>3. FilesChained' BY <2>c, <2>f DEF IInv, FilesChained, Follows, End
  <2>3a. FilesOrdered'
    <3>1. \A b \in Files : \A i \in 1 .. Len(frames[b]) : End(frames[b][i]) <= next
      <4>1. ASSUME NEW b \in Files, NEW i \in 1 .. Len(frames[b]) PROVE b <= active
        BY <2>e, <2>t
      <4> QED BY <4>1, <1>1, HeadIsTop DEF Serving
    <3>2. ASSUME NEW b \in Files', NEW c \in Files', b < c,
                 c <= manifest.active \/ c \in segments', NEW i \in 1 .. Len(frames[b])
          PROVE  End(frames[b][i]) <= c
      <4>1. b # next BY <2>n, <3>2
      <4>2. b \in Files BY <4>1, <2>f
      <4>3. CASE c = next BY <4>2, <4>3, <3>1
      <4>4. CASE c # next
        <5>1. c \in Files /\ (c <= manifest.active \/ c \in segments) BY <4>4, <3>2, <2>1, <2>f
        <5> QED BY <4>2, <5>1, <3>2, <1>1 DEF IInv, FilesOrdered, Serving
      <4> QED BY <4>3, <4>4
    <3> QED BY <3>2, <2>c, <1>1 DEF FilesOrdered, End
  <2>4. TornOnlyAtTail' BY <1>1, <2>1, <2>c, KeepTail DEF IInv
  <2>5. DirtyOnlyActive' BY <1>1, <2>1, <2>c DEF IInv, DirtyOnlyActive
  <2>6. ManifestSound(manifest)' /\ ManifestSound(durableManifest)'
    <3> QED BY <1>1, <2>1, <2>c, <2>f, <2>n DEF IInv, ManifestSound, End
  <2>7. Located(manifest)' /\ Located(durableManifest)' BY <1>1, <2>1, <2>c, KeepLocated DEF IInv
  <2>8. Settled' 
    BY <1>1, <2>1, <2>a, <2>b, <2>t DEF IInv, Settled, Serving
  <2>9. MemorySound'
    <3>1. closed' = {b \in segments' : b < active'}
      <4>1. \A b \in segments' : b < active <=> b \in segments /\ b < active BY <2>1, <2>b, <2>t
      <4> QED BY <2>1, <2>a, <4>1
    <3>2. HeadOf(active)' BY <2>a, <2>1, <2>c DEF HeadOf, End
    <3> QED BY <1>1, <2>1, <2>a, <2>b, <2>t, <3>1, <3>2 DEF MemorySound, Serving
  <2> QED BY <2>2,<2>3,<2>3a,<2>4,<2>5,<2>6,<2>7,<2>8,<2>9 DEF IInv
<1> QED BY <1>2, <1>3

\* The sync of its directory entry and the swap in memory.
LEMMA RollLinkInv == ASSUME IInv, RollLink PROVE IInv'
<1>1. /\ phase = "roll_link" /\ phase' = "roll_write" /\ linked' = segments /\ removed' = {}
      /\ active' = next /\ closed' = closed \cup {active} /\ size' = 0
      /\ frames' = [b \in Position |-> IF b \in removed THEN <<>> ELSE frames[b]]
      /\ synced' = [b \in Position |-> IF b \in removed THEN 0 ELSE synced[b]]
      /\ UNCHANGED <<segments, manifest, durableManifest, stale, lock, next, floor, acked, lastId, crashes, reverted>>
  BY DEF RollLink, Erase, history
<1>a. /\ lock /\ manifest = durableManifest
      /\ active = manifest.active /\ active \in segments /\ next \in segments /\ active < next
      /\ closed = {b \in segments : b < active} /\ floor <= active
      /\ manifest.floor = floor
      /\ \A b \in segments : b <= active \/ b = next
      /\ removed \cap segments = {}
  BY <1>1 DEF IInv, MemorySound, Settled, Serving
<1>t. /\ segments \subseteq Nat /\ active \in Nat /\ next \in Nat /\ floor \in Nat
      /\ segments \subseteq Position /\ linked \subseteq segments
  BY DEF IInv, TypeOK, Position
<1>b. frames[next] = <<>> BY <1>a, <1>t DEF IInv, ManifestSound, Files
<1>c. /\ \A b \in segments : frames'[b] = frames[b] /\ synced'[b] = synced[b]
      /\ \A b \in Position : b \notin segments => frames'[b] = <<>>
      /\ \A b \in Position : \/ frames'[b] = frames[b] /\ synced'[b] = synced[b]
                             \/ frames'[b] = <<>> /\ synced'[b] = 0
  <2>1. \A b \in Position : b \notin segments /\ b \notin removed => frames[b] = <<>>
    BY DEF IInv, FilesChained, Files
  <2> QED BY <1>1, <1>a, <1>t, <2>1
<1>f. Files' = segments /\ segments \subseteq Files BY <1>1 DEF Files
<1>2. TypeOK'
  <2>1. \A b \in Position : frames'[b] \in Seq(Frame) /\ synced'[b] \in Nat
    <3>1. \A b \in Position : frames[b] \in Seq(Frame) /\ synced[b] \in Nat BY DEF IInv, TypeOK
    <3>2. <<>> \in Seq(Frame) OBVIOUS
    <3> TAKE b \in Position
    <3>3. CASE frames'[b] = frames[b] /\ synced'[b] = synced[b] BY <3>1, <3>3
    <3>4. CASE frames'[b] = <<>> /\ synced'[b] = 0 BY <3>2, <3>4
    <3> QED BY <1>c, <3>3, <3>4
  <2>2. frames' \in [Position -> Seq(Frame)] /\ synced' \in [Position -> Nat]
    BY <1>1, <2>1
  <2> QED BY <1>1, <2>2 DEF IInv, TypeOK, Phases
<1>3. FilesChained'
  <2>1. \A c \in Position : /\ synced[c] <= Len(frames[c])
                            /\ \A i \in 1 .. Len(frames[c]) : ChainedAt(frames[c], c, i)
    BY ChainedForm DEF IInv
  <2>2. \A c \in Position : /\ synced'[c] <= Len(frames'[c])
                            /\ \A i \in 1 .. Len(frames'[c]) : ChainedAt(frames'[c], c, i)
    BY <1>c, <2>1
  <2> QED BY <1>c, <1>f, <2>2, ChainedForm
<1>3a. FilesOrdered' BY <1>1, <1>c, <1>f DEF IInv, FilesOrdered, Serving, End
<1>4. TornOnlyAtTail' BY <1>1, <1>c DEF IInv, TornOnlyAtTail, End
<1>5. DirtyOnlyActive' BY <1>1, <1>c DEF IInv, DirtyOnlyActive
<1>6. ManifestSound(manifest)' /\ ManifestSound(durableManifest)'
  BY <1>1, <1>c, <1>f, <1>t DEF IInv, ManifestSound, End
<1>7. Located(manifest)' /\ Located(durableManifest)'
  <2>1. \A b \in linked : /\ b \in linked' /\ synced[b] <= synced'[b] /\ synced'[b] \in Nat
                          /\ \A i \in 1 .. synced[b] : frames'[b][i] = frames[b][i]
    <3>1. \A b \in linked : b \in segments /\ synced[b] \in Nat BY <1>t DEF IInv, TypeOK
    <3> QED BY <1>1, <1>c, <3>1
  <2> QED BY <2>1, <1>1, GrowLocated DEF IInv
<1>8. Settled' BY <1>1, <1>a DEF IInv, Settled
<1>9. MemorySound'
  <2>1. closed' = {b \in segments' : b < active'}
    <3>1. \A b \in segments : b < next <=> b < active \/ b = active BY <1>a, <1>t
    <3> QED BY <1>1, <1>a, <3>1
  <2>2. HeadOf(active)' BY <1>1, <1>a, <1>b, <1>c DEF HeadOf
  <2>3. \A b \in segments : b <= next BY <1>a, <1>t
  <2>4. floor <= next BY <1>a, <1>t
  <2>5. frames'[active'] = <<>> BY <1>1, <1>a, <1>b, <1>c
  <2> QED BY <1>1, <1>a, <1>t, <2>1, <2>2, <2>3, <2>4, <2>5 DEF MemorySound, Serving
<1> QED BY <1>2,<1>3,<1>3a,<1>4,<1>5,<1>6,<1>7,<1>8,<1>9 DEF IInv

\* The rename of a manifest with a new floor: the floor is a file boundary, so
\* no file straddles it.
LEMMA ActivateRetentionInv == ASSUME IInv, ActivateRetention PROVE IInv'
<1> PICK requested \in 0 .. next :
      manifest' = [active |-> active, floor |-> RetentionBoundary(requested)]
  BY DEF ActivateRetention, Rename
<1> DEFINE f == RetentionBoundary(requested)
<1>1. /\ phase = "idle" /\ phase' = "floor_sync"
      /\ stale' = stale \cup ({manifest} \ {durableManifest})
      /\ UNCHANGED <<segments, removed, linked, frames, synced, durableManifest, lock, active, closed, next, size, floor, acked, lastId, crashes, reverted>>
  BY DEF ActivateRetention, Rename, memory, history
<1>a. /\ lock /\ linked = segments /\ manifest = durableManifest
      /\ active = manifest.active /\ active \in segments
      /\ closed = {b \in segments : b < active} /\ HeadOf(active) /\ floor <= active
      /\ manifest.floor = floor
      /\ \A b \in segments : b <= active
  BY <1>1 DEF IInv, MemorySound, Settled, Serving
<1>t. segments \subseteq Nat /\ active \in Nat /\ next \in Nat /\ floor \in Nat /\ active \in Position /\ floor \in Position
  BY DEF IInv, TypeOK, Position
<1>3. f \in closed \cup {active, floor} /\ floor <= f /\ f <= active
  <2> DEFINE bases == {b \in closed \cup {active} : b <= requested} \cup {floor}
  <2>1. bases \in SUBSET Nat /\ bases # {} /\ \A b \in bases : b <= active BY <1>a, <1>t
  <2>2. \E b \in bases : \A c \in bases : c <= b BY <2>1, <1>t, LargestExists
  <2>3. f = CHOOSE b \in bases : \A c \in bases : c <= b BY DEF RetentionBoundary
  <2> HIDE DEF f
  <2>4. f \in bases /\ \A c \in bases : c <= f BY <2>2, <2>3
  <2> QED BY <2>1, <2>4
<1>4. f \in segments \/ f = floor BY <1>3, <1>a
<1>5. f \in Nat /\ f \in Position BY <1>4, <1>t DEF IInv, TypeOK
<1>b. manifest'.active = active /\ manifest'.floor = f OBVIOUS
<1>m. manifest' \in Manifest BY <1>5, <1>t DEF Manifest
<1> HIDE DEF f
<1>2. TypeOK' BY <1>1, <1>m DEF IInv, TypeOK, Phases
<1>6. FilesChained' /\ FilesOrdered' BY <1>1, <1>a, <1>b, KeepFiles DEF IInv, Serving
<1>7. TornOnlyAtTail' BY <1>1, KeepTail DEF IInv
<1>8. DirtyOnlyActive' BY <1>1, <1>a, <1>b DEF IInv, DirtyOnlyActive
<1>9. ManifestSound(durableManifest)' BY <1>1, KeepManifest DEF IInv
<1>10. ManifestSound(manifest)'
  <2>1. \A b \in Files : b < f => \A i \in 1 .. Len(frames[b]) : End(frames[b][i]) <= f
    <3>1. CASE f \in segments BY <3>1, <1>1 DEF IInv, FilesOrdered, Files, Serving
    <3>2. CASE f = floor BY <3>2, <1>a DEF IInv, ManifestSound
    <3> QED BY <3>1, <3>2, <1>4
  <2>2. \A b \in Files : b > active => frames[b] = <<>> BY <1>a DEF IInv, ManifestSound
  <2> QED BY <2>1, <2>2, <1>1, <1>a, <1>b, <1>3 DEF ManifestSound, Files, End
<1>11. Located(durableManifest)' BY <1>1, KeepLocated DEF IInv
<1>12. Located(manifest)'
  <2>1. ASSUME NEW fr \in acked, Above(fr, f)
        PROVE  \E b \in linked : b <= active /\ \E i \in 1 .. synced[b] : frames[b][i] = fr
    <3>1. fr \in Frame /\ End(fr) \in Nat BY DEF IInv, TypeOK, Frame, Position, End
    <3>2. Above(fr, floor) BY <2>1, <1>3, <1>5, <1>t, <3>1 DEF Above
    <3> QED BY <3>2, <1>a DEF IInv, Located
  <2> QED BY <2>1, <1>1, <1>b DEF Located, Above, End
<1>13. Settled' BY <1>1, <1>a, <1>b, <1>t DEF IInv, Settled, Serving
<1>14. MemorySound'
  <2>1. HeadOf(active)' BY <1>a, <1>1 DEF HeadOf, End
  <2> QED BY <1>1, <1>a, <1>b, <1>t, <2>1 DEF MemorySound, Serving
<1> QED BY <1>2,<1>6,<1>7,<1>8,<1>9,<1>10,<1>11,<1>12,<1>13,<1>14 DEF IInv

\* The fsync of the active segment: every readable frame is now located.
LEMMA CommitInv == ASSUME IInv, Commit PROVE IInv'
<1>1. /\ phase = "idle" /\ phase' = "idle"
      /\ synced' = [synced EXCEPT ![active] = Len(frames[active])]
      /\ acked' = acked \cup Readable
      /\ UNCHANGED <<segments, removed, linked, frames, manifest, durableManifest, stale, lock, active, closed, next, size, floor, lastId, crashes, reverted>>
  BY DEF Commit, SyncActive, memory, history
<1>a. /\ lock /\ linked = segments /\ manifest = durableManifest
      /\ active = manifest.active /\ active \in Position /\ active \in segments
      /\ closed = {b \in segments : b < active}
      /\ \A b \in closed \cup {active} : b \in segments /\ b <= active
  BY <1>1 DEF IInv, MemorySound, Settled, Serving, TypeOK
<1>b. \A b \in Position : /\ synced[b] \in Nat /\ Len(frames[b]) \in Nat /\ synced[b] <= Len(frames[b])
                          /\ synced'[b] = IF b = active THEN Len(frames[b]) ELSE synced[b]
                          /\ b # active => synced[b] = Len(frames[b])
  BY <1>1, <1>a DEF IInv, TypeOK, FilesChained, DirtyOnlyActive
<1>c. \A fr \in Readable : \E b \in segments : b <= active /\ \E i \in 1 .. Len(frames[b]) : fr = frames[b][i]
  BY <1>a DEF Readable, InFile
<1>2. TypeOK'
  <2>1. Readable \subseteq Frame BY <1>c DEF IInv, TypeOK
  <2> QED BY <1>1, <1>b, <2>1 DEF IInv, TypeOK, Phases
<1>3. FilesChained' BY <1>1, <1>b DEF IInv, FilesChained, Files, Follows, End
<1>3a. FilesOrdered' BY <1>1 DEF IInv, FilesOrdered, Files, Serving, End
<1>4. TornOnlyAtTail' BY <1>1 DEF IInv, TornOnlyAtTail, End
<1>5. DirtyOnlyActive' BY <1>1, <1>a, <1>b DEF IInv, DirtyOnlyActive
<1>6. ManifestSound(manifest)' /\ ManifestSound(durableManifest)' BY <1>1, KeepManifest DEF IInv
<1>7. Located(manifest)' /\ Located(durableManifest)'
  <2>1. \A b \in segments : b \in Position /\ synced'[b] = Len(frames[b]) BY <1>b DEF IInv, TypeOK
  <2>2. \A fr \in Readable : \E b \in linked : b <= manifest.active /\ \E i \in 1 .. synced'[b] : frames[b][i] = fr
    BY <1>a, <1>c, <2>1
  <2>3. ASSUME NEW fr \in acked, Above(fr, manifest.floor)
        PROVE \E b \in linked : b <= manifest.active /\ \E i \in 1 .. synced'[b] : frames[b][i] = fr
    <3>1. PICK b \in linked : b <= manifest.active /\ \E i \in 1 .. synced[b] : frames[b][i] = fr
      BY <2>3 DEF IInv, Located
    <3>2. \A i \in 1 .. synced[b] : i \in 1 .. synced'[b] BY <1>a, <1>b, <2>1
    <3> QED BY <3>1, <3>2
  <2>4. \A fr \in acked' : Above(fr, manifest.floor) =>
          \E b \in linked : b <= manifest.active /\ \E i \in 1 .. synced'[b] : frames[b][i] = fr
    BY <1>1, <2>2, <2>3
  <2> QED BY <2>4, <1>1, <1>a DEF Located, Above, End
<1>8. Settled' BY <1>1, <1>a DEF IInv, Settled, Serving
<1>9. MemorySound' BY <1>1 DEF IInv, MemorySound, Serving, HeadOf, End
<1> QED BY <1>2,<1>3,<1>3a,<1>4,<1>5,<1>6,<1>7,<1>8,<1>9 DEF IInv

\* An append: the frame continues the file and lies behind every other one.
LEMMA AppendFrameInv == ASSUME IInv, NEW n \in Nat, AppendFrame(n) PROVE IInv'
<1> DEFINE fr == [id |-> lastId + 1, first |-> next, count |-> n, whole |-> TRUE]
           len == Len(frames[active])
<1>1. /\ phase \in {"idle", "rolled"} /\ phase' = "idle"
      /\ lastId < MaxFrames /\ next + n \in Position
      /\ frames' = [frames EXCEPT ![active] = Append(@, fr)]
      /\ next' = next + n /\ lastId' = lastId + 1 /\ size' = size + 1
      /\ UNCHANGED <<segments, removed, linked, synced, manifest, durableManifest, stale, lock, active, closed, floor, acked, crashes, reverted>>
  BY DEF AppendFrame, MayWrite
<1>a. /\ lock /\ linked = segments /\ manifest = durableManifest
      /\ active = manifest.active /\ active \in segments
      /\ closed = {b \in segments : b < active} /\ HeadOf(active) /\ floor <= active
      /\ manifest.floor = floor
      /\ \A b \in segments : b <= active
  BY <1>1 DEF IInv, MemorySound, Settled, Serving
<1>t. /\ Files \subseteq Position /\ Files \subseteq Nat /\ segments \subseteq Files
      /\ active \in Nat /\ next \in Nat /\ floor \in Nat
      /\ active \in Position /\ len \in Nat /\ lastId \in Nat /\ MaxFrames \in Nat /\ MaxPosition \in Nat
      /\ frames[active] \in Seq(Frame)
  BY <1>a, BoundsAssumption DEF IInv, TypeOK, Position, Files
<1>f. fr \in Frame /\ fr.whole /\ fr.first = next /\ End(fr) = next + n
  BY <1>1, <1>t DEF Frame, End, IInv, TypeOK
<1> HIDE DEF fr
<1>b. /\ \A b \in Position \ {active} : frames'[b] = frames[b]
      /\ Len(frames'[active]) = len + 1
      /\ frames'[active] \in Seq(Frame)
      /\ \A i \in 1 .. len : frames'[active][i] = frames[active][i]
      /\ frames'[active][len + 1] = fr
  BY <1>1, <1>t, <1>f DEF IInv, TypeOK
<1>h. /\ active <= next
      /\ \A i \in 1 .. len : End(frames[active][i]) <= next
  BY <1>1, <1>a, <1>t, HeadIsTop DEF Serving
<1>i. \A i \in 1 .. len + 1 : i \in 1 .. len \/ i = len + 1 BY <1>t
<1>2. TypeOK'
  <2>1. frames' \in [Position -> Seq(Frame)] BY <1>1, <1>b, <1>t DEF IInv, TypeOK
  <2>2. lastId' \in 0 .. MaxFrames BY <1>1, <1>t
  <2>3. size' \in Nat BY <1>1 DEF IInv, TypeOK
  <2>4. phase' \in Phases BY <1>1 DEF Phases
  <2> QED BY <2>1, <2>2, <2>3, <2>4, <1>1 DEF IInv, TypeOK
<1>w. \A i \in 1 .. len : frames[active][i].whole
  BY <1>1, <1>t DEF IInv, TornOnlyAtTail
<1>3. FilesChained'
  <2>1. \A c \in Position : /\ c \notin Files => frames[c] = <<>>
                            /\ synced[c] <= Len(frames[c])
                            /\ \A i \in 1 .. Len(frames[c]) : ChainedAt(frames[c], c, i)
    BY ChainedForm DEF IInv
  <2>2. ASSUME NEW i \in 1 .. len PROVE ChainedAt(frames'[active], active, i)
    <3>1. i \in Nat \ {0} /\ \A j \in 1 .. i : j \in 1 .. len BY <1>t
    <3> QED BY <3>1, <2>1, <1>b, <1>t, ChainedPrefix
  <2>3. ChainedAt(frames'[active], active, len + 1)
    <3>1. End(fr) <= MaxPosition BY <1>f, <1>1, <1>t DEF Position
    <3>2. fr.first = IF len + 1 = 1 THEN active ELSE End(frames'[active][len])
      <4>1. CASE len = 0 BY <4>1, <1>a, <1>f, <1>t DEF HeadOf
      <4>2. CASE len # 0
        <5>1. len \in 1 .. len /\ frames[active] # <<>> BY <4>2, <1>t
        <5>2. next = End(frames[active][len]) BY <5>1, <1>a DEF HeadOf
        <5>3. frames'[active][len] = frames[active][len] BY <5>1, <1>b
        <5>4. len + 1 # 1 BY <4>2, <1>t
        <5> QED BY <5>2, <5>3, <5>4, <1>f
      <4> QED BY <4>1, <4>2
    <3>3. \A j \in 1 .. len : frames'[active][j].whole /\ End(frames'[active][j]) <= fr.first
      BY <1>b, <1>w, <1>h, <1>f
    <3>4. (len + 1) - 1 = len BY <1>t
    <3> QED BY <3>1, <3>2, <3>3, <3>4, <1>b, <1>h, <1>f DEF ChainedAt
  <2>4. \A c \in Position : synced[c] <= Len(frames'[c])
    <3>1. synced[active] <= len + 1 BY <2>1, <1>t DEF IInv, TypeOK
    <3> QED BY <3>1, <2>1, <1>b
  <2>5. \A c \in Position : c \notin Files => frames'[c] = <<>> BY <2>1, <1>a, <1>b, <1>t
  <2>6. \A c \in Position : \A i \in 1 .. Len(frames'[c]) : ChainedAt(frames'[c], c, i)
    BY <2>1, <2>2, <2>3, <1>b, <1>i
  <2>7. Files' = Files BY <1>1 DEF Files
  <2> QED BY <2>4, <2>5, <2>6, <2>7, <1>1, ChainedForm
<1>4. FilesOrdered'
  <2>1. ASSUME NEW b \in Files, NEW c \in Files, b < c, c <= active \/ c \in segments,
               NEW i \in 1 .. Len(frames'[b])
        PROVE  End(frames'[b][i]) <= c
    <3>1. b # active BY <2>1, <1>a, <1>t
    <3>2. b \in Position BY <1>t
    <3>3. frames'[b] = frames[b] BY <3>1, <3>2, <1>b
    <3> QED BY <3>3, <2>1, <1>1, <1>a DEF IInv, FilesOrdered, Serving
  <2> QED BY <2>1, <1>1, <1>a DEF FilesOrdered, Files, End
<1>5. TornOnlyAtTail'
  <2>1. \A i \in 1 .. Len(frames'[active]) : frames'[active][i].whole
    BY <1>b, <1>w, <1>i, <1>f
  <2>2. \A b \in Position : \A i \in 1 .. Len(frames[b]) : frames[b][i].whole
    BY <1>1 DEF IInv, TornOnlyAtTail
  <2>3. \A b \in Position : \A i \in 1 .. Len(frames'[b]) : frames'[b][i].whole
    BY <2>1, <2>2, <1>b
  <2> QED BY <2>3 DEF TornOnlyAtTail
<1>6. DirtyOnlyActive' BY <1>1, <1>a, <1>b DEF IInv, DirtyOnlyActive
<1>7. ManifestSound(manifest)' /\ ManifestSound(durableManifest)'
  <2>1. \A b \in Files : b > manifest.active => frames'[b] = <<>>
    <3>1. \A b \in Files : b > active => b \in Position \ {active} /\ frames[b] = <<>>
      BY <1>a, <1>t DEF IInv, ManifestSound
    <3> QED BY <3>1, <1>a, <1>b
  <2>2. \A b \in Files : b < manifest.floor => \A i \in 1 .. Len(frames'[b]) : End(frames'[b][i]) <= manifest.floor
    <3>1. \A b \in Files : b \in Position /\ (b < manifest.floor => b # active) BY <1>a, <1>t
    <3> QED BY <3>1, <1>b DEF IInv, ManifestSound
  <2> QED BY <2>1, <2>2, <1>1, <1>a DEF IInv, ManifestSound, Files, End
<1>8. Located(manifest)' /\ Located(durableManifest)'
  <2>1. ASSUME NEW b \in linked, NEW i \in 1 .. synced[b] PROVE frames'[b][i] = frames[b][i]
    <3>1. b \in Position /\ synced[b] \in Nat /\ synced[b] <= Len(frames[b]) /\ Len(frames[b]) \in Nat
      BY DEF IInv, TypeOK, FilesChained
    <3>2. i \in 1 .. Len(frames[b]) BY <3>1
    <3> QED BY <3>1, <3>2, <1>b
  <2>2. \A b \in linked : b \in linked' /\ synced[b] <= synced'[b] /\ synced'[b] \in Nat
    BY <1>1 DEF IInv, TypeOK
  <2> QED BY <2>1, <2>2, <1>1, GrowLocated DEF IInv
<1>9. Settled' BY <1>1, <1>a DEF IInv, Settled, Serving
<1>10. MemorySound'
  <2>1. HeadOf(active)'
    <3>1. frames'[active] # <<>> BY <1>b, <1>t
    <3> QED BY <3>1, <1>b, <1>1, <1>f DEF HeadOf, End
  <2> QED BY <2>1, <1>1, <1>a, <1>t DEF IInv, MemorySound, Serving
<1> QED BY <1>2,<1>3,<1>4,<1>5,<1>6,<1>7,<1>8,<1>9,<1>10 DEF IInv

\* scan_records stops at the end of a file or at its one torn frame, which is
\* the last and not synced.
LEMMA ValidLengthCut ==
  ASSUME TypeOK, FilesChained, TornOnlyAtTail, NEW b \in Position
  PROVE  /\ ValidLength(b) \in 0 .. Len(frames[b])
         /\ synced[b] <= ValidLength(b)
         /\ \A i \in 1 .. ValidLength(b) : Follows(b, i)
         /\ ValidLength(b) < Len(frames[b]) =>
              ValidLength(b) + 1 = Len(frames[b]) /\ ~frames[b][Len(frames[b])].whole
<1> DEFINE len == Len(frames[b])
           Cut(n) == /\ \A i \in 1 .. n : Follows(b, i)
                     /\ n < Len(frames[b]) => ~Follows(b, n + 1)
<1>t. len \in Nat /\ synced[b] \in Nat /\ synced[b] <= len BY DEF TypeOK, FilesChained
<1>1. \E n \in 0 .. len : Cut(n)
  <2>1. CASE \A i \in 1 .. len : frames[b][i].whole
    <3>1. Cut(len) BY <2>1, <1>t DEF FilesChained
    <3> QED BY <3>1, <1>t
  <2>2. CASE \E i \in 1 .. len : ~frames[b][i].whole
    <3>1. PICK i \in 1 .. len : ~frames[b][i].whole BY <2>2
    <3>2. i = len BY <3>1 DEF TornOnlyAtTail
    <3>3. \A j \in 1 .. len - 1 : j \in 1 .. len /\ j # len BY <1>t
    <3>4. \A j \in 1 .. len - 1 : frames[b][j].whole BY <3>3 DEF TornOnlyAtTail
    <3>5. \A j \in 1 .. len - 1 : Follows(b, j) BY <3>3, <3>4 DEF FilesChained
    <3>6. len - 1 \in 0 .. len /\ (len - 1) + 1 = len BY <3>1, <1>t
    <3>7. ~Follows(b, (len - 1) + 1) BY <3>1, <3>2, <3>6 DEF Follows
    <3> QED BY <3>5, <3>6, <3>7
  <2> QED BY <2>1, <2>2
<1>2. ValidLength(b) \in 0 .. len /\ Cut(ValidLength(b))
  <2>1. ValidLength(b) = CHOOSE n \in 0 .. len : Cut(n) BY DEF ValidLength
  <2> HIDE DEF Cut
  <2> QED BY <1>1, <2>1
<1> DEFINE v == ValidLength(b)
<1>3. v \in Nat /\ v <= len BY <1>2, <1>t
<1>4. ASSUME v < len
      PROVE  v + 1 = len /\ ~frames[b][len].whole /\ synced[b] < len
  <2>1. v + 1 \in 1 .. len /\ ~Follows(b, v + 1) BY <1>4, <1>3, <1>2, <1>t
  <2>2. ~frames[b][v + 1].whole BY <2>1 DEF FilesChained
  <2>3. v + 1 = len /\ synced[b] < v + 1 BY <2>1, <2>2 DEF TornOnlyAtTail
  <2> QED BY <2>2, <2>3
<1>5. synced[b] <= v
  <2> HIDE DEF v
  <2>1. CASE v < len BY <2>1, <1>4, <1>3, <1>t
  <2>2. CASE v = len BY <2>2, <1>t
  <2> QED BY <2>1, <2>2, <1>3, <1>t
<1> QED BY <1>2, <1>4, <1>5

\* The scan of the active file cuts exactly the torn frame and what follows,
\* none of it synced.
LEMMA RecoverActiveInv == ASSUME IInv, RecoverActive PROVE IInv'
<1> DEFINE b == manifest.active
           v == ValidLength(b)
           len == Len(frames[b])
<1>b. /\ b \in Position /\ b \in segments /\ b \in Nat
  BY DEF IInv, TypeOK, Manifest, ManifestSound, Position
<1>v. /\ v \in 0 .. len /\ synced[b] <= v
      /\ \A i \in 1 .. v : Follows(b, i)
      /\ v < len => ~frames[b][len].whole
  BY <1>b, ValidLengthCut DEF IInv
<1>t. len \in Nat /\ v \in Nat /\ v <= len /\ frames[b] \in Seq(Frame) /\ synced[b] \in Nat
  BY <1>b, <1>v DEF IInv, TypeOK
<1>1. /\ phase = "scan" /\ phase' = "orphans"
      /\ next' = ScannedNext(b) /\ size' = v
      /\ IF v = len THEN UNCHANGED <<frames, synced>>
         ELSE /\ frames' = [frames EXCEPT ![b] = SubSeq(@, 1, v)]
              /\ synced' = [synced EXCEPT ![b] = v]
      /\ UNCHANGED <<segments, removed, linked, manifest, durableManifest, stale, lock, active, closed, floor, acked, lastId, crashes, reverted>>
  BY <1>b DEF RecoverActive, history
<1> HIDE DEF v
<1>2. /\ \A c \in Position \ {b} : frames'[c] = frames[c] /\ synced'[c] = synced[c]
      /\ frames'[b] \in Seq(Frame) /\ Len(frames'[b]) = v
      /\ \A i \in 1 .. v : frames'[b][i] = frames[b][i] /\ i \in 1 .. len
      /\ synced'[b] \in Nat /\ synced[b] <= synced'[b] /\ synced'[b] <= v
      /\ v < len => synced'[b] = v
      /\ v = len => frames'[b] = frames[b] /\ synced'[b] = synced[b]
  <2>1. CASE v = len
    <3>1. frames' = frames /\ synced' = synced BY <2>1, <1>1
    <3>2. \A i \in 1 .. v : i \in 1 .. len BY <1>t
    <3> QED BY <3>1, <3>2, <2>1, <1>t, <1>v
  <2>2. CASE v # len
    <3>1. frames'[b] = SubSeq(frames[b], 1, v) /\ synced'[b] = v
      BY <2>2, <1>1, <1>b DEF IInv, TypeOK
    <3>2. \A i \in 1 .. v : i \in 1 .. len BY <1>t
    <3>3. /\ SubSeq(frames[b], 1, v) \in Seq(Frame)
          /\ Len(SubSeq(frames[b], 1, v)) = v
          /\ \A i \in 1 .. v : SubSeq(frames[b], 1, v)[i] = frames[b][i]
      BY <3>2, <1>t
    <3> QED BY <3>1, <3>2, <3>3, <2>2, <1>1, <1>v, <1>t, SMTT(30) DEF IInv, TypeOK
  <2> QED BY <2>1, <2>2
<1>3. \A i \in 1 .. v : frames[b][i].whole BY <1>v DEF Follows
<1>4. \A c \in Position : \A i \in 1 .. Len(frames'[c]) : frames'[c][i].whole
  <2>1. ASSUME NEW c \in Position, c # b, NEW i \in 1 .. Len(frames[c]), ~frames[c][i].whole PROVE FALSE
    <3>1. i = Len(frames[c]) /\ synced[c] < i BY <2>1 DEF IInv, TornOnlyAtTail
    <3> QED BY <3>1, <2>1 DEF IInv, DirtyOnlyActive
  <2> QED BY <2>1, <1>2, <1>3
<1>f. \A c \in Position : \A i \in 1 .. Len(frames'[c]) :
         i \in 1 .. Len(frames[c]) /\ frames'[c][i] = frames[c][i]
  BY <1>2
<1>5. TypeOK'
  <2>1. frames' \in [Position -> Seq(Frame)] /\ synced' \in [Position -> Nat]
    <3>1. CASE v = len BY <3>1, <1>1 DEF IInv, TypeOK
    <3>2. CASE v # len
      <4>1. SubSeq(frames[b], 1, v) \in Seq(Frame) BY <1>t
      <4>2. frames' = [frames EXCEPT ![b] = SubSeq(frames[b], 1, v)]
            /\ synced' = [synced EXCEPT ![b] = v]
        BY <3>2, <1>1
      <4> QED BY <4>1, <4>2, <1>b, <1>t DEF IInv, TypeOK
    <3> QED BY <3>1, <3>2
  <2>2. next' \in Position
    <3>1. CASE v = 0 BY <3>1, <1>1, <1>b DEF ScannedNext, v
    <3>2. CASE v # 0
      <4>1. v \in 1 .. v /\ v \in 1 .. len BY <3>2, <1>t
      <4>2. next' = End(frames[b][v]) BY <3>2, <1>1 DEF ScannedNext, v
      <4>3. End(frames[b][v]) <= MaxPosition BY <4>1, <1>b DEF IInv, FilesChained
      <4>4. End(frames[b][v]) \in Nat
        <5>1. frames[b][v] \in Frame BY <4>1, <1>t
        <5>2. \A fr \in Frame : End(fr) \in Nat BY DEF Frame, Position, End
        <5> QED BY <5>1, <5>2
      <4> QED BY <4>2, <4>3, <4>4, BoundsAssumption DEF Position
    <3> QED BY <3>1, <3>2
  <2> QED BY <2>1, <2>2, <1>1, <1>t DEF IInv, TypeOK, Phases
<1>6. FilesChained'
  <2>1. \A c \in Position : /\ c \notin Files => frames[c] = <<>>
                            /\ synced[c] <= Len(frames[c])
                            /\ \A i \in 1 .. Len(frames[c]) : ChainedAt(frames[c], c, i)
    BY ChainedForm DEF IInv
  <2>2. \A c \in Position : c \notin Files => frames'[c] = <<>> BY <2>1, <1>b, <1>2 DEF Files
  <2>3. \A c \in Position : synced'[c] <= Len(frames'[c]) BY <2>1, <1>2
  <2>4. ASSUME NEW i \in 1 .. v PROVE ChainedAt(frames'[b], b, i)
    <3>1. i \in Nat \ {0} /\ \A j \in 1 .. i : j \in 1 .. v BY <1>t
    <3> QED BY <3>1, <2>1, <1>b, <1>2, ChainedPrefix, SMTT(30)
  <2>5. \A c \in Position : \A i \in 1 .. Len(frames'[c]) : ChainedAt(frames'[c], c, i)
    BY <2>1, <2>4, <1>2
  <2>6. Files' = Files BY <1>1 DEF Files
  <2> QED BY <2>2, <2>3, <2>5, <2>6, <1>1, ChainedForm
<1>7. FilesOrdered'
  <2>1. \A c \in Files : c \in Position BY DEF IInv, TypeOK, Files
  <2> QED BY <2>1, <1>f, <1>1 DEF IInv, FilesOrdered, Files, Serving, End
<1>8. TornOnlyAtTail' BY <1>4 DEF TornOnlyAtTail
<1>9. DirtyOnlyActive'
  <2>1. \A c \in Position : synced'[c] < Len(frames'[c]) => synced[c] < Len(frames[c])
    <3>1. CASE v = len BY <3>1, <1>2
    <3>2. CASE v # len BY <3>2, <1>2, <1>t
    <3> QED BY <3>1, <3>2
  <2> QED BY <2>1, <1>1 DEF IInv, DirtyOnlyActive
<1>10. ManifestSound(manifest)' /\ ManifestSound(durableManifest)'
  <2>1. \A c \in Files : c \in Position BY DEF IInv, TypeOK, Files
  <2>2. \A c \in Files : frames[c] = <<>> => frames'[c] = <<>>
    <3>1. frames[b] = <<>> => v = len BY <1>t
    <3> QED BY <3>1, <2>1, <1>2
  <2> QED BY <2>1, <2>2, <1>f, <1>1 DEF IInv, ManifestSound, Files, End
<1>11. Located(manifest)' /\ Located(durableManifest)'
  <2>1. \A c \in linked : c \in Position BY DEF IInv, TypeOK
  <2>2. \A i \in 1 .. synced[b] : i \in 1 .. v BY <1>v, <1>t
  <2>3. ASSUME NEW c \in linked
        PROVE  /\ c \in linked' /\ synced[c] <= synced'[c] /\ synced'[c] \in Nat
               /\ \A i \in 1 .. synced[c] : frames'[c][i] = frames[c][i]
    <3>1. CASE c = b
      <4>1. synced[c] <= synced'[c] /\ synced'[c] \in Nat BY <3>1, <1>2
      <4>2. \A i \in 1 .. synced[c] : frames'[c][i] = frames[c][i] BY <3>1, <2>2, <1>2
      <4> QED BY <4>1, <4>2, <1>1
    <3>2. CASE c # b
      <4>1. c \in Position \ {b} BY <3>2, <2>1
      <4>2. synced[c] \in Nat BY <4>1 DEF IInv, TypeOK
      <4>3. frames'[c] = frames[c] /\ synced'[c] = synced[c] BY <4>1, <1>2
      <4> QED BY <4>2, <4>3, <1>1
    <3> QED BY <3>1, <3>2
  <2> QED BY <2>3, <1>1, GrowLocated DEF IInv
<1>12. Settled' BY <1>1 DEF IInv, Settled, Serving
<1>13. MemorySound'
  <2>1. HeadOf(manifest.active)'
    <3>1. CASE v = 0
      <4>1. frames'[b] = <<>> BY <3>1, <1>2
      <4> QED BY <4>1, <3>1, <1>1 DEF HeadOf, ScannedNext, v
    <3>2. CASE v # 0
      <4>1. frames'[b] # <<>> /\ v \in 1 .. v BY <3>2, <1>2, <1>t
      <4>2. frames'[b][v] = frames[b][v] BY <4>1, <1>2
      <4>3. next' = End(frames[b][v]) BY <3>2, <1>1 DEF ScannedNext, v
      <4> QED BY <4>1, <4>2, <4>3, <1>1, <1>2 DEF HeadOf, End
    <3> QED BY <3>1, <3>2
  <2> QED BY <2>1, <1>1 DEF IInv, MemorySound, Serving
<1> QED BY <1>5,<1>6,<1>7,<1>8,<1>9,<1>10,<1>11,<1>12,<1>13 DEF IInv

\* Removing files below the floor: what they held is below the floor of both
\* manifests.
LEMMA ReclaimInv == ASSUME IInv, Reclaim PROVE IInv'
<1> PICK gone \in SUBSET {b \in closed : b < floor} :
      /\ segments' = segments \ gone
      /\ removed' = removed \cup gone
      /\ linked' = linked \ gone
      /\ closed' = closed \ gone
  BY DEF Reclaim
<1>1. /\ phase = "reclaim" /\ phase' = "idle"
      /\ UNCHANGED <<frames, synced, manifest, durableManifest, stale, lock, active, next, size, floor, acked, lastId, crashes, reverted>>
  BY DEF Reclaim, history
<1>a. /\ lock /\ linked = segments /\ manifest = durableManifest
      /\ active = manifest.active /\ active \in segments
      /\ closed = {b \in segments : b < active} /\ HeadOf(active) /\ floor <= active
      /\ manifest.floor = floor
      /\ \A b \in segments : b <= active
      /\ removed \cap segments = {}
  BY <1>1 DEF IInv, MemorySound, Settled, Serving
<1>t. segments \subseteq Position /\ segments \subseteq Nat /\ active \in Nat /\ floor \in Nat /\ Position \subseteq Nat
  BY DEF IInv, TypeOK, Position
<1>g. gone \subseteq segments /\ active \notin gone /\ \A b \in gone : b < floor
  BY <1>a, <1>t
<1>f. Files' = Files BY <1>g DEF Files
<1>3. TypeOK' BY <1>1, <1>g, <1>t DEF IInv, TypeOK, Phases
<1>4. FilesChained' BY <1>1, <1>f DEF IInv, FilesChained, Follows, End
<1>5. FilesOrdered' BY <1>1, <1>f DEF IInv, FilesOrdered, Serving, End
<1>6. TornOnlyAtTail' BY <1>1, KeepTail DEF IInv
<1>7. DirtyOnlyActive' BY <1>1, KeepDirty DEF IInv
<1>8. ManifestSound(manifest)' /\ ManifestSound(durableManifest)'
  <2>1. active \in linked' BY <1>a, <1>g
  <2> QED BY <2>1, <1>1, <1>a, <1>f DEF IInv, ManifestSound, End
<1>9. Located(manifest)' /\ Located(durableManifest)'
  <2>1. ASSUME NEW fr \in acked, Above(fr, floor)
        PROVE  \E b \in linked' : b <= active /\ \E i \in 1 .. synced[b] : frames[b][i] = fr
    <3>1. PICK b \in linked : b <= active /\ \E i \in 1 .. synced[b] : frames[b][i] = fr
      BY <2>1, <1>a DEF IInv, Located
    <3>2. PICK i \in 1 .. synced[b] : frames[b][i] = fr BY <3>1
    <3>3. b \in Position /\ b \in segments /\ i \in 1 .. Len(frames[b])
      BY <1>a, <1>t, <3>2 DEF IInv, TypeOK, FilesChained
    <3>4. b \notin gone
      <4>1. SUFFICES ASSUME b \in gone PROVE FALSE OBVIOUS
      <4>2. b < floor /\ b \in Files BY <4>1, <1>g DEF Files
      <4>3. End(fr) <= floor BY <4>2, <3>2, <3>3, <1>a DEF IInv, ManifestSound
      <4>4. End(fr) \in Nat BY DEF IInv, TypeOK, Frame, Position, End
      <4>5. floor # 0 BY <4>2, <1>t, <3>3
      <4> QED BY <4>3, <4>4, <4>5, <2>1, <1>t DEF Above
    <3> QED BY <3>1, <3>4
  <2> QED BY <2>1, <1>1, <1>a DEF Located, Above, End
<1>10. Settled' BY <1>1, <1>a DEF IInv, Settled, Serving
<1>11. MemorySound'
  <2>1. active \in segments' BY <1>a, <1>g
  <2>2. closed' = {b \in segments' : b < active} BY <1>a, <1>g
  <2>3. HeadOf(active)' BY <1>1, <1>a DEF HeadOf, End
  <2> QED BY <2>1, <2>2, <2>3, <1>1, <1>a, <1>t DEF MemorySound, Serving
<1> QED BY <1>3,<1>4,<1>5,<1>6,<1>7,<1>8,<1>9,<1>10,<1>11 DEF IInv

\* The memory of a process that is gone satisfies its types.
LEMMA ForgetTyped ==
  ASSUME Forget
  PROVE  active' \in Position /\ closed' \subseteq Position /\ next' \in Position /\ size' \in Nat /\ floor' \in Position
  BY BoundsAssumption DEF Forget, Position

\* A torn frame takes no position.
LEMMA TornTyped == Torn \in Frame /\ ~Torn.whole /\ End(Torn) = 0
  BY BoundsAssumption DEF Torn, Frame, End, Position

\* A kill, which leaves at most one torn frame at the end of the active file.
LEMMA KillInv == ASSUME IInv, Kill PROVE IInv'
<1>1. /\ phase # "down" /\ phase' = "down" /\ crashes < MaxCrashes /\ crashes' = crashes + 1 /\ Forget
      /\ UNCHANGED <<segments, removed, linked, synced, manifest, durableManifest, stale, lock, acked, lastId, reverted>>
  BY DEF Kill
<1>2. lock /\ lock' /\ crashes' \in 0 .. MaxCrashes
  BY <1>1, BoundsAssumption DEF IInv, MemorySound, TypeOK
<1>3. Settled' BY <1>1 DEF IInv, Settled, Serving
<1>4. MemorySound' BY <1>1 DEF MemorySound, Serving
<1>5. CASE UNCHANGED frames
  <2>1. TypeOK' BY <1>1, <1>2, <1>5, ForgetTyped DEF IInv, TypeOK, Phases
  <2>2. FilesChained' /\ FilesOrdered' BY <1>1, <1>5, KeepFiles DEF IInv, Serving
  <2>3. TornOnlyAtTail' BY <1>1, <1>5, KeepTail DEF IInv
  <2>4. DirtyOnlyActive' BY <1>1, <1>5, KeepDirty DEF IInv
  <2>5. ManifestSound(manifest)' /\ ManifestSound(durableManifest)' BY <1>1, <1>5, KeepManifest DEF IInv
  <2>6. Located(manifest)' /\ Located(durableManifest)' BY <1>1, <1>5, KeepLocated DEF IInv
  <2> QED BY <2>1,<2>2,<2>3,<2>4,<2>5,<2>6,<1>3,<1>4 DEF IInv
<1>6. CASE MayWrite /\ frames' = [frames EXCEPT ![active] = Append(@, Torn)]
  <2> DEFINE len == Len(frames[active])
  <2>a. /\ phase \in {"idle", "rolled"}
        /\ active = manifest.active /\ active = durableManifest.active
        /\ active \in segments /\ active \in Position
        /\ \A b \in segments : b <= active
    BY <1>6 DEF MayWrite, IInv, TypeOK, MemorySound, Serving
  <2>t. /\ Files \subseteq Nat /\ Files \subseteq Position /\ segments \subseteq Files /\ active \in Nat /\ len \in Nat /\ MaxPosition \in Nat
        /\ frames[active] \in Seq(Frame)
    BY <2>a, BoundsAssumption DEF IInv, TypeOK, Position, Files
  <2>b. /\ \A b \in Position \ {active} : frames'[b] = frames[b]
        /\ frames'[active] \in Seq(Frame) /\ Len(frames'[active]) = len + 1
        /\ \A i \in 1 .. len : frames'[active][i] = frames[active][i]
        /\ frames'[active][len + 1] = Torn
    BY <1>6, <2>a, <2>t, TornTyped DEF IInv, TypeOK
  <2>c. \A b \in Position : \A i \in 1 .. Len(frames'[b]) :
           \/ i \in 1 .. Len(frames[b]) /\ frames'[b][i] = frames[b][i]
           \/ frames'[b][i] = Torn /\ b = active /\ i = len + 1
    <3>1. \A i \in 1 .. len + 1 : i # len + 1 => i \in 1 .. len BY <2>t
    <3> QED BY <3>1, <2>b
  <2>1. TypeOK'
    <3>1. frames' \in [Position -> Seq(Frame)] BY <1>6, <2>b DEF IInv, TypeOK
    <3> QED BY <3>1, <1>1, <1>2, ForgetTyped DEF IInv, TypeOK, Phases
  <2>2. FilesChained'
    <3>1. \A c \in Position : /\ c \notin Files => frames[c] = <<>>
                              /\ synced[c] <= Len(frames[c])
                              /\ \A i \in 1 .. Len(frames[c]) : ChainedAt(frames[c], c, i)
      BY ChainedForm DEF IInv
    <3>2. ASSUME NEW i \in 1 .. len + 1
          PROVE  ChainedAt(frames'[active], active, i)
      <4>1. CASE i = len + 1 BY <4>1, <2>b, <2>t, TornTyped DEF ChainedAt
      <4>2. CASE i # len + 1
        <5>1. i \in 1 .. len /\ i \in Nat \ {0} /\ \A j \in 1 .. i : j \in 1 .. len BY <4>2, <2>t
        <5> QED BY <5>1, <2>a, <2>b, <3>1, ChainedPrefix
      <4> QED BY <4>1, <4>2
    <3>3. \A c \in Position : c \notin Files => frames'[c] = <<>> BY <3>1, <2>b, <2>a, <2>t
    <3>4. \A c \in Position : synced[c] <= Len(frames'[c])
      <4>1. synced[active] \in Nat BY <2>a DEF IInv, TypeOK
      <4>2. synced[active] <= len + 1 BY <3>1, <2>a, <2>t, <4>1
      <4> QED BY <4>2, <3>1, <2>b
    <3>5. \A c \in Position : \A i \in 1 .. Len(frames'[c]) : ChainedAt(frames'[c], c, i)
      BY <3>1, <3>2, <2>b
    <3>6. Files' = Files BY <1>1 DEF Files
    <3> QED BY <3>3, <3>4, <3>5, <3>6, <1>1, ChainedForm
  <2>3. FilesOrdered'
    <3>1. ASSUME NEW b \in Files, NEW c \in Files, b < c, c <= active, NEW i \in 1 .. Len(frames'[b])
          PROVE  End(frames'[b][i]) <= c
      <4>1. b # active BY <3>1, <2>a, <2>t
      <4>2. frames'[b] = frames[b] BY <4>1, <2>t, <2>b
      <4> QED BY <4>2, <3>1, <2>a DEF IInv, FilesOrdered
    <3> QED BY <3>1, <1>1, <2>a DEF FilesOrdered, Files, Serving, End
  <2>4. TornOnlyAtTail'
    <3>1. \A b \in Position : \A i \in 1 .. Len(frames[b]) : frames[b][i].whole
      BY <2>a DEF IInv, TornOnlyAtTail
    <3>2. synced[active] < len + 1
      BY <2>a, <2>t DEF IInv, TypeOK, FilesChained
    <3>3. \A b \in Position : \A i \in 1 .. Len(frames'[b]) : ~frames'[b][i].whole => b = active /\ i = len + 1
      BY <3>1, <2>c
    <3> QED BY <3>2, <3>3, <2>b, <1>1, TornTyped DEF TornOnlyAtTail, End
  <2>5. DirtyOnlyActive' BY <1>1, <2>a, <2>b DEF IInv, DirtyOnlyActive
  <2>6. ManifestSound(manifest)' /\ ManifestSound(durableManifest)'
    <3>1. ASSUME NEW m \in {manifest, durableManifest}
          PROVE  /\ \A b \in Files : b > m.active => frames'[b] = <<>>
                 /\ \A b \in Files : b < m.floor => \A i \in 1 .. Len(frames'[b]) : End(frames'[b][i]) <= m.floor
      <4>1. m.active = active /\ m.floor \in Nat /\ m.floor <= active
        <5>1. manifest.floor \in Nat /\ durableManifest.floor \in Nat BY DEF IInv, TypeOK, Manifest, Position
        <5>2. manifest.floor <= active /\ durableManifest.floor <= active BY <2>a DEF IInv, ManifestSound
        <5> QED BY <5>1, <5>2, <2>a
      <4>2. \A b \in Files : b < m.floor => b # active BY <4>1, <2>t
      <4>3. \A b \in Files : b > m.active => b # active /\ frames[b] = <<>>
        BY <4>1, <2>a, <2>t DEF IInv, ManifestSound
      <4>4. \A b \in Files : b < m.floor => \A i \in 1 .. Len(frames[b]) : End(frames[b][i]) <= m.floor
        BY DEF IInv, ManifestSound
      <4> QED BY <4>2, <4>3, <4>4, <2>b, <2>t
    <3> QED BY <3>1, <1>1 DEF IInv, ManifestSound, Files, End
  <2>7. Located(manifest)' /\ Located(durableManifest)'
    <3>1. ASSUME NEW b \in linked, NEW i \in 1 .. synced[b] PROVE frames'[b][i] = frames[b][i]
      <4>1. b \in Position /\ i \in 1 .. Len(frames[b])
        BY DEF IInv, TypeOK, FilesChained
      <4> QED BY <4>1, <2>b
    <3>2. \A b \in linked : b \in linked' /\ synced[b] <= synced'[b] /\ synced'[b] \in Nat
      BY <1>1 DEF IInv, TypeOK
    <3> QED BY <3>1, <3>2, <1>1, GrowLocated DEF IInv
  <2> QED BY <2>1,<2>2,<2>3,<2>4,<2>5,<2>6,<2>7,<1>3,<1>4 DEF IInv
<1> QED BY <1>5, <1>6 DEF Kill

\* Both manifests come back as m: what ManifestSound and Located say of m.
LEMMA SoundAs ==
  ASSUME NEW m, manifest' = m, durableManifest' = m
  PROVE  /\ (/\ m.active \in linked' /\ m.floor <= m.active
             /\ \A b \in Files' : b > m.active => frames'[b] = <<>>
             /\ \A b \in Files' : b < m.floor => \A i \in 1 .. Len(frames'[b]) : End(frames'[b][i]) <= m.floor)
            => ManifestSound(manifest)' /\ ManifestSound(durableManifest)'
         /\ (acked' = acked /\ \A fr \in acked : Above(fr, m.floor) =>
               \E b \in linked' : b <= m.active /\ \E i \in 1 .. synced'[b] : frames'[b][i] = fr)
            => Located(manifest)' /\ Located(durableManifest)'
  BY DEF ManifestSound, Located, Above, End

\* A power loss: synced prefixes and safe entries survive it, and the manifest
\* comes back as one of the two.
LEMMA PowerLossInv == ASSUME IInv, PowerLoss, ~reverted' PROVE IInv'
<1> PICK kept \in [Dirty -> 0 .. MaxFrames + 1], torn \in SUBSET Dirty,
         lost \in SUBSET (segments \ linked), back \in SUBSET removed :
      /\ \A b \in Dirty : /\ synced[b] <= kept[b]
                          /\ kept[b] <= Len(frames[b])
                          /\ kept[b] > 0 => frames[b][kept[b]].whole
                          /\ b \in torn => kept[b] < Len(frames[b])
      /\ segments' = (segments \ lost) \cup back
      /\ linked' = (segments \ lost) \cup back
      /\ frames' = [b \in Position |->
                      IF b \in lost \cup (removed \ back) THEN <<>>
                      ELSE IF b \notin Dirty THEN frames[b]
                      ELSE SubSeq(frames[b], 1, kept[b])
                             \o (IF b \in torn THEN <<Torn>> ELSE <<>>)]
      /\ synced' = [b \in Position |->
                      IF b \in lost \cup (removed \ back) THEN 0
                      ELSE IF b \notin Dirty THEN synced[b]
                      ELSE kept[b]]
  BY DEF PowerLoss
<1> PICK m \in {manifest, durableManifest} : manifest' = m /\ durableManifest' = m
  BY DEF PowerLoss
<1>1. /\ phase' = "down" /\ crashes < MaxCrashes /\ crashes' = crashes + 1 /\ Forget
      /\ removed' = {} /\ stale' = {} /\ UNCHANGED <<lock, acked, lastId>>
      /\ reverted' \in BOOLEAN
  BY DEF PowerLoss, IInv, TypeOK
<1> DEFINE gone == lost \cup (removed \ back)
<1> DEFINE k(c) == IF c \in gone THEN 0
                   ELSE IF c \notin Dirty THEN Len(frames[c]) ELSE kept[c]
<1>t. /\ \A c \in Position : /\ frames[c] \in Seq(Frame) /\ Len(frames[c]) \in Nat
                             /\ synced[c] \in Nat /\ synced[c] <= Len(frames[c])
                             /\ c \notin Files => frames[c] = <<>>
      /\ Files \subseteq Position /\ linked \subseteq Files /\ Dirty \subseteq Files
      /\ gone \cap linked = {} /\ gone \subseteq Files /\ MaxFrames \in Nat
      /\ segments' = Files \ gone /\ linked' = segments' /\ Files' = segments'
  <2>1. removed \cap segments = {} BY DEF IInv, Settled
  <2>2. Files' = segments' BY <1>1 DEF Files
  <2>3. segments' = Files \ gone BY <2>1 DEF Files
  <2>4. gone \cap linked = {} BY <2>1 DEF IInv, TypeOK
  <2> QED BY <2>2, <2>3, <2>4, BoundsAssumption DEF IInv, TypeOK, FilesChained, Dirty, Files
<1>2. ASSUME NEW c \in Position
      PROVE  /\ k(c) \in 0 .. Len(frames[c])
             /\ \A i \in 1 .. k(c) : frames[c][i].whole
  <2>1. CASE c \in gone BY <2>1, <1>t
  <2>2. CASE c \notin gone /\ c \notin Dirty
    <3>1. k(c) = Len(frames[c]) BY <2>2
    <3>2. ASSUME NEW i \in 1 .. Len(frames[c]), ~frames[c][i].whole PROVE FALSE
      <4>1. synced[c] < Len(frames[c])
        <5>1. i = Len(frames[c]) /\ synced[c] < i BY <3>2 DEF IInv, TornOnlyAtTail
        <5> QED BY <5>1
      <4>2. c \in Files
        <5>1. frames[c] # <<>> BY <3>2, <1>t
        <5> QED BY <5>1, <1>t
      <4> QED BY <4>1, <4>2, <2>2 DEF Dirty, Files
    <3> QED BY <3>1, <3>2, <1>t
  <2>3. CASE c \notin gone /\ c \in Dirty
    <3>1. k(c) = kept[c] /\ kept[c] \in Nat /\ kept[c] <= Len(frames[c])
      BY <2>3, <1>t
    <3>2. ASSUME NEW i \in 1 .. kept[c] PROVE frames[c][i].whole
      <4>1. CASE i = kept[c] BY <4>1, <3>1, <2>3
      <4>2. CASE i # kept[c]
        <5>1. i \in 1 .. Len(frames[c]) /\ i # Len(frames[c]) BY <4>2, <3>1, <1>t
        <5> QED BY <5>1 DEF IInv, TornOnlyAtTail
      <4> QED BY <4>1, <4>2
    <3> QED BY <3>1, <3>2, <1>t
  <2> QED BY <2>1, <2>2, <2>3
<1>3. ASSUME NEW c \in Position
      PROVE  /\ frames'[c] \in Seq(Frame)
             /\ \A i \in 1 .. k(c) : frames'[c][i] = frames[c][i]
             /\ \/ Len(frames'[c]) = k(c)
                \/ /\ Len(frames'[c]) = k(c) + 1 /\ frames'[c][k(c) + 1] = Torn
                   /\ c \in Dirty /\ c \notin gone
  <2>1. CASE c \in gone
    <3>1. k(c) = 0 /\ frames'[c] = <<>> BY <2>1
    <3> HIDE DEF k
    <3>2. <<>> \in Seq(Frame) /\ Len(<<>>) = 0 OBVIOUS
    <3>3. \A i \in 1 .. k(c) : FALSE BY <3>1
    <3> QED BY <3>1, <3>2, <3>3
  <2>2. CASE c \notin gone /\ c \notin Dirty
    <3>1. k(c) = Len(frames[c]) /\ frames'[c] = frames[c] BY <2>2
    <3> QED BY <3>1, <1>t
  <2>3. CASE c \notin gone /\ c \in Dirty
    <3> DEFINE s == SubSeq(frames[c], 1, kept[c])
    <3>1. k(c) = kept[c] /\ kept[c] \in Nat /\ kept[c] <= Len(frames[c])
      BY <2>3, <1>t
    <3>2. frames'[c] = s \o (IF c \in torn THEN <<Torn>> ELSE <<>>)
      BY <2>3
    <3>3. s \in Seq(Frame) /\ Len(s) = kept[c] /\ \A i \in 1 .. kept[c] : s[i] = frames[c][i]
      <4>1. \A i \in 1 .. kept[c] : i \in 1 .. Len(frames[c]) BY <3>1, <1>t
      <4> QED BY <4>1, <3>1, <1>t
    <3> HIDE DEF s
    <3>4. CASE c \in torn
      <4>1. frames'[c] = s \o <<Torn>> BY <3>4, <3>2
      <4>2. /\ s \o <<Torn>> \in Seq(Frame) /\ Len(s \o <<Torn>>) = kept[c] + 1
            /\ \A i \in 1 .. kept[c] : (s \o <<Torn>>)[i] = s[i]
            /\ (s \o <<Torn>>)[kept[c] + 1] = Torn
        BY <3>1, <3>3, TornTyped
      <4> QED BY <4>1, <4>2, <3>1, <3>3, <2>3
    <3>5. CASE c \notin torn
      <4>1. frames'[c] = s \o <<>> BY <3>5, <3>2
      <4>2. s \o <<>> = s BY <3>3
      <4> QED BY <4>1, <4>2, <3>1, <3>3
    <3> QED BY <3>4, <3>5
  <2> QED BY <2>1, <2>2, <2>3
<1>4. ASSUME NEW c \in Position
      PROVE  /\ synced'[c] \in Nat /\ synced'[c] <= k(c)
             /\ c \notin gone => synced[c] <= synced'[c]
             /\ c \notin Dirty \/ c \in gone => synced'[c] = k(c) \/ c \notin Files
             /\ c \in Dirty => synced'[c] = k(c)
  <2>1. CASE c \in gone
    <3>1. k(c) = 0 /\ synced'[c] = 0 BY <2>1
    <3> QED BY <3>1, <2>1
  <2>2. CASE c \notin gone /\ c \notin Dirty
    <3>1. k(c) = Len(frames[c]) /\ synced'[c] = synced[c] BY <2>2
    <3>2. c \in Files => synced[c] = Len(frames[c]) BY <2>2, <1>t DEF Dirty
    <3> QED BY <3>1, <3>2, <2>2, <1>t
  <2>3. CASE c \notin gone /\ c \in Dirty
    <3>1. k(c) = kept[c] /\ synced'[c] = kept[c] /\ kept[c] \in Nat /\ synced[c] <= kept[c] BY <2>3
    <3> QED BY <3>1, <2>3
  <2> QED BY <2>1, <2>2, <2>3
<1>5. \A c \in Position : k(c) \in Nat /\ k(c) <= Len(frames[c]) BY <1>2, <1>t
<1>d. Dirty \subseteq Position BY <1>t
<1> HIDE DEF k, gone
<1>6. \A c \in Position : \A i \in 1 .. Len(frames'[c]) :
         \/ i \in 1 .. k(c) /\ i \in 1 .. Len(frames[c]) /\ frames'[c][i] = frames[c][i] /\ frames'[c][i].whole
         \/ i = k(c) + 1 /\ i = Len(frames'[c]) /\ frames'[c][i] = Torn /\ c \in Dirty
  <2>1. ASSUME NEW c \in Position, NEW i \in 1 .. Len(frames'[c])
        PROVE  \/ i \in 1 .. k(c) /\ i \in 1 .. Len(frames[c])
               \/ i = k(c) + 1 /\ Len(frames'[c]) = k(c) + 1
    <3>1. Len(frames'[c]) = k(c) \/ Len(frames'[c]) = k(c) + 1 BY <1>3
    <3> QED BY <3>1, <1>5, <1>t
  <2>2. ASSUME NEW c \in Position, Len(frames'[c]) = k(c) + 1
        PROVE  frames'[c][k(c) + 1] = Torn /\ c \in Dirty
    <3>1. \/ Len(frames'[c]) = k(c)
          \/ /\ Len(frames'[c]) = k(c) + 1 /\ frames'[c][k(c) + 1] = Torn
             /\ c \in Dirty /\ c \notin gone
      BY <1>3
    <3>2. k(c) + 1 # k(c) BY <1>5
    <3> QED BY <3>1, <3>2, <2>2
  <2>3. ASSUME NEW c \in Position, NEW i \in 1 .. k(c)
        PROVE  frames'[c][i] = frames[c][i] /\ frames'[c][i].whole
    <3>1. frames'[c][i] = frames[c][i] BY <1>3
    <3>2. frames[c][i].whole BY <1>2
    <3> QED BY <3>1, <3>2
  <2>4. ASSUME NEW c \in Position, NEW i \in 1 .. Len(frames'[c])
        PROVE  \/ i \in 1 .. k(c) /\ i \in 1 .. Len(frames[c]) /\ frames'[c][i] = frames[c][i] /\ frames'[c][i].whole
               \/ i = k(c) + 1 /\ i = Len(frames'[c]) /\ frames'[c][i] = Torn /\ c \in Dirty
    <3>1. CASE i \in 1 .. k(c) /\ i \in 1 .. Len(frames[c]) BY <3>1, <2>3
    <3>2. CASE i = k(c) + 1 /\ Len(frames'[c]) = k(c) + 1 BY <3>2, <2>2
    <3> QED BY <3>1, <3>2, <2>1
  <2> QED BY <2>4
<1>7. TypeOK'
  <2>1. frames' \in [Position -> Seq(Frame)] /\ synced' \in [Position -> Nat]
    BY <1>3, <1>4
  <2>2. crashes' \in 0 .. MaxCrashes BY <1>1, BoundsAssumption DEF IInv, TypeOK
  <2>3. m \in Manifest BY DEF IInv, TypeOK
  <2>4. segments' \subseteq Position /\ linked' \subseteq segments' BY <1>t
  <2>5. phase' \in Phases BY <1>1 DEF Phases
  <2> QED BY <2>1, <2>2, <2>3, <2>4, <2>5, <1>1, ForgetTyped DEF IInv, TypeOK
<1>8. FilesChained'
  <2>1. \A c \in Position : /\ c \notin Files => frames[c] = <<>>
                            /\ synced[c] <= Len(frames[c])
                            /\ \A i \in 1 .. Len(frames[c]) : ChainedAt(frames[c], c, i)
    BY ChainedForm DEF IInv
  <2>2. \A c \in Position : c \notin Files' => frames'[c] = <<>>
    <3>1. ASSUME NEW c \in Position, c \notin Files' PROVE frames'[c] = <<>>
      <4>1. CASE c \in gone BY <4>1 DEF gone
      <4>2. CASE c \notin gone
        <5>1. c \notin Files /\ c \notin Dirty BY <4>2, <3>1, <1>t
        <5> QED BY <5>1, <4>2, <2>1
      <4> QED BY <4>1, <4>2
    <3> QED BY <3>1
  <2>3. \A c \in Position : synced'[c] <= Len(frames'[c])
    <3>1. ASSUME NEW c \in Position PROVE synced'[c] <= Len(frames'[c])
      <4>1. Len(frames'[c]) = k(c) \/ Len(frames'[c]) = k(c) + 1 BY <1>3
      <4> QED BY <4>1, <1>4, <1>5
    <3> QED BY <3>1
  <2>4. ASSUME NEW c \in Position, NEW i \in 1 .. Len(frames'[c])
        PROVE  ChainedAt(frames'[c], c, i)
    <3>1. CASE i \in 1 .. k(c) /\ i \in 1 .. Len(frames[c])
      <4>1. i \in Nat \ {0} /\ \A j \in 1 .. i : j \in 1 .. k(c) BY <3>1, <1>5
      <4>2. ChainedAt(frames[c], c, i) BY <3>1, <2>1
      <4>3. \A j \in 1 .. i : frames'[c][j] = frames[c][j] BY <4>1, <1>3
      <4> QED BY <4>1, <4>2, <4>3, ChainedPrefix
    <3>2. CASE frames'[c][i] = Torn
      <4>1. 0 <= MaxPosition BY BoundsAssumption
      <4> QED BY <4>1, <3>2, TornTyped DEF ChainedAt
    <3> QED BY <3>1, <3>2, <1>6
  <2> QED BY <2>2, <2>3, <2>4, ChainedForm
<1>n. m.active \in Nat /\ m.floor \in Nat
  <2>1. m \in Manifest BY DEF IInv, TypeOK
  <2> QED BY <2>1 DEF Manifest, Position
<1>9. FilesOrdered'
  <2>1. ASSUME NEW b \in Files', NEW c \in Files', b < c, c <= m.active, NEW i \in 1 .. Len(frames'[b])
        PROVE  End(frames'[b][i]) <= c
    <3>1. b \in Files /\ c \in Files /\ b \in Position /\ c \in Position BY <1>t
    <3>2. CASE i \in 1 .. Len(frames[b]) /\ frames'[b][i] = frames[b][i]
      <4>1. m.active <= manifest.active
        <5>1. durableManifest.active <= manifest.active BY DEF IInv, Settled
        <5>2. CASE m = manifest BY <5>2, <1>n
        <5>3. CASE m = durableManifest BY <5>1, <5>3
        <5> QED BY <5>2, <5>3
      <4>2. c <= manifest.active
        <5>1. manifest.active \in Nat /\ c \in Nat BY <3>1 DEF IInv, TypeOK, Manifest, Position
        <5> QED BY <4>1, <5>1, <2>1, <1>n
      <4> QED BY <4>2, <3>2, <3>1, <2>1 DEF IInv, FilesOrdered
    <3>3. CASE frames'[b][i] = Torn BY <3>3, <3>1, TornTyped DEF Position
    <3> QED BY <3>1, <3>2, <3>3, <1>6
  <2> QED BY <2>1, <1>1 DEF FilesOrdered, Serving, End
<1>10. TornOnlyAtTail'
  <2>1. ASSUME NEW c \in Position, NEW i \in 1 .. Len(frames'[c]), ~frames'[c][i].whole
        PROVE  i = Len(frames'[c]) /\ synced'[c] < i /\ End(frames'[c][i]) = 0
    <3>1. i = k(c) + 1 /\ i = Len(frames'[c]) /\ frames'[c][i] = Torn BY <2>1, <1>6
    <3>2. synced'[c] < k(c) + 1 BY <1>4, <1>5
    <3> QED BY <3>1, <3>2, TornTyped
  <2> QED BY <2>1, <1>1 DEF TornOnlyAtTail, End
<1>11. DirtyOnlyActive'
  <2>1. ASSUME NEW c \in Position, synced'[c] < Len(frames'[c]) PROVE c = m.active
    <3>1. CASE c \in Dirty
      <4>1. synced[c] < Len(frames[c]) BY <3>1 DEF Dirty
      <4> QED BY <4>1 DEF IInv, DirtyOnlyActive
    <3>2. CASE c \notin Dirty
      <4>1. Len(frames'[c]) = k(c) BY <3>2, <1>3
      <4>2. c \notin Files BY <4>1, <3>2, <2>1, <1>4, <1>5
      <4>3. k(c) = 0
        <5>1. Len(frames[c]) = 0 BY <4>2, <1>t
        <5> QED BY <5>1, <1>5
      <4> QED BY <4>1, <4>3, <2>1, <1>4
    <3> QED BY <3>1, <3>2
  <2> QED BY <2>1, <1>1 DEF DirtyOnlyActive
<1>m. ManifestSound(m) /\ Located(m) BY DEF IInv
<1>12. ManifestSound(manifest)' /\ ManifestSound(durableManifest)'
  <2>1. m.active \in linked' /\ m.floor <= m.active BY <1>m, <1>t DEF ManifestSound
  <2>2. \A b \in Files' : b > m.active => frames'[b] = <<>>
    <3>1. ASSUME NEW b \in Files', b > m.active PROVE frames'[b] = <<>>
      <4>1. b \in Files /\ b \in Position /\ frames[b] = <<>> BY <3>1, <1>t, <1>m DEF ManifestSound
      <4>2. b \notin Dirty BY <4>1, <1>t DEF Dirty
      <4> QED BY <4>1, <4>2
    <3> QED BY <3>1
  <2>3. \A b \in Files' : b < m.floor => \A i \in 1 .. Len(frames'[b]) : End(frames'[b][i]) <= m.floor
    <3>1. ASSUME NEW b \in Files', b < m.floor, NEW i \in 1 .. Len(frames'[b])
          PROVE  End(frames'[b][i]) <= m.floor
      <4>1. b \in Files /\ b \in Position /\ m.floor \in Nat BY <1>t, <1>n
      <4>2. CASE i \in 1 .. Len(frames[b]) /\ frames'[b][i] = frames[b][i]
        <5>1. \A c \in Files : c < m.floor =>
                 \A j \in 1 .. Len(frames[c]) : End(frames[c][j]) <= m.floor
          BY <1>m DEF ManifestSound
        <5>2. End(frames[b][i]) <= m.floor BY <5>1, <4>1, <4>2, <3>1
        <5> QED BY <5>2, <4>2
      <4>3. CASE frames'[b][i] = Torn
        <5>1. End(Torn) = 0 BY TornTyped
        <5>2. End(frames'[b][i]) = End(Torn) BY <4>3
        <5>3. 0 <= m.floor BY <1>n
        <5> QED BY <5>1, <5>2, <5>3
      <4> QED BY <4>1, <4>2, <4>3, <1>6
    <3> QED BY <3>1
  <2> QED BY <2>1, <2>2, <2>3, SoundAs
<1>13. Located(manifest)' /\ Located(durableManifest)'
  <2>1. ASSUME NEW fr \in acked, Above(fr, m.floor)
        PROVE  \E b \in linked' : b <= m.active /\ \E i \in 1 .. synced'[b] : frames'[b][i] = fr
    <3>1. PICK b \in linked : b <= m.active /\ \E i \in 1 .. synced[b] : frames[b][i] = fr
      BY <2>1, <1>m DEF Located
    <3>2. PICK i \in 1 .. synced[b] : frames[b][i] = fr BY <3>1
    <3>3. b \in Position /\ b \in Files /\ b \notin gone /\ b \in linked' BY <1>t
    <3>4. synced[b] <= synced'[b] /\ synced'[b] <= k(b) /\ synced'[b] \in Nat /\ synced[b] \in Nat /\ k(b) \in Nat
      BY <3>3, <1>4, <1>5, <1>t
    <3>5. i \in 1 .. synced'[b] /\ i \in 1 .. k(b) BY <3>4
    <3>6. frames'[b][i] = fr BY <3>5, <3>3, <3>2, <1>3
    <3> QED BY <3>1, <3>3, <3>5, <3>6
  <2>2. acked' = acked BY <1>1
  <2>3. \A fr \in acked : Above(fr, m.floor) =>
          \E b \in linked' : b <= m.active /\ \E i \in 1 .. synced'[b] : frames'[b][i] = fr
    BY <2>1
  <2>4. manifest' = m /\ durableManifest' = m OBVIOUS
  <2> QED BY ONLY <2>2, <2>3, <2>4, SoundAs
<1>14. Settled' BY <1>1, <1>t, <1>n DEF Settled, Serving
<1>15. MemorySound' BY <1>1 DEF MemorySound, Serving
<1> QED BY <1>7,<1>8,<1>9,<1>10,<1>11,<1>12,<1>13,<1>14,<1>15 DEF IInv

\* Both kinds of append.
LEMMA AppendInv == ASSUME IInv, AppendBatch \/ AppendSystem PROVE IInv'
<1>1. Counts \subseteq Nat BY BoundsAssumption
<1>2. CASE AppendBatch BY <1>1, <1>2, AppendFrameInv DEF AppendBatch
<1>3. CASE AppendSystem BY <1>3, AppendFrameInv DEF AppendSystem
<1> QED BY <1>2, <1>3

\* A database just created.
LEMMA InitInv == ASSUME Init PROVE IInv
<1>1. 0 \in Position /\ 0 \in Nat /\ MaxPosition \in Nat /\ 0 \in 0 .. MaxFrames /\ 0 \in 0 .. MaxCrashes
  BY BoundsAssumption DEF Position
<1>2. \A b \in Position : frames[b] = <<>> /\ synced[b] = 0 /\ Len(frames[b]) = 0 BY DEF Init
<1>3. manifest.active = 0 /\ manifest.floor = 0 /\ durableManifest = manifest BY DEF Init
<1>4. TypeOK
  <2>1. manifest \in Manifest BY <1>1 DEF Init, Manifest
  <2>2. <<>> \in Seq(Frame) OBVIOUS
  <2>3. frames \in [Position -> Seq(Frame)] /\ synced \in [Position -> Nat] BY <2>2, <1>1 DEF Init
  <2> QED BY <2>1, <2>3, <1>1 DEF Init, TypeOK, Phases
<1>5. FilesChained
  <2>1. \A b \in Position : \A i \in 1 .. Len(frames[b]) : FALSE BY <1>2
  <2> QED BY <2>1, <1>2 DEF FilesChained
<1>6. TornOnlyAtTail BY <1>2 DEF TornOnlyAtTail
<1>7. FilesOrdered BY <1>1, <1>2 DEF FilesOrdered, Files, Init
<1>8. DirtyOnlyActive BY <1>2 DEF DirtyOnlyActive
<1>9. ManifestSound(manifest) /\ ManifestSound(durableManifest)
  BY <1>1, <1>2, <1>3 DEF ManifestSound, Init
<1>10. Located(manifest) /\ Located(durableManifest) BY DEF Located, Init
<1>11. Settled BY DEF Settled, Init
<1>12. MemorySound BY DEF MemorySound, Serving, Init
<1> QED BY <1>4,<1>5,<1>6,<1>7,<1>8,<1>9,<1>10,<1>11,<1>12 DEF IInv

\* A step that changes nothing.
LEMMA StutterInv == ASSUME IInv, UNCHANGED vars PROVE IInv'
<1>1. UNCHANGED <<segments, removed, linked, frames, synced, manifest, durableManifest, stale, lock, phase,
                  active, closed, next, size, floor, acked, lastId, crashes, reverted>>
  BY DEF vars, disk, memory, history
<1>2. TypeOK' BY <1>1 DEF IInv, TypeOK
<1>3. FilesChained' /\ FilesOrdered' BY <1>1, KeepFiles DEF IInv, Serving
<1>4. TornOnlyAtTail' BY <1>1, KeepTail DEF IInv
<1>5. DirtyOnlyActive' BY <1>1 DEF IInv, DirtyOnlyActive
<1>6. ManifestSound(manifest)' /\ ManifestSound(durableManifest)' BY <1>1, KeepManifest DEF IInv
<1>7. Located(manifest)' /\ Located(durableManifest)' BY <1>1, KeepLocated DEF IInv
<1>8. Settled' BY <1>1 DEF IInv, Settled, Serving
<1>9. MemorySound' BY <1>1 DEF IInv, MemorySound, Serving, HeadOf, End
<1> QED BY <1>2,<1>3,<1>4,<1>5,<1>6,<1>7,<1>8,<1>9 DEF IInv

\* Every step that reverts no rename keeps the invariant.
LEMMA NextInv == ASSUME IInv, [Next]_vars, ~reverted' PROVE IInv'
<1>1. CASE Opening BY <1>1, OpenInv, RecoverActiveInv, EndOpenInv DEF Opening
<1>2. CASE AppendBatch \/ AppendSystem BY <1>2, AppendInv
<1>3. CASE Rolling
  BY <1>3, BeginRollInv, RollCreateInv, RollLinkInv, RollWriteInv, RollSyncInv DEF Rolling
<1>4. CASE Commit BY <1>4, CommitInv
<1>5. CASE Retaining BY <1>5, ActivateRetentionInv, FloorSyncInv, ReclaimInv DEF Retaining
<1>6. CASE Ending BY <1>6, CloseInv, KillInv, PowerLossInv, RemoveStaleLockInv DEF Ending
<1>7. CASE UNCHANGED vars BY <1>7, StutterInv
<1> QED BY <1>1,<1>2,<1>3,<1>4,<1>5,<1>6,<1>7 DEF Next

\* A reverted rename is not forgotten.
LEMMA RevertedStays == ASSUME [Next]_vars, reverted PROVE reverted'
<1>1. CASE PowerLoss BY <1>1 DEF PowerLoss
<1>2. CASE Opening BY <1>2 DEF Opening, Open, RecoverActive, EndOpen, FinishOpen, RefuseOpen, history
<1>3. CASE AppendBatch \/ AppendSystem \/ Commit
  BY <1>3 DEF AppendBatch, AppendSystem, AppendFrame, Commit
<1>4. CASE Rolling BY <1>4 DEF Rolling, BeginRoll, RollCreate, RollLink, RollWrite, RollSync, history
<1>5. CASE Retaining BY <1>5 DEF Retaining, ActivateRetention, FloorSync, Reclaim, history
<1>6. CASE Close \/ Kill \/ RemoveStaleLock BY <1>6 DEF Close, Kill, RemoveStaleLock, history
<1>7. CASE UNCHANGED vars BY <1>7 DEF vars, history
<1> QED BY <1>1,<1>2,<1>3,<1>4,<1>5,<1>6,<1>7 DEF Next, Ending

\* Until a power loss undoes a rename that an open had built on, every
\* reachable state satisfies the inductive invariant.
THEOREM Inductive == Spec => []Sound
<1>1. Init => Sound BY InitInv DEF Sound
<1>2. Sound /\ [Next]_vars => Sound' BY NextInv, RevertedStays DEF Sound
<1> QED BY <1>1, <1>2, PTL DEF Spec

\* A frame below a head that commit() returned, and above the floor, is read
\* back after any sequence of kills and power losses (log/mod.rs commit, roll,
\* open_internal): neither roll nor recovery nor retention can lose it, until a
\* power loss undoes a rename of the manifest that an open had built on.
THEOREM AckedSurvives == Spec => []AckedRetained
<1>1. ASSUME IInv, NEW m, Located(m), NEW fr \in acked, Above(fr, m.floor) PROVE Recoverable(fr, m)
  <2>1. PICK b \in linked : b <= m.active /\ \E i \in 1 .. synced[b] : frames[b][i] = fr
    BY <1>1 DEF Located
  <2>2. PICK i \in 1 .. synced[b] : frames[b][i] = fr BY <2>1
  <2>3. b \in Position /\ synced[b] \in Nat /\ synced[b] <= Len(frames[b]) /\ Len(frames[b]) \in Nat
    BY <1>1 DEF IInv, TypeOK, FilesChained
  <2>4. i <= Len(frames[b]) /\ \A j \in 1 .. i : j \in 1 .. Len(frames[b]) /\ ~(synced[b] < j)
    BY <2>3
  <2>5. \A j \in 1 .. i : frames[b][j].whole BY <1>1, <2>3, <2>4 DEF IInv, TornOnlyAtTail
  <2>6. \A j \in 1 .. i : Follows(b, j) BY <1>1, <2>3, <2>4, <2>5 DEF IInv, FilesChained
  <2> QED BY <2>1, <2>2, <2>4, <2>6 DEF Recoverable
<1>2. Sound => AckedRetained BY <1>1 DEF IInv, Sound, AckedRetained, AckedRetainedAlways
<1> QED BY <1>2, Inductive, PTL

\* No crash leaves a directory that open_internal refuses: the active segment
\* is present, what lies beyond it is empty, the floor is not past the head,
\* until a power loss undoes a rename of the manifest that an open had built on.
THEOREM AlwaysOpens == Spec => []NeverUnopenable
<1>1. Sound => NeverUnopenable
  BY OpenAlwaysSucceeds DEF IInv, Sound, ManifestSound, NeverUnopenable, Files
<1> QED BY <1>1, Inductive, PTL

-----------------------------------------------------------------------------
(***************************************************************************)
(* SegmentLog implements CommittedLog: every step of the files, whichever  *)
(* call or crash it belongs to, is a step of the promised log or none, for *)
(* every value of the constants, until a rename is reverted.               *)
(*                                                                         *)
(* What a caller sees depends on the intact frames of each file alone      *)
(* (Written, HeadAt).  Beside IInv the mapping needs that ids grow in the  *)
(* order of the positions, so that what a power loss cuts off is a suffix, *)
(* and that the two manifests, one of which a power loss picks, agree on   *)
(* the head and have their floors in order (Mapped).                       *)
(***************************************************************************)

\* How many frames of a file recovery keeps: all but a torn one at its end.
Intact(fs) == IF fs # <<>> /\ ~fs[Len(fs)].whole THEN Len(fs) - 1 ELSE Len(fs)

\* The position after the intact frames of a file with base b.
HeadAt(fs, b) == IF Intact(fs) = 0 THEN b ELSE End(fs[Intact(fs)])

IntactOf(b) == {frames[b][i] : i \in 1 .. Intact(frames[b])}

\* The frames of the files present, and of those a power loss may bring back.
Written == UNION {IntactOf(b) : b \in segments}
Gone == UNION {IntactOf(b) : b \in removed}

IdsBounded ==
    /\ \A b \in Position : \A i \in 1 .. Intact(frames[b]) : frames[b][i].id <= lastId
    /\ \A fr \in acked : fr.id <= lastId

IdsOrdered ==
    /\ \A b \in Position : \A i, j \in 1 .. Intact(frames[b]) :
          i < j => frames[b][i].id < frames[b][j].id
    /\ \A b, c \in Position : b < c =>
          \A i \in 1 .. Intact(frames[b]), j \in 1 .. Intact(frames[c]) :
              frames[b][i].id < frames[c][j].id

FloorsOrdered == durableManifest.floor <= manifest.floor

Head0 == HeadAt(frames[manifest.active], manifest.active)

HeadsAgree ==
    /\ HeadAt(frames[durableManifest.active], durableManifest.active) = Head0
    /\ phase = "roll_write" => active = Head0

Mapped == IdsBounded /\ IdsOrdered /\ FloorsOrdered /\ HeadsAgree

\* The steps of CommittedLog, of what a caller sees.
Same == Written' = Written /\ Gone' = Gone /\ Head0' = Head0 /\ acked' = acked

SameFloor == durableManifest'.floor = durableManifest.floor

NoLowerFloor == durableManifest'.floor \in Nat /\ durableManifest.floor <= durableManifest'.floor

Writes ==
    /\ \E fr \in Written' : /\ Written' = Written \cup {fr}
                            /\ \A old \in Written \cup acked : old.id < fr.id
                            /\ fr.first = Head0 /\ Head0' = End(fr)
    /\ Gone' = Gone /\ acked' = acked /\ SameFloor

Commits ==
    /\ acked' = acked \cup Written
    /\ Written' = Written /\ Gone' = Gone /\ Head0' = Head0 /\ SameFloor

Crashes ==
    /\ \E back \in SUBSET Gone :
          \/ Written' = Written \cup back /\ Head0' = Head0
          \/ \E oldest \in Written : /\ Written' = {fr \in Written : fr.id < oldest.id} \cup back
                                     /\ Head0' = oldest.first
    /\ Gone' = {} /\ NoLowerFloor /\ acked' = acked
    /\ \A fr \in acked : Above(fr, durableManifest'.floor) => (fr \in Written => fr \in Written')

Discards ==
    /\ Written' \subseteq Written
    /\ Gone' = Gone \cup (Written \ Written')
    /\ \A fr \in Written \ Written' : ~Above(fr, durableManifest.floor)
    /\ Head0' = Head0 /\ acked' = acked /\ SameFloor

Settles == Gone' = {} /\ Written' = Written /\ Head0' = Head0 /\ acked' = acked /\ SameFloor

Abstract == (Same /\ NoLowerFloor) \/ Writes \/ Commits \/ Crashes \/ Discards \/ Settles

----------------------------------------------------------------------------
(* What a caller sees *)

\* The intact frames of a file are a prefix of it.
LEMMA IntactTyped ==
  ASSUME TypeOK, NEW b \in Position
  PROVE  /\ frames[b] \in Seq(Frame) /\ Len(frames[b]) \in Nat
         /\ (frames[b] = <<>> <=> Len(frames[b]) = 0)
         /\ Intact(frames[b]) \in 0 .. Len(frames[b])
         /\ \A i \in 1 .. Intact(frames[b]) :
               i \in 1 .. Len(frames[b]) /\ i \in Nat /\ i # 0 /\ frames[b][i] \in Frame
<1>1. frames[b] \in Seq(Frame) /\ Len(frames[b]) \in Nat BY DEF TypeOK
<1>2. frames[b] = <<>> <=> Len(frames[b]) = 0 BY <1>1
<1>3. Intact(frames[b]) \in 0 .. Len(frames[b]) BY <1>1, <1>2 DEF Intact
<1>4. \A i \in 1 .. Intact(frames[b]) : i \in 1 .. Len(frames[b]) /\ i \in Nat /\ i # 0 BY <1>1, <1>3
<1> QED BY <1>1, <1>2, <1>3, <1>4

\* The scan keeps the intact frames of a file, and all of them.
LEMMA ScanIsIntact ==
  ASSUME IInv, NEW b \in Position
  PROVE  /\ ValidLength(b) = Intact(frames[b])
         /\ \A i \in 1 .. Intact(frames[b]) : Follows(b, i)
<1> DEFINE v == ValidLength(b)
           len == Len(frames[b])
<1>1. /\ v \in 0 .. len
      /\ \A i \in 1 .. v : Follows(b, i)
      /\ v < len => v + 1 = len /\ ~frames[b][len].whole
  BY ValidLengthCut DEF IInv
<1>2. len \in Nat /\ (frames[b] = <<>> <=> len = 0) BY IntactTyped DEF IInv
<1> HIDE DEF v
<1>3. CASE v = len
  <2>1. CASE len = 0 BY <2>1, <1>1, <1>2, <1>3 DEF Intact, v
  <2>2. CASE len # 0
    <3>1. len \in 1 .. v BY <1>2, <1>3, <2>2
    <3>2. frames[b][len].whole BY <3>1, <1>1 DEF Follows
    <3> QED BY <3>2, <1>1, <1>3 DEF Intact, v
  <2> QED BY <2>1, <2>2
<1>4. CASE v # len
  <2>1. v + 1 = len /\ ~frames[b][len].whole /\ v \in Nat BY <1>1, <1>2, <1>4
  <2>2. Intact(frames[b]) = len - 1 BY <2>1, <1>2 DEF Intact
  <2>3. v = len - 1 BY <2>1, <1>2
  <2> QED BY <2>2, <2>3, <1>1 DEF v
<1> QED BY <1>3, <1>4

\* The mapping shows the frames and the head that are written.
Shown == /\ ValidIn(segments) = Written
         /\ ValidIn(removed) = Gone
         /\ ScannedNext(manifest.active) = Head0

\* Recovery's scan of any file shows what is intact in it.
LEMMA View == ASSUME IInv PROVE Shown
<1>1. \A b \in Position : ValidLength(b) = Intact(frames[b]) BY ScanIsIntact
<1>2. segments \subseteq Position /\ removed \subseteq Position /\ manifest.active \in Position
  BY DEF IInv, TypeOK, Manifest
<1>3. ValidIn(segments) = Written BY <1>1, <1>2 DEF ValidIn, Written, IntactOf
<1>4. ValidIn(removed) = Gone BY <1>1, <1>2 DEF ValidIn, Gone, IntactOf
<1>5. ScannedNext(manifest.active) = Head0 BY <1>1, <1>2 DEF ScannedNext, Head0, HeadAt
<1> QED BY <1>3, <1>4, <1>5 DEF Shown

\* What is written, frame by frame.
LEMMA WrittenAre ==
  /\ \A fr : fr \in Written <=> \E b \in segments : \E i \in 1 .. Intact(frames[b]) : frames[b][i] = fr
  /\ \A fr : fr \in Written' <=> \E b \in segments' : \E i \in 1 .. Intact(frames'[b]) : frames'[b][i] = fr
BY DEF Written, IntactOf

\* What is intact in a file, frame by frame.
LEMMA IntactAre ==
  ASSUME NEW b
  PROVE  /\ \A fr : fr \in IntactOf(b) <=> \E i \in 1 .. Intact(frames[b]) : frames[b][i] = fr
         /\ \A fr : fr \in IntactOf(b)' <=> \E i \in 1 .. Intact(frames'[b]) : frames'[b][i] = fr
BY DEF IntactOf

\* The intact frames of a file stay, only torn ones come or go; or all go.
Kept(b) == /\ Intact(frames'[b]) = Intact(frames[b])
           /\ \A i \in 1 .. Intact(frames[b]) : frames'[b][i] = frames[b][i]

Erased(b) == Intact(frames'[b]) = 0

\* A file that is kept shows the same frames and head; the order of the ids
\* holds while others are erased.
LEMMA IntactShown ==
  ASSUME TypeOK, \A b \in Position : Kept(b) \/ Erased(b)
  PROVE  /\ \A b \in Position : Kept(b) => /\ IntactOf(b)' = IntactOf(b)
                                           /\ HeadAt(frames'[b], b) = HeadAt(frames[b], b)
         /\ \A b \in Position : Erased(b) => IntactOf(b)' = {}
         /\ IdsOrdered => IdsOrdered'
         /\ IdsBounded /\ UNCHANGED <<acked, lastId>> => IdsBounded'
<1>1. ASSUME NEW b \in Position, Kept(b)
      PROVE  IntactOf(b)' = IntactOf(b) /\ HeadAt(frames'[b], b) = HeadAt(frames[b], b)
  <2>1. Intact(frames[b]) # 0 => Intact(frames[b]) \in 1 .. Intact(frames[b])
    BY IntactTyped
  <2>2. HeadAt(frames'[b], b) = HeadAt(frames[b], b) BY <2>1, <1>1 DEF HeadAt, Kept
  <2>3. IntactOf(b)' = IntactOf(b) BY <1>1 DEF IntactOf, Kept
  <2> QED BY <2>2, <2>3
<1>2. \A b \in Position : Erased(b) => IntactOf(b)' = {} BY DEF IntactOf, Erased
<1>3. \A b \in Position : \A i \in 1 .. Intact(frames'[b]) :
         i \in 1 .. Intact(frames[b]) /\ frames'[b][i] = frames[b][i]
  BY DEF Kept, Erased
<1>4. IdsOrdered => IdsOrdered' BY <1>3 DEF IdsOrdered
<1>5. IdsBounded /\ UNCHANGED <<acked, lastId>> => IdsBounded' BY <1>3 DEF IdsBounded
<1> QED BY <1>1, <1>2, <1>4, <1>5

\* Files that come to the directory or leave it are empty.
SameFiles ==
    \A b \in Position : frames[b] # <<>> => /\ b \in segments' <=> b \in segments
                                            /\ b \in removed' <=> b \in removed

\* A step that keeps every file's frames shows the same ones.
LEMMA SameShown ==
  ASSUME TypeOK, TypeOK', SameFiles, \A b \in Position : Kept(b)
  PROVE  Written' = Written /\ Gone' = Gone
<1>1. \A b \in Position : IntactOf(b)' = IntactOf(b) BY IntactShown
<1>2. \A b \in Position : frames[b] = <<>> => IntactOf(b) = {}
  BY IntactTyped DEF IntactOf
<1>3. segments \subseteq Position /\ segments' \subseteq Position
      /\ removed \subseteq Position /\ removed' \subseteq Position
  BY DEF TypeOK
<1>4. Written' = Written
  <2>1. ASSUME NEW fr \in Written' PROVE fr \in Written
    <3>1. PICK b \in segments' : fr \in IntactOf(b)' BY DEF Written
    <3> QED BY <3>1, <1>1, <1>2, <1>3 DEF Written, SameFiles
  <2>2. ASSUME NEW fr \in Written PROVE fr \in Written'
    <3>1. PICK b \in segments : fr \in IntactOf(b) BY DEF Written
    <3> QED BY <3>1, <1>1, <1>2, <1>3 DEF Written, SameFiles
  <2> QED BY <2>1, <2>2
<1>5. Gone' = Gone
  <2>1. ASSUME NEW fr \in Gone' PROVE fr \in Gone
    <3>1. PICK b \in removed' : fr \in IntactOf(b)' BY DEF Gone
    <3> QED BY <3>1, <1>1, <1>2, <1>3 DEF Gone, SameFiles
  <2>2. ASSUME NEW fr \in Gone PROVE fr \in Gone'
    <3>1. PICK b \in removed : fr \in IntactOf(b) BY DEF Gone
    <3> QED BY <3>1, <1>1, <1>2, <1>3 DEF Gone, SameFiles
  <2> QED BY <2>1, <2>2
<1> QED BY <1>4, <1>5

\* A step that touches neither intact frames nor manifests.
LEMMA Quiet ==
  ASSUME IInv, IInv', Mapped, SameFiles, \A b \in Position : Kept(b),
         UNCHANGED <<manifest, durableManifest, acked, lastId>>,
         phase' = "roll_write" => active' = Head0
  PROVE  Mapped' /\ Abstract
<1>1. manifest.active \in Position /\ durableManifest.active \in Position /\ durableManifest.floor \in Nat
  BY DEF IInv, TypeOK, Manifest, Position
<1>2. /\ IdsOrdered' /\ IdsBounded'
      /\ \A b \in Position : HeadAt(frames'[b], b) = HeadAt(frames[b], b)
  BY IntactShown DEF IInv, Mapped
<1>w. Written' = Written /\ Gone' = Gone BY SameShown DEF IInv
<1>3. Head0' = Head0 /\ HeadsAgree' BY <1>1, <1>2 DEF Mapped, HeadsAgree, Head0
<1>4. FloorsOrdered' BY DEF Mapped, FloorsOrdered
<1>5. Abstract BY <1>1, <1>w, <1>3 DEF Abstract, Same, NoLowerFloor
<1> QED BY <1>2, <1>3, <1>4, <1>5 DEF Mapped

\* Where no file is torn every frame is intact.
LEMMA NoneTorn ==
  ASSUME IInv, phase \notin {"down", "scan"}, NEW b \in Position
  PROVE  /\ Intact(frames[b]) = Len(frames[b])
         /\ HeadOf(b) => HeadAt(frames[b], b) = next
<1>1. Len(frames[b]) \in Nat /\ (frames[b] = <<>> <=> Len(frames[b]) = 0) BY IntactTyped DEF IInv
<1>2. frames[b] # <<>> => Len(frames[b]) \in 1 .. Len(frames[b]) BY <1>1
<1>3. frames[b] # <<>> => frames[b][Len(frames[b])].whole BY <1>2 DEF IInv, TornOnlyAtTail
<1> QED BY <1>1, <1>3 DEF Intact, HeadAt, HeadOf

----------------------------------------------------------------------------
(* Opening and rolling *)

\* Recovery cuts what nobody was shown.
LEMMA RecoverActiveMaps == ASSUME IInv, IInv', Mapped, RecoverActive PROVE Mapped' /\ Abstract
<1> DEFINE b == manifest.active
           v == ValidLength(b)
<1>1. /\ UNCHANGED <<segments, removed, manifest, durableManifest, acked, lastId>>
      /\ phase' = "orphans"
      /\ frames' = frames \/ frames' = [frames EXCEPT ![b] = SubSeq(@, 1, v)]
  BY DEF RecoverActive, history
<1>2. /\ b \in Position /\ v = Intact(frames[b]) /\ v \in 0 .. Len(frames[b])
      /\ frames[b] \in Seq(Frame) /\ Len(frames[b]) \in Nat
      /\ \A i \in 1 .. v : Follows(b, i)
      /\ frames[b] = <<>> => v = 0
  <2>1. b \in Position BY DEF IInv, TypeOK, Manifest
  <2> QED BY <2>1, ScanIsIntact, IntactTyped DEF IInv
<1> HIDE DEF v
<1>3. \A c \in Position : Kept(c)
  <2>1. CASE frames' = frames BY <2>1 DEF Kept
  <2>2. CASE frames' = [frames EXCEPT ![b] = SubSeq(@, 1, v)]
    <3>1. /\ Len(SubSeq(frames[b], 1, v)) = v
          /\ \A i \in 1 .. v : SubSeq(frames[b], 1, v)[i] = frames[b][i]
      BY <1>2
    <3>2. /\ frames'[b] = SubSeq(frames[b], 1, v)
          /\ \A c \in Position \ {b} : frames'[c] = frames[c]
      BY <2>2, <1>2 DEF IInv, TypeOK
    <3>3. Intact(frames'[b]) = v
      <4>1. CASE v = 0 BY <4>1, <3>1, <3>2, <1>2 DEF Intact
      <4>2. CASE v # 0
        <5>1. v \in 1 .. v BY <4>2, <1>2
        <5>2. frames'[b][v].whole BY <5>1, <3>1, <3>2, <1>2 DEF Follows
        <5> QED BY <5>2, <3>1, <3>2 DEF Intact
      <4> QED BY <4>1, <4>2
    <3> TAKE c \in Position
    <3>4. CASE c = b BY <3>4, <3>1, <3>2, <3>3, <1>2 DEF Kept
    <3>5. CASE c # b BY <3>5, <3>2 DEF Kept
    <3> QED BY <3>4, <3>5
  <2> QED BY <2>1, <2>2, <1>1
<1> QED BY <1>1, <1>3, Quiet DEF SameFiles

\* The orphans an open removes are empty.
LEMMA EndOpenMaps == ASSUME IInv, IInv', Mapped, EndOpen PROVE Mapped' /\ Abstract
<1>1. /\ UNCHANGED <<frames, manifest, durableManifest, acked, lastId>>
      /\ phase' # "roll_write"
      /\ \E met \in SUBSET Orphans : segments' = segments \ met /\ removed' = removed \cup met
  <2>1. CASE FinishOpen BY <2>1 DEF FinishOpen, history
  <2>2. CASE RefuseOpen BY <2>2 DEF RefuseOpen, history
  <2> QED BY <2>1, <2>2 DEF EndOpen
<1>2. \A b \in Orphans : frames[b] = <<>> BY DEF IInv, ManifestSound, Orphans, Files
<1>3. SameFiles BY <1>1, <1>2 DEF SameFiles
<1> QED BY <1>1, <1>3, Quiet DEF Kept

\* A roll fsyncs, creates an empty file and fsyncs its entry.
LEMMA BeginRollMaps == ASSUME IInv, IInv', Mapped, BeginRoll PROVE Mapped' /\ Abstract
<1>1. /\ UNCHANGED <<segments, removed, frames, manifest, durableManifest, acked, lastId>>
      /\ phase' = "roll_create"
  BY DEF BeginRoll, history
<1> QED BY <1>1, Quiet DEF Kept, SameFiles

\* A roll's new file is empty, and so is one of its name that was removed.
LEMMA RollCreateMaps == ASSUME IInv, IInv', Mapped, RollCreate PROVE Mapped' /\ Abstract
<1>1. /\ UNCHANGED <<manifest, durableManifest, acked, lastId>>
      /\ phase = "roll_create" /\ phase' # "roll_write"
  BY DEF RollCreate, history
<1>2. CASE next \in segments
  <2>1. UNCHANGED <<segments, removed, frames>> BY <1>2 DEF RollCreate
  <2> QED BY <1>1, <2>1, Quiet DEF Kept, SameFiles
<1>3. CASE next \notin segments
  <2>1. /\ segments' = segments \cup {next} /\ removed' = removed \ {next}
        /\ frames' = [frames EXCEPT ![next] = <<>>]
    BY <1>3 DEF RollCreate
  <2>2. /\ next \in Position /\ active <= next /\ active \in segments /\ active = manifest.active
        /\ active \in Nat /\ next \in Nat
    BY <1>1, HeadIsTop DEF IInv, TypeOK, Position, MemorySound, Serving
  <2>3. frames[next] = <<>>
    <3>1. CASE next \notin removed BY <3>1, <1>3, <2>2 DEF IInv, FilesChained, Files
    <3>2. CASE next \in removed
      <4>1. next # active BY <1>3, <2>2
      <4> QED BY <4>1, <3>2, <2>2 DEF IInv, ManifestSound, Files
    <3> QED BY <3>1, <3>2
  <2>4. frames' = frames BY <2>1, <2>2, <2>3 DEF IInv, TypeOK
  <2>5. SameFiles BY <2>1, <2>3 DEF SameFiles
  <2> QED BY <1>1, <2>4, <2>5, Quiet DEF Kept
<1> QED BY <1>2, <1>3

\* The new segment begins where the old one ends; what was removed from the
\* directory cannot return.
LEMMA RollLinkMaps == ASSUME IInv, IInv', Mapped, RollLink PROVE Mapped' /\ Abstract
<1>1. /\ phase = "roll_link" /\ phase' = "roll_write" /\ removed' = {} /\ active' = next
      /\ frames' = [b \in Position |-> IF b \in removed THEN <<>> ELSE frames[b]]
      /\ UNCHANGED <<segments, manifest, durableManifest, acked, lastId>>
  BY DEF RollLink, Erase, history
<1>2. /\ manifest.active = active /\ durableManifest.active = active /\ HeadOf(active)
      /\ active \in Position /\ active \in segments
      /\ segments \subseteq Position /\ removed \cap segments = {} /\ durableManifest.floor \in Nat
  BY <1>1 DEF IInv, TypeOK, MemorySound, Serving, Settled, Manifest, Position
<1>3. active' = Head0 BY <1>1, <1>2, NoneTorn DEF Head0
<1>4. \A b \in Position : (b \in removed => Erased(b)) /\ (b \notin removed => Kept(b))
  <2>1. Intact(<<>>) = 0 BY DEF Intact
  <2> QED BY <2>1, <1>1 DEF Erased, Kept
<1>5. /\ IdsOrdered' /\ IdsBounded'
      /\ \A b \in segments : IntactOf(b)' = IntactOf(b)
      /\ HeadAt(frames'[active], active) = HeadAt(frames[active], active)
  BY <1>1, <1>2, <1>4, IntactShown DEF IInv, Mapped
<1>6. Written' = Written /\ Gone' = {} BY <1>1, <1>5 DEF Written, Gone
<1>7. Head0' = Head0 /\ HeadsAgree' BY <1>1, <1>2, <1>3, <1>5 DEF Head0, HeadsAgree
<1>8. FloorsOrdered' BY <1>1 DEF Mapped, FloorsOrdered
<1>9. Abstract BY <1>1, <1>6, <1>7 DEF Abstract, Settles, SameFloor
<1> QED BY <1>5, <1>7, <1>8, <1>9 DEF Mapped

\* The manifest that names the new segment has the same head.
LEMMA RollWriteMaps == ASSUME IInv, IInv', Mapped, RollWrite PROVE Mapped' /\ Abstract
<1>1. /\ phase = "roll_write" /\ phase' = "roll_sync" /\ manifest' = [active |-> active, floor |-> floor]
      /\ UNCHANGED <<segments, removed, frames, durableManifest, acked, lastId>>
  BY DEF RollWrite, Rename, history
<1>2. /\ frames[active] = <<>> /\ manifest.floor = floor /\ durableManifest.floor \in Nat
      /\ active \in Position
  BY <1>1 DEF IInv, TypeOK, Manifest, Position, MemorySound, Serving
<1>3. Intact(frames[active]) = 0 BY <1>2, IntactTyped DEF IInv
<1>4. Head0' = Head0
  <2>1. Head0' = HeadAt(frames[active], active) BY <1>1 DEF Head0
  <2>2. HeadAt(frames[active], active) = active BY <1>3 DEF HeadAt
  <2>3. Head0 = active BY <1>1 DEF Mapped, HeadsAgree
  <2> QED BY <2>1, <2>2, <2>3
<1>5. HeadsAgree' BY <1>1, <1>4 DEF Mapped, HeadsAgree
<1>6. (\A b \in Position : Kept(b)) /\ SameFiles BY <1>1 DEF Kept, SameFiles
<1>7. Written' = Written /\ Gone' = Gone /\ IdsOrdered' /\ IdsBounded'
  BY <1>1, <1>6, IntactShown, SameShown DEF IInv, Mapped
<1>8. FloorsOrdered' BY <1>1, <1>2 DEF Mapped, FloorsOrdered
<1>9. Abstract BY <1>1, <1>2, <1>4, <1>7 DEF Abstract, Same, NoLowerFloor
<1> QED BY <1>5, <1>7, <1>8, <1>9 DEF Mapped

----------------------------------------------------------------------------
(* The durable manifest and the floor *)

\* The durable manifest takes the place of the other: its head is the same and
\* its floor no lower.
LEMMA Synced ==
  ASSUME IInv, IInv', Mapped, durableManifest' = manifest,
         UNCHANGED <<segments, removed, frames, manifest, acked, lastId>>,
         phase' # "roll_write"
  PROVE  Mapped' /\ Abstract
<1>1. manifest.floor \in Nat /\ durableManifest.floor <= manifest.floor
  BY DEF IInv, TypeOK, Manifest, Position, Mapped, FloorsOrdered
<1>2. (\A b \in Position : Kept(b)) /\ SameFiles BY DEF Kept, SameFiles
<1>3. Written' = Written /\ Gone' = Gone /\ IdsOrdered' /\ IdsBounded'
  BY <1>2, IntactShown, SameShown DEF IInv, Mapped
<1>4. Head0' = Head0 BY DEF Head0
<1>5. HeadsAgree' BY DEF HeadsAgree, Head0
<1>6. FloorsOrdered' BY <1>1 DEF FloorsOrdered
<1>7. Abstract BY <1>1, <1>3, <1>4 DEF Abstract, Same, NoLowerFloor
<1> QED BY <1>3, <1>5, <1>6, <1>7 DEF Mapped

\* A roll makes durable the manifest that already maps.
LEMMA RollSyncMaps == ASSUME IInv, IInv', Mapped, RollSync PROVE Mapped' /\ Abstract
<1>1. /\ durableManifest' = manifest /\ phase' = "rolled"
      /\ UNCHANGED <<segments, removed, frames, manifest, acked, lastId>>
  BY DEF RollSync, SyncManifest, history
<1> QED BY <1>1, Synced

\* Retention makes its raised floor the durable one.
LEMMA FloorSyncMaps == ASSUME IInv, IInv', Mapped, FloorSync PROVE Mapped' /\ Abstract
<1>1. /\ durableManifest' = manifest /\ phase' = "reclaim"
      /\ UNCHANGED <<segments, removed, frames, manifest, acked, lastId>>
  BY DEF FloorSync, SyncManifest, history
<1> QED BY <1>1, Synced

\* A process that starts writes nothing and builds on the manifest it finds.
LEMMA OpenMaps == ASSUME IInv, IInv', Mapped, Open PROVE Mapped' /\ Abstract
<1>1. /\ UNCHANGED <<segments, removed, frames, manifest, acked, lastId>>
      /\ durableManifest' = manifest /\ phase' = "scan"
  BY DEF Open, history
<1> QED BY <1>1, Synced

\* An operator who deletes the LOCK file changes nothing else.
LEMMA RemoveStaleLockMaps == ASSUME IInv, IInv', Mapped, RemoveStaleLock PROVE Mapped' /\ Abstract
<1>1. /\ UNCHANGED <<segments, removed, frames, manifest, durableManifest, acked, lastId>>
      /\ phase = "down" /\ phase' = "down"
  BY DEF RemoveStaleLock, disk, history
<1> QED BY <1>1, Quiet DEF Kept, SameFiles

\* A floor that is being installed is not below the one in force.
LEMMA ActivateRetentionMaps == ASSUME IInv, IInv', Mapped, ActivateRetention PROVE Mapped' /\ Abstract
<1> PICK requested \in 0 .. next :
      manifest' = [active |-> active, floor |-> RetentionBoundary(requested)]
  BY DEF ActivateRetention, Rename
<1> DEFINE f == RetentionBoundary(requested)
           bases == {b \in closed \cup {active} : b <= requested} \cup {floor}
<1>1. /\ phase = "idle" /\ phase' = "floor_sync"
      /\ UNCHANGED <<segments, removed, frames, durableManifest, acked, lastId>>
  BY DEF ActivateRetention, history
<1>2. /\ manifest.active = active /\ manifest.floor = floor /\ floor <= active
      /\ manifest = durableManifest
      /\ closed = {b \in segments : b < active} /\ segments \subseteq Nat
      /\ active \in Nat /\ floor \in Nat /\ durableManifest.floor \in Nat
  BY <1>1 DEF IInv, TypeOK, Manifest, Position, MemorySound, Serving, Settled
<1>3. floor <= f
  <2>a. /\ closed = {b \in segments : b < active} /\ segments \subseteq Nat
        /\ active \in Nat /\ floor \in Nat /\ floor <= active
    BY <1>2
  <2>1. bases \in SUBSET Nat /\ bases # {} /\ \A b \in bases : b <= active
    <3>1. \A b \in closed \cup {active} : b \in Nat /\ b <= active BY <2>a
    <3>2. floor \in bases OBVIOUS
    <3>3. \A b \in bases : b \in closed \cup {active} \/ b = floor OBVIOUS
    <3> QED BY <3>1, <3>2, <3>3, <2>a
  <2>2. \E b \in bases : \A c \in bases : c <= b BY <2>1, <2>a, LargestExists
  <2>3. f = CHOOSE b \in bases : \A c \in bases : c <= b BY DEF RetentionBoundary
  <2> HIDE DEF f
  <2> QED BY <2>2, <2>3
<1>4. manifest'.active = active /\ manifest'.floor = f OBVIOUS
<1> HIDE DEF f
<1>5. Head0' = Head0 BY <1>1, <1>2, <1>4 DEF Head0
<1>6. HeadsAgree' BY <1>1, <1>5 DEF Mapped, HeadsAgree
<1>7. (\A b \in Position : Kept(b)) /\ SameFiles BY <1>1 DEF Kept, SameFiles
<1>8. Written' = Written /\ Gone' = Gone /\ IdsOrdered' /\ IdsBounded'
  BY <1>1, <1>7, IntactShown, SameShown DEF IInv, Mapped
<1>9. FloorsOrdered' BY <1>1, <1>2, <1>3, <1>4 DEF Mapped, FloorsOrdered
<1>10. Abstract BY <1>1, <1>2, <1>5, <1>8 DEF Abstract, Same, NoLowerFloor
<1> QED BY <1>6, <1>8, <1>9, <1>10 DEF Mapped

\* Files below the floor go, and with them frames below it alone.
LEMMA ReclaimMaps == ASSUME IInv, IInv', Mapped, Reclaim PROVE Mapped' /\ Abstract
<1> PICK gone \in SUBSET {b \in closed : b < floor} :
      segments' = segments \ gone /\ removed' = removed \cup gone
  BY DEF Reclaim
<1>1. /\ phase = "reclaim" /\ phase' = "idle"
      /\ UNCHANGED <<frames, manifest, durableManifest, acked, lastId>>
  BY DEF Reclaim, history
<1>2. /\ manifest = durableManifest /\ manifest.active = active /\ manifest.floor = floor
      /\ closed = {b \in segments : b < active} /\ segments \subseteq Position
      /\ active \in Position /\ floor \in Nat
      /\ \A b \in Position : b \in Nat
  BY <1>1 DEF IInv, TypeOK, Manifest, Position, MemorySound, Serving, Settled
<1>3. gone \subseteq segments /\ \A b \in gone : b < floor /\ b \in Position BY <1>2
<1>4. /\ \A b \in Position : Kept(b) /\ IntactOf(b)' = IntactOf(b)
      /\ IdsOrdered' /\ IdsBounded' /\ Head0' = Head0 /\ HeadsAgree' /\ FloorsOrdered'
  <2>1. \A b \in Position : Kept(b) /\ IntactOf(b)' = IntactOf(b) BY <1>1 DEF Kept, IntactOf
  <2>2. IdsOrdered' /\ IdsBounded' BY <1>1, <2>1, IntactShown DEF IInv, Mapped
  <2>3. Head0' = Head0 /\ HeadsAgree' /\ FloorsOrdered'
    BY <1>1 DEF Head0, HeadsAgree, FloorsOrdered, Mapped
  <2> QED BY <2>1, <2>2, <2>3
<1>5. Written' \subseteq Written BY <1>2, <1>4 DEF Written
<1>6. ASSUME NEW b \in gone, NEW fr \in IntactOf(b)
      PROVE  fr \in Written /\ fr \notin Written' /\ ~Above(fr, floor)
  <2>1. PICK i \in 1 .. Intact(frames[b]) : frames[b][i] = fr BY <1>6 DEF IntactOf
  <2>2. b \in Position /\ b < floor /\ b \in segments BY <1>3
  <2>3. i \in 1 .. Len(frames[b]) /\ fr \in Frame BY <2>1, <2>2, IntactTyped DEF IInv
  <2>4. fr \in Written BY <2>2, <1>6 DEF Written
  <2>5. fr \notin Written'
    <3>1. SUFFICES ASSUME fr \in Written' PROVE FALSE OBVIOUS
    <3>2. PICK c \in segments \ gone : fr \in IntactOf(c) BY <3>1, <1>2, <1>4 DEF Written
    <3>3. PICK j \in 1 .. Intact(frames[c]) : frames[c][j] = fr BY <3>2 DEF IntactOf
    <3>4. c \in Position /\ c # b /\ c \in Nat /\ b \in Nat BY <1>2, <2>2, <1>6
    <3>5. b < c \/ c < b BY <3>4
    <3>6. fr.id \in Nat BY <2>3, BoundsAssumption DEF Frame
    <3>7. CASE b < c BY <3>7, <3>3, <3>4, <3>6, <2>1, <2>2 DEF Mapped, IdsOrdered
    <3>8. CASE c < b BY <3>8, <3>3, <3>4, <3>6, <2>1, <2>2 DEF Mapped, IdsOrdered
    <3> QED BY <3>5, <3>7, <3>8
  <2>6. End(fr) <= floor BY <2>1, <2>2, <2>3, <1>2 DEF IInv, ManifestSound, Files
  <2>7. End(fr) \in Nat BY <2>3 DEF Frame, Position, End
  <2>8. floor # 0 BY <2>2, <1>2
  <2> QED BY <2>4, <2>5, <2>6, <2>7, <2>8, <1>2 DEF Above
<1>7. \A fr \in Written \ Written' : \E b \in gone : fr \in IntactOf(b)
  BY <1>2, <1>4 DEF Written
<1>8. Gone' = Gone \cup (Written \ Written')
  <2>1. removed \subseteq Position BY DEF IInv, TypeOK
  <2>2. \A fr : fr \in Gone' <=> fr \in Gone \/ \E b \in gone : fr \in IntactOf(b)
    BY <2>1, <1>3, <1>4 DEF Gone
  <2> QED BY <2>2, <1>6, <1>7
<1>9. \A fr \in Written \ Written' : ~Above(fr, durableManifest.floor) BY <1>2, <1>6, <1>7
<1>10. Abstract BY <1>1, <1>4, <1>5, <1>8, <1>9 DEF Abstract, Discards, SameFloor
<1> QED BY <1>4, <1>10 DEF Mapped

----------------------------------------------------------------------------
(* Appending and committing *)

\* A frame goes to the head, behind all others.
LEMMA AppendFrameMaps ==
  ASSUME IInv, IInv', Mapped, NEW n \in Nat, AppendFrame(n) PROVE Mapped' /\ Abstract
<1> DEFINE fr == [id |-> lastId + 1, first |-> next, count |-> n, whole |-> TRUE]
           len == Len(frames[active])
<1>1. /\ phase \in {"idle", "rolled"} /\ phase' = "idle"
      /\ frames' = [frames EXCEPT ![active] = Append(@, fr)]
      /\ lastId' = lastId + 1
      /\ UNCHANGED <<segments, removed, manifest, durableManifest, active, acked>>
  BY DEF AppendFrame, MayWrite
<1>2. /\ manifest = durableManifest /\ manifest.active = active /\ active \in segments
      /\ active \in Position /\ HeadOf(active) /\ lastId \in Nat
      /\ next \in Nat /\ active \notin removed /\ segments \subseteq Position
      /\ \A b \in Files : b > active => frames[b] = <<>>
      /\ \A b \in Position : b \in Nat
  <2>1. /\ manifest = durableManifest /\ manifest.active = active /\ active \in segments
        /\ HeadOf(active) /\ removed \cap segments = {}
    BY <1>1 DEF IInv, MemorySound, Serving, Settled
  <2>2. active \in Position /\ lastId \in Nat /\ next \in Nat /\ segments \subseteq Position
    BY BoundsAssumption DEF IInv, TypeOK, Position
  <2>3. \A b \in Files : b > active => frames[b] = <<>> BY <2>1 DEF IInv, ManifestSound
  <2> QED BY <2>1, <2>2, <2>3 DEF Position
<1>3. \A b \in Position : /\ Intact(frames[b]) = Len(frames[b]) /\ Len(frames[b]) \in Nat
                          /\ frames[b] = <<>> <=> Len(frames[b]) = 0
                          /\ \A i \in 1 .. Intact(frames[b]) : frames[b][i].id \in Nat
  <2>1. \A b \in Position : Intact(frames[b]) = Len(frames[b]) BY <1>1, NoneTorn
  <2>2. \A g \in Frame : g.id \in Nat BY BoundsAssumption DEF Frame
  <2> QED BY <2>1, <2>2, IntactTyped DEF IInv
<1>4. /\ frames'[active] = Append(frames[active], fr)
      /\ \A b \in Position \ {active} : frames'[b] = frames[b]
  BY <1>1, <1>2 DEF IInv, TypeOK
<1>5. /\ Len(frames'[active]) = len + 1
      /\ frames'[active][len + 1] = fr
      /\ \A i \in 1 .. len : frames'[active][i] = frames[active][i]
      /\ frames'[active] # <<>>
  <2>1. frames[active] \in Seq(Frame) BY <1>2 DEF IInv, TypeOK
  <2> HIDE DEF fr
  <2>2. /\ Len(Append(frames[active], fr)) = len + 1
        /\ Append(frames[active], fr)[len + 1] = fr
        /\ \A i \in 1 .. len : Append(frames[active], fr)[i] = frames[active][i]
        /\ Append(frames[active], fr) # <<>>
    BY <2>1
  <2> QED BY <2>2, <1>4
<1>n. /\ len \in Nat /\ Intact(frames[active]) = len
      /\ \A i \in 1 .. len + 1 : i = len + 1 \/ i \in 1 .. len
  <2>1. len \in Nat BY <1>2, <1>3
  <2> QED BY <2>1, <1>2, <1>3
<1> HIDE DEF fr
<1>f. fr.id = lastId + 1 /\ fr.first = next /\ fr.count = n /\ fr.whole BY DEF fr
<1>6. Intact(frames'[active]) = len + 1 BY <1>5, <1>f DEF Intact
<1>7. Written' = Written \cup {fr}
  <2>1. ASSUME NEW b \in segments, b = active PROVE IntactOf(b)' = IntactOf(b) \cup {fr}
    <3>1. \A i \in 1 .. len + 1 : i = len + 1 \/ i \in 1 .. len BY <1>n
    <3>2. len + 1 \in 1 .. len + 1 /\ \A i \in 1 .. len : i \in 1 .. len + 1 BY <1>n
    <3> HIDE DEF len
    <3>3. \A g : g \in IntactOf(b)' <=> \E i \in 1 .. len + 1 : frames'[active][i] = g
      BY <2>1, <1>6, IntactAre
    <3>4. \A g : g \in IntactOf(b) <=> \E i \in 1 .. len : frames[active][i] = g
      BY <2>1, <1>n, IntactAre
    <3> QED BY <3>1, <3>2, <3>3, <3>4, <1>5
  <2>2. \A b \in segments \ {active} : IntactOf(b)' = IntactOf(b) BY <1>2, <1>4 DEF IntactOf
  <2>3. ASSUME NEW g \in Written' PROVE g \in Written \cup {fr}
    <3>1. PICK b \in segments : g \in IntactOf(b)' BY <1>1 DEF Written
    <3>2. CASE b = active
      <4>1. g \in IntactOf(b) \cup {fr} BY <3>1, <3>2, <2>1
      <4> QED BY <4>1 DEF Written
    <3>3. CASE b # active
      <4>1. g \in IntactOf(b) BY <3>1, <3>3, <2>2
      <4> QED BY <4>1 DEF Written
    <3> QED BY <3>2, <3>3
  <2>4. ASSUME NEW g \in Written \cup {fr} PROVE g \in Written'
    <3>1. CASE g = fr
      <4>1. PICK b \in segments : b = active BY <1>2
      <4>2. g \in IntactOf(b)' BY <3>1, <4>1, <2>1
      <4> QED BY <4>2, <1>1 DEF Written
    <3>2. CASE g \in Written
      <4>1. PICK b \in segments : g \in IntactOf(b) BY <3>2 DEF Written
      <4>2. g \in IntactOf(b)'
        <5>1. CASE b = active BY <4>1, <5>1, <2>1
        <5>2. CASE b # active BY <4>1, <5>2, <2>2
        <5> QED BY <5>1, <5>2
      <4> QED BY <4>2, <1>1 DEF Written
    <3> QED BY <3>1, <3>2
  <2> QED BY <2>3, <2>4
<1>g. Gone' = Gone
  <2>1. \A b \in removed : IntactOf(b)' = IntactOf(b)
    <3>1. removed \subseteq Position BY DEF IInv, TypeOK
    <3> QED BY <3>1, <1>2, <1>4 DEF IntactOf
  <2> QED BY <2>1, <1>1 DEF Gone
<1>8. ASSUME NEW old \in Written \cup acked PROVE old.id < fr.id
  <2>1. old.id \in Nat /\ old.id <= lastId
    <3>1. CASE old \in acked BY <3>1, BoundsAssumption DEF IInv, TypeOK, Frame, Mapped, IdsBounded
    <3>2. CASE old \in Written BY <3>2, <1>2, <1>3, WrittenAre DEF Mapped, IdsBounded
    <3> QED BY <3>1, <3>2
  <2> QED BY <2>1, <1>2, <1>f
<1>9. Head0 = next BY <1>1, <1>2, NoneTorn DEF Head0
<1>10. Head0' = End(fr)
  <2>1. Head0' = HeadAt(frames'[active], active) BY <1>1, <1>2 DEF Head0
  <2>2. len + 1 # 0 BY <1>2, <1>3
  <2>3. HeadAt(frames'[active], active) = End(frames'[active][len + 1]) BY <2>2, <1>6 DEF HeadAt
  <2> QED BY <2>1, <2>3, <1>5 DEF End
<1>11. IdsBounded'
  <2>1. \A b \in Position : \A i \in 1 .. Intact(frames[b]) : frames[b][i].id <= lastId + 1
    BY <1>2, <1>3 DEF Mapped, IdsBounded
  <2>3. \A i \in 1 .. len + 1 : frames'[active][i].id <= lastId + 1
    <3>1. lastId + 1 <= lastId + 1 BY <1>2
    <3>2. ASSUME NEW i \in 1 .. len PROVE frames'[active][i].id <= lastId + 1
      BY <3>2, <2>1, <1>2, <1>5, <1>n
    <3> QED BY <3>1, <3>2, <1>5, <1>f, <1>n
  <2>4. \A g \in acked : g.id <= lastId + 1
    <3>1. \A g \in acked : g.id \in Nat BY BoundsAssumption DEF IInv, TypeOK, Frame
    <3> QED BY <3>1, <1>2 DEF Mapped, IdsBounded
  <2> QED BY <2>1, <2>3, <2>4, <1>1, <1>4, <1>6 DEF IdsBounded
<1>12. IdsOrdered'
  <2>1. ASSUME NEW b \in Position, NEW i \in 1 .. Intact(frames'[b]), NEW j \in 1 .. Intact(frames'[b]), i < j
        PROVE  frames'[b][i].id < frames'[b][j].id
    <3>1. CASE b # active BY <3>1, <2>1, <1>4 DEF Mapped, IdsOrdered
    <3>2. CASE b = active /\ j = len + 1
      <4>1. i \in 1 .. len BY <3>2, <2>1, <1>2, <1>3, <1>6
      <4>2. frames'[b][i] = frames[active][i] /\ frames[active][i].id < fr.id
        <5>1. frames[active][i] \in Written BY <4>1, <1>2, <1>n, WrittenAre
        <5> QED BY <5>1, <4>1, <3>2, <1>5, <1>8
      <4> QED BY <4>2, <3>2, <1>5
    <3>3. CASE b = active /\ j # len + 1
      <4>1. i \in 1 .. len /\ j \in 1 .. len BY <3>3, <2>1, <1>6, <1>n
      <4> QED BY <4>1, <3>3, <2>1, <1>2, <1>5, <1>n, SMTT(30) DEF Mapped, IdsOrdered
    <3> QED BY <3>1, <3>2, <3>3
  <2>2. ASSUME NEW b \in Position, NEW c \in Position, b < c,
               NEW i \in 1 .. Intact(frames'[b]), NEW j \in 1 .. Intact(frames'[c])
        PROVE  frames'[b][i].id < frames'[c][j].id
    <3>1. CASE b # active /\ c # active BY <3>1, <2>2, <1>4 DEF Mapped, IdsOrdered
    <3>2. CASE c = active
      <4>1. b # active BY <3>2, <2>2, <1>2
      <4>2. frames'[b] = frames[b] BY <4>1, <1>4
      <4>3. CASE j = len + 1
        <5>1. i \in 1 .. Intact(frames[b]) /\ frames[b][i].id \in Nat BY <4>2, <1>3
        <5>2. frames[b][i].id <= lastId BY <5>1 DEF Mapped, IdsBounded
        <5>3. frames[b][i].id < fr.id BY <5>1, <5>2, <1>2, <1>f
        <5> QED BY <5>3, <4>2, <4>3, <3>2, <1>5
      <4>4. CASE j # len + 1
        <5>1. j \in 1 .. len BY <4>4, <3>2, <1>2, <1>3, <1>6, SMTT(30)
        <5> QED BY <5>1, <4>2, <3>2, <2>2, <1>2, <1>3, <1>5 DEF Mapped, IdsOrdered
      <4> QED BY <4>3, <4>4
    <3>3. CASE b = active /\ c # active
      <4>1. frames[c] = <<>>
        <5>1. CASE c \in Files BY <5>1, <3>3, <2>2, <1>2
        <5>2. CASE c \notin Files BY <5>2 DEF IInv, FilesChained
        <5> QED BY <5>1, <5>2
      <4>2. Intact(frames'[c]) = 0 BY <4>1, <3>3, <1>3, <1>4
      <4> QED BY <4>2
    <3> QED BY <3>1, <3>2, <3>3
  <2> QED BY <2>1, <2>2 DEF IdsOrdered
<1>13. FloorsOrdered' BY <1>1, <1>2 DEF Mapped, FloorsOrdered
<1>14. HeadsAgree' BY <1>1, <1>2 DEF HeadsAgree, Head0
<1>15. Abstract
  <2>1. fr \in Written' BY <1>7
  <2> QED BY <2>1, <1>1, <1>7, <1>g, <1>8, <1>9, <1>10, <1>f DEF Abstract, Writes, SameFloor
<1> QED BY <1>11, <1>12, <1>13, <1>14, <1>15 DEF Mapped

\* What commit acknowledges is everything a caller sees.
LEMMA CommitMaps == ASSUME IInv, IInv', Mapped, Commit PROVE Mapped' /\ Abstract
<1>1. /\ phase = "idle" /\ phase' = "idle" /\ acked' = acked \cup Readable
      /\ UNCHANGED <<segments, removed, frames, manifest, durableManifest, active, closed, lastId>>
  BY DEF Commit, memory
<1>2. /\ closed \cup {active} = segments /\ segments \subseteq Position
  <2>1. /\ closed = {b \in segments : b < active} /\ active \in segments
        /\ \A b \in segments : b <= active
        /\ segments \subseteq Nat /\ segments \subseteq Position
    BY <1>1 DEF IInv, TypeOK, Position, MemorySound, Serving
  <2>2. \A b \in segments : b < active \/ b = active BY <2>1
  <2> QED BY <2>1, <2>2
<1>3. \A b \in Position : Intact(frames[b]) = Len(frames[b]) BY <1>1, NoneTorn
<1>4. \A b \in Position : \A i \in 1 .. Len(frames[b]) : frames[b][i].whole
  BY <1>1 DEF IInv, TornOnlyAtTail
<1>5. Readable = Written
  <2>1. \A fr : fr \in Readable <=> \E b \in segments : \E i \in 1 .. Len(frames[b]) : frames[b][i] = fr
    BY <1>2, <1>4 DEF Readable, InFile
  <2>2. \A fr : fr \in Written <=> \E b \in segments : \E i \in 1 .. Len(frames[b]) : frames[b][i] = fr
    BY <1>2, <1>3, WrittenAre
  <2> QED BY <2>1, <2>2 DEF Readable, Written
<1>6. (\A b \in Position : Kept(b)) /\ SameFiles BY <1>1 DEF Kept, SameFiles
<1>7. Written' = Written /\ Gone' = Gone /\ IdsOrdered' BY <1>6, IntactShown, SameShown DEF IInv, Mapped
<1>8. IdsBounded'
  <2>1. \A fr \in Written : fr.id <= lastId BY <1>2, WrittenAre DEF Mapped, IdsBounded
  <2> QED BY <2>1, <1>1, <1>5 DEF Mapped, IdsBounded
<1>9. Head0' = Head0 /\ HeadsAgree' BY <1>1 DEF Head0, Mapped, HeadsAgree
<1>10. FloorsOrdered' BY <1>1 DEF Mapped, FloorsOrdered
<1>11. Abstract BY <1>1, <1>5, <1>7, <1>9 DEF Abstract, Commits, SameFloor
<1> QED BY <1>7, <1>8, <1>9, <1>10, <1>11 DEF Mapped

----------------------------------------------------------------------------
(* Ending *)

\* A close leaves the disk alone.
LEMMA CloseMaps == ASSUME IInv, IInv', Mapped, Close PROVE Mapped' /\ Abstract
<1>1. /\ UNCHANGED <<segments, removed, frames, manifest, durableManifest, acked, lastId>>
      /\ phase' = "down"
  BY DEF Close, disk, history
<1> QED BY <1>1, Quiet DEF Kept, SameFiles

\* A kill leaves at most a torn frame.
LEMMA KillMaps == ASSUME IInv, IInv', Mapped, Kill PROVE Mapped' /\ Abstract
<1>1. /\ phase # "down" /\ phase' = "down"
      /\ UNCHANGED <<segments, removed, manifest, durableManifest, acked, lastId>>
      /\ SameFiles
  BY DEF Kill, SameFiles
<1>2. CASE UNCHANGED frames
  BY <1>1, <1>2, Quiet DEF Kept
<1>3. CASE MayWrite /\ frames' = [frames EXCEPT ![active] = Append(@, Torn)]
  <2> DEFINE len == Len(frames[active])
  <2>1. phase \in {"idle", "rolled"} /\ active \in Position
    BY <1>3 DEF MayWrite, IInv, TypeOK
  <2>2. Intact(frames[active]) = len /\ len \in Nat /\ frames[active] \in Seq(Frame)
    BY <2>1, NoneTorn, IntactTyped DEF IInv
  <2>3. /\ Len(Append(frames[active], Torn)) = len + 1
        /\ Append(frames[active], Torn)[len + 1] = Torn
        /\ \A i \in 1 .. len : Append(frames[active], Torn)[i] = frames[active][i]
        /\ Append(frames[active], Torn) # <<>>
    BY <2>2
  <2>4. /\ frames'[active] = Append(frames[active], Torn)
        /\ \A b \in Position \ {active} : frames'[b] = frames[b]
    BY <1>3, <2>1 DEF IInv, TypeOK
  <2>5. ~Torn.whole BY DEF Torn
  <2>6. Intact(frames'[active]) = (len + 1) - 1 BY <2>3, <2>4, <2>5 DEF Intact
  <2>7. (len + 1) - 1 = len BY <2>2
  <2>8. \A b \in Position : Kept(b)
    <3> TAKE b \in Position
    <3>1. CASE b = active BY <3>1, <2>2, <2>3, <2>4, <2>6, <2>7 DEF Kept
    <3>2. CASE b # active BY <3>2, <2>4 DEF Kept
    <3> QED BY <3>1, <3>2
  <2> QED BY <1>1, <2>8, Quiet
<1> QED BY <1>2, <1>3 DEF Kill

\* A power loss takes frames from the end of the active file alone, and brings
\* back files that were removed since the last roll.
LEMMA PowerLossMaps == ASSUME IInv, IInv', Mapped, PowerLoss, ~reverted' PROVE Mapped' /\ Abstract
<1> PICK kept \in [Dirty -> 0 .. MaxFrames + 1], torn \in SUBSET Dirty,
         lost \in SUBSET (segments \ linked), back \in SUBSET removed :
      /\ \A b \in Dirty : /\ synced[b] <= kept[b]
                          /\ kept[b] <= Len(frames[b])
                          /\ kept[b] > 0 => frames[b][kept[b]].whole
                          /\ b \in torn => kept[b] < Len(frames[b])
      /\ segments' = (segments \ lost) \cup back
      /\ linked' = (segments \ lost) \cup back
      /\ frames' = [b \in Position |->
                      IF b \in lost \cup (removed \ back) THEN <<>>
                      ELSE IF b \notin Dirty THEN frames[b]
                      ELSE SubSeq(frames[b], 1, kept[b])
                             \o (IF b \in torn THEN <<Torn>> ELSE <<>>)]
      /\ synced' = [b \in Position |->
                      IF b \in lost \cup (removed \ back) THEN 0
                      ELSE IF b \notin Dirty THEN synced[b]
                      ELSE kept[b]]
  BY DEF PowerLoss
<1>1. /\ phase' = "down" /\ UNCHANGED <<acked, lastId>> /\ removed' = {}
      /\ manifest' = durableManifest'
      /\ durableManifest' \in {manifest, durableManifest}
  <2>1. \E m \in {manifest, durableManifest} : manifest' = m /\ durableManifest' = m BY DEF PowerLoss
  <2>2. phase' = "down" /\ acked' = acked /\ lastId' = lastId /\ removed' = {} BY DEF PowerLoss
  <2> QED BY <2>1, <2>2
<1> DEFINE m == durableManifest'
           a == manifest.active
           returned == UNION {IntactOf(b) : b \in back}
<1>2. /\ NoLowerFloor
      /\ m.active \in Position /\ a \in Position /\ a \in segments
      /\ HeadAt(frames[m.active], m.active) = Head0
      /\ segments \subseteq Position /\ removed \subseteq Position /\ removed \cap segments = {}
      /\ \A b \in Position : b \in Nat
  <2>1. m.floor \in Nat /\ durableManifest.floor <= m.floor /\ m.active \in Position
    BY <1>1, SMTT(30) DEF IInv, TypeOK, Manifest, Position, Mapped, FloorsOrdered
  <2>2. HeadAt(frames[m.active], m.active) = Head0
    BY <1>1 DEF Mapped, HeadsAgree, Head0
  <2>3. a \in Position /\ a \in segments /\ segments \subseteq Position /\ removed \subseteq Position
    BY DEF IInv, TypeOK, Manifest, ManifestSound
  <2>4. removed \cap segments = {} BY DEF IInv, Settled
  <2>5. \A b \in Position : b \in Nat BY DEF Position
  <2> QED BY <2>1, <2>2, <2>3, <2>4, <2>5 DEF NoLowerFloor
<1>3. \A b \in lost : frames[b] = <<>> /\ b \notin Dirty /\ b # a
  <2>1. \A b \in lost : frames[b] = <<>> /\ b \in Position /\ b > a
    <3>1. \A b \in segments \ linked : b > a BY DEF IInv, Settled
    <3>2. \A b \in segments : b > a => frames[b] = <<>> BY DEF IInv, ManifestSound, Files
    <3> QED BY <3>1, <3>2, <1>2
  <2>2. \A b \in Position : frames[b] = <<>> => ~(synced[b] < Len(frames[b]))
    <3>1. \A b \in Position : frames[b] = <<>> => Len(frames[b]) = 0 BY IntactTyped DEF IInv
    <3>2. \A b \in Position : synced[b] \in Nat BY DEF IInv, TypeOK
    <3> QED BY <3>1, <3>2
  <2> QED BY <2>1, <2>2, <1>2 DEF Dirty
<1>4. \A b \in Dirty : b = a /\ b = durableManifest.active /\ b \in Position
  BY DEF Dirty, IInv, TypeOK, DirtyOnlyActive
<1>5. /\ \A b \in Position : b \notin Dirty /\ b \notin removed \ back => frames'[b] = frames[b]
      /\ \A b \in removed \ back : frames'[b] = <<>> /\ b # a
  BY <1>2, <1>3
<1>e. \A b \in removed \ back : Erased(b)
  <2>1. Intact(<<>>) = 0 BY DEF Intact
  <2>2. \A b \in removed \ back : frames'[b] = <<>> BY <1>5
  <2> QED BY <2>1, <2>2 DEF Erased
<1>6. FloorsOrdered' /\ HeadsAgree'
  BY <1>1, <1>2 DEF FloorsOrdered, HeadsAgree, Head0, NoLowerFloor
<1>7. Head0' = HeadAt(frames'[m.active], m.active) BY <1>1 DEF Head0
<1>b. /\ returned \in SUBSET Gone
      /\ Gone' = {}
      /\ \A fr : fr \in Written' <=>
            fr \in returned \/ \E b \in segments : \E i \in 1 .. Intact(frames'[b]) : frames'[b][i] = fr
  <2>1. \A b \in back : frames'[b] = frames[b] BY <1>2, <1>4, <1>5
  <2>2. \A b \in lost : Intact(frames'[b]) = 0
    <3>1. \A b \in lost : frames'[b] = <<>> BY <1>2
    <3>2. Intact(<<>>) = 0 BY DEF Intact
    <3> QED BY <3>1, <3>2
  <2>3. \A fr : fr \in returned <=> \E b \in back : \E i \in 1 .. Intact(frames[b]) : frames[b][i] = fr
    BY DEF IntactOf
  <2>5. returned \in SUBSET Gone BY DEF Gone
  <2>6. Gone' = {} BY <1>1 DEF Gone
  <2> HIDE DEF returned
  <2>7. ASSUME NEW fr
        PROVE  fr \in Written' <=> fr \in returned \/
                 \E b \in segments : \E i \in 1 .. Intact(frames'[b]) : frames'[b][i] = fr
    <3>1. fr \in Written' <=> \E b \in segments' : \E i \in 1 .. Intact(frames'[b]) : frames'[b][i] = fr
      BY WrittenAre
    <3>2. ASSUME NEW b \in lost PROVE ~ \E i \in 1 .. Intact(frames'[b]) : frames'[b][i] = fr
      <4>1. Intact(frames'[b]) = 0 BY <2>2
      <4>2. 1 .. 0 = {} OBVIOUS
      <4> QED BY ONLY <4>1, <4>2
    <3>3. fr \in returned <=> \E b \in back : \E i \in 1 .. Intact(frames'[b]) : frames'[b][i] = fr
      <4>1. ASSUME NEW b \in back
            PROVE  (\E i \in 1 .. Intact(frames'[b]) : frames'[b][i] = fr) <=>
                   (\E i \in 1 .. Intact(frames[b]) : frames[b][i] = fr)
        <5>1. frames'[b] = frames[b] BY <2>1
        <5> QED BY ONLY <5>1
      <4> QED BY ONLY <4>1, <2>3
    <3>4. segments' = (segments \ lost) \cup back OBVIOUS
    <3> QED BY ONLY <3>1, <3>2, <3>3, <3>4
  <2> QED BY <2>5, <2>6, <2>7
<1> HIDE DEF returned
<1>8. CASE Kept(a)
  <2>0. \A b \in Position : b \notin removed \ back => Kept(b)
    <3> SUFFICES ASSUME NEW b \in Position, b \notin removed \ back PROVE Kept(b)
      OBVIOUS
    <3>1. CASE b \in Dirty
      <4>1. b = a BY <3>1, <1>4
      <4> QED BY <4>1, <1>8
    <3>2. CASE b \notin Dirty
      <4>1. frames'[b] = frames[b] BY <3>2, <1>5
      <4> QED BY <4>1 DEF Kept
    <3> QED BY <3>1, <3>2
  <2>1. \A b \in Position : Kept(b) \/ Erased(b) BY <2>0, <1>e
  <2>2. \A b \in segments : Kept(b) BY <2>0, <1>2
  <2>3. /\ IdsOrdered' /\ IdsBounded'
        /\ \A b \in segments : IntactOf(b)' = IntactOf(b)
        /\ \A b \in Position : Kept(b) => HeadAt(frames'[b], b) = HeadAt(frames[b], b)
    BY <1>1, <1>2, <2>1, <2>2, IntactShown DEF IInv, Mapped
  <2>4. Kept(m.active) BY <1>1, <2>2 DEF IInv, TypeOK, ManifestSound
  <2>5. Head0' = Head0 BY <1>2, <1>7, <2>3, <2>4
  <2>6. Written' = Written \cup returned
    <3>1. ASSUME NEW b \in segments, NEW fr
          PROVE  (\E i \in 1 .. Intact(frames'[b]) : frames'[b][i] = fr) <=>
                 (\E i \in 1 .. Intact(frames[b]) : frames[b][i] = fr)
      BY <2>2 DEF Kept
    <3>2. \A fr : fr \in Written' <=> fr \in Written \/ fr \in returned
      BY ONLY <3>1, <1>b, WrittenAre
    <3> QED BY <3>2
  <2>7. Abstract BY <1>1, <1>2, <1>b, <2>5, <2>6 DEF Abstract, Crashes
  <2> QED BY <1>6, <2>3, <2>7 DEF Mapped
<1>9. CASE ~Kept(a)
  <2> DEFINE k == kept[a]
             n == Intact(frames[a])
             fs == SubSeq(frames[a], 1, k)
             tail == IF a \in torn THEN <<Torn>> ELSE <<>>
  <2>1. a \in Dirty
    <3>1. ~(a \notin Dirty /\ a \notin removed \ back) BY <1>2, <1>5, <1>9 DEF Kept
    <3> QED BY <3>1, <1>2
  <2>2. /\ k \in Nat /\ k <= Len(frames[a]) /\ synced[a] <= k
        /\ k > 0 => frames[a][k].whole
        /\ a \notin lost /\ a \notin removed
        /\ m.active = a
    BY <2>1, <1>1, <1>2, <1>3, <1>4
  <2>3. /\ frames[a] \in Seq(Frame) /\ Len(frames[a]) \in Nat /\ n \in 0 .. Len(frames[a])
        /\ \A i \in 1 .. n : frames[a][i] \in Frame
        /\ \A i \in 1 .. n : Follows(a, i)
    BY <1>2, IntactTyped, ScanIsIntact DEF IInv
  <2> HIDE DEF k, n
  <2>4. k <= n
    <3>1. CASE k = 0 BY <3>1, <2>3
    <3>2. CASE k > 0
      <4>1. n = Len(frames[a]) \/ (n = Len(frames[a]) - 1 /\ ~frames[a][Len(frames[a])].whole)
        BY DEF n, Intact
      <4> QED BY <4>1, <3>2, <2>2, <2>3
    <3> QED BY <3>1, <3>2, <2>2
  <2>5. frames'[a] = fs \o tail BY <1>2, <2>1, <2>2 DEF k
  <2>6. /\ Len(fs) = k /\ fs \in Seq(Frame)
        /\ \A i \in 1 .. k : fs[i] = frames[a][i]
    <3>1. \A i \in 1 .. k : i \in 1 .. Len(frames[a]) BY <2>2, <2>3
    <3> QED BY <3>1, <2>2, <2>3
  <2> HIDE DEF fs
  <2>7. Intact(frames'[a]) = k /\ \A i \in 1 .. k : frames'[a][i] = frames[a][i]
    <3>1. CASE a \in torn
      <4>1. frames'[a] = fs \o <<Torn>> BY <3>1, <2>5
      <4>2. /\ Len(fs \o <<Torn>>) = k + 1 /\ (fs \o <<Torn>>)[k + 1] = Torn
            /\ \A i \in 1 .. k : (fs \o <<Torn>>)[i] = fs[i]
            /\ fs \o <<Torn>> # <<>>
        <5>1. Torn \in Frame BY TornTyped
        <5> QED BY <5>1, <2>2, <2>6
      <4>3. ~Torn.whole /\ (k + 1) - 1 = k BY <2>2 DEF Torn
      <4>4. Intact(frames'[a]) = k BY <4>1, <4>2, <4>3 DEF Intact
      <4> QED BY <4>1, <4>2, <4>4, <2>6
    <3>2. CASE a \notin torn
      <4>1. frames'[a] = fs BY <3>2, <2>5, <2>6
      <4>2. k = 0 \/ (k \in 1 .. k /\ fs[k].whole) BY <2>2, <2>6
      <4>3. fs # <<>> => k # 0 BY <2>6
      <4>4. Intact(fs) = k BY <4>2, <4>3, <2>6 DEF Intact
      <4> QED BY <4>1, <4>4, <2>6
    <3> QED BY <3>1, <3>2
  <2>8. \A b \in Position \ {a} : b \notin removed \ back => frames'[b] = frames[b] BY <1>4, <1>5
  <2>9. k < n
    <3>1. CASE k = n
      <4> QED BY <3>1, <2>7, <1>9 DEF n, Kept
    <3> QED BY <3>1, <2>2, <2>3, <2>4
  <2> DEFINE oldest == frames[a][k + 1]
  <2>10. /\ k + 1 \in 1 .. n /\ oldest \in Written
         /\ \A i \in 1 .. k : i \in 1 .. n /\ i < k + 1
         /\ oldest \in Frame /\ Follows(a, k + 1)
    <3>1. k + 1 \in 1 .. n /\ \A i \in 1 .. k : i \in 1 .. n /\ i < k + 1 BY <2>2, <2>3, <2>9
    <3>2. oldest \in Written BY <3>1, <1>2, WrittenAre DEF n
    <3> QED BY <3>1, <3>2, <2>3
  <2>11. ASSUME NEW b \in Position, b # a, NEW i \in 1 .. Intact(frames[b])
         PROVE  frames[b][i].id < oldest.id
    <3>1. CASE b > a
      <4>1. frames[b] = <<>>
        <5>1. CASE b \in Files BY <5>1, <3>1 DEF IInv, ManifestSound
        <5>2. CASE b \notin Files BY <5>2 DEF IInv, FilesChained
        <5> QED BY <5>1, <5>2
      <4>2. Intact(frames[b]) = 0 BY <4>1, IntactTyped DEF IInv
      <4> QED BY <4>2
    <3>2. CASE b < a BY <3>2, <2>10, <1>2 DEF Mapped, IdsOrdered, n
    <3> QED BY <3>1, <3>2, <2>11, <1>2 DEF Position
  <2>12. ASSUME NEW b \in Position, NEW i \in 1 .. Intact(frames'[b])
         PROVE  i \in 1 .. Intact(frames[b]) /\ frames'[b][i] = frames[b][i] /\ frames[b][i].id < oldest.id
    <3>1. CASE b = a
      <4>1. i \in 1 .. k BY <3>1, <2>7
      <4>2. i \in 1 .. n /\ i < k + 1 BY <4>1, <2>10
      <4>3. frames[a][i].id < oldest.id BY <4>2, <2>10, <1>2 DEF Mapped, IdsOrdered, n
      <4> QED BY <3>1, <4>1, <4>2, <4>3, <2>7 DEF n
    <3>2. CASE b # a /\ b \notin removed \ back BY <3>2, <2>8, <2>11
    <3>3. CASE b \in removed \ back
      <4>1. Intact(frames'[b]) = 0 BY <3>3, <1>e DEF Erased
      <4>2. i \in 1 .. 0 BY <4>1, <2>12
      <4> QED BY <4>2
    <3> QED BY <3>1, <3>2, <3>3
  <2>13. Written' = {fr \in Written : fr.id < oldest.id} \cup returned
    <3>1. ASSUME NEW fr \in Written', fr \notin returned PROVE fr \in Written /\ fr.id < oldest.id
      <4>1. PICK b \in segments : \E i \in 1 .. Intact(frames'[b]) : frames'[b][i] = fr BY <3>1, <1>b
      <4>2. PICK i \in 1 .. Intact(frames'[b]) : frames'[b][i] = fr BY <4>1
      <4>3. i \in 1 .. Intact(frames[b]) /\ frames[b][i] = fr /\ fr.id < oldest.id BY <4>2, <1>2, <2>12
      <4> QED BY <4>3, WrittenAre
    <3>2. ASSUME NEW fr \in Written, fr.id < oldest.id PROVE fr \in Written'
      <4>1. PICK b \in segments : \E i \in 1 .. Intact(frames[b]) : frames[b][i] = fr BY WrittenAre
      <4>2. PICK i \in 1 .. Intact(frames[b]) : frames[b][i] = fr BY <4>1
      <4>3. CASE b # a
        <5>1. i \in 1 .. Intact(frames'[b]) /\ frames'[b][i] = fr BY <4>2, <4>3, <1>2, <2>8
        <5> QED BY <5>1, <1>b
      <4>4. CASE b = a
        <5>1. i <= k
          <6> SUFFICES ASSUME k < i PROVE FALSE BY <4>2, <2>2
          <6>1. CASE i = k + 1
            <7>1. fr = oldest BY <6>1, <4>2, <4>4
            <7>2. oldest.id \in Nat BY <2>10, BoundsAssumption DEF Frame
            <7> QED BY <7>1, <7>2, <3>2
          <6>2. CASE i # k + 1
            <7>1. k + 1 < i BY <6>2, <4>2, <2>2
            <7>2. oldest.id < fr.id BY <7>1, <4>2, <4>4, <2>10, <1>2 DEF Mapped, IdsOrdered, n
            <7>3. oldest.id \in Nat /\ fr.id \in Nat
              <8>1. fr \in Frame BY <2>3, <4>2, <4>4 DEF n
              <8>2. \A g \in Frame : g.id \in Nat BY BoundsAssumption DEF Frame
              <8> QED BY <8>1, <8>2, <2>10
            <7> QED BY <7>2, <7>3, <3>2
          <6> QED BY <6>1, <6>2
        <5>2. i \in 1 .. k BY <5>1, <4>2, <2>2
        <5>3. i \in 1 .. Intact(frames'[a]) /\ frames'[a][i] = fr BY <5>2, <4>2, <4>4, <2>7
        <5> QED BY <5>3, <1>2, <1>b
      <4> QED BY <4>3, <4>4
    <3>3. returned \subseteq Written' BY <1>b
    <3> QED BY <3>1, <3>2, <3>3
  <2>14. Head0' = oldest.first
    <3>1. Head0' = HeadAt(frames'[a], a) BY <1>7, <2>2
    <3>2. oldest.first = IF k + 1 = 1 THEN a ELSE End(frames[a][(k + 1) - 1])
      BY <2>10 DEF Follows
    <3>3. (k + 1 = 1 <=> k = 0) /\ (k + 1) - 1 = k /\ (k # 0 => k \in 1 .. k) BY <2>2
    <3>4. CASE k = 0 BY <3>1, <3>2, <3>3, <3>4, <2>7 DEF HeadAt
    <3>5. CASE k # 0
      <4>1. Head0' = End(frames'[a][k]) BY <3>1, <3>5, <2>7 DEF HeadAt
      <4>2. oldest.first = End(frames[a][k]) BY <3>2, <3>3, <3>5
      <4>3. frames'[a][k] = frames[a][k] BY <3>3, <3>5, <2>7
      <4> QED BY <4>1, <4>2, <4>3
    <3> QED BY <3>4, <3>5
  <2>15. ASSUME NEW fr \in acked, Above(fr, m.floor) PROVE fr \in Written'
    <3>1. PICK b \in linked : \E i \in 1 .. synced[b] : frames[b][i] = fr
      BY <2>15, <1>1 DEF IInv, Located
    <3>2. PICK i \in 1 .. synced[b] : frames[b][i] = fr BY <3>1
    <3>3. b \in Position /\ b \in segments /\ synced[b] \in Nat BY DEF IInv, TypeOK
    <3>4. CASE b = a
      <4>1. i \in 1 .. k BY <3>2, <3>3, <3>4, <2>2
      <4>2. i \in 1 .. Intact(frames'[a]) /\ frames'[a][i] = fr BY <4>1, <3>2, <3>4, <2>7
      <4> QED BY <4>2, <1>2, <1>b
    <3>5. CASE b # a
      <4>1. i \in 1 .. Intact(frames[b])
        <5>1. ValidLength(b) = Intact(frames[b]) /\ synced[b] <= ValidLength(b) BY <3>3, ScanIsIntact, ValidLengthCut DEF IInv
        <5>2. Intact(frames[b]) \in Nat BY <3>3, IntactTyped DEF IInv
        <5> QED BY <5>1, <5>2, <3>2, <3>3
      <4>2. i \in 1 .. Intact(frames'[b]) /\ frames'[b][i] = fr BY <4>1, <3>2, <3>3, <3>5, <1>2, <2>8
      <4> QED BY <4>2, <3>3, <1>b
    <3> QED BY <3>4, <3>5
  <2>16. IdsOrdered' /\ IdsBounded'
    <3> HIDE DEF oldest
    <3>1. \A b \in Position : \A i \in 1 .. Intact(frames'[b]) :
             i \in 1 .. Intact(frames[b]) /\ frames'[b][i] = frames[b][i]
      BY <2>12
    <3>2. IdsOrdered'
      <4>1. ASSUME NEW b \in Position, NEW i \in 1 .. Intact(frames'[b]), NEW j \in 1 .. Intact(frames'[b]), i < j
            PROVE  frames'[b][i].id < frames'[b][j].id
        <5>1. i \in 1 .. Intact(frames[b]) /\ j \in 1 .. Intact(frames[b]) BY <4>1, <3>1
        <5>2. frames[b][i].id < frames[b][j].id BY <4>1, <5>1 DEF Mapped, IdsOrdered
        <5> QED BY <4>1, <5>2, <3>1
      <4>2. ASSUME NEW b \in Position, NEW c \in Position, b < c,
                   NEW i \in 1 .. Intact(frames'[b]), NEW j \in 1 .. Intact(frames'[c])
            PROVE  frames'[b][i].id < frames'[c][j].id
        <5>1. i \in 1 .. Intact(frames[b]) /\ j \in 1 .. Intact(frames[c]) BY <4>2, <3>1
        <5>2. frames[b][i].id < frames[c][j].id BY <4>2, <5>1 DEF Mapped, IdsOrdered
        <5> QED BY <4>2, <5>2, <3>1
      <4> QED BY <4>1, <4>2 DEF IdsOrdered
    <3>3. IdsBounded' BY <3>1, <1>1, ZenonT(30) DEF Mapped, IdsBounded
    <3> QED BY <3>2, <3>3
  <2>17. Abstract
    <3> HIDE DEF oldest
    <3> QED BY <1>1, <1>2, <1>b, <2>10, <2>13, <2>14, <2>15 DEF Abstract, Crashes
  <2> QED BY <1>6, <2>16, <2>17 DEF Mapped
<1> QED BY <1>8, <1>9

----------------------------------------------------------------------------
(* The theorem *)

\* A new database maps to a new log.
LEMMA InitMaps == ASSUME Init PROVE Mapped /\ Promise!Init
<1>1. /\ frames = [b \in Position |-> <<>>] /\ manifest = [active |-> 0, floor |-> 0]
      /\ durableManifest = manifest /\ acked = {} /\ phase = "down" /\ removed = {} /\ segments = {0}
      /\ reverted = FALSE
  BY DEF Init
<1>2. 0 \in Position BY BoundsAssumption DEF Position
<1>3. IInv BY InitInv
<1>4. \A b \in Position : Intact(frames[b]) = 0
  <2>1. \A b \in Position : frames[b] = <<>> BY <1>1
  <2> QED BY <2>1, <1>3, IntactTyped DEF IInv
<1>5. Written = {} /\ Gone = {} BY <1>1, <1>2, <1>4 DEF Written, Gone, IntactOf
<1>6. Head0 = 0 BY <1>1, <1>2, <1>4 DEF Head0, HeadAt
<1>7. IdsBounded /\ IdsOrdered BY <1>1, <1>4 DEF IdsBounded, IdsOrdered
<1>8. FloorsOrdered /\ HeadsAgree
  BY <1>1 DEF FloorsOrdered, HeadsAgree, Head0
<1>9. Promise!Init BY <1>1, <1>3, <1>5, <1>6, View DEF Promise!Init, Shown
<1> QED BY <1>7, <1>8, <1>9 DEF Mapped

\* Every action of the files that reverts no rename is an abstract step or none.
LEMMA NextMaps ==
  ASSUME IInv, Mapped, [Next]_vars, ~reverted' PROVE Mapped' /\ Abstract
<1>0. IInv' BY NextInv
<1>1. CASE Opening BY <1>0, <1>1, OpenMaps, RecoverActiveMaps, EndOpenMaps DEF Opening
<1>2. CASE AppendBatch \/ AppendSystem
  <2>1. Counts \subseteq Nat BY BoundsAssumption
  <2>2. \E n \in Nat : AppendFrame(n) BY <1>2, <2>1 DEF AppendBatch, AppendSystem
  <2> QED BY <2>2, <1>0, AppendFrameMaps
<1>3. CASE Rolling
  BY <1>0, <1>3, BeginRollMaps, RollCreateMaps, RollLinkMaps, RollWriteMaps, RollSyncMaps DEF Rolling
<1>4. CASE Commit BY <1>0, <1>4, CommitMaps
<1>5. CASE Retaining BY <1>0, <1>5, ActivateRetentionMaps, FloorSyncMaps, ReclaimMaps DEF Retaining
<1>6. CASE Ending BY <1>0, <1>6, CloseMaps, KillMaps, PowerLossMaps, RemoveStaleLockMaps DEF Ending
<1>7. CASE UNCHANGED vars
  <2>1. UNCHANGED <<segments, removed, frames, manifest, durableManifest, phase, active, acked, lastId>>
    BY <1>7 DEF vars, disk, memory, history
  <2> QED BY <1>0, <2>1, Quiet DEF Kept, SameFiles, Mapped, HeadsAgree
<1> QED BY <1>1, <1>2, <1>3, <1>4, <1>5, <1>6, <1>7 DEF Next

\* An abstract step of what is written is a step of the promised log.
LEMMA AbstractIsNext == ASSUME Shown, Shown', Abstract PROVE Promise!Keep
<1>1. ValidIn(segments) = Written /\ ValidIn(removed) = Gone /\ ScannedNext(manifest.active) = Head0
  BY DEF Shown
<1>2. ValidIn(segments)' = Written' /\ ValidIn(removed)' = Gone' /\ ScannedNext(manifest.active)' = Head0'
  BY DEF Shown
<1>3. \A fr, f : Promise!Above(fr, f) <=> Above(fr, f) BY DEF Promise!Above, Above, Promise!End, End
<1>4. CASE Same /\ NoLowerFloor
  BY <1>1, <1>2, <1>4 DEF Same, NoLowerFloor, Promise!Keep, Promise!RaiseFloor
<1>5. CASE Writes
  BY <1>1, <1>2, <1>5 DEF Writes, SameFloor, Promise!Keep, Promise!Write, Promise!End, End
<1>6. CASE Commits BY <1>1, <1>2, <1>6 DEF Commits, SameFloor, Promise!Keep, Promise!Commit
<1>7. CASE Crashes
  BY <1>1, <1>2, <1>3, <1>7 DEF Crashes, NoLowerFloor, Promise!Keep, Promise!Crash
<1>8. CASE Discards
  BY <1>1, <1>2, <1>3, <1>8 DEF Discards, SameFloor, Promise!Keep, Promise!Discard
<1>9. CASE Settles BY <1>1, <1>2, <1>9 DEF Settles, SameFloor, Promise!Keep, Promise!Settle
<1> QED BY <1>4, <1>5, <1>6, <1>7, <1>8, <1>9 DEF Abstract

\* The files, rolls, recoveries and reclamations of the log implement what it
\* promises its callers: a sequence of frames that grows at its head, loses at
\* most an unacknowledged suffix in a crash, and nothing above a floor that
\* never goes back, and to which only removed frames may return (log/mod.rs,
\* segment.rs, manifest.rs); until a power loss undoes a rename that an open
\* had built on.
THEOREM Implements == Spec => ImplementsCommittedLog
<1> DEFINE Maps == ~reverted => Mapped
           Shows == ~reverted => Shown
<1>1. Init => Maps /\ Promise!Init BY InitMaps
<1>2. Sound /\ Maps /\ [Next]_vars => Maps'
  BY NextMaps, RevertedStays DEF Sound
<1>3. Sound => Shows BY View DEF Sound
<1>4. ASSUME Sound, Sound', Maps, Shows, Shows', [Next]_vars PROVE [Promise!Next]_(Promise!vars)
  <2>1. CASE reverted' BY <2>1 DEF Promise!Next
  <2>2. CASE ~reverted'
    <3>1. ~reverted BY <1>4, <2>2, RevertedStays
    <3>2. IInv /\ IInv' /\ Mapped /\ Shown /\ Shown' BY <1>4, <2>2, <3>1 DEF Sound
    <3>3. Abstract BY <1>4, <2>2, <3>2, NextMaps
    <3>4. reverted' = reverted BY <2>2, <3>1, <3>2 DEF IInv, TypeOK
    <3> QED BY <3>2, <3>3, <3>4, AbstractIsNext DEF Promise!Next
  <2> QED BY <2>1, <2>2
<1>5. Spec => []Sound BY Inductive
<1> QED BY <1>1, <1>2, <1>3, <1>4, <1>5, PTL DEF Spec, ImplementsCommittedLog, Promise!Spec

(***************************************************************************)
(* What SegmentLogFaults promises of failed writes and failed manifest     *)
(* writes (AckedBeforeFaultRetained, AckedOnDisk, ValidFramesAdjoin), for  *)
(* any number of frames, crashes and failures.                             *)
(*                                                                         *)
(* IInv of SegmentLogInv does not hold here: a torn frame may have others  *)
(* behind it, be synced and be in a closed file; an acknowledged frame may *)
(* be in a file that no manifest names; the memory may be ahead of both    *)
(* manifests, and below the floor of one.  FInv keeps what is left: the    *)
(* files are in order among themselves, and what is older than the first   *)
(* failure stands in front of everything that is not as IInv has it.  Like *)
(* IInv it holds until a power loss undoes a rename that an open built on. *)
(***************************************************************************)

FaultTypes ==
    /\ TypeOK
    /\ before \in [Kinds -> 0 .. MaxFrames]
    /\ \A k \in Kinds : before[k] # MaxFrames => before[k] <= lastId

\* Files hold whole frames in the order of their ids and positions, with torn
\* ones anywhere between them.
Shaped ==
    \A b \in Position :
        /\ b \notin Files => frames[b] = <<>>
        /\ synced[b] <= Len(frames[b])
        /\ \A i \in 1 .. Len(frames[b]) :
              /\ End(frames[b][i]) <= MaxPosition
              /\ ~frames[b][i].whole => frames[b][i] = Torn
              /\ frames[b][i].whole => b <= frames[b][i].first /\ frames[b][i].id <= lastId
              /\ \A j \in 1 .. i - 1 :
                    frames[b][i].whole /\ frames[b][j].whole =>
                       End(frames[b][j]) <= frames[b][i].first /\ frames[b][j].id < frames[b][i].id

\* Nothing torn precedes a frame that is older than the first failed write.
OldFollow ==
    \A b \in Position : \A i \in 1 .. Len(frames[b]) :
        frames[b][i].whole /\ frames[b][i].id <= before["write"] => \A j \in 1 .. i : Follows(b, j)

\* A frame that is older than the first failed manifest write is in a file that
\* both manifests reach.
OldReached ==
    \A b \in Position : \A i \in 1 .. Len(frames[b]) :
        frames[b][i].whole /\ frames[b][i].id <= before["manifest"] => b <= durableManifest.active

\* A file that others must not overtake: it holds frames, or a process takes it
\* for a part of the log.
Placed(c) == \/ frames[c] # <<>>
             \/ c <= manifest.active
             \/ Serving /\ (c <= active \/ c \in segments)

\* Files do not overlap, in positions or ids.
FilesApart ==
    \A b, c \in Files : b < c /\ Placed(c) =>
        \A i \in 1 .. Len(frames[b]) :
            /\ End(frames[b][i]) <= c
            /\ \A k \in 1 .. Len(frames[c]) :
                  frames[b][i].whole /\ frames[c][k].whole => frames[b][i].id < frames[c][k].id

\* What is not synced is in the file being written, which the manifest calls
\* active or, after a failed manifest write, does not know.
DirtyLate ==
    \A b \in Position : synced[b] < Len(frames[b]) =>
        /\ manifest.active <= b
        /\ Serving => b = active /\ phase \notin {"roll_create", "roll_link", "roll_write"}

\* A floor that cuts no file.
Boundary(f) == \A b \in Files : b < f => \A i \in 1 .. Len(frames[b]) : End(frames[b][i]) <= f

\* The manifest that a power loss may bring back is never ahead of the other.
ManifestsInOrder ==
    /\ durableManifest.active <= manifest.active
    /\ durableManifest.floor <= manifest.floor
    /\ manifest.floor <= manifest.active
    /\ durableManifest.floor <= durableManifest.active
    /\ Boundary(manifest.floor) /\ Boundary(durableManifest.floor)

HeadBehind(b) == b <= next /\ \A i \in 1 .. Len(frames[b]) : End(frames[b][i]) <= next

\* Directory entries that are not yet durable: a new file is empty and beyond the
\* manifest's active one, a removed file is empty or below the durable floor.
Entries ==
    /\ removed \cap segments = {}
    /\ phase \in {"roll_write", "roll_sync"} => removed = {}
    /\ \A b \in segments \ linked : b > manifest.active /\ frames[b] = <<>>
    /\ Serving /\ phase # "roll_link" => linked = segments
    /\ \A b \in removed : frames[b] # <<>> => b < durableManifest.floor

\* The memory of a process agrees with the files; with the manifests it need not.
Memory ==
    /\ phase # "down" => lock
    /\ phase = "orphans" /\ manifest.active \in segments => HeadBehind(manifest.active)
    /\ Serving =>
        /\ active \in segments
        /\ closed = {b \in segments : b < active}
        /\ \A b \in segments : b <= active \/ (phase = "roll_link" /\ b = next)
        /\ manifest.active <= active
        /\ floor <= active /\ Boundary(floor)
        /\ durableManifest.floor <= floor
        /\ HeadBehind(active)
        /\ phase = "roll_link" => next \in segments /\ active < next /\ frames[next] = <<>>
        /\ phase \in {"roll_write", "roll_sync"} => frames[active] = <<>>
        /\ phase \in {"roll_sync", "floor_sync"} => manifest.active = active
        /\ phase = "roll_sync" => manifest.floor = floor
        /\ phase = "reclaim" => durableManifest.floor = floor

Whole(b) == HeadOf(b) /\ \A i \in 1 .. Len(frames[b]) : Follows(b, i)

\* Until a write has failed, the active file is whole and ends at the head.
CleanBefore ==
    lastId < before["write"] =>
        /\ phase = "orphans" /\ manifest.active \in segments => Whole(manifest.active)
        /\ Serving => Whole(active)

\* Until a manifest write has failed, a process works under the durable manifest.
SettledBefore ==
    lastId < before["manifest"] =>
        /\ \/ manifest = durableManifest
           \/ phase \in {"roll_sync", "floor_sync", "down"}
        /\ Serving /\ phase \notin {"roll_write", "roll_sync"} => durableManifest.active = active

\* Old acknowledged frames above the floor are synced in a file that stays.
OldLocated ==
    \A fr \in acked :
        /\ fr.whole
        /\ fr.id <= before["write"] /\ Above(fr, durableManifest.floor) =>
              \E b \in linked : \E i \in 1 .. synced[b] : frames[b][i] = fr

FInv ==
    /\ FaultTypes /\ Shaped /\ OldFollow /\ OldReached /\ FilesApart /\ DirtyLate
    /\ ManifestsInOrder /\ Entries /\ Memory /\ CleanBefore /\ SettledBefore /\ OldLocated

----------------------------------------------------------------------------
(* Steps that write no frame *)

BeforeFalls ==
    /\ before' \in [Kinds -> 0 .. MaxFrames]
    /\ \A k \in Kinds : before'[k] <= before[k] /\ (before'[k] # MaxFrames => before'[k] <= lastId)

\* Files lose frames at their ends, or get a torn one; whole files go.
NothingNew ==
    /\ Files' \subseteq Files
    /\ frames' \in [Position -> Seq(Frame)]
    /\ \A c \in Position : c \notin Files' => frames'[c] = <<>>
    /\ \A c \in Position : synced'[c] \in Nat /\ synced'[c] <= Len(frames'[c])
    /\ \A c \in Position : \A i \in 1 .. Len(frames'[c]) :
          \/ i \in 1 .. Len(frames[c]) /\ frames'[c][i] = frames[c][i]
          \/ i = Len(frames'[c]) /\ frames'[c][i] = Torn
    /\ lastId' = lastId

\* No file comes to be one that others must not overtake.
NoMorePlaced ==
    \A c \in Files' :
        \/ frames'[c] # <<>>
        \/ c <= manifest'.active
        \/ Serving' /\ (c <= active' \/ c \in segments')
        => Placed(c)

LEMMA Typed ==
  ASSUME FInv
  PROVE  /\ segments \subseteq Nat /\ segments \subseteq Position /\ linked \subseteq segments
         /\ removed \subseteq Nat /\ removed \subseteq Position
         /\ Files \subseteq Nat /\ Files \subseteq Position
         /\ manifest.active \in Nat /\ manifest.floor \in Nat
         /\ durableManifest.active \in Nat /\ durableManifest.floor \in Nat
         /\ active \in Nat /\ next \in Nat /\ floor \in Nat /\ lastId \in Nat /\ MaxPosition \in Nat
         /\ before["write"] \in Nat /\ before["manifest"] \in Nat
         /\ \A c \in Position : frames[c] \in Seq(Frame) /\ Len(frames[c]) \in Nat /\ synced[c] \in Nat
<1>1. TypeOK /\ before \in [Kinds -> 0 .. MaxFrames]
  BY DEF FInv, FaultTypes
<1>2. MaxPosition \in Nat /\ MaxFrames \in Nat /\ Position \subseteq Nat
  BY BoundsAssumption DEF Position
<1>3. /\ segments \subseteq Nat /\ segments \subseteq Position /\ linked \subseteq segments
      /\ removed \subseteq Nat /\ removed \subseteq Position
  BY <1>1, <1>2 DEF TypeOK
<1>8. Files \subseteq Nat /\ Files \subseteq Position
  BY <1>3 DEF Files
<1>4. /\ manifest.active \in Nat /\ manifest.floor \in Nat
      /\ durableManifest.active \in Nat /\ durableManifest.floor \in Nat
  BY <1>1, <1>2 DEF TypeOK, Manifest
<1>5. active \in Nat /\ next \in Nat /\ floor \in Nat /\ lastId \in Nat
  BY <1>1, <1>2 DEF TypeOK
<1>6. before["write"] \in Nat /\ before["manifest"] \in Nat
  BY <1>1, <1>2 DEF Kinds
<1>7. \A c \in Position : frames[c] \in Seq(Frame) /\ Len(frames[c]) \in Nat /\ synced[c] \in Nat
  BY <1>1 DEF TypeOK
<1> QED
  BY <1>2, <1>3, <1>4, <1>5, <1>6, <1>7, <1>8

\* Outside a step that moves a manifest or starts to serve, no file is placed.
LEMMA Calm ==
  ASSUME UNCHANGED <<segments, removed, frames, manifest>>, Serving' => Serving /\ UNCHANGED active
  PROVE  NoMorePlaced
  BY DEF NoMorePlaced, Placed, Files

LEMMA FrameTyped ==
  ASSUME FInv, NEW c \in Position, NEW i \in 1 .. Len(frames[c])
  PROVE  /\ frames[c][i] \in Frame /\ End(frames[c][i]) \in Nat
         /\ frames[c][i].first \in Nat /\ frames[c][i].id \in Nat
<1>1. frames[c][i] \in Frame
  BY Typed
<1>2. \A fr \in Frame : End(fr) \in Nat /\ fr.first \in Nat /\ fr.id \in Nat
  BY DEF Frame, Position, End
<1> QED
  BY <1>1, <1>2

\* The order of the files does not suffer.
LEMMA KeptFiles ==
  ASSUME FInv, NothingNew, BeforeFalls, NoMorePlaced,
         durableManifest'.active \in Nat, durableManifest.active <= durableManifest'.active
  PROVE  Shaped' /\ OldFollow' /\ OldReached' /\ FilesApart'
<1>k. "write" \in Kinds /\ "manifest" \in Kinds
  BY DEF Kinds
<1>t. \A c \in Position : frames'[c] \in Seq(Frame) /\ Len(frames'[c]) \in Nat
  BY DEF NothingNew
<1>1. ASSUME NEW c \in Position, NEW i \in 1 .. Len(frames'[c]), frames'[c][i].whole
      PROVE  /\ i \in 1 .. Len(frames[c])
             /\ \A j \in 1 .. i : frames'[c][j] = frames[c][j] /\ j \in 1 .. Len(frames[c])
  <2>1. i \in 1 .. Len(frames[c]) /\ frames'[c][i] = frames[c][i]
    BY <1>1, TornTyped DEF NothingNew
  <2>2. ASSUME NEW j \in 1 .. i, j # i PROVE frames'[c][j] = frames[c][j]
    <3>1. j \in 1 .. Len(frames'[c]) /\ j # Len(frames'[c])
      BY <2>2, <1>t
    <3> QED
      BY <3>1 DEF NothingNew
  <2>3. \A j \in 1 .. i : j \in 1 .. Len(frames[c])
    BY <2>1, Typed
  <2> QED
    BY <2>1, <2>2, <2>3
<1>2. Shaped'
  <2>1. ASSUME NEW c \in Position, NEW i \in 1 .. Len(frames'[c])
        PROVE  /\ End(frames'[c][i]) <= MaxPosition
               /\ ~frames'[c][i].whole => frames'[c][i] = Torn
               /\ frames'[c][i].whole => c <= frames'[c][i].first /\ frames'[c][i].id <= lastId
               /\ \A j \in 1 .. i - 1 : frames'[c][i].whole /\ frames'[c][j].whole =>
                     End(frames'[c][j]) <= frames'[c][i].first /\ frames'[c][j].id < frames'[c][i].id
    <3>1. CASE frames'[c][i].whole
      <4>1. i \in 1 .. Len(frames[c]) /\ \A j \in 1 .. i : frames'[c][j] = frames[c][j]
        BY <3>1, <1>1
      <4>2. i \in 1 .. i /\ \A j \in 1 .. i - 1 : j \in 1 .. i
        BY <1>t
      <4>3. frames'[c][i] = frames[c][i] /\ \A j \in 1 .. i - 1 : frames'[c][j] = frames[c][j]
        BY <4>1, <4>2
      <4> QED
        BY <3>1, <4>1, <4>3 DEF FInv, Shaped
    <3>2. CASE ~frames'[c][i].whole
      <4>1. frames'[c][i] = Torn
        BY <3>2 DEF NothingNew, FInv, Shaped
      <4>2. End(Torn) <= MaxPosition
        BY TornTyped, BoundsAssumption
      <4> QED
        BY <3>2, <4>1, <4>2
    <3> QED
      BY <3>1, <3>2
  <2> QED
    BY <2>1 DEF Shaped, End, NothingNew
<1>3. OldFollow'
  <2>1. ASSUME NEW c \in Position, NEW i \in 1 .. Len(frames'[c]), frames'[c][i].whole,
               frames'[c][i].id <= before'["write"], NEW j \in 1 .. i
        PROVE  frames'[c][j].whole /\ frames'[c][j].first = IF j = 1 THEN c ELSE End(frames'[c][j - 1])
    <3>1. i \in 1 .. Len(frames[c]) /\ \A x \in 1 .. i : frames'[c][x] = frames[c][x]
      BY <2>1, <1>1
    <3>2. i \in 1 .. i /\ (j # 1 => j - 1 \in 1 .. i)
      BY <1>t
    <3>a. frames[c][i].id \in Nat
      BY <3>1, FrameTyped
    <3>e. frames'[c][i] = frames[c][i]
      BY <3>1, <3>2
    <3>b. before'["write"] <= before["write"] /\ before'["write"] \in Nat /\ before["write"] \in Nat
      BY <1>k, BoundsAssumption DEF BeforeFalls, FInv, FaultTypes
    <3>c. frames[c][i].id <= before'["write"]
      BY <2>1, <3>e
    <3>d. frames[c][i].id <= before["write"]
      BY <3>a, <3>b, <3>c
    <3>3. frames[c][i].whole /\ frames[c][i].id <= before["write"]
      BY <2>1, <3>d, <3>e
    <3>4. Follows(c, j)
      BY <3>1, <3>3 DEF FInv, OldFollow
    <3> QED
      BY <3>1, <3>2, <3>4 DEF Follows
  <2> QED
    BY <2>1 DEF OldFollow, Follows, End
<1>4. OldReached'
  <2>1. ASSUME NEW c \in Position, NEW i \in 1 .. Len(frames'[c]), frames'[c][i].whole,
               frames'[c][i].id <= before'["manifest"]
        PROVE  c <= durableManifest'.active
    <3>1. i \in 1 .. Len(frames[c]) /\ frames'[c][i] = frames[c][i]
      BY <2>1, <1>1
    <3>a. frames[c][i].id \in Nat
      BY <3>1, FrameTyped
    <3>b. before'["manifest"] <= before["manifest"] /\ before'["manifest"] \in Nat /\ before["manifest"] \in Nat
      BY <1>k, BoundsAssumption DEF BeforeFalls, FInv, FaultTypes
    <3>c. frames[c][i].id <= before'["manifest"]
      BY <2>1, <3>1, <3>a
    <3>d. frames[c][i].id <= before["manifest"]
      BY <3>a, <3>b, <3>c
    <3>2. frames[c][i].whole /\ frames[c][i].id <= before["manifest"]
      BY <2>1, <3>1, <3>a, <3>d
    <3>3. c <= durableManifest.active /\ c \in Nat
      BY <3>1, <3>2 DEF FInv, OldReached, Position
    <3> QED
      BY <3>3, Typed
  <2> QED
    BY <2>1 DEF OldReached
<1>5. FilesApart'
  <2>1. ASSUME NEW b \in Files', NEW c \in Files', b < c, NEW i \in 1 .. Len(frames'[b]),
               \/ frames'[c] # <<>> \/ c <= manifest'.active
               \/ Serving' /\ (c <= active' \/ c \in segments')
        PROVE  /\ End(frames'[b][i]) <= c
               /\ \A k \in 1 .. Len(frames'[c]) :
                     frames'[b][i].whole /\ frames'[c][k].whole => frames'[b][i].id < frames'[c][k].id
    <3>1. b \in Files /\ c \in Files /\ b \in Position /\ c \in Position /\ c \in Nat /\ Placed(c)
      BY <2>1, Typed DEF NothingNew, NoMorePlaced
    <3>2. CASE i \in 1 .. Len(frames[b]) /\ frames'[b][i] = frames[b][i]
      <4>1. ASSUME NEW k \in 1 .. Len(frames'[c]), frames'[b][i].whole, frames'[c][k].whole
            PROVE  frames'[b][i].id < frames'[c][k].id
        <5>1. k \in 1 .. Len(frames[c]) /\ frames'[c][k] = frames[c][k]
          <6>1. k \in 1 .. k
            BY <1>t
          <6> QED
            BY <3>1, <4>1, <6>1, <1>1
        <5> QED
          BY <2>1, <3>1, <3>2, <4>1, <5>1 DEF FInv, FilesApart
      <4> QED
        BY <2>1, <3>1, <3>2, <4>1 DEF FInv, FilesApart
    <3>3. CASE frames'[b][i] = Torn
      BY <3>1, <3>3, TornTyped
    <3> QED
      BY <3>1, <3>2, <3>3 DEF NothingNew
  <2> QED
    BY <2>1 DEF FilesApart, Placed, End
<1> QED
  BY <1>2, <1>3, <1>4, <1>5

\* A floor goes on cutting no file, and a head goes on being behind a file.
LEMMA KeptEnds ==
  ASSUME FInv, NothingNew
  PROVE  /\ \A f \in Nat : Boundary(f) =>
               \A b \in Files' : b < f => \A i \in 1 .. Len(frames'[b]) : End(frames'[b][i]) <= f
         /\ \A b \in Position : HeadBehind(b) => \A i \in 1 .. Len(frames'[b]) : End(frames'[b][i]) <= next
<1>1. ASSUME NEW b \in Position, NEW i \in 1 .. Len(frames'[b]), NEW f \in Nat,
             \A j \in 1 .. Len(frames[b]) : End(frames[b][j]) <= f
      PROVE  End(frames'[b][i]) <= f
  <2>1. CASE frames'[b][i] = Torn
    BY <2>1, TornTyped
  <2>2. CASE i \in 1 .. Len(frames[b]) /\ frames'[b][i] = frames[b][i]
    BY <2>2, <1>1
  <2> QED
    BY <2>1, <2>2 DEF NothingNew
<1>2. Files' \subseteq Files /\ Files \subseteq Position /\ next \in Nat
  BY Typed DEF NothingNew
<1>3. ASSUME NEW f \in Nat, Boundary(f), NEW b \in Files', b < f, NEW i \in 1 .. Len(frames'[b])
      PROVE  End(frames'[b][i]) <= f
  BY <1>1, <1>2, <1>3 DEF Boundary
<1>4. ASSUME NEW b \in Position, HeadBehind(b), NEW i \in 1 .. Len(frames'[b])
      PROVE  End(frames'[b][i]) <= next
  BY <1>1, <1>2, <1>4 DEF HeadBehind
<1> QED
  BY <1>3, <1>4

\* Acknowledged frames stay where they are, and the floor does not fall.
LEMMA KeptLocated ==
  ASSUME FInv, BeforeFalls, acked' = acked, durableManifest'.floor \in Nat,
         durableManifest.floor <= durableManifest'.floor,
         \A b \in linked : \A i \in 1 .. synced[b] :
            frames[b][i].id <= before["write"] /\ (\A j \in 1 .. i : Follows(b, j))
               => b \in linked' /\ i \in 1 .. synced'[b] /\ frames'[b][i] = frames[b][i]
  PROVE  OldLocated'
<1>1. ASSUME NEW fr \in acked, fr.id <= before'["write"], Above(fr, durableManifest'.floor)
      PROVE  \E b \in linked' : \E i \in 1 .. synced'[b] : frames'[b][i] = fr
  <2>1. fr \in Frame /\ fr.id \in Nat /\ End(fr) \in Nat
    <3>1. fr \in Frame
      BY DEF FInv, FaultTypes, TypeOK
    <3>2. \A x \in Frame : x.id \in Nat /\ End(x) \in Nat
      BY DEF Frame, Position, End
    <3> QED
      BY <3>1, <3>2
  <2>2. fr.id <= before["write"]
    BY <1>1, <2>1, Typed DEF BeforeFalls, Kinds
  <2>3. Above(fr, durableManifest.floor)
    BY <1>1, <2>1, Typed DEF Above
  <2>b. PICK b \in linked : \E i \in 1 .. synced[b] : frames[b][i] = fr
    BY <2>2, <2>3 DEF FInv, OldLocated
  <2>4. PICK i \in 1 .. synced[b] : frames[b][i] = fr
    BY <2>b
  <2>5. b \in Position /\ i \in 1 .. Len(frames[b]) /\ fr.whole
    <3>1. b \in Position /\ synced[b] <= Len(frames[b])
      BY Typed DEF FInv, Shaped
    <3> QED
      BY <3>1, Typed DEF FInv, OldLocated
  <2>6. \A j \in 1 .. i : Follows(b, j)
    BY <2>2, <2>4, <2>5 DEF FInv, OldFollow
  <2>7. b \in linked' /\ i \in 1 .. synced'[b] /\ frames'[b][i] = frames[b][i]
    BY <2>2, <2>4, <2>6
  <2> QED
    BY <2>4, <2>7
<1> QED
  BY <1>1 DEF OldLocated, FInv, Above, End

\* A step that leaves the files alone, or the log as well.
LEMMA FilesAlone ==
  ASSUME FInv, Files' = Files, UNCHANGED <<frames, synced, lastId>>
  PROVE  NothingNew
  BY Typed DEF NothingNew, FInv, FaultTypes, TypeOK, Shaped

LEMMA BeforeAlone ==
  ASSUME FInv, UNCHANGED before
  PROVE  BeforeFalls
<1>1. \A k \in Kinds : before[k] \in Nat
  BY DEF FInv, FaultTypes
<1> QED
  BY <1>1 DEF FInv, FaultTypes, BeforeFalls

\* Only memory, manifests and directory entries change.
LEMMA QuietFiles ==
  ASSUME FInv, UNCHANGED <<segments, removed, frames, synced, lastId, acked>>, BeforeFalls,
         NoMorePlaced, linked \subseteq linked',
         durableManifest'.active \in Nat, durableManifest.active <= durableManifest'.active,
         durableManifest'.floor \in Nat, durableManifest.floor <= durableManifest'.floor
  PROVE  Shaped' /\ OldFollow' /\ OldReached' /\ FilesApart' /\ OldLocated'
<1>1. NothingNew
  BY FilesAlone DEF Files
<1>2. OldLocated'
  BY KeptLocated
<1> QED
  BY <1>1, <1>2, KeptFiles

\* Taking the lock, on the manifest that is there.
LEMMA OpenKeeps == ASSUME FInv, Open, UNCHANGED before PROVE FInv'
<1>1. /\ phase = "down" /\ phase' = "scan" /\ ~lock /\ lock' = TRUE
      /\ durableManifest' = manifest /\ stale' = stale \cup ({durableManifest} \ {manifest})
      /\ UNCHANGED <<segments, removed, linked, frames, synced, manifest, active, closed, next, size, floor, acked, lastId, crashes, reverted>>
  BY DEF Open, memory, history
<1>2. FaultTypes'
  BY <1>1 DEF FInv, FaultTypes, TypeOK, Phases
<1>i. durableManifest.active <= manifest.active /\ durableManifest.floor <= manifest.floor
  BY DEF FInv, ManifestsInOrder
<1>3. Shaped' /\ OldFollow' /\ OldReached' /\ FilesApart' /\ OldLocated'
  <2>1. NoMorePlaced
    BY <1>1, Calm DEF Serving
  <2> QED
    BY <1>1, <1>i, <2>1, QuietFiles, BeforeAlone, Typed
<1>4. DirtyLate'
  BY <1>1 DEF FInv, DirtyLate, Serving
<1>5. ManifestsInOrder'
  BY <1>1, Typed DEF FInv, ManifestsInOrder, Boundary, End, Files
<1>6. Entries'
  <2>1. \A b \in removed : frames[b] # <<>> => b < manifest.floor
    BY <1>i, Typed DEF FInv, Entries
  <2> QED
    BY <1>1, <2>1 DEF FInv, Entries, Serving
<1>7. Memory' /\ CleanBefore' /\ SettledBefore'
  BY <1>1 DEF FInv, Memory, CleanBefore, SettledBefore, Serving
<1> QED
  BY <1>2, <1>3, <1>4, <1>5, <1>6, <1>7 DEF FInv

\* The process is gone, with its lock or without; the files are as they were.
LEMMA GoneKeeps ==
  ASSUME FInv, phase # "down", phase' = "down", Forget, BeforeFalls, crashes' \in 0 .. MaxCrashes,
         lock' \in BOOLEAN,
         UNCHANGED <<segments, removed, linked, frames, synced, manifest, durableManifest, stale, acked, lastId, reverted>>
  PROVE  FInv'
<1>2. FaultTypes'
  BY ForgetTyped DEF FInv, FaultTypes, TypeOK, Phases, BeforeFalls
<1>3. Shaped' /\ OldFollow' /\ OldReached' /\ FilesApart' /\ OldLocated'
  <2>1. NoMorePlaced
    BY Calm DEF Serving
  <2> QED
    BY <2>1, QuietFiles, Typed
<1>4. DirtyLate' /\ ManifestsInOrder' /\ Entries'
  BY DEF FInv, DirtyLate, ManifestsInOrder, Entries, Serving, Boundary, End, Files
<1>5. Memory' /\ CleanBefore' /\ SettledBefore'
  BY DEF Memory, CleanBefore, SettledBefore, Serving
<1> QED
  BY <1>2, <1>3, <1>4, <1>5 DEF FInv

LEMMA CloseKeeps == ASSUME FInv, Close, UNCHANGED before PROVE FInv'
  BY GoneKeeps, BeforeAlone DEF Close, disk, history, FInv, FaultTypes, TypeOK

LEMMA RecoverFailsKeeps == ASSUME FInv, RecoverFails PROVE FInv'
  BY GoneKeeps, BeforeAlone DEF RecoverFails, disk, history, FInv, FaultTypes, TypeOK

\* Removing a stale lock.
LEMMA RemoveStaleLockKeeps == ASSUME FInv, RemoveStaleLock, UNCHANGED before PROVE FInv'
<1>1. /\ phase = "down" /\ phase' = "down" /\ lock' = FALSE
      /\ UNCHANGED <<segments, removed, linked, frames, synced, manifest, durableManifest, stale, active, closed, next, size, floor, acked, lastId, crashes, reverted>>
  BY DEF RemoveStaleLock, disk, memory, history
<1>2. FaultTypes'
  BY <1>1 DEF FInv, FaultTypes, TypeOK
<1>3. Shaped' /\ OldFollow' /\ OldReached' /\ FilesApart' /\ OldLocated'
  <2>1. NoMorePlaced
    BY <1>1, Calm DEF Serving
  <2> QED
    BY <1>1, <2>1, QuietFiles, BeforeAlone, Typed
<1>4. DirtyLate' /\ ManifestsInOrder' /\ Entries'
  BY <1>1 DEF FInv, DirtyLate, ManifestsInOrder, Entries, Serving, Boundary, End, Files
<1>5. Memory' /\ CleanBefore' /\ SettledBefore'
  BY <1>1 DEF Memory, CleanBefore, SettledBefore, Serving
<1> QED
  BY <1>2, <1>3, <1>4, <1>5 DEF FInv

----------------------------------------------------------------------------
(* Rolls and floors *)

\* The new file is linked, those removed are gone for good, and the process moves
\* to the new one.
LEMMA RollLinkKeeps == ASSUME FInv, RollLink, UNCHANGED before PROVE FInv'
<1>1. /\ phase = "roll_link" /\ phase' = "roll_write" /\ linked' = segments /\ removed' = {}
      /\ active' = next /\ closed' = closed \cup {active} /\ size' = 0
      /\ frames' = [b \in Position |-> IF b \in removed THEN <<>> ELSE frames[b]]
      /\ synced' = [b \in Position |-> IF b \in removed THEN 0 ELSE synced[b]]
      /\ UNCHANGED <<segments, manifest, durableManifest, stale, lock, next, floor, acked, lastId, crashes, reverted>>
  BY DEF RollLink, Erase, history
<1>2. /\ lock /\ active \in segments /\ closed = {b \in segments : b < active}
      /\ \A b \in segments : b <= active \/ b = next
      /\ manifest.active <= active /\ floor <= active /\ Boundary(floor) /\ durableManifest.floor <= floor
      /\ next \in segments /\ active < next /\ frames[next] = <<>>
      /\ removed \cap segments = {} /\ linked \subseteq segments
  BY <1>1, Typed DEF FInv, Memory, Entries, Serving
<1>k. \A b \in Position : /\ b \notin removed => frames'[b] = frames[b] /\ synced'[b] = synced[b]
                          /\ b \in removed => frames'[b] = <<>> /\ synced'[b] = 0
  BY <1>1
<1>t. \A b \in Position : /\ frames'[b] \in Seq(Frame) /\ synced'[b] \in Nat /\ synced'[b] <= Len(frames'[b])
                          /\ synced'[b] < Len(frames'[b]) => synced[b] < Len(frames[b])
  <2>1. \A b \in Position : frames[b] \in Seq(Frame) /\ synced[b] \in Nat /\ synced[b] <= Len(frames[b])
    BY Typed DEF FInv, Shaped
  <2>2. <<>> \in Seq(Frame) /\ Len(<<>>) = 0
    OBVIOUS
  <2>3. ASSUME NEW b \in Position
        PROVE  /\ frames'[b] \in Seq(Frame) /\ synced'[b] \in Nat /\ synced'[b] <= Len(frames'[b])
               /\ synced'[b] < Len(frames'[b]) => synced[b] < Len(frames[b])
    <3>1. CASE b \in removed
      <4>1. frames'[b] = <<>> /\ synced'[b] = 0
        BY <1>k, <3>1
      <4> QED
        BY ONLY <2>2, <4>1
    <3>2. CASE b \notin removed
      <4>1. frames'[b] = frames[b] /\ synced'[b] = synced[b]
        BY <1>k, <3>2
      <4>2. frames[b] \in Seq(Frame) /\ synced[b] \in Nat /\ synced[b] <= Len(frames[b])
        BY <2>1
      <4> QED
        BY ONLY <4>1, <4>2
    <3> QED
      BY <3>1, <3>2
  <2> QED
    BY <2>3
<1>f. frames' \in [Position -> Seq(Frame)] /\ synced' \in [Position -> Nat]
  BY <1>1, <1>t
<1>n. NothingNew
  <2>1. \A b \in Position : \A i \in 1 .. Len(frames'[b]) : i \in 1 .. Len(frames[b]) /\ frames'[b][i] = frames[b][i]
    BY <1>k
  <2>2. \A b \in Position : b \notin Files' => frames'[b] = <<>>
    BY <1>1, <1>k DEF FInv, Shaped, Files
  <2>3. Files' \subseteq Files
    BY <1>1 DEF Files
  <2> QED
    BY <1>1, <1>t, <1>f, <2>1, <2>2, <2>3 DEF NothingNew
<1>p. NoMorePlaced
  BY <1>1 DEF NoMorePlaced, Placed, Files, Serving
<1>3. FaultTypes'
  <2>1. closed' \subseteq Position /\ next \in Position
    BY <1>1, <1>2, Typed
  <2> QED
    BY <1>1, <1>f, <2>1 DEF FInv, FaultTypes, TypeOK, Phases
<1>4. Shaped' /\ OldFollow' /\ OldReached' /\ FilesApart'
  BY <1>1, <1>n, <1>p, KeptFiles, BeforeAlone, Typed
<1>l. OldLocated'
  <2>1. ASSUME NEW b \in linked, NEW i \in 1 .. synced[b]
        PROVE  b \in linked' /\ i \in 1 .. synced'[b] /\ frames'[b][i] = frames[b][i]
    <3>1. b \in Position /\ b \notin removed
      BY <1>2, Typed
    <3> QED
      BY <1>1, <1>2, <1>k, <3>1
  <2>2. BeforeFalls
    BY <1>1, BeforeAlone
  <2>3. /\ acked' = acked /\ durableManifest'.floor \in Nat
        /\ durableManifest.floor <= durableManifest'.floor
    BY <1>1, Typed
  <2> QED
    BY ONLY FInv, <2>1, <2>2, <2>3, KeptLocated
<1>5. DirtyLate'
  <2>1. \A b \in Position : ~(synced[b] < Len(frames[b]))
    BY <1>1 DEF FInv, DirtyLate, Serving
  <2> QED
    BY <1>t, <2>1 DEF DirtyLate
<1>m. ManifestsInOrder'
  BY <1>1, <1>n, KeptEnds, Typed DEF FInv, ManifestsInOrder, Boundary, End
<1>e. Entries'
  BY <1>1 DEF Entries, Serving
<1>6. Memory'
  <2>1. closed' = {b \in segments : b < next}
    <3>1. ASSUME NEW b \in segments PROVE b < next <=> b \in closed \/ b = active
      <4>1. b \in Nat /\ next \in Nat /\ active \in Nat
        BY Typed
      <4>2. b \in closed <=> b < active
        BY <1>2
      <4>3. (b <= active \/ b = next) /\ active < next
        BY <1>2
      <4> QED
        BY ONLY <4>1, <4>2, <4>3
    <3>2. closed' = closed \cup {active} /\ closed \subseteq segments /\ active \in segments
      BY <1>1, <1>2
    <3> QED
      BY ONLY <3>1, <3>2
  <2>0. frames'[next] = <<>>
    BY <1>2, <1>k, Typed
  <2>2. HeadBehind(active)'
    BY <1>1, <1>2, <2>0, Typed DEF HeadBehind
  <2>3. \A b \in segments : b <= next
    BY <1>2, Typed, SMTT(30)
  <2>4. manifest.active <= next /\ floor <= next
    BY <1>2, Typed
  <2>5. Boundary(floor)'
    BY <1>1, <1>2, <1>n, KeptEnds, Typed DEF Boundary, End
  <2> QED
    BY <1>1, <1>2, <2>0, <2>1, <2>2, <2>3, <2>4, <2>5 DEF Memory, Serving
<1>7. CleanBefore'
  <2>1. frames'[next] = <<>>
    BY <1>2, <1>k, Typed
  <2> QED
    BY <1>1, <2>1 DEF CleanBefore, Whole, HeadOf, Serving
<1>8. SettledBefore'
  BY <1>1 DEF FInv, SettledBefore, Serving
<1> QED
  BY <1>3, <1>4, <1>l, <1>5, <1>m, <1>e, <1>6, <1>7, <1>8 DEF FInv

\* The rename of the manifest inside a roll.  Its floor is the one in memory,
\* which may be below the floor of the manifest it replaces.
LEMMA RollWriteKeeps == ASSUME FInv, RollWrite, UNCHANGED before PROVE FInv'
<1>1. /\ phase = "roll_write" /\ phase' = "roll_sync" /\ manifest' = [active |-> active, floor |-> floor]
      /\ stale' = stale \cup ({manifest} \ {durableManifest})
      /\ UNCHANGED <<segments, removed, linked, frames, synced, durableManifest, lock, active, closed, next, size, floor, acked, lastId, crashes, reverted>>
  BY DEF RollWrite, Rename, memory, history
<1>2. manifest'.active = active /\ manifest'.floor = floor
  BY <1>1
<1>3. /\ manifest.active <= active /\ floor <= active /\ Boundary(floor) /\ durableManifest.floor <= floor
      /\ durableManifest.active <= manifest.active
  BY <1>1 DEF FInv, Memory, Serving, ManifestsInOrder
<1>4. FaultTypes'
  BY <1>1 DEF FInv, FaultTypes, TypeOK, Phases, Manifest
<1>p. NoMorePlaced
  BY <1>1, <1>2 DEF NoMorePlaced, Placed, Files, Serving
<1>5. Shaped' /\ OldFollow' /\ OldReached' /\ FilesApart' /\ OldLocated'
  BY <1>1, <1>p, QuietFiles, BeforeAlone, Typed
<1>6. DirtyLate'
  BY <1>1, <1>2 DEF FInv, DirtyLate, Serving
<1>7. ManifestsInOrder'
  BY <1>1, <1>2, <1>3, Typed DEF FInv, ManifestsInOrder, Boundary, End, Files
<1>e. Entries'
  <2>1. linked = segments /\ removed = {}
    BY <1>1 DEF FInv, Entries, Serving
  <2> QED
    BY <1>1, <2>1 DEF Entries
<1>8. Memory' /\ CleanBefore'
  BY <1>1, <1>2, Typed DEF FInv, Memory, CleanBefore, Serving, Boundary, End, Files, HeadBehind, Whole, HeadOf, Follows
<1>9. SettledBefore'
  BY <1>1 DEF FInv, SettledBefore, Serving
<1> QED
  BY <1>4, <1>5, <1>6, <1>7, <1>e, <1>8, <1>9 DEF FInv

\* The manifest is durable, with the segment of a roll or with a new floor.
LEMMA ManifestSyncKeeps ==
  ASSUME FInv, phase \in {"roll_sync", "floor_sync"}, durableManifest' = manifest, stale' = {},
         BeforeFalls,
         phase' = IF phase = "roll_sync" THEN "rolled" ELSE "reclaim",
         floor' = IF phase = "roll_sync" THEN floor ELSE manifest.floor,
         UNCHANGED <<segments, removed, linked, frames, synced, manifest, lock, active, closed, next, size, acked, lastId, crashes, reverted>>
  PROVE  FInv'
<1>1. /\ manifest.active = active /\ durableManifest.active <= manifest.active
      /\ durableManifest.floor <= manifest.floor /\ manifest.floor <= manifest.active
      /\ Boundary(manifest.floor) /\ (phase = "roll_sync" => manifest.floor = floor)
  BY DEF FInv, Memory, Serving, ManifestsInOrder
<1>2. floor' = manifest.floor
  BY <1>1
<1>3. FaultTypes'
  BY <1>2 DEF FInv, FaultTypes, TypeOK, Phases, Manifest, BeforeFalls
<1>p. NoMorePlaced
  BY Calm DEF Serving
<1>4. Shaped' /\ OldFollow' /\ OldReached' /\ FilesApart' /\ OldLocated'
  BY <1>1, <1>p, QuietFiles, Typed
<1>5. DirtyLate' /\ ManifestsInOrder'
  BY <1>1, Typed DEF FInv, DirtyLate, ManifestsInOrder, Serving, Boundary, End, Files
<1>e. Entries'
  <2>1. \A b \in removed : frames[b] # <<>> => b < manifest.floor
    BY <1>1, Typed DEF FInv, Entries
  <2> QED
    BY <2>1 DEF FInv, Entries, Serving
<1>6. Memory'
  BY <1>1, <1>2, Typed DEF FInv, Memory, Serving, Boundary, End, Files, HeadBehind
<1>7. CleanBefore'
  <2>1. lastId' < before'["write"] => lastId < before["write"]
    BY Typed DEF BeforeFalls, Kinds
  <2> QED
    BY <2>1 DEF FInv, CleanBefore, Serving, Whole, HeadOf, Follows, End
<1>8. SettledBefore'
  BY <1>1 DEF FInv, SettledBefore, Serving
<1> QED
  BY <1>3, <1>4, <1>5, <1>e, <1>6, <1>7, <1>8 DEF FInv

LEMMA RollSyncKeeps == ASSUME FInv, RollSync, UNCHANGED before PROVE FInv'
  BY ManifestSyncKeeps, BeforeAlone DEF RollSync, SyncManifest, memory, history

LEMMA FloorSyncKeeps == ASSUME FInv, FloorSync, UNCHANGED before PROVE FInv'
  BY ManifestSyncKeeps, BeforeAlone DEF FloorSync, SyncManifest, history

\* The floor that a retention chooses is a file boundary at or above the one in
\* memory, and not above the active file.
LEMMA FloorChosen ==
  ASSUME FInv, phase = "idle", NEW requested \in 0 .. next
  PROVE  LET f == RetentionBoundary(requested)
         IN  f \in Position /\ floor <= f /\ f <= active /\ Boundary(f)
<1> DEFINE bases == {b \in closed \cup {active} : b <= requested} \cup {floor}
           f == RetentionBoundary(requested)
<1>1. /\ active \in segments /\ closed = {b \in segments : b < active} /\ floor <= active /\ Boundary(floor)
      /\ active \in Position /\ floor \in Position
  BY DEF FInv, Memory, Serving, FaultTypes, TypeOK
<1>2. bases \in SUBSET Nat /\ bases # {} /\ \A x \in bases : x <= active
  BY <1>1, Typed
<1>3. \E x \in bases : \A y \in bases : y <= x
  BY <1>2, Typed, LargestExists
<1>4. f \in bases /\ \A y \in bases : y <= f
  BY <1>3 DEF RetentionBoundary
<1>5. floor <= f /\ f <= active
  BY <1>2, <1>4
<1>6. f \in Position
  BY <1>1, <1>4, Typed
<1>7. Boundary(f)
  <2>1. CASE f = floor
    BY <2>1, <1>1
  <2>2. CASE f # floor
    <3>1. f \in segments
      BY <2>2, <1>1, <1>4
    <3>2. f \in Files /\ Placed(f)
      BY <3>1, <1>5 DEF Files, Placed, Serving
    <3> QED
      BY <3>2 DEF Boundary, FInv, FilesApart
  <2> QED
    BY <2>1, <2>2
<1> QED
  BY <1>5, <1>6, <1>7

LEMMA ActivateRetentionKeeps == ASSUME FInv, ActivateRetention, UNCHANGED before PROVE FInv'
<1>1. /\ phase = "idle" /\ phase' = "floor_sync"
      /\ stale' = stale \cup ({manifest} \ {durableManifest})
      /\ UNCHANGED <<segments, removed, linked, frames, synced, durableManifest, lock, active, closed, next, size, floor, acked, lastId, crashes, reverted>>
  BY DEF ActivateRetention, Rename, memory, history
<1>2. PICK requested \in 0 .. next : manifest' = [active |-> active, floor |-> RetentionBoundary(requested)]
  BY DEF ActivateRetention, Rename
<1>3. PICK f : f = RetentionBoundary(requested)
  OBVIOUS
<1>4. f \in Position /\ floor <= f /\ f <= active /\ Boundary(f) /\ f \in Nat
  BY <1>1, <1>3, FloorChosen DEF Position
<1>5. manifest' = [active |-> active, floor |-> f] /\ manifest'.active = active /\ manifest'.floor = f
  BY <1>2, <1>3
<1>6. /\ manifest.active <= active /\ durableManifest.floor <= floor /\ durableManifest.active <= manifest.active
  BY <1>1 DEF FInv, Memory, Serving, ManifestsInOrder
<1>7. FaultTypes'
  BY <1>1, <1>4, <1>5 DEF FInv, FaultTypes, TypeOK, Phases, Manifest
<1>p. NoMorePlaced
  BY <1>1, <1>5 DEF NoMorePlaced, Placed, Files, Serving
<1>8. Shaped' /\ OldFollow' /\ OldReached' /\ FilesApart' /\ OldLocated'
  BY <1>1, <1>p, QuietFiles, BeforeAlone, Typed
<1>9. DirtyLate'
  BY <1>1, <1>5, Typed DEF FInv, DirtyLate, Serving
<1>10. ManifestsInOrder'
  BY <1>1, <1>4, <1>5, <1>6, Typed, SMTT(30) DEF FInv, ManifestsInOrder, Boundary, End, Files
<1>e. Entries'
  <2>1. linked = segments
    BY <1>1 DEF FInv, Entries, Serving
  <2> QED
    BY <1>1, <2>1 DEF FInv, Entries, Serving
<1>11. Memory' /\ CleanBefore'
  BY <1>1, <1>4, <1>5, Typed DEF FInv, Memory, CleanBefore, Serving, Boundary, End, Files, HeadBehind, Whole, HeadOf, Follows
<1>12. SettledBefore'
  BY <1>1 DEF FInv, SettledBefore, Serving
<1> QED
  BY <1>7, <1>8, <1>9, <1>10, <1>e, <1>11, <1>12 DEF FInv

----------------------------------------------------------------------------
(* Failed calls *)

\* From now on no frame is older than the first failure of this kind.
LEMMA Failed ==
  ASSUME FInv, NEW kind \in Kinds, MayFail(kind)
  PROVE  /\ before' \in [Kinds -> 0 .. MaxFrames]
         /\ \A k \in Kinds : before'[k] <= before[k] /\ (before'[k] # MaxFrames => before'[k] <= lastId)
         /\ before'[kind] <= lastId
         /\ \A k \in Kinds : k # kind => before'[k] = before[k]
<1>1. /\ before \in [Kinds -> 0 .. MaxFrames] /\ lastId \in 0 .. MaxFrames /\ MaxFrames \in Nat
      /\ \A k \in Kinds : before[k] # MaxFrames => before[k] <= lastId
  BY BoundsAssumption DEF FInv, FaultTypes, TypeOK
<1>2. before' = [before EXCEPT ![kind] = IF @ = MaxFrames THEN lastId ELSE @]
  BY DEF MayFail
<1>3. before'[kind] = IF before[kind] = MaxFrames THEN lastId ELSE before[kind]
  BY <1>1, <1>2
<1>4. \A k \in Kinds : k # kind => before'[k] = before[k]
  BY <1>1, <1>2
<1>5. before' \in [Kinds -> 0 .. MaxFrames]
  BY <1>1, <1>2, <1>3
<1>6. before'[kind] <= lastId /\ before'[kind] <= before[kind]
  BY <1>1, <1>3
<1>7. \A k \in Kinds : before[k] \in Nat
  BY <1>1
<1> QED
  BY <1>1, <1>4, <1>5, <1>6, <1>7

\* A manifest write fails, before its rename or after it.
LEMMA ManifestFailsKeeps ==
  ASSUME FInv, MayFail("manifest"), phase \in {"roll_write", "roll_sync", "floor_sync"}, phase' = "idle",
         UNCHANGED <<disk, lock, memory, history>>
  PROVE  FInv'
<1>1. UNCHANGED <<segments, removed, linked, frames, synced, manifest, durableManifest, stale, lock, active, closed, next, size, floor, acked, lastId, crashes, reverted>>
  BY DEF disk, memory, history
<1>2. BeforeFalls /\ before'["manifest"] <= lastId /\ before'["write"] = before["write"]
  BY <1>1, Failed DEF BeforeFalls, Kinds
<1>3. FaultTypes'
  BY <1>1, <1>2 DEF FInv, FaultTypes, TypeOK, Phases, BeforeFalls
<1>p. NoMorePlaced
  BY <1>1, Calm DEF Serving
<1>4. Shaped' /\ OldFollow' /\ OldReached' /\ FilesApart' /\ OldLocated'
  BY <1>1, <1>2, <1>p, QuietFiles, Typed
<1>5. DirtyLate' /\ ManifestsInOrder' /\ Entries'
  BY <1>1 DEF FInv, DirtyLate, ManifestsInOrder, Entries, Serving, Boundary, End, Files
<1>6. Memory' /\ CleanBefore'
  BY <1>1, <1>2 DEF FInv, Memory, CleanBefore, Serving, Boundary, End, Files, HeadBehind, Whole, HeadOf, Follows
<1>7. SettledBefore'
  <2>1. ~(lastId' < before'["manifest"])
    BY <1>1, <1>2, Typed DEF BeforeFalls, Kinds
  <2> QED
    BY <2>1 DEF SettledBefore
<1> QED
  BY <1>3, <1>4, <1>5, <1>6, <1>7 DEF FInv

----------------------------------------------------------------------------
(* Syncs, and a new file *)

\* The active file is synced.
LEMMA SyncedFiles ==
  ASSUME FInv, Serving, SyncActive, BeforeFalls, NoMorePlaced,
         UNCHANGED <<segments, removed, linked, frames, manifest, durableManifest, lastId>>
  PROVE  /\ synced' \in [Position -> Nat]
         /\ Shaped' /\ OldFollow' /\ OldReached' /\ FilesApart'
         /\ \A b \in Position : synced'[b] = IF b = active THEN Len(frames[b]) ELSE synced[b]
<1>1. active \in Position /\ synced' = [synced EXCEPT ![active] = Len(frames[active])]
  BY DEF SyncActive, FInv, FaultTypes, TypeOK
<1>2. \A b \in Position : synced'[b] = IF b = active THEN Len(frames[b]) ELSE synced[b]
  BY <1>1 DEF FInv, FaultTypes, TypeOK
<1>3. synced' \in [Position -> Nat]
  BY <1>1, Typed DEF FInv, FaultTypes, TypeOK
<1>4. NothingNew
  <2>1. \A b \in Position : synced'[b] \in Nat /\ synced'[b] <= Len(frames[b])
    BY <1>2, Typed, SMTT(30) DEF FInv, Shaped
  <2>2. frames \in [Position -> Seq(Frame)] /\ \A b \in Position : b \notin Files => frames[b] = <<>>
    BY DEF FInv, FaultTypes, TypeOK, Shaped
  <2> QED
    BY <2>1, <2>2 DEF NothingNew, Files
<1> QED
  BY <1>2, <1>3, <1>4, KeptFiles, Typed

LEMMA BeginRollKeeps == ASSUME FInv, BeginRoll, UNCHANGED before PROVE FInv'
<1>1. /\ phase = "idle" /\ phase' = "roll_create" /\ SyncActive
      /\ UNCHANGED <<segments, removed, linked, frames, manifest, durableManifest, stale, lock, active, closed, next, size, floor, acked, lastId, crashes, reverted>>
  BY DEF BeginRoll, memory, history
<1>2. /\ synced' \in [Position -> Nat] /\ Shaped' /\ OldFollow' /\ OldReached' /\ FilesApart'
      /\ \A b \in Position : synced'[b] = IF b = active THEN Len(frames[b]) ELSE synced[b]
  <2>1. NoMorePlaced
    BY <1>1, Calm DEF Serving
  <2> QED
    BY <1>1, <2>1, SyncedFiles, BeforeAlone DEF Serving
<1>3. FaultTypes'
  BY <1>1, <1>2 DEF FInv, FaultTypes, TypeOK, Phases
<1>4. OldLocated'
  <2>0. \A b \in linked : synced[b] \in Nat /\ synced'[b] \in Nat /\ synced[b] <= synced'[b]
    BY <1>2, Typed, SMTT(30) DEF FInv, Shaped
  <2>1. \A b \in linked : \A i \in 1 .. synced[b] : i \in 1 .. synced'[b]
    BY <2>0
  <2> QED
    BY <1>1, <2>1, KeptLocated, BeforeAlone, Typed, SMTT(30)
<1>5. DirtyLate'
  <2>1. \A b \in Position : synced'[b] < Len(frames[b]) => FALSE
    BY <1>1, <1>2, Typed DEF FInv, DirtyLate, Serving
  <2> QED
    BY <1>1, <2>1 DEF DirtyLate
<1>6. ManifestsInOrder' /\ Entries'
  BY <1>1 DEF FInv, ManifestsInOrder, Entries, Serving, Boundary, End, Files
<1>7. Memory' /\ CleanBefore'
  BY <1>1 DEF FInv, Memory, CleanBefore, Serving, Boundary, End, Files, HeadBehind, Whole, HeadOf, Follows
<1>8. SettledBefore'
  BY <1>1 DEF FInv, SettledBefore, Serving
<1> QED
  BY <1>2, <1>3, <1>4, <1>5, <1>6, <1>7, <1>8 DEF FInv

\* What a commit acknowledges is in the active file, synced just now, or in a
\* closed one, synced when it was left.
LEMMA CommitKeeps == ASSUME FInv, Commit, UNCHANGED before PROVE FInv'
<1>1. /\ phase = "idle" /\ phase' = "idle" /\ SyncActive /\ acked' = acked \cup Readable
      /\ UNCHANGED <<segments, removed, linked, frames, manifest, durableManifest, stale, lock, active, closed, next, size, floor, lastId, crashes, reverted>>
  BY DEF Commit, memory
<1>2. /\ synced' \in [Position -> Nat] /\ Shaped' /\ OldFollow' /\ OldReached' /\ FilesApart'
      /\ \A b \in Position : synced'[b] = IF b = active THEN Len(frames[b]) ELSE synced[b]
  <2>1. NoMorePlaced
    BY <1>1, Calm DEF Serving
  <2> QED
    BY <1>1, <2>1, SyncedFiles, BeforeAlone DEF Serving
<1>3. linked = segments /\ active \in segments /\ closed = {b \in segments : b < active}
  BY <1>1 DEF FInv, Memory, Entries, Serving
<1>4. \A b \in segments : synced'[b] = Len(frames[b])
  BY <1>1, <1>2, Typed DEF FInv, DirtyLate, Serving, Shaped
<1>5. ASSUME NEW fr \in Readable
      PROVE  /\ fr.whole /\ fr \in Frame
             /\ \E b \in linked : \E i \in 1 .. synced'[b] : frames[b][i] = fr
  <2>1. fr.whole /\ \E b \in closed \cup {active} : fr \in InFile(b)
    BY DEF Readable
  <2>2. PICK b \in closed \cup {active} : fr \in InFile(b)
    BY <2>1
  <2>3. b \in segments /\ b \in Position
    BY <1>3, <2>2, Typed
  <2>4. PICK i \in 1 .. Len(frames[b]) : frames[b][i] = fr
    BY <2>2 DEF InFile
  <2>5. i \in 1 .. synced'[b]
    BY <1>4, <2>3
  <2> QED
    BY <1>3, <2>1, <2>3, <2>4, <2>5, FrameTyped
<1>6. FaultTypes'
  BY <1>1, <1>2, <1>5 DEF FInv, FaultTypes, TypeOK, Phases
<1>7. OldLocated'
  <2>0. \A b \in linked : synced[b] \in Nat /\ synced'[b] \in Nat /\ synced[b] <= synced'[b]
    BY <1>2, Typed, SMTT(30) DEF FInv, Shaped
  <2>1. \A b \in linked : \A i \in 1 .. synced[b] : i \in 1 .. synced'[b]
    BY <2>0
  <2>2. ASSUME NEW fr \in acked
        PROVE  /\ fr.whole
               /\ fr.id <= before["write"] /\ Above(fr, durableManifest.floor) =>
                     \E b \in linked : \E i \in 1 .. synced'[b] : frames[b][i] = fr
    BY <2>1 DEF FInv, OldLocated
  <2> QED
    BY <1>1, <1>5, <2>2 DEF OldLocated, Above, End
<1>8. DirtyLate'
  <2>1. \A b \in Position : synced'[b] < Len(frames[b]) => FALSE
    BY <1>1, <1>2, Typed DEF FInv, DirtyLate, Serving
  <2> QED
    BY <1>1, <2>1 DEF DirtyLate
<1>9. ManifestsInOrder' /\ Entries'
  BY <1>1 DEF FInv, ManifestsInOrder, Entries, Serving, Boundary, End, Files
<1>10. Memory' /\ CleanBefore'
  BY <1>1 DEF FInv, Memory, CleanBefore, Serving, Boundary, End, Files, HeadBehind, Whole, HeadOf, Follows
<1>11. SettledBefore'
  BY <1>1 DEF FInv, SettledBefore, Serving
<1> QED
  BY <1>2, <1>6, <1>7, <1>8, <1>9, <1>10, <1>11 DEF FInv

\* A new, empty file behind all others, or a roll refused.
LEMMA RollCreateKeeps == ASSUME FInv, RollCreate, UNCHANGED before PROVE FInv'
<1>1. /\ phase = "roll_create"
      /\ UNCHANGED <<linked, manifest, durableManifest, stale, lock, active, closed, next, size, floor, acked, lastId, crashes, reverted>>
  BY DEF RollCreate, memory, history
<1>2. CASE next \in segments
  <2>1. phase' = "idle" /\ UNCHANGED <<segments, removed, frames, synced>>
    BY <1>2 DEF RollCreate
  <2>2. FaultTypes'
    BY <1>1, <2>1 DEF FInv, FaultTypes, TypeOK, Phases
  <2>3. Shaped' /\ OldFollow' /\ OldReached' /\ FilesApart' /\ OldLocated'
    <3>1. NoMorePlaced
      BY <1>1, <2>1, Calm DEF Serving
    <3> QED
      BY <1>1, <2>1, <3>1, QuietFiles, BeforeAlone, Typed
  <2>4. DirtyLate' /\ ManifestsInOrder' /\ Entries'
    BY <1>1, <2>1 DEF FInv, DirtyLate, ManifestsInOrder, Entries, Serving, Boundary, End, Files
  <2>5. Memory' /\ CleanBefore'
    BY <1>1, <2>1 DEF FInv, Memory, CleanBefore, Serving, Boundary, End, Files, HeadBehind, Whole, HeadOf, Follows
  <2>6. SettledBefore'
    BY <1>1, <2>1 DEF FInv, SettledBefore, Serving
  <2> QED
    BY <2>2, <2>3, <2>4, <2>5, <2>6 DEF FInv
<1>3. CASE next \notin segments
  <2>1. /\ phase' = "roll_link" /\ segments' = segments \cup {next} /\ removed' = removed \ {next}
        /\ frames' = [frames EXCEPT ![next] = <<>>] /\ synced' = [synced EXCEPT ![next] = 0]
    BY <1>3 DEF RollCreate
  <2>2. /\ lock /\ linked = segments /\ active \in segments /\ closed = {b \in segments : b < active}
        /\ (\A b \in segments : b <= active)
        /\ floor <= active /\ Boundary(floor) /\ HeadBehind(active)
        /\ manifest.active <= active /\ durableManifest.floor <= floor /\ Boundary(durableManifest.floor)
        /\ removed \cap segments = {}
        /\ \A b \in removed : frames[b] # <<>> => b < durableManifest.floor
    BY <1>1 DEF FInv, Memory, Entries, ManifestsInOrder, Serving
  <2>3. next \in Position /\ active < next
    BY <1>3, <2>2, Typed DEF HeadBehind, FInv, FaultTypes, TypeOK
  <2>4. frames[next] = <<>>
    <3>1. CASE next \in removed
      BY <3>1, <2>2, <2>3, Typed
    <3>2. CASE next \notin removed
      BY <1>3, <2>3, <3>2 DEF FInv, Shaped, Files
    <3> QED
      BY <3>1, <3>2
  <2>f. Files' = Files \cup {next}
    BY <2>1 DEF Files
  <2>5. frames' = frames
    BY <2>1, <2>3, <2>4 DEF FInv, FaultTypes, TypeOK
  <2>6. \A b \in Position : synced'[b] = IF b = next THEN 0 ELSE synced[b]
    BY <2>1 DEF FInv, FaultTypes, TypeOK
  <2>7. \A b \in Files : \A i \in 1 .. Len(frames[b]) : End(frames[b][i]) <= next
    <3>0. ASSUME NEW b \in removed, NEW i \in 1 .. Len(frames[b]) PROVE End(frames[b][i]) <= next
      <4>1. frames[b] # <<>> /\ b \in Position /\ b \in Files
        BY <3>0, Typed DEF Files
      <4>2. End(frames[b][i]) <= durableManifest.floor
        BY <2>2, <4>1 DEF Boundary
      <4> QED
        BY <4>1, <4>2, <2>2, <2>3, FrameTyped, Typed
    <3>1. ASSUME NEW b \in segments, NEW i \in 1 .. Len(frames[b]) PROVE End(frames[b][i]) <= next
      <4>1. CASE b = active
        BY <4>1, <2>2 DEF HeadBehind
      <4>2. CASE b # active
        <5>1. b < active /\ b \in Position
          BY <4>2, <2>2, Typed
        <5>2. End(frames[b][i]) <= active
          <6>1. b \in Files /\ active \in Files /\ Placed(active)
            BY <1>1, <2>2 DEF Files, Placed, Serving
          <6> QED
            BY <5>1, <6>1 DEF FInv, FilesApart
        <5> QED
          BY <5>1, <5>2, <2>3, FrameTyped, Typed
      <4> QED
        BY <4>1, <4>2
    <3> QED
      BY <3>0, <3>1 DEF Files
  <2>8. FaultTypes'
    BY <1>1, <2>1, <2>3, <2>5 DEF FInv, FaultTypes, TypeOK, Phases
  <2>9. Shaped'
    <3>1. \A b \in Position : b \notin Files' => frames[b] = <<>>
      BY <2>f DEF FInv, Shaped
    <3>2. \A b \in Position : synced'[b] <= Len(frames[b])
      BY <2>6, Typed, SMTT(30) DEF FInv, Shaped
    <3> QED
      BY <1>1, <2>5, <3>1, <3>2 DEF FInv, Shaped, End
  <2>10. OldFollow' /\ OldReached'
    BY <1>1, <2>5 DEF FInv, OldFollow, OldReached, Follows, End
  <2>11. FilesApart'
    <3>1. ASSUME NEW b \in Files', NEW c \in Files', b < c, NEW i \in 1 .. Len(frames[b]),
                 frames[c] # <<>> \/ c <= manifest.active \/ c <= active \/ c \in segments'
          PROVE  /\ End(frames[b][i]) <= c
                 /\ \A k \in 1 .. Len(frames[c]) :
                       frames[b][i].whole /\ frames[c][k].whole => frames[b][i].id < frames[c][k].id
      <4>1. b # next
        BY <2>4
      <4>2. b \in Files
        BY <4>1, <2>f
      <4>3. CASE c = next
        BY <4>2, <4>3, <2>4, <2>7
      <4>4. CASE c # next
        <5>1. c \in Files /\ Placed(c)
          BY <1>1, <4>4, <2>1, <2>f, <3>1 DEF Placed, Serving
        <5> QED
          BY <4>2, <5>1, <3>1 DEF FInv, FilesApart
      <4> QED
        BY <4>3, <4>4
    <3> QED
      BY <1>1, <2>5, <3>1 DEF FilesApart, Placed, End
  <2>12. DirtyLate'
    <3>1. \A b \in Position : synced'[b] < Len(frames[b]) => FALSE
      <4>1. \A b \in Position : ~(synced[b] < Len(frames[b]))
        BY <1>1 DEF FInv, DirtyLate, Serving
      <4>2. Len(frames[next]) = 0
        BY <2>4
      <4> QED
        BY <4>1, <4>2, <2>6
    <3> QED
      BY <2>5, <3>1 DEF DirtyLate
  <2>13. ASSUME NEW f \in Nat, Boundary(f)
         PROVE  \A b \in Files' : b < f => \A i \in 1 .. Len(frames[b]) : End(frames[b][i]) <= f
    <3>1. ASSUME NEW b \in Files', b < f, NEW i \in 1 .. Len(frames[b]) PROVE End(frames[b][i]) <= f
      <4>1. b # next
        BY <2>4
      <4> QED
        BY <4>1, <2>f, <2>13, <3>1 DEF Boundary
    <3> QED
      BY <3>1
  <2>14. ManifestsInOrder'
    BY <1>1, <2>5, <2>13, Typed DEF FInv, ManifestsInOrder, Boundary, End
  <2>e. Entries'
    <3>1. removed' \cap segments' = {}
      BY <2>1, <2>2
    <3>2. \A b \in segments' \ linked : b > manifest.active /\ frames[b] = <<>>
      <4>1. \A b \in segments' \ linked : b = next
        BY <2>1, <2>2
      <4>2. next > manifest.active
        BY <2>2, <2>3, Typed
      <4> QED
        BY <4>1, <4>2, <2>4
    <3> QED
      BY <1>1, <2>1, <2>2, <2>5, <3>1, <3>2 DEF Entries
  <2>15. Memory'
    <3>1. Boundary(floor)'
      BY <1>1, <2>2, <2>5, <2>13, Typed DEF Boundary, End
    <3>2. closed = {b \in segments' : b < active}
      BY <2>1, <2>2, <2>3, Typed, SMTT(30)
    <3>3. \A b \in segments' : b <= active \/ b = next
      BY <2>1, <2>2
    <3> QED
      BY <1>1, <2>1, <2>2, <2>3, <2>4, <2>5, <3>1, <3>2, <3>3
         DEF FInv, Memory, Serving, HeadBehind, End
  <2>16. CleanBefore'
    BY <1>1, <2>1, <2>5 DEF FInv, CleanBefore, Serving, Whole, HeadOf, Follows, End
  <2>17. SettledBefore'
    BY <1>1, <2>1 DEF FInv, SettledBefore, Serving
  <2>18. OldLocated'
    <3>1. \A b \in linked : \A i \in 1 .. synced[b] : i \in 1 .. synced'[b]
      BY <1>3, <2>2, <2>6, Typed
    <3> QED
      BY <1>1, <2>5, <3>1, KeptLocated, BeforeAlone, Typed, SMTT(30)
  <2> QED
    BY <2>8, <2>9, <2>10, <2>11, <2>12, <2>14, <2>e, <2>15, <2>16, <2>17, <2>18 DEF FInv
<1> QED
  BY <1>2, <1>3

----------------------------------------------------------------------------
(* Writes, whole and in part *)

\* One more frame at the end of the active file.
LEMMA OneMoreFrame ==
  ASSUME FInv, active \in Position, NEW e \in Frame,
         frames' = [frames EXCEPT ![active] = Append(@, e)]
  PROVE  /\ frames' \in [Position -> Seq(Frame)]
         /\ \A b \in Position : b # active => frames'[b] = frames[b]
         /\ Len(frames'[active]) = Len(frames[active]) + 1
         /\ \A i \in 1 .. Len(frames[active]) : frames'[active][i] = frames[active][i]
         /\ frames'[active][Len(frames[active]) + 1] = e
<1>1. frames \in [Position -> Seq(Frame)]
  BY DEF FInv, FaultTypes, TypeOK
<1>2. frames'[active] = Append(frames[active], e) /\ frames[active] \in Seq(Frame)
  BY <1>1
<1>3. \A b \in Position : b # active => frames'[b] = frames[b]
  BY <1>1
<1>4. /\ Append(frames[active], e) \in Seq(Frame)
      /\ Len(Append(frames[active], e)) = Len(frames[active]) + 1
      /\ \A i \in 1 .. Len(frames[active]) : Append(frames[active], e)[i] = frames[active][i]
      /\ Append(frames[active], e)[Len(frames[active]) + 1] = e
  BY <1>2
<1>5. frames' \in [Position -> Seq(Frame)]
  BY <1>1, <1>2, <1>4
<1> QED
  BY <1>2, <1>3, <1>4, <1>5

\* A part of a frame in the active file.
LEMMA TornFiles ==
  ASSUME FInv, Serving, BeforeFalls, frames' = [frames EXCEPT ![active] = Append(@, Torn)],
         Serving' => UNCHANGED active,
         UNCHANGED <<segments, removed, linked, synced, manifest, durableManifest, acked, lastId>>
  PROVE  /\ frames' \in [Position -> Seq(Frame)]
         /\ \A b \in Position : b # active => frames'[b] = frames[b]
         /\ NothingNew
         /\ Shaped' /\ OldFollow' /\ OldReached' /\ FilesApart' /\ OldLocated'
         /\ ManifestsInOrder'
<1>1. active \in Position /\ active \in segments /\ active \in Files
  BY DEF FInv, FaultTypes, TypeOK, Memory, Files
<1>2. /\ frames' \in [Position -> Seq(Frame)]
      /\ \A b \in Position : b # active => frames'[b] = frames[b]
      /\ Len(frames'[active]) = Len(frames[active]) + 1
      /\ \A i \in 1 .. Len(frames[active]) : frames'[active][i] = frames[active][i]
      /\ frames'[active][Len(frames[active]) + 1] = Torn
  BY <1>1, OneMoreFrame, TornTyped
<1>3. NothingNew
  <2>1. \A c \in Position : synced[c] \in Nat /\ synced[c] <= Len(frames'[c])
    BY <1>2, Typed DEF FInv, Shaped
  <2>2. \A c \in Position : \A i \in 1 .. Len(frames'[c]) :
           \/ i \in 1 .. Len(frames[c]) /\ frames'[c][i] = frames[c][i]
           \/ i = Len(frames'[c]) /\ frames'[c][i] = Torn
    BY <1>2, Typed, SMTT(30)
  <2>3. \A c \in Position : c \notin Files => frames'[c] = <<>>
    BY <1>1, <1>2 DEF FInv, Shaped
  <2> QED
    BY <1>2, <2>1, <2>2, <2>3 DEF NothingNew, Files
<1>p. NoMorePlaced
  <2>1. Files' = Files /\ \A c \in Files : c # active => frames'[c] = frames[c]
    BY <1>2, Typed DEF Files
  <2>2. active \in Nat /\ active <= active
    BY Typed
  <2> QED
    BY <2>1, <2>2 DEF NoMorePlaced, Placed
<1>4. OldLocated'
  <2>1. ASSUME NEW b \in linked, NEW i \in 1 .. synced[b] PROVE frames'[b][i] = frames[b][i]
    <3>1. b \in Position /\ i \in 1 .. Len(frames[b])
      BY Typed, SMTT(30) DEF FInv, Shaped
    <3> QED
      BY <1>2, <3>1
  <2>2. \A b \in linked : \A i \in 1 .. synced[b] :
           b \in linked' /\ i \in 1 .. synced'[b] /\ frames'[b][i] = frames[b][i]
    BY <2>1
  <2>3. durableManifest'.floor \in Nat /\ durableManifest.floor <= durableManifest'.floor
    BY Typed
  <2> QED
    BY <2>2, <2>3, KeptLocated
<1>5. ManifestsInOrder'
  BY <1>3, KeptEnds, Typed DEF FInv, ManifestsInOrder, Boundary, End, Files
<1> QED
  BY <1>2, <1>3, <1>4, <1>5, <1>p, KeptFiles, Typed

LEMMA WriteFailsKeeps == ASSUME FInv, WriteFails PROVE FInv'
<1>1. /\ phase \in {"idle", "rolled"} /\ phase' = "idle" /\ MayFail("write")
      /\ frames' = [frames EXCEPT ![active] = Append(@, Torn)]
      /\ UNCHANGED <<segments, removed, linked, synced, manifest, durableManifest, stale, lock, active, closed, next, size, floor, acked, lastId, crashes, reverted>>
  BY DEF WriteFails, MayWrite, memory, history
<1>2. BeforeFalls /\ before'["write"] <= lastId /\ before'["manifest"] = before["manifest"]
  BY <1>1, Failed DEF BeforeFalls, Kinds
<1>3. /\ frames' \in [Position -> Seq(Frame)]
      /\ \A b \in Position : b # active => frames'[b] = frames[b]
      /\ NothingNew
      /\ Shaped' /\ OldFollow' /\ OldReached' /\ FilesApart' /\ OldLocated' /\ ManifestsInOrder'
  BY <1>1, <1>2, TornFiles DEF Serving
<1>4. FaultTypes'
  BY <1>1, <1>2, <1>3 DEF FInv, FaultTypes, TypeOK, Phases, BeforeFalls
<1>5. DirtyLate'
  <2>1. manifest.active <= active
    BY <1>1 DEF FInv, Memory, Serving
  <2> QED
    BY <1>1, <1>3, <2>1 DEF FInv, DirtyLate, Serving
<1>e. Entries'
  <2>1. linked = segments /\ active \in segments /\ removed \cap segments = {}
    BY <1>1 DEF FInv, Entries, Memory, Serving
  <2>2. \A b \in removed : frames'[b] = frames[b]
    BY <1>3, <2>1, Typed
  <2> QED
    BY <1>1, <2>1, <2>2 DEF FInv, Entries, Serving
<1>6. Memory'
  <2>1. Boundary(floor)'
    BY <1>1, <1>3, KeptEnds, Typed DEF FInv, Memory, Serving, Boundary, End, Files
  <2>2. HeadBehind(active)'
    <3>1. HeadBehind(active) /\ active \in Position
      BY <1>1 DEF FInv, FaultTypes, TypeOK, Memory, Serving
    <3>2. \A i \in 1 .. Len(frames'[active]) : End(frames'[active][i]) <= next
      BY <1>3, <3>1, KeptEnds
    <3> QED
      BY <1>1, <3>1, <3>2 DEF HeadBehind, End
  <2> QED
    BY <1>1, <2>1, <2>2 DEF FInv, Memory, Serving
<1>7. CleanBefore'
  <2>1. ~(lastId' < before'["write"])
    BY <1>1, <1>2, Typed DEF BeforeFalls, Kinds
  <2> QED
    BY <2>1 DEF CleanBefore
<1>8. SettledBefore'
  BY <1>1, <1>2 DEF FInv, SettledBefore, Serving
<1> QED
  BY <1>3, <1>4, <1>5, <1>e, <1>6, <1>7, <1>8 DEF FInv

\* A kill, in a write or not.
LEMMA KillKeeps == ASSUME FInv, Kill, UNCHANGED before PROVE FInv'
<1>1. /\ phase # "down" /\ phase' = "down" /\ crashes < MaxCrashes /\ crashes' = crashes + 1 /\ Forget
      /\ UNCHANGED <<segments, removed, linked, synced, manifest, durableManifest, stale, lock, acked, lastId, reverted>>
  BY DEF Kill
<1>2. crashes' \in 0 .. MaxCrashes /\ lock \in BOOLEAN
  BY <1>1, BoundsAssumption DEF FInv, FaultTypes, TypeOK
<1>3. CASE UNCHANGED frames
  BY <1>1, <1>2, <1>3, GoneKeeps, BeforeAlone
<1>4. CASE MayWrite /\ frames' = [frames EXCEPT ![active] = Append(@, Torn)]
  <2>1. phase \in {"idle", "rolled"} /\ Serving
    BY <1>4 DEF MayWrite, Serving
  <2>2. /\ frames' \in [Position -> Seq(Frame)]
        /\ \A b \in Position : b # active => frames'[b] = frames[b]
        /\ NothingNew
        /\ Shaped' /\ OldFollow' /\ OldReached' /\ FilesApart' /\ OldLocated' /\ ManifestsInOrder'
    BY <1>1, <1>4, <2>1, TornFiles, BeforeAlone DEF Serving
  <2>3. FaultTypes'
    BY <1>1, <1>2, <2>2, ForgetTyped DEF FInv, FaultTypes, TypeOK, Phases
  <2>4. DirtyLate'
    <3>1. manifest.active <= active
      BY <2>1 DEF FInv, Memory
    <3> QED
      BY <1>1, <2>2, <3>1 DEF FInv, DirtyLate, Serving
  <2>e. Entries'
    <3>1. linked = segments /\ active \in segments /\ removed \cap segments = {}
      BY <2>1 DEF FInv, Entries, Memory, Serving
    <3>2. \A b \in removed : frames'[b] = frames[b]
      BY <2>2, <3>1, Typed
    <3> QED
      BY <1>1, <3>1, <3>2 DEF FInv, Entries, Serving
  <2>5. Memory' /\ CleanBefore' /\ SettledBefore'
    BY <1>1, <1>2 DEF FInv, Memory, CleanBefore, SettledBefore, Serving
  <2> QED
    BY <2>2, <2>3, <2>4, <2>e, <2>5 DEF FInv
<1> QED
  BY <1>3, <1>4 DEF Kill

\* A new frame continues the active file at the head.
LEMMA AppendFrameKeeps ==
  ASSUME FInv, NEW n \in Nat, AppendFrame(n), UNCHANGED before
  PROVE  FInv'
<1> DEFINE len == Len(frames[active])
           fr == [id |-> lastId + 1, first |-> next, count |-> n, whole |-> TRUE]
<1>1. /\ phase \in {"idle", "rolled"} /\ phase' = "idle" /\ lastId < MaxFrames /\ next + n \in Position
      /\ frames' = [frames EXCEPT ![active] = Append(@, fr)]
      /\ next' = next + n /\ size' = size + 1 /\ lastId' = lastId + 1
      /\ UNCHANGED <<segments, removed, linked, synced, manifest, durableManifest, stale, lock, active, closed, floor, acked, crashes, reverted>>
  BY DEF AppendFrame, MayWrite
<1>2. /\ lock /\ linked = segments /\ active \in segments /\ active \in Position
      /\ closed = {b \in segments : b < active} /\ (\A b \in segments : b <= active)
      /\ manifest.active <= active /\ floor <= active /\ Boundary(floor)
      /\ durableManifest.floor <= floor /\ HeadBehind(active)
      /\ removed \cap segments = {} /\ \A b \in removed : frames[b] # <<>> => b < durableManifest.floor
  BY <1>1, Typed DEF FInv, Memory, Entries, Serving
<1>3. fr \in Frame /\ End(fr) = next + n /\ End(fr) <= MaxPosition /\ fr.whole /\ fr.first = next /\ fr.id = lastId + 1
  <2>1. lastId + 1 \in 0 .. MaxFrames /\ next \in Position
    BY <1>1, BoundsAssumption DEF FInv, FaultTypes, TypeOK
  <2> QED
    BY <1>1, <2>1 DEF Frame, End, Position
<1> HIDE DEF fr
<1>4. /\ frames' \in [Position -> Seq(Frame)]
      /\ \A b \in Position : b # active => frames'[b] = frames[b]
      /\ Len(frames'[active]) = len + 1
      /\ \A i \in 1 .. len : frames'[active][i] = frames[active][i]
      /\ frames'[active][len + 1] = fr
  BY <1>1, <1>2, <1>3, OneMoreFrame
<1>5. len \in Nat /\ synced[active] \in Nat /\ synced[active] <= len
  BY <1>2, Typed DEF FInv, Shaped
<1>6. \A b \in Position : \A i \in 1 .. Len(frames'[b]) :
         \/ i \in 1 .. Len(frames[b]) /\ \A j \in 1 .. i : frames'[b][j] = frames[b][j] /\ j \in 1 .. Len(frames[b])
         \/ b = active /\ i = len + 1 /\ frames'[b][i] = fr
  <2>1. ASSUME NEW b \in Position, b # active, NEW i \in 1 .. Len(frames'[b])
        PROVE  i \in 1 .. Len(frames[b]) /\ \A j \in 1 .. i : frames'[b][j] = frames[b][j] /\ j \in 1 .. Len(frames[b])
    BY <1>4, <2>1, Typed, SMTT(30)
  <2>2. ASSUME NEW i \in 1 .. len + 1, i # len + 1
        PROVE  i \in 1 .. len /\ \A j \in 1 .. i : frames'[active][j] = frames[active][j] /\ j \in 1 .. len
    BY <1>4, <1>5, <2>2, SMTT(30)
  <2> QED
    BY <1>4, <2>1, <2>2
<1>0. \A b \in Position : \A i \in 1 .. Len(frames[b]) : frames[b][i].id \in Nat /\ End(frames[b][i]) \in Nat
  BY FrameTyped
<1>7. \A b \in Position : \A i \in 1 .. Len(frames[b]) :
         frames[b][i].whole => frames[b][i].id <= lastId /\ frames[b][i].id < lastId + 1
  <2>1. \A b \in Position : \A i \in 1 .. Len(frames[b]) : frames[b][i].whole => frames[b][i].id <= lastId
    BY DEF FInv, Shaped
  <2> QED
    BY <1>0, <2>1, Typed, SMTT(30)
<1>8. ASSUME lastId < before["write"]
      PROVE  (\A i \in 1 .. len : Follows(active, i)) /\ HeadOf(active)
  BY <1>1, <1>8 DEF FInv, CleanBefore, Serving, Whole
<1>9. ASSUME lastId < before["write"]
      PROVE  next = IF len = 0 THEN active ELSE End(frames[active][len])
  <2>1. frames[active] = <<>> <=> len = 0
    BY <1>2, Typed
  <2> QED
    BY <1>8, <1>9, <2>1 DEF HeadOf
<1>10. FaultTypes'
  <2>1. \A k \in Kinds : before[k] # MaxFrames => before[k] <= lastId + 1
    BY Typed DEF FInv, FaultTypes, Kinds
  <2>2. lastId + 1 \in 0 .. MaxFrames /\ size + 1 \in Nat
    BY <1>1, BoundsAssumption DEF FInv, FaultTypes, TypeOK
  <2> QED
    BY <1>1, <1>4, <2>1, <2>2 DEF FInv, FaultTypes, TypeOK, Phases
<1>11. Shaped'
  <2>1. ASSUME NEW b \in Position, NEW i \in 1 .. Len(frames'[b])
        PROVE  /\ End(frames'[b][i]) <= MaxPosition
               /\ ~frames'[b][i].whole => frames'[b][i] = Torn
               /\ frames'[b][i].whole => b <= frames'[b][i].first /\ frames'[b][i].id <= lastId + 1
               /\ \A j \in 1 .. i - 1 : frames'[b][i].whole /\ frames'[b][j].whole =>
                     End(frames'[b][j]) <= frames'[b][i].first /\ frames'[b][j].id < frames'[b][i].id
    <3>1. CASE i \in 1 .. Len(frames[b]) /\ \A j \in 1 .. i : frames'[b][j] = frames[b][j] /\ j \in 1 .. Len(frames[b])
      <4>1. frames'[b][i] = frames[b][i] /\ \A j \in 1 .. i - 1 : frames'[b][j] = frames[b][j]
        BY <3>1
      <4>2. frames[b][i].id \in Nat
        BY <3>1, FrameTyped
      <4>3. frames[b][i].whole => frames[b][i].id <= lastId + 1
        BY <1>7, <3>1, <4>2, Typed, SMTT(30)
      <4> QED
        BY <3>1, <4>1, <4>3 DEF FInv, Shaped
    <3>2. CASE b = active /\ i = len + 1 /\ frames'[b][i] = fr
      <4>1. active <= next /\ \A j \in 1 .. len : End(frames[active][j]) <= next
        BY <1>2 DEF HeadBehind
      <4>2. \A j \in 1 .. i - 1 : j \in 1 .. len /\ frames'[b][j] = frames[active][j]
        BY <1>4, <1>5, <3>2
      <4>3. \A j \in 1 .. len : frames[active][j].whole => frames[active][j].id < lastId + 1
        BY <1>2, <1>7
      <4>4. End(fr) <= MaxPosition /\ active <= fr.first /\ fr.id = lastId + 1 /\ fr.first = next /\ fr.whole
        BY <1>3, <4>1, Typed
      <4>5. lastId + 1 <= lastId + 1
        BY Typed
      <4> QED
        BY <3>2, <4>1, <4>2, <4>3, <4>4, <4>5
    <3> QED
      BY <1>6, <3>1, <3>2
  <2>2. \A b \in Position : b \notin Files => frames'[b] = <<>>
    BY <1>2, <1>4 DEF FInv, Shaped, Files
  <2>3. \A b \in Position : synced[b] <= Len(frames'[b])
    BY <1>4, <1>5 DEF FInv, Shaped
  <2> QED
    BY <1>1, <2>1, <2>2, <2>3 DEF Shaped, End, Files
<1>12. OldFollow'
  <2>1. ASSUME NEW b \in Position, NEW i \in 1 .. Len(frames'[b]), frames'[b][i].whole,
               frames'[b][i].id <= before["write"], NEW j \in 1 .. i
        PROVE  frames'[b][j].whole /\ frames'[b][j].first = IF j = 1 THEN b ELSE End(frames'[b][j - 1])
    <3>1. CASE i \in 1 .. Len(frames[b]) /\ \A x \in 1 .. i : frames'[b][x] = frames[b][x] /\ x \in 1 .. Len(frames[b])
      <4>1. i \in 1 .. i /\ (j # 1 => j - 1 \in 1 .. i)
        BY <3>1
      <4>2. Follows(b, j)
        BY <2>1, <3>1, <4>1 DEF FInv, OldFollow
      <4> QED
        BY <3>1, <4>1, <4>2 DEF Follows
    <3>2. CASE b = active /\ i = len + 1 /\ frames'[b][i] = fr
      <4>1. lastId < before["write"]
        BY <1>3, <2>1, <3>2, Typed
      <4>2. CASE j = len + 1
        <5>0. len # 0 => len \in 1 .. len
          BY <1>5
        <5>1. len # 0 => len \in 1 .. len /\ frames'[active][len] = frames[active][len]
          BY <1>4, <5>0
        <5>2. j = 1 <=> len = 0
          BY <1>5, <4>2
        <5>3. j - 1 = len
          BY <1>5, <4>2
        <5> QED
          BY <1>3, <1>9, <3>2, <4>1, <4>2, <5>1, <5>2, <5>3
      <4>3. CASE j # len + 1
        <5>1. j \in 1 .. len /\ (j # 1 => j - 1 \in 1 .. len)
          BY <1>5, <3>2, <4>3
        <5>2. Follows(active, j)
          BY <1>8, <4>1, <5>1
        <5> QED
          BY <1>4, <3>2, <5>1, <5>2 DEF Follows
      <4> QED
        BY <4>2, <4>3
    <3> QED
      BY <1>6, <3>1, <3>2
  <2> QED
    BY <2>1 DEF OldFollow, Follows, End
<1>13. OldReached'
  <2>1. ASSUME NEW b \in Position, NEW i \in 1 .. Len(frames'[b]), frames'[b][i].whole,
               frames'[b][i].id <= before["manifest"]
        PROVE  b <= durableManifest.active
    <3>1. CASE i \in 1 .. Len(frames[b]) /\ \A x \in 1 .. i : frames'[b][x] = frames[b][x] /\ x \in 1 .. Len(frames[b])
      <4>1. i \in 1 .. i
        BY <3>1
      <4> QED
        BY <2>1, <3>1, <4>1 DEF FInv, OldReached
    <3>2. CASE b = active /\ i = len + 1 /\ frames'[b][i] = fr
      <4>1. lastId < before["manifest"]
        BY <1>3, <2>1, <3>2, Typed
      <4>2. durableManifest.active = active
        BY <1>1, <4>1 DEF FInv, SettledBefore, Serving
      <4> QED
        BY <3>2, <4>2, Typed
    <3> QED
      BY <1>6, <3>1, <3>2
  <2> QED
    BY <1>1, <2>1 DEF OldReached
<1>14. FilesApart'
  <2>0. ASSUME NEW b \in Files, NEW c \in Files, b < c, NEW i \in 1 .. Len(frames'[b]),
               frames'[c] # <<>> \/ c <= manifest.active \/ c <= active \/ c \in segments
        PROVE  Placed(c) /\ b # active
    <3>1. CASE c <= active
      BY <1>1, <2>0, <3>1, Typed DEF Placed, Serving
    <3>2. CASE ~(c <= active)
      <4>1. c \notin segments /\ c \in removed /\ c # active /\ c \in Position
        BY <1>2, <2>0, <3>2, Typed DEF Files
      <4>2. frames'[c] # <<>>
        BY <1>2, <2>0, <3>2, <4>1, Typed
      <4>3. frames[c] # <<>>
        BY <1>4, <4>1, <4>2
      <4>4. c < durableManifest.floor
        BY <1>2, <4>1, <4>3
      <4> QED
        BY <1>2, <3>2, <4>1, <4>4, Typed
    <3> QED
      BY <3>1, <3>2
  <2>1. ASSUME NEW b \in Files, NEW c \in Files, b < c, NEW i \in 1 .. Len(frames'[b]),
               frames'[c] # <<>> \/ c <= manifest.active \/ c <= active \/ c \in segments
        PROVE  /\ End(frames'[b][i]) <= c
               /\ \A k \in 1 .. Len(frames'[c]) :
                     frames'[b][i].whole /\ frames'[c][k].whole => frames'[b][i].id < frames'[c][k].id
    <3>1. b # active /\ b \in Position /\ c \in Position /\ Placed(c)
      BY <2>0, <2>1, Typed
    <3>2. frames'[b] = frames[b]
      BY <1>4, <3>1
    <3>3. ASSUME NEW k \in 1 .. Len(frames'[c]), frames[b][i].whole, frames'[c][k].whole
          PROVE  frames[b][i].id < frames'[c][k].id
      <4>1. CASE k \in 1 .. Len(frames[c]) /\ frames'[c][k] = frames[c][k]
        BY <2>1, <3>1, <3>2, <3>3, <4>1 DEF FInv, FilesApart
      <4>2. CASE frames'[c][k] = fr
        BY <1>3, <1>7, <3>1, <3>2, <3>3, <4>2
      <4>3. k \in 1 .. k
        BY Typed, <3>3
      <4> QED
        BY <1>6, <3>1, <4>1, <4>2, <4>3
    <3> QED
      BY <2>1, <3>1, <3>2, <3>3 DEF FInv, FilesApart
  <2> QED
    BY <1>1, <2>1 DEF FilesApart, Placed, End, Files
<1>15. DirtyLate'
  BY <1>1, <1>2, <1>4 DEF FInv, DirtyLate, Serving
<1>16. ASSUME NEW f \in Nat, Boundary(f), f <= active
       PROVE  \A b \in Files : b < f => \A i \in 1 .. Len(frames'[b]) : End(frames'[b][i]) <= f
  <2>1. \A b \in Files : b < f => b # active /\ b \in Position
    BY <1>16, Typed
  <2> QED
    BY <1>4, <1>16, <2>1 DEF Boundary
<1>17. ManifestsInOrder'
  <2>1. manifest.floor <= active /\ durableManifest.floor <= active
    BY <1>2, Typed DEF FInv, ManifestsInOrder
  <2> QED
    BY <1>1, <1>16, <2>1, Typed DEF FInv, ManifestsInOrder, Boundary, End, Files
<1>e. Entries'
  <2>1. \A b \in removed : frames'[b] = frames[b]
    BY <1>2, <1>4, Typed
  <2> QED
    BY <1>1, <1>2, <2>1 DEF Entries, Serving
<1>18. Memory'
  <2>1. Boundary(floor)'
    BY <1>1, <1>2, <1>16, Typed DEF Boundary, End, Files
  <2>2. HeadBehind(active)'
    <3>1. active <= next + n
      BY <1>2, Typed DEF HeadBehind
    <3>2. ASSUME NEW i \in 1 .. len + 1 PROVE End(frames'[active][i]) <= next + n
      <4>1. CASE i = len + 1
        <5>1. End(fr) = next + n /\ next + n \in Nat
          BY <1>3, Typed
        <5>2. frames'[active][i] = fr
          BY <1>4, <4>1
        <5>3. End(fr) <= next + n
          BY <5>1
        <5> QED
          BY <5>2, <5>3
      <4>2. CASE i # len + 1
        <5>1. i \in 1 .. len
          BY <1>5, <4>2
        <5>2. End(frames[active][i]) <= next /\ End(frames[active][i]) \in Nat
          BY <1>2, <5>1, FrameTyped DEF HeadBehind
        <5> QED
          <6>1. End(frames[active][i]) <= next + n
            BY <5>2, Typed
          <6>2. frames'[active][i] = frames[active][i]
            BY <1>4, <5>1
          <6> QED
            BY <6>1, <6>2
      <4> QED
        BY <4>1, <4>2
    <3> QED
      BY <1>1, <1>4, <3>1, <3>2 DEF HeadBehind, End
  <2> QED
    BY <1>1, <1>2, <2>1, <2>2 DEF Memory, Serving
<1>19. CleanBefore'
  <2>1. ASSUME lastId + 1 < before["write"]
        PROVE  Whole(active)'
    <3>1. lastId < before["write"]
      BY <2>1, Typed
    <3>2. HeadOf(active)'
      <4>1. frames'[active] # <<>>
        BY <1>4, <1>5
      <4> QED
        BY <1>1, <1>3, <1>4, <4>1 DEF HeadOf, End
    <3>3. ASSUME NEW j \in 1 .. len + 1
          PROVE  frames'[active][j].whole /\ frames'[active][j].first = IF j = 1 THEN active ELSE End(frames'[active][j - 1])
      <4>1. CASE j = len + 1
        <5>0. len # 0 => len \in 1 .. len
          BY <1>5
        <5>1. len # 0 => len \in 1 .. len /\ frames'[active][len] = frames[active][len]
          BY <1>4, <5>0
        <5>2. j = 1 <=> len = 0
          BY <1>5, <4>1
        <5>3. j - 1 = len
          BY <1>5, <4>1
        <5> QED
          BY <1>3, <1>4, <1>9, <3>1, <4>1, <5>1, <5>2, <5>3
      <4>2. CASE j # len + 1
        <5>1. j \in 1 .. len /\ (j # 1 => j - 1 \in 1 .. len)
          BY <1>5, <4>2
        <5>2. Follows(active, j)
          BY <1>8, <3>1, <5>1
        <5> QED
          BY <1>4, <5>1, <5>2 DEF Follows
      <4> QED
        BY <4>1, <4>2
    <3> QED
      BY <1>1, <1>4, <3>2, <3>3 DEF Whole, Follows, End
  <2> QED
    BY <1>1, <2>1 DEF CleanBefore, Serving, Whole, HeadOf, Follows, End
<1>20. SettledBefore'
  <2>1. lastId + 1 < before["manifest"] => lastId < before["manifest"]
    BY Typed
  <2> QED
    BY <1>1, <2>1 DEF FInv, SettledBefore, Serving
<1>21. OldLocated'
  <2>1. ASSUME NEW b \in linked, NEW i \in 1 .. synced[b] PROVE frames'[b][i] = frames[b][i]
    <3>1. b \in Position /\ i \in 1 .. Len(frames[b])
      BY Typed, SMTT(30) DEF FInv, Shaped
    <3> QED
      BY <1>4, <3>1
  <2>2. \A b \in linked : \A i \in 1 .. synced[b] :
           b \in linked' /\ i \in 1 .. synced'[b] /\ frames'[b][i] = frames[b][i]
    BY <1>1, <2>1
  <2>3. durableManifest'.floor \in Nat /\ durableManifest.floor <= durableManifest'.floor
    BY <1>1, Typed
  <2> QED
    BY <1>1, <2>2, <2>3, KeptLocated, BeforeAlone
<1> QED
  BY <1>10, <1>11, <1>12, <1>13, <1>14, <1>15, <1>17, <1>e, <1>18, <1>19, <1>20, <1>21 DEF FInv


----------------------------------------------------------------------------
(* The end of an open *)

\* The scan stops at the first frame that does not follow.
LEMMA ValidPrefix ==
  ASSUME NEW b \in Position, frames[b] \in Seq(Frame)
  PROVE  /\ ValidLength(b) \in 0 .. Len(frames[b])
         /\ \A i \in 1 .. ValidLength(b) : Follows(b, i)
         /\ \A i \in 1 .. Len(frames[b]) : (\A j \in 1 .. i : Follows(b, j)) => i <= ValidLength(b)
<1> DEFINE len == Len(frames[b])
           Good == {n \in 0 .. len : \A i \in 1 .. n : Follows(b, i)}
           Stops(n) == /\ \A i \in 1 .. n : Follows(b, i)
                       /\ n < len => ~Follows(b, n + 1)
<1>1. len \in Nat
  OBVIOUS
<1>2. Good \in SUBSET Nat /\ (\A n \in Good : n <= len) /\ 0 \in Good
  BY <1>1
<1>3. PICK n \in Good : \A m \in Good : m <= n
  <2> HIDE DEF Good, len
  <2> QED
    BY <1>1, <1>2, LargestExists
<1>4. n < len => ~Follows(b, n + 1)
  <2> SUFFICES ASSUME n < len, Follows(b, n + 1) PROVE FALSE
    OBVIOUS
  <2>1. n \in Nat /\ n + 1 \in 0 .. len /\ ~(n + 1 <= n)
    BY <1>1
  <2>2. ASSUME NEW i \in 1 .. n + 1 PROVE Follows(b, i)
    <3>1. i = n + 1 \/ i \in 1 .. n
      BY <2>1
    <3> QED
      BY <3>1
  <2>3. n + 1 \in Good
    BY <2>1, <2>2
  <2> QED
    BY <1>3, <2>1, <2>3
<1>5. n \in 0 .. len /\ Stops(n)
  BY <1>4
<1>6. ValidLength(b) = CHOOSE x \in 0 .. len : Stops(x)
  BY DEF ValidLength
<1>7. ValidLength(b) \in 0 .. len /\ Stops(ValidLength(b))
  <2> HIDE DEF Stops, len
  <2> QED
    BY <1>5, <1>6
<1>8. ASSUME NEW i \in 1 .. len, \A j \in 1 .. i : Follows(b, j), ~(i <= ValidLength(b))
      PROVE  FALSE
  <2>1. ValidLength(b) < len /\ ValidLength(b) + 1 \in 1 .. i
    BY <1>1, <1>7, <1>8
  <2> QED
    BY <1>7, <1>8, <2>1
<1> QED
  BY <1>7, <1>8

\* The scan of the active file cuts nothing that is older than the first
\* failed write, and leaves a whole file.
LEMMA RecoverActiveKeeps == ASSUME FInv, RecoverActive, UNCHANGED before PROVE FInv'
<1> DEFINE b == manifest.active
           v == ValidLength(b)
           len == Len(frames[b])
<1>b. b \in Position /\ b \in Nat
  BY Typed DEF FInv, FaultTypes, TypeOK, Manifest
<1>s. /\ phase = "scan" /\ phase' = "orphans"
      /\ UNCHANGED <<segments, removed, linked, manifest, durableManifest, stale, lock, active, closed, floor, acked, lastId, crashes, reverted>>
  BY DEF RecoverActive, history
<1>m. lock
  BY <1>s DEF FInv, Memory
<1>1. CASE b \notin segments
  <2>1. UNCHANGED <<frames, synced, next, size>>
    BY <1>1 DEF RecoverActive
  <2>2. FaultTypes'
    BY <1>s, <2>1 DEF FInv, FaultTypes, TypeOK, Phases
  <2>3. Shaped' /\ OldFollow' /\ OldReached' /\ FilesApart' /\ OldLocated'
    <3>1. NoMorePlaced
      BY <1>s, <2>1, Calm DEF Serving
    <3> QED
      BY <1>s, <2>1, <3>1, QuietFiles, BeforeAlone, Typed
  <2>4. DirtyLate' /\ ManifestsInOrder' /\ Entries'
    BY <1>s, <2>1 DEF FInv, DirtyLate, ManifestsInOrder, Entries, Serving, Boundary, End, Files
  <2>5. Memory' /\ CleanBefore' /\ SettledBefore'
    BY <1>s, <1>m, <1>1, <2>1 DEF FInv, Memory, CleanBefore, SettledBefore, Serving
  <2> QED
    BY <2>2, <2>3, <2>4, <2>5 DEF FInv
<1>2. CASE b \in segments
  <2>t. frames[b] \in Seq(Frame) /\ len \in Nat /\ synced[b] \in Nat /\ synced[b] <= len
    BY <1>b, Typed DEF FInv, Shaped
  <2>v. /\ v \in 0 .. len
        /\ \A i \in 1 .. v : Follows(b, i)
        /\ \A i \in 1 .. len : (\A j \in 1 .. i : Follows(b, j)) => i <= v
    BY <1>b, <2>t, ValidPrefix
  <2>n. v \in Nat /\ v <= len /\ \A i \in 1 .. v : i \in 1 .. len
    BY <2>t, <2>v
  <2>1. /\ next' = ScannedNext(b) /\ size' = v
        /\ IF v = len THEN UNCHANGED <<frames, synced>>
           ELSE /\ frames' = [frames EXCEPT ![b] = SubSeq(@, 1, v)]
                /\ synced' = [synced EXCEPT ![b] = v]
    BY <1>2 DEF RecoverActive
  <2>h. next' = IF v = 0 THEN b ELSE End(frames[b][v])
    BY <2>1 DEF ScannedNext
  <2> HIDE DEF v
  <2>2. /\ \A c \in Position \ {b} : frames'[c] = frames[c] /\ synced'[c] = synced[c]
        /\ frames'[b] \in Seq(Frame) /\ Len(frames'[b]) = v
        /\ \A i \in 1 .. v : frames'[b][i] = frames[b][i]
        /\ synced'[b] = IF v = len THEN synced[b] ELSE v
        /\ frames' \in [Position -> Seq(Frame)] /\ synced' \in [Position -> Nat]
    <3>0. frames \in [Position -> Seq(Frame)] /\ synced \in [Position -> Nat]
      BY DEF FInv, FaultTypes, TypeOK
    <3>1. CASE v = len
      BY <2>1, <2>t, <3>0, <3>1
    <3>2. CASE v # len
      <4>1. /\ SubSeq(frames[b], 1, v) \in Seq(Frame)
            /\ Len(SubSeq(frames[b], 1, v)) = v
            /\ \A i \in 1 .. v : SubSeq(frames[b], 1, v)[i] = frames[b][i]
        BY <2>n, <2>t
      <4>2. frames' = [frames EXCEPT ![b] = SubSeq(frames[b], 1, v)] /\ synced' = [synced EXCEPT ![b] = v]
        BY <2>1, <3>2
      <4>3. frames'[b] = SubSeq(frames[b], 1, v) /\ synced'[b] = v
        BY <1>b, <3>0, <4>2
      <4>4. \A c \in Position \ {b} : frames'[c] = frames[c] /\ synced'[c] = synced[c]
        BY <3>0, <4>2
      <4>5. frames' \in [Position -> Seq(Frame)] /\ synced' \in [Position -> Nat]
        BY <2>n, <3>0, <4>1, <4>2
      <4> QED
        BY <3>2, <4>1, <4>3, <4>4, <4>5
    <3> QED
      BY <3>1, <3>2
  <2>3. \A c \in Position : /\ synced'[c] \in Nat /\ synced'[c] <= Len(frames'[c])
                            /\ synced'[c] < Len(frames'[c]) => synced[c] < Len(frames[c])
    <3>1. synced'[b] \in Nat /\ synced'[b] <= v /\ (synced'[b] < v => synced[b] < len)
      BY <2>2, <2>n, <2>t
    <3>2. \A c \in Position : synced[c] \in Nat /\ synced[c] <= Len(frames[c])
      BY Typed DEF FInv, Shaped
    <3> QED
      BY <1>b, <2>2, <3>1, <3>2
  <2>4. NothingNew
    <3>1. \A c \in Position : \A i \in 1 .. Len(frames'[c]) : i \in 1 .. Len(frames[c]) /\ frames'[c][i] = frames[c][i]
      BY <2>2, <2>n
    <3>2. \A c \in Position : c \notin Files => frames'[c] = <<>>
      BY <1>2, <2>2 DEF FInv, Shaped, Files
    <3> QED
      BY <1>s, <2>2, <2>3, <3>1, <3>2 DEF NothingNew, Files
  <2>e. \A c \in Position : frames[c] = <<>> => frames'[c] = <<>>
    <3>1. \A c \in Position \ {b} : frames'[c] = frames[c]
      BY <2>2
    <3>2. frames[b] = <<>> => frames'[b] = <<>>
      BY <2>2, <2>n, <2>t
    <3> QED
      BY <3>1, <3>2
  <2>p. NoMorePlaced
    <3>1. \A c \in Files : frames'[c] # <<>> => frames[c] # <<>>
      BY <2>e, Typed
    <3>2. ~Serving' /\ Files' = Files /\ manifest' = manifest
      BY <1>s DEF Serving, Files
    <3> QED
      BY <3>1, <3>2 DEF NoMorePlaced, Placed
  <2>5. Shaped' /\ OldFollow' /\ OldReached' /\ FilesApart'
    BY <1>s, <2>4, <2>p, KeptFiles, BeforeAlone, Typed
  <2>6. OldLocated'
    <3>1. ASSUME NEW c \in linked, NEW i \in 1 .. synced[c], \A j \in 1 .. i : Follows(c, j)
          PROVE  c \in linked' /\ i \in 1 .. synced'[c] /\ frames'[c][i] = frames[c][i]
      <4>1. CASE c = b
        <5>1. i \in 1 .. len
          BY <2>t, <4>1
        <5>2. i <= v
          BY <2>v, <3>1, <4>1, <5>1
        <5>3. i \in 1 .. v /\ i \in 1 .. synced'[b]
          BY <2>2, <2>n, <4>1, <5>1, <5>2
        <5> QED
          BY <1>s, <2>2, <4>1, <5>3
      <4>2. CASE c # b
        <5>1. c \in Position \ {b}
          BY <4>2, Typed
        <5> QED
          BY <1>s, <2>2, <5>1
      <4> QED
        BY <4>1, <4>2
    <3>2. durableManifest'.floor \in Nat /\ durableManifest.floor <= durableManifest'.floor
      BY <1>s, Typed
    <3> QED
      BY <1>s, <3>1, <3>2, KeptLocated, BeforeAlone
  <2>7. DirtyLate'
    BY <1>s, <2>3 DEF FInv, DirtyLate, Serving
  <2>8. ManifestsInOrder'
    BY <1>s, <2>4, KeptEnds, Typed DEF FInv, ManifestsInOrder, Boundary, End, Files
  <2>d. Entries'
    <3>1. \A c \in segments \ linked : frames'[c] = <<>>
      BY <2>e, Typed DEF FInv, Entries
    <3>2. \A c \in removed : frames'[c] # <<>> => c < durableManifest.floor
      BY <2>e, Typed DEF FInv, Entries
    <3> QED
      BY <1>s, <3>1, <3>2 DEF FInv, Entries, Serving
  <2>9. /\ b <= next' /\ next' \in Nat /\ next' <= MaxPosition
        /\ \A i \in 1 .. v : End(frames'[b][i]) <= next'
    <3>1. CASE v = 0
      <4>1. b <= MaxPosition
        BY <1>b, BoundsAssumption DEF Position
      <4> QED
        BY <1>b, <2>h, <3>1, <4>1
    <3>2. CASE v # 0
      <4>1. v \in 1 .. v /\ v \in 1 .. len
        BY <2>n, <3>2
      <4>2. next' = End(frames[b][v]) /\ frames[b][v].whole
        BY <2>h, <2>v, <3>2, <4>1 DEF Follows
      <4>3. End(frames[b][v]) \in Nat /\ frames[b][v].first \in Nat /\ frames[b][v].first <= End(frames[b][v])
        <5>1. frames[b][v] \in Frame
          BY <2>t, <4>1
        <5>2. \A fr \in Frame : End(fr) \in Nat /\ fr.first \in Nat /\ fr.first <= End(fr)
          BY DEF Frame, Position, End
        <5> QED
          BY <5>1, <5>2
      <4>4. b <= frames[b][v].first /\ End(frames[b][v]) <= MaxPosition
        BY <1>b, <4>1, <4>2 DEF FInv, Shaped
      <4>5. ASSUME NEW i \in 1 .. v, i # v PROVE End(frames[b][i]) <= next'
        <5>1. i \in 1 .. v - 1 /\ i \in 1 .. len
          BY <2>n, <4>5
        <5>2. frames[b][i].whole
          BY <2>v DEF Follows
        <5>3. End(frames[b][i]) <= frames[b][v].first /\ End(frames[b][i]) \in Nat
          BY <1>b, <4>1, <4>2, <5>1, <5>2, FrameTyped DEF FInv, Shaped
        <5> QED
          BY <4>2, <4>3, <5>3
      <4>6. \A i \in 1 .. v : End(frames[b][i]) <= next'
        <5>1. End(frames[b][v]) <= next'
          BY <4>2, <4>3
        <5> QED
          BY <4>5, <5>1
      <4> QED
        BY <1>b, <2>2, <4>2, <4>3, <4>4, <4>6
    <3> QED
      BY <3>1, <3>2
  <2>10. FaultTypes'
    <3>1. next' \in Position
      BY <2>9, BoundsAssumption DEF Position
    <3> QED
      BY <1>s, <2>1, <2>2, <2>n, <3>1 DEF FInv, FaultTypes, TypeOK, Phases
  <2>11. HeadBehind(manifest.active)' /\ Whole(manifest.active)'
    <3>1. HeadBehind(manifest.active)'
      BY <1>s, <2>2, <2>9 DEF HeadBehind, End
    <3>2. HeadOf(manifest.active)'
      <4>1. CASE v = 0
        <5>1. frames'[b] = <<>>
          BY <2>2, <4>1
        <5> QED
          BY <1>s, <2>h, <4>1, <5>1 DEF HeadOf
      <4>2. CASE v # 0
        <5>1. v \in 1 .. v /\ frames'[b] # <<>>
          BY <2>2, <2>n, <4>2
        <5>2. frames'[b][v] = frames[b][v]
          BY <2>2, <5>1
        <5> QED
          BY <1>s, <2>h, <2>2, <4>2, <5>1, <5>2 DEF HeadOf, End
      <4> QED
        BY <4>1, <4>2
    <3>3. ASSUME NEW i \in 1 .. v
          PROVE  frames'[b][i].whole /\ frames'[b][i].first = IF i = 1 THEN b ELSE End(frames'[b][i - 1])
      <4>1. i # 1 => i - 1 \in 1 .. v
        BY <2>n
      <4> QED
        BY <2>2, <2>v, <4>1, SMTT(30) DEF Follows
    <3> QED
      BY <1>s, <2>2, <3>1, <3>2, <3>3 DEF Whole, Follows, End
  <2>12. Memory' /\ CleanBefore' /\ SettledBefore'
    BY <1>s, <1>m, <2>11 DEF FInv, Memory, CleanBefore, SettledBefore, Serving
  <2> QED
    BY <2>5, <2>6, <2>7, <2>8, <2>d, <2>10, <2>12 DEF FInv
<1> QED
  BY <1>1, <1>2

\* Removing files that hold nothing.
LEMMA EmptyFilesGo ==
  ASSUME FInv, ~Serving, NEW gone \in SUBSET segments, \A b \in gone : frames[b] = <<>>, NoMorePlaced,
         segments' = segments \ gone, removed' = removed \cup gone, linked' = linked \ gone,
         UNCHANGED <<frames, synced, manifest, durableManifest, acked, lastId, before>>
  PROVE  /\ Files' = Files
         /\ segments' \subseteq Position /\ removed' \subseteq Position /\ linked' \subseteq segments'
         /\ removed' \cap segments' = {}
         /\ \A b \in segments' \ linked' : b \in segments \ linked
         /\ \A b \in removed' : frames[b] # <<>> => b < durableManifest.floor
         /\ Shaped' /\ OldFollow' /\ OldReached' /\ FilesApart' /\ OldLocated' /\ ManifestsInOrder'
<1>0. Files' = Files
  BY DEF Files
<1>1. NothingNew
  BY <1>0, FilesAlone
<1>2. OldLocated'
  <2>1. ASSUME NEW b \in linked, NEW i \in 1 .. synced[b]
        PROVE  b \in linked' /\ i \in 1 .. synced'[b] /\ frames'[b][i] = frames[b][i]
    <3>1. b \in Position /\ synced[b] \in Nat /\ synced[b] <= Len(frames[b]) /\ Len(frames[b]) \in Nat
      BY Typed DEF FInv, Shaped
    <3>2. Len(frames[b]) # 0
      BY <3>1
    <3>3. b \notin gone
      BY <3>2
    <3> QED
      BY <3>3
  <2>2. durableManifest'.floor \in Nat /\ durableManifest.floor <= durableManifest'.floor
    BY Typed
  <2> QED
    BY <2>1, <2>2, KeptLocated, BeforeAlone
<1>3. ManifestsInOrder'
  BY <1>0 DEF FInv, ManifestsInOrder, Boundary, End
<1>4. /\ segments' \subseteq Position /\ removed' \subseteq Position /\ linked' \subseteq segments'
      /\ removed' \cap segments' = {}
      /\ \A b \in segments' \ linked' : b \in segments \ linked
  BY Typed DEF FInv, Entries
<1>5. \A b \in removed' : frames[b] # <<>> => b < durableManifest.floor
  BY DEF FInv, Entries
<1> QED
  BY <1>0, <1>1, <1>2, <1>3, <1>4, <1>5, KeptFiles, BeforeAlone, Typed

LEMMA FinishOpenKeeps == ASSUME FInv, Openable, FinishOpen, UNCHANGED before PROVE FInv'
<1>1. /\ phase = "orphans" /\ phase' = "idle"
      /\ segments' = segments \ Orphans /\ removed' = removed \cup Orphans /\ linked' = linked \ Orphans
      /\ active' = manifest.active /\ closed' = {b \in segments : b < manifest.active} /\ floor' = manifest.floor
      /\ UNCHANGED <<frames, synced, manifest, durableManifest, stale, lock, next, size, acked, lastId, crashes, reverted>>
  BY DEF FinishOpen, history
<1>2. /\ lock /\ Orphans \in SUBSET segments
      /\ manifest.active \in segments /\ \A b \in Orphans : frames[b] = <<>>
      /\ \A b \in segments \ linked : b > manifest.active
  BY <1>1 DEF FInv, Memory, Entries, Openable, Orphans
<1>4. /\ manifest.active \in segments' /\ \A b \in segments' : b <= manifest.active
      /\ closed' = {b \in segments' : b < manifest.active}
  BY <1>1, <1>2, Typed DEF Orphans
<1>p. NoMorePlaced
  BY <1>1, <1>4 DEF NoMorePlaced, Placed, Files
<1>3. /\ Files' = Files
      /\ segments' \subseteq Position /\ removed' \subseteq Position /\ linked' \subseteq segments'
      /\ removed' \cap segments' = {}
      /\ \A b \in segments' \ linked' : b \in segments \ linked
      /\ \A b \in removed' : frames[b] # <<>> => b < durableManifest.floor
      /\ Shaped' /\ OldFollow' /\ OldReached' /\ FilesApart' /\ OldLocated' /\ ManifestsInOrder'
  <2>1. ~Serving
    BY <1>1 DEF Serving
  <2> QED
    BY <1>1, <1>2, <1>p, <2>1, EmptyFilesGo
<1>5. FaultTypes'
  <2>1. manifest.active \in Position /\ manifest.floor \in Position /\ closed' \subseteq Position
    BY <1>1, Typed DEF FInv, FaultTypes, TypeOK, Manifest
  <2> QED
    BY <1>1, <1>3, <2>1 DEF FInv, FaultTypes, TypeOK, Phases
<1>6. DirtyLate'
  <2>1. ASSUME NEW b \in Position, synced[b] < Len(frames[b]) PROVE b = manifest.active
    <3>1. manifest.active <= b
      BY <2>1 DEF FInv, DirtyLate
    <3>2. frames[b] # <<>>
      BY <2>1, Typed
    <3>r. b \notin removed
      <4>1. \A c \in removed : frames[c] # <<>> => c < durableManifest.floor
        BY DEF FInv, Entries
      <4>2. durableManifest.floor <= manifest.floor /\ manifest.floor <= manifest.active
        BY DEF FInv, ManifestsInOrder
      <4> QED
        BY <3>1, <3>2, <4>1, <4>2, Typed
    <3>3. b \in segments /\ b \notin Orphans
      BY <1>2, <3>2, <3>r DEF FInv, Shaped, Files
    <3> QED
      BY <3>1, <3>3, Typed DEF Orphans
  <2> QED
    BY <1>1, <1>2, <2>1, Typed DEF DirtyLate
<1>e. Entries'
  <2>1. linked' = segments'
    <3>1. \A b \in segments' : b \in linked'
      BY <1>2, <1>3, <1>4, Typed
    <3> QED
      BY <1>3, <3>1
  <2> QED
    BY <1>1, <1>3, <2>1 DEF Entries, Serving
<1>7. Memory'
  <2>1. HeadBehind(active)'
    BY <1>1, <1>2 DEF FInv, Memory, HeadBehind, End
  <2>2. Boundary(floor)' /\ floor' <= active' /\ durableManifest'.floor <= floor'
    BY <1>1, <1>3 DEF ManifestsInOrder, Boundary, End
  <2>3. manifest'.active <= active'
    BY <1>1, Typed
  <2> QED
    BY <1>1, <1>2, <1>3, <1>4, <2>1, <2>2, <2>3 DEF Memory, Serving
<1>8. CleanBefore'
  BY <1>1, <1>2 DEF FInv, CleanBefore, Serving, Whole, HeadOf, Follows, End
<1>9. SettledBefore'
  BY <1>1 DEF FInv, SettledBefore, Serving
<1> QED
  BY <1>3, <1>5, <1>6, <1>e, <1>7, <1>8, <1>9 DEF FInv

LEMMA RefuseOpenKeeps == ASSUME FInv, RefuseOpen, UNCHANGED before PROVE FInv'
<1> DEFINE met == {b \in Orphans : \A c \in Orphans : c <= b => frames[c] = <<>>}
<1>1. /\ phase = "orphans" /\ phase' = "down" /\ lock' = FALSE /\ Forget
      /\ segments' = segments \ met /\ removed' = removed \cup met /\ linked' = linked \ met
      /\ UNCHANGED <<frames, synced, manifest, durableManifest, stale, acked, lastId, crashes, reverted>>
  BY DEF RefuseOpen, history
<1>2. met \in SUBSET segments
  BY DEF Orphans
<1>3. \A b \in met : frames[b] = <<>>
  BY Typed DEF Orphans
<1> HIDE DEF met
<1>p. NoMorePlaced
  BY <1>1 DEF NoMorePlaced, Placed, Files, Serving
<1>4. /\ Files' = Files
      /\ segments' \subseteq Position /\ removed' \subseteq Position /\ linked' \subseteq segments'
      /\ removed' \cap segments' = {}
      /\ \A b \in segments' \ linked' : b \in segments \ linked
      /\ \A b \in removed' : frames[b] # <<>> => b < durableManifest.floor
      /\ Shaped' /\ OldFollow' /\ OldReached' /\ FilesApart' /\ OldLocated' /\ ManifestsInOrder'
  <2>1. ~Serving
    BY <1>1 DEF Serving
  <2> QED
    BY <1>1, <1>2, <1>3, <1>p, <2>1, EmptyFilesGo
<1>5. FaultTypes'
  BY <1>1, <1>4, ForgetTyped DEF FInv, FaultTypes, TypeOK, Phases
<1>6. DirtyLate'
  BY <1>1 DEF FInv, DirtyLate, Serving
<1>e. Entries'
  BY <1>1, <1>4 DEF FInv, Entries, Serving
<1>7. Memory' /\ CleanBefore' /\ SettledBefore'
  BY <1>1, <1>4 DEF FInv, Memory, CleanBefore, SettledBefore, Serving
<1> QED
  BY <1>4, <1>5, <1>6, <1>e, <1>7 DEF FInv

LEMMA EndOpenKeeps == ASSUME FInv, EndOpen, UNCHANGED before PROVE FInv'
  BY FinishOpenKeeps, RefuseOpenKeeps DEF EndOpen

\* The files removed lie below a floor that is durable.
LEMMA ReclaimKeeps == ASSUME FInv, Reclaim, UNCHANGED before PROVE FInv'
<1> PICK gone \in SUBSET {b \in closed : b < floor} :
      /\ segments' = segments \ gone
      /\ removed' = removed \cup gone
      /\ linked' = linked \ gone
      /\ closed' = closed \ gone
  BY DEF Reclaim
<1>1. /\ phase = "reclaim" /\ phase' = "idle"
      /\ UNCHANGED <<frames, synced, manifest, durableManifest, stale, lock, active, next, size, floor, acked, lastId, crashes, reverted>>
  BY DEF Reclaim, history
<1>2. /\ lock /\ linked = segments /\ active \in segments /\ closed = {b \in segments : b < active}
      /\ (\A b \in segments : b <= active) /\ manifest.active <= active
      /\ floor <= active /\ Boundary(floor) /\ durableManifest.floor = floor /\ HeadBehind(active)
      /\ removed \cap segments = {} /\ \A b \in removed : frames[b] # <<>> => b < durableManifest.floor
  BY <1>1 DEF FInv, Memory, Entries, Serving
<1>3. /\ gone \subseteq segments /\ active \notin gone /\ active \in Position
      /\ \A b \in gone : b < floor
  BY <1>2, Typed
<1>4. Files' = Files
  BY <1>3 DEF Files
<1>5. NothingNew
  BY <1>1, <1>4, FilesAlone
<1>6. NoMorePlaced
  BY <1>1, <1>4 DEF NoMorePlaced, Placed, Serving
<1>8. Shaped' /\ OldFollow' /\ OldReached' /\ FilesApart'
  BY <1>1, <1>5, <1>6, KeptFiles, BeforeAlone, Typed
<1>9. OldLocated'
  <2>1. ASSUME NEW fr \in acked, fr.id <= before["write"], Above(fr, durableManifest.floor)
        PROVE  \E b \in linked' : \E i \in 1 .. synced[b] : frames[b][i] = fr
    <3>1. PICK b \in linked : \E i \in 1 .. synced[b] : frames[b][i] = fr
      BY <2>1 DEF FInv, OldLocated
    <3>2. PICK i \in 1 .. synced[b] : frames[b][i] = fr
      BY <3>1
    <3>3. b \in Files /\ b \in Position /\ b \in Nat /\ i \in 1 .. Len(frames[b])
      <4>1. b \in Files /\ b \in Position /\ b \in Nat
        BY <1>2, Typed DEF Files
      <4>2. synced[b] \in Nat /\ Len(frames[b]) \in Nat /\ synced[b] <= Len(frames[b])
        BY <4>1, Typed DEF FInv, Shaped
      <4> QED
        BY <4>1, <4>2
    <3>4. b \notin gone
      <4> SUFFICES ASSUME b \in gone PROVE FALSE
        OBVIOUS
      <4>1. b < floor /\ End(fr) <= floor
        BY <1>2, <1>3, <3>2, <3>3 DEF Boundary
      <4>2. floor = 0 \/ End(fr) > floor
        BY <1>2, <2>1 DEF Above
      <4>3. End(fr) \in Nat /\ floor \in Nat
        BY <3>2, <3>3, FrameTyped, Typed
      <4> QED
        BY <3>3, <4>1, <4>2, <4>3
    <3> QED
      BY <3>2, <3>4
  <2> QED
    BY <1>1, <2>1 DEF OldLocated, FInv, Above, End
<1>10. FaultTypes'
  <2>1. segments' \subseteq Position /\ removed' \subseteq Position /\ linked' \subseteq segments' /\ closed' \subseteq Position
    BY <1>2, <1>3, Typed
  <2> QED
    BY <1>1, <2>1 DEF FInv, FaultTypes, TypeOK, Phases
<1>11. DirtyLate'
  BY <1>1 DEF FInv, DirtyLate, Serving
<1>12. ManifestsInOrder'
  BY <1>1, <1>4 DEF FInv, ManifestsInOrder, Boundary, End
<1>13. Entries'
  <2>1. removed' \cap segments' = {} /\ linked' = segments'
    BY <1>2, <1>3
  <2>2. \A b \in removed' : frames[b] # <<>> => b < durableManifest.floor
    BY <1>2, <1>3
  <2> QED
    BY <1>1, <2>1, <2>2 DEF Entries
<1>14. Memory'
  <2>1. active \in segments' /\ closed' = {b \in segments' : b < active}
    BY <1>2, <1>3
  <2>2. Boundary(floor)'
    BY <1>1, <1>2, <1>4 DEF Boundary, End
  <2>3. HeadBehind(active)'
    BY <1>1, <1>2 DEF HeadBehind, End
  <2> QED
    BY <1>1, <1>2, <2>1, <2>2, <2>3, Typed DEF Memory, Serving
<1>15. CleanBefore'
  BY <1>1 DEF FInv, CleanBefore, Serving, Whole, HeadOf, Follows, End
<1>16. SettledBefore'
  BY <1>1 DEF FInv, SettledBefore, Serving
<1> QED
  BY <1>8, <1>9, <1>10, <1>11, <1>12, <1>13, <1>14, <1>15, <1>16 DEF FInv

----------------------------------------------------------------------------
(* Power is lost *)

\* Synced frames survive in their places; any number of the others may be gone,
\* and the file with them when its entry was not durable.  Files whose removal was
\* not durable may be back.
LEMMA PowerLossKeeps == ASSUME FInv, PowerLoss, ~reverted', UNCHANGED before PROVE FInv'
<1> PICK kept \in [Dirty -> 0 .. MaxFrames + 1], torn \in SUBSET Dirty,
         lost \in SUBSET (segments \ linked), back \in SUBSET removed :
      /\ \A b \in Dirty : /\ synced[b] <= kept[b]
                          /\ kept[b] <= Len(frames[b])
                          /\ kept[b] > 0 => frames[b][kept[b]].whole
                          /\ b \in torn => kept[b] < Len(frames[b])
      /\ segments' = (segments \ lost) \cup back
      /\ linked' = (segments \ lost) \cup back
      /\ frames' = [b \in Position |->
                      IF b \in lost \cup (removed \ back) THEN <<>>
                      ELSE IF b \notin Dirty THEN frames[b]
                      ELSE SubSeq(frames[b], 1, kept[b])
                             \o (IF b \in torn THEN <<Torn>> ELSE <<>>)]
      /\ synced' = [b \in Position |->
                      IF b \in lost \cup (removed \ back) THEN 0
                      ELSE IF b \notin Dirty THEN synced[b]
                      ELSE kept[b]]
  BY DEF PowerLoss
<1> PICK m \in {manifest, durableManifest} : manifest' = m /\ durableManifest' = m
  <2>1. PICK m \in {manifest, durableManifest} \cup stale :
          /\ manifest' = m /\ durableManifest' = m
          /\ reverted' = (reverted \/ m \notin {manifest, durableManifest})
    BY DEF PowerLoss
  <2>2. m \in {manifest, durableManifest}
    BY <2>1
  <2> QED
    BY <2>1, <2>2
<1> DEFINE out == lost \cup (removed \ back)
<1>1. /\ phase' = "down" /\ crashes < MaxCrashes /\ crashes' = crashes + 1 /\ Forget
      /\ removed' = {} /\ stale' = {}
      /\ UNCHANGED <<lock, acked, lastId>>
  BY DEF PowerLoss
<1>2. /\ lost \subseteq segments /\ lost \cap linked = {} /\ linked \subseteq segments
      /\ segments \subseteq Position /\ removed \subseteq Position /\ Dirty \subseteq Position
      /\ Dirty = {b \in Files : synced[b] < Len(frames[b])}
      /\ removed \cap segments = {} /\ out \cap linked = {} /\ out \subseteq Files
      /\ segments' = Files \ out /\ Files' = Files \ out
  <2>1. removed \cap segments = {}
    BY DEF FInv, Entries
  <2>2. /\ lost \subseteq segments /\ lost \cap linked = {} /\ linked \subseteq segments
        /\ segments \subseteq Position /\ removed \subseteq Position
    BY Typed
  <2>3. Dirty = {b \in Files : synced[b] < Len(frames[b])} /\ Dirty \subseteq Position
    BY <2>2 DEF Dirty, Files
  <2>4. out \cap linked = {} /\ out \subseteq Files /\ segments' = Files \ out
    BY <2>1, <2>2 DEF Files
  <2>5. Files' = Files \ out
    BY <1>1, <2>4 DEF Files
  <2> HIDE DEF out
  <2> QED
    BY <2>1, <2>2, <2>3, <2>4, <2>5
<1>3. \A b \in Dirty : kept[b] \in Nat /\ synced[b] <= kept[b] /\ kept[b] <= Len(frames[b])
  BY BoundsAssumption
<1>4. \A b \in Position : /\ frames[b] \in Seq(Frame) /\ Len(frames[b]) \in Nat
                          /\ synced[b] \in Nat /\ synced[b] <= Len(frames[b])
                          /\ b \notin Files => frames[b] = <<>>
  BY Typed DEF FInv, Shaped
<1>5. ASSUME NEW b \in Position, b \notin out, b \in Dirty
      PROVE  /\ frames'[b] \in Seq(Frame) /\ synced'[b] = kept[b]
             /\ Len(frames'[b]) = kept[b] \/ (Len(frames'[b]) = kept[b] + 1 /\ frames'[b][kept[b] + 1] = Torn)
             /\ \A i \in 1 .. kept[b] : i \in 1 .. Len(frames[b]) /\ frames'[b][i] = frames[b][i]
  <2> DEFINE s == SubSeq(frames[b], 1, kept[b])
  <2>1. frames'[b] = s \o (IF b \in torn THEN <<Torn>> ELSE <<>>) /\ synced'[b] = kept[b]
    BY <1>5
  <2>2. \A i \in 1 .. kept[b] : i \in 1 .. Len(frames[b])
    BY <1>3, <1>4, <1>5
  <2>3. s \in Seq(Frame) /\ Len(s) = kept[b] /\ \A i \in 1 .. kept[b] : s[i] = frames[b][i]
    BY <1>3, <1>4, <1>5, <2>2
  <2> HIDE DEF s
  <2>4. CASE b \in torn
    <3>1. frames'[b] = s \o <<Torn>>
      BY <2>1, <2>4
    <3>2. /\ s \o <<Torn>> \in Seq(Frame) /\ Len(s \o <<Torn>>) = kept[b] + 1
          /\ \A i \in 1 .. kept[b] : (s \o <<Torn>>)[i] = s[i]
          /\ (s \o <<Torn>>)[kept[b] + 1] = Torn
      BY <1>3, <1>5, <2>3, TornTyped
    <3> QED
      BY <2>1, <2>2, <2>3, <3>1, <3>2
  <2>5. CASE b \notin torn
    <3>1. frames'[b] = s \o <<>>
      BY <2>1, <2>5
    <3>2. s \o <<>> = s
      BY <2>3
    <3> QED
      BY <2>1, <2>2, <2>3, <3>1, <3>2
  <2> QED
    BY <2>4, <2>5
<1>6. ASSUME NEW b \in Position, b \notin out, b \notin Dirty
      PROVE  frames'[b] = frames[b] /\ synced'[b] = synced[b]
  BY <1>6
<1>7. ASSUME NEW b \in Position, b \in out
      PROVE  frames'[b] = <<>> /\ synced'[b] = 0
  BY <1>7
<1>8. ASSUME NEW b \in Position
      PROVE  /\ frames'[b] \in Seq(Frame) /\ synced'[b] \in Nat /\ synced'[b] <= Len(frames'[b])
             /\ synced'[b] < Len(frames'[b]) => b \in Dirty
             /\ b \notin Files' => frames'[b] = <<>>
  <2>1. CASE b \in out
    <3>1. <<>> \in Seq(Frame) /\ Len(<<>>) = 0
      OBVIOUS
    <3> QED
      BY <1>7, <2>1, <3>1
  <2>2. CASE b \notin out /\ b \notin Dirty
    <3>1. frames'[b] = frames[b] /\ synced'[b] = synced[b]
      BY <1>6, <2>2
    <3>2. /\ frames[b] \in Seq(Frame) /\ Len(frames[b]) \in Nat
          /\ synced[b] \in Nat /\ synced[b] <= Len(frames[b])
      BY <1>4
    <3>3. b \notin Files => frames[b] = <<>>
      BY <1>4
    <3>4. ~(synced[b] < Len(frames[b]))
      <4>1. CASE b \in Files
        BY <1>2, <2>2, <4>1
      <4>2. CASE b \notin Files
        <5>1. Len(frames[b]) = 0
          BY <3>3, <4>2
        <5> QED
          BY ONLY <3>2, <5>1
      <4> QED
        BY <4>1, <4>2
    <3>5. b \notin Files' => b \notin Files
      BY <1>2, <2>2
    <3> QED
      BY ONLY <3>1, <3>2, <3>3, <3>4, <3>5
  <2>3. CASE b \notin out /\ b \in Dirty
    <3>1. b \in Files'
      BY <1>2, <2>3
    <3>2. kept[b] \in Nat
      BY <1>3, <2>3
    <3> QED
      BY <1>5, <2>3, <3>1, <3>2
  <2> QED
    BY <2>1, <2>2, <2>3
<1>9. frames' \in [Position -> Seq(Frame)] /\ synced' \in [Position -> Nat]
  BY <1>8
<1>10. NothingNew
  <2>1. ASSUME NEW b \in Position, NEW i \in 1 .. Len(frames'[b])
        PROVE  \/ i \in 1 .. Len(frames[b]) /\ frames'[b][i] = frames[b][i]
               \/ i = Len(frames'[b]) /\ frames'[b][i] = Torn
    <3>1. CASE b \in out
      BY <1>7, <3>1
    <3>2. CASE b \notin out /\ b \notin Dirty
      BY <1>6, <3>2
    <3>3. CASE b \notin out /\ b \in Dirty
      <4>1. kept[b] \in Nat
        BY <1>3, <3>3
      <4>2. CASE i \in 1 .. kept[b]
        BY <1>5, <3>3, <4>2
      <4>3. CASE i \notin 1 .. kept[b]
        <5>1. Len(frames'[b]) # kept[b]
          BY <4>3
        <5>2. Len(frames'[b]) = kept[b] + 1 /\ frames'[b][kept[b] + 1] = Torn
          BY <1>5, <3>3, <5>1
        <5>3. i = kept[b] + 1
          BY <4>1, <4>3, <5>2
        <5> QED
          BY <5>2, <5>3
      <4> QED
        BY <4>2, <4>3
    <3> QED
      BY <3>1, <3>2, <3>3
  <2> QED
    BY <1>1, <1>2, <1>8, <1>9, <2>1 DEF NothingNew
<1>11. /\ m \in Manifest /\ m.active \in Nat /\ m.floor \in Nat
       /\ durableManifest.active <= m.active /\ durableManifest.floor <= m.floor
       /\ m.active <= manifest.active /\ m.floor <= m.active /\ Boundary(m.floor)
  <2>1. CASE m = manifest
    BY <2>1, Typed DEF FInv, FaultTypes, TypeOK, ManifestsInOrder
  <2>2. CASE m = durableManifest
    BY <2>2, Typed, SMTT(30) DEF FInv, FaultTypes, TypeOK, ManifestsInOrder
  <2> QED
    BY <2>1, <2>2
<1>p. NoMorePlaced
  <2>1. ASSUME NEW c \in Files', frames'[c] # <<>> PROVE frames[c] # <<>>
    <3>1. c \in Position /\ c \notin out
      BY <1>2 DEF Files
    <3>2. CASE c \in Dirty
      BY <1>2, <1>4, <3>1, <3>2
    <3>3. CASE c \notin Dirty
      BY <1>6, <2>1, <3>1, <3>3
    <3> QED
      BY <3>2, <3>3
  <2>2. \A c \in Files' : c <= manifest'.active => c <= manifest.active
    <3>1. manifest' = m /\ m.active <= manifest.active /\ m.active \in Nat /\ Files' \subseteq Nat
      BY <1>2, <1>11, Typed
    <3> QED
      BY <3>1, Typed
  <2>3. ~Serving'
    BY <1>1 DEF Serving
  <2> QED
    BY <2>1, <2>2, <2>3 DEF NoMorePlaced, Placed
<1>12. Shaped' /\ OldFollow' /\ OldReached' /\ FilesApart'
  BY <1>10, <1>11, <1>p, KeptFiles, BeforeAlone
<1>13. OldLocated'
  <2>1. ASSUME NEW b \in linked, NEW i \in 1 .. synced[b]
        PROVE  b \in linked' /\ i \in 1 .. synced'[b] /\ frames'[b][i] = frames[b][i]
    <3>1. b \in Position /\ b \notin out /\ b \in linked' /\ synced[b] \in Nat
      BY <1>2, <1>4
    <3>2. CASE b \notin Dirty
      BY <1>6, <3>1, <3>2
    <3>3. CASE b \in Dirty
      <4>1. i \in 1 .. kept[b]
        BY <1>3, <3>1, <3>3
      <4> QED
        BY <1>5, <3>1, <3>3, <4>1
    <3> QED
      BY <3>2, <3>3
  <2> QED
    BY <1>1, <1>11, <2>1, KeptLocated, BeforeAlone
<1>14. FaultTypes'
  <2>1. crashes' \in 0 .. MaxCrashes
    BY <1>1, BoundsAssumption DEF FInv, FaultTypes, TypeOK
  <2>2. segments' \subseteq Position /\ removed' \subseteq Position /\ linked' \subseteq segments'
    BY <1>1, <1>2
  <2>3. manifest' \in Manifest /\ durableManifest' \in Manifest /\ stale' \subseteq Manifest
    BY <1>1, <1>11
  <2>4. reverted' \in BOOLEAN
    BY DEF PowerLoss
  <2>5. /\ active' \in Position /\ closed' \subseteq Position /\ next' \in Position
        /\ size' \in Nat /\ floor' \in Position
    BY <1>1, ForgetTyped
  <2>6. phase' \in Phases /\ lock' \in BOOLEAN /\ acked' \subseteq Frame /\ lastId' \in 0 .. MaxFrames
    BY <1>1 DEF FInv, FaultTypes, TypeOK, Phases
  <2>7. TypeOK'
    BY ONLY <1>9, <2>1, <2>2, <2>3, <2>4, <2>5, <2>6 DEF TypeOK
  <2>8. before' \in [Kinds -> 0 .. MaxFrames] /\ \A k \in Kinds : before'[k] # MaxFrames => before'[k] <= lastId'
    BY <1>1 DEF FInv, FaultTypes
  <2> QED
    BY ONLY <2>7, <2>8 DEF FaultTypes
<1>15. DirtyLate'
  <2>1. ASSUME NEW b \in Position, synced'[b] < Len(frames'[b]) PROVE m.active <= b
    <3>1. synced[b] < Len(frames[b])
      BY <1>2, <1>8, <2>1
    <3>2. manifest.active <= b /\ b \in Nat
      BY <1>2, <3>1 DEF FInv, DirtyLate, Position
    <3> QED
      BY <1>11, <3>2, Typed
  <2> QED
    BY <1>1, <2>1 DEF DirtyLate, Serving
<1>16. ManifestsInOrder'
  <2>1. \A b \in Files' : b < m.floor => \A i \in 1 .. Len(frames'[b]) : End(frames'[b][i]) <= m.floor
    BY <1>10, <1>11, KeptEnds
  <2>2. manifest' = m /\ durableManifest' = m
    OBVIOUS
  <2>3. Boundary(manifest.floor)' /\ Boundary(durableManifest.floor)'
    BY ONLY <2>1, <2>2 DEF Boundary, End, Files
  <2>4. m.active <= m.active /\ m.floor <= m.floor /\ m.floor <= m.active
    BY <1>11
  <2> QED
    BY ONLY <2>2, <2>3, <2>4 DEF ManifestsInOrder
<1>e. Entries'
  <2>1. linked' = segments'
    OBVIOUS
  <2> QED
    BY <1>1, <2>1 DEF Entries
<1>17. Memory' /\ CleanBefore' /\ SettledBefore'
  BY <1>1 DEF Memory, CleanBefore, SettledBefore, Serving
<1> QED
  BY <1>12, <1>13, <1>14, <1>15, <1>16, <1>e, <1>17 DEF FInv

LEMMA AppendsKeep == ASSUME FInv, AppendBatch \/ AppendSystem, UNCHANGED before PROVE FInv'
<1>1. CASE AppendBatch
  BY <1>1, AppendFrameKeeps, BoundsAssumption DEF AppendBatch
<1>2. CASE AppendSystem
  BY <1>2, AppendFrameKeeps DEF AppendSystem
<1> QED
  BY <1>1, <1>2

----------------------------------------------------------------------------
(* The invariant *)

LEMMA InitKeeps == ASSUME FaultInit PROVE FInv
<1>1. /\ Init /\ before = [k \in Kinds |-> MaxFrames]
      /\ MaxFrames \in Nat /\ MaxPosition \in Nat
      /\ 0 \in Position /\ 0 \in Nat
  BY BoundsAssumption DEF FaultInit, Position
<1>2. TypeOK
  BY <1>1, InitInv DEF IInv
<1>3. \A b \in Position : frames[b] = <<>> /\ synced[b] = 0 /\ Len(frames[b]) = 0
  BY <1>1 DEF Init
<1>4. manifest.active = 0 /\ manifest.floor = 0 /\ durableManifest = manifest /\ phase = "down" /\ ~lock /\ linked = segments /\ removed = {}
  BY <1>1 DEF Init
<1>5. FaultTypes
  BY <1>1, <1>2 DEF FaultTypes, Init
<1>6. Shaped /\ OldFollow /\ OldReached /\ DirtyLate
  BY <1>3 DEF Shaped, OldFollow, OldReached, DirtyLate
<1>7. FilesApart /\ ManifestsInOrder /\ Entries
  <2>1. Files \subseteq Position
    BY <1>2 DEF TypeOK, Files
  <2> QED
    BY <1>3, <1>4, <2>1 DEF FilesApart, ManifestsInOrder, Boundary, Entries, Serving
<1>8. Memory /\ CleanBefore /\ SettledBefore
  BY <1>4 DEF Memory, CleanBefore, SettledBefore, Serving
<1>9. OldLocated
  BY <1>1 DEF OldLocated, Init
<1> QED
  BY <1>5, <1>6, <1>7, <1>8, <1>9 DEF FInv

LEMMA StutterKeeps == ASSUME FInv, UNCHANGED faultVars PROVE FInv'
<1>1. UNCHANGED <<segments, removed, linked, frames, synced, manifest, durableManifest, stale, lock, phase,
                  active, closed, next, size, floor, acked, lastId, crashes, reverted, before>>
  BY DEF faultVars, vars, disk, memory, history
<1>2. FaultTypes'
  BY <1>1 DEF FInv, FaultTypes, TypeOK
<1>3. Shaped' /\ OldFollow' /\ OldReached' /\ FilesApart' /\ OldLocated'
  <2>1. NoMorePlaced
    BY <1>1, Calm DEF Serving
  <2> QED
    BY <1>1, <2>1, QuietFiles, BeforeAlone, Typed
<1>4. DirtyLate' /\ ManifestsInOrder' /\ Entries'
  BY <1>1 DEF FInv, DirtyLate, ManifestsInOrder, Entries, Serving, Boundary, End, Files
<1>5. Memory' /\ CleanBefore' /\ SettledBefore'
  BY <1>1 DEF FInv, Memory, CleanBefore, SettledBefore, Serving, Boundary, Files, HeadBehind, Whole, HeadOf, Follows, End
<1> QED
  BY <1>2, <1>3, <1>4, <1>5 DEF FInv

LEMMA StepKeeps == ASSUME FInv, [FaultNext]_faultVars, ~reverted' PROVE FInv'
<1>1. CASE Next /\ UNCHANGED <<faults, before>>
  <2>1. UNCHANGED before
    BY <1>1
  <2>2. CASE Opening
    BY <2>1, <2>2, OpenKeeps, RecoverActiveKeeps, EndOpenKeeps DEF Opening
  <2>3. CASE AppendBatch \/ AppendSystem
    BY <2>1, <2>3, AppendsKeep
  <2>4. CASE Rolling
    BY <2>1, <2>4, BeginRollKeeps, RollCreateKeeps, RollLinkKeeps, RollWriteKeeps, RollSyncKeeps DEF Rolling
  <2>5. CASE Commit
    BY <2>1, <2>5, CommitKeeps
  <2>6. CASE Retaining
    BY <2>1, <2>6, ActivateRetentionKeeps, FloorSyncKeeps, ReclaimKeeps DEF Retaining
  <2>7. CASE Ending
    BY <2>1, <2>7, CloseKeeps, KillKeeps, PowerLossKeeps, RemoveStaleLockKeeps DEF Ending
  <2> QED
    BY <1>1, <2>2, <2>3, <2>4, <2>5, <2>6, <2>7 DEF Next
<1>2. CASE WriteFails
  BY <1>2, WriteFailsKeeps
<1>3. CASE RecoverFails
  BY <1>3, RecoverFailsKeeps
<1>4. CASE RollWriteFails \/ ManifestSyncFails
  BY <1>4, ManifestFailsKeeps DEF RollWriteFails, ManifestSyncFails
<1>5. CASE UNCHANGED faultVars
  BY <1>5, StutterKeeps
<1> QED
  BY <1>1, <1>2, <1>3, <1>4, <1>5 DEF FaultNext

\* Once a power loss undid a rename an open had built on, that stays so.
LEMMA FaultRevertedStays == ASSUME [FaultNext]_faultVars, reverted PROVE reverted'
<1>1. CASE Next /\ UNCHANGED <<faults, before>>
  BY <1>1, RevertedStays
<1>2. CASE WriteFails \/ RecoverFails \/ RollWriteFails \/ ManifestSyncFails
  BY <1>2 DEF WriteFails, RecoverFails, RollWriteFails, ManifestSyncFails, history
<1>3. CASE UNCHANGED faultVars
  BY <1>3 DEF faultVars, vars, history
<1> QED
  BY <1>1, <1>2, <1>3 DEF FaultNext

FaultSound == ~reverted => FInv

\* FInv holds in every state that failed writes, failed manifest writes and
\* crashes can lead to (open_internal, roll, activate_retention, append_batch),
\* as long as no power loss undoes a rename that an open had built on.
THEOREM FaultInductive == FaultSpec => []FaultSound
<1>1. FaultInit => FaultSound
  BY InitKeeps DEF FaultSound
<1>2. FaultSound /\ [FaultNext]_faultVars => FaultSound'
  BY StepKeeps, FaultRevertedStays DEF FaultSound
<1> QED
  BY <1>1, <1>2, PTL DEF FaultSpec

----------------------------------------------------------------------------
(* What follows from it *)

\* A frame older than the first failed write, acknowledged and above the
\* durable floor, is synced with all that precedes it.
LEMMA OldOnDisk ==
  ASSUME FInv, NEW fr \in acked, fr.id <= before["write"], Above(fr, durableManifest.floor)
  PROVE  \E b \in linked : \E i \in 1 .. synced[b] :
            /\ i <= Len(frames[b]) /\ frames[b][i] = fr /\ \A j \in 1 .. i : Follows(b, j)
            /\ fr.id <= before["manifest"] => b <= durableManifest.active
<1>1. PICK b \in linked : \E i \in 1 .. synced[b] : frames[b][i] = fr
  BY DEF FInv, OldLocated
<1>2. PICK i \in 1 .. synced[b] : frames[b][i] = fr
  BY <1>1
<1>3. b \in Position /\ synced[b] \in Nat /\ Len(frames[b]) \in Nat /\ synced[b] <= Len(frames[b])
  BY Typed DEF FInv, Shaped
<1>4. i \in 1 .. Len(frames[b]) /\ i <= Len(frames[b]) /\ frames[b][i].whole
  BY <1>2, <1>3 DEF FInv, OldLocated
<1>5. \A j \in 1 .. i : Follows(b, j)
  BY <1>2, <1>3, <1>4 DEF FInv, OldFollow
<1>6. fr.id <= before["manifest"] => b <= durableManifest.active
  BY <1>2, <1>3, <1>4 DEF FInv, OldReached
<1> QED
  BY <1>2, <1>4, <1>5, <1>6

\* What is above a manifest's floor is above the durable one.
LEMMA AboveDurable ==
  ASSUME FInv, NEW m \in {manifest, durableManifest}, NEW fr \in acked, Above(fr, m.floor)
  PROVE  Above(fr, durableManifest.floor) /\ durableManifest.active <= m.active /\ m.active \in Nat
<1>1. /\ m.floor \in Nat /\ durableManifest.floor <= m.floor
      /\ durableManifest.active <= m.active /\ m.active \in Nat
  BY Typed DEF FInv, ManifestsInOrder
<1>2. End(fr) \in Nat
  <2>1. fr \in Frame
    BY DEF FInv, FaultTypes, TypeOK
  <2>2. \A x \in Frame : End(x) \in Nat
    BY DEF Frame, Position, End
  <2> QED
    BY <2>1, <2>2
<1> QED
  BY <1>1, <1>2, Typed DEF Above

\* Whatever manifest writes fail, what was acknowledged before the first failed
\* write and is above the floor is synced, intact and preceded by intact frames
\* only, in a file whose directory entry is durable (append_batch, roll,
\* activate_retention), until a power loss undoes a rename that an open built on.
THEOREM FailedManifestsLoseNothing == FaultSpec => []AckedOnDisk
<1>1. FaultSound => AckedOnDisk
  <2> SUFFICES ASSUME FInv, NEW fr \in acked, fr.id <= before["write"], Above(fr, manifest.floor)
               PROVE  \E b \in linked : \E i \in 1 .. synced[b] :
                         frames[b][i] = fr /\ \A j \in 1 .. i : Follows(b, j)
    BY DEF FaultSound, AckedOnDisk
  <2>1. Above(fr, durableManifest.floor)
    BY AboveDurable
  <2> QED
    BY <2>1, OldOnDisk
<1> QED
  BY <1>1, FaultInductive, PTL

\* What was acknowledged before the first failure of either kind is read back
\* after a crash, through whichever manifest the directory comes back with, until
\* a power loss undoes a rename that an open had built on.
THEOREM FailuresCostOnlyLaterFrames == FaultSpec => []AckedBeforeFaultRetained
<1>1. FaultSound => AckedBeforeFaultRetained
  <2> SUFFICES ASSUME FInv, NEW m \in {manifest, durableManifest}, NEW fr \in acked,
                      \A k \in Kinds : fr.id <= before[k], Above(fr, m.floor)
               PROVE  Recoverable(fr, m)
    BY DEF FaultSound, AckedBeforeFaultRetained
  <2>1. fr.id <= before["write"] /\ fr.id <= before["manifest"]
    BY DEF Kinds
  <2>2. Above(fr, durableManifest.floor) /\ durableManifest.active <= m.active /\ m.active \in Nat
    BY AboveDurable
  <2>3. PICK b \in linked : \E i \in 1 .. synced[b] :
            /\ i <= Len(frames[b]) /\ frames[b][i] = fr /\ \A j \in 1 .. i : Follows(b, j)
            /\ fr.id <= before["manifest"] => b <= durableManifest.active
    BY <2>1, <2>2, OldOnDisk
  <2>4. b <= m.active
    <3>1. b \in Nat /\ b <= durableManifest.active
      BY <2>1, <2>3, Typed
    <3> QED
      BY <2>2, <3>1, Typed
  <2> QED
    BY <2>3, <2>4 DEF Recoverable
<1> QED
  BY <1>1, FaultInductive, PTL

\* No remnant of a failed append is taken for an event: what the scan of any
\* file finds valid lies after all that carries a smaller id (scan_records), with
\* the same exception.
THEOREM RemnantsAreNoEvents == FaultSpec => []ValidFramesAdjoin
<1>1. FaultSound => ValidFramesAdjoin
  <2> SUFFICES ASSUME FInv, NEW fr \in ValidIn(segments), NEW later \in ValidIn(segments), fr.id < later.id
               PROVE  End(fr) <= later.first
    BY DEF FaultSound, ValidFramesAdjoin
  <2>1. ASSUME NEW x \in ValidIn(segments)
        PROVE  \E b \in segments : \E i \in 1 .. Len(frames[b]) : x = frames[b][i] /\ x.whole
    <3>1. PICK b \in segments : x \in {frames[b][i] : i \in 1 .. ValidLength(b)}
      BY DEF ValidIn
    <3>2. PICK i \in 1 .. ValidLength(b) : x = frames[b][i]
      BY <3>1
    <3>3. b \in Position /\ frames[b] \in Seq(Frame) /\ Len(frames[b]) \in Nat
      BY Typed
    <3>4. ValidLength(b) \in 0 .. Len(frames[b]) /\ Follows(b, i)
      BY <3>3, ValidPrefix
    <3> QED
      BY <3>2, <3>3, <3>4 DEF Follows
  <2>2. PICK b \in segments : \E i \in 1 .. Len(frames[b]) : fr = frames[b][i] /\ fr.whole
    BY <2>1
  <2>3. PICK i \in 1 .. Len(frames[b]) : fr = frames[b][i] /\ fr.whole
    BY <2>2
  <2>4. PICK c \in segments : \E k \in 1 .. Len(frames[c]) : later = frames[c][k] /\ later.whole
    BY <2>1
  <2>5. PICK k \in 1 .. Len(frames[c]) : later = frames[c][k] /\ later.whole
    BY <2>4
  <2>6. /\ b \in Position /\ c \in Position /\ b \in Nat /\ c \in Nat
        /\ b \in Files /\ c \in Files /\ Placed(b) /\ Placed(c)
        /\ fr.id \in Nat /\ later.id \in Nat /\ later.first \in Nat /\ End(fr) \in Nat
    <3>1. b \in Position /\ c \in Position /\ b \in Nat /\ c \in Nat
      BY Typed
    <3>2. frames[b] # <<>> /\ frames[c] # <<>>
      BY <3>1, Typed
    <3> QED
      BY <2>3, <2>5, <3>1, <3>2, FrameTyped DEF Files, Placed
  <2>7. CASE b = c
    <3>1. i # k
      BY <2>3, <2>5, <2>6, <2>7
    <3>2. CASE i < k
      <4>1. i \in 1 .. k - 1
        BY <3>2, <2>6, <2>7, Typed
      <4> QED
        BY <2>3, <2>5, <2>6, <2>7, <4>1 DEF FInv, Shaped
    <3>3. CASE k < i
      <4>1. k \in 1 .. i - 1
        BY <3>3, <2>6, <2>7, Typed
      <4>2. later.id < fr.id
        BY <2>3, <2>5, <2>6, <2>7, <4>1 DEF FInv, Shaped
      <4> QED
        BY <2>6, <4>2
    <3> QED
      BY <2>6, <3>1, <3>2, <3>3, Typed
  <2>8. CASE b < c
    <3>1. End(fr) <= c
      BY <2>3, <2>6, <2>8 DEF FInv, FilesApart
    <3>2. c <= later.first
      BY <2>5, <2>6 DEF FInv, Shaped
    <3> QED
      BY <2>6, <3>1, <3>2
  <2>9. CASE c < b
    <3>1. later.id < fr.id
      BY <2>3, <2>5, <2>6, <2>9 DEF FInv, FilesApart
    <3> QED
      BY <2>6, <3>1
  <2> QED
    BY <2>6, <2>7, <2>8, <2>9
<1> QED
  BY <1>1, FaultInductive, PTL

----------------------------------------------------------------------------
(* Types *)

\* Every variable has its type, and every frame ends at a position.
WellTyped == TypeOK /\ \A b \in Position : \A i \in 1 .. Len(frames[b]) : End(frames[b][i]) \in Position

\* The frames of a file are frames.
LEMMA FrameOfFile ==
  ASSUME TypeOK, NEW b \in Position, NEW i \in 1 .. Len(frames[b])
  PROVE  frames[b] \in Seq(Frame) /\ frames[b][i] \in Frame
<1>1. frames[b] \in Seq(Frame)
  BY DEF TypeOK
<1> QED
  BY ONLY <1>1

\* Files of which each loses frames, stays, or grows by one frame at its end.
LEMMA FilesTyped ==
  ASSUME WellTyped,
         NEW g \in [Position -> Seq(Frame)], frames' = g,
         \A b \in Position : \A i \in 1 .. Len(g[b]) :
            (i \in 1 .. Len(frames[b]) /\ g[b][i] = frames[b][i]) \/ End(g[b][i]) \in Position
  PROVE  \A b \in Position : \A i \in 1 .. Len(frames'[b]) : End(frames'[b][i]) \in Position
  BY DEF WellTyped

\* An append of one frame.
LEMMA GrownTyped ==
  ASSUME WellTyped, NEW b \in Position, NEW fr \in Frame, End(fr) \in Position,
         frames' = [frames EXCEPT ![b] = Append(@, fr)]
  PROVE  /\ frames' \in [Position -> Seq(Frame)]
         /\ \A c \in Position : \A i \in 1 .. Len(frames'[c]) : End(frames'[c][i]) \in Position
<1>1. frames \in [Position -> Seq(Frame)]
  BY DEF WellTyped, TypeOK
<1>2. \A c \in Position : frames'[c] = IF c = b THEN Append(frames[c], fr) ELSE frames[c]
  BY <1>1
<1>3. ASSUME NEW c \in Position, NEW i \in 1 .. Len(frames'[c])
      PROVE  End(frames'[c][i]) \in Position
  <2>1. frames[c] \in Seq(Frame)
    BY <1>1
  <2>2. \A k \in 1 .. Len(frames[c]) : End(frames[c][k]) \in Position
    BY DEF WellTyped
  <2>3. CASE c = b
    <3>1. frames'[c] = Append(frames[c], fr)
      BY <1>2, <2>3
    <3>2. /\ Len(Append(frames[c], fr)) = Len(frames[c]) + 1
          /\ \A k \in 1 .. Len(frames[c]) : Append(frames[c], fr)[k] = frames[c][k]
          /\ Append(frames[c], fr)[Len(frames[c]) + 1] = fr
      BY <2>1
    <3>3. i \in 1 .. Len(frames[c]) \/ i = Len(frames[c]) + 1
      BY <2>1, <3>1, <3>2
    <3> QED
      BY <2>2, <3>1, <3>2, <3>3
  <2>4. CASE c # b
    <3>1. frames'[c] = frames[c]
      BY <1>2, <2>4
    <3> QED
      BY <2>2, <3>1
  <2> QED
    BY <2>3, <2>4
<1>4. Append(frames[b], fr) \in Seq(Frame)
  BY <1>1
<1> QED
  BY <1>1, <1>3, <1>4

\* Files of which each is cut or stays, except that some get a torn frame.
LEMMA LostTyped ==
  ASSUME WellTyped, PowerLoss
  PROVE  /\ frames' \in [Position -> Seq(Frame)] /\ synced' \in [Position -> Nat]
         /\ segments' \subseteq Position /\ linked' \subseteq segments'
         /\ \A b \in Position : \A i \in 1 .. Len(frames'[b]) : End(frames'[b][i]) \in Position
<1> PICK kept \in [Dirty -> 0 .. MaxFrames + 1], torn \in SUBSET Dirty,
         lost \in SUBSET (segments \ linked), back \in SUBSET removed :
      /\ \A b \in Dirty : /\ synced[b] <= kept[b]
                          /\ kept[b] <= Len(frames[b])
                          /\ kept[b] > 0 => frames[b][kept[b]].whole
                          /\ b \in torn => kept[b] < Len(frames[b])
      /\ segments' = (segments \ lost) \cup back
      /\ linked' = (segments \ lost) \cup back
      /\ frames' = [b \in Position |->
                      IF b \in lost \cup (removed \ back) THEN <<>>
                      ELSE IF b \notin Dirty THEN frames[b]
                      ELSE SubSeq(frames[b], 1, kept[b])
                             \o (IF b \in torn THEN <<Torn>> ELSE <<>>)]
      /\ synced' = [b \in Position |->
                      IF b \in lost \cup (removed \ back) THEN 0
                      ELSE IF b \notin Dirty THEN synced[b]
                      ELSE kept[b]]
  BY DEF PowerLoss
<1>1. ASSUME NEW b \in Position
      PROVE  /\ frames'[b] \in Seq(Frame) /\ synced'[b] \in Nat
             /\ \A i \in 1 .. Len(frames'[b]) : End(frames'[b][i]) \in Position
  <2>1. frames[b] \in Seq(Frame) /\ synced[b] \in Nat
    BY DEF WellTyped, TypeOK
  <2>2. \A i \in 1 .. Len(frames[b]) : End(frames[b][i]) \in Position
    BY DEF WellTyped
  <2>3. CASE b \in lost \cup (removed \ back)
    <3>1. frames'[b] = <<>> /\ synced'[b] = 0
      BY <2>3
    <3> QED
      BY ONLY <3>1
  <2>4. CASE b \notin lost \cup (removed \ back) /\ b \notin Dirty
    <3>1. frames'[b] = frames[b] /\ synced'[b] = synced[b]
      BY <2>4
    <3> QED
      BY ONLY <2>1, <2>2, <3>1
  <2>5. CASE b \notin lost \cup (removed \ back) /\ b \in Dirty
    <3> DEFINE s == SubSeq(frames[b], 1, kept[b])
               tail == IF b \in torn THEN <<Torn>> ELSE <<>>
    <3>1. frames'[b] = s \o tail /\ synced'[b] = kept[b]
      BY <2>5
    <3>2. kept[b] \in Nat /\ kept[b] <= Len(frames[b])
      BY <2>5, BoundsAssumption
    <3>3. \A i \in 1 .. kept[b] : i \in 1 .. Len(frames[b])
      BY <2>1, <3>2
    <3>4. s \in Seq(Frame) /\ Len(s) = kept[b] /\ \A i \in 1 .. kept[b] : s[i] = frames[b][i]
      BY <2>1, <3>2, <3>3
    <3>5. tail \in Seq(Frame) /\ \A i \in 1 .. Len(tail) : tail[i] = Torn
      BY TornTyped
    <3> HIDE DEF s, tail
    <3>6. \A i \in 1 .. Len(s) : End(s[i]) \in Position
      BY <2>2, <3>3, <3>4
    <3>7. End(Torn) \in Position
      BY TornTyped, BoundsAssumption DEF Position
    <3>8. \A i \in 1 .. Len(tail) : End(tail[i]) \in Position
      BY <3>5, <3>7
    <3>9. s \o tail \in Seq(Frame)
      BY <3>4, <3>5
    <3>10. \A i \in 1 .. Len(s \o tail) :
              \/ i \in 1 .. Len(s) /\ (s \o tail)[i] = s[i]
              \/ i - Len(s) \in 1 .. Len(tail) /\ (s \o tail)[i] = tail[i - Len(s)]
      BY <3>4, <3>5
    <3>11. \A i \in 1 .. Len(s \o tail) : End((s \o tail)[i]) \in Position
      BY <3>6, <3>8, <3>10
    <3> QED
      BY ONLY <3>1, <3>2, <3>9, <3>11
  <2> QED
    BY <2>3, <2>4, <2>5
<1>2. segments' \subseteq Position /\ linked' \subseteq segments'
  <2>1. segments' = (segments \ lost) \cup back /\ linked' = segments'
    OBVIOUS
  <2>2. segments \subseteq Position /\ removed \subseteq Position
    BY DEF WellTyped, TypeOK
  <2> QED
    BY ONLY <2>1, <2>2
<1>3. frames' \in [Position -> Seq(Frame)] /\ synced' \in [Position -> Nat]
  BY <1>1
<1> QED
  BY <1>1, <1>2, <1>3

\* The floor a retention chooses is a position.
LEMMA FloorTyped ==
  ASSUME TypeOK, NEW requested \in 0 .. next
  PROVE  RetentionBoundary(requested) \in Position
<1> DEFINE bases == {b \in closed \cup {active} : b <= requested} \cup {floor}
<1>1. bases \subseteq Position /\ bases # {} /\ bases \in SUBSET Nat /\ \A x \in bases : x <= MaxPosition
  <2>1. closed \subseteq Position /\ active \in Position /\ floor \in Position
    BY DEF TypeOK
  <2>2. bases \subseteq Position /\ bases # {}
    BY <2>1
  <2>3. \A x \in Position : x \in Nat /\ x <= MaxPosition
    BY BoundsAssumption DEF Position
  <2> HIDE DEF bases
  <2> QED
    BY <2>2, <2>3
<1>2. \E x \in bases : \A y \in bases : y <= x
  BY <1>1, BoundsAssumption, LargestExists
<1>3. RetentionBoundary(requested) \in bases
  BY <1>2 DEF RetentionBoundary
<1> QED
  BY <1>1, <1>3

\* Every step keeps the types; one that leaves the files alone, by its own text.
LEMMA TypesKept == ASSUME WellTyped, [Next]_vars PROVE WellTyped'
<1>t. TypeOK /\ \A b \in Position : \A i \in 1 .. Len(frames[b]) : End(frames[b][i]) \in Position
  BY DEF WellTyped
<1>p. 0 \in Position /\ Position \subseteq Nat
  BY BoundsAssumption DEF Position
<1>1. CASE Open \/ Close \/ RemoveStaleLock \/ UNCHANGED vars
  <2>1. TypeOK'
    BY <1>1, <1>t, <1>p DEF TypeOK, Phases, Open, Close, Forget, RemoveStaleLock, vars, disk, memory, history
  <2>2. frames' = frames
    BY <1>1 DEF Open, Close, RemoveStaleLock, vars, disk
  <2> QED
    BY <1>t, <2>1, <2>2 DEF WellTyped, End
<1>2. CASE RecoverActive
  <2> DEFINE b == manifest.active
             v == ValidLength(b)
  <2>1. b \in Position /\ frames[b] \in Seq(Frame) /\ Len(frames[b]) \in Nat
    BY <1>t DEF TypeOK, Manifest
  <2>2. v \in 0 .. Len(frames[b])
    BY <2>1, ValidPrefix
  <2>3. ScannedNext(b) \in Position /\ v \in Nat
    <3>1. v # 0 => v \in 1 .. Len(frames[b])
      BY <2>1, <2>2
    <3>2. v # 0 => End(frames[b][v]) \in Position
      BY <1>t, <2>1, <3>1
    <3>3. ScannedNext(b) = IF v = 0 THEN b ELSE End(frames[b][v])
      BY DEF ScannedNext
    <3>4. v \in Nat
      BY <2>2
    <3> HIDE DEF b, v
    <3> QED
      BY <2>1, <3>2, <3>3, <3>4
  <2>4. \/ frames' = frames /\ synced' = synced
        \/ /\ frames' = [frames EXCEPT ![b] = SubSeq(@, 1, v)]
           /\ synced' = [synced EXCEPT ![b] = v]
    BY <1>2 DEF RecoverActive
  <2>5. next' \in Position /\ size' \in Nat
    BY <1>2, <1>t, <2>3 DEF RecoverActive, TypeOK
  <2> HIDE DEF v
  <2>6. SubSeq(frames[b], 1, v) \in Seq(Frame) /\ Len(SubSeq(frames[b], 1, v)) = v
        /\ \A i \in 1 .. v : i \in 1 .. Len(frames[b]) /\ SubSeq(frames[b], 1, v)[i] = frames[b][i]
    <3>1. \A i \in 1 .. v : i \in 1 .. Len(frames[b])
      BY <2>1, <2>2
    <3> HIDE DEF b
    <3> QED
      BY <2>1, <2>2, <3>1
  <2>7. frames' \in [Position -> Seq(Frame)] /\ synced' \in [Position -> Nat]
    <3>1. frames \in [Position -> Seq(Frame)] /\ synced \in [Position -> Nat]
      BY <1>t DEF TypeOK
    <3> HIDE DEF b
    <3> QED
      BY ONLY <2>1, <2>3, <2>4, <2>6, <3>1
  <2>8. \A c \in Position : \A i \in 1 .. Len(frames'[c]) : End(frames'[c][i]) \in Position
    <3>1. CASE frames' = frames
      BY <1>t, <3>1
    <3>2. CASE frames' = [frames EXCEPT ![b] = SubSeq(@, 1, v)]
      <4>1. \A c \in Position : frames'[c] = IF c = b THEN SubSeq(frames[b], 1, v) ELSE frames[c]
        BY <1>t, <3>2 DEF TypeOK
      <4> HIDE DEF b
      <4> QED
        BY <1>t, <2>1, <2>6, <4>1
    <3> QED
      BY <2>4, <3>1, <3>2
  <2>9. /\ phase' = "orphans"
        /\ UNCHANGED <<segments, removed, linked, manifest, durableManifest, stale, lock, active, closed, floor, acked, lastId, crashes, reverted>>
    BY <1>2 DEF RecoverActive, history
  <2>10. TypeOK'
    BY ONLY <1>t, <2>5, <2>7, <2>9 DEF TypeOK, Phases
  <2> QED
    BY <2>8, <2>10 DEF WellTyped, End
<1>3. CASE EndOpen
  <2>1. TypeOK'
    <3>1. CASE FinishOpen
      BY <3>1, <1>t DEF FinishOpen, Orphans, TypeOK, Phases, Manifest, history
    <3>2. CASE RefuseOpen
      BY <3>2, <1>t, ForgetTyped DEF RefuseOpen, Orphans, TypeOK, Phases, history
    <3> QED
      BY <1>3, <3>1, <3>2 DEF EndOpen
  <2>2. frames' = frames
    BY <1>3 DEF EndOpen, FinishOpen, RefuseOpen
  <2> QED
    BY <1>t, <2>1, <2>2 DEF WellTyped, End
<1>4. CASE AppendBatch \/ AppendSystem
  <2>1. PICK n \in Nat : AppendFrame(n)
    BY <1>4, BoundsAssumption DEF AppendBatch, AppendSystem
  <2> DEFINE fr == [id |-> lastId + 1, first |-> next, count |-> n, whole |-> TRUE]
  <2>2. fr \in Frame /\ End(fr) = next + n /\ next + n \in Position
    BY <2>1, <1>t, BoundsAssumption DEF AppendFrame, TypeOK, Frame, End
  <2>3. /\ frames' = [frames EXCEPT ![active] = Append(@, fr)] /\ next' = next + n /\ size' = size + 1
        /\ lastId' = lastId + 1 /\ phase' = "idle" /\ lastId < MaxFrames
        /\ UNCHANGED <<segments, removed, linked, synced, manifest, durableManifest, stale, lock, active, closed, floor, acked, crashes, reverted>>
    BY <2>1 DEF AppendFrame
  <2> HIDE DEF fr
  <2>4. active \in Position
    BY <1>t DEF TypeOK
  <2>5. /\ frames' \in [Position -> Seq(Frame)]
        /\ \A c \in Position : \A i \in 1 .. Len(frames'[c]) : End(frames'[c][i]) \in Position
    BY <2>2, <2>3, <2>4, GrownTyped
  <2>6. lastId' \in 0 .. MaxFrames /\ size' \in Nat
    BY <1>t, <2>3, BoundsAssumption DEF TypeOK
  <2>7. TypeOK'
    BY ONLY <1>t, <2>2, <2>3, <2>5, <2>6 DEF TypeOK, Phases
  <2> QED
    BY <2>5, <2>7 DEF WellTyped, End
<1>5. CASE BeginRoll \/ Commit
  <2>1. frames' = frames /\ synced' \in [Position -> Nat]
    <3>1. synced \in [Position -> Nat] /\ active \in Position /\ Len(frames[active]) \in Nat
      BY <1>t DEF TypeOK
    <3>2. frames' = frames /\ synced' = [synced EXCEPT ![active] = Len(frames[active])]
      BY <1>5 DEF BeginRoll, Commit, SyncActive
    <3> QED
      BY ONLY <3>1, <3>2
  <2>2. acked' \subseteq Frame
    <3>1. Readable \subseteq Frame
      <4>1. \A b \in closed \cup {active} : b \in Position
        BY <1>t DEF TypeOK
      <4>2. ASSUME NEW fr \in Readable PROVE fr \in Frame
        <5>1. PICK b \in closed \cup {active} : fr \in InFile(b)
          BY <4>2 DEF Readable
        <5>2. PICK i \in 1 .. Len(frames[b]) : fr = frames[b][i]
          BY <5>1 DEF InFile
        <5> QED
          BY <1>t, <4>1, <5>2, FrameOfFile
      <4> QED
        BY <4>2
    <3> QED
      BY <1>5, <1>t, <3>1 DEF BeginRoll, Commit, history, TypeOK
  <2>3. /\ phase' \in Phases
        /\ UNCHANGED <<segments, removed, linked, manifest, durableManifest, stale, lock, active, closed, next, size, floor, lastId, crashes, reverted>>
    BY <1>5 DEF BeginRoll, Commit, Phases, memory, history
  <2>4. TypeOK'
    BY ONLY <1>t, <2>1, <2>2, <2>3 DEF TypeOK
  <2> QED
    BY <1>t, <2>1, <2>4 DEF WellTyped, End
<1>6. CASE RollCreate \/ RollLink
  <2>1. /\ frames' \in [Position -> Seq(Frame)] /\ synced' \in [Position -> Nat]
        /\ \A b \in Position : frames'[b] = frames[b] \/ frames'[b] = <<>>
    <3>1. <<>> \in Seq(Frame)
      OBVIOUS
    <3>2. frames \in [Position -> Seq(Frame)] /\ synced \in [Position -> Nat] /\ next \in Position
      BY <1>t DEF TypeOK
    <3>3. CASE RollCreate
      <4>1. \/ frames' = frames /\ synced' = synced
            \/ frames' = [frames EXCEPT ![next] = <<>>] /\ synced' = [synced EXCEPT ![next] = 0]
        BY <3>3 DEF RollCreate
      <4>2. CASE frames' = frames /\ synced' = synced
        BY <3>2, <4>2
      <4>3. CASE frames' = [frames EXCEPT ![next] = <<>>] /\ synced' = [synced EXCEPT ![next] = 0]
        <5>1. frames' \in [Position -> Seq(Frame)]
          BY <3>1, <3>2, <4>3, Zenon
        <5>2. synced' \in [Position -> Nat]
          BY <3>2, <4>3, 0 \in Nat, Zenon
        <5>3. \A b \in Position : frames'[b] = frames[b] \/ frames'[b] = <<>>
          BY <3>2, <4>3, Zenon
        <5> QED
          BY <5>1, <5>2, <5>3
      <4> QED
        BY <4>1, <4>2, <4>3
    <3>4. CASE RollLink
      <4>1. /\ frames' = [b \in Position |-> IF b \in removed THEN <<>> ELSE frames[b]]
            /\ synced' = [b \in Position |-> IF b \in removed THEN 0 ELSE synced[b]]
        BY <3>4 DEF RollLink, Erase
      <4>2. ASSUME NEW b \in Position
            PROVE  /\ frames'[b] \in Seq(Frame) /\ synced'[b] \in Nat
                   /\ frames'[b] = frames[b] \/ frames'[b] = <<>>
        <5>1. \/ frames'[b] = <<>> /\ synced'[b] = 0
              \/ frames'[b] = frames[b] /\ synced'[b] = synced[b]
          BY <4>1
        <5>2. frames[b] \in Seq(Frame) /\ synced[b] \in Nat
          BY <3>2
        <5> QED
          BY <3>1, <5>1, <5>2, 0 \in Nat, Zenon
      <4> QED
        BY <4>1, <4>2
    <3> QED
      BY <1>6, <3>3, <3>4
  <2>2. TypeOK'
    <3>1. CASE RollCreate
      BY <2>1, <3>1, <1>t DEF RollCreate, TypeOK, Phases, memory, history
    <3>2. CASE RollLink
      <4>1. /\ linked' = segments /\ removed' = {} /\ active' = next /\ closed' = closed \cup {active}
            /\ size' = 0 /\ phase' = "roll_write"
            /\ UNCHANGED <<segments, manifest, durableManifest, stale, lock, next, floor, acked, lastId, crashes, reverted>>
        BY <3>2 DEF RollLink, history
      <4>2. closed' \subseteq Position /\ active' \in Position
        BY <1>t, <4>1 DEF TypeOK
      <4> QED
        BY ONLY <1>t, <2>1, <4>1, <4>2 DEF TypeOK, Phases
    <3> QED
      BY <1>6, <3>1, <3>2
  <2>3. \A b \in Position : \A i \in 1 .. Len(frames'[b]) : End(frames'[b][i]) \in Position
    BY <1>t, <2>1
  <2> QED
    BY <2>2, <2>3 DEF WellTyped, End
<1>7. CASE RollWrite \/ RollSync \/ FloorSync \/ Reclaim \/ ActivateRetention
  <2>1. frames' = frames /\ UNCHANGED <<synced, lock, next, acked, lastId, crashes, reverted>>
    BY <1>7 DEF RollWrite, RollSync, FloorSync, Reclaim, ActivateRetention, memory, history
  <2>2. /\ manifest' \in Manifest /\ durableManifest' \in Manifest /\ stale' \subseteq Manifest
        /\ floor' \in Position /\ UNCHANGED <<active, size>>
    <3>1. /\ manifest \in Manifest /\ durableManifest \in Manifest /\ stale \subseteq Manifest
          /\ active \in Position /\ floor \in Position
          /\ \A a, f \in Position : [active |-> a, floor |-> f] \in Manifest
          /\ \A m \in Manifest : m.floor \in Position
      BY <1>t DEF TypeOK, Manifest
    <3>2. CASE RollWrite
      BY <3>1, <3>2 DEF RollWrite, Rename, memory
    <3>3. CASE RollSync
      BY <3>1, <3>3 DEF RollSync, SyncManifest, memory
    <3>4. CASE FloorSync
      BY <3>1, <3>4 DEF FloorSync, SyncManifest
    <3>5. CASE Reclaim
      BY <3>1, <3>5 DEF Reclaim
    <3>6. CASE ActivateRetention
      <4>1. PICK requested \in 0 .. next : Rename([active |-> active, floor |-> RetentionBoundary(requested)])
        BY <3>6 DEF ActivateRetention
      <4>2. RetentionBoundary(requested) \in Position
        BY <1>t, FloorTyped
      <4>3. durableManifest' = durableManifest /\ UNCHANGED <<active, size, floor>>
        BY <3>6 DEF ActivateRetention, memory
      <4> QED
        BY ONLY <3>1, <4>1, <4>2, <4>3 DEF Rename
    <3> QED
      BY <1>7, <3>2, <3>3, <3>4, <3>5, <3>6
  <2>3. /\ segments' \subseteq segments /\ removed' \subseteq removed \cup closed
        /\ linked' \subseteq segments' /\ closed' \subseteq closed /\ phase' \in Phases
    <3>1. CASE Reclaim
      BY <1>t, <3>1 DEF Reclaim, TypeOK, Phases
    <3>2. CASE RollWrite \/ RollSync \/ FloorSync \/ ActivateRetention
      BY <1>t, <3>2 DEF RollWrite, RollSync, FloorSync, ActivateRetention, TypeOK, Phases, memory
    <3> QED
      BY <1>7, <3>1, <3>2
  <2>4. TypeOK'
    BY ONLY <1>t, <2>1, <2>2, <2>3 DEF TypeOK
  <2> QED
    BY <1>t, <2>1, <2>4 DEF WellTyped, End
<1>8. CASE Kill
  <2>1. /\ frames' \in [Position -> Seq(Frame)]
        /\ \A c \in Position : \A i \in 1 .. Len(frames'[c]) : End(frames'[c][i]) \in Position
    <3>1. CASE UNCHANGED frames
      BY <1>t, <3>1 DEF TypeOK
    <3>2. CASE frames' = [frames EXCEPT ![active] = Append(@, Torn)]
      <4>1. Torn \in Frame /\ End(Torn) \in Position /\ active \in Position
        BY <1>t, <1>p, TornTyped DEF TypeOK
      <4> QED
        BY <3>2, <4>1, GrownTyped
    <3> QED
      BY <1>8, <3>1, <3>2 DEF Kill
  <2>2. /\ Forget /\ phase' = "down" /\ crashes < MaxCrashes /\ crashes' = crashes + 1
        /\ UNCHANGED <<segments, removed, linked, synced, manifest, durableManifest, stale, lock, acked, lastId, reverted>>
    BY <1>8 DEF Kill
  <2>3. crashes' \in 0 .. MaxCrashes
    BY <1>t, <2>2, BoundsAssumption DEF TypeOK
  <2>4. TypeOK'
    BY <1>t, <2>1, <2>2, <2>3, ForgetTyped DEF TypeOK, Phases
  <2> QED
    BY <2>1, <2>4 DEF WellTyped, End
<1>9. CASE PowerLoss
  <2>1. /\ Forget /\ phase' = "down" /\ crashes < MaxCrashes /\ crashes' = crashes + 1
        /\ removed' = {} /\ stale' = {} /\ reverted' \in BOOLEAN
        /\ UNCHANGED <<lock, acked, lastId>>
    BY <1>9 DEF PowerLoss
  <2>2. \E m \in {manifest, durableManifest} \cup stale : manifest' = m /\ durableManifest' = m
    BY <1>9 DEF PowerLoss
  <2>3. manifest' \in Manifest /\ durableManifest' \in Manifest
    BY <1>t, <2>2 DEF TypeOK
  <2>4. crashes' \in 0 .. MaxCrashes
    BY <1>t, <2>1, BoundsAssumption DEF TypeOK
  <2>5. /\ frames' \in [Position -> Seq(Frame)] /\ synced' \in [Position -> Nat]
        /\ segments' \subseteq Position /\ linked' \subseteq segments'
        /\ \A b \in Position : \A i \in 1 .. Len(frames'[b]) : End(frames'[b][i]) \in Position
    BY <1>9, LostTyped
  <2>6. TypeOK'
    BY <1>t, <2>1, <2>3, <2>4, <2>5, ForgetTyped DEF TypeOK, Phases
  <2> QED
    BY <2>5, <2>6 DEF WellTyped, End
<1> QED
  BY <1>1, <1>2, <1>3, <1>4, <1>5, <1>6, <1>7, <1>8, <1>9
  DEF Next, Opening, Rolling, Retaining, Ending

\* Every variable keeps to its type, whatever is lost and whatever is reverted: the
\* head and every base, floor and end of a frame is a position (log/mod.rs, segment.rs).
THEOREM TypeCorrect == Spec => []TypeOK
<1>1. Init => WellTyped
  <2>1. ASSUME Init PROVE WellTyped
    <3>1. TypeOK
      BY <2>1, InitInv DEF IInv
    <3>2. \A b \in Position : \A i \in 1 .. Len(frames[b]) : FALSE
      BY <2>1 DEF Init
    <3> QED
      BY <3>1, <3>2 DEF WellTyped
  <2> QED
    BY <2>1
<1>2. WellTyped /\ [Next]_vars => WellTyped'
  BY TypesKept
<1>3. WellTyped => TypeOK
  BY DEF WellTyped
<1> QED
  BY <1>1, <1>2, <1>3, PTL DEF Spec
=============================================================================
