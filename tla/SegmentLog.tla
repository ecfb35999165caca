----------------------------- MODULE SegmentLog -----------------------------
(***************************************************************************)
(* The physical log of salamander-db (salamander/src/log): append-only     *)
(* segment files, the manifest naming the active one, and the recovery     *)
(* that runs when the directory is opened.                                 *)
(*                                                                         *)
(* A frame of this model is one write_all of the code: an atomic batch     *)
(* (BatchBegin, its events, BatchCommit) that takes `count` positions, or  *)
(* a system frame, which takes none.  A frame of which only a part reached *)
(* the file, or whose bytes are damaged, is Torn; FrameScan shows that the *)
(* byte scan treats every such remnant as one unit.                        *)
(*                                                                         *)
(* Every call that touches the disk is a step of its own, so a process     *)
(* kill (the page cache survives) or a power loss (only what was synced    *)
(* survives for certain) may fall between any two of them.                 *)
(***************************************************************************)
EXTENDS Naturals, Sequences, FiniteSets

CONSTANTS
    MaxPosition,  \* positions 0..MaxPosition bound the events appended
    MaxFrames,    \* bound on the frames ever written
    SegmentMax,   \* segment_max_bytes, counted in frames
    Counts,       \* events per write: 0 for a system frame, else a batch
    MaxCrashes    \* bound on kills and power losses together

ASSUME BoundsAssumption ==
    /\ MaxPosition \in Nat
    /\ MaxFrames \in Nat
    /\ SegmentMax \in Nat \ {0}
    /\ MaxCrashes \in Nat
    /\ Counts \subseteq Nat

Position == 0 .. MaxPosition

Frame == [id : 0 .. MaxFrames, first : Position, count : Nat, whole : BOOLEAN]

Torn == [id |-> 0, first |-> 0, count |-> 0, whole |-> FALSE]

\* The position after the last one a frame takes.
End(fr) == fr.first + fr.count

Manifest == [active : Position, floor : Position]

VARIABLES
    \* the disk
    segments,        \* bases of the .seg files present in log/
    removed,         \* those removed since log/ was last synced: they may return
    linked,          \* those whose directory entry survives a power loss
    frames,          \* the frames in each file, page cache included
    synced,          \* how many leading frames of each file are on the platter
    manifest,        \* manifest.json as a process sees it
    durableManifest, \* manifest.json as it was last synced, or found by an open
    stale,           \* older ones a power loss may still bring back
    lock,            \* the LOCK file exists
    \* the process
    phase,           \* which step of which call comes next; "down" if none runs
    active,          \* Log.active.base_offset and Log.manifest.active_segment_base
    closed,          \* Log.closed
    next,            \* Log.active.next_offset, the head
    size,            \* Log.active.len_bytes, in frames
    floor,           \* Log.manifest.retention_floor
    \* history
    acked,           \* frames below a head that commit() returned
    lastId,          \* frames written so far, a unique id for each
    crashes,
    reverted         \* a power loss undid a rename that an open had built on

disk    == <<segments, removed, linked, frames, synced,
             manifest, durableManifest, stale>>
memory  == <<active, closed, next, size, floor>>
history == <<acked, lastId, crashes, reverted>>
vars    == <<disk, lock, phase, memory, history>>

Phases == {"down", "scan", "orphans", "idle",
           "roll_create", "roll_link", "roll_write", "roll_sync", "rolled",
           "floor_sync", "reclaim"}

TypeOK ==
    /\ segments \subseteq Position
    /\ removed \subseteq Position
    /\ linked \subseteq segments
    /\ frames \in [Position -> Seq(Frame)]
    /\ synced \in [Position -> Nat]
    /\ manifest \in Manifest
    /\ durableManifest \in Manifest
    /\ stale \subseteq Manifest
    /\ lock \in BOOLEAN
    /\ phase \in Phases
    /\ active \in Position
    /\ closed \subseteq Position
    /\ next \in Position
    /\ size \in Nat
    /\ floor \in Position
    /\ acked \subseteq Frame
    /\ lastId \in 0 .. MaxFrames
    /\ crashes \in 0 .. MaxCrashes
    /\ reverted \in BOOLEAN

(***************************************************************************)
(* A database just created by its first open: one empty segment, a durable *)
(* manifest, no process.  LogBootstrap models how it gets there.           *)
(***************************************************************************)
Init ==
    /\ segments = {0}
    /\ removed = {}
    /\ linked = {0}
    /\ frames = [b \in Position |-> <<>>]
    /\ synced = [b \in Position |-> 0]
    /\ manifest = [active |-> 0, floor |-> 0]
    /\ durableManifest = manifest
    /\ stale = {}
    /\ lock = FALSE
    /\ phase = "down"
    /\ active = 0
    /\ closed = {}
    /\ next = 0
    /\ size = 0
    /\ floor = 0
    /\ acked = {}
    /\ lastId = 0
    /\ crashes = 0
    /\ reverted = FALSE

----------------------------------------------------------------------------
(* Opening the directory *)

\* Frame i of file b is intact and continues the frames before it.
Follows(b, i) ==
    /\ frames[b][i].whole
    /\ frames[b][i].first = IF i = 1 THEN b ELSE End(frames[b][i - 1])

\* scan_records: how many leading frames of file b are valid.
ValidLength(b) ==
    CHOOSE n \in 0 .. Len(frames[b]) :
        /\ \A i \in 1 .. n : Follows(b, i)
        /\ n < Len(frames[b]) => ~Follows(b, n + 1)

\* Mutant: the head comes back at the base of the file.
ScannedNextRestart(b) == b

\* scan_records: the position the next frame of file b would take.
ScannedNext(b) ==
    IF ValidLength(b) = 0 THEN b ELSE End(frames[b][ValidLength(b)])

\* DirLock::acquire, then the manifest is read and built on as it is: no call
\* syncs the rename of a process killed before its own sync_dir.
Open ==
    /\ phase = "down"
    /\ ~lock
    /\ lock' = TRUE
    /\ durableManifest' = manifest
    /\ stale' = stale \cup ({durableManifest} \ {manifest})
    /\ phase' = "scan"
    /\ UNCHANGED <<segments, removed, linked, frames, synced, manifest, memory, history>>

\* Segment::open of the active segment: cut the file at the first invalid
\* frame and sync the cut; a file with nothing to cut is not synced.
RecoverActive ==
    LET b == manifest.active IN
    /\ phase = "scan"
    /\ phase' = "orphans"
    /\ IF b \notin segments
       THEN UNCHANGED <<frames, synced, next, size>>
       ELSE /\ next' = ScannedNext(b)
            /\ size' = ValidLength(b)
            /\ IF ValidLength(b) = Len(frames[b])
               THEN UNCHANGED <<frames, synced>>
               ELSE /\ frames' = [frames EXCEPT ![b] = SubSeq(@, 1, ValidLength(b))]
                    /\ synced' = [synced EXCEPT ![b] = ValidLength(b)]
    /\ UNCHANGED <<segments, removed, linked, manifest, durableManifest, stale, lock,
                   active, closed, floor, history>>

\* Mutant: the active segment counts as an orphan while it is empty.
OrphansFromActive == {b \in segments : b >= manifest.active}

\* Segments beyond the active one, left by a roll that did not finish.
Orphans == {b \in segments : b > manifest.active}

\* The conditions under which open_internal returns a Log and not an error.
Openable ==
    /\ manifest.active \in segments
    /\ \A b \in Orphans : frames[b] = <<>>
    /\ manifest.floor <= next

\* The empty orphans are removed and the Log is built.
FinishOpen ==
    /\ phase = "orphans"
    /\ segments' = segments \ Orphans
    /\ removed' = removed \cup Orphans
    /\ linked' = linked \ Orphans
    /\ active' = manifest.active
    /\ closed' = {b \in segments : b < manifest.active}
    /\ floor' = manifest.floor
    /\ phase' = "idle"
    /\ UNCHANGED <<frames, synced, manifest, durableManifest, stale, lock,
                   next, size, history>>

\* Memory of a process that is gone.
Forget ==
    /\ active' = 0
    /\ closed' = {}
    /\ next' = 0
    /\ size' = 0
    /\ floor' = 0

\* open_internal returns an error: the empty orphans met before the first
\* non-empty one are already removed, and the guard drops the lock.
RefuseOpen ==
    LET met == {b \in Orphans : \A c \in Orphans : c <= b => frames[c] = <<>>} IN
    /\ phase = "orphans"
    /\ segments' = segments \ met
    /\ removed' = removed \cup met
    /\ linked' = linked \ met
    /\ Forget
    /\ lock' = FALSE
    /\ phase' = "down"
    /\ UNCHANGED <<frames, synced, manifest, durableManifest, stale, history>>

\* open_internal returns a Log, or an error.
EndOpen == IF Openable THEN FinishOpen ELSE RefuseOpen

----------------------------------------------------------------------------
(* Appending, rolling, committing *)

Full == size >= SegmentMax

\* An append may write now: the active segment has room, or a roll just made it.
MayWrite == phase = "rolled" \/ (phase = "idle" /\ ~Full)

\* Encode a frame and write it with one write_all; then move the head.
AppendFrame(n) ==
    LET fr == [id |-> lastId + 1, first |-> next, count |-> n, whole |-> TRUE] IN
    /\ MayWrite
    /\ lastId < MaxFrames
    /\ next + n \in Position
    /\ frames' = [frames EXCEPT ![active] = Append(@, fr)]
    /\ next' = next + n
    /\ size' = size + 1
    /\ lastId' = lastId + 1
    /\ phase' = "idle"
    /\ UNCHANGED <<segments, removed, linked, synced, manifest, durableManifest, stale,
                   lock, active, closed, floor, acked, crashes, reverted>>

AppendBatch == \E n \in Counts \ {0} : AppendFrame(n)

\* A system frame (branch, consumer checkpoint) carries the next position
\* but does not take it.
AppendSystem == 0 \in Counts /\ AppendFrame(0)

\* Mutant: the fsync is forgotten.
SyncNothing == UNCHANGED synced

\* Segment::sync of the active segment.
SyncActive == synced' = [synced EXCEPT ![active] = Len(frames[active])]

\* roll, entered by an append that finds the segment full: fsync it first.
BeginRoll ==
    /\ phase = "idle"
    /\ Full
    /\ lastId < MaxFrames
    /\ SyncActive
    /\ phase' = "roll_create"
    /\ UNCHANGED <<segments, removed, linked, frames, manifest, durableManifest, stale,
                   lock, memory, history>>

\* Segment::create is a create_new: it fails on an existing file, and the
\* append with it.
RollCreate ==
    /\ phase = "roll_create"
    /\ IF next \in segments
       THEN /\ phase' = "idle"
            /\ UNCHANGED <<segments, removed, frames, synced>>
       ELSE /\ phase' = "roll_link"
            /\ segments' = segments \cup {next}
            /\ removed' = removed \ {next}
            /\ frames' = [frames EXCEPT ![next] = <<>>]
            /\ synced' = [synced EXCEPT ![next] = 0]
    /\ UNCHANGED <<linked, manifest, durableManifest, stale, lock, memory, history>>

\* The contents files b of the set `gone` had are out of reach for good.
Erase(gone) ==
    /\ frames' = [b \in Position |-> IF b \in gone THEN <<>> ELSE frames[b]]
    /\ synced' = [b \in Position |-> IF b \in gone THEN 0 ELSE synced[b]]

\* sync_dir of log/, which also settles the removals made in it, then the
\* in-memory swap.
RollLink ==
    /\ phase = "roll_link"
    /\ linked' = segments
    /\ removed' = {}
    /\ Erase(removed)
    /\ active' = next
    /\ closed' = closed \cup {active}
    /\ size' = 0
    /\ phase' = "roll_write"
    /\ UNCHANGED <<segments, manifest, durableManifest, stale, lock,
                   next, floor, history>>

\* Manifest::write: the temporary file is synced and renamed over the old one,
\* which a power loss may bring back when no sync_dir followed its own rename.
Rename(m) ==
    /\ manifest' = m
    /\ stale' = stale \cup ({manifest} \ {durableManifest})

RollWrite ==
    /\ phase = "roll_write"
    /\ Rename([active |-> active, floor |-> floor])
    /\ phase' = "roll_sync"
    /\ UNCHANGED <<segments, removed, linked, frames, synced, durableManifest, lock,
                   memory, history>>

\* Manifest::write: sync_dir makes the last rename durable.
SyncManifest ==
    /\ durableManifest' = manifest
    /\ stale' = {}

\* The append goes on in the new segment.
RollSync ==
    /\ phase = "roll_sync"
    /\ SyncManifest
    /\ phase' = "rolled"
    /\ UNCHANGED <<segments, removed, linked, frames, synced, manifest, lock,
                   memory, history>>

InFile(b) == {frames[b][i] : i \in 1 .. Len(frames[b])}

\* The intact frames of the files a process reads.
Readable == {fr \in UNION {InFile(b) : b \in closed \cup {active}} : fr.whole}

\* commit: fsync the active segment and return the head.
Commit ==
    /\ phase = "idle"
    /\ SyncActive
    /\ acked' = acked \cup Readable
    /\ UNCHANGED <<segments, removed, linked, frames, manifest, durableManifest, stale,
                   lock, phase, memory, lastId, crashes, reverted>>

----------------------------------------------------------------------------
(* Retention *)

\* Mutant: the floor falls where the caller asked, inside a segment or not.
RetentionBoundaryExact(requested) == requested

\* retention_boundary: the largest segment base at or below the request,
\* never below the floor in force.
RetentionBoundary(requested) ==
    LET bases == {b \in closed \cup {active} : b <= requested} \cup {floor}
    IN  CHOOSE b \in bases : \A c \in bases : c <= b

\* activate_retention, up to the rename of the manifest.
ActivateRetention ==
    /\ phase = "idle"
    /\ \E requested \in 0 .. next :
          Rename([active |-> active, floor |-> RetentionBoundary(requested)])
    /\ phase' = "floor_sync"
    /\ UNCHANGED <<segments, removed, linked, frames, synced, durableManifest, lock,
                   memory, history>>

\* activate_retention: sync_dir, then the floor takes effect in memory.
FloorSync ==
    /\ phase = "floor_sync"
    /\ SyncManifest
    /\ floor' = manifest.floor
    /\ phase' = "reclaim"
    /\ UNCHANGED <<segments, removed, linked, frames, synced, manifest, lock,
                   active, closed, next, size, history>>

\* reclaim_below_retention_floor: best effort, a file that cannot be removed
\* is kept.  log/ is not synced afterwards.
Reclaim ==
    /\ phase = "reclaim"
    /\ \E gone \in SUBSET {b \in closed : b < floor} :
          /\ segments' = segments \ gone
          /\ removed' = removed \cup gone
          /\ linked' = linked \ gone
          /\ closed' = closed \ gone
    /\ phase' = "idle"
    /\ UNCHANGED <<frames, synced, manifest, durableManifest, stale, lock,
                   active, next, size, floor, history>>

----------------------------------------------------------------------------
(* The process ends *)

\* The Log is dropped: nothing is synced, the lock file is removed.
Close ==
    /\ phase = "idle"
    /\ Forget
    /\ lock' = FALSE
    /\ phase' = "down"
    /\ UNCHANGED <<disk, history>>

\* The process is killed: the page cache survives, the lock file stays, and
\* an append caught inside write_all leaves part of its frame.
Kill ==
    /\ phase # "down"
    /\ crashes < MaxCrashes
    /\ \/ UNCHANGED frames
       \/ /\ MayWrite
          /\ frames' = [frames EXCEPT ![active] = Append(@, Torn)]
    /\ Forget
    /\ phase' = "down"
    /\ crashes' = crashes + 1
    /\ UNCHANGED <<segments, removed, linked, synced, manifest, durableManifest, stale,
                   lock, acked, lastId, reverted>>

Dirty == {b \in segments \cup removed : synced[b] < Len(frames[b])}

\* Power is lost, with or without a process running.  Of the frames not yet
\* synced any number of leading ones survives, the one after them possibly in
\* part; a file whose directory entry was not synced may be gone and one whose
\* removal was not synced may be back; a rename that was not synced may be
\* undone, even one that an open has built on since.
PowerLoss ==
    /\ crashes < MaxCrashes
    /\ \E kept \in [Dirty -> 0 .. MaxFrames + 1], torn \in SUBSET Dirty,
          lost \in SUBSET (segments \ linked), back \in SUBSET removed :
          /\ \A b \in Dirty : /\ synced[b] <= kept[b]
                              /\ kept[b] <= Len(frames[b])
                              /\ kept[b] > 0 => frames[b][kept[b]].whole
                              /\ b \in torn => kept[b] < Len(frames[b])
          /\ segments' = (segments \ lost) \cup back
          /\ linked' = (segments \ lost) \cup back
          /\ frames' = [b \in Position |->
                          IF b \in lost \cup (removed \ back) THEN <<>>
                          ELSE IF b \notin Dirty THEN frames[b]
                          ELSE SubSeq(frames[b], 1, kept[b])
                                 \o (IF b \in torn THEN <<Torn>> ELSE <<>>)]
          /\ synced' = [b \in Position |->
                          IF b \in lost \cup (removed \ back) THEN 0
                          ELSE IF b \notin Dirty THEN synced[b]
                          ELSE kept[b]]
    /\ \E m \in {manifest, durableManifest} \cup stale :
          /\ manifest' = m
          /\ durableManifest' = m
          /\ reverted' = (reverted \/ m \notin {manifest, durableManifest})
    /\ removed' = {}
    /\ stale' = {}
    /\ Forget
    /\ phase' = "down"
    /\ crashes' = crashes + 1
    /\ UNCHANGED <<lock, acked, lastId>>

\* The operator deletes the LOCK file a dead process left.
RemoveStaleLock ==
    /\ phase = "down"
    /\ lock
    /\ lock' = FALSE
    /\ UNCHANGED <<disk, phase, memory, history>>

----------------------------------------------------------------------------

Opening == Open \/ RecoverActive \/ EndOpen

Rolling == BeginRoll \/ RollCreate \/ RollLink \/ RollWrite \/ RollSync

Retaining == ActivateRetention \/ FloorSync \/ Reclaim

Ending == Close \/ Kill \/ PowerLoss \/ RemoveStaleLock

Next == \/ Opening
        \/ AppendBatch
        \/ AppendSystem
        \/ Rolling
        \/ Commit
        \/ Retaining
        \/ Ending

Spec == Init /\ [][Next]_vars

----------------------------------------------------------------------------
(* What the log promises *)

\* A frame retention keeps under floor f: one that takes a position at or
\* after f, or a system frame past f.  System frames at the floor or below it
\* are carried by the retention anchor.
Above(fr, f) == f = 0 \/ End(fr) > f

\* Frame fr is certain to be read again by a process that opens the log
\* through manifest m, whatever an intervening power loss drops.
Recoverable(fr, m) ==
    \E b \in linked :
        /\ b <= m.active
        /\ \E i \in 1 .. synced[b] :
              /\ i <= Len(frames[b])
              /\ frames[b][i] = fr
              /\ \A j \in 1 .. i : Follows(b, j)

AckedRetainedAlways ==
    \A m \in {manifest, durableManifest} :
        \A fr \in acked : Above(fr, m.floor) => Recoverable(fr, m)

\* Every frame below a head that commit() returned, and above the retention
\* floor, can be read back after any kill or power loss, whichever of the two
\* manifests the directory comes back with: no crash inside roll, recovery or
\* retention loses an acknowledged event.  One case is excepted: a power loss
\* that undoes a rename of the manifest on which a later open built without
\* syncing it (LogRevertedManifest.cfg checks AckedRetainedAlways and shows it).
AckedRetained == ~reverted => AckedRetainedAlways

\* Whatever a crash leaves behind, the directory opens again: the active
\* segment is there, what lies beyond it is empty, the floor is not past the
\* head; with the same exception.
NeverUnopenable ==
    ~reverted =>
        /\ \A m \in {manifest, durableManifest} :
              /\ m.active \in linked
              /\ \A b \in segments : b > m.active => frames[b] = <<>>
        /\ phase = "orphans" => Openable

\* The segments a process serves tile the log: each one, intact to its end,
\* ends where the following one begins, and the active one ends at the head.
\* A gap or an overlap would skip or repeat positions on a read.
SegmentsTile ==
    phase = "idle" =>
        \A b \in closed \cup {active} :
            /\ ValidLength(b) = Len(frames[b])
            /\ b # active =>
                 /\ synced[b] = Len(frames[b])
                 /\ b >= floor => ScannedNext(b) \in closed \cup {active}
            /\ b = active => ScannedNext(b) = next

\* A position whose frame was acknowledged is never given to another frame.
AckedPositionsFinal ==
    [][\A fr \in acked : \A b \in Position :
         \A i \in 1 .. Len(frames'[b]) :
            LET new == frames'[b][i] IN
            (new.whole /\ new.id # fr.id) =>
                (End(new) <= fr.first \/ End(fr) <= new.first)]_vars

\* A segment below the durable manifest's active one is sealed: its file is
\* removed as a whole or never touched again.
SealedImmutable ==
    [][\A b \in segments :
         b < durableManifest.active => \/ frames'[b] = frames[b]
                                       \/ b \notin segments']_vars

\* A roll is refused only when the full segment holds nothing but system
\* frames, so that the new segment would carry the name of the old one.
RollRefusedOnlyWithoutEvents ==
    [][phase = "roll_create" /\ phase' = "idle" =>
         \A i \in 1 .. Len(frames[active]) : frames[active][i].count = 0]_vars

----------------------------------------------------------------------------
(* The log implements its promise *)

\* The frames recovery finds valid, over the files of a set.
ValidIn(files) == UNION {{frames[b][i] : i \in 1 .. ValidLength(b)} : b \in files}

Promise == INSTANCE CommittedLog
           WITH log <- ValidIn(segments),
                discarded <- ValidIn(removed),
                head <- ScannedNext(manifest.active),
                kept <- durableManifest.floor,
                broken <- reverted

\* Files, rolls, recovery and reclamation show a caller nothing but a sequence
\* of frames that loses, in a crash, at most an unacknowledged suffix, and gets
\* back, in a crash, at most what retention had just removed; until a power
\* loss undoes a rename that an open had built on.
ImplementsCommittedLog == Promise!Spec
============================================================================
