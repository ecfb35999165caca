-------------------------- MODULE SegmentLogFaults --------------------------
(***************************************************************************)
(* SegmentLog on a disk whose calls may fail without killing the process:  *)
(* a write_all that writes a part of its buffer and then reports an error  *)
(* (a full disk), and a manifest write that fails before or after its      *)
(* rename.  The code passes these errors to the caller with `?` and keeps  *)
(* the Log in use.                                                         *)
(***************************************************************************)
EXTENDS SegmentLog

Kinds == {"write", "manifest"}

CONSTANTS
    Faults,     \* which kinds may fail
    MaxFaults   \* bound on the failures

ASSUME FaultsAssumption ==
    /\ Faults \subseteq Kinds
    /\ MaxFaults \in Nat

VARIABLES
    faults,   \* failures so far
    before    \* per kind, the last frame written before the first failure of it

faultVars == <<vars, faults, before>>

FaultInit == Init /\ faults = 0 /\ before = [k \in Kinds |-> MaxFrames]

MayFail(kind) ==
    /\ kind \in Faults
    /\ faults < MaxFaults
    /\ faults' = faults + 1
    /\ before' = [before EXCEPT ![kind] = IF @ = MaxFrames THEN lastId ELSE @]

\* append_batch, append_system: write_all fails half way.  Position and length
\* stay, the partial frame stays in the file and later frames follow it.
WriteFails ==
    /\ MayFail("write")
    /\ MayWrite
    /\ frames' = [frames EXCEPT ![active] = Append(@, Torn)]
    /\ phase' = "idle"
    /\ UNCHANGED <<segments, removed, linked, synced, manifest, durableManifest, stale,
                   lock, memory, history>>

\* Segment::open: a remnant that later frames follow may decode to an error
\* other than Corrupt, which scan_records returns instead of stopping there
\* (FrameScan); open_internal fails and the guard drops the lock.
RecoverFails ==
    LET b == manifest.active IN
    /\ phase = "scan"
    /\ b \in segments
    /\ \E i \in 1 .. Len(frames[b]) : ~frames[b][i].whole /\ i < Len(frames[b])
    /\ Forget
    /\ lock' = FALSE
    /\ phase' = "down"
    /\ UNCHANGED <<disk, history, faults, before>>

\* roll: Manifest::write fails before the rename.  The in-memory log has
\* already moved to the new segment.
RollWriteFails ==
    /\ MayFail("manifest")
    /\ phase = "roll_write"
    /\ phase' = "idle"
    /\ UNCHANGED <<disk, lock, memory, history>>

\* roll, activate_retention: sync_dir fails after the rename.  A new floor is
\* on disk and not in memory.
ManifestSyncFails ==
    /\ MayFail("manifest")
    /\ phase \in {"roll_sync", "floor_sync"}
    /\ phase' = "idle"
    /\ UNCHANGED <<disk, lock, memory, history>>

FaultNext ==
    \/ Next /\ UNCHANGED <<faults, before>>
    \/ WriteFails
    \/ RecoverFails
    \/ RollWriteFails
    \/ ManifestSyncFails

FaultSpec == FaultInit /\ [][FaultNext]_faultVars

----------------------------------------------------------------------------

\* When a manifest write fails, acknowledged frames above the floor are still
\* intact in some file that cannot vanish: the directory may refuse to open,
\* but nothing was overwritten, cut off or deleted.  (What follows a failed
\* write is cut off, see LogLosesAckedAfterPartialWrite.cfg.)
AckedOnDisk ==
    ~reverted => \A fr \in acked : fr.id <= before["write"] /\ Above(fr, manifest.floor) =>
        \E b \in linked : \E i \in 1 .. synced[b] :
            frames[b][i] = fr /\ \A j \in 1 .. i : Follows(b, j)

\* A failed call costs at most what was written after it: every frame that was
\* acknowledged before the first failure is read back after any crash.
AckedBeforeFaultRetained ==
    ~reverted => \A m \in {manifest, durableManifest} : \A fr \in acked :
        (\A k \in Kinds : fr.id <= before[k]) /\ Above(fr, m.floor) => Recoverable(fr, m)

\* A failed append leaves no trace a reader or a later open could mistake for
\* an event: frames recovery finds valid carry increasing ids and adjoining
\* positions across the files.
ValidFramesAdjoin ==
    ~reverted => \A fr, later \in ValidIn(segments) : fr.id < later.id => End(fr) <= later.first
=============================================================================
