-------------------------- MODULE MigrationProofs --------------------------
(***************************************************************************)
(* An import over a first open that may be interrupted anywhere: whatever  *)
(* the size of the source and the number of crashes, the destination does  *)
(* not say it is complete, nor let a user in, before the whole source is   *)
(* durable in it, and what a commit acknowledged stays.                    *)
(*                                                                         *)
(* The exception is a power loss that takes an entry which an interrupted  *)
(* open did not sync and later opens built on (`reverted`): the invariant  *)
(* holds until then.  The proof has two layers: AtPhase says how far the   *)
(* open of LogBootstrap has made the directory durable at each of its      *)
(* steps, AtStep does the same for the import and its two markers.         *)
(*                                                                         *)
(* The end of the module is about the other command: the branches that     *)
(* migrate_legacy_branches makes have the histories of their streams.      *)
(***************************************************************************)
EXTENDS MCMigration, TLAPS, FiniteSetTheorems

\* Types, without the bounds of the counters.
Types ==
    /\ ordered \in BOOLEAN /\ lock \in BOOLEAN /\ started \in BOOLEAN
    /\ logDir \in Entry /\ segment \in Entry /\ done \in Entry
    /\ segment # "absent" => logDir # "absent"
    /\ events \in Nat /\ synced \in Nat /\ synced <= events
    /\ id \in Nat /\ safeId \in Nat /\ minted \in Nat
    /\ acked \in Nat
    /\ phase \in Phases
    /\ marker \in Entry \cup {"removed"}
    /\ mstep \in Msteps

\* No power loss can take the directory, the segment or the manifest.
Durable == segment = "safe" /\ logDir = "safe" /\ safeId = id /\ id # 0

\* An open begins with what it finds and has nothing unsynced of its own.
Quiet == segment # "present" /\ safeId = id /\ logDir # "present"

\* How durable the directory is at each step of an open.
AtPhase ==
    /\ phase # "down" => lock
    /\ phase = "mkdir" => Quiet
    /\ phase \in {"read", "recover"} => segment # "present" /\ safeId = id
    /\ phase = "read" => logDir # "absent"
    /\ phase \in {"read", "recover"} /\ segment = "safe" => logDir = "safe"
    /\ phase \in {"create", "link", "rename"} => id = 0 /\ safeId = 0
    /\ phase = "create" => segment = "absent" /\ logDir # "absent"
    /\ phase = "link" => segment = "present" /\ logDir # "absent"
    /\ phase = "rename" => segment = "safe" /\ logDir # "absent"
    /\ phase = "settle" => segment = "safe" /\ logDir # "absent" /\ id # 0
    /\ phase = "recover" => id # 0
    /\ phase = "open" => Durable

\* The whole source is in the destination for good.
Whole == Durable /\ synced >= Source

\* What each step of the import finds: the first marker outlives every crash
\* until the second is as durable.
AtStep ==
    /\ started => marker = "safe" \/ done = "safe"
    /\ mstep \in {"mark", "marked"} => ~started
    /\ mstep \in {"open", "import", "finish", "finished"} =>
          Seen(marker) /\ (started => marker = "safe")
    /\ mstep \in {"finish", "finished", "clear", "cleared"} => Whole
    /\ mstep = "finished" => Seen(done)
    /\ mstep \in {"clear", "cleared"} => done = "safe"
    /\ marker = "removed" => done = "safe"
    /\ Seen(done) => Whole

\* What was acknowledged is durable.
AckedDurable == acked # 0 => Durable /\ acked <= synced

MInv == Types /\ AtPhase /\ AtStep /\ AckedDurable

\* What later opens built on is still there.
Sound == ~reverted => MInv

----------------------------------------------------------------------------

\* An empty destination satisfies the invariant.
LEMMA InitInv == MInit => MInv
<1> SUFFICES ASSUME MInit PROVE MInv
  OBVIOUS
<1>1. Types
  <2>1. ordered \in BOOLEAN /\ lock \in BOOLEAN /\ started \in BOOLEAN
    BY DEF MInit, Init
  <2> QED
    BY <2>1 DEF MInit, Init, Types, Entry, Phases, Msteps
<1>2. AtPhase
  BY DEF MInit, Init, AtPhase, Quiet
<1>3. AtStep
  BY DEF MInit, AtStep, Seen
<1>4. AckedDurable
  BY DEF MInit, Init, AckedDurable
<1> QED BY <1>1, <1>2, <1>3, <1>4 DEF MInv

----------------------------------------------------------------------------
(* The import up to its open *)

\* Without a durable marker nothing has been imported: a command that writes
\* the marker anew is the first.
LEMMA BeginKeeps ==
  ASSUME MInv, Begin
  PROVE  MInv'
<1> USE DEF MInv, Begin, MayPrepare, CompletedReport, Running
<1>1. Types'
  BY DEF Types, Entry, Phases, Msteps, vars, disk, entries, history, migration
<1>2. AtPhase'
  BY DEF AtPhase, Durable, Quiet, vars, disk, entries, history
<1>3. AtStep'
  BY DEF AtStep, Whole, Durable, Seen, vars, disk, entries, history, migration
<1>4. AckedDurable'
  BY DEF AckedDurable, Durable, vars, disk, entries, history
<1> QED BY <1>1, <1>2, <1>3, <1>4

\* The first marker is there, and is not yet relied on.
LEMMA RenameMarkerKeeps ==
  ASSUME MInv, RenameMarker
  PROVE  MInv'
<1> USE DEF MInv, RenameMarker
<1>1. Types'
  BY DEF Types, Entry, Phases, Msteps, vars, disk, entries, history, migration
<1>2. AtPhase'
  BY DEF AtPhase, Durable, Quiet, vars, disk, entries, history
<1>3. AtStep'
  BY DEF AtStep, Whole, Durable, Seen, vars, disk, entries, history, migration
<1>4. AckedDurable'
  BY DEF AckedDurable, Durable, vars, disk, entries, history
<1> QED BY <1>1, <1>2, <1>3, <1>4

\* From here on the marker keeps users out over any crash.
LEMMA SyncMarkerKeeps ==
  ASSUME MInv, SyncMarker
  PROVE  MInv'
<1> USE DEF MInv, SyncMarker, SyncRoot, Settled
<1>1. Types'
  BY DEF Types, Entry, Phases, Msteps, vars, disk, entries, history, migration
<1>2. AtPhase'
  BY DEF AtPhase, Durable, Quiet, vars, disk, entries, history
<1>3. AtStep'
  BY DEF AtStep, Whole, Durable, Seen, vars, disk, entries, history, migration
<1>4. AckedDurable'
  BY DEF AckedDurable, Durable, vars, disk, entries, history
<1> QED BY <1>1, <1>2, <1>3, <1>4

\* A user who finds no marker begins an open.
LEMMA UserAcquireKeeps ==
  ASSUME MInv, UserAcquire
  PROVE  MInv'
<1> USE DEF MInv, UserAcquire, Acquire, Settled
<1>1. Types'
  BY DEF Types, Entry, Phases, Msteps, vars, disk, entries, history, migration
<1>2. AtPhase'
  BY DEF AtPhase, Durable, Quiet, vars, disk, entries, history
<1>3. AtStep'
  BY DEF AtStep, Whole, Durable, Seen, vars, disk, entries, history, migration
<1>4. AckedDurable'
  BY DEF AckedDurable, Durable, vars, disk, entries, history
<1> QED BY <1>1, <1>2, <1>3, <1>4

\* The import begins an open.
LEMMA ImportAcquireKeeps ==
  ASSUME MInv, ImportAcquire
  PROVE  MInv'
<1> USE DEF MInv, ImportAcquire, Acquire, Settled
<1>1. Types'
  BY DEF Types, Entry, Phases, Msteps, vars, disk, entries, history, migration
<1>2. AtPhase'
  BY DEF AtPhase, Durable, Quiet, vars, disk, entries, history
<1>3. AtStep'
  BY DEF AtStep, Whole, Durable, Seen, vars, disk, entries, history, migration
<1>4. AckedDurable'
  BY DEF AckedDurable, Durable, vars, disk, entries, history
<1> QED BY <1>1, <1>2, <1>3, <1>4

\* A locked destination ends the command.
LEMMA LockedKeeps ==
  ASSUME MInv, Locked
  PROVE  MInv'
<1> USE DEF MInv, Locked
<1>1. Types'
  BY DEF Types, Entry, Phases, Msteps, vars, disk, entries, history, migration
<1>2. AtPhase'
  BY DEF AtPhase, Durable, Quiet, vars, disk, entries, history
<1>3. AtStep'
  BY DEF AtStep, Whole, Durable, Seen, vars, disk, entries, history, migration
<1>4. AckedDurable'
  BY DEF AckedDurable, Durable, vars, disk, entries, history
<1> QED BY <1>1, <1>2, <1>3, <1>4

----------------------------------------------------------------------------
(* The steps of an open *)

\* log/ may be new; no segment is in it then.
LEMMA MakeLogDirKeeps ==
  ASSUME MInv, OpenStep, MakeLogDir
  PROVE  MInv'
<1> USE DEF MInv, OpenStep, Settled, SettledMarker, MakeLogDir
<1>1. Types'
  BY DEF Types, Entry, Phases, Msteps, vars, disk, entries, history, migration
<1>2. AtPhase'
  BY DEF AtPhase, Durable, Quiet, Types, Entry, vars, disk, entries, history
<1>3. AtStep'
  BY DEF AtStep, AtPhase, Whole, Durable, Quiet, Seen, vars, disk, entries, history, migration
<1>4. AckedDurable'
  BY DEF AckedDurable, AtPhase, Durable, vars, disk, entries, history
<1> QED BY <1>1, <1>2, <1>3, <1>4

\* What the open does next depends on what an earlier one left durable.
LEMMA ReadManifestKeeps ==
  ASSUME MInv, OpenStep, ReadManifest
  PROVE  MInv'
<1> USE DEF MInv, OpenStep, Settled, SettledMarker, ReadManifest
<1>1. Types'
  BY DEF Types, Entry, Phases, Msteps, vars, disk, entries, history, migration
<1>2. AtPhase'
  BY DEF AtPhase, Durable, Quiet, Types, Entry, vars, disk, entries, history
<1>3. AtStep'
  BY DEF AtStep, AtPhase, Whole, Durable, Quiet, Seen, vars, disk, entries, history, migration
<1>4. AckedDurable'
  BY DEF AckedDurable, AtPhase, Durable, vars, disk, entries, history
<1> QED BY <1>1, <1>2, <1>3, <1>4

\* The new segment is not yet durable.
LEMMA CreateSegmentKeeps ==
  ASSUME MInv, OpenStep, CreateSegment
  PROVE  MInv'
<1> USE DEF MInv, OpenStep, Settled, SettledMarker, CreateSegment
<1>1. Types'
  BY DEF Types, Entry, Phases, Msteps, AtPhase, history, migration
<1>2. AtPhase'
  BY DEF AtPhase, Durable, Quiet, vars, disk, entries, history
<1>3. AtStep'
  BY DEF AtStep, AtPhase, Whole, Durable, Quiet, Seen, vars, disk, entries, history, migration
<1>4. AckedDurable'
  BY DEF AckedDurable, AtPhase, Durable, vars, disk, entries, history
<1> QED BY <1>1, <1>2, <1>3, <1>4

\* sync_dir makes the segment durable before the manifest names it.
LEMMA SyncLogDirKeeps ==
  ASSUME MInv, OpenStep, SyncLogDir
  PROVE  MInv'
<1> USE DEF MInv, OpenStep, Settled, SettledMarker, SyncLogDir
<1>1. Types'
  BY DEF Types, Entry, Phases, Msteps, AtPhase, history, migration
<1>2. AtPhase'
  BY DEF AtPhase, Durable, Quiet, vars, disk, entries, history
<1>3. AtStep'
  BY DEF AtStep, AtPhase, Whole, Durable, Quiet, Seen, vars, disk, entries, history, migration
<1>4. AckedDurable'
  BY DEF AckedDurable, AtPhase, Durable, vars, disk, entries, history
<1> QED BY <1>1, <1>2, <1>3, <1>4

\* The manifest names a durable segment.
LEMMA RenameManifestKeeps ==
  ASSUME MInv, OpenStep, RenameManifest
  PROVE  MInv'
<1> USE DEF MInv, OpenStep, Settled, SettledMarker, RenameManifest
<1>1. Types'
  BY DEF Types, Entry, Phases, Msteps, vars, disk, entries, history, migration
<1>2. AtPhase'
  BY DEF AtPhase, Durable, Quiet, Types, Entry, vars, disk, entries, history
<1>3. AtStep'
  BY DEF AtStep, AtPhase, Whole, Durable, Quiet, Seen, vars, disk, entries, history, migration
<1>4. AckedDurable'
  BY DEF AckedDurable, AtPhase, Durable, vars, disk, entries, history
<1> QED BY <1>1, <1>2, <1>3, <1>4

\* sync_dir of the root makes the manifest, log/ and both markers durable.
LEMMA SyncDirKeeps ==
  ASSUME MInv, OpenStep, SyncDir
  PROVE  MInv'
<1> USE DEF MInv, OpenStep, Settled, SettledMarker, SyncDir, SyncRoot
<1>1. Types'
  BY DEF Types, Entry, Phases, Msteps, vars, disk, entries, history, migration
<1>2. AtPhase'
  BY DEF AtPhase, Durable, Quiet, Types, Entry, vars, disk, entries, history
<1>3. AtStep'
  BY DEF AtStep, AtPhase, Whole, Durable, Quiet, Seen, vars, disk, entries, history, migration
<1>4. AckedDurable'
  BY DEF AckedDurable, AtPhase, Durable, vars, disk, entries, history
<1> QED BY <1>1, <1>2, <1>3, <1>4

\* Whoever gets a Log has a durable directory.
LEMMA RecoverKeeps ==
  ASSUME MInv, OpenStep, Recover
  PROVE  MInv'
<1> USE DEF MInv, OpenStep, Settled, SettledMarker, Recover
<1>1. Types'
  BY DEF Types, Entry, Phases, Msteps, vars, disk, entries, history, migration
<1>2. AtPhase'
  BY DEF AtPhase, Durable, Quiet, Types, Entry, vars, disk, entries, history
<1>3. AtStep'
  BY DEF AtStep, AtPhase, Whole, Durable, Quiet, Seen, vars, disk, entries, history, migration
<1>4. AckedDurable'
  BY DEF AckedDurable, AtPhase, Durable, vars, disk, entries, history
<1> QED BY <1>1, <1>2, <1>3, <1>4

\* A manifest without its segment stays as it is.
LEMMA RefuseKeeps ==
  ASSUME MInv, OpenRefused
  PROVE  MInv'
<1> USE DEF MInv, OpenRefused, Refuse
<1>1. Types'
  BY DEF Types, Entry, Phases, Msteps, vars, disk, entries, history, migration
<1>2. AtPhase'
  BY DEF AtPhase, Durable, Quiet, vars, disk, entries, history
<1>3. AtStep'
  BY DEF AtStep, Whole, Durable, Seen, vars, disk, entries, history, migration
<1>4. AckedDurable'
  BY DEF AckedDurable, Durable, vars, disk, entries, history
<1> QED BY <1>1, <1>2, <1>3, <1>4

----------------------------------------------------------------------------
(* Import and completion *)

\* An event is appended, not yet durable.
LEMMA ImportEventKeeps ==
  ASSUME MInv, ImportEvent
  PROVE  MInv'
<1> USE DEF MInv, ImportEvent, AppendEvent
<1>1. Types'
  BY DEF Types, Entry, Phases, Msteps, vars, disk, entries, history, migration
<1>2. AtPhase'
  BY DEF AtPhase, Durable, Quiet, vars, disk, entries, history
<1>3. AtStep'
  BY DEF AtStep, Whole, Durable, Seen, vars, disk, entries, history, migration
<1>4. AckedDurable'
  BY DEF AckedDurable, Durable, vars, disk, entries, history
<1> QED BY <1>1, <1>2, <1>3, <1>4

\* commit makes the whole source durable, in a directory that is.
LEMMA ImportCommitKeeps ==
  ASSUME MInv, ImportCommit
  PROVE  MInv'
<1> USE DEF MInv, ImportCommit
<1>1. Types'
  <2>1. events' \in Nat /\ synced' \in Nat /\ synced' <= events' /\ acked' \in Nat
    BY DEF Types
  <2> QED
    BY <2>1 DEF Types, Entry, Phases, Msteps, migration, entries
<1>2. AtPhase'
  BY DEF AtPhase, Durable, Quiet, vars, disk, entries, history
<1>3. AtStep'
  BY DEF AtStep, AtPhase, Whole, Durable, Seen, Types, vars, disk, entries, history, migration
<1>4. AckedDurable'
  BY DEF AckedDurable, AtPhase, Durable, Types, vars, disk, entries, history
<1> QED BY <1>1, <1>2, <1>3, <1>4

\* The second marker is there while the first still is.
LEMMA RenameCompleteKeeps ==
  ASSUME MInv, RenameComplete
  PROVE  MInv'
<1> USE DEF MInv, RenameComplete
<1>1. Types'
  BY DEF Types, Entry, Phases, Msteps, vars, disk, entries, history, migration
<1>2. AtPhase'
  BY DEF AtPhase, Durable, Quiet, vars, disk, entries, history
<1>3. AtStep'
  BY DEF AtStep, Whole, Durable, Seen, vars, disk, entries, history, migration
<1>4. AckedDurable'
  BY DEF AckedDurable, Durable, vars, disk, entries, history
<1> QED BY <1>1, <1>2, <1>3, <1>4

\* The second marker is as durable as the first.
LEMMA SyncCompleteKeeps ==
  ASSUME MInv, SyncComplete
  PROVE  MInv'
<1> USE DEF MInv, SyncComplete, SyncRoot, Settled
<1>1. Types'
  BY DEF Types, Entry, Phases, Msteps, vars, disk, entries, history, migration
<1>2. AtPhase'
  BY DEF AtPhase, Durable, Quiet, vars, disk, entries, history
<1>3. AtStep'
  BY DEF AtStep, Whole, Durable, Seen, vars, disk, entries, history, migration
<1>4. AckedDurable'
  BY DEF AckedDurable, Durable, vars, disk, entries, history
<1> QED BY <1>1, <1>2, <1>3, <1>4

\* The first marker goes.
LEMMA RemoveMarkerKeeps ==
  ASSUME MInv, RemoveMarker
  PROVE  MInv'
<1> USE DEF MInv, RemoveMarker
<1>1. Types'
  BY DEF Types, Entry, Phases, Msteps, vars, disk, entries, history, migration
<1>2. AtPhase'
  BY DEF AtPhase, Durable, Quiet, vars, disk, entries, history
<1>3. AtStep'
  BY DEF AtStep, Whole, Durable, Seen, vars, disk, entries, history, migration
<1>4. AckedDurable'
  BY DEF AckedDurable, Durable, vars, disk, entries, history
<1> QED BY <1>1, <1>2, <1>3, <1>4

\* Its removal is durable.
LEMMA SyncRemovalKeeps ==
  ASSUME MInv, SyncRemoval
  PROVE  MInv'
<1> USE DEF MInv, SyncRemoval, SyncRoot, Settled, SettledMarker
<1>1. Types'
  BY DEF Types, Entry, Phases, Msteps, vars, disk, entries, history, migration
<1>2. AtPhase'
  BY DEF AtPhase, Durable, Quiet, vars, disk, entries, history
<1>3. AtStep'
  BY DEF AtStep, Whole, Durable, Seen, vars, disk, entries, history, migration
<1>4. AckedDurable'
  BY DEF AckedDurable, Durable, vars, disk, entries, history
<1> QED BY <1>1, <1>2, <1>3, <1>4

----------------------------------------------------------------------------
(* Users, kills and power losses *)

\* A user appends, commits or closes.
LEMMA UserStepKeeps ==
  ASSUME MInv, UserStep
  PROVE  MInv'
<1> USE DEF MInv, UserStep, AppendEvent, Commit, Close
<1>1. Types'
  <2>1. events' \in Nat /\ synced' \in Nat /\ synced' <= events' /\ acked' \in Nat
    BY DEF Types, disk, history
  <2> QED
    BY <2>1, ZenonT(30) DEF Types, Entry, Phases, Msteps, migration, disk, entries, history
<1>2. AtPhase'
  BY DEF AtPhase, Durable, Quiet, vars, disk, entries, history
<1>3. AtStep'
  <2>1. Whole => Whole'
    BY MigrationAssumption, BootstrapAssumption
    DEF Whole, Durable, Types, MigrationAssumption, BootstrapAssumption, disk, entries
  <2> QED
    BY <2>1 DEF AtStep, Seen, migration
<1>4. AckedDurable'
  BY DEF AckedDurable, AtPhase, Durable, Types, vars, disk, entries, history
<1> QED BY <1>1, <1>2, <1>3, <1>4

\* A kill leaves the lock, and the lock keeps opens out.
LEMMA KillKeeps ==
  ASSUME MInv, MKill
  PROVE  MInv'
<1> USE DEF MInv, MKill
<1>1. Types'
  BY DEF Types, Entry, Phases, Msteps, vars, disk, entries, history, migration
<1>2. AtPhase'
  BY DEF AtPhase, Durable, Quiet, vars, disk, entries, history
<1>3. AtStep'
  BY DEF AtStep, Whole, Durable, Seen, vars, disk, entries, history, migration
<1>4. AckedDurable'
  BY DEF AckedDurable, Durable, vars, disk, entries, history
<1> QED BY <1>1, <1>2, <1>3, <1>4

\* A power loss takes what was not synced; what the import relies on was, or
\* the loss is the exception.
LEMMA PowerLossKeeps ==
  ASSUME MInv, MPowerLoss, ~reverted'
  PROVE  MInv'
<1> USE DEF MInv, MPowerLoss, PowerLoss, Settled
<1>1. Types'
  BY DEF Types, Entry, Phases, Msteps, vars, disk, entries, history, migration
<1>2. AtPhase'
  BY DEF AtPhase, Durable, Quiet, vars, disk, entries, history
<1>3. AtStep'
  <2>1. Whole => Whole'
    BY MigrationAssumption, BootstrapAssumption
    DEF Whole, Durable, Types, MigrationAssumption, BootstrapAssumption
  <2> QED
    BY <2>1 DEF AtStep, Seen, Entry, Types
<1>4. AckedDurable'
  BY DEF AckedDurable, Durable, Types, vars, disk, entries, history
<1> QED BY <1>1, <1>2, <1>3, <1>4

\* A stale lock is removed from a directory that nobody has.
LEMMA StaleLockKeeps ==
  ASSUME MInv, MRemoveStaleLock
  PROVE  MInv'
<1> USE DEF MInv, MRemoveStaleLock, RemoveStaleLock
<1>1. Types'
  BY ZenonT(30) DEF Types, Entry, Phases, Msteps, vars, disk, entries, history, migration
<1>2. AtPhase'
  BY DEF AtPhase, Durable, Quiet, Types, Entry, vars, disk, entries, history
<1>3. AtStep'
  BY DEF AtStep, Whole, Durable, Seen, vars, disk, entries, history, migration
<1>4. AckedDurable'
  BY DEF AckedDurable, Durable, vars, disk, entries, history
<1> QED BY <1>1, <1>2, <1>3, <1>4

----------------------------------------------------------------------------
(* The theorems *)

\* MInv is inductive, up to the exception.
LEMMA NextInv ==
  ASSUME MInv, [MNext]_mvars, ~reverted'
  PROVE  MInv'
<1>1. CASE Begin BY <1>1, BeginKeeps
<1>2. CASE Import
  <2>1. CASE RenameMarker BY <2>1, RenameMarkerKeeps
  <2>2. CASE SyncMarker BY <2>2, SyncMarkerKeeps
  <2>3. CASE ImportAcquire BY <2>3, ImportAcquireKeeps
  <2>4. CASE Locked BY <2>4, LockedKeeps
  <2>5. CASE ImportEvent BY <2>5, ImportEventKeeps
  <2>6. CASE ImportCommit BY <2>6, ImportCommitKeeps
  <2>7. CASE RenameComplete BY <2>7, RenameCompleteKeeps
  <2>8. CASE SyncComplete BY <2>8, SyncCompleteKeeps
  <2>9. CASE RemoveMarker BY <2>9, RemoveMarkerKeeps
  <2>10. CASE SyncRemoval BY <2>10, SyncRemovalKeeps
  <2> QED BY <1>2, <2>1, <2>2, <2>3, <2>4, <2>5, <2>6, <2>7, <2>8, <2>9, <2>10 DEF Import
<1>3. CASE UserAcquire BY <1>3, UserAcquireKeeps
<1>4. CASE OpenStep
  <2>1. CASE MakeLogDir BY <1>4, <2>1, MakeLogDirKeeps
  <2>2. CASE ReadManifest BY <1>4, <2>2, ReadManifestKeeps
  <2>3. CASE CreateSegment BY <1>4, <2>3, CreateSegmentKeeps
  <2>4. CASE SyncLogDir BY <1>4, <2>4, SyncLogDirKeeps
  <2>5. CASE RenameManifest BY <1>4, <2>5, RenameManifestKeeps
  <2>6. CASE Recover BY <1>4, <2>6, RecoverKeeps
  <2>7. CASE SyncDir BY <1>4, <2>7, SyncDirKeeps
  <2> QED BY <1>4, <2>1, <2>2, <2>3, <2>4, <2>5, <2>6, <2>7 DEF OpenStep
<1>5. CASE OpenRefused BY <1>5, RefuseKeeps
<1>6. CASE UserStep BY <1>6, UserStepKeeps
<1>7. CASE MKill BY <1>7, KillKeeps
<1>8. CASE MPowerLoss BY <1>8, PowerLossKeeps
<1>9. CASE MRemoveStaleLock BY <1>9, StaleLockKeeps
<1>10. CASE UNCHANGED mvars
  BY <1>10 DEF mvars, vars, disk, entries, history, migration, MInv, Types, AtPhase, AtStep, AckedDurable,
               Durable, Quiet, Whole, Seen
<1> QED
  BY <1>1, <1>2, <1>3, <1>4, <1>5, <1>6, <1>7, <1>8, <1>9, <1>10 DEF MNext

\* The exception is never undone.
LEMMA RevertedStays ==
  ASSUME [MNext]_mvars, reverted
  PROVE  reverted'
<1> USE DEF mvars, vars, disk, history
<1>1. CASE Begin BY <1>1 DEF Begin
<1>2. CASE Import
  BY <1>2 DEF Import, RenameMarker, SyncMarker, ImportAcquire, Acquire, Locked, ImportEvent,
              AppendEvent, ImportCommit, RenameComplete, SyncComplete, RemoveMarker, SyncRemoval
<1>3. CASE UserAcquire BY <1>3 DEF UserAcquire, Acquire
<1>4. CASE OpenStep
  BY <1>4 DEF OpenStep, MakeLogDir, ReadManifest, CreateSegment, SyncLogDir, RenameManifest,
              Recover, SyncDir
<1>5. CASE OpenRefused BY <1>5 DEF OpenRefused, Refuse
<1>6. CASE UserStep BY <1>6 DEF UserStep, AppendEvent, Commit, Close
<1>7. CASE MKill BY <1>7 DEF MKill
<1>8. CASE MPowerLoss BY <1>8 DEF MPowerLoss, PowerLoss
<1>9. CASE MRemoveStaleLock BY <1>9 DEF MRemoveStaleLock, RemoveStaleLock
<1>10. CASE UNCHANGED mvars BY <1>10
<1> QED
  BY <1>1, <1>2, <1>3, <1>4, <1>5, <1>6, <1>7, <1>8, <1>9, <1>10 DEF MNext

\* MInv holds in every state before the exception.
LEMMA Inductive == MSpec => []Sound
<1>1. MInit => Sound BY InitInv DEF Sound
<1>2. Sound /\ [MNext]_mvars => Sound'
  BY NextInv, RevertedStays DEF Sound
<1> QED BY <1>1, <1>2, PTL DEF MSpec

\* A destination that says it is complete, and one that an import has begun
\* and a user may open, hold the whole source durably, for any source and any
\* number of interruptions, until a power loss takes an entry that no open
\* synced after an interrupted one (migration.rs, migrate_v1 and completed_report;
\* log/mod.rs, Log::open's refusal of a marked directory).
THEOREM ImportsAreWhole == MSpec => []ImportIsWhole
<1>1. Sound => ImportIsWhole BY DEF Sound, MInv, AtStep, Whole, ImportIsWhole, Running, Seen
<1> QED BY <1>1, Inductive, PTL

\* What commit() acknowledged is still there, whether an import or a user
\* committed it and whatever interrupted the open that made the directory, with
\* the same exception (log/mod.rs, open_internal and bootstrap_manifest).
THEOREM AcknowledgedKept == MSpec => []AckedKept
<1>1. Sound => AckedKept BY DEF Sound, MInv, AckedDurable, Types, AckedKept
<1> QED BY <1>1, Inductive, PTL

----------------------------------------------------------------------------
(* The rewriting of fork markers *)

\* How many steps a lineage has.
Depth == Cardinality(Children)

LEMMA DepthIs == Depth \in Nat /\ Depths = 0 .. Depth
BY LegacyAssumption, FS_CardinalityType DEF Depth, Depths

\* What holds of 0 and passes from each number below n to the next holds up
\* to n.
LEMMA Climb ==
  ASSUME NEW n \in Nat, NEW S, 0 \in S, \A k \in 0 .. n : k < n /\ k \in S => k + 1 \in S
  PROVE  \A k \in 0 .. n : k \in S
<1> DEFINE missing == (0 .. n) \ S
<1> SUFFICES ASSUME missing # {} PROVE FALSE
  OBVIOUS
<1>1. PICK k \in missing : \A j \in missing : ~(<<j, k>> \in OpToRel(<, Nat))
  <2>1. missing \in SUBSET Nat
    OBVIOUS
  <2> QED
    BY <2>1, NatLessThanWellFounded, WFMin
<1>2. k \in 1 .. n /\ k \in Nat
  <2>1. k \in 0 .. n /\ k # 0
    BY <1>1
  <2> QED
    BY <2>1
<1>3. k - 1 \in 0 .. n /\ k - 1 < n /\ (k - 1) + 1 = k /\ k - 1 < k /\ k - 1 \in Nat
  BY <1>2
<1>4. k - 1 \in S
  <2>1. ~(<<k - 1, k>> \in OpToRel(<, Nat)) => FALSE
    BY <1>2, <1>3 DEF OpToRel
  <2> QED
    BY <1>1, <1>3, <2>1
<1> QED
  BY <1>1, <1>3, <1>4

\* The step of a lineage, and a lineage of n steps.
Up(src, s, k, g) ==
    IF k = 0 THEN s
    ELSE IF g[k - 1] \in Forked(src) THEN src.forks[g[k - 1]].parent
    ELSE g[k - 1]

IsLineage(g, src, s, n) == g = [k \in 0 .. n |-> Up(src, s, k, g)]

LEMMA LineageExists ==
  ASSUME NEW src, NEW s, NEW n \in Nat
  PROVE  \E g : IsLineage(g, src, s, n)
<1> DEFINE S == {k \in 0 .. n : \E g : IsLineage(g, src, s, k)}
<1>1. 0 \in S
  <2> DEFINE g == [k \in 0 .. 0 |-> s]
  <2>1. \A k \in 0 .. 0 : Up(src, s, k, g) = s
    BY DEF Up
  <2>2. IsLineage(g, src, s, 0)
    BY <2>1 DEF IsLineage
  <2> QED
    BY <2>2
<1>2. ASSUME NEW k \in 0 .. n, k < n, k \in S PROVE k + 1 \in S
  <2>1. PICK g : IsLineage(g, src, s, k)
    BY <1>2
  <2> DEFINE last == IF g[k] \in Forked(src) THEN src.forks[g[k]].parent ELSE g[k]
             h == [j \in 0 .. k + 1 |-> IF j = k + 1 THEN last ELSE g[j]]
  <2>2. ASSUME NEW j \in 0 .. k + 1 PROVE h[j] = Up(src, s, j, h)
    <3>1. CASE j = k + 1
      <4>1. h[j] = last
        BY <3>1
      <4>2. j # 0 /\ j - 1 = k /\ k \in 0 .. k + 1 /\ k # k + 1
        BY <3>1
      <4>3. h[j - 1] = g[k]
        BY <4>2
      <4> HIDE DEF h
      <4> QED
        BY <3>1, <4>1, <4>2, <4>3 DEF Up
    <3>2. CASE j # k + 1
      <4>1. j \in 0 .. k /\ h[j] = g[j]
        BY <3>2
      <4>2. g[j] = Up(src, s, j, g)
        BY <2>1, <4>1 DEF IsLineage
      <4>3. j # 0 => j - 1 \in 0 .. k + 1 /\ j - 1 # k + 1 /\ h[j - 1] = g[j - 1]
        BY <4>1
      <4> HIDE DEF h
      <4> QED
        BY <4>1, <4>2, <4>3 DEF Up
    <3> QED
      BY <3>1, <3>2
  <2>3. h = [j \in 0 .. k + 1 |-> h[j]]
    OBVIOUS
  <2> HIDE DEF h
  <2>4. IsLineage(h, src, s, k + 1)
    BY <2>2, <2>3 DEF IsLineage
  <2>5. k + 1 \in 0 .. n
    BY <1>2
  <2> QED
    BY <2>4, <2>5
<1> HIDE DEF S
<1>3. \A k \in 0 .. n : k \in S
  BY <1>1, <1>2, Climb
<1> QED
  BY <1>3 DEF S

\* Lineage, step by step.
LEMMA LineageSteps ==
  ASSUME NEW src \in Sources, NEW s \in Streams
  PROVE  /\ Lineage(src, s)[0] = s
         /\ \A k \in 0 .. Depth : Lineage(src, s)[k] \in Streams
         /\ \A k \in 0 .. Depth : k < Depth =>
               Lineage(src, s)[k + 1] =
                   IF Lineage(src, s)[k] \in Forked(src)
                   THEN src.forks[Lineage(src, s)[k]].parent ELSE Lineage(src, s)[k]
<1> DEFINE g == CHOOSE f : IsLineage(f, src, s, Depth)
<1>1. IsLineage(g, src, s, Depth)
  BY DepthIs, LineageExists
<1>2. Lineage(src, s) = g
  BY DEF Lineage, IsLineage, Up, Depth
<1> HIDE DEF g
<1>3. g[0] = s
  BY <1>1, DepthIs DEF IsLineage, Up
<1>4. ASSUME NEW k \in 0 .. Depth, k < Depth
      PROVE  g[k + 1] = IF g[k] \in Forked(src) THEN src.forks[g[k]].parent ELSE g[k]
  <2>1. k + 1 \in 0 .. Depth /\ k + 1 # 0 /\ (k + 1) - 1 = k
    BY <1>4, DepthIs
  <2> QED
    BY <1>1, <2>1 DEF IsLineage, Up
<1> DEFINE S == {k \in 0 .. Depth : g[k] \in Streams}
<1>5. 0 \in S
  BY <1>3, DepthIs
<1>6. ASSUME NEW k \in 0 .. Depth, k < Depth, k \in S PROVE k + 1 \in S
  <2>1. g[k] \in Forked(src) => src.forks[g[k]].parent \in Streams
    BY DEF Sources, Forked
  <2>2. g[k + 1] \in Streams
    BY <1>4, <1>6, <2>1
  <2> QED
    BY <1>6, <2>2, DepthIs
<1> HIDE DEF S
<1>7. \A k \in 0 .. Depth : k \in S
  BY <1>5, <1>6, Climb, DepthIs
<1> QED
  BY <1>2, <1>3, <1>4, <1>7 DEF S

\* A lineage stays where it is not forked.
LEMMA Settles ==
  ASSUME NEW src \in Sources, NEW s \in Streams, NEW k \in 0 .. Depth,
         Lineage(src, s)[k] \notin Forked(src)
  PROVE  \A j \in k .. Depth : Lineage(src, s)[j] = Lineage(src, s)[k]
<1> DEFINE L == Lineage(src, s)
           S == {j \in 0 .. Depth : j >= k => L[j] = L[k]}
<1>1. 0 \in S
  BY DepthIs
<1>2. ASSUME NEW j \in 0 .. Depth, j < Depth, j \in S PROVE j + 1 \in S
  <2>1. CASE j + 1 <= k
    BY <1>2, <2>1, DepthIs
  <2>2. CASE j >= k
    <3>1. L[j] = L[k]
      BY <1>2, <2>2
    <3>2. L[j + 1] = L[j]
      BY <1>2, <3>1, LineageSteps
    <3> HIDE DEF L
    <3> QED
      BY <1>2, <3>1, <3>2, DepthIs
  <2> QED
    BY <2>1, <2>2, DepthIs
<1> HIDE DEF S
<1>3. \A j \in 0 .. Depth : j \in S
  BY <1>1, <1>2, Climb, DepthIs
<1>4. ASSUME NEW j \in k .. Depth PROVE L[j] = L[k]
  <2>1. j \in 0 .. Depth /\ j >= k
    BY <1>4, DepthIs
  <2>2. j \in S
    BY <1>3, <2>1
  <2> QED
    BY <2>1, <2>2 DEF S
<1> QED
  BY <1>4

\* The marker of a child is its first record.
LEMMA MarkerIs ==
  ASSUME NEW src \in Sources, NEW c \in Forked(src)
  PROVE  /\ MarkerOf(src, c) \in 1 .. Length
         /\ src.stream[MarkerOf(src, c)] = c
<1> DEFINE S == {i \in 1 .. Length : src.stream[i] = c}
<1>1. S \in SUBSET Nat /\ S # {}
  BY LegacyAssumption DEF Forked
<1>2. PICK x \in S : \A y \in S : ~(<<y, x>> \in OpToRel(<, Nat))
  BY <1>1, NatLessThanWellFounded, WFMin
<1>3. ASSUME NEW y \in S PROVE x <= y
  <2>1. ~(<<y, x>> \in OpToRel(<, Nat))
    BY <1>2
  <2>2. ~(y < x)
    BY <1>1, <2>1, SMT DEF OpToRel
  <2> QED
    BY <1>1, <2>2
<1>4. Min(S) \in S
  BY <1>3, Zenon DEF Min
<1>5. MarkerOf(src, c) = Min(S)
  BY DEF MarkerOf
<1> HIDE DEF S
<1> QED
  BY <1>4, <1>5 DEF S

\* The root of a family has no parent: markers are earlier and earlier on the
\* way up, and there are no more of them than streams.
LEMMA Ends ==
  ASSUME NEW src \in Sources, ValidSource(src), NEW s \in Streams
  PROVE  Canonical(src, s) \notin Forked(src)
<1> DEFINE L == Lineage(src, s)
           at(k) == MarkerOf(src, L[k])
<1>1. Canonical(src, s) = L[Depth]
  BY DEF Canonical, Depth
<1>2. SUFFICES ASSUME L[Depth] \in Forked(src) PROVE FALSE
  BY <1>1
<1>3. ASSUME NEW k \in 0 .. Depth PROVE L[k] \in Forked(src)
  <2>1. Depth \in k .. Depth
    BY DepthIs
  <2> HIDE DEF L
  <2>2. L[k] \notin Forked(src) => L[Depth] = L[k]
    BY <2>1, Settles DEF L
  <2> QED
    BY <1>2, <2>2
<1>4. ASSUME NEW k \in 0 .. Depth, k < Depth PROVE k + 1 \in 0 .. Depth /\ at(k + 1) < at(k)
  <2>1. k + 1 \in 0 .. Depth
    BY <1>4, DepthIs
  <2>2. L[k] \in Forked(src) /\ L[k + 1] \in Forked(src)
    BY <1>3, <2>1
  <2>3. L[k + 1] = src.forks[L[k]].parent
    BY <1>4, <2>2, LineageSteps
  <2> HIDE DEF L
  <2> QED
    BY <2>1, <2>2, <2>3 DEF ValidSource
<1>5. ASSUME NEW k \in 0 .. Depth PROVE at(k) \in Nat
  <2> HIDE DEF L
  <2> QED
    BY <1>3, MarkerIs, LegacyAssumption
<1> HIDE DEF at
<1>6. ASSUME NEW j \in 0 .. Depth PROVE \A k \in 0 .. Depth : j < k => at(k) < at(j)
  <2> DEFINE S == {k \in 0 .. Depth : j < k => at(k) < at(j)}
  <2>1. 0 \in S
    BY DepthIs
  <2>2. ASSUME NEW k \in 0 .. Depth, k < Depth, k \in S PROVE k + 1 \in S
    <3>1. k + 1 \in 0 .. Depth /\ at(k + 1) < at(k) /\ at(k) \in Nat /\ at(k + 1) \in Nat /\ at(j) \in Nat
      BY <1>4, <1>5, <2>2
    <3>2. CASE j = k
      BY <3>1, <3>2
    <3>3. CASE j < k
      BY <2>2, <3>1, <3>3
    <3>4. CASE k < j
      BY <3>1, <3>4
    <3> QED
      BY <3>2, <3>3, <3>4
  <2> HIDE DEF S
  <2>3. \A k \in 0 .. Depth : k \in S
    BY <2>1, <2>2, Climb, DepthIs
  <2> QED
    BY <2>3 DEF S
<1> DEFINE f == [k \in 0 .. Depth |-> L[k]]
<1>7. f \in [0 .. Depth -> Children]
  <2> HIDE DEF L
  <2> QED
    BY <1>3 DEF Forked
<1>8. PICK j, k \in 0 .. Depth : j # k /\ f[j] = f[k]
  <2>1. IsFiniteSet(0 .. Depth) /\ Cardinality(0 .. Depth) = Depth + 1
    BY DepthIs, FS_Interval
  <2>2. IsFiniteSet(Children) /\ Cardinality(Children) < Cardinality(0 .. Depth)
    BY <2>1, DepthIs, LegacyAssumption DEF Depth
  <2> HIDE DEF f
  <2> QED
    BY <1>7, <2>1, <2>2, FS_PigeonHole
<1>9. at(j) = at(k)
  <2>1. L[j] = L[k]
    BY <1>8
  <2> HIDE DEF L
  <2> QED
    BY <2>1 DEF at
<1>10. at(j) \in Nat /\ at(k) \in Nat
  BY <1>5
<1>11. j < k \/ k < j
  BY <1>8, DepthIs
<1> QED
  BY <1>6, <1>9, <1>10, <1>11

\* An ancestor is of the same family.
LEMMA SameRoot ==
  ASSUME NEW src \in Sources, ValidSource(src), NEW s \in Streams, NEW k \in 0 .. Depth,
         NEW t, t = Lineage(src, s)[k]
  PROVE  Canonical(src, t) = Canonical(src, s)
<1> DEFINE L == Lineage(src, s)
           M == Lineage(src, t)
           S == {j \in 0 .. Depth : k + j <= Depth => M[j] = L[k + j]}
<1>1. t \in Streams
  BY LineageSteps
<1>2. 0 \in S
  <2>1. M[0] = t /\ k + 0 = k
    BY <1>1, LineageSteps, DepthIs
  <2> HIDE DEF M
  <2> QED
    BY <2>1, DepthIs
<1>3. ASSUME NEW j \in 0 .. Depth, j < Depth, j \in S PROVE j + 1 \in S
  <2>1. j + 1 \in 0 .. Depth
    BY <1>3, DepthIs
  <2>2. ASSUME k + (j + 1) <= Depth PROVE M[j + 1] = L[k + (j + 1)]
    <3>1. k + j \in 0 .. Depth /\ k + j < Depth /\ (k + j) + 1 = k + (j + 1)
      BY <2>2, DepthIs
    <3>2. M[j] = L[k + j]
      BY <1>3, <3>1
    <3>3. L[(k + j) + 1] = IF L[k + j] \in Forked(src) THEN src.forks[L[k + j]].parent ELSE L[k + j]
      BY <3>1, LineageSteps
    <3>4. M[j + 1] = IF M[j] \in Forked(src) THEN src.forks[M[j]].parent ELSE M[j]
      BY <1>1, <1>3, LineageSteps
    <3> HIDE DEF L, M
    <3> QED
      BY <3>1, <3>2, <3>3, <3>4
  <2> QED
    BY <2>1, <2>2
<1> HIDE DEF S
<1>4. \A j \in 0 .. Depth : j \in S
  BY <1>2, <1>3, Climb, DepthIs
<1>5. Depth - k \in 0 .. Depth /\ k + (Depth - k) = Depth /\ Depth \in (Depth - k) .. Depth
  BY DepthIs
<1>6. M[Depth - k] = L[Depth]
  <2>1. Depth - k \in S
    BY <1>4, <1>5
  <2> QED
    BY <1>5, <2>1 DEF S
<1>7. L[Depth] = Canonical(src, s) /\ M[Depth] = Canonical(src, t)
  BY DEF Canonical, Depth
<1>8. L[Depth] \notin Forked(src)
  BY <1>7, Ends
<1>9. M[Depth] = M[Depth - k]
  BY <1>1, <1>5, <1>6, <1>8, Settles
<1> QED
  BY <1>6, <1>7, <1>9

\* The positions of the source that become positions of the destination.
Kept(src, p) == (1 .. p) \ Markers(src)

LEMMA PositionIs ==
  ASSUME NEW src \in Sources, NEW p \in 0 .. Length
  PROVE  /\ IsFiniteSet(Kept(src, p)) /\ Cardinality(Kept(src, p)) \in Nat
         /\ DestinationPosition(src, p) = Cardinality(Kept(src, p))
<1>1. p \in Nat /\ IsFiniteSet(1 .. p) /\ Cardinality(1 .. p) = p
  BY FS_Interval, LegacyAssumption
<1>2. {m \in Markers(src) : m - 1 < p} = (1 .. p) \cap Markers(src)
  <2>1. Markers(src) \subseteq 1 .. Length
    BY MarkerIs DEF Markers
  <2> QED
    BY <1>1, <2>1, LegacyAssumption
<1>3. /\ IsFiniteSet((1 .. p) \ Markers(src))
      /\ Cardinality((1 .. p) \ Markers(src)) = p - Cardinality((1 .. p) \cap Markers(src))
  BY <1>1, FS_Difference
<1>4. Cardinality(Kept(src, p)) \in Nat
  BY <1>3, FS_CardinalityType DEF Kept
<1> QED
  BY <1>2, <1>3, <1>4 DEF DestinationPosition, Kept

\* destination_position keeps the order: an event is below a fork in the
\* destination where it is in the source.
LEMMA PositionsKeepOrder ==
  ASSUME NEW src \in Sources, NEW i \in (1 .. Length) \ Markers(src), NEW at \in 0 .. Length
  PROVE  DestinationPosition(src, i - 1) < DestinationPosition(src, at) <=> i <= at
<1>1. i \in Nat /\ i - 1 \in 0 .. Length /\ at \in Nat
  BY LegacyAssumption
<1>2. /\ IsFiniteSet(Kept(src, i - 1)) /\ Cardinality(Kept(src, i - 1)) \in Nat
      /\ DestinationPosition(src, i - 1) = Cardinality(Kept(src, i - 1))
      /\ IsFiniteSet(Kept(src, at)) /\ Cardinality(Kept(src, at)) \in Nat
      /\ DestinationPosition(src, at) = Cardinality(Kept(src, at))
  BY <1>1, PositionIs
<1>3. ASSUME i <= at PROVE Cardinality(Kept(src, i - 1)) < Cardinality(Kept(src, at))
  <2>1. i \notin Kept(src, i - 1)
    BY <1>1 DEF Kept
  <2>2. Kept(src, i - 1) \cup {i} \in SUBSET Kept(src, at)
    BY <1>1, <1>3 DEF Kept
  <2>3. Cardinality(Kept(src, i - 1) \cup {i}) = Cardinality(Kept(src, i - 1)) + 1
    BY <1>2, <2>1, FS_AddElement
  <2>4. Cardinality(Kept(src, i - 1) \cup {i}) <= Cardinality(Kept(src, at))
    BY <1>2, <2>2, FS_Subset
  <2> QED
    BY <1>2, <2>3, <2>4
<1>4. ASSUME ~(i <= at) PROVE ~(Cardinality(Kept(src, i - 1)) < Cardinality(Kept(src, at)))
  <2>1. Kept(src, at) \in SUBSET Kept(src, i - 1)
    BY <1>1, <1>4 DEF Kept
  <2>2. Cardinality(Kept(src, at)) <= Cardinality(Kept(src, i - 1))
    BY <1>2, <2>1, FS_Subset
  <2> QED
    BY <1>2, <2>2
<1> QED
  BY <1>2, <1>3, <1>4

\* Record i is below every fork on the first k steps of a lineage, as the
\* source has it and as the destination has it.
Below(src, s, k, i) ==
    \A j \in 0 .. k - 1 :
        Lineage(src, s)[j] \in Forked(src) => i <= src.forks[Lineage(src, s)[j]].at

BelowInDestination(src, s, k, i) ==
    \A j \in 0 .. k - 1 :
        Lineage(src, s)[j] \in Forked(src) =>
            DestinationPosition(src, i - 1) < DestinationPosition(src, src.forks[Lineage(src, s)[j]].at)

LEMMA SameBelow ==
  ASSUME NEW src \in Sources, NEW s \in Streams, NEW i \in (1 .. Length) \ Markers(src), NEW k
  PROVE  Below(src, s, k, i) <=> BelowInDestination(src, s, k, i)
<1>1. ASSUME NEW j, Lineage(src, s)[j] \in Forked(src)
      PROVE  DestinationPosition(src, i - 1) < DestinationPosition(src, src.forks[Lineage(src, s)[j]].at)
             <=> i <= src.forks[Lineage(src, s)[j]].at
  <2>1. src.forks[Lineage(src, s)[j]].at \in 0 .. Length
    BY <1>1 DEF Sources, Forked
  <2> QED
    BY <2>1, PositionsKeepOrder
<1> QED
  BY <1>1 DEF Below, BelowInDestination

\* A record is of a stream, or of its branch and its family, alike.
LEMMA SamePlace ==
  ASSUME NEW src \in Sources, ValidSource(src), NEW s \in Streams, NEW i \in 1 .. Length,
         NEW k \in 0 .. Depth
  PROVE  src.stream[i] = Lineage(src, s)[k]
         <=> /\ Canonical(src, src.stream[i]) = Canonical(src, s)
             /\ BranchOf(src, src.stream[i]) = BranchOf(src, Lineage(src, s)[k])
<1> DEFINE t == src.stream[i]
           up == Lineage(src, s)[k]
<1>1. t \in Streams /\ up \in Streams /\ Root \notin Forked(src) /\ (t \in Forked(src) \/ t = Root)
  BY LineageSteps, LegacyAssumption DEF Sources, Streams, Forked
<1>2. ASSUME t = up PROVE Canonical(src, t) = Canonical(src, s)
  BY <1>2, SameRoot
<1>3. ASSUME Canonical(src, t) = Canonical(src, s), BranchOf(src, t) = BranchOf(src, up)
      PROVE  t = up
  <2>1. CASE t \in Forked(src)
    BY <1>1, <1>3, <2>1 DEF BranchOf
  <2>2. CASE t \notin Forked(src)
    <3>1. t = Root /\ up \notin Forked(src)
      BY <1>1, <1>3, <2>2 DEF BranchOf
    <3>2. Canonical(src, s) = up
      <4>1. Depth \in k .. Depth
        BY DepthIs
      <4> QED
        BY <3>1, <4>1, Settles DEF Canonical, Depth
    <3>3. Canonical(src, t) = t
      <4>1. Depth \in 0 .. Depth /\ 0 \in 0 .. Depth
        BY DepthIs
      <4>2. Lineage(src, t)[0] = t
        BY <1>1, LineageSteps
      <4> QED
        BY <1>1, <2>2, <4>1, <4>2, Settles DEF Canonical, Depth
    <3> QED
      BY <1>3, <3>2, <3>3
  <2> QED
    BY <2>1, <2>2
<1> QED
  BY <1>2, <1>3

\* Every branch of the destination has the history of the stream it comes
\* from, whatever the number of records and of children, however the forks
\* nest and wherever the markers lie (migration.rs, migrate_legacy_branches).
THEOREM ForksAreExact == \A src \in Sources : ForksExact(src)
<1>1. SUFFICES ASSUME NEW src \in Sources, ValidSource(src), NEW s \in Forked(src) \cup {Root}
               PROVE  BranchRead(src, s) = History(src, s)
  BY DEF ForksExact
<1>2. s \in Streams
  BY DEF Forked, Streams
<1>3. ASSUME NEW i \in (1 .. Length) \ Markers(src)
      PROVE  i \in BranchRead(src, s) <=> i \in History(src, s)
  <2>1. i \in History(src, s)
        <=> \E k \in 0 .. Depth : src.stream[i] = Lineage(src, s)[k] /\ Below(src, s, k, i)
    BY DepthIs DEF History, Below
  <2>2. i \in BranchRead(src, s)
        <=> /\ Canonical(src, src.stream[i]) = Canonical(src, s)
            /\ \E k \in 0 .. Depth :
                  /\ BranchOf(src, src.stream[i]) = BranchOf(src, Lineage(src, s)[k])
                  /\ BelowInDestination(src, s, k, i)
    BY DepthIs DEF BranchRead, BelowInDestination, EventAt
  <2>3. ASSUME NEW k \in 0 .. Depth
        PROVE  /\ Below(src, s, k, i) <=> BelowInDestination(src, s, k, i)
               /\ src.stream[i] = Lineage(src, s)[k]
                  <=> /\ Canonical(src, src.stream[i]) = Canonical(src, s)
                      /\ BranchOf(src, src.stream[i]) = BranchOf(src, Lineage(src, s)[k])
    <3>1. i \in 1 .. Length
      OBVIOUS
    <3>2. Below(src, s, k, i) <=> BelowInDestination(src, s, k, i)
      BY <1>2, SameBelow
    <3>3. src.stream[i] = Lineage(src, s)[k]
          <=> /\ Canonical(src, src.stream[i]) = Canonical(src, s)
              /\ BranchOf(src, src.stream[i]) = BranchOf(src, Lineage(src, s)[k])
      BY <1>1, <1>2, <3>1, SamePlace
    <3> QED
      BY <3>2, <3>3
  <2> QED
    BY <2>1, <2>2, <2>3
<1>4. BranchRead(src, s) \subseteq (1 .. Length) \ Markers(src)
  BY DEF BranchRead
<1>5. History(src, s) \subseteq (1 .. Length) \ Markers(src)
  BY DEF History
<1> QED
  BY <1>3, <1>4, <1>5

\* What migrate_legacy_branches reads is one source, and stays it.
LEMMA SourceStays == MCSpec => [](source \in {{}} \cup {{src} : src \in Sources})
<1> DEFINE J == source \in {{}} \cup {{src} : src \in Sources}
<1>1. MCInit => J
  BY DEF MCInit
<1>2. J /\ [MCNext]_mcvars => J'
  BY DEF MCNext, mcvars
<1> QED
  BY <1>1, <1>2, PTL DEF MCSpec

\* The same as the runs have it: the command that runs rewrites its source
\* exactly (migration.rs, migrate_legacy_branches).
THEOREM LegacyForksAreExact == MCSpec => []LegacyForksExact
<1>1. source \in {{}} \cup {{src} : src \in Sources} => LegacyForksExact
  BY ForksAreExact DEF LegacyForksExact
<1> QED
  BY <1>1, SourceStays, PTL
=============================================================================
