---------------------------- MODULE LogBootstrap ----------------------------
(***************************************************************************)
(* The first open of a database directory (log/mod.rs, open_internal and   *)
(* bootstrap_manifest): log/ and segment 0 are created, then the manifest  *)
(* that names the segment and carries a fresh database id.  Any step may   *)
(* be the last before a kill or a power loss; a lone segment met without a *)
(* manifest is adopted.                                                    *)
(*                                                                         *)
(* An entry is `safe` when a sync_dir of its directory followed it, or an  *)
(* open found it and built on it; `relied` names those of the second kind, *)
(* which a power loss may still take.  Rolls and retention come            *)
(* later and are SegmentLog's, whose initial state is the state this       *)
(* module reaches after one complete open and a close.                     *)
(***************************************************************************)
EXTENDS Naturals, FiniteSets

CONSTANTS
    MaxEvents,   \* bound on the events appended
    MaxCrashes   \* bound on kills and power losses

ASSUME BootstrapAssumption ==
    /\ MaxEvents \in Nat
    /\ MaxCrashes \in Nat

VARIABLES
    ordered,   \* the file system writes the entries of one directory in the
               \* order they were made, as a metadata journal does
    logDir,    \* log/ : "absent", "present" or "safe"
    segment,   \* log/0.seg : the same
    events,    \* events in segment 0
    synced,    \* how many of them were fsynced
    id,        \* database_id in manifest.json, 0 when there is no manifest
    safeId,    \* what a power loss may restore id to
    relied,    \* entries that an open built on and nobody synced
    lock,
    phase,     \* the next step of open_internal; "open": a Log is in use
    minted,    \* ids generated so far
    served,    \* ids of Logs that a caller was given
    acked,     \* head returned by the last commit()
    crashes,
    reverted   \* history: a power loss took one of those

entries == <<logDir, segment, id, safeId, relied>>
disk    == <<ordered, entries, events, synced>>
history == <<minted, served, acked, crashes, reverted>>
vars    == <<disk, lock, phase, history>>

Relied == {"log", "segment", "manifest"}

Entry == {"absent", "present", "safe"}

Phases == {"down", "mkdir", "read", "create", "link", "rename", "settle", "recover", "open"}

TypeOK ==
    /\ ordered \in BOOLEAN
    /\ logDir \in Entry
    /\ segment \in Entry
    /\ segment # "absent" => logDir # "absent"
    /\ events \in 0 .. MaxEvents
    /\ synced \in 0 .. events
    /\ id \in 0 .. minted
    /\ safeId \in {0, id}
    /\ relied \subseteq Relied
    /\ lock \in BOOLEAN
    /\ phase \in Phases
    /\ minted \in 0 .. MaxCrashes + 1
    /\ served \subseteq 1 .. minted
    /\ acked \in 0 .. MaxEvents
    /\ crashes \in 0 .. MaxCrashes
    /\ reverted \in BOOLEAN

Init ==
    /\ ordered \in BOOLEAN
    /\ logDir = "absent"
    /\ segment = "absent"
    /\ events = 0
    /\ synced = 0
    /\ id = 0
    /\ safeId = 0
    /\ relied = {}
    /\ lock = FALSE
    /\ phase = "down"
    /\ minted = 0
    /\ served = {}
    /\ acked = 0
    /\ crashes = 0
    /\ reverted = FALSE

----------------------------------------------------------------------------
(* open_internal *)

Settled(entry) == IF entry = "present" THEN "safe" ELSE entry

\* What a process killed before its sync_dir left unsynced.
Unsynced ==
    {e \in Relied : \/ e = "log" /\ logDir = "present"
                    \/ e = "segment" /\ segment = "present"
                    \/ e = "manifest" /\ safeId # id}

\* DirLock::acquire.  What a killed process left is built on as it is.
Acquire ==
    /\ phase = "down"
    /\ ~lock
    /\ lock' = TRUE
    /\ logDir' = Settled(logDir)
    /\ segment' = Settled(segment)
    /\ safeId' = id
    /\ relied' = relied \cup Unsynced
    /\ phase' = "mkdir"
    /\ UNCHANGED <<ordered, id, events, synced, history>>

MakeLogDir ==
    /\ phase = "mkdir"
    /\ logDir' = IF logDir = "absent" THEN "present" ELSE logDir
    /\ phase' = "read"
    /\ UNCHANGED <<ordered, segment, id, safeId, relied, events, synced, lock, history>>

\* Manifest::read; without one, bootstrap_manifest creates segment 0 or adopts
\* the one it finds.
ReadManifest ==
    /\ phase = "read"
    /\ phase' = IF id # 0 THEN "recover"
                ELSE IF segment = "absent" THEN "create" ELSE "rename"
    /\ UNCHANGED <<disk, lock, history>>

CreateSegment ==
    /\ phase = "create"
    /\ segment' = "present"
    /\ phase' = "link"
    /\ UNCHANGED <<ordered, logDir, id, safeId, relied, events, synced, lock, history>>

\* Mutant: the directory of the new segment is not synced.
SkipLogDirSync ==
    /\ phase = "link"
    /\ phase' = "rename"
    /\ UNCHANGED <<disk, lock, history>>

\* sync_dir(segs_dir), reached only by the open that created the segment.
SyncLogDir ==
    /\ phase = "link"
    /\ segment' = "safe"
    /\ phase' = "rename"
    /\ UNCHANGED <<ordered, logDir, id, safeId, relied, events, synced, lock, history>>

\* Manifest::write, up to the rename.
RenameManifest ==
    /\ phase = "rename"
    /\ minted' = minted + 1
    /\ id' = minted + 1
    /\ phase' = "settle"
    /\ UNCHANGED <<ordered, logDir, segment, safeId, relied, events, synced, lock,
                   served, acked, crashes, reverted>>

\* sync_dir of the database directory covers the manifest and the entry of log/.
SyncRoot ==
    /\ safeId' = id
    /\ logDir' = Settled(logDir)
    /\ relied' = relied \ {"log", "manifest"}
    /\ UNCHANGED <<ordered, segment, id, events, synced>>

\* Manifest::write: sync_dir(dir).
SyncDir ==
    /\ phase = "settle"
    /\ SyncRoot
    /\ phase' = "recover"
    /\ UNCHANGED <<lock, history>>

\* The segment the manifest names is opened and the caller gets a Log.
Recover ==
    /\ phase = "recover"
    /\ segment # "absent"
    /\ phase' = "open"
    /\ served' = served \cup {id}
    /\ UNCHANGED <<disk, lock, minted, acked, crashes, reverted>>

\* "manifest points at missing active segment": an error, the lock is dropped.
Refuse ==
    /\ phase = "recover"
    /\ segment = "absent"
    /\ phase' = "down"
    /\ lock' = FALSE
    /\ UNCHANGED <<disk, history>>

----------------------------------------------------------------------------
(* Using the Log, and losing it *)

AppendEvent ==
    /\ phase = "open"
    /\ events < MaxEvents
    /\ events' = events + 1
    /\ UNCHANGED <<ordered, entries, synced, lock, phase, history>>

Commit ==
    /\ phase = "open"
    /\ synced' = events
    /\ acked' = events
    /\ UNCHANGED <<ordered, entries, events, lock, phase, minted, served, crashes, reverted>>

Close ==
    /\ phase = "open"
    /\ phase' = "down"
    /\ lock' = FALSE
    /\ UNCHANGED <<disk, history>>

Kill ==
    /\ phase # "down"
    /\ crashes < MaxCrashes
    /\ phase' = "down"
    /\ crashes' = crashes + 1
    /\ UNCHANGED <<disk, lock, minted, served, acked, reverted>>

\* What was not synced may be gone, log/ with everything in it; what is still
\* there is on the disk.
PowerLoss ==
    /\ crashes < MaxCrashes
    /\ id' \in {id, safeId} \cup (IF "manifest" \in relied THEN {0} ELSE {})
    /\ logDir' \in {Settled(logDir), "absent"}
    /\ logDir' = "absent" => /\ logDir # "safe" \/ "log" \in relied
                             /\ ordered => id' = 0
    /\ segment' \in {Settled(segment), "absent"}
    /\ segment' = "absent" => \/ segment # "safe" \/ "segment" \in relied
                              \/ logDir' = "absent"
    /\ logDir' = "absent" => segment' = "absent"
    /\ events' \in IF segment' = "absent" THEN {0} ELSE synced .. events
    /\ synced' = events'
    /\ safeId' = id'
    /\ relied' = {}
    /\ reverted' = (\/ reverted
                    \/ "log" \in relied /\ logDir' = "absent"
                    \/ "segment" \in relied /\ segment' = "absent"
                    \/ "manifest" \in relied /\ id' # id)
    /\ phase' = "down"
    /\ crashes' = crashes + 1
    /\ UNCHANGED <<ordered, lock, minted, served, acked>>

\* The operator deletes the LOCK file a dead process left.
RemoveStaleLock ==
    /\ phase = "down"
    /\ lock
    /\ lock' = FALSE
    /\ UNCHANGED <<disk, phase, history>>

Opening == \/ Acquire \/ MakeLogDir \/ ReadManifest
           \/ CreateSegment \/ SyncLogDir \/ RenameManifest \/ SyncDir
           \/ Recover \/ Refuse

Next == \/ Opening
        \/ AppendEvent \/ Commit \/ Close
        \/ Kill \/ PowerLoss \/ RemoveStaleLock

Spec == Init /\ [][Next]_vars

----------------------------------------------------------------------------

\* Events a commit acknowledged after the first open are there after any
\* crash: no interruption of the bootstrap leaves an entry that a later power
\* loss takes away under a committed log.  Excepted are the entries an
\* interrupted open did not come to sync and no later open syncs either.
AckedKept == ~reverted => acked <= events

\* An interrupted bootstrap never leaves a manifest without its segment, which
\* no open would accept, if directory entries keep their order.
ManifestHasSegment == ~reverted /\ ordered /\ id # 0 => segment # "absent"

\* The database keeps the id its first user saw.
IdentityStable == ~reverted => Cardinality(served) <= 1
=============================================================================
