------------------------------ MODULE Migration ------------------------------
(***************************************************************************)
(* The offline import of a v0.1 log into a new directory (migration.rs,    *)
(* migrate_v1), over the first open of that directory (LogBootstrap).      *)
(*                                                                         *)
(* migration.in-progress.json is written before anything else and keeps    *)
(* every other open out; migration.complete.json is written when the       *)
(* import is committed; then the first is removed.  The command may be     *)
(* interrupted anywhere and given again, and users may try to open the     *)
(* directory at any time.  Event n of the source has offset n - 1 and the  *)
(* id its offset gives; it goes to position n - 1, so what was imported is *)
(* a number.                                                               *)
(***************************************************************************)
EXTENDS LogBootstrap

CONSTANT Source    \* events of the source

ASSUME MigrationAssumption == Source \in 1 .. MaxEvents

VARIABLES
    marker,   \* migration.in-progress.json: an Entry, or "removed" and not yet synced
    done,     \* migration.complete.json: an Entry
    mstep,    \* the next step of migrate_v1, "idle" when it does not run
    started   \* history: an import has left a durable marker

migration == <<marker, done, mstep>>
mvars == <<vars, migration, started>>

Msteps == {"idle", "mark", "marked", "open", "import", "finish", "finished", "clear", "cleared"}

MInit ==
    /\ Init
    /\ marker = "absent"
    /\ done = "absent"
    /\ mstep = "idle"
    /\ started = FALSE

Seen(entry) == entry \in {"present", "safe"}

SettledMarker == IF marker = "removed" THEN "absent" ELSE Settled(marker)

Running == mstep # "idle"

----------------------------------------------------------------------------
(* migrate_v1 up to the open *)

\* Mutant: a destination that an import has begun is refused.
MayPrepareAbsent == ~Seen(marker) /\ id = 0

\* prepare_destination: a marker of this source is taken up again; a database
\* without one is refused.
MayPrepare == Seen(marker) \/ id = 0

\* completed_report: a command given again is answered by it, from an open that
\* is like any user's, and does nothing else.
CompletedReport == Seen(done)

\* Source and destination are read.
Begin ==
    /\ ~Running /\ phase = "down"
    /\ ~CompletedReport /\ MayPrepare
    /\ mstep' = IF Seen(marker) THEN "open" ELSE "mark"
    /\ UNCHANGED <<vars, marker, done, started>>

\* write_json_atomic, up to its rename and with its sync_dir.
RenameMarker ==
    /\ mstep = "mark"
    /\ marker' = "present"
    /\ mstep' = "marked"
    /\ UNCHANGED <<vars, done, started>>

SyncMarker ==
    /\ mstep = "marked"
    /\ SyncRoot
    /\ marker' = "safe"
    /\ mstep' = "open"
    /\ started' = TRUE
    /\ UNCHANGED <<done, lock, phase, history>>

----------------------------------------------------------------------------
(* Opens.  The lock decides between a user and the import. *)

\* Log::open refuses a directory with the marker.
UserAcquire ==
    /\ ~Running /\ ~Seen(marker)
    /\ Acquire
    /\ UNCHANGED <<migration, started>>

\* Log::open_for_migration.
ImportAcquire ==
    /\ mstep = "open"
    /\ Acquire
    /\ mstep' = "import"
    /\ UNCHANGED <<marker, done, started>>

\* A stale LOCK ends the command.
Locked ==
    /\ mstep = "open" /\ lock
    /\ mstep' = "idle"
    /\ UNCHANGED <<vars, marker, done, started>>

\* The steps of LogBootstrap's open, whoever it is for.
OpenStep ==
    /\ \/ MakeLogDir \/ ReadManifest \/ CreateSegment \/ SyncLogDir \/ RenameManifest \/ Recover
       \/ SyncDir
    /\ marker' = IF phase = "settle" THEN SettledMarker ELSE marker
    /\ done' = IF phase = "settle" THEN Settled(done) ELSE done
    /\ UNCHANGED <<mstep, started>>

OpenRefused ==
    /\ Refuse
    /\ mstep' = "idle"
    /\ UNCHANGED <<marker, done, started>>

----------------------------------------------------------------------------
(* Import and completion *)

\* verify_imported_prefix, of an import: what is there is a prefix of the source.
Verified == events <= Source

\* The events behind the head follow one by one.
ImportEvent ==
    /\ mstep = "import" /\ Verified /\ events # Source
    /\ AppendEvent
    /\ UNCHANGED <<migration, started>>

\* Mutant: the import is complete when everything is appended.
ImportCommitNot ==
    /\ mstep = "import" /\ phase = "open" /\ events = Source
    /\ phase' = "down"
    /\ lock' = FALSE
    /\ mstep' = "finish"
    /\ UNCHANGED <<disk, history, marker, done, started>>

\* commit, verify_imported_prefix and drop(log).  The head never exceeds the
\* source: only an import appends while the marker is there.
ImportCommit ==
    /\ mstep = "import" /\ phase = "open" /\ events = Source /\ Verified
    /\ synced' = events
    /\ acked' = events
    /\ phase' = "down"
    /\ lock' = FALSE
    /\ mstep' = "finish"
    /\ UNCHANGED <<ordered, entries, events, minted, served, crashes, reverted,
                   marker, done, started>>

RenameComplete ==
    /\ mstep = "finish"
    /\ done' = "present"
    /\ mstep' = "finished"
    /\ UNCHANGED <<vars, marker, started>>

SyncComplete ==
    /\ mstep = "finished"
    /\ SyncRoot
    /\ done' = Settled(done)
    /\ mstep' = "clear"
    /\ UNCHANGED <<marker, started, lock, phase, history>>

RemoveMarker ==
    /\ mstep = "clear"
    /\ marker' = "removed"
    /\ mstep' = "cleared"
    /\ UNCHANGED <<vars, done, started>>

SyncRemoval ==
    /\ mstep = "cleared"
    /\ SyncRoot
    /\ marker' = SettledMarker
    /\ mstep' = "idle"
    /\ UNCHANGED <<done, started, lock, phase, history>>

----------------------------------------------------------------------------
(* Users, kills and power losses *)

UserStep ==
    /\ ~Running
    /\ AppendEvent \/ Commit \/ Close
    /\ UNCHANGED <<migration, started>>

MKill ==
    /\ crashes < MaxCrashes
    /\ Running \/ phase # "down"
    /\ phase' = "down"
    /\ mstep' = "idle"
    /\ crashes' = crashes + 1
    /\ UNCHANGED <<disk, lock, minted, served, acked, reverted, marker, done, started>>

\* As for the entries of LogBootstrap; a removal that was not synced may not
\* have happened.
MPowerLoss ==
    /\ PowerLoss
    /\ marker' \in CASE marker = "present" -> {"safe", "absent"}
                     [] marker = "removed" -> {"safe", "absent"}
                     [] OTHER -> {marker}
    /\ done' \in {Settled(done)} \cup (IF done = "present" THEN {"absent"} ELSE {})
    /\ mstep' = "idle"
    /\ UNCHANGED started

MRemoveStaleLock ==
    /\ ~Running
    /\ RemoveStaleLock
    /\ UNCHANGED <<migration, started>>

Import ==
    \/ RenameMarker \/ SyncMarker
    \/ ImportAcquire \/ Locked \/ ImportEvent \/ ImportCommit
    \/ RenameComplete \/ SyncComplete \/ RemoveMarker \/ SyncRemoval

MNext ==
    \/ Begin \/ Import
    \/ UserAcquire \/ OpenStep \/ OpenRefused
    \/ UserStep \/ MKill \/ MPowerLoss \/ MRemoveStaleLock

\* A command that runs goes on, an operator removes a stale lock and gives an
\* interrupted command again, and whoever has the database open closes it.
Fairness ==
    /\ WF_mvars(Import)
    /\ WF_mvars(OpenStep \/ OpenRefused)
    /\ SF_mvars(MRemoveStaleLock)
    /\ WF_mvars(~Running /\ Close /\ UNCHANGED <<migration, started>>)
    /\ SF_mvars(started /\ Begin)

MSpec == MInit /\ [][MNext]_mvars /\ Fairness

----------------------------------------------------------------------------

\* The directory says it is complete, or lets a user in, only with the whole
\* source durably imported, whatever was interrupted (migration.rs:358-466,
\* log/mod.rs:93).
ImportIsWhole ==
    ~reverted =>
        /\ Seen(done) => synced >= Source
        /\ started /\ ~Running /\ ~Seen(marker) /\ id # 0 => synced >= Source

\* The import is over: it says it is complete and users may open the database.
Cleared == Seen(done) /\ ~Seen(marker)

\* The command was cut short before the removal of its first marker was durable
\* (migration.rs:456-458).  Its rerun and every open are refused from then on.
CutShort == Seen(done) /\ Seen(marker) /\ ~Running

\* An interrupted import, given again, comes to its end and stays there
\* (migration.rs:360: "resumable"), where the entries of a directory keep their
\* order: of all the places where the command can be cut, only the one between
\* its two markers leaves a directory that it cannot go on from.
ImportCompletes == (ordered /\ started) ~> [](Cleared \/ CutShort \/ reverted)

\* The command, given again, is answered, when it was interrupted before its
\* last step too: completed_report opens what it finds complete.
RerunIsAnswered == ~CutShort
=============================================================================
