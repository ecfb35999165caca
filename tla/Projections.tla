---------------------------- MODULE Projections ----------------------------
(***************************************************************************)
(* One named projection of the facade and its snapshots (facade.rs:        *)
(* register_query, heal_partitions, drive_projection, create_snapshot and  *)
(* their commands; snapshot.rs).                                           *)
(*                                                                         *)
(* A projection folds the log into rows, the last event of each key.  Its  *)
(* streams fall into partitions, each with a cursor of its own.  A         *)
(* partition is cold after open and heals when a query first touches it:   *)
(* from its newest snapshot, then from the log.  Snapshots are files that  *)
(* survive the process; the registration is a system frame of the log.     *)
(* All commands run on the sequencer, one after another.                   *)
(***************************************************************************)
EXTENDS Integers, SequencesExt

CONSTANTS
    Streams, Keys,
    Kinds,          \* what events can be: records with stream, key and good
    Descriptors,    \* what can be registered under the name
    MaxEvents,      \* bound: events in the log
    MaxSnapshots,   \* bound: snapshot files
    MaxCrashes      \* bound: kills and power losses

\* A descriptor maps streams to its partitions; a native one has its code from
\* the caller and selects the streams of its scope.
ASSUME ProjectionsAssumption ==
    /\ \A k \in Kinds : k.stream \in Streams /\ k.key \in Keys /\ k.good \in BOOLEAN
    /\ \A d \in Descriptors :
          /\ d.count \in Nat \ {0}
          /\ d.part \in [Streams -> 0 .. d.count - 1]
          /\ d.scope \subseteq Streams
          /\ d.native \in BOOLEAN /\ (~d.native => d.scope = Streams)
    /\ {MaxEvents, MaxSnapshots, MaxCrashes} \subseteq Nat

VARIABLES
    events,     \* the events of the log
    synced,     \* how many of them a power loss cannot take
    registered, \* the descriptor the system frames of the log hold, or none
    phase,      \* "down", "idle", or "publishing" or "retaining" in a snapshot command
    projection, \* QueryState: its descriptor, runtime, status and partitions
    rows,       \* the runtime's rows: for a key, the event it comes from
    snapshots,  \* the .snap files of each descriptor and partition, as created
    pending,    \* the files a command has still to publish
    lapses,     \* history: what happened that answers do not survive
    crashes

vars == <<events, synced, registered, phase, projection, rows, snapshots,
          pending, lapses, crashes>>
volatile == <<phase, projection, rows, pending>>
disk == <<events, synced, registered, snapshots>>

Head0 == Len(events)

NoProjection == [desc |-> <<>>, runtime |-> "missing", status |-> "None", cursor |-> 0, parts |-> <<>>]
Exists == projection.desc # <<>>
desc == projection.desc[1]

At(kind, cursor) == [kind |-> kind, cursor |-> cursor]
Partitions(d) == 0 .. d.count - 1

\* cold_partitions.
ColdPartitions(d) == [p \in Partitions(d) |-> At("Cold", 0)]

NoRows == [k \in {} |-> 0]
NoSnapshots == [d \in Descriptors |-> [p \in Partitions(d) |-> <<>>]]

\* A sequence without the elements at the indices I.
Without(seq, I) ==
    LET kept[n \in 0 .. Len(seq)] ==
            IF n = 0 THEN <<>>
            ELSE IF n \in I THEN kept[n - 1]
            ELSE Append(kept[n - 1], seq[n])
    IN kept[Len(seq)]

----------------------------------------------------------------------------
(* The runtime *)

\* projection_selects.
Selects(l, d, i) == l[i].stream \in d.scope

\* The events that apply refuses: a JSON record that is none, or any event
\* when the native code is missing.
Refused(l, runtime, I) == {i \in I : runtime = "missing" \/ ~l[i].good}

Read(l, runtime, I) == {i \in I : \A j \in Refused(l, runtime, I) : i < j}

\* apply, for the events I in order: the last one of a key makes its row.
Applied(l, r, I) ==
    [k \in DOMAIN r \cup {l[i].key : i \in I} |->
        LET mine == {i \in I : l[i].key = k} IN
        IF mine = {} THEN r[k] ELSE [at |-> Max(mine), stream |-> l[Max(mine)].stream]]

\* Mutant: a partition's checkpoint has the rows of all of them.
CheckpointAll(d, r, p) == r

\* checkpoint_partition keeps the rows whose last writer is in the partition.
CheckpointPartition(d, r, p) ==
    [k \in {k \in DOMAIN r : d.part[r[k].stream] = p} |-> r[k]]

----------------------------------------------------------------------------
(* Healing *)

\* A file of a series, by its place in it; list puts the one with the highest
\* cursor first, of equal ones the last created.
Newer(series, i, j) ==
    \/ series[i].cursor > series[j].cursor
    \/ series[i].cursor = series[j].cursor /\ i > j

\* validates: a file of this descriptor and partition, not beyond the head.
Fits(file) == file.cursor <= Head0

\* load_candidates: the newest of the files that fit.
Candidates(d, p) ==
    LET series == snapshots[d][p]
        fit == {i \in DOMAIN series : Fits(series[i])}
    IN {series[i] : i \in {i \in fit : \A j \in fit \ {i} : Newer(series, i, j)}}

\* restore_checkpoint replaces the rows, restore_partition adds to them.
RestoredRows(d, r, file) ==
    [k \in DOMAIN file.rows \cup IF d.count = 1 THEN {} ELSE DOMAIN r |->
        IF k \in DOMAIN file.rows THEN file.rows[k] ELSE r[k]]

\* restore_partition_snapshot, and the partition made ready at the file's
\* cursor, if there is a file; native code has none.
RestorePartition(q, p) ==
    LET found == IF projection.runtime = "json" THEN Candidates(desc, p) ELSE {}
        file == CHOOSE s \in found : TRUE
    IN IF found = {} THEN q
       ELSE [parts |-> [q.parts EXCEPT ![p] = At("Ready", file.cursor)],
             rows |-> RestoredRows(desc, q.rows, file)]

\* The events the partition's reader brings from `start` to `target`.
Selected(l, d, p, start, target) ==
    {i \in start + 1 .. target : d.part[l[i].stream] = p /\ Selects(l, d, i)}

\* Mutant: a failed partition goes on behind the events it was given.
AfterFailureAtTarget(start, target) == At("Failed", target)

\* A partition that fails keeps its cursor, though some events were applied.
AfterFailure(start, target) == At("Failed", start)

\* heal_partitions for one partition of q = [parts, rows]: snapshots serve a
\* cold one, unless the command gave no root; a failed one is left alone; one
\* that is ahead of the target is set back to it.
HealOne(l, q, p, target, root) ==
    LET restored == IF root /\ q.parts[p].kind = "Cold" THEN RestorePartition(q, p) ELSE q
        start == restored.parts[p].cursor
        batch == Selected(l, desc, p, start, target)
    IN IF q.parts[p].kind = "Failed" THEN q
       ELSE [parts |-> [restored.parts EXCEPT ![p] =
                           IF Refused(l, projection.runtime, batch) = {} THEN At("Ready", target)
                           ELSE AfterFailure(start, target)],
             rows |-> Applied(l, restored.rows, Read(l, projection.runtime, batch))]

\* heal_partitions: those of P in their order.
Heal(l, P, target, root) ==
    LET healed[n \in 0 .. desc.count] ==
            IF n = 0 THEN [parts |-> projection.parts, rows |-> rows]
            ELSE IF n - 1 \in P THEN HealOne(l, healed[n - 1], n - 1, target, root)
            ELSE healed[n - 1]
    IN healed[desc.count]

\* aggregate_partition_status.
Aggregate(parts) ==
    LET failed == {p \in DOMAIN parts : parts[p].kind = "Failed"} IN
    IF failed # {} THEN At("Failed", parts[Min(failed)].cursor)
    ELSE At(IF \A p \in DOMAIN parts : parts[p].kind = "Ready" THEN "Ready" ELSE "Building",
            Min({parts[p].cursor : p \in DOMAIN parts}))

Healed(parts) ==
    [projection EXCEPT !.parts = parts, !.status = Aggregate(parts).kind,
                       !.cursor = Aggregate(parts).cursor]

\* drive_projection after runtime.reset: the whole log, whatever the partition.
Driven ==
    LET all == {i \in 1 .. Head0 : Selects(events, desc, i)}
        refused == Refused(events, projection.runtime, all)
    IN [status |-> IF refused = {} THEN At("Ready", Head0) ELSE At("Failed", Min(refused) - 1),
        rows |-> Applied(events, NoRows, Read(events, projection.runtime, all)),
        partial |-> refused # {}]

----------------------------------------------------------------------------
Init ==
    /\ events = <<>>
    /\ synced = 0
    /\ registered = <<>>
    /\ phase = "down"
    /\ projection = NoProjection
    /\ rows = NoRows
    /\ snapshots = NoSnapshots
    /\ pending = <<>>
    /\ lapses = {}
    /\ crashes = 0

\* A new projection, as it is registered and as it is found at open.
Fresh(d, runtime, status) ==
    [desc |-> <<d>>, runtime |-> runtime, status |-> status, cursor |-> 0,
     parts |-> ColdPartitions(d)]

\* restore_projections: only registrations are read.
Open ==
    /\ phase = "down"
    /\ projection' =
          IF registered = <<>> THEN NoProjection
          ELSE LET d == registered[1] IN
               IF d.native THEN Fresh(d, "missing", "Stale") ELSE Fresh(d, "json", "Building")
    /\ phase' = "idle"
    /\ UNCHANGED <<disk, rows, pending, lapses, crashes>>

----------------------------------------------------------------------------
(* Snapshots *)

\* Mutant: a snapshot is marked with the head, where its rows should be.
SnapshotCursorHead(q, p) == Head0

\* create_snapshot: the cursor of the partition, of the whole if it is the only
\* one.
SnapshotCursor(q, p) == IF q.desc[1].count = 1 THEN q.cursor ELSE q.parts[p].cursor

Snapshot(q, r, p) ==
    [part |-> p, cursor |-> SnapshotCursor(q, p),
     rows |-> IF q.desc[1].count = 1 THEN r ELSE CheckpointPartition(q.desc[1], r, p)]

\* What create_snapshot publishes of a projection q with rows r, in order.
\* Native code has no checkpoint: the call fails.
ToPublish(q, r) ==
    IF q.desc = <<>> \/ q.runtime # "json" \/ q.status # "Ready" THEN <<>>
    ELSE [j \in 1 .. q.desc[1].count |-> Snapshot(q, r, j - 1)]

FileCount ==
    Cardinality(UNION {UNION {{<<d, p, i>> : i \in DOMAIN snapshots[d][p]} :
                                 p \in Partitions(d)} : d \in Descriptors})

\* The command goes on to publish, or has nothing to publish.
Publishing(files) ==
    /\ FileCount + Len(files) <= MaxSnapshots
    /\ pending' = files
    /\ phase' = IF files = <<>> THEN "idle" ELSE "publishing"

\* publish: until the rename there is only a temporary file, which no scan looks
\* at.  The file counts as durable from the rename on, the sync of its directory
\* (snapshot.rs:124-125) being part of the step: a power loss between the two,
\* which takes the new file again, is left out.
PublishFile ==
    /\ phase = "publishing"
    /\ snapshots' = [snapshots EXCEPT ![desc][pending[1].part] =
                        Append(@, [cursor |-> pending[1].cursor, rows |-> pending[1].rows])]
    /\ phase' = "retaining"
    /\ UNCHANGED <<events, synced, registered, projection, rows, pending, lapses, crashes>>

\* Mutant: it is the two oldest that stay.
SurplusNewest(series) ==
    {i \in DOMAIN series : Cardinality({j \in DOMAIN series : Newer(series, i, j)}) >= 2}

\* retain_two removes all but the two newest.
Surplus(series) ==
    {i \in DOMAIN series : Cardinality({j \in DOMAIN series : Newer(series, j, i)}) >= 2}

RetainTwo ==
    /\ phase = "retaining"
    /\ snapshots' = [snapshots EXCEPT ![desc][pending[1].part] = Without(@, Surplus(@))]
    /\ pending' = Tail(pending)
    /\ phase' = IF Len(pending) = 1 THEN "idle" ELSE "publishing"
    /\ UNCHANGED <<events, synced, registered, projection, rows, lapses, crashes>>

\* publish fails at some step; the command returns the error.
PublishFails ==
    /\ phase \in {"publishing", "retaining"}
    /\ pending' = <<>>
    /\ phase' = "idle"
    /\ UNCHANGED <<disk, projection, rows, lapses, crashes>>

\* CreateSnapshot heals everything first.
CreateSnapshot ==
    /\ phase = "idle"
    /\ Exists
    /\ LET q == Heal(events, Partitions(desc), Head0, TRUE) IN
       /\ projection' = Healed(q.parts)
       /\ rows' = q.rows
       /\ Publishing(ToPublish(Healed(q.parts), q.rows))
    /\ UNCHANGED <<disk, lapses, crashes>>

\* CreatePartitionSnapshot heals its partition.  Of a projection with only one,
\* which restores snapshots of the whole, it writes a file nobody reads.
CreatePartitionSnapshot(p) ==
    /\ phase = "idle"
    /\ Exists
    /\ p \in Partitions(desc) /\ desc.count > 1
    /\ LET q == Heal(events, {p}, Head0, TRUE) IN
       /\ projection' = Healed(q.parts)
       /\ rows' = q.rows
       /\ Publishing(IF q.parts[p].kind = "Ready" /\ projection.runtime = "json"
                     THEN <<Snapshot(Healed(q.parts), q.rows, p)>> ELSE <<>>)
    /\ UNCHANGED <<disk, lapses, crashes>>

\* DeleteSnapshot; a file that is damaged is also one no scan returns.
DeleteSnapshot(d, p, i) ==
    /\ phase = "idle"
    /\ i \in DOMAIN snapshots[d][p]
    /\ snapshots' = [snapshots EXCEPT ![d][p] = Without(@, {i})]
    /\ UNCHANGED <<events, synced, registered, volatile, lapses, crashes>>

DeleteAllDerived ==
    /\ phase = "idle"
    /\ snapshots' = NoSnapshots
    /\ UNCHANGED <<events, synced, registered, volatile, lapses, crashes>>

----------------------------------------------------------------------------
(* Writing and reading *)

Ready == {p \in DOMAIN projection.parts : projection.parts[p].kind = "Ready"}

\* drive_all, on the log l after an append: the ready partitions follow it.
DriveAll(l) ==
    IF Ready = {} THEN [parts |-> projection.parts, rows |-> rows]
    ELSE Heal(l, Ready, Len(l), FALSE)

\* The event is appended, the projection follows, and if a budget is due
\* (snapshot_ready) its snapshot is published.
Write(kind, durable, due) ==
    /\ phase = "idle"
    /\ Head0 < MaxEvents
    /\ events' = Append(events, kind)
    /\ synced' = IF durable THEN Head0 + 1 ELSE synced
    /\ LET q == DriveAll(Append(events, kind))
           after == IF Ready = {} THEN projection ELSE Healed(q.parts)
       IN /\ projection' = after
          /\ rows' = q.rows
          /\ Publishing(IF due THEN ToPublish(after, q.rows) ELSE <<>>)
    /\ UNCHANGED <<registered, snapshots, lapses, crashes>>

\* append refuses a JSON record that is none.  A synced append is Commit too.
AppendEvent(kind, due) == kind.good /\ Write(kind, FALSE, due)

\* ingest_batch takes the events of another database as they are.
IngestBatch(kind) == Write(kind, TRUE, FALSE)

Commit ==
    /\ phase = "idle"
    /\ synced' = Head0
    /\ UNCHANGED <<events, registered, volatile, snapshots, lapses, crashes>>

\* Query and QueryPartitions: the partitions they touch heal to the head, or to
\* the position a caller waits for.
Query(P, target) ==
    /\ phase = "idle"
    /\ Exists
    /\ P # {} /\ P \subseteq Partitions(desc)
    /\ target <= Head0
    /\ LET q == Heal(events, P, target, TRUE) IN
       /\ projection' = Healed(q.parts)
       /\ rows' = q.rows
    /\ UNCHANGED <<disk, phase, pending, lapses, crashes>>

----------------------------------------------------------------------------
(* Registering *)

\* The runtime starts over and reads the log; the partitions keep their
\* cursors.  If it stops half way, ready partitions have lost rows.
Reset ==
    /\ projection' = [projection EXCEPT !.status = Driven.status.kind, !.cursor = Driven.status.cursor]
    /\ rows' = Driven.rows
    /\ lapses' = lapses \cup
          IF Driven.partial /\ (\E p \in Ready : projection.parts[p].cursor > 0) THEN {"reset"} ELSE {}

\* append_projection_system commits, and with it all events before.
Record(d) ==
    /\ registered' = d
    /\ synced' = Head0
    /\ UNCHANGED <<events, phase, snapshots, pending, lapses, crashes>>

\* register_query with a definition the projection does not have.
RegisterQuery(d) ==
    /\ phase = "idle"
    /\ ~d.native
    /\ Exists => desc # d
    /\ Record(<<d>>)
    /\ projection' = Fresh(d, "json", "Building")
    /\ rows' = NoRows

\* register_query with the definition it has starts a failed one over.
RetryQuery ==
    /\ phase = "idle"
    /\ Exists /\ ~desc.native
    /\ projection.status = "Failed"
    /\ Reset
    /\ UNCHANGED <<disk, phase, pending, crashes>>

\* register_runtime always starts over.
RegisterRuntime(d) ==
    /\ phase = "idle"
    /\ d.native
    /\ Record(<<d>>)
    /\ projection' = Fresh(d, "native", "Building")
    /\ rows' = NoRows

\* remove_query.  Snapshots stay.
RemoveQuery ==
    /\ phase = "idle"
    /\ Exists
    /\ Record(<<>>)
    /\ projection' = NoProjection
    /\ rows' = NoRows

\* RebuildProjection.
RebuildProjection ==
    /\ phase = "idle"
    /\ Exists
    /\ snapshots' = [snapshots EXCEPT ![desc] = NoSnapshots[desc]]
    /\ Reset
    /\ UNCHANGED <<events, synced, registered, phase, pending, crashes>>

----------------------------------------------------------------------------
(* The process ends *)

End ==
    /\ phase # "down"
    /\ crashes < MaxCrashes
    /\ crashes' = crashes + 1
    /\ phase' = "down"
    /\ projection' = NoProjection
    /\ rows' = NoRows
    /\ pending' = <<>>

Kill == End /\ UNCHANGED <<disk, lapses>>

AllSnapshots == UNION {UNION {Range(snapshots[d][p]) : p \in Partitions(d)} : d \in Descriptors}

\* Does snapshot s come from an event behind position n?
Saw(s, n) == s.cursor > n \/ \E k \in DOMAIN s.rows : s.rows[k].at > n

\* A snapshot is taken at the head, synced or not, so it may come from events
\* that are lost.
PowerLoss ==
    /\ End
    /\ \E n \in synced .. Head0 :
          /\ events' = SubSeq(events, 1, n)
          /\ synced' = n
          /\ lapses' = lapses \cup IF \E s \in AllSnapshots : Saw(s, n) THEN {"outrun"} ELSE {}
    /\ UNCHANGED <<registered, snapshots>>

Next ==
    \/ Open
    \/ \E kind \in Kinds, due \in BOOLEAN : AppendEvent(kind, due)
    \/ \E kind \in Kinds : IngestBatch(kind)
    \/ Commit
    \/ Exists /\ \E P \in SUBSET Partitions(desc), target \in 0 .. MaxEvents : Query(P, target)
    \/ CreateSnapshot
    \/ Exists /\ \E p \in Partitions(desc) : CreatePartitionSnapshot(p)
    \/ PublishFile \/ RetainTwo \/ PublishFails
    \/ \E d \in Descriptors : \E p \in Partitions(d), i \in 1 .. MaxSnapshots : DeleteSnapshot(d, p, i)
    \/ DeleteAllDerived
    \/ \E d \in Descriptors : RegisterQuery(d) \/ RegisterRuntime(d)
    \/ RetryQuery \/ RemoveQuery \/ RebuildProjection
    \/ Kill \/ PowerLoss

Spec == Init /\ [][Next]_vars

----------------------------------------------------------------------------
TypeOK ==
    /\ synced \in 0 .. Head0 /\ Head0 <= MaxEvents
    /\ phase \in {"down", "idle", "publishing", "retaining"}
    /\ phase \in {"publishing", "retaining"} <=> pending # <<>>
    /\ Exists => /\ DOMAIN projection.parts = Partitions(desc)
                 /\ registered = projection.desc
                 /\ \A p \in Partitions(desc) : /\ projection.parts[p].kind \in {"Cold", "Ready", "Failed"}
                                                /\ projection.parts[p].cursor \in 0 .. Head0

\* What the rows r say of key k.
Row(r, k) == IF k \in DOMAIN r THEN r[k].at ELSE 0

\* The events of key k that d folds, up to a cursor c, and the last of them.
Folds(d, k, c) == {i \in 1 .. c : Selects(events, d, i) /\ events[i].good /\ events[i].key = k}
LastOf(d, k, c) == Max({0} \cup Folds(d, k, c))

\* The keys that only partition p writes.  A key that streams of several
\* partitions write has no partition: its row depends on who healed last.
OwnKeys(d, p) == {k \in Keys : \A i \in Folds(d, k, Head0) : d.part[events[i].stream] = p}

\* Rows r show partition p as of its cursor c, or as of a later one: a caller
\* that waited for an old position moves a cursor back, not the rows.
Shows(d, r, p, c) ==
    \A k \in OwnKeys(d, p) : Row(r, k) \in {LastOf(d, k, later) : later \in c .. Head0}

\* query_touched_partitions answers a caller who asks for the partitions P as
\* of `target`, the head or an earlier position.
Answered(P, target) ==
    \A p \in P : p \in Ready /\ projection.parts[p].cursor >= target

RowsAsAnswered ==
    Exists => \A p \in Partitions(desc), target \in 0 .. Head0 :
                  Answered({p}, target) => Shows(desc, rows, p, target)

\* An answered query shows the fold of the log up to where it was asked for,
\* however its partitions healed: cold or warm, alone or with others, from a
\* snapshot of their own, of an earlier process or registration, or from
\* nothing.  Two things break this: "outrun" and "reset".
RowsExact == lapses = {} => RowsAsAnswered

\* Every answer is right, always: what the README says of derived state.
RowsAlwaysExact == RowsAsAnswered

\* A snapshot that a later open may take has the rows of its partition as of
\* its cursor.
SnapshotsExact ==
    lapses = {} =>
        \A d \in Descriptors : \A p \in Partitions(d) :
            \A s \in Range(snapshots[d][p]) : Shows(d, s.rows, p, s.cursor)

\* A partition fails for its own events alone, and it never passes one it
\* could not read.
FailuresAreLocal ==
    lapses = {} /\ Exists =>
        \A p \in Partitions(desc) :
            LET part == projection.parts[p]
                refused(from, to) == Refused(events, projection.runtime, Selected(events, desc, p, from, to))
            IN /\ part.kind = "Failed" => refused(part.cursor, Head0) # {}
               /\ part.kind = "Ready" => refused(0, part.cursor) = {}

\* The cursor of the newest file of a series, or -1.
Best(series) == Max({-1} \cup {s.cursor : s \in Range(series)})

KeepsNewest ==
    \A d \in Descriptors : \A p \in Partitions(d) :
        Best(snapshots[d][p])' >= Best(snapshots[d][p])

\* Whatever step publication stops at, the newest generation on the disk is the
\* one there was or a newer one; only a caller deletes it.
GenerationsAdvance ==
    [][pending # <<>> => KeepsNewest]_vars
=============================================================================
