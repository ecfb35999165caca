------------------------------ MODULE Retention ------------------------------
(***************************************************************************)
(* Retention: the anchor that stands in for a log prefix, the plan that    *)
(* says whether the prefix may go, the manifest switch and the removal of  *)
(* segments (retention.rs; db.rs, open_internal and plan_retention to      *)
(* create_retention_anchor; log/mod.rs, activate_retention and             *)
(* reclaim_below_retention_floor; the retention commands of facade.rs).    *)
(*                                                                         *)
(* The log is its segments: the events of each by position, and the system *)
(* frames that carry branches, consumer checkpoints, query registrations   *)
(* and bootstraps.  A reclaimed segment takes its frames with it, so what  *)
(* they said must be in the anchor.  A power loss or a kill may fall       *)
(* between any two writes of the two maintenance commands.                 *)
(***************************************************************************)
EXTENDS Integers, SequencesExt

CONSTANTS
    Branches,    \* names of branches that may be forked off main
    Consumers,   \* ids of durable consumers
    Queries,     \* names of projections
    MaxEvents,   \* bound: events appended
    MaxRecords,  \* bound: system frames appended
    MaxApplied,  \* bound: plans applied
    MaxCrashes   \* bound: closes, kills and power losses

ASSUME RetentionAssumption == {MaxEvents, MaxRecords, MaxApplied, MaxCrashes} \subseteq Nat

VARIABLES
    head,        \* events appended
    synced,      \* how many of them a power loss cannot take
    bases,       \* base positions of all segments ever made
    files,       \* bases of the segments that exist
    removed,     \* bases removed in this session, oldest first
    records,     \* the system frames, as [seg, key, value]
    manifest,    \* [floor, gen, sum]: sum the content whose checksum it has, or none
    anchorFile,  \* content of retention/core.anchor, or none
    restorable,  \* what a power loss may put in place of them
    step,        \* the next write of a maintenance command, "idle", or "down"
    next,        \* the anchor or the manifest being written
    durable,     \* durable_head
    branches,    \* branch catalog: the fork position of each branch that exists
    meta,        \* checkpoints, registrations and bootstraps in memory
    anchor,      \* retention_anchor with its coverage and bootstraps, or none
    plan,        \* an issued plan without blockers, or none
    feeds,       \* the open feed of a consumer: its continuation
    lapses,      \* history: what happened that retention does not survive
    crashes

disk == <<head, synced, bases, files, removed, records, manifest, anchorFile, restorable>>
memory == <<durable, branches, meta, anchor, plan, feeds>>
vars == <<disk, step, next, memory, lapses, crashes>>

\* An optional value is a set of at most one element.
None == {}

BranchKeys == {<<"branch", b>> : b \in Branches}
BootKeys == {<<"boot", x>> : x \in Branches \cup Consumers}
MetaKeys == {<<"ack", c>> : c \in Consumers} \cup {<<"query", q>> : q \in Queries} \cup BootKeys

Value == {None} \cup {{p} : p \in 0 .. MaxEvents}

ForkOf(b) == branches[<<"branch", b>>]
Checkpoint(c) == meta[<<"ack", c>>]
Registered(q) == meta[<<"query", q>>]

----------------------------------------------------------------------------
(* The log *)

Active == Max(bases)

\* The closed segments of Log.
Closed == files \ {Active}

SegmentOf(p) == Max({b \in bases : b <= p})

\* The last of the frames about each key decides; without one, what `before` says.
Replayed(keys, before, frames) ==
    [k \in keys |->
        LET about == {i \in frames : records[i].key = k}
        IN IF about = {} THEN before[k] ELSE records[Max(about)].value]

Nothing(keys) == [k \in keys |-> None]

\* system_records reads every segment that exists.
SystemRecords == {i \in DOMAIN records : records[i].seg \in files}

\* BranchCatalog::rebuild, and whether it accepts what it reads.
RebuiltBranches == Replayed(BranchKeys, Nothing(BranchKeys), SystemRecords)
Rebuilds ==
    \A i, j \in SystemRecords :
        records[i].key = records[j].key /\ i # j => records[i].key \notin BranchKeys

\* retention_boundary: down to the base of a segment.
Boundary(requested) == Max({manifest.floor} \cup {b \in files : b <= requested})

----------------------------------------------------------------------------
(* Open *)

\* The anchor is of this floor and head and the one the manifest names, if any.
ExactAnchor ==
    {a \in anchorFile :
        a.floor = manifest.floor /\ a.head = head /\ (manifest.sum = None \/ manifest.sum = {a})}

\* has_complete_prefix.
CompletePrefix == 0 \in files

\* Whether open_internal returns a database.
Opens == ExactAnchor # None \/ (manifest.sum = None /\ CompletePrefix /\ Rebuilds)

LoadedBranches ==
    IF ExactAnchor # None THEN (CHOOSE a \in ExactAnchor : TRUE).branches ELSE RebuiltBranches

\* Mutant: the system frames of the log alone.
LoadedMetaOfLog == Replayed(MetaKeys, Nothing(MetaKeys), SystemRecords)

\* system_metadata: what the anchor captured, then the frames of the log.
LoadedMeta ==
    Replayed(MetaKeys,
             IF ExactAnchor # None THEN (CHOOSE a \in ExactAnchor : TRUE).meta ELSE Nothing(MetaKeys),
             SystemRecords)

----------------------------------------------------------------------------
(* Plans *)

AnchorReady(floor) == \E a \in anchor : a.floor = floor /\ a.head = durable

\* has_retention_branch_bootstrap and _consumer_bootstrap.
HasBootstrap(x, floor) == \E a \in anchor : a.boots[<<"boot", x>>] = {floor}

\* has_retention_projection_coverage; the snapshot files are in place.
HasCoverage(q) == \E a \in anchor : q \in a.coverage

Behind(c, floor) == \E p \in Checkpoint(c) : p < floor

\* The commands' blockers.
Blocked(floor) ==
    \/ ~AnchorReady(floor)
    \/ \E b \in Branches : (\E p \in ForkOf(b) : p < floor) /\ ~HasBootstrap(b, floor)
    \/ \E q \in Queries : Registered(q) # None /\ ~HasCoverage(q)
    \/ \E c \in Consumers : Behind(c, floor) /\ ~HasBootstrap(c, floor)
    \/ \E c \in Consumers : feeds[c] # None

PlanFor(requested) ==
    LET floor == Boundary(requested)
    IN [requested |-> requested, floor |-> floor, current |-> manifest.floor, head |-> durable,
        gen |-> manifest.gen, segments |-> {b \in Closed : b < floor}]

\* What may be asked to be kept; every policy selects a position of these.
Plannable == manifest.floor .. durable

TypeOK ==
    /\ head \in 0 .. MaxEvents
    /\ synced \in 0 .. head
    /\ bases \subseteq 0 .. head /\ files \subseteq bases /\ Active \in files
    /\ durable \in 0 .. head
    /\ manifest.floor \in bases
    /\ \A c \in anchorFile \cup anchor \cup manifest.sum : c.floor \in bases /\ c.head <= MaxEvents
    /\ branches \in [BranchKeys -> Value]
    /\ meta \in [MetaKeys -> Value]
    /\ feeds \in [Consumers -> Value]
    /\ \A c \in Consumers : \A p \in feeds[c] : p <= durable
    /\ step \in {"down", "idle", "rename", "settle", "switched", "reclaim"}
    /\ lapses \subseteq {"moved", "replaced", "forked", "reanchored", "left", "unsettled"}

NoFeeds == [c \in Consumers |-> None]

Init ==
    /\ head = 0 /\ synced = 0 /\ durable = 0
    /\ bases = {0} /\ files = {0} /\ removed = <<>>
    /\ records = <<>>
    /\ manifest = [floor |-> 0, gen |-> 0, sum |-> None]
    /\ anchorFile = None
    /\ restorable = [file |-> {}, manifest |-> {}]
    /\ step = "idle" /\ next = None
    /\ branches = Nothing(BranchKeys)
    /\ meta = Nothing(MetaKeys)
    /\ anchor = None /\ plan = None /\ feeds = NoFeeds
    /\ lapses = {} /\ crashes = 0

----------------------------------------------------------------------------
(* Appends.  A full segment is sealed, synced and followed by a new one; the *)
(* directory is synced and the manifest written again, as SegmentLog has it. *)

MayRoll(roll) == roll \in BOOLEAN /\ (roll => head > Active)

Rolled(roll) ==
    /\ bases' = IF roll THEN bases \cup {head} ELSE bases
    /\ files' = IF roll THEN files \cup {head} ELSE files
    /\ removed' = IF roll THEN <<>> ELSE removed
    /\ restorable' = IF roll THEN [restorable EXCEPT !.manifest = {}] ELSE restorable

AppendEvent(roll) ==
    /\ step = "idle" /\ head < MaxEvents
    /\ MayRoll(roll)
    /\ Rolled(roll)
    /\ head' = head + 1
    /\ synced' = IF roll THEN head ELSE synced
    /\ lapses' = IF manifest.sum # None THEN lapses \cup {"moved"} ELSE lapses
    /\ UNCHANGED <<records, manifest, anchorFile, step, next, memory, crashes>>

Commit ==
    /\ step = "idle" /\ durable < head
    /\ synced' = head
    /\ durable' = head
    /\ UNCHANGED <<head, bases, files, removed, records, manifest, anchorFile, restorable,
                   step, next, branches, meta, anchor, plan, feeds, lapses, crashes>>

\* append_system and the commit after it.
Record(roll, key, value) ==
    /\ step = "idle" /\ Len(records) < MaxRecords
    /\ MayRoll(roll)
    /\ Rolled(roll)
    /\ records' = Append(records, [seg |-> IF roll THEN head ELSE Active, key |-> key, value |-> value])
    /\ synced' = head
    /\ durable' = head
    /\ UNCHANGED <<head, manifest, anchorFile, step, next, anchor, plan, crashes>>

\* is_batch_boundary, where every event is a batch: it reads the event before.
BatchBoundary(at) == at \notin {0, head} => SegmentOf(at - 1) \in files

\* The anchor files there are or, after a power loss, may be again.
AnchorFiles == anchorFile \cup UNION restorable.file

ForkBranch(roll, b, at) ==
    /\ ForkOf(b) = None
    /\ at \in manifest.floor .. head /\ BatchBoundary(at)
    /\ Record(roll, <<"branch", b>>, {at})
    /\ branches' = [branches EXCEPT ![<<"branch", b>>] = {at}]
    /\ lapses' = IF AnchorFiles # {} THEN lapses \cup {"forked"} ELSE lapses
    /\ UNCHANGED <<meta, feeds>>

\* A checkpoint, a registration or a bootstrap, kept in a map of the facade.
Note(roll, key, value) ==
    /\ Record(roll, key, value)
    /\ meta' = [meta EXCEPT ![key] = value]
    /\ UNCHANGED <<branches, feeds, lapses>>

AcknowledgeFeed(roll, c) == feeds[c] # None /\ Note(roll, <<"ack", c>>, feeds[c])

ClearConsumerCheckpoint(roll, c) == Checkpoint(c) # None /\ Note(roll, <<"ack", c>>, None)

RegisterQuery(roll, q) == Registered(q) = None /\ Note(roll, <<"query", q>>, {0})

RemoveQuery(roll, q) == Registered(q) # None /\ Note(roll, <<"query", q>>, None)

RegisterBootstrap(roll, x, keepFrom) ==
    /\ x \in Branches => ForkOf(x) # None
    /\ keepFrom \in Plannable
    /\ Note(roll, <<"boot", x>>, {Boundary(keepFrom)})

----------------------------------------------------------------------------
(* Feeds *)

SetFeed(c, position) ==
    /\ step = "idle"
    /\ feeds' = [feeds EXCEPT ![c] = position]
    /\ UNCHANGED <<disk, step, next, durable, branches, meta, anchor, plan, lapses, crashes>>

\* feed_bootstrap_descriptor and its validation: a bootstrap of the consumer for
\* the floor as it is now.
HasDescriptor(c) == HasBootstrap(c, manifest.floor)

ResumeFeed(c) == feeds[c] = None /\ HasDescriptor(c) /\ SetFeed(c, {manifest.floor})

\* validate_feed: nothing below the floor, nothing beyond the durable head.
ValidFeed(from) == from \in manifest.floor .. durable

OpenFeed(c, from) == feeds[c] = None /\ ValidFeed(from) /\ SetFeed(c, {from})

NextFeedPage(c, to) ==
    /\ \E p \in feeds[c] : to \in p + 1 .. durable
    /\ SetFeed(c, {to})

CloseFeed(c) == feeds[c] # None /\ SetFeed(c, None)

----------------------------------------------------------------------------
(* CreateRetentionAnchor *)

BootsAt(floor) == [k \in BootKeys |-> IF meta[k] = {floor} THEN {floor} ELSE None]

\* create_projection_retention_coverage, which fails the command if it cannot.
Covered == {q \in Queries : Registered(q) # None}

NewAnchor(floor) ==
    [floor |-> floor, head |-> head, branches |-> RebuiltBranches,
     meta |-> Replayed(MetaKeys, Nothing(MetaKeys), SystemRecords),
     boots |-> BootsAt(floor), coverage |-> Covered]

\* publish leaves a file that differs in no more than the catalogs.
Same(a, b) ==
    a.floor = b.floor /\ a.head = b.head /\ a.boots = b.boots /\ a.coverage = b.coverage

\* Commit, rebuild, write a temporary file, verify it and remove the old one; a
\* crash earlier than that finds the disk as after a commit.
CreateAnchor(keepFrom) ==
    /\ step = "idle" /\ feeds = NoFeeds
    /\ keepFrom \in manifest.floor .. head /\ Rebuilds
    /\ synced' = head
    /\ durable' = head
    /\ LET new == NewAnchor(Boundary(keepFrom))
           same == \E a \in anchorFile : Same(a, new)
       IN /\ step' = IF same THEN "idle" ELSE "rename"
          /\ next' = IF same THEN None ELSE {new}
          /\ anchor' = IF same THEN anchorFile ELSE anchor
          /\ branches' = IF same THEN new.branches ELSE branches
          /\ anchorFile' = IF same THEN anchorFile ELSE None
          /\ restorable' = IF same THEN restorable
                           ELSE [restorable EXCEPT !.file = @ \cup {anchorFile}]
          /\ lapses' = lapses
                \cup (IF ~same /\ manifest.sum # None THEN {"replaced"} ELSE {})
                \cup (IF SystemRecords # DOMAIN records THEN {"reanchored"} ELSE {})
    /\ UNCHANGED <<head, bases, files, removed, records, manifest, meta, plan, feeds, crashes>>

RenameAnchor ==
    /\ step = "rename"
    /\ anchorFile' = next
    /\ restorable' = [restorable EXCEPT !.file = @ \cup {None}]
    /\ step' = "settle"
    /\ UNCHANGED <<head, synced, bases, files, removed, records, manifest, next, memory,
                   lapses, crashes>>

SettleAnchor ==
    /\ step = "settle"
    /\ restorable' = [restorable EXCEPT !.file = {}]
    /\ anchor' = next
    /\ branches' = (CHOOSE a \in next : TRUE).branches
    /\ step' = "idle"
    /\ next' = None
    /\ UNCHANGED <<head, synced, bases, files, removed, records, manifest, anchorFile,
                   durable, meta, plan, feeds, lapses, crashes>>

----------------------------------------------------------------------------
(* PlanRetention and ApplyRetention *)

\* PlanRetention with a position, or PlanRetentionPolicy with one its policy
\* selects.  A plan with blockers is issued too, and can only be refused.
PlanRetention(keepFrom) ==
    /\ step = "idle"
    /\ keepFrom \in Plannable /\ ~Blocked(Boundary(keepFrom))
    /\ plan' = {PlanFor(keepFrom)}
    /\ UNCHANGED <<disk, step, next, durable, branches, meta, anchor, feeds, lapses, crashes>>

\* Mutant: the plan is taken as it was issued, when the anchor still fits.
CurrentAsIssued(p) == AnchorReady(p.floor) /\ p.head = durable

\* Planning again gives the same plan, without a blocker.
Current(p) == PlanFor(p.requested) = p /\ ~Blocked(p.floor)

\* Check the plan, and rename the new manifest into place.
ApplyRetention ==
    /\ step = "idle" /\ manifest.gen < MaxApplied
    /\ \E p \in plan :
          /\ Current(p)
          /\ manifest' = [floor |-> p.floor, gen |-> manifest.gen + 1, sum |-> anchor]
    /\ restorable' = [restorable EXCEPT !.manifest = @ \cup {manifest}]
    /\ step' = "switched"
    /\ lapses' = lapses
          \cup (IF durable # head THEN {"moved"} ELSE {})
          \cup (IF restorable.file # {} THEN {"unsettled"} ELSE {})
    /\ UNCHANGED <<head, synced, bases, files, removed, records, anchorFile, next, memory, crashes>>

\* Mutant: the segment that holds the floor goes too.
DueWithFloor == {b \in Closed : b <= manifest.floor}

\* The closed segments below the floor.
Due == {b \in Closed : b < manifest.floor}

\* Mutant: segments go before the directory of the manifest is synced.
SettleManifestLate ==
    /\ step = "switched"
    /\ step' = "reclaim"
    /\ next' = Due
    /\ UNCHANGED <<disk, memory, lapses, crashes>>

\* sync_dir of the manifest's directory.
SettleManifest ==
    /\ step = "switched"
    /\ restorable' = [restorable EXCEPT !.manifest = {}]
    /\ step' = "reclaim"
    /\ next' = Due
    /\ lapses' = lapses \ IF durable # head THEN {"replaced"} ELSE {"moved", "replaced"}
    /\ UNCHANGED <<head, synced, bases, files, removed, records, manifest, anchorFile, memory,
                   crashes>>

\* remove_file of the oldest that is left; an error leaves the file.
ReclaimSegment(ok) ==
    /\ step = "reclaim" /\ next # {}
    /\ next' = next \ {Min(next)}
    /\ files' = IF ok THEN files \ {Min(next)} ELSE files
    /\ removed' = IF ok THEN Append(removed, Min(next)) ELSE removed
    /\ lapses' = IF ok THEN lapses ELSE lapses \cup {"left"}
    /\ UNCHANGED <<head, synced, bases, records, manifest, anchorFile, restorable, step,
                   memory, crashes>>

FinishApply ==
    /\ step = "reclaim" /\ next = {}
    /\ step' = "idle"
    /\ plan' = None
    /\ UNCHANGED <<disk, next, durable, branches, meta, anchor, feeds, lapses, crashes>>

----------------------------------------------------------------------------
(* Stop, power loss and open *)

Down ==
    /\ step # "down" /\ crashes < MaxCrashes
    /\ crashes' = crashes + 1
    /\ step' = "down"
    /\ next' = None /\ anchor' = None /\ plan' = None /\ feeds' = NoFeeds
    /\ UNCHANGED <<branches, meta, lapses>>

\* The process goes away: closed, or killed in a maintenance command.
Stop ==
    /\ Down
    /\ durable' = 0
    /\ UNCHANGED disk

\* The removals come back newest first, as a metadata journal has them.
PowerLoss ==
    /\ Down
    /\ durable' = 0
    /\ head' \in synced .. head
    /\ anchorFile' \in {anchorFile} \cup restorable.file
    /\ manifest' \in {manifest} \cup restorable.manifest
    /\ \E n \in 0 .. Len(removed) :
          files' = files \cup {removed[i] : i \in n + 1 .. Len(removed)}
    /\ removed' = <<>>
    /\ restorable' = [file |-> {}, manifest |-> {}]
    /\ UNCHANGED <<synced, bases, records>>

\* open_internal; a refused open changes nothing.
Open ==
    /\ step = "down" /\ Opens
    /\ step' = "idle"
    /\ durable' = head
    /\ branches' = LoadedBranches
    /\ meta' = LoadedMeta
    /\ anchor' = ExactAnchor
    /\ UNCHANGED <<disk, next, plan, feeds, lapses, crashes>>

Next ==
    \/ Commit
    \/ \E roll \in BOOLEAN :
          \/ AppendEvent(roll)
          \/ \E b \in Branches, at \in 0 .. MaxEvents : ForkBranch(roll, b, at)
          \/ \E c \in Consumers : AcknowledgeFeed(roll, c) \/ ClearConsumerCheckpoint(roll, c)
          \/ \E q \in Queries : RegisterQuery(roll, q) \/ RemoveQuery(roll, q)
          \/ \E x \in Branches \cup Consumers, at \in 0 .. MaxEvents : RegisterBootstrap(roll, x, at)
    \/ \E c \in Consumers :
          \/ \E p \in 0 .. MaxEvents : OpenFeed(c, p) \/ NextFeedPage(c, p)
          \/ ResumeFeed(c) \/ CloseFeed(c)
    \/ \E at \in 0 .. MaxEvents : CreateAnchor(at) \/ PlanRetention(at)
    \/ RenameAnchor \/ SettleAnchor
    \/ ApplyRetention \/ SettleManifest \/ FinishApply
    \/ \E ok \in BOOLEAN : ReclaimSegment(ok)
    \/ Stop \/ PowerLoss \/ Open

Spec == Init /\ [][Next]_vars

----------------------------------------------------------------------------
(* What retention promises *)

\* Wherever kills and power losses fall, the database opens again; left out
\* are an event appended or an anchor replaced since the floor moved, a floor
\* moved to an anchor whose directory a kill kept from being synced, and the
\* forks an open forgets (db.rs:252-352, retention.rs publish).
Reopens == lapses = {} => Opens

Forgetful == {"forked", "reanchored", "left"}

\* What an open would find of branches, checkpoints, registrations and
\* bootstraps is what was acknowledged, also when their frames are reclaimed
\* (db.rs:275-340, 667-684); left out are forks since the anchor, an anchor
\* made again after frames went, and a segment that could not be removed.
NothingForgotten ==
    lapses \cap Forgetful = {} /\ Opens => LoadedBranches = branches /\ LoadedMeta = meta

\* Whoever the floor has passed finds a bootstrap for this floor, and an open
\* feed is never passed (facade.rs ApplyRetention, db.rs plan_retention); left
\* out, besides, is an anchor replaced and not yet applied.
NobodyStranded ==
    step # "down" /\ lapses \subseteq {"moved", "unsettled"} =>
        /\ \A c \in Consumers : Behind(c, manifest.floor) => HasBootstrap(c, manifest.floor)
        /\ \A b \in Branches :
              (\E p \in ForkOf(b) : p < manifest.floor) => HasBootstrap(b, manifest.floor)
        /\ \A c \in Consumers : \A p \in feeds[c] : p >= manifest.floor

\* Every event from the floor on is in a segment that exists, and a command
\* leaves every event from the position it was asked to keep (log/mod.rs
\* retention_boundary and reclaim_below_retention_floor).
EventsKept ==
    /\ \A e \in manifest.floor .. head - 1 : SegmentOf(e) \in files
    /\ step \in {"switched", "reclaim"} =>
          \A p \in plan : \A e \in p.requested .. head - 1 :
              SegmentOf(e) \in files /\ e >= manifest.floor

\* A database opens again at any time (docs/specs/retention-compaction.md:
\* the anchor "plus the retained append-only log suffix").
ReopensAfterRetention == Opens

\* A crash at or after the publication of the manifest opens the new generation
\* (docs/specs/retention-compaction.md:243), an earlier kill or not.
ReopensUnsettled == lapses \subseteq {"unsettled"} => Opens

\* A crash before the publication opens the old generation (the same line), also
\* while an anchor is made for the next one.
ReopensReplaced == lapses \subseteq {"replaced"} => Opens

\* An anchor made again after frames went leaves memory and the next open with
\* the same branches and metadata (docs/specs/retention-compaction.md:130).
SecondAnchorRemembers ==
    lapses \subseteq {"moved", "replaced", "reanchored"} /\ Opens =>
        LoadedBranches = branches /\ LoadedMeta = meta

\* An open finds every branch that was created.
BranchesSurviveReopen == Opens => LoadedBranches = branches
=============================================================================
