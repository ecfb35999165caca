# A TLA+ model of SalamanderDB

SalamanderDB (`salamander/`) is an embedded event-sourcing engine in Rust: an
append-only log of atomic batches in segment files, recovered by a scan at every
open, with catalogs, projections, snapshots, branches and retention built over
it. This directory holds TLA+ modules translated from its source, the TLC
configurations that check them on small instances, and theorems about them that
TLAPS proves for every size.

Paths below are relative to `salamander/src/` unless they name another crate.

## 1. The system

| Component | State it keeps | Operations | Hard behaviour | What makes it correct |
|---|---|---|---|---|
| Physical log (`log/mod.rs`, `segment.rs`, `manifest.rs`, `lock.rs`) | segment files, `manifest.json`, `LOCK`; in memory the active segment with its length and head, the closed segments, the retention floor | open and recover, append a batch or a system frame, roll, commit, activate a floor, reclaim, drop | a crash between any two disk calls, partial writes, unsynced directory entries, errors that leave the `Log` in use | acknowledged frames are never lost, moved or overwritten; the directory always opens |
| Recovery scan (`log/segment.rs`, `scan_records`) | loop state over one file's bytes | accept, start, extend, close a batch, stop | cut and damaged bytes in every place, what follows them | the valid prefix is exactly the writes before the damage |
| Frame format (`format/mod.rs`, `log/record.rs`) | none | encode, decode | lengths and checksums at the limits | total on bytes, round trip |
| Streaming reader (`log/reader.rs`, `log/index.rs`) | plan of segments, cursor (buffer, shared file offset), expected position, batch being verified, continuation; sidecar files | plan, next, continuation, build and load a sidecar | interleaved readers and appends, skips and seeks by derived metadata | everything between start and head that matches, once, in order; resumable |
| Engine core (`db.rs`, `stream.rs`, `commit.rs`) | stream catalog (heads, revisions, idempotency receipts), `core-catalog.bin`, commit policy, durable head | append with preconditions and idempotency keys, commit, open | a crash between the log write, the fsync and the checkpoint; retries | the catalog equals the fold of the log; at most one batch per key |
| Branches (`branch.rs`, `db.rs`) | branch catalog, rebuilt from system frames | fork, archive, scopes, diff | nested forks below their parents' fork points | a branch reads exactly its own events and its ancestors' before each fork |
| Retention (`retention.rs`, `db.rs`) | anchor generations on disk, consumer pins, the floor | plan, create an anchor, apply | a crash between anchor, manifest and deletion; appends after retention | whatever is deleted is in the anchor the manifest names |
| Facade (`facade.rs`) | sequencer thread and queue, durable head signal, feeds, consumer checkpoints | submit, feed pages, acknowledge, close | threads, lost wake-ups, close racing calls, a page cut in a batch | every durable event reaches every feed once, in order |
| Projections (`facade.rs`, `projection/mod.rs`) | one driver and cursor per partition | drive, fail, heal | partial failure across partitions | a healed projection equals the fold of the log |
| Snapshots (`snapshot.rs`, `facade.rs`) | two generations of files per identity | publish, load, restore | crash in publication, stale or foreign snapshots | restore and replay equals replay |
| Migration (`migration.rs`) | destination directory, progress marker | import, resume, activate | interruption and resume | the same events, ids and order, once |
| Views (`view/`, `introspect.rs`) | secondary indexes | insert, remove, query | an index that keeps a moved entry | index equals base |
| Agent projections (`agent/`, `event.rs`, `json.rs`) | session and key-value folds | apply | none: sequential folds | - |
| Python binding, demo, command line | handles | - | none of their own | - |

How they interact. The facade owns one sequencer thread; every write reaches the
engine core through its queue. The core calls the physical log
(`append_batch`, `append_system`, `commit`, the retention calls) and keeps the
catalogs that a fold over the log would give; at open it rebuilds them from the
log or trusts a checkpoint written at the same head. Readers and projections
borrow the core and read the files through `LogReader`. Feeds wait on a signal
the sequencer publishes after commits. Retention writes an anchor, switches the
manifest and deletes whole segments. The `hazards` list in `PROJECT.json` places
what is hard to test in each of them at its line of code.

## 2. The modules

| Module | Stands for |
|---|---|
| `SegmentLog` | the physical log: every disk call of open, append, roll, commit and retention is one step |
| `SegmentLogInv` | the inductive invariant of `SegmentLog`, in named parts |
| `SegmentLogProofs` | theorems about `SegmentLog`, among them that it implements `CommittedLog`, and about `SegmentLogFaults` |
| `CommittedLog` | the promise of the log to its caller, without files or recovery |
| `MCSegmentLog` | instance of the two for TLC |
| `SegmentLogFaults` | `SegmentLog` on a disk whose calls may fail without killing the process |
| `FrameScan` | `scan_records`, frame by frame, over whole, cut and damaged writes |
| `LogBootstrap` | the very first open of a directory |
| `ActiveFile`, `ActiveFileProofs` | the file offset that the appender and all readers of the active segment share |
| `MCSegmentFile` | `FrameScan` and `ActiveFile`, side by side, for TLC |
| `CoreCatalog`, `MCCoreCatalog`, `CatalogProofs` | `append_batch` with its preconditions and retries, `commit`, the stream catalog and its checkpoint, the fan-out to a view |
| `IndexedView` | the fold of a view: rows, index entries and the reverse map; used by `CoreCatalog` |
| `Feed`, `FeedProofs` | the sequencer thread, the committed-batch feed, its wake-ups and checkpoints, `close` |
| `Timelines`, `MCTimelines`, `TimelinesProofs` | branches as a fold of system frames, forks and archives, reads through them with segment plan, sidecars and seeks, pages, diff |
| `Projections`, `MCProjections`, `ProjectionProofs` | one projection with its partitions and its snapshots on disk |
| `Retention`, `MCRetention`, `RetentionProofs` | anchor, plan, manifest switch, reclamation, and the open that needs the anchor |
| `Migration`, `MigrationProofs` | `migrate_v1` with its markers; extends `LogBootstrap`, whose open it runs |
| `LegacyForks` | what `migrate_legacy_branches` computes, as a function of the source |
| `MCMigration` | instance of the two for TLC |

### SegmentLog

A frame of the model is one `write_all` of the code, whole or `Torn`; `FrameScan`
justifies this by showing that the byte scan treats every remnant of a write as
one unit. `frames[b]` is the file with base `b` as a process sees it; `synced[b]`
is how much of it a power loss cannot take; `linked` are the files whose directory
entry was synced, `removed` those deleted since `log/` was last synced, which a power
loss may bring back. `manifest` is the file as a process reads it, `durableManifest`
the one that was synced or that the last open found, `stale` what a power loss may
restore instead. `phase` is the step of the call in progress, so that a kill or a
power loss may fall between any two:

    Open -> RecoverActive -> EndOpen (FinishOpen or RefuseOpen)   Log::open_internal, Segment::open
    BeginRoll -> RollCreate -> RollLink -> RollWrite -> RollSync -> AppendFrame     Log::roll
    ActivateRetention -> FloorSync -> Reclaim                 Log::activate_retention, reclaim_below...
    AppendBatch, AppendSystem, Commit, Close                  the calls of the same names
    Kill, PowerLoss, RemoveStaleLock                          the environment

A kill keeps the page cache; it may leave a part of the frame being written. A
power loss keeps the synced frames of each file, any number of leading unsynced
ones and possibly a part of the next, any subset of unlinked files, brings back any
subset of removed ones and leaves one of the manifests that were not synced away. A
file system that reorders the data blocks of one file, or extends it with zeros, can do
more; what the scan makes of that is in `FrameScan`.

Directory changes are durable in the model only where the code syncs the directory:
in a roll (`log/mod.rs:500`) and in `Manifest::write`. `Reclaim` and the removal of
orphans (`log/mod.rs:281`, `:167`) sync nothing, and no open syncs what a killed process
renamed: it reads the manifest and builds on it. A power loss later may then undo that
rename under frames that were acknowledged meanwhile. `reverted` remembers that this
happened. The properties and the theorems are about everything before it;
`LogRevertedManifest.cfg` shows an acknowledged frame lost to it.

### CommittedLog

The log a caller sees: a set of frames with a head and a floor. Frames are added
at the head; a crash may drop a suffix that was not acknowledged; retention
raises the floor and discards frames below it, which a crash may bring back until
`Settle`. `broken` is where the promise ends. `SegmentLog!ImplementsCommittedLog` maps
to it the frames recovery finds valid, those of the removed files, the position recovery
would give next, the durable floor and `reverted`.

### SegmentLogFaults

Adds the failures that leave the `Log` in use, each passed on by `?`: a
`write_all` that wrote a part, a manifest write that fails before or after its
rename. `before` remembers, per kind, the last frame written before the first.

### FrameScan

`Init` picks a sequence of writes, hurts at most one of them (cut, bad checksum,
bad header), and the actions are the branches of the loop. Frames after a remnant
exist because the process may have survived the failed write; a remnant followed
by other frames borrows their bytes, so any outcome of `decode` is possible there.

### LogBootstrap

`open_internal` on an absent or half-created directory, one step per disk call.
Directory entries are `absent`, `present` or `safe`. `ordered` is the promise of a
metadata journal that entries of one directory persist in the order they were made.
An open that goes on from what a killed process left does not sync it: such entries are
`relied` upon, and a power loss that takes one sets `reverted`, as in `SegmentLog`.

### ActiveFile

`Segment::clone_handle` is a `try_clone`: one file offset for the appender and all
readers. The model has that offset, a buffer per reader, and frames of one size.
A Rust borrow keeps appends out while a reader lives, but not after it is dropped.
Two things callers do leave the offset where the code does not expect it, and `lapses`
remembers them: a reader dropped before it read the file to its end (`abandoned`), and
a reader that takes its next chunk after another one moved the offset, while one of them
has frames to read (`crossed`). Pages, time windows and boundary checks all do the first.

### CoreCatalog

Stands on the log that `CommittedLog` promises: whole batches, of which a power loss
drops an unsynced suffix. An append is a request of a small set (stream, expected
revisions, events with bodies and optional ids, optional key, durability), which
callers make and repeat at will. `Admitted` holds the checks of
`append_batch_with_id` in their order, `RetryByKey` and `RetryById` the two early
returns. A commit is three steps, as in the code: `SyncLog`, `Persist` (the
checkpoint that `commit` writes, without the batch in hand) and, in an append,
`PublishAppend` (the second checkpoint). `Rebuild` is the fold of the log;
`Usable` is the test that open makes of the checkpoint, its head alone.

`lapses` is history: it remembers that a batch was left in the log and not in the
catalog or the checkpoint (`commit` failed inside an append, or the process ended
between its two checkpoints) or that an open could not replace an outdated
checkpoint. The properties say what holds until then;
`CatalogRetryDuplicates.cfg` shows what happens after.

`views` is the registered view of `db.views`, folded by `IndexedView` in the same
step that appends; `detached` is the one `deregister` gave back. Its owner may
register it again, also after the database was closed and opened, and it catches up
from its own cursor.

### Feed

`queue` is the channel to the sequencer, whose actions are the branches of its
`match`; a thread's `pc` is its place in the facade call it makes:

    idle -> sending -> called -> (reply) idle | page | empty | notify        Engine::call
    empty -> locked -> asleep -> woken -> sending again                      next_feed_page
    closing -> sending -> called -> joining -> idle                          close

`FeedSignal::publish` is two steps (`PublishSwap`, `PublishNotify`), because the
head is swapped before the mutex is taken and a consumer may look in between.
A position is a batch, and a page is the set of its batches, whose positions are
their order. A page has room for a number of batches, at most `PageBatches` and fewer
when their bytes fill it. `PageEnd` is where `feed_page` leaves its continuation: at the
first wanted batch that finds no room, or at the durable head. `OpenFeed` starts at an
explicit position (`Starts`, `FeedRequest.from`) or at the consumer's checkpoint, which
`ClearConsumerCheckpoint` takes back to the start. A caller may acknowledge at any time,
also with a part of its page still to be taken, and the checkpoint is the feed's
continuation. `AckedWereTaken` therefore says what the feed answers for: before a
checkpoint there is nothing its consumer has not taken, except what its own caller went
past, by acknowledging with batches in hand or by starting behind them (`passed`).
`FeedAckMidPage.cfg` checks it without the exception. `trusted` is history: batches an
open found in the page cache of a killed process and took for durable (`db.rs:348`).

### IndexedView

`put`, `delete` and the pruning between them, over sets of pairs. `indexedAs` is
the reverse map; `Project` and `Indexers` are the caller's closures, as functions.
`CatchUp` is `replay_to`.

### Timelines

`frames` is the log: events of batches, and the system frames that create and
archive branches, which take no position. `segments` cuts it; every closed segment
may have a sidecar. `branches` is the catalog in memory, and `Rebuild` the fold an
open makes. A fork or an archive writes its frame, commits, and only then publishes
the catalog (`committing`, `Publish`); when the commit fails it reads the catalog
back from the log (`CommitFails`). The log of this module begins at position 0: an open,
or that re-reading, from a retention floor and an anchored branch catalog
(`db.rs:275-296`, `1140-1145`, `1202`, `1241`, `1286`) is in `Retention`.

A read is `Yielded`: from the frames a `Filter` and a `seek` walk (`Planned`,
`Skippable`, `SeekPoints`) those the branch's `ReplayScopes`, streams and times
pass. The properties compare it with `OnTimeline`, the definition of a branch's
history without scopes: an event is on a branch when each fork on the way to it
lies behind the event. `NextPage` is the facade's page: it stops at `page_events`
or `page_bytes`, and its continuation is in front of the first event that found no
room, or behind the last one.

### Projections

One name, one `QueryState`. `projection.parts` has a kind and a cursor per
partition; `rows` are what the runtime holds; `snapshots` are the files of each
descriptor and partition, which outlive the process. `HealOne` is the body of
`heal_partitions`: a cold partition takes its newest fitting snapshot, a failed one
is left, and the reader brings what the cursor misses. `CreateSnapshot` and
`CreatePartitionSnapshot` hand their files to `PublishFile` and `RetainTwo`, one
step each, so that a crash may fall between the new file and the removal of the
third. A published file is durable at its rename; the directory is synced one call later
(`snapshot.rs:124`), and a power loss between the two would leave the older generations,
as the crash before the rename does. A snapshot beyond the log's head is no candidate
(`Fits`).

`lapses` is history: `outrun` when a power loss took events that a snapshot on the
disk came from (it is taken at the head, synced or not, and fits again once the log
has grown), `reset` when `rebuild_projection` emptied the rows of ready partitions and
met a bad event before it had read them all again. Until then answers are exact.

### Retention

`files` are the bases of the segments that exist and `records` the system frames
by segment, so that reclaiming a segment takes what its frames said. `CreateAnchor`,
`RenameAnchor`, `SettleAnchor` are the writes of a publication; `ApplyRetention`,
`SettleManifest`, `ReclaimSegment`, `FinishApply` those of `apply_retention`.
`restorable` is what a power loss may put back in their place. `Opens` is the
decision of `open_internal`, `LoadedBranches` and `LoadedMeta` what it would find.

`lapses` is history: an event appended (`moved`) or an anchor made again
(`replaced`) since the floor moved; a floor moved to an anchor whose directory was
never synced, after a kill in its publication (`unsettled`); a fork that an anchor
on disk, or one that a power loss may bring back, does not have (`forked`); an anchor
built from a log whose prefix is gone (`reanchored`); a segment that could not be
removed and shows its frames again (`left`). Each property names the ones it excludes,
and four configurations show what happens otherwise.

### Migration

`marker` and `done` are `migration.in-progress.json` and `migration.complete.json`,
each with the state of its directory entry; `mstep` is the next step of the import.
The destination is opened with the steps of `LogBootstrap`, which users may try at
any time too. Events go to the positions of their offsets, so what was imported is
a number, and resuming is going on from it. `CutShort` is the one place the command
does not come back from: killed between the writing of `migration.complete.json` and the
removal of the other marker, it has both, and its rerun and every open are refused.

### LegacyForks

Pure: for every source of a bounded length, the branches, forks and positions the
code computes, and what reading the destination would bring, against the history
the markers define. `MCMigration` evaluates it for each source as an initial state.

## 3. The runs

| Run | Asks | Answer |
|---|---|---|
| `log` | does every acknowledged frame survive, does the directory always open, is the invariant of the proofs one, do the files implement `CommittedLog`? | yes, until a power loss undoes a manifest rename that an open had built on |
| `log_faults` | what do failed writes and failed manifest writes cost? | nothing acknowledged before them; after a failed manifest write the frames stay on disk; with the same exception |
| `segment_file` | does the scan keep exactly the writes before the damage; do readers and appender share the file offset without harm? | yes, when the scan does not fail; yes, while no reader is dropped early or read after another |
| `active_file_overwrites` | and if one is dropped early? | an append overwrites committed frames (finding) |
| `core_catalog` | is the catalog always the fold of the log, is a key one batch, is what was reported synced durable, is the view a replay? | yes, within the lapses above |
| `feed` | does a feed bring every durable batch once, what does a checkpoint cover, is no wake-up lost? | yes; all that was taken, and what the caller itself went past |
| `feed_waits` | does a sleeper wake for a published head, does `close` end? | yes |
| `replay` | does a read through plan, sidecars, seeks and scopes give a branch's history, do its pages, are diffs exact, are batches whole? | yes |
| `projections` | does an answered query show the fold of its events however it healed, do partitions fail alone, does the newest snapshot survive publication? | yes, within the lapses above |
| `retention` | does the database open after a crash anywhere, is nothing forgotten, nobody stranded, no event from the floor on lost? | yes, within the lapses above |
| `retention_reopen` | and after one more append? | the directory is refused (finding) |
| `migration` | may an import be interrupted anywhere, does it come to its end, do legacy forks land where they belong? | whole or refused: yes; an end: yes, but for a kill between its two markers; forks: yes |

Every property of a passing run has a mutant of the code that breaks it; the
mutated definitions stand next to the originals and are marked as such. Type
invariants (`TypeOK`, `Types`) are not in the listed runs; they held in each module
while it was written, as did `SegmentsTile`, `AckedPositionsFinal`, `SealedImmutable`
and `RollRefusedOnlyWithoutEvents` of `SegmentLog`, which remain as definitions for
a reader who changes it.

Thirteen configurations are kept beside the listed runs, for `tlc -config X.cfg M`:

| Configuration | Module | Shows |
|---|---|---|
| `LogBootstrap.cfg` | `LogBootstrap` | passes: the first open alone, which `migration` runs as a part |
| `LogRevertedManifest.cfg` | `MCSegmentLog` | `AckedRetainedAlways` violated: killed between the rename of a manifest and the sync of its directory, the process is followed by one that appends and commits under it, and a power loss brings the old manifest back |
| `LogLosesAckedAfterPartialWrite.cfg` | `SegmentLogFaults` | `AckedRetained` violated: after a partial write, later commits are hidden by its remnant |
| `FrameScanFails.cfg` | `FrameScan` | `NeverFails` violated: a damaged frame header is an error, not an end |
| `ActiveFileGaps.cfg` | `ActiveFile` | `NoGapsAlways` violated: of two readers that take chunks in turns one reports the end with positions unread |
| `CatalogRetryDuplicates.cfg` | `MCCoreCatalog` | `RetryIsNoOp` violated: a kill between the two checkpoints of an append makes its retry a second batch |
| `FeedAckMidPage.cfg` | `Feed` | `AckedWereTakenAlways` violated: acknowledging inside a page, or behind an explicit start, skips batches after a restart |
| `ProjectionRebuildLosesRows.cfg` | `MCProjections` | `RowsAlwaysExact` violated: an answer is wrong after a lapse |
| `RetentionForgetsBranch.cfg` | `MCRetention` | `BranchesSurviveReopen` violated: the next open does not find a branch forked after the anchor |
| `RetentionReanchored.cfg` | `MCRetention` | `SecondAnchorRemembers` violated: a second anchor, built from what is left of the log, takes from memory a branch whose frame went with the first retention |
| `RetentionReplaced.cfg` | `MCRetention` | `ReopensReplaced` violated: with an anchor in force, a crash in the publication of the next one, which removes the old file first, leaves a manifest without its anchor, and the directory is refused |
| `RetentionUnsettled.cfg` | `MCRetention` | `ReopensUnsettled` violated: a kill before the anchor's directory is synced, an open, an apply and a power loss leave a manifest without its anchor, and the directory is refused |
| `MigrationRerunFails.cfg` | `Migration` | `RerunIsAnswered` violated: killed between its last two steps, a migration is complete and still marked as in progress, and its rerun is refused |

### Bounds

| Module | Bound | Why it is enough |
|---|---|---|
| `SegmentLog` | 4 positions (0 to 3), 5 frames, segments full at 2 frames, batches of 1 or 2 events and system frames, 2 crashes | three segments, so two rolls and a retention that deletes one while another follows; a crash in the recovery from a crash; `PromiseHolds` ends the search where `reverted` is set; the theorems remove the bounds |
| `SegmentLogFaults` | 4 frames, 1 fault, 2 crashes | a fault, frames behind it, the crash that exposes it and one in the recovery; the theorems remove the bounds |
| `FrameScan` | 3 writes of up to 2 events | something before and after the damaged write; the scan looks back one batch |
| `LogBootstrap` | 2 events, 3 crashes | one crash in the creation, one in its continuation, one after the first commit |
| `ActiveFile` | 5 frames (4 in the violated runs), chunks of 2, 2 readers | a file of three chunks, so that each of two readers refills twice with the other between; the theorems cover every size |
| `CoreCatalog` | 3 batches, 2 streams, 1 key, 2 event ids, count threshold 3, 2 crashes, 1 failed call | a first attempt, its retry and one batch between; a crash that plants a stale checkpoint and one that meets it |
| `Feed` | 1 consumer, 2 batches, pages of 2, a start at 1, 2 checkpoints set or cleared, 1 crash; in `feed_waits` pages of 1 and no checkpoints | a page of two to be acknowledged half way, a page cut by its bytes, a wait and a second page; one sleeper is enough because threads meet only through the sequencer and the mutex |
| `Timelines` | 3 positions, 5 frames in segments of 2, 2 names, depth 3, pages of 2 events or 3 bytes, 1 crash, 1 failed commit | a fork of a fork below its parent's fork, a batch cut by neither, a sealed segment without wanted events between two that have some; names are interchangeable; the theorems remove the bounds, and `TInv` was also checked on this instance |
| `Projections` | 2 events, 2 streams in 1 or 2 partitions, 3 snapshot files, 1 crash | an event before a snapshot and one behind it, a third generation, a bad event in one partition; descriptors that replace one another; the theorems remove the bounds, and `PInv` was also checked on this instance and with a key that two partitions write (0.7 million states) |
| `Retention` | 2 events, 2 system frames, 2 plans applied, 1 crash | a segment that goes and one that stays, a second retention over the first; `OneSubject` keeps a behaviour to one branch, consumer or projection, which do not meet, and `PlanFresh` leaves out plans that can only be refused; the theorems remove the bounds, and `RetentionInv` and the properties were also checked with 2 crashes and 1 plan (7.0 million states without `OneSubject`) |
| `Migration` | a source of 2 events, a user's third, 3 crashes; legacy sources of 4 records, a root and 2 children | a crash in each of open, import and clean-up; a fork of a fork with events before and behind it; the theorems remove the bounds |

`NoLapse` ends the search of `projections` and `retention` where a lapse that the
properties exclude has happened: nothing behind it is claimed. The passing runs take
from seconds to about two minutes each (`log`, `replay`, `retention`, the largest with 2.0
million states).

### Fairness

`Feed` and `Migration` state liveness.

In `Feed` the sequencer and the in-call steps of each thread are strongly fair: they
are threads of the operating system, and a mutex that is held for a few instructions
is not withheld for ever from one waiting thread. Nothing makes a caller call, a
time-out elapse, an engine open or a crash happen: `PublishedWakes` and `CloseEnds`
hold without any time-out.

In `Migration` a command that runs goes on (weak fairness of its steps and of those
of an open), whoever has the database open closes it (weak), an operator removes the
lock of a dead process and gives an interrupted command again (strong, since the next
crash undoes either). Crashes are finitely many, as they are for any import that is
to end. `ImportCompletes` says no more than that this is enough: of all states of the
directory, `CutShort` alone is one from which the command cannot go on. It is stated
for directories whose entries keep their order (`ordered`).

`PagingEnds` of `Timelines` needs no fairness: it says that each page of a replay that
is not done moves its continuation, which is what a loop over pages needs to end.

## 4. What is proved

`SegmentLogProofs` proves, for all numbers of positions, frames, frames per
segment and crashes, that `IInv` holds until `reverted` (`Inductive`, the invariant
`Sound`), and from it `AckedSurvives` and `AlwaysOpens` up to the same point. Nothing
is assumed of the constants but their types. `TypeCorrect` has no exception: it is
proved on its own at the end of the module (`WellTyped`), for `IInv` says more of the
files than is left of them after a reverted rename.
`AckedRetained` alone is not inductive: that a frame is recoverable under either
manifest depends on the frames before it in its file (`FilesChained`), on no remnant
standing in front of it (`TornOnlyAtTail`), on later files not claiming its
positions (`FilesOrdered`), and on the file being one that no power loss can
unlink or shorten (`DirtyOnlyActive`, `Settled`). A removed file that may return counts
among the `Files` that all of these are about. `Located` says where each
acknowledged frame is; `ManifestSound` that whichever of two manifests comes back
names linked files and cuts at a file boundary; `MemorySound` ties the running
process to them. There is one lemma per action; the long ones are
`RecoverActive`, which cuts a file at its first bad frame, and `PowerLoss`, which
may change everything but the acknowledged frames at once.

The second part of `SegmentLogProofs` is `Implements`, that `Spec => ImplementsCommittedLog`,
for the same constants. What the mapping shows is read by `ValidLength`, and from
`IInv` follows that this is every frame of a file but a torn one at its end, so that
each action can be argued from the intact frames alone (`Intact`, `Written`, `Gone`).
`Mapped` adds to `IInv` what the mapping needs: ids grow with the positions
(`IdsOrdered`), so that what a power loss cuts off is a suffix and not a hole; and the
two manifests of which a power loss picks one name the same head and have their floors
in order (`HeadsAgree`, `FloorsOrdered`). `Abstract` is the step of `CommittedLog` that
each action takes: a frame written, a commit, a floor raised, a suffix lost in a crash
with removed frames come back, a file below the floor dropped, its removal settled, or
nothing.

The third part proves the same of a disk whose writes may fail
and leave the process running (`SegmentLogFaults`), for any number of failures: `FailuresCostOnlyLaterFrames`
(`AckedBeforeFaultRetained`), `FailedManifestsLoseNothing` (`AckedOnDisk`) and
`RemnantsAreNoEvents` (`ValidFramesAdjoin`), until `reverted`. Much of
`IInv` is false there: a remnant may have frames behind it, be synced and be in a
closed file, an acknowledged frame may be in a file no manifest names, and the
memory may be ahead of both manifests. `FInv` says what remains (`FaultSound`). Of all
frames: whole frames are in the order of their ids and positions, in a file
(`Shaped`) and among files (`FilesApart`, of those that a later frame may lie in, `Placed`),
a file whose entry is not durable is empty or below the floor (`Entries`), unsynced ones only where the process
writes or beyond the active file (`DirtyLate`), a floor cuts no file and the durable
manifest is not ahead (`ManifestsInOrder`), the head is past everything in the active
file (`Memory`). With respect to the first failed write or manifest write: what is
older follows on intact frames only (`OldFollow`), is in a file that both manifests
reach (`OldReached`) and, once acknowledged, is synced (`OldLocated`). The last
layer says when a frame still counts as older: as long as no write has failed the
active file is whole up to the head (`CleanBefore`), as long as no manifest write has
the process works under the durable manifest (`SettledBefore`). Steps that write no
frame share one argument (`NothingNew`, `KeptFiles`, `KeptLocated`). TLC checked
`FInv` with 2 failures of both kinds and 2 crashes before it was proved.

`CatalogProofs` proves `SyncedIsKept`: whatever the requests, the policy, the number
of batches, crashes and failed calls, a batch that a receipt, the receipt of a retry
or `commit` called synced is durable, unless an open failed to cache a catalog it
rebuilt. The promise is not inductive, because the receipt of a retry comes from a
catalog that may come from a checkpoint of a log that a power loss has cut since.
`PromiseInv` adds that each checkpoint an open may meet either names batches of this
log only, with the ends they have in it (`Sound`), or is of a head that the log has not
reached (`Ahead`), which `Usable` refuses and the rebuilt catalog replaces before the
log grows. `Cut` and `Grows` say what a power loss and an append leave of a
prefix; `PersistSound` and `PowerLossKeeps` use them on checkpoints.

The same module proves what the catalog is for: `KeysAreUnique` (`OnePerKey`),
`IdsAreUnique` (`IdsOnce`), `StreamsAreSerial` (`StreamsSerial`) and `CatalogIsExact`
(`CatalogMatchesLog`), up to the lapses of section 2. They hold together or not at
all (`ExactInv`): a new batch is admitted by what the catalog says, so that `Serial`
and `Distinct` of the log need the catalog to mirror it, and the catalog mirrors the
log after a restart only if the checkpoint did (`CheckpointsExact`): each one an open
may meet mirrors this log (`Current`), or is of a head that the log has not
reached (`Ahead`). `Mirrors` says that a catalog is the `Rebuild` of a log in all but
what it calls synced, `Recorded` which prefix of the log the one in memory mirrors
while an append is between its log write and its catalog update.

`RetentionProofs` proves `KeepsEvents` (`EventsKept`): every event from the floor on,
and every one an applied plan was asked to keep, is in a segment that exists, for any
events, system frames, plans and crashes. A power loss may bring back a manifest
with a lower floor, so `KeptInv` says it of each manifest that may come back
(`Floors`), that none is left when segments go (`Reclaiming`), and that the floor in
work is not above what was asked (`Plans`).

It also proves the three promises of retention for the same constants: `OpensAgain`
(`Reopens`), `ForgetsNothing` (`NothingForgotten`) and `StrandsNobody`
(`NobodyStranded`). None is inductive, because a crash chooses among files and
manifests that are not the current ones, and because what an open reads, the frames
of the segments that exist, is not what was ever written. `RetentionInv` has
three layers over `KeptInv`. `DiskInv`: the segments that exist are the newest ones,
however many removals a power loss undoes (`Suffix`), so that the frames left are the
last ones. `AnchorInv`: which anchor file goes with which of the manifests that may come
back (`Held`, `StillNamed`, `Sums`). `TruthInv`: memory is what all frames ever
written say, and every anchor there is, may come back or is being written is what
some prefix of them said, while every later frame is above its floor and no fork
(`Covers`); whoever is below the floor of any manifest that may come back has its
bootstrap in the anchor that manifest names (`Provided`). `FromAnchor` joins the
last two: an anchor's prefix and the frames left, replayed in that order, are all of
the frames. The proof showed that two crashes, in two sessions, could break
`Reopens` and `NothingForgotten` where the run allows one; the lapses `unsettled` and
`forked` say what has to happen, and `RetentionUnsettled.cfg` shows the first.

`MigrationProofs` proves `ImportsAreWhole` and `AcknowledgedKept` for any size of
source and number of crashes, until a power loss takes an entry that an open had
built on (`Sound`). `AtPhase` says how durable
the directory is at each step of the open, `AtStep` the same of the import and its two
markers: the first outlives every crash until the second is as durable as the data.

It also proves that `migrate_legacy_branches` rewrites every valid source exactly,
with any number of records and children (`ForksAreExact`, and `LegacyForksAreExact` of
the command the run has). Markers lie earlier and earlier on the way up from a child,
so that a lineage ends in a root within as many steps as there are children (`Ends`,
by the pigeonhole principle), and streams of one family have one root (`SameRoot`).
`destination_position` counts the records that stay before a position, and so keeps
the order of an event and a fork (`PositionsKeepOrder`): an event is below a fork in
the destination where it is in the source (`SameBelow`).

`ActiveFileProofs` proves `NothingOverwritten` (`AppendOnly`) and `ReadersMissNothing`
(`NoGaps`) for segments and chunks of any size and any number of readers, while nobody
abandons or crosses (`lapses`). The offset is then where the reader that moved it last has
come to, or at the end of the file if that reader is gone (`OffsetKnown`). The runs
`active_file_overwrites` and `ActiveFileGaps.cfg` show that neither condition can go.

`FeedProofs` proves `NoLostWakeUp`, that `SleepersAreNotified` holds for any number
of consumers, batches and crashes and any page size. It rests on two facts
(`WakeInv`): a consumer between its look at the engine and its wait holds the
mutex that `publish`, `notify` and `close` take (`LockedHold`), and a thread has at
most one command with the sequencer and waits for it (`OneCommandEach`), so that the
continuation of a consumer asleep does not move.

It also proves, for as many consumers, batches and crashes, what a feed brings:
`PagesOfAFeedAreExact` (`PagesAreExact`), `FeedsShowOnlyDurable` (`OnlyDurable`) and
`AcknowledgedWereTaken` (`AckedWereTaken`), of any caller, also one that acknowledges
half a page, starts where it likes or clears its checkpoint. `PagesInv` is inductive together with `WakeInv`. `LogKnown` orders the
positions of batches and checkpoints along the log and says what the durable head has
behind it; `FeedsKnown` places each feed between its start and that head, its pages
exact so far. That a page follows on the last one is `PageExact` (`First` and
`PageEnd` cut at the same batch) and `OneMore`. For the checkpoints, `RowsLeft` says
that what a feed gave was taken or is left in its caller's page, `InFlight` that a
caller whose request for a page is in the queue has none left, and `StartTaken` that
what lies before a checkpoint or a feed's start was taken or gone past, from one life of
the process to the next.

`TimelinesProofs` proves, for any number of names, forks, frames, page limits and
crashes, the six properties of `Timelines`: `CatalogAlwaysMatchesLog`, `BatchesStayWhole`,
`DiffsAreExact`, `ReadsAreExact`, `PagesAreExact` and `PagesGoOn` (`PagingEnds`). They
follow from one inductive invariant (`TimelinesInvariant`, `TInv`), which TLC checked
first. Of the log it says that positions rise by one for each event (`FramesOrdered`),
that a batch is on one branch (`BatchOnOneBranch`) and that segments cut it without a
gap (`SegmentsLaid`). Of the catalog it says that it is sound for every prefix a power
loss may leave, and not only for the whole log (`CatalogsSound`): a fork lies between
two batches, at or below the head of its time, and no event of a branch comes before
the branch. `InMemory` ties the running process to that, `ReaderSane` an open reader
to its branch and to the head it began with. Everything else is an argument about
one read. An ancestor's scope, cut at the lowest of the forks below it, holds the
events of the timeline and no others (`OnTimeline`), and since no fork cuts a batch
neither does a read; the segments that a plan or a sidecar skips have nothing of it;
a seek lands at or before the first wanted frame. Two pages joined are the longer read
(`PageJoins`), so that continuations lose and repeat nothing.

`ProjectionProofs` proves, for any events, streams, keys, descriptors, partitions,
snapshot files and crashes, the four properties of `Projections`: `AnswersAreExact`
(`RowsExact`), `SnapshotsAreExact` (`SnapshotsExact`), `FailuresStayLocal`
(`FailuresAreLocal`) and `NewestIsKept` (`GenerationsAdvance`); the first three up to
the lapses of section 2. None of them is inductive, because what a partition
shows after a heal depends on a file, which may be of an earlier process, a shorter
log and a projection since replaced. `PInv` is, together with the types (`Shape`). It
says of each partition (`PartSound`) that a cold one is at the start, a failed one
has an event ahead that it cannot read, and a ready one has read all before its
cursor and has rows for it; of each file on the disk (`FileSound`) and each one in
the hands of a snapshot command (`PendingSound`) that it has all of what its
partition wrote up to its cursor and nothing of another partition; of the whole
(`StatusSound`) what the one partition of a projection needs, whose snapshots
take the cursor of the whole. Rows run ahead of cursors, after `wait_for` and after a
failure half way, so that all of these compare by `Covers`: a row is not older than
any event it should show, and stems from one that is folded (`RowsFrom`). Both are
statements about the log of a moment; the lemmas carry them to a longer log, when
an event is appended, and back to a prefix, when a power loss cuts the log and no
file stems from what is cut. A heal is an induction over the partitions
in hand (`Climb`), whose step restores a file, where `restore_partition` must not
overwrite what another partition wrote, and reads the rest up to the first bad
event.

Only model-checked: everything in `FrameScan` (`AllOrNothing`), and `ViewsExact` of
`CoreCatalog`, whose two sides are folds. Out of the prover's reach: liveness under
fairness (`PublishedWakes`, `CloseEnds`, `ImportCompletes`), `ENABLED`, and induction
over data as far as it needs a recursive operator or a fold of the library (what
`scan_records` or a view computes for every log).

## 5. Findings

Two listed runs are counterexamples to what a document or comment of the repository
says; `PROJECT.json` quotes each. A reader of an active segment longer than one chunk,
dropped early, makes the next append overwrite frames, because the two share one file
offset; of two such readers one may miss frames and report the end, where
`log/reader.rs:187` promises to go on "without gaps or duplicates" (`ActiveFileGaps.cfg`). After retention, a single append makes the next open refuse the directory,
because the anchor is accepted at its own head alone.

Others, met while modelling, are in the configurations of section 3: a power loss may
undo a manifest rename that a killed process did not sync and a later one committed
under, since no open syncs the directory; a partial write hides later commits; a damaged frame header makes the directory unopenable; a kill
inside an append makes its retry a duplicate; acknowledging inside a page skips its
rest; a branch forked after an anchor is not found by the next open; a second anchor
forgets what the first retention removed; a crash in the publication of a second anchor,
before any manifest names it, leaves no generation to open
(`docs/specs/retention-compaction.md:243`: "A crash before step 8 opens the old
generation"); an anchor that a killed
process renamed into place but did not sync is taken by the next one as it is, and a
power loss behind the switch of the manifest may then leave the manifest without it
(`docs/specs/retention-compaction.md:237` fsyncs "all new files and their directories"
before it); a rebuild that
meets a bad event leaves answers that are not the fold (the repository's
`README.md:32` says of derived state that "rebuilding it is always possible"); a
migration killed between completing and clearing its marker (`migration.rs:456-458`)
has a directory that no user can open, and is refused when given again, though
`migration.rs:360` calls it resumable and a repeated run idempotent.

## 6. Not modelled

Of the modelled parts:

- Encodings, hashing and checksums beyond accepted, incomplete or rejected; byte and
  time thresholds of the commit policy; batch ids that callers supply.
- `SegmentLog`: the roll refused because the active segment has no event
  (`log/mod.rs:493`) is a definition without a listed run.
- `ActiveFile`: frames of unlike sizes; a reader whose chunk ends inside a frame.
- `Timelines`: opens and rebuilds over a retention floor and an anchored catalog; a rebuild
  that fails after a failed commit; damaged sidecars, which
  count as absent ones.
- `Projections`: `wait_for` sets a cursor back and keeps the rows, so properties
  compare with a later cursor too; rows of keys that several partitions write have no
  owner and are not compared; answers of a failed projection under `AllowStale`, the
  lineage check of snapshots, and failed commits of a registration are left out.
- Views: one view with its history from position 0, whose bodies all decode.
- `Retention`: ids are part of the stream catalog; I/O errors of a publication, views
  and readers as handles of a plan, removing snapshots with their projection
  and explicit archives are left out; the entry of `retention/` in its parent is not
  lost on its own.
- `Feed`: several feeds with one `consumer_id`; starts below a retention floor, which are
  in `Retention`. A cancellation, or a
  commit that does not publish (fork, acknowledge, register; `facade.rs:670`), wakes
  no sleeper; it waits for its time-out, and no source promises more.
- `Migration`: reading the source; a destination a user appended to after completion,
  whose verification fails on a rerun; the steps of `migrate_legacy_branches` one by
  one, since it starts from nothing and is not resumable, and the revisions and ids it
  gives. A marker is the first record of its child stream.

Whole parts: the session and key-value folds of `agent/`, sequential and covered by
replay tests; the Python binding but for the row buffer of `Watch`, a wrapper; demo and
command line, harnesses over the library; error types and re-exports.

## 7. Plan

What was planned first is done: retention, branches and readers, projections and
snapshots, migration, views, and of the theorems the invariants of `SegmentLog`,
those of `SegmentLogFaults`, the refinement of `CommittedLog`, the promises and the exactness of `CoreCatalog`, the
pages and checkpoints of `Feed`, the promises of `Retention`, the reads of `Timelines`
the forks of `Migration` and the answers and snapshots of `Projections`. Left: a registration whose commit fails, in
`Projections`, and the session fold.
