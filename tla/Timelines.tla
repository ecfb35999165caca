----------------------------- MODULE Timelines -----------------------------
(***************************************************************************)
(* Branches, and the readers and diffs that see the log through them       *)
(* (branch.rs; fork_branch, archive_branch, read and diff of db.rs;        *)
(* log/reader.rs and log/index.rs; the paged reader of facade.rs).         *)
(*                                                                         *)
(* The log is a sequence of frames in segments: the events of batches, and *)
(* the system frames that create and archive branches.  The branch catalog *)
(* is a fold of the system frames, kept in memory.  A reader walks the     *)
(* frames of the segments its plan intersects, skips a segment when a      *)
(* sidecar proves that nothing in it is wanted, and enters one at a seek   *)
(* point.  A caller of the facade pages through such a scan while others   *)
(* append, fork and archive.                                               *)
(*                                                                         *)
(* The log is one that retention has never shortened: an open, or the      *)
(* re-read after a failed commit, then rebuilds the catalog from all its   *)
(* system frames.  With a retention floor the code starts from the catalog *)
(* in the anchor instead (db.rs:275-296, 1140-1145, 1202, 1241, 1286);     *)
(* Retention has that part, and no readers.                                *)
(***************************************************************************)
EXTENDS Integers, SequencesExt

CONSTANTS
    Default,        \* the branch every log has
    Names,          \* names other branches may be given
    BatchKinds,     \* what batches hold: records with stream, time, size and count
    Streams,        \* all streams
    MaxPosition,    \* bound: events in the log
    MaxFrames,      \* bound: frames in the log
    MaxDepth,       \* MAX_LINEAGE_DEPTH
    SegmentFrames,  \* a segment with so many frames is full
    PageEvents,     \* page_events and
    PageBytes,      \* page_bytes of the readers
    Requests,       \* the stream and the start that pagers ask for
    Selections,     \* the streams and the time range of plans
    MaxCrashes,     \* bound: kills and power losses
    MaxFaults       \* bound: failed commits

ASSUME TimelinesAssumption ==
    /\ Default \notin Names
    /\ \A k \in BatchKinds : k.stream \in Streams /\ k.time \in Int /\ k.size \in Nat /\ k.count \in Nat \ {0}
    /\ {MaxPosition, MaxFrames, MaxCrashes, MaxFaults, PageBytes} \subseteq Nat
    /\ {MaxDepth, SegmentFrames, PageEvents} \subseteq Nat \ {0}
    /\ \A r \in Requests : r.stream \subseteq Streams /\ r.from \in Nat
    /\ \A s \in Selections : s.streams \subseteq Streams /\ s.time \subseteq [lo : Int, hi : Int]

VARIABLES
    frames,     \* the log
    segments,   \* for each segment its base and the index of its first frame
    synced,     \* how many frames a power loss cannot take
    branches,   \* Salamander.branches
    phase,      \* "down", "idle", or "committing" within fork and archive
    updated,    \* the catalog that fork or archive publishes after its commit
    reader,     \* the facade's ReaderState, if a reader is open
    pages,      \* history: the positions its pages brought, in order
    crashes, faults

log == <<frames, segments, synced>>
vars == <<log, branches, phase, updated, reader, pages, crashes, faults>>

Branches == Names \cup {Default}

IsEvent(i) == frames[i].kind = "event"
EventsIn(I) == {i \in I : IsEvent(i)}

\* Log::head.  System frames take no position.
LogHead ==
    IF frames = <<>> THEN 0
    ELSE Last(frames).pos + (IF IsEvent(Len(frames)) THEN 1 ELSE 0)

----------------------------------------------------------------------------
(* The branch catalog: a function from branches to their BranchInfo.  A     *)
(* parent never changes, so the model keeps the ancestry, root first.       *)

RootOnly == [b \in {Default} |-> [path |-> <<Default>>, fork |-> 0, archived |-> FALSE]]

\* BranchCatalog::insert: a new name, a known parent, a lineage not too deep.
Insertable(cat, b, parent) ==
    /\ b \notin DOMAIN cat
    /\ parent \in DOMAIN cat
    /\ Len(cat[parent].path) < MaxDepth

Inserted(cat, b, parent, at) ==
    [x \in DOMAIN cat \cup {b} |->
        IF x = b THEN [path |-> Append(cat[parent].path, b), fork |-> at, archived |-> FALSE]
        ELSE cat[x]]

\* BranchCatalog::archive.
Archived(cat, b) == [cat EXCEPT ![b].archived = TRUE]

\* What a frame does to the catalog.
Registered(cat, f) ==
    CASE f.kind = "created" -> Inserted(cat, f.branch, f.parent, f.fork)
      [] f.kind = "archived" -> Archived(cat, f.branch)
      [] OTHER -> cat

\* BranchCatalog::rebuild, applied to the frames l.
Rebuild(l) ==
    LET cat[n \in 0 .. Len(l)] == IF n = 0 THEN RootOnly ELSE Registered(cat[n - 1], l[n])
    IN cat[Len(l)]

\* The upper bound replay_scopes gives the i-th level of an ancestry: the
\* least fork below it.
Upper(path, i, until) ==
    Min({until} \cup {branches[path[j]].fork : j \in i + 1 .. Len(path)})

ReplayScopes(b, until) ==
    LET path == branches[b].path IN
    {[branch |-> path[i], upper |-> Upper(path, i, until)] : i \in DOMAIN path}

\* The levels two root-first ancestries share.
SharedLevels(p, q) ==
    {i \in DOMAIN p \cap DOMAIN q : \A j \in 1 .. i : p[j] = q[j]}

CommonAncestor(a, b) ==
    branches[a].path[Max(SharedLevels(branches[a].path, branches[b].path))]

\* Mutant: only the first level that is not shared caps the divergence.
DivergenceOfChildren(a, aUntil, b, bUntil) ==
    LET p == branches[a].path  q == branches[b].path  s == SharedLevels(p, q)
        First(path) == {branches[path[i]].fork : i \in {j \in DOMAIN path : j = Max(s) + 1}}
    IN Min({aUntil, bUntil} \cup First(p) \cup First(q))

\* divergence_of: the least end or fork of a level that is not shared.
Divergence(a, aUntil, b, bUntil) ==
    LET p == branches[a].path  q == branches[b].path  s == SharedLevels(p, q)
        Own(path) == {branches[path[i]].fork : i \in DOMAIN path \ s}
    IN Min({aUntil, bUntil} \cup Own(p) \cup Own(q))

----------------------------------------------------------------------------
(* The streaming reader *)

Active == Len(segments)

SegmentEnd(g) == IF g = Active THEN LogHead ELSE segments[g + 1].base

\* The frames of segment g.
FramesOf(g) ==
    segments[g].first .. (IF g = Active THEN Len(frames) ELSE segments[g + 1].first - 1)

\* Mutant: the segment that holds `from` is taken for one before it.
PlannedAfter(from, until) ==
    IF from >= Min({LogHead, until}) THEN {}
    ELSE {g \in DOMAIN segments : segments[g].base > from /\ segments[g].base < until}

\* intersecting_range: from the last segment that starts at or before `from`
\* up to the first that starts at `until` or later.
Planned(from, until) ==
    IF from >= Min({LogHead, until}) THEN {}
    ELSE {g \in DOMAIN segments :
             /\ segments[g].base < until
             /\ \A h \in g + 1 .. Active : segments[h].base > from}

\* build_sidecar: what the sidecar of a closed segment knows.
Postings(g) == {frames[i].stream : i \in EventsIn(FramesOf(g))}
Times(g) == {frames[i].time : i \in EventsIn(FramesOf(g))}

\* Sidecar::time_disjoint.  A time range is [lo, hi), absent if {}.
TimeDisjoint(g, time) ==
    /\ Times(g) # {}
    /\ \E r \in time : Max(Times(g)) < r.lo \/ Min(Times(g)) >= r.hi

\* sidecar_for: cached, from its file or built again, for closed segments only.
HasSidecar(g) == g # Active

\* LogReader::skippable, for a read of events.
Skippable(g, filter) ==
    /\ HasSidecar(g)
    /\ \/ filter.streams \cap Postings(g) = {} /\ filter.streams # Streams
       \/ TimeDisjoint(g, filter.time)

\* Frame boundaries of g outside any batch.
Boundaries(g) ==
    {i \in FramesOf(g) : i = segments[g].first \/ frames[i].batch # frames[i - 1].batch}

\* Seek points are boundaries 64 KiB apart: any of them may be one.  The
\* reader takes the last point at or before `from`, in a closed segment only.
SeekPoints(g, from) ==
    IF ~HasSidecar(g) \/ from <= segments[g].base THEN {segments[g].first}
    ELSE {i \in Boundaries(g) : frames[i].pos <= from}

\* The frames the reader walks when it enters the first planned segment at
\* frame `seek`, up to the event where it stops.
Walked(filter, seek) ==
    LET plan == Planned(filter.from, filter.until)
        entered == {g \in plan : ~Skippable(g, filter)}
        all == UNION {{i \in FramesOf(g) : g = Min(plan) => i >= seek} : g \in entered}
    IN {i \in all : \A j \in EventsIn(all) : j <= i => frames[j].pos < filter.until}

Seeks(filter) ==
    LET plan == Planned(filter.from, filter.until) IN
    IF plan = {} THEN {1} ELSE SeekPoints(Min(plan), filter.from)

\* The tests of advance_to_match on an event.
Passes(i, filter) ==
    /\ frames[i].pos >= filter.from
    /\ frames[i].stream \in filter.streams
    /\ \E s \in filter.scopes : frames[i].branch = s.branch /\ frames[i].pos < s.upper
    /\ \A r \in filter.time : frames[i].time >= r.lo /\ frames[i].time < r.hi

\* A set of indices in order.
Ascending(I) ==
    CHOOSE w \in [1 .. Cardinality(I) -> I] : \A j, k \in DOMAIN w : j < k => w[j] < w[k]

Matches(filter, seek) == {i \in EventsIn(Walked(filter, seek)) : Passes(i, filter)}

\* What a reader yields, as indices of frames.
Yielded(filter, seek) == Ascending(Matches(filter, seek))

\* Salamander::read.
Filter(b, from, until, streams, time) ==
    [from |-> from, until |-> until, streams |-> streams, time |-> time,
     scopes |-> ReplayScopes(b, until)]

----------------------------------------------------------------------------
(* Opening and writing *)

NoReader == [branch |-> Default, stream |-> {}, from |-> 0, until |-> 0,
             continuation |-> 0, open |-> FALSE]

Init ==
    /\ frames = <<>>
    /\ segments = <<[base |-> 0, first |-> 1]>>
    /\ synced = 0
    /\ branches = RootOnly
    /\ phase = "down"
    /\ updated = RootOnly
    /\ reader = NoReader
    /\ pages = <<>>
    /\ crashes = 0
    /\ faults = 0

\* Salamander::open rebuilds the catalog of a log with its whole prefix.
Open ==
    /\ phase = "down"
    /\ branches' = Rebuild(frames)
    /\ phase' = "idle"
    /\ UNCHANGED <<log, updated, reader, pages, crashes, faults>>

Full == Len(frames) - segments[Active].first + 1 >= SegmentFrames

\* The frames of one append, after Log::roll when the segment is full.  A
\* roll syncs the segment it closes; it fails if the segment has no events.
AppendFrames(new) ==
    /\ Len(frames) + Len(new) <= MaxFrames
    /\ frames' = frames \o new
    /\ IF Full
       THEN /\ segments[Active].base < LogHead
            /\ segments' = Append(segments, [base |-> LogHead, first |-> Len(frames) + 1])
            /\ synced' = Len(frames)
       ELSE UNCHANGED <<segments, synced>>

NextBatch == Len(frames) + 1

EventFrames(b, kind) ==
    [i \in 1 .. kind.count |->
        [kind |-> "event", pos |-> LogHead + i - 1, batch |-> NextBatch, branch |-> b,
         stream |-> kind.stream, time |-> kind.time, size |-> kind.size]]

\* append_batch on a branch that takes writes.
AppendBatch(b, kind) ==
    /\ phase = "idle"
    /\ b \in DOMAIN branches
    /\ ~branches[b].archived
    /\ LogHead + kind.count <= MaxPosition
    /\ AppendFrames(EventFrames(b, kind))
    /\ UNCHANGED <<branches, phase, updated, reader, pages, crashes, faults>>

\* Mutant: any position up to the head is taken for a boundary.
IsBatchBoundaryAlways(at) == at <= LogHead

\* is_batch_boundary: the ends of the log, or two events of different batches.
IsBatchBoundary(at) ==
    \/ at \in {0, LogHead}
    \/ \E i, j \in EventsIn(DOMAIN frames) :
          frames[i].pos = at - 1 /\ frames[j].pos = at /\ frames[i].batch # frames[j].batch

\* fork_branch up to append_system: the frame is in the log, the catalog is
\* published after the commit.
ForkBranch(parent, at, b) ==
    /\ phase = "idle"
    /\ at <= LogHead
    /\ IsBatchBoundary(at)
    /\ Insertable(branches, b, parent)
    /\ AppendFrames(<<[kind |-> "created", pos |-> LogHead, batch |-> NextBatch,
                       branch |-> b, parent |-> parent, fork |-> at]>>)
    /\ updated' = Inserted(branches, b, parent, at)
    /\ phase' = "committing"
    /\ UNCHANGED <<branches, reader, pages, crashes, faults>>

\* archive_branch up to append_system.  To archive again changes nothing.
ArchiveBranch(b) ==
    /\ phase = "idle"
    /\ b \in DOMAIN branches \ {Default}
    /\ ~branches[b].archived
    /\ AppendFrames(<<[kind |-> "archived", pos |-> LogHead, batch |-> NextBatch, branch |-> b]>>)
    /\ updated' = Archived(branches, b)
    /\ phase' = "committing"
    /\ UNCHANGED <<branches, reader, pages, crashes, faults>>

\* The commit of fork_branch or archive_branch, and the new catalog.
Publish ==
    /\ phase = "committing"
    /\ synced' = Len(frames)
    /\ branches' = updated
    /\ phase' = "idle"
    /\ UNCHANGED <<frames, segments, updated, reader, pages, crashes, faults>>

\* Mutant: the old catalog stays.
KeepCatalog == branches

\* The commit fails: the frame stays in the log, and the catalog is read back
\* from the whole of it, as there is no anchor.
RereadCatalog == Rebuild(frames)

CommitFails ==
    /\ phase = "committing"
    /\ faults < MaxFaults
    /\ faults' = faults + 1
    /\ branches' = RereadCatalog
    /\ phase' = "idle"
    /\ UNCHANGED <<log, updated, reader, pages, crashes>>

----------------------------------------------------------------------------
(* The paged reader of the facade *)

\* OpenReader: without an end in the request it is the head of that moment.
OpenReader(b, request) ==
    /\ phase = "idle"
    /\ ~reader.open
    /\ b \in DOMAIN branches
    /\ reader' = [branch |-> b, stream |-> request.stream, from |-> request.from,
                  until |-> LogHead, continuation |-> request.from, open |-> TRUE]
    /\ pages' = <<>>
    /\ UNCHANGED <<log, branches, phase, updated, crashes, faults>>

\* The plan of the next page.
PageFilter == Filter(reader.branch, reader.continuation, reader.until, Streams, {})

Requested(i) == reader.stream = {} \/ frames[i].stream \in reader.stream

\* The events a scan from the continuation yields and the request wants.
Wanted(seek) == Ascending({i \in Matches(PageFilter, seek) : Requested(i)})

Bytes(w, n) == FoldLeft(LAMBDA sum, i : sum + frames[i].size, 0, SubSeq(w, 1, n))

\* How many of the wanted events a page takes: at least one.
Taken(w) == Max({0} \cup {n \in DOMAIN w : n <= PageEvents /\ (n = 1 \/ Bytes(w, n) <= PageBytes)})

\* Mutant: an exhausted scan leaves the continuation at the last event it gave.
ContinuationAtLast(w) ==
    LET n == Taken(w) IN
    CASE n = PageEvents -> frames[w[n]].pos + 1
      [] n < Len(w) /\ n < PageEvents -> frames[w[n + 1]].pos
      [] n = Len(w) /\ n < PageEvents /\ n > 0 -> frames[w[n]].pos + 1
      [] OTHER -> reader.continuation

\* Mutant: after a page cut by its bytes the next event is passed over.
ContinuationPastCut(w) ==
    LET n == Taken(w) IN
    CASE n = PageEvents -> frames[w[n]].pos + 1
      [] n < Len(w) /\ n < PageEvents -> frames[w[n + 1]].pos + 1
      [] OTHER -> Max({reader.continuation, reader.until})

PositionsOf(w) == [k \in DOMAIN w |-> frames[w[k]].pos]

\* Where next_page goes on: after a full page, at an event that did not fit,
\* or where the exhausted scan ended.
Continuation(w) ==
    LET n == Taken(w) IN
    CASE n = PageEvents -> frames[w[n]].pos + 1
      [] n < Len(w) /\ n < PageEvents -> frames[w[n + 1]].pos
      [] OTHER -> Max({reader.continuation, reader.until})

Done == reader.continuation >= reader.until

NextPage ==
    /\ phase = "idle"
    /\ reader.open
    /\ ~Done
    /\ \E seek \in Seeks(PageFilter) :
          LET w == Wanted(seek) IN
          /\ pages' = pages \o PositionsOf(SubSeq(w, 1, Taken(w)))
          /\ reader' = [reader EXCEPT !.continuation = Continuation(w)]
    /\ UNCHANGED <<log, branches, phase, updated, crashes, faults>>

\* CloseReader, also of one that was cancelled.
CloseReader ==
    /\ phase = "idle"
    /\ reader.open
    /\ reader' = NoReader
    /\ pages' = <<>>
    /\ UNCHANGED <<log, branches, phase, updated, crashes, faults>>

----------------------------------------------------------------------------
(* The process ends *)

End ==
    /\ phase # "down"
    /\ crashes < MaxCrashes
    /\ crashes' = crashes + 1
    /\ phase' = "down"
    /\ branches' = RootOnly
    /\ updated' = RootOnly
    /\ reader' = NoReader
    /\ pages' = <<>>
    /\ UNCHANGED faults

Kill == End /\ UNCHANGED log

\* Recovery truncates to whole batches.
PowerLoss ==
    /\ End
    /\ \E n \in synced .. Len(frames) :
          /\ 0 < n /\ n < Len(frames) => frames[n].batch # frames[n + 1].batch
          /\ frames' = SubSeq(frames, 1, n)
          /\ synced' = n
    /\ UNCHANGED segments

Next ==
    \/ Open
    \/ \E b \in Branches, kind \in BatchKinds : AppendBatch(b, kind)
    \/ \E parent \in Branches, at \in 0 .. MaxPosition, b \in Names : ForkBranch(parent, at, b)
    \/ \E b \in Names : ArchiveBranch(b)
    \/ Publish \/ CommitFails
    \/ \E b \in Branches, request \in Requests : OpenReader(b, request)
    \/ NextPage \/ CloseReader
    \/ Kill \/ PowerLoss

Spec == Init /\ [][Next]_vars

----------------------------------------------------------------------------
(* What a timeline is: the events of the branch itself and, before its fork,  *)
(* those of its parent's timeline.                                            *)

OnTimeline(i, b) ==
    LET path == branches[b].path
        sees[k \in 0 .. Len(path)] ==
            /\ k > 0
            /\ \/ frames[i].branch = path[k]
               \/ frames[i].pos < branches[path[k]].fork /\ sees[k - 1]
    IN sees[Len(path)]

Timeline(b, from, until) ==
    {i \in EventsIn(DOMAIN frames) :
        frames[i].pos >= from /\ frames[i].pos < until /\ OnTimeline(i, b)}

\* What a replay plan of read selects by its scopes.
Scoped(b, from, until) ==
    LET scopes == ReplayScopes(b, until) IN
    {i \in EventsIn(DOMAIN frames) :
        /\ frames[i].pos >= from
        /\ \E s \in scopes : frames[i].branch = s.branch /\ frames[i].pos < s.upper}

\* What the plans of a diff select: the shared past and what each side has
\* alone.
DiffPlans(a, aUntil, b, bUntil) ==
    LET d == Divergence(a, aUntil, b, bUntil) IN
    [shared |-> Scoped(CommonAncestor(a, b), 0, d),
     left |-> Scoped(a, d, aUntil), right |-> Scoped(b, d, bUntil)]

Quiet == phase = "idle" /\ ~reader.open

TypeOK ==
    /\ \A i \in DOMAIN frames : frames[i].pos = Cardinality(EventsIn(1 .. i - 1))
    /\ synced \in 0 .. Len(frames)
    /\ \A cat \in {branches, updated} :
          /\ DOMAIN cat \subseteq Branches
          /\ \A b \in DOMAIN cat : /\ Last(cat[b].path) = b
                                   /\ Head(cat[b].path) = Default
                                   /\ Range(cat[b].path) \subseteq DOMAIN cat
                                   /\ Len(cat[b].path) <= MaxDepth
    /\ phase \in {"down", "idle", "committing"}
    /\ reader.continuation \in 0 .. MaxPosition

\* The catalog in memory is always the one the next open rebuilds from the
\* log, also after a fork or an archive whose commit failed.
CatalogMatchesLog == phase = "idle" => branches = Rebuild(frames)

\* Pruning, sidecar skips and seek points never change an answer: whatever
\* streams and times a plan selects, the reader yields the events of the
\* branch's timeline that match, in order, wherever it starts in the file.
ReadExact ==
    Quiet =>
    \A b \in DOMAIN branches, from, until \in 0 .. LogHead, sel \in Selections :
        LET filter == Filter(b, from, until, sel.streams, sel.time) IN
        from < until =>
        \A seek \in Seeks(filter) :
            Yielded(filter, seek) =
                Ascending({i \in Timeline(b, from, until) :
                              /\ frames[i].stream \in sel.streams
                              /\ \A r \in sel.time : frames[i].time >= r.lo /\ frames[i].time < r.hi})

\* However a replay is cut into pages, by count or by bytes, and whatever is
\* appended, forked and archived between them, its pages bring exactly the
\* events of the timeline from its start up to its continuation, once.
PagesExact ==
    reader.open =>
        LET wanted == {i \in Timeline(reader.branch, reader.from, reader.continuation) : Requested(i)}
        IN pages = PositionsOf(Ascending(wanted))

\* A client that pages on comes to `done`: each page moves the continuation
\* towards the end, also over a tail of which its filters keep nothing.
PagingEnds ==
    reader.open /\ ~Done =>
        \A seek \in Seeks(PageFilter) : Continuation(Wanted(seek)) > reader.continuation

\* A diff cuts both timelines where they part: below the divergence both are
\* the timeline of the common ancestor, from there on they share nothing, and
\* the plans it returns select just these parts.
DiffExact ==
    Quiet =>
    \A a, b \in DOMAIN branches, aUntil, bUntil \in 0 .. LogHead :
        LET diff == DiffPlans(a, aUntil, b, bUntil)
        IN /\ diff.shared \cup diff.left = Timeline(a, 0, aUntil)
           /\ diff.shared \cup diff.right = Timeline(b, 0, bUntil)
           /\ diff.left \cap diff.right = {}

\* Forks are cut between batches: a timeline has all of a batch or nothing.
BatchesWhole ==
    phase = "idle" =>
    \A b \in DOMAIN branches, i, j \in EventsIn(DOMAIN frames) :
        frames[i].batch = frames[j].batch => (OnTimeline(i, b) <=> OnTimeline(j, b))
=============================================================================
