---------------------------- MODULE CoreCatalog -----------------------------
(***************************************************************************)
(* The engine core (db.rs, stream.rs, commit.rs): an append is validated   *)
(* against the stream catalog (expected revision, idempotency key, event   *)
(* ids), written to the log, perhaps fsynced, and recorded in the catalog. *)
(* The catalog is a fold of the log; open takes it from core-catalog.bin   *)
(* when that checkpoint was written at the head the log has now, and       *)
(* rebuilds it otherwise.                                                  *)
(*                                                                         *)
(* The log below is what CommittedLog promises: whole batches, of which a  *)
(* power loss drops an unsynced suffix.  There is one branch.  A batch id  *)
(* stands for the receipt of its batch; Flush differs from Buffered in the *)
(* receipt's wording only.  An optional value is a set of at most one.     *)
(*                                                                         *)
(* The checkpoint is renamed into place without a sync of the directory.   *)
(* Metadata reach the disk in order, as on a journalling file system: an   *)
(* event that survives a power loss takes the renames before it along.     *)
(*                                                                         *)
(* An append also goes to the registered views, before it is committed.    *)
(* There is one view: fresh, registered, or in its owner's hands again.    *)
(***************************************************************************)
EXTENDS Naturals, Sequences, FiniteSets, SequencesExt, IndexedView

CONSTANTS
    Streams,
    Requests,    \* the append requests that callers make and repeat
    Threshold,   \* CommitPolicy.every_count, 0 for none
    MaxBatches,  \* bound on the batches ever written
    MaxCrashes,  \* bound on kills and power losses
    MaxFaults    \* bound on failed fsyncs and checkpoint writes

ASSUME CatalogAssumption ==
    /\ Threshold \in Nat
    /\ MaxBatches \in Nat
    /\ MaxCrashes \in Nat
    /\ MaxFaults \in Nat
    /\ \A req \in Requests : /\ req.stream \in Streams
                             /\ req.expected \subseteq Nat \* event counts accepted
                             /\ Len(req.events) \in Nat \ {0}
                             /\ DOMAIN req.events = 1 .. Len(req.events)
                             /\ req.sync \in BOOLEAN

VARIABLES
    log,        \* the batches in the log
    synced,     \* how many of them a power loss cannot take
    checkpoint, \* core-catalog.bin, if there is one
    safe,       \* what a power loss may bring back in its place
    catalog,    \* Salamander.catalog
    pending,    \* Salamander.pending_count
    views,      \* Salamander.views
    detached,   \* the view that deregister gave back, if the owner has it
    phase,      \* the next step of open, append_batch or commit
    call,       \* what the commit in progress is for
    promised,   \* history: batches some caller was told are synced
    lapses,     \* history: "append" once a batch in the log was left out of the
                \* catalog or of the checkpoint at its head, "cache" once an open
                \* could not replace an outdated checkpoint
    lastBatch, crashes, faults

disk == <<log, synced, checkpoint, safe>>
viewed == <<views, detached>>
vars == <<disk, catalog, pending, viewed, phase, call, promised, lapses, lastBatch, crashes, faults>>

\* The position after the last event of log l.
HeadOf(l) == IF l = <<>> THEN 0 ELSE Last(l).first + Len(Last(l).req.events)

----------------------------------------------------------------------------
(* The catalog *)

\* request_fingerprint: everything but the durability and the key.
Digest(req) == <<req.stream, req.expected, req.events>>

Entries(b) == 1 .. Len(b.req.events)

\* What a batch adds to the maps by event id and by idempotency key.
IdEntries(b) ==
    UNION {{[of |-> x, digest |-> b.req.events[k].body, batch |-> b.batch] :
               x \in b.req.events[k].id} : k \in Entries(b)}

KeyEntries(b) == {[of |-> k, digest |-> Digest(b.req), batch |-> b.batch] : k \in b.req.key}

\* HashMap::insert of every entry of `new`.
Insert(map, new) == {e \in map : \A n \in new : n.of # e.of} \cup new

Empty == [revisions |-> [s \in Streams |-> 0], ids |-> {}, keys |-> {}, synced |-> {}]

\* StreamCatalog::record_batch; revisions[s] is the last revision plus one.
Record(cat, b, isSynced) ==
    [revisions |-> [cat.revisions EXCEPT ![b.req.stream] = b.rev + Len(b.req.events)],
     ids |-> Insert(cat.ids, IdEntries(b)),
     keys |-> Insert(cat.keys, KeyEntries(b)),
     synced |-> IF isSynced THEN cat.synced \cup {b.batch} ELSE cat.synced]

\* Of the entries of all batches in turn, the last one for each key.
Latest(added) ==
    UNION {{e \in added[i] : \A j \in i + 1 .. Len(added) : \A n \in added[j] : n.of # e.of} :
           i \in DOMAIN added}

AllIds(l) == [i \in DOMAIN l |-> IdEntries(l[i])]
AllKeys(l) == [i \in DOMAIN l |-> KeyEntries(l[i])]

\* Mutant: idempotency keys are not read back from the log.
RebuildWithoutKeys(l) ==
    [revisions |-> [s \in Streams |->
        Max({0} \cup {l[i].rev + Len(l[i].req.events) :
                          i \in {j \in DOMAIN l : l[j].req.stream = s}})],
     ids |-> Latest(AllIds(l)), keys |-> {}, synced |-> {}]

\* StreamCatalog::rebuild.
Rebuild(l) ==
    [revisions |-> [s \in Streams |->
        Max({0} \cup {l[i].rev + Len(l[i].req.events) :
                          i \in {j \in DOMAIN l : l[j].req.stream = s}})],
     ids |-> Latest(AllIds(l)), keys |-> Latest(AllKeys(l)), synced |-> {}]

\* The rebuild meets one event id with two contents and fails.
Conflicting(l) ==
    \E d, e \in UNION Range(AllIds(l)) : d.of = e.of /\ d.digest # e.digest

----------------------------------------------------------------------------

NoCall == [kind |-> "none", batch |-> 0]

Phases == {"down", "cache", "idle", "sync", "persist", "publish"}

TypeOK ==
    /\ synced \in 0 .. Len(log)
    /\ \A i \in DOMAIN log : log[i].batch \in 1 .. lastBatch /\ log[i].req \in Requests
    /\ Cardinality(checkpoint) <= 1
    /\ Cardinality(safe) <= 1
    /\ \A c \in checkpoint \cup safe \cup {[head |-> 0, catalog |-> catalog, complete |-> TRUE]} :
          /\ c.head \in Nat
          /\ c.catalog.revisions \in [Streams -> Nat]
          /\ \A e \in c.catalog.ids \cup c.catalog.keys : e.batch \in 1 .. lastBatch
          /\ c.catalog.synced \subseteq 1 .. lastBatch
    /\ pending \in 0 .. HeadOf(log)
    /\ Cardinality(views) <= 1
    /\ Cardinality(detached) <= 1
    /\ \A v \in views \cup detached : v.cursor \in 0 .. HeadOf(log)
    /\ phase \in Phases
    /\ call \in [kind : {"none", "append", "retry", "commit"}, batch : 0 .. lastBatch]
    /\ promised \subseteq 1 .. lastBatch
    /\ lapses \subseteq {"append", "cache"}
    /\ lastBatch \in 0 .. MaxBatches
    /\ crashes \in 0 .. MaxCrashes
    /\ faults \in 0 .. MaxFaults

Init ==
    /\ log = <<>>
    /\ synced = 0
    /\ checkpoint = {}
    /\ safe = {}
    /\ catalog = Empty
    /\ pending = 0
    /\ views = {}
    /\ detached = {}
    /\ phase = "down"
    /\ call = NoCall
    /\ promised = {}
    /\ lapses = {}
    /\ lastBatch = 0
    /\ crashes = 0
    /\ faults = 0

----------------------------------------------------------------------------
(* Opening *)

\* persist_core_catalog: the temporary file is synced, then renamed.  The mark
\* `complete` is not in the file: it tells the properties apart the checkpoint
\* that commit writes in the middle of an append.
PersistCatalog(complete) ==
    /\ safe' = checkpoint
    /\ checkpoint' = {[head |-> HeadOf(log), catalog |-> catalog, complete |-> complete]}

\* Mutant: a checkpoint is taken for current whatever its head.
UsableAlways == checkpoint

\* load_core_catalog: the checkpoint, if it was written at this head.
Usable == {c \in checkpoint : c.head = HeadOf(log)}

OpenFromCheckpoint ==
    /\ phase = "down"
    /\ \E c \in Usable : catalog' = c.catalog
    /\ phase' = "idle"
    /\ UNCHANGED <<disk, pending, call, promised, lapses, viewed, lastBatch, crashes, faults>>

OpenByRebuild ==
    /\ phase = "down"
    /\ Usable = {}
    /\ ~Conflicting(log)
    /\ catalog' = Rebuild(log)
    /\ phase' = "cache"
    /\ UNCHANGED <<disk, pending, call, promised, lapses, viewed, lastBatch, crashes, faults>>

\* The rebuild fails and open with it.
RefuseOpen ==
    /\ phase = "down"
    /\ Usable = {}
    /\ Conflicting(log)
    /\ UNCHANGED vars

CacheCatalog ==
    /\ phase = "cache"
    /\ PersistCatalog(TRUE)
    /\ phase' = "idle"
    /\ UNCHANGED <<log, synced, catalog, pending, call, promised, lapses, viewed, lastBatch, crashes, faults>>

Fault == faults < MaxFaults /\ faults' = faults + 1

\* open ignores a failure to cache the rebuilt catalog.
CacheFails ==
    /\ phase = "cache"
    /\ Fault
    /\ phase' = "idle"
    /\ lapses' = lapses \cup {"cache"}
    /\ UNCHANGED <<disk, catalog, pending, call, promised, viewed, lastBatch, crashes>>

----------------------------------------------------------------------------
(* append_batch *)

Keyed(req) == {e \in catalog.keys : e.of \in req.key}

Known(ev) == {e \in catalog.ids : e.of \in ev.id}

\* An event id is in use for other content, in the catalog or in the request.
IdConflict(req) ==
    \E k \in DOMAIN req.events :
        \/ \E e \in Known(req.events[k]) : e.digest # req.events[k].body
        \/ \E j \in DOMAIN req.events :
              /\ req.events[j].id \cap req.events[k].id # {}
              /\ req.events[j].body # req.events[k].body

\* Mutant: a request is not checked against the expected revision.
AdmittedUnchecked(req) == Keyed(req) = {} /\ ~IdConflict(req)

\* No such key yet, the stream is where the caller expects it, no conflict.
Admitted(req) ==
    /\ Keyed(req) = {}
    /\ catalog.revisions[req.stream] \in req.expected
    /\ ~IdConflict(req)

NextBatch(req) ==
    [batch |-> lastBatch + 1, first |-> HeadOf(log),
     rev |-> catalog.revisions[req.stream], req |-> req]

MustSync(req) ==
    \/ req.sync
    \/ Threshold > 0 /\ pending + Len(req.events) >= Threshold

\* Mutant: events that are in the log already are appended again.
FreshDespiteIds(req) == Admitted(req)

\* None of the events is in the log.
Fresh(req) == Admitted(req) /\ \A k \in DOMAIN req.events : Known(req.events[k]) = {}

\* The events of a batch as a view gets them.
EventsOf(b) ==
    [k \in Entries(b) |->
        [offset |-> b.first + k - 1, stream |-> b.req.stream, body |-> b.req.events[k].body]]

\* The batch goes to the log and to the views; the catalog learns of it at once, or after the
\* commit that the request or the policy asks for.
AppendBatch(req) ==
    LET b == NextBatch(req) IN
    /\ phase = "idle"
    /\ lastBatch < MaxBatches
    /\ Fresh(req)
    /\ log' = Append(log, b)
    /\ lastBatch' = lastBatch + 1
    /\ pending' = pending + Len(req.events)
    /\ IF MustSync(req)
       THEN /\ phase' = "sync"
            /\ call' = [kind |-> "append", batch |-> b.batch]
            /\ UNCHANGED catalog
       ELSE /\ catalog' = Record(catalog, b, FALSE)
            /\ UNCHANGED <<phase, call>>
    /\ views' = {FoldLeft(RecordEvent, v, EventsOf(b)) : v \in views}
    /\ UNCHANGED <<synced, checkpoint, safe, detached, promised, lapses, crashes, faults>>

\* Mutant: the receipt is upgraded without a commit.
AnswerUpgraded(req, batch) ==
    /\ promised' = IF req.sync THEN promised \cup {batch} ELSE promised
    /\ UNCHANGED <<phase, call>>

\* A retry gets the receipt of its batch, upgraded by a commit if need be.
AnswerAgain(req, batch) ==
    IF req.sync /\ batch \notin catalog.synced
    THEN /\ phase' = "sync"
         /\ call' = [kind |-> "retry", batch |-> batch]
         /\ UNCHANGED promised
    ELSE /\ promised' = promised \cup ({batch} \cap catalog.synced)
         /\ UNCHANGED <<phase, call>>

RetryByKey(req) ==
    /\ phase = "idle"
    /\ \E e \in Keyed(req) : e.digest = Digest(req) /\ AnswerAgain(req, e.batch)
    /\ UNCHANGED <<disk, catalog, pending, lapses, viewed, lastBatch, crashes, faults>>

\* All events carry ids that one and the same batch brought.
RetryById(req) ==
    /\ phase = "idle"
    /\ Admitted(req)
    /\ \E e \in catalog.ids :
          /\ \A k \in DOMAIN req.events : \E d \in Known(req.events[k]) : d.batch = e.batch
          /\ AnswerAgain(req, e.batch)
    /\ UNCHANGED <<disk, catalog, pending, lapses, viewed, lastBatch, crashes, faults>>

----------------------------------------------------------------------------
(* commit *)

\* Salamander::commit called by the user.
Commit ==
    /\ phase = "idle"
    /\ phase' = "sync"
    /\ call' = [kind |-> "commit", batch |-> 0]
    /\ UNCHANGED <<disk, catalog, pending, promised, lapses, viewed, lastBatch, crashes, faults>>

\* Log::commit, then the counters are reset.
SyncLog ==
    /\ phase = "sync"
    /\ synced' = Len(log)
    /\ pending' = 0
    /\ phase' = "persist"
    /\ UNCHANGED <<log, checkpoint, safe, catalog, call, promised, lapses, viewed, lastBatch, crashes, faults>>

\* What the caller is told when the call returns.
Promise == CASE call.kind = "commit" -> {log[i].batch : i \in DOMAIN log}
             [] OTHER -> {call.batch}

\* commit persists the catalog under the new head.  In an append the catalog
\* does not hold the batch yet: that comes next.
Persist ==
    /\ phase = "persist"
    /\ PersistCatalog(call.kind # "append")
    /\ IF call.kind = "append"
       THEN /\ catalog' = Record(catalog, Last(log), TRUE)
            /\ phase' = "publish"
            /\ UNCHANGED <<call, promised>>
       ELSE /\ promised' = promised \cup Promise
            /\ phase' = "idle"
            /\ call' = NoCall
            /\ UNCHANGED catalog
    /\ UNCHANGED <<log, synced, pending, lapses, viewed, lastBatch, crashes, faults>>

\* append_batch persists the catalog once more and returns the receipt.
PublishAppend ==
    /\ phase = "publish"
    /\ PersistCatalog(TRUE)
    /\ promised' = promised \cup Promise
    /\ phase' = "idle"
    /\ call' = NoCall
    /\ UNCHANGED <<log, synced, catalog, pending, lapses, viewed, lastBatch, crashes, faults>>

\* The fsync or the checkpoint write fails.  The caller gets the error, the
\* batch stays in the log, and the engine stays in use.
CommitFails ==
    /\ phase \in {"sync", "persist", "publish"}
    /\ Fault
    /\ phase' = "idle"
    /\ call' = NoCall
    /\ lapses' = IF call.kind = "append" THEN lapses \cup {"append"} ELSE lapses
    /\ UNCHANGED <<disk, catalog, pending, promised, viewed, lastBatch, crashes>>

----------------------------------------------------------------------------
(* Views *)

\* records_from(0): the events of the log, on every branch.
LogEvents == FlattenSeq([i \in DOMAIN log |-> EventsOf(log[i])])

\* register: a view the caller built, or got back, is caught up from its cursor
\* and takes the place of the one under its name.
Register ==
    /\ phase = "idle"
    /\ \E v \in {NewView} \cup detached : views' = {CatchUp(v, LogEvents, HeadOf(log))}
    /\ detached' = {}
    /\ UNCHANGED <<disk, catalog, pending, phase, call, promised, lapses, lastBatch, crashes, faults>>

\* replay_to, and the same for a projection: a new view as of position n.
ReplayTo(n) == CatchUp(NewView, LogEvents, n)

Deregister ==
    /\ phase = "idle"
    /\ views # {}
    /\ detached' = views
    /\ views' = {}
    /\ UNCHANGED <<disk, catalog, pending, phase, call, promised, lapses, lastBatch, crashes, faults>>

----------------------------------------------------------------------------
(* The process ends *)

\* The directory is left with the checkpoint that commit wrote in an append.
End ==
    /\ lapses' = IF \E c \in checkpoint' : ~c.complete THEN lapses \cup {"append"} ELSE lapses
    /\ catalog' = Empty
    /\ pending' = 0
    /\ views' = {}
    /\ phase' = "down"
    /\ call' = NoCall

\* The database is dropped: nothing is synced.
Close ==
    /\ phase = "idle"
    /\ UNCHANGED <<disk, detached, promised, lastBatch, crashes, faults>>
    /\ End

Kill ==
    /\ phase # "down"
    /\ crashes < MaxCrashes
    /\ crashes' = crashes + 1
    /\ detached' = {}
    /\ UNCHANGED <<disk, promised, lastBatch, faults>>
    /\ End

PowerLoss ==
    /\ crashes < MaxCrashes
    /\ crashes' = crashes + 1
    /\ \E n \in synced .. Len(log) : log' = SubSeq(log, 1, n) /\ synced' = n
    /\ checkpoint' \in {checkpoint, safe}
    /\ (\E c \in checkpoint : HeadOf(log') > c.head) => checkpoint' = checkpoint
    /\ safe' = checkpoint'
    /\ detached' = {}
    /\ End
    /\ UNCHANGED <<promised, lastBatch, faults>>

Next ==
    \/ OpenFromCheckpoint \/ OpenByRebuild \/ RefuseOpen \/ CacheCatalog \/ CacheFails
    \/ \E req \in Requests : AppendBatch(req) \/ RetryByKey(req) \/ RetryById(req)
    \/ Commit \/ SyncLog \/ Persist \/ PublishAppend \/ CommitFails
    \/ Register \/ Deregister
    \/ Close \/ Kill \/ PowerLoss

Spec == Init /\ [][Next]_vars

----------------------------------------------------------------------------

\* A batch some caller was told is synced, by its receipt, by the receipt of a
\* retry or by commit(), survives every crash, also across reopens, failed
\* commits and checkpoints that came back, unless an open failed to cache the
\* catalog it rebuilt.
PromisedDurable == "cache" \notin lapses => promised \subseteq {log[i].batch : i \in 1 .. synced}

\* The promise about idempotency keys: a retry appends nothing, whatever was
\* lost between the first attempt and the retry.
RetryIsNoOp == \A i, j \in DOMAIN log : i # j => log[i].req.key \cap log[j].req.key = {}

\* The same, while no batch was left between log and catalog.
OnePerKey == lapses = {} => RetryIsNoOp

IdsOf(b) == UNION {b.req.events[k].id : k \in Entries(b)}

\* An event id names one batch, so that a rebuild cannot fail.
IdsOnce == lapses = {} => \A i, j \in DOMAIN log : i # j => IdsOf(log[i]) \cap IdsOf(log[j]) = {}

EventsBefore(i) ==
    Cardinality(UNION {{<<j, k>> : k \in Entries(log[j])} :
                       j \in {h \in 1 .. i - 1 : log[h].req.stream = log[i].req.stream}})

\* Optimistic concurrency: revisions count the events of a stream without gap
\* or repetition, and each batch found the stream where its caller expected it,
\* also when the catalog went through checkpoints and rebuilds.
StreamsSerial ==
    lapses = {} => \A i \in DOMAIN log : /\ log[i].rev = EventsBefore(i)
                                    /\ log[i].rev \in log[i].req.expected

\* Losing the checkpoint never changes an answer: what the engine answers from
\* is the fold of the log it has.
CatalogMatchesLog ==
    lapses = {} /\ phase = "idle" => [catalog EXCEPT !.synced = {}] = Rebuild(log)

\* The changes of the log to a key, by offset.
ChangesOf(key) ==
    UNION {{[offset |-> e.offset, value |-> c.value] :
              c \in {d \in Project[<<e.stream, e.body>>] : d.key = key}} : e \in Range(LogEvents)}

\* The value a key has after the log, if it has one.
ValueOf(key) ==
    UNION {c.value : c \in {d \in ChangesOf(key) : \A e \in ChangesOf(key) : e.offset <= d.offset}}

ViewKeys == {c.key : c \in UNION Range(Project)}

\* A registered view is never stale and never holds a phantom: whenever it was
\* registered, fresh or given back, and also while or after a commit fails, its
\* rows are what the log says, each index finds a row under exactly the entries
\* of its present value, and a replay on demand gives the same view.
ViewsExact ==
    \A v \in views :
        /\ v = ReplayTo(v.cursor)
        /\ v.cursor = HeadOf(log)
        /\ v.rows = {r \in [key : ViewKeys, value : DOMAIN Indexers] : r.value \in ValueOf(r.key)}
        /\ \A entry \in UNION Range(Indexers) :
              By(v, entry) = {r \in v.rows : entry \in Indexers[r.value]}
        /\ \A p \in v.buckets : \E r \in v.rows : r.key = p.key
=============================================================================
