------------------------------- MODULE Feed ---------------------------------
(***************************************************************************)
(* The committed-batch feed (facade.rs): consumers on threads of their own *)
(* ask the one sequencer thread for pages of durable batches, sleep on the *)
(* FeedSignal when there are none, and acknowledge what they have had in a *)
(* checkpoint that is a system frame of the log.                           *)
(*                                                                         *)
(* A position is a batch: the durable head is always between two batches.  *)
(* A batch is wanted by the feed's filter or not.  A page is bounded by    *)
(* the number and the bytes of its batches, and is the set of them, for it *)
(* has them in the order of their positions.  Every page is asked for with a wait, and a   *)
(* wait may time out at any moment.  A reply is received when it is sent.  *)
(* An explicit start lies between two batches, and is not below a          *)
(* retention floor (Retention has the floors).                             *)
(***************************************************************************)
EXTENDS Naturals, Sequences, FiniteSets, SequencesExt

CONSTANTS
    Consumers,   \* threads with a feed, and its consumer_id, each
    User,        \* the thread that writes, commits, cancels and closes
    Starts,      \* positions the callers ask for in FeedRequest.from
    PageBatches, \* FeedRequest.page_batches
    MaxBatches,  \* bound on the batches ever written
    MaxAcks,     \* bound on the checkpoints of a consumer in the log, cleared ones too
    MaxCrashes,  \* bound on kills and power losses
    Nobody       \* holds the mutex when no thread does

ASSUME FeedAssumption ==
    /\ Starts \subseteq Nat
    /\ PageBatches \in Nat \ {0}
    /\ MaxBatches \in Nat /\ MaxAcks \in Nat /\ MaxCrashes \in Nat
    /\ User \notin Consumers /\ Nobody \notin Consumers

Threads == Consumers \cup {User}

VARIABLES
    log,         \* frames: batches and consumer checkpoints
    synced,      \* how many of them a power loss cannot take
    engine,      \* "down", "open", or "stopped" when the sequencer has ended
    durableHead, \* Salamander.durable_head
    feeds,       \* the FeedState behind each consumer's handle
    queue,       \* commands sent and not yet received
    publishing,  \* the thread whose command the sequencer publishes, if any
    swapped,     \* that publish has stored the head and is yet to notify
    signalHead,  \* FeedSignal.durable_head
    mutex,       \* holder of FeedSignal.generation
    closed,      \* EngineInner.closed
    pc,          \* what each thread does
    calling,     \* the command it is about to send
    rows,        \* batches of a page its caller has yet to take, as Watch.buffer
    start,       \* history: where the feed started
    given,       \* history: the pages it has brought, but for the empty ones
    taken,       \* history: ids of all batches its caller ever took from them
    passed,      \* history: ids of all batches its caller chose to go past
    trusted,     \* history: ids of batches an open found and that were not synced
    lastId, crashes

disk    == <<log, synced>>
signal  == <<signalHead, mutex>>
history == <<start, given, taken, passed, trusted>>
vars == <<disk, engine, durableHead, feeds, queue, publishing, swapped, signal, closed, pc,
          calling, rows, history, lastId, crashes>>

\* The batches among frames m to n of a log.
BatchesIn(l, m, n) == {l[i] : i \in {j \in m .. n : l[j].kind = "batch"}}

Batches(l) == BatchesIn(l, 1, Len(l))

\* The position behind the last batch.
HeadOf(l) == Max({0} \cup {b.at + 1 : b \in Batches(l)})

AcksOf(l, c) == {i \in DOMAIN l : l[i].kind \in {"ack", "clear"} /\ l[i].of = c}

\* restore_consumer_checkpoints: the last one of each consumer, or the start,
\* where a cleared one leads too.
Checkpoint(l, c) == IF AcksOf(l, c) = {} THEN 0 ELSE l[Max(AcksOf(l, c))].at

Batch == [kind : {"batch"}, id : 1 .. MaxBatches, at : 0 .. MaxBatches - 1, wanted : BOOLEAN]

Ack == [kind : {"ack"}, of : Consumers, at : 0 .. MaxBatches]
       \cup [kind : {"clear"}, of : Consumers, at : {0}]

Commands ==
    [op : {"open", "page", "again", "ack", "clear", "close_feed"}]
    \cup [op : {"append", "commit", "register", "shutdown"}]
    \cup [op : {"cancel"}, feed : Consumers]

NoFeed == [state |-> "none", continuation |-> 0]

NoCall == [op |-> "none"]

TypeOK ==
    /\ log \in Seq(Batch \cup Ack)
    /\ synced \in 0 .. Len(log)
    /\ engine \in {"down", "open", "stopped"}
    /\ durableHead \in 0 .. HeadOf(log)
    /\ signalHead \in 0 .. durableHead
    /\ feeds \in [Consumers -> [state : {"none", "open", "cancelled"}, continuation : 0 .. MaxBatches]]
    /\ \A i \in DOMAIN queue : queue[i].by \in Threads /\ queue[i].cmd \in Commands
    /\ publishing \subseteq {User}
    /\ swapped \in BOOLEAN
    /\ mutex \in Consumers \cup {Nobody}
    /\ closed \in BOOLEAN
    /\ pc \in [Threads -> {"idle", "sending", "called", "empty", "locked", "asleep", "page",
                           "woken", "notify", "closing", "joining"}]
    /\ calling \in [Threads -> Commands \cup {NoCall}]
    /\ lastId \in 0 .. MaxBatches
    /\ crashes \in 0 .. MaxCrashes

Init ==
    /\ log = <<>>
    /\ synced = 0
    /\ engine = "down"
    /\ durableHead = 0
    /\ feeds = [c \in Consumers |-> NoFeed]
    /\ queue = <<>>
    /\ publishing = {}
    /\ swapped = FALSE
    /\ signalHead = 0
    /\ mutex = Nobody
    /\ closed = FALSE
    /\ pc = [t \in Threads |-> "idle"]
    /\ calling = [t \in Threads |-> NoCall]
    /\ rows = [c \in Consumers |-> {}]
    /\ start = [c \in Consumers |-> 0]
    /\ given = [c \in Consumers |-> <<>>]
    /\ taken = [c \in Consumers |-> {}]
    /\ passed = [c \in Consumers |-> {}]
    /\ trusted = {}
    /\ lastId = 0
    /\ crashes = 0

IdsOf(bs) == {b.id : b \in bs}

----------------------------------------------------------------------------
(* Opening, calling, the sequencer's loop *)

\* Engine::open.  The core takes the scanned head for the durable head.
OpenEngine ==
    /\ engine = "down"
    /\ \A t \in Threads : pc[t] = "idle"
    /\ engine' = "open"
    /\ durableHead' = HeadOf(log)
    /\ signalHead' = HeadOf(log)
    /\ trusted' = trusted \cup IdsOf(BatchesIn(log, synced + 1, Len(log)))
    /\ UNCHANGED <<disk, feeds, queue, publishing, swapped, mutex, closed, pc, calling,
                   rows, start, given, taken, passed, lastId, crashes>>

Become(t, state) == pc' = [pc EXCEPT ![t] = state]

\* Engine::call: the engine is not closed ...
Call(t, cmd) ==
    /\ engine # "down"
    /\ pc[t] = "idle"
    /\ ~closed
    /\ Become(t, "sending")
    /\ calling' = [calling EXCEPT ![t] = cmd]
    /\ UNCHANGED <<disk, engine, durableHead, feeds, queue, publishing, swapped, signal, closed,
                   rows, history, lastId, crashes>>

\* ... and the command is sent, which fails once the receiver is dropped.
Send(t) ==
    /\ pc[t] = "sending"
    /\ IF engine = "open"
       THEN /\ queue' = Append(queue, [by |-> t, cmd |-> calling[t]])
            /\ Become(t, "called")
       ELSE UNCHANGED queue /\ Become(t, "idle")
    /\ calling' = [calling EXCEPT ![t] = NoCall]
    /\ UNCHANGED <<disk, engine, durableHead, feeds, publishing, swapped, signal, closed, rows, history, lastId, crashes>>

\* The next command in the channel is an `op` of thread t ...
Comes(t, op) ==
    /\ engine = "open"
    /\ publishing = {}
    /\ queue # <<>>
    /\ Head(queue).by = t
    /\ Head(queue).cmd.op = op

\* ... and the sequencer receives it.
Receives(t, op) == Comes(t, op) /\ queue' = Tail(queue)

\* Log and core after a commit of log l.
CommitOf(l) == synced' = Len(l) /\ durableHead' = HeadOf(l)

\* append_batch of a batch the filter wants or not, with a commit or without.
AppendBatch(t) ==
    /\ Receives(t, "append")
    /\ lastId' = lastId + 1
    /\ \E wanted, sync \in BOOLEAN :
          /\ log' = Append(log, [kind |-> "batch", id |-> lastId + 1, at |-> HeadOf(log),
                                 wanted |-> wanted])
          /\ IF sync THEN CommitOf(log') ELSE UNCHANGED <<synced, durableHead>>
    /\ publishing' = {t}
    /\ UNCHANGED <<engine, feeds, swapped, signal, closed, pc, calling, rows, history, crashes>>

Commit(t) ==
    /\ Receives(t, "commit")
    /\ CommitOf(log)
    /\ publishing' = {t}
    /\ UNCHANGED <<log, engine, feeds, swapped, signal, closed, pc, calling, rows, history, lastId, crashes>>

\* Commits that do not publish: fork, archive, the registration of a query or
\* a bootstrap, an anchor, and a commit that failed after its fsync.
CommitUnpublished(t) ==
    /\ Receives(t, "register")
    /\ CommitOf(log)
    /\ Become(t, "idle")
    /\ UNCHANGED <<log, engine, feeds, publishing, swapped, signal, closed, calling, rows, history,
                   lastId, crashes>>

\* FeedSignal::publish, first half: swap the head, return if it was the same.
PublishSwap ==
    /\ publishing # {} /\ ~swapped
    /\ signalHead' = durableHead
    /\ IF signalHead = durableHead
       THEN /\ publishing' = {}
            /\ pc' = [t \in Threads |-> IF t \in publishing THEN "idle" ELSE pc[t]]
            /\ UNCHANGED swapped
       ELSE swapped' = TRUE /\ UNCHANGED <<publishing, pc>>
    /\ UNCHANGED <<disk, engine, durableHead, feeds, queue, mutex, closed, calling, rows, history,
                   lastId, crashes>>

\* notify_all: the sleepers are awake.
Awake(states) == [t \in Threads |-> IF states[t] = "asleep" THEN "woken" ELSE states[t]]

\* Second half: lock, notify; then the command is answered.
PublishNotify ==
    /\ swapped
    /\ mutex = Nobody
    /\ pc' = Awake([t \in Threads |-> IF t \in publishing THEN "idle" ELSE pc[t]])
    /\ publishing' = {}
    /\ swapped' = FALSE
    /\ UNCHANGED <<disk, engine, durableHead, feeds, queue, signal, closed, calling, rows, history,
                   lastId, crashes>>

----------------------------------------------------------------------------
(* The feed *)

\* The wanted batches from position m on and before position n.
Wanted(m, n) == {b \in Batches(log) : b.wanted /\ b.at \in m .. n - 1}

\* OpenFeed: from where the request says, or from the consumer's checkpoint; a
\* start beyond the durable head is refused.  Whoever starts beyond the
\* checkpoint goes past what lies between.
OpenFeed(c) ==
    /\ Receives(c, "open")
    /\ \E from \in {Checkpoint(log, c)} \cup Starts :
          IF from <= durableHead
          THEN /\ feeds' = [feeds EXCEPT ![c] = [state |-> "open", continuation |-> from]]
               /\ start' = [start EXCEPT ![c] = from]
               /\ given' = [given EXCEPT ![c] = <<>>]
               /\ passed' = [passed EXCEPT ![c] = @ \cup IdsOf(Wanted(Checkpoint(log, c), from))]
          ELSE UNCHANGED <<feeds, start, given, passed>>
    /\ Become(c, "idle")
    /\ UNCHANGED <<disk, engine, durableHead, publishing, swapped, signal, closed, calling, rows,
                   taken, trusted, lastId, crashes>>

\* Of batches in the order of their positions, the first ones.
First(bs, room) == {b \in bs : Cardinality({o \in bs : o.at <= b.at}) <= room}

\* Mutant: a page goes on to the head of the log.
PageToHead(from, room) == First(Wanted(from, HeadOf(log)), room)

\* feed_page: the batches that find room ...
Page(from, room) == First(Wanted(from, durableHead), room)

\* Mutant: a page that is full still moves on to the durable head.
PageEndDurable(from, room) == durableHead

\* ... and where the next page starts: at the first wanted one that does not.
PageEnd(from, room) ==
    Max({n \in from .. durableHead : Cardinality(Wanted(from, n)) <= room})

\* NextFeedPage; an empty first page makes next_feed_page wait.  There may be
\* room for fewer batches than page_batches, as their bytes fill a page too,
\* but always for one.
FeedPage(c, op) ==
    LET from == feeds[c].continuation IN
    /\ Receives(c, op)
    /\ IF feeds[c].state = "open"
       THEN \E room \in 1 .. PageBatches :
               LET page == Page(from, room) IN
               /\ feeds' = [feeds EXCEPT ![c].continuation = PageEnd(from, room)]
               /\ given' = [given EXCEPT ![c] = IF page = {} THEN @ ELSE Append(@, page)]
               /\ rows' = [rows EXCEPT ![c] = page]
               /\ Become(c, IF page # {} THEN "page" ELSE IF op = "page" THEN "empty" ELSE "idle")
       ELSE Become(c, "idle") /\ UNCHANGED <<feeds, rows, given>>
    /\ UNCHANGED <<disk, engine, durableHead, publishing, swapped, signal, closed, calling,
                   start, taken, passed, trusted, lastId, crashes>>

\* Back with an empty page: lock, then look whether the engine was closed.
TakeMutex(c) ==
    /\ pc[c] = "empty"
    /\ mutex = Nobody
    /\ IF closed
       THEN Become(c, "idle") /\ UNCHANGED mutex
       ELSE Become(c, "locked") /\ mutex' = c
    /\ UNCHANGED <<disk, engine, durableHead, feeds, queue, publishing, swapped, signalHead, closed,
                   calling, rows, history, lastId, crashes>>

\* Mutant: a consumer sleeps without a look at the published head.
SleepAtOnce(c) ==
    /\ pc[c] = "locked"
    /\ mutex' = Nobody
    /\ Become(c, "asleep")
    /\ UNCHANGED <<disk, engine, durableHead, feeds, queue, publishing, swapped, signalHead, closed,
                   calling, rows, history, lastId, crashes>>

\* Compare the published head, and wait if there is nothing new.
CompareHead(c) ==
    /\ pc[c] = "locked"
    /\ mutex' = Nobody
    /\ Become(c, IF signalHead <= feeds[c].continuation THEN "asleep" ELSE "woken")
    /\ UNCHANGED <<disk, engine, durableHead, feeds, queue, publishing, swapped, signalHead, closed,
                   calling, rows, history, lastId, crashes>>

TimeOut(c) ==
    /\ pc[c] = "asleep"
    /\ Become(c, "idle")
    /\ UNCHANGED <<disk, engine, durableHead, feeds, queue, publishing, swapped, signal, closed,
                   calling, rows, history, lastId, crashes>>

\* Awake: unless the engine was closed, ask a second time, for whatever comes.
AskAgain(c) ==
    /\ pc[c] = "woken"
    /\ Become(c, IF closed THEN "idle" ELSE "sending")
    /\ calling' = [calling EXCEPT ![c] = IF closed THEN NoCall ELSE [op |-> "again"]]
    /\ UNCHANGED <<disk, engine, durableHead, feeds, queue, publishing, swapped, signal, closed,
                   rows, history, lastId, crashes>>

\* The caller takes a batch from its page.  Watch::__next__ does not return
\* before it has the first one.
TakeRow(c) ==
    /\ pc[c] \in {"page", "idle"}
    /\ \E b \in rows[c] :
          /\ \A o \in rows[c] : b.at <= o.at
          /\ taken' = [taken EXCEPT ![c] = @ \cup {b.id}]
          /\ rows' = [rows EXCEPT ![c] = @ \ {b}]
    /\ Become(c, "idle")
    /\ UNCHANGED <<disk, engine, durableHead, feeds, queue, publishing, swapped, signal, closed,
                   calling, start, given, passed, trusted, lastId, crashes>>

\* Mutant: the checkpoint is taken at the durable head.
AckedPositionDurable(c) == durableHead

\* AcknowledgeFeed stores where the next page starts.
AckedPosition(c) == feeds[c].continuation

\* The checkpoint is a system frame, and the commit that follows it syncs all.
\* Its caller may still have a part of the last page before it.
AcknowledgeFeed(c) ==
    LET l == Append(log, [kind |-> "ack", of |-> c, at |-> AckedPosition(c)]) IN
    /\ Receives(c, "ack")
    /\ IF feeds[c].state # "none"
       THEN log' = l /\ CommitOf(l) /\ passed' = [passed EXCEPT ![c] = @ \cup IdsOf(rows[c])]
       ELSE UNCHANGED <<disk, durableHead, passed>>
    /\ Become(c, "idle")
    /\ UNCHANGED <<engine, feeds, publishing, swapped, signal, closed, calling, rows, start, given,
                   taken, trusted, lastId, crashes>>

\* ClearConsumerCheckpoint, of a consumer with a feed or without.
ClearConsumerCheckpoint(c) ==
    LET l == Append(log, [kind |-> "clear", of |-> c, at |-> 0]) IN
    /\ Receives(c, "clear")
    /\ log' = l
    /\ CommitOf(l)
    /\ Become(c, "idle")
    /\ UNCHANGED <<engine, feeds, publishing, swapped, signal, closed, calling, rows, history,
                   lastId, crashes>>

\* CancelFeed from another thread; the caller then notifies.
CancelFeed(t) ==
    LET c == Head(queue).cmd.feed IN
    /\ Receives(t, "cancel")
    /\ feeds' = IF feeds[c].state = "none" THEN feeds ELSE [feeds EXCEPT ![c].state = "cancelled"]
    /\ Become(t, "notify")
    /\ UNCHANGED <<disk, engine, durableHead, publishing, swapped, signal, closed, calling, rows,
                   history, lastId, crashes>>

\* CloseFeed, with the same notification.
CloseFeed(c) ==
    /\ Receives(c, "close_feed")
    /\ feeds' = [feeds EXCEPT ![c] = NoFeed]
    /\ rows' = [rows EXCEPT ![c] = {}]
    /\ start' = [start EXCEPT ![c] = 0]
    /\ given' = [given EXCEPT ![c] = <<>>]
    /\ Become(c, "notify")
    /\ UNCHANGED <<disk, engine, durableHead, publishing, swapped, signal, closed, calling,
                   taken, passed, trusted, lastId, crashes>>

Notify(t) ==
    /\ pc[t] = "notify"
    /\ mutex = Nobody
    /\ pc' = Awake([pc EXCEPT ![t] = "idle"])
    /\ UNCHANGED <<disk, engine, durableHead, feeds, queue, publishing, swapped, signal, closed,
                   calling, rows, history, lastId, crashes>>

----------------------------------------------------------------------------
(* The end *)

\* Engine::close marks the engine closed, ...
Close(t) ==
    /\ engine = "open"
    /\ pc[t] = "idle"
    /\ ~closed
    /\ closed' = TRUE
    /\ Become(t, "closing")
    /\ UNCHANGED <<disk, engine, durableHead, feeds, queue, publishing, swapped, signal, calling, rows,
                   history, lastId, crashes>>

\* Mutant: close forgets the sleepers.
CloseSilently(t) ==
    /\ pc[t] = "closing"
    /\ mutex = Nobody
    /\ Become(t, "sending")
    /\ calling' = [calling EXCEPT ![t] = [op |-> "shutdown"]]
    /\ UNCHANGED <<disk, engine, durableHead, feeds, queue, publishing, swapped, signal, closed, rows,
                   history, lastId, crashes>>

\* ... notifies, and sends Shutdown, ...
CloseNotify(t) ==
    /\ pc[t] = "closing"
    /\ mutex = Nobody
    /\ pc' = Awake([pc EXCEPT ![t] = "sending"])
    /\ calling' = [calling EXCEPT ![t] = [op |-> "shutdown"]]
    /\ UNCHANGED <<disk, engine, durableHead, feeds, queue, publishing, swapped, signal, closed, rows,
                   history, lastId, crashes>>

\* ... on which the sequencer leaves its loop and drops the channel with the
\* commands still in it, whose callers find their reply channel closed.
Shutdown(t) ==
    /\ Comes(t, "shutdown")
    /\ engine' = "stopped"
    /\ queue' = <<>>
    /\ pc' = [s \in Threads |-> IF s = t THEN "joining"
                                ELSE IF pc[s] = "called" THEN "idle" ELSE pc[s]]
    /\ UNCHANGED <<disk, durableHead, feeds, publishing, swapped, signal, closed, calling, rows,
                   history, lastId, crashes>>

\* The process, or the engine in it, is gone.
Forget ==
    /\ engine' = "down"
    /\ feeds' = [c \in Consumers |-> NoFeed]
    /\ queue' = <<>>
    /\ publishing' = {}
    /\ swapped' = FALSE
    /\ mutex' = Nobody
    /\ pc' = [t \in Threads |-> "idle"]
    /\ calling' = [t \in Threads |-> NoCall]
    /\ rows' = [c \in Consumers |-> {}]
    /\ start' = [c \in Consumers |-> 0]
    /\ given' = [c \in Consumers |-> <<>>]
    /\ durableHead' = 0
    /\ signalHead' = 0
    /\ closed' = FALSE

\* close returns, and all other calls have: the application may open again.
Closed(t) ==
    /\ engine = "stopped"
    /\ pc[t] = "joining"
    /\ \A s \in Threads \ {t} : pc[s] = "idle"
    /\ Forget
    /\ UNCHANGED <<disk, taken, passed, trusted, lastId, crashes>>

Kill ==
    /\ engine # "down"
    /\ crashes < MaxCrashes
    /\ crashes' = crashes + 1
    /\ Forget
    /\ UNCHANGED <<disk, taken, passed, trusted, lastId>>

PowerLoss ==
    /\ crashes < MaxCrashes
    /\ crashes' = crashes + 1
    /\ \E n \in synced .. Len(log) : log' = SubSeq(log, 1, n) /\ synced' = n
    /\ Forget
    /\ UNCHANGED <<taken, passed, trusted, lastId>>

----------------------------------------------------------------------------

\* What consumers and the user may ask for.
Asks(c) ==
    {cmd \in [op : {"open", "page", "ack", "clear", "close_feed"}] :
        /\ cmd.op = "open" => feeds[c].state # "open"
        /\ cmd.op \notin {"open", "clear"} => feeds[c].state # "none"
        /\ cmd.op = "page" => rows[c] = {}
        /\ cmd.op = "ack" => feeds[c].continuation # Checkpoint(log, c)
        /\ cmd.op = "clear" => Checkpoint(log, c) # 0
        /\ cmd.op \in {"ack", "clear"} => Cardinality(AcksOf(log, c)) < MaxAcks}

UserAsks ==
    {cmd \in Commands : /\ cmd.op \in {"append", "commit", "register", "cancel"}
                        /\ cmd.op = "append" => lastId < MaxBatches
                        /\ cmd.op = "cancel" => feeds[cmd.feed].state = "open"}

Calls ==
    \/ \E c \in Consumers : \E cmd \in Asks(c) : Call(c, cmd)
    \/ \E cmd \in UserAsks : Call(User, cmd)

\* The steps of the sequencer thread.
Sequencer ==
    \/ AppendBatch(User) \/ Commit(User) \/ CommitUnpublished(User)
    \/ PublishSwap \/ PublishNotify
    \/ CancelFeed(User) \/ Shutdown(User)
    \/ \E c \in Consumers : \/ OpenFeed(c) \/ FeedPage(c, "page") \/ FeedPage(c, "again")
                            \/ AcknowledgeFeed(c) \/ ClearConsumerCheckpoint(c)
                            \/ CloseFeed(c)

\* The steps of a thread.
Step(t) ==
    \/ Send(t) \/ Notify(t) \/ CloseNotify(t) \/ Closed(t)
    \/ t \in Consumers /\ (TakeMutex(t) \/ CompareHead(t) \/ AskAgain(t) \/ TakeRow(t))

Next ==
    \/ OpenEngine \/ Calls \/ Close(User) \/ Sequencer
    \/ \E t \in Threads : Step(t)
    \/ \E c \in Consumers : TimeOut(c)
    \/ Kill \/ PowerLoss

\* The threads of the library run, and the mutex, held for a few instructions
\* at a time, is not withheld for ever from one that waits for it.  Nothing
\* makes a caller call, a wait time out, or an engine open.
Fairness ==
    /\ SF_vars(Sequencer)
    /\ \A t \in Threads : SF_vars(pc[t] # "idle" /\ Step(t))

Spec == Init /\ [][Next]_vars /\ Fairness

----------------------------------------------------------------------------

\* The pages of a feed, one after the other, are exactly the wanted batches
\* from where it started to where it continues: full pages, waits, time-outs
\* and second requests leave out nothing and bring nothing twice.
PagesAreExact ==
    \A c \in Consumers : feeds[c].state # "none" =>
        /\ UNION Range(given[c]) = Wanted(start[c], feeds[c].continuation)
        /\ \A i, j \in DOMAIN given[c] :
              i < j => \A a \in given[c][i], b \in given[c][j] : a.at < b.at

\* A feed shows no batch that is only buffered, except the ones an open found
\* in the page cache of a killed process and took for durable.
OnlyDurable ==
    \A c \in Consumers :
        IdsOf(UNION Range(given[c])) \subseteq IdsOf(BatchesIn(log, 1, synced)) \cup trusted

\* At least once: whatever a consumer that resumes from its checkpoint does not
\* see again, its caller has taken, in this life of the process or an earlier
\* one, or has itself gone past: it had the batch in its hands when it
\* acknowledged, or had opened a feed beyond it.
AckedWereTaken ==
    \A c \in Consumers : IdsOf(Wanted(0, Checkpoint(log, c))) \subseteq taken[c] \cup passed[c]

\* Every checkpoint is one of batches that were taken: "a later watch with the
\* same consumer_id resumes here".  The code does not see to it.
AckedWereTakenAlways ==
    \A c \in Consumers : IdsOf(Wanted(0, Checkpoint(log, c))) \subseteq taken[c]

\* No wake-up is lost between the check and the wait: a consumer sleeps on a
\* published head it has not seen, or in a closed engine, only while the
\* thread that changed it is on its way to notify.
SleepersAreNotified ==
    \A c \in Consumers : pc[c] = "asleep" =>
        /\ signalHead <= feeds[c].continuation \/ swapped
        /\ closed => pc[User] = "closing"

\* A published batch reaches a sleeper without help of its time-out.
PublishedWakes ==
    \A c \in Consumers :
        pc[c] = "asleep" /\ signalHead > feeds[c].continuation ~> pc[c] # "asleep"

\* close comes to an end, and so do all calls that race with it.
CloseEnds == closed ~> engine = "down"
=============================================================================
