----------------------------- MODULE FeedProofs ------------------------------
(***************************************************************************)
(* For any number of consumers, batches, checkpoints and crashes, and any  *)
(* page size: no wake-up of a waiting consumer is lost (WakeInv), and the  *)
(* pages of a feed bring every durable batch once, and behind a checkpoint *)
(* are only batches that were taken or gone past (PagesInv).               *)
(*                                                                         *)
(* Two things keep wake-ups: the consumer compares the published head      *)
(* under the mutex the notification takes, and a thread has at most one    *)
(* command with the sequencer, so that nothing happens to the feed of a    *)
(* thread asleep.                                                          *)
(***************************************************************************)
EXTENDS Feed, TLAPS, FiniteSetTheorems

PcStates == {"idle", "sending", "called", "empty", "locked", "asleep", "page",
             "woken", "notify", "closing", "joining"}

Message == [by : Threads, cmd : Commands \cup {NoCall}]

\* Positions have no type here: they are compared as they come.
AreFeeds ==
    feeds = [c \in Consumers |->
                [state |-> feeds[c].state, continuation |-> feeds[c].continuation]]

\* The types the argument needs.
Typed ==
    /\ pc \in [Threads -> PcStates]
    /\ calling \in [Threads -> Commands \cup {NoCall}]
    /\ queue \in Seq(Message)
    /\ AreFeeds
    /\ publishing \subseteq {User}
    /\ swapped \in BOOLEAN
    /\ closed \in BOOLEAN

\* A thread whose command is in the queue, or is being published, waits for
\* its reply, and has no other command there.
OneCommandEach ==
    /\ \A i \in 1 .. Len(queue) :
          /\ pc[queue[i].by] = "called"
          /\ queue[i].by \notin publishing
          /\ \A j \in 1 .. Len(queue) : queue[i].by = queue[j].by => i = j
    /\ \A t \in publishing : pc[t] = "called"

\* A consumer between its look at the engine and its wait holds the mutex.
LockedHold ==
    \A c \in Consumers : pc[c] = "locked" => mutex = c /\ (closed => pc[User] = "closing")

WakeInv == Typed /\ OneCommandEach /\ LockedHold /\ SleepersAreNotified

----------------------------------------------------------------------------
(* What the steps that touch the queue have in common *)

\* Receiving the command of t: t was waiting for it, and no other command in
\* the queue is of t.
LEMMA Received ==
    ASSUME WakeInv, NEW t, NEW op, Receives(t, op)
    PROVE  /\ t \in Threads /\ pc[t] = "called" /\ t \notin publishing
           /\ Head(queue) \in Message
           /\ queue' \in Seq(Message)
           /\ \A i \in 1 .. Len(queue') :
                 /\ queue'[i].by # t
                 /\ pc[queue'[i].by] = "called"
                 /\ \A j \in 1 .. Len(queue') : queue'[i].by = queue'[j].by => i = j
  <1>1. queue \in Seq(Message) /\ queue # <<>> /\ Head(queue).by = t /\ queue' = Tail(queue)
    BY DEF WakeInv, Typed, Receives, Comes
  <1>2. Len(queue) \in Nat \ {0} /\ queue[1] = Head(queue) /\ queue[1] \in Message
    BY <1>1
  <1>3. pc[t] = "called" /\ t \notin publishing
    BY <1>1, <1>2 DEF WakeInv, OneCommandEach
  <1>4. t \in Threads
    BY <1>1, <1>2 DEF Message
  <1>5. /\ queue' \in Seq(Message)
        /\ Len(queue') = Len(queue) - 1
        /\ \A i \in 1 .. Len(queue') : queue'[i] = queue[i + 1]
    BY <1>1, <1>2
  <1>6. ASSUME NEW i \in 1 .. Len(queue')
        PROVE  /\ queue'[i].by # t
               /\ pc[queue'[i].by] = "called"
               /\ \A j \in 1 .. Len(queue') : queue'[i].by = queue'[j].by => i = j
    <2>1. i + 1 \in 1 .. Len(queue) /\ 1 \in 1 .. Len(queue) /\ i + 1 # 1
      BY <1>2, <1>5
    <2>2. \A j \in 1 .. Len(queue') : j + 1 \in 1 .. Len(queue) /\ (i + 1 = j + 1 => i = j)
      BY <1>2, <1>5
    <2>3. queue[i + 1].by # t /\ pc[queue[i + 1].by] = "called"
      BY <1>1, <1>2, <2>1 DEF WakeInv, OneCommandEach
    <2>4. \A j \in 1 .. Len(queue') : queue[i + 1].by = queue[j + 1].by => i = j
      BY <2>1, <2>2 DEF WakeInv, OneCommandEach
    <2> QED BY <1>5, <2>3, <2>4
  <1> QED BY <1>2, <1>3, <1>4, <1>5, <1>6

\* A step that answers one command and moves only its thread.
LEMMA Answered ==
    ASSUME WakeInv, NEW t, NEW op, Receives(t, op),
           NEW state \in PcStates \ {"locked", "asleep"},
           pc' = [pc EXCEPT ![t] = state],
           UNCHANGED <<publishing, swapped, signalHead, mutex, closed, calling>>,
           AreFeeds',
           \A c \in Consumers \ {t} : feeds'[c].continuation = feeds[c].continuation
    PROVE  WakeInv'
  <1>1. /\ t \in Threads /\ pc[t] = "called" /\ t \notin publishing
        /\ queue' \in Seq(Message)
        /\ \A i \in 1 .. Len(queue') :
              /\ queue'[i].by # t
              /\ pc[queue'[i].by] = "called"
              /\ \A j \in 1 .. Len(queue') : queue'[i].by = queue'[j].by => i = j
    BY Received
  <1>2. /\ pc' \in [Threads -> PcStates]
        /\ \A s \in Threads \ {t} : pc'[s] = pc[s]
        /\ pc'[t] = state
    BY <1>1 DEF WakeInv, Typed
  <1>3. \A i \in 1 .. Len(queue') : queue'[i].by \in Threads
    <2>1. \A i \in 1 .. Len(queue') : queue'[i] \in Message
      BY <1>1
    <2> QED BY <2>1 DEF Message
  <1>4. Typed'
    BY <1>1, <1>2 DEF WakeInv, Typed, AreFeeds
  <1>5. \A i \in 1 .. Len(queue') : queue'[i].by \notin publishing
    <2> SUFFICES ASSUME NEW i \in 1 .. Len(queue') PROVE queue'[i].by \notin publishing
      OBVIOUS
    <2>1. \E k \in 1 .. Len(queue) : queue'[i] = queue[k]
      <3>1. queue \in Seq(Message) /\ queue # <<>> /\ queue' = Tail(queue)
        BY DEF WakeInv, Typed, Receives, Comes
      <3> QED BY <3>1
    <2> QED BY <2>1 DEF WakeInv, OneCommandEach
  <1>6. publishing \subseteq Threads
    BY DEF WakeInv, Typed, Threads
  <1>7. OneCommandEach'
    BY <1>1, <1>2, <1>3, <1>5, <1>6 DEF WakeInv, OneCommandEach
  <1>8. User \in Threads /\ Consumers \subseteq Threads
    BY DEF Threads
  <1>9. \A c \in Consumers : pc'[c] \in {"locked", "asleep"} => c # t /\ pc'[c] = pc[c]
    BY <1>2, <1>8
  <1>10. pc[User] = "closing" => pc'[User] = "closing"
    BY <1>1, <1>2, <1>8
  <1>11. LockedHold'
    BY <1>9, <1>10 DEF WakeInv, LockedHold
  <1>12. SleepersAreNotified'
    BY <1>9, <1>10 DEF WakeInv, SleepersAreNotified
  <1> QED BY <1>4, <1>7, <1>11, <1>12 DEF WakeInv

\* A step of one thread that leaves queue, feeds and signal as they are.
LEMMA Moved ==
    ASSUME WakeInv, NEW t \in Threads, pc[t] \notin {"called", "closing"},
           NEW state \in PcStates \ {"called", "locked", "asleep"},
           pc' = [pc EXCEPT ![t] = state],
           calling' \in [Threads -> Commands \cup {NoCall}],
           UNCHANGED <<queue, feeds, publishing, swapped, signalHead, mutex, closed>>
    PROVE  WakeInv'
  <1>1. /\ pc' \in [Threads -> PcStates]
        /\ \A s \in Threads \ {t} : pc'[s] = pc[s]
        /\ pc'[t] = state
    BY DEF WakeInv, Typed
  <1>2. Typed'
    BY <1>1 DEF WakeInv, Typed, AreFeeds
  <1>3. /\ \A i \in 1 .. Len(queue) : queue[i].by \in Threads /\ queue[i].by # t
        /\ \A s \in publishing : s \in Threads /\ s # t
    <2>1. \A i \in 1 .. Len(queue) : queue[i] \in Message
      BY DEF WakeInv, Typed
    <2> QED BY <2>1 DEF WakeInv, Typed, OneCommandEach, Message, Threads
  <1>4. OneCommandEach'
    BY <1>1, <1>3 DEF WakeInv, OneCommandEach
  <1>5. User \in Threads /\ Consumers \subseteq Threads
    BY DEF Threads
  <1>6. /\ \A c \in Consumers : pc'[c] \in {"locked", "asleep"} => c # t /\ pc'[c] = pc[c]
        /\ pc[User] = "closing" => pc'[User] = "closing"
    BY <1>1, <1>5
  <1>7. LockedHold'
    BY <1>6 DEF WakeInv, LockedHold
  <1>8. SleepersAreNotified'
    BY <1>6 DEF WakeInv, SleepersAreNotified
  <1> QED BY <1>2, <1>4, <1>7, <1>8 DEF WakeInv

\* A notification: nobody is locked, for the mutex is free, and nobody sleeps
\* on.  The thread that notifies goes on to a state of its own.
LEMMA Notified ==
    ASSUME WakeInv, mutex = Nobody,
           NEW S \in SUBSET Threads, NEW state \in PcStates \ {"called", "locked", "asleep"},
           pc' = Awake([t \in Threads |-> IF t \in S THEN state ELSE pc[t]]),
           calling' \in [Threads -> Commands \cup {NoCall}],
           \A t \in S : pc[t] # "called" \/ t \in publishing,
           publishing' = {} \/ (publishing' = publishing /\ \A t \in S : pc[t] # "called"),
           swapped' \in BOOLEAN,
           UNCHANGED <<queue, feeds, signalHead, mutex, closed>>
    PROVE  WakeInv'
  <1>1. \A t \in Threads :
            /\ pc'[t] \in PcStates \ {"asleep"}
            /\ pc'[t] = "locked" => pc[t] = "locked"
            /\ pc[t] = "called" /\ t \notin S => pc'[t] = "called"
    BY DEF WakeInv, Typed, Awake, PcStates
  <1>2. pc' \in [Threads -> PcStates]
    BY <1>1 DEF Awake
  <1>3. Typed'
    BY <1>2 DEF WakeInv, Typed, AreFeeds
  <1>4. /\ \A i \in 1 .. Len(queue) : queue[i].by \in Threads /\ queue[i].by \notin S
        /\ \A t \in publishing' : t \in Threads /\ t \notin S /\ t \in publishing
    <2>1. \A i \in 1 .. Len(queue) : queue[i] \in Message
      BY DEF WakeInv, Typed
    <2> QED BY <2>1 DEF WakeInv, Typed, OneCommandEach, Message, Threads
  <1>5. OneCommandEach'
    BY <1>1, <1>4 DEF WakeInv, OneCommandEach
  <1>6. \A c \in Consumers : c \in Threads /\ pc'[c] # "asleep" /\ pc'[c] # "locked"
    <2>1. \A c \in Consumers : c \in Threads /\ pc[c] # "locked"
      BY FeedAssumption DEF WakeInv, LockedHold, Threads
    <2> QED BY <1>1, <2>1
  <1> QED BY <1>3, <1>5, <1>6 DEF WakeInv, LockedHold, SleepersAreNotified

----------------------------------------------------------------------------
(* One lemma per action *)

LEMMA ThreadsHave == User \in Threads /\ Consumers \subseteq Threads
  BY DEF Threads

LEMMA InitInv == ASSUME Init PROVE WakeInv
  <1>1. Typed
    <2>1. calling \in [Threads -> Commands \cup {NoCall}] /\ queue \in Seq(Message)
      BY DEF Init
    <2>2. pc \in [Threads -> PcStates] /\ AreFeeds
      BY DEF Init, PcStates, AreFeeds, NoFeed
    <2> QED BY <2>1, <2>2 DEF Init, Typed
  <1>2. OneCommandEach
    BY DEF Init, OneCommandEach
  <1>3. \A c \in Consumers : pc[c] = "idle"
    BY ThreadsHave DEF Init
  <1> QED BY <1>1, <1>2, <1>3 DEF WakeInv, LockedHold, SleepersAreNotified

\* All threads are idle in a new process; the engine is not closed.
LEMMA FreshInv ==
    ASSUME pc' = [t \in Threads |-> "idle"], queue' = <<>>, publishing' = {},
           calling' \in [Threads -> Commands \cup {NoCall}],
           AreFeeds', swapped' \in BOOLEAN, closed' \in BOOLEAN
    PROVE  WakeInv'
  <1>1. Typed'
    BY DEF Typed, AreFeeds, PcStates
  <1>2. OneCommandEach'
    BY DEF OneCommandEach
  <1>3. \A c \in Consumers : pc'[c] = "idle"
    BY ThreadsHave
  <1> QED BY <1>1, <1>2, <1>3 DEF WakeInv, LockedHold, SleepersAreNotified

LEMMA ForgetInv == ASSUME Forget PROVE WakeInv'
  <1>1. AreFeeds' /\ calling' \in [Threads -> Commands \cup {NoCall}]
    BY DEF Forget, AreFeeds, NoFeed
  <1> QED BY <1>1, FreshInv DEF Forget

LEMMA OpenEngineInv == ASSUME WakeInv, OpenEngine PROVE WakeInv'
  <1>1. /\ UNCHANGED <<feeds, queue, publishing, swapped, mutex, closed, pc, calling>>
        /\ \A t \in Threads : pc[t] = "idle"
    BY DEF OpenEngine
  <1>2. Typed' /\ OneCommandEach'
    BY <1>1 DEF WakeInv, Typed, AreFeeds, OneCommandEach
  <1>3. \A c \in Consumers : pc'[c] = "idle"
    BY <1>1, ThreadsHave
  <1> QED BY <1>2, <1>3 DEF WakeInv, LockedHold, SleepersAreNotified

LEMMA CallInv ==
    ASSUME WakeInv, NEW t \in Threads, NEW cmd \in Commands, Call(t, cmd) PROVE WakeInv'
  <1>1. calling' \in [Threads -> Commands \cup {NoCall}]
    BY DEF WakeInv, Typed, Call
  <1>2. "sending" \in PcStates \ {"called", "locked", "asleep"}
    BY DEF PcStates
  <1> QED BY <1>1, <1>2, Moved DEF Call, Become, signal

LEMMA CallsInv == ASSUME WakeInv, Calls PROVE WakeInv'
  <1>1. ASSUME NEW c \in Consumers, NEW cmd \in Asks(c), Call(c, cmd) PROVE WakeInv'
    <2>1. cmd \in Commands
      BY DEF Asks, Commands
    <2> QED BY <1>1, <2>1, CallInv, ThreadsHave
  <1>2. ASSUME NEW cmd \in UserAsks, Call(User, cmd) PROVE WakeInv'
    <2>1. cmd \in Commands
      BY DEF UserAsks
    <2> QED BY <1>2, <2>1, CallInv, ThreadsHave
  <1> QED BY <1>1, <1>2 DEF Calls

LEMMA SendInv == ASSUME WakeInv, NEW t \in Threads, Send(t) PROVE WakeInv'
  <1>1. pc[t] = "sending" /\ calling' \in [Threads -> Commands \cup {NoCall}]
    BY DEF WakeInv, Typed, Send
  <1>2. CASE engine # "open"
    <2>1. "idle" \in PcStates \ {"called", "locked", "asleep"}
      BY DEF PcStates
    <2> QED BY <1>1, <1>2, <2>1, Moved DEF Send, Become, signal
  <1>3. CASE engine = "open"
    <2> DEFINE msg == [by |-> t, cmd |-> calling[t]]
    <2>1. /\ queue' = Append(queue, msg)
          /\ pc' = [pc EXCEPT ![t] = "called"]
          /\ UNCHANGED <<feeds, publishing, swapped, signalHead, mutex, closed>>
      BY <1>3 DEF Send, Become, signal
    <2>2. msg \in Message
      BY DEF WakeInv, Typed, Message
    <2>3. queue \in Seq(Message) /\ msg.by = t
      BY DEF WakeInv, Typed
    <2> HIDE DEF msg
    <2>4. /\ queue' \in Seq(Message)
          /\ Len(queue') = Len(queue) + 1
          /\ Len(queue) \in Nat
          /\ \A i \in 1 .. Len(queue) : queue'[i] = queue[i] /\ queue[i] \in Message
          /\ queue'[Len(queue) + 1] = msg
      BY <2>1, <2>2, <2>3
    <2>5. /\ pc' \in [Threads -> PcStates]
          /\ \A s \in Threads \ {t} : pc'[s] = pc[s]
          /\ pc'[t] = "called"
      BY <2>1 DEF WakeInv, Typed, PcStates
    <2>6. Typed'
      BY <1>1, <2>1, <2>4, <2>5 DEF WakeInv, Typed, AreFeeds
    <2>7. /\ \A i \in 1 .. Len(queue) : queue[i].by \in Threads \ {t}
          /\ \A s \in publishing : s \in Threads \ {t}
      BY <1>1, <2>4 DEF WakeInv, Typed, OneCommandEach, Message, Threads
    <2>8. \A i \in 1 .. Len(queue') : i \in 1 .. Len(queue) \/ i = Len(queue) + 1
      BY <2>4
    <2>9. OneCommandEach'
      <3>1. ASSUME NEW i \in 1 .. Len(queue')
            PROVE  pc'[queue'[i].by] = "called" /\ queue'[i].by \notin publishing'
        BY <2>1, <2>3, <2>4, <2>5, <2>7, <2>8 DEF WakeInv, OneCommandEach
      <3>2. ASSUME NEW i \in 1 .. Len(queue'), NEW j \in 1 .. Len(queue'),
                   queue'[i].by = queue'[j].by
            PROVE  i = j
        BY <2>3, <2>4, <2>7, <2>8, <3>2 DEF WakeInv, OneCommandEach
      <3>3. \A s \in publishing' : pc'[s] = "called"
        BY <2>1, <2>5, <2>7 DEF WakeInv, OneCommandEach
      <3> QED BY <3>1, <3>2, <3>3 DEF OneCommandEach
    <2>10. /\ \A c \in Consumers : pc'[c] \in {"locked", "asleep"} => c # t /\ pc'[c] = pc[c]
           /\ pc[User] = "closing" => pc'[User] = "closing"
      BY <1>1, <2>5, ThreadsHave
    <2>11. LockedHold' /\ SleepersAreNotified'
      BY <2>1, <2>10 DEF WakeInv, LockedHold, SleepersAreNotified
    <2> QED BY <2>6, <2>9, <2>11 DEF WakeInv
  <1> QED BY <1>2, <1>3

\* The command is received and its answer waits for the publication.
LEMMA PublishingInv ==
    ASSUME WakeInv, NEW op, Receives(User, op), publishing' = {User},
           UNCHANGED <<feeds, swapped, signalHead, mutex, closed, pc, calling>>
    PROVE  WakeInv'
  <1>1. /\ pc[User] = "called"
        /\ queue' \in Seq(Message)
        /\ \A i \in 1 .. Len(queue') :
              /\ queue'[i].by # User
              /\ pc[queue'[i].by] = "called"
              /\ \A j \in 1 .. Len(queue') : queue'[i].by = queue'[j].by => i = j
    BY Received
  <1>2. Typed'
    BY <1>1 DEF WakeInv, Typed, AreFeeds
  <1>3. OneCommandEach'
    BY <1>1 DEF OneCommandEach
  <1> QED BY <1>2, <1>3 DEF WakeInv, LockedHold, SleepersAreNotified

LEMMA AppendBatchInv == ASSUME WakeInv, AppendBatch(User) PROVE WakeInv'
  BY PublishingInv DEF AppendBatch, signal

LEMMA CommitInv == ASSUME WakeInv, Commit(User) PROVE WakeInv'
  BY PublishingInv DEF Commit, signal

LEMMA CommitUnpublishedInv == ASSUME WakeInv, CommitUnpublished(User) PROVE WakeInv'
  <1>1. "idle" \in PcStates \ {"locked", "asleep"} /\ AreFeeds'
    BY DEF PcStates, CommitUnpublished, WakeInv, Typed, AreFeeds
  <1> QED BY <1>1, Answered DEF CommitUnpublished, Become, signal

LEMMA PublishSwapInv == ASSUME WakeInv, PublishSwap PROVE WakeInv'
  <1>1. CASE signalHead = durableHead
    <2> DEFINE idled == [t \in Threads |-> IF t \in publishing THEN "idle" ELSE pc[t]]
    <2>1. /\ publishing' = {} /\ pc' = idled /\ signalHead' = signalHead
          /\ UNCHANGED <<feeds, queue, swapped, mutex, closed, calling>>
      BY <1>1 DEF PublishSwap
    <2>2. /\ pc' \in [Threads -> PcStates]
          /\ \A t \in Threads \ publishing : pc'[t] = pc[t]
          /\ \A t \in Threads \cap publishing : pc'[t] = "idle" /\ pc[t] = "called"
      BY <2>1 DEF WakeInv, Typed, OneCommandEach, PcStates
    <2>3. Typed'
      BY <2>1, <2>2 DEF WakeInv, Typed, AreFeeds
    <2>4. \A i \in 1 .. Len(queue) : queue[i].by \in Threads \ publishing
      <3>1. \A i \in 1 .. Len(queue) : queue[i] \in Message
        BY DEF WakeInv, Typed
      <3> QED BY <3>1 DEF WakeInv, OneCommandEach, Message
    <2>5. OneCommandEach'
      BY <2>1, <2>2, <2>4 DEF WakeInv, OneCommandEach
    <2>6. /\ \A c \in Consumers : pc'[c] \in {"locked", "asleep"} => pc'[c] = pc[c]
          /\ pc[User] = "closing" => pc'[User] = "closing"
      BY <2>2, ThreadsHave
    <2>7. LockedHold' /\ SleepersAreNotified'
      BY <2>1, <2>6 DEF WakeInv, LockedHold, SleepersAreNotified
    <2> QED BY <2>3, <2>5, <2>7 DEF WakeInv
  <1>2. CASE signalHead # durableHead
    <2>1. swapped' /\ UNCHANGED <<feeds, queue, publishing, mutex, closed, calling, pc>>
      BY <1>2 DEF PublishSwap
    <2>2. Typed' /\ OneCommandEach' /\ LockedHold'
      BY <1>2, <2>1 DEF WakeInv, Typed, AreFeeds, OneCommandEach, LockedHold, PublishSwap
    <2> QED BY <2>1, <2>2 DEF WakeInv, SleepersAreNotified
  <1> QED BY <1>1, <1>2

LEMMA PublishNotifyInv == ASSUME WakeInv, PublishNotify PROVE WakeInv'
  <1>1. publishing \in SUBSET Threads /\ swapped' \in BOOLEAN
    BY ThreadsHave DEF WakeInv, Typed, PublishNotify
  <1>2. "idle" \in PcStates \ {"called", "locked", "asleep"}
    BY DEF PcStates
  <1>3. calling' \in [Threads -> Commands \cup {NoCall}]
    BY DEF WakeInv, Typed, PublishNotify
  <1> QED BY <1>1, <1>2, <1>3, Notified DEF PublishNotify, signal

LEMMA OpenFeedInv == ASSUME WakeInv, NEW c \in Consumers, OpenFeed(c) PROVE WakeInv'
  <1>1. "idle" \in PcStates \ {"locked", "asleep"}
    BY DEF PcStates
  <1>2. AreFeeds' /\ \A d \in Consumers \ {c} : feeds'[d] = feeds[d]
    BY DEF WakeInv, Typed, AreFeeds, OpenFeed
  <1> QED BY <1>1, <1>2, Answered DEF OpenFeed, Become, signal

LEMMA FeedPageInv ==
    ASSUME WakeInv, NEW c \in Consumers, NEW op, FeedPage(c, op) PROVE WakeInv'
  <1>1. PICK state \in {"page", "empty", "idle"} : pc' = [pc EXCEPT ![c] = state]
    BY DEF FeedPage, Become
  <1>2. state \in PcStates \ {"locked", "asleep"}
    BY DEF PcStates
  <1>3. AreFeeds' /\ \A d \in Consumers \ {c} : feeds'[d] = feeds[d]
    BY DEF WakeInv, Typed, AreFeeds, FeedPage
  <1> QED BY <1>1, <1>2, <1>3, Answered DEF FeedPage, signal

LEMMA AcknowledgeFeedInv ==
    ASSUME WakeInv, NEW c \in Consumers, AcknowledgeFeed(c) PROVE WakeInv'
  <1>1. "idle" \in PcStates \ {"locked", "asleep"} /\ AreFeeds'
    BY DEF PcStates, AcknowledgeFeed, WakeInv, Typed, AreFeeds
  <1> QED BY <1>1, Answered DEF AcknowledgeFeed, Become, signal

LEMMA ClearInv ==
    ASSUME WakeInv, NEW c \in Consumers, ClearConsumerCheckpoint(c) PROVE WakeInv'
  <1>1. "idle" \in PcStates \ {"locked", "asleep"} /\ AreFeeds'
    BY DEF PcStates, ClearConsumerCheckpoint, WakeInv, Typed, AreFeeds
  <1> QED BY <1>1, Answered DEF ClearConsumerCheckpoint, Become, signal

LEMMA CancelFeedInv == ASSUME WakeInv, CancelFeed(User) PROVE WakeInv'
  <1>1. "notify" \in PcStates \ {"locked", "asleep"}
    BY DEF PcStates
  <1>2. AreFeeds
    BY DEF WakeInv, Typed
  <1>3. PICK c : feeds' \in {feeds, [feeds EXCEPT ![c].state = "cancelled"]}
    BY DEF CancelFeed
  <1>4. ASSUME NEW d \in Consumers
        PROVE  feeds'[d] = [state |-> feeds'[d].state, continuation |-> feeds[d].continuation]
    BY <1>2, <1>3 DEF AreFeeds
  <1>5. feeds' = [d \in Consumers |-> feeds'[d]]
    BY <1>2, <1>3 DEF AreFeeds
  <1>6. AreFeeds' /\ \A d \in Consumers : feeds'[d].continuation = feeds[d].continuation
    BY <1>4, <1>5 DEF AreFeeds
  <1> QED BY <1>1, <1>6, Answered DEF CancelFeed, Become, signal

LEMMA CloseFeedInv == ASSUME WakeInv, NEW c \in Consumers, CloseFeed(c) PROVE WakeInv'
  <1>1. "notify" \in PcStates \ {"locked", "asleep"}
    BY DEF PcStates
  <1>2. AreFeeds' /\ \A d \in Consumers \ {c} : feeds'[d] = feeds[d]
    BY DEF WakeInv, Typed, AreFeeds, CloseFeed, NoFeed
  <1> QED BY <1>1, <1>2, Answered DEF CloseFeed, Become, signal

LEMMA TakeMutexInv == ASSUME WakeInv, NEW c \in Consumers, TakeMutex(c) PROVE WakeInv'
  <1>1. pc[c] = "empty" /\ mutex = Nobody /\ c \in Threads
    BY ThreadsHave DEF TakeMutex
  <1>2. CASE closed
    <2>1. "idle" \in PcStates \ {"called", "locked", "asleep"}
      BY DEF PcStates
    <2>2. calling' \in [Threads -> Commands \cup {NoCall}]
      BY DEF WakeInv, Typed, TakeMutex
    <2> QED BY <1>1, <1>2, <2>1, <2>2, Moved DEF TakeMutex, Become
  <1>3. CASE ~closed
    <2>1. /\ pc' = [pc EXCEPT ![c] = "locked"] /\ mutex' = c
          /\ UNCHANGED <<feeds, queue, publishing, swapped, signalHead, closed, calling>>
      BY <1>3 DEF TakeMutex, Become
    <2>2. /\ pc' \in [Threads -> PcStates]
          /\ \A s \in Threads \ {c} : pc'[s] = pc[s]
          /\ pc'[c] = "locked"
      BY <1>1, <2>1 DEF WakeInv, Typed, PcStates
    <2>3. Typed'
      BY <2>1, <2>2 DEF WakeInv, Typed, AreFeeds
    <2>4. /\ \A i \in 1 .. Len(queue) : queue[i].by \in Threads \ {c}
          /\ \A s \in publishing : s \in Threads \ {c}
      <3>1. \A i \in 1 .. Len(queue) : queue[i] \in Message
        BY DEF WakeInv, Typed
      <3> QED BY <1>1, <3>1 DEF WakeInv, Typed, OneCommandEach, Message, Threads
    <2>5. OneCommandEach'
      BY <2>1, <2>2, <2>4 DEF WakeInv, OneCommandEach
    <2>6. \A d \in Consumers : pc[d] # "locked"
      BY <1>1, FeedAssumption DEF WakeInv, LockedHold
    <2>7. LockedHold'
      BY <1>3, <2>1, <2>2, <2>6, ThreadsHave DEF LockedHold
    <2>8. SleepersAreNotified'
      BY <1>3, <2>1, <2>2, ThreadsHave DEF WakeInv, SleepersAreNotified
    <2> QED BY <2>3, <2>5, <2>7, <2>8 DEF WakeInv
  <1> QED BY <1>2, <1>3

\* The look and the wait: what the consumer saw under the mutex still holds.
LEMMA CompareHeadInv == ASSUME WakeInv, NEW c \in Consumers, CompareHead(c) PROVE WakeInv'
  <1>1. /\ pc[c] = "locked" /\ mutex = c /\ mutex' = Nobody /\ c \in Threads
        /\ UNCHANGED <<feeds, queue, publishing, swapped, signalHead, closed, calling>>
    BY ThreadsHave DEF WakeInv, LockedHold, CompareHead
  <1>2. /\ pc' \in [Threads -> PcStates]
        /\ \A s \in Threads \ {c} : pc'[s] = pc[s]
        /\ pc'[c] = IF signalHead <= feeds[c].continuation THEN "asleep" ELSE "woken"
    BY <1>1 DEF WakeInv, Typed, PcStates, CompareHead, Become
  <1>3. Typed'
    BY <1>1, <1>2 DEF WakeInv, Typed, AreFeeds
  <1>4. /\ \A i \in 1 .. Len(queue) : queue[i].by \in Threads \ {c}
        /\ \A s \in publishing : s \in Threads \ {c}
    <2>1. \A i \in 1 .. Len(queue) : queue[i] \in Message
      BY DEF WakeInv, Typed
    <2> QED BY <1>1, <2>1 DEF WakeInv, Typed, OneCommandEach, Message, Threads
  <1>5. OneCommandEach'
    BY <1>1, <1>2, <1>4 DEF WakeInv, OneCommandEach
  <1>6. \A d \in Consumers : d # c => pc[d] # "locked"
    BY <1>1 DEF WakeInv, LockedHold
  <1>7. LockedHold'
    BY <1>2, <1>6, ThreadsHave DEF LockedHold
  <1>8. closed => pc[User] = "closing" /\ pc'[User] = "closing"
    <2>1. closed => pc[User] = "closing"
      BY <1>1 DEF WakeInv, LockedHold
    <2>2. pc[User] = "closing" => User # c
      BY <1>1
    <2> QED BY <1>2, <2>1, <2>2, ThreadsHave
  <1>9. SleepersAreNotified'
    <2> SUFFICES ASSUME NEW d \in Consumers, pc'[d] = "asleep"
                 PROVE  signalHead <= feeds[d].continuation \/ swapped
      BY <1>1, <1>8 DEF SleepersAreNotified
    <2>1. CASE d = c
      BY <1>2, <2>1
    <2>2. CASE d # c
      BY <1>2, <2>2, ThreadsHave DEF WakeInv, SleepersAreNotified
    <2> QED BY <2>1, <2>2
  <1> QED BY <1>3, <1>5, <1>7, <1>9 DEF WakeInv

LEMMA TimeOutInv == ASSUME WakeInv, NEW c \in Consumers, TimeOut(c) PROVE WakeInv'
  <1>1. "idle" \in PcStates \ {"called", "locked", "asleep"}
    BY DEF PcStates
  <1>2. calling' \in [Threads -> Commands \cup {NoCall}]
    BY DEF WakeInv, Typed, TimeOut
  <1> QED BY <1>1, <1>2, Moved, ThreadsHave DEF TimeOut, Become, signal

LEMMA AskAgainInv == ASSUME WakeInv, NEW c \in Consumers, AskAgain(c) PROVE WakeInv'
  <1>1. PICK state \in {"idle", "sending"} : pc' = [pc EXCEPT ![c] = state]
    BY DEF AskAgain, Become
  <1>2. state \in PcStates \ {"called", "locked", "asleep"}
    BY DEF PcStates
  <1>3. [op |-> "again"] \in Commands
    BY DEF Commands
  <1>4. calling' \in [Threads -> Commands \cup {NoCall}]
    BY <1>3 DEF WakeInv, Typed, AskAgain
  <1> QED BY <1>1, <1>2, <1>4, Moved, ThreadsHave DEF AskAgain, signal

LEMMA TakeRowInv == ASSUME WakeInv, NEW c \in Consumers, TakeRow(c) PROVE WakeInv'
  <1>1. "idle" \in PcStates \ {"called", "locked", "asleep"}
    BY DEF PcStates
  <1>2. calling' \in [Threads -> Commands \cup {NoCall}]
    BY DEF WakeInv, Typed, TakeRow
  <1> QED BY <1>1, <1>2, Moved, ThreadsHave DEF TakeRow, Become, signal

LEMMA NotifyInv == ASSUME WakeInv, NEW t \in Threads, Notify(t) PROVE WakeInv'
  <1>1. pc' = Awake([s \in Threads |-> IF s \in {t} THEN "idle" ELSE pc[s]])
    BY DEF WakeInv, Typed, Notify, Awake
  <1>2. {t} \in SUBSET Threads /\ "idle" \in PcStates \ {"called", "locked", "asleep"}
    BY DEF PcStates
  <1>3. calling' \in [Threads -> Commands \cup {NoCall}] /\ swapped' \in BOOLEAN
    BY DEF WakeInv, Typed, Notify
  <1> QED BY <1>1, <1>2, <1>3, Notified DEF Notify, signal

\* close leaves "closing" only by waking whoever sleeps.
LEMMA CloseNotifyInv == ASSUME WakeInv, NEW t \in Threads, CloseNotify(t) PROVE WakeInv'
  <1>1. pc' = Awake([s \in Threads |-> IF s \in {t} THEN "sending" ELSE pc[s]])
    BY DEF WakeInv, Typed, CloseNotify, Awake
  <1>2. {t} \in SUBSET Threads /\ "sending" \in PcStates \ {"called", "locked", "asleep"}
    BY DEF PcStates
  <1>3. [op |-> "shutdown"] \in Commands
    BY DEF Commands
  <1>4. calling' \in [Threads -> Commands \cup {NoCall}] /\ swapped' \in BOOLEAN
    BY <1>3 DEF WakeInv, Typed, CloseNotify
  <1> QED BY <1>1, <1>2, <1>4, Notified DEF CloseNotify, signal

LEMMA CloseInv == ASSUME WakeInv, Close(User) PROVE WakeInv'
  <1>1. /\ pc[User] = "idle" /\ closed'
        /\ pc' = [pc EXCEPT ![User] = "closing"]
        /\ UNCHANGED <<feeds, queue, publishing, swapped, signalHead, mutex, calling>>
    BY DEF Close, Become, signal
  <1>2. /\ pc' \in [Threads -> PcStates]
        /\ \A s \in Threads \ {User} : pc'[s] = pc[s]
        /\ pc'[User] = "closing"
    BY <1>1, ThreadsHave DEF WakeInv, Typed, PcStates
  <1>3. Typed'
    BY <1>1, <1>2 DEF WakeInv, Typed, AreFeeds, Close
  <1>4. /\ \A i \in 1 .. Len(queue) : queue[i].by \in Threads \ {User}
        /\ publishing = {}
    <2>1. \A i \in 1 .. Len(queue) : queue[i] \in Message
      BY DEF WakeInv, Typed
    <2>2. \A i \in 1 .. Len(queue) : queue[i].by \in Threads
      BY <2>1 DEF Message
    <2>3. publishing \subseteq {User} /\ \A s \in publishing : pc[s] = "called"
      BY DEF WakeInv, Typed, OneCommandEach
    <2> QED BY <1>1, <2>2, <2>3 DEF WakeInv, OneCommandEach
  <1>5. OneCommandEach'
    BY <1>1, <1>2, <1>4 DEF WakeInv, OneCommandEach
  <1>6. \A c \in Consumers : c # User /\ pc'[c] = pc[c]
    BY <1>2, ThreadsHave, FeedAssumption
  <1>7. LockedHold' /\ SleepersAreNotified'
    BY <1>1, <1>2, <1>6 DEF WakeInv, LockedHold, SleepersAreNotified
  <1> QED BY <1>3, <1>5, <1>7 DEF WakeInv

\* The queue is dropped with the sequencer; who waited for it is idle.
LEMMA ShutdownInv == ASSUME WakeInv, Shutdown(User) PROVE WakeInv'
  <1>1. /\ publishing = {} /\ publishing' = {} /\ queue' = <<>>
        /\ UNCHANGED <<feeds, swapped, signalHead, mutex, closed, calling>>
    BY DEF Shutdown, Comes, signal
  <1>2. /\ pc' \in [Threads -> PcStates]
        /\ \A s \in Threads : pc'[s] \in {"joining", "idle"} \/ pc'[s] = pc[s]
    BY <1>1 DEF WakeInv, Typed, PcStates, Shutdown
  <1>3. Typed'
    BY <1>1, <1>2 DEF WakeInv, Typed, AreFeeds
  <1>4. OneCommandEach'
    BY <1>1 DEF OneCommandEach
  <1>5. pc[User] = "called"
    <2>1. queue \in Seq(Message) /\ queue # <<>> /\ Head(queue).by = User
      BY DEF WakeInv, Typed, Shutdown, Comes
    <2>2. 1 \in 1 .. Len(queue) /\ queue[1] = Head(queue)
      BY <2>1
    <2> QED BY <2>1, <2>2 DEF WakeInv, OneCommandEach
  <1>6. \A c \in Consumers : pc'[c] \in {"locked", "asleep"} => pc'[c] = pc[c]
    BY <1>2, ThreadsHave
  <1>7. LockedHold' /\ SleepersAreNotified'
    BY <1>1, <1>5, <1>6 DEF WakeInv, LockedHold, SleepersAreNotified
  <1> QED BY <1>3, <1>4, <1>7 DEF WakeInv

LEMMA StutterInv == ASSUME WakeInv, UNCHANGED vars PROVE WakeInv'
  <1>1. UNCHANGED <<feeds, queue, publishing, swapped, signalHead, mutex, closed, pc, calling>>
    BY DEF vars, signal
  <1> QED BY <1>1 DEF WakeInv, Typed, AreFeeds, OneCommandEach, LockedHold, SleepersAreNotified

----------------------------------------------------------------------------

LEMMA SequencerInv == ASSUME WakeInv, Sequencer PROVE WakeInv'
  BY AppendBatchInv, CommitInv, CommitUnpublishedInv, PublishSwapInv, PublishNotifyInv,
     CancelFeedInv, ShutdownInv, OpenFeedInv, FeedPageInv, AcknowledgeFeedInv, ClearInv,
     CloseFeedInv
  DEF Sequencer

LEMMA StepInv == ASSUME WakeInv, NEW t \in Threads, Step(t) PROVE WakeInv'
  <1>1. CASE Closed(t)
    BY <1>1, ForgetInv DEF Closed
  <1> QED BY <1>1, SendInv, NotifyInv, CloseNotifyInv, TakeMutexInv, CompareHeadInv,
             AskAgainInv, TakeRowInv
          DEF Step

LEMMA NextInv == ASSUME WakeInv, [Next]_vars PROVE WakeInv'
  <1>1. CASE Kill \/ PowerLoss
    BY <1>1, ForgetInv DEF Kill, PowerLoss
  <1> QED BY <1>1, OpenEngineInv, CallsInv, CloseInv, SequencerInv, StepInv, TimeOutInv, StutterInv
          DEF Next

\* No wake-up is lost: whatever the interleaving of consumers, sequencer,
\* cancellations and close, a consumer asleep has seen the published head or
\* is about to be notified (next_feed_page, FeedSignal, Engine::close).
THEOREM NoLostWakeUp == Spec => []SleepersAreNotified
  <1>1. Init => WakeInv
    BY InitInv
  <1>2. WakeInv /\ [Next]_vars => WakeInv'
    BY NextInv
  <1>3. WakeInv => SleepersAreNotified
    BY DEF WakeInv
  <1> QED BY <1>1, <1>2, <1>3, PTL DEF Spec

----------------------------------------------------------------------------
(* The log, its head and a page *)

\* A set of positions with a bound has a greatest one, and Max is it.
LEMMA MaxOf ==
    ASSUME NEW S \in SUBSET Nat, NEW n \in Nat, S # {}, \A x \in S : x <= n
    PROVE  Max(S) \in S /\ \A x \in S : x <= Max(S)
  <1> DEFINE gaps == {k \in Nat : k <= n /\ n - k \in S}
  <1>1. gaps \subseteq Nat /\ gaps # {}
    <2>1. PICK x \in S : TRUE
      OBVIOUS
    <2>2. n - x \in Nat /\ n - x <= n /\ n - (n - x) = x
      OBVIOUS
    <2> QED BY <2>1, <2>2
  <1>2. PICK k \in gaps : \A j \in gaps : ~(<<j, k>> \in OpToRel(<, Nat))
    BY <1>1, NatLessThanWellFounded, WFMin
  <1>3. \A y \in S : n - k >= y
    <2> SUFFICES ASSUME NEW y \in S, ~(n - k >= y) PROVE FALSE
      OBVIOUS
    <2>1. k \in Nat /\ k <= n /\ y \in Nat /\ y <= n
      BY <1>2
    <2>2. n - y \in Nat /\ n - y <= n /\ n - (n - y) = y /\ n - y < k
      BY <2>1
    <2>3. n - y \in gaps /\ <<n - y, k>> \in OpToRel(<, Nat)
      BY <2>1, <2>2 DEF OpToRel
    <2> QED BY <1>2, <2>3
  <1>4. n - k \in S
    BY <1>2
  <1>5. Max(S) \in S /\ \A y \in S : Max(S) >= y
    BY <1>3, <1>4, Zenon DEF Max
  <1> QED BY <1>5

\* A sequence, of whatever.
IsSequence(s) == s \in Seq({s[i] : i \in DOMAIN s})

LEMMA Longer ==
    ASSUME NEW s, IsSequence(s), NEW x, NEW t, t = Append(s, x)
    PROVE  /\ IsSequence(t)
           /\ Len(s) \in Nat /\ Len(t) = Len(s) + 1
           /\ DOMAIN s = 1 .. Len(s) /\ DOMAIN t = 1 .. Len(s) + 1
           /\ \A i \in DOMAIN s : t[i] = s[i]
           /\ t[Len(s) + 1] = x
           /\ \A i \in DOMAIN t : i \in DOMAIN s \/ i = Len(s) + 1
           /\ Range(t) = Range(s) \cup {x}
  <1> DEFINE T == {s[i] : i \in DOMAIN s} \cup {x}
  <1>1. s \in Seq(T) /\ x \in T
    <2>1. {s[i] : i \in DOMAIN s} \subseteq T
      OBVIOUS
    <2> QED BY <2>1 DEF IsSequence
  <1>2. /\ Len(t) = Len(s) + 1 /\ Len(s) \in Nat /\ t \in Seq(T)
        /\ DOMAIN s = 1 .. Len(s) /\ DOMAIN t = 1 .. Len(s) + 1
        /\ \A i \in 1 .. Len(s) : t[i] = s[i]
        /\ t[Len(s) + 1] = x
    <2> HIDE DEF T
    <2> QED BY <1>1
  <1>3. IsSequence(t)
    <2>1. \A i \in 1 .. Len(t) : t[i] \in {t[j] : j \in DOMAIN t}
      BY <1>2
    <2> QED BY <1>2, <2>1 DEF IsSequence
  <1>4. \A i \in DOMAIN t : i \in DOMAIN s \/ i = Len(s) + 1
    BY <1>2
  <1>5. Range(t) = Range(s) \cup {x}
    <2>1. Range(t) = {t[i] : i \in DOMAIN t} /\ Range(s) = {s[i] : i \in DOMAIN s}
      BY DEF Range
    <2>2. \A i \in DOMAIN s : i \in DOMAIN t /\ t[i] = s[i]
      BY <1>2
    <2>3. Len(s) + 1 \in DOMAIN t
      BY <1>2
    <2> QED BY <1>2, <1>4, <2>1, <2>2, <2>3
  <1> QED BY <1>2, <1>3, <1>4, <1>5

\* Positions rise along the log, and a checkpoint lies between the batches
\* before it and the batches behind it.
InOrder(l) ==
    /\ IsSequence(l)
    /\ \A i \in DOMAIN l : l[i].at \in Nat
    /\ \A i, j \in DOMAIN l : i < j /\ l[j].kind = "batch" =>
          IF l[i].kind = "batch" THEN l[i].at < l[j].at ELSE l[i].at <= l[j].at
    /\ \A j \in DOMAIN l : l[j].kind # "batch" /\ l[j].at # 0 =>
          \E i \in DOMAIN l : i < j /\ l[i].kind = "batch" /\ l[j].at <= l[i].at + 1

\* The head is behind all batches, and right behind one if there is one.
LEMMA HeadIs ==
    ASSUME NEW l, InOrder(l)
    PROVE  /\ HeadOf(l) \in Nat
           /\ \A b \in Batches(l) : b.at \in Nat /\ b.at < HeadOf(l)
           /\ \A i \in DOMAIN l : l[i].kind = "batch" => l[i].at < HeadOf(l)
           /\ \A i \in DOMAIN l : l[i].at <= HeadOf(l)
           /\ HeadOf(l) # 0 => \E i \in DOMAIN l : l[i].kind = "batch" /\ HeadOf(l) = l[i].at + 1
  <1> DEFINE I == {i \in DOMAIN l : l[i].kind = "batch"}
             S == {0} \cup {b.at + 1 : b \in Batches(l)}
  <1>1. Len(l) \in Nat /\ DOMAIN l = 1 .. Len(l)
    BY DEF InOrder, IsSequence
  <1>2. Batches(l) = {l[i] : i \in I}
    BY <1>1 DEF Batches, BatchesIn
  <1>3. \A i \in I : l[i].at \in Nat
    BY DEF InOrder
  <1>4. S \in SUBSET Nat /\ S # {}
    BY <1>2, <1>3
  <1>5. PICK n \in Nat : \A x \in S : x <= n
    <2>1. CASE I = {}
      BY <1>2, <2>1
    <2>2. CASE I # {}
      <3>1. I \in SUBSET Nat /\ \A i \in I : i <= Len(l)
        BY <1>1
      <3>2. Max(I) \in I /\ \A i \in I : i <= Max(I)
        <4> HIDE DEF I
        <4> QED BY <1>1, <2>2, <3>1, MaxOf
      <3>3. \A i \in I : l[i].at <= l[Max(I)].at
        <4> SUFFICES ASSUME NEW i \in I PROVE l[i].at <= l[Max(I)].at
          OBVIOUS
        <4>1. CASE i = Max(I)
          BY <1>3, <3>2, <4>1
        <4>2. CASE i # Max(I)
          <5>1. i < Max(I) /\ i \in DOMAIN l /\ Max(I) \in DOMAIN l
            <6>1. i \in DOMAIN l /\ Max(I) \in DOMAIN l /\ i <= Max(I)
              BY <3>2
            <6> HIDE DEF I
            <6> QED BY <1>1, <4>2, <6>1
          <5>2. l[i].kind = "batch" /\ l[Max(I)].kind = "batch"
            BY <3>2
          <5>3. l[i].at < l[Max(I)].at
            BY <5>1, <5>2 DEF InOrder
          <5>4. l[i].at \in Nat /\ l[Max(I)].at \in Nat
            BY <1>3, <3>2
          <5> QED BY <5>3, <5>4
        <4> QED BY <4>1, <4>2
      <3>4. l[Max(I)].at + 1 \in Nat
        BY <1>3, <3>2
      <3>5. \A x \in S : x <= l[Max(I)].at + 1
        <4>1. \A x \in S : x = 0 \/ \E i \in I : x = l[i].at + 1
          BY <1>2
        <4>2. \A i \in I : l[i].at + 1 <= l[Max(I)].at + 1
          BY <1>3, <3>2, <3>3
        <4> QED BY <3>4, <4>1, <4>2
      <3> QED BY <3>4, <3>5
    <2> QED BY <2>1, <2>2
  <1>6. HeadOf(l) \in S /\ \A x \in S : x <= HeadOf(l)
    <2>1. HeadOf(l) = Max(S)
      BY DEF HeadOf
    <2> HIDE DEF S
    <2> QED BY <1>4, <1>5, <2>1, MaxOf
  <1>7. HeadOf(l) \in Nat
    BY <1>4, <1>6
  <1>8. \A i \in I : l[i].at + 1 <= HeadOf(l) /\ l[i].at < HeadOf(l)
    BY <1>2, <1>3, <1>6, <1>7
  <1>9. HeadOf(l) # 0 => \E i \in I : HeadOf(l) = l[i].at + 1
    BY <1>2, <1>6
  <1>10. \A i \in DOMAIN l : l[i].at <= HeadOf(l)
    <2> SUFFICES ASSUME NEW i \in DOMAIN l, l[i].kind # "batch", l[i].at # 0
                 PROVE  l[i].at <= HeadOf(l)
      BY <1>3, <1>7, <1>8
    <2>1. PICK k \in DOMAIN l : l[k].kind = "batch" /\ l[i].at <= l[k].at + 1
      BY DEF InOrder
    <2>2. k \in I /\ l[k].at \in Nat /\ l[i].at \in Nat
      BY <2>1 DEF InOrder
    <2> QED BY <1>7, <1>8, <2>1, <2>2
  <1> QED BY <1>2, <1>3, <1>7, <1>8, <1>9, <1>10

\* A frame at the head of the log: a batch, or a checkpoint below it.
LEMMA Appended ==
    ASSUME NEW l, InOrder(l), NEW f, f.at \in Nat,
           IF f.kind = "batch" THEN f.at = HeadOf(l) ELSE f.at <= HeadOf(l),
           NEW m, m = Append(l, f)
    PROVE  /\ InOrder(m)
           /\ Len(m) = Len(l) + 1 /\ DOMAIN l = 1 .. Len(l) /\ DOMAIN m = 1 .. Len(l) + 1
           /\ \A i \in DOMAIN l : m[i] = l[i]
           /\ m[Len(l) + 1] = f
           /\ Batches(m) = IF f.kind = "batch" THEN Batches(l) \cup {f} ELSE Batches(l)
           /\ HeadOf(l) <= HeadOf(m)
  <1>1. IsSequence(l)
    BY DEF InOrder
  <1>2. /\ IsSequence(m)
        /\ Len(l) \in Nat /\ Len(m) = Len(l) + 1
        /\ DOMAIN l = 1 .. Len(l) /\ DOMAIN m = 1 .. Len(l) + 1
        /\ \A i \in DOMAIN l : m[i] = l[i]
        /\ m[Len(l) + 1] = f
        /\ \A i \in DOMAIN m : i \in DOMAIN l \/ i = Len(l) + 1
    <2>1. /\ IsSequence(m) /\ Len(l) \in Nat /\ Len(m) = Len(l) + 1
          /\ DOMAIN l = 1 .. Len(l) /\ DOMAIN m = 1 .. Len(l) + 1 /\ m[Len(l) + 1] = f
      BY <1>1, Longer
    <2>2. \A i \in DOMAIN l : m[i] = l[i]
      BY <1>1, Longer
    <2>3. \A i \in DOMAIN m : i \in DOMAIN l \/ i = Len(l) + 1
      BY <1>1, Longer
    <2> QED BY <2>1, <2>2, <2>3
  <1>3. IsSequence(m)
    BY <1>2
  <1>4. \A i \in DOMAIN m : \/ i \in DOMAIN l /\ m[i] = l[i]
                            \/ i = Len(l) + 1 /\ m[i] = f
    BY <1>2
  <1>5. \A i \in DOMAIN l : i \in DOMAIN m /\ m[i] = l[i] /\ i < Len(l) + 1
    BY <1>2
  <1>6. \A i \in DOMAIN m : m[i].at \in Nat
    BY <1>4 DEF InOrder
  <1>7. \A i, j \in DOMAIN m : i < j /\ m[j].kind = "batch" =>
           IF m[i].kind = "batch" THEN m[i].at < m[j].at ELSE m[i].at <= m[j].at
    <2> SUFFICES ASSUME NEW i \in DOMAIN m, NEW j \in DOMAIN m, i < j, m[j].kind = "batch"
                 PROVE  IF m[i].kind = "batch" THEN m[i].at < m[j].at ELSE m[i].at <= m[j].at
      OBVIOUS
    <2>1. i \in DOMAIN l /\ m[i] = l[i]
      BY <1>2
    <2>2. CASE j \in DOMAIN l
      <3>1. m[j] = l[j]
        BY <1>5, <2>2
      <3>2. i \in DOMAIN l /\ i < j /\ l[j].kind = "batch"
        BY <2>1, <3>1
      <3>3. IF l[i].kind = "batch" THEN l[i].at < l[j].at ELSE l[i].at <= l[j].at
        BY <2>2, <3>2 DEF InOrder
      <3> QED BY <2>1, <3>1, <3>3
    <2>3. CASE j = Len(l) + 1
      BY <1>2, <2>1, <2>3, HeadIs
    <2> QED BY <1>4, <2>2, <2>3
  <1>8. \A j \in DOMAIN m : m[j].kind # "batch" /\ m[j].at # 0 =>
           \E i \in DOMAIN m : i < j /\ m[i].kind = "batch" /\ m[j].at <= m[i].at + 1
    <2> SUFFICES ASSUME NEW j \in DOMAIN m, m[j].kind # "batch", m[j].at # 0
                 PROVE  \E i \in DOMAIN m : i < j /\ m[i].kind = "batch" /\ m[j].at <= m[i].at + 1
      OBVIOUS
    <2>1. CASE j \in DOMAIN l
      <3>1. m[j] = l[j]
        BY <1>5, <2>1
      <3>2. PICK i \in DOMAIN l : i < j /\ l[i].kind = "batch" /\ l[j].at <= l[i].at + 1
        BY <2>1, <3>1 DEF InOrder
      <3> QED BY <1>5, <3>1, <3>2
    <2>2. CASE j = Len(l) + 1
      <3>1. HeadOf(l) \in Nat /\ m[j] = f /\ HeadOf(l) # 0
        BY <1>2, <2>2, HeadIs
      <3>2. PICK i \in DOMAIN l : l[i].kind = "batch" /\ HeadOf(l) = l[i].at + 1
        BY <3>1, HeadIs
      <3> QED BY <1>5, <2>2, <3>1, <3>2
    <2> QED BY <1>4, <2>1, <2>2
  <1>9. InOrder(m)
    BY <1>3, <1>6, <1>7, <1>8 DEF InOrder
  <1>10. Batches(m) = IF f.kind = "batch" THEN Batches(l) \cup {f} ELSE Batches(l)
    BY <1>2, <1>4 DEF Batches, BatchesIn
  <1>11. HeadOf(l) <= HeadOf(m)
    <2>1. HeadOf(l) \in Nat /\ HeadOf(m) \in Nat
      BY <1>9, HeadIs
    <2>2. CASE HeadOf(l) = 0
      BY <2>1, <2>2
    <2>3. CASE HeadOf(l) # 0
      <3>1. PICK i \in DOMAIN l : l[i].kind = "batch" /\ HeadOf(l) = l[i].at + 1
        BY <2>3, HeadIs
      <3>2. m[i].at < HeadOf(m) /\ m[i] = l[i]
        BY <1>5, <1>9, <3>1, HeadIs
      <3>3. m[i].at \in Nat
        BY <1>5, <1>6
      <3> QED BY <2>1, <3>1, <3>2, <3>3
    <2> QED BY <2>2, <2>3
  <1> QED BY <1>2, <1>9, <1>10, <1>11

\* What a power loss leaves of a log.
LEMMA Cut ==
    ASSUME NEW l, InOrder(l), NEW n \in 0 .. Len(l), NEW m, m = SubSeq(l, 1, n)
    PROVE  /\ InOrder(m) /\ Len(m) = n
           /\ DOMAIN m = 1 .. n /\ \A i \in 1 .. n : i \in DOMAIN l /\ m[i] = l[i]
           /\ Batches(m) \subseteq Batches(l)
  <1>1. Len(l) \in Nat /\ DOMAIN l = 1 .. Len(l)
    BY DEF InOrder, IsSequence
  <1>2. /\ Len(m) = n /\ DOMAIN m = 1 .. n
        /\ \A i \in 1 .. n : i \in DOMAIN l /\ m[i] = l[i]
        /\ m = [i \in 1 .. n |-> m[i]]
    BY <1>1 DEF InOrder, IsSequence
  <1> SUFFICES InOrder(m) /\ Batches(m) \subseteq Batches(l)
    BY <1>2
  <1>3. IsSequence(m)
    <2>1. \A i \in 1 .. n : m[i] \in {m[j] : j \in DOMAIN m}
      BY <1>2
    <2> QED BY <1>1, <1>2, <2>1 DEF IsSequence
  <1>4. \A i \in DOMAIN m : m[i].at \in Nat
    BY <1>2 DEF InOrder
  <1>5. \A i, j \in DOMAIN m : i < j /\ m[j].kind = "batch" =>
           IF m[i].kind = "batch" THEN m[i].at < m[j].at ELSE m[i].at <= m[j].at
    <2> SUFFICES ASSUME NEW i \in DOMAIN m, NEW j \in DOMAIN m, i < j, m[j].kind = "batch"
                 PROVE  IF m[i].kind = "batch" THEN m[i].at < m[j].at ELSE m[i].at <= m[j].at
      OBVIOUS
    <2>1. /\ i \in DOMAIN l /\ j \in DOMAIN l /\ m[i] = l[i] /\ m[j] = l[j]
          /\ l[j].kind = "batch"
      BY <1>2
    <2>2. IF l[i].kind = "batch" THEN l[i].at < l[j].at ELSE l[i].at <= l[j].at
      BY <2>1 DEF InOrder
    <2> QED BY <2>1, <2>2
  <1>6. \A j \in DOMAIN m : m[j].kind # "batch" /\ m[j].at # 0 =>
           \E i \in DOMAIN m : i < j /\ m[i].kind = "batch" /\ m[j].at <= m[i].at + 1
    <2> SUFFICES ASSUME NEW j \in DOMAIN m, m[j].kind # "batch", m[j].at # 0
                 PROVE  \E i \in DOMAIN m : i < j /\ m[i].kind = "batch" /\ m[j].at <= m[i].at + 1
      OBVIOUS
    <2>1. j \in DOMAIN l /\ m[j] = l[j]
      BY <1>2
    <2>2. PICK i \in DOMAIN l : i < j /\ l[i].kind = "batch" /\ l[j].at <= l[i].at + 1
      BY <2>1 DEF InOrder
    <2>3. i \in DOMAIN m
      BY <1>1, <1>2, <2>2
    <2> QED BY <1>2, <2>1, <2>2, <2>3
  <1>7. Batches(m) \subseteq Batches(l)
    BY <1>1, <1>2 DEF Batches, BatchesIn
  <1> QED BY <1>3, <1>4, <1>5, <1>6, <1>7 DEF InOrder

\* What a feed wants of log l from position m on and before position n.
WantedIn(l, m, n) == {b \in Batches(l) : b.wanted /\ b.at \in m .. n - 1}

\* A page is what the feed wants up to where the next page starts.
LEMMA PageExact ==
    ASSUME InOrder(log), durableHead \in Nat, NEW from \in 0 .. durableHead,
           NEW room \in Nat \ {0}
    PROVE  /\ PageEnd(from, room) \in from .. durableHead
           /\ Page(from, room) = WantedIn(log, from, PageEnd(from, room))
  <1> DEFINE W(n) == Wanted(from, n)
             S == {n \in from .. durableHead : Cardinality(W(n)) <= room}
  <1>1. Len(log) \in Nat /\ \A b \in Batches(log) : b.at \in Nat
    BY HeadIs DEF InOrder, IsSequence
  <1>2. IsFiniteSet(Batches(log))
    <2> DEFINE I == {j \in 1 .. Len(log) : log[j].kind = "batch"}
    <2>1. IsFiniteSet(1 .. Len(log)) /\ I \subseteq 1 .. Len(log)
      BY <1>1, FS_Interval
    <2>2. IsFiniteSet(I)
      BY <2>1, FS_Subset
    <2>3. IsFiniteSet({log[i] : i \in I})
      <3> DEFINE T == {log[i] : i \in I}
      <3>1. [i \in I |-> log[i]] \in Surjection(I, T)
        BY Zenon DEF Surjection
      <3> HIDE DEF I, T
      <3>2. IsFiniteSet(T)
        BY <2>2, <3>1, FS_Surjection
      <3> QED BY <3>2 DEF T
    <2> QED BY <2>3 DEF Batches, BatchesIn
  <1>3. \A n : W(n) \subseteq Batches(log) /\ IsFiniteSet(W(n)) /\ Cardinality(W(n)) \in Nat
    <2>1. \A n : W(n) \subseteq Batches(log)
      BY DEF Wanted
    <2> HIDE DEF W
    <2> QED BY <1>2, <2>1, FS_Subset, FS_CardinalityType
  <1>4. room \in Nat
    OBVIOUS
  <1>5. \A n, k : n \in Int /\ k \in Int /\ n <= k =>
           W(n) \subseteq W(k) /\ Cardinality(W(n)) <= Cardinality(W(k))
    <2> SUFFICES ASSUME NEW n \in Int, NEW k \in Int, n <= k
                 PROVE  W(n) \subseteq W(k) /\ Cardinality(W(n)) <= Cardinality(W(k))
      OBVIOUS
    <2>1. W(n) \subseteq W(k)
      BY <1>1 DEF Wanted
    <2>2. IsFiniteSet(W(k))
      BY <1>3
    <2> HIDE DEF W
    <2> QED BY <2>1, <2>2, FS_Subset
  <1>6. PageEnd(from, room) \in S /\ \A n \in S : n <= PageEnd(from, room)
    <2>1. from \in S
      <3>1. W(from) = {}
        BY <1>1 DEF Wanted
      <3>2. Cardinality({}) = 0
        BY FS_EmptySet
      <3> QED BY <1>4, <3>1, <3>2
    <2>2. S \in SUBSET Nat /\ S # {} /\ \A n \in S : n <= durableHead
      BY <2>1
    <2>3. PageEnd(from, room) = Max(S)
      BY DEF PageEnd
    <2> HIDE DEF S
    <2> QED BY <2>2, <2>3, MaxOf
  <1>7. PageEnd(from, room) \in from .. durableHead /\ Cardinality(W(PageEnd(from, room))) <= room
    BY <1>6
  <1>8. \A b \in Wanted(from, durableHead) :
           {o \in Wanted(from, durableHead) : o.at <= b.at} = W(b.at + 1)
    BY <1>1 DEF Wanted
  <1>9. ASSUME NEW b \in Page(from, room) PROVE b \in W(PageEnd(from, room))
    <2>1. b \in Wanted(from, durableHead) /\ Cardinality(W(b.at + 1)) <= room
      BY <1>8, <1>9 DEF Page, First
    <2>2. b.at \in Nat /\ b.at \in from .. durableHead - 1
      BY <1>1, <2>1 DEF Wanted
    <2>3. b.at + 1 \in S
      BY <2>1, <2>2
    <2>4. b.at + 1 <= PageEnd(from, room)
      BY <1>6, <2>3
    <2>5. b.at \in from .. PageEnd(from, room) - 1
      BY <1>7, <2>2, <2>4
    <2> QED BY <2>1, <2>5 DEF Wanted
  <1>10. ASSUME NEW b \in W(PageEnd(from, room)) PROVE b \in Page(from, room)
    <2>1. b.at \in Nat /\ b.at + 1 <= PageEnd(from, room) /\ PageEnd(from, room) \in Int
      BY <1>1, <1>7 DEF Wanted
    <2>2. b \in Wanted(from, durableHead)
      BY <1>7, <2>1 DEF Wanted
    <2>3. Cardinality(W(b.at + 1)) <= Cardinality(W(PageEnd(from, room)))
      <3>1. b.at + 1 \in Int
        BY <2>1
      <3> HIDE DEF W
      <3> QED BY <1>5, <2>1, <3>1
    <2>4. Cardinality(W(b.at + 1)) <= room
      <3> HIDE DEF W
      <3> QED BY <1>3, <1>4, <1>7, <2>3
    <2> QED BY <1>8, <2>2, <2>4 DEF Page, First
  <1> QED BY <1>7, <1>9, <1>10 DEF Wanted, WantedIn

----------------------------------------------------------------------------
(* Pages after pages *)

LEMMA WantedSplits ==
    ASSUME NEW l, InOrder(l), NEW m \in Nat, NEW n \in Nat, NEW k \in Nat, m <= n, n <= k
    PROVE  /\ WantedIn(l, m, k) = WantedIn(l, m, n) \cup WantedIn(l, n, k)
           /\ \A a \in WantedIn(l, m, n), b \in WantedIn(l, n, k) : a.at < b.at
  <1>1. \A b \in Batches(l) : b.at \in Nat
    BY HeadIs
  <1>2. \A b \in Batches(l) : b.at \in m .. k - 1 <=> b.at \in m .. n - 1 \/ b.at \in n .. k - 1
    BY <1>1
  <1>3. \A a, b \in Batches(l) : a.at \in m .. n - 1 /\ b.at \in n .. k - 1 => a.at < b.at
    BY <1>1
  <1> QED BY <1>2, <1>3 DEF WantedIn

\* What a feed wants below the head does not change when the log grows.
LEMMA WantedStays ==
    ASSUME NEW l, InOrder(l), NEW f, f.at \in Nat,
           IF f.kind = "batch" THEN f.at = HeadOf(l) ELSE f.at <= HeadOf(l),
           NEW j, NEW n \in Nat, n <= HeadOf(l)
    PROVE  WantedIn(Append(l, f), j, n) = WantedIn(l, j, n)
  <1>1. Batches(Append(l, f)) = IF f.kind = "batch" THEN Batches(l) \cup {f} ELSE Batches(l)
    BY Appended
  <1>2. HeadOf(l) \in Nat
    BY HeadIs
  <1>3. f.kind = "batch" => f.at \notin j .. n - 1
    BY <1>2
  <1> QED BY <1>1, <1>3 DEF WantedIn

\* The pages, one after the other, are what is wanted of l from m to n.
Exact(pages, l, m, n) ==
    /\ IsSequence(pages)
    /\ UNION Range(pages) = WantedIn(l, m, n)
    /\ \A i, j \in DOMAIN pages : i < j => \A a \in pages[i], b \in pages[j] : a.at < b.at

LEMMA NoPages ==
    ASSUME NEW l, InOrder(l), NEW n \in Nat
    PROVE  IsSequence(<<>>) /\ UNION Range(<<>>) = {} /\ Exact(<<>>, l, n, n)
  <1>1. IsSequence(<<>>) /\ DOMAIN <<>> = {}
    BY DEF IsSequence
  <1>2. UNION Range(<<>>) = {}
    BY <1>1 DEF Range
  <1>3. WantedIn(l, n, n) = {}
    <2>1. n .. n - 1 = {}
      OBVIOUS
    <2> QED BY <2>1 DEF WantedIn
  <1> QED BY <1>1, <1>2, <1>3 DEF Exact

LEMMA OneMore ==
    ASSUME NEW l, InOrder(l), NEW pages, NEW m \in Nat, NEW n \in Nat, NEW k \in Nat,
           m <= n, n <= k, Exact(pages, l, m, n),
           NEW page, page = WantedIn(l, n, k),
           NEW more, more = IF page = {} THEN pages ELSE Append(pages, page)
    PROVE  Exact(more, l, m, k) /\ UNION Range(more) = (UNION Range(pages)) \cup page
  <1>1. /\ WantedIn(l, m, k) = WantedIn(l, m, n) \cup page
        /\ \A a \in WantedIn(l, m, n), b \in page : a.at < b.at
    BY WantedSplits
  <1>2. CASE page = {}
    BY <1>1, <1>2 DEF Exact
  <1>3. CASE page # {}
    <2>1. /\ IsSequence(more)
          /\ Len(pages) \in Nat
          /\ DOMAIN pages = 1 .. Len(pages)
          /\ \A i \in DOMAIN pages : more[i] = pages[i]
          /\ more[Len(pages) + 1] = page
          /\ \A i \in DOMAIN more : i \in DOMAIN pages \/ i = Len(pages) + 1
          /\ Range(more) = Range(pages) \cup {page}
      <3>1. more = Append(pages, page) /\ IsSequence(pages)
        BY <1>3 DEF Exact
      <3>2. /\ IsSequence(more) /\ Len(pages) \in Nat /\ DOMAIN pages = 1 .. Len(pages)
            /\ more[Len(pages) + 1] = page
        BY <3>1, Longer
      <3>3. \A i \in DOMAIN pages : more[i] = pages[i]
        BY <3>1, Longer
      <3>4. \A i \in DOMAIN more : i \in DOMAIN pages \/ i = Len(pages) + 1
        BY <3>1, Longer
      <3>5. Range(more) = Range(pages) \cup {page}
        BY <3>1, Longer
      <3> QED BY <3>2, <3>3, <3>4, <3>5
    <2>2. UNION Range(more) = (UNION Range(pages)) \cup page
      <3>1. Range(more) = Range(pages) \cup {page}
        BY <2>1
      <3> QED BY <3>1
    <2>3. ASSUME NEW i \in DOMAIN more, NEW j \in DOMAIN more, i < j,
                 NEW a \in more[i], NEW b \in more[j]
          PROVE  a.at < b.at
      <3>1. i \in DOMAIN pages /\ more[i] = pages[i]
        BY <2>1, <2>3
      <3>2. CASE j \in DOMAIN pages
        <4>1. more[j] = pages[j]
          BY <2>1, <3>2
        <4> QED BY <2>3, <3>1, <3>2, <4>1 DEF Exact
      <3>3. CASE j = Len(pages) + 1
        <4>1. b \in page
          BY <2>1, <2>3, <3>3
        <4>2. a \in UNION Range(pages)
          BY <2>3, <3>1 DEF Range
        <4>3. a \in WantedIn(l, m, n)
          BY <4>2 DEF Exact
        <4> QED BY <1>1, <4>1, <4>3
      <3> QED BY <2>1, <3>2, <3>3
    <2>4. UNION Range(more) = WantedIn(l, m, k)
      <3>1. UNION Range(pages) = WantedIn(l, m, n)
        BY DEF Exact
      <3> QED BY <1>1, <2>2, <3>1
    <2> QED BY <2>1, <2>2, <2>3, <2>4 DEF Exact
  <1> QED BY <1>2, <1>3

----------------------------------------------------------------------------
(* The invariant of the pages *)

\* What a variable that is a function of the consumers may be called here.
AreFunctions ==
    /\ start = [c \in Consumers |-> start[c]]
    /\ given = [c \in Consumers |-> given[c]]
    /\ taken = [c \in Consumers |-> taken[c]]
    /\ passed = [c \in Consumers |-> passed[c]]
    /\ rows = [c \in Consumers |-> rows[c]]

\* The durable head is behind no batch but synced and trusted ones, and a
\* running engine has every checkpoint before it.
LogKnown ==
    /\ InOrder(log)
    /\ synced \in 0 .. Len(log)
    /\ durableHead \in 0 .. HeadOf(log)
    /\ \A i \in DOMAIN log :
          log[i].kind = "batch" /\ log[i].at < durableHead => i <= synced \/ log[i].id \in trusted
    /\ engine # "down" => \A i \in DOMAIN log : log[i].kind # "batch" => log[i].at <= durableHead

\* A feed is between its start and the durable head, and its pages are exact.
FeedsKnown ==
    \A c \in Consumers :
        IF feeds[c].state = "none"
        THEN given[c] = <<>>
        ELSE /\ engine # "down"
             /\ feeds[c].continuation \in 0 .. durableHead
             /\ start[c] \in 0 .. feeds[c].continuation
             /\ Exact(given[c], log, start[c], feeds[c].continuation)

\* The commands of a caller with no batch left: it asks for a page only then.
Empties == {"page", "again"}

InFlight ==
    \A c \in Consumers :
        /\ calling[c].op # "none" => pc[c] = "sending"
        /\ calling[c].op \in Empties => rows[c] = {}
        /\ \A i \in 1 .. Len(queue) :
              queue[i].by = c /\ queue[i].cmd.op \in Empties => rows[c] = {}
        /\ pc[c] \in {"empty", "locked", "asleep", "woken"} => rows[c] = {}

\* What a feed has given is taken, or left in the caller's page.
RowsLeft ==
    \A c \in Consumers : IdsOf(UNION Range(given[c])) \subseteq taken[c] \cup IdsOf(rows[c])

\* What is before the start of a feed, or before a checkpoint, was taken or
\* gone past.
StartTaken ==
    \A c \in Consumers :
        /\ feeds[c].state # "none" =>
              IdsOf(WantedIn(log, 0, start[c])) \subseteq taken[c] \cup passed[c]
        /\ \A i \in DOMAIN log :
              log[i].kind # "batch" /\ log[i].of = c =>
                  IdsOf(WantedIn(log, 0, log[i].at)) \subseteq taken[c] \cup passed[c]

PagesInv == AreFunctions /\ LogKnown /\ FeedsKnown /\ InFlight /\ RowsLeft /\ StartTaken

----------------------------------------------------------------------------
(* Commands in flight, and callers that wait *)

Waiting == {"empty", "locked", "asleep", "woken"}

\* A step that sends nothing and fills no page.
LEMMA NothingSent ==
    ASSUME InFlight,
           \A c \in Consumers : rows'[c] \subseteq rows[c],
           \A c \in Consumers :
               /\ calling'[c].op # "none" => pc'[c] = "sending"
               /\ calling'[c].op \in Empties => calling[c].op \in Empties \/ rows[c] = {},
           \A c \in Consumers : pc'[c] \in Waiting => pc[c] \in Waiting,
           \A i \in 1 .. Len(queue') : \E j \in 1 .. Len(queue) : queue'[i] = queue[j]
    PROVE  InFlight'
  <1>1. ASSUME NEW c \in Consumers, rows[c] = {} PROVE rows'[c] = {}
    BY <1>1
  <1>2. ASSUME NEW c \in Consumers, calling'[c].op \in Empties PROVE rows'[c] = {}
    BY <1>1, <1>2 DEF InFlight
  <1>3. ASSUME NEW c \in Consumers, NEW i \in 1 .. Len(queue'),
               queue'[i].by = c, queue'[i].cmd.op \in Empties
        PROVE  rows'[c] = {}
    <2>1. PICK j \in 1 .. Len(queue) : queue'[i] = queue[j]
      OBVIOUS
    <2> QED BY <1>1, <1>3, <2>1 DEF InFlight
  <1>4. ASSUME NEW c \in Consumers, pc'[c] \in Waiting PROVE rows'[c] = {}
    <2>1. pc[c] \in Waiting
      BY <1>4
    <2> QED BY <1>1, <2>1 DEF InFlight, Waiting
  <1>5. Empties' = Empties
    BY DEF Empties
  <1> QED BY <1>2, <1>3, <1>4, <1>5 DEF InFlight, Waiting

\* The sequencer answers one command, whose thread has no other.
LEMMA AnsweredCalls ==
    ASSUME WakeInv, InFlight, NEW t, NEW op, Receives(t, op),
           NEW state, state \notin Waiting, pc' = [pc EXCEPT ![t] = state],
           UNCHANGED calling,
           \A c \in Consumers : rows'[c] \subseteq rows[c]
    PROVE  InFlight'
  <1>1. t \in Threads /\ pc[t] = "called"
    BY Received
  <1>2. pc'[t] = state /\ \A s \in Threads \ {t} : pc'[s] = pc[s]
    BY <1>1 DEF WakeInv, Typed
  <1>3. \A i \in 1 .. Len(queue') : \E j \in 1 .. Len(queue) : queue'[i] = queue[j]
    <2>1. queue \in Seq(Message) /\ queue # <<>> /\ queue' = Tail(queue)
      BY DEF WakeInv, Typed, Receives, Comes
    <2> QED BY <2>1
  <1>4. \A c \in Consumers : calling'[c].op # "none" => pc'[c] = "sending"
    BY <1>1, <1>2, ThreadsHave DEF InFlight
  <1>5. \A c \in Consumers : pc'[c] \in Waiting => pc[c] \in Waiting
    BY <1>2, ThreadsHave
  <1> QED BY <1>3, <1>4, <1>5, NothingSent

\* The same when the answer waits for the publication.
LEMMA PublishingCalls ==
    ASSUME WakeInv, InFlight, NEW t, NEW op, Receives(t, op), UNCHANGED <<pc, calling, rows>>
    PROVE  InFlight'
  <1>1. \A i \in 1 .. Len(queue') : \E j \in 1 .. Len(queue) : queue'[i] = queue[j]
    <2>1. queue \in Seq(Message) /\ queue # <<>> /\ queue' = Tail(queue)
      BY DEF WakeInv, Typed, Receives, Comes
    <2> QED BY <2>1
  <1>2. \A c \in Consumers : calling'[c].op # "none" => pc'[c] = "sending"
    BY DEF InFlight
  <1> QED BY <1>1, <1>2, NothingSent

\* Threads that move on their own, or are woken.
LEMMA MovedCalls ==
    ASSUME InFlight, UNCHANGED <<queue, rows>>,
           \A c \in Consumers :
               /\ calling'[c].op # "none" => pc'[c] = "sending"
               /\ calling'[c].op \in Empties => calling[c].op \in Empties \/ rows[c] = {},
           \A c \in Consumers : pc'[c] \in Waiting => pc[c] \in Waiting
    PROVE  InFlight'
  <1>1. \A i \in 1 .. Len(queue') : \E j \in 1 .. Len(queue) : queue'[i] = queue[j]
    OBVIOUS
  <1> QED BY <1>1, NothingSent

LEMMA EmptiesHave ==
    /\ "none" \notin Empties /\ "shutdown" \notin Empties /\ "open" \notin Empties
    /\ "ack" \notin Empties /\ "clear" \notin Empties /\ "close_feed" \notin Empties
  BY DEF Empties

----------------------------------------------------------------------------
(* Steps that leave log, feeds and what was taken as they are *)

Still ==
    /\ UNCHANGED <<disk, durableHead, feeds, start, given, taken, passed, trusted, rows>>
    /\ engine' = "down" <=> engine = "down"

LEMMA StillKept == ASSUME PagesInv, Still, InFlight' PROVE PagesInv'
  <1>1. AreFunctions' /\ LogKnown' /\ FeedsKnown' /\ RowsLeft'
    BY DEF PagesInv, Still, disk, AreFunctions, LogKnown, FeedsKnown, RowsLeft
  <1>2. StartTaken'
    BY DEF PagesInv, Still, disk, StartTaken
  <1> QED BY <1>1, <1>2 DEF PagesInv

LEMMA CallPages ==
    ASSUME WakeInv, PagesInv, NEW t \in Threads, NEW cmd, Call(t, cmd),
           t \in Consumers /\ cmd.op \in Empties => rows[t] = {}
    PROVE  PagesInv'
  <1>1. /\ pc'[t] = "sending" /\ calling'[t] = cmd
        /\ \A s \in Threads \ {t} : pc'[s] = pc[s] /\ calling'[s] = calling[s]
    BY DEF Call, Become, WakeInv, Typed
  <1>2. InFlight
    BY DEF PagesInv
  <1>3. \A c \in Consumers :
            /\ calling'[c].op # "none" => pc'[c] = "sending"
            /\ calling'[c].op \in Empties => calling[c].op \in Empties \/ rows[c] = {}
            /\ pc'[c] \in Waiting => pc[c] \in Waiting
    BY <1>1, <1>2, ThreadsHave DEF InFlight, Waiting
  <1>4. InFlight'
    BY <1>2, <1>3, MovedCalls DEF Call
  <1>5. Still
    BY DEF Call, Still, history
  <1> QED BY <1>4, <1>5, StillKept

LEMMA CallsPages == ASSUME WakeInv, PagesInv, Calls PROVE PagesInv'
  <1>1. ASSUME NEW c \in Consumers, NEW cmd \in Asks(c), Call(c, cmd) PROVE PagesInv'
    <2>1. cmd.op \in Empties => rows[c] = {}
      BY EmptiesHave DEF Asks
    <2> QED BY <1>1, <2>1, CallPages, ThreadsHave
  <1>2. ASSUME NEW cmd \in UserAsks, Call(User, cmd) PROVE PagesInv'
    <2>1. User \notin Consumers
      BY FeedAssumption
    <2> QED BY <1>2, <2>1, CallPages, ThreadsHave
  <1> QED BY <1>1, <1>2 DEF Calls

LEMMA SendPages == ASSUME WakeInv, PagesInv, NEW t \in Threads, Send(t) PROVE PagesInv'
  <1>1. /\ pc[t] = "sending" /\ calling'[t] = NoCall
        /\ pc'[t] \in {"called", "idle"}
        /\ \A s \in Threads \ {t} : pc'[s] = pc[s] /\ calling'[s] = calling[s]
    BY DEF Send, Become, WakeInv, Typed
  <1>2. InFlight
    BY DEF PagesInv
  <1>3. \A c \in Consumers :
            /\ calling'[c].op # "none" => pc'[c] = "sending"
            /\ calling'[c].op \in Empties => calling[c].op \in Empties \/ rows[c] = {}
            /\ pc'[c] \in Waiting => pc[c] \in Waiting
    BY <1>1, <1>2, ThreadsHave, EmptiesHave DEF InFlight, Waiting, NoCall
  <1>4. InFlight'
    <2>1. CASE engine # "open"
      BY <1>2, <1>3, <2>1, MovedCalls DEF Send
    <2>2. CASE engine = "open"
      <3>1. /\ queue' = Append(queue, [by |-> t, cmd |-> calling[t]])
            /\ queue \in Seq(Message) /\ [by |-> t, cmd |-> calling[t]] \in Message
        BY <2>2 DEF Send, WakeInv, Typed, Message
      <3>2. \A i \in 1 .. Len(queue') : \/ i \in 1 .. Len(queue) /\ queue'[i] = queue[i]
                                        \/ queue'[i] = [by |-> t, cmd |-> calling[t]]
        BY <3>1
      <3>3. ASSUME NEW c \in Consumers, NEW i \in 1 .. Len(queue'),
                   queue'[i].by = c, queue'[i].cmd.op \in Empties
            PROVE  rows[c] = {}
        <4>1. CASE i \in 1 .. Len(queue) /\ queue'[i] = queue[i]
          BY <1>2, <3>3, <4>1 DEF InFlight
        <4>2. CASE queue'[i] = [by |-> t, cmd |-> calling[t]]
          BY <1>2, <3>3, <4>2 DEF InFlight
        <4> QED BY <3>2, <4>1, <4>2
      <3>4. \A c \in Consumers : calling'[c].op \in Empties => rows[c] = {}
        BY <1>2, <1>3 DEF InFlight
      <3>5. \A c \in Consumers : pc'[c] \in Waiting => rows[c] = {}
        BY <1>2, <1>3 DEF InFlight, Waiting
      <3>6. rows' = rows /\ Empties' = Empties
        BY DEF Send, Empties
      <3> QED BY <1>3, <3>3, <3>4, <3>5, <3>6 DEF InFlight, Waiting
    <2> QED BY <2>1, <2>2
  <1>5. Still
    BY DEF Send, Still, history
  <1> QED BY <1>4, <1>5, StillKept

LEMMA PublishSwapPages == ASSUME WakeInv, PagesInv, PublishSwap PROVE PagesInv'
  <1>1. InFlight
    BY DEF PagesInv
  <1>2. \A c \in Consumers : c \notin publishing
    BY FeedAssumption DEF WakeInv, Typed
  <1>3. \A c \in Consumers : pc'[c] = pc[c]
    BY <1>2, ThreadsHave DEF PublishSwap
  <1>4. InFlight'
    BY <1>1, <1>3, MovedCalls DEF PublishSwap, InFlight
  <1>5. Still
    BY DEF PublishSwap, Still, history
  <1> QED BY <1>4, <1>5, StillKept

LEMMA PublishNotifyPages == ASSUME WakeInv, PagesInv, PublishNotify PROVE PagesInv'
  <1>1. InFlight
    BY DEF PagesInv
  <1>2. \A c \in Consumers : c \notin publishing
    BY FeedAssumption DEF WakeInv, Typed
  <1>3. \A c \in Consumers : pc'[c] = IF pc[c] = "asleep" THEN "woken" ELSE pc[c]
    BY <1>2, ThreadsHave DEF PublishNotify, Awake
  <1>4. InFlight'
    BY <1>1, <1>3, MovedCalls DEF PublishNotify, InFlight, Waiting
  <1>5. Still
    BY DEF PublishNotify, Still, history
  <1> QED BY <1>4, <1>5, StillKept

LEMMA NotifyPages == ASSUME WakeInv, PagesInv, NEW t \in Threads, Notify(t) PROVE PagesInv'
  <1>1. InFlight
    BY DEF PagesInv
  <1>2. \A s \in Threads :
            pc'[s] = IF s = t THEN "idle" ELSE IF pc[s] = "asleep" THEN "woken" ELSE pc[s]
    BY DEF Notify, Awake, WakeInv, Typed
  <1>3. pc[t] = "notify"
    BY DEF Notify
  <1>4. InFlight'
    BY <1>1, <1>2, <1>3, ThreadsHave, MovedCalls DEF Notify, InFlight, Waiting
  <1>5. Still
    BY DEF Notify, Still, history
  <1> QED BY <1>4, <1>5, StillKept

LEMMA CloseNotifyPages ==
    ASSUME WakeInv, PagesInv, NEW t \in Threads, CloseNotify(t) PROVE PagesInv'
  <1>1. InFlight
    BY DEF PagesInv
  <1>2. /\ \A s \in Threads :
              pc'[s] = IF s = t THEN "sending" ELSE IF pc[s] = "asleep" THEN "woken" ELSE pc[s]
        /\ \A s \in Threads : calling'[s] = IF s = t THEN [op |-> "shutdown"] ELSE calling[s]
    BY DEF CloseNotify, Awake, WakeInv, Typed
  <1>3. \A c \in Consumers :
            /\ calling'[c].op # "none" => pc'[c] = "sending"
            /\ calling'[c].op \in Empties => calling[c].op \in Empties \/ rows[c] = {}
            /\ pc'[c] \in Waiting => pc[c] \in Waiting
    BY <1>1, <1>2, ThreadsHave, EmptiesHave DEF InFlight, Waiting
  <1>4. InFlight'
    BY <1>1, <1>3, MovedCalls DEF CloseNotify
  <1>5. Still
    BY DEF CloseNotify, Still, history
  <1> QED BY <1>4, <1>5, StillKept

\* A thread moves from a state in which it has no command to send.
LEMMA MovedPages ==
    ASSUME WakeInv, PagesInv, NEW t \in Threads, pc[t] # "sending",
           NEW state, pc' = [pc EXCEPT ![t] = state],
           t \in Consumers /\ state \in Waiting => pc[t] \in Waiting,
           UNCHANGED <<queue, calling>>, Still
    PROVE  PagesInv'
  <1>1. InFlight
    BY DEF PagesInv
  <1>2. pc'[t] = state /\ \A s \in Threads \ {t} : pc'[s] = pc[s]
    BY DEF WakeInv, Typed
  <1>3. \A c \in Consumers :
            /\ calling'[c].op # "none" => pc'[c] = "sending"
            /\ pc'[c] \in Waiting => pc[c] \in Waiting
    BY <1>1, <1>2, ThreadsHave DEF InFlight
  <1>4. InFlight'
    BY <1>1, <1>3, MovedCalls DEF Still
  <1> QED BY <1>4, StillKept

LEMMA TakeMutexPages ==
    ASSUME WakeInv, PagesInv, NEW c \in Consumers, TakeMutex(c) PROVE PagesInv'
  <1>1. PICK state \in {"idle", "locked"} : pc' = [pc EXCEPT ![c] = state]
    BY DEF TakeMutex, Become
  <1>2. pc[c] = "empty" /\ UNCHANGED <<queue, calling>> /\ Still
    BY DEF TakeMutex, Still, history
  <1> QED BY <1>1, <1>2, MovedPages, ThreadsHave DEF Waiting

LEMMA CompareHeadPages ==
    ASSUME WakeInv, PagesInv, NEW c \in Consumers, CompareHead(c) PROVE PagesInv'
  <1>1. PICK state \in {"asleep", "woken"} : pc' = [pc EXCEPT ![c] = state]
    BY DEF CompareHead, Become
  <1>2. pc[c] = "locked" /\ UNCHANGED <<queue, calling>> /\ Still
    BY DEF CompareHead, Still, history
  <1> QED BY <1>1, <1>2, MovedPages, ThreadsHave DEF Waiting

LEMMA TimeOutPages == ASSUME WakeInv, PagesInv, NEW c \in Consumers, TimeOut(c) PROVE PagesInv'
  <1>1. pc' = [pc EXCEPT ![c] = "idle"] /\ "idle" \notin Waiting
    BY DEF TimeOut, Become, Waiting
  <1>2. pc[c] = "asleep" /\ UNCHANGED <<queue, calling>> /\ Still
    BY DEF TimeOut, Still, history
  <1> QED BY <1>1, <1>2, MovedPages, ThreadsHave

LEMMA ClosePages == ASSUME WakeInv, PagesInv, Close(User) PROVE PagesInv'
  <1>1. pc' = [pc EXCEPT ![User] = "closing"] /\ "closing" \notin Waiting
    BY DEF Close, Become, Waiting
  <1>2. pc[User] = "idle" /\ UNCHANGED <<queue, calling>> /\ Still
    BY DEF Close, Still, history
  <1> QED BY <1>1, <1>2, MovedPages, ThreadsHave

LEMMA AskAgainPages ==
    ASSUME WakeInv, PagesInv, NEW c \in Consumers, AskAgain(c) PROVE PagesInv'
  <1>1. InFlight /\ c \in Threads
    BY ThreadsHave DEF PagesInv
  <1>2. /\ pc[c] = "woken" /\ pc'[c] = IF closed THEN "idle" ELSE "sending"
        /\ calling'[c] = IF closed THEN NoCall ELSE [op |-> "again"]
        /\ \A s \in Threads \ {c} : pc'[s] = pc[s] /\ calling'[s] = calling[s]
    BY <1>1 DEF AskAgain, Become, WakeInv, Typed
  <1>3. rows[c] = {}
    BY <1>1, <1>2 DEF InFlight
  <1>4. \A d \in Consumers :
            /\ calling'[d].op # "none" => pc'[d] = "sending"
            /\ calling'[d].op \in Empties => calling[d].op \in Empties \/ rows[d] = {}
            /\ pc'[d] \in Waiting => pc[d] \in Waiting
    BY <1>1, <1>2, <1>3, ThreadsHave DEF InFlight, Waiting, NoCall
  <1>5. InFlight'
    BY <1>1, <1>4, MovedCalls DEF AskAgain
  <1>6. Still
    BY DEF AskAgain, Still, history
  <1> QED BY <1>5, <1>6, StillKept

LEMMA ShutdownPages == ASSUME WakeInv, PagesInv, Shutdown(User) PROVE PagesInv'
  <1>1. InFlight
    BY DEF PagesInv
  <1>2. \A c \in Consumers : c # User /\ c \in Threads
    BY FeedAssumption, ThreadsHave
  <1>3. \A c \in Consumers : pc'[c] = IF pc[c] = "called" THEN "idle" ELSE pc[c]
    BY <1>2 DEF Shutdown
  <1>4. /\ queue' = <<>> /\ UNCHANGED <<calling, rows>>
        /\ \A c \in Consumers : calling'[c].op # "none" => pc'[c] = "sending"
        /\ \A c \in Consumers : pc'[c] \in Waiting => pc[c] \in Waiting
    BY <1>1, <1>3 DEF Shutdown, InFlight, Waiting
  <1>5. InFlight'
    BY <1>1, <1>4, NothingSent
  <1>6. Still
    BY DEF Shutdown, Comes, Still, history
  <1> QED BY <1>5, <1>6, StillKept

LEMMA StutterPages == ASSUME PagesInv, UNCHANGED vars PROVE PagesInv'
  <1>1. Still /\ UNCHANGED <<queue, rows, calling, pc>>
    BY DEF vars, Still, history
  <1>2. InFlight'
    BY <1>1, MovedCalls DEF PagesInv, InFlight
  <1> QED BY <1>1, <1>2, StillKept

----------------------------------------------------------------------------
(* The log grows, and is committed *)

\* Log and head after a step that adds frame f, or commits what is there.
LEMMA LogGrows ==
    ASSUME PagesInv, NEW f, f.at \in Nat, log' = Append(log, f),
           IF f.kind = "batch" THEN f.at = HeadOf(log) ELSE f.at <= HeadOf(log),
           \/ f.kind = "batch" /\ synced' = synced /\ durableHead' = durableHead
           \/ synced' = Len(log') /\ durableHead' = HeadOf(log'),
           \A c \in Consumers :
               /\ passed[c] \subseteq passed'[c]
               /\ f.kind # "batch" /\ f.of = c =>
                     IdsOf(WantedIn(log, 0, f.at)) \subseteq taken[c] \cup passed'[c],
           passed' = [c \in Consumers |-> passed'[c]],
           UNCHANGED <<engine, feeds, start, given, taken, trusted, rows>>,
           InFlight'
    PROVE  PagesInv'
  <1>1. /\ InOrder(log) /\ synced \in 0 .. Len(log) /\ durableHead \in 0 .. HeadOf(log)
        /\ HeadOf(log) \in Nat
    BY HeadIs DEF PagesInv, LogKnown
  <1>2. /\ InOrder(log')
        /\ Len(log') = Len(log) + 1 /\ DOMAIN log = 1 .. Len(log)
        /\ \A i \in DOMAIN log : log'[i] = log[i]
        /\ log'[Len(log) + 1] = f
        /\ HeadOf(log) <= HeadOf(log')
    <2>1. InOrder(log') /\ HeadOf(log) <= HeadOf(log')
      BY <1>1, Appended
    <2>3. Len(log') = Len(log) + 1 /\ DOMAIN log = 1 .. Len(log)
      BY <1>1, Appended
    <2>4. log'[Len(log) + 1] = f
      BY <1>1, Appended
    <2>2. \A i \in DOMAIN log : log'[i] = log[i]
      BY <1>1, Appended
    <2> QED BY <2>1, <2>2, <2>3, <2>4
  <1>3. \A i \in DOMAIN log' : i \in DOMAIN log \/ i = Len(log) + 1
    <2>1. DOMAIN log' = 1 .. Len(log) + 1 /\ Len(log) \in Nat
      BY <1>1, Appended DEF InOrder, IsSequence
    <2> QED BY <1>2, <2>1
  <1>4. Len(log) \in Nat /\ HeadOf(log') \in Nat /\ DOMAIN log' = 1 .. Len(log')
    <2>1. Len(log) \in Nat /\ DOMAIN log' = 1 .. Len(log')
      BY <1>1, <1>2 DEF InOrder, IsSequence
    <2>2. HeadOf(log') \in Nat
      BY <1>2, HeadIs
    <2> QED BY <2>1, <2>2
  <1>5. \A j : \A n \in Nat : n <= HeadOf(log) => WantedIn(log', j, n) = WantedIn(log, j, n)
    BY <1>1, WantedStays
  <1>6. LogKnown'
    <2>1. CASE f.kind = "batch" /\ synced' = synced /\ durableHead' = durableHead
      <3>1. synced' \in 0 .. Len(log') /\ durableHead' \in 0 .. HeadOf(log')
        BY <1>1, <1>2, <1>4, <2>1
      <3>2. ASSUME NEW i \in DOMAIN log', log'[i].kind = "batch", log'[i].at < durableHead'
            PROVE  i <= synced' \/ log'[i].id \in trusted'
        <4>1. CASE i \in DOMAIN log
          BY <1>2, <2>1, <3>2, <4>1 DEF PagesInv, LogKnown
        <4>2. CASE i = Len(log) + 1
          BY <1>1, <1>2, <2>1, <3>2, <4>2
        <4> QED BY <1>3, <4>1, <4>2
      <3>3. ASSUME engine' # "down", NEW i \in DOMAIN log', log'[i].kind # "batch"
            PROVE  log'[i].at <= durableHead'
        <4>1. CASE i \in DOMAIN log
          BY <1>2, <2>1, <3>3, <4>1 DEF PagesInv, LogKnown
        <4>2. CASE i = Len(log) + 1
          BY <1>2, <2>1, <3>3, <4>2
        <4> QED BY <1>3, <4>1, <4>2
      <3> QED BY <1>2, <3>1, <3>2, <3>3 DEF LogKnown
    <2>2. CASE synced' = Len(log') /\ durableHead' = HeadOf(log')
      <3>1. synced' \in 0 .. Len(log') /\ durableHead' \in 0 .. HeadOf(log')
        BY <1>1, <1>2, <1>4, <2>2
      <3>2. \A i \in DOMAIN log' : i <= synced'
        BY <1>4, <2>2
      <3>3. \A i \in DOMAIN log' : log'[i].at <= durableHead'
        BY <1>2, <2>2, HeadIs
      <3> QED BY <1>2, <3>1, <3>2, <3>3 DEF LogKnown
    <2> QED BY <2>1, <2>2
  <1>7. durableHead <= durableHead' /\ durableHead' \in Nat /\ durableHead \in Nat
    BY <1>1, <1>2, <1>4
  <1>8. FeedsKnown'
    <2>1. ASSUME NEW c \in Consumers, feeds[c].state # "none"
          PROVE  /\ engine' # "down"
                 /\ feeds[c].continuation \in 0 .. durableHead'
                 /\ start[c] \in 0 .. feeds[c].continuation
                 /\ Exact(given[c], log', start[c], feeds[c].continuation)
      <3>1. /\ engine # "down"
            /\ feeds[c].continuation \in 0 .. durableHead
            /\ start[c] \in 0 .. feeds[c].continuation
            /\ Exact(given[c], log, start[c], feeds[c].continuation)
        BY <2>1 DEF PagesInv, FeedsKnown
      <3>2. feeds[c].continuation \in Nat /\ feeds[c].continuation <= HeadOf(log)
        BY <1>1, <3>1
      <3>3. WantedIn(log', start[c], feeds[c].continuation)
               = WantedIn(log, start[c], feeds[c].continuation)
        BY <1>5, <3>2
      <3>4. Exact(given[c], log', start[c], feeds[c].continuation)
        BY <3>1, <3>3 DEF Exact
      <3>5. feeds[c].continuation \in 0 .. durableHead'
        BY <1>7, <3>1
      <3> QED BY <3>1, <3>4, <3>5
    <2>2. \A c \in Consumers : feeds[c].state = "none" => given[c] = <<>>
      BY DEF PagesInv, FeedsKnown
    <2> QED BY <2>1, <2>2 DEF FeedsKnown
  <1>9. StartTaken'
    <2> SUFFICES ASSUME NEW c \in Consumers
                 PROVE  /\ feeds[c].state # "none" =>
                              IdsOf(WantedIn(log', 0, start[c])) \subseteq taken[c] \cup passed'[c]
                        /\ \A i \in DOMAIN log' :
                              log'[i].kind # "batch" /\ log'[i].of = c =>
                                  IdsOf(WantedIn(log', 0, log'[i].at)) \subseteq taken[c] \cup passed'[c]
      BY DEF StartTaken
    <2>1. ASSUME feeds[c].state # "none"
          PROVE  IdsOf(WantedIn(log', 0, start[c])) \subseteq taken[c] \cup passed'[c]
      <3>1. feeds[c].continuation \in 0 .. durableHead /\ start[c] \in 0 .. feeds[c].continuation
        BY <2>1 DEF PagesInv, FeedsKnown
      <3>2. start[c] \in Nat /\ start[c] <= HeadOf(log)
        BY <1>1, <3>1
      <3>3. WantedIn(log', 0, start[c]) = WantedIn(log, 0, start[c])
        BY <1>5, <3>2
      <3> QED BY <2>1, <3>3 DEF PagesInv, StartTaken
    <2>2. ASSUME NEW i \in DOMAIN log', log'[i].kind # "batch", log'[i].of = c
          PROVE  IdsOf(WantedIn(log', 0, log'[i].at)) \subseteq taken[c] \cup passed'[c]
      <3>1. CASE i \in DOMAIN log
        <4>1. log'[i] = log[i] /\ log[i].at \in Nat /\ log[i].at <= HeadOf(log)
          BY <1>1, <1>2, <3>1, HeadIs DEF InOrder
        <4>2. WantedIn(log', 0, log[i].at) = WantedIn(log, 0, log[i].at)
          BY <1>5, <4>1
        <4>3. IdsOf(WantedIn(log, 0, log[i].at)) \subseteq taken[c] \cup passed[c]
          BY <2>2, <3>1, <4>1 DEF PagesInv, StartTaken
        <4> QED BY <4>1, <4>2, <4>3
      <3>2. CASE i = Len(log) + 1
        <4>1. log'[i] = f /\ f.at <= HeadOf(log)
          BY <1>1, <1>2, <2>2, <3>2
        <4>2. WantedIn(log', 0, f.at) = WantedIn(log, 0, f.at)
          BY <1>5, <4>1
        <4> QED BY <2>2, <4>1, <4>2
      <3> QED BY <1>3, <3>1, <3>2
    <2> QED BY <2>1, <2>2
  <1>10. AreFunctions' /\ RowsLeft'
    BY DEF PagesInv, AreFunctions, RowsLeft
  <1> QED BY <1>6, <1>8, <1>9, <1>10 DEF PagesInv

LEMMA LogCommits ==
    ASSUME PagesInv, CommitOf(log),
           UNCHANGED <<log, engine, feeds, start, given, taken, passed, trusted, rows>>,
           InFlight'
    PROVE  PagesInv'
  <1>1. /\ InOrder(log) /\ HeadOf(log) \in Nat /\ Len(log) \in Nat /\ DOMAIN log = 1 .. Len(log)
        /\ durableHead \in 0 .. HeadOf(log)
    BY HeadIs, SMTT(30) DEF PagesInv, LogKnown, InOrder, IsSequence
  <1>2. synced' = Len(log) /\ durableHead' = HeadOf(log)
    BY DEF CommitOf
  <1>3. LogKnown'
    <2>1. synced' \in 0 .. Len(log) /\ durableHead' \in 0 .. HeadOf(log)
      BY <1>1, <1>2
    <2>2. \A i \in DOMAIN log : i <= synced'
      BY <1>1, <1>2
    <2>3. \A i \in DOMAIN log : log[i].at <= durableHead'
      BY <1>1, <1>2, HeadIs
    <2> QED BY <1>1, <2>1, <2>2, <2>3 DEF LogKnown
  <1>4. FeedsKnown'
    <2>1. \A c \in Consumers : feeds[c].continuation \in 0 .. durableHead =>
             feeds[c].continuation \in 0 .. durableHead'
      BY <1>1, <1>2
    <2> QED BY <2>1 DEF PagesInv, FeedsKnown
  <1>5. AreFunctions' /\ RowsLeft' /\ StartTaken'
    BY DEF PagesInv, AreFunctions, RowsLeft, StartTaken
  <1> QED BY <1>3, <1>4, <1>5 DEF PagesInv

LEMMA AppendBatchPages == ASSUME WakeInv, PagesInv, AppendBatch(User) PROVE PagesInv'
  <1>1. InFlight'
    BY PublishingCalls DEF PagesInv, AppendBatch
  <1>2. PICK wanted \in BOOLEAN, sync \in BOOLEAN :
            /\ log' = Append(log, [kind |-> "batch", id |-> lastId + 1, at |-> HeadOf(log),
                                   wanted |-> wanted])
            /\ IF sync THEN CommitOf(log') ELSE UNCHANGED <<synced, durableHead>>
    BY DEF AppendBatch
  <1> DEFINE f == [kind |-> "batch", id |-> lastId + 1, at |-> HeadOf(log), wanted |-> wanted]
  <1>3. f.kind = "batch" /\ f.at = HeadOf(log) /\ log' = Append(log, f)
    BY <1>2
  <1>4. HeadOf(log) \in Nat
    BY HeadIs DEF PagesInv, LogKnown
  <1>5. \/ synced' = synced /\ durableHead' = durableHead
        \/ synced' = Len(log') /\ durableHead' = HeadOf(log')
    BY <1>2 DEF CommitOf
  <1>6. UNCHANGED <<engine, feeds, start, given, taken, passed, trusted, rows>>
    BY DEF AppendBatch, history
  <1>7. /\ passed' = [c \in Consumers |-> passed'[c]]
        /\ \A c \in Consumers : passed[c] \subseteq passed'[c]
    BY <1>6 DEF PagesInv, AreFunctions
  <1> HIDE DEF f
  <1> QED BY <1>1, <1>3, <1>4, <1>5, <1>6, <1>7, LogGrows

LEMMA CommitPages == ASSUME WakeInv, PagesInv, Commit(User) PROVE PagesInv'
  <1>1. InFlight'
    BY PublishingCalls DEF PagesInv, Commit
  <1> QED BY <1>1, LogCommits DEF Commit, history

LEMMA CommitUnpublishedPages ==
    ASSUME WakeInv, PagesInv, CommitUnpublished(User) PROVE PagesInv'
  <1>1. "idle" \notin Waiting /\ InFlight
    BY DEF Waiting, PagesInv
  <1>2. InFlight'
    BY <1>1, AnsweredCalls DEF CommitUnpublished, Become
  <1> QED BY <1>2, LogCommits DEF CommitUnpublished, history

\* Opening takes what a killed process left for durable.
LEMMA OpenEnginePages == ASSUME WakeInv, PagesInv, OpenEngine PROVE PagesInv'
  <1>1. /\ engine = "down" /\ durableHead' = HeadOf(log)
        /\ trusted' = trusted \cup IdsOf(BatchesIn(log, synced + 1, Len(log)))
        /\ UNCHANGED <<log, synced, feeds, queue, pc, calling, rows, start, given, taken, passed>>
    BY DEF OpenEngine, disk
  <1>2. /\ InOrder(log) /\ HeadOf(log) \in Nat /\ Len(log) \in Nat /\ DOMAIN log = 1 .. Len(log)
        /\ synced \in 0 .. Len(log)
    BY HeadIs DEF PagesInv, LogKnown, InOrder, IsSequence
  <1>3. LogKnown'
    <2>1. durableHead' \in 0 .. HeadOf(log)
      BY <1>1, <1>2
    <2>2. ASSUME NEW i \in DOMAIN log, log[i].kind = "batch", ~(i <= synced)
          PROVE  log[i].id \in trusted'
      <3>1. i \in synced + 1 .. Len(log)
        BY <1>2, <2>2
      <3>2. log[i] \in BatchesIn(log, synced + 1, Len(log))
        BY <2>2, <3>1 DEF BatchesIn
      <3> QED BY <1>1, <3>2 DEF IdsOf
    <2>3. \A i \in DOMAIN log : log[i].at <= durableHead'
      BY <1>1, <1>2, HeadIs
    <2> QED BY <1>1, <1>2, <2>1, <2>2, <2>3 DEF LogKnown
  <1>4. \A c \in Consumers : feeds[c].state = "none" /\ given[c] = <<>>
    BY <1>1 DEF PagesInv, FeedsKnown
  <1>5. FeedsKnown'
    BY <1>1, <1>4 DEF FeedsKnown
  <1>6. AreFunctions' /\ RowsLeft' /\ StartTaken'
    BY <1>1 DEF PagesInv, AreFunctions, RowsLeft, StartTaken
  <1>7. InFlight'
    BY <1>1, MovedCalls DEF PagesInv, InFlight
  <1> QED BY <1>3, <1>5, <1>6, <1>7 DEF PagesInv

----------------------------------------------------------------------------
(* The feed's own steps *)

\* The position a consumer resumes from is the start, or one of its checkpoints.
LEMMA CheckpointIs ==
    ASSUME NEW l, InOrder(l), NEW c
    PROVE  \/ Checkpoint(l, c) = 0
           \/ \E i \in DOMAIN l :
                 l[i].kind # "batch" /\ l[i].of = c /\ Checkpoint(l, c) = l[i].at
  <1> DEFINE S == AcksOf(l, c)
  <1>1. Len(l) \in Nat /\ DOMAIN l = 1 .. Len(l)
    BY DEF InOrder, IsSequence
  <1>2. S \in SUBSET Nat /\ (\A i \in S : i <= Len(l) /\ i \in DOMAIN l)
    BY <1>1 DEF AcksOf
  <1>3. CASE S = {}
    BY <1>3 DEF Checkpoint
  <1>4. CASE S # {}
    <2>1. Max(S) \in S
      <3> HIDE DEF S
      <3> QED BY <1>1, <1>2, <1>4, MaxOf
    <2>2. Checkpoint(l, c) = l[Max(S)].at
      BY <1>4 DEF Checkpoint
    <2> QED BY <1>2, <2>1, <2>2 DEF AcksOf
  <1> QED BY <1>3, <1>4

LEMMA OpenFeedPages == ASSUME WakeInv, PagesInv, NEW c \in Consumers, OpenFeed(c) PROVE PagesInv'
  <1> DEFINE m == Checkpoint(log, c)
  <1>1. /\ InOrder(log) /\ durableHead \in 0 .. HeadOf(log) /\ HeadOf(log) \in Nat
        /\ engine = "open"
    BY HeadIs DEF PagesInv, LogKnown, OpenFeed, Receives, Comes
  <1>2. m \in Nat
    <2>1. \A i \in DOMAIN log : log[i].at \in Nat
      BY <1>1 DEF InOrder
    <2> QED BY <1>1, <2>1, CheckpointIs
  <1>3. IdsOf(WantedIn(log, 0, m)) \subseteq taken[c] \cup passed[c]
    <2>1. CASE m = 0
      <3>1. WantedIn(log, 0, 0) = {}
        <4>1. 0 .. 0 - 1 = {}
          OBVIOUS
        <4> QED BY <4>1 DEF WantedIn
      <3> QED BY <2>1, <3>1 DEF IdsOf
    <2>2. ASSUME NEW i \in DOMAIN log, log[i].kind # "batch", log[i].of = c, m = log[i].at
          PROVE  IdsOf(WantedIn(log, 0, m)) \subseteq taken[c] \cup passed[c]
      BY <2>2 DEF PagesInv, StartTaken
    <2> QED BY <1>1, <2>1, <2>2, CheckpointIs
  <1>4. /\ UNCHANGED <<log, synced, engine, durableHead, trusted, taken, rows, calling>>
        /\ pc' = [pc EXCEPT ![c] = "idle"]
    BY DEF OpenFeed, disk, Become
  <1>5. InFlight'
    <2>1. "idle" \notin Waiting /\ InFlight
      BY DEF Waiting, PagesInv
    <2> QED BY <1>4, <2>1, AnsweredCalls DEF OpenFeed, Become
  <1>6. PICK n \in {m} \cup Starts :
          IF n <= durableHead
          THEN /\ feeds' = [feeds EXCEPT ![c] = [state |-> "open", continuation |-> n]]
               /\ start' = [start EXCEPT ![c] = n]
               /\ given' = [given EXCEPT ![c] = <<>>]
               /\ passed' = [passed EXCEPT ![c] = @ \cup IdsOf(WantedIn(log, m, n))]
          ELSE UNCHANGED <<feeds, start, given, passed>>
    BY DEF OpenFeed, Wanted, WantedIn
  <1>7. n \in Nat
    BY <1>2, FeedAssumption
  <1> HIDE DEF m
  <1>8. CASE ~(n <= durableHead)
    BY <1>4, <1>5, <1>6, <1>8, StillKept DEF Still, disk
  <1>9. CASE n <= durableHead
    <2>1. /\ feeds' = [feeds EXCEPT ![c] = [state |-> "open", continuation |-> n]]
          /\ start' = [start EXCEPT ![c] = n]
          /\ given' = [given EXCEPT ![c] = <<>>]
          /\ passed' = [passed EXCEPT ![c] = @ \cup IdsOf(WantedIn(log, m, n))]
          /\ n \in 0 .. durableHead
      BY <1>1, <1>6, <1>7, <1>9
    <2>2. /\ feeds'[c] = [state |-> "open", continuation |-> n] /\ start'[c] = n /\ given'[c] = <<>>
          /\ passed'[c] = passed[c] \cup IdsOf(WantedIn(log, m, n))
          /\ \A d \in Consumers \ {c} : /\ feeds'[d] = feeds[d] /\ start'[d] = start[d]
                                        /\ given'[d] = given[d] /\ passed'[d] = passed[d]
      <3>1. AreFunctions /\ AreFeeds
        BY DEF PagesInv, WakeInv, Typed
      <3> QED BY <2>1, <3>1, Zenon DEF AreFunctions, AreFeeds
    <2>3. FeedsKnown'
      <3>1. ASSUME NEW d \in Consumers, d # c
            PROVE  IF feeds'[d].state = "none" THEN given'[d] = <<>>
                   ELSE /\ engine # "down"
                        /\ feeds'[d].continuation \in 0 .. durableHead
                        /\ start'[d] \in 0 .. feeds'[d].continuation
                        /\ Exact(given'[d], log, start'[d], feeds'[d].continuation)
        BY <2>2, <3>1 DEF PagesInv, FeedsKnown
      <3>2. Exact(<<>>, log, n, n)
        BY <1>1, <1>7, NoPages
      <3>3. /\ engine # "down" /\ feeds'[c].state # "none"
            /\ feeds'[c].continuation \in 0 .. durableHead
            /\ start'[c] \in 0 .. feeds'[c].continuation
            /\ Exact(given'[c], log, start'[c], feeds'[c].continuation)
        BY <1>1, <1>7, <2>1, <2>2, <3>2
      <3> QED BY <1>4, <3>1, <3>3 DEF FeedsKnown
    <2>4. RowsLeft'
      <3>1. IdsOf(UNION Range(given'[c])) = {}
        <4>1. UNION Range(<<>>) = {}
          BY <1>1, NoPages
        <4> QED BY <2>2, <4>1 DEF IdsOf
      <3>2. \A d \in Consumers \ {c} :
               IdsOf(UNION Range(given'[d])) \subseteq taken[d] \cup IdsOf(rows[d])
        BY <2>2 DEF PagesInv, RowsLeft
      <3>3. \A d \in Consumers :
               IdsOf(UNION Range(given'[d])) \subseteq taken[d] \cup IdsOf(rows[d])
        BY <3>1, <3>2
      <3> QED BY <1>4, <3>3 DEF RowsLeft, IdsOf
    <2>5. IdsOf(WantedIn(log, 0, n)) \subseteq taken[c] \cup passed'[c]
      <3>1. CASE n <= m
        <4>1. \A b \in Batches(log) : b.at \in Nat
          BY <1>1, HeadIs
        <4>2. WantedIn(log, 0, n) \subseteq WantedIn(log, 0, m)
          BY <1>2, <1>7, <3>1, <4>1 DEF WantedIn
        <4> QED BY <1>3, <2>2, <4>2 DEF IdsOf
      <3>2. CASE m <= n
        <4>1. 0 \in Nat /\ 0 <= m
          BY <1>2
        <4>2. WantedIn(log, 0, n) = WantedIn(log, 0, m) \cup WantedIn(log, m, n)
          BY <1>1, <1>2, <1>7, <3>2, <4>1, WantedSplits
        <4> QED BY <1>3, <2>2, <4>2 DEF IdsOf
      <3> QED BY <1>2, <1>7, <3>1, <3>2
    <2>6. StartTaken'
      <3> SUFFICES ASSUME NEW d \in Consumers
                   PROVE  /\ feeds'[d].state # "none" =>
                                IdsOf(WantedIn(log, 0, start'[d])) \subseteq taken[d] \cup passed'[d]
                          /\ \A i \in DOMAIN log :
                                log[i].kind # "batch" /\ log[i].of = d =>
                                    IdsOf(WantedIn(log, 0, log[i].at)) \subseteq taken[d] \cup passed'[d]
        BY <1>4 DEF StartTaken, IdsOf, WantedIn
      <3>1. passed[d] \subseteq passed'[d]
        BY <2>2
      <3>2. \A i \in DOMAIN log : log[i].kind # "batch" /\ log[i].of = d =>
               IdsOf(WantedIn(log, 0, log[i].at)) \subseteq taken[d] \cup passed'[d]
        BY <3>1 DEF PagesInv, StartTaken
      <3>3. CASE d = c
        BY <2>2, <2>5, <3>2, <3>3
      <3>4. CASE d # c
        BY <2>2, <3>2, <3>4 DEF PagesInv, StartTaken
      <3> QED BY <3>3, <3>4
    <2>7. AreFunctions' /\ LogKnown'
      BY <1>4, <2>1 DEF PagesInv, AreFunctions, LogKnown
    <2> QED BY <1>5, <2>3, <2>4, <2>6, <2>7 DEF PagesInv
  <1> QED BY <1>8, <1>9

\* The next page follows on the last, and comes to a caller with none left.
LEMMA FeedPagePages ==
    ASSUME WakeInv, PagesInv, NEW c \in Consumers, NEW op \in {"page", "again"}, FeedPage(c, op)
    PROVE  PagesInv'
  <1>1. /\ c \in Threads /\ pc[c] = "called" /\ queue' \in Seq(Message)
        /\ \A i \in 1 .. Len(queue') : queue'[i].by # c
    BY Received DEF FeedPage
  <1>2. \A i \in 1 .. Len(queue') : \E j \in 1 .. Len(queue) : queue'[i] = queue[j]
    <2>1. queue \in Seq(Message) /\ queue # <<>> /\ queue' = Tail(queue)
      BY DEF WakeInv, Typed, FeedPage, Receives, Comes
    <2> QED BY <2>1
  <1>3. rows[c] = {}
    <2>1. /\ queue \in Seq(Message) /\ queue # <<>>
          /\ Head(queue).by = c /\ Head(queue).cmd.op = op
      BY DEF WakeInv, Typed, FeedPage, Receives, Comes
    <2>2. 1 \in 1 .. Len(queue) /\ queue[1] = Head(queue)
      BY <2>1
    <2>3. op \in Empties
      BY DEF Empties
    <2> QED BY <2>1, <2>2, <2>3 DEF PagesInv, InFlight
  <1>4. CASE feeds[c].state # "open"
    <2>1. /\ UNCHANGED <<log, synced, durableHead, feeds, start, given, taken, passed, trusted, rows, engine>>
          /\ UNCHANGED calling /\ Receives(c, op) /\ pc' = [pc EXCEPT ![c] = "idle"]
      BY <1>4 DEF FeedPage, disk, Become
    <2>2. InFlight /\ "idle" \notin Waiting
      BY DEF PagesInv, Waiting
    <2>3. InFlight'
      BY <2>1, <2>2, AnsweredCalls
    <2> QED BY <2>1, <2>3, StillKept DEF Still, disk
  <1>5. CASE feeds[c].state = "open"
    <2> DEFINE from == feeds[c].continuation
    <2>0. PICK room \in 1 .. PageBatches :
            LET page == Page(from, room) IN
            /\ feeds' = [feeds EXCEPT ![c].continuation = PageEnd(from, room)]
            /\ given' = [given EXCEPT ![c] = IF page = {} THEN @ ELSE Append(@, page)]
            /\ rows' = [rows EXCEPT ![c] = page]
            /\ pc' = [pc EXCEPT ![c] = IF page # {} THEN "page"
                                       ELSE IF op = "page" THEN "empty" ELSE "idle"]
      BY <1>5 DEF FeedPage, Become
    <2> room \in Nat \ {0}
      BY FeedAssumption
    <2> DEFINE page == Page(from, room)
               more == IF page = {} THEN given[c] ELSE Append(given[c], page)
    <2>1. /\ feeds' = [feeds EXCEPT ![c].continuation = PageEnd(from, room)]
          /\ given' = [given EXCEPT ![c] = more]
          /\ rows' = [rows EXCEPT ![c] = page]
          /\ UNCHANGED <<log, synced, durableHead, start, taken, passed, trusted, engine, calling>>
      BY <1>5, <2>0 DEF FeedPage, disk
    <2>2. pc' = [pc EXCEPT ![c] = IF page # {} THEN "page"
                                  ELSE IF op = "page" THEN "empty" ELSE "idle"]
      BY <2>0
    <2>3. /\ InOrder(log) /\ durableHead \in Nat /\ HeadOf(log) \in Nat
          /\ engine # "down"
          /\ from \in 0 .. durableHead /\ start[c] \in 0 .. from
          /\ Exact(given[c], log, start[c], from)
      <3>1. InOrder(log) /\ durableHead \in 0 .. HeadOf(log) /\ HeadOf(log) \in Nat
        BY HeadIs DEF PagesInv, LogKnown
      <3> QED BY <1>5, <3>1 DEF PagesInv, FeedsKnown
    <2>4. PageEnd(from, room) \in from .. durableHead /\ page = WantedIn(log, from, PageEnd(from, room))
      BY <2>3, PageExact
    <2> HIDE DEF page
    <2>5. /\ Exact(more, log, start[c], PageEnd(from, room))
          /\ UNION Range(more) = (UNION Range(given[c])) \cup page
      <3>1. /\ start[c] \in Nat /\ from \in Nat /\ PageEnd(from, room) \in Nat
            /\ start[c] <= from /\ from <= PageEnd(from, room)
        BY <2>3, <2>4
      <3>2. more = IF page = {} THEN given[c] ELSE Append(given[c], page)
        OBVIOUS
      <3> HIDE DEF more, from
      <3>3. Exact(more, log, start[c], PageEnd(from, room))
        BY <2>3, <2>4, <3>1, <3>2, OneMore
      <3>4. /\ UNION Range(more) = WantedIn(log, start[c], PageEnd(from, room))
            /\ UNION Range(given[c]) = WantedIn(log, start[c], from)
        BY <2>3, <3>3 DEF Exact
      <3>5. WantedIn(log, start[c], PageEnd(from, room)) = WantedIn(log, start[c], from) \cup page
        BY <2>3, <2>4, <3>1, WantedSplits
      <3> QED BY <3>3, <3>4, <3>5
    <2> HIDE DEF more
    <2>6. /\ feeds'[c] = [state |-> "open", continuation |-> PageEnd(from, room)]
          /\ given'[c] = more /\ rows'[c] = page
          /\ \A d \in Consumers \ {c} :
                feeds'[d] = feeds[d] /\ given'[d] = given[d] /\ rows'[d] = rows[d]
      <3>1. AreFunctions /\ AreFeeds
        BY DEF PagesInv, WakeInv, Typed
      <3> QED BY <1>5, <2>1, <3>1 DEF AreFunctions, AreFeeds
    <2>7. /\ pc'[c] = IF page # {} THEN "page" ELSE IF op = "page" THEN "empty" ELSE "idle"
          /\ \A d \in Consumers \ {c} : pc'[d] = pc[d]
      BY <2>2, ThreadsHave DEF WakeInv, Typed
    <2>8. FeedsKnown'
      <3>1. ASSUME NEW d \in Consumers, d # c
            PROVE  IF feeds'[d].state = "none" THEN given'[d] = <<>>
                   ELSE /\ engine # "down"
                        /\ feeds'[d].continuation \in 0 .. durableHead
                        /\ start[d] \in 0 .. feeds'[d].continuation
                        /\ Exact(given'[d], log, start[d], feeds'[d].continuation)
        BY <2>6, <3>1 DEF PagesInv, FeedsKnown
      <3>2. /\ feeds'[c].state # "none" /\ feeds'[c].continuation = PageEnd(from, room)
            /\ PageEnd(from, room) \in 0 .. durableHead /\ start[c] \in 0 .. PageEnd(from, room)
        BY <2>3, <2>4, <2>6
      <3> QED BY <2>1, <2>3, <2>5, <2>6, <3>1, <3>2 DEF FeedsKnown
    <2>9. RowsLeft'
      <3>1. IdsOf(UNION Range(given[c])) \subseteq taken[c]
        BY <1>3 DEF PagesInv, RowsLeft, IdsOf
      <3>2. IdsOf(UNION Range(more)) \subseteq taken[c] \cup IdsOf(page)
        BY <2>5, <3>1 DEF IdsOf
      <3>3. \A d \in Consumers \ {c} :
               IdsOf(UNION Range(given[d])) \subseteq taken[d] \cup IdsOf(rows[d])
        BY DEF PagesInv, RowsLeft
      <3>4. \A d \in Consumers :
               IdsOf(UNION Range(given'[d])) \subseteq taken[d] \cup IdsOf(rows'[d])
        BY <2>6, <3>2, <3>3
      <3> QED BY <2>1, <3>4 DEF RowsLeft, IdsOf
    <2>10. StartTaken'
      <3>1. \A d \in Consumers : feeds'[d].state # "none" => feeds[d].state # "none"
        BY <1>5, <2>6
      <3> QED BY <2>1, <3>1 DEF PagesInv, StartTaken
    <2>11. AreFunctions' /\ LogKnown'
      BY <2>1 DEF PagesInv, AreFunctions, LogKnown
    <2>12. InFlight'
      <3>1. InFlight /\ Empties' = Empties
        BY DEF PagesInv, Empties
      <3>2. ASSUME NEW d \in Consumers, d # c
            PROVE  /\ calling'[d].op # "none" => pc'[d] = "sending"
                   /\ calling'[d].op \in Empties => rows'[d] = {}
                   /\ \A i \in 1 .. Len(queue') :
                         queue'[i].by = d /\ queue'[i].cmd.op \in Empties => rows'[d] = {}
                   /\ pc'[d] \in Waiting => rows'[d] = {}
        <4>1. pc'[d] = pc[d] /\ rows'[d] = rows[d] /\ calling' = calling
          BY <2>1, <2>6, <2>7, <3>2
        <4> QED BY <1>2, <3>1, <4>1 DEF InFlight, Waiting
      <3>3. /\ calling'[c].op = "none"
            /\ \A i \in 1 .. Len(queue') : queue'[i].by # c
            /\ pc'[c] \in Waiting => rows'[c] = {}
        BY <1>1, <2>1, <2>6, <2>7, <3>1 DEF InFlight, Waiting
      <3>4. ASSUME NEW d \in Consumers
            PROVE  /\ calling'[d].op # "none" => pc'[d] = "sending"
                   /\ calling'[d].op \in Empties => rows'[d] = {}
                   /\ \A i \in 1 .. Len(queue') :
                         queue'[i].by = d /\ queue'[i].cmd.op \in Empties => rows'[d] = {}
                   /\ pc'[d] \in Waiting => rows'[d] = {}
        BY <3>2, <3>3, EmptiesHave
      <3> QED BY <3>1, <3>4 DEF InFlight, Waiting
    <2> QED BY <2>8, <2>9, <2>10, <2>11, <2>12 DEF PagesInv
  <1> QED BY <1>4, <1>5

\* What is before the continuation was before the start, or in a page; a batch
\* of a page is taken, or left in the hands of the caller that acknowledges.
LEMMA AcknowledgeFeedPages ==
    ASSUME WakeInv, PagesInv, NEW c \in Consumers, AcknowledgeFeed(c) PROVE PagesInv'
  <1> DEFINE n == feeds[c].continuation
             f == [kind |-> "ack", of |-> c, at |-> n]
  <1>1. InFlight'
    <2>1. "idle" \notin Waiting /\ InFlight
      BY DEF Waiting, PagesInv
    <2> QED BY <2>1, AnsweredCalls DEF AcknowledgeFeed, Become
  <1>2. UNCHANGED <<engine, feeds, start, given, taken, trusted, rows>>
    BY DEF AcknowledgeFeed
  <1>3. CASE feeds[c].state = "none"
    <2>1. UNCHANGED <<log, synced, durableHead, passed>>
      BY <1>3 DEF AcknowledgeFeed, disk
    <2> QED BY <1>1, <1>2, <2>1, StillKept DEF Still, disk
  <1>4. CASE feeds[c].state # "none"
    <2>1. /\ log' = Append(log, f) /\ synced' = Len(log') /\ durableHead' = HeadOf(log')
          /\ passed' = [passed EXCEPT ![c] = @ \cup IdsOf(rows[c])]
      BY <1>4 DEF AcknowledgeFeed, AckedPosition, CommitOf
    <2>2. /\ InOrder(log) /\ HeadOf(log) \in Nat /\ durableHead \in 0 .. HeadOf(log)
          /\ n \in 0 .. durableHead /\ start[c] \in 0 .. n
          /\ Exact(given[c], log, start[c], n)
      <3>1. InOrder(log) /\ durableHead \in 0 .. HeadOf(log) /\ HeadOf(log) \in Nat
        BY HeadIs DEF PagesInv, LogKnown
      <3> QED BY <1>4, <3>1 DEF PagesInv, FeedsKnown
    <2>3. /\ passed'[c] = passed[c] \cup IdsOf(rows[c])
          /\ \A d \in Consumers : passed[d] \subseteq passed'[d]
          /\ passed' = [d \in Consumers |-> passed'[d]]
      <3>1. passed = [d \in Consumers |-> passed[d]]
        BY DEF PagesInv, AreFunctions
      <3>2. passed'[c] = passed[c] \cup IdsOf(rows[c])
        BY <2>1, <3>1, Zenon
      <3>3. \A d \in Consumers \ {c} : passed'[d] = passed[d]
        BY <2>1, <3>1, Zenon
      <3>4. passed' = [d \in Consumers |-> passed'[d]]
        BY <2>1, <3>1
      <3> QED BY <3>2, <3>3, <3>4
    <2>4. IdsOf(WantedIn(log, 0, n)) \subseteq taken[c] \cup passed'[c]
      <3>1. IdsOf(UNION Range(given[c])) \subseteq taken[c] \cup passed'[c]
        BY <2>3 DEF PagesInv, RowsLeft
      <3>2. UNION Range(given[c]) = WantedIn(log, start[c], n)
        BY <2>2 DEF Exact
      <3>3. IdsOf(WantedIn(log, 0, start[c])) \subseteq taken[c] \cup passed'[c]
        BY <1>4, <2>3 DEF PagesInv, StartTaken
      <3>4. WantedIn(log, 0, n) = WantedIn(log, 0, start[c]) \cup WantedIn(log, start[c], n)
        <4>1. 0 \in Nat /\ start[c] \in Nat /\ n \in Nat /\ 0 <= start[c] /\ start[c] <= n
          BY <2>2
        <4> QED BY <2>2, <4>1, WantedSplits
      <3> QED BY <3>1, <3>2, <3>3, <3>4 DEF IdsOf
    <2>5. f.kind = "ack" /\ f.of = c /\ f.at = n
      OBVIOUS
    <2>6. n \in Nat /\ n <= HeadOf(log)
      BY <2>2
    <2> HIDE DEF n, f
    <2>7. /\ f.at \in Nat /\ (IF f.kind = "batch" THEN f.at = HeadOf(log) ELSE f.at <= HeadOf(log))
          /\ \A d \in Consumers :
                /\ passed[d] \subseteq passed'[d]
                /\ f.kind # "batch" /\ f.of = d =>
                      IdsOf(WantedIn(log, 0, f.at)) \subseteq taken[d] \cup passed'[d]
      BY <2>3, <2>4, <2>5, <2>6
    <2> QED BY <1>1, <1>2, <2>1, <2>3, <2>7, LogGrows
  <1> QED BY <1>3, <1>4

\* Nothing is before a cleared checkpoint.
LEMMA ClearPages ==
    ASSUME WakeInv, PagesInv, NEW c \in Consumers, ClearConsumerCheckpoint(c) PROVE PagesInv'
  <1> DEFINE f == [kind |-> "clear", of |-> c, at |-> 0]
  <1>1. InFlight'
    <2>1. "idle" \notin Waiting /\ InFlight
      BY DEF Waiting, PagesInv
    <2> QED BY <2>1, AnsweredCalls DEF ClearConsumerCheckpoint, Become
  <1>2. UNCHANGED <<engine, feeds, start, given, taken, passed, trusted, rows>>
    BY DEF ClearConsumerCheckpoint, history
  <1>3. log' = Append(log, f) /\ synced' = Len(log') /\ durableHead' = HeadOf(log')
    BY DEF ClearConsumerCheckpoint, CommitOf
  <1>4. HeadOf(log) \in Nat
    BY HeadIs DEF PagesInv, LogKnown
  <1>5. f.kind = "clear" /\ f.at = 0
    OBVIOUS
  <1>6. WantedIn(log, 0, 0) = {}
    <2>1. 0 .. 0 - 1 = {}
      OBVIOUS
    <2> QED BY <2>1 DEF WantedIn
  <1> HIDE DEF f
  <1>7. IdsOf(WantedIn(log, 0, f.at)) = {}
    BY <1>5, <1>6 DEF IdsOf
  <1>8. passed' = [d \in Consumers |-> passed'[d]]
    BY <1>2 DEF PagesInv, AreFunctions
  <1>9. /\ f.at \in Nat /\ (IF f.kind = "batch" THEN f.at = HeadOf(log) ELSE f.at <= HeadOf(log))
        /\ \A d \in Consumers :
              /\ passed[d] \subseteq passed'[d]
              /\ f.kind # "batch" /\ f.of = d =>
                    IdsOf(WantedIn(log, 0, f.at)) \subseteq taken[d] \cup passed'[d]
    BY <1>2, <1>4, <1>5, <1>7
  <1> QED BY <1>1, <1>2, <1>3, <1>8, <1>9, LogGrows

LEMMA CancelFeedPages == ASSUME WakeInv, PagesInv, CancelFeed(User) PROVE PagesInv'
  <1> DEFINE c == Head(queue).cmd.feed
  <1>1. AreFeeds
    BY DEF WakeInv, Typed
  <1>2. \A d \in Consumers :
            /\ feeds'[d].continuation = feeds[d].continuation
            /\ feeds'[d].state = "none" <=> feeds[d].state = "none"
    <2>1. feeds' = IF feeds[c].state = "none" THEN feeds
                   ELSE [feeds EXCEPT ![c].state = "cancelled"]
      BY DEF CancelFeed
    <2> HIDE DEF c
    <2> QED BY <1>1, <2>1 DEF AreFeeds
  <1>3. UNCHANGED <<log, synced, engine, durableHead, rows, start, given, taken, passed, trusted, calling>>
    BY DEF CancelFeed, disk, history
  <1>4. AreFunctions' /\ LogKnown' /\ RowsLeft'
    BY <1>3 DEF PagesInv, AreFunctions, LogKnown, RowsLeft
  <1>5. FeedsKnown'
    BY <1>2, <1>3 DEF PagesInv, FeedsKnown
  <1>6. StartTaken'
    BY <1>2, <1>3 DEF PagesInv, StartTaken
  <1>7. InFlight'
    <2>1. "notify" \notin Waiting /\ InFlight
      BY DEF Waiting, PagesInv
    <2> QED BY <1>3, <2>1, AnsweredCalls DEF CancelFeed, Become
  <1> QED BY <1>4, <1>5, <1>6, <1>7 DEF PagesInv

LEMMA CloseFeedPages ==
    ASSUME WakeInv, PagesInv, NEW c \in Consumers, CloseFeed(c) PROVE PagesInv'
  <1>1. /\ feeds' = [feeds EXCEPT ![c] = NoFeed]
        /\ rows' = [rows EXCEPT ![c] = {}]
        /\ start' = [start EXCEPT ![c] = 0]
        /\ given' = [given EXCEPT ![c] = <<>>]
        /\ UNCHANGED <<log, synced, engine, durableHead, taken, passed, trusted, calling>>
    BY DEF CloseFeed, disk
  <1>2. /\ feeds'[c].state = "none" /\ rows'[c] = {} /\ given'[c] = <<>>
        /\ \A d \in Consumers \ {c} : /\ feeds'[d] = feeds[d] /\ rows'[d] = rows[d]
                                      /\ start'[d] = start[d] /\ given'[d] = given[d]
    <2>1. AreFunctions /\ AreFeeds
      BY DEF PagesInv, WakeInv, Typed
    <2> QED BY <1>1, <2>1 DEF AreFunctions, AreFeeds, NoFeed
  <1>3. AreFunctions' /\ LogKnown'
    BY <1>1 DEF PagesInv, AreFunctions, LogKnown
  <1>4. FeedsKnown'
    <2>1. ASSUME NEW d \in Consumers
          PROVE  IF feeds'[d].state = "none" THEN given'[d] = <<>>
                 ELSE /\ engine # "down"
                      /\ feeds'[d].continuation \in 0 .. durableHead
                      /\ start'[d] \in 0 .. feeds'[d].continuation
                      /\ Exact(given'[d], log, start'[d], feeds'[d].continuation)
      BY <1>2 DEF PagesInv, FeedsKnown
    <2> QED BY <1>1, <2>1 DEF FeedsKnown
  <1>5. RowsLeft'
    <2>1. IdsOf(UNION Range(given'[c])) = {}
      <3>1. UNION Range(<<>>) = {}
        BY NoPages DEF PagesInv, LogKnown
      <3> QED BY <1>2, <3>1 DEF IdsOf
    <2>2. \A d \in Consumers \ {c} :
             IdsOf(UNION Range(given'[d])) \subseteq taken[d] \cup IdsOf(rows'[d])
      BY <1>2 DEF PagesInv, RowsLeft
    <2>3. \A d \in Consumers :
             IdsOf(UNION Range(given'[d])) \subseteq taken[d] \cup IdsOf(rows'[d])
      BY <2>1, <2>2
    <2> QED BY <1>1, <2>3 DEF RowsLeft, IdsOf
  <1>6. StartTaken'
    BY <1>1, <1>2 DEF PagesInv, StartTaken
  <1>7. InFlight'
    <2>1. "notify" \notin Waiting /\ InFlight
      BY DEF Waiting, PagesInv
    <2>2. \A d \in Consumers : rows'[d] \subseteq rows[d]
      BY <1>2
    <2> QED BY <1>1, <2>1, <2>2, AnsweredCalls DEF CloseFeed, Become
  <1> QED BY <1>3, <1>4, <1>5, <1>6, <1>7 DEF PagesInv

\* A batch that leaves the page is taken.
LEMMA TakeRowPages == ASSUME WakeInv, PagesInv, NEW c \in Consumers, TakeRow(c) PROVE PagesInv'
  <1>1. PICK b \in rows[c] : /\ taken' = [taken EXCEPT ![c] = @ \cup {b.id}]
                             /\ rows' = [rows EXCEPT ![c] = @ \ {b}]
    BY DEF TakeRow
  <1>2. /\ UNCHANGED <<log, synced, engine, durableHead, feeds, start, given, passed, trusted, queue, calling>>
        /\ pc[c] \in {"page", "idle"} /\ pc' = [pc EXCEPT ![c] = "idle"]
    BY DEF TakeRow, disk, Become
  <1>3. /\ taken'[c] = taken[c] \cup {b.id} /\ rows'[c] = rows[c] \ {b}
        /\ \A d \in Consumers \ {c} : taken'[d] = taken[d] /\ rows'[d] = rows[d]
    <2>1. AreFunctions
      BY DEF PagesInv
    <2> QED BY <1>1, <2>1 DEF AreFunctions
  <1>4. \A d \in Consumers : taken[d] \subseteq taken'[d] /\ rows'[d] \subseteq rows[d]
    BY <1>3
  <1>5. AreFunctions' /\ LogKnown' /\ FeedsKnown'
    BY <1>1, <1>2 DEF PagesInv, AreFunctions, LogKnown, FeedsKnown
  <1>6. RowsLeft'
    <2>1. taken[c] \cup IdsOf(rows[c]) \subseteq taken'[c] \cup IdsOf(rows'[c])
      BY <1>3 DEF IdsOf
    <2>2. \A d \in Consumers :
             IdsOf(UNION Range(given[d])) \subseteq taken[d] \cup IdsOf(rows[d])
      BY DEF PagesInv, RowsLeft
    <2>3. \A d \in Consumers :
             IdsOf(UNION Range(given[d])) \subseteq taken'[d] \cup IdsOf(rows'[d])
      BY <1>3, <2>1, <2>2
    <2> QED BY <1>2, <2>3 DEF RowsLeft, IdsOf
  <1>7. StartTaken'
    <2> SUFFICES ASSUME NEW d \in Consumers
                 PROVE  /\ feeds[d].state # "none" =>
                              IdsOf(WantedIn(log, 0, start[d])) \subseteq taken'[d] \cup passed[d]
                        /\ \A i \in DOMAIN log :
                              log[i].kind # "batch" /\ log[i].of = d =>
                                  IdsOf(WantedIn(log, 0, log[i].at)) \subseteq taken'[d] \cup passed[d]
      BY <1>2 DEF StartTaken
    <2> QED BY <1>4 DEF PagesInv, StartTaken
  <1>8. InFlight'
    <2>1. InFlight
      BY DEF PagesInv
    <2>2. /\ pc'[c] = "idle" /\ calling[c].op = "none"
          /\ \A d \in Consumers \ {c} : pc'[d] = pc[d]
      BY <1>2, <2>1, ThreadsHave DEF WakeInv, Typed, InFlight
    <2>3. /\ \A d \in Consumers : calling'[d].op # "none" => pc'[d] = "sending"
          /\ \A d \in Consumers : pc'[d] \in Waiting => pc[d] \in Waiting
      BY <1>2, <2>1, <2>2 DEF InFlight, Waiting
    <2>4. \A i \in 1 .. Len(queue') : \E j \in 1 .. Len(queue) : queue'[i] = queue[j]
      BY <1>2
    <2> QED BY <1>2, <1>4, <2>1, <2>3, <2>4, NothingSent
  <1> QED BY <1>5, <1>6, <1>7, <1>8 DEF PagesInv

----------------------------------------------------------------------------
(* The end of a process, and its beginning *)

\* Nothing of the feeds outlives a process but the log and what was taken.
LEMMA ForgetPages ==
    ASSUME PagesInv, Forget, UNCHANGED <<taken, passed, trusted>>,
           InOrder(log'), synced' \in 0 .. Len(log'),
           \A i \in DOMAIN log' : i \in DOMAIN log /\ log'[i] = log[i],
           Batches(log') \subseteq Batches(log)
    PROVE  PagesInv'
  <1>1. /\ durableHead' = 0 /\ engine' = "down"
        /\ feeds' = [c \in Consumers |-> NoFeed]
        /\ rows' = [c \in Consumers |-> {}]
        /\ start' = [c \in Consumers |-> 0]
        /\ given' = [c \in Consumers |-> <<>>]
        /\ queue' = <<>>
        /\ pc' = [t \in Threads |-> "idle"]
        /\ calling' = [t \in Threads |-> NoCall]
    BY DEF Forget
  <1>2. AreFunctions'
    BY <1>1 DEF PagesInv, AreFunctions
  <1>3. LogKnown'
    <2>1. 0 \in 0 .. HeadOf(log')
      BY HeadIs
    <2>2. \A i \in DOMAIN log' : ~(log'[i].at < 0)
      BY DEF InOrder
    <2> QED BY <1>1, <2>1, <2>2 DEF LogKnown
  <1>4. FeedsKnown'
    BY <1>1 DEF FeedsKnown, NoFeed
  <1>5. InFlight'
    BY <1>1, ThreadsHave DEF InFlight, NoCall
  <1>6. RowsLeft'
    <2>1. UNION Range(<<>>) = {}
      BY NoPages DEF PagesInv, LogKnown
    <2>2. \A c \in Consumers : IdsOf(UNION Range(given'[c])) = {}
      BY <1>1, <2>1 DEF IdsOf
    <2>3. \A c \in Consumers : IdsOf(UNION Range(given'[c])) \subseteq taken[c] \cup IdsOf(rows'[c])
      BY <2>2
    <2> QED BY <2>3 DEF RowsLeft, IdsOf
  <1>7. StartTaken'
    <2> SUFFICES ASSUME NEW c \in Consumers, NEW i \in DOMAIN log',
                        log'[i].kind # "batch", log'[i].of = c
                 PROVE  IdsOf(WantedIn(log', 0, log'[i].at)) \subseteq taken[c] \cup passed[c]
      BY <1>1 DEF StartTaken, NoFeed
    <2>1. IdsOf(WantedIn(log, 0, log[i].at)) \subseteq taken[c] \cup passed[c]
      BY DEF PagesInv, StartTaken
    <2>2. WantedIn(log', 0, log[i].at) \subseteq WantedIn(log, 0, log[i].at)
      BY DEF WantedIn
    <2> QED BY <2>1, <2>2 DEF IdsOf
  <1> QED BY <1>2, <1>3, <1>4, <1>5, <1>6, <1>7 DEF PagesInv

LEMMA KeptLog ==
    ASSUME PagesInv, Forget, UNCHANGED <<log, synced, taken, passed, trusted>> PROVE PagesInv'
  <1>1. InOrder(log') /\ synced' \in 0 .. Len(log')
    BY DEF PagesInv, LogKnown
  <1>2. /\ \A i \in DOMAIN log' : i \in DOMAIN log /\ log'[i] = log[i]
        /\ Batches(log') \subseteq Batches(log)
    OBVIOUS
  <1> QED BY <1>1, <1>2, ForgetPages

LEMMA PowerLossPages == ASSUME PagesInv, PowerLoss PROVE PagesInv'
  <1>1. PICK n \in synced .. Len(log) : log' = SubSeq(log, 1, n) /\ synced' = n
    BY DEF PowerLoss
  <1>2. InOrder(log) /\ Len(log) \in Nat /\ synced \in 0 .. Len(log)
    BY DEF PagesInv, LogKnown, InOrder, IsSequence
  <1>3. n \in 0 .. Len(log)
    BY <1>2
  <1>4. InOrder(log') /\ Len(log') = n /\ Batches(log') \subseteq Batches(log) /\ DOMAIN log' = 1 .. n
    BY <1>1, <1>2, <1>3, Cut
  <1>5. \A i \in 1 .. n : i \in DOMAIN log /\ log'[i] = log[i]
    BY <1>1, <1>2, <1>3, Cut
  <1>6. synced' \in 0 .. Len(log')
    BY <1>1, <1>3, <1>4
  <1>7. Forget /\ UNCHANGED <<taken, passed, trusted>>
    BY DEF PowerLoss
  <1> QED BY <1>4, <1>5, <1>6, <1>7, ForgetPages

LEMMA InitPages == ASSUME Init PROVE PagesInv
  <1>1. log = <<>> /\ synced = 0 /\ durableHead = 0
    BY DEF Init
  <1>2. InOrder(<<>>)
    <2>1. IsSequence(<<>>) /\ DOMAIN <<>> = {}
      BY DEF IsSequence
    <2> QED BY <2>1 DEF InOrder
  <1>3. DOMAIN log = {} /\ Len(log) = 0
    BY <1>1
  <1>4. AreFunctions /\ FeedsKnown
    BY DEF Init, AreFunctions, FeedsKnown, NoFeed
  <1>5. LogKnown
    <2>1. HeadOf(log) \in Nat
      BY <1>1, <1>2, HeadIs
    <2> QED BY <1>1, <1>2, <1>3, <2>1 DEF LogKnown
  <1>6. InFlight
    BY ThreadsHave DEF Init, InFlight, NoCall
  <1>7. RowsLeft
    <2>1. UNION Range(<<>>) = {}
      BY <1>2, NoPages
    <2>2. \A c \in Consumers : IdsOf(UNION Range(given[c])) = {}
      BY <2>1 DEF Init, IdsOf
    <2> QED BY <2>2 DEF RowsLeft
  <1>8. StartTaken
    BY <1>3 DEF Init, StartTaken, NoFeed
  <1> QED BY <1>4, <1>5, <1>6, <1>7, <1>8 DEF PagesInv

----------------------------------------------------------------------------

LEMMA SequencerPages == ASSUME WakeInv, PagesInv, Sequencer PROVE PagesInv'
  BY AppendBatchPages, CommitPages, CommitUnpublishedPages, PublishSwapPages, PublishNotifyPages,
     CancelFeedPages, ShutdownPages, OpenFeedPages, FeedPagePages, AcknowledgeFeedPages,
     ClearPages, CloseFeedPages
  DEF Sequencer

LEMMA StepPages == ASSUME WakeInv, PagesInv, NEW t \in Threads, Step(t) PROVE PagesInv'
  <1>1. CASE Closed(t)
    BY <1>1, KeptLog DEF Closed, disk
  <1> QED BY <1>1, SendPages, NotifyPages, CloseNotifyPages, TakeMutexPages, CompareHeadPages,
             AskAgainPages, TakeRowPages
          DEF Step

LEMMA NextPages == ASSUME WakeInv, PagesInv, [Next]_vars PROVE PagesInv'
  <1>1. CASE Kill
    BY <1>1, KeptLog DEF Kill, disk
  <1> QED BY <1>1, PowerLossPages, OpenEnginePages, CallsPages, ClosePages, SequencerPages,
             StepPages, TimeOutPages, StutterPages
          DEF Next

LEMMA SpecPages == Spec => [](WakeInv /\ PagesInv)
  <1>1. Init => WakeInv /\ PagesInv
    BY InitInv, InitPages
  <1>2. WakeInv /\ PagesInv /\ [Next]_vars => (WakeInv /\ PagesInv)'
    BY NextInv, NextPages
  <1> QED BY <1>1, <1>2, PTL DEF Spec

\* However consumers, the sequencer, crashes and closing interleave, whatever
\* the filter wants and however full the pages: the pages of a feed are what
\* the log holds for it from its start to where it continues (feed_page).
THEOREM PagesOfAFeedAreExact == Spec => []PagesAreExact
  <1>1. PagesInv => PagesAreExact
    BY DEF PagesInv, FeedsKnown, Exact, WantedIn, Wanted, PagesAreExact
  <1> QED BY <1>1, SpecPages, PTL

\* A feed hands out no batch that a power loss could still take, but for the
\* ones an open found and took for durable (open_committed_feed, feed_page).
THEOREM FeedsShowOnlyDurable == Spec => []OnlyDurable
  <1>1. ASSUME PagesInv PROVE OnlyDurable
    <2> SUFFICES ASSUME NEW c \in Consumers, NEW b \in UNION Range(given[c])
                 PROVE  b.id \in IdsOf(BatchesIn(log, 1, synced)) \cup trusted
      BY DEF OnlyDurable, IdsOf
    <2>1. /\ InOrder(log) /\ Len(log) \in Nat /\ DOMAIN log = 1 .. Len(log)
          /\ synced \in 0 .. Len(log) /\ durableHead \in 0 .. HeadOf(log) /\ HeadOf(log) \in Nat
      BY <1>1, HeadIs DEF PagesInv, LogKnown, InOrder, IsSequence
    <2>2. feeds[c].state # "none"
      <3>1. UNION Range(<<>>) = {}
        BY <2>1, NoPages
      <3> QED BY <1>1, <3>1 DEF PagesInv, FeedsKnown
    <2>3. /\ feeds[c].continuation \in 0 .. durableHead /\ start[c] \in 0 .. feeds[c].continuation
          /\ b \in WantedIn(log, start[c], feeds[c].continuation)
      BY <1>1, <2>2 DEF PagesInv, FeedsKnown, Exact
    <2>4. PICK i \in DOMAIN log : log[i].kind = "batch" /\ b = log[i]
      BY <2>1, <2>3 DEF WantedIn, Batches, BatchesIn
    <2>5. log[i].at \in start[c] .. feeds[c].continuation - 1
      BY <2>3, <2>4 DEF WantedIn
    <2>6. log[i].at < durableHead
      BY <2>1, <2>3, <2>5
    <2>7. i <= synced \/ log[i].id \in trusted
      BY <1>1, <2>4, <2>6 DEF PagesInv, LogKnown
    <2>8. ASSUME i <= synced PROVE b.id \in IdsOf(BatchesIn(log, 1, synced))
      <3>1. i \in 1 .. synced
        BY <2>1, <2>8
      <3> QED BY <2>4, <3>1 DEF IdsOf, BatchesIn
    <2> QED BY <2>4, <2>7, <2>8
  <1> QED BY <1>1, SpecPages, PTL

\* At least once: whatever is before a consumer's checkpoint, it took, before a
\* crash or after it, but for the batches its caller still had in its hands
\* when it acknowledged, and the ones it chose to start a feed behind
\* (acknowledge_feed, open_committed_feed, restore_consumer_checkpoints).
THEOREM AcknowledgedWereTaken == Spec => []AckedWereTaken
  <1>1. ASSUME PagesInv PROVE AckedWereTaken
    <2> SUFFICES ASSUME NEW c \in Consumers
                 PROVE  IdsOf(WantedIn(log, 0, Checkpoint(log, c))) \subseteq taken[c] \cup passed[c]
      BY DEF AckedWereTaken, WantedIn, Wanted
    <2>1. CASE Checkpoint(log, c) = 0
      <3>1. WantedIn(log, 0, 0) = {}
        <4>1. 0 .. 0 - 1 = {}
          OBVIOUS
        <4> QED BY <4>1 DEF WantedIn
      <3> QED BY <2>1, <3>1 DEF IdsOf
    <2>2. ASSUME NEW i \in DOMAIN log, log[i].kind # "batch", log[i].of = c,
                 Checkpoint(log, c) = log[i].at
          PROVE  IdsOf(WantedIn(log, 0, Checkpoint(log, c))) \subseteq taken[c] \cup passed[c]
      BY <1>1, <2>2 DEF PagesInv, StartTaken
    <2> QED BY <1>1, <2>1, <2>2, CheckpointIs DEF PagesInv, LogKnown
  <1> QED BY <1>1, SpecPages, PTL
=============================================================================
