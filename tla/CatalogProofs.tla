--------------------------- MODULE CatalogProofs ---------------------------
(***************************************************************************)
(* Two results about the engine core, for any requests, policy, number of  *)
(* batches, crashes and failed calls.                                      *)
(*                                                                         *)
(* What a caller was told is synced survives (PromisedDurable).            *)
(*                                                                         *)
(* PromisedDurable is not inductive: the receipt of a retry comes from the *)
(* catalog, which may come from a checkpoint of another log.  So every     *)
(* checkpoint that an open may meet is either of a prefix of this log      *)
(* (Sound) or of a head the log has not reached and cannot reach before    *)
(* the checkpoint is replaced.                                             *)
(*                                                                         *)
(* While no batch was left between log and catalog, the catalog is the     *)
(* fold of the log, and the log is what such a catalog lets in: serial per *)
(* stream, with each key and each event id in one batch.  ExactInv says of *)
(* every checkpoint of which prefix of the log it is the fold.             *)
(***************************************************************************)
EXTENDS CoreCatalog, TLAPS, FiniteSetTheorems

EndOf(b) == b.first + Len(b.req.events)

\* Batches follow one another.
Chained(l) ==
    /\ l \in Seq({l[i] : i \in DOMAIN l})
    /\ \A i \in DOMAIN l : l[i].first \in Nat /\ l[i].req \in Requests
    /\ \A i, j \in DOMAIN l : i < j => EndOf(l[i]) <= l[j].first

LogShape == Chained(log) /\ synced \in 0 .. Len(log)

Durables == {log[i].batch : i \in 1 .. synced}

Shape ==
    /\ \A c \in checkpoint \cup safe : c.head \in Nat
    /\ \A c, d \in checkpoint : c = d
    /\ \A c, d \in safe : c = d
    /\ checkpoint = {} => safe = {}
    /\ phase \in {"sync", "persist", "publish"} => call.kind \in {"append", "retry", "commit"}
    /\ phase \in {"persist", "publish"} => synced = Len(log)
    /\ phase \in {"sync", "persist"} /\ call.kind = "append" => log # <<>>

\* What a catalog calls synced no power loss can take.
SyncedDurable ==
    /\ catalog.synced \subseteq Durables
    /\ \A c \in checkpoint \cup safe : c.catalog.synced \subseteq Durables

\* A catalog names batches of log l below a head alone.
Sound(l, cat, head) ==
    \A e \in cat.ids \cup cat.keys :
        \E i \in DOMAIN l : l[i].batch = e.batch /\ EndOf(l[i]) <= head

\* A checkpoint of a log that was cut since.
Ahead(c) == phase \in {"down", "cache"} /\ HeadOf(log) < c.head

CatalogsSound ==
    /\ Sound(log, catalog, HeadOf(log))
    /\ \A c \in checkpoint : Sound(log, c.catalog, c.head) \/ Ahead(c)
    /\ \A s \in safe :
          Sound(log, s.catalog, s.head) \/ Ahead(s) \/ \A c \in checkpoint : c.head < s.head

CallKnown ==
    phase \in {"sync", "persist", "publish"} /\ call.kind \in {"append", "retry"} =>
        \E i \in DOMAIN log : log[i].batch = call.batch

PromiseInv ==
    /\ LogShape /\ Shape /\ SyncedDurable
    /\ "cache" \notin lapses => CatalogsSound /\ CallKnown /\ promised \subseteq Durables

----------------------------------------------------------------------------
(* The log *)

\* The head is where the last batch ends, and no batch ends behind it.
LEMMA Heads ==
  ASSUME NEW l, Chained(l)
  PROVE  /\ HeadOf(l) \in Nat
         /\ \A i \in DOMAIN l : EndOf(l[i]) \in Nat /\ EndOf(l[i]) <= HeadOf(l)
<1>1. Len(l) \in Nat /\ DOMAIN l = 1 .. Len(l)
  BY DEF Chained
<1>2. \A i \in DOMAIN l : EndOf(l[i]) \in Nat /\ l[i].first < EndOf(l[i])
  BY CatalogAssumption DEF Chained, EndOf
<1>3. CASE l = <<>>
  BY <1>1, <1>3 DEF HeadOf
<1>4. CASE l # <<>>
  <2>1. Len(l) \in DOMAIN l
    BY <1>1, <1>4 DEF Chained
  <2>2. HeadOf(l) = EndOf(l[Len(l)])
    BY <1>4 DEF HeadOf, EndOf, Last
  <2>3. \A i \in DOMAIN l : EndOf(l[i]) <= EndOf(l[Len(l)])
    <3> SUFFICES ASSUME NEW i \in DOMAIN l, i # Len(l)
                 PROVE  EndOf(l[i]) <= EndOf(l[Len(l)])
      BY <1>2
    <3>1. i < Len(l)
      BY <1>1
    <3>2. EndOf(l[i]) <= l[Len(l)].first
      BY <2>1, <3>1 DEF Chained
    <3> QED
      BY <1>2, <2>1, <3>2 DEF Chained
  <2> QED
    BY <1>2, <2>1, <2>2, <2>3
<1> QED
  BY <1>3, <1>4

\* A batch at the head changes nothing before it.
LEMMA Grows ==
  ASSUME LogShape, NEW b, b.first = HeadOf(log), b.req \in Requests,
         log' = Append(log, b), synced' = synced
  PROVE  /\ LogShape'
         /\ \A i \in DOMAIN log : i \in DOMAIN log' /\ log'[i] = log[i]
         /\ Len(log') \in DOMAIN log' /\ log'[Len(log')] = b
         /\ HeadOf(log') = EndOf(b) /\ HeadOf(log) <= HeadOf(log')
         /\ Durables' = Durables
<1> DEFINE T == {log[i] : i \in DOMAIN log} \cup {b}
<1>1. log \in Seq(T) /\ b \in T
  <2>1. {log[i] : i \in DOMAIN log} \subseteq T
    OBVIOUS
  <2> QED
    BY <2>1 DEF LogShape, Chained
<1>2. /\ log' \in Seq(T) /\ Len(log') = Len(log) + 1 /\ Len(log) \in Nat
      /\ DOMAIN log = 1 .. Len(log) /\ DOMAIN log' = 1 .. Len(log')
      /\ \A i \in 1 .. Len(log) : log'[i] = log[i]
      /\ log'[Len(log) + 1] = b
  <2> HIDE DEF T
  <2> QED
    BY <1>1
<1>3. \A i \in DOMAIN log : i \in DOMAIN log' /\ log'[i] = log[i]
  BY <1>2
<1>4. Len(log') \in DOMAIN log' /\ log'[Len(log')] = b
  BY <1>2
<1>5. HeadOf(log') = EndOf(b)
  <2>1. log' # <<>>
    BY <1>4
  <2> QED
    BY <2>1, <1>4 DEF HeadOf, EndOf, Last
<1>6. HeadOf(log) <= HeadOf(log')
  BY <1>5, Heads, CatalogAssumption DEF EndOf, LogShape
<1>7. Durables' = Durables
  <2>1. \A i \in 1 .. synced : log'[i] = log[i]
    BY <1>2 DEF LogShape, Chained
  <2> QED
    BY <2>1 DEF Durables
<1>8. LogShape'
  <2>1. log' \in Seq({log'[i] : i \in DOMAIN log'})
    <3>1. \A i \in 1 .. Len(log') : log'[i] \in {log'[j] : j \in DOMAIN log'}
      BY <1>2
    <3> QED
      BY <1>2, <3>1
  <2>2. \A i \in DOMAIN log' : log'[i].first \in Nat /\ log'[i].req \in Requests
    <3> SUFFICES ASSUME NEW i \in DOMAIN log' PROVE log'[i].first \in Nat /\ log'[i].req \in Requests
      OBVIOUS
    <3>1. CASE i \in DOMAIN log
      BY <3>1, <1>3 DEF LogShape, Chained
    <3>2. CASE i = Len(log')
      BY <3>2, <1>4, Heads DEF LogShape
    <3> QED
      BY <3>1, <3>2, <1>2
  <2>3. \A i, j \in DOMAIN log' : i < j => EndOf(log'[i]) <= log'[j].first
    <3> SUFFICES ASSUME NEW i \in DOMAIN log', NEW j \in DOMAIN log', i < j
                 PROVE  EndOf(log'[i]) <= log'[j].first
      OBVIOUS
    <3>1. i \in DOMAIN log /\ log'[i] = log[i]
      BY <1>2
    <3>2. CASE j \in DOMAIN log
      BY <3>1, <3>2, <1>3 DEF LogShape, Chained
    <3>3. CASE j = Len(log')
      BY <3>1, <3>3, <1>4, Heads DEF LogShape
    <3> QED
      BY <3>2, <3>3, <1>2
  <2>4. synced' \in 0 .. Len(log')
    BY <1>2 DEF LogShape, Chained
  <2> QED
    BY <2>1, <2>2, <2>3, <2>4 DEF LogShape, Chained
<1> QED
  BY <1>3, <1>4, <1>5, <1>6, <1>7, <1>8

\* A power loss keeps the batches that end at or before the head it leaves.
LEMMA Cut ==
  ASSUME LogShape, NEW n \in synced .. Len(log), log' = SubSeq(log, 1, n), synced' = n
  PROVE  /\ LogShape'
         /\ \A i \in DOMAIN log :
               EndOf(log[i]) <= HeadOf(log') => i \in DOMAIN log' /\ log'[i] = log[i]
         /\ HeadOf(log') \in Nat /\ HeadOf(log') <= HeadOf(log)
         /\ Durables \subseteq Durables'
<1>1. n \in Nat /\ n <= Len(log) /\ synced <= n /\ synced \in Nat /\ DOMAIN log = 1 .. Len(log)
  BY DEF LogShape, Chained
<1>2. /\ Len(log') = n /\ DOMAIN log' = 1 .. n
      /\ \A i \in 1 .. n : i \in DOMAIN log /\ log'[i] = log[i]
  BY <1>1 DEF LogShape, Chained
<1>3. LogShape'
  <2>1. log' \in Seq({log'[i] : i \in DOMAIN log'})
    <3>1. \A i \in 1 .. Len(log') : log'[i] \in {log'[j] : j \in DOMAIN log'}
      BY <1>2
    <3>2. log' = [i \in 1 .. n |-> log'[i]]
      BY <1>1, <1>2 DEF LogShape, Chained
    <3> QED
      BY <1>1, <1>2, <3>1, <3>2
  <2>2. \A i \in DOMAIN log' : log'[i].first \in Nat /\ log'[i].req \in Requests
    BY <1>2 DEF LogShape, Chained
  <2>3. \A i, j \in DOMAIN log' : i < j => EndOf(log'[i]) <= log'[j].first
    BY <1>2 DEF LogShape, Chained
  <2> QED
    BY <1>1, <1>2, <2>1, <2>2, <2>3, SMTT(30) DEF LogShape, Chained
<1>4. HeadOf(log') \in Nat /\ \A i \in DOMAIN log' : EndOf(log'[i]) <= HeadOf(log')
  BY <1>3, Heads DEF LogShape
<1>5. \A i \in DOMAIN log : n < i => HeadOf(log') < EndOf(log[i])
  <2> SUFFICES ASSUME NEW i \in DOMAIN log, n < i PROVE HeadOf(log') < EndOf(log[i])
    OBVIOUS
  <2>1. log[i].first \in Nat /\ EndOf(log[i]) \in Nat /\ log[i].first < EndOf(log[i])
    BY CatalogAssumption, SMTT(30) DEF LogShape, Chained, EndOf
  <2>2. CASE n = 0
    <3>1. log' = <<>>
      BY <1>2, <2>2 DEF LogShape, Chained
    <3> QED
      BY <2>1, <3>1 DEF HeadOf
  <2>3. CASE n # 0
    <3>1. n \in DOMAIN log' /\ n \in DOMAIN log /\ log'[n] = log[n] /\ log' # <<>>
      BY <1>1, <1>2, <2>3
    <3>2. HeadOf(log') = EndOf(log[n])
      BY <1>2, <3>1 DEF HeadOf, EndOf, Last
    <3>3. EndOf(log[n]) <= log[i].first
      BY <3>1 DEF LogShape, Chained
    <3> QED
      BY <1>4, <2>1, <3>1, <3>2, <3>3
  <2> QED
    BY <2>2, <2>3
<1>6. \A i \in DOMAIN log :
         EndOf(log[i]) <= HeadOf(log') => i \in DOMAIN log' /\ log'[i] = log[i]
  <2> SUFFICES ASSUME NEW i \in DOMAIN log, EndOf(log[i]) <= HeadOf(log')
               PROVE  i \in 1 .. n
    BY <1>2
  <2>1. EndOf(log[i]) \in Nat
    BY Heads DEF LogShape
  <2>2. ~(n < i)
    BY <1>4, <1>5, <2>1
  <2> QED
    BY <1>1, <2>2
<1>7. HeadOf(log') <= HeadOf(log)
  <2>1. CASE n = 0
    <3>1. log' = <<>>
      BY <1>2, <2>1 DEF LogShape, Chained
    <3> QED
      BY <3>1, Heads DEF HeadOf, LogShape
  <2>2. CASE n # 0
    <3>1. n \in DOMAIN log /\ HeadOf(log') = EndOf(log[n])
      BY <1>1, <1>2, <2>2 DEF HeadOf, EndOf, Last
    <3> QED
      BY <3>1, Heads DEF LogShape
  <2> QED
    BY <2>1, <2>2
<1>8. Durables \subseteq Durables'
  BY <1>1, <1>2 DEF Durables
<1> QED
  BY <1>3, <1>4, <1>6, <1>7, <1>8

----------------------------------------------------------------------------
(* The catalogs *)

\* The entries of a batch name it.
LEMMA EntriesName ==
  ASSUME NEW b
  PROVE  \A e \in IdEntries(b) \cup KeyEntries(b) : e.batch = b.batch
<1>1. \A e \in IdEntries(b) : e.batch = b.batch
  BY DEF IdEntries
<1>2. \A e \in KeyEntries(b) : e.batch = b.batch
  BY DEF KeyEntries
<1> QED
  BY <1>1, <1>2

\* Recording a batch of the log keeps a catalog sound.
LEMMA RecordSound ==
  ASSUME NEW l, NEW cat, NEW head, NEW i \in DOMAIN l, NEW isSynced,
         Sound(l, cat, head), EndOf(l[i]) <= head
  PROVE  /\ Sound(l, Record(cat, l[i], isSynced), head)
         /\ Record(cat, l[i], isSynced).synced \subseteq cat.synced \cup {l[i].batch}
         /\ ~isSynced => Record(cat, l[i], isSynced).synced = cat.synced
<1> DEFINE rec == Record(cat, l[i], isSynced)
<1>1. /\ rec.ids \subseteq cat.ids \cup IdEntries(l[i])
      /\ rec.keys \subseteq cat.keys \cup KeyEntries(l[i])
  BY DEF Record, Insert
<1>2. \A e \in rec.ids \cup rec.keys : e \in cat.ids \cup cat.keys \/ e.batch = l[i].batch
  BY <1>1, EntriesName
<1>3. rec.synced = IF isSynced THEN cat.synced \cup {l[i].batch} ELSE cat.synced
  BY DEF Record
<1>4. Sound(l, rec, head)
  <2> HIDE DEF rec
  <2> QED
    BY <1>2 DEF Sound
<1> QED
  BY <1>3, <1>4

\* A rebuilt catalog is sound.
LEMMA RebuildSound ==
  ASSUME NEW l, Chained(l)
  PROVE  Sound(l, Rebuild(l), HeadOf(l)) /\ Rebuild(l).synced = {}
<1>1. DOMAIN AllIds(l) = DOMAIN l /\ DOMAIN AllKeys(l) = DOMAIN l
  BY DEF AllIds, AllKeys
<1>2. \A e \in Latest(AllIds(l)) : \E i \in DOMAIN l : e \in IdEntries(l[i])
  BY DEF Latest, AllIds
<1>3. \A e \in Latest(AllKeys(l)) : \E i \in DOMAIN l : e \in KeyEntries(l[i])
  BY DEF Latest, AllKeys
<1>4. Rebuild(l).ids = Latest(AllIds(l)) /\ Rebuild(l).keys = Latest(AllKeys(l)) /\ Rebuild(l).synced = {}
  BY DEF Rebuild
<1>5. \A e \in Rebuild(l).ids \cup Rebuild(l).keys : \E i \in DOMAIN l : l[i].batch = e.batch
  BY <1>2, <1>3, <1>4, EntriesName
<1>6. Sound(l, Rebuild(l), HeadOf(l))
  BY <1>5, Heads DEF Sound
<1> QED
  BY <1>4, <1>6

\* A catalog that is sound stays so in a longer log and at a later head.
LEMMA SoundLonger ==
  ASSUME NEW l, NEW m, NEW cat, NEW head \in Nat, NEW later \in Nat, Chained(l),
         Sound(l, cat, head), head <= later,
         \A i \in DOMAIN l : i \in DOMAIN m /\ m[i] = l[i]
  PROVE  Sound(m, cat, later)
BY Heads DEF Sound

\* A new checkpoint takes the place of one that is ahead of the log.
LEMMA PersistSound ==
  ASSUME PromiseInv, NEW complete, PersistCatalog(complete), phase # "down"
  PROVE  /\ \A c \in checkpoint' \cup safe' : c.head \in Nat
         /\ \A c, d \in checkpoint' : c = d
         /\ \A c, d \in safe' : c = d
         /\ checkpoint' # {}
         /\ \A c \in checkpoint' \cup safe' : c.catalog.synced \subseteq Durables
         /\ "cache" \notin lapses =>
               /\ \A c \in checkpoint' : Sound(log, c.catalog, c.head)
               /\ \A s \in safe' :
                     Sound(log, s.catalog, s.head) \/ \A c \in checkpoint' : c.head < s.head
<1>1. HeadOf(log) \in Nat
  BY Heads DEF PromiseInv, LogShape
<1>2. safe' = checkpoint
  BY DEF PersistCatalog
<1>3. \A c \in checkpoint' : c.head = HeadOf(log) /\ c.catalog = catalog
  BY DEF PersistCatalog
<1>4. checkpoint' # {} /\ \A c, d \in checkpoint' : c = d
  BY DEF PersistCatalog
<1>5. \A c \in checkpoint' \cup safe' : c.head \in Nat /\ c.catalog.synced \subseteq Durables
  BY <1>1, <1>2, <1>3 DEF PromiseInv, Shape, SyncedDurable
<1>6. ASSUME "cache" \notin lapses
      PROVE  /\ \A c \in checkpoint' : Sound(log, c.catalog, c.head)
             /\ \A s \in safe' :
                   Sound(log, s.catalog, s.head) \/ \A c \in checkpoint' : c.head < s.head
  BY <1>2, <1>3, <1>6 DEF PromiseInv, CatalogsSound, Ahead
<1>7. \A c, d \in safe' : c = d
  BY <1>2 DEF PromiseInv, Shape
<1> QED
  BY <1>4, <1>5, <1>6, <1>7

----------------------------------------------------------------------------
(* The actions *)

\* The checkpoint an open takes is no longer ahead.
LEMMA OpenFromCheckpointKeeps ==
  ASSUME PromiseInv, OpenFromCheckpoint
  PROVE  PromiseInv'
<1>1. PICK c \in checkpoint : c.head = HeadOf(log) /\ catalog' = c.catalog
  BY DEF OpenFromCheckpoint, Usable
<1>2. UNCHANGED <<log, synced, checkpoint, safe, call, promised, lapses>> /\ phase' = "idle"
  BY DEF OpenFromCheckpoint, disk
<1>3. LogShape' /\ Shape' /\ SyncedDurable'
  BY <1>1, <1>2 DEF PromiseInv, LogShape, Shape, SyncedDurable, Durables
<1>4. HeadOf(log) \in Nat
  BY Heads DEF PromiseInv, LogShape
<1>5. \A d \in checkpoint : d = c
  BY DEF PromiseInv, Shape
<1>6. ASSUME "cache" \notin lapses PROVE CatalogsSound'
  <2>1. Sound(log, c.catalog, c.head)
    BY <1>1, <1>4, <1>6 DEF PromiseInv, CatalogsSound, Ahead
  <2>2. \A s \in safe : Sound(log, s.catalog, s.head) \/ c.head < s.head
    BY <1>1, <1>6 DEF PromiseInv, CatalogsSound, Ahead
  <2> QED
    BY <1>1, <1>2, <1>5, <2>1, <2>2 DEF CatalogsSound
<1>7. CallKnown' /\ ("cache" \notin lapses => promised' \subseteq Durables')
  BY <1>2 DEF CallKnown, PromiseInv, Durables
<1> QED
  BY <1>2, <1>3, <1>6, <1>7 DEF PromiseInv

\* A checkpoint may be ahead until it is replaced.
LEMMA OpenByRebuildKeeps ==
  ASSUME PromiseInv, OpenByRebuild
  PROVE  PromiseInv'
<1>1. /\ UNCHANGED <<log, synced, checkpoint, safe, call, promised, lapses>>
      /\ phase = "down" /\ phase' = "cache" /\ catalog' = Rebuild(log)
  BY DEF OpenByRebuild, disk
<1>2. Sound(log, Rebuild(log), HeadOf(log)) /\ Rebuild(log).synced = {}
  BY RebuildSound DEF PromiseInv, LogShape
<1>3. LogShape' /\ Shape' /\ SyncedDurable'
  BY <1>1, <1>2 DEF PromiseInv, LogShape, Shape, SyncedDurable, Durables
<1>4. "cache" \notin lapses => CatalogsSound'
  BY <1>1, <1>2 DEF PromiseInv, CatalogsSound, Ahead
<1>5. CallKnown' /\ ("cache" \notin lapses => promised' \subseteq Durables')
  BY <1>1 DEF CallKnown, PromiseInv, Durables
<1> QED
  BY <1>1, <1>3, <1>4, <1>5 DEF PromiseInv

\* The rebuilt catalog replaces a checkpoint that is ahead.
LEMMA CacheCatalogKeeps ==
  ASSUME PromiseInv, CacheCatalog
  PROVE  PromiseInv'
<1>1. /\ UNCHANGED <<log, synced, catalog, call, promised, lapses>>
      /\ phase = "cache" /\ phase' = "idle" /\ PersistCatalog(TRUE)
  BY DEF CacheCatalog
<1>2. LogShape' /\ Shape' /\ SyncedDurable'
  BY <1>1, PersistSound DEF PromiseInv, LogShape, Shape, SyncedDurable, Durables
<1>3. "cache" \notin lapses => CatalogsSound'
  BY <1>1, PersistSound DEF PromiseInv, CatalogsSound
<1>4. CallKnown' /\ ("cache" \notin lapses => promised' \subseteq Durables')
  BY <1>1 DEF CallKnown, PromiseInv, Durables
<1> QED
  BY <1>1, <1>2, <1>3, <1>4 DEF PromiseInv

\* Without a new checkpoint little is left to say.
LEMMA CacheFailsKeeps ==
  ASSUME PromiseInv, CacheFails
  PROVE  PromiseInv'
<1>1. /\ UNCHANGED <<log, synced, checkpoint, safe, catalog, call, promised>>
      /\ phase' = "idle" /\ "cache" \in lapses'
  BY DEF CacheFails, disk
<1>2. LogShape' /\ Shape' /\ SyncedDurable'
  BY <1>1 DEF PromiseInv, LogShape, Shape, SyncedDurable, Durables
<1> QED
  BY <1>1, <1>2 DEF PromiseInv

\* The batch is in the log before the catalog knows it.
LEMMA AppendBatchKeeps ==
  ASSUME PromiseInv, NEW req \in Requests, AppendBatch(req)
  PROVE  PromiseInv'
<1> DEFINE b == NextBatch(req)
<1>1. /\ log' = Append(log, b) /\ phase = "idle"
      /\ UNCHANGED <<synced, checkpoint, safe, promised, lapses>>
  BY DEF AppendBatch
<1>2. b.first = HeadOf(log) /\ b.req = req
  BY DEF NextBatch
<1>3. \/ /\ phase' = "sync" /\ call' = [kind |-> "append", batch |-> b.batch]
         /\ catalog' = catalog
      \/ phase' = "idle" /\ catalog' = Record(catalog, b, FALSE)
  BY <1>1 DEF AppendBatch
<1> HIDE DEF b
<1>a. /\ phase' \in {"sync", "idle"}
      /\ phase' = "sync" => call'.kind = "append" /\ call'.batch = b.batch
  <2>1. phase' \in {"sync", "idle"}
    BY <1>3
  <2>2. phase' = "sync" => call' = [kind |-> "append", batch |-> b.batch]
    BY <1>3
  <2> QED
    BY <2>1, <2>2
<1>4. /\ LogShape'
      /\ \A i \in DOMAIN log : i \in DOMAIN log' /\ log'[i] = log[i]
      /\ Len(log') \in DOMAIN log' /\ log'[Len(log')] = b
      /\ HeadOf(log') = EndOf(b) /\ HeadOf(log) <= HeadOf(log')
      /\ Durables' = Durables
  BY <1>1, <1>2, Grows DEF PromiseInv
<1>5. HeadOf(log) \in Nat /\ HeadOf(log') \in Nat
  BY <1>4, Heads DEF PromiseInv, LogShape
<1>6. "cache" \notin lapses => Sound(log', catalog, HeadOf(log'))
  BY <1>4, <1>5, SoundLonger DEF PromiseInv, LogShape, CatalogsSound
<1>7. "cache" \notin lapses => Sound(log', catalog', HeadOf(log'))
  <2>1. Sound(log', catalog, HeadOf(log')) => Sound(log', Record(catalog, b, FALSE), HeadOf(log'))
    <3>1. EndOf(log'[Len(log')]) <= HeadOf(log')
      BY <1>4, <1>5
    <3> QED
      BY <1>4, <3>1, RecordSound
  <2> QED
    BY <1>3, <1>6, <2>1
<1>8. catalog'.synced = catalog.synced
  BY <1>3 DEF Record
<1>9. Shape' /\ SyncedDurable'
  <2>1. log' # <<>>
    BY <1>4
  <2> QED
    <3>1. Shape'
      <4>1. UNCHANGED <<checkpoint, safe>>
        BY <1>1
      <4> QED
        BY <1>a, <2>1, <4>1 DEF PromiseInv, Shape
    <3>2. SyncedDurable'
      BY <1>1, <1>4, <1>8 DEF PromiseInv, SyncedDurable
    <3> QED
      BY <3>1, <3>2
<1>10. ASSUME "cache" \notin lapses PROVE CatalogsSound'
  <2>1. \A c \in checkpoint \cup safe :
           Sound(log, c.catalog, c.head) => Sound(log', c.catalog, c.head)
    <3> SUFFICES ASSUME NEW c \in checkpoint \cup safe, Sound(log, c.catalog, c.head)
                 PROVE  Sound(log', c.catalog, c.head)
      OBVIOUS
    <3>1. c.head \in Nat /\ c.head <= c.head
      BY DEF PromiseInv, Shape
    <3> QED
      BY <1>4, <3>1, SoundLonger DEF PromiseInv, LogShape
  <2>2. \A c \in checkpoint : Sound(log', c.catalog, c.head)
    BY <1>1, <1>10, <2>1 DEF PromiseInv, CatalogsSound, Ahead
  <2>3. \A s \in safe : Sound(log', s.catalog, s.head) \/ \A c \in checkpoint : c.head < s.head
    BY <1>1, <1>10, <2>1 DEF PromiseInv, CatalogsSound, Ahead
  <2> QED
    BY <1>1, <1>7, <1>10, <2>2, <2>3 DEF CatalogsSound
<1>11. CallKnown'
  BY <1>a, <1>4 DEF CallKnown
<1> QED
  BY <1>1, <1>4, <1>9, <1>10, <1>11 DEF PromiseInv

\* A retry is answered with a batch of the log.
LEMMA AnswerKeeps ==
  ASSUME PromiseInv, NEW req, NEW e \in catalog.ids \cup catalog.keys, AnswerAgain(req, e.batch),
         phase = "idle", UNCHANGED <<disk, catalog, lapses>>
  PROVE  PromiseInv'
<1>1. UNCHANGED <<log, synced, checkpoint, safe, catalog, lapses>>
  BY DEF disk
<1>2. \/ phase' = "sync" /\ call' = [kind |-> "retry", batch |-> e.batch] /\ promised' = promised
      \/ phase' = "idle" /\ promised' = promised \cup ({e.batch} \cap catalog.synced)
  BY DEF AnswerAgain
<1>3. LogShape' /\ Shape' /\ SyncedDurable'
  BY <1>1, <1>2 DEF PromiseInv, LogShape, Shape, SyncedDurable, Durables
<1>4. "cache" \notin lapses => CatalogsSound'
  BY <1>1, <1>2 DEF PromiseInv, CatalogsSound, Ahead
<1>5. "cache" \notin lapses => CallKnown'
  BY <1>1, <1>2 DEF PromiseInv, CatalogsSound, Sound, CallKnown
<1>6. "cache" \notin lapses => promised' \subseteq Durables'
  BY <1>1, <1>2 DEF PromiseInv, SyncedDurable, Durables
<1> QED
  BY <1>1, <1>3, <1>4, <1>5, <1>6 DEF PromiseInv

\* Steps of memory that touch neither catalog nor log.
LEMMA MemoryKeeps ==
  ASSUME PromiseInv, UNCHANGED <<log, synced, checkpoint, safe, catalog, promised>>,
         phase \notin {"down", "cache"}, phase' \in {"idle", "sync"},
         phase' = "sync" => call'.kind = "commit",
         "cache" \in lapses => "cache" \in lapses'
  PROVE  PromiseInv'
<1>1. LogShape' /\ Shape' /\ SyncedDurable'
  BY DEF PromiseInv, LogShape, Shape, SyncedDurable, Durables
<1>2. "cache" \notin lapses => CatalogsSound'
  BY DEF PromiseInv, CatalogsSound, Ahead
<1>3. CallKnown' /\ ("cache" \notin lapses => promised' \subseteq Durables')
  BY DEF CallKnown, PromiseInv, Durables
<1> QED
  BY <1>1, <1>2, <1>3 DEF PromiseInv

\* All of the log becomes durable.
LEMMA SyncLogKeeps ==
  ASSUME PromiseInv, SyncLog
  PROVE  PromiseInv'
<1>1. /\ UNCHANGED <<log, checkpoint, safe, catalog, call, promised, lapses>>
      /\ phase = "sync" /\ phase' = "persist" /\ synced' = Len(log)
  BY DEF SyncLog
<1>2. LogShape' /\ Durables \subseteq Durables'
  BY <1>1 DEF PromiseInv, LogShape, Chained, Durables
<1>3. Shape' /\ SyncedDurable'
  BY <1>1, <1>2 DEF PromiseInv, Shape, SyncedDurable
<1>4. "cache" \notin lapses => CatalogsSound'
  BY <1>1 DEF PromiseInv, CatalogsSound, Ahead
<1>5. "cache" \notin lapses => CallKnown'
  BY <1>1 DEF PromiseInv, CallKnown
<1>6. "cache" \notin lapses => promised' \subseteq Durables'
  BY <1>1, <1>2 DEF PromiseInv
<1> QED
  BY <1>1, <1>2, <1>3, <1>4, <1>5, <1>6 DEF PromiseInv

\* What a call may promise once the log is synced.
LEMMA PromiseDurable ==
  ASSUME PromiseInv, phase \in {"persist", "publish"}, "cache" \notin lapses
  PROVE  Promise \subseteq Durables
<1>1. DOMAIN log = 1 .. synced
  BY DEF PromiseInv, Shape, LogShape, Chained
<1>2. CASE call.kind = "commit"
  <2>1. Promise = {log[i].batch : i \in DOMAIN log}
    BY <1>2 DEF Promise
  <2> QED
    BY <1>1, <2>1 DEF Durables
<1>3. CASE call.kind \in {"append", "retry"}
  <2>1. Promise = {call.batch}
    BY <1>3 DEF Promise
  <2>2. PICK i \in DOMAIN log : log[i].batch = call.batch
    BY <1>3 DEF PromiseInv, CallKnown
  <2> QED
    BY <1>1, <2>1, <2>2 DEF Durables
<1> QED
  BY <1>2, <1>3 DEF PromiseInv, Shape

\* The new checkpoint holds what the catalog held; in an append the catalog
\* then learns of the batch, which is durable by now.
LEMMA PersistKeeps ==
  ASSUME PromiseInv, Persist
  PROVE  PromiseInv'
<1>1. /\ UNCHANGED <<log, synced, lapses>>
      /\ phase = "persist" /\ PersistCatalog(call.kind # "append")
  BY DEF Persist
<1>2. /\ LogShape' /\ Durables' = Durables
      /\ LogShape /\ DOMAIN log = 1 .. Len(log) /\ synced = Len(log) /\ Len(log) \in Nat
  BY <1>1 DEF PromiseInv, Shape, LogShape, Chained, Durables
<1>3. CASE call.kind = "append"
  <2>1. /\ catalog' = Record(catalog, Last(log), TRUE) /\ phase' = "publish"
        /\ UNCHANGED <<call, promised>>
    BY <1>3 DEF Persist
  <2>2. Len(log) \in DOMAIN log /\ Last(log) = log[Len(log)]
    <3>1. log # <<>>
      BY <1>1, <1>3 DEF PromiseInv, Shape
    <3> QED
      BY <1>2, <3>1 DEF Last, LogShape, Chained
  <2>3. catalog'.synced \subseteq Durables
    <3>1. catalog'.synced \subseteq catalog.synced \cup {log[Len(log)].batch}
      BY <2>1, <2>2 DEF Record
    <3>2. log[Len(log)].batch \in Durables
      BY <1>2, <2>2 DEF Durables
    <3> QED
      BY <3>1, <3>2 DEF PromiseInv, SyncedDurable
  <2>4. "cache" \notin lapses => Sound(log, catalog', HeadOf(log))
    <3>1. EndOf(log[Len(log)]) <= HeadOf(log)
      BY <2>2, <1>2, Heads DEF LogShape
    <3> QED
      BY <2>1, <2>2, <3>1, RecordSound, ZenonT(30) DEF PromiseInv, CatalogsSound
  <2>5. Shape'
    BY <1>1, <1>2, <2>1, PersistSound, <1>3 DEF PromiseInv, Shape
  <2>6. SyncedDurable'
    BY <1>1, <1>2, <2>3, PersistSound DEF SyncedDurable
  <2>7. "cache" \notin lapses => CatalogsSound'
    BY <1>1, <2>4, PersistSound DEF CatalogsSound
  <2>8. "cache" \notin lapses => CallKnown' /\ promised' \subseteq Durables'
    BY <1>1, <1>2, <2>1 DEF PromiseInv, CallKnown
  <2> QED
    BY <1>1, <1>2, <2>5, <2>6, <2>7, <2>8 DEF PromiseInv
<1>4. CASE call.kind # "append"
  <2>1. /\ promised' = promised \cup Promise /\ phase' = "idle" /\ UNCHANGED catalog
    BY <1>4 DEF Persist
  <2>2. Shape'
    BY <1>1, <2>1, PersistSound DEF Shape
  <2>3. SyncedDurable'
    BY <1>1, <1>2, <2>1, PersistSound DEF PromiseInv, SyncedDurable
  <2>4. "cache" \notin lapses => CatalogsSound'
    BY <1>1, <2>1, PersistSound DEF PromiseInv, CatalogsSound
  <2>5. "cache" \notin lapses => CallKnown' /\ promised' \subseteq Durables'
    BY <1>1, <1>2, <2>1, PromiseDurable DEF PromiseInv, CallKnown
  <2> QED
    BY <1>1, <1>2, <2>2, <2>3, <2>4, <2>5 DEF PromiseInv
<1> QED
  BY <1>3, <1>4

\* The receipt names a durable batch.
LEMMA PublishAppendKeeps ==
  ASSUME PromiseInv, PublishAppend
  PROVE  PromiseInv'
<1>1. /\ UNCHANGED <<log, synced, catalog, lapses>>
      /\ phase = "publish" /\ PersistCatalog(TRUE)
      /\ promised' = promised \cup Promise /\ phase' = "idle"
  BY DEF PublishAppend
<1>2. LogShape' /\ Durables' = Durables
  BY <1>1 DEF PromiseInv, LogShape, Chained, Durables
<1>3. Shape'
  BY <1>1, PersistSound DEF Shape
<1>4. SyncedDurable'
  BY <1>1, <1>2, PersistSound DEF PromiseInv, SyncedDurable
<1>5. "cache" \notin lapses => CatalogsSound'
  BY <1>1, PersistSound DEF PromiseInv, CatalogsSound
<1>6. "cache" \notin lapses => CallKnown' /\ promised' \subseteq Durables'
  BY <1>1, <1>2, PromiseDurable DEF PromiseInv, CallKnown
<1> QED
  BY <1>1, <1>2, <1>3, <1>4, <1>5, <1>6 DEF PromiseInv

\* A process that ends leaves what is on the disk.
LEMMA StopKeeps ==
  ASSUME PromiseInv, UNCHANGED <<disk, promised>>, End
  PROVE  PromiseInv'
<1>1. /\ UNCHANGED <<log, synced, checkpoint, safe, promised>>
      /\ phase' = "down" /\ catalog' = Empty
      /\ "cache" \in lapses => "cache" \in lapses'
  BY DEF End, disk
<1>2. LogShape' /\ Shape' /\ SyncedDurable'
  BY <1>1 DEF PromiseInv, LogShape, Shape, SyncedDurable, Durables, Empty
<1>3. "cache" \notin lapses => CatalogsSound'
  BY <1>1 DEF PromiseInv, CatalogsSound, Ahead, Sound, Empty
<1>4. CallKnown' /\ ("cache" \notin lapses => promised' \subseteq Durables')
  BY <1>1 DEF CallKnown, PromiseInv, Durables
<1> QED
  BY <1>1, <1>2, <1>3, <1>4 DEF PromiseInv

\* A checkpoint either is of what is left of the log or is ahead of it.
LEMMA PowerLossKeeps ==
  ASSUME PromiseInv, PowerLoss
  PROVE  PromiseInv'
<1>1. PICK n \in synced .. Len(log) : log' = SubSeq(log, 1, n) /\ synced' = n
  BY DEF PowerLoss
<1>2. /\ checkpoint' \in {checkpoint, safe} /\ safe' = checkpoint'
      /\ (\E c \in checkpoint : HeadOf(log') > c.head) => checkpoint' = checkpoint
      /\ phase' = "down" /\ catalog' = Empty /\ promised' = promised
      /\ "cache" \in lapses => "cache" \in lapses'
  BY DEF PowerLoss, End
<1>3. /\ LogShape'
      /\ \A i \in DOMAIN log :
            EndOf(log[i]) <= HeadOf(log') => i \in DOMAIN log' /\ log'[i] = log[i]
      /\ HeadOf(log') \in Nat /\ HeadOf(log') <= HeadOf(log)
      /\ Durables \subseteq Durables'
  BY <1>1, Cut DEF PromiseInv
<1>4. HeadOf(log) \in Nat /\ \A i \in DOMAIN log : EndOf(log[i]) \in Nat
  BY Heads DEF PromiseInv, LogShape
<1>5. \A c \in checkpoint \cup safe : c.head \in Nat /\ c.catalog.synced \subseteq Durables'
  BY <1>3 DEF PromiseInv, Shape, SyncedDurable
<1>6. /\ \A c, d \in checkpoint : c = d
      /\ \A c, d \in safe : c = d
      /\ checkpoint = {} => safe = {}
  BY DEF PromiseInv, Shape
<1>7. \A c \in checkpoint \cup safe :
         Sound(log, c.catalog, c.head) => Sound(log', c.catalog, c.head) \/ HeadOf(log') < c.head
  <2> SUFFICES ASSUME NEW c \in checkpoint \cup safe, Sound(log, c.catalog, c.head),
                      c.head <= HeadOf(log')
               PROVE  Sound(log', c.catalog, c.head)
    BY <1>3, <1>5
  <2>1. \A i \in DOMAIN log : EndOf(log[i]) <= c.head => i \in DOMAIN log' /\ log'[i] = log[i]
    BY <1>3, <1>4, <1>5
  <2> QED
    BY <2>1 DEF Sound
<1>8. SyncedDurable'
  BY <1>2, <1>5 DEF SyncedDurable, Empty
<1>9. ASSUME "cache" \notin lapses PROVE CatalogsSound'
  <2>1. \A c \in checkpoint : Sound(log', c.catalog, c.head) \/ HeadOf(log') < c.head
    BY <1>3, <1>4, <1>5, <1>7, <1>9 DEF PromiseInv, CatalogsSound, Ahead
  <2>2. ASSUME checkpoint' # checkpoint
        PROVE  \A s \in safe : Sound(log', s.catalog, s.head) \/ HeadOf(log') < s.head
    <3>1. \A c \in checkpoint : HeadOf(log') <= c.head
      BY <1>2, <1>3, <1>5, <2>2
    <3> QED
      BY <1>3, <1>4, <1>5, <1>6, <1>7, <1>9, <3>1 DEF PromiseInv, CatalogsSound, Ahead
  <2>3. \A c \in checkpoint' : Sound(log', c.catalog, c.head) \/ HeadOf(log') < c.head
    BY <1>2, <2>1, <2>2
  <2>4. Sound(log', Empty, HeadOf(log'))
    BY DEF Sound, Empty
  <2> QED
    BY <1>2, <2>3, <2>4 DEF CatalogsSound, Ahead
<1>10. CallKnown' /\ ("cache" \notin lapses => promised' \subseteq Durables')
  BY <1>2, <1>3 DEF CallKnown, PromiseInv
<1>11. Shape'
  <2>1. \A c, d \in checkpoint' : c = d
    BY <1>2, <1>6
  <2> QED
    BY <1>2, <1>5, <2>1 DEF Shape
<1> QED
  BY <1>2, <1>3, <1>8, <1>9, <1>10, <1>11 DEF PromiseInv

----------------------------------------------------------------------------
(* What was promised is kept *)

\* A new directory satisfies the invariant.
LEMMA PromiseInit == Init => PromiseInv
<1> SUFFICES ASSUME Init PROVE PromiseInv
  OBVIOUS
<1>1. LogShape
  <2>1. log = <<>> /\ synced = 0 /\ <<>> \in Seq({})
    BY DEF Init
  <2>2. {log[i] : i \in DOMAIN log} = {}
    BY <2>1
  <2> QED
    BY <2>1, <2>2 DEF LogShape, Chained
<1>2. Shape /\ SyncedDurable
  BY DEF Init, Shape, SyncedDurable, Empty, NoCall
<1>3. CatalogsSound /\ CallKnown /\ promised \subseteq Durables
  BY DEF Init, CatalogsSound, Sound, Empty, CallKnown
<1> QED
  BY <1>1, <1>2, <1>3 DEF PromiseInv

\* Every step keeps the invariant.
LEMMA PromiseNext ==
  ASSUME PromiseInv, [Next]_vars
  PROVE  PromiseInv'
<1>1. CASE OpenFromCheckpoint BY <1>1, OpenFromCheckpointKeeps
<1>2. CASE OpenByRebuild BY <1>2, OpenByRebuildKeeps
<1>3. CASE CacheCatalog BY <1>3, CacheCatalogKeeps
<1>4. CASE CacheFails BY <1>4, CacheFailsKeeps
<1>5. ASSUME NEW req \in Requests, AppendBatch(req) PROVE PromiseInv'
  BY <1>5, AppendBatchKeeps
<1>6. ASSUME NEW req \in Requests, RetryByKey(req) \/ RetryById(req) PROVE PromiseInv'
  <2>1. PICK e \in catalog.ids \cup catalog.keys : AnswerAgain(req, e.batch)
    BY <1>6 DEF RetryByKey, RetryById, Keyed
  <2>2. phase = "idle" /\ UNCHANGED <<disk, catalog, lapses>>
    BY <1>6 DEF RetryByKey, RetryById
  <2> QED
    BY <2>1, <2>2, AnswerKeeps
<1>7. CASE Commit BY <1>7, MemoryKeeps DEF Commit, disk
<1>8. CASE SyncLog BY <1>8, SyncLogKeeps
<1>9. CASE Persist BY <1>9, PersistKeeps
<1>10. CASE PublishAppend BY <1>10, PublishAppendKeeps
<1>11. CASE CommitFails BY <1>11, MemoryKeeps DEF CommitFails, disk
<1>12. CASE Register \/ Deregister BY <1>12, MemoryKeeps DEF Register, Deregister, disk
<1>13. CASE Close \/ Kill
  <2>1. End /\ UNCHANGED <<disk, promised>>
    BY <1>13 DEF Close, Kill
  <2> QED
    BY <2>1, StopKeeps
<1>14. CASE PowerLoss BY <1>14, PowerLossKeeps
<1>15. CASE RefuseOpen \/ UNCHANGED vars
  <2>1. UNCHANGED <<log, synced, checkpoint, safe, catalog, phase, call, promised, lapses>>
    BY <1>15 DEF RefuseOpen, vars, disk
  <2> QED
    BY <2>1 DEF PromiseInv, LogShape, Shape, SyncedDurable, Durables, CatalogsSound, Ahead, CallKnown
<1> QED
  BY <1>1, <1>2, <1>3, <1>4, <1>5, <1>6, <1>7, <1>8, <1>9, <1>10, <1>11, <1>12, <1>13, <1>14, <1>15
  DEF Next

\* What a receipt, the receipt of a retry or commit() called synced survives
\* every crash, wherever it falls in an append, a commit or an open, and
\* whichever checkpoint of the catalog comes back, as long as no open failed to
\* cache the catalog it rebuilt ("cache") (db.rs, commit and
\* append_batch_with_id, persist_core_catalog and load_core_catalog).
THEOREM SyncedIsKept == Spec => []PromisedDurable
<1>1. PromiseInv => PromisedDurable
  BY DEF PromiseInv, PromisedDurable, Durables
<1> QED
  BY <1>1, PromiseInit, PromiseNext, PTL DEF Spec

----------------------------------------------------------------------------
(* The catalog and the log *)

\* The first n batches of log l.
Prefix(l, n) == SubSeq(l, 1, n)

\* The events of stream s in the first n batches of log l.
Counted(l, n, s) ==
    UNION {{<<j, k>> : k \in Entries(l[j])} : j \in {h \in 1 .. n : l[h].req.stream = s}}

\* Where the first n batches leave stream s.
RevisionAt(l, n, s) ==
    Max({0} \cup {l[i].rev + Len(l[i].req.events) : i \in {j \in 1 .. n : l[j].req.stream = s}})

\* Each batch found its stream where its caller expected it, and the revision
\* of a stream is the number of its events.
Serial(l) ==
    /\ \A i \in DOMAIN l :
          /\ l[i].rev \in 0 .. l[i].first
          /\ l[i].rev = RevisionAt(l, i - 1, l[i].req.stream)
          /\ l[i].rev \in l[i].req.expected
    /\ \A n \in 0 .. Len(l), s \in Streams :
          IsFiniteSet(Counted(l, n, s)) /\ Cardinality(Counted(l, n, s)) = RevisionAt(l, n, s)

Distinct(l) ==
    \A i, j \in DOMAIN l : i # j => /\ l[i].req.key \cap l[j].req.key = {}
                                    /\ IdsOf(l[i]) \cap IdsOf(l[j]) = {}

Mirrors(cat, l) ==
    cat = [revisions |-> Rebuild(l).revisions, ids |-> Rebuild(l).ids,
           keys |-> Rebuild(l).keys, synced |-> cat.synced]

MirrorsAt(l, cat, head) ==
    \E n \in 0 .. Len(l) : HeadOf(Prefix(l, n)) = head /\ Mirrors(cat, Prefix(l, n))

----------------------------------------------------------------------------

\* A set of positions with a bound has a greatest one, and Max is it.
LEMMA MaxOf ==
  ASSUME NEW S \in SUBSET Nat, NEW n \in Nat, S # {}, \A x \in S : x <= n
  PROVE  Max(S) \in S /\ \A x \in S : x <= Max(S)
<1> DEFINE gaps == {k \in Nat : k <= n /\ n - k \in S}
<1>1. gaps \subseteq Nat /\ gaps # {}
  <2>1. PICK x \in S : TRUE
    OBVIOUS
  <2>2. n - x \in Nat /\ n - x <= n /\ n - (n - x) = x
    OBVIOUS
  <2> QED
    BY <2>1, <2>2
<1>2. PICK k \in gaps : \A j \in gaps : ~(<<j, k>> \in OpToRel(<, Nat))
  BY <1>1, NatLessThanWellFounded, WFMin
<1>3. \A y \in S : n - k >= y
  <2> SUFFICES ASSUME NEW y \in S, ~(n - k >= y) PROVE FALSE
    OBVIOUS
  <2>a. k \in Nat /\ k <= n /\ y \in Nat /\ y <= n
    BY <1>2
  <2>1. n - y \in Nat /\ n - y <= n /\ n - (n - y) = y /\ n - y < k
    BY <2>a
  <2>2. n - y \in gaps /\ <<n - y, k>> \in OpToRel(<, Nat)
    BY <2>1, <2>a DEF OpToRel
  <2> QED
    BY <1>2, <2>2
<1>4. n - k \in S
  BY <1>2
<1>5. Max(S) \in S /\ \A y \in S : Max(S) >= y
  BY <1>3, <1>4, Zenon DEF Max
<1> QED
  BY <1>5

\* The greatest is what is greatest.
LEMMA MaxIs ==
  ASSUME NEW S \in SUBSET Nat, NEW m \in S, \A x \in S : x <= m
  PROVE  Max(S) = m
<1>1. Max(S) \in S /\ m <= Max(S)
  BY MaxOf
<1>2. Max(S) <= m /\ Max(S) \in Nat
  BY <1>1
<1> QED
  BY <1>1, <1>2

\* The first batches of a log are a log.
LEMMA PrefixFacts ==
  ASSUME NEW l, Chained(l), NEW n \in 0 .. Len(l)
  PROVE  /\ Chained(Prefix(l, n))
         /\ Len(Prefix(l, n)) = n /\ DOMAIN Prefix(l, n) = 1 .. n
         /\ \A i \in 1 .. n : i \in DOMAIN l /\ Prefix(l, n)[i] = l[i]
<1> DEFINE p == Prefix(l, n)
<1>1. Len(l) \in Nat /\ DOMAIN l = 1 .. Len(l)
  BY DEF Chained
<1>2. /\ Len(p) = n /\ DOMAIN p = 1 .. n
      /\ \A i \in 1 .. n : i \in DOMAIN l /\ p[i] = l[i]
      /\ p = [i \in 1 .. n |-> p[i]]
  BY <1>1 DEF Chained, Prefix
<1>3. p \in Seq({p[i] : i \in DOMAIN p})
  <2> HIDE DEF p
  <2> DEFINE S == {p[i] : i \in DOMAIN p}
  <2>1. \A i \in 1 .. n : p[i] \in S
    BY <1>2
  <2> HIDE DEF S
  <2>2. n \in Nat
    BY <1>1
  <2>3. p \in Seq(S)
    BY <1>2, <2>1, <2>2
  <2> QED
    BY <2>3 DEF S
<1>4. \A i \in DOMAIN p : p[i].first \in Nat /\ p[i].req \in Requests
  BY <1>2 DEF Chained
<1>5. \A i, j \in DOMAIN p : i < j => EndOf(p[i]) <= p[j].first
  BY <1>2 DEF Chained
<1> QED
  BY <1>2, <1>3, <1>4, <1>5 DEF Chained

\* Equal logs, batch by batch.
LEMMA SameLog ==
  ASSUME NEW l, NEW m, Chained(l), Chained(m), Len(l) = Len(m), \A i \in 1 .. Len(l) : l[i] = m[i]
  PROVE  l = m
<1>1. /\ Len(l) \in Nat /\ DOMAIN l = 1 .. Len(l) /\ DOMAIN m = 1 .. Len(l)
      /\ l = [i \in 1 .. Len(l) |-> l[i]]
      /\ m = [i \in 1 .. Len(l) |-> m[i]]
  BY DEF Chained
<1> QED
  BY <1>1

\* A prefix of a prefix is one, and the whole log is a prefix of itself.
LEMMA PrefixOfPrefix ==
  ASSUME NEW l, Chained(l), NEW n \in 0 .. Len(l), NEW m \in 0 .. n
  PROVE  Prefix(Prefix(l, n), m) = Prefix(l, m) /\ Prefix(l, Len(l)) = l
<1>1. Len(l) \in Nat /\ m \in 0 .. Len(l) /\ Len(l) \in 0 .. Len(l)
  BY DEF Chained
<1>2. Prefix(Prefix(l, n), m) = Prefix(l, m)
  <2>1. Chained(Prefix(l, n)) /\ Len(Prefix(l, n)) = n /\ \A i \in 1 .. n : Prefix(l, n)[i] = l[i]
    BY PrefixFacts
  <2>2. /\ Chained(Prefix(Prefix(l, n), m)) /\ Len(Prefix(Prefix(l, n), m)) = m
        /\ \A i \in 1 .. m : Prefix(Prefix(l, n), m)[i] = Prefix(l, n)[i]
    BY <2>1, PrefixFacts
  <2>3. Chained(Prefix(l, m)) /\ Len(Prefix(l, m)) = m /\ \A i \in 1 .. m : Prefix(l, m)[i] = l[i]
    BY <1>1, PrefixFacts
  <2>4. \A i \in 1 .. m : i \in 1 .. n
    OBVIOUS
  <2> QED
    BY <2>1, <2>2, <2>3, <2>4, SameLog
<1>3. Prefix(l, Len(l)) = l
  BY <1>1, PrefixFacts, SameLog
<1> QED
  BY <1>2, <1>3

\* Every batch moves the head: a head names at most one prefix of a log.
LEMMA HeadsRise ==
  ASSUME NEW l, Chained(l), NEW n \in 0 .. Len(l), NEW m \in 0 .. n, m # n
  PROVE  HeadOf(Prefix(l, m)) < HeadOf(Prefix(l, n))
<1>1. Len(l) \in Nat /\ DOMAIN l = 1 .. Len(l) /\ m \in 0 .. Len(l) /\ n \in DOMAIN l
  BY DEF Chained
<1>2. /\ Len(Prefix(l, n)) = n /\ Prefix(l, n)[n] = l[n]
      /\ Len(Prefix(l, m)) = m /\ \A i \in 1 .. m : Prefix(l, m)[i] = l[i]
      /\ Chained(Prefix(l, n)) /\ Chained(Prefix(l, m))
  BY <1>1, PrefixFacts
<1>3. HeadOf(Prefix(l, n)) = EndOf(l[n])
  <2>1. Prefix(l, n) # <<>>
    BY <1>1, <1>2
  <2> QED
    BY <1>2, <2>1 DEF HeadOf, EndOf, Last
<1>4. l[n].first \in Nat /\ EndOf(l[n]) \in Nat /\ l[n].first < EndOf(l[n])
  BY <1>1, CatalogAssumption, SMTT(30) DEF Chained, EndOf
<1>5. CASE m = 0
  <2>1. Prefix(l, m) = <<>>
    BY <1>2, <1>5 DEF Chained
  <2> QED
    BY <2>1, <1>3, <1>4 DEF HeadOf
<1>6. CASE m # 0
  <2>1. m \in DOMAIN l /\ m < n /\ Prefix(l, m)[m] = l[m] /\ Prefix(l, m) # <<>>
    BY <1>1, <1>2, <1>6
  <2>2. HeadOf(Prefix(l, m)) = EndOf(l[m])
    BY <1>2, <2>1 DEF HeadOf, EndOf, Last
  <2>3. EndOf(l[m]) <= l[n].first
    BY <1>1, <2>1 DEF Chained
  <2>4. EndOf(l[m]) \in Nat
    BY <2>1, Heads
  <2> QED
    BY <1>3, <1>4, <2>2, <2>3, <2>4
<1> QED
  BY <1>5, <1>6

----------------------------------------------------------------------------
(* Revisions *)

Ends(l, n, s) == {0} \cup {l[i].rev + Len(l[i].req.events) : i \in {j \in 1 .. n : l[j].req.stream = s}}

\* Revisions run behind positions.
Bounded(l) == \A i \in DOMAIN l : l[i].rev \in 0 .. l[i].first

\* The revision of a stream is a number that no batch of it passes.
LEMMA RevisionMax ==
  ASSUME NEW l, Chained(l), Bounded(l), NEW n \in 0 .. Len(l), NEW s
  PROVE  /\ Ends(l, n, s) \in SUBSET Nat
         /\ RevisionAt(l, n, s) \in Ends(l, n, s) /\ RevisionAt(l, n, s) <= HeadOf(l)
         /\ \A x \in Ends(l, n, s) : x <= RevisionAt(l, n, s)
<1>1. Len(l) \in Nat /\ DOMAIN l = 1 .. Len(l) /\ HeadOf(l) \in Nat
  BY Heads DEF Chained
<1>2. \A i \in 1 .. n : /\ l[i].rev + Len(l[i].req.events) \in Nat
                        /\ l[i].rev + Len(l[i].req.events) <= HeadOf(l)
  <2> SUFFICES ASSUME NEW i \in 1 .. n
               PROVE  /\ l[i].rev + Len(l[i].req.events) \in Nat
                      /\ l[i].rev + Len(l[i].req.events) <= HeadOf(l)
    OBVIOUS
  <2>1. i \in DOMAIN l
    BY <1>1
  <2>2. l[i].rev \in Nat /\ l[i].first \in Nat /\ l[i].rev <= l[i].first /\ Len(l[i].req.events) \in Nat
    BY <2>1, CatalogAssumption DEF Chained, Bounded
  <2>3. l[i].first + Len(l[i].req.events) <= HeadOf(l)
    BY <2>1, Heads DEF EndOf
  <2> QED
    BY <1>1, <2>2, <2>3
<1>3. Ends(l, n, s) \in SUBSET Nat /\ 0 \in Ends(l, n, s) /\ \A x \in Ends(l, n, s) : x <= HeadOf(l)
  BY <1>1, <1>2 DEF Ends
<1>4. RevisionAt(l, n, s) = Max(Ends(l, n, s))
  BY DEF RevisionAt, Ends
<1>5. /\ Max(Ends(l, n, s)) \in Ends(l, n, s)
      /\ \A x \in Ends(l, n, s) : x <= Max(Ends(l, n, s))
  BY <1>1, <1>3, MaxOf
<1> QED
  BY <1>3, <1>4, <1>5

\* A batch that found its stream where it is moves it by its events.
LEMMA RevisionAfter ==
  ASSUME NEW l, Chained(l), Bounded(l), NEW n \in DOMAIN l, NEW s,
         l[n].rev = RevisionAt(l, n - 1, l[n].req.stream)
  PROVE  RevisionAt(l, n, s) = IF l[n].req.stream = s THEN l[n].rev + Len(l[n].req.events)
                               ELSE RevisionAt(l, n - 1, s)
<1> DEFINE end == l[n].rev + Len(l[n].req.events)
           A == Ends(l, n - 1, s)
           B == Ends(l, n, s)
<1>1. n \in 1 .. Len(l) /\ n \in 0 .. Len(l) /\ n - 1 \in 0 .. Len(l) /\ 1 .. n = (1 .. (n - 1)) \cup {n}
  BY DEF Chained
<1>2. B = IF l[n].req.stream = s THEN A \cup {end} ELSE A
  <2>1. {j \in 1 .. n : l[j].req.stream = s} =
           IF l[n].req.stream = s THEN {j \in 1 .. n - 1 : l[j].req.stream = s} \cup {n}
           ELSE {j \in 1 .. n - 1 : l[j].req.stream = s}
    BY <1>1
  <2> QED
    BY <2>1 DEF Ends
<1>3. RevisionAt(l, n, s) = Max(B) /\ RevisionAt(l, n - 1, s) = Max(A)
  BY DEF RevisionAt, Ends
<1>4. CASE l[n].req.stream = s
  <2>1. B \in SUBSET Nat
    BY <1>1, RevisionMax
  <2>2. \A x \in A : x <= Max(A)
    BY <1>1, <1>3, RevisionMax
  <2>3. end \in B /\ \A x \in B : x <= end
    <3>1. l[n].rev = Max(A) /\ l[n].rev \in Nat /\ Len(l[n].req.events) \in Nat /\ A \in SUBSET Nat
      BY <1>1, <1>3, <1>4, RevisionMax, CatalogAssumption DEF Bounded, Chained
    <3>2. end \in Nat /\ Max(A) <= end
      BY <3>1
    <3>3. \A x \in A : x <= end
      BY <2>2, <3>1, <3>2
    <3> QED
      BY <1>2, <1>4, <3>2, <3>3
  <2>4. Max(B) = end
    <3> HIDE DEF B, end
    <3> QED
      BY <2>1, <2>3, MaxIs
  <2> QED
    BY <1>3, <1>4, <2>4
<1>5. CASE l[n].req.stream # s
  BY <1>2, <1>3, <1>5
<1> QED
  BY <1>4, <1>5

\* Logs that begin alike have the same revisions and events there.
LEMMA Alike ==
  ASSUME NEW l, NEW m, NEW n, NEW s, \A i \in 1 .. n : l[i] = m[i]
  PROVE  RevisionAt(l, n, s) = RevisionAt(m, n, s) /\ Counted(l, n, s) = Counted(m, n, s)
<1>1. {j \in 1 .. n : l[j].req.stream = s} = {j \in 1 .. n : m[j].req.stream = s}
  OBVIOUS
<1>2. {l[i].rev + Len(l[i].req.events) : i \in {j \in 1 .. n : l[j].req.stream = s}}
        = {m[i].rev + Len(m[i].req.events) : i \in {j \in 1 .. n : m[j].req.stream = s}}
  BY <1>1
<1>3. RevisionAt(l, n, s) = RevisionAt(m, n, s)
  BY <1>2 DEF RevisionAt
<1>4. Counted(l, n, s) = Counted(m, n, s)
  BY DEF Counted, Entries
<1> QED
  BY <1>3, <1>4

\* As many pairs as there are entries in a batch.
LEMMA PairsOf ==
  ASSUME NEW n, NEW k \in Nat
  PROVE  /\ IsFiniteSet({<<n, i>> : i \in 1 .. k})
         /\ Cardinality({<<n, i>> : i \in 1 .. k}) = k
<1> DEFINE P == {<<n, i>> : i \in 1 .. k}
           f == [i \in 1 .. k |-> <<n, i>>]
<1>1. f \in Bijection(1 .. k, P)
  <2>1. f \in [1 .. k -> P]
    OBVIOUS
  <2>2. \A i, j \in 1 .. k : f[i] = f[j] => i = j
    OBVIOUS
  <2>3. \A p \in P : \E i \in 1 .. k : f[i] = p
    OBVIOUS
  <2> QED
    BY <2>1, <2>2, <2>3 DEF Bijection, Injection, IsInjective, Surjection
<1>2. ExistsBijection(1 .. k, P)
  BY <1>1 DEF ExistsBijection
<1>3. IsFiniteSet(1 .. k) /\ Cardinality(1 .. k) = k
  BY FS_Interval
<1> QED
  BY <1>2, <1>3, FS_Bijection

\* A batch adds its events to those of its stream.
LEMMA CountAfter ==
  ASSUME NEW l, Chained(l), NEW n \in DOMAIN l, NEW s, IsFiniteSet(Counted(l, n - 1, s))
  PROVE  /\ IsFiniteSet(Counted(l, n, s))
         /\ Cardinality(Counted(l, n, s)) =
               IF l[n].req.stream = s THEN Cardinality(Counted(l, n - 1, s)) + Len(l[n].req.events)
               ELSE Cardinality(Counted(l, n - 1, s))
<1> DEFINE A == Counted(l, n - 1, s)
           B == Counted(l, n, s)
           P == {<<n, k>> : k \in 1 .. Len(l[n].req.events)}
<1>1. n \in Nat /\ 1 .. n = (1 .. (n - 1)) \cup {n} /\ n \notin 1 .. n - 1
  BY DEF Chained
<1>2. CASE l[n].req.stream = s
  <2>1. {h \in 1 .. n : l[h].req.stream = s} = {h \in 1 .. n - 1 : l[h].req.stream = s} \cup {n}
    BY <1>1, <1>2
  <2>2. B = A \cup P
    BY <2>1 DEF Counted, Entries
  <2>3. A \cap P = {}
    BY <1>1 DEF Counted
  <2>4. IsFiniteSet(P) /\ Cardinality(P) = Len(l[n].req.events)
    <3>1. Len(l[n].req.events) \in Nat
      BY CatalogAssumption DEF Chained
    <3> QED
      BY <3>1, PairsOf
  <2>5. Cardinality(A) \in Nat /\ Len(l[n].req.events) \in Nat
    BY FS_CardinalityType, CatalogAssumption DEF Chained
  <2>6. IsFiniteSet(A \cup P) /\ Cardinality(A \cup P) = Cardinality(A) + Cardinality(P) - Cardinality(A \cap P)
    <3>1. IsFiniteSet(A)
      OBVIOUS
    <3> HIDE DEF A, P
    <3> QED
      BY <2>4, <3>1, FS_Union
  <2>7. Cardinality(A \cap P) = 0
    BY <2>3, FS_EmptySet
  <2> QED
    BY <1>2, <2>2, <2>4, <2>5, <2>6, <2>7
<1>3. CASE l[n].req.stream # s
  <2>1. {h \in 1 .. n : l[h].req.stream = s} = {h \in 1 .. n - 1 : l[h].req.stream = s}
    BY <1>1, <1>3
  <2>2. B = A
    BY <2>1 DEF Counted
  <2> QED
    BY <1>3, <2>2
<1> QED
  BY <1>2, <1>3

----------------------------------------------------------------------------
(* The rebuilt catalog *)

\* What a rebuild finds for each stream is where the log leaves it.
LEMMA RebuildRevision ==
  ASSUME NEW l, Chained(l)
  PROVE  Rebuild(l).revisions = [s \in Streams |-> RevisionAt(l, Len(l), s)]
<1>1. DOMAIN l = 1 .. Len(l)
  BY DEF Chained
<1> QED
  BY <1>1 DEF Rebuild, RevisionAt

\* The last entry for each key, one batch later.
LEMMA LatestGrows ==
  ASSUME NEW n \in Nat, NEW a, NEW p,
         Len(p) = n, DOMAIN p = 1 .. n, Len(a) = n + 1, DOMAIN a = 1 .. n + 1,
         \A i \in 1 .. n : a[i] = p[i]
  PROVE  Latest(a) = Insert(Latest(p), a[n + 1])
<1>1. ASSUME NEW e \in Latest(a) PROVE e \in Insert(Latest(p), a[n + 1])
  <2>1. PICK i \in 1 .. n + 1 : e \in a[i] /\ \A j \in i + 1 .. n + 1 : \A m \in a[j] : m.of # e.of
    BY DEF Latest
  <2>2. CASE i = n + 1
    BY <2>1, <2>2 DEF Insert
  <2>3. CASE i # n + 1
    <3>1. i \in 1 .. n /\ n + 1 \in i + 1 .. n + 1 /\ i + 1 .. n \subseteq i + 1 .. n + 1
      BY <2>3
    <3>2. \A j \in i + 1 .. n : j \in 1 .. n
      BY <3>1
    <3>3. e \in p[i] /\ \A j \in i + 1 .. n : \A m \in p[j] : m.of # e.of
      BY <2>1, <3>1, <3>2
    <3>4. e \in Latest(p)
      BY <3>1, <3>3 DEF Latest
    <3> QED
      BY <2>1, <3>1, <3>4 DEF Insert
  <2> QED
    BY <2>2, <2>3
<1>2. ASSUME NEW e \in Insert(Latest(p), a[n + 1]) PROVE e \in Latest(a)
  <2>1. CASE e \in a[n + 1]
    <3>1. n + 1 \in DOMAIN a /\ (n + 1) + 1 .. Len(a) = {}
      OBVIOUS
    <3> QED
      BY <2>1, <3>1 DEF Latest
  <2>2. CASE e \in Latest(p) /\ \A m \in a[n + 1] : m.of # e.of
    <3>1. PICK i \in 1 .. n : e \in p[i] /\ \A j \in i + 1 .. n : \A m \in p[j] : m.of # e.of
      BY <2>2 DEF Latest
    <3>2. \A j \in i + 1 .. n + 1 : (j \in i + 1 .. n /\ j \in 1 .. n) \/ j = n + 1
      OBVIOUS
    <3>3. i \in DOMAIN a /\ e \in a[i] /\ \A j \in i + 1 .. Len(a) : \A m \in a[j] : m.of # e.of
      BY <2>2, <3>1, <3>2
    <3> QED
      BY <3>3 DEF Latest
  <2> QED
    BY <2>1, <2>2 DEF Insert
<1> QED
  BY <1>1, <1>2

\* The entries of a log, one batch later.
LEMMA AddedGrows ==
  ASSUME NEW l, Chained(l), NEW n \in Nat, Len(l) = n + 1
  PROVE  /\ Latest(AllIds(l)) = Insert(Latest(AllIds(Prefix(l, n))), IdEntries(l[n + 1]))
         /\ Latest(AllKeys(l)) = Insert(Latest(AllKeys(Prefix(l, n))), KeyEntries(l[n + 1]))
<1> DEFINE p == Prefix(l, n)
<1>1. n \in 0 .. Len(l) /\ DOMAIN l = 1 .. n + 1
  BY DEF Chained
<1>2. Len(p) = n /\ DOMAIN p = 1 .. n /\ \A i \in 1 .. n : p[i] = l[i]
  BY <1>1, PrefixFacts
<1> HIDE DEF p
<1>3. \A m \in Nat : \A f : f = [i \in 1 .. m |-> f[i]] => Len(f) = m
  OBVIOUS
<1>4. /\ DOMAIN AllIds(l) = 1 .. n + 1 /\ DOMAIN AllIds(p) = 1 .. n
      /\ \A i \in 1 .. n + 1 : AllIds(l)[i] = IdEntries(l[i])
      /\ \A i \in 1 .. n : AllIds(p)[i] = IdEntries(l[i])
      /\ Len(AllIds(l)) = n + 1 /\ Len(AllIds(p)) = n
  BY <1>1, <1>2, <1>3 DEF AllIds
<1>5. /\ DOMAIN AllKeys(l) = 1 .. n + 1 /\ DOMAIN AllKeys(p) = 1 .. n
      /\ \A i \in 1 .. n + 1 : AllKeys(l)[i] = KeyEntries(l[i])
      /\ \A i \in 1 .. n : AllKeys(p)[i] = KeyEntries(l[i])
      /\ Len(AllKeys(l)) = n + 1 /\ Len(AllKeys(p)) = n
  BY <1>1, <1>2, <1>3 DEF AllKeys
<1>6. Latest(AllIds(l)) = Insert(Latest(AllIds(p)), IdEntries(l[n + 1]))
  <2>1. Latest(AllIds(l)) = Insert(Latest(AllIds(p)), AllIds(l)[n + 1])
    BY <1>4, LatestGrows
  <2> QED
    BY <1>4, <2>1
<1>7. Latest(AllKeys(l)) = Insert(Latest(AllKeys(p)), KeyEntries(l[n + 1]))
  <2>1. Latest(AllKeys(l)) = Insert(Latest(AllKeys(p)), AllKeys(l)[n + 1])
    BY <1>5, LatestGrows
  <2> QED
    BY <1>5, <2>1
<1> QED
  BY <1>6, <1>7 DEF p

\* A catalog that mirrors all batches but the last mirrors them all once it
\* records that one.
LEMMA RecordMirrors ==
  ASSUME NEW l, Chained(l), Serial(l), NEW n \in Nat, Len(l) = n + 1,
         NEW cat, Mirrors(cat, Prefix(l, n)), NEW isSynced
  PROVE  Mirrors(Record(cat, l[n + 1], isSynced), l)
<1> DEFINE b == l[n + 1]
           p == Prefix(l, n)
           rec == Record(cat, b, isSynced)
<1>1. n \in 0 .. Len(l) /\ n + 1 \in DOMAIN l /\ (n + 1) - 1 = n
  BY DEF Chained
<1>2. Chained(p) /\ Len(p) = n /\ \A i \in 1 .. n : p[i] = l[i]
  BY <1>1, PrefixFacts
<1>3. b.req.stream \in Streams
  BY <1>1, CatalogAssumption DEF Chained
<1>4. /\ cat.revisions = [s \in Streams |-> RevisionAt(l, n, s)]
      /\ cat.ids = Latest(AllIds(p)) /\ cat.keys = Latest(AllKeys(p))
  <2>1. \A s : RevisionAt(p, n, s) = RevisionAt(l, n, s)
    BY <1>2, Alike
  <2>2. cat.revisions = [s \in Streams |-> RevisionAt(p, n, s)]
    <3>1. cat.revisions = Rebuild(p).revisions
      BY DEF Mirrors
    <3>2. Rebuild(p).revisions = [s \in Streams |-> RevisionAt(p, Len(p), s)]
      BY <1>2, RebuildRevision
    <3> QED
      BY <1>2, <3>1, <3>2
  <2> QED
    BY <2>1, <2>2 DEF Mirrors, Rebuild
<1>5. \A s : RevisionAt(l, n + 1, s) =
               IF b.req.stream = s THEN b.rev + Len(b.req.events) ELSE RevisionAt(l, n, s)
  <2> SUFFICES ASSUME NEW s
               PROVE  RevisionAt(l, n + 1, s) =
                        IF b.req.stream = s THEN b.rev + Len(b.req.events) ELSE RevisionAt(l, n, s)
    OBVIOUS
  <2>1. Bounded(l) /\ l[n + 1].rev = RevisionAt(l, (n + 1) - 1, l[n + 1].req.stream)
    BY <1>1 DEF Serial, Bounded
  <2>2. RevisionAt(l, n + 1, s) =
           IF l[n + 1].req.stream = s THEN l[n + 1].rev + Len(l[n + 1].req.events)
           ELSE RevisionAt(l, (n + 1) - 1, s)
    BY <1>1, <2>1, RevisionAfter
  <2> QED
    BY <1>1, <2>2
<1>6. rec.revisions = Rebuild(l).revisions
  <2>1. rec.revisions = [cat.revisions EXCEPT ![b.req.stream] = b.rev + Len(b.req.events)]
    BY DEF Record
  <2>2. Rebuild(l).revisions = [s \in Streams |-> RevisionAt(l, n + 1, s)]
    BY RebuildRevision
  <2> HIDE DEF rec, b
  <2> QED
    BY <1>3, <1>4, <1>5, <2>1, <2>2
<1>7. rec.ids = Rebuild(l).ids /\ rec.keys = Rebuild(l).keys
  BY <1>4, AddedGrows DEF Record, Rebuild
<1>8. rec = [revisions |-> rec.revisions, ids |-> rec.ids, keys |-> rec.keys, synced |-> rec.synced]
  BY DEF Record
<1> HIDE DEF rec
<1>9. Mirrors(rec, l)
  BY <1>6, <1>7, <1>8 DEF Mirrors
<1> QED
  BY <1>9 DEF rec

\* A catalog that mirrors a log knows every key and event id of it.
LEMMA Knows ==
  ASSUME NEW l, Chained(l), Distinct(l), NEW cat, Mirrors(cat, l), NEW i \in DOMAIN l
  PROVE  /\ \A k \in l[i].req.key : \E e \in cat.keys : e.of = k
         /\ \A x \in IdsOf(l[i]) : \E e \in cat.ids : e.of = x
<1>1. DOMAIN l = 1 .. Len(l) /\ Len(l) \in Nat
  BY DEF Chained
<1>2. \A m \in Nat : \A f : f = [j \in 1 .. m |-> f[j]] => Len(f) = m
  OBVIOUS
<1>3. \A j \in i + 1 .. Len(l) : j \in DOMAIN l /\ j # i
  BY <1>1
<1>4. ASSUME NEW k \in l[i].req.key PROVE \E e \in cat.keys : e.of = k
  <2> DEFINE e == [of |-> k, digest |-> Digest(l[i].req), batch |-> l[i].batch]
             a == AllKeys(l)
  <2>1. DOMAIN a = 1 .. Len(l) /\ Len(a) = Len(l) /\ \A j \in DOMAIN l : a[j] = KeyEntries(l[j])
    BY <1>1, <1>2 DEF AllKeys
  <2>2. e \in KeyEntries(l[i]) /\ e.of = k
    BY DEF KeyEntries
  <2>3. \A j \in DOMAIN l : \A m \in KeyEntries(l[j]) : m.of \in l[j].req.key
    BY DEF KeyEntries
  <2> HIDE DEF e, a
  <2>4. \A j \in i + 1 .. Len(a) : \A m \in a[j] : m.of # e.of
    BY <1>3, <1>4, <2>1, <2>2, <2>3 DEF Distinct
  <2>5. e \in Latest(a)
    BY <1>1, <2>1, <2>2, <2>4 DEF Latest
  <2> QED
    BY <2>2, <2>5 DEF a, Mirrors, Rebuild
<1>5. ASSUME NEW x \in IdsOf(l[i]) PROVE \E e \in cat.ids : e.of = x
  <2> DEFINE a == AllIds(l)
  <2>1. DOMAIN a = 1 .. Len(l) /\ Len(a) = Len(l) /\ \A j \in DOMAIN l : a[j] = IdEntries(l[j])
    BY <1>1, <1>2 DEF AllIds
  <2>2. PICK k \in Entries(l[i]) : x \in l[i].req.events[k].id
    BY <1>5 DEF IdsOf
  <2> DEFINE e == [of |-> x, digest |-> l[i].req.events[k].body, batch |-> l[i].batch]
  <2>3. e \in IdEntries(l[i]) /\ e.of = x
    BY <2>2 DEF IdEntries
  <2>4. \A j \in DOMAIN l : \A m \in IdEntries(l[j]) : m.of \in IdsOf(l[j])
    BY DEF IdEntries, IdsOf
  <2> HIDE DEF e, a
  <2>5. \A j \in i + 1 .. Len(a) : \A m \in a[j] : m.of # e.of
    BY <1>3, <1>5, <2>1, <2>3, <2>4 DEF Distinct
  <2>6. e \in Latest(a)
    BY <1>1, <2>1, <2>3, <2>5 DEF Latest
  <2> QED
    BY <2>3, <2>6 DEF a, Mirrors, Rebuild
<1> QED
  BY <1>4, <1>5

----------------------------------------------------------------------------
(* Longer and shorter logs *)

\* Log m is log l and one more batch at its head.
Extends(m, l) ==
    /\ Chained(l) /\ Chained(m) /\ Len(m) = Len(l) + 1
    /\ \A i \in 1 .. Len(l) : m[i] = l[i]
    /\ m[Len(m)].first = HeadOf(l)

\* A batch admitted at the revision of its stream keeps a log serial.
LEMMA SerialGrows ==
  ASSUME NEW l, NEW m, Extends(m, l), Serial(l),
         m[Len(m)].rev = RevisionAt(l, Len(l), m[Len(m)].req.stream),
         m[Len(m)].rev \in m[Len(m)].req.expected
  PROVE  Serial(m)
<1> DEFINE n == Len(l)
<1>1. /\ n \in Nat /\ Len(m) = n + 1 /\ DOMAIN l = 1 .. n /\ DOMAIN m = 1 .. n + 1
      /\ \A i \in 1 .. n : m[i] = l[i]
      /\ n \in 0 .. Len(l) /\ n + 1 \in DOMAIN m /\ (n + 1) - 1 = n
  BY DEF Extends, Chained
<1>2. \A k \in 0 .. n : \A s : RevisionAt(m, k, s) = RevisionAt(l, k, s) /\ Counted(m, k, s) = Counted(l, k, s)
  <2> SUFFICES ASSUME NEW k \in 0 .. n, NEW s
               PROVE  RevisionAt(m, k, s) = RevisionAt(l, k, s) /\ Counted(m, k, s) = Counted(l, k, s)
    OBVIOUS
  <2>1. \A i \in 1 .. k : m[i] = l[i]
    BY <1>1
  <2> QED
    BY <2>1, Alike
<1>3. /\ m[n + 1].rev \in 0 .. m[n + 1].first
      /\ m[n + 1].rev = RevisionAt(m, n, m[n + 1].req.stream)
      /\ m[n + 1].rev \in m[n + 1].req.expected
  <2>1. m[n + 1].rev = RevisionAt(l, n, m[n + 1].req.stream) /\ m[n + 1].first = HeadOf(l)
    BY <1>1 DEF Extends
  <2>2. Bounded(l) /\ Chained(l)
    BY DEF Serial, Bounded, Extends
  <2>3. HeadOf(l) \in Nat
    BY <2>2, Heads
  <2>4. /\ Ends(l, n, m[n + 1].req.stream) \in SUBSET Nat
        /\ RevisionAt(l, n, m[n + 1].req.stream) \in Ends(l, n, m[n + 1].req.stream)
        /\ RevisionAt(l, n, m[n + 1].req.stream) <= HeadOf(l)
    BY <1>1, <2>2, RevisionMax
  <2>5. m[n + 1].rev \in 0 .. m[n + 1].first
    BY <2>1, <2>3, <2>4
  <2>6. RevisionAt(m, n, m[n + 1].req.stream) = RevisionAt(l, n, m[n + 1].req.stream)
    BY <1>1, <1>2
  <2> QED
    BY <1>1, <2>1, <2>5, <2>6
<1>4. \A i \in DOMAIN m : /\ m[i].rev \in 0 .. m[i].first
                          /\ m[i].rev = RevisionAt(m, i - 1, m[i].req.stream)
                          /\ m[i].rev \in m[i].req.expected
  <2> SUFFICES ASSUME NEW i \in 1 .. n + 1
               PROVE  /\ m[i].rev \in 0 .. m[i].first
                      /\ m[i].rev = RevisionAt(m, i - 1, m[i].req.stream)
                      /\ m[i].rev \in m[i].req.expected
    BY <1>1
  <2>1. CASE i \in 1 .. n
    <3>1. m[i] = l[i] /\ i \in DOMAIN l /\ i - 1 \in 0 .. n
      BY <1>1, <2>1
    <3>2. RevisionAt(m, i - 1, m[i].req.stream) = RevisionAt(l, i - 1, l[i].req.stream)
      BY <1>2, <3>1
    <3> QED
      BY <3>1, <3>2 DEF Serial
  <2>2. CASE i = n + 1
    BY <1>1, <1>3, <2>2
  <2> QED
    BY <1>1, <2>1, <2>2
<1>5. \A k \in 0 .. Len(m), s \in Streams :
         IsFiniteSet(Counted(m, k, s)) /\ Cardinality(Counted(m, k, s)) = RevisionAt(m, k, s)
  <2> SUFFICES ASSUME NEW k \in 0 .. n + 1, NEW s \in Streams
               PROVE  /\ IsFiniteSet(Counted(m, k, s))
                      /\ Cardinality(Counted(m, k, s)) = RevisionAt(m, k, s)
    BY <1>1
  <2>1. \A j \in 0 .. n : /\ IsFiniteSet(Counted(m, j, s))
                          /\ Cardinality(Counted(m, j, s)) = RevisionAt(m, j, s)
    BY <1>2 DEF Serial
  <2>2. CASE k \in 0 .. n
    BY <2>1, <2>2
  <2>3. CASE k = n + 1
    <3>1. Chained(m) /\ Bounded(m)
      BY <1>4 DEF Extends, Bounded
    <3>2. IsFiniteSet(Counted(m, n, s)) /\ Cardinality(Counted(m, n, s)) = RevisionAt(m, n, s)
      BY <1>1, <2>1
    <3>3. IsFiniteSet(Counted(m, (n + 1) - 1, s))
          /\ m[n + 1].rev = RevisionAt(m, (n + 1) - 1, m[n + 1].req.stream)
      BY <1>1, <1>3, <3>2
    <3>4. /\ IsFiniteSet(Counted(m, n + 1, s))
          /\ Cardinality(Counted(m, n + 1, s)) =
               IF m[n + 1].req.stream = s
               THEN Cardinality(Counted(m, (n + 1) - 1, s)) + Len(m[n + 1].req.events)
               ELSE Cardinality(Counted(m, (n + 1) - 1, s))
      BY <1>1, <3>1, <3>3, CountAfter
    <3>5. RevisionAt(m, n + 1, s) =
            IF m[n + 1].req.stream = s THEN m[n + 1].rev + Len(m[n + 1].req.events)
            ELSE RevisionAt(m, (n + 1) - 1, s)
      BY <1>1, <3>1, <3>3, RevisionAfter
    <3> QED
      BY <1>1, <1>3, <2>3, <3>2, <3>4, <3>5
  <2> QED
    BY <1>1, <2>2, <2>3
<1> QED
  BY <1>4, <1>5 DEF Serial

\* So do keys and ids that no batch of it has.
LEMMA DistinctGrows ==
  ASSUME NEW l, NEW m, Extends(m, l), Distinct(l),
         \A i \in DOMAIN l : /\ l[i].req.key \cap m[Len(m)].req.key = {}
                             /\ IdsOf(l[i]) \cap IdsOf(m[Len(m)]) = {}
  PROVE  Distinct(m)
<1>1. /\ DOMAIN l = 1 .. Len(l) /\ DOMAIN m = 1 .. Len(l) + 1 /\ Len(l) \in Nat
      /\ Len(m) = Len(l) + 1
  BY DEF Extends, Chained
<1> SUFFICES ASSUME NEW i \in DOMAIN m, NEW j \in DOMAIN m, i # j
             PROVE  m[i].req.key \cap m[j].req.key = {} /\ IdsOf(m[i]) \cap IdsOf(m[j]) = {}
  BY DEF Distinct
<1>2. ASSUME NEW k \in DOMAIN m, k # Len(m) PROVE k \in DOMAIN l /\ m[k] = l[k]
  <2>1. \A a \in 1 .. Len(l) : m[a] = l[a]
    BY DEF Extends
  <2>2. \A a \in 1 .. Len(l) + 1 : a = Len(l) + 1 \/ a \in 1 .. Len(l)
    BY <1>1
  <2>3. k \in 1 .. Len(l)
    BY <1>1, <1>2, <2>2, Zenon
  <2> QED
    BY <1>1, <2>1, <2>3, Zenon
<1>3. CASE i # Len(m) /\ j # Len(m)
  BY <1>2, <1>3 DEF Distinct
<1>4. CASE i = Len(m) \/ j = Len(m)
  BY <1>2, <1>4
<1> QED
  BY <1>3, <1>4

\* The first batches of a serial log are one.
LEMMA PrefixSerial ==
  ASSUME NEW l, Chained(l), Serial(l), Distinct(l), NEW n \in 0 .. Len(l)
  PROVE  Serial(Prefix(l, n)) /\ Distinct(Prefix(l, n))
<1> DEFINE p == Prefix(l, n)
<1>1. /\ Chained(p) /\ Len(p) = n /\ DOMAIN p = 1 .. n /\ Len(l) \in Nat
      /\ \A i \in 1 .. n : i \in DOMAIN l /\ p[i] = l[i]
  <2>1. Len(l) \in Nat
    BY DEF Chained
  <2> QED
    BY <2>1, PrefixFacts
<1> HIDE DEF p
<1>2. \A k \in 0 .. n : \A s : RevisionAt(p, k, s) = RevisionAt(l, k, s) /\ Counted(p, k, s) = Counted(l, k, s)
  <2> SUFFICES ASSUME NEW k \in 0 .. n, NEW s
               PROVE  RevisionAt(p, k, s) = RevisionAt(l, k, s) /\ Counted(p, k, s) = Counted(l, k, s)
    OBVIOUS
  <2>1. \A i \in 1 .. k : p[i] = l[i]
    BY <1>1
  <2> QED
    BY <2>1, Alike
<1>3. \A i \in DOMAIN p : /\ p[i].rev \in 0 .. p[i].first
                          /\ p[i].rev = RevisionAt(p, i - 1, p[i].req.stream)
                          /\ p[i].rev \in p[i].req.expected
  <2> SUFFICES ASSUME NEW i \in 1 .. n
               PROVE  /\ p[i].rev \in 0 .. p[i].first
                      /\ p[i].rev = RevisionAt(p, i - 1, p[i].req.stream)
                      /\ p[i].rev \in p[i].req.expected
    BY <1>1
  <2>1. p[i] = l[i] /\ i \in DOMAIN l /\ i - 1 \in 0 .. n
    BY <1>1
  <2>2. RevisionAt(p, i - 1, p[i].req.stream) = RevisionAt(l, i - 1, l[i].req.stream)
    BY <1>2, <2>1
  <2> QED
    BY <2>1, <2>2 DEF Serial
<1>4. \A k \in 0 .. n, s \in Streams :
         IsFiniteSet(Counted(p, k, s)) /\ Cardinality(Counted(p, k, s)) = RevisionAt(p, k, s)
  <2>1. \A k \in 0 .. n : k \in 0 .. Len(l)
    BY <1>1
  <2> QED
    BY <1>2, <2>1 DEF Serial
<1>5. Serial(p) /\ Distinct(p)
  BY <1>1, <1>3, <1>4 DEF Serial, Distinct
<1> QED
  BY <1>5 DEF p

\* A prefix of the shorter log is one of the longer.
LEMMA PrefixGrows ==
  ASSUME NEW l, NEW m, Extends(m, l), NEW n \in 0 .. Len(l)
  PROVE  n \in 0 .. Len(m) /\ Prefix(m, n) = Prefix(l, n)
<1>1. /\ Chained(l) /\ Chained(m) /\ Len(l) \in Nat /\ n \in 0 .. Len(m)
      /\ \A i \in 1 .. n : m[i] = l[i]
  BY DEF Extends, Chained
<1>2. /\ Chained(Prefix(l, n)) /\ Len(Prefix(l, n)) = n
      /\ \A i \in 1 .. n : Prefix(l, n)[i] = l[i]
  BY <1>1, PrefixFacts
<1>3. /\ Chained(Prefix(m, n)) /\ Len(Prefix(m, n)) = n
      /\ \A i \in 1 .. n : Prefix(m, n)[i] = m[i]
  BY <1>1, PrefixFacts
<1> QED
  BY <1>1, <1>2, <1>3, SameLog

\* What mirrors some batches of a log does so when another comes.
LEMMA MirrorsGrows ==
  ASSUME NEW l, NEW m, Extends(m, l), NEW cat, NEW head, MirrorsAt(l, cat, head)
  PROVE  MirrorsAt(m, cat, head)
BY PrefixGrows DEF MirrorsAt

\* When batches are lost it still does, or its head is beyond the log.
LEMMA MirrorsCut ==
  ASSUME NEW l, Chained(l), NEW k \in 0 .. Len(l), NEW cat, NEW head, MirrorsAt(l, cat, head)
  PROVE  MirrorsAt(Prefix(l, k), cat, head) \/ HeadOf(Prefix(l, k)) < head
<1>1. PICK n \in 0 .. Len(l) : HeadOf(Prefix(l, n)) = head /\ Mirrors(cat, Prefix(l, n))
  BY DEF MirrorsAt
<1>2. Len(Prefix(l, k)) = k /\ Len(l) \in Nat
  <2>1. Len(l) \in Nat
    BY DEF Chained
  <2> QED
    BY <2>1, PrefixFacts
<1>3. CASE n <= k
  <2>1. n \in 0 .. k
    BY <1>2, <1>3
  <2>2. Prefix(Prefix(l, k), n) = Prefix(l, n)
    BY <2>1, PrefixOfPrefix
  <2> QED
    BY <1>1, <1>2, <2>1, <2>2 DEF MirrorsAt
<1>4. CASE ~(n <= k)
  <2>1. k \in 0 .. n /\ k # n
    BY <1>2, <1>4
  <2> QED
    BY <1>1, <2>1, HeadsRise
<1> QED
  BY <1>3, <1>4

\* What mirrors a log at its head mirrors all of it.
LEMMA MirrorsAtHead ==
  ASSUME NEW l, Chained(l), NEW cat
  PROVE  MirrorsAt(l, cat, HeadOf(l)) <=> Mirrors(cat, l)
<1>1. Len(l) \in Nat /\ Len(l) \in 0 .. Len(l) /\ Prefix(l, Len(l)) = l
  <2>1. Len(l) \in Nat /\ Len(l) \in 0 .. Len(l)
    BY DEF Chained
  <2> QED
    BY <2>1, PrefixOfPrefix
<1>2. ASSUME MirrorsAt(l, cat, HeadOf(l)) PROVE Mirrors(cat, l)
  <2>1. PICK n \in 0 .. Len(l) : HeadOf(Prefix(l, n)) = HeadOf(l) /\ Mirrors(cat, Prefix(l, n))
    BY <1>2 DEF MirrorsAt
  <2>2. HeadOf(l) \in Nat
    BY Heads
  <2>3. n = Len(l)
    <3> SUFFICES ASSUME n # Len(l) PROVE FALSE
      OBVIOUS
    <3>1. HeadOf(Prefix(l, n)) < HeadOf(Prefix(l, Len(l)))
      BY <1>1, HeadsRise
    <3> QED
      BY <1>1, <2>1, <2>2, <3>1
  <2> QED
    BY <1>1, <2>1, <2>3
<1>3. ASSUME Mirrors(cat, l) PROVE MirrorsAt(l, cat, HeadOf(l))
  BY <1>1, <1>3 DEF MirrorsAt
<1> QED
  BY <1>2, <1>3

----------------------------------------------------------------------------
(* The invariant *)

\* The batches that the catalog of a running engine holds.
Recorded ==
    IF phase \in {"sync", "persist"} /\ call.kind = "append" THEN Prefix(log, Len(log) - 1) ELSE log

CatalogExact ==
    /\ phase # "down" => Mirrors(catalog, Recorded)
    /\ phase = "publish" => call.kind = "append"

\* A checkpoint is of the log up to its head, or of a log that was cut since.
Current(c) == MirrorsAt(log, c.catalog, c.head) \/ Ahead(c)

\* The checkpoint in the middle of an append lacks its batch under its head.
CheckpointsExact ==
    /\ \A c \in checkpoint : IF c.complete THEN Current(c) ELSE phase = "publish"
    /\ \A s \in safe : s.complete => Current(s) \/ \A c \in checkpoint : c.head < s.head

ExactInv ==
    lapses = {} => Serial(log) /\ Distinct(log) /\ CatalogExact /\ CheckpointsExact

\* A new checkpoint of a catalog that holds the whole log.
LEMMA PersistExact ==
  ASSUME PromiseInv, CheckpointsExact, Mirrors(catalog, log), PersistCatalog(TRUE),
         UNCHANGED log, phase # "down"
  PROVE  CheckpointsExact'
<1>1. \A c \in checkpoint' : /\ c.head = HeadOf(log) /\ c.complete
                             /\ MirrorsAt(log, c.catalog, c.head)
  BY MirrorsAtHead DEF PersistCatalog, PromiseInv, LogShape
<1>2. safe' = checkpoint
  BY DEF PersistCatalog
<1>3. \A s \in checkpoint : s.complete => \/ MirrorsAt(log, s.catalog, s.head)
                                          \/ HeadOf(log) < s.head
  BY DEF CheckpointsExact, Current, Ahead
<1> QED
  BY <1>1, <1>2, <1>3 DEF CheckpointsExact, Current

\* Checkpoints stay what they are while the engine runs on the same log.
LEMMA RunsOn ==
  ASSUME CheckpointsExact, UNCHANGED <<log, checkpoint, safe>>, phase \notin {"down", "cache"},
         phase = "publish" => \A c \in checkpoint : c.complete
  PROVE  CheckpointsExact'
BY DEF CheckpointsExact, Current, Ahead

\* An open takes the catalog from a checkpoint at the head of the log.
LEMMA OpenFromCheckpointExact ==
  ASSUME PromiseInv, ExactInv, OpenFromCheckpoint
  PROVE  ExactInv'
<1>1. PICK c \in checkpoint : c.head = HeadOf(log) /\ catalog' = c.catalog
  BY DEF OpenFromCheckpoint, Usable
<1>2. UNCHANGED <<log, checkpoint, safe, lapses>> /\ phase = "down" /\ phase' = "idle"
  BY DEF OpenFromCheckpoint, disk
<1> SUFFICES ASSUME lapses = {} PROVE ExactInv'
  BY <1>2 DEF ExactInv
<1>3. Serial(log) /\ Distinct(log) /\ CheckpointsExact
  BY DEF ExactInv
<1>4. HeadOf(log) \in Nat /\ Chained(log)
  BY Heads DEF PromiseInv, LogShape
<1>5. c.complete /\ MirrorsAt(log, c.catalog, c.head)
  BY <1>1, <1>2, <1>3, <1>4 DEF CheckpointsExact, Current, Ahead
<1>6. \A d \in checkpoint : d = c
  BY DEF PromiseInv, Shape
<1>7. Mirrors(catalog', log)
  BY <1>1, <1>4, <1>5, MirrorsAtHead
<1>8. CatalogExact'
  BY <1>2, <1>7 DEF CatalogExact, Recorded
<1>9. \A s \in safe : s.complete => MirrorsAt(log, s.catalog, s.head) \/ c.head < s.head
  BY <1>1, <1>3 DEF CheckpointsExact, Current, Ahead
<1>10. CheckpointsExact'
  BY <1>2, <1>5, <1>6, <1>9 DEF CheckpointsExact, Current
<1> QED
  BY <1>2, <1>3, <1>8, <1>10 DEF ExactInv

\* A rebuilt catalog is that of the log.
LEMMA OpenByRebuildExact ==
  ASSUME PromiseInv, ExactInv, OpenByRebuild
  PROVE  ExactInv'
<1>1. /\ UNCHANGED <<log, checkpoint, safe, lapses>>
      /\ phase = "down" /\ phase' = "cache" /\ catalog' = Rebuild(log)
  BY DEF OpenByRebuild, disk
<1>2. Mirrors(Rebuild(log), log)
  BY DEF Mirrors, Rebuild
<1>3. CatalogExact'
  BY <1>1, <1>2 DEF CatalogExact, Recorded
<1>4. CheckpointsExact => CheckpointsExact'
  BY <1>1 DEF CheckpointsExact, Current, Ahead
<1> QED
  BY <1>1, <1>3, <1>4 DEF ExactInv

\* It is cached under the head of the log.
LEMMA CacheCatalogExact ==
  ASSUME PromiseInv, ExactInv, CacheCatalog
  PROVE  ExactInv'
<1>1. UNCHANGED <<log, catalog, lapses>> /\ phase = "cache" /\ phase' = "idle" /\ PersistCatalog(TRUE)
  BY DEF CacheCatalog
<1> SUFFICES ASSUME lapses = {} PROVE ExactInv'
  BY <1>1 DEF ExactInv
<1>2. Serial(log) /\ Distinct(log) /\ CheckpointsExact /\ Mirrors(catalog, log)
  BY <1>1 DEF ExactInv, CatalogExact, Recorded
<1>3. CheckpointsExact'
  BY <1>1, <1>2, PersistExact
<1>4. CatalogExact'
  BY <1>1, <1>2 DEF CatalogExact, Recorded
<1> QED
  BY <1>1, <1>2, <1>3, <1>4 DEF ExactInv

\* No batch of the log has a key or an event id of a fresh request.
LEMMA FreshIsNew ==
  ASSUME Chained(log), Distinct(log), Mirrors(catalog, log), NEW req \in Requests, Fresh(req),
         NEW b, b.req = req, NEW i \in DOMAIN log
  PROVE  log[i].req.key \cap b.req.key = {} /\ IdsOf(log[i]) \cap IdsOf(b) = {}
<1>1. /\ \A k \in log[i].req.key : \E e \in catalog.keys : e.of = k
      /\ \A x \in IdsOf(log[i]) : \E e \in catalog.ids : e.of = x
  BY Knows
<1>2. \A e \in catalog.keys : e.of \notin req.key
  BY DEF Fresh, Admitted, Keyed
<1>3. \A k \in 1 .. Len(req.events) : \A e \in catalog.ids : e.of \notin req.events[k].id
  <2>1. DOMAIN req.events = 1 .. Len(req.events)
    BY CatalogAssumption
  <2> QED
    BY <2>1 DEF Fresh, Known
<1>4. \A x \in IdsOf(b) : \E k \in 1 .. Len(req.events) : x \in req.events[k].id
  BY DEF IdsOf, Entries
<1> QED
  BY <1>1, <1>2, <1>3, <1>4

\* A fresh batch goes to the end of the log; the catalog learns of it now or
\* has a commit to wait for.
LEMMA AppendBatchExact ==
  ASSUME PromiseInv, ExactInv, NEW req \in Requests, AppendBatch(req)
  PROVE  ExactInv'
<1> DEFINE b == NextBatch(req)
<1>1. /\ UNCHANGED <<synced, checkpoint, safe, lapses>> /\ phase = "idle" /\ Fresh(req)
      /\ log' = Append(log, b)
      /\ \/ phase' = "idle" /\ catalog' = Record(catalog, b, FALSE)
         \/ phase' = "sync" /\ call'.kind = "append" /\ catalog' = catalog
  <2>1. /\ UNCHANGED <<synced, checkpoint, safe, lapses>> /\ phase = "idle" /\ Fresh(req)
        /\ log' = Append(log, b)
    BY DEF AppendBatch
  <2>2. IF MustSync(req)
        THEN /\ phase' = "sync" /\ call' = [kind |-> "append", batch |-> b.batch]
             /\ UNCHANGED catalog
        ELSE /\ catalog' = Record(catalog, b, FALSE) /\ UNCHANGED <<phase, call>>
    BY DEF AppendBatch
  <2> HIDE DEF b
  <2>3. CASE MustSync(req)
    <3>1. phase' = "sync" /\ call' = [kind |-> "append", batch |-> b.batch] /\ catalog' = catalog
      BY <2>2, <2>3
    <3> QED
      BY <2>1, <3>1
  <2>4. CASE ~MustSync(req)
    BY <2>1, <2>2, <2>4
  <2> QED
    BY <2>3, <2>4
<1>2. /\ b.first = HeadOf(log) /\ b.req = req
      /\ b.rev = catalog.revisions[req.stream]
  BY DEF NextBatch
<1>3. catalog.revisions[req.stream] \in req.expected
  BY <1>1 DEF Fresh, Admitted
<1> HIDE DEF b
<1> SUFFICES ASSUME lapses = {} PROVE ExactInv'
  BY <1>1 DEF ExactInv
<1>4. Serial(log) /\ Distinct(log) /\ CheckpointsExact /\ Mirrors(catalog, log)
  BY <1>1 DEF ExactInv, CatalogExact, Recorded
<1>5. /\ Chained(log) /\ Chained(log')
      /\ \A i \in DOMAIN log : i \in DOMAIN log' /\ log'[i] = log[i]
      /\ log'[Len(log')] = b
  BY <1>1, <1>2, Grows DEF PromiseInv, LogShape
<1>6. DOMAIN log = 1 .. Len(log) /\ Len(log) \in Nat /\ Len(log') = Len(log) + 1
  BY <1>1, <1>5 DEF Chained
<1>7. Extends(log', log)
  BY <1>2, <1>5, <1>6 DEF Extends
<1>8. b.rev = RevisionAt(log, Len(log), b.req.stream) /\ b.rev \in b.req.expected
  <2>1. req.stream \in Streams
    BY CatalogAssumption
  <2>2. catalog.revisions = [s \in Streams |-> RevisionAt(log, Len(log), s)]
    <3>1. catalog.revisions = Rebuild(log).revisions
      BY <1>4 DEF Mirrors
    <3> QED
      BY <1>5, <3>1, RebuildRevision
  <2> QED
    BY <1>2, <1>3, <2>1, <2>2
<1>9. Serial(log')
  BY <1>4, <1>5, <1>7, <1>8, SerialGrows
<1>10. Distinct(log')
  <2>1. \A i \in DOMAIN log : /\ log[i].req.key \cap b.req.key = {}
                              /\ IdsOf(log[i]) \cap IdsOf(b) = {}
    BY <1>1, <1>2, <1>4, <1>5, FreshIsNew
  <2> QED
    BY <1>4, <1>5, <1>7, <2>1, DistinctGrows
<1>11. Prefix(log', Len(log)) = log
  <2>1. Len(log) \in 0 .. Len(log)
    BY <1>6
  <2> QED
    BY <1>5, <1>7, <2>1, PrefixGrows, PrefixOfPrefix
<1>12. CheckpointsExact'
  <2>1. \A c \in checkpoint : c.complete /\ MirrorsAt(log, c.catalog, c.head)
    BY <1>1, <1>4 DEF CheckpointsExact, Current, Ahead
  <2>2. \A s \in safe : s.complete => \/ MirrorsAt(log, s.catalog, s.head)
                                      \/ \A c \in checkpoint : c.head < s.head
    BY <1>1, <1>4 DEF CheckpointsExact, Current, Ahead
  <2> QED
    BY <1>1, <1>7, <2>1, <2>2, MirrorsGrows DEF CheckpointsExact, Current
<1>13. CatalogExact'
  <2>1. CASE phase' = "idle"
    <3>1. Mirrors(Record(catalog, log'[Len(log) + 1], FALSE), log')
      BY <1>4, <1>5, <1>6, <1>9, <1>11, RecordMirrors
    <3>2. Mirrors(catalog', log')
      BY <1>1, <1>5, <1>6, <2>1, <3>1
    <3> QED
      BY <2>1, <3>2 DEF CatalogExact, Recorded
  <2>2. CASE phase' = "sync" /\ call'.kind = "append" /\ catalog' = catalog
    <3>1. Len(log') - 1 = Len(log)
      BY <1>6
    <3> QED
      BY <1>4, <1>11, <2>2, <3>1 DEF CatalogExact, Recorded
  <2> QED
    BY <1>1, <2>1, <2>2
<1> QED
  BY <1>9, <1>10, <1>12, <1>13 DEF ExactInv

\* Steps of memory that leave the catalog and the disk alone.
LEMMA MemoryExact ==
  ASSUME ExactInv, UNCHANGED <<disk, catalog>>, phase \notin {"down", "cache", "publish"},
         phase' \in {"idle", "sync"}, phase' = "sync" => call'.kind # "append",
         lapses' = {} => lapses = {} /\ ~(phase \in {"sync", "persist"} /\ call.kind = "append")
  PROVE  ExactInv'
<1>1. UNCHANGED <<log, checkpoint, safe, catalog>>
  BY DEF disk
<1> SUFFICES ASSUME lapses' = {} PROVE ExactInv'
  BY DEF ExactInv
<1>2. Serial(log) /\ Distinct(log) /\ CheckpointsExact /\ Mirrors(catalog, log)
  BY DEF ExactInv, CatalogExact, Recorded
<1>3. CheckpointsExact'
  BY <1>1, <1>2, RunsOn
<1>4. CatalogExact'
  BY <1>1, <1>2 DEF CatalogExact, Recorded
<1> QED
  BY <1>1, <1>2, <1>3, <1>4 DEF ExactInv

\* The fsync changes neither the catalog nor the checkpoints.
LEMMA SyncLogExact ==
  ASSUME ExactInv, SyncLog
  PROVE  ExactInv'
<1>1. UNCHANGED <<log, checkpoint, safe, catalog, call, lapses>> /\ phase = "sync" /\ phase' = "persist"
  BY DEF SyncLog
<1>2. CheckpointsExact => CheckpointsExact'
  BY <1>1, RunsOn
<1>3. CatalogExact => CatalogExact'
  BY <1>1 DEF CatalogExact, Recorded
<1> QED
  BY <1>1, <1>2, <1>3 DEF ExactInv

\* In an append the checkpoint lacks the batch, and the catalog then learns of it.
LEMMA PersistStepExact ==
  ASSUME PromiseInv, ExactInv, Persist
  PROVE  ExactInv'
<1>1. UNCHANGED <<log, lapses>> /\ phase = "persist" /\ PersistCatalog(call.kind # "append")
  BY DEF Persist
<1> SUFFICES ASSUME lapses = {} PROVE ExactInv'
  BY <1>1 DEF ExactInv
<1>2. Serial(log) /\ Distinct(log) /\ CheckpointsExact /\ CatalogExact
  BY DEF ExactInv
<1>3. Chained(log) /\ Len(log) \in Nat
  BY DEF PromiseInv, LogShape, Chained
<1>4. CASE call.kind = "append"
  <2>1. catalog' = Record(catalog, Last(log), TRUE) /\ phase' = "publish" /\ call' = call
    BY <1>4 DEF Persist
  <2>2. Len(log) - 1 \in Nat /\ Len(log) = (Len(log) - 1) + 1 /\ Last(log) = log[Len(log)]
    <3>1. log # <<>>
      BY <1>1, <1>4 DEF PromiseInv, Shape
    <3> QED
      BY <1>3, <3>1 DEF Last, Chained
  <2>3. Mirrors(catalog, Prefix(log, Len(log) - 1))
    BY <1>1, <1>2, <1>4 DEF CatalogExact, Recorded
  <2>4. Mirrors(Record(catalog, log[(Len(log) - 1) + 1], TRUE), log)
    BY <1>2, <1>3, <2>2, <2>3, RecordMirrors
  <2>5. CatalogExact'
    BY <1>1, <1>4, <2>1, <2>2, <2>4 DEF CatalogExact, Recorded
  <2>6. CheckpointsExact'
    <3>1. \A c \in checkpoint' : ~c.complete
      <4>1. PersistCatalog(FALSE)
        BY <1>1, <1>4
      <4> QED
        BY <4>1 DEF PersistCatalog
    <3>2. safe' = checkpoint
      BY <1>1 DEF PersistCatalog
    <3>3. \A s \in checkpoint : s.complete => MirrorsAt(log, s.catalog, s.head)
      BY <1>1, <1>2 DEF CheckpointsExact, Current, Ahead
    <3> QED
      BY <1>1, <2>1, <3>1, <3>2, <3>3 DEF CheckpointsExact, Current
  <2> QED
    BY <1>1, <1>2, <2>5, <2>6 DEF ExactInv
<1>5. CASE call.kind # "append"
  <2>1. phase' = "idle" /\ catalog' = catalog
    BY <1>5 DEF Persist
  <2>2. Mirrors(catalog, log)
    BY <1>1, <1>2, <1>5 DEF CatalogExact, Recorded
  <2>3. PersistCatalog(TRUE)
    BY <1>1, <1>5
  <2>4. CheckpointsExact'
    BY <1>1, <1>2, <2>2, <2>3, PersistExact
  <2>5. CatalogExact'
    BY <1>1, <2>1, <2>2 DEF CatalogExact, Recorded
  <2> QED
    BY <1>1, <1>2, <2>4, <2>5 DEF ExactInv
<1> QED
  BY <1>4, <1>5

\* The second checkpoint of an append holds its batch.
LEMMA PublishAppendExact ==
  ASSUME PromiseInv, ExactInv, PublishAppend
  PROVE  ExactInv'
<1>1. /\ UNCHANGED <<log, catalog, lapses>>
      /\ phase = "publish" /\ phase' = "idle" /\ PersistCatalog(TRUE)
  BY DEF PublishAppend
<1> SUFFICES ASSUME lapses = {} PROVE ExactInv'
  BY <1>1 DEF ExactInv
<1>2. Serial(log) /\ Distinct(log) /\ CheckpointsExact /\ Mirrors(catalog, log)
  BY <1>1 DEF ExactInv, CatalogExact, Recorded
<1>3. CheckpointsExact'
  BY <1>1, <1>2, PersistExact
<1>4. CatalogExact'
  BY <1>1, <1>2 DEF CatalogExact, Recorded
<1> QED
  BY <1>1, <1>2, <1>3, <1>4 DEF ExactInv

\* A commit that fails in an append is a lapse; another leaves the catalog exact.
LEMMA CommitFailsExact ==
  ASSUME ExactInv, CommitFails
  PROVE  ExactInv'
<1>1. /\ UNCHANGED <<disk, catalog>> /\ phase \in {"sync", "persist", "publish"} /\ phase' = "idle"
      /\ lapses' = IF call.kind = "append" THEN lapses \cup {"append"} ELSE lapses
  BY DEF CommitFails
<1>2. CASE call.kind = "append"
  BY <1>1, <1>2 DEF ExactInv
<1>3. CASE call.kind # "append"
  <2>1. lapses = {} => phase # "publish"
    BY <1>3 DEF ExactInv, CatalogExact
  <2>2. lapses' = lapses
    BY <1>1, <1>3
  <2>3. CASE phase = "publish"
    BY <2>1, <2>2, <2>3 DEF ExactInv
  <2>4. CASE phase # "publish"
    BY <1>1, <1>3, <2>2, <2>4, MemoryExact
  <2> QED
    BY <2>3, <2>4
<1> QED
  BY <1>2, <1>3

\* What a stopped process leaves, unless it is the middle of an append.
LEMMA StopExact ==
  ASSUME ExactInv, UNCHANGED disk, End
  PROVE  ExactInv'
<1>1. /\ UNCHANGED <<log, checkpoint, safe>> /\ phase' = "down"
      /\ lapses' = {} => lapses = {} /\ \A c \in checkpoint : c.complete
  BY DEF End, disk
<1> SUFFICES ASSUME lapses' = {} PROVE ExactInv'
  BY DEF ExactInv
<1>2. Serial(log) /\ Distinct(log) /\ CheckpointsExact
  BY <1>1 DEF ExactInv
<1>3. CheckpointsExact'
  BY <1>1, <1>2 DEF CheckpointsExact, Current, Ahead
<1>4. CatalogExact'
  BY <1>1 DEF CatalogExact
<1> QED
  BY <1>1, <1>2, <1>3, <1>4 DEF ExactInv

\* The checkpoint that comes back is of what is left, or ahead of it.
LEMMA PowerLossExact ==
  ASSUME PromiseInv, ExactInv, PowerLoss
  PROVE  ExactInv'
<1>1. PICK n \in synced .. Len(log) : log' = SubSeq(log, 1, n)
  BY DEF PowerLoss
<1>2. /\ checkpoint' \in {checkpoint, safe} /\ safe' = checkpoint' /\ phase' = "down"
      /\ (\E c \in checkpoint : HeadOf(log') > c.head) => checkpoint' = checkpoint
      /\ lapses' = {} => lapses = {} /\ \A c \in checkpoint' : c.complete
  BY DEF PowerLoss, End
<1> SUFFICES ASSUME lapses' = {} PROVE ExactInv'
  BY DEF ExactInv
<1>3. Serial(log) /\ Distinct(log) /\ CheckpointsExact
  BY <1>2 DEF ExactInv
<1>4. Chained(log) /\ n \in 0 .. Len(log) /\ log' = Prefix(log, n)
  BY <1>1 DEF PromiseInv, LogShape, Chained, Prefix
<1>5. Serial(log') /\ Distinct(log')
  BY <1>3, <1>4, PrefixSerial
<1>6. HeadOf(log) \in Nat /\ HeadOf(log') \in Nat /\ HeadOf(log') <= HeadOf(log)
  <2>1. Chained(log')
    BY <1>4, PrefixFacts
  <2>2. HeadOf(log) \in Nat /\ HeadOf(log') \in Nat
    BY <1>4, <2>1, Heads
  <2>3. Len(log) \in Nat /\ Len(log) \in 0 .. Len(log) /\ n \in 0 .. Len(log)
    BY <1>4 DEF Chained
  <2>4. Prefix(log, Len(log)) = log
    BY <1>4, <2>3, PrefixOfPrefix
  <2>5. CASE n = Len(log)
    BY <1>4, <2>2, <2>4, <2>5
  <2>6. CASE n # Len(log)
    <3>1. HeadOf(Prefix(log, n)) < HeadOf(Prefix(log, Len(log)))
      BY <1>4, <2>3, <2>6, HeadsRise
    <3> QED
      BY <1>4, <2>2, <2>4, <3>1
  <2> QED
    BY <2>5, <2>6
<1>7. \A c \in checkpoint \cup safe : c.head \in Nat
  BY DEF PromiseInv, Shape
<1>8. \A c \in checkpoint \cup safe :
         Current(c) => MirrorsAt(log', c.catalog, c.head) \/ HeadOf(log') < c.head
  BY <1>4, <1>6, <1>7, MirrorsCut DEF Current, Ahead
<1>9. \A c \in checkpoint' : MirrorsAt(log', c.catalog, c.head) \/ HeadOf(log') < c.head
  <2>1. CASE checkpoint' = checkpoint
    BY <1>2, <1>3, <1>8, <2>1 DEF CheckpointsExact
  <2>2. CASE checkpoint' # checkpoint
    <3>1. checkpoint' = safe /\ \A c \in checkpoint : HeadOf(log') <= c.head
      BY <1>2, <1>6, <1>7, <2>2
    <3>2. checkpoint # {}
      BY <2>2, <3>1 DEF PromiseInv, Shape
    <3> QED
      BY <1>2, <1>3, <1>6, <1>7, <1>8, <3>1, <3>2 DEF CheckpointsExact
  <2> QED
    BY <2>1, <2>2
<1>10. CheckpointsExact'
  BY <1>2, <1>9 DEF CheckpointsExact, Current, Ahead
<1>11. CatalogExact'
  BY <1>2 DEF CatalogExact
<1> QED
  BY <1>5, <1>10, <1>11 DEF ExactInv

\* A new directory has no batches.
LEMMA ExactInit == Init => ExactInv
<1> SUFFICES ASSUME Init PROVE ExactInv
  OBVIOUS
<1>1. log = <<>> /\ checkpoint = {} /\ safe = {} /\ phase = "down"
  BY DEF Init
<1>2. DOMAIN log = {} /\ Len(log) = 0
  BY <1>1
<1>3. \A n \in 0 .. 0 : \A s : RevisionAt(log, n, s) = 0 /\ Counted(log, n, s) = {}
  <2> SUFFICES ASSUME NEW n \in 0 .. 0, NEW s
               PROVE  RevisionAt(log, n, s) = 0 /\ Counted(log, n, s) = {}
    OBVIOUS
  <2>1. 1 .. n = {}
    OBVIOUS
  <2>2. {0} \cup {log[i].rev + Len(log[i].req.events) : i \in {j \in 1 .. n : log[j].req.stream = s}} = {0}
    BY <2>1
  <2>3. Max({0}) = 0
    BY MaxIs
  <2>4. Counted(log, n, s) = {}
    BY <2>1 DEF Counted
  <2> QED
    BY <2>2, <2>3, <2>4 DEF RevisionAt
<1>4. Serial(log)
  BY <1>2, <1>3, FS_EmptySet DEF Serial
<1>5. Distinct(log)
  BY <1>2 DEF Distinct
<1> QED
  BY <1>1, <1>4, <1>5 DEF ExactInv, CatalogExact, CheckpointsExact

\* Every step keeps the invariant.
LEMMA ExactNext ==
  ASSUME PromiseInv, ExactInv, [Next]_vars
  PROVE  ExactInv'
<1>1. CASE OpenFromCheckpoint BY <1>1, OpenFromCheckpointExact
<1>2. CASE OpenByRebuild BY <1>2, OpenByRebuildExact
<1>3. CASE CacheCatalog BY <1>3, CacheCatalogExact
<1>4. CASE CacheFails BY <1>4 DEF CacheFails, ExactInv
<1>5. ASSUME NEW req \in Requests, AppendBatch(req) PROVE ExactInv'
  BY <1>5, AppendBatchExact
<1>6. ASSUME NEW req \in Requests, RetryByKey(req) \/ RetryById(req) PROVE ExactInv'
  <2>1. /\ UNCHANGED <<disk, catalog, lapses>> /\ phase = "idle"
        /\ phase' \in {"idle", "sync"} /\ (phase' = "sync" => call'.kind # "append")
    BY <1>6 DEF RetryByKey, RetryById, AnswerAgain
  <2> QED
    BY <2>1, MemoryExact
<1>7. CASE Commit BY <1>7, MemoryExact DEF Commit
<1>8. CASE SyncLog BY <1>8, SyncLogExact
<1>9. CASE Persist BY <1>9, PersistStepExact
<1>10. CASE PublishAppend BY <1>10, PublishAppendExact
<1>11. CASE CommitFails BY <1>11, CommitFailsExact
<1>12. CASE Register \/ Deregister BY <1>12, MemoryExact DEF Register, Deregister
<1>13. CASE Close \/ Kill BY <1>13, StopExact DEF Close, Kill
<1>14. CASE PowerLoss BY <1>14, PowerLossExact
<1>15. CASE RefuseOpen \/ UNCHANGED vars
  <2>1. UNCHANGED <<log, checkpoint, safe, catalog, phase, call, lapses>>
    BY <1>15 DEF RefuseOpen, vars, disk
  <2> QED
    BY <2>1 DEF ExactInv, CatalogExact, Recorded, CheckpointsExact, Current, Ahead
<1> QED
  BY <1>1, <1>2, <1>3, <1>4, <1>5, <1>6, <1>7, <1>8, <1>9, <1>10, <1>11, <1>12, <1>13, <1>14, <1>15
  DEF Next

----------------------------------------------------------------------------
(* The theorems *)

\* No two batches of the log have an idempotency key in common, so that a retry
\* appends nothing, whatever a power loss took and whichever checkpoint came back
\* (db.rs, append_batch_with_id; stream.rs, record_batch and rebuild).  This
\* theorem and the three after it hold until the commit inside an append fails or
\* a process ends between its checkpoint and the catalog ("append"), or an open
\* fails to cache the catalog it rebuilt ("cache"); CatalogRetryDuplicates.cfg
\* shows a retry that appends again after such a failed commit.
THEOREM KeysAreUnique == Spec => []OnePerKey
<1>1. ExactInv => OnePerKey
  BY DEF ExactInv, OnePerKey, RetryIsNoOp, Distinct
<1> QED
  BY <1>1, PromiseInit, PromiseNext, ExactInit, ExactNext, PTL DEF Spec

\* Nor do they have an event id in common: a rebuild meets each id once and
\* finds no conflict (stream.rs, rebuild), under the same condition.
THEOREM IdsAreUnique == Spec => []IdsOnce
<1>1. ExactInv => IdsOnce
  BY DEF ExactInv, IdsOnce, Distinct
<1> QED
  BY <1>1, PromiseInit, PromiseNext, ExactInit, ExactNext, PTL DEF Spec

\* The revision a batch was given is the number of events of its stream before
\* it, and one its caller expected, also when the catalog that answered came
\* through checkpoints, crashes and rebuilds, under the same condition
\* (stream.rs, validate and record_batch).
THEOREM StreamsAreSerial == Spec => []StreamsSerial
<1>1. ASSUME PromiseInv, ExactInv PROVE StreamsSerial
  <2> SUFFICES ASSUME lapses = {}, NEW i \in DOMAIN log
               PROVE  log[i].rev = EventsBefore(i) /\ log[i].rev \in log[i].req.expected
    BY DEF StreamsSerial
  <2>1. Serial(log) /\ Chained(log)
    BY <1>1 DEF ExactInv, PromiseInv, LogShape
  <2>2. i - 1 \in 0 .. Len(log) /\ log[i].req.stream \in Streams
    BY <2>1, CatalogAssumption DEF Chained
  <2>3. EventsBefore(i) = Cardinality(Counted(log, i - 1, log[i].req.stream))
    BY DEF EventsBefore, Counted
  <2> QED
    BY <2>1, <2>2, <2>3 DEF Serial
<1> QED
  BY <1>1, PromiseInit, PromiseNext, ExactInit, ExactNext, PTL DEF Spec

\* What an idle engine answers from is the fold of the log it has, however it
\* came by its catalog, under the same condition (db.rs, load_core_catalog and
\* commit).
THEOREM CatalogIsExact == Spec => []CatalogMatchesLog
<1>1. ExactInv => CatalogMatchesLog
  <2> SUFFICES ASSUME Mirrors(catalog, log) PROVE [catalog EXCEPT !.synced = {}] = Rebuild(log)
    BY DEF ExactInv, CatalogExact, Recorded, CatalogMatchesLog
  <2>1. Rebuild(log) = [revisions |-> Rebuild(log).revisions, ids |-> Rebuild(log).ids,
                        keys |-> Rebuild(log).keys, synced |-> {}]
    BY DEF Rebuild
  <2>2. \A c, r, i, k : c = [revisions |-> r, ids |-> i, keys |-> k, synced |-> c.synced] =>
            [c EXCEPT !.synced = {}] = [revisions |-> r, ids |-> i, keys |-> k, synced |-> {}]
    OBVIOUS
  <2>3. catalog = [revisions |-> Rebuild(log).revisions, ids |-> Rebuild(log).ids,
                   keys |-> Rebuild(log).keys, synced |-> catalog.synced]
    BY DEF Mirrors
  <2> DEFINE r == Rebuild(log).revisions
             i == Rebuild(log).ids
             k == Rebuild(log).keys
  <2>4. Rebuild(log) = [revisions |-> r, ids |-> i, keys |-> k, synced |-> {}]
        /\ catalog = [revisions |-> r, ids |-> i, keys |-> k, synced |-> catalog.synced]
    BY <2>1, <2>3, Zenon
  <2> HIDE DEF r, i, k
  <2>5. [catalog EXCEPT !.synced = {}] = [revisions |-> r, ids |-> i, keys |-> k, synced |-> {}]
    BY <2>2, <2>4
  <2> QED
    BY <2>4, <2>5
<1> QED
  BY <1>1, PromiseInit, PromiseNext, ExactInit, ExactNext, PTL DEF Spec
=============================================================================
