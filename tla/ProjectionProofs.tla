-------------------------- MODULE ProjectionProofs --------------------------
(***************************************************************************)
(* What a projection answers and what its snapshots hold, for any number   *)
(* of events, streams, keys, partitions and descriptors: as long as no     *)
(* lapse has happened, a ready partition shows the fold of its events,     *)
(* whatever it healed from, a partition fails for its own events alone,    *)
(* and a publication never costs the newest snapshot.                      *)
(***************************************************************************)
EXTENDS Projections, TLAPS, FiniteSetTheorems

(* The log is a parameter below: a heal sees it with the event that the    *)
(* append in progress has written, a power loss leaves a prefix of it.     *)

\* The events of key k that d folds, in the first c of a log.
FoldsIn(l, d, k, c) == {i \in 1 .. c : Selects(l, d, i) /\ l[i].good /\ l[i].key = k}

\* In the first h events of the log only partition p writes key k.
OwnUpTo(l, d, p, k, h) == \A i \in FoldsIn(l, d, k, h) : d.part[l[i].stream] = p

\* The row of a key that only p writes is not older than any event up to c.
Covers(l, d, p, r, c, h) ==
    \A k \in Keys : OwnUpTo(l, d, p, k, h) => \A i \in FoldsIn(l, d, k, c) : i <= Row(r, k)

\* Rows come from events that are folded.
RowsFrom(l, d, r) ==
    \A k \in DOMAIN r : /\ r[k].at \in FoldsIn(l, d, k, Len(l))
                        /\ r[k].stream = l[r[k].at].stream

----------------------------------------------------------------------------
(* The invariant *)

RowMaps == UNION {[D -> [at : Nat, stream : Streams]] : D \in SUBSET Keys}
Files == [cursor : Nat, rows : RowMaps]
Part == [kind : {"Cold", "Ready", "Failed"}, cursor : Nat]

IsProjection(q, d) ==
    q \in [desc : {<<d>>}, runtime : {"json", "native", "missing"},
           status : {"Ready", "Failed", "Building", "Stale"}, cursor : Nat,
           parts : [Partitions(d) -> Part]]

\* No cursor is behind the end of the log.
Bounded(parts, n) == \A p \in DOMAIN parts : parts[p].cursor <= n

\* The files of every descriptor and partition.
Stored(files) ==
    /\ files = [d \in Descriptors |-> files[d]]
    /\ \A d \in Descriptors : files[d] \in [Partitions(d) -> Seq(Files)]

\* Types, and what a step of a snapshot command needs of the projection.
OnDisk(l, safe, reg, files) ==
    /\ l \in Seq(Kinds) /\ Len(l) <= MaxEvents
    /\ safe \in 0 .. Len(l)
    /\ reg \in {<<>>} \cup {<<d>> : d \in Descriptors}
    /\ Stored(files)

InMemory(l, reg, ph, q, r) ==
    /\ q.desc # <<>> => /\ \E d \in Descriptors : IsProjection(q, d)
                        /\ Bounded(q.parts, Len(l))
                        /\ reg = q.desc
                        /\ ph # "down"
    /\ q.desc = <<>> => q = NoProjection /\ r = NoRows
    /\ r \in RowMaps

InCommand(ph, q, files) ==
    /\ ph \in {"down", "idle", "publishing", "retaining"}
    /\ files \in Seq([part : Nat, cursor : Nat, rows : RowMaps])
    /\ files # <<>> <=> ph \in {"publishing", "retaining"}
    /\ files # <<>> => q.desc # <<>>
    /\ \A j \in DOMAIN files : files[j].part \in Partitions(q.desc[1])

Shape ==
    /\ OnDisk(events, synced, registered, snapshots)
    /\ InMemory(events, registered, phase, projection, rows)
    /\ InCommand(phase, projection, pending)

\* A partition that waits is at the start, one that failed has an event it
\* could not read before it, one that is ready has read all and shows them.
PartSound(l, d, runtime, r, p, part) ==
    /\ part.cursor <= Len(l)
    /\ part.kind = "Cold" => part.cursor = 0
    /\ part.kind = "Failed" => Refused(l, runtime, Selected(l, d, p, part.cursor, Len(l))) # {}
    /\ part.kind = "Ready" => /\ Refused(l, runtime, Selected(l, d, p, 0, part.cursor)) = {}
                              /\ Covers(l, d, p, r, part.cursor, Len(l))

\* Partitions and rows, as a heal has them in hand.
PartsSound(l, d, runtime, q) ==
    /\ RowsFrom(l, d, q.rows)
    /\ \A p \in Partitions(d) : PartSound(l, d, runtime, q.rows, p, q.parts[p])

\* A reset makes the whole ready while its partitions wait.  Of a single
\* partition the cursor of the whole is what a snapshot gets.
StatusSound(l, d, q, r) ==
    q.status = "Ready" =>
        /\ \A p \in Partitions(d) : q.parts[p].kind # "Failed"
        /\ d.count = 1 => /\ q.cursor <= Len(l)
                          /\ Refused(l, q.runtime, Selected(l, d, 0, 0, q.cursor)) = {}
                          /\ Covers(l, d, 0, r, q.cursor, Len(l))

\* A file has all of what its partition wrote up to its cursor, in the log of
\* that time, and nothing of another partition.
FileSound(l, d, p, s) ==
    /\ s.cursor <= Len(l)
    /\ RowsFrom(l, d, s.rows)
    /\ d.count # 1 => \A k \in DOMAIN s.rows : d.part[s.rows[k].stream] = p
    /\ \A i \in Selected(l, d, p, 0, s.cursor) : l[i].good
    /\ Covers(l, d, p, s.rows, s.cursor, s.cursor)

InHand(q, r) == [parts |-> q.parts, rows |-> r]

ProjectionSound(l, q, r) ==
    q.desc # <<>> => /\ PartsSound(l, q.desc[1], q.runtime, InHand(q, r))
                     /\ StatusSound(l, q.desc[1], q, r)

FilesSound(l, files) ==
    \A d \in Descriptors : \A p \in Partitions(d) : \A s \in Range(files[d][p]) :
        FileSound(l, d, p, s)

PendingSound(l, q, files) ==
    \A j \in DOMAIN files : FileSound(l, q.desc[1], files[j].part, files[j])

Sound ==
    /\ ProjectionSound(events, projection, rows)
    /\ FilesSound(events, snapshots)
    /\ PendingSound(events, projection, pending)

PInv == Shape /\ (lapses = {} => Sound)

----------------------------------------------------------------------------
(* Induction, greatest and least elements *)

\* What holds of 0 and passes from each number below n to the next holds up
\* to n.
LEMMA Climb ==
  ASSUME NEW n \in Nat, NEW S, 0 \in S, \A k \in 0 .. n : k < n /\ k \in S => k + 1 \in S
  PROVE  \A k \in 0 .. n : k \in S
<1> DEFINE missing == (0 .. n) \ S
<1> SUFFICES ASSUME missing # {} PROVE FALSE
  OBVIOUS
<1>1. PICK k \in missing : \A j \in missing : ~(<<j, k>> \in OpToRel(<, Nat))
  <2>1. missing \in SUBSET Nat
    OBVIOUS
  <2> QED
    BY <2>1, NatLessThanWellFounded, WFMin
<1>2. k \in 1 .. n /\ k \in Nat
  <2>1. k \in 0 .. n /\ k # 0
    BY <1>1
  <2> QED
    BY <2>1
<1>3. k - 1 \in 0 .. n /\ k - 1 < n /\ (k - 1) + 1 = k /\ k - 1 < k /\ k - 1 \in Nat
  BY <1>2
<1>4. k - 1 \in S
  <2>1. ~(<<k - 1, k>> \in OpToRel(<, Nat)) => FALSE
    BY <1>2, <1>3 DEF OpToRel
  <2> QED
    BY <1>1, <1>3, <2>1
<1> QED
  BY <1>1, <1>3, <1>4

\* A set of numbers has a least one, and Min is it.
LEMMA MinOf ==
  ASSUME NEW S \in SUBSET Nat, S # {}
  PROVE  Min(S) \in S /\ \A x \in S : Min(S) <= x
<1>1. PICK x \in S : \A y \in S : ~(<<y, x>> \in OpToRel(<, Nat))
  BY NatLessThanWellFounded, WFMin
<1>2. ASSUME NEW y \in S PROVE x <= y
  <2>1. ~(<<y, x>> \in OpToRel(<, Nat))
    BY <1>1
  <2>2. ~(y < x)
    BY <2>1, SMT DEF OpToRel
  <2> QED
    BY <2>2
<1> QED
  BY <1>2, Zenon DEF Min

\* A set of integers with a bound has a greatest one, and Max is it.
AtMost(S, n) == \A x \in S : x <= n

LEMMA MaxOf ==
  ASSUME NEW S \in SUBSET Int, NEW n \in Int, S # {}, AtMost(S, n)
  PROVE  Max(S) \in S /\ AtMost(S, Max(S))
<1> DEFINE T == {k \in Nat : n - k \in S}
<1>1. T \in SUBSET Nat /\ T # {}
  <2>1. PICK x \in S : x <= n
    BY DEF AtMost
  <2>2. n - x \in Nat /\ n - (n - x) = x
    BY <2>1
  <2> QED
    BY <2>1, <2>2
<1>2. PICK k \in T : \A j \in T : k <= j
  BY <1>1, MinOf
<1>3. n - k \in S /\ k \in Nat
  BY <1>2
<1>4. ASSUME NEW x \in S PROVE n - k >= x
  <2>1. n - x \in Nat /\ n - (n - x) = x
    BY <1>4 DEF AtMost
  <2>2. n - x \in T
    BY <2>1
  <2>3. k <= n - x
    BY <1>2, <2>2
  <2> QED
    BY <1>3, <2>1, <2>3
<1>5. Max(S) \in S /\ \A y \in S : Max(S) >= y
  BY <1>3, <1>4, Zenon DEF Max
<1> QED
  BY <1>5 DEF AtMost

LEMMA KindIs ==
  ASSUME NEW l \in Seq(Kinds), NEW i \in 1 .. Len(l)
  PROVE  l[i] \in Kinds /\ l[i].stream \in Streams /\ l[i].key \in Keys /\ l[i].good \in BOOLEAN
BY ProjectionsAssumption

LEMMA DescIs ==
  ASSUME NEW d \in Descriptors
  PROVE  /\ d.count \in Nat \ {0}
         /\ Partitions(d) = 0 .. d.count - 1 /\ Partitions(d) # {}
         /\ \A s \in Streams : d.part[s] \in Partitions(d)
         /\ d.count = 1 => Partitions(d) = {0}
BY ProjectionsAssumption DEF Partitions

----------------------------------------------------------------------------
(* Rows *)

\* apply: the last of its events makes the row of a key.
LEMMA AppliedIs ==
  ASSUME NEW l \in Seq(Kinds), NEW r \in RowMaps, NEW I \in SUBSET (1 .. Len(l))
  PROVE  /\ Applied(l, r, I) \in RowMaps
         /\ \A k \in DOMAIN Applied(l, r, I) :
               \/ k \in DOMAIN r /\ Applied(l, r, I)[k] = r[k]
               \/ /\ Applied(l, r, I)[k].at \in I
                  /\ l[Applied(l, r, I)[k].at].key = k
                  /\ Applied(l, r, I)[k].stream = l[Applied(l, r, I)[k].at].stream
         /\ \A k : (\A i \in I : l[i].key # k) => Row(Applied(l, r, I), k) = Row(r, k)
         /\ \A i \in I : /\ Row(Applied(l, r, I), l[i].key) \in I
                         /\ i <= Row(Applied(l, r, I), l[i].key)
<1> DEFINE mine(k) == {i \in I : l[i].key = k}
           D == DOMAIN r \cup {l[i].key : i \in I}
           new(k) == [at |-> Max(mine(k)), stream |-> l[Max(mine(k))].stream]
           f == [k \in D |-> IF mine(k) = {} THEN r[k] ELSE new(k)]
<1>1. Applied(l, r, I) = f
  BY Zenon DEF Applied
<1>2. PICK E \in SUBSET Keys : r \in [E -> [at : Nat, stream : Streams]]
  BY DEF RowMaps
<1>3. D \in SUBSET Keys
  BY <1>2, KindIs
<1>4. Len(l) \in Int /\ \A i \in I : i \in Int /\ i <= Len(l)
  OBVIOUS
<1>5. ASSUME NEW k, mine(k) # {}
      PROVE  Max(mine(k)) \in mine(k) /\ AtMost(mine(k), Max(mine(k)))
  <2>1. mine(k) \in SUBSET Int
    BY <1>4
  <2>2. AtMost(mine(k), Len(l))
    BY <1>4 DEF AtMost
  <2> HIDE DEF mine
  <2> QED
    BY <1>4, <1>5, <2>1, <2>2, MaxOf
<1>6. ASSUME NEW k, mine(k) # {}
      PROVE  /\ new(k).at \in I /\ l[new(k).at].key = k /\ new(k).stream = l[new(k).at].stream
             /\ new(k) \in [at : Nat, stream : Streams]
             /\ new(k).at = Max(mine(k))
  <2>1. Max(mine(k)) \in I /\ l[Max(mine(k))].key = k
    BY <1>5, <1>6
  <2>2. Max(mine(k)) \in 1 .. Len(l)
    BY <2>1
  <2>3. l[Max(mine(k))].stream \in Streams
    BY <2>2, KindIs
  <2> HIDE DEF mine
  <2> QED
    BY <2>1, <2>2, <2>3
<1>7. \A k \in D : f[k] = IF mine(k) = {} THEN r[k] ELSE new(k)
  BY Zenon
<1>8. ASSUME NEW k \in D, mine(k) = {} PROVE k \in DOMAIN r /\ f[k] = r[k]
  BY <1>7, <1>8
<1>9. ASSUME NEW k \in D, mine(k) # {} PROVE f[k] = new(k)
  BY <1>7, <1>9
<1>10. DOMAIN f = D
  OBVIOUS
<1> HIDE DEF f
<1>11. f \in RowMaps
  <2>1. ASSUME NEW k \in D PROVE f[k] \in [at : Nat, stream : Streams]
    <3> HIDE DEF mine, new
    <3>1. CASE mine(k) = {}
      BY <1>2, <1>8, <3>1
    <3>2. CASE mine(k) # {}
      BY <1>6, <1>9, <3>2
    <3> QED
      BY <3>1, <3>2
  <2>2. f = [k \in D |-> f[k]]
    BY DEF f
  <2> HIDE DEF D
  <2>3. f \in [D -> [at : Nat, stream : Streams]]
    BY <2>1, <2>2
  <2> QED
    BY <1>3, <2>3 DEF RowMaps
<1>12. ASSUME NEW k \in DOMAIN f
       PROVE  \/ k \in DOMAIN r /\ f[k] = r[k]
              \/ f[k].at \in I /\ l[f[k].at].key = k /\ f[k].stream = l[f[k].at].stream
  <2> HIDE DEF mine, new, D
  <2> QED
    BY <1>6, <1>8, <1>9, <1>10, <1>12
<1>13. ASSUME NEW k, \A i \in I : l[i].key # k PROVE Row(f, k) = Row(r, k)
  <2>1. mine(k) = {} /\ (k \in D <=> k \in DOMAIN r)
    BY <1>13
  <2> HIDE DEF mine, D
  <2> QED
    BY <1>8, <1>10, <2>1 DEF Row
<1>14. ASSUME NEW i \in I PROVE Row(f, l[i].key) \in I /\ i <= Row(f, l[i].key)
  <2>1. i \in mine(l[i].key) /\ l[i].key \in D
    OBVIOUS
  <2>2. Row(f, l[i].key) = new(l[i].key).at
    <3> HIDE DEF mine, D, new
    <3> QED
      BY <1>9, <1>10, <2>1 DEF Row
  <2>3. new(l[i].key).at \in I /\ new(l[i].key).at = Max(mine(l[i].key))
    <3> HIDE DEF mine, D, new
    <3> QED
      BY <1>6, <2>1
  <2>4. i <= Max(mine(l[i].key))
    <3> HIDE DEF mine, D, new
    <3> QED
      BY <1>5, <2>1 DEF AtMost
  <2> HIDE DEF mine, D, new
  <2> QED
    BY <2>2, <2>3, <2>4
<1> HIDE DEF mine, D, new
<1> QED
  BY <1>1, <1>11, <1>12, <1>13, <1>14

\* Types of the two in hand during a heal, and of the log it reads.
InHands(d) == [parts : [Partitions(d) -> Part], rows : RowMaps]

\* A log whose events are those of another as far as that goes.
Agree(l, m, n) == n <= Len(l) /\ n <= Len(m) /\ \A i \in 1 .. n : l[i] = m[i]

LEMMA FoldsAgree ==
  ASSUME NEW l \in Seq(Kinds), NEW m \in Seq(Kinds), NEW n \in Nat, Agree(l, m, n),
         NEW d, NEW k, NEW c \in Nat, c <= n
  PROVE  FoldsIn(l, d, k, c) = FoldsIn(m, d, k, c)
<1>1. \A i \in 1 .. c : l[i] = m[i] /\ i \in 1 .. n
  BY DEF Agree
<1> QED
  BY <1>1 DEF FoldsIn, Selects

LEMMA OwnAgree ==
  ASSUME NEW l \in Seq(Kinds), NEW m \in Seq(Kinds), NEW n \in Nat, Agree(l, m, n),
         NEW d, NEW p, NEW k, NEW c \in Nat, c <= n
  PROVE  OwnUpTo(l, d, p, k, c) <=> OwnUpTo(m, d, p, k, c)
<1>1. \A i \in FoldsIn(l, d, k, c) : l[i] = m[i]
  BY DEF FoldsIn, Agree
<1>2. FoldsIn(l, d, k, c) = FoldsIn(m, d, k, c)
  BY FoldsAgree
<1> QED
  BY <1>1, <1>2 DEF OwnUpTo

\* The empty map of rows.
LEMMA NoRowsIs == NoRows \in RowMaps /\ DOMAIN NoRows = {} /\ \A k : Row(NoRows, k) = 0
<1>1. NoRows \in [{} -> [at : Nat, stream : Streams]] /\ DOMAIN NoRows = {}
  BY DEF NoRows
<1>2. {} \in SUBSET Keys
  OBVIOUS
<1> QED
  BY <1>1, <1>2 DEF RowMaps, Row

LEMMA RowIs ==
  ASSUME NEW r \in RowMaps, NEW k
  PROVE  /\ Row(r, k) \in Nat
         /\ k \in DOMAIN r => k \in Keys /\ r[k] \in [at : Nat, stream : Streams] /\ Row(r, k) = r[k].at
BY DEF RowMaps, Row

\* An event of a key that only one partition writes is of that partition.
LEMMA OwnRow ==
  ASSUME NEW l \in Seq(Kinds), NEW d, NEW p, NEW k, OwnUpTo(l, d, p, k, Len(l)),
         NEW r, RowsFrom(l, d, r), k \in DOMAIN r
  PROVE  d.part[r[k].stream] = p
BY DEF OwnUpTo, RowsFrom

----------------------------------------------------------------------------
(* One step of a heal: the partition reads on from its cursor *)

Reads(l, d, runtime, q, p, target) ==
    LET batch == Selected(l, d, p, q.parts[p].cursor, target) IN
    [parts |-> [q.parts EXCEPT ![p] = IF Refused(l, runtime, batch) = {} THEN At("Ready", target)
                                      ELSE AfterFailure(q.parts[p].cursor, target)],
     rows |-> Applied(l, q.rows, Read(l, runtime, batch))]

LEMMA HealOneIs ==
  ASSUME NEW l, NEW q, NEW p, NEW target, NEW root
  PROVE  HealOne(l, q, p, target, root) =
            IF q.parts[p].kind = "Failed" THEN q
            ELSE Reads(l, desc, projection.runtime,
                       IF root /\ q.parts[p].kind = "Cold" THEN RestorePartition(q, p) ELSE q, p, target)
BY Zenon DEF HealOne, Reads

\* What a partition reads is of its own events, all of them good.
LEMMA ReadIs ==
  ASSUME NEW l \in Seq(Kinds), NEW d, NEW runtime, NEW p, NEW start \in Nat, NEW target \in 0 .. Len(l)
  PROVE  LET batch == Selected(l, d, p, start, target)
             read == Read(l, runtime, batch)
         IN /\ read \in SUBSET (1 .. Len(l))
            /\ Refused(l, runtime, batch) = {} => read = batch
            /\ \A i \in read : /\ i > start /\ i <= target /\ d.part[l[i].stream] = p
                               /\ \A k : l[i].key = k => i \in FoldsIn(l, d, k, Len(l))
<1> DEFINE batch == Selected(l, d, p, start, target)
           read == Read(l, runtime, batch)
<1>1. batch \in SUBSET (1 .. Len(l))
  BY DEF Selected
<1>2. read \subseteq batch
  BY DEF Read
<1>3. Refused(l, runtime, batch) = {} => read = batch
  BY DEF Read
<1>4. ASSUME NEW i \in read PROVE l[i].good
  <2>1. i \in Nat
    BY <1>1, <1>2
  <2>2. i \notin Refused(l, runtime, batch)
    BY <2>1 DEF Read
  <2> QED
    BY <1>2, <2>2 DEF Refused
<1>5. ASSUME NEW i \in read
      PROVE  /\ i > start /\ i <= target /\ d.part[l[i].stream] = p
             /\ \A k : l[i].key = k => i \in FoldsIn(l, d, k, Len(l))
  <2>1. i \in 1 .. Len(l) /\ i > start /\ i <= target /\ d.part[l[i].stream] = p /\ Selects(l, d, i)
    BY <1>1, <1>2 DEF Selected
  <2> QED
    BY <1>4, <2>1 DEF FoldsIn
<1> QED
  BY <1>1, <1>2, <1>3, <1>5

LEMMA ReadsIs ==
  ASSUME NEW d \in Descriptors, NEW l \in Seq(Kinds), NEW runtime, NEW q \in InHands(d),
         NEW p \in Partitions(d), NEW target \in 0 .. Len(l)
  PROVE  /\ Reads(l, d, runtime, q, p, target) \in InHands(d)
         /\ Reads(l, d, runtime, q, p, target).rows
              = Applied(l, q.rows, Read(l, runtime, Selected(l, d, p, q.parts[p].cursor, target)))
         /\ \A o \in Partitions(d) : o # p => Reads(l, d, runtime, q, p, target).parts[o] = q.parts[o]
         /\ Reads(l, d, runtime, q, p, target).parts[p]
              = IF Refused(l, runtime, Selected(l, d, p, q.parts[p].cursor, target)) = {}
                THEN At("Ready", target) ELSE At("Failed", q.parts[p].cursor)
<1> DEFINE after == Reads(l, d, runtime, q, p, target)
           batch == Selected(l, d, p, q.parts[p].cursor, target)
           part == IF Refused(l, runtime, batch) = {} THEN At("Ready", target)
                   ELSE At("Failed", q.parts[p].cursor)
<1>1. q.parts \in [Partitions(d) -> Part] /\ q.parts[p] \in Part /\ q.parts[p].cursor \in Nat
  BY DEF InHands, Part
<1>2. after = [parts |-> [q.parts EXCEPT ![p] = part], rows |-> Applied(l, q.rows, Read(l, runtime, batch))]
  BY Zenon DEF Reads, AfterFailure
<1>3. Read(l, runtime, batch) \in SUBSET (1 .. Len(l)) /\ q.rows \in RowMaps
  BY <1>1, ReadIs DEF InHands
<1>4. Applied(l, q.rows, Read(l, runtime, batch)) \in RowMaps
  BY <1>3, AppliedIs
<1>5. part \in Part
  BY <1>1 DEF Part, At
<1> HIDE DEF part, batch, after
<1>6. [q.parts EXCEPT ![p] = part] \in [Partitions(d) -> Part]
  BY <1>1, <1>5
<1>7. after \in InHands(d)
  BY <1>2, <1>4, <1>6 DEF InHands
<1>8. after.parts[p] = part /\ \A o \in Partitions(d) : o # p => after.parts[o] = q.parts[o]
  BY <1>1, <1>2
<1>9. after.rows = Applied(l, q.rows, Read(l, runtime, batch))
  BY <1>2
<1> QED
  BY <1>7, <1>8, <1>9 DEF part, batch, after

\* The rows of the others stay covered, those of p are covered up to the
\* target: what p has not read before it reads now.
LEMMA ReadsSound ==
  ASSUME NEW d \in Descriptors, NEW l \in Seq(Kinds), NEW runtime, NEW q \in InHands(d),
         NEW p \in Partitions(d), NEW target \in 0 .. Len(l),
         PartsSound(l, d, runtime, q), q.parts[p].kind # "Failed"
  PROVE  PartsSound(l, d, runtime, Reads(l, d, runtime, q, p, target))
<1> DEFINE after == Reads(l, d, runtime, q, p, target)
           start == q.parts[p].cursor
           batch == Selected(l, d, p, start, target)
           read == Read(l, runtime, batch)
<1>1. /\ after \in InHands(d)
      /\ after.rows = Applied(l, q.rows, read)
      /\ \A o \in Partitions(d) : o # p => after.parts[o] = q.parts[o]
      /\ after.parts[p] = IF Refused(l, runtime, batch) = {} THEN At("Ready", target)
                          ELSE At("Failed", start)
  <2>1. Reads(l, d, runtime, q, p, target) \in InHands(d)
    BY ReadsIs
  <2>2. Reads(l, d, runtime, q, p, target).rows
          = Applied(l, q.rows, Read(l, runtime, Selected(l, d, p, q.parts[p].cursor, target)))
    BY DEF Reads
  <2>3. \A o \in Partitions(d) : o # p => Reads(l, d, runtime, q, p, target).parts[o] = q.parts[o]
    BY ReadsIs
  <2>4. Reads(l, d, runtime, q, p, target).parts[p]
          = IF Refused(l, runtime, Selected(l, d, p, q.parts[p].cursor, target)) = {}
            THEN At("Ready", target) ELSE At("Failed", q.parts[p].cursor)
    BY ReadsIs
  <2> QED
    BY <2>1, <2>2, <2>3, <2>4
<1>2. start \in Nat /\ q.rows \in RowMaps /\ Len(l) \in Nat /\ target \in Nat /\ target <= Len(l)
  BY DEF InHands, Part
<1>3. /\ read \in SUBSET (1 .. Len(l))
      /\ Refused(l, runtime, batch) = {} => read = batch
      /\ \A i \in read : /\ i > start /\ i <= target /\ d.part[l[i].stream] = p
                         /\ \A k : l[i].key = k => i \in FoldsIn(l, d, k, Len(l))
  BY <1>2, ReadIs
<1>4. /\ \A k \in DOMAIN after.rows :
            \/ k \in DOMAIN q.rows /\ after.rows[k] = q.rows[k]
            \/ /\ after.rows[k].at \in read
               /\ l[after.rows[k].at].key = k
               /\ after.rows[k].stream = l[after.rows[k].at].stream
      /\ \A k : (\A i \in read : l[i].key # k) => Row(after.rows, k) = Row(q.rows, k)
      /\ \A i \in read : Row(after.rows, l[i].key) \in read /\ i <= Row(after.rows, l[i].key)
  BY <1>1, <1>2, <1>3, AppliedIs
<1>5. RowsFrom(l, d, q.rows) /\ PartSound(l, d, runtime, q.rows, p, q.parts[p])
  BY DEF PartsSound
<1> HIDE DEF after, start, batch, read
<1>6. RowsFrom(l, d, after.rows)
  BY <1>3, <1>4, <1>5 DEF RowsFrom
<1>7. ASSUME NEW o \in Partitions(d), o # p, NEW c, Covers(l, d, o, q.rows, c, Len(l))
      PROVE  Covers(l, d, o, after.rows, c, Len(l))
  <2>1. ASSUME NEW k \in Keys, OwnUpTo(l, d, o, k, Len(l)) PROVE Row(after.rows, k) = Row(q.rows, k)
    <3>1. \A i \in read : l[i].key # k
      BY <1>3, <1>7, <2>1 DEF OwnUpTo
    <3> QED
      BY <1>4, <3>1
  <2> QED
    BY <1>7, <2>1 DEF Covers
<1>8. ASSUME NEW o \in Partitions(d), o # p
      PROVE  PartSound(l, d, runtime, after.rows, o, after.parts[o])
  <2>1. after.parts[o] = q.parts[o] /\ PartSound(l, d, runtime, q.rows, o, q.parts[o])
    BY <1>1, <1>8 DEF PartsSound
  <2> QED
    BY <1>7, <1>8, <2>1 DEF PartSound
<1>9. CASE Refused(l, runtime, batch) # {}
  <2>1. after.parts[p].kind = "Failed" /\ after.parts[p].cursor = start
    BY <1>1, <1>9 DEF At
  <2>2. start <= Len(l)
    BY <1>5 DEF PartSound, start
  <2>3. batch \subseteq Selected(l, d, p, start, Len(l))
    BY <1>2 DEF batch, Selected
  <2>4. Refused(l, runtime, Selected(l, d, p, start, Len(l))) # {}
    BY <1>9, <2>3 DEF Refused
  <2>5. PartSound(l, d, runtime, after.rows, p, after.parts[p])
    BY <2>1, <2>2, <2>4 DEF PartSound
  <2> QED
    BY <1>6, <1>8, <2>5 DEF PartsSound, after
<1>10. CASE Refused(l, runtime, batch) = {}
  <2>1. after.parts[p].kind = "Ready" /\ after.parts[p].cursor = target
    BY <1>1, <1>10 DEF At
  <2>2. read = batch
    BY <1>3, <1>10
  <2>3. Refused(l, runtime, Selected(l, d, p, 0, start)) = {} /\ Covers(l, d, p, q.rows, start, Len(l))
    <3>1. CASE q.parts[p].kind = "Ready"
      BY <1>5, <3>1 DEF PartSound, start
    <3>2. CASE q.parts[p].kind = "Cold"
      <4>1. start = 0
        BY <1>5, <3>2 DEF PartSound, start
      <4>2. Selected(l, d, p, 0, 0) = {} /\ \A k : FoldsIn(l, d, k, 0) = {}
        BY DEF Selected, FoldsIn
      <4> QED
        BY <4>1, <4>2 DEF Refused, Covers
    <3> QED
      BY <3>1, <3>2 DEF InHands, Part
  <2>4. Refused(l, runtime, Selected(l, d, p, 0, target)) = {}
    <3>1. \A i \in Selected(l, d, p, 0, target) : i \in Selected(l, d, p, 0, start) \/ i \in batch
      BY <1>2 DEF Selected, batch
    <3> QED
      BY <1>10, <2>3, <3>1 DEF Refused
  <2>5. Covers(l, d, p, after.rows, target, Len(l))
    <3>1. SUFFICES ASSUME NEW k \in Keys, OwnUpTo(l, d, p, k, Len(l)), NEW i \in FoldsIn(l, d, k, target)
                   PROVE  i <= Row(after.rows, k)
      BY DEF Covers
    <3>2. i \in 1 .. target /\ l[i].key = k /\ Selects(l, d, i) /\ l[i].good /\ i \in Nat /\ i <= Len(l)
      BY <1>2 DEF FoldsIn
    <3>3. d.part[l[i].stream] = p
      BY <1>2, <3>1, <3>2 DEF OwnUpTo, FoldsIn
    <3>4. CASE i > start
      <4>1. i \in batch
        BY <1>2, <3>2, <3>3, <3>4 DEF batch, Selected
      <4> QED
        BY <1>4, <2>2, <3>2, <4>1
    <3>5. CASE i <= start
      <4>1. i \in FoldsIn(l, d, k, start)
        BY <1>2, <3>2, <3>5 DEF FoldsIn
      <4>2. i <= Row(q.rows, k)
        BY <2>3, <3>1, <4>1 DEF Covers
      <4>3. CASE \A j \in read : l[j].key # k
        BY <1>4, <4>2, <4>3
      <4>4. CASE \E j \in read : l[j].key = k
        <5>1. Row(after.rows, k) \in read
          BY <1>4, <4>4
        <5>2. Row(after.rows, k) > start
          BY <1>3, <5>1
        <5>3. Row(after.rows, k) \in 1 .. Len(l)
          BY <1>3, <5>1
        <5> QED
          BY <1>2, <3>2, <3>5, <5>2, <5>3
      <4> QED
        BY <4>3, <4>4
    <3> QED
      BY <1>2, <3>2, <3>4, <3>5
  <2>6. PartSound(l, d, runtime, after.rows, p, after.parts[p])
    BY <1>2, <2>1, <2>4, <2>5 DEF PartSound
  <2> QED
    BY <1>6, <1>8, <2>6 DEF PartsSound, after
<1> QED
  BY <1>9, <1>10

----------------------------------------------------------------------------
(* Healing from a file *)

LEMMA DescShape ==
  ASSUME Shape, Exists
  PROVE  desc \in Descriptors /\ IsProjection(projection, desc) /\ InHand(projection, rows) \in InHands(desc)
<1>1. PICK d \in Descriptors : IsProjection(projection, d)
  BY DEF Shape, InMemory, Exists
<1>2. desc = d
  BY <1>1 DEF IsProjection, desc
<1>3. projection.parts \in [Partitions(d) -> Part] /\ rows \in RowMaps
  BY <1>1 DEF IsProjection, Shape, InMemory
<1> QED
  BY <1>1, <1>2, <1>3 DEF InHand, InHands

LEMMA CandidateIs ==
  ASSUME Shape, NEW d \in Descriptors, NEW p \in Partitions(d), NEW s \in Candidates(d, p)
  PROVE  s \in Files /\ s \in Range(snapshots[d][p]) /\ s.cursor <= Len(events)
<1>1. snapshots[d][p] \in Seq(Files)
  BY DEF Shape, OnDisk, Stored
<1>2. PICK i \in DOMAIN snapshots[d][p] : s = snapshots[d][p][i] /\ Fits(s)
  BY DEF Candidates
<1> QED
  BY <1>1, <1>2 DEF Range, Fits, Head0

Restored(d, q, p, s) ==
    [parts |-> [q.parts EXCEPT ![p] = At("Ready", s.cursor)], rows |-> RestoredRows(d, q.rows, s)]

LEMMA RestoreIs ==
  ASSUME NEW q, NEW p
  PROVE  \/ RestorePartition(q, p) = q
         \/ /\ projection.runtime = "json"
            /\ \E s \in Candidates(desc, p) : RestorePartition(q, p) = Restored(desc, q, p, s)
<1> DEFINE found == IF projection.runtime = "json" THEN Candidates(desc, p) ELSE {}
           file == CHOOSE s \in found : TRUE
<1>1. RestorePartition(q, p) = IF found = {} THEN q ELSE Restored(desc, q, p, file)
  BY Zenon DEF RestorePartition, Restored
<1>2. CASE found = {}
  <2> HIDE DEF found, file
  <2> QED
    BY <1>1, <1>2
<1>3. CASE found # {}
  <2>1. file \in found
    BY <1>3, Zenon
  <2>2. projection.runtime = "json" /\ found = Candidates(desc, p)
    BY <1>3
  <2>3. RestorePartition(q, p) = Restored(desc, q, p, file)
    <3> HIDE DEF found, file
    <3> QED
      BY <1>1, <1>3
  <2> HIDE DEF found, file
  <2> QED
    BY <2>1, <2>2, <2>3
<1> QED
  BY <1>2, <1>3

LEMMA RestoredRowsIs ==
  ASSUME NEW d \in Descriptors, NEW r \in RowMaps, NEW s \in Files
  PROVE  /\ RestoredRows(d, r, s) \in RowMaps
         /\ d.count = 1 => RestoredRows(d, r, s) = s.rows
         /\ \A k : k \in DOMAIN RestoredRows(d, r, s) =>
               \/ k \in DOMAIN s.rows /\ RestoredRows(d, r, s)[k] = s.rows[k]
               \/ k \in DOMAIN r /\ RestoredRows(d, r, s)[k] = r[k]
         /\ \A k : k \in DOMAIN s.rows => Row(RestoredRows(d, r, s), k) = Row(s.rows, k)
         /\ d.count # 1 => \A k : k \notin DOMAIN s.rows => Row(RestoredRows(d, r, s), k) = Row(r, k)
<1> DEFINE both == RestoredRows(d, r, s)
           D == DOMAIN s.rows \cup IF d.count = 1 THEN {} ELSE DOMAIN r
<1>1. s.rows \in RowMaps
  BY DEF Files
<1>2. both = [k \in D |-> IF k \in DOMAIN s.rows THEN s.rows[k] ELSE r[k]]
  BY Zenon DEF RestoredRows
<1>3. PICK B \in SUBSET Keys : r \in [B -> [at : Nat, stream : Streams]]
  BY DEF RowMaps
<1>4. PICK E \in SUBSET Keys : s.rows \in [E -> [at : Nat, stream : Streams]]
  BY <1>1 DEF RowMaps
<1>5. D \in SUBSET Keys /\ both \in [D -> [at : Nat, stream : Streams]]
  BY <1>2, <1>3, <1>4
<1>6. both \in RowMaps
  BY <1>5 DEF RowMaps
<1>7. DOMAIN both = D /\ \A k \in D : both[k] = IF k \in DOMAIN s.rows THEN s.rows[k] ELSE r[k]
  BY <1>2
<1>8. ASSUME d.count = 1 PROVE both = s.rows
  <2>1. D = E /\ \A k \in E : both[k] = s.rows[k]
    BY <1>4, <1>7, <1>8
  <2>2. both \in [E -> [at : Nat, stream : Streams]]
    BY <1>5, <2>1
  <2> HIDE DEF both, D
  <2> QED
    BY <1>4, <2>1, <2>2
<1>9. \A k : k \in DOMAIN s.rows => k \in DOMAIN both /\ both[k] = s.rows[k]
  BY <1>7
<1>10. \A k : k \in DOMAIN both /\ k \notin DOMAIN s.rows => k \in DOMAIN r /\ both[k] = r[k]
  BY <1>7
<1>11. d.count # 1 => \A k : k \in DOMAIN r /\ k \notin DOMAIN s.rows => k \in DOMAIN both
  BY <1>7
<1> HIDE DEF both, D
<1>12. \A k : k \in DOMAIN both => (k \in DOMAIN s.rows /\ both[k] = s.rows[k]) \/ (k \in DOMAIN r /\ both[k] = r[k])
  BY <1>9, <1>10
<1>13. \A k : k \in DOMAIN s.rows => Row(both, k) = Row(s.rows, k)
  BY <1>9 DEF Row
<1>14. d.count # 1 => \A k : k \notin DOMAIN s.rows => Row(both, k) = Row(r, k)
  BY <1>10, <1>11 DEF Row
<1> QED
  BY <1>6, <1>8, <1>12, <1>13, <1>14 DEF both

LEMMA RestoredIs ==
  ASSUME NEW d \in Descriptors, NEW q \in InHands(d), NEW p \in Partitions(d), NEW s \in Files
  PROVE  /\ Restored(d, q, p, s) \in InHands(d)
         /\ Restored(d, q, p, s).parts[p] = At("Ready", s.cursor)
         /\ \A o \in Partitions(d) : o # p => Restored(d, q, p, s).parts[o] = q.parts[o]
         /\ Restored(d, q, p, s).rows = RestoredRows(d, q.rows, s)
<1>1. At("Ready", s.cursor) \in Part
  BY DEF Files, At, Part
<1>2. q.parts \in [Partitions(d) -> Part] /\ q.rows \in RowMaps
  BY DEF InHands
<1>3. RestoredRows(d, q.rows, s) \in RowMaps
  BY <1>2, RestoredRowsIs
<1> QED
  BY <1>1, <1>2, <1>3 DEF Restored, InHands

\* A sound file makes a partition ready at its cursor and takes nothing from
\* the rows of the others.
LEMMA RestoredSound ==
  ASSUME NEW d \in Descriptors, NEW l \in Seq(Kinds), NEW q \in InHands(d), NEW p \in Partitions(d),
         NEW s \in Files, FileSound(l, d, p, s), PartsSound(l, d, "json", q)
  PROVE  PartsSound(l, d, "json", Restored(d, q, p, s))
<1> DEFINE new == Restored(d, q, p, s)
<1>1. /\ new.parts[p] = At("Ready", s.cursor)
      /\ \A o \in Partitions(d) : o # p => new.parts[o] = q.parts[o]
      /\ new.rows = RestoredRows(d, q.rows, s)
  BY RestoredIs
<1>2. q.rows \in RowMaps /\ s.rows \in RowMaps /\ s.cursor \in Nat
  BY DEF InHands, Files
<1>3. /\ new.rows \in RowMaps
      /\ d.count = 1 => new.rows = s.rows
      /\ \A k : k \in DOMAIN new.rows =>
               \/ k \in DOMAIN s.rows /\ new.rows[k] = s.rows[k]
               \/ k \in DOMAIN q.rows /\ new.rows[k] = q.rows[k]
      /\ \A k : k \in DOMAIN s.rows => Row(new.rows, k) = Row(s.rows, k)
      /\ d.count # 1 => \A k : k \notin DOMAIN s.rows => Row(new.rows, k) = Row(q.rows, k)
  BY <1>1, <1>2, RestoredRowsIs
<1>4. RowsFrom(l, d, q.rows) /\ RowsFrom(l, d, s.rows)
  BY DEF PartsSound, FileSound
<1>5. /\ s.cursor <= Len(l)
      /\ d.count # 1 => \A k \in DOMAIN s.rows : d.part[s.rows[k].stream] = p
      /\ \A i \in Selected(l, d, p, 0, s.cursor) : l[i].good
      /\ Covers(l, d, p, s.rows, s.cursor, s.cursor)
  BY DEF FileSound
<1> HIDE DEF new
<1>6. RowsFrom(l, d, new.rows)
  BY <1>3, <1>4 DEF RowsFrom
<1>7. ASSUME NEW k \in Keys, OwnUpTo(l, d, p, k, Len(l)), NEW i \in FoldsIn(l, d, k, s.cursor)
      PROVE  i <= Row(new.rows, k)
  <2>1. OwnUpTo(l, d, p, k, s.cursor)
    <3>1. FoldsIn(l, d, k, s.cursor) \subseteq FoldsIn(l, d, k, Len(l))
      BY <1>2, <1>5 DEF FoldsIn
    <3> QED
      BY <1>7, <3>1 DEF OwnUpTo
  <2>2. i <= Row(s.rows, k)
    BY <1>5, <1>7, <2>1 DEF Covers
  <2>3. k \in DOMAIN s.rows
    <3>1. i \in 1 .. s.cursor
      BY DEF FoldsIn
    <3>2. Row(s.rows, k) # 0
      BY <1>2, <2>2, <3>1
    <3> QED
      BY <3>2 DEF Row
  <2> QED
    BY <1>3, <2>2, <2>3
<1>8. Covers(l, d, p, new.rows, s.cursor, Len(l))
  BY <1>7 DEF Covers
<1>9. Refused(l, "json", Selected(l, d, p, 0, s.cursor)) = {}
  BY <1>5 DEF Refused
<1>10. PartSound(l, d, "json", new.rows, p, new.parts[p])
  BY <1>1, <1>5, <1>8, <1>9 DEF PartSound, At
<1>11. ASSUME NEW o \in Partitions(d), o # p, NEW c, Covers(l, d, o, q.rows, c, Len(l))
       PROVE  Covers(l, d, o, new.rows, c, Len(l))
  <2>1. d.count # 1
    BY <1>11, DescIs
  <2>2. ASSUME NEW k \in Keys, OwnUpTo(l, d, o, k, Len(l)) PROVE Row(new.rows, k) = Row(q.rows, k)
    <3>1. k \notin DOMAIN s.rows
      <4>1. SUFFICES ASSUME k \in DOMAIN s.rows PROVE FALSE
        OBVIOUS
      <4>2. d.part[s.rows[k].stream] = o
        BY <1>4, <2>2, <4>1, OwnRow
      <4> QED
        BY <1>5, <1>11, <2>1, <4>1, <4>2
    <3> QED
      BY <1>3, <2>1, <3>1
  <2> QED
    BY <1>11, <2>2 DEF Covers
<1>12. ASSUME NEW o \in Partitions(d), o # p
       PROVE  PartSound(l, d, "json", new.rows, o, new.parts[o])
  <2>1. new.parts[o] = q.parts[o] /\ PartSound(l, d, "json", q.rows, o, q.parts[o])
    BY <1>1, <1>12 DEF PartsSound
  <2> QED
    BY <1>11, <1>12, <2>1 DEF PartSound
<1> QED
  BY <1>6, <1>10, <1>12 DEF PartsSound, new

\* What a partition starts to read from, after the file if there is one.
Start(q, p, root) == IF root /\ q.parts[p].kind = "Cold" THEN RestorePartition(q, p) ELSE q

LEMMA StartIs ==
  ASSUME Shape, Exists, NEW q \in InHands(desc), NEW p \in Partitions(desc), NEW root \in BOOLEAN,
         q.parts[p].kind # "Failed"
  PROVE  /\ Start(q, p, root) \in InHands(desc)
         /\ \A o \in Partitions(desc) : o # p => Start(q, p, root).parts[o] = q.parts[o]
         /\ Start(q, p, root).parts[p].kind # "Failed"
         /\ root /\ FilesSound(events, snapshots) /\ PartsSound(events, desc, projection.runtime, q)
               => PartsSound(events, desc, projection.runtime, Start(q, p, root))
         /\ ~root => Start(q, p, root) = q
         /\ Bounded(q.parts, Len(events)) => Bounded(Start(q, p, root).parts, Len(events))
<1>1. CASE Start(q, p, root) = q
  BY <1>1
<1>2. CASE ~root
  BY <1>2 DEF Start
<1>3. ASSUME projection.runtime = "json", NEW s \in Candidates(desc, p),
             Start(q, p, root) = Restored(desc, q, p, s), root
      PROVE  /\ Start(q, p, root) \in InHands(desc)
             /\ \A o \in Partitions(desc) : o # p => Start(q, p, root).parts[o] = q.parts[o]
             /\ Start(q, p, root).parts[p].kind # "Failed"
             /\ FilesSound(events, snapshots) /\ PartsSound(events, desc, projection.runtime, q)
                   => PartsSound(events, desc, projection.runtime, Start(q, p, root))
             /\ Bounded(q.parts, Len(events)) => Bounded(Start(q, p, root).parts, Len(events))
  <2>1. s \in Files /\ s \in Range(snapshots[desc][p]) /\ desc \in Descriptors /\ s.cursor <= Len(events)
    BY DescShape, CandidateIs
  <2>2. /\ Restored(desc, q, p, s) \in InHands(desc)
        /\ Restored(desc, q, p, s).parts[p] = At("Ready", s.cursor)
        /\ \A o \in Partitions(desc) : o # p => Restored(desc, q, p, s).parts[o] = q.parts[o]
    BY <2>1, RestoredIs
  <2>3. Start(q, p, root).parts[p].kind # "Failed"
    <3>1. Restored(desc, q, p, s).parts[p].kind = "Ready"
      BY <2>2 DEF At
    <3> QED
      BY <1>3, <3>1
  <2>4. ASSUME FilesSound(events, snapshots), PartsSound(events, desc, projection.runtime, q)
        PROVE  PartsSound(events, desc, projection.runtime, Start(q, p, root))
    <3>1. FileSound(events, desc, p, s)
      BY <2>1, <2>4 DEF FilesSound
    <3>2. events \in Seq(Kinds)
      BY DEF Shape, OnDisk
    <3>3. PartsSound(events, desc, "json", Restored(desc, q, p, s))
      BY <1>3, <2>1, <2>4, <3>1, <3>2, RestoredSound
    <3> QED
      BY <1>3, <3>3
  <2>5. ASSUME Bounded(q.parts, Len(events)) PROVE Bounded(Restored(desc, q, p, s).parts, Len(events))
    <3>1. DOMAIN q.parts = Partitions(desc) /\ DOMAIN Restored(desc, q, p, s).parts = Partitions(desc)
      BY <2>2 DEF InHands
    <3> QED
      BY <2>1, <2>2, <2>5, <3>1 DEF Bounded, At
  <2> QED
    BY <1>3, <2>2, <2>3, <2>4, <2>5
<1>4. root => \/ Start(q, p, root) = q
              \/ /\ projection.runtime = "json"
                 /\ \E s \in Candidates(desc, p) : Start(q, p, root) = Restored(desc, q, p, s)
  BY RestoreIs DEF Start
<1> QED
  BY <1>1, <1>2, <1>3, <1>4

LEMMA HealOneGood ==
  ASSUME Shape, Exists, NEW l \in Seq(Kinds), NEW q \in InHands(desc), NEW p \in Partitions(desc),
         NEW target \in 0 .. Len(l), NEW root \in BOOLEAN
  PROVE  /\ HealOne(l, q, p, target, root) \in InHands(desc)
         /\ \A o \in Partitions(desc) : o # p => HealOne(l, q, p, target, root).parts[o] = q.parts[o]
         /\ HealOne(l, q, p, target, root).parts[p].kind \in {"Ready", "Failed"}
         /\ HealOne(l, q, p, target, root).parts[p].kind = "Ready"
               => HealOne(l, q, p, target, root).parts[p].cursor = target
         /\ PartsSound(l, desc, projection.runtime, q) /\ (root => l = events /\ FilesSound(events, snapshots))
               => PartsSound(l, desc, projection.runtime, HealOne(l, q, p, target, root))
         /\ Bounded(q.parts, Len(l)) /\ (root => l = events) => Bounded(HealOne(l, q, p, target, root).parts, Len(l))
<1>1. CASE q.parts[p].kind = "Failed"
  <2>1. HealOne(l, q, p, target, root) = q
    BY <1>1, HealOneIs
  <2> QED
    BY <1>1, <2>1
<1>2. CASE q.parts[p].kind # "Failed"
  <2> DEFINE b == Start(q, p, root)
             after == Reads(l, desc, projection.runtime, b, p, target)
  <2>1. HealOne(l, q, p, target, root) = after
    BY <1>2, HealOneIs, Zenon DEF Start
  <2>2. /\ b \in InHands(desc)
        /\ \A o \in Partitions(desc) : o # p => b.parts[o] = q.parts[o]
        /\ b.parts[p].kind # "Failed"
        /\ root /\ FilesSound(events, snapshots) /\ PartsSound(events, desc, projection.runtime, q)
              => PartsSound(events, desc, projection.runtime, b)
        /\ ~root => b = q
        /\ Bounded(q.parts, Len(events)) => Bounded(b.parts, Len(events))
    BY <1>2, StartIs
  <2>3. desc \in Descriptors
    BY DescShape
  <2> HIDE DEF b
  <2>4. /\ after \in InHands(desc)
        /\ \A o \in Partitions(desc) : o # p => after.parts[o] = b.parts[o]
    BY <2>2, <2>3, ReadsIs
  <2>5. after.parts[p] = IF Refused(l, projection.runtime, Selected(l, desc, p, b.parts[p].cursor, target)) = {}
                         THEN At("Ready", target) ELSE At("Failed", b.parts[p].cursor)
    BY <2>2, <2>3, ReadsIs
  <2>6. PartsSound(l, desc, projection.runtime, b) => PartsSound(l, desc, projection.runtime, after)
    BY <2>2, <2>3, ReadsSound
  <2> HIDE DEF after
  <2>7. after.parts[p].kind \in {"Ready", "Failed"} /\ (after.parts[p].kind = "Ready" => after.parts[p].cursor = target)
    BY <2>5 DEF At
  <2>8. ASSUME PartsSound(l, desc, projection.runtime, q), root => l = events /\ FilesSound(events, snapshots)
        PROVE  PartsSound(l, desc, projection.runtime, after)
    BY <2>2, <2>6, <2>8
  <2>9. \A o \in Partitions(desc) : o # p => after.parts[o] = q.parts[o]
    BY <2>2, <2>4
  <2>10. ASSUME Bounded(q.parts, Len(l)), root => l = events PROVE Bounded(after.parts, Len(l))
    <3>1. Bounded(b.parts, Len(l))
      BY <2>2, <2>10
    <3>2. DOMAIN b.parts = Partitions(desc) /\ DOMAIN after.parts = Partitions(desc)
      BY <2>2, <2>4 DEF InHands
    <3>3. after.parts[p].cursor <= Len(l)
      BY <2>5, <3>1, <3>2 DEF Bounded, At
    <3> QED
      BY <2>4, <3>1, <3>2, <3>3 DEF Bounded
  <2> QED
    BY <2>1, <2>4, <2>7, <2>8, <2>9, <2>10
<1> QED
  BY <1>1, <1>2

\* heal_partitions, step by step.
HealUp(l, P, target, root, n, g) ==
    IF n = 0 THEN [parts |-> projection.parts, rows |-> rows]
    ELSE IF n - 1 \in P THEN HealOne(l, g[n - 1], n - 1, target, root)
    ELSE g[n - 1]

IsHealing(g, l, P, target, root, n) == g = [k \in 0 .. n |-> HealUp(l, P, target, root, k, g)]

LEMMA HealingExists ==
  ASSUME NEW l, NEW P, NEW target, NEW root, NEW n \in Nat
  PROVE  \E g : IsHealing(g, l, P, target, root, n)
<1> DEFINE S == {k \in 0 .. n : \E g : IsHealing(g, l, P, target, root, k)}
<1>1. 0 \in S
  <2> DEFINE g == [k \in 0 .. 0 |-> [parts |-> projection.parts, rows |-> rows]]
  <2>1. \A k \in 0 .. 0 : HealUp(l, P, target, root, k, g) = [parts |-> projection.parts, rows |-> rows]
    BY DEF HealUp
  <2>2. IsHealing(g, l, P, target, root, 0)
    BY <2>1 DEF IsHealing
  <2> QED
    BY <2>2
<1>2. ASSUME NEW k \in 0 .. n, k < n, k \in S PROVE k + 1 \in S
  <2>1. PICK g : IsHealing(g, l, P, target, root, k)
    BY <1>2
  <2> DEFINE last == IF k \in P THEN HealOne(l, g[k], k, target, root) ELSE g[k]
             h == [j \in 0 .. k + 1 |-> IF j = k + 1 THEN last ELSE g[j]]
  <2>2. ASSUME NEW j \in 0 .. k + 1 PROVE h[j] = HealUp(l, P, target, root, j, h)
    <3>1. CASE j = k + 1
      <4>1. h[j] = last
        BY <3>1
      <4>2. j # 0 /\ j - 1 = k /\ k \in 0 .. k + 1 /\ k # k + 1
        BY <3>1
      <4>3. h[j - 1] = g[k]
        BY <4>2
      <4> HIDE DEF h
      <4> QED
        BY <3>1, <4>1, <4>2, <4>3 DEF HealUp
    <3>2. CASE j # k + 1
      <4>1. j \in 0 .. k /\ h[j] = g[j]
        BY <3>2
      <4>2. g[j] = HealUp(l, P, target, root, j, g)
        BY <2>1, <4>1 DEF IsHealing
      <4>3. j # 0 => j - 1 \in 0 .. k + 1 /\ j - 1 # k + 1 /\ h[j - 1] = g[j - 1]
        BY <4>1
      <4> HIDE DEF h
      <4> QED
        BY <4>1, <4>2, <4>3 DEF HealUp
    <3> QED
      BY <3>1, <3>2
  <2>3. h = [j \in 0 .. k + 1 |-> h[j]]
    OBVIOUS
  <2> HIDE DEF h
  <2>4. IsHealing(h, l, P, target, root, k + 1)
    BY <2>2, <2>3 DEF IsHealing
  <2>5. k + 1 \in 0 .. n
    BY <1>2
  <2> QED
    BY <2>4, <2>5
<1> HIDE DEF S
<1>3. \A k \in 0 .. n : k \in S
  BY <1>1, <1>2, Climb
<1> QED
  BY <1>3 DEF S

HealsBy(g, l, P, target, root) ==
    /\ Heal(l, P, target, root) = g[desc.count]
    /\ g[0] = InHand(projection, rows)
    /\ \A k \in 0 .. desc.count : k < desc.count =>
          g[k + 1] = IF k \in P THEN HealOne(l, g[k], k, target, root) ELSE g[k]

LEMMA HealSteps ==
  ASSUME NEW l, NEW P, NEW target, NEW root, desc.count \in Nat
  PROVE  \E g : HealsBy(g, l, P, target, root)
<1> DEFINE g == CHOOSE f : IsHealing(f, l, P, target, root, desc.count)
<1>1. IsHealing(g, l, P, target, root, desc.count)
  BY HealingExists
<1>2. Heal(l, P, target, root) = g[desc.count]
  BY Zenon DEF Heal, IsHealing, HealUp
<1> HIDE DEF g
<1>3. \A k \in 0 .. desc.count : g[k] = HealUp(l, P, target, root, k, g)
  BY <1>1 DEF IsHealing
<1>4. g[0] = InHand(projection, rows)
  BY <1>3 DEF HealUp, InHand
<1>5. ASSUME NEW k \in 0 .. desc.count, k < desc.count
      PROVE  g[k + 1] = IF k \in P THEN HealOne(l, g[k], k, target, root) ELSE g[k]
  <2>1. k + 1 \in 0 .. desc.count /\ k + 1 # 0 /\ (k + 1) - 1 = k
    BY <1>5
  <2>2. g[k + 1] = HealUp(l, P, target, root, k + 1, g)
    BY <1>3, <2>1
  <2> QED
    BY <2>1, <2>2 DEF HealUp
<1> QED
  BY <1>2, <1>4, <1>5 DEF HealsBy

\* A heal leaves the other partitions alone; each of its own ends at the
\* target, or where it failed.
Healthy(P, target, parts) ==
    /\ \A o \in Partitions(desc) \ P : parts[o] = projection.parts[o]
    /\ \A o \in P : parts[o].kind \in {"Ready", "Failed"} /\ (parts[o].kind = "Ready" => parts[o].cursor = target)

LEMMA HealGood ==
  ASSUME Shape, Exists, NEW l \in Seq(Kinds), NEW P \in SUBSET Partitions(desc),
         NEW target \in 0 .. Len(l), NEW root \in BOOLEAN
  PROVE  /\ Heal(l, P, target, root) \in InHands(desc)
         /\ Healthy(P, target, Heal(l, P, target, root).parts)
         /\ PartsSound(l, desc, projection.runtime, InHand(projection, rows))
               /\ (root => l = events /\ FilesSound(events, snapshots))
               => PartsSound(l, desc, projection.runtime, Heal(l, P, target, root))
         /\ Bounded(projection.parts, Len(l)) /\ (root => l = events) => Bounded(Heal(l, P, target, root).parts, Len(l))
<1> DEFINE SoundIn(q) == PartsSound(l, desc, projection.runtime, q)
           able == SoundIn(InHand(projection, rows)) /\ (root => l = events /\ FilesSound(events, snapshots))
           bounded == Bounded(projection.parts, Len(l)) /\ (root => l = events)
<1>1. desc.count \in Nat \ {0} /\ Partitions(desc) = 0 .. desc.count - 1
  BY DescShape, DescIs
<1>2. PICK g : HealsBy(g, l, P, target, root)
  BY <1>1, HealSteps
<1> DEFINE S == {n \in 0 .. desc.count :
                   /\ g[n] \in InHands(desc)
                   /\ \A o \in Partitions(desc) : (o \notin P \/ o >= n) => g[n].parts[o] = projection.parts[o]
                   /\ \A o \in P : o < n => /\ g[n].parts[o].kind \in {"Ready", "Failed"}
                                            /\ g[n].parts[o].kind = "Ready" => g[n].parts[o].cursor = target
                   /\ able => SoundIn(g[n])
                   /\ bounded => Bounded(g[n].parts, Len(l))}
<1>3. 0 \in S
  <2>1. g[0] \in InHands(desc) /\ g[0].parts = projection.parts
    BY <1>2, DescShape DEF InHand, HealsBy
  <2>2. able => SoundIn(g[0])
    BY <1>2 DEF HealsBy
  <2>3. \A o \in P : ~(o < 0)
    BY <1>1
  <2>4. 0 \in 0 .. desc.count
    BY <1>1
  <2>5. bounded => Bounded(g[0].parts, Len(l))
    BY <2>1
  <2> HIDE DEF able, SoundIn, bounded
  <2> QED
    BY <2>1, <2>2, <2>3, <2>4, <2>5
<1>4. ASSUME NEW k \in 0 .. desc.count, k < desc.count, k \in S PROVE k + 1 \in S
  <2>1. /\ g[k] \in InHands(desc)
        /\ \A o \in Partitions(desc) : (o \notin P \/ o >= k) => g[k].parts[o] = projection.parts[o]
        /\ \A o \in P : o < k => /\ g[k].parts[o].kind \in {"Ready", "Failed"}
                                 /\ g[k].parts[o].kind = "Ready" => g[k].parts[o].cursor = target
        /\ able => SoundIn(g[k])
        /\ bounded => Bounded(g[k].parts, Len(l))
    BY <1>4
  <2>2. k \in Partitions(desc) /\ k + 1 \in 0 .. desc.count /\ k \in Nat
    BY <1>1, <1>4
  <2>3. \A o \in Partitions(desc) : (o < k + 1 <=> o < k \/ o = k) /\ (o >= k + 1 => o >= k /\ o # k) /\ o \in Int
    BY <1>1, <2>2
  <2>4. CASE k \in P
    <3> DEFINE b == HealOne(l, g[k], k, target, root)
    <3>1. g[k + 1] = b
      BY <1>2, <1>4, <2>4 DEF HealsBy
    <3>2. /\ b \in InHands(desc)
          /\ \A o \in Partitions(desc) : o # k => b.parts[o] = g[k].parts[o]
          /\ b.parts[k].kind \in {"Ready", "Failed"}
          /\ b.parts[k].kind = "Ready" => b.parts[k].cursor = target
          /\ able => SoundIn(b)
          /\ bounded => Bounded(b.parts, Len(l))
      BY <2>1, <2>2, HealOneGood
    <3> HIDE DEF b, able, SoundIn, bounded
    <3>3. \A o \in Partitions(desc) : (o \notin P \/ o >= k + 1) => b.parts[o] = projection.parts[o]
      BY <2>1, <2>3, <2>4, <3>2
    <3>4. \A o \in P : o < k + 1 => /\ b.parts[o].kind \in {"Ready", "Failed"}
                                    /\ b.parts[o].kind = "Ready" => b.parts[o].cursor = target
      BY <2>1, <2>3, <3>2
    <3> QED
      BY <2>2, <3>1, <3>2, <3>3, <3>4
  <2>5. CASE k \notin P
    <3>1. g[k + 1] = g[k]
      BY <1>2, <1>4, <2>5 DEF HealsBy
    <3> HIDE DEF able, SoundIn, bounded
    <3>2. \A o \in P : o < k + 1 => o < k
      BY <2>3, <2>5
    <3> QED
      BY <2>1, <2>2, <2>3, <3>1, <3>2
  <2> QED
    BY <2>4, <2>5
<1> HIDE DEF S
<1>5. \A n \in 0 .. desc.count : n \in S
  BY <1>1, <1>3, <1>4, Climb
<1>6. desc.count \in S
  BY <1>1, <1>5
<1>7. /\ g[desc.count] \in InHands(desc)
      /\ \A o \in Partitions(desc) : o \notin P => g[desc.count].parts[o] = projection.parts[o]
      /\ \A o \in P : o < desc.count => /\ g[desc.count].parts[o].kind \in {"Ready", "Failed"}
                                        /\ g[desc.count].parts[o].kind = "Ready" => g[desc.count].parts[o].cursor = target
      /\ able => SoundIn(g[desc.count])
      /\ bounded => Bounded(g[desc.count].parts, Len(l))
  BY <1>6 DEF S
<1>8. \A o \in P : o < desc.count
  BY <1>1
<1> QED
  BY <1>2, <1>7, <1>8 DEF Healthy, HealsBy

----------------------------------------------------------------------------
(* The whole of a projection *)

LEMMA AggregateIs ==
  ASSUME NEW d \in Descriptors, NEW parts \in [Partitions(d) -> Part]
  PROVE  /\ Aggregate(parts).cursor \in Nat
         /\ Aggregate(parts).kind \in {"Ready", "Failed", "Building"}
         /\ Aggregate(parts).kind = "Ready" => \A p \in Partitions(d) : parts[p].kind = "Ready"
         /\ Aggregate(parts).kind = "Ready" /\ d.count = 1 => Aggregate(parts).cursor = parts[0].cursor
<1> DEFINE failed == {p \in DOMAIN parts : parts[p].kind = "Failed"}
           cursors == {parts[p].cursor : p \in DOMAIN parts}
           whole == IF \A p \in DOMAIN parts : parts[p].kind = "Ready" THEN "Ready" ELSE "Building"
<1>1. DOMAIN parts = Partitions(d) /\ Partitions(d) # {} /\ Partitions(d) \in SUBSET Nat
      /\ (d.count = 1 => Partitions(d) = {0})
  BY DescIs
<1>2. Aggregate(parts) = IF failed # {} THEN At("Failed", parts[Min(failed)].cursor) ELSE At(whole, Min(cursors))
  BY Zenon DEF Aggregate
<1>3. \A p \in DOMAIN parts : parts[p].cursor \in Nat
  BY <1>1 DEF Part
<1>4. failed # {} => Min(failed) \in failed
  <2>1. failed \in SUBSET Nat
    BY <1>1
  <2> HIDE DEF failed
  <2> QED
    BY <2>1, MinOf
<1>5. Min(cursors) \in cursors /\ cursors \in SUBSET Nat
  <2>1. cursors \in SUBSET Nat /\ cursors # {}
    BY <1>1, <1>3
  <2> HIDE DEF cursors
  <2> QED
    BY <2>1, MinOf
<1>6. CASE failed # {}
  <2>1. parts[Min(failed)].cursor \in Nat
    BY <1>3, <1>4, <1>6
  <2>2. Aggregate(parts) = At("Failed", parts[Min(failed)].cursor)
    BY <1>2, <1>6
  <2> HIDE DEF failed
  <2> QED
    BY <2>1, <2>2 DEF At
<1>7. CASE failed = {}
  <2>1. Aggregate(parts) = At(whole, Min(cursors))
    BY <1>2, <1>7
  <2>2. Aggregate(parts).cursor = Min(cursors) /\ Aggregate(parts).kind = whole
    BY <2>1 DEF At
  <2>3. d.count = 1 => cursors = {parts[0].cursor}
    BY <1>1
  <2>4. whole \in {"Ready", "Building"} /\ (whole = "Ready" => \A p \in Partitions(d) : parts[p].kind = "Ready")
    BY <1>1
  <2>5. d.count = 1 => Min(cursors) = parts[0].cursor
    BY <1>5, <2>3
  <2>6. Min(cursors) \in Nat
    BY <1>5
  <2> HIDE DEF whole, cursors
  <2> QED
    BY <2>2, <2>4, <2>5, <2>6
<1> QED
  BY <1>6, <1>7

LEMMA HealedIs ==
  ASSUME Shape, Exists, NEW parts \in [Partitions(desc) -> Part]
  PROVE  /\ IsProjection(Healed(parts), desc)
         /\ Healed(parts).desc = projection.desc
         /\ Healed(parts).runtime = projection.runtime
         /\ Healed(parts).parts = parts
         /\ Healed(parts).status = Aggregate(parts).kind
         /\ Healed(parts).cursor = Aggregate(parts).cursor
<1>1. desc \in Descriptors /\ IsProjection(projection, desc)
  BY DescShape
<1>2. Aggregate(parts).cursor \in Nat /\ Aggregate(parts).kind \in {"Ready", "Failed", "Building"}
  BY <1>1, AggregateIs
<1> QED
  BY <1>1, <1>2 DEF Healed, IsProjection

LEMMA HealedSound ==
  ASSUME Shape, Exists, NEW l, NEW q \in InHands(desc), PartsSound(l, desc, projection.runtime, q)
  PROVE  ProjectionSound(l, Healed(q.parts), q.rows)
<1> DEFINE h == Healed(q.parts)
<1>1. q.parts \in [Partitions(desc) -> Part] /\ q.rows \in RowMaps /\ desc \in Descriptors
  BY DescShape DEF InHands
<1>2. /\ h.desc = projection.desc /\ h.runtime = projection.runtime /\ h.parts = q.parts
      /\ h.status = Aggregate(q.parts).kind /\ h.cursor = Aggregate(q.parts).cursor
  BY <1>1, HealedIs
<1>3. h.desc[1] = desc
  BY <1>2 DEF desc
<1>4. InHand(h, q.rows).parts = q.parts /\ InHand(h, q.rows).rows = q.rows
  BY <1>2 DEF InHand
<1>5. /\ Aggregate(q.parts).kind = "Ready" => \A p \in Partitions(desc) : q.parts[p].kind = "Ready"
      /\ Aggregate(q.parts).kind = "Ready" /\ desc.count = 1 => Aggregate(q.parts).cursor = q.parts[0].cursor
  BY <1>1, AggregateIs
<1>6. desc.count = 1 => 0 \in Partitions(desc)
  BY <1>1, DescIs
<1> HIDE DEF h
<1>7. PartsSound(l, desc, h.runtime, InHand(h, q.rows))
  BY <1>2, <1>4 DEF PartsSound
<1>8. StatusSound(l, desc, h, q.rows)
  <2>1. SUFFICES ASSUME h.status = "Ready"
                 PROVE  /\ \A p \in Partitions(desc) : h.parts[p].kind # "Failed"
                        /\ desc.count = 1 =>
                              /\ h.cursor <= Len(l)
                              /\ Refused(l, h.runtime, Selected(l, desc, 0, 0, h.cursor)) = {}
                              /\ Covers(l, desc, 0, q.rows, h.cursor, Len(l))
    BY DEF StatusSound
  <2>2. \A p \in Partitions(desc) : h.parts[p].kind = "Ready"
    BY <1>2, <1>5, <2>1
  <2>3. ASSUME desc.count = 1
        PROVE  /\ h.cursor <= Len(l)
               /\ Refused(l, h.runtime, Selected(l, desc, 0, 0, h.cursor)) = {}
               /\ Covers(l, desc, 0, q.rows, h.cursor, Len(l))
    <3>1. 0 \in Partitions(desc) /\ h.cursor = q.parts[0].cursor /\ q.parts[0].kind = "Ready"
      BY <1>2, <1>5, <1>6, <2>1, <2>3
    <3>2. PartSound(l, desc, projection.runtime, q.rows, 0, q.parts[0])
      BY <3>1 DEF PartsSound
    <3> QED
      BY <1>2, <3>1, <3>2 DEF PartSound
  <2> QED
    BY <2>2, <2>3
<1> QED
  BY <1>3, <1>7, <1>8 DEF ProjectionSound, h

----------------------------------------------------------------------------
(* The log grows, and a power loss cuts it *)

LEMMA SelectedIn ==
  ASSUME NEW l, NEW d, NEW p, NEW c \in Nat
  PROVE  Selected(l, d, p, 0, c) \subseteq 1 .. c
BY DEF Selected

LEMMA RefusedAgree ==
  ASSUME NEW l \in Seq(Kinds), NEW m \in Seq(Kinds), NEW n \in Nat, Agree(l, m, n),
         NEW d, NEW p, NEW c \in Nat, c <= n
  PROVE  /\ Selected(l, d, p, 0, c) = Selected(m, d, p, 0, c)
         /\ \A i \in Selected(l, d, p, 0, c) : l[i] = m[i]
         /\ \A runtime : Refused(l, runtime, Selected(l, d, p, 0, c)) = Refused(m, runtime, Selected(m, d, p, 0, c))
<1>1. Selected(l, d, p, 0, c) = Selected(m, d, p, 0, c)
  <2>1. \A i \in 1 .. c : l[i] = m[i]
    BY DEF Agree
  <2> QED
    BY <2>1 DEF Selected, Selects
<1>2. \A i \in Selected(l, d, p, 0, c) : l[i] = m[i]
  BY SelectedIn DEF Agree
<1> QED
  BY <1>1, <1>2 DEF Refused

LEMMA CoversLonger ==
  ASSUME NEW l \in Seq(Kinds), NEW m \in Seq(Kinds), Agree(l, m, Len(l)),
         NEW d, NEW p, NEW r, NEW c \in Nat, c <= Len(l), Covers(l, d, p, r, c, Len(l))
  PROVE  Covers(m, d, p, r, c, Len(m))
<1>1. Len(l) \in Nat /\ Len(m) \in Nat /\ Len(l) <= Len(m)
  BY DEF Agree
<1>2. SUFFICES ASSUME NEW k \in Keys, OwnUpTo(m, d, p, k, Len(m)), NEW i \in FoldsIn(m, d, k, c)
               PROVE  i <= Row(r, k)
  BY DEF Covers
<1>3. OwnUpTo(m, d, p, k, Len(l))
  BY <1>1, <1>2 DEF OwnUpTo, FoldsIn
<1>4. OwnUpTo(l, d, p, k, Len(l)) /\ i \in FoldsIn(l, d, k, c)
  <2>1. OwnUpTo(l, d, p, k, Len(l)) <=> OwnUpTo(m, d, p, k, Len(l))
    BY <1>1, OwnAgree
  <2>2. FoldsIn(l, d, k, c) = FoldsIn(m, d, k, c)
    BY <1>1, FoldsAgree
  <2> QED
    BY <1>2, <1>3, <2>1, <2>2
<1> QED
  BY <1>4 DEF Covers

LEMMA RowsLonger ==
  ASSUME NEW l \in Seq(Kinds), NEW m \in Seq(Kinds), Agree(l, m, Len(l)), NEW d, NEW r, RowsFrom(l, d, r)
  PROVE  RowsFrom(m, d, r)
<1>1. Len(l) \in Nat /\ Len(m) \in Nat /\ Len(l) <= Len(m)
  BY DEF Agree
<1>2. ASSUME NEW k \in DOMAIN r PROVE r[k].at \in FoldsIn(m, d, k, Len(m)) /\ r[k].stream = m[r[k].at].stream
  <2>1. r[k].at \in FoldsIn(l, d, k, Len(l)) /\ r[k].stream = l[r[k].at].stream
    BY DEF RowsFrom
  <2>2. r[k].at \in FoldsIn(m, d, k, Len(l))
    BY <1>1, <2>1, FoldsAgree
  <2>3. r[k].at \in 1 .. Len(l)
    BY <2>1 DEF FoldsIn
  <2>4. l[r[k].at] = m[r[k].at]
    BY <2>3 DEF Agree
  <2> QED
    BY <1>1, <2>1, <2>2, <2>4 DEF FoldsIn
<1> QED
  BY <1>2 DEF RowsFrom

LEMMA PartLonger ==
  ASSUME NEW l \in Seq(Kinds), NEW m \in Seq(Kinds), Agree(l, m, Len(l)),
         NEW d, NEW runtime, NEW r, NEW p, NEW part \in Part, PartSound(l, d, runtime, r, p, part)
  PROVE  PartSound(m, d, runtime, r, p, part)
<1>1. Len(l) \in Nat /\ Len(m) \in Nat /\ Len(l) <= Len(m) /\ part.cursor \in Nat
  BY DEF Agree, Part
<1>2. part.cursor <= Len(l) /\ part.cursor <= Len(m) /\ (part.kind = "Cold" => part.cursor = 0)
  BY <1>1 DEF PartSound
<1>3. ASSUME part.kind = "Failed" PROVE Refused(m, runtime, Selected(m, d, p, part.cursor, Len(m))) # {}
  <2>1. PICK i \in Refused(l, runtime, Selected(l, d, p, part.cursor, Len(l))) : TRUE
    BY <1>3 DEF PartSound
  <2>2. i \in Selected(l, d, p, part.cursor, Len(l)) /\ (runtime = "missing" \/ ~l[i].good)
    BY DEF Refused
  <2>3. i \in 1 .. Len(l) /\ i \in part.cursor + 1 .. Len(m)
    BY <1>1, <2>2 DEF Selected
  <2>4. l[i] = m[i]
    BY <2>3 DEF Agree
  <2>5. i \in Selected(m, d, p, part.cursor, Len(m))
    BY <2>2, <2>3, <2>4 DEF Selected, Selects
  <2> QED
    BY <2>2, <2>4, <2>5 DEF Refused
<1>4. ASSUME part.kind = "Ready"
      PROVE  /\ Refused(m, runtime, Selected(m, d, p, 0, part.cursor)) = {}
             /\ Covers(m, d, p, r, part.cursor, Len(m))
  <2>1. Refused(l, runtime, Selected(l, d, p, 0, part.cursor)) = {} /\ Covers(l, d, p, r, part.cursor, Len(l))
    BY <1>4 DEF PartSound
  <2> QED
    BY <1>1, <1>2, <2>1, RefusedAgree, CoversLonger
<1> QED
  BY <1>2, <1>3, <1>4 DEF PartSound

LEMMA PartsLonger ==
  ASSUME NEW l \in Seq(Kinds), NEW m \in Seq(Kinds), Agree(l, m, Len(l)),
         NEW d, NEW runtime, NEW q \in InHands(d), PartsSound(l, d, runtime, q)
  PROVE  PartsSound(m, d, runtime, q)
<1>1. RowsFrom(m, d, q.rows)
  BY RowsLonger DEF PartsSound
<1>2. ASSUME NEW p \in Partitions(d) PROVE PartSound(m, d, runtime, q.rows, p, q.parts[p])
  <2>1. PartSound(l, d, runtime, q.rows, p, q.parts[p]) /\ q.parts[p] \in Part
    BY DEF PartsSound, InHands
  <2> QED
    BY <2>1, PartLonger
<1> QED
  BY <1>1, <1>2 DEF PartsSound

\* A file is sound in every log that has what it comes from.
LEMMA FileAgree ==
  ASSUME NEW l \in Seq(Kinds), NEW m \in Seq(Kinds), NEW n \in Nat, Agree(l, m, n),
         NEW d, NEW p, NEW s \in Files, FileSound(l, d, p, s), ~Saw(s, n)
  PROVE  FileSound(m, d, p, s)
<1>1. /\ s.cursor \in Nat /\ s.cursor <= n /\ n <= Len(m) /\ n <= Len(l) /\ s.rows \in RowMaps
      /\ Len(l) \in Nat /\ Len(m) \in Nat
  BY DEF Files, Saw, Agree
<1>2. ASSUME NEW k \in DOMAIN s.rows
      PROVE  s.rows[k].at \in FoldsIn(m, d, k, Len(m)) /\ s.rows[k].stream = m[s.rows[k].at].stream
  <2>1. s.rows[k].at \in FoldsIn(l, d, k, Len(l)) /\ s.rows[k].stream = l[s.rows[k].at].stream
    BY DEF RowsFrom, FileSound
  <2>2. s.rows[k].at \in 1 .. Len(l)
    BY <2>1 DEF FoldsIn
  <2>3. s.rows[k].at \in 1 .. n
    BY <1>1, <2>2 DEF Saw
  <2>4. l[s.rows[k].at] = m[s.rows[k].at]
    BY <2>3 DEF Agree
  <2>5. s.rows[k].at \in 1 .. Len(m)
    BY <1>1, <2>3
  <2> QED
    BY <2>1, <2>4, <2>5 DEF FoldsIn, Selects
<1>3. RowsFrom(m, d, s.rows)
  BY <1>2 DEF RowsFrom
<1>4. \A i \in Selected(m, d, p, 0, s.cursor) : m[i].good
  <2>1. \A i \in Selected(l, d, p, 0, s.cursor) : l[i] = m[i]
    BY <1>1, RefusedAgree
  <2>2. Selected(l, d, p, 0, s.cursor) = Selected(m, d, p, 0, s.cursor)
    BY <1>1, RefusedAgree
  <2> QED
    BY <2>1, <2>2 DEF FileSound
<1>5. Covers(m, d, p, s.rows, s.cursor, s.cursor)
  <2>1. Covers(l, d, p, s.rows, s.cursor, s.cursor)
    BY DEF FileSound
  <2>2. ASSUME NEW k
        PROVE  /\ OwnUpTo(l, d, p, k, s.cursor) <=> OwnUpTo(m, d, p, k, s.cursor)
               /\ FoldsIn(l, d, k, s.cursor) = FoldsIn(m, d, k, s.cursor)
    <3>1. OwnUpTo(l, d, p, k, s.cursor) <=> OwnUpTo(m, d, p, k, s.cursor)
      BY <1>1, OwnAgree
    <3>2. FoldsIn(l, d, k, s.cursor) = FoldsIn(m, d, k, s.cursor)
      BY <1>1, FoldsAgree
    <3> QED
      BY <3>1, <3>2
  <2> QED
    BY <2>1, <2>2 DEF Covers
<1>6. d.count # 1 => \A k \in DOMAIN s.rows : d.part[s.rows[k].stream] = p
  BY DEF FileSound
<1>7. s.cursor <= Len(m)
  BY <1>1
<1> QED
  BY <1>3, <1>4, <1>5, <1>6, <1>7 DEF FileSound

\* None comes from events the log does not have.
LEMMA FileWithin ==
  ASSUME NEW l \in Seq(Kinds), NEW d, NEW p, NEW s \in Files, FileSound(l, d, p, s)
  PROVE  ~Saw(s, Len(l))
<1>1. \A k \in DOMAIN s.rows : s.rows[k].at \in 1 .. Len(l)
  BY DEF FileSound, RowsFrom, FoldsIn
<1> QED
  BY <1>1 DEF FileSound, Saw, Files

----------------------------------------------------------------------------
(* Files *)

\* Without, step by step.
KeptUp(seq, I, n, g) ==
    IF n = 0 THEN <<>>
    ELSE IF n \in I THEN g[n - 1]
    ELSE Append(g[n - 1], seq[n])

IsKept(g, seq, I, n) == g = [k \in 0 .. n |-> KeptUp(seq, I, k, g)]

LEMMA KeptExists ==
  ASSUME NEW seq, NEW I, NEW n \in Nat
  PROVE  \E g : IsKept(g, seq, I, n)
<1> DEFINE S == {k \in 0 .. n : \E g : IsKept(g, seq, I, k)}
<1>1. 0 \in S
  <2> DEFINE g == [k \in 0 .. 0 |-> <<>>]
  <2>1. \A k \in 0 .. 0 : KeptUp(seq, I, k, g) = <<>>
    BY DEF KeptUp
  <2>2. IsKept(g, seq, I, 0)
    BY <2>1 DEF IsKept
  <2> QED
    BY <2>2
<1>2. ASSUME NEW k \in 0 .. n, k < n, k \in S PROVE k + 1 \in S
  <2>1. PICK g : IsKept(g, seq, I, k)
    BY <1>2
  <2> DEFINE last == IF k + 1 \in I THEN g[k] ELSE Append(g[k], seq[k + 1])
             h == [j \in 0 .. k + 1 |-> IF j = k + 1 THEN last ELSE g[j]]
  <2>2. ASSUME NEW j \in 0 .. k + 1 PROVE h[j] = KeptUp(seq, I, j, h)
    <3>1. CASE j = k + 1
      <4>1. h[j] = last
        BY <3>1
      <4>2. j # 0 /\ j - 1 = k /\ k \in 0 .. k + 1 /\ k # k + 1
        BY <3>1
      <4>3. h[j - 1] = g[k]
        BY <4>2
      <4> HIDE DEF h
      <4> QED
        BY <3>1, <4>1, <4>2, <4>3 DEF KeptUp
    <3>2. CASE j # k + 1
      <4>1. j \in 0 .. k /\ h[j] = g[j]
        BY <3>2
      <4>2. g[j] = KeptUp(seq, I, j, g)
        BY <2>1, <4>1 DEF IsKept
      <4>3. j # 0 => j - 1 \in 0 .. k + 1 /\ j - 1 # k + 1 /\ h[j - 1] = g[j - 1]
        BY <4>1
      <4> HIDE DEF h
      <4> QED
        BY <4>1, <4>2, <4>3 DEF KeptUp
    <3> QED
      BY <3>1, <3>2
  <2>3. h = [j \in 0 .. k + 1 |-> h[j]]
    OBVIOUS
  <2> HIDE DEF h
  <2>4. IsKept(h, seq, I, k + 1)
    BY <2>2, <2>3 DEF IsKept
  <2>5. k + 1 \in 0 .. n
    BY <1>2
  <2> QED
    BY <2>4, <2>5
<1> HIDE DEF S
<1>3. \A k \in 0 .. n : k \in S
  BY <1>1, <1>2, Climb
<1> QED
  BY <1>3 DEF S

\* The elements that stay are those that are not taken out.
Holds(seq, f) == \E j \in DOMAIN seq : seq[j] = f

LEMMA WithoutIs ==
  ASSUME NEW S, NEW seq \in Seq(S), NEW I
  PROVE  /\ Without(seq, I) \in Seq(S)
         /\ \A f \in Range(Without(seq, I)) : f \in Range(seq)
         /\ \A i \in DOMAIN seq : i \notin I => seq[i] \in Range(Without(seq, I))
<1> DEFINE g == CHOOSE f : IsKept(f, seq, I, Len(seq))
<1>1. IsKept(g, seq, I, Len(seq))
  BY KeptExists
<1>2. Without(seq, I) = g[Len(seq)]
  BY Zenon DEF Without, IsKept, KeptUp
<1> HIDE DEF g
<1>3. \A k \in 0 .. Len(seq) : g[k] = KeptUp(seq, I, k, g)
  BY <1>1 DEF IsKept
<1> DEFINE T == {n \in 0 .. Len(seq) :
                   /\ g[n] \in Seq(S)
                   /\ \A j \in DOMAIN g[n] : Holds(seq, g[n][j])
                   /\ \A i \in 1 .. n : i \notin I => Holds(g[n], seq[i])}
<1>4. 0 \in T
  <2>1. g[0] = <<>> /\ 0 \in 0 .. Len(seq)
    BY <1>3 DEF KeptUp
  <2>2. g[0] \in Seq(S) /\ DOMAIN g[0] = {}
    BY <2>1
  <2>3. 1 .. 0 = {}
    OBVIOUS
  <2> QED
    BY <2>1, <2>2, <2>3
<1>5. ASSUME NEW k \in 0 .. Len(seq), k < Len(seq), k \in T PROVE k + 1 \in T
  <2>1. k + 1 \in 0 .. Len(seq) /\ k + 1 # 0 /\ (k + 1) - 1 = k /\ k + 1 \in DOMAIN seq /\ k \in Nat
    BY <1>5
  <2>2. g[k + 1] = IF k + 1 \in I THEN g[k] ELSE Append(g[k], seq[k + 1])
    <3>1. g[k + 1] = KeptUp(seq, I, k + 1, g)
      BY <1>3, <2>1
    <3> QED
      BY <2>1, <3>1 DEF KeptUp
  <2>3. /\ g[k] \in Seq(S)
        /\ \A j \in DOMAIN g[k] : Holds(seq, g[k][j])
        /\ \A i \in 1 .. k : i \notin I => Holds(g[k], seq[i])
    BY <1>5
  <2>4. \A i \in 1 .. k + 1 : i \in 1 .. k \/ i = k + 1
    BY <2>1
  <2>5. CASE k + 1 \in I
    BY <2>1, <2>2, <2>3, <2>4, <2>5
  <2>6. CASE k + 1 \notin I
    <3>1. g[k + 1] = Append(g[k], seq[k + 1]) /\ seq[k + 1] \in S
      BY <2>1, <2>2, <2>6
    <3>2. g[k + 1] \in Seq(S) /\ Len(g[k + 1]) = Len(g[k]) + 1
      BY <2>3, <3>1
    <3>3. \A j \in DOMAIN g[k] : j \in DOMAIN g[k + 1] /\ g[k + 1][j] = g[k][j]
      BY <2>3, <3>1
    <3>4. Len(g[k]) + 1 \in DOMAIN g[k + 1] /\ g[k + 1][Len(g[k]) + 1] = seq[k + 1]
      BY <2>3, <3>1
    <3>5. \A j \in DOMAIN g[k + 1] : j \in DOMAIN g[k] \/ j = Len(g[k]) + 1
      BY <2>3, <3>2
    <3>6. ASSUME NEW j \in DOMAIN g[k + 1] PROVE Holds(seq, g[k + 1][j])
      <4>1. CASE j \in DOMAIN g[k]
        BY <2>3, <3>3, <4>1
      <4>2. CASE j = Len(g[k]) + 1
        BY <2>1, <3>4, <4>2 DEF Holds
      <4> QED
        BY <3>5, <4>1, <4>2
    <3>7. ASSUME NEW i \in 1 .. k + 1, i \notin I PROVE Holds(g[k + 1], seq[i])
      <4>1. CASE i \in 1 .. k
        <5>1. Holds(g[k], seq[i])
          BY <2>3, <3>7, <4>1
        <5> QED
          BY <3>3, <5>1 DEF Holds
      <4>2. CASE i = k + 1
        BY <3>4, <4>2 DEF Holds
      <4> QED
        BY <2>4, <4>1, <4>2
    <3> QED
      BY <2>1, <3>2, <3>6, <3>7
  <2> QED
    BY <2>5, <2>6
<1> HIDE DEF T
<1>6. \A n \in 0 .. Len(seq) : n \in T
  BY <1>4, <1>5, Climb
<1>7. Len(seq) \in 0 .. Len(seq) /\ DOMAIN seq = 1 .. Len(seq)
  OBVIOUS
<1>8. /\ g[Len(seq)] \in Seq(S)
      /\ \A j \in DOMAIN g[Len(seq)] : Holds(seq, g[Len(seq)][j])
      /\ \A i \in DOMAIN seq : i \notin I => Holds(g[Len(seq)], seq[i])
  BY <1>6, <1>7 DEF T
<1> QED
  BY <1>2, <1>8 DEF Range, Holds

LEMMA FileIn ==
  ASSUME NEW seq \in Seq(Files), NEW i \in DOMAIN seq
  PROVE  seq[i] \in Files /\ seq[i] \in Range(seq) /\ seq[i].cursor \in Nat
<1>1. seq[i] \in Files
  OBVIOUS
<1> QED
  BY <1>1 DEF Range, Files

LEMMA RangeIs ==
  ASSUME NEW seq \in Seq(Files), NEW f \in Range(seq)
  PROVE  f \in Files /\ f.cursor \in Nat /\ \E i \in DOMAIN seq : seq[i] = f
<1>1. PICK i \in DOMAIN seq : seq[i] = f
  BY DEF Range
<1> QED
  BY <1>1, FileIn

\* The cursor of the newest file is one of theirs, and none is greater.
LEMMA CursorsBounded ==
  ASSUME NEW seq \in Seq(Files)
  PROVE  \E b \in Nat : \A i \in DOMAIN seq : seq[i].cursor <= b
<1> DEFINE T == {n \in 0 .. Len(seq) : \E b \in Nat : \A i \in 1 .. n : seq[i].cursor <= b}
<1>1. 0 \in T
  OBVIOUS
<1>2. ASSUME NEW k \in 0 .. Len(seq), k < Len(seq), k \in T PROVE k + 1 \in T
  <2>1. PICK b \in Nat : \A i \in 1 .. k : seq[i].cursor <= b
    BY <1>2
  <2>2. k + 1 \in 1 .. Len(seq) /\ k + 1 \in 0 .. Len(seq) /\ k \in Nat
    BY <1>2
  <2>3. \A i \in 1 .. k + 1 : seq[i].cursor \in Nat
    <3>1. \A i \in 1 .. k + 1 : i \in DOMAIN seq
      BY <2>2
    <3> QED
      BY <3>1, FileIn
  <2>4. PICK c \in Nat : c >= b /\ c >= seq[k + 1].cursor
    <3>1. seq[k + 1].cursor \in Nat
      BY <2>2, <2>3
    <3>2. b + seq[k + 1].cursor \in Nat /\ b + seq[k + 1].cursor >= b /\ b + seq[k + 1].cursor >= seq[k + 1].cursor
      BY <3>1
    <3> QED
      BY <3>2
  <2>5. \A i \in 1 .. k + 1 : seq[i].cursor <= c
    BY <2>1, <2>2, <2>3, <2>4
  <2> QED
    BY <2>2, <2>5
<1> HIDE DEF T
<1>3. \A n \in 0 .. Len(seq) : n \in T
  BY <1>1, <1>2, Climb
<1>4. Len(seq) \in T
  BY <1>3
<1>5. DOMAIN seq = 1 .. Len(seq)
  OBVIOUS
<1> QED
  BY <1>4, <1>5 DEF T

LEMMA BestIs ==
  ASSUME NEW seq \in Seq(Files)
  PROVE  /\ Best(seq) \in Int
         /\ \A f \in Range(seq) : f.cursor <= Best(seq)
         /\ \/ Best(seq) = -1
            \/ \E i \in DOMAIN seq : seq[i].cursor = Best(seq)
         /\ Best(seq) >= -1
<1> DEFINE C == {-1} \cup {f.cursor : f \in Range(seq)}
<1>1. \A f \in Range(seq) : f.cursor \in Nat
  BY RangeIs
<1>2. C \in SUBSET Int /\ C # {}
  BY <1>1
<1>3. PICK b \in Nat : \A i \in DOMAIN seq : seq[i].cursor <= b
  BY CursorsBounded
<1>4. AtMost(C, b)
  BY <1>3 DEF AtMost, Range
<1>5. Best(seq) = Max(C)
  BY Zenon DEF Best
<1>6. Max(C) \in C /\ AtMost(C, Max(C))
  <2> HIDE DEF C
  <2> QED
    BY <1>2, <1>4, MaxOf
<1>7. \A x \in C : x <= Max(C)
  BY <1>6 DEF AtMost
<1> QED
  BY <1>2, <1>5, <1>6, <1>7 DEF Range

\* A series with more files has a newest one that is not older.
LEMMA BestGrows ==
  ASSUME NEW seq \in Seq(Files), NEW new \in Seq(Files),
         \A i \in DOMAIN seq : seq[i].cursor = Best(seq) => \E f \in Range(new) : f.cursor >= seq[i].cursor
  PROVE  Best(new) >= Best(seq)
<1>1. Best(new) \in Int /\ Best(seq) \in Int /\ Best(new) >= -1 /\ \A f \in Range(new) : f.cursor <= Best(new)
  BY BestIs
<1>2. CASE Best(seq) = -1
  BY <1>1, <1>2
<1>3. ASSUME NEW i \in DOMAIN seq, seq[i].cursor = Best(seq) PROVE Best(new) >= Best(seq)
  <2>1. PICK f \in Range(new) : f.cursor >= seq[i].cursor
    BY <1>3
  <2>2. f.cursor \in Nat
    BY RangeIs
  <2> QED
    BY <1>1, <1>3, <2>1, <2>2
<1> QED
  BY <1>2, <1>3, BestIs

\* retain_two keeps a file with the highest cursor.
LEMMA SurplusKeepsBest ==
  ASSUME NEW seq \in Seq(Files), NEW m \in DOMAIN seq, seq[m].cursor = Best(seq)
  PROVE  \E i \in DOMAIN seq : i \notin Surplus(seq) /\ seq[i].cursor = Best(seq)
<1> DEFINE T == {i \in DOMAIN seq : seq[i].cursor = Best(seq)}
<1>1. T \in SUBSET Int /\ T # {} /\ AtMost(T, Len(seq)) /\ Len(seq) \in Int
  BY DEF AtMost
<1>2. Max(T) \in T /\ AtMost(T, Max(T))
  <2> HIDE DEF T
  <2> QED
    BY <1>1, MaxOf
<1> DEFINE i == Max(T)
<1>3. i \in DOMAIN seq /\ seq[i].cursor = Best(seq) /\ i \in Int /\ \A j \in T : j <= i
  BY <1>2 DEF AtMost
<1> HIDE DEF i
<1>4. ASSUME NEW j \in DOMAIN seq, Newer(seq, j, i) PROVE FALSE
  <2>1. seq[j].cursor <= Best(seq) /\ seq[j].cursor \in Nat /\ Best(seq) \in Int
    BY BestIs, FileIn
  <2>2. seq[j].cursor = seq[i].cursor /\ j > i
    BY <1>3, <1>4, <2>1 DEF Newer
  <2>3. j \in T
    BY <1>3, <2>2
  <2> QED
    BY <1>3, <2>2, <2>3
<1>5. {j \in DOMAIN seq : Newer(seq, j, i)} = {}
  BY <1>4
<1>6. Cardinality({j \in DOMAIN seq : Newer(seq, j, i)}) = 0
  BY <1>5, FS_EmptySet
<1>7. i \notin Surplus(seq)
  <2>1. SUFFICES ASSUME i \in Surplus(seq) PROVE FALSE
    OBVIOUS
  <2>2. Cardinality({j \in DOMAIN seq : Newer(seq, j, i)}) >= 2
    BY <2>1, Zenon DEF Surplus
  <2> QED
    BY <1>6, <2>2
<1> QED
  BY <1>3, <1>7

----------------------------------------------------------------------------
(* What a command publishes *)

Commands == [part : Nat, cursor : Nat, rows : RowMaps]

LEMMA CheckpointIs ==
  ASSUME NEW d, NEW r \in RowMaps, NEW p
  PROVE  /\ CheckpointPartition(d, r, p) \in RowMaps
         /\ \A k : k \in DOMAIN CheckpointPartition(d, r, p) <=> k \in DOMAIN r /\ d.part[r[k].stream] = p
         /\ \A k \in DOMAIN CheckpointPartition(d, r, p) : CheckpointPartition(d, r, p)[k] = r[k]
<1> DEFINE D == {k \in DOMAIN r : d.part[r[k].stream] = p}
<1>1. PICK E \in SUBSET Keys : r \in [E -> [at : Nat, stream : Streams]]
  BY DEF RowMaps
<1>2. CheckpointPartition(d, r, p) = [k \in D |-> r[k]]
  BY DEF CheckpointPartition
<1>3. D \in SUBSET Keys /\ [k \in D |-> r[k]] \in [D -> [at : Nat, stream : Streams]]
  BY <1>1
<1>4. CheckpointPartition(d, r, p) \in RowMaps
  BY <1>2, <1>3 DEF RowMaps
<1> QED
  BY <1>2, <1>4

LEMMA ProjectionIs ==
  ASSUME NEW q, NEW d \in Descriptors, IsProjection(q, d), NEW p \in Partitions(d)
  PROVE  /\ q.desc[1] = d /\ q.desc # <<>> /\ q.cursor \in Nat
         /\ q.parts \in [Partitions(d) -> Part] /\ q.parts[p] \in Part /\ q.parts[p].cursor \in Nat
         /\ q.parts[p].kind \in {"Cold", "Ready", "Failed"}
<1>1. q.desc = <<d>> /\ q.cursor \in Nat /\ q.parts \in [Partitions(d) -> Part]
  BY DEF IsProjection
<1> QED
  BY <1>1 DEF Part

\* All events of a key are of the partition, if that is the only one.
LEMMA SingleOwns ==
  ASSUME NEW d \in Descriptors, d.count = 1, NEW l \in Seq(Kinds), NEW p \in Partitions(d),
         NEW r, NEW c \in Nat, c <= Len(l), Covers(l, d, 0, r, c, Len(l))
  PROVE  Covers(l, d, p, r, c, c)
<1>1. p = 0 /\ Partitions(d) = {0} /\ Len(l) \in Nat
  BY DescIs
<1>2. ASSUME NEW k \in Keys PROVE OwnUpTo(l, d, 0, k, Len(l))
  <2>1. \A i \in FoldsIn(l, d, k, Len(l)) : l[i].stream \in Streams
    BY KindIs DEF FoldsIn
  <2> QED
    BY <1>1, <2>1, DescIs DEF OwnUpTo
<1>3. \A k \in Keys : \A i \in FoldsIn(l, d, k, c) : i <= Row(r, k)
  BY <1>2 DEF Covers
<1> QED
  BY <1>3 DEF Covers

LEMMA SnapshotIs ==
  ASSUME NEW d \in Descriptors, NEW q, IsProjection(q, d), NEW r \in RowMaps, NEW p \in Partitions(d)
  PROVE  /\ Snapshot(q, r, p) \in Commands
         /\ Snapshot(q, r, p).part = p
         /\ Snapshot(q, r, p).cursor = IF d.count = 1 THEN q.cursor ELSE q.parts[p].cursor
         /\ Snapshot(q, r, p).rows = IF d.count = 1 THEN r ELSE CheckpointPartition(d, r, p)
<1>1. q.desc[1] = d /\ q.cursor \in Nat /\ q.parts[p].cursor \in Nat
  BY ProjectionIs
<1>2. CheckpointPartition(d, r, p) \in RowMaps /\ p \in Nat
  <2>1. CheckpointPartition(d, r, p) \in RowMaps
    BY CheckpointIs
  <2>2. p \in Nat
    BY DescIs
  <2> QED
    BY <2>1, <2>2
<1>3. Snapshot(q, r, p) = [part |-> p, cursor |-> IF d.count = 1 THEN q.cursor ELSE q.parts[p].cursor,
                           rows |-> IF d.count = 1 THEN r ELSE CheckpointPartition(d, r, p)]
  BY <1>1 DEF Snapshot, SnapshotCursor
<1> QED
  BY <1>1, <1>2, <1>3 DEF Commands

\* A snapshot is taken of a partition that is at the head or at the start, and
\* of a single one when the whole is ready.
SnapshotDue(l, d, q, p) ==
    /\ q.runtime = "json"
    /\ d.count = 1 => q.status = "Ready"
    /\ d.count # 1 => \/ q.parts[p].kind = "Ready" /\ q.parts[p].cursor = Len(l)
                      \/ q.parts[p].kind = "Cold"

LEMMA SnapshotSound ==
  ASSUME NEW l \in Seq(Kinds), NEW d \in Descriptors, NEW q, IsProjection(q, d), NEW r \in RowMaps,
         NEW p \in Partitions(d), SnapshotDue(l, d, q, p), ProjectionSound(l, q, r)
  PROVE  FileSound(l, d, p, Snapshot(q, r, p))
<1> DEFINE s == Snapshot(q, r, p)
<1>1. /\ s.cursor = IF d.count = 1 THEN q.cursor ELSE q.parts[p].cursor
      /\ s.rows = IF d.count = 1 THEN r ELSE CheckpointPartition(d, r, p)
  BY SnapshotIs
<1>2. /\ q.desc[1] = d /\ q.desc # <<>> /\ q.cursor \in Nat /\ q.parts[p].cursor \in Nat
      /\ Len(l) \in Nat
  BY ProjectionIs
<1>3. /\ RowsFrom(l, d, r) /\ StatusSound(l, d, q, r)
      /\ PartSound(l, d, q.runtime, r, p, q.parts[p])
  BY <1>2 DEF ProjectionSound, PartsSound, InHand
<1> HIDE DEF s
<1>4. CASE d.count = 1
  <2>1. s.cursor = q.cursor /\ s.rows = r
    BY <1>1, <1>4
  <2>2. /\ q.cursor <= Len(l) /\ Refused(l, q.runtime, Selected(l, d, 0, 0, q.cursor)) = {}
        /\ Covers(l, d, 0, r, q.cursor, Len(l))
    BY <1>3, <1>4 DEF SnapshotDue, StatusSound
  <2>3. p = 0
    BY <1>4, DescIs
  <2>4. \A i \in Selected(l, d, p, 0, q.cursor) : l[i].good
    BY <2>2, <2>3 DEF Refused
  <2>5. Covers(l, d, p, r, q.cursor, q.cursor)
    BY <1>2, <1>4, <2>2, SingleOwns
  <2> QED
    BY <1>3, <1>4, <2>1, <2>2, <2>4, <2>5 DEF FileSound, s
<1>5. CASE d.count # 1
  <2> DEFINE own == CheckpointPartition(d, r, p)
             c == q.parts[p].cursor
  <2>1. s.cursor = c /\ s.rows = own
    BY <1>1, <1>5
  <2>2. /\ \A k : k \in DOMAIN own <=> k \in DOMAIN r /\ d.part[r[k].stream] = p
        /\ \A k \in DOMAIN own : own[k] = r[k]
    BY CheckpointIs
  <2>3. (c = Len(l) /\ q.parts[p].kind = "Ready") \/ c = 0
    BY <1>3, <1>5 DEF SnapshotDue, PartSound
  <2> HIDE DEF own
  <2>4. RowsFrom(l, d, own)
    BY <1>3, <2>2 DEF RowsFrom
  <2>5. \A k \in DOMAIN own : d.part[own[k].stream] = p
    BY <2>2
  <2>6. CASE c = 0
    <3>1. Selected(l, d, p, 0, 0) = {} /\ Covers(l, d, p, own, 0, 0)
      BY DEF Selected, Covers, FoldsIn
    <3> QED
      BY <1>2, <1>5, <2>1, <2>4, <2>5, <2>6, <3>1 DEF FileSound, s
  <2>7. CASE c = Len(l) /\ q.parts[p].kind = "Ready"
    <3>1. Refused(l, q.runtime, Selected(l, d, p, 0, Len(l))) = {} /\ Covers(l, d, p, r, Len(l), Len(l))
      BY <1>3, <2>7 DEF PartSound
    <3>2. \A i \in Selected(l, d, p, 0, Len(l)) : l[i].good
      BY <3>1 DEF Refused
    <3>3. ASSUME NEW k \in Keys, OwnUpTo(l, d, p, k, Len(l)), NEW i \in FoldsIn(l, d, k, Len(l))
          PROVE  i <= Row(own, k)
      <4>1. i <= Row(r, k) /\ i \in Nat /\ i # 0
        BY <3>1, <3>3 DEF Covers, FoldsIn
      <4>2. k \in DOMAIN r
        BY <4>1 DEF Row
      <4>3. d.part[r[k].stream] = p
        BY <1>3, <3>3, <4>2, OwnRow
      <4> QED
        BY <2>2, <4>1, <4>2, <4>3 DEF Row
    <3>4. Covers(l, d, p, own, Len(l), Len(l))
      BY <3>3 DEF Covers
    <3> QED
      BY <1>2, <1>5, <2>1, <2>4, <2>5, <2>7, <3>2, <3>4 DEF FileSound, s
  <2> QED
    BY <2>3, <2>6, <2>7
<1> QED
  BY <1>4, <1>5

\* Ready partitions are at the end of the log.
AtHead(l, parts) == \A p \in DOMAIN parts : parts[p].kind = "Ready" => parts[p].cursor = Len(l)

LEMMA ToPublishIs ==
  ASSUME NEW d \in Descriptors, NEW q, IsProjection(q, d), NEW r \in RowMaps
  PROVE  /\ ToPublish(q, r) \in Seq(Commands)
         /\ \A j \in DOMAIN ToPublish(q, r) : ToPublish(q, r)[j].part \in Partitions(q.desc[1])
<1>1. q.desc[1] = d /\ q.desc # <<>>
  BY DEF IsProjection
<1>2. d.count \in Nat /\ Partitions(d) = 0 .. d.count - 1
  BY DescIs
<1>3. CASE ToPublish(q, r) = <<>>
  BY <1>3
<1>4. CASE ToPublish(q, r) = [j \in 1 .. d.count |-> Snapshot(q, r, j - 1)]
  <2>1. ASSUME NEW j \in 1 .. d.count PROVE Snapshot(q, r, j - 1) \in Commands /\ Snapshot(q, r, j - 1).part \in Partitions(d)
    <3>1. j - 1 \in Partitions(d)
      BY <1>2
    <3> QED
      BY <3>1, SnapshotIs
  <2> DEFINE f == [j \in 1 .. d.count |-> Snapshot(q, r, j - 1)]
  <2>2. f \in Seq(Commands) /\ DOMAIN f = 1 .. d.count
    BY <1>2, <2>1
  <2>3. \A j \in DOMAIN f : f[j].part \in Partitions(d)
    BY <2>1, <2>2
  <2> QED
    BY <1>1, <1>4, <2>2, <2>3
<1> QED
  BY <1>1, <1>3, <1>4 DEF ToPublish

LEMMA ToPublishSound ==
  ASSUME NEW l \in Seq(Kinds), NEW d \in Descriptors, NEW q, IsProjection(q, d), NEW r \in RowMaps,
         ProjectionSound(l, q, r), AtHead(l, q.parts)
  PROVE  PendingSound(l, q, ToPublish(q, r))
<1>1. q.desc[1] = d /\ q.desc # <<>>
  BY DEF IsProjection
<1>2. d.count \in Nat /\ Partitions(d) = 0 .. d.count - 1
  BY DescIs
<1>3. CASE ToPublish(q, r) = <<>>
  BY <1>3 DEF PendingSound
<1>4. CASE /\ q.runtime = "json" /\ q.status = "Ready"
           /\ ToPublish(q, r) = [j \in 1 .. d.count |-> Snapshot(q, r, j - 1)]
  <2>1. ASSUME NEW j \in 1 .. d.count
        PROVE  /\ ToPublish(q, r)[j] = Snapshot(q, r, j - 1)
               /\ FileSound(l, d, ToPublish(q, r)[j].part, ToPublish(q, r)[j])
    <3>1. j - 1 \in Partitions(d)
      BY <1>2
    <3>2. q.parts[j - 1].kind # "Failed"
      BY <1>1, <1>4, <3>1 DEF ProjectionSound, StatusSound
    <3>3. q.parts[j - 1].kind \in {"Cold", "Ready", "Failed"} /\ j - 1 \in DOMAIN q.parts
      BY <3>1, ProjectionIs
    <3>4. SnapshotDue(l, d, q, j - 1)
      BY <1>4, <3>2, <3>3 DEF SnapshotDue, AtHead
    <3>5. FileSound(l, d, j - 1, Snapshot(q, r, j - 1)) /\ Snapshot(q, r, j - 1).part = j - 1
      BY <3>1, <3>4, SnapshotSound, SnapshotIs
    <3>6. ToPublish(q, r)[j] = Snapshot(q, r, j - 1)
      BY <1>4
    <3> QED
      BY <3>5, <3>6
  <2>2. DOMAIN ToPublish(q, r) = 1 .. d.count
    BY <1>4
  <2> QED
    BY <1>1, <2>1, <2>2 DEF PendingSound
<1> QED
  BY <1>1, <1>3, <1>4 DEF ToPublish

----------------------------------------------------------------------------
(* A reset *)

LEMMA DrivenIs ==
  ASSUME Shape, Exists
  PROVE  /\ Driven.rows \in RowMaps /\ RowsFrom(events, desc, Driven.rows)
         /\ Driven.status.kind \in {"Ready", "Failed"} /\ Driven.status.cursor \in Nat
         /\ Driven.partial => Driven.status.kind = "Failed"
         /\ ~Driven.partial =>
               /\ Driven.status.cursor = Len(events)
               /\ \A p \in Partitions(desc), start \in Nat, c \in 0 .. Len(events) :
                     Refused(events, projection.runtime, Selected(events, desc, p, start, c)) = {}
               /\ \A p \in Partitions(desc), c \in 0 .. Len(events) : Covers(events, desc, p, Driven.rows, c, Len(events))
<1> DEFINE l == events
           runtime == projection.runtime
           all == {i \in 1 .. Head0 : Selects(l, desc, i)}
           refused == Refused(l, runtime, all)
           read == Read(l, runtime, all)
           new == Applied(l, NoRows, read)
<1>1. l \in Seq(Kinds) /\ desc \in Descriptors /\ Head0 = Len(l) /\ Len(l) \in Nat
  BY DescShape DEF Shape, OnDisk, Head0
<1>2. /\ Driven.status = IF refused = {} THEN At("Ready", Head0) ELSE At("Failed", Min(refused) - 1)
      /\ Driven.rows = new
      /\ Driven.partial <=> refused # {}
  BY Zenon DEF Driven
<1>3. read \subseteq all /\ all \in SUBSET (1 .. Len(l)) /\ (refused = {} => read = all)
  BY <1>1 DEF Read
<1>4. refused \in SUBSET (1 .. Len(l))
  BY <1>3 DEF Refused
<1>5. ASSUME NEW i \in read PROVE l[i].good /\ Selects(l, desc, i) /\ i \in 1 .. Len(l)
  <2>1. i \in all /\ i \in 1 .. Len(l)
    BY <1>3
  <2>2. i \notin Refused(l, runtime, all)
    BY <2>1 DEF Read
  <2> QED
    BY <2>1, <2>2 DEF Refused
<1>6. /\ new \in RowMaps
      /\ \A k \in DOMAIN new :
               \/ k \in DOMAIN NoRows /\ new[k] = NoRows[k]
               \/ new[k].at \in read /\ l[new[k].at].key = k /\ new[k].stream = l[new[k].at].stream
      /\ \A i \in read : Row(new, l[i].key) \in read /\ i <= Row(new, l[i].key)
  <2>1. NoRows \in RowMaps /\ read \in SUBSET (1 .. Len(l))
    BY <1>3, NoRowsIs
  <2> HIDE DEF read
  <2> QED
    BY <1>1, <2>1, AppliedIs
<1> HIDE DEF read, new
<1>7. RowsFrom(l, desc, new)
  <2>1. ASSUME NEW k \in DOMAIN new PROVE new[k].at \in read /\ l[new[k].at].key = k /\ new[k].stream = l[new[k].at].stream
    BY <1>6, NoRowsIs
  <2> QED
    BY <1>5, <2>1 DEF RowsFrom, FoldsIn
<1>8. ASSUME refused = {}, NEW p, NEW start \in Nat, NEW c \in 0 .. Len(l)
      PROVE  Refused(l, runtime, Selected(l, desc, p, start, c)) = {}
  <2>1. Selected(l, desc, p, start, c) \subseteq all
    BY <1>1 DEF Selected
  <2> QED
    BY <1>8, <2>1 DEF Refused
<1>9. ASSUME refused = {}, NEW p, NEW c \in 0 .. Len(l) PROVE Covers(l, desc, p, new, c, Len(l))
  <2>1. SUFFICES ASSUME NEW k \in Keys, NEW i \in FoldsIn(l, desc, k, c) PROVE i <= Row(new, k)
    BY DEF Covers
  <2>2. i \in all /\ l[i].key = k
    BY <1>1 DEF FoldsIn
  <2>3. i \in read
    BY <1>3, <1>9, <2>2
  <2> QED
    BY <1>6, <2>2, <2>3
<1> HIDE DEF all
<1>10. CASE refused = {}
  <2>1. Driven.status = At("Ready", Head0)
    BY <1>2, <1>10
  <2>2. Driven.status.kind = "Ready" /\ Driven.status.cursor = Len(l)
    BY <1>1, <2>1 DEF At
  <2> HIDE DEF refused
  <2>3. /\ \A p \in Partitions(desc), start \in Nat, c \in 0 .. Len(l) : Refused(l, runtime, Selected(l, desc, p, start, c)) = {}
        /\ \A p \in Partitions(desc), c \in 0 .. Len(l) : Covers(l, desc, p, new, c, Len(l))
    BY <1>8, <1>9, <1>10
  <2> QED
    BY <1>1, <1>2, <1>6, <1>7, <1>10, <2>2, <2>3
<1>11. CASE refused # {}
  <2>1. Driven.status = At("Failed", Min(refused) - 1)
    BY <1>2, <1>11
  <2>2. Min(refused) \in 1 .. Len(l)
    <3>1. refused \in SUBSET Nat
      BY <1>4
    <3> HIDE DEF refused
    <3> QED
      BY <1>4, <1>11, <3>1, MinOf
  <2>3. Driven.status.kind = "Failed" /\ Driven.status.cursor \in Nat
    BY <1>1, <2>1, <2>2 DEF At
  <2> HIDE DEF refused
  <2> QED
    BY <1>2, <1>6, <1>7, <1>11, <2>3
<1> QED
  BY <1>10, <1>11

----------------------------------------------------------------------------
(* What the actions put in place *)

LEMMA NoneIs ==
  ASSUME NEW l, NEW reg, NEW ph
  PROVE  /\ InMemory(l, reg, ph, NoProjection, NoRows)
         /\ ProjectionSound(l, NoProjection, NoRows)
<1>1. NoProjection.desc = <<>>
  BY DEF NoProjection
<1> QED
  BY <1>1, NoRowsIs DEF InMemory, ProjectionSound

LEMMA NothingPending ==
  ASSUME NEW l, NEW q, NEW ph \in {"down", "idle"}
  PROVE  InCommand(ph, q, <<>>) /\ PendingSound(l, q, <<>>)
BY DEF InCommand, PendingSound

LEMMA FreshIs ==
  ASSUME NEW l \in Seq(Kinds), NEW d \in Descriptors, NEW runtime \in {"json", "native", "missing"},
         NEW status \in {"Building", "Stale"}
  PROVE  /\ InMemory(l, <<d>>, "idle", Fresh(d, runtime, status), NoRows)
         /\ ProjectionSound(l, Fresh(d, runtime, status), NoRows)
<1> DEFINE q == Fresh(d, runtime, status)
<1>1. /\ q.desc = <<d>> /\ q.runtime = runtime /\ q.status = status /\ q.cursor = 0
      /\ q.parts = [p \in Partitions(d) |-> At("Cold", 0)]
      /\ q = [desc |-> q.desc, runtime |-> q.runtime, status |-> q.status, cursor |-> q.cursor, parts |-> q.parts]
  BY DEF Fresh, ColdPartitions
<1> HIDE DEF q
<1>2. At("Cold", 0) \in Part /\ At("Cold", 0).kind = "Cold" /\ At("Cold", 0).cursor = 0
  BY DEF At, Part
<1>3. \A p \in Partitions(d) : q.parts[p].kind = "Cold" /\ q.parts[p].cursor = 0
  BY <1>1, <1>2
<1>4. IsProjection(q, d)
  BY <1>1, <1>2 DEF IsProjection
<1>5. q.desc # <<>> /\ q.desc[1] = d /\ Len(l) \in Nat
  BY <1>1
<1>6. Bounded(q.parts, Len(l))
  BY <1>1, <1>3, <1>5 DEF Bounded
<1>7. InMemory(l, <<d>>, "idle", q, NoRows)
  BY <1>1, <1>4, <1>5, <1>6, NoRowsIs DEF InMemory
<1>8. RowsFrom(l, d, NoRows)
  BY NoRowsIs DEF RowsFrom
<1>9. PartsSound(l, d, q.runtime, InHand(q, NoRows))
  <2>1. InHand(q, NoRows).parts = q.parts /\ InHand(q, NoRows).rows = NoRows
    BY DEF InHand
  <2>2. \A p \in Partitions(d) : PartSound(l, d, q.runtime, NoRows, p, q.parts[p])
    BY <1>3, <1>5 DEF PartSound
  <2> QED
    BY <1>8, <2>1, <2>2 DEF PartsSound
<1>10. StatusSound(l, d, q, NoRows)
  BY <1>1 DEF StatusSound
<1> QED
  BY <1>5, <1>7, <1>9, <1>10 DEF ProjectionSound, q

\* What a heal in the log l leaves, of the one in `events` with files and of a
\* longer one without.
LEMMA HealStep ==
  ASSUME Shape, Exists, phase # "down", NEW l \in Seq(Kinds), NEW P \in SUBSET Partitions(desc),
         NEW target \in 0 .. Len(l), NEW root \in BOOLEAN, Agree(events, l, Len(events)),
         root => l = events
  PROVE  /\ IsProjection(Healed(Heal(l, P, target, root).parts), desc)
         /\ Heal(l, P, target, root).rows \in RowMaps
         /\ InMemory(l, registered, "idle", Healed(Heal(l, P, target, root).parts), Heal(l, P, target, root).rows)
         /\ Healthy(P, target, Healed(Heal(l, P, target, root).parts).parts)
         /\ Healed(Heal(l, P, target, root).parts).parts = Heal(l, P, target, root).parts
         /\ Healed(Heal(l, P, target, root).parts).desc = projection.desc
         /\ Healed(Heal(l, P, target, root).parts).runtime = projection.runtime
         /\ ProjectionSound(events, projection, rows) /\ FilesSound(events, snapshots)
               => ProjectionSound(l, Healed(Heal(l, P, target, root).parts), Heal(l, P, target, root).rows)
<1> DEFINE q == Heal(l, P, target, root)
<1>1. /\ desc \in Descriptors /\ InHand(projection, rows) \in InHands(desc)
      /\ events \in Seq(Kinds) /\ Len(events) \in Nat /\ Len(l) \in Nat /\ Len(events) <= Len(l)
      /\ projection.desc # <<>> /\ registered = projection.desc /\ Bounded(projection.parts, Len(events))
      /\ IsProjection(projection, desc) /\ projection.desc[1] = desc
  BY DescShape DEF Shape, OnDisk, InMemory, Agree, Exists, desc
<1>2. Bounded(projection.parts, Len(l))
  <2>1. DOMAIN projection.parts = Partitions(desc)
    BY <1>1 DEF InHand, InHands
  <2>2. \A p \in DOMAIN projection.parts : projection.parts[p].cursor \in Nat
    BY <1>1, <2>1, ProjectionIs
  <2> QED
    BY <1>1, <2>2 DEF Bounded
<1>3. /\ q \in InHands(desc)
      /\ Healthy(P, target, q.parts)
      /\ PartsSound(l, desc, projection.runtime, InHand(projection, rows))
               /\ (root => l = events /\ FilesSound(events, snapshots))
               => PartsSound(l, desc, projection.runtime, q)
      /\ Bounded(q.parts, Len(l))
  BY <1>2, HealGood
<1> HIDE DEF q
<1>4. q.parts \in [Partitions(desc) -> Part] /\ q.rows \in RowMaps
  BY <1>3 DEF InHands
<1>5. /\ IsProjection(Healed(q.parts), desc) /\ Healed(q.parts).desc = projection.desc
      /\ Healed(q.parts).parts = q.parts /\ Healed(q.parts).runtime = projection.runtime
  BY <1>4, HealedIs
<1>6. InMemory(l, registered, "idle", Healed(q.parts), q.rows)
  BY <1>1, <1>3, <1>4, <1>5 DEF InMemory
<1>7. ASSUME ProjectionSound(events, projection, rows), FilesSound(events, snapshots)
      PROVE  ProjectionSound(l, Healed(q.parts), q.rows)
  <2>1. PartsSound(events, desc, projection.runtime, InHand(projection, rows))
    BY <1>1, <1>7 DEF ProjectionSound
  <2>2. PartsSound(l, desc, projection.runtime, InHand(projection, rows))
    BY <1>1, <2>1, PartsLonger
  <2>3. PartsSound(l, desc, projection.runtime, q)
    BY <1>3, <1>7, <2>2
  <2> QED
    BY <1>3, <2>3, HealedSound
<1> QED
  BY <1>3, <1>4, <1>5, <1>6, <1>7 DEF q

LEMMA AgreeSame ==
  ASSUME NEW l \in Seq(Kinds)
  PROVE  Agree(l, l, Len(l))
BY DEF Agree

----------------------------------------------------------------------------
(* The actions *)

LEMMA InitPInv ==
  ASSUME Init
  PROVE  PInv
<1>1. OnDisk(events, synced, registered, snapshots)
  <2>1. events = <<>> /\ synced = 0 /\ registered = <<>> /\ snapshots = NoSnapshots
    BY DEF Init
  <2>2. MaxEvents \in Nat
    BY ProjectionsAssumption
  <2>3. \A d \in Descriptors : NoSnapshots[d] \in [Partitions(d) -> Seq(Files)]
    BY DEF NoSnapshots
  <2>4. NoSnapshots = [d \in Descriptors |-> NoSnapshots[d]]
    BY DEF NoSnapshots
  <2> HIDE DEF NoSnapshots
  <2> QED
    BY <2>1, <2>2, <2>3, <2>4 DEF OnDisk, Stored
<1>2. InMemory(events, registered, phase, projection, rows) /\ ProjectionSound(events, projection, rows)
  BY NoneIs DEF Init
<1>3. InCommand(phase, projection, pending) /\ PendingSound(events, projection, pending)
  BY NothingPending DEF Init
<1>4. FilesSound(events, snapshots)
  BY DEF Init, NoSnapshots, FilesSound, Range
<1> QED
  BY <1>1, <1>2, <1>3, <1>4 DEF PInv, Shape, Sound

LEMMA OpenPInv ==
  ASSUME PInv, Open
  PROVE  PInv'
<1>1. /\ events' = events /\ synced' = synced /\ registered' = registered /\ snapshots' = snapshots
      /\ rows' = rows /\ pending' = pending /\ lapses' = lapses /\ phase = "down" /\ phase' = "idle"
      /\ projection' = IF registered = <<>> THEN NoProjection
                       ELSE IF registered[1].native THEN Fresh(registered[1], "missing", "Stale")
                            ELSE Fresh(registered[1], "json", "Building")
  BY Zenon DEF Open, disk
<1>2. /\ OnDisk(events, synced, registered, snapshots) /\ pending = <<>> /\ rows = NoRows
      /\ events \in Seq(Kinds) /\ registered \in {<<>>} \cup {<<d>> : d \in Descriptors}
  BY <1>1 DEF PInv, Shape, OnDisk, InMemory, InCommand
<1>3. InMemory(events, registered, "idle", projection', NoRows) /\ ProjectionSound(events, projection', NoRows)
  <2>1. CASE registered = <<>>
    BY <1>1, <2>1, NoneIs
  <2>2. CASE registered # <<>>
    <3>1. registered[1] \in Descriptors /\ registered = <<registered[1]>>
      BY <1>2, <2>2
    <3>2. \/ projection' = Fresh(registered[1], "missing", "Stale")
          \/ projection' = Fresh(registered[1], "json", "Building")
      BY <1>1, <2>2
    <3> QED
      BY <1>2, <3>1, <3>2, FreshIs
  <2> QED
    BY <2>1, <2>2
<1>4. InCommand("idle", projection', <<>>) /\ PendingSound(events, projection', <<>>)
  BY NothingPending
<1> QED
  BY <1>1, <1>2, <1>3, <1>4 DEF PInv, Shape, Sound

LEMMA QueryPInv ==
  ASSUME PInv, NEW P, NEW target \in Nat, Query(P, target)
  PROVE  PInv'
<1> DEFINE q == Heal(events, P, target, TRUE)
<1>1. /\ events' = events /\ synced' = synced /\ registered' = registered /\ snapshots' = snapshots
      /\ phase' = phase /\ pending' = pending /\ lapses' = lapses /\ phase = "idle" /\ Exists
      /\ projection' = Healed(q.parts) /\ rows' = q.rows
      /\ P \in SUBSET Partitions(desc) /\ target <= Len(events)
  BY Zenon DEF Query, disk, Head0
<1>2. OnDisk(events, synced, registered, snapshots) /\ pending = <<>> /\ events \in Seq(Kinds)
  BY <1>1 DEF PInv, Shape, OnDisk, InCommand
<1>3. target \in 0 .. Len(events) /\ Agree(events, events, Len(events))
  BY <1>1, <1>2, AgreeSame
<1>4. /\ InMemory(events, registered, "idle", Healed(q.parts), q.rows)
      /\ ProjectionSound(events, projection, rows) /\ FilesSound(events, snapshots)
               => ProjectionSound(events, Healed(q.parts), q.rows)
  BY <1>1, <1>2, <1>3, HealStep DEF PInv
<1>5. InCommand("idle", projection', <<>>) /\ PendingSound(events, projection', <<>>)
  BY NothingPending
<1> HIDE DEF q
<1> QED
  BY <1>1, <1>2, <1>4, <1>5 DEF PInv, Shape, Sound

\* A command that has healed goes on with the files it has to publish.
LEMMA PublishingIs ==
  ASSUME NEW q, NEW d \in Descriptors, IsProjection(q, d), NEW files \in Seq(Commands),
         \A j \in DOMAIN files : files[j].part \in Partitions(d)
  PROVE  InCommand(IF files = <<>> THEN "idle" ELSE "publishing", q, files)
<1>1. q.desc # <<>> /\ q.desc[1] = d
  BY DEF IsProjection
<1> QED
  BY <1>1 DEF InCommand, Commands

LEMMA CreateSnapshotPInv ==
  ASSUME PInv, CreateSnapshot
  PROVE  PInv'
<1> DEFINE q == Heal(events, Partitions(desc), Head0, TRUE)
           files == ToPublish(Healed(q.parts), q.rows)
<1>1. /\ events' = events /\ synced' = synced /\ registered' = registered /\ snapshots' = snapshots
      /\ lapses' = lapses /\ phase = "idle" /\ Exists
      /\ projection' = Healed(q.parts) /\ rows' = q.rows
      /\ pending' = files /\ phase' = IF files = <<>> THEN "idle" ELSE "publishing"
  BY Zenon DEF CreateSnapshot, Publishing, disk
<1>2. OnDisk(events, synced, registered, snapshots) /\ events \in Seq(Kinds) /\ desc \in Descriptors
  BY <1>1, DescShape DEF PInv, Shape, OnDisk
<1>3. Head0 = Len(events) /\ Head0 \in 0 .. Len(events) /\ Agree(events, events, Len(events))
  BY <1>2, AgreeSame DEF Head0
<1>4. Partitions(desc) \in SUBSET Partitions(desc)
  OBVIOUS
<1>5. /\ IsProjection(Healed(q.parts), desc) /\ q.rows \in RowMaps
      /\ InMemory(events, registered, "idle", Healed(q.parts), q.rows)
      /\ Healthy(Partitions(desc), Head0, Healed(q.parts).parts)
      /\ ProjectionSound(events, projection, rows) /\ FilesSound(events, snapshots)
               => ProjectionSound(events, Healed(q.parts), q.rows)
  BY <1>1, <1>2, <1>3, <1>4, HealStep DEF PInv
<1> HIDE DEF q
<1>6. AtHead(events, Healed(q.parts).parts)
  <2>1. DOMAIN Healed(q.parts).parts = Partitions(desc)
    BY <1>5 DEF IsProjection
  <2> QED
    BY <1>3, <1>5, <2>1 DEF AtHead, Healthy
<1>7. InCommand(phase', projection', pending')
  <2>1. Healed(q.parts).desc[1] = desc
    BY <1>5 DEF IsProjection
  <2>2. files \in Seq(Commands) /\ \A j \in DOMAIN files : files[j].part \in Partitions(desc)
    BY <1>2, <1>5, <2>1, ToPublishIs
  <2> HIDE DEF files
  <2> QED
    BY <1>1, <1>2, <1>5, <2>2, PublishingIs
<1>8. ProjectionSound(events, Healed(q.parts), q.rows) => PendingSound(events, Healed(q.parts), files)
  BY <1>2, <1>5, <1>6, ToPublishSound
<1> HIDE DEF files
<1>9. InMemory(events, registered, phase', projection', rows')
  BY <1>1, <1>5 DEF InMemory
<1> QED
  BY <1>1, <1>2, <1>5, <1>7, <1>8, <1>9 DEF PInv, Shape, Sound

LEMMA CreatePartitionSnapshotPInv ==
  ASSUME PInv, NEW p, CreatePartitionSnapshot(p)
  PROVE  PInv'
<1> DEFINE q == Heal(events, {p}, Head0, TRUE)
           due == q.parts[p].kind = "Ready" /\ projection.runtime = "json"
           files == IF due THEN <<Snapshot(Healed(q.parts), q.rows, p)>> ELSE <<>>
<1>1. /\ events' = events /\ synced' = synced /\ registered' = registered /\ snapshots' = snapshots
      /\ lapses' = lapses /\ phase = "idle" /\ Exists
      /\ projection' = Healed(q.parts) /\ rows' = q.rows
      /\ pending' = files /\ phase' = IF files = <<>> THEN "idle" ELSE "publishing"
      /\ p \in Partitions(desc) /\ desc.count > 1
  BY Zenon DEF CreatePartitionSnapshot, Publishing, disk
<1>2. OnDisk(events, synced, registered, snapshots) /\ events \in Seq(Kinds) /\ desc \in Descriptors
  BY <1>1, DescShape DEF PInv, Shape, OnDisk
<1>3. Head0 = Len(events) /\ Head0 \in 0 .. Len(events) /\ Agree(events, events, Len(events))
  BY <1>2, AgreeSame DEF Head0
<1>4. {p} \in SUBSET Partitions(desc) /\ desc.count # 1
  BY <1>1, <1>2, DescIs
<1>5. /\ IsProjection(Healed(q.parts), desc) /\ q.rows \in RowMaps
      /\ InMemory(events, registered, "idle", Healed(q.parts), q.rows)
      /\ Healthy({p}, Head0, Healed(q.parts).parts)
      /\ Healed(q.parts).parts = q.parts
      /\ Healed(q.parts).runtime = projection.runtime
      /\ ProjectionSound(events, projection, rows) /\ FilesSound(events, snapshots)
               => ProjectionSound(events, Healed(q.parts), q.rows)
  BY <1>1, <1>2, <1>3, <1>4, HealStep DEF PInv
<1> HIDE DEF q
<1>6. /\ Snapshot(Healed(q.parts), q.rows, p) \in Commands
      /\ Snapshot(Healed(q.parts), q.rows, p).part = p
  BY <1>1, <1>2, <1>5, SnapshotIs
<1>7. InCommand(phase', projection', pending')
  <2>1. files \in Seq(Commands) /\ \A j \in DOMAIN files : files[j].part \in Partitions(desc)
    BY <1>1, <1>6
  <2> HIDE DEF files
  <2> QED
    BY <1>1, <1>2, <1>5, <2>1, PublishingIs
<1>8. ASSUME ProjectionSound(events, Healed(q.parts), q.rows)
      PROVE  PendingSound(events, Healed(q.parts), files)
  <2>1. CASE due
    <3>1. SnapshotDue(events, desc, Healed(q.parts), p)
      BY <1>3, <1>4, <1>5, <2>1 DEF SnapshotDue, Healthy
    <3>2. FileSound(events, desc, p, Snapshot(Healed(q.parts), q.rows, p))
      BY <1>1, <1>2, <1>5, <1>8, <3>1, SnapshotSound
    <3>3. Healed(q.parts).desc[1] = desc
      BY <1>5 DEF IsProjection
    <3>4. files = <<Snapshot(Healed(q.parts), q.rows, p)>>
      BY <2>1
    <3> HIDE DEF files
    <3>5. \A j \in DOMAIN files : files[j] = Snapshot(Healed(q.parts), q.rows, p)
      BY <3>4
    <3> QED
      BY <1>6, <3>2, <3>3, <3>5 DEF PendingSound
  <2>2. CASE ~due
    BY <2>2 DEF PendingSound
  <2> QED
    BY <2>1, <2>2
<1> HIDE DEF files
<1>9. InMemory(events, registered, phase', projection', rows')
  BY <1>1, <1>5 DEF InMemory
<1> QED
  BY <1>1, <1>2, <1>5, <1>7, <1>8, <1>9 DEF PInv, Shape, Sound

\* Only the files change.
LEMMA FilesPInv ==
  ASSUME PInv, UNCHANGED <<events, synced, registered, projection, rows, lapses>>,
         phase # "down" /\ phase' # "down", InCommand(phase', projection, pending'),
         \A j \in DOMAIN pending' : \E i \in DOMAIN pending : pending'[j] = pending[i],
         Stored(snapshots'),
         \A d \in Descriptors : \A p \in Partitions(d) : \A s \in Range(snapshots'[d][p]) :
            s \in Range(snapshots[d][p]) \/ (lapses = {} /\ Sound => FileSound(events, d, p, s))
  PROVE  PInv'
<1>1. OnDisk(events, synced, registered, snapshots')
  BY DEF PInv, Shape, OnDisk
<1>2. InMemory(events, registered, phase', projection, rows)
  BY DEF PInv, Shape, InMemory
<1>3. ASSUME lapses = {}
      PROVE  /\ ProjectionSound(events, projection, rows)
             /\ FilesSound(events, snapshots')
             /\ PendingSound(events, projection, pending')
  BY <1>3 DEF PInv, Sound, FilesSound, PendingSound
<1> QED
  BY <1>1, <1>2, <1>3 DEF PInv, Shape, Sound

\* Where a command publishes to, and what.
LEMMA CommandIs ==
  ASSUME Shape, pending # <<>>
  PROVE  /\ phase # "down" /\ phase \in {"publishing", "retaining"}
         /\ desc \in Descriptors /\ pending[1].part \in Partitions(desc)
         /\ pending \in Seq(Commands) /\ 1 \in DOMAIN pending /\ pending[1] \in Commands
         /\ [cursor |-> pending[1].cursor, rows |-> pending[1].rows] \in Files
         /\ snapshots[desc][pending[1].part] \in Seq(Files)
         /\ Stored(snapshots)
<1>1. InCommand(phase, projection, pending) /\ projection.desc # <<>>
  BY DEF Shape, InCommand
<1>2. pending \in Seq(Commands) /\ 1 \in DOMAIN pending
  BY <1>1 DEF InCommand, Commands
<1>3. pending[1] \in Commands /\ pending[1].part \in Partitions(desc)
  BY <1>1, <1>2 DEF InCommand, desc
<1>4. phase \in {"publishing", "retaining"} /\ phase # "down"
  BY <1>1 DEF InCommand
<1>5. desc \in Descriptors
  BY <1>1, DescShape DEF Exists
<1>6. [cursor |-> pending[1].cursor, rows |-> pending[1].rows] \in Files
  BY <1>3 DEF Commands, Files
<1>7. Stored(snapshots)
  BY DEF Shape, OnDisk
<1>8. snapshots[desc][pending[1].part] \in Seq(Files)
  BY <1>3, <1>5, <1>7 DEF Stored
<1> QED
  BY <1>2, <1>3, <1>4, <1>5, <1>6, <1>7, <1>8

\* One series is replaced, the others stay.
Replaced(files, d, p, series) == [files EXCEPT ![d][p] = series]

LEMMA ReplacedIs ==
  ASSUME NEW files, NEW e \in Descriptors, NEW o \in Partitions(e), NEW series \in Seq(Files), Stored(files)
  PROVE  /\ Stored(Replaced(files, e, o, series))
         /\ Replaced(files, e, o, series)[e][o] = series
         /\ \A d \in Descriptors : \A p \in Partitions(d) :
               d # e \/ p # o => Replaced(files, e, o, series)[d][p] = files[d][p]
<1> DEFINE new == [files EXCEPT ![e] = [files[e] EXCEPT ![o] = series]]
<1>1. Replaced(files, e, o, series) = new
  BY DEF Replaced
<1>2. DOMAIN files = Descriptors /\ files[e] \in [Partitions(e) -> Seq(Files)]
  BY DEF Stored
<1>3. new[e] = [files[e] EXCEPT ![o] = series] /\ \A d \in Descriptors : d # e => new[d] = files[d]
  BY <1>2
<1>4. new = [d \in Descriptors |-> new[d]]
  BY <1>2
<1>5. new[e] \in [Partitions(e) -> Seq(Files)] /\ new[e][o] = series
      /\ \A p \in Partitions(e) : p # o => new[e][p] = files[e][p]
  BY <1>2, <1>3
<1> HIDE DEF new
<1>6. Stored(new)
  BY <1>3, <1>4, <1>5 DEF Stored
<1> QED
  BY <1>1, <1>3, <1>5, <1>6

LEMMA PublishFilePInv ==
  ASSUME PInv, PublishFile
  PROVE  /\ PInv'
         /\ KeepsNewest
<1> DEFINE o == pending[1].part
           new == [cursor |-> pending[1].cursor, rows |-> pending[1].rows]
           series == Append(snapshots[desc][o], new)
<1>1. /\ UNCHANGED <<events, synced, registered, projection, rows, lapses>> /\ pending' = pending
      /\ phase = "publishing" /\ phase' = "retaining"
      /\ snapshots' = Replaced(snapshots, desc, o, series)
  BY Zenon DEF PublishFile, Replaced
<1>2. Shape /\ pending # <<>> /\ InCommand("retaining", projection, pending)
  BY <1>1 DEF PInv, Shape, InCommand
<1>3. /\ desc \in Descriptors /\ o \in Partitions(desc) /\ 1 \in DOMAIN pending /\ new \in Files
      /\ snapshots[desc][o] \in Seq(Files) /\ Stored(snapshots)
  BY <1>2, CommandIs
<1> HIDE DEF o, new
<1>4. /\ series \in Seq(Files)
      /\ \A s \in Range(series) : s \in Range(snapshots[desc][o]) \/ s = new
      /\ \A s \in Range(snapshots[desc][o]) : s \in Range(series)
  <2> DEFINE old == snapshots[desc][o]
  <2>1. /\ series \in Seq(Files) /\ Len(series) = Len(old) + 1
        /\ \A i \in 1 .. Len(old) : series[i] = old[i]
        /\ series[Len(old) + 1] = new
    BY <1>3
  <2>2. /\ DOMAIN series = 1 .. Len(series) /\ DOMAIN old = 1 .. Len(old)
        /\ \A i \in 1 .. Len(series) : i \in 1 .. Len(old) \/ i = Len(old) + 1
        /\ \A i \in 1 .. Len(old) : i \in 1 .. Len(series)
    BY <1>3, <2>1
  <2> HIDE DEF series, old
  <2>3. \A s \in Range(series) : s \in Range(old) \/ s = new
    BY <2>1, <2>2 DEF Range
  <2>4. \A s \in Range(old) : s \in Range(series)
    BY <2>1, <2>2 DEF Range
  <2> QED
    BY <2>1, <2>3, <2>4 DEF old
<1> HIDE DEF series
<1>5. /\ Stored(snapshots')
      /\ snapshots'[desc][o] = series
      /\ \A d \in Descriptors : \A p \in Partitions(d) :
               d # desc \/ p # o => snapshots'[d][p] = snapshots[d][p]
  BY <1>1, <1>3, <1>4, ReplacedIs
<1>6. ASSUME lapses = {}, Sound PROVE FileSound(events, desc, o, new)
  <2>1. FileSound(events, desc, o, pending[1])
    BY <1>3, <1>6 DEF Sound, PendingSound, desc, o
  <2> QED
    BY <2>1 DEF FileSound, new
<1>7. ASSUME NEW d \in Descriptors, NEW p \in Partitions(d), NEW s \in Range(snapshots'[d][p])
      PROVE  s \in Range(snapshots[d][p]) \/ (lapses = {} /\ Sound => FileSound(events, d, p, s))
  BY <1>4, <1>5, <1>6, <1>7
<1>8. PInv'
  <2>1. \A j \in DOMAIN pending' : \E i \in DOMAIN pending : pending'[j] = pending[i]
    BY <1>1
  <2>2. phase # "down" /\ phase' # "down" /\ InCommand(phase', projection, pending')
    BY <1>1, <1>2
  <2> QED
    BY <1>1, <1>5, <1>7, <2>1, <2>2, FilesPInv
<1>9. ASSUME NEW d \in Descriptors, NEW p \in Partitions(d)
      PROVE  Best(snapshots[d][p])' >= Best(snapshots[d][p])
  <2>1. snapshots[d][p] \in Seq(Files) /\ snapshots'[d][p] \in Seq(Files)
    BY <1>3, <1>5 DEF Stored
  <2>2. \A s \in Range(snapshots[d][p]) : s \in Range(snapshots'[d][p])
    BY <1>4, <1>5
  <2>3. \A i \in DOMAIN snapshots[d][p] : \E f \in Range(snapshots'[d][p]) : f.cursor >= snapshots[d][p][i].cursor
    <3>1. SUFFICES ASSUME NEW i \in DOMAIN snapshots[d][p]
                   PROVE  \E f \in Range(snapshots'[d][p]) : f.cursor >= snapshots[d][p][i].cursor
      OBVIOUS
    <3>2. snapshots[d][p][i] \in Range(snapshots'[d][p]) /\ snapshots[d][p][i].cursor \in Nat
      BY <2>1, <2>2, FileIn
    <3> QED
      BY <3>2
  <2>4. Best(snapshots'[d][p]) >= Best(snapshots[d][p])
    BY <2>1, <2>3, BestGrows
  <2> QED
    BY <2>4 DEF Best
<1> QED
  BY <1>8, <1>9 DEF KeepsNewest

LEMMA EmptyIs ==
  ASSUME NEW S, NEW seq \in Seq(S)
  PROVE  seq = <<>> <=> Len(seq) = 0
OBVIOUS

LEMMA RetainTwoPInv ==
  ASSUME PInv, RetainTwo
  PROVE  /\ PInv'
         /\ KeepsNewest
<1> DEFINE o == pending[1].part
           old == snapshots[desc][o]
           series == Without(old, Surplus(old))
<1>1. /\ UNCHANGED <<events, synced, registered, projection, rows, lapses>>
      /\ pending' = Tail(pending)
      /\ phase = "retaining" /\ phase' = IF Len(pending) = 1 THEN "idle" ELSE "publishing"
      /\ snapshots' = Replaced(snapshots, desc, o, series)
  BY Zenon DEF RetainTwo, Replaced
<1>2. Shape /\ pending # <<>> /\ InCommand(phase, projection, pending)
  BY <1>1 DEF PInv, Shape, InCommand
<1>3. desc \in Descriptors /\ o \in Partitions(desc) /\ old \in Seq(Files) /\ Stored(snapshots)
  BY <1>2, CommandIs
<1>4. /\ series \in Seq(Files)
      /\ \A s \in Range(series) : s \in Range(old)
      /\ \A i \in DOMAIN old : i \notin Surplus(old) => old[i] \in Range(series)
  BY <1>3, WithoutIs
<1> HIDE DEF o
<1>5. /\ Stored(snapshots')
      /\ snapshots'[desc][o] = series
      /\ \A d \in Descriptors : \A p \in Partitions(d) :
               d # desc \/ p # o => snapshots'[d][p] = snapshots[d][p]
  <2> HIDE DEF series
  <2> QED
    BY <1>1, <1>3, <1>4, ReplacedIs
<1> HIDE DEF series
<1>6. ASSUME NEW d \in Descriptors, NEW p \in Partitions(d), NEW s \in Range(snapshots'[d][p])
      PROVE  s \in Range(snapshots[d][p])
  BY <1>4, <1>5, <1>6
<1>7. /\ InCommand(phase', projection, pending')
      /\ \A j \in DOMAIN pending' : \E i \in DOMAIN pending : pending'[j] = pending[i]
  <2>1. pending \in Seq(Commands) /\ Len(pending) \in Nat \ {0}
    BY <1>2 DEF InCommand, Commands
  <2>2. /\ Tail(pending) \in Seq(Commands) /\ Len(Tail(pending)) = Len(pending) - 1
        /\ \A j \in DOMAIN Tail(pending) : j + 1 \in DOMAIN pending /\ Tail(pending)[j] = pending[j + 1]
    BY <2>1
  <2>3. Tail(pending) = <<>> <=> Len(pending) = 1
    <3>1. Tail(pending) = <<>> <=> Len(Tail(pending)) = 0
      BY <2>2, EmptyIs
    <3> QED
      BY <2>1, <2>2, <3>1
  <2>4. \A j \in DOMAIN Tail(pending) : Tail(pending)[j].part \in Partitions(projection.desc[1])
    BY <1>2, <2>2 DEF InCommand
  <2>5. InCommand(phase', projection, Tail(pending))
    BY <1>1, <1>2, <2>2, <2>3, <2>4 DEF InCommand, Commands
  <2> QED
    BY <1>1, <2>2, <2>5
<1>8. PInv'
  <2>1. phase # "down" /\ phase' # "down"
    BY <1>1
  <2> QED
    BY <1>1, <1>5, <1>6, <1>7, <2>1, FilesPInv
<1>9. ASSUME NEW d \in Descriptors, NEW p \in Partitions(d)
      PROVE  Best(snapshots[d][p])' >= Best(snapshots[d][p])
  <2>1. snapshots[d][p] \in Seq(Files) /\ snapshots'[d][p] \in Seq(Files)
    BY <1>3, <1>5 DEF Stored
  <2>2. ASSUME NEW i \in DOMAIN snapshots[d][p], snapshots[d][p][i].cursor = Best(snapshots[d][p])
        PROVE  \E f \in Range(snapshots'[d][p]) : f.cursor >= snapshots[d][p][i].cursor
    <3>1. snapshots[d][p][i].cursor \in Nat /\ snapshots[d][p][i] \in Range(snapshots[d][p])
      BY <2>1, FileIn
    <3>2. CASE d # desc \/ p # o
      BY <1>5, <3>1, <3>2
    <3>3. CASE d = desc /\ p = o
      <4>1. PICK m \in DOMAIN old : m \notin Surplus(old) /\ old[m].cursor = Best(old)
        BY <1>3, <2>2, <3>3, SurplusKeepsBest
      <4>2. old[m] \in Range(snapshots'[d][p])
        BY <1>4, <1>5, <3>3, <4>1
      <4>3. old[m].cursor >= snapshots[d][p][i].cursor
        BY <2>2, <3>1, <3>3, <4>1
      <4> QED
        BY <4>2, <4>3
    <3> QED
      BY <3>2, <3>3
  <2>3. Best(snapshots'[d][p]) >= Best(snapshots[d][p])
    BY <2>1, <2>2, BestGrows
  <2> QED
    BY <2>3 DEF Best
<1> QED
  BY <1>8, <1>9 DEF KeepsNewest

LEMMA PublishFailsPInv ==
  ASSUME PInv, PublishFails
  PROVE  PInv'
<1>1. /\ UNCHANGED <<events, synced, registered, projection, rows, lapses>> /\ snapshots' = snapshots
      /\ pending' = <<>> /\ phase' = "idle" /\ phase # "down"
  BY DEF PublishFails, disk
<1>2. InCommand(phase', projection, pending')
  BY <1>1, NothingPending
<1>3. Stored(snapshots')
  BY <1>1 DEF PInv, Shape, OnDisk
<1>4. \A d \in Descriptors : \A p \in Partitions(d) : \A s \in Range(snapshots'[d][p]) : s \in Range(snapshots[d][p])
  BY <1>1
<1>5. \A j \in DOMAIN pending' : \E i \in DOMAIN pending : pending'[j] = pending[i]
  BY <1>1
<1> QED
  BY <1>1, <1>2, <1>3, <1>4, <1>5, FilesPInv

\* A caller deletes files.
LEMMA DeletedPInv ==
  ASSUME PInv, UNCHANGED <<events, synced, registered, projection, rows, lapses, pending, phase>>,
         phase # "down", Stored(snapshots'),
         \A d \in Descriptors : \A p \in Partitions(d) : \A s \in Range(snapshots'[d][p]) : s \in Range(snapshots[d][p])
  PROVE  PInv'
<1>1. InCommand(phase', projection, pending')
  BY DEF PInv, Shape
<1>2. \A j \in DOMAIN pending' : \E i \in DOMAIN pending : pending'[j] = pending[i]
  OBVIOUS
<1> QED
  BY <1>1, <1>2, FilesPInv

LEMMA DeleteSnapshotPInv ==
  ASSUME PInv, NEW d \in Descriptors, NEW p \in Partitions(d), NEW i, DeleteSnapshot(d, p, i)
  PROVE  PInv'
<1> DEFINE series == Without(snapshots[d][p], {i})
<1>1. /\ UNCHANGED <<events, synced, registered, projection, rows, lapses, pending, phase>> /\ phase = "idle"
      /\ snapshots' = Replaced(snapshots, d, p, series)
  BY Zenon DEF DeleteSnapshot, Replaced, volatile
<1>2. Stored(snapshots) /\ snapshots[d][p] \in Seq(Files)
  BY DEF PInv, Shape, OnDisk, Stored
<1>3. series \in Seq(Files) /\ \A s \in Range(series) : s \in Range(snapshots[d][p])
  BY <1>2, WithoutIs
<1> HIDE DEF series
<1>4. /\ Stored(snapshots')
      /\ snapshots'[d][p] = series
      /\ \A e \in Descriptors : \A o \in Partitions(e) : e # d \/ o # p => snapshots'[e][o] = snapshots[e][o]
  BY <1>1, <1>2, <1>3, ReplacedIs
<1>5. ASSUME NEW e \in Descriptors, NEW o \in Partitions(e), NEW s \in Range(snapshots'[e][o])
      PROVE  s \in Range(snapshots[e][o])
  BY <1>3, <1>4, <1>5
<1>6. phase # "down"
  BY <1>1
<1> QED
  BY <1>1, <1>4, <1>5, <1>6, DeletedPInv

LEMMA NoSnapshotsIs ==
  /\ Stored(NoSnapshots)
  /\ \A d \in Descriptors : \A p \in Partitions(d) : NoSnapshots[d][p] = <<>>
<1>1. NoSnapshots = [d \in Descriptors |-> NoSnapshots[d]]
  BY DEF NoSnapshots
<1>2. \A d \in Descriptors : NoSnapshots[d] \in [Partitions(d) -> Seq(Files)]
                             /\ \A p \in Partitions(d) : NoSnapshots[d][p] = <<>>
  BY DEF NoSnapshots
<1> QED
  BY <1>1, <1>2 DEF Stored

LEMMA DeleteAllDerivedPInv ==
  ASSUME PInv, DeleteAllDerived
  PROVE  PInv'
<1>1. /\ UNCHANGED <<events, synced, registered, projection, rows, lapses, pending, phase>> /\ phase # "down"
      /\ snapshots' = NoSnapshots
  BY DEF DeleteAllDerived, volatile
<1>2. \A d \in Descriptors : \A p \in Partitions(d) : Range(snapshots'[d][p]) = {}
  BY <1>1, NoSnapshotsIs DEF Range
<1> QED
  BY <1>1, <1>2, NoSnapshotsIs, DeletedPInv

----------------------------------------------------------------------------
(* An append *)

LEMMA AppendIs ==
  ASSUME NEW l \in Seq(Kinds), NEW kind \in Kinds
  PROVE  /\ Append(l, kind) \in Seq(Kinds) /\ Len(Append(l, kind)) = Len(l) + 1
         /\ Len(l) \in Nat /\ Agree(l, Append(l, kind), Len(l))
BY DEF Agree

LEMMA FilesLonger ==
  ASSUME NEW l \in Seq(Kinds), NEW m \in Seq(Kinds), Agree(l, m, Len(l)),
         NEW files, Stored(files), FilesSound(l, files)
  PROVE  FilesSound(m, files)
<1>1. ASSUME NEW d \in Descriptors, NEW p \in Partitions(d), NEW s \in Range(files[d][p])
      PROVE  FileSound(m, d, p, s)
  <2>1. files[d][p] \in Seq(Files)
    BY DEF Stored
  <2>2. s \in Files /\ FileSound(l, d, p, s)
    BY <2>1, RangeIs DEF FilesSound
  <2>3. ~Saw(s, Len(l)) /\ Len(l) \in Nat
    BY <2>2, FileWithin
  <2> QED
    BY <2>2, <2>3, FileAgree
<1> QED
  BY <1>1 DEF FilesSound

LEMMA ProjectionLonger ==
  ASSUME NEW l \in Seq(Kinds), NEW m \in Seq(Kinds), Agree(l, m, Len(l)),
         NEW d \in Descriptors, NEW q, IsProjection(q, d), NEW r \in RowMaps, ProjectionSound(l, q, r)
  PROVE  ProjectionSound(m, q, r)
<1>1. q.desc[1] = d /\ q.desc # <<>> /\ q.parts \in [Partitions(d) -> Part] /\ q.cursor \in Nat
  BY DEF IsProjection
<1>2. InHand(q, r) \in InHands(d)
  BY <1>1 DEF InHand, InHands
<1>3. PartsSound(m, d, q.runtime, InHand(q, r))
  <2>1. PartsSound(l, d, q.runtime, InHand(q, r))
    BY <1>1 DEF ProjectionSound
  <2> QED
    BY <1>2, <2>1, PartsLonger
<1>4. StatusSound(m, d, q, r)
  <2>1. StatusSound(l, d, q, r)
    BY <1>1 DEF ProjectionSound
  <2>2. ASSUME q.status = "Ready", d.count = 1
        PROVE  /\ q.cursor <= Len(m)
               /\ Refused(m, q.runtime, Selected(m, d, 0, 0, q.cursor)) = {}
               /\ Covers(m, d, 0, r, q.cursor, Len(m))
    <3>1. /\ q.cursor <= Len(l)
          /\ Refused(l, q.runtime, Selected(l, d, 0, 0, q.cursor)) = {}
          /\ Covers(l, d, 0, r, q.cursor, Len(l))
      BY <2>1, <2>2 DEF StatusSound
    <3>2. Covers(m, d, 0, r, q.cursor, Len(m))
      BY <1>1, <3>1, CoversLonger
    <3>3. Len(l) \in Nat /\ Len(m) \in Nat /\ Len(l) <= Len(m)
      BY DEF Agree
    <3>4. Refused(m, q.runtime, Selected(m, d, 0, 0, q.cursor)) = {}
      BY <1>1, <3>1, <3>3, RefusedAgree
    <3> QED
      BY <1>1, <3>1, <3>2, <3>3, <3>4
  <2> QED
    BY <2>1, <2>2 DEF StatusSound
<1> QED
  BY <1>1, <1>3, <1>4 DEF ProjectionSound

\* The projection and the rows after the append of l, and what they publish.
LEMMA DriveIs ==
  ASSUME Shape, phase = "idle", NEW l \in Seq(Kinds), Agree(events, l, Len(events)), NEW after, NEW r,
         after = IF Ready = {} THEN projection ELSE Healed(DriveAll(l).parts), r = DriveAll(l).rows
  PROVE  /\ InMemory(l, registered, "idle", after, r)
         /\ ProjectionSound(events, projection, rows) /\ FilesSound(events, snapshots)
               => ProjectionSound(l, after, r)
         /\ after.desc # <<>> => \E d \in Descriptors : IsProjection(after, d) /\ AtHead(l, after.parts)
<1>1. /\ events \in Seq(Kinds) /\ Len(events) \in Nat /\ Len(l) \in Nat /\ Len(events) <= Len(l)
      /\ InMemory(events, registered, phase, projection, rows) /\ rows \in RowMaps
  BY DEF Shape, OnDisk, InMemory, Agree
<1>2. CASE Ready = {} /\ ~Exists
  <2>1. after = projection /\ r = rows /\ projection = NoProjection /\ rows = NoRows
    BY <1>1, <1>2 DEF DriveAll, InMemory, Exists
  <2>2. after.desc = <<>>
    BY <2>1 DEF NoProjection
  <2> QED
    BY <2>1, <2>2, NoneIs
<1>3. CASE Ready = {} /\ Exists
  <2>1. after = projection /\ r = rows
    BY <1>3 DEF DriveAll
  <2>2. desc \in Descriptors /\ IsProjection(projection, desc) /\ Bounded(projection.parts, Len(events))
    BY <1>1, <1>3, DescShape DEF InMemory, Exists
  <2>3. DOMAIN projection.parts = Partitions(desc) /\ \A p \in Partitions(desc) : projection.parts[p].cursor \in Nat
    <3>1. DOMAIN projection.parts = Partitions(desc)
      BY <2>2 DEF IsProjection
    <3> QED
      BY <2>2, <3>1, ProjectionIs
  <2>4. Bounded(projection.parts, Len(l))
    BY <1>1, <2>2, <2>3 DEF Bounded
  <2>5. InMemory(l, registered, "idle", after, r)
    BY <1>1, <2>1, <2>4 DEF InMemory
  <2>6. AtHead(l, after.parts)
    BY <1>3, <2>1 DEF AtHead, Ready
  <2>7. ProjectionSound(events, projection, rows) => ProjectionSound(l, projection, rows)
    BY <1>1, <2>2, ProjectionLonger
  <2> QED
    BY <2>1, <2>2, <2>5, <2>6, <2>7
<1>4. CASE Ready # {}
  <2>1. Exists
    <3>1. SUFFICES ASSUME ~Exists PROVE Ready = {}
      BY <1>4
    <3>2. projection.parts = <<>>
      BY <1>1, <3>1 DEF InMemory, Exists, NoProjection
    <3> QED
      BY <3>2 DEF Ready
  <2>2. desc \in Descriptors /\ IsProjection(projection, desc)
    BY <2>1, DescShape
  <2>3. DOMAIN projection.parts = Partitions(desc)
    BY <2>2 DEF IsProjection
  <2>4. Ready \in SUBSET Partitions(desc)
    BY <2>3 DEF Ready
  <2> DEFINE q == Heal(l, Ready, Len(l), FALSE)
  <2>5. after = Healed(q.parts) /\ r = q.rows
    BY <1>4 DEF DriveAll
  <2>6. Len(l) \in 0 .. Len(l) /\ phase # "down"
    BY <1>1
  <2>7. /\ IsProjection(Healed(q.parts), desc)
        /\ InMemory(l, registered, "idle", Healed(q.parts), q.rows)
        /\ Healthy(Ready, Len(l), Healed(q.parts).parts)
        /\ ProjectionSound(events, projection, rows) /\ FilesSound(events, snapshots)
               => ProjectionSound(l, Healed(q.parts), q.rows)
    BY <2>1, <2>4, <2>6, HealStep
  <2> HIDE DEF q
  <2>8. DOMAIN after.parts = Partitions(desc)
    BY <2>5, <2>7 DEF IsProjection
  <2>9. AtHead(l, after.parts)
    <3>1. ASSUME NEW p \in Partitions(desc), after.parts[p].kind = "Ready" PROVE after.parts[p].cursor = Len(l)
      <4>1. CASE p \in Ready
        BY <2>5, <2>7, <3>1, <4>1 DEF Healthy
      <4>2. CASE p \notin Ready
        <5>1. after.parts[p] = projection.parts[p]
          BY <2>5, <2>7, <4>2 DEF Healthy
        <5> QED
          BY <2>3, <3>1, <4>2, <5>1 DEF Ready
      <4> QED
        BY <4>1, <4>2
    <3> QED
      BY <2>8, <3>1 DEF AtHead
  <2> QED
    BY <2>2, <2>5, <2>7, <2>9
<1> QED
  BY <1>2, <1>3, <1>4

LEMMA WritePInv ==
  ASSUME PInv, NEW kind \in Kinds, NEW durable \in BOOLEAN, NEW due \in BOOLEAN, Write(kind, durable, due)
  PROVE  PInv'
<1> DEFINE l == Append(events, kind)
           r == DriveAll(l).rows
           after == IF Ready = {} THEN projection ELSE Healed(DriveAll(l).parts)
           files == IF due THEN ToPublish(after, r) ELSE <<>>
<1>1. /\ events' = l /\ synced' = (IF durable THEN Head0 + 1 ELSE synced) /\ registered' = registered
      /\ snapshots' = snapshots /\ lapses' = lapses /\ phase = "idle" /\ Head0 < MaxEvents
      /\ projection' = after /\ rows' = r
      /\ pending' = files /\ phase' = IF files = <<>> THEN "idle" ELSE "publishing"
  BY Zenon DEF Write, Publishing
<1>2. /\ OnDisk(events, synced, registered, snapshots) /\ Shape
      /\ events \in Seq(Kinds) /\ MaxEvents \in Nat /\ Stored(snapshots)
  BY ProjectionsAssumption DEF PInv, Shape, OnDisk
<1>3. l \in Seq(Kinds) /\ Len(l) = Len(events) + 1 /\ Len(events) \in Nat /\ Agree(events, l, Len(events))
  BY <1>2, AppendIs
<1> HIDE DEF l
<1>4. OnDisk(l, synced', registered, snapshots)
  <2>1. Len(l) <= MaxEvents /\ synced' \in 0 .. Len(l)
    BY <1>1, <1>2, <1>3 DEF OnDisk, Head0
  <2> QED
    BY <1>2, <1>3, <2>1 DEF OnDisk
<1>5. /\ InMemory(l, registered, "idle", after, r)
      /\ ProjectionSound(events, projection, rows) /\ FilesSound(events, snapshots)
               => ProjectionSound(l, after, r)
      /\ after.desc # <<>> => \E d \in Descriptors : IsProjection(after, d) /\ AtHead(l, after.parts)
  BY <1>1, <1>2, <1>3, DriveIs
<1> HIDE DEF after, r
<1>6. r \in RowMaps
  BY <1>5 DEF InMemory
<1>7. InCommand(phase', after, files)
  <2>1. CASE files = <<>>
    BY <1>1, <2>1, NothingPending
  <2>2. CASE files # <<>>
    <3>1. files = ToPublish(after, r) /\ after.desc # <<>>
      BY <2>2 DEF ToPublish
    <3>2. PICK d \in Descriptors : IsProjection(after, d)
      BY <1>5, <3>1
    <3>3. after.desc[1] = d
      BY <3>2 DEF IsProjection
    <3>4. files \in Seq(Commands) /\ \A j \in DOMAIN files : files[j].part \in Partitions(d)
      BY <1>6, <3>1, <3>2, <3>3, ToPublishIs
    <3> HIDE DEF files
    <3> QED
      BY <1>1, <3>2, <3>4, PublishingIs
  <2> QED
    BY <2>1, <2>2
<1>8. ASSUME ProjectionSound(l, after, r) PROVE PendingSound(l, after, files)
  <2>1. CASE files = <<>>
    BY <2>1, NothingPending
  <2>2. CASE files # <<>>
    <3>1. files = ToPublish(after, r) /\ after.desc # <<>>
      BY <2>2 DEF ToPublish
    <3>2. PICK d \in Descriptors : IsProjection(after, d) /\ AtHead(l, after.parts)
      BY <1>5, <3>1
    <3> QED
      BY <1>3, <1>6, <1>8, <3>1, <3>2, ToPublishSound
  <2> QED
    BY <2>1, <2>2
<1> HIDE DEF files
<1>9. FilesSound(events, snapshots) => FilesSound(l, snapshots)
  BY <1>2, <1>3, FilesLonger
<1>10. InMemory(l, registered, phase', after, r)
  BY <1>1, <1>5 DEF InMemory
<1> QED
  BY <1>1, <1>4, <1>5, <1>7, <1>8, <1>9, <1>10 DEF PInv, Shape, Sound

LEMMA CommitPInv ==
  ASSUME PInv, Commit
  PROVE  PInv'
<1>1. /\ UNCHANGED <<events, registered, phase, projection, rows, pending, snapshots, lapses>>
      /\ synced' = Len(events)
  BY DEF Commit, volatile, Head0
<1>2. OnDisk(events, Len(events), registered, snapshots)
  BY DEF PInv, Shape, OnDisk
<1> QED
  BY <1>1, <1>2 DEF PInv, Shape, Sound

----------------------------------------------------------------------------
(* Registering, starting over *)

\* The projection is replaced by one that is new, or by none.
LEMMA RecordPInv ==
  ASSUME PInv, phase = "idle", UNCHANGED <<events, phase, snapshots, pending, lapses>>,
         synced' = Len(events), registered' \in {<<>>} \cup {<<d>> : d \in Descriptors},
         InMemory(events, registered', "idle", projection', rows'), ProjectionSound(events, projection', rows')
  PROVE  PInv'
<1>1. OnDisk(events, Len(events), registered', snapshots)
  BY DEF PInv, Shape, OnDisk
<1>2. pending = <<>>
  BY DEF PInv, Shape, InCommand
<1>3. InCommand("idle", projection', <<>>) /\ PendingSound(events, projection', <<>>)
  BY NothingPending
<1> QED
  BY <1>1, <1>2, <1>3 DEF PInv, Shape, Sound

LEMMA RegisterQueryPInv ==
  ASSUME PInv, NEW d \in Descriptors, RegisterQuery(d)
  PROVE  PInv'
<1>1. /\ UNCHANGED <<events, phase, snapshots, pending, lapses>> /\ phase = "idle"
      /\ synced' = Len(events) /\ registered' = <<d>>
      /\ projection' = Fresh(d, "json", "Building") /\ rows' = NoRows
  BY DEF RegisterQuery, Record, Head0
<1>2. events \in Seq(Kinds)
  BY DEF PInv, Shape, OnDisk
<1> QED
  BY <1>1, <1>2, FreshIs, RecordPInv

LEMMA RegisterRuntimePInv ==
  ASSUME PInv, NEW d \in Descriptors, RegisterRuntime(d)
  PROVE  PInv'
<1>1. /\ UNCHANGED <<events, phase, snapshots, pending, lapses>> /\ phase = "idle"
      /\ synced' = Len(events) /\ registered' = <<d>>
      /\ projection' = Fresh(d, "native", "Building") /\ rows' = NoRows
  BY DEF RegisterRuntime, Record, Head0
<1>2. events \in Seq(Kinds)
  BY DEF PInv, Shape, OnDisk
<1> QED
  BY <1>1, <1>2, FreshIs, RecordPInv

LEMMA RemoveQueryPInv ==
  ASSUME PInv, RemoveQuery
  PROVE  PInv'
<1>1. /\ UNCHANGED <<events, phase, snapshots, pending, lapses>> /\ phase = "idle"
      /\ synced' = Len(events) /\ registered' = <<>>
      /\ projection' = NoProjection /\ rows' = NoRows
  BY DEF RemoveQuery, Record, Head0
<1> QED
  BY <1>1, NoneIs, RecordPInv

\* A reset that reads the whole log covers it; one that stops half way leaves
\* sound only what was at the start.
LEMMA ResetSound ==
  ASSUME Shape, Exists, Reset
  PROVE  /\ InMemory(events, registered, "idle", projection', rows')
         /\ projection'.desc = projection.desc
         /\ lapses' = {} => lapses = {}
         /\ lapses' = {} /\ ProjectionSound(events, projection, rows)
               => ProjectionSound(events, projection', rows')
<1> DEFINE status == Driven.status
           new == [projection EXCEPT !.status = status.kind, !.cursor = status.cursor]
           costs == Driven.partial /\ \E p \in Ready : projection.parts[p].cursor > 0
<1>1. /\ desc \in Descriptors /\ IsProjection(projection, desc) /\ Bounded(projection.parts, Len(events))
      /\ projection.desc # <<>> /\ registered = projection.desc /\ projection.desc[1] = desc
      /\ Len(events) \in Nat /\ events \in Seq(Kinds)
  BY DescShape DEF Shape, InMemory, OnDisk, Exists, desc
<1>2. projection' = new /\ rows' = Driven.rows
  BY Zenon DEF Reset
<1>3. lapses' = lapses \cup IF costs THEN {"reset"} ELSE {}
  BY Zenon DEF Reset
<1>4. /\ rows' \in RowMaps /\ RowsFrom(events, desc, rows')
      /\ status.kind \in {"Ready", "Failed"} /\ status.cursor \in Nat
      /\ Driven.partial => status.kind = "Failed"
  BY <1>2, DrivenIs
<1>5. ~Driven.partial =>
               /\ status.cursor = Len(events)
               /\ \A p \in Partitions(desc), start \in Nat, c \in 0 .. Len(events) :
                     Refused(events, projection.runtime, Selected(events, desc, p, start, c)) = {}
               /\ \A p \in Partitions(desc), c \in 0 .. Len(events) : Covers(events, desc, p, rows', c, Len(events))
  BY <1>2, DrivenIs
<1> HIDE DEF status
<1>6. /\ projection'.desc = projection.desc /\ projection'.parts = projection.parts
      /\ projection'.runtime = projection.runtime
      /\ projection'.status = status.kind /\ projection'.cursor = status.cursor
      /\ IsProjection(projection', desc)
  BY <1>1, <1>2, <1>4 DEF IsProjection
<1> HIDE DEF new
<1>7. InMemory(events, registered, "idle", projection', rows')
  BY <1>1, <1>4, <1>6 DEF InMemory
<1>8. lapses' = {} => lapses = {} /\ ~costs
  BY <1>3
<1>9. ASSUME ~costs, ProjectionSound(events, projection, rows)
      PROVE  ProjectionSound(events, projection', rows')
  <2>1. /\ \A p \in Partitions(desc) : PartSound(events, desc, projection.runtime, rows, p, projection.parts[p])
        /\ StatusSound(events, desc, projection, rows)
    BY <1>1, <1>9 DEF ProjectionSound, PartsSound, InHand
  <2>2. DOMAIN projection.parts = Partitions(desc)
    BY <1>1 DEF IsProjection
  <2>3. ASSUME NEW p \in Partitions(desc)
        PROVE  PartSound(events, desc, projection.runtime, rows', p, projection.parts[p])
    <3> DEFINE part == projection.parts[p]
    <3>1. PartSound(events, desc, projection.runtime, rows, p, part) /\ part.cursor \in Nat
      BY <1>1, <2>1, ProjectionIs
    <3>2. part.cursor \in 0 .. Len(events) /\ Len(events) \in 0 .. Len(events)
      BY <1>1, <3>1 DEF PartSound
    <3>3. CASE Driven.partial
      <4>1. part.kind = "Ready" => part.cursor = 0
        BY <1>9, <2>2, <3>1, <3>3 DEF Ready
      <4>2. Refused(events, projection.runtime, Selected(events, desc, p, 0, 0)) = {}
            /\ Covers(events, desc, p, rows', 0, Len(events))
        BY DEF Refused, Selected, Covers, FoldsIn
      <4> QED
        BY <3>1, <4>1, <4>2 DEF PartSound
    <3>4. CASE ~Driven.partial
      <4>1. Refused(events, projection.runtime, Selected(events, desc, p, 0, part.cursor)) = {}
        BY <1>5, <3>2, <3>4
      <4>2. Covers(events, desc, p, rows', part.cursor, Len(events))
        BY <1>5, <3>2, <3>4
      <4>3. Refused(events, projection.runtime, Selected(events, desc, p, part.cursor, Len(events))) = {}
        BY <1>5, <3>1, <3>2, <3>4
      <4> QED
        BY <3>1, <4>1, <4>2, <4>3 DEF PartSound
    <3> QED
      BY <3>3, <3>4
  <2>4. PartsSound(events, desc, projection'.runtime, InHand(projection', rows'))
    <3>1. InHand(projection', rows').parts = projection.parts /\ InHand(projection', rows').rows = rows'
      BY <1>6 DEF InHand
    <3> QED
      BY <1>4, <1>6, <2>3, <3>1 DEF PartsSound
  <2>5. StatusSound(events, desc, projection', rows')
    <3>1. SUFFICES ASSUME projection'.status = "Ready"
                   PROVE  /\ \A p \in Partitions(desc) : projection'.parts[p].kind # "Failed"
                          /\ desc.count = 1 =>
                                /\ projection'.cursor <= Len(events)
                                /\ Refused(events, projection'.runtime, Selected(events, desc, 0, 0, projection'.cursor)) = {}
                                /\ Covers(events, desc, 0, rows', projection'.cursor, Len(events))
      BY DEF StatusSound
    <3>2. ~Driven.partial
      BY <1>4, <1>6, <3>1
    <3>3. ASSUME NEW p \in Partitions(desc) PROVE projection'.parts[p].kind # "Failed"
      <4>1. projection.parts[p].cursor \in Nat /\ Len(events) \in 0 .. Len(events)
        BY <1>1, ProjectionIs
      <4>2. Refused(events, projection.runtime, Selected(events, desc, p, projection.parts[p].cursor, Len(events))) = {}
        BY <1>5, <3>2, <4>1
      <4> QED
        BY <1>6, <2>1, <4>2 DEF PartSound
    <3>4. ASSUME desc.count = 1
          PROVE  /\ projection'.cursor <= Len(events)
                 /\ Refused(events, projection'.runtime, Selected(events, desc, 0, 0, projection'.cursor)) = {}
                 /\ Covers(events, desc, 0, rows', projection'.cursor, Len(events))
      <4>1. 0 \in Partitions(desc) /\ Len(events) \in 0 .. Len(events) /\ 0 \in Nat
        BY <1>1, <3>4, DescIs
      <4>2. projection'.cursor = Len(events)
        BY <1>5, <1>6, <3>2
      <4> QED
        BY <1>1, <1>5, <1>6, <3>2, <4>1, <4>2
    <3> QED
      BY <3>3, <3>4
  <2> QED
    BY <1>1, <1>6, <2>4, <2>5 DEF ProjectionSound
<1> HIDE DEF costs
<1> QED
  BY <1>6, <1>7, <1>8, <1>9

LEMMA RetryQueryPInv ==
  ASSUME PInv, RetryQuery
  PROVE  PInv'
<1>1. /\ UNCHANGED <<events, synced, registered, snapshots, phase, pending>> /\ phase = "idle"
      /\ Exists /\ Reset
  BY DEF RetryQuery, disk
<1>2. pending = <<>> /\ Shape
  BY <1>1 DEF PInv, Shape, InCommand
<1>3. /\ InMemory(events, registered, "idle", projection', rows')
      /\ lapses' = {} => lapses = {}
      /\ lapses' = {} /\ ProjectionSound(events, projection, rows)
            => ProjectionSound(events, projection', rows')
  BY <1>1, <1>2, ResetSound
<1>4. InCommand("idle", projection', <<>>) /\ PendingSound(events, projection', <<>>)
  BY NothingPending
<1> QED
  BY <1>1, <1>2, <1>3, <1>4 DEF PInv, Shape, Sound

LEMMA RebuildProjectionPInv ==
  ASSUME PInv, RebuildProjection
  PROVE  PInv'
<1>1. /\ UNCHANGED <<events, synced, registered, phase, pending>> /\ phase = "idle"
      /\ Exists /\ Reset
      /\ snapshots' = [snapshots EXCEPT ![desc] = NoSnapshots[desc]]
  BY DEF RebuildProjection
<1>2. pending = <<>> /\ Shape /\ Stored(snapshots) /\ desc \in Descriptors
  BY <1>1, DescShape DEF PInv, Shape, InCommand, OnDisk
<1>3. /\ InMemory(events, registered, "idle", projection', rows')
      /\ lapses' = {} => lapses = {}
      /\ lapses' = {} /\ ProjectionSound(events, projection, rows)
            => ProjectionSound(events, projection', rows')
  BY <1>1, <1>2, ResetSound
<1>4. InCommand("idle", projection', <<>>) /\ PendingSound(events, projection', <<>>)
  BY NothingPending
<1>5. /\ Stored(snapshots')
      /\ \A d \in Descriptors : d # desc => snapshots'[d] = snapshots[d]
      /\ \A p \in Partitions(desc) : snapshots'[desc][p] = <<>>
  <2>1. DOMAIN snapshots = Descriptors
    BY <1>2 DEF Stored
  <2>2. snapshots'[desc] = NoSnapshots[desc] /\ \A d \in Descriptors : d # desc => snapshots'[d] = snapshots[d]
    BY <1>1, <1>2, <2>1
  <2>3. snapshots' = [d \in Descriptors |-> snapshots'[d]]
    BY <1>1, <2>1
  <2>4. \A d \in Descriptors : snapshots'[d] \in [Partitions(d) -> Seq(Files)]
    BY <1>2, <2>2, NoSnapshotsIs DEF Stored
  <2> QED
    BY <1>2, <2>2, <2>3, <2>4, NoSnapshotsIs DEF Stored
<1>6. OnDisk(events, synced, registered, snapshots')
  BY <1>2, <1>5 DEF Shape, OnDisk
<1>7. FilesSound(events, snapshots) => FilesSound(events, snapshots')
  <2>1. \A p \in Partitions(desc) : Range(snapshots'[desc][p]) = {}
    BY <1>5 DEF Range
  <2> QED
    BY <1>5, <2>1 DEF FilesSound
<1> QED
  BY <1>1, <1>2, <1>3, <1>4, <1>6, <1>7 DEF PInv, Shape, Sound

----------------------------------------------------------------------------
(* The process ends *)

LEMMA KillPInv ==
  ASSUME PInv, Kill
  PROVE  PInv'
<1>1. /\ UNCHANGED <<events, synced, registered, snapshots, lapses>>
      /\ phase' = "down" /\ projection' = NoProjection /\ rows' = NoRows /\ pending' = <<>>
  BY DEF Kill, End, disk
<1>2. InMemory(events, registered, "down", NoProjection, NoRows) /\ ProjectionSound(events, NoProjection, NoRows)
  BY NoneIs
<1>3. InCommand("down", NoProjection, <<>>) /\ PendingSound(events, NoProjection, <<>>)
  BY NothingPending
<1> QED
  BY <1>1, <1>2, <1>3 DEF PInv, Shape, Sound

LEMMA PrefixIs ==
  ASSUME NEW l \in Seq(Kinds), NEW n \in 0 .. Len(l)
  PROVE  /\ SubSeq(l, 1, n) \in Seq(Kinds) /\ Len(SubSeq(l, 1, n)) = n
         /\ Agree(l, SubSeq(l, 1, n), n)
<1>1. SubSeq(l, 1, n) \in Seq(Kinds) /\ Len(SubSeq(l, 1, n)) = n /\ n \in Nat /\ n <= Len(l)
  OBVIOUS
<1>2. \A i \in 1 .. n : SubSeq(l, 1, n)[i] = l[i]
  OBVIOUS
<1> HIDE DEF Agree
<1> QED
  BY <1>1, <1>2 DEF Agree

LEMMA PowerLossPInv ==
  ASSUME PInv, PowerLoss
  PROVE  PInv'
<1>1. /\ UNCHANGED <<registered, snapshots>>
      /\ phase' = "down" /\ projection' = NoProjection /\ rows' = NoRows /\ pending' = <<>>
  BY DEF PowerLoss, End
<1>2. PICK n \in synced .. Head0 :
          /\ events' = SubSeq(events, 1, n)
          /\ synced' = n
          /\ lapses' = lapses \cup IF \E s \in AllSnapshots : Saw(s, n) THEN {"outrun"} ELSE {}
  BY DEF PowerLoss
<1>3. /\ events \in Seq(Kinds) /\ Len(events) <= MaxEvents /\ Stored(snapshots)
      /\ n \in 0 .. Len(events) /\ MaxEvents \in Nat
      /\ registered \in {<<>>} \cup {<<d>> : d \in Descriptors}
  BY ProjectionsAssumption DEF PInv, Shape, OnDisk, Head0
<1>4. events' \in Seq(Kinds) /\ Len(events') = n /\ Agree(events, events', n)
  BY <1>2, <1>3, PrefixIs
<1>5. OnDisk(events', synced', registered, snapshots)
  BY <1>2, <1>3, <1>4 DEF OnDisk
<1>6. InMemory(events', registered, "down", NoProjection, NoRows) /\ ProjectionSound(events', NoProjection, NoRows)
  BY NoneIs
<1>7. InCommand("down", NoProjection, <<>>) /\ PendingSound(events', NoProjection, <<>>)
  BY NothingPending
<1>8. lapses' = {} => lapses = {} /\ \A s \in AllSnapshots : ~Saw(s, n)
  BY <1>2
<1>9. ASSUME \A s \in AllSnapshots : ~Saw(s, n), FilesSound(events, snapshots)
      PROVE  FilesSound(events', snapshots)
  <2>1. ASSUME NEW d \in Descriptors, NEW p \in Partitions(d), NEW s \in Range(snapshots[d][p])
        PROVE  FileSound(events', d, p, s)
    <3>1. snapshots[d][p] \in Seq(Files)
      BY <1>3 DEF Stored
    <3>2. s \in Files /\ FileSound(events, d, p, s)
      BY <1>9, <3>1, RangeIs DEF FilesSound
    <3>3. ~Saw(s, n) /\ n \in Nat
      BY <1>3, <1>9 DEF AllSnapshots
    <3> QED
      BY <1>3, <1>4, <3>2, <3>3, FileAgree
  <2> QED
    BY <2>1 DEF FilesSound
<1> QED
  BY <1>1, <1>5, <1>6, <1>7, <1>8, <1>9 DEF PInv, Shape, Sound

----------------------------------------------------------------------------
(* The invariant holds *)

\* While a command publishes, nothing but publication, its failure and the end
\* of the process can happen.
LEMMA NextPInv ==
  ASSUME PInv, [Next]_vars
  PROVE  PInv' /\ (pending # <<>> /\ Next => KeepsNewest)
<1>1. pending # <<>> => phase # "idle" /\ phase # "down"
  BY DEF PInv, Shape, InCommand
<1>2. snapshots' = snapshots => KeepsNewest
  <2>1. SUFFICES ASSUME snapshots' = snapshots, NEW d \in Descriptors, NEW p \in Partitions(d)
                 PROVE  Best(snapshots[d][p])' >= Best(snapshots[d][p])
    BY DEF KeepsNewest
  <2>2. snapshots[d][p] \in Seq(Files)
    BY DEF PInv, Shape, OnDisk, Stored
  <2>3. Best(snapshots'[d][p]) = Best(snapshots[d][p]) /\ Best(snapshots[d][p]) \in Int
    BY <2>1, <2>2, BestIs
  <2> QED
    BY <2>3 DEF Best
<1>3. CASE UNCHANGED vars
  <2>1. /\ UNCHANGED <<events, synced, registered, phase, projection, rows, snapshots, pending, lapses>>
    BY <1>3 DEF vars
  <2>2. PInv'
    BY <2>1 DEF PInv, Shape, Sound
  <2> QED
    BY <1>2, <2>1, <2>2
<1>4. ASSUME Open PROVE PInv' /\ phase = "down"
  BY <1>4, OpenPInv DEF Open
<1>5. ASSUME NEW kind \in Kinds, NEW due \in BOOLEAN, AppendEvent(kind, due) PROVE PInv' /\ phase = "idle"
  BY <1>5, WritePInv DEF AppendEvent, Write
<1>6. ASSUME NEW kind \in Kinds, IngestBatch(kind) PROVE PInv' /\ phase = "idle"
  BY <1>6, WritePInv DEF IngestBatch, Write
<1>7. ASSUME Commit PROVE PInv' /\ phase = "idle"
  BY <1>7, CommitPInv DEF Commit
<1>8. ASSUME NEW P, NEW target \in 0 .. MaxEvents, Query(P, target) PROVE PInv' /\ phase = "idle"
  <2>1. target \in Nat
    BY ProjectionsAssumption
  <2> QED
    BY <1>8, <2>1, QueryPInv DEF Query
<1>9. ASSUME CreateSnapshot PROVE PInv' /\ phase = "idle"
  BY <1>9, CreateSnapshotPInv DEF CreateSnapshot
<1>10. ASSUME NEW p, CreatePartitionSnapshot(p) PROVE PInv' /\ phase = "idle"
  BY <1>10, CreatePartitionSnapshotPInv DEF CreatePartitionSnapshot
<1>11. ASSUME PublishFile PROVE PInv' /\ KeepsNewest
  BY <1>11, PublishFilePInv
<1>12. ASSUME RetainTwo PROVE PInv' /\ KeepsNewest
  BY <1>12, RetainTwoPInv
<1>13. ASSUME PublishFails PROVE PInv' /\ snapshots' = snapshots
  BY <1>13, PublishFailsPInv DEF PublishFails, disk
<1>14. ASSUME NEW d \in Descriptors, NEW p \in Partitions(d), NEW i, DeleteSnapshot(d, p, i)
       PROVE  PInv' /\ phase = "idle"
  BY <1>14, DeleteSnapshotPInv DEF DeleteSnapshot
<1>15. ASSUME DeleteAllDerived PROVE PInv' /\ phase = "idle"
  BY <1>15, DeleteAllDerivedPInv DEF DeleteAllDerived
<1>16. ASSUME NEW d \in Descriptors, RegisterQuery(d) \/ RegisterRuntime(d) PROVE PInv' /\ phase = "idle"
  BY <1>16, RegisterQueryPInv, RegisterRuntimePInv DEF RegisterQuery, RegisterRuntime
<1>17. ASSUME RetryQuery PROVE PInv' /\ phase = "idle"
  BY <1>17, RetryQueryPInv DEF RetryQuery
<1>18. ASSUME RemoveQuery PROVE PInv' /\ phase = "idle"
  BY <1>18, RemoveQueryPInv DEF RemoveQuery
<1>19. ASSUME RebuildProjection PROVE PInv' /\ phase = "idle"
  BY <1>19, RebuildProjectionPInv DEF RebuildProjection
<1>20. ASSUME Kill PROVE PInv' /\ snapshots' = snapshots
  BY <1>20, KillPInv DEF Kill, disk
<1>21. ASSUME PowerLoss PROVE PInv' /\ snapshots' = snapshots
  BY <1>21, PowerLossPInv DEF PowerLoss
<1>22. CASE Next
  BY <1>1, <1>2, <1>4, <1>5, <1>6, <1>7, <1>8, <1>9, <1>10, <1>11, <1>12, <1>13, <1>14, <1>15, <1>16, <1>17,
     <1>18, <1>19, <1>20, <1>21, <1>22 DEF Next
<1> QED
  BY <1>3, <1>22

----------------------------------------------------------------------------
(* What it says of answers, snapshots and failures *)

\* The greatest of the events of a key up to n, when it is known.
LEMMA LastOfIs ==
  ASSUME NEW d, NEW k, NEW n \in Nat, NEW x \in {0} \cup Folds(d, k, n),
         \A i \in Folds(d, k, n) : i <= x
  PROVE  LastOf(d, k, n) = x
<1> DEFINE F == {0} \cup Folds(d, k, n)
<1>1. F \in SUBSET Int /\ F # {} /\ AtMost(F, n) /\ x \in Int /\ x >= 0
  BY DEF Folds, AtMost
<1>2. Max(F) \in F /\ AtMost(F, Max(F))
  <2> HIDE DEF F
  <2> QED
    BY <1>1, MaxOf
<1>3. x <= Max(F)
  BY <1>2 DEF AtMost
<1>4. \A i \in F : i <= x
  BY <1>1
<1>5. Max(F) <= x /\ Max(F) \in Int
  BY <1>1, <1>2, <1>4
<1>6. LastOf(d, k, n) = Max(F)
  BY DEF LastOf
<1> HIDE DEF F
<1> QED
  BY <1>1, <1>3, <1>5, <1>6

\* Rows that cover a partition show it as of a position, or of a later one.
LEMMA CoversShow ==
  ASSUME events \in Seq(Kinds), NEW d, NEW p, NEW r \in RowMaps, RowsFrom(events, d, r),
         NEW c \in 0 .. Len(events), Covers(events, d, p, r, c, Len(events)), NEW t \in 0 .. c
  PROVE  Shows(d, r, p, t)
<1>1. Len(events) \in Nat /\ Head0 = Len(events) /\ t \in Nat /\ t <= Len(events)
  BY DEF Head0
<1>2. ASSUME NEW k \in OwnKeys(d, p)
      PROVE  \E later \in t .. Len(events) : Row(r, k) = LastOf(d, k, later)
  <2>1. k \in Keys /\ OwnUpTo(events, d, p, k, Len(events))
    BY <1>1 DEF OwnKeys, OwnUpTo, Folds, FoldsIn
  <2>2. \A i \in Folds(d, k, c) : i <= Row(r, k)
    BY <2>1 DEF Covers, Folds, FoldsIn
  <2>3. Row(r, k) \in Nat /\ (Row(r, k) # 0 => Row(r, k) \in Folds(d, k, Len(events)))
    <3>1. Row(r, k) # 0 => k \in DOMAIN r /\ Row(r, k) = r[k].at
      BY DEF Row
    <3> QED
      BY <3>1, RowIs DEF RowsFrom, Folds, FoldsIn
  <2>4. CASE Row(r, k) > t
    <3>1. Row(r, k) \in 1 .. Len(events) /\ Row(r, k) \in Folds(d, k, Row(r, k))
      BY <2>3, <2>4, <1>1 DEF Folds
    <3>2. \A i \in Folds(d, k, Row(r, k)) : i <= Row(r, k)
      BY <2>3 DEF Folds
    <3>3. LastOf(d, k, Row(r, k)) = Row(r, k)
      BY <2>3, <3>1, <3>2, LastOfIs
    <3>4. Row(r, k) \in t .. Len(events)
      BY <1>1, <2>4, <3>1
    <3> QED
      BY <3>3, <3>4
  <2>5. CASE Row(r, k) <= t
    <3>1. Row(r, k) \in {0} \cup Folds(d, k, t)
      BY <1>1, <2>3, <2>5 DEF Folds
    <3>2. \A i \in Folds(d, k, t) : i <= Row(r, k)
      <4>1. Folds(d, k, t) \subseteq Folds(d, k, c)
        BY DEF Folds
      <4> QED
        BY <2>2, <4>1
    <3>3. LastOf(d, k, t) = Row(r, k)
      BY <1>1, <3>1, <3>2, LastOfIs
    <3>4. t \in t .. Len(events)
      BY <1>1
    <3> QED
      BY <3>3, <3>4
  <2> QED
    BY <1>1, <2>3, <2>4, <2>5
<1>3. ASSUME NEW k \in OwnKeys(d, p) PROVE Row(r, k) \in {LastOf(d, k, later) : later \in t .. Head0}
  BY <1>1, <1>2
<1> QED
  BY <1>3 DEF Shows

LEMMA RowsFollow ==
  ASSUME PInv
  PROVE  RowsExact
<1>1. SUFFICES ASSUME lapses = {}, Exists, NEW p \in Partitions(desc), NEW target \in 0 .. Head0,
                      Answered({p}, target)
               PROVE  Shows(desc, rows, p, target)
  BY DEF RowsExact, RowsAsAnswered
<1>2. /\ p \in Ready /\ projection.parts[p].cursor >= target
      /\ events \in Seq(Kinds) /\ Head0 = Len(events) /\ rows \in RowMaps
  BY <1>1 DEF Answered, PInv, Shape, OnDisk, InMemory, Head0
<1>3. desc \in Descriptors /\ IsProjection(projection, desc) /\ projection.desc # <<>> /\ projection.desc[1] = desc
  BY <1>1, DescShape DEF PInv, Exists, desc
<1>4. /\ RowsFrom(events, desc, rows)
      /\ PartSound(events, desc, projection.runtime, rows, p, projection.parts[p])
  BY <1>1, <1>3 DEF PInv, Sound, ProjectionSound, PartsSound, InHand
<1>5. projection.parts[p].kind = "Ready" /\ projection.parts[p].cursor \in Nat
  BY <1>1, <1>2, <1>3, ProjectionIs DEF Ready
<1>6. /\ projection.parts[p].cursor \in 0 .. Len(events) /\ target \in 0 .. projection.parts[p].cursor
      /\ Covers(events, desc, p, rows, projection.parts[p].cursor, Len(events))
  BY <1>2, <1>4, <1>5 DEF PartSound
<1> QED
  BY <1>2, <1>4, <1>6, CoversShow

LEMMA SnapshotsFollow ==
  ASSUME PInv
  PROVE  SnapshotsExact
<1>1. SUFFICES ASSUME lapses = {}, NEW d \in Descriptors, NEW p \in Partitions(d),
                      NEW s \in Range(snapshots[d][p])
               PROVE  Shows(d, s.rows, p, s.cursor)
  BY DEF SnapshotsExact
<1>2. events \in Seq(Kinds) /\ snapshots[d][p] \in Seq(Files) /\ Len(events) \in Nat
  BY DEF PInv, Shape, OnDisk, Stored
<1>3. s \in Files /\ FileSound(events, d, p, s)
  BY <1>1, <1>2, RangeIs DEF PInv, Sound, FilesSound
<1>4. s.cursor \in 0 .. Len(events) /\ s.cursor \in 0 .. s.cursor /\ s.rows \in RowMaps
  BY <1>2, <1>3 DEF FileSound, Files
<1>5. Covers(events, d, p, s.rows, s.cursor, Len(events))
  <2>1. SUFFICES ASSUME NEW k \in Keys, OwnUpTo(events, d, p, k, Len(events))
                 PROVE  OwnUpTo(events, d, p, k, s.cursor)
    BY <1>3 DEF FileSound, Covers
  <2> QED
    BY <1>2, <1>4, <2>1 DEF OwnUpTo, FoldsIn
<1> QED
  BY <1>2, <1>3, <1>4, <1>5, CoversShow DEF FileSound

LEMMA FailuresFollow ==
  ASSUME PInv
  PROVE  FailuresAreLocal
<1>1. SUFFICES ASSUME lapses = {}, Exists, NEW p \in Partitions(desc)
               PROVE  /\ projection.parts[p].kind = "Failed" =>
                            Refused(events, projection.runtime,
                                    Selected(events, desc, p, projection.parts[p].cursor, Head0)) # {}
                      /\ projection.parts[p].kind = "Ready" =>
                            Refused(events, projection.runtime,
                                    Selected(events, desc, p, 0, projection.parts[p].cursor)) = {}
  BY Zenon DEF FailuresAreLocal
<1>2. PartSound(events, desc, projection.runtime, rows, p, projection.parts[p])
  BY <1>1 DEF PInv, Sound, ProjectionSound, PartsSound, InHand, Exists, desc
<1> QED
  BY <1>2 DEF PartSound, Head0

LEMMA TypesFollow ==
  ASSUME PInv
  PROVE  TypeOK
<1>1. /\ synced \in 0 .. Head0 /\ Head0 <= MaxEvents
      /\ phase \in {"down", "idle", "publishing", "retaining"}
      /\ phase \in {"publishing", "retaining"} <=> pending # <<>>
  BY DEF PInv, Shape, OnDisk, InCommand, Head0
<1>2. ASSUME Exists
      PROVE  /\ DOMAIN projection.parts = Partitions(desc)
             /\ registered = projection.desc
             /\ \A p \in Partitions(desc) : /\ projection.parts[p].kind \in {"Cold", "Ready", "Failed"}
                                            /\ projection.parts[p].cursor \in 0 .. Head0
  <2>1. desc \in Descriptors /\ IsProjection(projection, desc)
    BY <1>2, DescShape DEF PInv
  <2>2. registered = projection.desc /\ Bounded(projection.parts, Len(events)) /\ Len(events) \in Nat
    BY <1>2 DEF PInv, Shape, OnDisk, InMemory, Exists
  <2>3. DOMAIN projection.parts = Partitions(desc)
    BY <2>1 DEF IsProjection
  <2>4. \A p \in Partitions(desc) : /\ projection.parts[p].kind \in {"Cold", "Ready", "Failed"}
                                    /\ projection.parts[p].cursor \in Nat
    BY <2>1, ProjectionIs
  <2> QED
    BY <2>2, <2>3, <2>4 DEF Bounded, Head0
<1> QED
  BY <1>1, <1>2 DEF TypeOK

\* The invariant: the types, and as long as nothing happened that answers do
\* not survive, the soundness of partitions, files and what waits to be published.
THEOREM ProjectionInvariant == Spec => []PInv
<1>1. Init => PInv
  BY InitPInv
<1>2. PInv /\ [Next]_vars => PInv'
  BY NextPInv
<1> QED
  BY <1>1, <1>2, PTL DEF Spec

\* Every state is of the types the code declares, and no cursor passes the head.
THEOREM TypesHold == Spec => []TypeOK
<1>1. PInv => TypeOK
  BY TypesFollow
<1> QED
  BY <1>1, ProjectionInvariant, PTL

\* An answered query shows the fold of the log, for every descriptor, number of
\* partitions, order of heals and choice of snapshots (heal_partitions).  This
\* theorem and the two after it hold until a power loss takes events that a
\* snapshot file has seen ("outrun"), or a registration or a rebuild starts a
\* projection over and stops half way while a partition of it is ready ("reset").
THEOREM AnswersAreExact == Spec => []RowsExact
<1>1. PInv => RowsExact
  BY RowsFollow
<1> QED
  BY <1>1, ProjectionInvariant, PTL

\* Every file a later open may restore has the rows of its partition as of its
\* cursor, under the same condition (create_snapshot, checkpoint_partition).
THEOREM SnapshotsAreExact == Spec => []SnapshotsExact
<1>1. PInv => SnapshotsExact
  BY SnapshotsFollow
<1> QED
  BY <1>1, ProjectionInvariant, PTL

\* A partition fails for its own events alone, under the same condition
\* (heal_partitions).
THEOREM FailuresStayLocal == Spec => []FailuresAreLocal
<1>1. PInv => FailuresAreLocal
  BY FailuresFollow
<1> QED
  BY <1>1, ProjectionInvariant, PTL

\* Publication and the removal behind it, whatever step they stop at, never
\* cost the newest generation (publish, retain_two).
THEOREM NewestIsKept == Spec => GenerationsAdvance
<1>1. PInv /\ [Next]_vars => [pending # <<>> => KeepsNewest]_vars
  BY NextPInv
<1> QED
  BY <1>1, ProjectionInvariant, PTL DEF Spec, GenerationsAdvance
=============================================================================
