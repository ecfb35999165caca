-------------------------- MODULE TimelinesProofs --------------------------
(***************************************************************************)
(* What Timelines promises of branches, readers, pages and diffs, for      *)
(* every value of the constants.                                           *)
(***************************************************************************)
EXTENDS Timelines, TLAPS, FiniteSetTheorems

(* The inductive invariant *)

Event == [kind : {"event"}, pos : Nat, batch : Nat, branch : Branches,
          stream : Streams, time : Int, size : Nat]

Created == [kind : {"created"}, pos : Nat, batch : Nat, branch : Names,
            parent : Branches, fork : Nat]

ArchivedFrame == [kind : {"archived"}, pos : Nat, batch : Nat, branch : Names]

Frame == Event \cup Created \cup ArchivedFrame

Reader == [branch : Branches, stream : SUBSET Streams, from : Nat, until : Nat,
           continuation : Nat, open : BOOLEAN]

Typed ==
    /\ frames \in Seq(Frame)
    /\ segments \in Seq([base : Nat, first : Nat \ {0}]) /\ segments # <<>>
    /\ synced \in 0 .. Len(frames)
    /\ phase \in {"down", "idle", "committing"}
    /\ reader \in Reader

\* Positions and batches grow with the frames, and an event takes its position.
FramesOrdered ==
    /\ \A i, j \in DOMAIN frames : i < j =>
          /\ frames[i].pos <= frames[j].pos
          /\ frames[i].batch <= frames[j].batch
          /\ IsEvent(i) => frames[i].pos < frames[j].pos
    /\ \A i \in DOMAIN frames : frames[i].batch <= i

BatchOnOneBranch ==
    \A i, j \in EventsIn(DOMAIN frames) :
        frames[i].batch = frames[j].batch => frames[i].branch = frames[j].branch

\* The head after the first n frames of a log.
HeadOf(l, n) == IF n = 0 THEN 0 ELSE l[n].pos + (IF l[n].kind = "event" THEN 1 ELSE 0)

HeadAt(n) == HeadOf(frames, n)

\* Segments follow each other, each begins at the head of the ones before, and
\* only the last one can lose frames.
SegmentsLaid ==
    /\ segments[1].first = 1
    /\ \A g \in DOMAIN segments :
          /\ segments[g].first <= synced + 1
          /\ segments[g].base = HeadAt(segments[g].first - 1)
          /\ \A h \in DOMAIN segments : g < h => segments[g].first <= segments[h].first

\* An ancestry leads from the root to the branch, and the ancestry of each
\* branch on it is the part up to there.
Lineage(cat, b) ==
    LET path == cat[b].path IN
    /\ path \in Seq(DOMAIN cat) /\ path # <<>>
    /\ path[1] = Default /\ path[Len(path)] = b
    /\ \A k \in DOMAIN path : cat[path[k]].path = SubSeq(path, 1, k)

IsCatalog(cat) ==
    /\ cat \in [DOMAIN cat -> [path : Seq(Branches), fork : Nat, archived : BOOLEAN]]
    /\ DOMAIN cat \subseteq Branches
    /\ Default \in DOMAIN cat
    /\ \A b \in DOMAIN cat : Lineage(cat, b)

\* A fork lies between batches, and no event of a branch before its fork.
ForksIn(l, cat) ==
    \A b \in DOMAIN cat :
        /\ \A i, j \in DOMAIN l :
              /\ l[i].kind = "event" /\ l[i].pos < cat[b].fork
              /\ l[j].kind = "event" /\ cat[b].fork <= l[j].pos
              => l[i].batch # l[j].batch
        /\ \A i \in DOMAIN l : l[i].kind = "event" /\ l[i].branch = b => cat[b].fork <= l[i].pos

ForksSound(cat) == ForksIn(frames, cat)

\* The first n frames of a log rebuild to a sound catalog, with the branches
\* of all their events.
SoundAt(l, n) ==
    LET cat == Rebuild(SubSeq(l, 1, n)) IN
    /\ IsCatalog(cat)
    /\ ForksIn(l, cat)
    /\ \A b \in DOMAIN cat : cat[b].fork <= HeadOf(l, n)
    /\ \A i \in 1 .. n : l[i].kind = "event" => l[i].branch \in DOMAIN cat

\* So does whatever a power loss leaves of the log.
CatalogsSound == \A n \in 0 .. Len(frames) : SoundAt(frames, n)

\* A later catalog knows all branches, by the same ancestry and fork.
Extends(new, old) ==
    \A b \in DOMAIN old :
        b \in DOMAIN new /\ new[b].path = old[b].path /\ new[b].fork = old[b].fork

InMemory ==
    /\ phase = "idle" => branches = Rebuild(frames)
    /\ phase = "committing" =>
          /\ updated = Rebuild(frames)
          /\ Extends(updated, branches)
          /\ IsCatalog(branches)
          /\ ForksSound(branches)

\* A reader does not go beyond the head it began with.
ReaderSane ==
    reader.open =>
        /\ phase # "down"
        /\ reader.branch \in DOMAIN branches
        /\ reader.until <= LogHead
        /\ reader.from <= reader.continuation
        /\ reader.continuation <= reader.until \/ reader.continuation = reader.from

TInv ==
    /\ Typed /\ FramesOrdered /\ BatchOnOneBranch /\ SegmentsLaid
    /\ CatalogsSound /\ InMemory /\ ReaderSane /\ PagesExact

----------------------------------------------------------------------------
(* Induction and recursion *)

\* What holds of 0 and passes from each number below n to the next holds up
\* to n.
LEMMA Climb ==
  ASSUME NEW n \in Nat, NEW S, 0 \in S, \A k \in 0 .. n : k < n /\ k \in S => k + 1 \in S
  PROVE  \A k \in 0 .. n : k \in S
<1> DEFINE missing == (0 .. n) \ S
<1> SUFFICES ASSUME missing # {} PROVE FALSE
  OBVIOUS
<1>1. PICK k \in missing : \A j \in missing : ~(<<j, k>> \in OpToRel(<, Nat))
  <2>1. missing \in SUBSET Nat
    OBVIOUS
  <2> QED
    BY <2>1, NatLessThanWellFounded, WFMin
<1>2. k \in 1 .. n /\ k \in Nat
  <2>1. k \in 0 .. n /\ k # 0
    BY <1>1
  <2> QED
    BY <2>1
<1>3. k - 1 \in 0 .. n /\ k - 1 < n /\ (k - 1) + 1 = k /\ k - 1 < k /\ k - 1 \in Nat
  BY <1>2
<1>4. k - 1 \in S
  <2>1. ~(<<k - 1, k>> \in OpToRel(<, Nat)) => FALSE
    BY <1>2, <1>3 DEF OpToRel
  <2> QED
    BY <1>1, <1>3, <2>1
<1> QED
  BY <1>1, <1>3, <1>4
\* A set of numbers with a bound has a greatest one, and Max is it.
LEMMA MaxOf ==
  ASSUME NEW S \in SUBSET Nat, NEW n \in Nat, S # {}, \A x \in S : x <= n
  PROVE  Max(S) \in S /\ \A x \in S : x <= Max(S)
<1> DEFINE below == {k \in 0 .. n : (\A x \in S : x > k) \/ \E x \in S : x <= k /\ \A y \in S : y <= k => y <= x}
<1>1. 0 \in below
  BY SMT
<1>2. ASSUME NEW k \in 0 .. n, k < n, k \in below PROVE k + 1 \in below
  <2>1. CASE k + 1 \in S
    <3>1. \A y \in S : y <= k + 1 => y <= k + 1
      OBVIOUS
    <3> QED
      BY <1>2, <2>1, <3>1
  <2>2. CASE k + 1 \notin S
    <3>1. \A y \in S : y <= k + 1 <=> y <= k
      BY <2>2
    <3>2. (k + 1) \in 0 .. n
      BY <1>2
    <3>3. CASE \A x \in S : x > k
      <4>1. \A x \in S : x > k + 1
        BY <2>2, <3>3
      <4> QED
        BY <3>2, <4>1
    <3>4. CASE \E x \in S : x <= k /\ \A y \in S : y <= k => y <= x
      BY <3>1, <3>2, <3>4
    <3> QED
      BY <1>2, <3>3, <3>4
  <2> QED
    BY <2>1, <2>2
<1>3. n \in below
  <2> HIDE DEF below
  <2>1. \A k \in 0 .. n : k \in below
    BY <1>1, <1>2, Climb
  <2> QED
    BY <2>1
<1>4. \E x \in S : \A y \in S : x >= y
  <2>1. (\A x \in S : x > n) \/ \E x \in S : x <= n /\ \A y \in S : y <= n => y <= x
    BY <1>3
  <2>2. PICK z \in S : z <= n
    OBVIOUS
  <2>3. ~(\A x \in S : x > n)
    BY <2>2
  <2>4. PICK x \in S : \A y \in S : y <= n => y <= x
    BY <2>1, <2>3
  <2>5. \A y \in S : x >= y
    BY <2>4
  <2> QED
    BY <2>5
<1>5. Max(S) \in S /\ \A y \in S : Max(S) >= y
  BY <1>4, Zenon DEF Max
<1> QED
  BY <1>5

\* A set of numbers has a least one, and Min is it.
LEMMA MinOf ==
  ASSUME NEW S \in SUBSET Nat, S # {}
  PROVE  Min(S) \in S /\ \A x \in S : Min(S) <= x
<1>1. PICK x \in S : \A y \in S : ~(<<y, x>> \in OpToRel(<, Nat))
  BY NatLessThanWellFounded, WFMin
<1>2. ASSUME NEW y \in S PROVE x <= y
  <2>1. ~(<<y, x>> \in OpToRel(<, Nat))
    BY <1>1
  <2>2. ~(y < x)
    BY <2>1, SMT DEF OpToRel
  <2> QED
    BY <2>2
<1> QED
  BY <1>1, <1>2 DEF Min

----------------------------------------------------------------------------
(* Sequences *)

LEMMA SameSequence ==
  ASSUME NEW S, NEW s \in Seq(S), NEW T, NEW t \in Seq(T), Len(s) = Len(t),
         \A i \in 1 .. Len(s) : s[i] = t[i]
  PROVE  s = t
<1>1. DOMAIN s = 1 .. Len(s) /\ DOMAIN t = 1 .. Len(t)
  OBVIOUS
<1>2. s = [i \in 1 .. Len(s) |-> s[i]] /\ t = [i \in 1 .. Len(s) |-> t[i]]
  OBVIOUS
<1> QED
  BY <1>2, Zenon

LEMMA PrefixOf ==
  ASSUME NEW S, NEW s \in Seq(S), NEW n \in 0 .. Len(s)
  PROVE  /\ SubSeq(s, 1, n) \in Seq(S)
         /\ Len(SubSeq(s, 1, n)) = n
         /\ \A i \in 1 .. n : SubSeq(s, 1, n)[i] = s[i]
OBVIOUS

\* The whole of a sequence is a prefix, and so is the prefix of a prefix.
LEMMA PrefixesOf ==
  ASSUME NEW S, NEW s \in Seq(S)
  PROVE  /\ SubSeq(s, 1, Len(s)) = s
         /\ \A n \in 0 .. Len(s) : \A m \in 0 .. n :
               SubSeq(SubSeq(s, 1, n), 1, m) = SubSeq(s, 1, m)
<1>1. SubSeq(s, 1, Len(s)) = s
  BY PrefixOf, SameSequence
<1>2. ASSUME NEW n \in 0 .. Len(s), NEW m \in 0 .. n
      PROVE  SubSeq(SubSeq(s, 1, n), 1, m) = SubSeq(s, 1, m)
  <2>1. m \in 0 .. Len(s) /\ n \in Nat /\ m \in Nat
    OBVIOUS
  <2> DEFINE p == SubSeq(s, 1, n)
  <2>2. p \in Seq(S) /\ Len(p) = n /\ \A i \in 1 .. n : p[i] = s[i]
    BY PrefixOf
  <2> HIDE DEF p
  <2>3. /\ SubSeq(p, 1, m) \in Seq(S) /\ Len(SubSeq(p, 1, m)) = m
        /\ \A i \in 1 .. m : SubSeq(p, 1, m)[i] = p[i]
    BY <2>2, PrefixOf
  <2>4. /\ SubSeq(s, 1, m) \in Seq(S) /\ Len(SubSeq(s, 1, m)) = m
        /\ \A i \in 1 .. m : SubSeq(s, 1, m)[i] = s[i]
    BY <2>1, PrefixOf
  <2>5. \A i \in 1 .. m : SubSeq(p, 1, m)[i] = SubSeq(s, 1, m)[i]
    BY <2>1, <2>2, <2>3, <2>4
  <2>6. SubSeq(p, 1, m) = SubSeq(s, 1, m)
    BY <2>3, <2>4, <2>5, SameSequence
  <2> QED
    BY <2>6 DEF p
<1> QED
  BY <1>1, <1>2

\* What is appended leaves the shorter prefixes alone.
LEMMA PrefixOfLonger ==
  ASSUME NEW S, NEW s \in Seq(S), NEW T, NEW t \in Seq(T), NEW n \in 0 .. Len(s), n <= Len(t),
         \A i \in 1 .. n : s[i] = t[i]
  PROVE  SubSeq(s, 1, n) = SubSeq(t, 1, n)
<1>1. /\ SubSeq(s, 1, n) \in Seq(S) /\ Len(SubSeq(s, 1, n)) = n
      /\ \A i \in 1 .. n : SubSeq(s, 1, n)[i] = s[i]
  BY PrefixOf
<1>2. /\ SubSeq(t, 1, n) \in Seq(T) /\ Len(SubSeq(t, 1, n)) = n
      /\ \A i \in 1 .. n : SubSeq(t, 1, n)[i] = t[i]
  BY PrefixOf
<1> QED
  BY <1>1, <1>2, SameSequence

LEMMA JoinOf ==
  ASSUME NEW S, NEW s \in Seq(S), NEW t \in Seq(S)
  PROVE  /\ s \o t \in Seq(S) /\ Len(s \o t) = Len(s) + Len(t)
         /\ \A i \in 1 .. Len(s) : (s \o t)[i] = s[i]
         /\ \A i \in 1 .. Len(t) : (s \o t)[Len(s) + i] = t[i]
OBVIOUS

----------------------------------------------------------------------------
(* The catalog that a log rebuilds *)

Step(l, n, g) == IF n = 0 THEN RootOnly ELSE Registered(g[n - 1], l[n])

\* The catalogs after each of the frames.
IsHistory(g, l, n) == g = [k \in 0 .. n |-> Step(l, k, g)]

LEMMA HistoryExists ==
  ASSUME NEW l, NEW n \in Nat
  PROVE  \E g : IsHistory(g, l, n)
<1> DEFINE S == {k \in 0 .. n : \E g : IsHistory(g, l, k)}
<1>1. 0 \in S
  <2> DEFINE g == [k \in 0 .. 0 |-> RootOnly]
  <2>1. \A k \in 0 .. 0 : Step(l, k, g) = RootOnly
    BY DEF Step
  <2>2. IsHistory(g, l, 0)
    BY <2>1 DEF IsHistory
  <2> QED
    BY <2>2
<1>2. ASSUME NEW k \in 0 .. n, k < n, k \in S PROVE k + 1 \in S
  <2>1. PICK g : IsHistory(g, l, k)
    BY <1>2
  <2> DEFINE h == [j \in 0 .. k + 1 |-> IF j = k + 1 THEN Registered(g[k], l[k + 1]) ELSE g[j]]
  <2>2. ASSUME NEW j \in 0 .. k + 1 PROVE h[j] = Step(l, j, h)
    <3>1. CASE j = k + 1
      <4>1. h[j] = Registered(g[k], l[k + 1])
        BY <3>1
      <4>2. j # 0 /\ j - 1 = k /\ k \in 0 .. k + 1 /\ k # k + 1
        BY <3>1
      <4>3. h[j - 1] = g[k]
        BY <4>2
      <4> HIDE DEF h
      <4> QED
        BY <3>1, <4>1, <4>2, <4>3 DEF Step
    <3>2. CASE j # k + 1
      <4>1. j \in 0 .. k /\ h[j] = g[j]
        BY <3>2
      <4>2. g[j] = Step(l, j, g)
        BY <2>1, <4>1 DEF IsHistory
      <4>3. j # 0 => j - 1 \in 0 .. k + 1 /\ j - 1 # k + 1 /\ h[j - 1] = g[j - 1]
        BY <4>1
      <4> HIDE DEF h
      <4> QED
        BY <4>1, <4>2, <4>3 DEF Step
    <3> QED
      BY <3>1, <3>2
  <2>3. h = [j \in 0 .. k + 1 |-> h[j]]
    OBVIOUS
  <2> HIDE DEF h
  <2>4. IsHistory(h, l, k + 1)
    BY <2>2, <2>3 DEF IsHistory
  <2>5. k + 1 \in 0 .. n
    BY <1>2
  <2> QED
    BY <2>4, <2>5
<1> HIDE DEF S
<1>3. \A k \in 0 .. n : k \in S
  BY <1>1, <1>2, Climb
<1> QED
  BY <1>3 DEF S

\* A history is read off step by step, so that of a longer log continues it.
LEMMA HistoriesAgree ==
  ASSUME NEW l, NEW m, NEW g, NEW h, NEW n \in Nat, NEW k \in Nat, n <= k,
         IsHistory(g, l, n), IsHistory(h, m, k), \A j \in 1 .. n : l[j] = m[j]
  PROVE  \A j \in 0 .. n : g[j] = h[j]
<1> DEFINE S == {j \in 0 .. n : g[j] = h[j]}
<1>1. 0 \in S
  BY DEF IsHistory, Step
<1>2. ASSUME NEW j \in 0 .. n, j < n, j \in S PROVE j + 1 \in S
  <2>1. j + 1 \in 0 .. n /\ j + 1 \in 0 .. k /\ j + 1 # 0 /\ (j + 1) - 1 = j /\ j + 1 \in 1 .. n
    BY <1>2
  <2>2. g[j + 1] = Registered(g[j], l[j + 1]) /\ h[j + 1] = Registered(h[j], m[j + 1])
    BY <2>1 DEF IsHistory, Step
  <2> QED
    BY <1>2, <2>1, <2>2
<1> HIDE DEF S
<1>3. \A j \in 0 .. n : j \in S
  BY <1>1, <1>2, Climb
<1> QED
  BY <1>3 DEF S

LEMMA RebuildIs ==
  ASSUME NEW l, Len(l) \in Nat
  PROVE  \E g : IsHistory(g, l, Len(l)) /\ Rebuild(l) = g[Len(l)]
<1> DEFINE cat == CHOOSE g : IsHistory(g, l, Len(l))
<1>1. IsHistory(cat, l, Len(l))
  BY HistoryExists
<1>2. Rebuild(l) = cat[Len(l)]
  BY DEF Rebuild, IsHistory, Step
<1> QED
  BY <1>1, <1>2

\* rebuild of nothing, and of one more frame.
LEMMA RebuildStep ==
  /\ Rebuild(<<>>) = RootOnly
  /\ \A l, m : /\ Len(l) \in Nat /\ Len(m) = Len(l) + 1
               /\ \A j \in 1 .. Len(l) : l[j] = m[j]
               => Rebuild(m) = Registered(Rebuild(l), m[Len(m)])
<1>1. Rebuild(<<>>) = RootOnly
  <2>1. PICK g : IsHistory(g, <<>>, 0) /\ Rebuild(<<>>) = g[0]
    BY RebuildIs
  <2> QED
    BY <2>1 DEF IsHistory, Step
<1>2. ASSUME NEW l, NEW m, Len(l) \in Nat, Len(m) = Len(l) + 1, \A j \in 1 .. Len(l) : l[j] = m[j]
      PROVE  Rebuild(m) = Registered(Rebuild(l), m[Len(m)])
  <2>1. PICK g : IsHistory(g, l, Len(l)) /\ Rebuild(l) = g[Len(l)]
    BY <1>2, RebuildIs
  <2>2. Len(m) \in Nat /\ Len(l) <= Len(m) /\ Len(m) # 0 /\ Len(m) - 1 = Len(l) /\ Len(m) \in 0 .. Len(m)
    BY <1>2
  <2>3. PICK h : IsHistory(h, m, Len(m)) /\ Rebuild(m) = h[Len(m)]
    BY <2>2, RebuildIs
  <2>4. g[Len(l)] = h[Len(l)]
    BY <1>2, <2>1, <2>2, <2>3, HistoriesAgree
  <2>5. h[Len(m)] = Registered(h[Len(m) - 1], m[Len(m)])
    BY <2>2, <2>3 DEF IsHistory, Step
  <2> QED
    BY <2>1, <2>2, <2>3, <2>4, <2>5
<1> QED
  BY <1>1, <1>2
----------------------------------------------------------------------------
(* Catalogs *)

\* BranchCatalog::insert adds one branch and leaves the others alone.
LEMMA InsertedIs ==
  ASSUME NEW cat, NEW b, NEW parent, NEW at
  PROVE  /\ DOMAIN Inserted(cat, b, parent, at) = DOMAIN cat \cup {b}
         /\ Inserted(cat, b, parent, at) =
               [x \in DOMAIN cat \cup {b} |-> Inserted(cat, b, parent, at)[x]]
         /\ Inserted(cat, b, parent, at)[b] =
               [path |-> Append(cat[parent].path, b), fork |-> at, archived |-> FALSE]
         /\ \A x \in DOMAIN cat : x # b => Inserted(cat, b, parent, at)[x] = cat[x]
BY DEF Inserted

\* The ancestry of a branch, entry by entry.
LEMMA PathIs ==
  ASSUME NEW cat, NEW b, Lineage(cat, b)
  PROVE  /\ cat[b].path \in Seq(DOMAIN cat)
         /\ Len(cat[b].path) \in Nat \ {0} /\ DOMAIN cat[b].path = 1 .. Len(cat[b].path)
         /\ cat[b].path[1] = Default /\ cat[b].path[Len(cat[b].path)] = b
         /\ \A k \in 1 .. Len(cat[b].path) :
               cat[b].path[k] \in DOMAIN cat /\ cat[cat[b].path[k]].path = SubSeq(cat[b].path, 1, k)
<1> DEFINE path == cat[b].path
<1>1. path \in Seq(DOMAIN cat) /\ path # <<>>
  BY DEF Lineage
<1>2. Len(path) \in Nat \ {0} /\ DOMAIN path = 1 .. Len(path) /\ \A k \in 1 .. Len(path) : path[k] \in DOMAIN cat
  <2> HIDE DEF path
  <2> QED
    BY <1>1
<1>3. \A k \in DOMAIN path : cat[path[k]].path = SubSeq(path, 1, k)
  BY DEF Lineage
<1>4. path[1] = Default /\ path[Len(path)] = b
  BY DEF Lineage
<1> HIDE DEF path
<1>5. \A k \in 1 .. Len(path) : path[k] \in DOMAIN cat /\ cat[path[k]].path = SubSeq(path, 1, k)
  BY <1>2, <1>3
<1> QED
  BY <1>1, <1>2, <1>4, <1>5 DEF path

LEMMA IsLineage ==
  ASSUME NEW cat, NEW b, NEW path, cat[b].path = path, path \in Seq(DOMAIN cat), Len(path) \in Nat \ {0},
         path[1] = Default, path[Len(path)] = b,
         \A k \in 1 .. Len(path) : cat[path[k]].path = SubSeq(path, 1, k)
  PROVE  Lineage(cat, b)
<1>1. path # <<>> /\ DOMAIN path = 1 .. Len(path)
  OBVIOUS
<1> QED
  BY <1>1 DEF Lineage

\* A catalog that knows all branches of another by their ancestry keeps it.
LEMMA LineageKept ==
  ASSUME NEW cat, NEW new, IsCatalog(cat), Extends(new, cat), NEW b \in DOMAIN cat
  PROVE  Lineage(new, b)
<1> DEFINE path == cat[b].path
<1>1. Lineage(cat, b)
  BY DEF IsCatalog
<1>2. /\ path \in Seq(DOMAIN cat) /\ Len(path) \in Nat \ {0}
      /\ path[1] = Default /\ path[Len(path)] = b
      /\ \A k \in 1 .. Len(path) : path[k] \in DOMAIN cat /\ cat[path[k]].path = SubSeq(path, 1, k)
  BY <1>1, PathIs
<1>3. new[b].path = path /\ DOMAIN cat \subseteq DOMAIN new
  BY DEF Extends
<1>4. \A x \in DOMAIN cat : new[x].path = cat[x].path
  BY DEF Extends
<1> HIDE DEF path
<1>5. \A k \in 1 .. Len(path) : new[path[k]].path = SubSeq(path, 1, k)
  BY <1>2, <1>4
<1>6. path \in Seq(DOMAIN new)
  BY <1>2, <1>3
<1> QED
  BY <1>2, <1>3, <1>5, <1>6, IsLineage

LEMMA RootIs ==
  /\ DOMAIN RootOnly = {Default}
  /\ RootOnly[Default] = [path |-> <<Default>>, fork |-> 0, archived |-> FALSE]
  /\ RootOnly = [x \in {Default} |-> RootOnly[x]]
BY DEF RootOnly

LEMMA RootSound == IsCatalog(RootOnly)
<1>1. Default \in Branches
  BY DEF Branches
<1>2. <<Default>> \in Seq({Default}) /\ <<Default>> \in Seq(Branches) /\ Len(<<Default>>) = 1
      /\ <<Default>>[1] = Default /\ <<Default>> # <<>> /\ DOMAIN <<Default>> = {1}
  BY <1>1
<1>3. SubSeq(<<Default>>, 1, 1) = <<Default>>
  BY <1>2, PrefixesOf
<1>4. Lineage(RootOnly, Default)
  <2> DEFINE path == RootOnly[Default].path
  <2>1. path = <<Default>>
    BY RootIs
  <2>2. path \in Seq(DOMAIN RootOnly) /\ path # <<>> /\ path[1] = Default /\ path[Len(path)] = Default
    BY <1>2, <2>1, RootIs
  <2>3. ASSUME NEW k \in DOMAIN path PROVE RootOnly[path[k]].path = SubSeq(path, 1, k)
    BY <1>2, <1>3, <2>1
  <2> QED
    BY <2>2, <2>3 DEF Lineage
<1>5. RootOnly[Default] \in [path : Seq(Branches), fork : Nat, archived : BOOLEAN]
  BY <1>2, RootIs
<1> QED
  BY <1>1, <1>4, <1>5, RootIs DEF IsCatalog

LEMMA InsertedSound ==
  ASSUME NEW cat, IsCatalog(cat), NEW b \in Branches, b \notin DOMAIN cat,
         NEW parent \in DOMAIN cat, NEW at \in Nat
  PROVE  /\ IsCatalog(Inserted(cat, b, parent, at))
         /\ Extends(Inserted(cat, b, parent, at), cat)
<1> DEFINE new == Inserted(cat, b, parent, at)
<1>0. /\ DOMAIN new = DOMAIN cat \cup {b}
      /\ new = [x \in DOMAIN cat \cup {b} |-> new[x]]
      /\ new[b] = [path |-> Append(cat[parent].path, b), fork |-> at, archived |-> FALSE]
      /\ \A x \in DOMAIN cat : x # b => new[x] = cat[x]
  BY DEF Inserted
<1> HIDE DEF new
<1> DEFINE old == cat[parent].path
           path == Append(old, b)
           n == Len(old)
<1>1. /\ DOMAIN new = DOMAIN cat \cup {b}
      /\ new = [x \in DOMAIN cat \cup {b} |-> new[x]]
      /\ new[b] = [path |-> path, fork |-> at, archived |-> FALSE]
      /\ \A x \in DOMAIN cat : x # b => new[x] = cat[x]
  BY <1>0, Zenon
<1>2. \A x \in DOMAIN cat : new[x] = cat[x]
  BY <1>1
<1>3. Extends(new, cat)
  BY <1>1, <1>2 DEF Extends
<1>4. /\ old \in Seq(DOMAIN cat) /\ n \in Nat \ {0}
      /\ old[1] = Default
      /\ \A k \in 1 .. n : old[k] \in DOMAIN cat /\ cat[old[k]].path = SubSeq(old, 1, k)
  BY PathIs DEF IsCatalog
<1> HIDE DEF old
<1>5. /\ path \in Seq(DOMAIN new) /\ Len(path) = n + 1 /\ path[n + 1] = b
      /\ \A k \in 1 .. n : path[k] = old[k]
  BY <1>1, <1>4
<1> HIDE DEF path, n
<1>6. Lineage(new, b)
  <2>1. new[b].path = path
    BY <1>1
  <2>2. Len(path) \in Nat \ {0} /\ path[1] = Default /\ path[Len(path)] = b
    BY <1>4, <1>5
  <2>3. ASSUME NEW k \in 1 .. Len(path) PROVE new[path[k]].path = SubSeq(path, 1, k)
    <3>1. CASE k = n + 1
      <4>1. SubSeq(path, 1, Len(path)) = path
        BY <1>5, PrefixesOf
      <4> QED
        BY <1>5, <2>1, <3>1, <4>1
    <3>2. CASE k # n + 1
      <4>1. k \in 1 .. n
        BY <1>4, <1>5, <3>2
      <4>2. new[path[k]].path = SubSeq(old, 1, k)
        BY <1>2, <1>4, <1>5, <4>1
      <4>3. k \in 0 .. n /\ k <= Len(path) /\ \A j \in 1 .. k : old[j] = path[j]
        BY <1>4, <1>5, <4>1
      <4>4. SubSeq(old, 1, k) = SubSeq(path, 1, k)
        BY <1>4, <1>5, <4>3, PrefixOfLonger DEF n
      <4> QED
        BY <4>2, <4>4
    <3> QED
      BY <3>1, <3>2
  <2> QED
    BY <1>5, <2>1, <2>2, <2>3, IsLineage
<1>7. new \in [DOMAIN new -> [path : Seq(Branches), fork : Nat, archived : BOOLEAN]]
  <2>1. path \in Seq(Branches)
    <3>1. DOMAIN new \subseteq Branches
      BY <1>1 DEF IsCatalog
    <3> QED
      BY <1>5, <3>1
  <2>2. new[b] \in [path : Seq(Branches), fork : Nat, archived : BOOLEAN]
    <3>1. new[b] = [path |-> path, fork |-> at, archived |-> FALSE]
      BY <1>1
    <3>2. [path |-> path, fork |-> at, archived |-> FALSE]
             \in [path : Seq(Branches), fork : Nat, archived : BOOLEAN]
      BY <2>1
    <3> QED
      BY <3>1, <3>2, Zenon
  <2>3. \A x \in DOMAIN cat : cat[x] \in [path : Seq(Branches), fork : Nat, archived : BOOLEAN]
    BY DEF IsCatalog
  <2>4. \A x \in DOMAIN new : new[x] \in [path : Seq(Branches), fork : Nat, archived : BOOLEAN]
    BY <1>1, <1>2, <2>2, <2>3
  <2> QED
    BY <1>1, <2>4
<1>8. \A x \in DOMAIN new : Lineage(new, x)
  BY <1>1, <1>3, <1>6, LineageKept
<1>9. IsCatalog(new)
  BY <1>1, <1>7, <1>8 DEF IsCatalog
<1> QED
  BY <1>3, <1>9 DEF new

LEMMA ArchivedSound ==
  ASSUME NEW cat, IsCatalog(cat), NEW b \in DOMAIN cat
  PROVE  /\ IsCatalog(Archived(cat, b))
         /\ DOMAIN Archived(cat, b) = DOMAIN cat
         /\ Extends(Archived(cat, b), cat)
<1> DEFINE new == Archived(cat, b)
<1>1. /\ DOMAIN new = DOMAIN cat
      /\ new \in [DOMAIN new -> [path : Seq(Branches), fork : Nat, archived : BOOLEAN]]
      /\ \A x \in DOMAIN cat : new[x].path = cat[x].path /\ new[x].fork = cat[x].fork
  BY DEF IsCatalog, Archived
<1> HIDE DEF new
<1>2. Extends(new, cat)
  BY <1>1 DEF Extends
<1>3. \A x \in DOMAIN new : Lineage(new, x)
  BY <1>1, <1>2, LineageKept
<1>4. IsCatalog(new)
  BY <1>1, <1>3 DEF IsCatalog
<1> QED
  BY <1>1, <1>2, <1>4 DEF new

----------------------------------------------------------------------------
(* Timelines and scopes *)

\* An event is on a timeline if it is on a branch of the ancestry, before every
\* fork from there to the branch.
OnLevel(e, cat, b, k) ==
    /\ e.branch = cat[b].path[k]
    /\ \A j \in k + 1 .. Len(cat[b].path) : e.pos < cat[cat[b].path[j]].fork

\* OnTimeline, of an event and a catalog.
Seen(e, cat, b) ==
    LET path == cat[b].path
        sees[k \in 0 .. Len(path)] ==
            /\ k > 0
            /\ \/ e.branch = path[k]
               \/ e.pos < cat[path[k]].fork /\ sees[k - 1]
    IN sees[Len(path)]

LEMMA SeenIs ==
  ASSUME NEW e, NEW cat, NEW b, Len(cat[b].path) \in Nat
  PROVE  Seen(e, cat, b) <=> \E k \in 1 .. Len(cat[b].path) : OnLevel(e, cat, b, k)
<1> DEFINE path == cat[b].path
           n == Len(path)
           Here(k) == e.branch = path[k]
           Before(k) == e.pos < cat[path[k]].fork
           IsSees(s) == s = [k \in 0 .. n |-> k > 0 /\ (Here(k) \/ (Before(k) /\ s[k - 1]))]
           Within(k) == \E m \in 1 .. k : Here(m) /\ \A j \in m + 1 .. k : Before(j)
           sees == CHOOSE s : IsSees(s)
<1> HIDE DEF Here, Before
<1>1. ASSUME NEW k \in 1 .. n PROVE Within(k) <=> Here(k) \/ (Before(k) /\ Within(k - 1))
  <2>1. ASSUME Here(k) PROVE Within(k)
    BY <2>1
  <2>2. ASSUME Before(k), Within(k - 1) PROVE Within(k)
    <3>1. PICK m \in 1 .. k - 1 : Here(m) /\ \A j \in m + 1 .. k - 1 : Before(j)
      BY <2>2
    <3>2. m \in 1 .. k /\ \A j \in m + 1 .. k : j = k \/ j \in m + 1 .. k - 1
      OBVIOUS
    <3> QED
      BY <2>2, <3>1, <3>2
  <2>3. ASSUME Within(k), ~Here(k) PROVE Before(k) /\ Within(k - 1)
    <3>1. PICK m \in 1 .. k : Here(m) /\ \A j \in m + 1 .. k : Before(j)
      BY <2>3
    <3>2. m # k
      BY <2>3, <3>1
    <3>3. m \in 1 .. k - 1 /\ k \in m + 1 .. k /\ \A j \in m + 1 .. k - 1 : j \in m + 1 .. k
      BY <3>2
    <3> QED
      BY <3>1, <3>3
  <2> HIDE DEF Within
  <2> QED
    BY <2>1, <2>2, <2>3
<1>2. ~Within(0)
  OBVIOUS
<1> HIDE DEF Within
<1>3. IsSees([k \in 0 .. n |-> Within(k)])
  <2> DEFINE s == [k \in 0 .. n |-> Within(k)]
  <2>1. ASSUME NEW k \in 0 .. n PROVE Within(k) <=> k > 0 /\ (Here(k) \/ (Before(k) /\ s[k - 1]))
    <3>1. CASE k = 0
      BY <1>2, <3>1
    <3>2. CASE k # 0
      <4>1. k \in 1 .. n /\ k - 1 \in 0 .. n /\ k > 0
        BY <3>2
      <4>2. s[k - 1] <=> Within(k - 1)
        BY <4>1, Zenon
      <4> HIDE DEF s
      <4> QED
        BY <1>1, <4>1, <4>2
    <3> QED
      BY <3>1, <3>2
  <2>2. \A k \in 0 .. n : Within(k) \in BOOLEAN
    BY DEF Within
  <2>3. \A k \in 0 .. n : Within(k) = (k > 0 /\ (Here(k) \/ (Before(k) /\ s[k - 1])))
    BY <2>1, <2>2
  <2> QED
    BY <2>3
<1>4. IsSees(sees)
  BY <1>3, Zenon
<1>5. \A k \in 0 .. n : sees[k] <=> Within(k)
  <2> HIDE DEF sees
  <2> DEFINE S == {k \in 0 .. n : sees[k] <=> Within(k)}
  <2>1. \A k \in 0 .. n : sees[k] <=> k > 0 /\ (Here(k) \/ (Before(k) /\ sees[k - 1]))
    <3>1. \A k \in 0 .. n : sees[k] = (k > 0 /\ (Here(k) \/ (Before(k) /\ sees[k - 1])))
      BY <1>4, Zenon
    <3> QED
      BY <3>1, Zenon
  <2> HIDE DEF IsSees
  <2>2. 0 \in S
    BY <1>2, <2>1
  <2>3. ASSUME NEW k \in 0 .. n, k < n, k \in S PROVE k + 1 \in S
    <3>1. k + 1 \in 1 .. n /\ k + 1 \in 0 .. n /\ k + 1 > 0 /\ (k + 1) - 1 = k
      BY <2>3
    <3>2. sees[k + 1] <=> Here(k + 1) \/ (Before(k + 1) /\ sees[k])
      BY <2>1, <3>1
    <3>3. Within(k + 1) <=> Here(k + 1) \/ (Before(k + 1) /\ Within(k))
      BY <1>1, <3>1
    <3> QED
      BY <2>3, <3>1, <3>2, <3>3
  <2> HIDE DEF S
  <2>4. \A k \in 0 .. n : k \in S
    BY <2>2, <2>3, Climb
  <2> QED
    BY <2>4 DEF S
<1>6. Seen(e, cat, b) <=> sees[n]
  BY Zenon DEF Seen, Here, Before
<1>7. Within(n) <=> \E k \in 1 .. n : OnLevel(e, cat, b, k)
  BY DEF Within, Here, Before, OnLevel
<1>8. sees[n] <=> Within(n)
  <2>1. n \in 0 .. n
    OBVIOUS
  <2> QED
    BY <1>5, <2>1, Zenon
<1> QED
  BY <1>6, <1>7, <1>8

LEMMA TimelineIs ==
  ASSUME NEW i, NEW b
  PROVE  OnTimeline(i, b) <=> Seen(frames[i], branches, b)
BY Zenon DEF OnTimeline, Seen
----------------------------------------------------------------------------
(* The log *)

LEMMA FramesTyped ==
  ASSUME Typed
  PROVE  /\ Len(frames) \in Nat /\ DOMAIN frames = 1 .. Len(frames)
         /\ \A i \in 1 .. Len(frames) :
               /\ frames[i] \in Frame /\ frames[i].pos \in Nat /\ frames[i].batch \in Nat
               /\ IsEvent(i) => frames[i] \in Event
<1>1. Len(frames) \in Nat /\ DOMAIN frames = 1 .. Len(frames) /\ \A i \in 1 .. Len(frames) : frames[i] \in Frame
  BY DEF Typed
<1>2. ASSUME NEW f \in Frame PROVE f.pos \in Nat /\ f.batch \in Nat /\ (f.kind = "event" => f \in Event)
  BY DEF Frame, Event, Created, ArchivedFrame
<1> QED
  BY <1>1, <1>2 DEF IsEvent

LEMMA HeadIs ==
  ASSUME Typed
  PROVE  LogHead = HeadAt(Len(frames))
<1>1. frames \in Seq(Frame) /\ Len(frames) \in Nat
  BY DEF Typed
<1>2. frames = <<>> <=> Len(frames) = 0
  BY <1>1
<1>3. Last(frames) = frames[Len(frames)]
  BY DEF Last
<1> QED
  BY <1>2, <1>3 DEF LogHead, HeadAt, HeadOf, IsEvent

\* The head after n frames parts the events before it from those after it.
LEMMA HeadParts ==
  ASSUME Typed, FramesOrdered
  PROVE  /\ \A n \in 0 .. Len(frames) : HeadAt(n) \in Nat
         /\ \A n \in 0 .. Len(frames), m \in 0 .. Len(frames) : n <= m => HeadAt(n) <= HeadAt(m)
         /\ \A n \in 0 .. Len(frames), i \in 1 .. Len(frames) :
               /\ i <= n => frames[i].pos <= HeadAt(n)
               /\ i <= n /\ IsEvent(i) => frames[i].pos < HeadAt(n)
               /\ n < i => HeadAt(n) <= frames[i].pos
<1>1. /\ Len(frames) \in Nat
      /\ \A i \in 1 .. Len(frames) : frames[i].pos \in Nat
      /\ \A i, j \in 1 .. Len(frames) : i < j =>
            frames[i].pos <= frames[j].pos /\ (IsEvent(i) => frames[i].pos < frames[j].pos)
  BY FramesTyped DEF FramesOrdered
<1>2. ASSUME NEW n \in 0 .. Len(frames)
      PROVE  /\ HeadAt(n) \in Nat
             /\ n # 0 => n \in 1 .. Len(frames)
             /\ n = 0 => HeadAt(n) = 0
             /\ n # 0 => /\ frames[n].pos <= HeadAt(n)
                         /\ IsEvent(n) => HeadAt(n) = frames[n].pos + 1
                         /\ ~IsEvent(n) => HeadAt(n) = frames[n].pos
  <2>1. n # 0 => n \in 1 .. Len(frames)
    OBVIOUS
  <2> QED
    BY <1>1, <2>1 DEF HeadAt, HeadOf, IsEvent
<1>3. ASSUME NEW n \in 0 .. Len(frames), NEW i \in 1 .. Len(frames), n < i PROVE HeadAt(n) <= frames[i].pos
  BY <1>1, <1>2, <1>3
<1>4. ASSUME NEW n \in 0 .. Len(frames), NEW m \in 0 .. Len(frames), n <= m PROVE HeadAt(n) <= HeadAt(m)
  <2>1. CASE n = m
    BY <1>2, <2>1
  <2>2. CASE n # m
    <3>1. n < m /\ m \in 1 .. Len(frames) /\ m # 0
      BY <1>4, <2>2
    <3> QED
      BY <1>1, <1>2, <1>3, <3>1
  <2> QED
    BY <2>1, <2>2
<1>5. ASSUME NEW n \in 0 .. Len(frames), NEW i \in 1 .. Len(frames), i <= n, IsEvent(i) PROVE frames[i].pos < HeadAt(n)
  <2>1. n \in 1 .. Len(frames) /\ n # 0
    BY <1>5
  <2>2. CASE i = n
    BY <1>1, <1>2, <1>5, <2>1, <2>2
  <2>3. CASE i # n
    <3>1. frames[i].pos < frames[n].pos /\ frames[n].pos <= HeadAt(n) /\ HeadAt(n) \in Nat
      BY <1>1, <1>2, <1>5, <2>1, <2>3
    <3> QED
      BY <1>1, <2>1, <3>1
  <2> QED
    BY <2>2, <2>3
<1>6. ASSUME NEW n \in 0 .. Len(frames), NEW i \in 1 .. Len(frames), i <= n PROVE frames[i].pos <= HeadAt(n)
  <2>1. n \in 1 .. Len(frames) /\ n # 0 /\ frames[n].pos <= HeadAt(n)
    BY <1>2, <1>6
  <2>2. frames[i].pos <= frames[n].pos
    BY <1>1, <1>6, <2>1
  <2> QED
    BY <1>1, <1>2, <2>1, <2>2
<1> QED
  BY <1>2, <1>3, <1>4, <1>5, <1>6

LEMMA HeadTyped == Typed /\ FramesOrdered => LogHead \in Nat
<1>1. Typed => Len(frames) \in 0 .. Len(frames)
  <2>1. Typed => Len(frames) \in Nat
    BY FramesTyped
  <2> QED
    BY <2>1
<1> QED
  BY <1>1, HeadIs, HeadParts

\* The catalog in memory, while the log is open.
LEMMA MemorySound ==
  ASSUME TInv, phase # "down"
  PROVE  IsCatalog(branches) /\ ForksSound(branches)
<1>1. CASE phase = "idle"
  <2>1. frames \in Seq(Frame) /\ Len(frames) \in 0 .. Len(frames)
    BY DEF TInv, Typed
  <2>2. SubSeq(frames, 1, Len(frames)) = frames
    BY <2>1, PrefixesOf
  <2>3. IsCatalog(Rebuild(frames)) /\ ForksSound(Rebuild(frames))
    BY <2>1, <2>2 DEF TInv, CatalogsSound, SoundAt, ForksSound
  <2> QED
    BY <1>1, <2>3 DEF TInv, InMemory
<1>2. CASE phase = "committing"
  BY <1>2 DEF TInv, InMemory
<1> QED
  BY <1>1, <1>2 DEF TInv, Typed

LEMMA CatalogPath ==
  ASSUME NEW cat, IsCatalog(cat), NEW b \in DOMAIN cat
  PROVE  /\ cat[b].path \in Seq(DOMAIN cat) /\ cat[b].fork \in Nat
         /\ Len(cat[b].path) \in Nat \ {0} /\ DOMAIN cat[b].path = 1 .. Len(cat[b].path)
         /\ cat[b].path[1] = Default /\ cat[b].path[Len(cat[b].path)] = b
         /\ \A k \in 1 .. Len(cat[b].path) :
               /\ cat[b].path[k] \in DOMAIN cat
               /\ cat[cat[b].path[k]].path = SubSeq(cat[b].path, 1, k)
               /\ cat[cat[b].path[k]].fork \in Nat
<1>1. Lineage(cat, b)
  BY DEF IsCatalog
<1>2. \A x \in DOMAIN cat : cat[x].fork \in Nat
  BY DEF IsCatalog
<1> QED
  BY <1>1, <1>2, PathIs

PathPrefixes(cat, path) ==
    /\ path \in Seq(DOMAIN cat)
    /\ \A j \in 1 .. Len(path) : cat[path[j]].path = SubSeq(path, 1, j)

LEMMA CatalogPrefixes ==
  ASSUME NEW cat, IsCatalog(cat)
  PROVE  \A b \in DOMAIN cat : PathPrefixes(cat, cat[b].path)
<1> SUFFICES ASSUME NEW b \in DOMAIN cat PROVE PathPrefixes(cat, cat[b].path)
  OBVIOUS
<1> DEFINE path == cat[b].path
<1>1. Lineage(cat, b)
  BY DEF IsCatalog
<1>2. path \in Seq(DOMAIN cat)
  BY <1>1, PathIs
<1>3. DOMAIN path = 1 .. Len(path)
  BY <1>1, PathIs
<1>4. \A j \in DOMAIN path : cat[path[j]].path = SubSeq(path, 1, j)
  BY <1>1 DEF Lineage
<1> HIDE DEF path
<1>5. PathPrefixes(cat, path)
  BY <1>2, <1>3, <1>4 DEF PathPrefixes
<1> QED
  BY <1>5 DEF path

----------------------------------------------------------------------------
(* Batches *)

\* A fork cuts between batches, so both events of a batch are on the same
\* side of it.
LEMMA BatchesWholeNow ==
  ASSUME TInv
  PROVE  BatchesWhole
<1> SUFFICES ASSUME phase = "idle", NEW b \in DOMAIN branches,
                    NEW i \in EventsIn(DOMAIN frames), NEW j \in EventsIn(DOMAIN frames),
                    frames[i].batch = frames[j].batch
             PROVE  OnTimeline(i, b) <=> OnTimeline(j, b)
  BY DEF BatchesWhole
<1>1. IsCatalog(branches) /\ ForksSound(branches)
  BY MemorySound
<1>2. /\ frames[i].branch = frames[j].branch /\ frames[i].pos \in Nat /\ frames[j].pos \in Nat
  BY FramesTyped DEF TInv, BatchOnOneBranch, EventsIn
<1>3. ASSUME NEW x \in DOMAIN branches
      PROVE  frames[i].pos < branches[x].fork <=> frames[j].pos < branches[x].fork
  <2>1. branches[x].fork \in Nat
    BY <1>1, CatalogPath
  <2>2. /\ ~(frames[i].pos < branches[x].fork /\ branches[x].fork <= frames[j].pos)
        /\ ~(frames[j].pos < branches[x].fork /\ branches[x].fork <= frames[i].pos)
    BY <1>1 DEF ForksSound, ForksIn, EventsIn, IsEvent
  <2> QED
    BY <1>2, <2>1, <2>2
<1> DEFINE path == branches[b].path
<1>4. Len(path) \in Nat /\ \A k \in 1 .. Len(path) : path[k] \in DOMAIN branches
  BY <1>1, CatalogPath
<1>5. ASSUME NEW k \in 1 .. Len(path)
      PROVE  OnLevel(frames[i], branches, b, k) <=> OnLevel(frames[j], branches, b, k)
  <2>1. \A m \in k + 1 .. Len(path) : path[m] \in DOMAIN branches
    BY <1>4
  <2> QED
    BY <1>2, <1>3, <2>1 DEF OnLevel
<1>6. Seen(frames[i], branches, b) <=> Seen(frames[j], branches, b)
  BY <1>4, <1>5, SeenIs
<1> QED
  BY <1>6, TimelineIs

----------------------------------------------------------------------------
(* Scopes *)

\* The scopes of replay_scopes select the timeline below its end.
LEMMA ScopesAre ==
  ASSUME IsCatalog(branches), NEW b \in DOMAIN branches, NEW until \in Nat, NEW e, e.pos \in Nat
  PROVE  (\E s \in ReplayScopes(b, until) : e.branch = s.branch /\ e.pos < s.upper)
            <=> e.pos < until /\ Seen(e, branches, b)
<1> DEFINE path == branches[b].path
<1>1. /\ Len(path) \in Nat \ {0} /\ DOMAIN path = 1 .. Len(path)
      /\ \A k \in 1 .. Len(path) : branches[path[k]].fork \in Nat
  BY CatalogPath
<1> HIDE DEF path
<1>2. ASSUME NEW k \in 1 .. Len(path)
      PROVE  e.pos < Upper(path, k, until)
                <=> e.pos < until /\ \A j \in k + 1 .. Len(path) : e.pos < branches[path[j]].fork
  <2> DEFINE S == {until} \cup {branches[path[j]].fork : j \in k + 1 .. Len(path)}
  <2>1. S \in SUBSET Nat /\ S # {}
    BY <1>1
  <2>2. Min(S) \in S /\ \A x \in S : Min(S) <= x
    <3> HIDE DEF S
    <3> QED
      BY <2>1, MinOf
  <2>3. Upper(path, k, until) = Min(S)
    BY DEF Upper
  <2>4. Min(S) \in Nat
    BY <2>1, <2>2, Zenon
  <2>5. until \in S /\ \A j \in k + 1 .. Len(path) : branches[path[j]].fork \in S
    OBVIOUS
  <2>6. ASSUME e.pos < Min(S)
        PROVE  e.pos < until /\ \A j \in k + 1 .. Len(path) : e.pos < branches[path[j]].fork
    <3> HIDE DEF S
    <3>1. \A x \in S : x \in Nat /\ e.pos < x
      BY <2>1, <2>2, <2>4, <2>6
    <3> QED
      BY <2>5, <3>1
  <2>7. ASSUME e.pos < until, \A j \in k + 1 .. Len(path) : e.pos < branches[path[j]].fork
        PROVE  e.pos < Min(S)
    <3>1. \A x \in S : e.pos < x
      BY <2>7
    <3> HIDE DEF S
    <3> QED
      BY <2>2, <3>1
  <2> HIDE DEF S
  <2> QED
    BY <2>3, <2>6, <2>7
<1>3. ReplayScopes(b, until) = {[branch |-> path[k], upper |-> Upper(path, k, until)] : k \in 1 .. Len(path)}
  BY <1>1 DEF ReplayScopes, path
<1>4. (\E s \in ReplayScopes(b, until) : e.branch = s.branch /\ e.pos < s.upper)
         <=> \E k \in 1 .. Len(path) : e.branch = path[k] /\ e.pos < Upper(path, k, until)
  <2> DEFINE Scope(k) == [branch |-> path[k], upper |-> Upper(path, k, until)]
  <2>1. \A k : Scope(k).branch = path[k] /\ Scope(k).upper = Upper(path, k, until)
    OBVIOUS
  <2>2. ReplayScopes(b, until) = {Scope(k) : k \in 1 .. Len(path)}
    BY <1>3
  <2> HIDE DEF Scope
  <2> QED
    BY <2>1, <2>2
<1>5. Seen(e, branches, b) <=> \E k \in 1 .. Len(path) :
         e.branch = path[k] /\ \A j \in k + 1 .. Len(path) : e.pos < branches[path[j]].fork
  BY <1>1, SeenIs DEF OnLevel, path
<1> QED
  BY <1>2, <1>4, <1>5

LEMMA ScopedIs ==
  ASSUME Typed, IsCatalog(branches), NEW b \in DOMAIN branches, NEW from \in Nat, NEW until \in Nat
  PROVE  /\ Scoped(b, from, until) = Timeline(b, from, until)
         /\ Timeline(b, from, until) =
               {i \in EventsIn(DOMAIN frames) :
                   /\ from <= frames[i].pos /\ frames[i].pos < until
                   /\ Seen(frames[i], branches, b)}
<1>1. \A i \in EventsIn(DOMAIN frames) : frames[i].pos \in Nat
  BY FramesTyped DEF EventsIn
<1>2. ASSUME NEW i \in EventsIn(DOMAIN frames)
      PROVE  (\E s \in ReplayScopes(b, until) : frames[i].branch = s.branch /\ frames[i].pos < s.upper)
                <=> frames[i].pos < until /\ OnTimeline(i, b)
  BY <1>1, ScopesAre, TimelineIs
<1>3. Scoped(b, from, until) = {i \in EventsIn(DOMAIN frames) :
         /\ frames[i].pos >= from
         /\ \E s \in ReplayScopes(b, until) : frames[i].branch = s.branch /\ frames[i].pos < s.upper}
  BY DEF Scoped
<1>4. Scoped(b, from, until) = Timeline(b, from, until)
  BY <1>2, <1>3 DEF Timeline
<1>5. ASSUME NEW i \in EventsIn(DOMAIN frames)
      PROVE  frames[i].pos >= from /\ frames[i].pos < until /\ OnTimeline(i, b)
                <=> /\ from <= frames[i].pos /\ frames[i].pos < until
                    /\ Seen(frames[i], branches, b)
  BY <1>1, TimelineIs
<1> QED
  BY <1>4, <1>5 DEF Timeline

----------------------------------------------------------------------------
(* Diffs *)

\* The levels two ancestries share are the first ones of both, up to that of
\* the common ancestor.
LEMMA SharedIs ==
  ASSUME IsCatalog(branches), NEW a \in DOMAIN branches, NEW b \in DOMAIN branches
  PROVE  \E m \in 1 .. Len(branches[a].path) :
            /\ m <= Len(branches[b].path)
            /\ SharedLevels(branches[a].path, branches[b].path) = 1 .. m
            /\ \A k \in 1 .. m : branches[a].path[k] = branches[b].path[k]
            /\ CommonAncestor(a, b) = branches[a].path[m]
<1> DEFINE p == branches[a].path
           q == branches[b].path
           S == SharedLevels(p, q)
           m == Max(S)
<1>1. /\ Len(p) \in Nat \ {0} /\ DOMAIN p = 1 .. Len(p) /\ p[1] = Default
      /\ Len(q) \in Nat \ {0} /\ DOMAIN q = 1 .. Len(q) /\ q[1] = Default
  BY CatalogPath
<1>2. CommonAncestor(a, b) = p[m]
  BY DEF CommonAncestor
<1> HIDE DEF p, q
<1>3. \A i : i \in S <=> i \in 1 .. Len(p) /\ i \in 1 .. Len(q) /\ \A j \in 1 .. i : p[j] = q[j]
  BY <1>1 DEF SharedLevels
<1> HIDE DEF S
<1>4. 1 \in S /\ S \in SUBSET Nat /\ \A i \in S : i <= Len(p)
  BY <1>1, <1>3
<1>5. m \in S /\ \A i \in S : i <= m
  BY <1>1, <1>4, MaxOf
<1> HIDE DEF m
<1>6. m \in 1 .. Len(p) /\ m \in 1 .. Len(q) /\ \A j \in 1 .. m : p[j] = q[j]
  BY <1>3, <1>5
<1>7. ASSUME NEW i PROVE i \in S <=> i \in 1 .. m
  <2>1. i \in S => i \in 1 .. m
    BY <1>3, <1>4, <1>5
  <2>2. ASSUME i \in 1 .. m PROVE i \in S
    <3>1. i \in 1 .. Len(p) /\ i \in 1 .. Len(q) /\ \A j \in 1 .. i : j \in 1 .. m
      BY <1>1, <1>6, <2>2
    <3> QED
      BY <1>3, <1>6, <3>1
  <2> QED
    BY <2>1, <2>2
<1>8. S = 1 .. m
  BY <1>7
<1> QED
  BY <1>1, <1>2, <1>6, <1>8 DEF S, p, q

\* Below the divergence a branch shows what the common ancestor does: an
\* event on a level that is not shared comes after the fork of that level.
LEMMA BelowDivergence ==
  ASSUME IsCatalog(branches), NEW b \in DOMAIN branches, NEW m \in 1 .. Len(branches[b].path),
         NEW e, e.pos \in Nat,
         \A x \in DOMAIN branches : e.branch = x => branches[x].fork <= e.pos,
         \A k \in m + 1 .. Len(branches[b].path) : e.pos < branches[branches[b].path[k]].fork
  PROVE  Seen(e, branches, branches[b].path[m]) <=> Seen(e, branches, b)
<1> DEFINE p == branches[b].path
           c == p[m]
<1>1. /\ Len(p) \in Nat \ {0} /\ p \in Seq(DOMAIN branches)
      /\ \A k \in 1 .. Len(p) : /\ p[k] \in DOMAIN branches
                                /\ branches[p[k]].path = SubSeq(p, 1, k)
                                /\ branches[p[k]].fork \in Nat
  BY CatalogPath
<1>2. branches[c].path = SubSeq(p, 1, m) /\ m \in 1 .. Len(p)
  BY <1>1
<1>3. Len(branches[c].path) = m /\ \A k \in 1 .. m : branches[c].path[k] = p[k]
  <2>1. m \in 0 .. Len(p)
    BY <1>1
  <2> HIDE DEF p
  <2> QED
    BY <1>1, <1>2, <2>1, PrefixOf
<1>4. Seen(e, branches, b) <=> \E k \in 1 .. Len(p) : OnLevel(e, branches, b, k)
  BY <1>1, SeenIs
<1>5. Seen(e, branches, c) <=> \E k \in 1 .. m : OnLevel(e, branches, c, k)
  BY <1>3, SeenIs
<1>6. ASSUME NEW k \in 1 .. Len(p), OnLevel(e, branches, b, k) PROVE k \in 1 .. m
  <2>1. e.branch = p[k]
    BY <1>6 DEF OnLevel
  <2>2. branches[p[k]].fork <= e.pos
    BY <1>1, <2>1
  <2>3. k \in m + 1 .. Len(p) => e.pos < branches[p[k]].fork
    OBVIOUS
  <2> HIDE DEF p
  <2> QED
    BY <1>1, <2>2, <2>3
<1>7. ASSUME NEW k \in 1 .. m PROVE OnLevel(e, branches, c, k) <=> OnLevel(e, branches, b, k)
  <2>1. OnLevel(e, branches, c, k) <=>
           e.branch = p[k] /\ \A j \in k + 1 .. m : e.pos < branches[p[j]].fork
    <3>1. \A j \in k + 1 .. m : j \in 1 .. m
      OBVIOUS
    <3> QED
      BY <1>3, <3>1 DEF OnLevel
  <2>2. OnLevel(e, branches, b, k) <=>
           e.branch = p[k] /\ \A j \in k + 1 .. Len(p) : e.pos < branches[p[j]].fork
    BY DEF OnLevel
  <2>3. \A j \in m + 1 .. Len(p) : e.pos < branches[p[j]].fork
    OBVIOUS
  <2> HIDE DEF p
  <2>4. \A j \in k + 1 .. Len(p) : j \in k + 1 .. m \/ j \in m + 1 .. Len(p)
    BY <1>1
  <2>5. \A j \in k + 1 .. m : j \in k + 1 .. Len(p)
    BY <1>1, <1>2
  <2> QED
    BY <2>1, <2>2, <2>3, <2>4, <2>5
<1>8. 1 .. m \subseteq 1 .. Len(p)
  <2> HIDE DEF p
  <2> QED
    BY <1>1, <1>2
<1> QED
  BY <1>4, <1>5, <1>6, <1>7, <1>8

LEMMA DiffExactNow ==
  ASSUME TInv
  PROVE  DiffExact
<1> SUFFICES ASSUME phase = "idle", NEW a \in DOMAIN branches, NEW b \in DOMAIN branches,
                    NEW aUntil \in 0 .. LogHead, NEW bUntil \in 0 .. LogHead
             PROVE  LET diff == DiffPlans(a, aUntil, b, bUntil)
                    IN /\ diff.shared \cup diff.left = Timeline(a, 0, aUntil)
                       /\ diff.shared \cup diff.right = Timeline(b, 0, bUntil)
                       /\ diff.left \cap diff.right = {}
  BY DEF DiffExact, Quiet
<1>1. IsCatalog(branches) /\ ForksSound(branches) /\ Typed
  BY MemorySound DEF TInv
<1>2. aUntil \in Nat /\ bUntil \in Nat
  OBVIOUS
<1> DEFINE p == branches[a].path
           q == branches[b].path
           c == CommonAncestor(a, b)
           Own(path) == {branches[path[i]].fork : i \in DOMAIN path \ SharedLevels(p, q)}
           S == {aUntil, bUntil} \cup Own(p) \cup Own(q)
           d == Divergence(a, aUntil, b, bUntil)
<1>3. PICK m \in 1 .. Len(p) :
         /\ m <= Len(q) /\ SharedLevels(p, q) = 1 .. m
         /\ \A k \in 1 .. m : p[k] = q[k]
         /\ c = p[m]
  BY <1>1, SharedIs
<1>4. /\ Len(p) \in Nat /\ DOMAIN p = 1 .. Len(p) /\ Len(q) \in Nat /\ DOMAIN q = 1 .. Len(q)
      /\ \A k \in 1 .. Len(p) : p[k] \in DOMAIN branches /\ branches[p[k]].fork \in Nat
      /\ \A k \in 1 .. Len(q) : q[k] \in DOMAIN branches /\ branches[q[k]].fork \in Nat
  BY <1>1, CatalogPath
<1>5. m \in 1 .. Len(q) /\ c = q[m] /\ c \in DOMAIN branches
  BY <1>3, <1>4
<1>6. d = Min(S)
  BY DEF Divergence
<1>7. S \in SUBSET Nat /\ S # {}
  BY <1>2, <1>4
<1>8. /\ aUntil \in S /\ bUntil \in S
      /\ \A k \in m + 1 .. Len(p) : branches[p[k]].fork \in S
      /\ \A k \in m + 1 .. Len(q) : branches[q[k]].fork \in S
  <2>1. \A k \in m + 1 .. Len(p) : k \in DOMAIN p \ SharedLevels(p, q)
    BY <1>3, <1>4
  <2>2. \A k \in m + 1 .. Len(q) : k \in DOMAIN q \ SharedLevels(p, q)
    BY <1>3, <1>4
  <2> QED
    BY <2>1, <2>2
<1>9. \A x \in S : x \in {aUntil, bUntil}
         \/ (\E k \in m + 1 .. Len(p) : x = branches[p[k]].fork)
         \/ (\E k \in m + 1 .. Len(q) : x = branches[q[k]].fork)
  <2>1. \A k \in DOMAIN p \ SharedLevels(p, q) : k \in m + 1 .. Len(p)
    BY <1>3, <1>4
  <2>2. \A k \in DOMAIN q \ SharedLevels(p, q) : k \in m + 1 .. Len(q)
    BY <1>3, <1>4
  <2> QED
    BY <2>1, <2>2
<1> HIDE DEF S, c, d
<1>10. d \in S /\ d \in Nat /\ \A x \in S : d <= x
  BY <1>6, <1>7, MinOf
<1>11. /\ DiffPlans(a, aUntil, b, bUntil).shared = Timeline(c, 0, d)
       /\ DiffPlans(a, aUntil, b, bUntil).left = Timeline(a, d, aUntil)
       /\ DiffPlans(a, aUntil, b, bUntil).right = Timeline(b, d, bUntil)
  BY <1>1, <1>2, <1>5, <1>10, ScopedIs DEF DiffPlans, c, d
<1>12. ASSUME NEW x \in DOMAIN branches, NEW from \in Nat, NEW until \in Nat, NEW i
       PROVE  i \in Timeline(x, from, until) <=>
                 /\ i \in EventsIn(DOMAIN frames)
                 /\ from <= frames[i].pos /\ frames[i].pos < until
                 /\ Seen(frames[i], branches, x)
  BY <1>1, ScopedIs
<1>13. ASSUME NEW i \in EventsIn(DOMAIN frames)
       PROVE  /\ frames[i].pos \in Nat
              /\ \A x \in DOMAIN branches : frames[i].branch = x => branches[x].fork <= frames[i].pos
  BY <1>1, FramesTyped DEF ForksSound, ForksIn, EventsIn, IsEvent
<1>14. ASSUME NEW i \in EventsIn(DOMAIN frames), frames[i].pos < d
       PROVE  /\ Seen(frames[i], branches, c) <=> Seen(frames[i], branches, a)
              /\ Seen(frames[i], branches, c) <=> Seen(frames[i], branches, b)
  <2>1. \A x \in S : frames[i].pos < x
    BY <1>7, <1>10, <1>13, <1>14
  <2>2. Seen(frames[i], branches, c) <=> Seen(frames[i], branches, a)
    BY <1>1, <1>3, <1>8, <1>13, <2>1, BelowDivergence, ZenonT(30)
  <2>3. Seen(frames[i], branches, c) <=> Seen(frames[i], branches, b)
    BY <1>1, <1>5, <1>8, <1>13, <2>1, BelowDivergence, ZenonT(30)
  <2> QED
    BY <2>2, <2>3
<1>15. ASSUME NEW i \in EventsIn(DOMAIN frames), d <= frames[i].pos,
              frames[i].pos < aUntil, Seen(frames[i], branches, a),
              frames[i].pos < bUntil, Seen(frames[i], branches, b)
       PROVE  FALSE
  <2>1. PICK k \in 1 .. Len(p) : OnLevel(frames[i], branches, a, k)
    <3>1. Len(p) \in Nat
      BY <1>4
    <3> QED
      BY <1>15, <3>1, SeenIs
  <2>2. PICK l \in 1 .. Len(q) : OnLevel(frames[i], branches, b, l)
    <3>1. Len(q) \in Nat
      BY <1>4
    <3> QED
      BY <1>15, <3>1, SeenIs
  <2>3. p[k] = q[l]
    BY <2>1, <2>2 DEF OnLevel
  <2>4. /\ branches[p[k]].path = SubSeq(p, 1, k) /\ p \in Seq(DOMAIN branches)
        /\ branches[q[l]].path = SubSeq(q, 1, l) /\ q \in Seq(DOMAIN branches)
    <3>1. \A x \in DOMAIN branches : PathPrefixes(branches, branches[x].path)
      BY <1>1, CatalogPrefixes
    <3>2. PathPrefixes(branches, p) /\ PathPrefixes(branches, q)
      BY <3>1
    <3> QED
      BY <3>2, Zenon DEF PathPrefixes
  <2>5. k \in 0 .. Len(p) /\ l \in 0 .. Len(q)
    OBVIOUS
  <2>6. k <= m
    <3> HIDE DEF p, q
    <3>1. SubSeq(p, 1, k) = SubSeq(q, 1, l)
      BY <2>3, <2>4
    <3>2. /\ Len(SubSeq(p, 1, k)) = k /\ \A j \in 1 .. k : SubSeq(p, 1, k)[j] = p[j]
          /\ Len(SubSeq(q, 1, l)) = l /\ \A j \in 1 .. l : SubSeq(q, 1, l)[j] = q[j]
      BY <2>4, <2>5, PrefixOf
    <3>3. k = l /\ \A j \in 1 .. k : p[j] = q[j]
      BY <3>1, <3>2
    <3>4. k \in DOMAIN p \cap DOMAIN q
      BY <1>4, <2>1, <2>2, <3>3
    <3>5. k \in SharedLevels(p, q)
      BY <3>3, <3>4 DEF SharedLevels
    <3> QED
      BY <1>3, <3>5
  <2>7. l <= m
    <3> HIDE DEF p, q
    <3>1. SubSeq(p, 1, k) = SubSeq(q, 1, l)
      BY <2>3, <2>4
    <3>2. Len(SubSeq(p, 1, k)) = k /\ Len(SubSeq(q, 1, l)) = l
      BY <2>4, <2>5, PrefixOf
    <3> QED
      BY <2>6, <3>1, <3>2
  <2>8. \A j \in m + 1 .. Len(p) : frames[i].pos < branches[p[j]].fork
    <3>1. \A j \in k + 1 .. Len(p) : frames[i].pos < branches[p[j]].fork
      BY <2>1 DEF OnLevel
    <3>2. \A j \in m + 1 .. Len(p) : j \in k + 1 .. Len(p)
      BY <1>3, <1>4, <2>6
    <3> QED
      BY <3>1, <3>2
  <2>9. \A j \in m + 1 .. Len(q) : frames[i].pos < branches[q[j]].fork
    <3>1. \A j \in l + 1 .. Len(q) : frames[i].pos < branches[q[j]].fork
      BY <2>2 DEF OnLevel
    <3>2. \A j \in m + 1 .. Len(q) : j \in l + 1 .. Len(q)
      BY <1>3, <1>4, <2>7
    <3> QED
      BY <3>1, <3>2
  <2>10. \A x \in S : frames[i].pos < x
    BY <1>9, <1>15, <2>8, <2>9
  <2> QED
    BY <1>10, <1>13, <1>15, <2>10
<1> HIDE DEF p, q
<1>16. aUntil >= d /\ bUntil >= d
  BY <1>2, <1>8, <1>10
<1>17. Timeline(c, 0, d) \cup Timeline(a, d, aUntil) = Timeline(a, 0, aUntil)
  <2>1. ASSUME NEW i
        PROVE  i \in Timeline(c, 0, d) \/ i \in Timeline(a, d, aUntil) <=> i \in Timeline(a, 0, aUntil)
    BY <1>2, <1>5, <1>10, <1>12, <1>13, <1>14, <1>16
  <2> QED
    BY <2>1
<1>18. Timeline(c, 0, d) \cup Timeline(b, d, bUntil) = Timeline(b, 0, bUntil)
  <2>1. ASSUME NEW i
        PROVE  i \in Timeline(c, 0, d) \/ i \in Timeline(b, d, bUntil) <=> i \in Timeline(b, 0, bUntil)
    BY <1>2, <1>5, <1>10, <1>12, <1>13, <1>14, <1>16
  <2> QED
    BY <2>1
<1>19. Timeline(a, d, aUntil) \cap Timeline(b, d, bUntil) = {}
  BY <1>2, <1>10, <1>12, <1>15
<1> QED
  BY <1>11, <1>17, <1>18, <1>19

----------------------------------------------------------------------------
(* Reads *)

\* Among finitely many numbers one is greatest.
LEMMA GreatestAt ==
  ASSUME NEW n \in Nat, NEW I \in SUBSET (1 .. n), I # {}, NEW f, \A i \in I : f[i] \in Int
  PROVE  \E i \in I : \A j \in I : f[j] <= f[i]
<1> DEFINE S == {k \in 0 .. n : (\A j \in I : j > k) \/ \E i \in I : \A j \in I : j <= k => f[j] <= f[i]}
<1>1. 0 \in S
  OBVIOUS
<1>2. ASSUME NEW k \in 0 .. n, k < n, k \in S PROVE k + 1 \in S
  <2>1. k + 1 \in 0 .. n /\ \A j \in I : j <= k + 1 <=> j <= k \/ j = k + 1
    BY <1>2
  <2>2. CASE k + 1 \notin I
    <3>1. \A j \in I : j <= k + 1 <=> j <= k
      BY <2>1, <2>2
    <3>2. CASE \A j \in I : j > k
      <4>1. \A j \in I : j > k + 1
        BY <2>2, <3>2
      <4> QED
        BY <2>1, <4>1
    <3>3. CASE \E i \in I : \A j \in I : j <= k => f[j] <= f[i]
      BY <2>1, <3>1, <3>3
    <3> QED
      BY <1>2, <3>2, <3>3
  <2>3. CASE k + 1 \in I
    <3>1. CASE \A j \in I : j > k
      <4>1. \A j \in I : j <= k + 1 => f[j] <= f[k + 1]
        BY <2>1, <2>3, <3>1
      <4> QED
        BY <2>1, <2>3, <4>1
    <3>2. CASE \E i \in I : \A j \in I : j <= k => f[j] <= f[i]
      <4>1. PICK i \in I : \A j \in I : j <= k => f[j] <= f[i]
        BY <3>2
      <4>2. CASE f[k + 1] <= f[i]
        <5>1. \A j \in I : j <= k + 1 => f[j] <= f[i]
          BY <2>1, <4>1, <4>2
        <5> QED
          BY <2>1, <5>1
      <4>3. CASE f[i] < f[k + 1]
        <5>1. \A j \in I : j <= k + 1 => f[j] <= f[k + 1]
          BY <2>1, <2>3, <4>1, <4>3
        <5> QED
          BY <2>1, <2>3, <5>1
      <4> QED
        BY <2>3, <4>2, <4>3
    <3> QED
      BY <1>2, <3>1, <3>2
  <2> QED
    BY <2>2, <2>3
<1> HIDE DEF S
<1>3. n \in S
  <2>1. \A k \in 0 .. n : k \in S
    BY <1>1, <1>2, Climb
  <2> QED
    BY <2>1
<1>4. PICK z \in I : TRUE
  OBVIOUS
<1>5. ~(\A j \in I : j > n) /\ \A j \in I : j <= n
  BY <1>4
<1> QED
  BY <1>3, <1>5 DEF S

\* The bounds of the times in a sidecar.
LEMMA BoundsOf ==
  ASSUME NEW n \in Nat, NEW I \in SUBSET (1 .. n), I # {}, NEW f, \A i \in I : f[i] \in Int,
         NEW S, \A x : x \in S <=> \E i \in I : x = f[i]
  PROVE  /\ \A j \in I : Min(S) <= f[j] /\ f[j] <= Max(S)
         /\ Min(S) \in Int /\ Max(S) \in Int
<1> DEFINE g == [i \in I |-> 0 - f[i]]
<1>1. PICK i \in I : \A j \in I : f[j] <= f[i]
  BY GreatestAt
<1>2. PICK k \in I : \A j \in I : g[j] <= g[k]
  <2>1. \A j \in I : g[j] \in Int
    OBVIOUS
  <2> HIDE DEF g
  <2> QED
    BY <2>1, GreatestAt
<1>3. \A j \in I : f[k] <= f[j]
  BY <1>2
<1>4. /\ \E x \in S : \A y \in S : x >= y
      /\ \E x \in S : \A y \in S : x <= y
      /\ S \subseteq Int /\ \A j \in I : f[j] \in S
  BY <1>1, <1>3
<1>5. Max(S) \in S /\ \A y \in S : Max(S) >= y
  BY <1>4, Zenon DEF Max
<1>6. Min(S) \in S /\ \A y \in S : Min(S) <= y
  BY <1>4, Zenon DEF Min
<1>7. /\ \A j \in I : Min(S) <= f[j] /\ f[j] <= Max(S)
      /\ Min(S) \in Int /\ Max(S) \in Int
  BY <1>4, <1>5, <1>6
<1> QED
  BY <1>7

LEMMA SegmentsTyped ==
  ASSUME Typed, FramesOrdered, SegmentsLaid
  PROVE  /\ Active \in Nat \ {0} /\ DOMAIN segments = 1 .. Active
         /\ segments[1].first = 1
         /\ \A g \in 1 .. Active :
               /\ segments[g].first \in Nat \ {0}
               /\ segments[g].first - 1 \in 0 .. Len(frames)
               /\ segments[g].base = HeadAt(segments[g].first - 1)
               /\ segments[g].base \in Nat
               /\ \A h \in 1 .. Active : g < h => segments[g].first <= segments[h].first
               /\ FramesOf(g) \subseteq 1 .. Len(frames)
<1>1. /\ Active \in Nat \ {0} /\ DOMAIN segments = 1 .. Active
      /\ \A g \in 1 .. Active : segments[g].base \in Nat /\ segments[g].first \in Nat \ {0}
  <2>1. segments \in Seq([base : Nat, first : Nat \ {0}]) /\ segments # <<>>
    BY DEF Typed
  <2>2. /\ Len(segments) \in Nat \ {0} /\ DOMAIN segments = 1 .. Len(segments)
        /\ \A g \in 1 .. Len(segments) : segments[g].base \in Nat /\ segments[g].first \in Nat \ {0}
    <3> DEFINE Segment == [base : Nat, first : Nat \ {0}]
    <3>1. \A x \in Segment : x.base \in Nat /\ x.first \in Nat \ {0}
      OBVIOUS
    <3>2. segments \in Seq(Segment) /\ segments # <<>>
      BY <2>1
    <3> HIDE DEF Segment
    <3>3. /\ Len(segments) \in Nat \ {0} /\ DOMAIN segments = 1 .. Len(segments)
          /\ \A g \in 1 .. Len(segments) : segments[g] \in Segment
      BY <3>2
    <3> QED
      BY <3>1, <3>3
  <2> QED
    BY <2>2 DEF Active
<1>2. /\ segments[1].first = 1
      /\ \A g \in 1 .. Active :
            /\ segments[g].first <= synced + 1
            /\ segments[g].base = HeadAt(segments[g].first - 1)
            /\ \A h \in 1 .. Active : g < h => segments[g].first <= segments[h].first
  BY <1>1 DEF SegmentsLaid
<1>3. synced \in 0 .. Len(frames) /\ Len(frames) \in Nat
  BY FramesTyped DEF Typed
<1>4. ASSUME NEW g \in 1 .. Active PROVE segments[g].first - 1 \in 0 .. Len(frames)
  BY <1>1, <1>2, <1>3
<1>5. ASSUME NEW g \in 1 .. Active PROVE FramesOf(g) \subseteq 1 .. Len(frames)
  <2>1. CASE g = Active
    BY <1>1, <2>1 DEF FramesOf
  <2>2. CASE g # Active
    <3>1. g + 1 \in 1 .. Active
      BY <1>1, <2>2
    <3> QED
      BY <1>1, <1>4, <2>2, <3>1 DEF FramesOf
  <2> QED
    BY <2>1, <2>2
<1>6. ASSUME NEW g \in 1 .. Active
      PROVE  /\ segments[g].first \in Nat \ {0}
             /\ segments[g].base = HeadAt(segments[g].first - 1)
             /\ segments[g].base \in Nat
             /\ \A h \in 1 .. Active : g < h => segments[g].first <= segments[h].first
  <2>1. segments[g].first \in Nat \ {0} /\ segments[g].base \in Nat
    BY <1>1
  <2>2. /\ segments[g].base = HeadAt(segments[g].first - 1)
        /\ \A h \in 1 .. Active : g < h => segments[g].first <= segments[h].first
    BY <1>2
  <2> QED
    BY <2>1, <2>2
<1>7. Active \in Nat \ {0} /\ DOMAIN segments = 1 .. Active /\ segments[1].first = 1
  BY <1>1, <1>2
<1>8. ASSUME NEW g \in 1 .. Active
      PROVE  /\ segments[g].first \in Nat \ {0}
             /\ segments[g].first - 1 \in 0 .. Len(frames)
             /\ segments[g].base = HeadAt(segments[g].first - 1)
             /\ segments[g].base \in Nat
             /\ \A h \in 1 .. Active : g < h => segments[g].first <= segments[h].first
             /\ FramesOf(g) \subseteq 1 .. Len(frames)
  <2>1. segments[g].first - 1 \in 0 .. Len(frames)
    BY <1>4
  <2>2. FramesOf(g) \subseteq 1 .. Len(frames)
    BY <1>5
  <2>3. /\ segments[g].first \in Nat \ {0}
        /\ segments[g].base = HeadAt(segments[g].first - 1)
        /\ segments[g].base \in Nat
        /\ \A h \in 1 .. Active : g < h => segments[g].first <= segments[h].first
    BY <1>6
  <2> QED
    BY <2>1, <2>2, <2>3, Zenon
<1> QED
  BY <1>7, <1>8, Zenon

\* The segment of a frame: the last one that begins at or before it.
LEMMA SegmentOf ==
  ASSUME Typed, FramesOrdered, SegmentsLaid, NEW i \in 1 .. Len(frames)
  PROVE  \E g \in 1 .. Active :
            /\ i \in FramesOf(g) /\ segments[g].first <= i
            /\ \A h \in g + 1 .. Active : i < segments[h].first
<1> DEFINE S == {g \in 1 .. Active : segments[g].first <= i}
           g == Max(S)
<1>1. /\ Active \in Nat \ {0} /\ segments[1].first = 1
      /\ \A h \in 1 .. Active : segments[h].first \in Nat
      /\ Len(frames) \in Nat
  BY SegmentsTyped, FramesTyped
<1>2. S \in SUBSET Nat /\ S # {} /\ \A h \in S : h <= Active
  <2>1. 1 \in S
    BY <1>1
  <2> QED
    BY <1>1, <2>1
<1>3. g \in S /\ \A h \in S : h <= g
  <2> HIDE DEF S
  <2>1. Active \in Nat
    BY <1>1
  <2> QED
    BY <1>2, <2>1, MaxOf
<1> HIDE DEF g
<1>4. ASSUME NEW h \in g + 1 .. Active PROVE i < segments[h].first
  BY <1>1, <1>3
<1>5. i \in FramesOf(g)
  <2>1. CASE g = Active
    BY <1>1, <1>3, <2>1 DEF FramesOf
  <2>2. CASE g # Active
    <3>1. g + 1 \in 1 .. Active /\ g + 1 \in g + 1 .. Active
      BY <1>1, <1>3, <2>2
    <3> QED
      BY <1>1, <1>3, <1>4, <2>2, <3>1 DEF FramesOf
  <2> QED
    BY <2>1, <2>2
<1> QED
  BY <1>3, <1>4, <1>5

\* A sidecar never hides an event that passes the filter.
LEMMA NotSkipped ==
  ASSUME Typed, FramesOrdered, SegmentsLaid, NEW g \in 1 .. Active, NEW i \in EventsIn(FramesOf(g)),
         NEW filter, Passes(i, filter), filter.time \subseteq [lo : Int, hi : Int]
  PROVE  ~Skippable(g, filter)
<1>1. /\ EventsIn(FramesOf(g)) \in SUBSET (1 .. Len(frames)) /\ Len(frames) \in Nat
      /\ \A j \in EventsIn(FramesOf(g)) : frames[j].time \in Int
  <2>1. FramesOf(g) \subseteq 1 .. Len(frames)
    BY SegmentsTyped
  <2>2. \A j \in EventsIn(FramesOf(g)) : j \in 1 .. Len(frames) /\ IsEvent(j)
    BY <2>1 DEF EventsIn
  <2>3. \A j \in EventsIn(FramesOf(g)) : frames[j] \in Event
    BY <2>2, FramesTyped
  <2> QED
    BY <2>2, <2>3, FramesTyped DEF Event
<1>2. filter.streams \cap Postings(g) # {}
  BY DEF Passes, Postings
<1>3. ~TimeDisjoint(g, filter.time)
  <2> SUFFICES ASSUME NEW r \in filter.time, Max(Times(g)) < r.lo \/ Min(Times(g)) >= r.hi
               PROVE  FALSE
    BY DEF TimeDisjoint
  <2> DEFINE time == [j \in EventsIn(FramesOf(g)) |-> frames[j].time]
  <2>1. \A x : x \in Times(g) <=> \E j \in EventsIn(FramesOf(g)) : x = time[j]
    BY DEF Times
  <2>2. /\ \A j \in EventsIn(FramesOf(g)) : time[j] \in Int
        /\ time[i] = frames[i].time
    BY <1>1
  <2> HIDE DEF time
  <2>3. /\ Min(Times(g)) <= time[i] /\ time[i] <= Max(Times(g))
        /\ Min(Times(g)) \in Int /\ Max(Times(g)) \in Int
    <3> DEFINE I == EventsIn(FramesOf(g))
               n == Len(frames)
    <3>1. n \in Nat /\ I \in SUBSET (1 .. n) /\ I # {} /\ i \in I
      BY <1>1
    <3>2. (\A j \in I : time[j] \in Int) /\ \A x : x \in Times(g) <=> \E j \in I : x = time[j]
      BY <2>1, <2>2
    <3> HIDE DEF I, n
    <3>3. /\ \A j \in I : Min(Times(g)) <= time[j] /\ time[j] <= Max(Times(g))
          /\ Min(Times(g)) \in Int /\ Max(Times(g)) \in Int
      BY <3>1, <3>2, BoundsOf
    <3> QED
      BY <3>1, <3>3
  <2>4. r.lo \in Int /\ r.hi \in Int
    OBVIOUS
  <2>5. frames[i].time >= r.lo /\ frames[i].time < r.hi
    BY DEF Passes
  <2> QED
    BY <2>2, <2>3, <2>4, <2>5
<1> QED
  BY <1>2, <1>3 DEF Skippable

\* Wherever a reader enters the log, it yields just the events of the timeline
\* that its filter wants.
LEMMA MatchesAre ==
  ASSUME Typed, FramesOrdered, SegmentsLaid, IsCatalog(branches), NEW b \in DOMAIN branches,
         NEW from \in Nat, NEW until \in Nat, from < until, until <= LogHead,
         NEW streams, NEW time, time \subseteq [lo : Int, hi : Int],
         NEW seek \in Seeks(Filter(b, from, until, streams, time))
  PROVE  Matches(Filter(b, from, until, streams, time), seek)
            = {i \in Timeline(b, from, until) :
                  /\ frames[i].stream \in streams
                  /\ \A r \in time : frames[i].time >= r.lo /\ frames[i].time < r.hi}
<1> DEFINE filter == Filter(b, from, until, streams, time)
           plan == Planned(from, until)
           entered == {g \in plan : ~Skippable(g, filter)}
           all == UNION {{i \in FramesOf(g) : g = Min(plan) => i >= seek} : g \in entered}
           InRange(i) == \A r \in time : frames[i].time >= r.lo /\ frames[i].time < r.hi
<1>1. /\ filter.from = from /\ filter.until = until /\ filter.streams = streams
      /\ filter.time = time /\ filter.scopes = ReplayScopes(b, until)
  BY DEF Filter
<1>2. seek \in Seeks(filter)
  OBVIOUS
<1> HIDE DEF filter
<1>3. /\ Len(frames) \in Nat /\ DOMAIN frames = 1 .. Len(frames)
      /\ \A i \in 1 .. Len(frames) : frames[i].pos \in Nat
      /\ \A i, j \in 1 .. Len(frames) : i < j =>
            frames[i].pos <= frames[j].pos /\ (IsEvent(i) => frames[i].pos < frames[j].pos)
  BY FramesTyped DEF FramesOrdered
<1>4. /\ Active \in Nat \ {0} /\ DOMAIN segments = 1 .. Active
      /\ \A g \in 1 .. Active :
            /\ FramesOf(g) \subseteq 1 .. Len(frames)
            /\ segments[g].first - 1 \in 0 .. Len(frames) /\ segments[g].first \in Nat
            /\ segments[g].base = HeadAt(segments[g].first - 1) /\ segments[g].base \in Nat
  BY SegmentsTyped
<1>5. LogHead \in Nat
  BY HeadIs, HeadParts, <1>3
<1>6. ASSUME NEW i \in EventsIn(1 .. Len(frames))
      PROVE  Passes(i, filter) <=>
                /\ from <= frames[i].pos /\ frames[i].pos < until /\ Seen(frames[i], branches, b)
                /\ frames[i].stream \in streams /\ InRange(i)
  <2>1. frames[i].pos \in Nat
    BY <1>3 DEF EventsIn
  <2>2. (\E s \in filter.scopes : frames[i].branch = s.branch /\ frames[i].pos < s.upper)
           <=> frames[i].pos < until /\ Seen(frames[i], branches, b)
    BY <1>1, <2>1, ScopesAre
  <2> QED
    BY <1>1, <2>1, <2>2 DEF Passes
<1>7. ASSUME NEW i
      PROVE  i \in Timeline(b, from, until) <=>
                /\ i \in EventsIn(1 .. Len(frames))
                /\ from <= frames[i].pos /\ frames[i].pos < until /\ Seen(frames[i], branches, b)
  BY <1>3, ScopedIs
<1>8. Walked(filter, seek) = {i \in all : \A j \in EventsIn(all) : j <= i => frames[j].pos < until}
  BY <1>1 DEF Walked
<1>9. ~(from >= Min({LogHead, until})) /\ plan \subseteq 1 .. Active
  <2>1. Min({LogHead, until}) \in {LogHead, until}
    BY <1>5, MinOf
  <2>2. plan \subseteq DOMAIN segments
    BY DEF Planned
  <2> QED
    BY <1>4, <1>5, <2>1, <2>2
<1>10. all \subseteq 1 .. Len(frames)
  BY <1>4, <1>9
<1>11. ASSUME NEW i \in EventsIn(1 .. Len(frames)), Passes(i, filter) PROVE i \in Walked(filter, seek)
  <2>1. i \in 1 .. Len(frames) /\ IsEvent(i) /\ frames[i].pos \in Nat
    BY <1>3 DEF EventsIn
  <2>2. from <= frames[i].pos /\ frames[i].pos < until
    BY <1>6, <1>11
  <2>3. PICK g \in 1 .. Active :
           /\ i \in FramesOf(g) /\ segments[g].first <= i
           /\ \A h \in g + 1 .. Active : i < segments[h].first
    BY <2>1, SegmentOf
  <2>4. g \in plan
    <3>1. segments[g].base <= frames[i].pos
      <4>1. segments[g].first - 1 < i
        BY <1>4, <2>1, <2>3
      <4> QED
        BY <1>4, <2>1, <4>1, HeadParts
    <3>2. ASSUME NEW h \in g + 1 .. Active PROVE segments[h].base > from
      <4>1. h \in 1 .. Active /\ i <= segments[h].first - 1
        BY <1>4, <2>1, <2>3
      <4>2. frames[i].pos < segments[h].base /\ segments[h].base \in Nat
        BY <1>4, <2>1, <4>1, HeadParts
      <4> QED
        BY <2>1, <2>2, <4>2
    <3>3. segments[g].base < until
      BY <1>4, <2>1, <2>2, <3>1
    <3> QED
      BY <1>4, <1>9, <3>2, <3>3 DEF Planned
  <2>5. g \in entered
    <3>1. i \in EventsIn(FramesOf(g))
      BY <2>1, <2>3 DEF EventsIn
    <3> QED
      BY <1>1, <1>11, <2>4, <3>1, NotSkipped
  <2>6. ASSUME g = Min(plan) PROVE i >= seek
    <3>1. seek \in SeekPoints(g, from)
      BY <1>1, <1>2, <2>4, <2>6 DEF Seeks
    <3>2. CASE seek = segments[g].first
      BY <1>4, <2>1, <2>3, <3>2
    <3>3. CASE seek \in Boundaries(g) /\ frames[seek].pos <= from
      <4>1. seek \in 1 .. Len(frames)
        BY <1>4, <3>3 DEF Boundaries
      <4> QED
        BY <1>3, <2>1, <2>2, <3>3, <4>1
    <3> QED
      BY <3>1, <3>2, <3>3 DEF SeekPoints
  <2>7. i \in all
    BY <2>3, <2>5, <2>6
  <2>8. ASSUME NEW j \in EventsIn(all), j <= i PROVE frames[j].pos < until
    <3>1. j \in 1 .. Len(frames)
      BY <1>10 DEF EventsIn
    <3> QED
      BY <1>3, <2>1, <2>2, <2>8, <3>1
  <2> HIDE DEF all
  <2> QED
    BY <1>8, <2>7, <2>8
<1>12. Walked(filter, seek) \subseteq 1 .. Len(frames)
  <2> HIDE DEF all
  <2> QED
    BY <1>8, <1>10
<1>13. ASSUME NEW i
       PROVE  i \in Matches(filter, seek) <=>
                 /\ i \in Timeline(b, from, until)
                 /\ frames[i].stream \in streams /\ InRange(i)
  <2>1. i \in Matches(filter, seek) <=> i \in EventsIn(Walked(filter, seek)) /\ Passes(i, filter)
    BY DEF Matches
  <2>2. i \in EventsIn(Walked(filter, seek)) => i \in EventsIn(1 .. Len(frames))
    BY <1>12 DEF EventsIn
  <2>3. i \in EventsIn(1 .. Len(frames)) /\ Passes(i, filter) => i \in EventsIn(Walked(filter, seek))
    BY <1>11 DEF EventsIn
  <2> HIDE DEF InRange
  <2> QED
    BY <1>6, <1>7, <2>1, <2>2, <2>3
<1>14. Matches(filter, seek) = {i \in Timeline(b, from, until) : frames[i].stream \in streams /\ InRange(i)}
  <2> HIDE DEF InRange
  <2> QED
    BY <1>13
<1> QED
  BY <1>14 DEF filter

\* Every quiet read yields its timeline.
LEMMA ReadExactNow ==
  ASSUME TInv
  PROVE  ReadExact
<1> SUFFICES ASSUME phase = "idle", NEW b \in DOMAIN branches, NEW from \in 0 .. LogHead,
                    NEW until \in 0 .. LogHead, NEW sel \in Selections, from < until,
                    NEW seek \in Seeks(Filter(b, from, until, sel.streams, sel.time))
             PROVE  Yielded(Filter(b, from, until, sel.streams, sel.time), seek) =
                       Ascending({i \in Timeline(b, from, until) :
                          /\ frames[i].stream \in sel.streams
                          /\ \A r \in sel.time : frames[i].time >= r.lo /\ frames[i].time < r.hi})
  BY DEF ReadExact, Quiet
<1>1. IsCatalog(branches) /\ Typed /\ FramesOrdered /\ SegmentsLaid
  BY MemorySound DEF TInv
<1>2. LogHead \in Nat /\ sel.time \subseteq [lo : Int, hi : Int]
  BY <1>1, FramesTyped, HeadIs, HeadParts, TimelinesAssumption DEF TimelinesAssumption
<1>3. from \in Nat /\ until \in Nat /\ until <= LogHead
  BY <1>2
<1>4. Matches(Filter(b, from, until, sel.streams, sel.time), seek) =
         {i \in Timeline(b, from, until) :
             /\ frames[i].stream \in sel.streams
             /\ \A r \in sel.time : frames[i].time >= r.lo /\ frames[i].time < r.hi}
  <2> DEFINE streams == sel.streams
             time == sel.time
  <2>1. time \subseteq [lo : Int, hi : Int] /\ seek \in Seeks(Filter(b, from, until, streams, time))
    BY <1>2
  <2> HIDE DEF streams, time
  <2>2. Matches(Filter(b, from, until, streams, time), seek) =
           {i \in Timeline(b, from, until) :
               /\ frames[i].stream \in streams
               /\ \A r \in time : frames[i].time >= r.lo /\ frames[i].time < r.hi}
    BY <1>1, <1>3, <2>1, MatchesAre
  <2> QED
    BY <2>2 DEF streams, time
<1> QED
  BY <1>4, Zenon DEF Yielded

----------------------------------------------------------------------------
(* Enumerations in order *)

Increasing(w, I) ==
    /\ w \in [1 .. Cardinality(I) -> I]
    /\ \A j, k \in 1 .. Cardinality(I) : j < k => w[j] < w[k]

LEMMA FiniteUpTo ==
  ASSUME NEW n \in Nat, NEW I \in SUBSET (1 .. n)
  PROVE  IsFiniteSet(I) /\ Cardinality(I) \in Nat
<1>1. IsFiniteSet(1 .. n)
  BY FS_Interval
<1>2. IsFiniteSet(I)
  BY <1>1, FS_Subset
<1> QED
  BY <1>2, FS_CardinalityType

\* It leaves nothing out.
LEMMA IncreasingOnto ==
  ASSUME NEW n \in Nat, NEW I \in SUBSET (1 .. n), NEW w, Increasing(w, I), NEW x \in I
  PROVE  \E k \in 1 .. Cardinality(I) : w[k] = x
<1> DEFINE N == Cardinality(I)
           T == I \ {x}
<1>1. IsFiniteSet(I) /\ N \in Nat
  BY FiniteUpTo
<1>2. IsFiniteSet(T) /\ Cardinality(T) = N - 1
  BY <1>1, FS_RemoveElement
<1>3. IsFiniteSet(1 .. N) /\ Cardinality(1 .. N) = N
  BY <1>1, FS_Interval
<1> SUFFICES ASSUME \A k \in 1 .. N : w[k] # x PROVE FALSE
  OBVIOUS
<1>4. w \in [1 .. N -> I] /\ \A j, k \in 1 .. N : j < k => w[j] < w[k]
  BY DEF Increasing
<1>5. w \in [1 .. N -> T]
  BY <1>4
<1> HIDE DEF N, T
<1>6. PICK j \in 1 .. N, k \in 1 .. N : j # k /\ w[j] = w[k]
  <2>1. Cardinality(T) < Cardinality(1 .. N)
    BY <1>1, <1>2, <1>3
  <2> QED
    BY <1>2, <1>3, <1>5, <2>1, FS_PigeonHole
<1>7. w[j] \in Nat /\ w[k] \in Nat
  <2>1. \A y \in I : y \in Nat
    OBVIOUS
  <2>2. w[j] \in I /\ w[k] \in I
    BY <1>4
  <2> QED
    BY <2>1, <2>2
<1> QED
  BY <1>1, <1>4, <1>6, <1>7

\* There is one only: the first place where two differ is a gap of one.
LEMMA IncreasingUnique ==
  ASSUME NEW n \in Nat, NEW I \in SUBSET (1 .. n), NEW u, Increasing(u, I), NEW w, Increasing(w, I)
  PROVE  u = w
<1> DEFINE N == Cardinality(I)
           S == {k \in 0 .. N : \A j \in 1 .. k : u[j] = w[j]}
<1>1. N \in Nat
  BY FiniteUpTo
<1>2. /\ u \in [1 .. N -> I] /\ \A j, k \in 1 .. N : j < k => u[j] < u[k]
      /\ w \in [1 .. N -> I] /\ \A j, k \in 1 .. N : j < k => w[j] < w[k]
  BY DEF Increasing
<1>3. \A x \in I : (\E k \in 1 .. N : u[k] = x) /\ \E k \in 1 .. N : w[k] = x
  BY IncreasingOnto
<1> HIDE DEF N
<1>4. \A k \in 1 .. N : u[k] \in Nat /\ w[k] \in Nat
  <2>1. \A y \in I : y \in Nat
    OBVIOUS
  <2>2. \A k \in 1 .. N : u[k] \in I /\ w[k] \in I
    BY <1>2
  <2> QED
    BY <2>1, <2>2
<1>5. 0 \in S
  BY <1>1
<1>6. ASSUME NEW k \in 0 .. N, k < N, k \in S PROVE k + 1 \in S
  <2>1. k + 1 \in 1 .. N /\ k + 1 \in 0 .. N /\ \A j \in 1 .. k : u[j] = w[j] /\ j \in 1 .. N
    BY <1>1, <1>6
  <2>2. ~(u[k + 1] < w[k + 1])
    <3> SUFFICES ASSUME u[k + 1] < w[k + 1] PROVE FALSE
      OBVIOUS
    <3>1. PICK j \in 1 .. N : w[j] = u[k + 1]
      BY <1>2, <1>3, <2>1
    <3>2. CASE j < k + 1
      <4>1. j \in 1 .. k
        BY <1>1, <1>6, <3>2
      <4>2. u[j] < u[k + 1] /\ u[j] = w[j]
        BY <1>2, <2>1, <3>2, <4>1
      <4> QED
        BY <1>4, <2>1, <3>1, <4>2
    <3>3. CASE k + 1 < j
      BY <1>2, <1>4, <2>1, <3>1, <3>3
    <3>4. CASE j = k + 1
      BY <1>4, <2>1, <3>1, <3>4
    <3> QED
      BY <1>1, <1>6, <3>2, <3>3, <3>4
  <2>3. ~(w[k + 1] < u[k + 1])
    <3> SUFFICES ASSUME w[k + 1] < u[k + 1] PROVE FALSE
      OBVIOUS
    <3>1. PICK j \in 1 .. N : u[j] = w[k + 1]
      BY <1>2, <1>3, <2>1
    <3>2. CASE j < k + 1
      <4>1. j \in 1 .. k
        BY <1>1, <1>6, <3>2
      <4>2. w[j] < w[k + 1] /\ u[j] = w[j]
        BY <1>2, <2>1, <3>2, <4>1
      <4> QED
        BY <1>4, <2>1, <3>1, <4>2
    <3>3. CASE k + 1 < j
      BY <1>2, <1>4, <2>1, <3>1, <3>3
    <3>4. CASE j = k + 1
      BY <1>4, <2>1, <3>1, <3>4
    <3> QED
      BY <1>1, <1>6, <3>2, <3>3, <3>4
  <2>4. u[k + 1] = w[k + 1]
    BY <1>4, <2>1, <2>2, <2>3
  <2>5. \A j \in 1 .. k + 1 : j \in 1 .. k \/ j = k + 1
    BY <1>6
  <2> QED
    BY <2>1, <2>4, <2>5
<1> HIDE DEF S
<1>7. N \in S
  <2>1. \A k \in 0 .. N : k \in S
    BY <1>1, <1>5, <1>6, Climb
  <2> QED
    BY <1>1, <2>1
<1> QED
  BY <1>2, <1>7 DEF S

LEMMA IncreasingExists ==
  ASSUME NEW n \in Nat, NEW I \in SUBSET (1 .. n)
  PROVE  \E w : Increasing(w, I)
<1> DEFINE Upto(k) == I \cap 1 .. k
           S == {k \in 0 .. n : \E w : Increasing(w, Upto(k))}
<1>1. 0 \in S
  <2>1. Upto(0) = {} /\ Cardinality(Upto(0)) = 0 /\ 1 .. 0 = {}
    <3>1. Upto(0) = {}
      OBVIOUS
    <3> QED
      BY <3>1, FS_EmptySet
  <2> DEFINE w == [k \in {} |-> 0]
  <2>2. Increasing(w, Upto(0))
    BY <2>1 DEF Increasing
  <2> QED
    BY <2>2
<1>2. ASSUME NEW k \in 0 .. n, k < n, k \in S PROVE k + 1 \in S
  <2>1. PICK w : Increasing(w, Upto(k))
    BY <1>2
  <2> DEFINE N == Cardinality(Upto(k))
  <2>2. IsFiniteSet(Upto(k)) /\ N \in Nat /\ \A x \in Upto(k) : x \in Nat /\ x < k + 1
    <3>1. Upto(k) \in SUBSET (1 .. n)
      OBVIOUS
    <3>2. \A x \in Upto(k) : x \in Nat /\ x < k + 1
      OBVIOUS
    <3> QED
      BY <3>1, <3>2, FiniteUpTo
  <2>3. w \in [1 .. N -> Upto(k)] /\ \A i, j \in 1 .. N : i < j => w[i] < w[j]
    BY <2>1 DEF Increasing
  <2>4. CASE k + 1 \notin I
    <3>1. Upto(k + 1) = Upto(k)
      BY <2>4
    <3>2. k + 1 \in 0 .. n
      BY <1>2
    <3> QED
      BY <2>1, <3>1, <3>2
  <2>5. CASE k + 1 \in I
    <3>1. Upto(k + 1) = Upto(k) \cup {k + 1} /\ k + 1 \notin Upto(k) /\ k + 1 \in Upto(k + 1)
      BY <2>5
    <3>2. Cardinality(Upto(k + 1)) = N + 1
      BY <2>2, <3>1, FS_AddElement
    <3> HIDE DEF Upto, N
    <3> DEFINE v == [j \in 1 .. N + 1 |-> IF j = N + 1 THEN k + 1 ELSE w[j]]
    <3>3. /\ \A j \in 1 .. N : v[j] = w[j] /\ w[j] \in Upto(k)
          /\ v[N + 1] = k + 1
          /\ \A j \in 1 .. N + 1 : j \in 1 .. N \/ j = N + 1
      BY <2>2, <2>3
    <3>4. v \in [1 .. N + 1 -> Upto(k + 1)]
      BY <2>2, <2>3, <3>1
    <3> HIDE DEF v
    <3>5. ASSUME NEW i \in 1 .. N + 1, NEW j \in 1 .. N + 1, i < j PROVE v[i] < v[j]
      <4>1. i \in 1 .. N
        BY <2>2, <3>5
      <4>2. CASE j \in 1 .. N
        BY <2>3, <3>3, <3>5, <4>1, <4>2
      <4>3. CASE j = N + 1
        BY <2>2, <3>3, <4>1, <4>3
      <4> QED
        BY <3>3, <4>2, <4>3
    <3>6. Increasing(v, Upto(k + 1))
      BY <3>2, <3>4, <3>5 DEF Increasing
    <3>7. k + 1 \in 0 .. n
      BY <1>2
    <3> QED
      BY <3>6, <3>7
  <2> QED
    BY <2>4, <2>5
<1>3. Upto(n) = I
  OBVIOUS
<1> HIDE DEF S
<1>4. n \in S
  <2>1. \A k \in 0 .. n : k \in S
    BY <1>1, <1>2, Climb
  <2> QED
    BY <2>1
<1> QED
  BY <1>3, <1>4 DEF S

LEMMA AscendingIs ==
  ASSUME NEW n \in Nat, NEW I \in SUBSET (1 .. n)
  PROVE  /\ Increasing(Ascending(I), I)
         /\ \A w : Increasing(w, I) => w = Ascending(I)
         /\ \A x \in I : \E k \in 1 .. Cardinality(I) : Ascending(I)[k] = x
<1>1. \E w \in [1 .. Cardinality(I) -> I] : \A j, k \in DOMAIN w : j < k => w[j] < w[k]
  <2>1. PICK w : Increasing(w, I)
    BY IncreasingExists
  <2>2. w \in [1 .. Cardinality(I) -> I] /\ DOMAIN w = 1 .. Cardinality(I)
    BY <2>1 DEF Increasing
  <2> QED
    BY <2>1, <2>2 DEF Increasing
<1>2. /\ Ascending(I) \in [1 .. Cardinality(I) -> I]
      /\ \A j, k \in DOMAIN Ascending(I) : j < k => Ascending(I)[j] < Ascending(I)[k]
  BY <1>1, Zenon DEF Ascending
<1>3. Increasing(Ascending(I), I)
  BY <1>2 DEF Increasing
<1>4. \A w : Increasing(w, I) => w = Ascending(I)
  BY <1>3, IncreasingUnique, Zenon
<1>5. \A x \in I : \E k \in 1 .. Cardinality(I) : Ascending(I)[k] = x
  <2> DEFINE w == Ascending(I)
  <2> HIDE DEF w
  <2>1. \A x \in I : \E k \in 1 .. Cardinality(I) : w[k] = x
    BY <1>3, IncreasingOnto DEF w
  <2> QED
    BY <2>1 DEF w
<1> QED
  BY <1>3, <1>4, <1>5, Zenon

\* The first entries enumerate themselves.
LEMMA AscendingPrefix ==
  ASSUME NEW n \in Nat, NEW I \in SUBSET (1 .. n), NEW m \in 0 .. Cardinality(I),
         NEW P, \A x : x \in P <=> \E k \in 1 .. m : x = Ascending(I)[k]
  PROVE  /\ P \subseteq I /\ Cardinality(P) = m
         /\ Ascending(P) = [k \in 1 .. m |-> Ascending(I)[k]]
<1> DEFINE w == Ascending(I)
           N == Cardinality(I)
           f == [k \in 1 .. m |-> w[k]]
<1>1. /\ w \in [1 .. N -> I] /\ \A j, k \in 1 .. N : j < k => w[j] < w[k]
  BY AscendingIs DEF Increasing
<1>2. N \in Nat /\ m \in 0 .. N
  BY FiniteUpTo
<1>3. \A x : x \in P <=> \E k \in 1 .. m : x = w[k]
  OBVIOUS
<1> HIDE DEF w, N
<1>4. \A k \in 1 .. m : k \in 1 .. N
  BY <1>2
<1>5. /\ f \in [1 .. m -> P] /\ \A j, k \in 1 .. m : j < k => f[j] < f[k]
      /\ \A k \in 1 .. m : f[k] = w[k]
  BY <1>1, <1>3, <1>4
<1>6. P \subseteq I
  BY <1>1, <1>3, <1>4
<1>7. P \in SUBSET (1 .. n)
  BY <1>6
<1> HIDE DEF f
<1>8. Cardinality(P) = m
  <2>1. \A x \in I : x \in Nat
    OBVIOUS
  <2>2. \A k \in 1 .. m : f[k] \in Nat
    BY <1>5, <1>6, <2>1
  <2>3. \A j, k \in 1 .. m : f[j] = f[k] => j = k
    <3> SUFFICES ASSUME NEW j \in 1 .. m, NEW k \in 1 .. m, f[j] = f[k], j # k PROVE FALSE
      OBVIOUS
    <3>1. j < k \/ k < j
      BY <1>2
    <3>2. f[j] < f[k] \/ f[k] < f[j]
      BY <1>5, <3>1
    <3> QED
      BY <2>2, <3>2
  <2>4. ASSUME NEW x \in P PROVE \E k \in 1 .. m : f[k] = x
    <3>1. PICK k \in 1 .. m : x = w[k]
      BY <1>3
    <3>2. f[k] = w[k]
      BY <1>5
    <3> QED
      BY <3>1, <3>2
  <2>5. f \in Bijection(1 .. m, P)
    BY <1>5, <2>3, <2>4 DEF Bijection, Injection, IsInjective, Surjection
  <2>6. ExistsBijection(1 .. m, P)
    BY <2>5 DEF ExistsBijection
  <2>7. IsFiniteSet(1 .. m) /\ Cardinality(1 .. m) = m
    BY <1>2, FS_Interval
  <2> QED
    BY <2>6, <2>7, FS_Bijection
<1>9. Increasing(f, P)
  BY <1>5, <1>8 DEF Increasing
<1>10. f = Ascending(P)
  BY <1>7, <1>9, AscendingIs
<1> QED
  BY <1>6, <1>8, <1>10 DEF f, w

\* The order of two sets, one before the other.
LEMMA AscendingJoin ==
  ASSUME NEW n \in Nat, NEW A \in SUBSET (1 .. n), NEW B \in SUBSET (1 .. n),
         \A a \in A, b \in B : a < b
  PROVE  Ascending(A \cup B) =
            [k \in 1 .. Cardinality(A) + Cardinality(B) |->
                IF k <= Cardinality(A) THEN Ascending(A)[k] ELSE Ascending(B)[k - Cardinality(A)]]
<1> DEFINE u == Ascending(A)
           v == Ascending(B)
           M == Cardinality(A)
           N == Cardinality(B)
           w == [k \in 1 .. M + N |-> IF k <= M THEN u[k] ELSE v[k - M]]
<1>1. /\ u \in [1 .. M -> A] /\ \A j, k \in 1 .. M : j < k => u[j] < u[k]
      /\ v \in [1 .. N -> B] /\ \A j, k \in 1 .. N : j < k => v[j] < v[k]
  BY AscendingIs DEF Increasing
<1>2. M \in Nat /\ N \in Nat /\ IsFiniteSet(A) /\ IsFiniteSet(B)
  BY FiniteUpTo
<1>3. Cardinality(A \cup B) = M + N
  <2>1. A \cap B = {}
    <3>1. \A x \in A : x \in Nat
      OBVIOUS
    <3> QED
      BY <3>1
  <2>2. Cardinality(A \cap B) = 0
    BY <2>1, FS_EmptySet
  <2> HIDE DEF M, N
  <2>3. Cardinality(A \cup B) = Cardinality(A) + Cardinality(B) - Cardinality(A \cap B)
    BY <1>2, FS_Union
  <2> QED
    BY <1>2, <2>2, <2>3 DEF M, N
<1> HIDE DEF u, v, M, N
<1>4. \A k \in 1 .. M + N : (k <= M => k \in 1 .. M) /\ (~(k <= M) => k - M \in 1 .. N)
  BY <1>2
<1>5. \A k \in 1 .. M + N : /\ k <= M => w[k] = u[k] /\ u[k] \in A
                            /\ ~(k <= M) => w[k] = v[k - M] /\ v[k - M] \in B
  BY <1>1, <1>4
<1>6. w \in [1 .. M + N -> A \cup B]
  <2>1. w = [k \in 1 .. M + N |-> w[k]]
    OBVIOUS
  <2> HIDE DEF w
  <2>2. \A k \in 1 .. M + N : w[k] \in A \cup B
    BY <1>5
  <2> QED
    BY <2>1, <2>2
<1> HIDE DEF w
<1>7. ASSUME NEW j \in 1 .. M + N, NEW k \in 1 .. M + N, j < k PROVE w[j] < w[k]
  <2>1. CASE k <= M
    <3>1. j <= M /\ j \in 1 .. M /\ k \in 1 .. M
      BY <1>2, <1>7, <2>1
    <3> QED
      BY <1>1, <1>5, <1>7, <2>1, <3>1
  <2>2. CASE ~(k <= M) /\ j <= M
    <3>1. w[j] \in A /\ w[k] \in B
      BY <1>5, <2>2
    <3> QED
      BY <3>1
  <2>3. CASE ~(j <= M)
    <3>1. ~(k <= M) /\ j - M \in 1 .. N /\ k - M \in 1 .. N /\ j - M < k - M
      BY <1>2, <1>7, <2>3
    <3> QED
      BY <1>1, <1>5, <2>3, <3>1
  <2> QED
    BY <2>1, <2>2, <2>3
<1>8. Increasing(w, A \cup B)
  BY <1>3, <1>6, <1>7 DEF Increasing
<1>9. w = Ascending(A \cup B)
  BY <1>8, AscendingIs
<1> QED
  BY <1>9 DEF w, u, v, M, N

AllBefore(A, B) == \A a \in A, b \in B : a < b

\* The first m of a set of numbers.
AreFirst(P, m, W) == \A x : x \in P <=> \E k \in 1 .. m : x = Ascending(W)[k]

PagesJoin(A, P, m, W) ==
    PositionsOf(Ascending(A \cup P)) = PositionsOf(Ascending(A)) \o PositionsOf(SubSeq(Ascending(W), 1, m))

\* A page added to the pages before it.
LEMMA PageJoins ==
  ASSUME Typed, NEW A \in SUBSET (1 .. Len(frames)), NEW W \in SUBSET (1 .. Len(frames)),
         AllBefore(A, W), NEW m \in 0 .. Cardinality(W), NEW P, AreFirst(P, m, W)
  PROVE  PagesJoin(A, P, m, W)
<1> DEFINE n == Len(frames)
           u == Ascending(A)
           w == Ascending(W)
           v == Ascending(P)
           all == Ascending(A \cup P)
           M == Cardinality(A)
<1>1. n \in Nat /\ \A i \in 1 .. n : frames[i].pos \in Nat
  BY FramesTyped
<1>2. P \subseteq W /\ Cardinality(P) = m /\ v = [k \in 1 .. m |-> w[k]]
  BY <1>1, AscendingPrefix DEF AreFirst
<1>3. all = [k \in 1 .. M + m |-> IF k <= M THEN u[k] ELSE v[k - M]]
  <2>1. P \in SUBSET (1 .. n)
    BY <1>2
  <2>2. \A a \in A, b \in P : a < b
    BY <1>2 DEF AllBefore
  <2> HIDE DEF n, M
  <2>3. Ascending(A \cup P) =
            [k \in 1 .. Cardinality(A) + Cardinality(P) |->
                IF k <= Cardinality(A) THEN Ascending(A)[k] ELSE Ascending(P)[k - Cardinality(A)]]
    BY <1>1, <2>1, <2>2, AscendingJoin DEF n
  <2> QED
    BY <1>2, <2>3 DEF M
<1>4. u \in [1 .. M -> A] /\ M \in Nat
  BY <1>1, AscendingIs, FiniteUpTo DEF Increasing
<1>5. w \in [1 .. Cardinality(W) -> W] /\ Cardinality(W) \in Nat
  BY <1>1, AscendingIs, FiniteUpTo DEF Increasing
<1> HIDE DEF u, w, v, all, M
<1>6. SubSeq(w, 1, m) = [k \in 1 .. m |-> w[k]]
  <2>1. w \in Seq(W) /\ Len(w) = Cardinality(W)
    BY <1>5
  <2> QED
    BY <1>5, <2>1
<1>7. SubSeq(w, 1, m) = v
  BY <1>2, <1>6
<1> DEFINE pu == PositionsOf(u)
           pv == PositionsOf(v)
           pa == PositionsOf(all)
<1>8. /\ \A k \in 1 .. M : u[k] \in 1 .. n
      /\ \A k \in 1 .. m : v[k] \in 1 .. n
  <2>1. \A k \in 1 .. m : v[k] = w[k] /\ k \in 1 .. Cardinality(W)
    BY <1>2, <1>5
  <2>2. \A k \in 1 .. m : v[k] \in W
    BY <1>5, <2>1
  <2> QED
    BY <1>4, <2>2
<1>9. pu \in Seq(Nat) /\ Len(pu) = M /\ \A k \in 1 .. M : pu[k] = frames[u[k]].pos
  <2>1. pu = [k \in 1 .. M |-> frames[u[k]].pos]
    BY <1>4 DEF PositionsOf
  <2>2. \A k \in 1 .. M : frames[u[k]].pos \in Nat
    BY <1>1, <1>8
  <2> HIDE DEF pu
  <2> QED
    BY <1>4, <2>1, <2>2
<1>10. pv \in Seq(Nat) /\ Len(pv) = m /\ \A k \in 1 .. m : pv[k] = frames[v[k]].pos
  <2>1. pv = [k \in 1 .. m |-> frames[v[k]].pos]
    BY <1>2 DEF PositionsOf
  <2>2. \A k \in 1 .. m : frames[v[k]].pos \in Nat
    BY <1>1, <1>8
  <2>3. m \in Nat
    BY <1>5
  <2> HIDE DEF pv
  <2> QED
    BY <2>1, <2>2, <2>3
<1>11. m \in Nat /\ M + m \in Nat
  BY <1>4, <1>5
<1>12. \A k \in 1 .. M + m : /\ k <= M => all[k] = u[k] /\ k \in 1 .. M
                             /\ ~(k <= M) => all[k] = v[k - M] /\ k - M \in 1 .. m
  BY <1>3, <1>4, <1>11
<1>13. pa \in Seq(Nat) /\ Len(pa) = M + m /\ \A k \in 1 .. M + m : pa[k] = frames[all[k]].pos
  <2>1. pa = [k \in 1 .. M + m |-> frames[all[k]].pos]
    BY <1>3 DEF PositionsOf
  <2>2. \A k \in 1 .. M + m : frames[all[k]].pos \in Nat
    BY <1>1, <1>8, <1>12
  <2> HIDE DEF pa
  <2> QED
    BY <1>11, <2>1, <2>2
<1> HIDE DEF pu, pv, pa
<1>14. /\ pu \o pv \in Seq(Nat) /\ Len(pu \o pv) = M + m
       /\ \A k \in 1 .. M : (pu \o pv)[k] = pu[k]
       /\ \A k \in 1 .. m : (pu \o pv)[M + k] = pv[k]
  <2>1. pu \in Seq(Nat) /\ pv \in Seq(Nat) /\ Len(pu) = M /\ Len(pv) = m
    BY <1>9, <1>10
  <2>2. \A s \in Seq(Nat), t \in Seq(Nat) :
           /\ s \o t \in Seq(Nat) /\ Len(s \o t) = Len(s) + Len(t)
           /\ \A i \in 1 .. Len(s) : (s \o t)[i] = s[i]
           /\ \A i \in 1 .. Len(t) : (s \o t)[Len(s) + i] = t[i]
    BY JoinOf
  <2> QED
    BY <2>1, <2>2
<1>15. ASSUME NEW k \in 1 .. M + m PROVE pa[k] = (pu \o pv)[k]
  <2>1. CASE k <= M
    <3>1. k \in 1 .. M /\ all[k] = u[k]
      BY <1>12, <2>1
    <3>2. pa[k] = frames[u[k]].pos
      BY <1>13, <3>1
    <3>3. (pu \o pv)[k] = frames[u[k]].pos
      BY <1>9, <1>14, <3>1
    <3> QED
      BY <3>2, <3>3
  <2>2. CASE ~(k <= M)
    <3>1. M + (k - M) = k
      BY <1>4, <1>11
    <3>2. k - M \in 1 .. m /\ all[k] = v[k - M]
      BY <1>12, <2>2
    <3>3. (pu \o pv)[k] = pv[k - M]
      BY <1>14, <3>1, <3>2
    <3> QED
      BY <1>10, <1>13, <3>2, <3>3
  <2> QED
    BY <2>1, <2>2
<1>16. pa = pu \o pv
  BY <1>13, <1>14, <1>15, SameSequence
<1> QED
  BY <1>7, <1>16 DEF PagesJoin, pa, pu, pv, all, u, w

----------------------------------------------------------------------------
(* Pages *)

\* What the requested events of a page's scan are.
PageWanted ==
    {i \in Timeline(reader.branch, reader.continuation, reader.until) : Requested(i)}

LEMMA ReaderTyped ==
  ASSUME TInv, reader.open
  PROVE  /\ reader.from \in Nat /\ reader.until \in Nat /\ reader.continuation \in Nat
         /\ reader.until <= LogHead /\ LogHead \in Nat
         /\ reader.branch \in DOMAIN branches /\ phase # "down"
         /\ IsCatalog(branches) /\ ForksSound(branches)
         /\ Typed /\ FramesOrdered /\ SegmentsLaid
<1>1. reader \in Reader /\ Typed /\ FramesOrdered /\ SegmentsLaid
  BY DEF TInv, Typed
<1>2. reader.from \in Nat /\ reader.until \in Nat /\ reader.continuation \in Nat
  BY <1>1 DEF Reader
<1>3. reader.until <= LogHead /\ reader.branch \in DOMAIN branches /\ phase # "down"
  BY DEF TInv, ReaderSane
<1>4. LogHead \in Nat
  BY <1>1, FramesTyped, HeadIs, HeadParts
<1>5. IsCatalog(branches) /\ ForksSound(branches)
  BY <1>3, MemorySound
<1> QED
  BY <1>1, <1>2, <1>3, <1>4, <1>5

LEMMA PageScan ==
  ASSUME TInv, reader.open, ~Done, NEW seek \in Seeks(PageFilter)
  PROVE  /\ Wanted(seek) = Ascending(PageWanted)
         /\ PageWanted \in SUBSET (1 .. Len(frames))
         /\ \A i \in PageWanted : IsEvent(i)
<1> DEFINE b == reader.branch
           from == reader.continuation
           until == reader.until
<1>1. /\ from \in Nat /\ until \in Nat /\ until <= LogHead /\ b \in DOMAIN branches
      /\ IsCatalog(branches) /\ Typed /\ FramesOrdered /\ SegmentsLaid
  BY ReaderTyped
<1>2. from < until
  BY <1>1 DEF Done
<1>3. seek \in Seeks(Filter(b, from, until, Streams, {}))
  BY DEF PageFilter
<1>4. Matches(PageFilter, seek) = Matches(Filter(b, from, until, Streams, {}), seek)
  BY DEF PageFilter
<1> HIDE DEF b, from, until
<1>5. Matches(Filter(b, from, until, Streams, {}), seek)
         = {i \in Timeline(b, from, until) :
               /\ frames[i].stream \in Streams
               /\ \A r \in {} : frames[i].time >= r.lo /\ frames[i].time < r.hi}
  <2>1. {} \subseteq [lo : Int, hi : Int]
    OBVIOUS
  <2> QED
    BY <1>1, <1>2, <1>3, <2>1, MatchesAre
<1>6. \A i \in Timeline(b, from, until) : i \in 1 .. Len(frames) /\ IsEvent(i) /\ frames[i].stream \in Streams
  <2>1. \A i \in Timeline(b, from, until) : i \in 1 .. Len(frames) /\ IsEvent(i)
    BY <1>1, FramesTyped DEF Timeline, EventsIn
  <2>2. \A i \in Timeline(b, from, until) : frames[i] \in Event
    BY <1>1, <2>1, FramesTyped
  <2> QED
    BY <2>1, <2>2 DEF Event
<1>7. Matches(PageFilter, seek) = Timeline(b, from, until)
  BY <1>4, <1>5, <1>6
<1>8. Wanted(seek) = Ascending(PageWanted)
  BY <1>7, Zenon DEF Wanted, PageWanted, b, from, until
<1>9. \A i \in PageWanted : i \in Timeline(b, from, until)
  BY DEF PageWanted, b, from, until
<1> QED
  BY <1>6, <1>8, <1>9

LEMMA TakenIs ==
  ASSUME NEW w, NEW N \in Nat, DOMAIN w = 1 .. N
  PROVE  /\ Taken(w) \in 0 .. N /\ Taken(w) <= PageEvents
         /\ N > 0 => Taken(w) > 0
<1> DEFINE S == {0} \cup {n \in DOMAIN w : n <= PageEvents /\ (n = 1 \/ Bytes(w, n) <= PageBytes)}
<1>1. PageEvents \in Nat \ {0}
  BY TimelinesAssumption DEF TimelinesAssumption
<1>2. /\ S \in SUBSET Nat /\ S # {} /\ \A x \in S : x <= N /\ x <= PageEvents
      /\ N > 0 => 1 \in S
  BY <1>1
<1>3. Taken(w) = Max(S)
  BY DEF Taken
<1> HIDE DEF S
<1>4. Max(S) \in S /\ \A x \in S : x <= Max(S)
  BY <1>2, MaxOf
<1>5. Max(S) \in Nat /\ Max(S) <= N /\ Max(S) <= PageEvents
  BY <1>2, <1>4
<1>6. N > 0 => 1 <= Max(S)
  BY <1>2, <1>4
<1> QED
  BY <1>3, <1>5, <1>6

\* A page takes the events before its continuation, and moves it.
LEMMA PageEnds ==
  ASSUME TInv, reader.open, ~Done,
         PageWanted \in SUBSET (1 .. Len(frames)), \A i \in PageWanted : IsEvent(i)
  PROVE  LET w == Ascending(PageWanted) IN
         /\ Taken(w) \in 0 .. Cardinality(PageWanted)
         /\ Continuation(w) \in Nat
         /\ reader.continuation < Continuation(w) /\ Continuation(w) <= reader.until
         /\ \A x : x \in PageWanted /\ frames[x].pos < Continuation(w) <=>
                      \E k \in 1 .. Taken(w) : x = w[k]
<1> DEFINE W == PageWanted
           w == Ascending(W)
           N == Cardinality(W)
           n == Taken(w)
           c == reader.continuation
           until == reader.until
           c2 == Continuation(w)
<1>1. /\ c \in Nat /\ until \in Nat /\ c < until
      /\ Typed /\ FramesOrdered /\ Len(frames) \in Nat
  BY ReaderTyped, FramesTyped DEF Done
<1>2. \A i \in W : /\ i \in 1 .. Len(frames) /\ IsEvent(i) /\ frames[i].pos \in Nat
                   /\ c <= frames[i].pos /\ frames[i].pos < until
  <2>1. \A i \in W : frames[i].pos >= c /\ frames[i].pos < until
    BY DEF PageWanted, Timeline
  <2>2. \A i \in W : i \in 1 .. Len(frames) /\ IsEvent(i)
    OBVIOUS
  <2>3. \A i \in W : frames[i].pos \in Nat
    BY <1>1, <2>2, FramesTyped
  <2> QED
    BY <1>1, <2>1, <2>2, <2>3
<1>3. /\ w \in [1 .. N -> W] /\ N \in Nat
      /\ \A j, k \in 1 .. N : j < k => w[j] < w[k]
      /\ \A x \in W : \E k \in 1 .. N : w[k] = x
  BY <1>1, AscendingIs, FiniteUpTo DEF Increasing
<1>4. n \in 0 .. N /\ n <= PageEvents /\ (N > 0 => n > 0) /\ PageEvents \in Nat \ {0}
  BY <1>3, TakenIs, TimelinesAssumption DEF TimelinesAssumption
<1>5. Len(w) = N
  BY <1>3
<1>6. c2 = CASE n = PageEvents -> frames[w[n]].pos + 1
             [] n < Len(w) /\ n < PageEvents -> frames[w[n + 1]].pos
             [] OTHER -> Max({c, until})
  BY DEF Continuation
<1> HIDE DEF W, w, N, n, c, until, c2
<1>7. \A k \in 1 .. N : w[k] \in W /\ frames[w[k]].pos \in Nat
  BY <1>2, <1>3
<1>8. ASSUME NEW j \in 1 .. N, NEW k \in 1 .. N, j < k
      PROVE  frames[w[j]].pos < frames[w[k]].pos
  <2>1. w[j] < w[k] /\ w[j] \in 1 .. Len(frames) /\ w[k] \in 1 .. Len(frames) /\ IsEvent(w[j])
    BY <1>2, <1>3, <1>7, <1>8
  <2>2. DOMAIN frames = 1 .. Len(frames)
    BY <1>1, FramesTyped
  <2> QED
    BY <1>1, <2>1, <2>2 DEF FramesOrdered
<1>9. Max({c, until}) = until
  <2>1. {c, until} \in SUBSET Nat /\ {c, until} # {} /\ \A x \in {c, until} : x <= until
    BY <1>1
  <2>2. Max({c, until}) \in {c, until} /\ \A x \in {c, until} : x <= Max({c, until})
    BY <1>1, <2>1, MaxOf
  <2> QED
    BY <1>1, <2>2
<1>10. /\ c2 \in Nat /\ c < c2 /\ c2 <= until
       /\ \A k \in 1 .. N : frames[w[k]].pos < c2 <=> k <= n
  <2>1. CASE n = PageEvents
    <3>1. n \in 1 .. N /\ c2 = frames[w[n]].pos + 1
      BY <1>3, <1>4, <1>6, <2>1
    <3>2. c <= frames[w[n]].pos /\ frames[w[n]].pos < until /\ frames[w[n]].pos \in Nat
      BY <1>2, <1>7, <3>1
    <3>3. ASSUME NEW k \in 1 .. N PROVE frames[w[k]].pos < c2 <=> k <= n
      <4>1. k < n \/ k = n \/ n < k
        BY <3>1
      <4> QED
        BY <1>7, <1>8, <3>1, <4>1
    <3> QED
      BY <1>1, <3>1, <3>2, <3>3
  <2>2. CASE n # PageEvents /\ n < N
    <3>1. n + 1 \in 1 .. N /\ 1 \in 1 .. N /\ 1 < n + 1
      BY <1>3, <1>4, <2>2
    <3>2. c2 = frames[w[n + 1]].pos
      BY <1>4, <1>5, <1>6, <2>2
    <3>3. frames[w[1]].pos < frames[w[n + 1]].pos /\ c <= frames[w[1]].pos
          /\ frames[w[n + 1]].pos < until /\ frames[w[n + 1]].pos \in Nat /\ frames[w[1]].pos \in Nat
      BY <1>2, <1>7, <1>8, <3>1
    <3>4. ASSUME NEW k \in 1 .. N PROVE frames[w[k]].pos < c2 <=> k <= n
      <4>1. k < n + 1 \/ k = n + 1 \/ n + 1 < k
        BY <3>1
      <4>2. k < n + 1 <=> k <= n
        BY <1>4
      <4> QED
        BY <1>7, <1>8, <3>1, <3>2, <4>1, <4>2
    <3> QED
      BY <1>1, <3>2, <3>3, <3>4
  <2>3. CASE n # PageEvents /\ ~(n < N)
    <3>1. n = N /\ c2 = until
      BY <1>3, <1>4, <1>5, <1>6, <1>9, <2>3
    <3>2. \A k \in 1 .. N : frames[w[k]].pos < until /\ k <= n
      BY <1>2, <1>7, <3>1
    <3> QED
      BY <1>1, <3>1, <3>2
  <2> QED
    BY <2>1, <2>2, <2>3
<1>11. ASSUME NEW x
       PROVE  x \in W /\ frames[x].pos < c2 <=> \E k \in 1 .. n : x = w[k]
  <2>1. ASSUME x \in W, frames[x].pos < c2 PROVE \E k \in 1 .. n : x = w[k]
    <3>1. PICK k \in 1 .. N : w[k] = x
      BY <1>3, <2>1
    <3>2. k <= n
      BY <1>10, <2>1, <3>1
    <3>3. k \in 1 .. n
      BY <1>4, <3>2
    <3> QED
      BY <3>1, <3>3
  <2>2. ASSUME NEW k \in 1 .. n, x = w[k] PROVE x \in W /\ frames[x].pos < c2
    <3>1. k \in 1 .. N /\ k <= n
      BY <1>3, <1>4
    <3> QED
      BY <1>7, <1>10, <2>2, <3>1
  <2> QED
    BY <2>1, <2>2
<1> QED
  BY <1>4, <1>10, <1>11 DEF W, w, N, n, c, until, c2

\* Each page moves the continuation.
LEMMA PagingEndsNow ==
  ASSUME TInv
  PROVE  PagingEnds
<1> SUFFICES ASSUME reader.open, ~Done, NEW seek \in Seeks(PageFilter)
             PROVE  Continuation(Wanted(seek)) > reader.continuation
  BY DEF PagingEnds
<1> DEFINE w == Ascending(PageWanted)
<1>1. Wanted(seek) = w
  BY PageScan
<1>2. PageWanted \in SUBSET (1 .. Len(frames)) /\ \A i \in PageWanted : IsEvent(i)
  BY PageScan
<1>3. reader.continuation < Continuation(w) /\ Continuation(w) \in Nat /\ reader.continuation \in Nat
  BY <1>2, PageEnds, ReaderTyped
<1> QED
  BY <1>1, <1>3

----------------------------------------------------------------------------
(* Appends *)

\* What an append adds: frames of one batch, from the head on.
Fits(new) ==
    /\ new \in Seq(Frame) /\ new # <<>>
    /\ \A i \in DOMAIN new : LogHead <= new[i].pos /\ new[i].batch = NextBatch
    /\ \A i, j \in DOMAIN new : i < j =>
          new[i].pos <= new[j].pos /\ (new[i].kind = "event" => new[i].pos < new[j].pos)
    /\ \A i, j \in DOMAIN new :
          new[i].kind = "event" /\ new[j].kind = "event" => new[i].branch = new[j].branch

Extended(l, new) == Fits(new) /\ l = frames \o new

LEMMA Joined ==
  ASSUME TInv, NEW new, NEW l, Extended(l, new)
  PROVE  /\ l \in Seq(Frame) /\ Len(l) = Len(frames) + Len(new) /\ DOMAIN l = 1 .. Len(l)
         /\ Len(frames) \in Nat /\ Len(new) \in Nat \ {0} /\ DOMAIN new = 1 .. Len(new)
         /\ \A i \in 1 .. Len(frames) : l[i] = frames[i] /\ i \in 1 .. Len(l)
         /\ \A i \in 1 .. Len(l) : i > Len(frames) =>
               i - Len(frames) \in 1 .. Len(new) /\ l[i] = new[i - Len(frames)]
         /\ \A i \in 1 .. Len(l) : l[i].pos \in Nat /\ l[i].batch \in Nat
<1>1. frames \in Seq(Frame) /\ new \in Seq(Frame) /\ new # <<>> /\ l = frames \o new
  BY DEF TInv, Typed, Fits, Extended
<1>2. Len(frames) \in Nat /\ Len(new) \in Nat \ {0} /\ DOMAIN new = 1 .. Len(new)
  BY <1>1
<1>3. \A s \in Seq(Frame), t \in Seq(Frame) :
         /\ s \o t \in Seq(Frame) /\ Len(s \o t) = Len(s) + Len(t)
         /\ \A i \in 1 .. Len(s) : (s \o t)[i] = s[i]
         /\ \A i \in 1 .. Len(t) : (s \o t)[Len(s) + i] = t[i]
  BY JoinOf
<1>4. /\ l \in Seq(Frame) /\ Len(l) = Len(frames) + Len(new)
      /\ \A i \in 1 .. Len(frames) : l[i] = frames[i]
      /\ \A i \in 1 .. Len(new) : l[Len(frames) + i] = new[i]
  BY <1>1, <1>3
<1>5. DOMAIN l = 1 .. Len(l) /\ \A i \in 1 .. Len(l) : l[i] \in Frame
  BY <1>4
<1>6. \A f \in Frame : f.pos \in Nat /\ f.batch \in Nat
  BY DEF Frame, Event, Created, ArchivedFrame
<1>7. ASSUME NEW i \in 1 .. Len(l), i > Len(frames)
      PROVE  i - Len(frames) \in 1 .. Len(new) /\ l[i] = new[i - Len(frames)]
  <2>1. i - Len(frames) \in 1 .. Len(new) /\ Len(frames) + (i - Len(frames)) = i
    BY <1>2, <1>4, <1>7
  <2> QED
    BY <1>4, <2>1
<1>8. \A i \in 1 .. Len(frames) : i \in 1 .. Len(l)
  BY <1>2, <1>4
<1>9. \A i \in 1 .. Len(l) : l[i].pos \in Nat /\ l[i].batch \in Nat
  BY <1>5, <1>6
<1>10. \A i \in 1 .. Len(frames) : l[i] = frames[i] /\ i \in 1 .. Len(l)
  BY <1>4, <1>8
<1>11. \A i \in 1 .. Len(l) : i > Len(frames) =>
          i - Len(frames) \in 1 .. Len(new) /\ l[i] = new[i - Len(frames)]
  BY <1>7
<1>12. l \in Seq(Frame) /\ Len(l) = Len(frames) + Len(new) /\ DOMAIN l = 1 .. Len(l)
  BY <1>4, <1>5
<1> QED
  BY <1>2, <1>9, <1>10, <1>11, <1>12

\* The order of an extended log.
LEMMA JoinedOrdered ==
  ASSUME TInv, NEW new, NEW l, Extended(l, new)
  PROVE  /\ LogHead \in Nat
         /\ \A i \in 1 .. Len(l) : i > Len(frames) => LogHead <= l[i].pos /\ l[i].batch = Len(frames) + 1
         /\ \A i \in 1 .. Len(l) : l[i].batch <= i
         /\ \A i \in 1 .. Len(frames) : frames[i].pos <= LogHead /\ l[i].batch <= Len(frames)
         /\ \A i, j \in 1 .. Len(l) : i < j =>
               /\ l[i].pos <= l[j].pos /\ l[i].batch <= l[j].batch
               /\ l[i].kind = "event" => l[i].pos < l[j].pos
         /\ LogHead <= HeadOf(l, Len(l))
<1>1. /\ l \in Seq(Frame) /\ Len(l) = Len(frames) + Len(new) /\ DOMAIN l = 1 .. Len(l)
      /\ Len(frames) \in Nat /\ Len(new) \in Nat \ {0} /\ DOMAIN new = 1 .. Len(new)
      /\ \A i \in 1 .. Len(frames) : l[i] = frames[i] /\ i \in 1 .. Len(l)
      /\ \A i \in 1 .. Len(l) : i > Len(frames) =>
            i - Len(frames) \in 1 .. Len(new) /\ l[i] = new[i - Len(frames)]
      /\ \A i \in 1 .. Len(l) : l[i].pos \in Nat /\ l[i].batch \in Nat
  BY Joined
<1>2. /\ Typed /\ FramesOrdered /\ LogHead = HeadAt(Len(frames)) /\ DOMAIN frames = 1 .. Len(frames)
  BY HeadIs, FramesTyped DEF TInv
<1>3. LogHead \in Nat
  BY <1>1, <1>2, HeadParts
<1>4. ASSUME NEW i \in 1 .. Len(frames)
      PROVE  /\ frames[i].pos <= LogHead /\ l[i].batch <= Len(frames) /\ l[i].batch <= i
             /\ IsEvent(i) => frames[i].pos < LogHead
  <2>1. frames[i].pos <= LogHead /\ (IsEvent(i) => frames[i].pos < LogHead)
    <3>1. Len(frames) \in 0 .. Len(frames) /\ i <= Len(frames)
      BY <1>1
    <3>2. \A n \in 0 .. Len(frames) : i <= n =>
             frames[i].pos <= HeadAt(n) /\ (IsEvent(i) => frames[i].pos < HeadAt(n))
      BY <1>2, HeadParts
    <3> QED
      BY <1>2, <3>1, <3>2
  <2>2. frames[i].batch <= i /\ l[i] = frames[i] /\ l[i].batch \in Nat
    BY <1>1, <1>2 DEF FramesOrdered
  <2> QED
    BY <1>1, <2>1, <2>2
<1>5. /\ \A i \in 1 .. Len(new) : LogHead <= new[i].pos /\ new[i].batch = Len(frames) + 1
      /\ \A i, j \in 1 .. Len(new) : i < j =>
            new[i].pos <= new[j].pos /\ (new[i].kind = "event" => new[i].pos < new[j].pos)
  BY <1>1 DEF Extended, Fits, NextBatch
<1>6. ASSUME NEW i \in 1 .. Len(l), i > Len(frames)
      PROVE  LogHead <= l[i].pos /\ l[i].batch = Len(frames) + 1 /\ l[i].batch <= i
  <2>1. i - Len(frames) \in 1 .. Len(new) /\ l[i] = new[i - Len(frames)]
    BY <1>1, <1>6
  <2> QED
    BY <1>1, <1>5, <1>6, <2>1
<1>7. ASSUME NEW i \in 1 .. Len(l), NEW j \in 1 .. Len(l), i < j
      PROVE  /\ l[i].pos <= l[j].pos /\ l[i].batch <= l[j].batch
             /\ l[i].kind = "event" => l[i].pos < l[j].pos
  <2>1. CASE j <= Len(frames)
    <3>1. i \in 1 .. Len(frames) /\ j \in 1 .. Len(frames) /\ l[i] = frames[i] /\ l[j] = frames[j]
      BY <1>1, <1>7, <2>1
    <3> QED
      BY <1>2, <1>7, <3>1 DEF FramesOrdered, IsEvent
  <2>2. CASE i <= Len(frames) /\ j > Len(frames)
    <3>1. i \in 1 .. Len(frames) /\ l[i] = frames[i]
      BY <1>1, <2>2
    <3>2. /\ frames[i].pos <= LogHead /\ l[i].batch <= Len(frames)
          /\ l[i].kind = "event" => frames[i].pos < LogHead
      BY <1>4, <3>1 DEF IsEvent
    <3>3. LogHead <= l[j].pos /\ l[j].batch = Len(frames) + 1
      BY <1>6, <2>2
    <3>4. l[i].pos \in Nat /\ l[j].pos \in Nat /\ l[i].batch \in Nat
      BY <1>1
    <3> QED
      BY <1>1, <1>3, <3>1, <3>2, <3>3, <3>4, SMTT(30)
  <2>3. CASE i > Len(frames)
    <3>1. /\ i - Len(frames) \in 1 .. Len(new) /\ l[i] = new[i - Len(frames)]
          /\ j > Len(frames) /\ j - Len(frames) \in 1 .. Len(new) /\ l[j] = new[j - Len(frames)]
          /\ i - Len(frames) < j - Len(frames)
      BY <1>1, <1>7, <2>3
    <3>2. l[i].batch = l[j].batch /\ l[i].batch \in Nat
      BY <1>1, <1>6, <2>3, <3>1
    <3> QED
      BY <1>5, <3>1, <3>2
  <2> QED
    BY <1>1, <2>1, <2>2, <2>3
<1>8. LogHead <= HeadOf(l, Len(l))
  <2>1. Len(l) \in 1 .. Len(l) /\ Len(l) > Len(frames) /\ Len(l) # 0
    BY <1>1
  <2>2. LogHead <= l[Len(l)].pos /\ l[Len(l)].pos \in Nat
    BY <1>1, <1>6, <2>1
  <2> QED
    BY <1>3, <2>1, <2>2 DEF HeadOf
<1>9. ASSUME NEW i \in 1 .. Len(l) PROVE l[i].batch <= i
  <2>1. i \in 1 .. Len(frames) \/ i > Len(frames)
    BY <1>1
  <2> QED
    BY <1>4, <1>6, <2>1
<1> QED
  BY <1>3, <1>4, <1>6, <1>7, <1>8, <1>9

\* Segments, order and batches after an append.
LEMMA AppendLaid ==
  ASSUME TInv, NEW new, Fits(new), AppendFrames(new)
  PROVE  /\ Extended(frames', new)
         /\ frames' \in Seq(Frame) /\ synced' \in 0 .. Len(frames')
         /\ segments' \in Seq([base : Nat, first : Nat \ {0}]) /\ segments' # <<>>
         /\ FramesOrdered' /\ BatchOnOneBranch' /\ SegmentsLaid' /\ LogHead <= LogHead'
<1>1. Extended(frames', new)
  BY DEF AppendFrames, Extended
<1> DEFINE l == frames'
<1>2. /\ l \in Seq(Frame) /\ Len(l) = Len(frames) + Len(new) /\ DOMAIN l = 1 .. Len(l)
      /\ Len(frames) \in Nat /\ Len(new) \in Nat \ {0} /\ DOMAIN new = 1 .. Len(new)
      /\ \A i \in 1 .. Len(frames) : l[i] = frames[i] /\ i \in 1 .. Len(l)
      /\ \A i \in 1 .. Len(l) : i > Len(frames) =>
            i - Len(frames) \in 1 .. Len(new) /\ l[i] = new[i - Len(frames)]
      /\ \A i \in 1 .. Len(l) : l[i].pos \in Nat /\ l[i].batch \in Nat
  BY <1>1, Joined
<1>3. /\ LogHead \in Nat
      /\ \A i \in 1 .. Len(l) : i > Len(frames) => LogHead <= l[i].pos /\ l[i].batch = Len(frames) + 1
      /\ \A i \in 1 .. Len(l) : l[i].batch <= i
      /\ \A i \in 1 .. Len(frames) : frames[i].pos <= LogHead /\ l[i].batch <= Len(frames)
      /\ \A i, j \in 1 .. Len(l) : i < j =>
            /\ l[i].pos <= l[j].pos /\ l[i].batch <= l[j].batch
            /\ l[i].kind = "event" => l[i].pos < l[j].pos
      /\ LogHead <= HeadOf(l, Len(l))
  BY <1>1, JoinedOrdered
<1>4. /\ Typed /\ FramesOrdered /\ SegmentsLaid /\ BatchOnOneBranch
      /\ LogHead = HeadAt(Len(frames)) /\ DOMAIN frames = 1 .. Len(frames)
      /\ synced \in 0 .. Len(frames)
  BY HeadIs, FramesTyped DEF TInv, Typed
<1>5. FramesOrdered'
  BY <1>2, <1>3 DEF FramesOrdered, IsEvent
<1>6. LogHead' = HeadOf(l, Len(l))
  <2>1. l # <<>> /\ Len(l) # 0
    BY <1>2
  <2>2. Last(l) = l[Len(l)]
    BY DEF Last
  <2> QED
    BY <2>1, <2>2 DEF LogHead, HeadOf, IsEvent
<1>7. BatchOnOneBranch'
  <2> SUFFICES ASSUME NEW i \in 1 .. Len(l), NEW j \in 1 .. Len(l), l[i].kind = "event", l[j].kind = "event",
                      l[i].batch = l[j].batch
               PROVE  l[i].branch = l[j].branch
    BY <1>2 DEF BatchOnOneBranch, EventsIn, IsEvent
  <2>1. i > Len(frames) <=> j > Len(frames)
    <3>1. ASSUME NEW x \in 1 .. Len(l) PROVE x > Len(frames) <=> l[x].batch = Len(frames) + 1
      <4>1. x \in 1 .. Len(frames) \/ x > Len(frames)
        BY <1>2
      <4> QED
        BY <1>2, <1>3, <4>1
    <3> QED
      BY <3>1
  <2>2. CASE i > Len(frames)
    <3>1. /\ i - Len(frames) \in 1 .. Len(new) /\ l[i] = new[i - Len(frames)]
          /\ j - Len(frames) \in 1 .. Len(new) /\ l[j] = new[j - Len(frames)]
      BY <1>2, <2>1, <2>2
    <3>2. \A x, y \in 1 .. Len(new) :
             new[x].kind = "event" /\ new[y].kind = "event" => new[x].branch = new[y].branch
      BY <1>2 DEF Fits
    <3> HIDE DEF l
    <3> QED
      BY <3>1, <3>2
  <2>3. CASE ~(i > Len(frames))
    <3>1. i \in 1 .. Len(frames) /\ j \in 1 .. Len(frames) /\ l[i] = frames[i] /\ l[j] = frames[j]
      BY <1>2, <2>1, <2>3
    <3> QED
      BY <1>4, <3>1 DEF BatchOnOneBranch, EventsIn, IsEvent
  <2> QED
    BY <2>2, <2>3
<1>8. \A n \in 0 .. Len(frames) : HeadAt(n)' = HeadAt(n)
  BY <1>2 DEF HeadAt, HeadOf
<1>9. /\ Active \in Nat \ {0} /\ DOMAIN segments = 1 .. Active /\ segments[1].first = 1
      /\ \A g \in 1 .. Active :
            /\ segments[g].first \in Nat \ {0} /\ segments[g].first - 1 \in 0 .. Len(frames)
            /\ segments[g].base = HeadAt(segments[g].first - 1)
            /\ \A h \in 1 .. Active : g < h => segments[g].first <= segments[h].first
  BY <1>4, SegmentsTyped
<1>10. \A g \in 1 .. Active : segments[g].first <= synced + 1
  BY <1>4, <1>9 DEF SegmentsLaid
<1>11. CASE ~Full
  <2>1. UNCHANGED <<segments, synced>>
    BY <1>11 DEF AppendFrames
  <2>2. SegmentsLaid'
    BY <1>8, <1>9, <1>10, <2>1 DEF SegmentsLaid
  <2>3. segments \in Seq([base : Nat, first : Nat \ {0}]) /\ segments # <<>>
    BY <1>4 DEF Typed
  <2>4. synced' \in 0 .. Len(frames')
    BY <1>2, <1>4, <2>1
  <2> QED
    BY <1>1, <1>2, <1>3, <1>5, <1>6, <1>7, <2>1, <2>2, <2>3, <2>4
<1>12. CASE Full
  <2> DEFINE s == [base |-> LogHead, first |-> Len(frames) + 1]
  <2>1. segments' = Append(segments, s) /\ synced' = Len(frames)
    BY <1>12 DEF AppendFrames
  <2>2. s.base = LogHead /\ s.first = Len(frames) + 1 /\ s \in [base : Nat, first : Nat \ {0}]
    BY <1>2, <1>3
  <2>3. segments \in Seq([base : Nat, first : Nat \ {0}]) /\ Active = Len(segments)
    BY <1>4 DEF Typed, Active
  <2> HIDE DEF s
  <2>4. /\ segments' \in Seq([base : Nat, first : Nat \ {0}]) /\ segments' # <<>>
        /\ DOMAIN segments' = 1 .. Active + 1
        /\ \A g \in 1 .. Active : segments'[g] = segments[g]
        /\ segments'[Active + 1] = s
    <3> DEFINE T == [base : Nat, first : Nat \ {0}]
    <3>1. segments \in Seq(T) /\ s \in T /\ segments' = Append(segments, s) /\ Active = Len(segments)
      BY <2>1, <2>2, <2>3
    <3> HIDE DEF T
    <3>2. /\ segments' \in Seq(T) /\ segments' # <<>> /\ DOMAIN segments' = 1 .. Active + 1
          /\ \A g \in 1 .. Active : segments'[g] = segments[g]
          /\ segments'[Active + 1] = s
      BY <3>1
    <3> QED
      BY <3>2 DEF T
  <2>5. \A g \in 1 .. Active + 1 : g \in 1 .. Active \/ g = Active + 1
    BY <1>9
  <2>6. ASSUME NEW g \in 1 .. Active + 1
        PROVE  /\ segments'[g].first <= synced' + 1
               /\ segments'[g].base = HeadAt(segments'[g].first - 1)
               /\ segments'[g].first - 1 \in 0 .. Len(frames)
               /\ \A h \in 1 .. Active + 1 : g < h => segments'[g].first <= segments'[h].first
    <3>1. CASE g \in 1 .. Active
      <4>1. segments'[g] = segments[g] /\ segments[g].first <= Len(frames) + 1
        <5>1. segments[g].first \in Nat /\ segments[g].first - 1 \in 0 .. Len(frames)
          BY <1>9, <3>1
        <5>2. segments'[g] = segments[g]
          BY <2>4, <3>1
        <5> QED
          BY <1>2, <5>1, <5>2
      <4>2. ASSUME NEW h \in 1 .. Active + 1, g < h PROVE segments[g].first <= segments'[h].first
        BY <1>9, <2>2, <2>4, <2>5, <3>1, <4>1, <4>2
      <4> QED
        BY <1>9, <2>1, <3>1, <4>1, <4>2
    <3>2. CASE g = Active + 1
      <4>1. (Len(frames) + 1) - 1 = Len(frames) /\ Len(frames) \in 0 .. Len(frames)
        BY <1>2
      <4>2. \A h \in 1 .. Active + 1 : ~(g < h)
        BY <1>9, <3>2
      <4>3. segments'[g].first = Len(frames) + 1 /\ segments'[g].base = LogHead
        BY <2>2, <2>4, <3>2
      <4> QED
        BY <1>2, <1>4, <2>1, <4>1, <4>2, <4>3
    <3> QED
      BY <2>5, <3>1, <3>2
  <2>7. segments'[1].first = 1
    BY <1>9, <2>4
  <2>8. SegmentsLaid'
    <3>1. ASSUME NEW g \in 1 .. Active + 1 PROVE segments'[g].base = HeadAt(segments[g].first - 1)'
      BY <1>8, <2>6 DEF HeadAt
    <3> QED
      BY <2>4, <2>6, <2>7, <3>1 DEF SegmentsLaid
  <2>9. synced' \in 0 .. Len(frames')
    BY <1>2, <2>1
  <2> QED
    BY <1>1, <1>2, <1>3, <1>5, <1>6, <1>7, <2>4, <2>8, <2>9
<1> QED
  BY <1>11, <1>12

----------------------------------------------------------------------------
(* Catalogs of longer logs *)

\* The catalog that the whole log rebuilds.
LEMMA LogCatalog ==
  ASSUME TInv
  PROVE  /\ SubSeq(frames, 1, Len(frames)) = frames /\ Len(frames) \in Nat
         /\ IsCatalog(Rebuild(frames)) /\ ForksIn(frames, Rebuild(frames))
         /\ \A b \in DOMAIN Rebuild(frames) :
               Rebuild(frames)[b].fork \in Nat /\ Rebuild(frames)[b].fork <= LogHead
         /\ \A i \in 1 .. Len(frames) : IsEvent(i) => frames[i].branch \in DOMAIN Rebuild(frames)
<1>1. frames \in Seq(Frame) /\ Len(frames) \in Nat /\ Len(frames) \in 0 .. Len(frames) /\ Typed
  BY DEF TInv, Typed
<1>2. SubSeq(frames, 1, Len(frames)) = frames
  BY <1>1, PrefixesOf
<1>3. SoundAt(frames, Len(frames))
  BY <1>1 DEF TInv, CatalogsSound
<1>4. /\ IsCatalog(Rebuild(frames)) /\ ForksIn(frames, Rebuild(frames))
      /\ \A b \in DOMAIN Rebuild(frames) : Rebuild(frames)[b].fork <= HeadOf(frames, Len(frames))
      /\ \A i \in 1 .. Len(frames) : frames[i].kind = "event" => frames[i].branch \in DOMAIN Rebuild(frames)
  BY <1>2, <1>3 DEF SoundAt
<1>5. LogHead = HeadOf(frames, Len(frames))
  BY <1>1, HeadIs DEF HeadAt
<1>6. \A b \in DOMAIN Rebuild(frames) : Rebuild(frames)[b].fork \in Nat
  BY <1>4, CatalogPath
<1> QED
  BY <1>1, <1>2, <1>4, <1>5, <1>6 DEF IsEvent

\* An append is after every fork.
LEMMA ForksAppended ==
  ASSUME TInv, NEW new, NEW l, Extended(l, new), NEW cat, ForksIn(frames, cat),
         \A b \in DOMAIN cat : cat[b].fork \in Nat /\ cat[b].fork <= LogHead
  PROVE  ForksIn(l, cat)
<1>1. /\ Len(l) = Len(frames) + Len(new) /\ DOMAIN l = 1 .. Len(l)
      /\ Len(frames) \in Nat /\ Len(new) \in Nat /\ DOMAIN frames = 1 .. Len(frames)
      /\ \A i \in 1 .. Len(frames) : l[i] = frames[i]
      /\ \A i \in 1 .. Len(l) : l[i].pos \in Nat /\ l[i].batch \in Nat
  BY Joined, FramesTyped DEF TInv
<1>2. /\ LogHead \in Nat
      /\ \A i \in 1 .. Len(l) : i > Len(frames) => LogHead <= l[i].pos /\ l[i].batch = Len(frames) + 1
      /\ \A i \in 1 .. Len(frames) : l[i].batch <= Len(frames)
  BY JoinedOrdered
<1>3. ASSUME NEW i \in DOMAIN l PROVE i \in 1 .. Len(frames) \/ i > Len(frames)
  BY <1>1
<1>4. ASSUME NEW b \in DOMAIN cat, NEW i \in DOMAIN l, NEW j \in DOMAIN l,
             l[i].kind = "event", l[i].pos < cat[b].fork,
             l[j].kind = "event", cat[b].fork <= l[j].pos
      PROVE  l[i].batch # l[j].batch
  <2>1. i \in 1 .. Len(frames)
    <3>1. l[i].pos < LogHead
      BY <1>1, <1>2, <1>4
    <3> QED
      BY <1>1, <1>2, <1>3, <3>1
  <2>2. CASE j \in 1 .. Len(frames)
    <3>1. l[i] = frames[i] /\ l[j] = frames[j]
      BY <1>1, <2>1, <2>2
    <3> QED
      BY <1>1, <1>4, <2>1, <2>2, <3>1 DEF ForksIn
  <2>3. CASE j > Len(frames)
    BY <1>1, <1>2, <2>1, <2>3
  <2> QED
    BY <1>3, <2>2, <2>3
<1>5. ASSUME NEW b \in DOMAIN cat, NEW i \in DOMAIN l, l[i].kind = "event", l[i].branch = b
      PROVE  cat[b].fork <= l[i].pos
  <2>1. CASE i \in 1 .. Len(frames)
    <3>1. l[i] = frames[i]
      BY <1>1, <2>1
    <3> QED
      BY <1>1, <1>5, <2>1, <3>1 DEF ForksIn
  <2>2. CASE i > Len(frames)
    BY <1>1, <1>2, <2>2
  <2> QED
    BY <1>3, <2>1, <2>2
<1> QED
  BY <1>4, <1>5 DEF ForksIn

\* The catalogs of the log before the append stay sound,
LEMMA SoundBefore ==
  ASSUME TInv, NEW new, NEW l, Extended(l, new), NEW n \in 0 .. Len(frames)
  PROVE  SoundAt(l, n)
<1> DEFINE cat == Rebuild(SubSeq(frames, 1, n))
<1>1. /\ l \in Seq(Frame) /\ Len(l) = Len(frames) + Len(new) /\ Len(new) \in Nat
      /\ frames \in Seq(Frame) /\ Len(frames) \in Nat
      /\ \A i \in 1 .. Len(frames) : l[i] = frames[i]
  BY Joined DEF TInv, Typed
<1>2. n <= Len(l) /\ \A i \in 1 .. n : i \in 1 .. Len(frames) /\ frames[i] = l[i]
  BY <1>1
<1>3. SubSeq(frames, 1, n) = SubSeq(l, 1, n)
  BY <1>1, <1>2, PrefixOfLonger
<1>4. SoundAt(frames, n) /\ Typed /\ FramesOrdered
  BY DEF TInv, CatalogsSound
<1>5. /\ IsCatalog(cat) /\ ForksIn(frames, cat)
      /\ \A b \in DOMAIN cat : cat[b].fork <= HeadOf(frames, n)
      /\ \A i \in 1 .. n : frames[i].kind = "event" => frames[i].branch \in DOMAIN cat
  BY <1>4 DEF SoundAt
<1> HIDE DEF cat
<1>6. HeadOf(l, n) = HeadOf(frames, n)
  <2>1. n # 0 => n \in 1 .. n
    OBVIOUS
  <2> QED
    BY <1>2, <2>1 DEF HeadOf
<1>7. HeadOf(frames, n) \in Nat /\ HeadOf(frames, n) <= LogHead /\ LogHead \in Nat
  <2>1. Len(frames) \in 0 .. Len(frames) /\ n <= Len(frames)
    BY <1>1
  <2>2. HeadAt(n) \in Nat /\ HeadAt(n) <= HeadAt(Len(frames)) /\ HeadAt(Len(frames)) \in Nat
    BY <1>4, <2>1, HeadParts
  <2> QED
    BY <1>4, <2>2, HeadIs DEF HeadAt
<1>8. \A b \in DOMAIN cat : cat[b].fork \in Nat
  BY <1>5, CatalogPath
<1>9. \A b \in DOMAIN cat : cat[b].fork <= LogHead
  BY <1>5, <1>7, <1>8
<1>10. ForksIn(l, cat)
  BY <1>5, <1>8, <1>9, ForksAppended
<1>11. \A i \in 1 .. n : l[i].kind = "event" => l[i].branch \in DOMAIN cat
  BY <1>2, <1>5
<1>12. \A b \in DOMAIN cat : cat[b].fork <= HeadOf(l, n)
  BY <1>5, <1>6
<1>13. cat = Rebuild(SubSeq(l, 1, n))
  BY <1>3 DEF cat
<1> QED
  BY <1>5, <1>10, <1>11, <1>12, <1>13 DEF SoundAt

\* and a catalog that knows more is sound after it.
LEMMA SoundAfter ==
  ASSUME TInv, NEW new, NEW l, Extended(l, new), NEW n \in 1 .. Len(l), n > Len(frames),
         NEW cat, cat = Rebuild(SubSeq(l, 1, n)), IsCatalog(cat), ForksIn(frames, cat),
         \A b \in DOMAIN cat : cat[b].fork <= LogHead,
         DOMAIN Rebuild(frames) \subseteq DOMAIN cat,
         \A i \in DOMAIN new : new[i].kind = "event" => new[i].branch \in DOMAIN cat
  PROVE  SoundAt(l, n)
<1>1. /\ Len(l) = Len(frames) + Len(new) /\ Len(new) \in Nat /\ Len(frames) \in Nat
      /\ DOMAIN new = 1 .. Len(new)
      /\ \A i \in 1 .. Len(frames) : l[i] = frames[i]
      /\ \A i \in 1 .. Len(l) : i > Len(frames) =>
            i - Len(frames) \in 1 .. Len(new) /\ l[i] = new[i - Len(frames)]
      /\ \A i \in 1 .. Len(l) : l[i].pos \in Nat
  BY Joined
<1>2. /\ LogHead \in Nat
      /\ \A i \in 1 .. Len(l) : i > Len(frames) => LogHead <= l[i].pos
  BY JoinedOrdered
<1>3. \A b \in DOMAIN cat : cat[b].fork \in Nat
  BY CatalogPath
<1>4. ForksIn(l, cat)
  BY <1>3, ForksAppended
<1>5. LogHead <= HeadOf(l, n) /\ HeadOf(l, n) \in Nat
  <2>1. LogHead <= l[n].pos /\ l[n].pos \in Nat /\ n # 0
    BY <1>1, <1>2
  <2> QED
    BY <1>2, <2>1 DEF HeadOf
<1>6. \A b \in DOMAIN cat : cat[b].fork <= HeadOf(l, n)
  BY <1>2, <1>3, <1>5
<1>7. ASSUME NEW i \in 1 .. n, l[i].kind = "event" PROVE l[i].branch \in DOMAIN cat
  <2>1. i \in 1 .. Len(l)
    BY <1>1
  <2>2. CASE i > Len(frames)
    <3>1. i - Len(frames) \in DOMAIN new /\ l[i] = new[i - Len(frames)]
      BY <1>1, <2>1, <2>2
    <3> QED
      BY <1>7, <3>1
  <2>3. CASE ~(i > Len(frames))
    <3>1. i \in 1 .. Len(frames) /\ l[i] = frames[i]
      BY <1>1, <2>3
    <3>2. frames[i].branch \in DOMAIN Rebuild(frames)
      BY <1>7, <3>1, LogCatalog DEF IsEvent
    <3> QED
      BY <3>1, <3>2
  <2> QED
    BY <2>2, <2>3
<1> QED
  BY <1>4, <1>6, <1>7 DEF SoundAt

----------------------------------------------------------------------------
(* Pages across steps *)

\* What a reader's pages have brought, of a log and a catalog.
WantedIn(l, cat, r) ==
    {i \in DOMAIN l :
        /\ l[i].kind = "event"
        /\ l[i].pos >= r.from /\ l[i].pos < r.continuation
        /\ Seen(l[i], cat, r.branch)
        /\ r.stream = {} \/ l[i].stream \in r.stream}

PositionsIn(l, w) == [k \in DOMAIN w |-> l[w[k]].pos]

LEMMA PagesAre ==
  PagesExact <=>
     (reader.open => pages = PositionsIn(frames, Ascending(WantedIn(frames, branches, reader))))
<1> DEFINE wanted == {i \in Timeline(reader.branch, reader.from, reader.continuation) : Requested(i)}
<1>1. wanted = WantedIn(frames, branches, reader)
  <2>1. \A i : OnTimeline(i, reader.branch) <=> Seen(frames[i], branches, reader.branch)
    BY TimelineIs
  <2> QED
    BY <2>1 DEF WantedIn, Timeline, EventsIn, IsEvent, Requested
<1> HIDE DEF wanted
<1>2. PagesExact <=> (reader.open => pages = PositionsOf(Ascending(wanted)))
  BY Zenon DEF PagesExact, wanted
<1>3. PositionsOf(Ascending(wanted)) = PositionsIn(frames, Ascending(wanted))
  BY DEF PositionsOf, PositionsIn
<1> QED
  BY <1>1, <1>2, <1>3

LEMMA PagesAreNext ==
  PagesExact' <=>
     (reader'.open => pages' = PositionsIn(frames', Ascending(WantedIn(frames', branches', reader'))))
<1>1. (PagesExact <=>
     (reader.open => pages = PositionsIn(frames, Ascending(WantedIn(frames, branches, reader)))))'
  BY PagesAre, PTL
<1> QED
  BY <1>1

\* What a reader has brought does not depend on later frames and branches.
LEMMA PagesKept ==
  ASSUME NEW l, NEW m, NEW n \in Nat, NEW k \in Nat, DOMAIN l = 1 .. n, DOMAIN m = 1 .. k, n <= k,
         \A i \in 1 .. n : m[i] = l[i],
         NEW cat, NEW new, NEW r,
         \A i \in 1 .. k : m[i].pos >= r.from /\ m[i].pos < r.continuation => i <= n,
         \A i \in 1 .. n : Seen(l[i], cat, r.branch) <=> Seen(l[i], new, r.branch)
  PROVE  PositionsIn(m, Ascending(WantedIn(m, new, r))) = PositionsIn(l, Ascending(WantedIn(l, cat, r)))
<1>1. WantedIn(m, new, r) = WantedIn(l, cat, r)
  <2>1. ASSUME NEW i \in 1 .. n PROVE i \in WantedIn(m, new, r) <=> i \in WantedIn(l, cat, r)
    <3>1. i \in 1 .. k /\ m[i] = l[i]
      OBVIOUS
    <3> QED
      BY <3>1 DEF WantedIn
  <2>2. ASSUME NEW i \in WantedIn(m, new, r) PROVE i \in 1 .. n
    <3>1. i \in 1 .. k /\ m[i].pos >= r.from /\ m[i].pos < r.continuation
      BY DEF WantedIn
    <3> QED
      BY <3>1
  <2>3. ASSUME NEW i \in WantedIn(l, cat, r) PROVE i \in 1 .. n
    BY DEF WantedIn
  <2> QED
    BY <2>1, <2>2, <2>3
<1> DEFINE W == WantedIn(l, cat, r)
           w == Ascending(W)
<1>2. W \in SUBSET (1 .. n)
  BY DEF WantedIn
<1>3. w \in [1 .. Cardinality(W) -> W]
  BY <1>2, AscendingIs DEF Increasing
<1> HIDE DEF W, w
<1>4. \A j \in DOMAIN w : w[j] \in 1 .. n
  BY <1>2, <1>3
<1>5. \A j \in DOMAIN w : m[w[j]].pos = l[w[j]].pos
  BY <1>4
<1>6. PositionsIn(m, w) = PositionsIn(l, w)
  BY <1>5 DEF PositionsIn
<1> QED
  BY <1>1, <1>6 DEF w, W

----------------------------------------------------------------------------
(* Each action keeps the invariant *)

LEMMA AppendKeeps ==
  ASSUME TInv, NEW new, Fits(new), AppendFrames(new), phase = "idle",
         phase' \in {"idle", "committing"}, UNCHANGED <<branches, reader, pages>>, InMemory',
         \A n \in 1 .. Len(frames') : n > Len(frames) => SoundAt(frames', n)
  PROVE  TInv'
<1>1. /\ Extended(frames', new)
      /\ frames' \in Seq(Frame) /\ synced' \in 0 .. Len(frames')
      /\ segments' \in Seq([base : Nat, first : Nat \ {0}]) /\ segments' # <<>>
      /\ FramesOrdered' /\ BatchOnOneBranch' /\ SegmentsLaid' /\ LogHead <= LogHead'
  BY AppendLaid
<1>2. Typed'
  <2>1. reader \in Reader
    BY DEF TInv, Typed
  <2> QED
    BY <1>1, <2>1 DEF Typed
<1>3. /\ Len(frames) \in Nat /\ Len(frames') \in Nat /\ Len(frames) <= Len(frames')
      /\ DOMAIN frames = 1 .. Len(frames) /\ DOMAIN frames' = 1 .. Len(frames')
      /\ \A i \in 1 .. Len(frames) : frames'[i] = frames[i]
      /\ \A i \in 1 .. Len(frames') : frames'[i].pos \in Nat
  <2>1. DOMAIN frames = 1 .. Len(frames)
    BY FramesTyped DEF TInv
  <2>2. /\ Len(frames') = Len(frames) + Len(new) /\ DOMAIN frames' = 1 .. Len(frames')
        /\ Len(frames) \in Nat /\ Len(new) \in Nat \ {0}
        /\ \A i \in 1 .. Len(frames) : frames'[i] = frames[i]
        /\ \A i \in 1 .. Len(frames') : frames'[i].pos \in Nat
    BY <1>1, Joined
  <2> QED
    BY <2>1, <2>2
<1>4. CatalogsSound'
  <2> SUFFICES ASSUME NEW n \in 0 .. Len(frames') PROVE SoundAt(frames', n)
    BY DEF CatalogsSound
  <2>1. CASE n <= Len(frames)
    <3>1. n \in 0 .. Len(frames)
      BY <1>3, <2>1
    <3> QED
      BY <1>1, <3>1, SoundBefore
  <2>2. CASE ~(n <= Len(frames))
    <3>1. n \in 1 .. Len(frames') /\ n > Len(frames)
      BY <1>3, <2>2
    <3> QED
      BY <3>1
  <2> QED
    BY <2>1, <2>2
<1>5. LogHead \in Nat /\ \A i \in 1 .. Len(frames') : i > Len(frames) => LogHead <= frames'[i].pos
  BY <1>1, JoinedOrdered
<1>6. ReaderSane'
  <2> SUFFICES ASSUME reader'.open
               PROVE  /\ phase' # "down"
                      /\ reader'.branch \in DOMAIN branches'
                      /\ reader'.until <= LogHead'
                      /\ reader'.from <= reader'.continuation
                      /\ reader'.continuation <= reader'.until \/ reader'.continuation = reader'.from
    BY DEF ReaderSane
  <2>1. reader.open /\ reader' = reader
    OBVIOUS
  <2>2. /\ reader.branch \in DOMAIN branches /\ reader.until <= LogHead
        /\ reader.from <= reader.continuation
        /\ reader.continuation <= reader.until \/ reader.continuation = reader.from
    BY <2>1 DEF TInv, ReaderSane
  <2>3. LogHead' \in Nat
    <3>1. (Typed /\ FramesOrdered => LogHead \in Nat)'
      BY HeadTyped, PTL
    <3> QED
      BY <1>1, <1>2, <3>1
  <2>4. reader.until \in Nat
    BY <2>1, ReaderTyped
  <2>5. reader.until <= LogHead'
    BY <1>1, <1>5, <2>2, <2>3, <2>4
  <2> QED
    BY <2>1, <2>2, <2>5
<1>7. PagesExact'
  <2>1. CASE ~reader.open
    BY <2>1, PagesAreNext
  <2>2. CASE reader.open
    <3>1. /\ reader.from \in Nat /\ reader.until \in Nat /\ reader.continuation \in Nat
          /\ reader.until <= LogHead
      BY <2>2, ReaderTyped
    <3>2. reader.continuation <= reader.until \/ reader.continuation = reader.from
      BY <2>2 DEF TInv, ReaderSane
    <3>3. ASSUME NEW i \in 1 .. Len(frames'),
                 frames'[i].pos >= reader.from, frames'[i].pos < reader.continuation
          PROVE  i <= Len(frames)
      BY <1>3, <1>5, <3>1, <3>2, <3>3
    <3>4. PositionsIn(frames', Ascending(WantedIn(frames', branches, reader)))
             = PositionsIn(frames, Ascending(WantedIn(frames, branches, reader)))
      <4> DEFINE l == frames
                 m == frames'
                 n == Len(frames)
                 k == Len(frames')
                 r == reader
                 cat == branches
      <4>1. /\ n \in Nat /\ k \in Nat /\ n <= k /\ DOMAIN l = 1 .. n /\ DOMAIN m = 1 .. k
            /\ \A i \in 1 .. n : m[i] = l[i]
        BY <1>3
      <4>2. \A i \in 1 .. k : m[i].pos >= r.from /\ m[i].pos < r.continuation => i <= n
        BY <3>3
      <4> HIDE DEF l, m, n, k, r, cat
      <4>3. PositionsIn(m, Ascending(WantedIn(m, cat, r))) = PositionsIn(l, Ascending(WantedIn(l, cat, r)))
        BY <4>1, <4>2, PagesKept
      <4> QED
        BY <4>3 DEF l, m, r, cat
    <3>5. pages = PositionsIn(frames, Ascending(WantedIn(frames, branches, reader)))
      BY <2>2, PagesAre DEF TInv
    <3> QED
      BY <3>4, <3>5, PagesAreNext
  <2> QED
    BY <2>1, <2>2
<1> QED
  BY <1>1, <1>2, <1>4, <1>6, <1>7 DEF TInv

LEMMA RebuildNext ==
  ASSUME NEW l \in Seq(Frame), NEW n \in 0 .. Len(l), n < Len(l)
  PROVE  Rebuild(SubSeq(l, 1, n + 1)) = Registered(Rebuild(SubSeq(l, 1, n)), l[n + 1])
<1> DEFINE s == SubSeq(l, 1, n)
           t == SubSeq(l, 1, n + 1)
<1>1. n \in Nat /\ n + 1 \in 0 .. Len(l)
  OBVIOUS
<1>2. Len(s) = n /\ \A i \in 1 .. n : s[i] = l[i]
  BY PrefixOf
<1>3. Len(t) = n + 1 /\ \A i \in 1 .. n + 1 : t[i] = l[i]
  BY <1>1, PrefixOf
<1> HIDE DEF s, t
<1>4. /\ Len(s) \in Nat /\ Len(t) = Len(s) + 1
      /\ \A i \in 1 .. Len(s) : s[i] = t[i]
      /\ t[Len(t)] = l[n + 1]
  <2>1. \A i \in 1 .. n : i \in 1 .. n + 1
    OBVIOUS
  <2>2. n + 1 \in 1 .. n + 1
    BY <1>1
  <2> QED
    BY <1>1, <1>2, <1>3, <2>1, <2>2
<1>5. Rebuild(t) = Registered(Rebuild(s), t[Len(t)])
  BY <1>4, RebuildStep
<1> QED
  BY <1>4, <1>5 DEF s, t

\* Events do not change the catalog.
LEMMA EventsRegisterNothing ==
  ASSUME TInv, NEW new, NEW l, Extended(l, new), \A i \in DOMAIN new : new[i].kind = "event"
  PROVE  \A n \in 0 .. Len(l) : n >= Len(frames) => Rebuild(SubSeq(l, 1, n)) = Rebuild(frames)
<1>1. /\ l \in Seq(Frame) /\ Len(l) = Len(frames) + Len(new) /\ Len(l) \in Nat
      /\ Len(frames) \in Nat /\ Len(new) \in Nat /\ DOMAIN new = 1 .. Len(new)
      /\ \A i \in 1 .. Len(frames) : l[i] = frames[i]
      /\ \A i \in 1 .. Len(l) : i > Len(frames) =>
            i - Len(frames) \in 1 .. Len(new) /\ l[i] = new[i - Len(frames)]
  <2>1. /\ l \in Seq(Frame) /\ Len(l) = Len(frames) + Len(new)
        /\ Len(frames) \in Nat /\ Len(new) \in Nat \ {0} /\ DOMAIN new = 1 .. Len(new)
        /\ \A i \in 1 .. Len(frames) : l[i] = frames[i]
        /\ \A i \in 1 .. Len(l) : i > Len(frames) =>
              i - Len(frames) \in 1 .. Len(new) /\ l[i] = new[i - Len(frames)]
    BY Joined
  <2> QED
    BY <2>1
<1> DEFINE S == {n \in 0 .. Len(l) : n >= Len(frames) => Rebuild(SubSeq(l, 1, n)) = Rebuild(frames)}
<1>2. Len(frames) \in S
  <2>1. SubSeq(frames, 1, Len(frames)) = frames /\ frames \in Seq(Frame)
    BY LogCatalog DEF TInv, Typed
  <2>2. Len(frames) \in 0 .. Len(frames) /\ Len(frames) <= Len(l) /\ Len(frames) \in 0 .. Len(l)
    BY <1>1
  <2>3. SubSeq(l, 1, Len(frames)) = SubSeq(frames, 1, Len(frames))
    BY <1>1, <2>1, <2>2, PrefixOfLonger
  <2> QED
    BY <2>1, <2>2, <2>3
<1>3. 0 \in S
  BY <1>1, <1>2
<1>4. ASSUME NEW n \in 0 .. Len(l), n < Len(l), n \in S PROVE n + 1 \in S
  <2>1. n + 1 \in 0 .. Len(l) /\ n + 1 \in 1 .. Len(l)
    BY <1>1, <1>4
  <2>2. CASE n + 1 < Len(frames)
    <3>1. ~(n + 1 >= Len(frames))
      BY <1>1, <2>2
    <3> QED
      BY <2>1, <3>1
  <2>3. CASE n + 1 = Len(frames)
    BY <1>2, <2>3
  <2>4. CASE n + 1 > Len(frames)
    <3>1. n >= Len(frames) /\ Rebuild(SubSeq(l, 1, n)) = Rebuild(frames)
      BY <1>1, <1>4, <2>4
    <3>2. l[n + 1].kind = "event"
      BY <1>1, <2>1, <2>4
    <3>3. Registered(Rebuild(frames), l[n + 1]) = Rebuild(frames)
      BY <3>2 DEF Registered
    <3>4. Rebuild(SubSeq(l, 1, n + 1)) = Registered(Rebuild(SubSeq(l, 1, n)), l[n + 1])
      BY <1>1, <1>4, RebuildNext
    <3> QED
      BY <2>1, <3>1, <3>3, <3>4
  <2> QED
    BY <1>1, <2>1, <2>2, <2>3, <2>4
<1> HIDE DEF S
<1>5. \A n \in 0 .. Len(l) : n \in S
  BY <1>1, <1>3, <1>4, Climb
<1> QED
  BY <1>5 DEF S

\* A single system frame.
LEMMA SystemFrameRegistered ==
  ASSUME TInv, NEW f, NEW l, Extended(l, <<f>>)
  PROVE  /\ Len(l) = Len(frames) + 1 /\ Len(frames) \in Nat
         /\ Rebuild(l) = Registered(Rebuild(frames), f)
         /\ SubSeq(l, 1, Len(l)) = l
<1>1. /\ l \in Seq(Frame) /\ Len(l) = Len(frames) + 1 /\ Len(frames) \in Nat
      /\ \A i \in 1 .. Len(frames) : l[i] = frames[i]
      /\ \A i \in 1 .. Len(l) : i > Len(frames) => l[i] = <<f>>[i - Len(frames)]
  <2>1. Len(<<f>>) = 1
    OBVIOUS
  <2>2. /\ l \in Seq(Frame) /\ Len(l) = Len(frames) + Len(<<f>>) /\ Len(frames) \in Nat
        /\ \A i \in 1 .. Len(frames) : l[i] = frames[i]
        /\ \A i \in 1 .. Len(l) : i > Len(frames) => l[i] = <<f>>[i - Len(frames)]
    BY Joined
  <2> QED
    BY <2>1, <2>2
<1>2. l[Len(l)] = f
  <2>1. Len(l) \in 1 .. Len(l) /\ Len(l) > Len(frames) /\ Len(l) - Len(frames) = 1
    BY <1>1
  <2>2. l[Len(l)] = <<f>>[1]
    BY <1>1, <2>1
  <2> QED
    BY <2>2
<1>3. Rebuild(l) = Registered(Rebuild(frames), l[Len(l)])
  <2>1. \A i \in 1 .. Len(frames) : frames[i] = l[i]
    BY <1>1
  <2> QED
    BY <1>1, <2>1, RebuildStep
<1> QED
  BY <1>1, <1>2, <1>3, PrefixesOf

LEMMA AppendBatchKeeps ==
  ASSUME TInv, NEW b \in Branches, NEW kind \in BatchKinds, AppendBatch(b, kind)
  PROVE  TInv'
<1> DEFINE new == EventFrames(b, kind)
           l == frames'
<1>1. /\ phase = "idle" /\ b \in DOMAIN branches /\ AppendFrames(new)
      /\ UNCHANGED <<branches, phase, updated, reader, pages>>
  BY DEF AppendBatch
<1>2. kind.stream \in Streams /\ kind.time \in Int /\ kind.size \in Nat /\ kind.count \in Nat \ {0}
  BY TimelinesAssumption DEF TimelinesAssumption
<1>3. LogHead \in Nat /\ Len(frames) \in Nat
  BY HeadTyped, LogCatalog DEF TInv
<1>4. /\ new = [i \in 1 .. kind.count |-> new[i]] /\ DOMAIN new = 1 .. kind.count
      /\ \A i \in 1 .. kind.count :
            new[i] = [kind |-> "event", pos |-> LogHead + i - 1, batch |-> NextBatch, branch |-> b,
                      stream |-> kind.stream, time |-> kind.time, size |-> kind.size]
  BY DEF EventFrames
<1> HIDE DEF new
<1>5. \A i \in 1 .. kind.count : new[i].kind = "event" /\ new[i].branch = b
                                 /\ new[i].batch = NextBatch /\ new[i].pos = LogHead + i - 1
  <2> SUFFICES ASSUME NEW i \in 1 .. kind.count
               PROVE  /\ new[i].kind = "event" /\ new[i].branch = b
                      /\ new[i].batch = NextBatch /\ new[i].pos = LogHead + i - 1
    OBVIOUS
  <2>1. new[i] = [kind |-> "event", pos |-> LogHead + i - 1, batch |-> NextBatch, branch |-> b,
                  stream |-> kind.stream, time |-> kind.time, size |-> kind.size]
    BY <1>4
  <2> QED
    BY <2>1
<1>6. \A i \in 1 .. kind.count : new[i] \in Frame
  <2>1. NextBatch \in Nat
    BY <1>3 DEF NextBatch
  <2>2. \A i \in 1 .. kind.count : LogHead + i - 1 \in Nat
    BY <1>2, <1>3
  <2>3. ASSUME NEW i \in 1 .. kind.count PROVE new[i] \in Event
    <3>1. new[i] = [kind |-> "event", pos |-> LogHead + i - 1, batch |-> NextBatch, branch |-> b,
                    stream |-> kind.stream, time |-> kind.time, size |-> kind.size]
      BY <1>4
    <3>2. LogHead + i - 1 \in Nat
      BY <2>2
    <3> QED
      BY <1>2, <2>1, <3>1, <3>2 DEF Event
  <2> QED
    BY <2>3 DEF Frame
<1>7. new \in Seq(Frame) /\ new # <<>>
  <2>1. new \in [1 .. kind.count -> Frame]
    BY <1>4, <1>6
  <2>2. kind.count \in Nat /\ kind.count # 0
    BY <1>2
  <2>3. new \in Seq(Frame)
    BY <2>1, <2>2
  <2>4. Len(new) = kind.count
    BY <2>1, <2>2
  <2> QED
    BY <2>2, <2>3, <2>4
<1>8. Fits(new)
  <2>1. \A i \in 1 .. kind.count : LogHead <= new[i].pos
    BY <1>2, <1>3, <1>5
  <2>2. \A i, j \in 1 .. kind.count : i < j => new[i].pos < new[j].pos /\ new[i].pos <= new[j].pos
    BY <1>2, <1>3, <1>5
  <2> QED
    BY <1>4, <1>5, <1>7, <2>1, <2>2 DEF Fits
<1>9. Extended(l, new)
  BY <1>1, <1>8, AppendLaid
<1>10. \A n \in 0 .. Len(l) : n >= Len(frames) => Rebuild(SubSeq(l, 1, n)) = Rebuild(frames)
  BY <1>4, <1>5, <1>9, EventsRegisterNothing
<1>11. branches = Rebuild(frames)
  BY <1>1 DEF TInv, InMemory
<1>12. /\ l \in Seq(Frame) /\ Len(l) \in Nat /\ Len(frames) <= Len(l)
  <2>1. l \in Seq(Frame) /\ Len(l) = Len(frames) + Len(new) /\ Len(new) \in Nat \ {0}
    BY <1>9, Joined
  <2> QED
    BY <1>3, <2>1
<1>13. Rebuild(l) = Rebuild(frames)
  <2>1. SubSeq(l, 1, Len(l)) = l
    BY <1>12, PrefixesOf
  <2>2. Len(l) \in 0 .. Len(l) /\ Len(l) >= Len(frames)
    BY <1>3, <1>12
  <2> HIDE DEF l
  <2>3. Rebuild(SubSeq(l, 1, Len(l))) = Rebuild(frames)
    BY <1>10, <2>2
  <2> QED
    BY <2>1, <2>3
<1>14. InMemory'
  BY <1>1, <1>11, <1>13 DEF InMemory
<1>15. ASSUME NEW n \in 1 .. Len(l), n > Len(frames) PROVE SoundAt(l, n)
  <2> DEFINE cat == Rebuild(frames)
  <2>1. IsCatalog(cat) /\ ForksIn(frames, cat) /\ \A x \in DOMAIN cat : cat[x].fork <= LogHead
    BY LogCatalog
  <2>2. cat = Rebuild(SubSeq(l, 1, n))
    <3>1. n \in 0 .. Len(l) /\ n >= Len(frames)
      BY <1>3, <1>15
    <3> QED
      BY <1>10, <3>1
  <2>3. \A i \in DOMAIN new : new[i].branch \in DOMAIN cat
    BY <1>1, <1>4, <1>5, <1>11
  <2> HIDE DEF l
  <2> QED
    BY <1>9, <1>15, <2>1, <2>2, <2>3, SoundAfter
<1> QED
  BY <1>1, <1>8, <1>14, <1>15, AppendKeeps

\* What a fork or an archive does to the log and the catalog.
LEMMA SystemFrameKeeps ==
  ASSUME TInv, NEW f \in Frame, f.kind # "event", f.pos = LogHead, f.batch = NextBatch,
         AppendFrames(<<f>>), phase = "idle", phase' = "committing",
         UNCHANGED <<branches, reader, pages>>,
         updated' = Registered(branches, f), IsCatalog(updated'), Extends(updated', branches),
         ForksIn(frames, updated'), \A x \in DOMAIN updated' : updated'[x].fork <= LogHead
  PROVE  TInv'
<1> DEFINE l == frames'
           new == <<f>>
<1>1. new \in Seq(Frame) /\ new # <<>> /\ DOMAIN new = {1} /\ new[1] = f /\ LogHead \in Nat
  BY HeadTyped DEF TInv
<1> HIDE DEF new
<1>2. Fits(new)
  <2>1. \A i, j \in DOMAIN new : ~(i < j)
    BY <1>1
  <2>2. \A i \in DOMAIN new : new[i] = f
    BY <1>1
  <2> QED
    BY <1>1, <2>1, <2>2 DEF Fits
<1>3. Extended(l, new)
  BY <1>2, AppendLaid DEF new
<1>4. branches = Rebuild(frames)
  BY DEF TInv, InMemory
<1>5. /\ Len(l) = Len(frames) + 1 /\ Len(frames) \in Nat
      /\ Rebuild(l) = updated' /\ SubSeq(l, 1, Len(l)) = l
  BY <1>3, <1>4, SystemFrameRegistered DEF new
<1>6. IsCatalog(branches) /\ ForksIn(frames, branches)
      /\ \A x \in DOMAIN branches : branches[x].fork \in Nat /\ branches[x].fork <= LogHead
  BY <1>4, LogCatalog
<1>7. ForksIn(l, branches)
  BY <1>3, <1>6, ForksAppended
<1>8. InMemory'
  BY <1>5, <1>6, <1>7 DEF InMemory, ForksSound
<1>9. ASSUME NEW n \in 1 .. Len(l), n > Len(frames) PROVE SoundAt(l, n)
  <2> DEFINE cat == updated'
  <2>1. n = Len(l)
    BY <1>5, <1>9
  <2>2. cat = Rebuild(SubSeq(l, 1, n))
    BY <1>5, <2>1
  <2>3. DOMAIN Rebuild(frames) \subseteq DOMAIN cat
    BY <1>4 DEF Extends
  <2>4. \A i \in DOMAIN new : new[i].kind = "event" => new[i].branch \in DOMAIN cat
    BY <1>1
  <2>5. IsCatalog(cat) /\ ForksIn(frames, cat) /\ \A x \in DOMAIN cat : cat[x].fork <= LogHead
    OBVIOUS
  <2> HIDE DEF l, cat
  <2> QED
    BY <1>3, <1>9, <2>2, <2>3, <2>4, <2>5, SoundAfter
<1> QED
  BY <1>2, <1>8, <1>9, AppendKeeps DEF new

\* A batch boundary has no batch on both sides.
LEMMA BoundaryCuts ==
  ASSUME TInv, NEW at \in Nat, IsBatchBoundary(at),
         NEW i \in 1 .. Len(frames), NEW j \in 1 .. Len(frames), IsEvent(i), IsEvent(j),
         frames[i].pos < at, at <= frames[j].pos
  PROVE  frames[i].batch # frames[j].batch
<1>1. /\ Typed /\ FramesOrdered /\ Len(frames) \in Nat /\ DOMAIN frames = 1 .. Len(frames)
      /\ \A x \in 1 .. Len(frames) : frames[x].pos \in Nat /\ frames[x].batch \in Nat
  BY FramesTyped DEF TInv
<1>2. \A x, y \in 1 .. Len(frames) : x < y =>
         /\ frames[x].pos <= frames[y].pos /\ frames[x].batch <= frames[y].batch
         /\ IsEvent(x) => frames[x].pos < frames[y].pos
  BY <1>1 DEF FramesOrdered
<1>3. at # 0
  BY <1>1
<1>4. at # LogHead
  <2>1. Len(frames) \in 0 .. Len(frames) /\ j <= Len(frames)
    BY <1>1
  <2>2. frames[j].pos < HeadAt(Len(frames)) /\ HeadAt(Len(frames)) \in Nat
    BY <1>1, <2>1, HeadParts
  <2> QED
    BY <1>1, <2>2, HeadIs
<1>5. PICK x \in EventsIn(DOMAIN frames), y \in EventsIn(DOMAIN frames) :
         frames[x].pos = at - 1 /\ frames[y].pos = at /\ frames[x].batch # frames[y].batch
  BY <1>3, <1>4 DEF IsBatchBoundary
<1>6. x \in 1 .. Len(frames) /\ y \in 1 .. Len(frames) /\ IsEvent(x) /\ IsEvent(y)
  BY <1>1, <1>5 DEF EventsIn
<1>7. i <= x
  BY <1>1, <1>2, <1>5, <1>6
<1>8. y <= j
  BY <1>1, <1>2, <1>5, <1>6
<1>9. x < y
  BY <1>1, <1>2, <1>5, <1>6
<1>10. frames[i].batch <= frames[x].batch /\ frames[y].batch <= frames[j].batch /\ frames[x].batch < frames[y].batch
  <2>1. frames[i].batch <= frames[x].batch
    <3>1. i = x \/ i < x
      BY <1>6, <1>7
    <3> QED
      BY <1>1, <1>2, <1>6, <3>1
  <2>2. frames[y].batch <= frames[j].batch
    <3>1. y = j \/ y < j
      BY <1>6, <1>8
    <3> QED
      BY <1>1, <1>2, <1>6, <3>1
  <2>3. frames[x].batch <= frames[y].batch
    BY <1>2, <1>6, <1>9
  <2> QED
    BY <1>1, <1>5, <1>6, <2>1, <2>2, <2>3
<1>11. frames[i].batch \in Nat /\ frames[j].batch \in Nat /\ frames[x].batch \in Nat /\ frames[y].batch \in Nat
  BY <1>1, <1>6
<1> QED
  BY <1>10, <1>11

LEMMA ForkBranchKeeps ==
  ASSUME TInv, NEW parent \in Branches, NEW at \in 0 .. MaxPosition, NEW b \in Names,
         ForkBranch(parent, at, b)
  PROVE  TInv'
<1> DEFINE f == [kind |-> "created", pos |-> LogHead, batch |-> NextBatch,
                 branch |-> b, parent |-> parent, fork |-> at]
           new == Inserted(branches, b, parent, at)
<1>1. /\ phase = "idle" /\ phase' = "committing" /\ at <= LogHead /\ IsBatchBoundary(at)
      /\ Insertable(branches, b, parent)
      /\ AppendFrames(<<f>>) /\ updated' = new /\ UNCHANGED <<branches, reader, pages>>
  BY DEF ForkBranch
<1>2. LogHead \in Nat /\ Len(frames) \in Nat /\ at \in Nat /\ NextBatch \in Nat
  BY HeadTyped, LogCatalog, TimelinesAssumption DEF TInv, NextBatch, TimelinesAssumption
<1>3. f \in Frame /\ f.kind # "event" /\ f.pos = LogHead /\ f.batch = NextBatch
  BY <1>2 DEF Frame, Created
<1>4. Registered(branches, f) = new
  BY DEF Registered
<1>5. /\ branches = Rebuild(frames) /\ IsCatalog(branches) /\ ForksIn(frames, branches)
      /\ \A x \in DOMAIN branches : branches[x].fork \in Nat /\ branches[x].fork <= LogHead
      /\ \A i \in 1 .. Len(frames) : IsEvent(i) => frames[i].branch \in DOMAIN branches
  BY <1>1, LogCatalog DEF TInv, InMemory
<1>6. b \in Branches /\ b \notin DOMAIN branches /\ parent \in DOMAIN branches
  BY <1>1 DEF Branches, Insertable
<1>7. IsCatalog(new) /\ Extends(new, branches)
  BY <1>2, <1>5, <1>6, InsertedSound
<1>8. /\ DOMAIN new = DOMAIN branches \cup {b}
      /\ new[b].fork = at
      /\ \A x \in DOMAIN branches : new[x] = branches[x]
  BY <1>6 DEF Inserted
<1> HIDE DEF f, new
<1>9. \A x \in DOMAIN new : new[x].fork <= LogHead
  BY <1>1, <1>5, <1>8
<1>10. ForksIn(frames, new)
  <2>0. DOMAIN frames = 1 .. Len(frames)
    BY FramesTyped DEF TInv
  <2>1. ASSUME NEW i \in DOMAIN frames, NEW j \in DOMAIN frames,
               frames[i].kind = "event", frames[i].pos < at, frames[j].kind = "event", at <= frames[j].pos
        PROVE  frames[i].batch # frames[j].batch
    BY <1>1, <1>2, <2>0, <2>1, BoundaryCuts DEF IsEvent
  <2>2. ASSUME NEW i \in DOMAIN frames, frames[i].kind = "event" PROVE frames[i].branch # b
    BY <1>5, <1>6, <2>0, <2>2 DEF IsEvent
  <2>3. ASSUME NEW x \in DOMAIN new
        PROVE  /\ \A i, j \in DOMAIN frames :
                     /\ frames[i].kind = "event" /\ frames[i].pos < new[x].fork
                     /\ frames[j].kind = "event" /\ new[x].fork <= frames[j].pos
                     => frames[i].batch # frames[j].batch
               /\ \A i \in DOMAIN frames :
                     frames[i].kind = "event" /\ frames[i].branch = x => new[x].fork <= frames[i].pos
    <3>1. CASE x = b
      BY <1>8, <2>1, <2>2, <3>1
    <3>2. CASE x # b
      <4>1. x \in DOMAIN branches /\ new[x] = branches[x]
        BY <1>8, <3>2
      <4> QED
        BY <1>5, <4>1 DEF ForksIn
    <3> QED
      BY <3>1, <3>2
  <2> QED
    BY <2>3, Zenon DEF ForksIn
<1> QED
  BY <1>1, <1>3, <1>4, <1>7, <1>9, <1>10, SystemFrameKeeps

LEMMA ArchiveBranchKeeps ==
  ASSUME TInv, NEW b \in Names, ArchiveBranch(b)
  PROVE  TInv'
<1> DEFINE f == [kind |-> "archived", pos |-> LogHead, batch |-> NextBatch, branch |-> b]
           new == Archived(branches, b)
<1>1. /\ phase = "idle" /\ phase' = "committing" /\ b \in DOMAIN branches
      /\ AppendFrames(<<f>>) /\ updated' = new /\ UNCHANGED <<branches, reader, pages>>
  BY DEF ArchiveBranch
<1>2. LogHead \in Nat /\ Len(frames) \in Nat /\ NextBatch \in Nat
  BY HeadTyped, LogCatalog DEF TInv, NextBatch
<1>3. f \in Frame /\ f.kind # "event" /\ f.pos = LogHead /\ f.batch = NextBatch
  BY <1>2 DEF Frame, ArchivedFrame
<1>4. Registered(branches, f) = new
  BY DEF Registered
<1>5. /\ branches = Rebuild(frames) /\ IsCatalog(branches) /\ ForksIn(frames, branches)
      /\ \A x \in DOMAIN branches : branches[x].fork \in Nat /\ branches[x].fork <= LogHead
  BY <1>1, LogCatalog DEF TInv, InMemory
<1>6. IsCatalog(new) /\ DOMAIN new = DOMAIN branches /\ Extends(new, branches)
  BY <1>1, <1>5, ArchivedSound
<1> HIDE DEF f, new
<1>7. \A x \in DOMAIN new : new[x].fork = branches[x].fork
  BY <1>6 DEF Extends
<1>8. (\A x \in DOMAIN new : new[x].fork <= LogHead) /\ ForksIn(frames, new)
  BY <1>5, <1>6, <1>7 DEF ForksIn
<1> QED
  BY <1>1, <1>3, <1>4, <1>6, <1>8, SystemFrameKeeps

\* Where the frames stay, so does what is known of them.
LEMMA LogKept ==
  ASSUME TInv, UNCHANGED <<frames, segments>>, synced' \in synced .. Len(frames)
  PROVE  /\ FramesOrdered' /\ BatchOnOneBranch' /\ SegmentsLaid' /\ CatalogsSound'
         /\ LogHead' = LogHead
         /\ phase' \in {"down", "idle", "committing"} /\ reader' \in Reader => Typed'
<1>1. /\ Typed /\ FramesOrdered /\ BatchOnOneBranch /\ SegmentsLaid /\ CatalogsSound
      /\ synced \in 0 .. Len(frames) /\ Len(frames) \in Nat
  BY LogCatalog DEF TInv, Typed
<1>2. synced' \in 0 .. Len(frames) /\ synced <= synced'
  BY <1>1
<1>3. SegmentsLaid'
  <2>1. /\ segments[1].first = 1
        /\ \A g \in 1 .. Active :
              /\ segments[g].first \in Nat \ {0} /\ segments[g].first <= synced + 1
              /\ segments[g].base = HeadAt(segments[g].first - 1)
              /\ \A h \in 1 .. Active : g < h => segments[g].first <= segments[h].first
    <3>1. DOMAIN segments = 1 .. Active /\ \A g \in 1 .. Active : segments[g].first \in Nat \ {0}
      BY <1>1, SegmentsTyped
    <3> QED
      BY <1>1, <3>1 DEF SegmentsLaid
  <2>2. DOMAIN segments = 1 .. Active
    BY <1>1, SegmentsTyped
  <2>3. \A g \in 1 .. Active : segments[g].first <= synced' + 1
    BY <1>1, <1>2, <2>1
  <2> QED
    BY <2>1, <2>2, <2>3 DEF SegmentsLaid, HeadAt
<1>4. FramesOrdered' /\ BatchOnOneBranch' /\ CatalogsSound'
  BY <1>1 DEF FramesOrdered, BatchOnOneBranch, CatalogsSound, EventsIn, IsEvent
<1>5. LogHead' = LogHead
  BY DEF LogHead, IsEvent
<1>6. phase' \in {"down", "idle", "committing"} /\ reader' \in Reader => Typed'
  BY <1>1, <1>2 DEF Typed
<1> QED
  BY <1>3, <1>4, <1>5, <1>6

\* A branch shows the same events by any catalog that extends its own.
LEMMA SeenKept ==
  ASSUME NEW cat, NEW new, IsCatalog(cat), Extends(new, cat), NEW b \in DOMAIN cat, NEW e
  PROVE  Seen(e, cat, b) <=> Seen(e, new, b)
<1>1. /\ Len(cat[b].path) \in Nat
      /\ \A k \in 1 .. Len(cat[b].path) : cat[b].path[k] \in DOMAIN cat
  BY CatalogPath
<1>2. new[b].path = cat[b].path /\ \A x \in DOMAIN cat : new[x].fork = cat[x].fork
  BY DEF Extends
<1> DEFINE p == cat[b].path
<1> HIDE DEF p
<1>3. ASSUME NEW k \in 1 .. Len(p) PROVE OnLevel(e, cat, b, k) <=> OnLevel(e, new, b, k)
  <2>1. \A j \in k + 1 .. Len(p) : j \in 1 .. Len(p)
    BY <1>1 DEF p
  <2>2. \A j \in k + 1 .. Len(p) : new[p[j]].fork = cat[p[j]].fork
    BY <1>1, <1>2, <2>1 DEF p
  <2> QED
    BY <1>2, <2>2 DEF OnLevel, p
<1>4. Seen(e, cat, b) <=> \E k \in 1 .. Len(p) : OnLevel(e, cat, b, k)
  BY <1>1, SeenIs DEF p
<1>5. Seen(e, new, b) <=> \E k \in 1 .. Len(p) : OnLevel(e, new, b, k)
  BY <1>1, <1>2, SeenIs DEF p
<1> QED
  BY <1>3, <1>4, <1>5

\* After a commit, failed or not, the catalog is the one of the log.
LEMMA SettleKeeps ==
  ASSUME TInv, phase = "committing", phase' = "idle", branches' = Rebuild(frames),
         UNCHANGED <<frames, segments, reader, pages>>, synced' \in synced .. Len(frames)
  PROVE  TInv'
<1>1. /\ FramesOrdered' /\ BatchOnOneBranch' /\ SegmentsLaid' /\ CatalogsSound' /\ LogHead' = LogHead
      /\ Typed'
  <2>1. reader' \in Reader
    BY DEF TInv, Typed
  <2> QED
    BY <2>1, LogKept
<1>2. IsCatalog(branches) /\ Extends(branches', branches)
  BY DEF TInv, InMemory
<1>3. InMemory'
  BY DEF InMemory
<1>4. ReaderSane'
  BY <1>1, <1>2 DEF TInv, ReaderSane, Extends
<1>5. PagesExact'
  <2>1. CASE ~reader.open
    BY <2>1, PagesAreNext
  <2>2. CASE reader.open
    <3>1. reader.branch \in DOMAIN branches
      BY <2>2 DEF TInv, ReaderSane
    <3>2. WantedIn(frames, branches', reader) = WantedIn(frames, branches, reader)
      <4>1. \A i \in DOMAIN frames :
               Seen(frames[i], branches, reader.branch) <=> Seen(frames[i], branches', reader.branch)
        BY <1>2, <3>1, SeenKept
      <4> QED
        BY <4>1 DEF WantedIn
    <3>3. pages = PositionsIn(frames, Ascending(WantedIn(frames, branches, reader)))
      BY <2>2, PagesAre DEF TInv
    <3> QED
      BY <3>2, <3>3, PagesAreNext
  <2> QED
    BY <2>1, <2>2
<1> QED
  BY <1>1, <1>3, <1>4, <1>5 DEF TInv

LEMMA OpenKeeps ==
  ASSUME TInv, Open
  PROVE  TInv'
<1>1. /\ phase = "down" /\ phase' = "idle" /\ branches' = Rebuild(frames)
      /\ UNCHANGED <<frames, segments, synced, reader, pages>>
  BY DEF Open, log
<1>2. reader' \in Reader /\ synced' \in synced .. Len(frames)
  BY <1>1 DEF TInv, Typed
<1>3. /\ FramesOrdered' /\ BatchOnOneBranch' /\ SegmentsLaid' /\ CatalogsSound' /\ Typed'
  BY <1>1, <1>2, LogKept
<1>4. ~reader.open
  BY <1>1 DEF TInv, ReaderSane
<1>5. PagesExact'
  BY <1>1, <1>4, PagesAreNext
<1>6. InMemory' /\ ReaderSane'
  BY <1>1, <1>4 DEF InMemory, ReaderSane
<1> QED
  BY <1>3, <1>5, <1>6 DEF TInv

\* No reader is left, on a log that stays.
LEMMA NoReaderTyped == NoReader \in Reader /\ ~NoReader.open
<1>1. Default \in Branches
  BY DEF Branches
<1> QED
  BY <1>1 DEF NoReader, Reader

LEMMA OpenReaderKeeps ==
  ASSUME TInv, NEW b \in Branches, NEW request \in Requests, OpenReader(b, request)
  PROVE  TInv'
<1>1. /\ phase = "idle" /\ b \in DOMAIN branches /\ pages' = <<>>
      /\ reader' = [branch |-> b, stream |-> request.stream, from |-> request.from,
                    until |-> LogHead, continuation |-> request.from, open |-> TRUE]
      /\ UNCHANGED <<frames, segments, synced, branches, phase, updated>>
  BY DEF OpenReader, log
<1>2. LogHead \in Nat /\ request.stream \subseteq Streams /\ request.from \in Nat
  BY HeadTyped, TimelinesAssumption DEF TInv, TimelinesAssumption
<1>3. /\ reader' \in Reader /\ reader'.branch = b /\ reader'.from = request.from
      /\ reader'.continuation = request.from /\ reader'.until = LogHead /\ reader'.open
  BY <1>1, <1>2 DEF Reader
<1>4. synced' \in synced .. Len(frames)
  BY <1>1 DEF TInv, Typed
<1>5. /\ FramesOrdered' /\ BatchOnOneBranch' /\ SegmentsLaid' /\ CatalogsSound' /\ Typed'
      /\ LogHead' = LogHead
  <2>1. phase' \in {"down", "idle", "committing"}
    BY <1>1
  <2> QED
    BY <1>1, <1>3, <1>4, <2>1, LogKept
<1>6. InMemory'
  BY <1>1 DEF TInv, InMemory, ForksSound
<1>7. ReaderSane'
  BY <1>1, <1>2, <1>3, <1>5 DEF ReaderSane
<1>8. PagesExact'
  <2>1. WantedIn(frames', branches', reader') = {}
    <3>1. \A i \in DOMAIN frames : frames[i].pos \in Nat
      BY FramesTyped DEF TInv
    <3> QED
      BY <1>1, <1>2, <1>3, <3>1 DEF WantedIn
  <2>2. {} \in SUBSET (1 .. 0) /\ Cardinality({}) = 0 /\ 0 \in Nat
    BY FS_EmptySet
  <2>3. Ascending({}) \in [1 .. 0 -> {}]
    BY <2>2, AscendingIs DEF Increasing
  <2>4. PositionsIn(frames', Ascending({})) = <<>>
    <3>1. DOMAIN Ascending({}) = {}
      BY <2>3
    <3> QED
      BY <3>1 DEF PositionsIn
  <2> QED
    BY <1>1, <2>1, <2>4, PagesAreNext
<1> QED
  BY <1>5, <1>6, <1>7, <1>8 DEF TInv

LEMMA CloseReaderKeeps ==
  ASSUME TInv, CloseReader
  PROVE  TInv'
<1>1. reader' = NoReader /\ UNCHANGED <<frames, segments, synced, branches, phase, updated>>
  BY DEF CloseReader, log
<1>2. synced' \in synced .. Len(frames) /\ phase' \in {"down", "idle", "committing"}
  BY <1>1 DEF TInv, Typed
<1>3. /\ FramesOrdered' /\ BatchOnOneBranch' /\ SegmentsLaid' /\ CatalogsSound' /\ Typed'
  BY <1>1, <1>2, LogKept, NoReaderTyped
<1>4. InMemory'
  BY <1>1 DEF TInv, InMemory, ForksSound
<1>5. ReaderSane' /\ PagesExact'
  BY <1>1, NoReaderTyped, PagesAreNext DEF ReaderSane
<1> QED
  BY <1>3, <1>4, <1>5 DEF TInv

LEMMA PublishKeeps ==
  ASSUME TInv, Publish
  PROVE  TInv'
<1>1. /\ phase = "committing" /\ phase' = "idle" /\ branches' = updated /\ synced' = Len(frames)
      /\ UNCHANGED <<frames, segments, reader, pages>>
  BY DEF Publish
<1>2. branches' = Rebuild(frames)
  BY <1>1 DEF TInv, InMemory
<1>3. synced' \in synced .. Len(frames)
  <2>1. synced \in 0 .. Len(frames) /\ Len(frames) \in Nat
    BY LogCatalog DEF TInv, Typed
  <2> QED
    BY <1>1, <2>1
<1> QED
  BY <1>1, <1>2, <1>3, SettleKeeps

LEMMA CommitFailsKeeps ==
  ASSUME TInv, CommitFails
  PROVE  TInv'
<1>1. /\ phase = "committing" /\ phase' = "idle" /\ branches' = Rebuild(frames)
      /\ UNCHANGED <<frames, segments, synced, reader, pages>>
  BY DEF CommitFails, RereadCatalog, log
<1>2. synced' \in synced .. Len(frames)
  BY <1>1 DEF TInv, Typed
<1> QED
  BY <1>1, <1>2, SettleKeeps

\* What the pages have brought, and what the rest of the reader's range holds.
LEMMA WantedTill ==
  ASSUME TInv, reader.open, ~Done, NEW r, NEW W,
         r.branch = reader.branch, r.stream = reader.stream, r.from = reader.from,
         r.continuation \in Nat, reader.continuation <= r.continuation, r.continuation <= reader.until,
         W = PageWanted
  PROVE  /\ \A i : i \in WantedIn(frames, branches, r) <=>
                      \/ i \in WantedIn(frames, branches, reader)
                      \/ (i \in W /\ frames[i].pos < r.continuation)
         /\ WantedIn(frames, branches, reader) \in SUBSET (1 .. Len(frames))
         /\ \A a \in WantedIn(frames, branches, reader), b \in W : a < b
<1> DEFINE c == reader.continuation
           c2 == r.continuation
<1>1. /\ reader.from \in Nat /\ reader.until \in Nat /\ c \in Nat /\ c < reader.until
      /\ Typed /\ FramesOrdered /\ Len(frames) \in Nat /\ DOMAIN frames = 1 .. Len(frames)
      /\ \A i \in 1 .. Len(frames) : frames[i].pos \in Nat
  BY ReaderTyped, FramesTyped DEF Done
<1>2. reader.from <= c
  BY DEF TInv, ReaderSane
<1>3. \A i : OnTimeline(i, reader.branch) <=> Seen(frames[i], branches, reader.branch)
  BY TimelineIs
<1>4. \A i : i \in W <=> /\ i \in 1 .. Len(frames) /\ IsEvent(i)
                         /\ frames[i].pos >= c /\ frames[i].pos < reader.until
                         /\ Seen(frames[i], branches, reader.branch) /\ Requested(i)
  BY <1>1, <1>3 DEF PageWanted, Timeline, EventsIn
<1>5. \A i : i \in WantedIn(frames, branches, reader) <=>
                /\ i \in 1 .. Len(frames) /\ IsEvent(i)
                /\ frames[i].pos >= reader.from /\ frames[i].pos < c
                /\ Seen(frames[i], branches, reader.branch) /\ Requested(i)
  BY <1>1 DEF WantedIn, IsEvent, Requested
<1>6. \A i : i \in WantedIn(frames, branches, r) <=>
                /\ i \in 1 .. Len(frames) /\ IsEvent(i)
                /\ frames[i].pos >= reader.from /\ frames[i].pos < c2
                /\ Seen(frames[i], branches, reader.branch) /\ Requested(i)
  BY <1>1 DEF WantedIn, IsEvent, Requested
<1> HIDE DEF c
<1>7. ASSUME NEW i \in 1 .. Len(frames)
      PROVE  frames[i].pos >= reader.from /\ frames[i].pos < c2 <=>
                \/ frames[i].pos >= reader.from /\ frames[i].pos < c
                \/ (frames[i].pos >= c /\ frames[i].pos < reader.until /\ frames[i].pos < c2)
  <2>1. frames[i].pos \in Nat /\ c2 \in Nat /\ c <= c2 /\ c2 <= reader.until
    BY <1>1 DEF c
  <2> HIDE DEF c2
  <2> QED
    BY <1>1, <1>2, <2>1
<1> HIDE DEF c2
<1>8. ASSUME NEW i
      PROVE  i \in WantedIn(frames, branches, r) <=>
                \/ i \in WantedIn(frames, branches, reader)
                \/ (i \in W /\ frames[i].pos < c2)
  BY <1>4, <1>5, <1>6, <1>7
<1>9. ASSUME NEW a \in WantedIn(frames, branches, reader), NEW b \in W PROVE a < b
  <2>1. a \in 1 .. Len(frames) /\ b \in 1 .. Len(frames) /\ frames[a].pos < c /\ c <= frames[b].pos
        /\ frames[a].pos \in Nat /\ frames[b].pos \in Nat
    BY <1>1, <1>4, <1>5
  <2>2. a < b \/ a = b \/ b < a
    BY <2>1
  <2>3. b < a => frames[b].pos <= frames[a].pos
    BY <1>1, <2>1 DEF FramesOrdered
  <2> QED
    BY <1>1, <2>1, <2>2, <2>3
<1>10. WantedIn(frames, branches, reader) \in SUBSET (1 .. Len(frames))
  BY <1>5
<1> QED
  BY <1>8, <1>9, <1>10 DEF c2

LEMMA NextPageKeeps ==
  ASSUME TInv, NextPage
  PROVE  TInv'
<1>1. /\ phase = "idle" /\ reader.open /\ ~Done
      /\ UNCHANGED <<frames, segments, synced, branches, phase, updated>>
  BY DEF NextPage, log
<1> DEFINE W == PageWanted
           w == Ascending(W)
           m == Taken(w)
           c2 == Continuation(w)
           A == WantedIn(frames, branches, reader)
           B == WantedIn(frames, branches, reader')
           P == {x \in W : frames[x].pos < c2}
<1>2. /\ pages' = pages \o PositionsOf(SubSeq(w, 1, m))
      /\ reader' = [reader EXCEPT !.continuation = c2]
      /\ W \in SUBSET (1 .. Len(frames)) /\ \A i \in W : IsEvent(i)
  <2>1. PICK seek \in Seeks(PageFilter) :
           /\ pages' = pages \o PositionsOf(SubSeq(Wanted(seek), 1, Taken(Wanted(seek))))
           /\ reader' = [reader EXCEPT !.continuation = Continuation(Wanted(seek))]
    BY Zenon DEF NextPage
  <2>2. /\ Wanted(seek) = w
        /\ W \in SUBSET (1 .. Len(frames)) /\ \A i \in W : IsEvent(i)
    BY <1>1, PageScan
  <2> HIDE DEF W, w
  <2> QED
    BY <2>1, <2>2, Zenon
<1>3. /\ m \in 0 .. Cardinality(W) /\ c2 \in Nat
      /\ reader.continuation < c2 /\ c2 <= reader.until
      /\ \A x : x \in W /\ frames[x].pos < c2 <=> \E k \in 1 .. m : x = w[k]
  BY <1>1, <1>2, PageEnds
<1> HIDE DEF w, m, c2
<1>4. /\ reader.from \in Nat /\ reader.until \in Nat /\ reader.continuation \in Nat
      /\ reader.until <= LogHead /\ LogHead \in Nat /\ reader \in Reader /\ Typed
      /\ reader.from <= reader.continuation /\ reader.branch \in DOMAIN branches
  BY <1>1, ReaderTyped DEF TInv, ReaderSane, Typed
<1>5. /\ reader' \in Reader /\ reader'.branch = reader.branch /\ reader'.stream = reader.stream
      /\ reader'.from = reader.from /\ reader'.until = reader.until /\ reader'.open
      /\ reader'.continuation = c2
  BY <1>1, <1>2, <1>3, <1>4 DEF Reader
<1>6. synced' \in synced .. Len(frames) /\ phase' \in {"down", "idle", "committing"}
  BY <1>1, <1>4 DEF Typed
<1>7. /\ FramesOrdered' /\ BatchOnOneBranch' /\ SegmentsLaid' /\ CatalogsSound' /\ Typed'
      /\ LogHead' = LogHead
  BY <1>1, <1>5, <1>6, LogKept
<1>8. InMemory'
  BY <1>1 DEF TInv, InMemory, ForksSound
<1>9. ReaderSane'
  <2>1. reader.from <= c2
    BY <1>3, <1>4
  <2> QED
    BY <1>1, <1>3, <1>4, <1>5, <1>7, <2>1 DEF ReaderSane
<1>10. /\ \A i : i \in B <=> i \in A \/ (i \in W /\ frames[i].pos < c2)
       /\ A \in SUBSET (1 .. Len(frames))
       /\ \A a \in A, b \in W : a < b
  <2>1. reader.continuation <= reader'.continuation /\ reader'.continuation <= reader.until
        /\ reader'.continuation \in Nat
    BY <1>3, <1>4, <1>5
  <2> QED
    BY <1>1, <1>5, <2>1, WantedTill
<1> HIDE DEF A, B, W
<1>11. B = A \cup P
  BY <1>10
<1>12. \A x : x \in P <=> \E k \in 1 .. m : x = w[k]
  BY <1>3
<1> HIDE DEF P
<1>13. PositionsOf(Ascending(A \cup P)) = PositionsOf(Ascending(A)) \o PositionsOf(SubSeq(w, 1, m))
  <2>1. AllBefore(A, W) /\ AreFirst(P, m, W)
    BY <1>10, <1>12 DEF AllBefore, AreFirst, w
  <2>2. Typed /\ A \in SUBSET (1 .. Len(frames)) /\ W \in SUBSET (1 .. Len(frames)) /\ m \in 0 .. Cardinality(W)
    BY <1>2, <1>3, <1>4, <1>10
  <2>3. PagesJoin(A, P, m, W)
    BY <2>1, <2>2, PageJoins
  <2> QED
    BY <2>3 DEF PagesJoin, w
<1>14. pages = PositionsOf(Ascending(A))
  <2>1. pages = PositionsIn(frames, Ascending(A))
    BY <1>1, PagesAre DEF TInv, A
  <2> QED
    BY <2>1 DEF PositionsIn, PositionsOf
<1>15. pages' = PositionsIn(frames, Ascending(B))
  <2>1. pages' = PositionsOf(Ascending(B))
    BY <1>2, <1>11, <1>13, <1>14
  <2> QED
    BY <2>1 DEF PositionsIn, PositionsOf
<1>16. PagesExact'
  BY <1>1, <1>15, PagesAreNext DEF B
<1> QED
  BY <1>7, <1>8, <1>9, <1>16 DEF TInv

LEMMA KillKeeps ==
  ASSUME TInv, Kill
  PROVE  TInv'
<1>1. reader' = NoReader /\ phase' = "down" /\ UNCHANGED <<frames, segments, synced>>
  BY DEF Kill, End, log
<1>2. synced' \in synced .. Len(frames) /\ phase' \in {"down", "idle", "committing"}
  BY <1>1 DEF TInv, Typed
<1>3. /\ FramesOrdered' /\ BatchOnOneBranch' /\ SegmentsLaid' /\ CatalogsSound' /\ Typed'
  BY <1>1, <1>2, LogKept, NoReaderTyped
<1>4. InMemory' /\ ReaderSane' /\ PagesExact'
  BY <1>1, NoReaderTyped, PagesAreNext DEF InMemory, ReaderSane
<1> QED
  BY <1>3, <1>4 DEF TInv

\* A log that lost its last frames rebuilds as it did when it was so long.
LEMMA SoundCut ==
  ASSUME NEW l \in Seq(Frame), NEW n \in 0 .. Len(l), NEW m \in 0 .. n, SoundAt(l, m)
  PROVE  SoundAt(SubSeq(l, 1, n), m)
<1> DEFINE cut == SubSeq(l, 1, n)
           cat == Rebuild(SubSeq(l, 1, m))
<1>1. /\ cut \in Seq(Frame) /\ Len(cut) = n /\ \A i \in 1 .. n : cut[i] = l[i]
      /\ Len(l) \in Nat /\ n \in Nat /\ m \in Nat /\ m <= n /\ n <= Len(l)
  BY PrefixOf
<1>2. SubSeq(cut, 1, m) = SubSeq(l, 1, m)
  BY PrefixesOf
<1>3. /\ IsCatalog(cat) /\ ForksIn(l, cat)
      /\ \A b \in DOMAIN cat : cat[b].fork <= HeadOf(l, m)
      /\ \A i \in 1 .. m : l[i].kind = "event" => l[i].branch \in DOMAIN cat
  BY DEF SoundAt
<1>4. cat = Rebuild(SubSeq(cut, 1, m))
  BY <1>2
<1> HIDE DEF cut, cat
<1>5. DOMAIN cut = 1 .. n /\ \A i \in 1 .. n : i \in DOMAIN l /\ cut[i] = l[i]
  BY <1>1
<1>6. ForksIn(cut, cat)
  BY <1>3, <1>5 DEF ForksIn
<1>7. HeadOf(cut, m) = HeadOf(l, m)
  <2>1. m # 0 => m \in 1 .. n
    BY <1>1
  <2> QED
    BY <1>5, <2>1 DEF HeadOf
<1>8. \A i \in 1 .. m : i \in 1 .. n
  BY <1>1
<1>9. \A i \in 1 .. m : cut[i].kind = "event" => cut[i].branch \in DOMAIN cat
  BY <1>3, <1>5, <1>8
<1>10. \A b \in DOMAIN cat : cat[b].fork <= HeadOf(cut, m)
  BY <1>3, <1>7
<1>11. SoundAt(cut, m)
  BY <1>3, <1>4, <1>6, <1>9, <1>10 DEF SoundAt
<1> QED
  BY <1>11 DEF cut

LEMMA PowerLossKeeps ==
  ASSUME TInv, PowerLoss
  PROVE  TInv'
<1>1. reader' = NoReader /\ phase' = "down" /\ UNCHANGED segments
  BY DEF PowerLoss, End
<1>2. PICK n \in synced .. Len(frames) : frames' = SubSeq(frames, 1, n) /\ synced' = n
  BY DEF PowerLoss
<1>3. /\ Typed /\ FramesOrdered /\ BatchOnOneBranch /\ SegmentsLaid /\ CatalogsSound
      /\ frames \in Seq(Frame) /\ Len(frames) \in Nat /\ synced \in 0 .. Len(frames)
      /\ DOMAIN frames = 1 .. Len(frames)
  BY FramesTyped DEF TInv, Typed
<1>4. n \in Nat /\ n \in 0 .. Len(frames) /\ synced <= n /\ synced \in Nat
  BY <1>3
<1>5. /\ frames' \in Seq(Frame) /\ Len(frames') = n
      /\ \A i \in 1 .. n : frames'[i] = frames[i] /\ i \in 1 .. Len(frames)
  BY <1>2, <1>3, <1>4, PrefixOf
<1>6. DOMAIN frames' = 1 .. n
  BY <1>5
<1>7. Typed'
  BY <1>1, <1>2, <1>3, <1>4, <1>5, NoReaderTyped DEF Typed
<1>8. FramesOrdered'
  BY <1>3, <1>5, <1>6 DEF FramesOrdered, IsEvent
<1>9. BatchOnOneBranch'
  BY <1>3, <1>5, <1>6 DEF BatchOnOneBranch, EventsIn, IsEvent
<1>10. SegmentsLaid'
  <2>1. /\ DOMAIN segments = 1 .. Active
        /\ \A g \in 1 .. Active : segments[g].first \in Nat \ {0} /\ segments[g].first <= synced + 1
    BY <1>3, SegmentsTyped DEF SegmentsLaid
  <2>2. ASSUME NEW g \in DOMAIN segments
        PROVE  /\ segments[g].first <= n + 1
               /\ HeadOf(frames', segments[g].first - 1) = HeadOf(frames, segments[g].first - 1)
    <3>1. segments[g].first \in Nat \ {0} /\ segments[g].first <= n + 1
      BY <1>4, <2>1
    <3>2. segments[g].first - 1 # 0 => segments[g].first - 1 \in 1 .. n
      BY <1>4, <3>1
    <3> QED
      BY <1>5, <3>1, <3>2 DEF HeadOf
  <2> QED
    BY <1>1, <1>2, <1>3, <2>2 DEF SegmentsLaid, HeadAt
<1>11. CatalogsSound'
  <2>1. ASSUME NEW m \in 0 .. n PROVE SoundAt(frames', m)
    <3>1. m \in 0 .. Len(frames)
      BY <1>4
    <3>2. SoundAt(frames, m)
      BY <1>3, <3>1 DEF CatalogsSound
    <3> QED
      BY <1>2, <1>3, <1>4, <3>2, SoundCut
  <2> QED
    BY <1>5, <2>1 DEF CatalogsSound
<1>12. InMemory' /\ ReaderSane' /\ PagesExact'
  BY <1>1, NoReaderTyped, PagesAreNext DEF InMemory, ReaderSane
<1> QED
  BY <1>7, <1>8, <1>9, <1>10, <1>11, <1>12 DEF TInv

\* The empty log.
LEMMA InitSound ==
  ASSUME Init
  PROVE  TInv
<1>1. /\ frames = <<>> /\ segments = <<[base |-> 0, first |-> 1]>> /\ synced = 0
      /\ phase = "down" /\ reader = NoReader
  BY DEF Init
<1>2. frames \in Seq(Frame) /\ Len(frames) = 0 /\ DOMAIN frames = {}
  BY <1>1
<1>3. /\ segments \in Seq([base : Nat, first : Nat \ {0}]) /\ segments # <<>>
      /\ DOMAIN segments = {1} /\ segments[1] = [base |-> 0, first |-> 1]
  BY <1>1
<1>4. Typed
  BY <1>1, <1>2, <1>3, NoReaderTyped DEF Typed
<1>5. FramesOrdered /\ BatchOnOneBranch
  BY <1>2 DEF FramesOrdered, BatchOnOneBranch, EventsIn
<1>6. SegmentsLaid
  BY <1>1, <1>3 DEF SegmentsLaid, HeadAt, HeadOf
<1>7. CatalogsSound
  <2>1. ASSUME NEW n \in 0 .. Len(frames) PROVE SoundAt(frames, n)
    <3>1. n = 0
      BY <1>2
    <3>2. SubSeq(frames, 1, n) = <<>>
      BY <1>1, <3>1
    <3>3. Rebuild(SubSeq(frames, 1, n)) = RootOnly
      BY <3>2, RebuildStep
    <3>4. ForksIn(frames, RootOnly)
      BY <1>2 DEF ForksIn
    <3>5. \A b \in DOMAIN RootOnly : RootOnly[b].fork <= HeadOf(frames, n)
      BY <3>1, RootIs DEF HeadOf
    <3>6. \A i \in 1 .. n : frames[i].kind = "event" => frames[i].branch \in DOMAIN RootOnly
      BY <3>1
    <3> QED
      BY <3>3, <3>4, <3>5, <3>6, RootSound DEF SoundAt
  <2> QED
    BY <2>1 DEF CatalogsSound
<1>8. InMemory /\ ReaderSane /\ PagesExact
  BY <1>1, NoReaderTyped, PagesAre DEF InMemory, ReaderSane
<1> QED
  BY <1>4, <1>5, <1>6, <1>7, <1>8 DEF TInv

\* A step that changes nothing.
LEMMA StutterKeeps ==
  ASSUME TInv, UNCHANGED vars
  PROVE  TInv'
<1>1. UNCHANGED <<frames, segments, synced, branches, phase, updated, reader, pages>>
  BY DEF vars, log
<1>2. synced' \in synced .. Len(frames) /\ phase' \in {"down", "idle", "committing"} /\ reader' \in Reader
  BY <1>1 DEF TInv, Typed
<1>3. /\ FramesOrdered' /\ BatchOnOneBranch' /\ SegmentsLaid' /\ CatalogsSound' /\ Typed'
      /\ LogHead' = LogHead
  BY <1>1, <1>2, LogKept
<1>4. InMemory'
  BY <1>1 DEF TInv, InMemory, ForksSound
<1>5. ReaderSane'
  BY <1>1, <1>3 DEF TInv, ReaderSane
<1>6. PagesExact'
  <2>1. reader.open => pages = PositionsIn(frames, Ascending(WantedIn(frames, branches, reader)))
    BY PagesAre DEF TInv
  <2> QED
    BY <1>1, <2>1, PagesAreNext
<1> QED
  BY <1>3, <1>4, <1>5, <1>6 DEF TInv

----------------------------------------------------------------------------
(* The theorems *)

\* TInv holds in every state: whatever is appended, forked, archived, paged,
\* killed or lost, the log stays in order, every catalog that a part of it
\* rebuilds is sound, and the catalog in memory is the one of the log.
THEOREM TimelinesInvariant == Spec => []TInv
<1>1. Init => TInv
  BY InitSound
<1>2. TInv /\ [Next]_vars => TInv'
  <2> SUFFICES ASSUME TInv, [Next]_vars PROVE TInv'
    OBVIOUS
  <2>1. CASE Open
    BY <2>1, OpenKeeps
  <2>2. ASSUME NEW b \in Branches, NEW kind \in BatchKinds, AppendBatch(b, kind) PROVE TInv'
    BY <2>2, AppendBatchKeeps
  <2>3. ASSUME NEW parent \in Branches, NEW at \in 0 .. MaxPosition, NEW b \in Names,
               ForkBranch(parent, at, b)
        PROVE  TInv'
    BY <2>3, ForkBranchKeeps
  <2>4. ASSUME NEW b \in Names, ArchiveBranch(b) PROVE TInv'
    BY <2>4, ArchiveBranchKeeps
  <2>5. CASE Publish
    BY <2>5, PublishKeeps
  <2>6. CASE CommitFails
    BY <2>6, CommitFailsKeeps
  <2>7. ASSUME NEW b \in Branches, NEW request \in Requests, OpenReader(b, request) PROVE TInv'
    BY <2>7, OpenReaderKeeps
  <2>8. CASE NextPage
    BY <2>8, NextPageKeeps
  <2>9. CASE CloseReader
    BY <2>9, CloseReaderKeeps
  <2>10. CASE Kill
    BY <2>10, KillKeeps
  <2>11. CASE PowerLoss
    BY <2>11, PowerLossKeeps
  <2>12. CASE UNCHANGED vars
    BY <2>12, StutterKeeps
  <2> QED
    BY <2>1, <2>2, <2>3, <2>4, <2>5, <2>6, <2>7, <2>8, <2>9, <2>10, <2>11, <2>12, Zenon DEF Next
<1> QED
  BY <1>1, <1>2, PTL DEF Spec

\* The catalog in memory is the one the next open rebuilds from the log, also
\* after a fork or an archive whose commit failed.
THEOREM CatalogAlwaysMatchesLog == Spec => []CatalogMatchesLog
<1>1. TInv => CatalogMatchesLog
  BY DEF TInv, InMemory, CatalogMatchesLog
<1> QED
  BY <1>1, TimelinesInvariant, PTL

\* No timeline has a part of a batch: forks lie between batches, whatever the
\* depth of the ancestry.
THEOREM BatchesStayWhole == Spec => []BatchesWhole
<1>1. TInv => BatchesWhole
  BY BatchesWholeNow
<1> QED
  BY <1>1, TimelinesInvariant, PTL

\* What the plans of a diff select is what the branches share and what each
\* has alone, nothing missing and nothing twice.
THEOREM DiffsAreExact == Spec => []DiffExact
<1>1. TInv => DiffExact
  BY DiffExactNow
<1> QED
  BY <1>1, TimelinesInvariant, PTL

\* A read yields the matching events of its branch's timeline in order,
\* whatever segments its plan leaves out, its sidecars skip and wherever a
\* seek point lets it begin.
THEOREM ReadsAreExact == Spec => []ReadExact
<1>1. TInv => ReadExact
  BY ReadExactNow
<1> QED
  BY <1>1, TimelinesInvariant, PTL

\* The pages of a reader bring every wanted event up to the continuation once
\* and in order, whatever is appended, forked and archived between them.
THEOREM PagesAreExact == Spec => []PagesExact
<1>1. TInv => PagesExact
  BY DEF TInv
<1> QED
  BY <1>1, TimelinesInvariant, PTL

\* Every page moves the continuation towards the end, also over a tail of
\* which the reader wants nothing.
THEOREM PagesGoOn == Spec => []PagingEnds
<1>1. TInv => PagingEnds
  BY PagingEndsNow
<1> QED
  BY <1>1, TimelinesInvariant, PTL
=============================================================================
