-------------------------- MODULE RetentionProofs --------------------------
(***************************************************************************)
(* What retention keeps (EventsKept, KeptInv) and what it promises         *)
(* (NothingForgotten, NobodyStranded, Reopens, RetentionInv), for any      *)
(* number of events, system frames, plans and crashes and any branches,    *)
(* consumers and projections.                                              *)
(*                                                                         *)
(* EventsKept is not inductive: a power loss may bring back a manifest     *)
(* that a command has replaced, with a lower floor.  Floors says that the  *)
(* segments from the floor of each manifest that may come back are there,  *)
(* Reclaiming that when segments go no such manifest is left, and Plans    *)
(* ties the floor being installed to the position that was asked for.      *)
(*                                                                         *)
(* RetentionInv has three layers over KeptInv.  DiskInv: the segments that *)
(* are left are the newest ones, whatever removals a power loss undoes,    *)
(* and so are the frames in them.  AnchorInv: which anchor file goes with  *)
(* which of the manifests that may come back.  TruthInv: what is in memory *)
(* is what all frames ever written say, each anchor is what a prefix of    *)
(* them said, with every later frame above its floor, and whoever is below *)
(* a floor has a bootstrap in the anchor of that floor.                    *)
(***************************************************************************)
EXTENDS Retention, TLAPS, WellFoundedInduction

Steps == {"down", "idle", "rename", "settle", "switched", "reclaim"}

Shape ==
    /\ head \in Nat /\ synced \in Nat /\ durable \in Nat
    /\ bases \subseteq Nat /\ files \subseteq bases
    /\ removed \in Seq(bases)
    /\ step \in Steps
    /\ restorable = [file |-> restorable.file, manifest |-> restorable.manifest]

Manifests == {manifest} \cup restorable.manifest

Floors ==
    \A m \in Manifests : m.floor \in bases /\ \A b \in bases : b >= m.floor => b \in files

Reclaiming ==
    step = "reclaim" =>
        /\ restorable.manifest = {}
        /\ next \subseteq bases
        /\ \A b \in next : b < manifest.floor

Plans ==
    /\ \A p, q \in plan : p = q
    /\ \A p \in plan : p.requested \in Nat /\ p.current \in Nat /\ p.current <= p.requested
    /\ step \in {"switched", "reclaim"} => \A p \in plan : manifest.floor <= p.requested

KeptInv == Shape /\ Floors /\ Reclaiming /\ Plans

----------------------------------------------------------------------------
(* The greatest and the least position of a set *)

\* A set of positions with a bound has a greatest one, and Max is it.
LEMMA MaxOf ==
  ASSUME NEW S \in SUBSET Nat, NEW n \in Nat, S # {}, \A x \in S : x <= n
  PROVE  Max(S) \in S /\ \A x \in S : x <= Max(S)
<1> DEFINE gaps == {k \in Nat : k <= n /\ n - k \in S}
<1>1. gaps \subseteq Nat /\ gaps # {}
  <2>1. PICK x \in S : TRUE
    OBVIOUS
  <2>2. n - x \in Nat /\ n - x <= n /\ n - (n - x) = x
    OBVIOUS
  <2> QED
    BY <2>1, <2>2
<1>2. PICK k \in gaps : \A j \in gaps : ~(<<j, k>> \in OpToRel(<, Nat))
  BY <1>1, NatLessThanWellFounded, WFMin
<1>3. \A y \in S : n - k >= y
  <2> SUFFICES ASSUME NEW y \in S, ~(n - k >= y) PROVE FALSE
    OBVIOUS
  <2>a. k \in Nat /\ k <= n /\ y \in Nat /\ y <= n
    BY <1>2
  <2>1. n - y \in Nat /\ n - y <= n /\ n - (n - y) = y /\ n - y < k
    BY <2>a
  <2>2. n - y \in gaps /\ <<n - y, k>> \in OpToRel(<, Nat)
    BY <2>1, <2>a DEF OpToRel
  <2> QED
    BY <1>2, <2>2
<1>4. n - k \in S
  BY <1>2
<1>5. Max(S) \in S /\ \A y \in S : Max(S) >= y
  BY <1>3, <1>4, Zenon DEF Max
<1> QED
  BY <1>5

\* A set of positions has a least one, and Min is it.
LEMMA MinOf ==
  ASSUME NEW S \in SUBSET Nat, S # {}
  PROVE  Min(S) \in S /\ \A x \in S : Min(S) <= x
<1>1. PICK x \in S : \A y \in S : ~(<<y, x>> \in OpToRel(<, Nat))
  BY NatLessThanWellFounded, WFMin
<1>2. ASSUME NEW y \in S PROVE x <= y
  <2>1. ~(<<y, x>> \in OpToRel(<, Nat))
    BY <1>1
  <2>2. x \in Nat /\ y \in Nat
    BY <1>1
  <2>3. ~(y < x)
    BY <2>1, <2>2 DEF OpToRel
  <2> QED
    BY <2>2, <2>3
<1> QED
  BY <1>1, <1>2 DEF Min

\* The segment of an event from the floor on is one from the floor on.
LEMMA SegmentFromFloor ==
  ASSUME KeptInv, NEW e \in Nat, manifest.floor <= e
  PROVE  SegmentOf(e) \in files
<1> DEFINE S == {b \in bases : b <= e}
<1>1. manifest.floor \in bases /\ \A b \in bases : b >= manifest.floor => b \in files
  BY DEF KeptInv, Floors, Manifests
<1>2. S \in SUBSET Nat /\ manifest.floor \in S
  BY <1>1 DEF KeptInv, Shape
<1>3. Max(S) \in S /\ manifest.floor <= Max(S)
  BY <1>2, MaxOf
<1> QED
  BY <1>1, <1>2, <1>3 DEF SegmentOf

\* A boundary is a segment from the floor on, at or below what was asked for.
LEMMA BoundaryBelow ==
  ASSUME KeptInv, NEW r \in Nat, manifest.floor <= r
  PROVE  Boundary(r) \in bases /\ manifest.floor <= Boundary(r) /\ Boundary(r) <= r
<1> DEFINE S == {manifest.floor} \cup {b \in files : b <= r}
<1>1. manifest.floor \in bases
  BY DEF KeptInv, Floors, Manifests
<1>2. S \in SUBSET Nat /\ S \subseteq bases /\ \A b \in S : b <= r
  BY <1>1 DEF KeptInv, Shape
<1>3. Max(S) \in S /\ manifest.floor <= Max(S)
  BY <1>2, MaxOf
<1> QED
  BY <1>2, <1>3 DEF Boundary

----------------------------------------------------------------------------
(* Each action keeps KeptInv *)

\* A step that leaves segments and manifests alone, whatever it does to what is
\* in memory and to the anchor file.
LEMMA SegmentsAlone ==
  ASSUME KeptInv,
         UNCHANGED <<bases, files, removed, manifest>>,
         restorable' = [file |-> restorable'.file, manifest |-> restorable.manifest],
         head' \in Nat, synced' \in Nat, durable' \in Nat,
         step' \in Steps \ {"switched", "reclaim"}, plan' \in {plan, {}}
  PROVE  KeptInv'
<1>1. Shape'
  BY DEF KeptInv, Shape
<1>2. restorable'.manifest = restorable.manifest
  OBVIOUS
<1>3. Floors'
  BY <1>2 DEF KeptInv, Floors, Manifests
<1>4. Reclaiming' /\ Plans'
  BY DEF KeptInv, Reclaiming, Plans, Steps
<1> QED
  BY <1>1, <1>3, <1>4 DEF KeptInv

\* A roll adds a segment at the head.
LEMMA RollKeeps ==
  ASSUME KeptInv, NEW roll, Rolled(roll), step = "idle",
         UNCHANGED <<manifest, step, next, plan>>,
         head' \in Nat, synced' \in Nat, durable' \in Nat
  PROVE  KeptInv'
<1>1. CASE roll
  <2>1. /\ bases' = bases \cup {head} /\ files' = files \cup {head} /\ removed' = <<>>
        /\ restorable' = [restorable EXCEPT !.manifest = {}]
    BY <1>1 DEF Rolled
  <2>2. restorable' = [file |-> restorable.file, manifest |-> {}]
    BY <2>1 DEF KeptInv, Shape
  <2>3. Shape'
    <3>1. bases' \subseteq Nat /\ files' \subseteq bases'
      BY <2>1 DEF KeptInv, Shape
    <3>2. removed' \in Seq(bases')
      BY <2>1
    <3> QED
      BY <2>2, <3>1, <3>2 DEF KeptInv, Shape
  <2>4. Floors'
    BY <2>1, <2>2 DEF KeptInv, Shape, Floors, Manifests
  <2> QED
    BY <2>3, <2>4 DEF KeptInv, Reclaiming, Plans
<1>2. CASE ~roll
  BY <1>2, SegmentsAlone DEF Rolled, KeptInv, Shape, Steps
<1> QED
  BY <1>1, <1>2

\* An event is appended at the head, after a roll or not.
LEMMA AppendKeeps ==
  ASSUME KeptInv, NEW roll, AppendEvent(roll)
  PROVE  KeptInv'
BY RollKeeps DEF AppendEvent, memory, KeptInv, Shape

\* A system record takes no position.
LEMMA RecordKeeps ==
  ASSUME KeptInv, NEW roll, NEW key, NEW value, Record(roll, key, value)
  PROVE  KeptInv'
BY RollKeeps DEF Record, KeptInv, Shape

\* A feed is a matter of memory.
LEMMA FeedKeeps ==
  ASSUME KeptInv, NEW c, NEW position, SetFeed(c, position)
  PROVE  KeptInv'
BY SegmentsAlone DEF SetFeed, disk, KeptInv, Shape, Steps

\* A commit moves the durable head in memory only.
LEMMA CommitKeeps ==
  ASSUME KeptInv, Commit
  PROVE  KeptInv'
BY SegmentsAlone DEF Commit, KeptInv, Shape, Steps

\* The anchor and its file are written beside the segments.
LEMMA CreateAnchorKeeps ==
  ASSUME KeptInv, NEW keepFrom, CreateAnchor(keepFrom)
  PROVE  KeptInv'
<1>1. restorable' = [file |-> restorable'.file, manifest |-> restorable.manifest]
  BY DEF CreateAnchor, KeptInv, Shape
<1>2. step' \in {"idle", "rename"}
  BY DEF CreateAnchor
<1> QED
  BY <1>1, <1>2, SegmentsAlone DEF CreateAnchor, KeptInv, Shape, Steps

\* The anchor file is replaced; no segment is touched.
LEMMA AnchorStepKeeps ==
  ASSUME KeptInv, RenameAnchor \/ SettleAnchor
  PROVE  KeptInv'
<1>1. restorable' = [file |-> restorable'.file, manifest |-> restorable.manifest]
  BY DEF RenameAnchor, SettleAnchor, KeptInv, Shape
<1>2. plan' = plan /\ durable' = durable
  BY DEF RenameAnchor, SettleAnchor, memory
<1> QED
  BY <1>1, <1>2, SegmentsAlone DEF RenameAnchor, SettleAnchor, KeptInv, Shape, Steps

\* A plan asks for no less than the floor it was made at.
LEMMA PlanKeeps ==
  ASSUME KeptInv, NEW keepFrom, PlanRetention(keepFrom)
  PROVE  KeptInv'
<1>1. Shape' /\ Floors' /\ Reclaiming'
  BY DEF PlanRetention, disk, KeptInv, Shape, Floors, Manifests, Reclaiming
<1>2. manifest.floor \in Nat
  BY DEF KeptInv, Floors, Manifests, Shape
<1>3. keepFrom \in Nat /\ manifest.floor <= keepFrom
  BY <1>2 DEF PlanRetention, Plannable, KeptInv, Shape
<1>4. plan' = {PlanFor(keepFrom)} /\ step' = "idle"
  BY DEF PlanRetention
<1>5. PlanFor(keepFrom).requested = keepFrom /\ PlanFor(keepFrom).current = manifest.floor
  BY DEF PlanFor
<1>6. Plans'
  BY <1>2, <1>3, <1>4, <1>5 DEF Plans
<1> QED
  BY <1>1, <1>6 DEF KeptInv

\* The floor moves to a segment, and what is above it was above the old one.
LEMMA ApplyKeeps ==
  ASSUME KeptInv, ApplyRetention
  PROVE  KeptInv'
<1>1. PICK p \in plan : Current(p) /\ manifest' = [floor |-> p.floor, gen |-> manifest.gen + 1, sum |-> anchor]
  BY DEF ApplyRetention
<1>2. UNCHANGED <<head, synced, bases, files, removed, plan, durable>> /\ step' = "switched"
  BY DEF ApplyRetention, memory
<1>3. restorable' = [file |-> restorable.file, manifest |-> restorable.manifest \cup {manifest}]
  BY DEF ApplyRetention, KeptInv, Shape
<1>4. p.current = manifest.floor /\ p.floor = Boundary(p.requested)
  <2>1. PlanFor(p.requested) = p
    BY <1>1 DEF Current
  <2>2. /\ PlanFor(p.requested).current = manifest.floor
        /\ PlanFor(p.requested).floor = Boundary(p.requested)
    BY DEF PlanFor
  <2> QED
    BY <2>1, <2>2
<1>5. p.requested \in Nat /\ manifest.floor <= p.requested
  BY <1>4 DEF KeptInv, Plans
<1>6. p.floor \in bases /\ manifest.floor <= p.floor /\ p.floor <= p.requested
  BY <1>4, <1>5, BoundaryBelow
<1>7. Shape'
  BY <1>2, <1>3 DEF KeptInv, Shape, Steps
<1>8. manifest.floor \in Nat /\ bases \subseteq Nat
  BY DEF KeptInv, Floors, Manifests, Shape
<1>9. \A b \in bases : b >= p.floor => b \in files
  BY <1>6, <1>8 DEF KeptInv, Floors, Manifests
<1>10. Floors'
  <2>1. Manifests' = {manifest'} \cup Manifests
    BY <1>3 DEF Manifests
  <2>2. manifest'.floor = p.floor
    BY <1>1
  <2> QED
    BY <1>2, <1>6, <1>9, <2>1, <2>2 DEF KeptInv, Floors
<1>11. Reclaiming'
  BY <1>2 DEF Reclaiming
<1>12. Plans'
  <2>1. manifest'.floor = p.floor
    BY <1>1
  <2> QED
    BY <1>2, <1>6, <2>1 DEF KeptInv, Plans
<1> QED
  BY <1>7, <1>10, <1>11, <1>12 DEF KeptInv

\* From here on no manifest with a lower floor can come back.
LEMMA SettleKeeps ==
  ASSUME KeptInv, SettleManifest
  PROVE  KeptInv'
<1>1. UNCHANGED <<head, synced, bases, files, removed, manifest, plan, durable>>
  BY DEF SettleManifest, memory
<1>2. restorable' = [file |-> restorable.file, manifest |-> {}]
  BY DEF SettleManifest, KeptInv, Shape
<1>3. step = "switched" /\ step' = "reclaim" /\ next' = {b \in Closed : b < manifest.floor}
  BY DEF SettleManifest, Due
<1>4. Shape' /\ Floors'
  BY <1>1, <1>2, <1>3 DEF KeptInv, Shape, Floors, Manifests, Steps
<1>5. Reclaiming'
  BY <1>1, <1>2, <1>3 DEF KeptInv, Shape, Reclaiming, Closed
<1>6. Plans'
  BY <1>1, <1>3 DEF KeptInv, Plans
<1> QED
  BY <1>4, <1>5, <1>6 DEF KeptInv

\* A segment below the floor goes, and the floor stays.
LEMMA ReclaimKeeps ==
  ASSUME KeptInv, NEW ok, ReclaimSegment(ok)
  PROVE  KeptInv'
<1>1. UNCHANGED <<head, synced, bases, manifest, restorable, step, plan, durable>> /\ step = "reclaim"
  BY DEF ReclaimSegment, memory
<1>2. next \subseteq bases /\ bases \subseteq Nat /\ next # {}
  BY <1>1 DEF ReclaimSegment, KeptInv, Reclaiming, Shape
<1>3. Min(next) \in next
  BY <1>2, MinOf
<1>4. files' \in {files, files \ {Min(next)}} /\ removed' \in {removed, Append(removed, Min(next))}
  BY DEF ReclaimSegment
<1>5. Shape'
  <2>1. files' \subseteq bases
    BY <1>4 DEF KeptInv, Shape
  <2>2. removed' \in Seq(bases)
    BY <1>2, <1>3, <1>4, SMTT(30) DEF KeptInv, Shape
  <2> QED
    BY <1>1, <2>1, <2>2 DEF KeptInv, Shape
<1>6. Min(next) < manifest.floor /\ restorable.manifest = {} /\ manifest.floor \in Nat
  BY <1>1, <1>3 DEF KeptInv, Reclaiming, Floors, Manifests, Shape
<1>7. Floors'
  BY <1>1, <1>2, <1>3, <1>4, <1>6 DEF KeptInv, Floors, Manifests
<1>8. Reclaiming'
  <2>1. next' = next \ {Min(next)}
    BY DEF ReclaimSegment
  <2> QED
    BY <1>1, <2>1 DEF KeptInv, Reclaiming
<1>9. Plans'
  BY <1>1 DEF KeptInv, Plans
<1> QED
  BY <1>5, <1>7, <1>8, <1>9 DEF KeptInv

\* A finished apply drops its plan.
LEMMA FinishKeeps ==
  ASSUME KeptInv, FinishApply
  PROVE  KeptInv'
BY SegmentsAlone DEF FinishApply, disk, None, KeptInv, Shape, Steps

\* A close or a kill drops what was in memory, plans included.
LEMMA StopKeeps ==
  ASSUME KeptInv, Stop
  PROVE  KeptInv'
BY SegmentsAlone DEF Stop, Down, disk, None, KeptInv, Shape, Steps

\* Whatever manifest comes back, its segments are there or come back too.
LEMMA PowerLossKeeps ==
  ASSUME KeptInv, PowerLoss
  PROVE  KeptInv'
<1>1. /\ head' \in synced .. head /\ durable' = 0 /\ step' = "down"
      /\ plan' = {} /\ UNCHANGED <<synced, bases>> /\ removed' = <<>>
  BY DEF PowerLoss, Down, None
<1>2. PICK n \in 0 .. Len(removed) : files' = files \cup {removed[i] : i \in n + 1 .. Len(removed)}
  BY DEF PowerLoss
<1>3. \A i \in n + 1 .. Len(removed) : removed[i] \in bases
  BY <1>2 DEF KeptInv, Shape
<1>4. files \subseteq files' /\ files' \subseteq bases
  BY <1>2, <1>3 DEF KeptInv, Shape
<1>5. restorable' = [file |-> {}, manifest |-> {}] /\ manifest' \in Manifests
  BY DEF PowerLoss, Manifests
<1>6. Shape'
  BY <1>1, <1>4, <1>5 DEF KeptInv, Shape, Steps
<1>7. Floors'
  BY <1>1, <1>4, <1>5 DEF KeptInv, Floors, Manifests
<1>8. Reclaiming' /\ Plans'
  BY <1>1 DEF Reclaiming, Plans
<1> QED
  BY <1>6, <1>7, <1>8 DEF KeptInv

\* An open reads the manifest and changes no segment.
LEMMA OpenKeeps ==
  ASSUME KeptInv, Open
  PROVE  KeptInv'
BY SegmentsAlone DEF Open, disk, KeptInv, Shape, Steps

----------------------------------------------------------------------------
(* The theorem *)

\* A new log satisfies the invariant.
LEMMA KeptInit == Init => KeptInv
<1> SUFFICES ASSUME Init PROVE KeptInv
  OBVIOUS
<1>1. Shape
  BY DEF Init, Shape, Steps
<1>2. Floors
  BY DEF Init, Floors, Manifests
<1>3. Reclaiming /\ Plans
  BY DEF Init, Reclaiming, Plans, None
<1> QED
  BY <1>1, <1>2, <1>3 DEF KeptInv

\* Every step keeps the invariant.
LEMMA KeptNext ==
  ASSUME KeptInv, [Next]_vars
  PROVE  KeptInv'
<1>1. CASE Commit BY <1>1, CommitKeeps
<1>2. ASSUME NEW roll \in BOOLEAN,
             \/ AppendEvent(roll)
             \/ \E b \in Branches, at \in 0 .. MaxEvents : ForkBranch(roll, b, at)
             \/ \E c \in Consumers : AcknowledgeFeed(roll, c) \/ ClearConsumerCheckpoint(roll, c)
             \/ \E q \in Queries : RegisterQuery(roll, q) \/ RemoveQuery(roll, q)
             \/ \E x \in Branches \cup Consumers, at \in 0 .. MaxEvents :
                   RegisterBootstrap(roll, x, at)
      PROVE  KeptInv'
  <2>1. AppendEvent(roll) \/ \E key, value : Record(roll, key, value)
    BY <1>2 DEF ForkBranch, AcknowledgeFeed, ClearConsumerCheckpoint, RegisterQuery, RemoveQuery,
                RegisterBootstrap, Note
  <2> QED
    BY <2>1, AppendKeeps, RecordKeeps
<1>3. ASSUME NEW c \in Consumers,
             \/ \E p \in 0 .. MaxEvents : OpenFeed(c, p) \/ NextFeedPage(c, p)
             \/ ResumeFeed(c) \/ CloseFeed(c)
      PROVE  KeptInv'
  <2>1. \E position : SetFeed(c, position)
    BY <1>3 DEF OpenFeed, NextFeedPage, ResumeFeed, CloseFeed
  <2> QED
    BY <2>1, FeedKeeps
<1>4. CASE \E at \in 0 .. MaxEvents : CreateAnchor(at) \/ PlanRetention(at)
  BY <1>4, CreateAnchorKeeps, PlanKeeps
<1>5. CASE RenameAnchor \/ SettleAnchor BY <1>5, AnchorStepKeeps
<1>6. CASE ApplyRetention BY <1>6, ApplyKeeps
<1>7. CASE SettleManifest BY <1>7, SettleKeeps
<1>8. CASE FinishApply BY <1>8, FinishKeeps
<1>9. CASE \E ok \in BOOLEAN : ReclaimSegment(ok) BY <1>9, ReclaimKeeps
<1>10. CASE Stop BY <1>10, StopKeeps
<1>11. CASE PowerLoss BY <1>11, PowerLossKeeps
<1>12. CASE Open BY <1>12, OpenKeeps
<1>13. CASE UNCHANGED vars
  BY <1>13 DEF vars, disk, memory, KeptInv, Shape, Floors, Manifests, Reclaiming, Plans
<1> QED
  BY <1>1, <1>2, <1>3, <1>4, <1>5, <1>6, <1>7, <1>8, <1>9, <1>10, <1>11, <1>12, <1>13 DEF Next

\* Every event from the floor on, and every event that a plan was asked to
\* keep, is in a segment that exists, wherever a crash falls in the switch of
\* the manifest and the removal of segments (log/mod.rs activate_retention,
\* reclaim_below_retention_floor; db.rs plan_retention).
THEOREM KeepsEvents == Spec => []EventsKept
<1>1. KeptInv => EventsKept
  <2> SUFFICES ASSUME KeptInv PROVE EventsKept
    OBVIOUS
  <2>1. manifest.floor \in Nat /\ head \in Nat
    BY DEF KeptInv, Shape, Floors, Manifests
  <2>2. \A e \in manifest.floor .. head - 1 : SegmentOf(e) \in files
    BY <2>1, SegmentFromFloor
  <2>3. ASSUME step \in {"switched", "reclaim"}, NEW p \in plan, NEW e \in p.requested .. head - 1
        PROVE  e \in manifest.floor .. head - 1
    BY <2>1, <2>3 DEF KeptInv, Plans
  <2>4. \A e \in manifest.floor .. head - 1 : e >= manifest.floor
    BY <2>1
  <2> QED
    BY <2>2, <2>3, <2>4 DEF EventsKept
<1> QED
  BY <1>1, KeptInit, KeptNext, PTL DEF Spec

----------------------------------------------------------------------------
(* The segments that are left, and the frames in them *)

Told == lapses \cap Forgetful = {}

Positions ==
    /\ synced <= head
    /\ \A x \in bases : x <= synced

Frames ==
    /\ records \in Seq({records[i] : i \in DOMAIN records})
    /\ \A i \in DOMAIN records :
          records[i].seg \in bases /\ (records[i].key \in BranchKeys => records[i].value # None)
    /\ \A i, j \in DOMAIN records : i < j => records[i].seg <= records[j].seg

\* Unless a removal failed, the segments that exist are the newest ones, and so
\* they are when a power loss brings removed ones back.
Suffix ==
    "left" \notin lapses =>
        /\ \A f \in files, x \in bases : x >= f => x \in files
        /\ \A i \in DOMAIN removed, x \in bases :
              x >= removed[i] => x \in files \/ \E j \in i .. Len(removed) : removed[j] = x
        /\ step = "reclaim" => next = {f \in files : f < manifest.floor}

DiskInv == KeptInv /\ Positions /\ Frames /\ Suffix

\* The active segment is the newest.
LEMMA ActiveIs ==
  ASSUME KeptInv, Positions
  PROVE  Active \in bases /\ \A x \in bases : x <= Active
<1>1. bases \in SUBSET Nat /\ bases # {} /\ synced \in Nat
  BY DEF KeptInv, Shape, Floors, Manifests
<1>2. \A x \in bases : x <= synced
  BY DEF Positions
<1> QED
  BY <1>1, <1>2, MaxOf DEF Active

\* A sequence and one more element.
LEMMA Longer ==
  ASSUME NEW s, s \in Seq({s[i] : i \in DOMAIN s}), NEW e, NEW t, t = Append(s, e)
  PROVE  /\ Len(s) \in Nat /\ DOMAIN s = 1 .. Len(s)
         /\ Len(t) = Len(s) + 1 /\ DOMAIN t = 1 .. Len(s) + 1
         /\ \A i \in 1 .. Len(s) : t[i] = s[i]
         /\ t[Len(s) + 1] = e
         /\ t \in Seq({t[i] : i \in DOMAIN t})
<1> DEFINE S == {s[i] : i \in DOMAIN s}
<1> HIDE DEF S
<1>1. s \in Seq(S)
  BY DEF S
<1>2. /\ Len(s) \in Nat /\ DOMAIN s = 1 .. Len(s)
      /\ Len(t) = Len(s) + 1 /\ DOMAIN t = 1 .. Len(s) + 1
      /\ \A i \in 1 .. Len(s) : t[i] = s[i]
      /\ t[Len(s) + 1] = e
      /\ t \in Seq(S \cup {e})
  BY <1>1
<1>3. \A i \in 1 .. Len(t) : t[i] \in {t[j] : j \in DOMAIN t}
  BY <1>2
<1>4. t \in Seq({t[i] : i \in DOMAIN t})
  BY <1>2, <1>3
<1> QED
  BY <1>2, <1>4

\* A step that leaves segments and frames alone.
LEMMA DiskAlone ==
  ASSUME DiskInv, KeptInv', UNCHANGED <<head, bases, files, removed, records>>,
         synced' \in {synced, head}, "left" \in lapses => "left" \in lapses',
         step' # "reclaim"
  PROVE  DiskInv'
<1>1. Positions'
  BY DEF DiskInv, Positions, KeptInv, Shape
<1>2. Frames'
  BY DEF DiskInv, Frames
<1>3. Suffix'
  BY DEF DiskInv, Suffix
<1> QED
  BY <1>1, <1>2, <1>3 DEF DiskInv

\* A roll adds the newest segment.
LEMMA RollSuffix ==
  ASSUME DiskInv, NEW roll, MayRoll(roll), Rolled(roll), step' = "idle",
         "left" \in lapses => "left" \in lapses'
  PROVE  Suffix'
<1>1. CASE ~roll
  BY <1>1 DEF Rolled, DiskInv, Suffix
<1>2. CASE roll
  <2>1. head > Active /\ bases' = bases \cup {head} /\ files' = files \cup {head} /\ removed' = <<>>
    BY <1>2 DEF MayRoll, Rolled
  <2>2. Active \in bases /\ \A x \in bases : x <= Active
    BY ActiveIs DEF DiskInv
  <2>3. bases \subseteq Nat /\ files \subseteq bases /\ head \in Nat
    BY DEF DiskInv, KeptInv, Shape
  <2>4. ASSUME "left" \notin lapses, NEW f \in files', NEW x \in bases', x >= f PROVE x \in files'
    <3>1. CASE x = head
      BY <2>1, <3>1
    <3>2. CASE x # head
      <4>1. x \in bases /\ x < head
        BY <2>1, <2>2, <2>3, <3>2
      <4>2. f # head
        BY <2>3, <2>4, <4>1
      <4> QED
        BY <2>1, <2>4, <4>1, <4>2 DEF DiskInv, Suffix
    <3> QED
      BY <3>1, <3>2
  <2> QED
    BY <2>1, <2>4 DEF Suffix
<1> QED
  BY <1>1, <1>2

LEMMA AppendDisk ==
  ASSUME DiskInv, NEW roll, AppendEvent(roll)
  PROVE  DiskInv'
<1>1. KeptInv'
  BY AppendKeeps DEF DiskInv
<1>2. head \in Nat /\ synced \in Nat /\ bases \subseteq Nat
  BY DEF DiskInv, KeptInv, Shape
<1>3. bases' \in {bases, bases \cup {head}} /\ (~roll => bases' = bases)
  BY DEF AppendEvent, Rolled
<1>4. Positions'
  BY <1>2, <1>3 DEF AppendEvent, DiskInv, Positions
<1>5. Frames'
  BY <1>3 DEF AppendEvent, DiskInv, Frames
<1>6. Suffix'
  BY RollSuffix DEF AppendEvent
<1> QED
  BY <1>1, <1>4, <1>5, <1>6 DEF DiskInv

\* A frame is in the newest segment.
LEMMA RecordFrames ==
  ASSUME DiskInv, NEW roll, NEW key, NEW value, Record(roll, key, value),
         key \in BranchKeys => value # None
  PROVE  /\ Frames'
         /\ \A x \in bases' : x <= records'[Len(records')].seg
<1>1. Active \in bases /\ \A x \in bases : x <= Active
  BY ActiveIs DEF DiskInv
<1>2. bases \subseteq Nat /\ head \in Nat
  BY DEF DiskInv, KeptInv, Shape
<1> DEFINE seg == IF roll THEN head ELSE Active
<1>3. roll \in BOOLEAN /\ bases' = IF roll THEN bases \cup {head} ELSE bases
  BY DEF Record, MayRoll, Rolled
<1>4. seg \in bases' /\ bases \subseteq bases' /\ \A x \in bases' : x <= seg
  <2>1. CASE roll
    <3>1. head > Active
      BY <2>1 DEF Record, MayRoll
    <3> QED
      BY <1>1, <1>2, <1>3, <2>1, <3>1
  <2>2. CASE ~roll
    BY <1>1, <1>3, <2>2
  <2> QED
    BY <2>1, <2>2
<1> DEFINE r == [seg |-> seg, key |-> key, value |-> value]
<1>5. records' = Append(records, r)
  BY DEF Record
<1>6. r.seg = seg /\ r.key = key /\ r.value = value
  OBVIOUS
<1> HIDE DEF r, seg
<1>7. records \in Seq({records[i] : i \in DOMAIN records})
  BY DEF DiskInv, Frames
<1>8. /\ Len(records) \in Nat /\ DOMAIN records = 1 .. Len(records)
      /\ Len(records') = Len(records) + 1 /\ DOMAIN records' = 1 .. Len(records) + 1
      /\ \A i \in 1 .. Len(records) : records'[i] = records[i]
      /\ records'[Len(records) + 1] = r
      /\ records' \in Seq({records'[i] : i \in DOMAIN records'})
  BY <1>5, <1>7, Longer
<1>9. ASSUME NEW i \in DOMAIN records'
      PROVE  /\ records'[i].seg \in bases'
             /\ (records'[i].key \in BranchKeys => records'[i].value # None)
             /\ records'[i].seg <= seg
  <2>1. CASE i = Len(records) + 1
    BY <1>2, <1>4, <1>6, <1>8, <2>1
  <2>2. CASE i # Len(records) + 1
    <3>1. i \in DOMAIN records /\ records'[i] = records[i]
      BY <1>8, <2>2
    <3> QED
      BY <1>4, <3>1 DEF DiskInv, Frames
  <2> QED
    BY <2>1, <2>2
<1>10. ASSUME NEW i \in DOMAIN records', NEW j \in DOMAIN records', i < j
       PROVE  records'[i].seg <= records'[j].seg
  <2>1. CASE j = Len(records) + 1
    BY <1>6, <1>8, <1>9, <2>1
  <2>2. CASE j # Len(records) + 1
    <3>1. /\ i \in DOMAIN records /\ records'[i] = records[i]
          /\ j \in DOMAIN records /\ records'[j] = records[j]
      BY <1>8, <1>10, <2>2
    <3> QED
      BY <1>10, <3>1 DEF DiskInv, Frames
  <2> QED
    BY <2>1, <2>2
<1>11. Frames'
  BY <1>8, <1>9, <1>10 DEF Frames
<1> QED
  BY <1>4, <1>6, <1>8, <1>11

LEMMA RecordDisk ==
  ASSUME DiskInv, NEW roll, NEW key, NEW value, Record(roll, key, value),
         key \in BranchKeys => value # None, "left" \in lapses => "left" \in lapses'
  PROVE  DiskInv'
<1>1. KeptInv'
  BY RecordKeeps DEF DiskInv
<1>2. head \in Nat /\ synced \in Nat /\ bases \subseteq Nat
  BY DEF DiskInv, KeptInv, Shape
<1>3. bases' \subseteq bases \cup {head}
  BY DEF Record, Rolled
<1>4. Positions'
  BY <1>2, <1>3 DEF Record, DiskInv, Positions
<1>5. Suffix'
  BY RollSuffix DEF Record
<1> QED
  BY <1>1, <1>4, <1>5, RecordFrames DEF DiskInv

\* What is due is every segment below the floor.
LEMMA SettleDisk ==
  ASSUME DiskInv, SettleManifest
  PROVE  DiskInv'
<1>1. KeptInv'
  BY SettleKeeps DEF DiskInv
<1>2. UNCHANGED <<head, synced, bases, files, removed, records, manifest>> /\ next' = Due
  BY DEF SettleManifest
<1>3. Positions' /\ Frames'
  BY <1>2 DEF DiskInv, Positions, Frames
<1>4. "left" \in lapses => "left" \in lapses'
  BY DEF SettleManifest
<1>5. ASSUME NEW f \in files, f < manifest.floor PROVE f \in Closed
  <2>1. Active \in bases /\ \A x \in bases : x <= Active
    BY ActiveIs DEF DiskInv
  <2>2. manifest.floor \in bases /\ bases \subseteq Nat /\ f \in bases
    BY DEF DiskInv, KeptInv, Floors, Manifests, Shape
  <2>3. manifest.floor <= Active /\ Active \in Nat /\ manifest.floor \in Nat /\ f \in Nat
    BY <2>1, <2>2
  <2>4. f # Active
    BY <1>5, <2>3
  <2> QED
    BY <2>4 DEF Closed
<1>6. Due = {f \in files : f < manifest.floor}
  BY <1>5 DEF Due, Closed
<1>7. Suffix'
  BY <1>2, <1>4, <1>6 DEF DiskInv, Suffix
<1> QED
  BY <1>1, <1>3, <1>7 DEF DiskInv

\* The segment that goes is the oldest that is left.
LEMMA ReclaimDisk ==
  ASSUME DiskInv, NEW ok \in BOOLEAN, ReclaimSegment(ok)
  PROVE  DiskInv'
<1>1. KeptInv'
  BY ReclaimKeeps DEF DiskInv
<1>2. UNCHANGED <<head, synced, bases, records, manifest, step>> /\ step = "reclaim"
  BY DEF ReclaimSegment
<1>3. Positions' /\ Frames'
  BY <1>2 DEF DiskInv, Positions, Frames
<1>4. CASE ~ok
  <2>1. "left" \in lapses'
    BY <1>4 DEF ReclaimSegment
  <2> QED
    BY <1>1, <1>3, <2>1 DEF DiskInv, Suffix
<1>5. CASE ok
  <2> DEFINE m == Min(next)
  <2>1. /\ next' = next \ {m} /\ files' = files \ {m} /\ removed' = Append(removed, m)
        /\ lapses' = lapses /\ next # {}
    BY <1>5 DEF ReclaimSegment
  <2>2. next \in SUBSET Nat /\ bases \subseteq Nat /\ files \subseteq bases
    BY <1>2 DEF DiskInv, KeptInv, Reclaiming, Shape
  <2>3. m \in next /\ \A x \in next : m <= x
    BY <2>1, <2>2, MinOf
  <2>4. m < manifest.floor /\ manifest.floor \in Nat /\ m \in bases
    BY <1>2, <2>3 DEF DiskInv, KeptInv, Reclaiming, Floors, Manifests, Shape
  <2> HIDE DEF m
  <2> SUFFICES ASSUME "left" \notin lapses PROVE Suffix'
    BY <1>1, <1>3, <2>1 DEF DiskInv, Suffix
  <2>5. /\ \A f \in files, x \in bases : x >= f => x \in files
        /\ \A i \in DOMAIN removed, x \in bases :
              x >= removed[i] => x \in files \/ \E j \in i .. Len(removed) : removed[j] = x
        /\ next = {f \in files : f < manifest.floor}
    BY <1>2 DEF DiskInv, Suffix
  <2>6. ASSUME NEW f \in files', NEW x \in bases', x >= f PROVE x \in files'
    <3>1. f \in files /\ f # m /\ x \in bases /\ x \in files
      BY <1>2, <2>1, <2>5, <2>6
    <3>2. x # m
      <4>1. CASE f < manifest.floor
        <5>1. f \in next /\ m <= f
          BY <2>3, <2>5, <3>1, <4>1
        <5> QED
          BY <2>2, <2>3, <2>6, <3>1, <5>1
      <4>2. CASE ~(f < manifest.floor)
        BY <2>2, <2>4, <2>6, <3>1, <4>2
      <4> QED
        BY <4>1, <4>2
    <3> QED
      BY <2>1, <3>1, <3>2
  <2>7. /\ Len(removed) \in Nat /\ DOMAIN removed = 1 .. Len(removed)
        /\ Len(removed') = Len(removed) + 1 /\ DOMAIN removed' = 1 .. Len(removed) + 1
        /\ \A i \in 1 .. Len(removed) : removed'[i] = removed[i]
        /\ removed'[Len(removed) + 1] = m
    <3>1. removed \in Seq(bases)
      BY DEF DiskInv, KeptInv, Shape
    <3> QED
      BY <2>1, <2>4, <3>1
  <2>8. ASSUME NEW i \in DOMAIN removed', NEW x \in bases', x >= removed'[i], x \notin files'
        PROVE  \E j \in i .. Len(removed') : removed'[j] = x
    <3>1. CASE x = m
      <4>1. Len(removed) + 1 \in i .. Len(removed')
        BY <2>7
      <4> QED
        BY <2>7, <3>1, <4>1
    <3>2. CASE x # m
      <4>1. x \notin files /\ x \in bases
        BY <1>2, <2>1, <2>8, <3>2
      <4>2. i \in 1 .. Len(removed)
        <5>1. i # Len(removed) + 1
          <6> SUFFICES ASSUME i = Len(removed) + 1 PROVE FALSE
            OBVIOUS
          <6>1. x >= m
            BY <2>7, <2>8
          <6>2. m \in files
            BY <2>3, <2>5
          <6> QED
            BY <2>5, <4>1, <6>1, <6>2
        <5> QED
          BY <2>7, <5>1
      <4>3. PICK j \in i .. Len(removed) : removed[j] = x
        BY <2>5, <2>7, <2>8, <4>1, <4>2
      <4>4. j \in 1 .. Len(removed) /\ j \in i .. Len(removed')
        BY <2>7, <4>2
      <4> QED
        BY <2>7, <4>3, <4>4
    <3> QED
      BY <3>1, <3>2
  <2>9. next' = {f \in files' : f < manifest'.floor}
    BY <1>2, <2>1, <2>5
  <2> QED
    BY <2>6, <2>8, <2>9 DEF Suffix
<1> QED
  BY <1>4, <1>5

\* What comes back is the newest of what had gone.
LEMMA PowerLossDisk ==
  ASSUME DiskInv, PowerLoss
  PROVE  DiskInv'
<1>1. KeptInv'
  BY PowerLossKeeps DEF DiskInv
<1>2. /\ UNCHANGED <<synced, bases, records, lapses>> /\ head' \in synced .. head
      /\ removed' = <<>> /\ step' = "down"
  BY DEF PowerLoss, Down
<1>3. PICK n \in 0 .. Len(removed) : files' = files \cup {removed[i] : i \in n + 1 .. Len(removed)}
  BY DEF PowerLoss
<1>4. synced \in Nat /\ head \in Nat /\ removed \in Seq(bases) /\ bases \subseteq Nat
  BY DEF DiskInv, KeptInv, Shape
<1>5. Positions' /\ Frames'
  BY <1>2, <1>4 DEF DiskInv, Positions, Frames
<1>6. ASSUME "left" \notin lapses, NEW f \in files', NEW x \in bases', x >= f PROVE x \in files'
  <2>1. /\ \A g \in files, y \in bases : y >= g => y \in files
        /\ \A i \in DOMAIN removed, y \in bases :
              y >= removed[i] => y \in files \/ \E j \in i .. Len(removed) : removed[j] = y
    BY <1>6 DEF DiskInv, Suffix
  <2>2. CASE f \in files
    BY <1>2, <1>3, <1>6, <2>1, <2>2
  <2>3. CASE f \notin files
    <3>1. PICK i \in n + 1 .. Len(removed) : f = removed[i]
      BY <1>3, <2>3
    <3>2. i \in DOMAIN removed
      BY <1>4, <3>1
    <3>3. x \in files \/ \E j \in i .. Len(removed) : removed[j] = x
      BY <1>2, <1>6, <2>1, <3>1, <3>2
    <3>4. \A j \in i .. Len(removed) : j \in n + 1 .. Len(removed)
      BY <1>4, <3>1
    <3> QED
      BY <1>3, <3>3, <3>4
  <2> QED
    BY <2>2, <2>3
<1>7. Suffix'
  BY <1>2, <1>6 DEF Suffix
<1> QED
  BY <1>1, <1>5, <1>7 DEF DiskInv

\* The steps that change neither.
LEMMA QuietDisk ==
  ASSUME DiskInv, KeptInv',
         \/ Commit \/ RenameAnchor \/ SettleAnchor \/ ApplyRetention \/ FinishApply \/ Stop \/ Open
         \/ \E c, position : SetFeed(c, position)
         \/ \E at : CreateAnchor(at) \/ PlanRetention(at)
  PROVE  DiskInv'
BY DiskAlone DEF Commit, RenameAnchor, SettleAnchor, ApplyRetention, FinishApply, Stop, Open, SetFeed,
                 CreateAnchor, PlanRetention, Down, disk, memory

LEMMA DiskInit == Init => DiskInv
<1> SUFFICES ASSUME Init PROVE DiskInv
  OBVIOUS
<1>1. Positions /\ Suffix
  BY DEF Init, Positions, Suffix
<1>2. Frames
  BY DEF Init, Frames
<1> QED
  BY <1>1, <1>2, KeptInit DEF DiskInv

----------------------------------------------------------------------------
(* The anchor, its file and the manifest that names it *)

AtMostOne(S) == \A x, y \in S : x = y

\* The anchor files there are, may come back or are being written.
Files ==
    {anchorFile} \cup restorable.file \cup
    IF step \in {"rename", "settle"} THEN {next} ELSE {}

Placed(a) == a.floor \in bases /\ a.head \in Nat /\ a.head <= synced

AnchorForm ==
    /\ \A f \in Files \cup {anchor} : AtMostOne(f) /\ \A a \in f : Placed(a)
    /\ \A m \in Manifests : AtMostOne(m.sum) /\ \A a \in m.sum : Placed(a)

Sums ==
    /\ \A m \in Manifests : m.sum = None => m.floor = 0
    /\ \A m \in Manifests : m.floor <= manifest.floor
    /\ manifest.sum = None => restorable.manifest = {}

\* The anchor in memory is the one on disk, and unless it was replaced the one
\* the manifest names.
Held ==
    /\ step \in {"idle", "switched", "reclaim"} => anchor \subseteq anchorFile
    /\ step \in {"rename", "settle"} => next # None /\ (manifest.sum = None \/ "replaced" \in lapses)
    /\ step = "settle" => anchorFile = next
    /\ "replaced" \notin lapses /\ step # "down" /\ manifest.sum # None => anchor = manifest.sum
    /\ step \in {"switched", "reclaim"} => anchor = manifest.sum /\ anchor # None
    /\ step = "switched" =>
          /\ \A a \in anchor : a.floor = manifest.floor /\ a.head = durable
          /\ durable # head => "moved" \in lapses
          /\ restorable.file # {} => "unsettled" \in lapses

\* Whatever manifest comes back, the anchor it names is on disk to stay, for its
\* floor and for a head that no power loss changes.
StillNamed ==
    lapses \cap {"moved", "replaced", "unsettled"} = {} =>
        \A m \in Manifests : m.sum # None =>
            /\ anchorFile = m.sum /\ restorable.file = {}
            /\ \A a \in m.sum : a.floor = m.floor /\ a.head = head
            /\ synced = head

AnchorInv == AnchorForm /\ Sums /\ Held /\ StillNamed

\* Steps that leave the anchor, its file and the manifest alone.
LEMMA AnchorsAlone ==
  ASSUME DiskInv, AnchorInv, DiskInv', UNCHANGED <<anchorFile, manifest, anchor>>,
         restorable'.file = restorable.file,
         restorable'.manifest \in {restorable.manifest, {}},
         bases \subseteq bases', synced' \in {synced, head}, lapses \subseteq lapses',
         \/ head' = head
         \/ manifest.sum # None => "moved" \in lapses',
         step \in {"idle", "reclaim"}, step' \in {"idle", step}
  PROVE  AnchorInv'
<1>1. head \in Nat /\ synced \in Nat /\ synced <= head
  BY DEF DiskInv, KeptInv, Shape, Positions
<1>2. Manifests' \subseteq Manifests /\ manifest \in Manifests
  BY DEF Manifests
<1>3. Files' = Files
  BY DEF Files
<1>4. \A a : Placed(a) => Placed(a)'
  BY <1>1 DEF Placed
<1>5. AnchorForm'
  BY <1>2, <1>3, <1>4 DEF AnchorInv, AnchorForm
<1>6. Sums'
  BY <1>2 DEF AnchorInv, Sums
<1>7. Held'
  BY DEF AnchorInv, Held
<1>8. StillNamed'
  <2> SUFFICES ASSUME lapses' \cap {"moved", "replaced", "unsettled"} = {},
                      NEW m \in Manifests', m.sum # None
               PROVE  /\ anchorFile = m.sum /\ restorable.file = {}
                      /\ \A a \in m.sum : a.floor = m.floor /\ a.head = head'
                      /\ synced' = head'
    BY DEF StillNamed
  <2>1. lapses \cap {"moved", "replaced", "unsettled"} = {} /\ "moved" \notin lapses'
    OBVIOUS
  <2>2. m \in Manifests
    BY <1>2
  <2>3. /\ anchorFile = m.sum /\ restorable.file = {}
        /\ \A a \in m.sum : a.floor = m.floor /\ a.head = head
        /\ synced = head
    BY <2>1, <2>2 DEF AnchorInv, StillNamed
  <2>4. manifest.sum # None
    BY <2>2 DEF AnchorInv, Sums, Manifests
  <2> QED
    BY <2>1, <2>3, <2>4
<1> QED
  BY <1>5, <1>6, <1>7, <1>8 DEF AnchorInv

\* A step that writes frames or events.
LEMMA AppendAnchors ==
  ASSUME DiskInv, AnchorInv, DiskInv', NEW roll,
         \/ AppendEvent(roll)
         \/ lapses \subseteq lapses' /\ \E key, value : Record(roll, key, value)
  PROVE  AnchorInv'
<1>1. restorable'.file = restorable.file /\ restorable'.manifest \in {restorable.manifest, {}}
  <2>1. Rolled(roll)
    BY DEF AppendEvent, Record
  <2> QED
    BY <2>1 DEF Rolled, DiskInv, KeptInv, Shape
<1>2. bases \subseteq bases'
  BY DEF AppendEvent, Record, Rolled
<1>3. CASE AppendEvent(roll)
  BY <1>1, <1>2, <1>3, AnchorsAlone DEF AppendEvent, memory
<1>4. CASE lapses \subseteq lapses' /\ \E key, value : Record(roll, key, value)
  BY <1>1, <1>2, <1>4, AnchorsAlone DEF Record
<1> QED
  BY <1>3, <1>4

LEMMA QuietAnchors ==
  ASSUME DiskInv, AnchorInv, DiskInv',
         \/ Commit \/ FinishApply
         \/ \E c, position : SetFeed(c, position)
         \/ \E at : PlanRetention(at)
         \/ \E ok \in BOOLEAN : ReclaimSegment(ok)
  PROVE  AnchorInv'
BY AnchorsAlone DEF Commit, FinishApply, SetFeed, PlanRetention, ReclaimSegment, disk, memory

\* The anchor to be written, and whether the file on disk will do.
AnchorFor(keepFrom) == NewAnchor(Boundary(keepFrom))
FileFits(keepFrom) == \E a \in anchorFile : Same(a, AnchorFor(keepFrom))

LEMMA CreateAnchorAnchors ==
  ASSUME DiskInv, AnchorInv, DiskInv', NEW keepFrom, CreateAnchor(keepFrom)
  PROVE  AnchorInv'
<1>1. /\ head \in Nat /\ synced \in Nat /\ synced <= head
      /\ step = "idle" /\ head' = head /\ synced' = head /\ bases' = bases /\ manifest' = manifest
      /\ lapses \subseteq lapses'
  BY DEF CreateAnchor, DiskInv, KeptInv, Shape, Positions
<1>2. restorable'.manifest = restorable.manifest /\ Manifests' = Manifests /\ manifest \in Manifests
  BY DEF CreateAnchor, DiskInv, KeptInv, Shape, Manifests
<1>3. \A a : Placed(a) => Placed(a)'
  BY <1>1 DEF Placed
<1>4. CASE FileFits(keepFrom)
  <2>1. /\ step' = "idle" /\ anchorFile' = anchorFile /\ anchor' = anchorFile
        /\ restorable' = restorable
    BY <1>4 DEF CreateAnchor, FileFits, AnchorFor
  <2>2. AnchorForm'
    <3>1. Files' \subseteq Files /\ anchor' \in Files
      BY <2>1 DEF Files
    <3> QED
      BY <1>2, <1>3, <3>1 DEF AnchorInv, AnchorForm
  <2>3. Sums'
    BY <1>1, <1>2 DEF AnchorInv, Sums
  <2>4. Held'
    <3>1. anchor \subseteq anchorFile /\ AtMostOne(anchorFile)
      BY <1>1 DEF AnchorInv, Held, AnchorForm, Files
    <3>2. anchor # None => anchor = anchorFile
      BY <3>1 DEF AtMostOne, None
    <3>3. "replaced" \notin lapses' /\ manifest.sum # None => anchor' = manifest.sum
      BY <1>1, <2>1, <3>2 DEF AnchorInv, Held
    <3> QED
      BY <1>1, <2>1, <3>3 DEF Held
  <2>5. StillNamed'
    BY <1>1, <1>2, <2>1 DEF AnchorInv, StillNamed
  <2> QED
    BY <2>2, <2>3, <2>4, <2>5 DEF AnchorInv
<1>5. CASE ~FileFits(keepFrom)
  <2>0. PICK new : new = AnchorFor(keepFrom)
    OBVIOUS
  <2>1. /\ step' = "rename" /\ anchorFile' = None /\ anchor' = anchor /\ next' = {new}
        /\ restorable'.file = restorable.file \cup {anchorFile}
        /\ manifest.sum # None => "replaced" \in lapses'
    <3>1. step' = "rename" /\ anchorFile' = None /\ anchor' = anchor /\ next' = {new}
      BY <1>5, <2>0 DEF CreateAnchor, FileFits, AnchorFor
    <3>2. restorable' = [restorable EXCEPT !.file = @ \cup {anchorFile}]
      BY <1>5 DEF CreateAnchor, FileFits, AnchorFor
    <3>3. manifest.sum # None => "replaced" \in lapses'
      BY <1>5 DEF CreateAnchor, FileFits, AnchorFor
    <3>4. restorable'.file = restorable.file \cup {anchorFile}
      BY <3>2 DEF DiskInv, KeptInv, Shape
    <3> QED
      BY <3>1, <3>3, <3>4
  <2>2. Placed(new)'
    <3>1. keepFrom \in Nat /\ manifest.floor <= keepFrom
      BY <1>1 DEF CreateAnchor, DiskInv, KeptInv, Floors, Manifests, Shape
    <3>2. Boundary(keepFrom) \in bases
      BY <3>1, BoundaryBelow DEF DiskInv
    <3>3. new.floor = Boundary(keepFrom) /\ new.head = head
      BY <2>0 DEF AnchorFor, NewAnchor
    <3> QED
      BY <1>1, <3>2, <3>3 DEF Placed
  <2>3. AnchorForm'
    <3>1. Files' \subseteq Files \cup {None, {new}} /\ anchor' = anchor
      BY <2>1 DEF Files
    <3>2. AtMostOne(None) /\ AtMostOne({new})
      BY DEF AtMostOne, None
    <3>3. \A f \in Files' \cup {anchor'} :
             f \in Files \cup {anchor} \/ f = None \/ f = {new}
      BY <3>1
    <3>4. ASSUME NEW f \in Files' \cup {anchor'}
          PROVE  AtMostOne(f) /\ \A a \in f : Placed(a)'
      <4>1. CASE f \in Files \cup {anchor}
        BY <1>3, <4>1 DEF AnchorInv, AnchorForm
      <4>2. CASE f = None
        BY <3>2, <4>2 DEF None
      <4>3. CASE f = {new}
        BY <2>2, <3>2, <4>3
      <4> QED
        BY <3>3, <4>1, <4>2, <4>3
    <3>5. ASSUME NEW m \in Manifests' PROVE AtMostOne(m.sum) /\ \A a \in m.sum : Placed(a)'
      BY <1>2, <1>3 DEF AnchorInv, AnchorForm
    <3> QED
      BY <3>4, <3>5 DEF AnchorForm
  <2>4. Sums'
    BY <1>1, <1>2 DEF AnchorInv, Sums
  <2>5. Held'
    BY <1>1, <2>1 DEF Held, None
  <2>6. StillNamed'
    BY <1>1, <1>2, <2>1 DEF AnchorInv, StillNamed, Sums, Manifests
  <2> QED
    BY <2>3, <2>4, <2>5, <2>6 DEF AnchorInv
<1> QED
  BY <1>4, <1>5

LEMMA RenameAnchors ==
  ASSUME DiskInv, AnchorInv, DiskInv', RenameAnchor
  PROVE  AnchorInv'
<1>1. /\ step = "rename" /\ step' = "settle" /\ anchorFile' = next
      /\ UNCHANGED <<head, synced, bases, manifest, next, anchor, lapses>>
      /\ restorable'.file = restorable.file \cup {None} /\ restorable'.manifest = restorable.manifest
  BY DEF RenameAnchor, memory, DiskInv, KeptInv, Shape
<1>2. Manifests' = Manifests /\ Files' \subseteq Files \cup {None}
  BY <1>1 DEF Manifests, Files
<1>3. \A a : Placed(a)' = Placed(a)
  BY <1>1 DEF Placed
<1>4. AnchorForm'
  BY <1>1, <1>2, <1>3 DEF AnchorInv, AnchorForm, AtMostOne, None
<1>5. Sums'
  BY <1>1, <1>2 DEF AnchorInv, Sums
<1>6. Held'
  BY <1>1 DEF AnchorInv, Held
<1>7. StillNamed'
  BY <1>1, <1>2 DEF AnchorInv, StillNamed, Sums, Held, Manifests
<1> QED
  BY <1>4, <1>5, <1>6, <1>7 DEF AnchorInv

LEMMA SettleAnchors ==
  ASSUME DiskInv, AnchorInv, DiskInv', SettleAnchor
  PROVE  AnchorInv'
<1>1. /\ step = "settle" /\ step' = "idle" /\ anchor' = next
      /\ UNCHANGED <<head, synced, bases, manifest, anchorFile, lapses>>
      /\ restorable'.file = {} /\ restorable'.manifest = restorable.manifest
  BY DEF SettleAnchor, DiskInv, KeptInv, Shape
<1>2. Manifests' = Manifests /\ Files' \subseteq Files /\ anchor' \in Files
  BY <1>1 DEF Manifests, Files
<1>3. \A a : Placed(a)' = Placed(a)
  BY <1>1 DEF Placed
<1>4. AnchorForm'
  BY <1>1, <1>2, <1>3 DEF AnchorInv, AnchorForm
<1>5. Sums'
  BY <1>1, <1>2 DEF AnchorInv, Sums
<1>6. Held'
  BY <1>1 DEF AnchorInv, Held
<1>7. StillNamed'
  BY <1>1, <1>2 DEF AnchorInv, StillNamed, Sums, Held, Manifests
<1> QED
  BY <1>4, <1>5, <1>6, <1>7 DEF AnchorInv

\* An accepted plan: its floor, and the anchor that is ready for it.
LEMMA Accepted ==
  ASSUME DiskInv, AnchorInv, NEW p \in plan, Current(p)
  PROVE  /\ p.floor \in Nat /\ manifest.floor <= p.floor
         /\ anchor # None /\ \A a \in anchor : a.floor = p.floor /\ a.head = durable
<1>1. p.current = manifest.floor /\ p.floor = Boundary(p.requested)
  BY DEF Current, PlanFor
<1>2. p.requested \in Nat /\ manifest.floor <= p.requested
  BY <1>1 DEF DiskInv, KeptInv, Plans
<1>3. p.floor \in bases /\ manifest.floor <= p.floor
  BY <1>1, <1>2, BoundaryBelow DEF DiskInv
<1>4. PICK a \in anchor : a.floor = p.floor /\ a.head = durable
  BY DEF Current, Blocked, AnchorReady
<1>5. \A x \in anchor : x = a
  BY <1>4 DEF AnchorInv, AnchorForm, AtMostOne
<1> QED
  BY <1>3, <1>4, <1>5 DEF DiskInv, KeptInv, Shape, None

LEMMA ApplyAnchors ==
  ASSUME DiskInv, AnchorInv, DiskInv', ApplyRetention
  PROVE  AnchorInv'
<1>1. PICK p \in plan :
        Current(p) /\ manifest' = [floor |-> p.floor, gen |-> manifest.gen + 1, sum |-> anchor]
  BY DEF ApplyRetention
<1>2. /\ step = "idle" /\ step' = "switched"
      /\ UNCHANGED <<head, synced, bases, anchorFile, anchor, durable>>
      /\ restorable'.file = restorable.file
      /\ restorable'.manifest = restorable.manifest \cup {manifest}
      /\ lapses \subseteq lapses'
      /\ durable # head => "moved" \in lapses'
      /\ restorable.file # {} => "unsettled" \in lapses'
  BY DEF ApplyRetention, memory, DiskInv, KeptInv, Shape
<1>3. /\ p.floor \in Nat /\ manifest.floor <= p.floor
      /\ anchor # None /\ \A a \in anchor : a.floor = p.floor /\ a.head = durable
  BY <1>1, Accepted
<1>4. manifest'.floor = p.floor /\ manifest'.sum = anchor
  BY <1>1
<1>5. Manifests' = Manifests \cup {manifest'} /\ Files' = Files
  BY <1>2 DEF Manifests, Files
<1>6. \A a : Placed(a)' = Placed(a)
  BY <1>2 DEF Placed
<1>7. AnchorForm'
  BY <1>2, <1>4, <1>5, <1>6 DEF AnchorInv, AnchorForm
<1>8. Sums'
  <2>1. \A m \in Manifests : m.floor \in Nat /\ m.floor <= manifest.floor
    BY DEF AnchorInv, Sums, DiskInv, KeptInv, Floors, Shape
  <2>2. manifest.floor \in Nat
    BY <2>1 DEF Manifests
  <2> QED
    BY <1>3, <1>4, <1>5, <2>1, <2>2 DEF AnchorInv, Sums
<1>9. anchor \subseteq anchorFile /\ anchor = anchorFile
  <2>1. anchor \subseteq anchorFile /\ AtMostOne(anchorFile)
    BY <1>2 DEF AnchorInv, Held, AnchorForm, Files
  <2> QED
    BY <1>3, <2>1 DEF AtMostOne, None
<1>10. Held'
  BY <1>2, <1>3, <1>4, <1>9 DEF Held
<1>11. StillNamed'
  <2> SUFFICES ASSUME lapses' \cap {"moved", "replaced", "unsettled"} = {},
                      NEW m \in Manifests', m.sum # None
               PROVE  /\ anchorFile = m.sum /\ restorable.file = {}
                      /\ \A a \in m.sum : a.floor = m.floor /\ a.head = head
                      /\ synced = head
    BY <1>2 DEF StillNamed
  <2>1. lapses \cap {"moved", "replaced", "unsettled"} = {} /\ durable = head /\ restorable.file = {}
    BY <1>2
  <2>2. CASE m \in Manifests
    BY <2>1, <2>2 DEF AnchorInv, StillNamed
  <2>3. CASE m = manifest'
    <3>1. PICK a \in anchor : a.head <= synced /\ a.head = head
      BY <1>3, <2>1 DEF AnchorInv, AnchorForm, Placed, None
    <3>2. synced = head
      BY <3>1 DEF DiskInv, Positions, KeptInv, Shape
    <3> QED
      BY <1>3, <1>4, <1>9, <2>1, <2>3, <3>2
  <2> QED
    BY <1>5, <2>2, <2>3
<1> QED
  BY <1>7, <1>8, <1>10, <1>11 DEF AnchorInv

\* From here on the anchor that the manifest names is the one that counts.
LEMMA SettleManifestAnchors ==
  ASSUME DiskInv, AnchorInv, DiskInv', SettleManifest
  PROVE  AnchorInv'
<1>1. /\ step = "switched" /\ step' = "reclaim"
      /\ UNCHANGED <<head, synced, bases, manifest, anchorFile, anchor, durable>>
      /\ restorable'.file = restorable.file /\ restorable'.manifest = {}
      /\ "unsettled" \in lapses => "unsettled" \in lapses'
      /\ durable # head /\ "moved" \in lapses => "moved" \in lapses'
  BY DEF SettleManifest, memory, DiskInv, KeptInv, Shape
<1>2. Manifests' = {manifest} /\ manifest \in Manifests /\ Files' = Files
  BY <1>1 DEF Manifests, Files
<1>3. \A a : Placed(a)' = Placed(a)
  BY <1>1 DEF Placed
<1>4. AnchorForm'
  BY <1>1, <1>2, <1>3 DEF AnchorInv, AnchorForm
<1>5. Sums'
  BY <1>1, <1>2 DEF AnchorInv, Sums
<1>6. /\ anchor \subseteq anchorFile /\ anchor = manifest.sum /\ anchor # None
      /\ \A a \in anchor : a.floor = manifest.floor /\ a.head = durable
      /\ durable # head => "moved" \in lapses
      /\ restorable.file # {} => "unsettled" \in lapses
      /\ AtMostOne(anchorFile)
  BY <1>1 DEF AnchorInv, Held, AnchorForm, Files
<1>7. Held'
  BY <1>1, <1>6 DEF Held
<1>8. StillNamed'
  <2> SUFFICES ASSUME "moved" \notin lapses', "unsettled" \notin lapses'
               PROVE  /\ anchorFile = manifest.sum /\ restorable.file = {}
                      /\ \A a \in manifest.sum : a.floor = manifest.floor /\ a.head = head
                      /\ synced = head
    BY <1>1, <1>2 DEF StillNamed
  <2>1. durable = head /\ restorable.file = {}
    BY <1>1, <1>6
  <2>2. anchorFile = anchor
    BY <1>6 DEF AtMostOne, None
  <2>3. PICK a \in anchor : a.head <= synced /\ a.head = head
    BY <1>6, <2>1 DEF AnchorInv, AnchorForm, Placed, None
  <2>4. synced = head
    BY <2>3 DEF DiskInv, Positions, KeptInv, Shape
  <2> QED
    BY <1>6, <2>1, <2>2, <2>4
<1> QED
  BY <1>4, <1>5, <1>7, <1>8 DEF AnchorInv

LEMMA StopAnchors ==
  ASSUME DiskInv, AnchorInv, DiskInv', Stop
  PROVE  AnchorInv'
<1>1. /\ step' = "down" /\ anchor' = None
      /\ UNCHANGED <<head, synced, bases, manifest, anchorFile, restorable, lapses>>
  BY DEF Stop, Down, disk
<1>2. Manifests' = Manifests /\ Files' \subseteq Files
  BY <1>1 DEF Manifests, Files
<1>3. \A a : Placed(a)' = Placed(a)
  BY <1>1 DEF Placed
<1>4. AnchorForm'
  BY <1>1, <1>2, <1>3 DEF AnchorInv, AnchorForm, AtMostOne, None
<1>5. Sums' /\ Held' /\ StillNamed'
  BY <1>1, <1>2 DEF AnchorInv, Sums, Held, StillNamed
<1> QED
  BY <1>4, <1>5 DEF AnchorInv

\* What a power loss brings back is one of the files and manifests known.
LEMMA PowerLossAnchors ==
  ASSUME DiskInv, AnchorInv, DiskInv', PowerLoss
  PROVE  AnchorInv'
<1>1. /\ step' = "down" /\ anchor' = None /\ UNCHANGED <<synced, bases, lapses>>
      /\ head' \in synced .. head
      /\ anchorFile' \in {anchorFile} \cup restorable.file
      /\ manifest' \in Manifests
      /\ restorable'.file = {} /\ restorable'.manifest = {}
  BY DEF PowerLoss, Down, Manifests
<1>2. Manifests' = {manifest'} /\ Files' = {anchorFile'}
  BY <1>1 DEF Manifests, Files
<1>3. \A a : Placed(a)' = Placed(a)
  BY <1>1 DEF Placed
<1>4. anchorFile' \in Files
  BY <1>1 DEF Files
<1>5. AnchorForm'
  BY <1>1, <1>2, <1>3, <1>4 DEF AnchorInv, AnchorForm, AtMostOne, None
<1>6. Sums'
  <2>1. manifest'.floor \in Nat
    BY DEF DiskInv, KeptInv, Floors, Manifests, Shape
  <2> QED
    BY <1>1, <1>2, <2>1 DEF AnchorInv, Sums
<1>7. Held'
  BY <1>1 DEF Held
<1>8. StillNamed'
  <2> SUFFICES ASSUME lapses \cap {"moved", "replaced", "unsettled"} = {}, manifest'.sum # None
               PROVE  /\ anchorFile' = manifest'.sum
                      /\ \A a \in manifest'.sum : a.floor = manifest'.floor /\ a.head = head'
                      /\ synced = head'
    BY <1>1, <1>2 DEF StillNamed
  <2>1. /\ anchorFile = manifest'.sum /\ restorable.file = {}
        /\ \A a \in manifest'.sum : a.floor = manifest'.floor /\ a.head = head
        /\ synced = head
    BY <1>1 DEF AnchorInv, StillNamed
  <2>2. head' = head
    BY <1>1, <2>1 DEF DiskInv, KeptInv, Shape
  <2> QED
    BY <1>1, <2>1, <2>2
<1> QED
  BY <1>5, <1>6, <1>7, <1>8 DEF AnchorInv

\* An open takes the anchor that is exact.
LEMMA OpenAnchors ==
  ASSUME DiskInv, AnchorInv, DiskInv', Open
  PROVE  AnchorInv'
<1>1. /\ step' = "idle" /\ anchor' = ExactAnchor /\ Opens
      /\ UNCHANGED <<head, synced, bases, manifest, anchorFile, restorable, lapses>>
  BY DEF Open, disk
<1>2. Manifests' = Manifests /\ Files' \subseteq Files /\ anchorFile \in Files
  BY <1>1 DEF Manifests, Files
<1>3. \A a : Placed(a)' = Placed(a)
  BY <1>1 DEF Placed
<1>4. ExactAnchor \subseteq anchorFile
  BY DEF ExactAnchor
<1>5. AnchorForm'
  BY <1>1, <1>2, <1>3, <1>4 DEF AnchorInv, AnchorForm, AtMostOne
<1>6. Sums' /\ StillNamed'
  BY <1>1, <1>2 DEF AnchorInv, Sums, StillNamed
<1>7. manifest.sum # None => ExactAnchor = manifest.sum
  <2> SUFFICES ASSUME manifest.sum # None PROVE ExactAnchor = manifest.sum
    OBVIOUS
  <2>1. PICK a \in ExactAnchor : TRUE
    BY <1>1 DEF Opens, None
  <2>2. \A x \in ExactAnchor : manifest.sum = {x}
    BY DEF ExactAnchor
  <2> QED
    BY <2>1, <2>2
<1>8. Held'
  BY <1>1, <1>4, <1>7 DEF Held
<1> QED
  BY <1>5, <1>6, <1>8 DEF AnchorInv

LEMMA AnchorInit == Init => AnchorInv
<1> SUFFICES ASSUME Init PROVE AnchorInv
  OBVIOUS
<1>1. Manifests = {manifest} /\ Files = {None} /\ anchor = None
  BY DEF Init, Manifests, Files, None
<1>2. AnchorForm
  BY <1>1 DEF Init, AnchorForm, AtMostOne, None
<1>3. Sums /\ Held /\ StillNamed
  BY <1>1 DEF Init, Sums, Held, StillNamed, None
<1> QED
  BY <1>2, <1>3 DEF AnchorInv

----------------------------------------------------------------------------
(* What frames say *)

About(rs, k, S) == {i \in S : rs[i].key = k}

\* Replayed, of any sequence of frames.
Replay(rs, keys, before, S) ==
    [k \in keys |->
        IF About(rs, k, S) = {} THEN before[k] ELSE rs[Max(About(rs, k, S))].value]

\* What the first n frames say.
Said(rs, keys, n) == Replay(rs, keys, Nothing(keys), 1 .. n)

LEMMA ReplayedIs ==
  ASSUME NEW keys, NEW before, NEW S
  PROVE  Replayed(keys, before, S) = Replay(records, keys, before, S)
BY DEF Replayed, Replay, About

\* The last frame of a set is one of them.
LEMMA LastAbout ==
  ASSUME NEW n \in Nat, NEW S \in SUBSET (1 .. n), S # {}
  PROVE  Max(S) \in S /\ \A x \in S : x <= Max(S)
BY MaxOf

\* What the first frames say does not depend on later ones.
LEMMA SaidPrefix ==
  ASSUME NEW rs, NEW t, NEW keys, NEW n \in Nat, \A i \in 1 .. n : t[i] = rs[i]
  PROVE  Said(t, keys, n) = Said(rs, keys, n)
<1>1. ASSUME NEW k \in keys
      PROVE  /\ About(t, k, 1 .. n) = About(rs, k, 1 .. n)
             /\ About(rs, k, 1 .. n) # {} =>
                   t[Max(About(rs, k, 1 .. n))].value = rs[Max(About(rs, k, 1 .. n))].value
  <2>1. About(t, k, 1 .. n) = About(rs, k, 1 .. n) /\ About(rs, k, 1 .. n) \subseteq 1 .. n
    BY DEF About
  <2>2. About(rs, k, 1 .. n) # {} => Max(About(rs, k, 1 .. n)) \in 1 .. n
    BY <2>1, LastAbout
  <2> QED
    BY <2>1, <2>2
<1> QED
  BY <1>1, Zenon DEF Said, Replay

\* One more frame.
LEMMA SaidAdds ==
  ASSUME NEW rs, NEW keys, NEW n \in Nat
  PROVE  Said(rs, keys, n + 1) =
           [k \in keys |-> IF k = rs[n + 1].key THEN rs[n + 1].value ELSE Said(rs, keys, n)[k]]
<1>1. ASSUME NEW k \in keys
      PROVE  (IF About(rs, k, 1 .. n + 1) = {} THEN Nothing(keys)[k]
              ELSE rs[Max(About(rs, k, 1 .. n + 1))].value)
             = IF k = rs[n + 1].key THEN rs[n + 1].value ELSE Said(rs, keys, n)[k]
  <2>1. CASE k = rs[n + 1].key
    <3> DEFINE S == About(rs, k, 1 .. n + 1)
    <3>1. n + 1 \in S /\ S \in SUBSET (1 .. n + 1) /\ n + 1 \in Nat
      BY <2>1 DEF About
    <3> HIDE DEF S
    <3>2. Max(S) \in S /\ n + 1 <= Max(S)
      BY <3>1, LastAbout
    <3>3. Max(S) \in 1 .. n + 1 /\ S # {}
      BY <3>1, <3>2, Zenon
    <3>4. Max(S) = n + 1
      BY <3>2, <3>3
    <3> QED
      BY <2>1, <3>3, <3>4 DEF S
  <2>2. CASE k # rs[n + 1].key
    <3>1. About(rs, k, 1 .. n + 1) = About(rs, k, 1 .. n)
      BY <2>2 DEF About
    <3> QED
      BY <2>2, <3>1 DEF Said, Replay
  <2> QED
    BY <2>1, <2>2
<1> QED
  BY <1>1, Zenon DEF Said, Replay

\* Frames that are left say the same, if they are the last of all and what comes
\* before is what the first frames said up to where they begin.
LEMMA SaidByRest ==
  ASSUME NEW rs, NEW keys, NEW m \in Nat, NEW n \in 0 .. m, NEW S \in SUBSET (1 .. m),
         \A i \in 1 .. m : i \notin S => i <= n,
         \A i, j \in 1 .. m : i < j /\ i \in S => j \in S
  PROVE  Replay(rs, keys, Said(rs, keys, n), S) = Said(rs, keys, m)
<1>1. ASSUME NEW k \in keys
      PROVE  (IF About(rs, k, S) = {} THEN Said(rs, keys, n)[k] ELSE rs[Max(About(rs, k, S))].value)
             = Said(rs, keys, m)[k]
  <2>1. About(rs, k, S) \subseteq About(rs, k, 1 .. m) /\ About(rs, k, 1 .. m) \subseteq 1 .. m
    BY DEF About
  <2>2. CASE About(rs, k, S) = {}
    <3>1. About(rs, k, 1 .. m) = About(rs, k, 1 .. n)
      BY <2>2 DEF About
    <3> QED
      BY <2>2, <3>1 DEF Said, Replay
  <2>3. CASE About(rs, k, S) # {}
    <3> DEFINE a == Max(About(rs, k, S))
               b == Max(About(rs, k, 1 .. m))
    <3>1. a \in About(rs, k, S) /\ \A x \in About(rs, k, S) : x <= a
      BY <2>1, <2>3, LastAbout
    <3>2. b \in About(rs, k, 1 .. m) /\ \A x \in About(rs, k, 1 .. m) : x <= b
      BY <2>1, <2>3, LastAbout
    <3> HIDE DEF a, b
    <3>3. a \in 1 .. m /\ b \in 1 .. m /\ a \in S /\ a <= b
      BY <2>1, <3>1, <3>2 DEF About
    <3>4. b \in S
      BY <3>3
    <3>5. b \in About(rs, k, S)
      BY <3>2, <3>4 DEF About
    <3>6. a = b
      BY <3>1, <3>3, <3>5
    <3>7. Said(rs, keys, m)[k] = rs[b].value
      BY <2>1, <2>3 DEF Said, Replay, b
    <3> QED
      BY <2>3, <3>6, <3>7 DEF a
  <2> QED
    BY <2>2, <2>3
<1>2. Said(rs, keys, m) = [k \in keys |-> Said(rs, keys, m)[k]]
  BY DEF Said, Replay
<1> QED
  BY <1>1, <1>2, Zenon DEF Replay

\* Frames about other keys say nothing.
LEMMA SaidShort ==
  ASSUME NEW rs, NEW keys, NEW m \in Nat, NEW n \in 0 .. m, \A i \in n + 1 .. m : rs[i].key \notin keys
  PROVE  Said(rs, keys, m) = Said(rs, keys, n)
<1>1. \A k \in keys : About(rs, k, 1 .. m) = About(rs, k, 1 .. n)
  BY DEF About
<1> QED
  BY <1>1, Zenon DEF Said, Replay

LEMMA SaidNothing ==
  ASSUME NEW rs, NEW keys
  PROVE  Said(rs, keys, 0) = Nothing(keys)
<1>1. \A k : About(rs, k, 1 .. 0) = {}
  BY DEF About
<1> QED
  BY <1>1 DEF Said, Replay, Nothing

----------------------------------------------------------------------------
(* What an open finds *)

\* The anchor holds what the first n frames said, and no later frame is in a
\* segment that its floor lets go or is a fork.
Covers(a, n) ==
    /\ a.branches = Said(records, BranchKeys, n)
    /\ a.meta = Said(records, MetaKeys, n)
    /\ \A i \in n + 1 .. Len(records) :
          records[i].seg >= a.floor /\ records[i].key \notin BranchKeys

InMemory ==
    /\ branches = Said(records, BranchKeys, Len(records))
    /\ meta = Said(records, MetaKeys, Len(records))

ForkedOnce ==
    \A i, j \in DOMAIN records :
        records[i].key = records[j].key /\ i # j => records[i].key \notin BranchKeys

Truth ==
    Told => /\ InMemory
            /\ ForkedOnce
            /\ \A f \in Files : \A a \in f : \E n \in 0 .. Len(records) : Covers(a, n)

\* A subject at position p is not behind the floor, or the anchor has a
\* bootstrap for it.
Served(x, p, m) ==
    p \in Nat /\ (p < m.floor => \E a \in m.sum : a.boots[<<"boot", x>>] = {m.floor})

Provided ==
    Told => \A m \in Manifests :
        /\ \A x \in Consumers : \A p \in Checkpoint(x) : Served(x, p, m)
        /\ \A x \in Branches : \A p \in ForkOf(x) : Served(x, p, m)

FeedsAbove ==
    /\ DOMAIN feeds = Consumers
    /\ \A x \in Consumers : \A p \in feeds[x] : p \in Nat /\ manifest.floor <= p

TruthInv == Truth /\ Provided /\ FeedsAbove

\* What is left of the frames is the last of them, and from the floor on all.
LEMMA FramesLeft ==
  ASSUME DiskInv, Told
  PROVE  /\ Len(records) \in Nat /\ DOMAIN records = 1 .. Len(records)
         /\ SystemRecords \in SUBSET (1 .. Len(records))
         /\ \A i, j \in 1 .. Len(records) : i < j /\ i \in SystemRecords => j \in SystemRecords
         /\ \A i \in 1 .. Len(records) : i \notin SystemRecords => records[i].seg < manifest.floor
<1>1. Len(records) \in Nat /\ DOMAIN records = 1 .. Len(records)
  BY DEF DiskInv, Frames
<1>2. SystemRecords = {i \in 1 .. Len(records) : records[i].seg \in files}
  BY <1>1 DEF SystemRecords
<1>3. \A f \in files, x \in bases : x >= f => x \in files
  BY DEF DiskInv, Suffix, Told, Forgetful
<1>4. bases \subseteq Nat /\ files \subseteq bases
  BY DEF DiskInv, KeptInv, Shape
<1>5. ASSUME NEW i \in 1 .. Len(records), NEW j \in 1 .. Len(records), i < j, i \in SystemRecords
      PROVE  j \in SystemRecords
  <2>1. records[i].seg \in files /\ records[j].seg \in bases /\ records[i].seg <= records[j].seg
    BY <1>1, <1>2, <1>5 DEF DiskInv, Frames
  <2>2. records[j].seg >= records[i].seg
    BY <1>4, <2>1
  <2> QED
    BY <1>2, <1>3, <2>1, <2>2
<1>6. ASSUME NEW i \in 1 .. Len(records), i \notin SystemRecords
      PROVE  records[i].seg < manifest.floor
  <2>1. records[i].seg \in bases /\ records[i].seg \notin files
    BY <1>1, <1>2, <1>6 DEF DiskInv, Frames
  <2>2. manifest.floor \in bases /\ \A x \in bases : x >= manifest.floor => x \in files
    BY DEF DiskInv, KeptInv, Floors, Manifests
  <2>3. ~(records[i].seg >= manifest.floor)
    BY <2>1, <2>2
  <2>4. records[i].seg \in Nat /\ manifest.floor \in Nat
    BY <1>4, <2>1, <2>2
  <2> QED
    BY <2>3, <2>4
<1> QED
  BY <1>1, <1>2, <1>5, <1>6

\* An anchor and the frames that are left say what all frames said.
LEMMA FromAnchor ==
  ASSUME DiskInv, Told, NEW a, NEW n \in 0 .. Len(records), Covers(a, n), a.floor = manifest.floor
  PROVE  /\ a.branches = Said(records, BranchKeys, Len(records))
         /\ Replayed(MetaKeys, a.meta, SystemRecords) = Said(records, MetaKeys, Len(records))
<1> DEFINE S == SystemRecords
<1>1. /\ Len(records) \in Nat /\ S \in SUBSET (1 .. Len(records))
      /\ \A i, j \in 1 .. Len(records) : i < j /\ i \in S => j \in S
      /\ \A i \in 1 .. Len(records) : i \notin S => records[i].seg < manifest.floor
  BY FramesLeft
<1> HIDE DEF S
<1>2. \A i \in n + 1 .. Len(records) : records[i].seg >= a.floor /\ records[i].key \notin BranchKeys
  BY DEF Covers
<1>3. ASSUME NEW i \in 1 .. Len(records), i \notin S PROVE i <= n
  <2>1. records[i].seg < manifest.floor /\ records[i].seg \in Nat /\ manifest.floor \in Nat
    BY <1>1, <1>3 DEF DiskInv, Frames, KeptInv, Shape, Floors, Manifests
  <2>2. i \notin n + 1 .. Len(records)
    BY <1>2, <2>1
  <2> QED
    BY <1>1, <2>2
<1>4. Replay(records, MetaKeys, Said(records, MetaKeys, n), S) = Said(records, MetaKeys, Len(records))
  BY <1>1, <1>3, SaidByRest
<1>5. Said(records, BranchKeys, Len(records)) = Said(records, BranchKeys, n)
  BY <1>1, <1>2, SaidShort
<1> QED
  BY <1>4, <1>5, ReplayedIs DEF Covers, S

\* All frames are left when the first segment is.
LEMMA FromLog ==
  ASSUME DiskInv, Told, NEW keys, SystemRecords = DOMAIN records
  PROVE  Replayed(keys, Nothing(keys), SystemRecords) = Said(records, keys, Len(records))
<1>1. SystemRecords = 1 .. Len(records)
  BY FramesLeft
<1> QED
  BY <1>1, ReplayedIs DEF Said

LEMMA WholeLog ==
  ASSUME DiskInv, Told, 0 \in files
  PROVE  SystemRecords = DOMAIN records
<1>1. \A x \in bases : x \in files
  BY DEF DiskInv, Suffix, Told, Forgetful, KeptInv, Shape
<1> QED
  BY <1>1 DEF SystemRecords, DiskInv, Frames

\* An open finds what was in memory.
LEMMA LoadedTruth ==
  ASSUME DiskInv, Truth, Told, Opens
  PROVE  LoadedBranches = branches /\ LoadedMeta = meta
<1>1. InMemory
  BY DEF Truth
<1>2. CASE ExactAnchor # None
  <2>1. PICK a \in ExactAnchor : a = CHOOSE x \in ExactAnchor : TRUE
    BY <1>2 DEF None
  <2>2. a \in anchorFile /\ a.floor = manifest.floor /\ anchorFile \in Files
    BY DEF ExactAnchor, Files
  <2>3. PICK n \in 0 .. Len(records) : Covers(a, n)
    BY <2>2 DEF Truth
  <2>4. /\ a.branches = Said(records, BranchKeys, Len(records))
        /\ Replayed(MetaKeys, a.meta, SystemRecords) = Said(records, MetaKeys, Len(records))
    BY <2>2, <2>3, FromAnchor
  <2> QED
    BY <1>1, <1>2, <2>1, <2>4 DEF LoadedBranches, LoadedMeta, InMemory
<1>3. CASE ExactAnchor = None
  <2>1. SystemRecords = DOMAIN records
    BY <1>3, WholeLog DEF Opens, CompletePrefix
  <2>2. /\ RebuiltBranches = Said(records, BranchKeys, Len(records))
        /\ Replayed(MetaKeys, Nothing(MetaKeys), SystemRecords) = Said(records, MetaKeys, Len(records))
    BY <2>1, FromLog DEF RebuiltBranches
  <2> QED
    BY <1>1, <1>3, <2>2 DEF LoadedBranches, LoadedMeta, InMemory
<1> QED
  BY <1>2, <1>3

\* Steps that leave the frames and what is in memory of them alone.
LEMMA TruthAlone ==
  ASSUME Truth, UNCHANGED <<records, branches, meta>>, Told' => Told,
         \A f \in Files' : f \in Files \/ f = None
  PROVE  Truth'
<1> SUFFICES ASSUME Told' PROVE (InMemory /\ ForkedOnce)' /\ \A f \in Files' : \A a \in f :
                                    \E n \in 0 .. Len(records') : Covers(a, n)'
  BY DEF Truth
<1>1. InMemory /\ ForkedOnce
  BY DEF Truth
<1>2. InMemory' /\ ForkedOnce'
  BY <1>1 DEF InMemory, ForkedOnce
<1>3. \A a, n : Covers(a, n)' = Covers(a, n)
  BY DEF Covers
<1>4. ASSUME NEW f \in Files', NEW a \in f PROVE \E n \in 0 .. Len(records') : Covers(a, n)'
  <2>1. f \in Files
    BY <1>4 DEF None
  <2> QED
    BY <1>3, <2>1 DEF Truth
<1> QED
  BY <1>2, <1>4

\* Steps that bring no new manifest and move nobody.
LEMMA ProvidedAlone ==
  ASSUME Provided, Told' => Told /\ branches' = branches /\ meta' = meta, Manifests' \subseteq Manifests
  PROVE  Provided'
<1> SUFFICES ASSUME Told', NEW m \in Manifests'
             PROVE  /\ \A x \in Consumers : \A p \in Checkpoint(x)' : Served(x, p, m)
                    /\ \A x \in Branches : \A p \in ForkOf(x)' : Served(x, p, m)
  BY DEF Provided, Served
<1>1. Told /\ m \in Manifests /\ branches' = branches /\ meta' = meta
  OBVIOUS
<1>2. \A x : Checkpoint(x)' = Checkpoint(x) /\ ForkOf(x)' = ForkOf(x)
  BY <1>1 DEF Checkpoint, ForkOf
<1> QED
  BY <1>1, <1>2 DEF Provided

LEMMA FeedsAlone ==
  ASSUME FeedsAbove, feeds' = feeds, manifest' = manifest
  PROVE  FeedsAbove'
BY DEF FeedsAbove

\* Steps that touch neither frames, feeds nor the manifest.
LEMMA QuietTruth ==
  ASSUME DiskInv, AnchorInv, TruthInv,
         \/ Commit \/ FinishApply \/ RenameAnchor \/ SettleManifest
         \/ \E at : PlanRetention(at)
         \/ \E ok \in BOOLEAN : ReclaimSegment(ok)
         \/ \E roll : AppendEvent(roll)
  PROVE  TruthInv'
<1>1. UNCHANGED <<records, branches, meta, feeds, manifest>>
  BY DEF Commit, FinishApply, RenameAnchor, SettleManifest, PlanRetention, ReclaimSegment, AppendEvent,
         disk, memory
<1>2. Told' => Told
  BY DEF Commit, FinishApply, RenameAnchor, SettleManifest, PlanRetention, ReclaimSegment, AppendEvent,
         Told, Forgetful
<1>3. restorable' = restorable \/ restorable'.manifest \in {restorable.manifest, {}}
  BY DEF Commit, FinishApply, RenameAnchor, SettleManifest, PlanRetention, ReclaimSegment, AppendEvent,
         Rolled, disk, DiskInv, KeptInv, Shape
<1>4. Manifests' \subseteq Manifests
  BY <1>1, <1>3 DEF Manifests
<1>5. \A f \in Files' : f \in Files \/ f = None
  <2>1. CASE RenameAnchor
    <3>1. /\ step = "rename" /\ step' = "settle" /\ anchorFile' = next /\ next' = next
          /\ restorable'.file = restorable.file \cup {None}
      BY <2>1 DEF RenameAnchor, DiskInv, KeptInv, Shape
    <3> QED
      BY <3>1 DEF Files
  <2>2. CASE ~RenameAnchor
    <3>1. /\ anchorFile' = anchorFile /\ step' \notin {"rename", "settle"}
          /\ restorable'.file = restorable.file
      BY <2>2 DEF Commit, FinishApply, SettleManifest, PlanRetention, ReclaimSegment, AppendEvent, Rolled,
                  disk, DiskInv, KeptInv, Shape
    <3> QED
      BY <3>1 DEF Files
  <2> QED
    BY <2>1, <2>2
<1> QED
  BY <1>1, <1>2, <1>4, <1>5, TruthAlone, ProvidedAlone, FeedsAlone DEF TruthInv

\* A close, a kill or a power loss forgets the feeds.
LEMMA DownTruth ==
  ASSUME DiskInv, AnchorInv, TruthInv, Stop \/ PowerLoss
  PROVE  TruthInv'
<1>1. UNCHANGED <<records, branches, meta, lapses>> /\ feeds' = NoFeeds /\ step' = "down"
  BY DEF Stop, PowerLoss, Down, disk
<1>2. Manifests' \subseteq Manifests /\ Files' \subseteq Files
  BY <1>1 DEF Stop, PowerLoss, disk, Manifests, Files
<1>3. FeedsAbove'
  BY <1>1 DEF FeedsAbove, NoFeeds, None
<1>4. Truth'
  BY <1>1, <1>2, TruthAlone DEF TruthInv, Told
<1>5. Provided'
  BY <1>1, <1>2, ProvidedAlone DEF TruthInv, Told
<1> QED
  BY <1>3, <1>4, <1>5 DEF TruthInv

\* What a step puts in memory instead is the same, while nothing is forgotten.
LEMMA MemoryTruth ==
  ASSUME TruthInv, records' = records, Told' => Told,
         Told' => branches' = branches /\ meta' = meta,
         Told' => \A f \in Files' : \A a \in f :
                     f \in Files \/ \E n \in 0 .. Len(records) : Covers(a, n)',
         Manifests' \subseteq Manifests, feeds' = feeds, manifest' = manifest
  PROVE  TruthInv'
<1>1. Truth'
  <2> SUFFICES ASSUME Told'
               PROVE  (InMemory /\ ForkedOnce)' /\ \A f \in Files' : \A a \in f :
                         \E n \in 0 .. Len(records') : Covers(a, n)'
    BY DEF Truth
  <2>1. Told /\ InMemory /\ ForkedOnce
    BY DEF TruthInv, Truth
  <2>2. InMemory' /\ ForkedOnce'
    BY <2>1 DEF InMemory, ForkedOnce
  <2>3. \A a, n : Covers(a, n)' = Covers(a, n)
    BY DEF Covers
  <2>4. ASSUME NEW f \in Files', NEW a \in f PROVE \E n \in 0 .. Len(records') : Covers(a, n)'
    <3>1. CASE f \in Files
      BY <2>1, <2>3, <3>1 DEF TruthInv, Truth
    <3>2. CASE f \notin Files
      BY <3>2
    <3> QED
      BY <3>1, <3>2
  <2> QED
    BY <2>2, <2>4
<1>2. Provided'
  BY ProvidedAlone DEF TruthInv
<1>3. FeedsAbove'
  BY FeedsAlone DEF TruthInv
<1> QED
  BY <1>1, <1>2, <1>3 DEF TruthInv

LEMMA CreateAnchorTruth ==
  ASSUME DiskInv, AnchorInv, TruthInv, NEW keepFrom, CreateAnchor(keepFrom)
  PROVE  TruthInv'
<1>1. /\ UNCHANGED <<records, meta, feeds, manifest>> /\ lapses \subseteq lapses'
      /\ restorable'.manifest = restorable.manifest
  BY DEF CreateAnchor, DiskInv, KeptInv, Shape
<1>2. Told' => Told
  BY <1>1 DEF Told
<1>3. PICK new : new = AnchorFor(keepFrom)
  OBVIOUS
<1>4. Told' => /\ new.branches = Said(records, BranchKeys, Len(records))
               /\ new.meta = Said(records, MetaKeys, Len(records))
  <2> SUFFICES ASSUME Told' PROVE /\ new.branches = Said(records, BranchKeys, Len(records))
                                  /\ new.meta = Said(records, MetaKeys, Len(records))
    OBVIOUS
  <2>1. SystemRecords = DOMAIN records
    BY DEF CreateAnchor, Told, Forgetful
  <2>2. new.branches = RebuiltBranches /\ new.meta = Replayed(MetaKeys, Nothing(MetaKeys), SystemRecords)
    BY <1>3 DEF AnchorFor, NewAnchor
  <2> QED
    BY <1>2, <2>1, <2>2, FromLog DEF RebuiltBranches
<1>5. Told' => branches' = branches
  <2>1. branches' \in {branches, new.branches}
    BY <1>3 DEF CreateAnchor, AnchorFor
  <2> QED
    BY <1>2, <1>4, <2>1 DEF TruthInv, Truth, InMemory
<1>6. Told' => \A f \in Files' : \A a \in f : f \in Files \/ \E n \in 0 .. Len(records) : Covers(a, n)'
  <2> SUFFICES ASSUME Told', NEW f \in Files', NEW a \in f, f \notin Files
               PROVE  \E n \in 0 .. Len(records) : Covers(a, n)'
    OBVIOUS
  <2>1. f = {new}
    <3>1. CASE FileFits(keepFrom)
      <4>1. step' = "idle" /\ anchorFile' = anchorFile /\ restorable' = restorable
        BY <3>1 DEF CreateAnchor, FileFits, AnchorFor
      <4> QED
        BY <4>1 DEF Files
    <3>2. CASE ~FileFits(keepFrom)
      <4>1. step' = "rename" /\ anchorFile' = None /\ next' = {new}
        BY <1>3, <3>2 DEF CreateAnchor, FileFits, AnchorFor
      <4>2. restorable' = [restorable EXCEPT !.file = @ \cup {anchorFile}]
        BY <3>2 DEF CreateAnchor, FileFits, AnchorFor
      <4>3. restorable'.file = restorable.file \cup {anchorFile}
        BY <4>2 DEF DiskInv, KeptInv, Shape
      <4> QED
        BY <4>1, <4>3 DEF Files, None
    <3> QED
      BY <3>1, <3>2
  <2>2. Len(records) \in Nat
    BY <1>2, FramesLeft
  <2>3. Covers(new, Len(records))'
    BY <1>1, <1>4, <2>2 DEF Covers
  <2> QED
    BY <1>1, <2>1, <2>2, <2>3
<1> QED
  BY <1>1, <1>2, <1>5, <1>6, MemoryTruth DEF Manifests

LEMMA SettleTruth ==
  ASSUME DiskInv, AnchorInv, TruthInv, SettleAnchor
  PROVE  TruthInv'
<1>1. /\ UNCHANGED <<records, meta, feeds, manifest, lapses, anchorFile>>
      /\ step = "settle" /\ step' = "idle"
      /\ restorable'.file = {} /\ restorable'.manifest = restorable.manifest
  BY DEF SettleAnchor, DiskInv, KeptInv, Shape
<1>2. Files' \subseteq Files /\ Manifests' \subseteq Manifests /\ next \in Files
  BY <1>1 DEF Files, Manifests
<1>3. Told => branches' = branches
  <2> SUFFICES ASSUME Told PROVE branches' = branches
    OBVIOUS
  <2>1. PICK a \in next : branches' = a.branches
    BY <1>1 DEF SettleAnchor, AnchorInv, Held, None
  <2>2. PICK n \in 0 .. Len(records) : Covers(a, n)
    BY <1>2 DEF TruthInv, Truth
  <2>3. Said(records, BranchKeys, Len(records)) = Said(records, BranchKeys, n)
    BY <2>2, FramesLeft, SaidShort DEF Covers
  <2> QED
    BY <2>1, <2>2, <2>3 DEF Covers, TruthInv, Truth, InMemory
<1>4. Told' = Told
  BY <1>1 DEF Told
<1> QED
  BY <1>1, <1>2, <1>3, <1>4, MemoryTruth

LEMMA OpenTruth ==
  ASSUME DiskInv, AnchorInv, TruthInv, Open
  PROVE  TruthInv'
<1>1. /\ UNCHANGED <<records, feeds, manifest, lapses, anchorFile, restorable>>
      /\ step' = "idle" /\ Opens /\ branches' = LoadedBranches /\ meta' = LoadedMeta
  BY DEF Open, disk
<1>2. Files' \subseteq Files /\ Manifests' \subseteq Manifests
  BY <1>1 DEF Files, Manifests
<1>3. Told => branches' = branches /\ meta' = meta
  BY <1>1, LoadedTruth DEF TruthInv
<1>4. Told' = Told
  BY <1>1 DEF Told
<1> QED
  BY <1>1, <1>2, <1>3, <1>4, MemoryTruth

\* The new floor leaves behind only who the anchor has a bootstrap for.
LEMMA ApplyTruth ==
  ASSUME DiskInv, AnchorInv, TruthInv, ApplyRetention
  PROVE  TruthInv'
<1>1. PICK p \in plan :
        Current(p) /\ manifest' = [floor |-> p.floor, gen |-> manifest.gen + 1, sum |-> anchor]
  BY DEF ApplyRetention
<1>2. /\ UNCHANGED <<records, branches, meta, feeds, anchorFile>>
      /\ restorable'.file = restorable.file
      /\ restorable'.manifest = restorable.manifest \cup {manifest}
      /\ lapses \subseteq lapses' /\ step' = "switched"
  BY DEF ApplyRetention, memory, DiskInv, KeptInv, Shape
<1>3. manifest'.floor = p.floor /\ manifest'.sum = anchor /\ p.floor \in Nat
  BY <1>1, Accepted
<1>4. Manifests' = Manifests \cup {manifest'} /\ Files' \subseteq Files
  BY <1>2 DEF Manifests, Files
<1>5. Told' => Told
  BY <1>2 DEF Told
<1>6. Truth'
  BY <1>2, <1>4, <1>5, TruthAlone DEF TruthInv
<1>7. ~Blocked(p.floor)
  BY <1>1 DEF Current
<1>8. Provided'
  <2> SUFFICES ASSUME Told', NEW m \in Manifests'
               PROVE  /\ \A x \in Consumers : \A q \in Checkpoint(x)' : Served(x, q, m)
                      /\ \A x \in Branches : \A q \in ForkOf(x)' : Served(x, q, m)
    BY DEF Provided, Served
  <2>1. \A x : Checkpoint(x)' = Checkpoint(x) /\ ForkOf(x)' = ForkOf(x)
    BY <1>2 DEF Checkpoint, ForkOf
  <2>2. CASE m \in Manifests
    BY <1>5, <2>1, <2>2 DEF TruthInv, Provided
  <2>3. CASE m = manifest'
    <3>1. manifest \in Manifests
      BY DEF Manifests
    <3>2. ASSUME NEW x \in Consumers, NEW q \in Checkpoint(x) PROVE Served(x, q, m)
      <4>1. q \in Nat
        BY <1>5, <3>1 DEF TruthInv, Provided, Served
      <4>2. ASSUME q < p.floor PROVE \E a \in anchor : a.boots[<<"boot", x>>] = {p.floor}
        <5>1. Behind(x, p.floor)
          BY <4>2 DEF Behind
        <5> QED
          BY <1>7, <5>1 DEF Blocked, HasBootstrap
      <4> QED
        BY <1>3, <2>3, <4>1, <4>2 DEF Served
    <3>3. ASSUME NEW x \in Branches, NEW q \in ForkOf(x) PROVE Served(x, q, m)
      <4>1. q \in Nat
        BY <1>5, <3>1 DEF TruthInv, Provided, Served
      <4>2. ASSUME q < p.floor PROVE \E a \in anchor : a.boots[<<"boot", x>>] = {p.floor}
        BY <1>7, <4>2 DEF Blocked, HasBootstrap
      <4> QED
        BY <1>3, <2>3, <4>1, <4>2 DEF Served
    <3> QED
      BY <2>1, <3>2, <3>3
  <2> QED
    BY <1>4, <2>2, <2>3
<1>9. FeedsAbove'
  <2>1. \A x \in Consumers : feeds[x] = None
    BY <1>7 DEF Blocked
  <2> QED
    BY <1>2, <2>1 DEF TruthInv, FeedsAbove, None
<1> QED
  BY <1>6, <1>8, <1>9 DEF TruthInv

\* A feed is read from the floor on.
LEMMA FeedTruth ==
  ASSUME DiskInv, AnchorInv, TruthInv, NEW c \in Consumers, NEW position, SetFeed(c, position),
         \A p \in position : p \in Nat /\ manifest.floor <= p
  PROVE  TruthInv'
<1>1. UNCHANGED <<records, branches, meta, manifest, anchorFile, restorable, lapses, step, next>>
  BY DEF SetFeed, disk
<1>2. Told' = Told /\ Files' = Files /\ Manifests' = Manifests
  BY <1>1 DEF Told, Files, Manifests
<1>3. FeedsAbove'
  BY <1>1 DEF SetFeed, TruthInv, FeedsAbove
<1> QED
  BY <1>1, <1>2, <1>3, TruthAlone, ProvidedAlone DEF TruthInv

LEMMA FeedStepTruth ==
  ASSUME DiskInv, AnchorInv, TruthInv, NEW c \in Consumers,
         \/ \E p \in 0 .. MaxEvents : OpenFeed(c, p) \/ NextFeedPage(c, p)
         \/ ResumeFeed(c) \/ CloseFeed(c)
  PROVE  TruthInv'
<1>1. manifest.floor \in Nat /\ durable \in Nat
  BY DEF DiskInv, KeptInv, Floors, Manifests, Shape
<1>2. \A q \in feeds[c] : q \in Nat /\ manifest.floor <= q
  BY DEF TruthInv, FeedsAbove
<1>3. ASSUME NEW p, OpenFeed(c, p) PROVE TruthInv'
  <2>1. \A q \in {p} : q \in Nat /\ manifest.floor <= q
    BY <1>1, <1>3 DEF OpenFeed, ValidFeed
  <2> QED
    BY <1>3, <2>1, FeedTruth DEF OpenFeed
<1>4. ASSUME NEW p, NextFeedPage(c, p) PROVE TruthInv'
  <2>1. \A q \in {p} : q \in Nat /\ manifest.floor <= q
    BY <1>1, <1>2, <1>4 DEF NextFeedPage
  <2> QED
    BY <1>4, <2>1, FeedTruth DEF NextFeedPage
<1>5. CASE ResumeFeed(c)
  <2>1. \A q \in {manifest.floor} : q \in Nat /\ manifest.floor <= q
    BY <1>1
  <2> QED
    BY <1>5, <2>1, FeedTruth DEF ResumeFeed
<1>6. CASE CloseFeed(c)
  BY <1>6, FeedTruth DEF CloseFeed, None
<1> QED
  BY <1>3, <1>4, <1>5, <1>6

----------------------------------------------------------------------------
(* A frame more *)

\* What frames say after one more.
LEMMA SaidAfter ==
  ASSUME DiskInv, NEW roll, NEW key, NEW value, Record(roll, key, value)
  PROVE  /\ Len(records) \in Nat /\ Len(records') = Len(records) + 1
         /\ DOMAIN records = 1 .. Len(records) /\ DOMAIN records' = 1 .. Len(records) + 1
         /\ \A i \in 1 .. Len(records) : records'[i] = records[i]
         /\ records'[Len(records) + 1].key = key /\ records'[Len(records) + 1].value = value
         /\ \A keys : \A n \in 0 .. Len(records) : Said(records', keys, n) = Said(records, keys, n)
         /\ \A keys : Said(records', keys, Len(records) + 1) =
               [k \in keys |-> IF k = key THEN value ELSE Said(records, keys, Len(records))[k]]
<1> DEFINE r == [seg |-> IF roll THEN head ELSE Active, key |-> key, value |-> value]
           len == Len(records)
<1>1. records' = Append(records, r) /\ r.key = key /\ r.value = value
  BY DEF Record
<1> HIDE DEF r
<1>2. records \in Seq({records[i] : i \in DOMAIN records})
  BY DEF DiskInv, Frames
<1>3. /\ len \in Nat /\ Len(records') = len + 1
      /\ DOMAIN records = 1 .. len /\ DOMAIN records' = 1 .. len + 1
      /\ \A i \in 1 .. len : records'[i] = records[i]
      /\ records'[len + 1].key = key /\ records'[len + 1].value = value
  BY <1>1, <1>2, Longer
<1> HIDE DEF len
<1>4. ASSUME NEW keys, NEW n \in 0 .. len PROVE Said(records', keys, n) = Said(records, keys, n)
  <2>1. n \in Nat /\ \A i \in 1 .. n : records'[i] = records[i]
    BY <1>3
  <2> QED
    BY <2>1, SaidPrefix
<1>5. ASSUME NEW keys
      PROVE  Said(records', keys, len + 1) =
               [k \in keys |-> IF k = key THEN value ELSE Said(records, keys, len)[k]]
  <2>1. len \in 0 .. len
    BY <1>3
  <2>2. Said(records', keys, len) = Said(records, keys, len)
    BY <1>4, <2>1
  <2>3. Said(records', keys, len + 1) =
          [k \in keys |-> IF k = records'[len + 1].key THEN records'[len + 1].value
                          ELSE Said(records', keys, len)[k]]
    BY <1>3, SaidAdds
  <2> QED
    BY <1>3, <2>2, <2>3
<1> QED
  BY <1>3, <1>4, <1>5 DEF len

\* What is said is a function of the keys.
LEMMA SaidIs ==
  ASSUME NEW rs, NEW keys, NEW n
  PROVE  Said(rs, keys, n) = [k \in keys |-> Said(rs, keys, n)[k]]
BY DEF Said, Replay

LEMMA KeysApart == BranchKeys \cap MetaKeys = {}
BY DEF BranchKeys, MetaKeys, BootKeys

\* A checkpoint, a registration or a bootstrap.
LEMMA NoteTruth ==
  ASSUME DiskInv, AnchorInv, TruthInv, NEW roll, NEW key \in MetaKeys, NEW value, Note(roll, key, value),
         \A c \in Consumers : key = <<"ack", c>> =>
            \A p \in value : p \in Nat /\ manifest.floor <= p
  PROVE  TruthInv'
<1>1. /\ Record(roll, key, value) /\ meta' = [meta EXCEPT ![key] = value]
      /\ UNCHANGED <<branches, feeds, lapses>>
  BY DEF Note
<1>2. /\ step = "idle" /\ step' = "idle" /\ UNCHANGED <<manifest, anchorFile>>
      /\ restorable'.file = restorable.file /\ restorable'.manifest \in {restorable.manifest, {}}
      /\ bases \subseteq bases'
  BY <1>1 DEF Record, Rolled, DiskInv, KeptInv, Shape
<1>3. Files' = Files /\ Manifests' \subseteq Manifests /\ Told' = Told
  BY <1>1, <1>2 DEF Files, Manifests, Told
<1>4. key \notin BranchKeys
  BY KeysApart
<1>5. /\ Len(records) \in Nat /\ Len(records') = Len(records) + 1
      /\ DOMAIN records = 1 .. Len(records) /\ DOMAIN records' = 1 .. Len(records) + 1
      /\ \A i \in 1 .. Len(records) : records'[i] = records[i]
      /\ records'[Len(records) + 1].key = key
  BY <1>1, SaidAfter
<1>6. /\ \A keys : \A n \in 0 .. Len(records) : Said(records', keys, n) = Said(records, keys, n)
      /\ \A keys : Said(records', keys, Len(records) + 1) =
            [k \in keys |-> IF k = key THEN value ELSE Said(records, keys, Len(records))[k]]
  BY <1>1, SaidAfter
<1>7. Told => InMemory'
  <2> SUFFICES ASSUME Told PROVE InMemory'
    OBVIOUS
  <2>1. InMemory
    BY DEF TruthInv, Truth
  <2>2. Said(records', BranchKeys, Len(records')) = branches'
    <3>1. Said(records', BranchKeys, Len(records')) =
            [k \in BranchKeys |-> Said(records, BranchKeys, Len(records))[k]]
      BY <1>4, <1>5, <1>6
    <3> QED
      BY <1>1, <2>1, <3>1, SaidIs DEF InMemory
  <2>3. Said(records', MetaKeys, Len(records')) = meta'
    <3>1. meta = [k \in MetaKeys |-> meta[k]]
      BY <2>1, SaidIs DEF InMemory
    <3>2. meta' = [k \in MetaKeys |-> IF k = key THEN value ELSE meta[k]]
      BY <1>1, <3>1
    <3> QED
      BY <1>5, <1>6, <2>1, <3>2 DEF InMemory
  <2> QED
    BY <2>2, <2>3 DEF InMemory
<1>8. Told => ForkedOnce'
  <2> SUFFICES ASSUME Told, NEW i \in DOMAIN records', NEW j \in DOMAIN records',
                      records'[i].key = records'[j].key, i # j
               PROVE  records'[i].key \notin BranchKeys
    BY DEF ForkedOnce
  <2>1. CASE i = Len(records) + 1 \/ j = Len(records) + 1
    BY <1>4, <1>5, <2>1
  <2>2. CASE i # Len(records) + 1 /\ j # Len(records) + 1
    <3>1. /\ i \in DOMAIN records /\ records'[i] = records[i]
          /\ j \in DOMAIN records /\ records'[j] = records[j]
      BY <1>5, <2>2
    <3> QED
      BY <3>1 DEF TruthInv, Truth, ForkedOnce
  <2> QED
    BY <2>1, <2>2
<1>9. ASSUME Told, NEW f \in Files', NEW a \in f PROVE \E n \in 0 .. Len(records') : Covers(a, n)'
  <2>1. PICK n \in 0 .. Len(records) : Covers(a, n)
    BY <1>3, <1>9 DEF TruthInv, Truth
  <2>2. Placed(a)
    BY <1>3, <1>9 DEF AnchorInv, AnchorForm
  <2>3. \A x \in bases' : x <= records'[Len(records')].seg
    BY <1>1, <1>4, RecordFrames
  <2>4. a.floor <= records'[Len(records')].seg
    BY <1>2, <2>2, <2>3 DEF Placed
  <2>5. Frames'
    BY <1>1, <1>4, RecordFrames
  <2>6. records'[Len(records')].seg >= a.floor
    <3>1. records'[Len(records')].seg \in bases' /\ bases' \subseteq Nat
      BY <1>1, <1>5, <2>5, RecordKeeps DEF Frames, DiskInv, KeptInv, Shape
    <3> QED
      BY <1>2, <2>2, <2>4, <3>1 DEF Placed
  <2>7. ASSUME NEW i \in n + 1 .. Len(records')
        PROVE  records'[i].seg >= a.floor /\ records'[i].key \notin BranchKeys
    <3>1. CASE i = Len(records')
      BY <1>4, <1>5, <2>6, <3>1
    <3>2. CASE i # Len(records')
      <4>1. i \in n + 1 .. Len(records) /\ i \in 1 .. Len(records)
        BY <1>5, <3>2
      <4> QED
        BY <1>5, <2>1, <4>1 DEF Covers
    <3> QED
      BY <3>1, <3>2
  <2>8. Covers(a, n)'
    <3>1. a.branches = Said(records', BranchKeys, n) /\ a.meta = Said(records', MetaKeys, n)
      BY <1>6, <2>1 DEF Covers
    <3> QED
      BY <2>7, <3>1 DEF Covers
  <2> QED
    BY <1>5, <2>8
<1>10. Truth'
  BY <1>3, <1>7, <1>8, <1>9 DEF Truth
<1>11. Provided'
  <2> SUFFICES ASSUME Told, NEW m \in Manifests'
               PROVE  /\ \A x \in Consumers : \A p \in Checkpoint(x)' : Served(x, p, m)
                      /\ \A x \in Branches : \A p \in ForkOf(x)' : Served(x, p, m)
    BY <1>3 DEF Provided, Served
  <2>1. m \in Manifests /\ m.floor \in Nat /\ manifest.floor \in Nat /\ m.floor <= manifest.floor
    BY <1>3 DEF AnchorInv, Sums, DiskInv, KeptInv, Floors, Shape, Manifests
  <2>2. ASSUME NEW x \in Consumers, NEW p \in Checkpoint(x)' PROVE Served(x, p, m)
    <3>1. meta = [k \in MetaKeys |-> meta[k]]
      BY SaidIs DEF TruthInv, Truth, InMemory
    <3>2. CASE key = <<"ack", x>>
      <4>1. Checkpoint(x)' = value
        BY <1>1, <3>1, <3>2 DEF Checkpoint
      <4> QED
        BY <2>1, <2>2, <3>2, <4>1 DEF Served
    <3>3. CASE key # <<"ack", x>>
      <4>1. <<"ack", x>> \in MetaKeys
        BY DEF MetaKeys
      <4>2. Checkpoint(x)' = Checkpoint(x)
        BY <1>1, <3>1, <3>3, <4>1 DEF Checkpoint
      <4> QED
        BY <2>1, <2>2, <4>2 DEF TruthInv, Provided
    <3> QED
      BY <3>2, <3>3
  <2>3. \A x : ForkOf(x)' = ForkOf(x)
    BY <1>1 DEF ForkOf
  <2> QED
    BY <2>1, <2>2, <2>3 DEF TruthInv, Provided
<1> QED
  BY <1>1, <1>2, <1>10, <1>11, FeedsAlone DEF TruthInv

\* A fork, made while there is no anchor to miss it.
LEMMA ForkTruth ==
  ASSUME DiskInv, AnchorInv, TruthInv, NEW roll, NEW b \in Branches, NEW at \in 0 .. MaxEvents,
         ForkBranch(roll, b, at)
  PROVE  TruthInv'
<1> DEFINE key == <<"branch", b>>
<1>0. key \in BranchKeys /\ key \notin MetaKeys
  BY DEF BranchKeys, MetaKeys, BootKeys
<1>1. /\ Record(roll, key, {at}) /\ branches' = [branches EXCEPT ![key] = {at}]
      /\ UNCHANGED <<meta, feeds>> /\ ForkOf(b) = None
      /\ lapses \subseteq lapses' /\ (AnchorFiles # {} => "forked" \in lapses')
  BY DEF ForkBranch
<1> HIDE DEF key
<1>2. /\ step = "idle" /\ step' = "idle" /\ UNCHANGED <<manifest, anchorFile>>
      /\ restorable'.file = restorable.file /\ restorable'.manifest \in {restorable.manifest, {}}
  BY <1>1 DEF Record, Rolled, DiskInv, KeptInv, Shape
<1>3. Files' = Files /\ Manifests' \subseteq Manifests /\ (Told' => Told)
  BY <1>1, <1>2 DEF Files, Manifests, Told
<1>4. Told' => \A f \in Files' : f = {}
  <2> SUFFICES ASSUME Told', NEW f \in Files PROVE f = {}
    BY <1>3
  <2>1. AnchorFiles = {}
    BY <1>1 DEF Told, Forgetful
  <2> QED
    BY <1>2, <2>1 DEF AnchorFiles, Files
<1>5. /\ Len(records) \in Nat /\ Len(records') = Len(records) + 1
      /\ DOMAIN records = 1 .. Len(records) /\ DOMAIN records' = 1 .. Len(records) + 1
      /\ \A i \in 1 .. Len(records) : records'[i] = records[i]
      /\ records'[Len(records) + 1].key = key
  BY <1>1, SaidAfter
<1>6. ASSUME NEW keys
      PROVE  Said(records', keys, Len(records) + 1) =
               [k \in keys |-> IF k = key THEN {at} ELSE Said(records, keys, Len(records))[k]]
  <2>1. PICK value : value = {at}
    OBVIOUS
  <2>2. Record(roll, key, value)
    BY <1>1, <2>1
  <2>3. Said(records', keys, Len(records) + 1) =
          [k \in keys |-> IF k = key THEN value ELSE Said(records, keys, Len(records))[k]]
    BY <2>2, SaidAfter
  <2> QED
    BY <2>1, <2>3, Zenon
<1>7. Told => InMemory'
  <2> SUFFICES ASSUME Told PROVE InMemory'
    OBVIOUS
  <2>1. InMemory
    BY DEF TruthInv, Truth
  <2>2. Said(records', MetaKeys, Len(records')) = meta'
    <3>1. Said(records', MetaKeys, Len(records')) =
            [k \in MetaKeys |-> Said(records, MetaKeys, Len(records))[k]]
      BY <1>0, <1>5, <1>6
    <3> QED
      BY <1>1, <2>1, <3>1, SaidIs DEF InMemory
  <2>3. Said(records', BranchKeys, Len(records')) = branches'
    <3>1. branches = [k \in BranchKeys |-> branches[k]]
      BY <2>1, SaidIs DEF InMemory
    <3>2. branches' = [k \in BranchKeys |-> IF k = key THEN {at} ELSE branches[k]]
      BY <1>1, <3>1
    <3> QED
      BY <1>5, <1>6, <2>1, <3>2 DEF InMemory
  <2> QED
    BY <2>2, <2>3 DEF InMemory
<1>8. ASSUME Told, NEW i \in DOMAIN records PROVE records[i].key # key
  <2> SUFFICES ASSUME records[i].key = key PROVE FALSE
    OBVIOUS
  <2> DEFINE A == About(records, key, 1 .. Len(records))
  <2>1. i \in A /\ A \in SUBSET (1 .. Len(records))
    BY <1>5 DEF About
  <2>2. Said(records, BranchKeys, Len(records))[key] = records[Max(A)].value
    BY <1>0, <2>1 DEF Said, Replay
  <2>3. Max(A) \in A
    <3> HIDE DEF A
    <3> QED
      BY <1>5, <2>1, LastAbout
  <2>4. Max(A) \in DOMAIN records /\ records[Max(A)].key = key
    BY <1>5, <2>3 DEF About
  <2>5. records[Max(A)].value # None
    BY <1>0, <2>4 DEF DiskInv, Frames
  <2>6. branches[key] = None
    BY <1>1 DEF ForkOf, key
  <2>7. branches = Said(records, BranchKeys, Len(records))
    BY <1>8 DEF TruthInv, Truth, InMemory
  <2> HIDE DEF A
  <2> QED
    BY <2>2, <2>5, <2>6, <2>7, Zenon
<1>9. Told => ForkedOnce'
  <2> SUFFICES ASSUME Told, NEW i \in DOMAIN records', NEW j \in DOMAIN records',
                      records'[i].key = records'[j].key, i # j
               PROVE  records'[i].key \notin BranchKeys
    BY DEF ForkedOnce
  <2>1. \A k \in DOMAIN records' : k = Len(records) + 1 \/ k \in DOMAIN records
    BY <1>5
  <2>2. CASE i = Len(records) + 1
    <3>1. j \in DOMAIN records /\ records'[j] = records[j] /\ records'[i].key = key
      BY <1>5, <2>1, <2>2
    <3> QED
      BY <1>8, <3>1
  <2>3. CASE j = Len(records) + 1
    <3>1. i \in DOMAIN records /\ records'[i] = records[i] /\ records'[j].key = key
      BY <1>5, <2>1, <2>3
    <3> QED
      BY <1>8, <3>1
  <2>4. CASE i \in DOMAIN records /\ j \in DOMAIN records
    BY <1>5, <2>4 DEF TruthInv, Truth, ForkedOnce
  <2> QED
    BY <2>1, <2>2, <2>3, <2>4
<1>10. Truth'
  BY <1>3, <1>4, <1>7, <1>9 DEF Truth
<1>11. Provided'
  <2> SUFFICES ASSUME Told, NEW m \in Manifests'
               PROVE  /\ \A x \in Consumers : \A p \in Checkpoint(x)' : Served(x, p, m)
                      /\ \A x \in Branches : \A p \in ForkOf(x)' : Served(x, p, m)
    BY <1>3 DEF Provided, Served
  <2>1. m \in Manifests /\ m.floor \in Nat /\ manifest.floor \in Nat /\ m.floor <= manifest.floor
    BY <1>3 DEF AnchorInv, Sums, DiskInv, KeptInv, Floors, Shape, Manifests
  <2>2. manifest.floor <= at /\ at \in Nat
    BY <2>1 DEF ForkBranch
  <2>3. ASSUME NEW x \in Branches, NEW p \in ForkOf(x)' PROVE Served(x, p, m)
    <3>1. branches = [k \in BranchKeys |-> branches[k]]
      BY SaidIs DEF TruthInv, Truth, InMemory
    <3>2. <<"branch", x>> \in BranchKeys
      BY DEF BranchKeys
    <3>3. CASE x = b
      <4>1. ForkOf(x)' = {at}
        BY <1>1, <3>1, <3>2, <3>3 DEF ForkOf, key
      <4> QED
        BY <2>1, <2>2, <2>3, <4>1 DEF Served
    <3>4. CASE x # b
      <4>1. <<"branch", x>> # key
        BY <3>4 DEF key
      <4>2. ForkOf(x)' = ForkOf(x)
        BY <1>1, <3>1, <3>2, <4>1 DEF ForkOf
      <4> QED
        BY <2>1, <2>3, <4>2 DEF TruthInv, Provided
    <3> QED
      BY <3>3, <3>4
  <2>4. \A x : Checkpoint(x)' = Checkpoint(x)
    BY <1>1 DEF Checkpoint
  <2> QED
    BY <2>1, <2>3, <2>4 DEF TruthInv, Provided
<1> QED
  BY <1>1, <1>2, <1>10, <1>11, FeedsAlone DEF TruthInv

----------------------------------------------------------------------------
(* The invariant of an open database and of the disk *)

RetentionInv == DiskInv /\ AnchorInv /\ TruthInv

LEMMA TruthInit == Init => TruthInv
<1> SUFFICES ASSUME Init PROVE TruthInv
  OBVIOUS
<1>1. Len(records) = 0 /\ DOMAIN records = {} /\ feeds = NoFeeds
  BY DEF Init
<1>2. Files = {None} /\ Manifests = {manifest} /\ manifest.floor = 0
  BY DEF Init, Files, Manifests, None
<1>3. InMemory
  BY <1>1, SaidNothing DEF Init, InMemory
<1>4. ForkedOnce
  BY <1>1 DEF ForkedOnce
<1>5. Truth
  BY <1>2, <1>3, <1>4 DEF Truth, None
<1>6. (\A x \in Consumers : Checkpoint(x) = {}) /\ (\A x \in Branches : ForkOf(x) = {})
  BY DEF Init, Checkpoint, ForkOf, Nothing, None, MetaKeys, BranchKeys
<1>7. Provided
  BY <1>6 DEF Provided
<1>8. FeedsAbove
  BY <1>1 DEF FeedsAbove, NoFeeds, None
<1> QED
  BY <1>5, <1>7, <1>8 DEF TruthInv

\* A checkpoint, registration or bootstrap is a frame about its own key.
LEMMA NoteKeeps ==
  ASSUME RetentionInv, NEW roll, NEW key \in MetaKeys, NEW value, Note(roll, key, value),
         \A c \in Consumers : key = <<"ack", c>> =>
            \A p \in value : p \in Nat /\ manifest.floor <= p
  PROVE  RetentionInv'
<1>1. Record(roll, key, value) /\ lapses' = lapses
  BY DEF Note
<1>2. key \notin BranchKeys
  BY KeysApart
<1>3. DiskInv'
  BY <1>1, <1>2, RecordDisk DEF RetentionInv
<1>4. AnchorInv'
  BY <1>1, <1>3, AppendAnchors DEF RetentionInv
<1>5. TruthInv'
  BY NoteTruth DEF RetentionInv
<1> QED
  BY <1>3, <1>4, <1>5 DEF RetentionInv

\* The commands that write a frame.
LEMMA CommandKeeps ==
  ASSUME RetentionInv, NEW roll \in BOOLEAN,
         \/ \E b \in Branches, at \in 0 .. MaxEvents : ForkBranch(roll, b, at)
         \/ \E c \in Consumers : AcknowledgeFeed(roll, c) \/ ClearConsumerCheckpoint(roll, c)
         \/ \E q \in Queries : RegisterQuery(roll, q) \/ RemoveQuery(roll, q)
         \/ \E x \in Branches \cup Consumers, at \in 0 .. MaxEvents : RegisterBootstrap(roll, x, at)
  PROVE  RetentionInv'
<1>1. ASSUME NEW b \in Branches, NEW at \in 0 .. MaxEvents, ForkBranch(roll, b, at)
      PROVE  RetentionInv'
  <2>1. /\ Record(roll, <<"branch", b>>, {at}) /\ lapses \subseteq lapses' /\ {at} # None
    BY <1>1 DEF ForkBranch, None
  <2>2. DiskInv'
    BY <2>1, RecordDisk DEF RetentionInv
  <2>3. AnchorInv'
    BY <2>1, <2>2, AppendAnchors DEF RetentionInv
  <2>4. TruthInv'
    BY <1>1, ForkTruth DEF RetentionInv
  <2> QED
    BY <2>2, <2>3, <2>4 DEF RetentionInv
<1>2. ASSUME NEW c \in Consumers, AcknowledgeFeed(roll, c) \/ ClearConsumerCheckpoint(roll, c)
      PROVE  RetentionInv'
  <2>1. PICK value \in {feeds[c], None} : Note(roll, <<"ack", c>>, value)
    BY <1>2 DEF AcknowledgeFeed, ClearConsumerCheckpoint
  <2>2. <<"ack", c>> \in MetaKeys
    BY DEF MetaKeys
  <2>3. \A p \in value : p \in Nat /\ manifest.floor <= p
    BY DEF RetentionInv, TruthInv, FeedsAbove, None
  <2> QED
    BY <2>1, <2>2, <2>3, NoteKeeps
<1>3. ASSUME NEW q \in Queries, RegisterQuery(roll, q) \/ RemoveQuery(roll, q)
      PROVE  RetentionInv'
  <2>1. PICK value : Note(roll, <<"query", q>>, value)
    BY <1>3 DEF RegisterQuery, RemoveQuery
  <2>2. <<"query", q>> \in MetaKeys /\ \A c : <<"query", q>> # <<"ack", c>>
    BY DEF MetaKeys
  <2> QED
    BY <2>1, <2>2, NoteKeeps
<1>4. ASSUME NEW x \in Branches \cup Consumers, NEW at, RegisterBootstrap(roll, x, at)
      PROVE  RetentionInv'
  <2>1. PICK value : Note(roll, <<"boot", x>>, value)
    BY <1>4 DEF RegisterBootstrap
  <2>2. <<"boot", x>> \in MetaKeys /\ \A c : <<"boot", x>> # <<"ack", c>>
    BY DEF MetaKeys, BootKeys
  <2> QED
    BY <2>1, <2>2, NoteKeeps
<1> QED
  BY <1>1, <1>2, <1>3, <1>4

LEMMA RetentionInit == Init => RetentionInv
BY DiskInit, AnchorInit, TruthInit DEF RetentionInv

\* Every step keeps the invariant.
LEMMA RetentionNext ==
  ASSUME RetentionInv, [Next]_vars
  PROVE  RetentionInv'
<1>1. KeptInv' /\ DiskInv /\ AnchorInv /\ TruthInv
  BY KeptNext DEF RetentionInv, DiskInv
<1>2. ASSUME NEW roll \in BOOLEAN, AppendEvent(roll) PROVE RetentionInv'
  <2>1. DiskInv'
    BY <1>1, <1>2, AppendDisk
  <2> QED
    BY <1>1, <1>2, <2>1, AppendAnchors, QuietTruth DEF RetentionInv
<1>3. ASSUME NEW c \in Consumers,
             \/ \E p \in 0 .. MaxEvents : OpenFeed(c, p) \/ NextFeedPage(c, p)
             \/ ResumeFeed(c) \/ CloseFeed(c)
      PROVE  RetentionInv'
  <2>1. \E position : SetFeed(c, position)
    BY <1>3 DEF OpenFeed, NextFeedPage, ResumeFeed, CloseFeed
  <2>2. DiskInv'
    BY <1>1, <2>1, QuietDisk
  <2>3. AnchorInv'
    BY <1>1, <2>1, <2>2, QuietAnchors
  <2> QED
    BY <1>1, <1>3, <2>2, <2>3, FeedStepTruth DEF RetentionInv
<1>4. ASSUME Commit \/ FinishApply \/ \E at \in 0 .. MaxEvents : PlanRetention(at)
      PROVE  RetentionInv'
  <2>1. DiskInv'
    BY <1>1, <1>4, QuietDisk
  <2>2. AnchorInv'
    BY <1>1, <1>4, <2>1, QuietAnchors
  <2>3. TruthInv'
    BY <1>1, <1>4, QuietTruth
  <2> QED
    BY <2>1, <2>2, <2>3 DEF RetentionInv
<1>5. ASSUME NEW at \in 0 .. MaxEvents, CreateAnchor(at) PROVE RetentionInv'
  <2>1. DiskInv'
    BY <1>1, <1>5, QuietDisk
  <2> QED
    BY <1>1, <1>5, <2>1, CreateAnchorAnchors, CreateAnchorTruth DEF RetentionInv
<1>6. CASE RenameAnchor
  <2>1. DiskInv'
    BY <1>1, <1>6, QuietDisk
  <2> QED
    BY <1>1, <1>6, <2>1, RenameAnchors, QuietTruth DEF RetentionInv
<1>7. CASE SettleAnchor
  <2>1. DiskInv'
    BY <1>1, <1>7, QuietDisk
  <2> QED
    BY <1>1, <1>7, <2>1, SettleAnchors, SettleTruth DEF RetentionInv
<1>8. CASE ApplyRetention
  <2>1. DiskInv'
    BY <1>1, <1>8, QuietDisk
  <2> QED
    BY <1>1, <1>8, <2>1, ApplyAnchors, ApplyTruth DEF RetentionInv
<1>9. CASE SettleManifest
  BY <1>1, <1>9, SettleDisk, SettleManifestAnchors, QuietTruth DEF RetentionInv
<1>10. ASSUME NEW ok \in BOOLEAN, ReclaimSegment(ok) PROVE RetentionInv'
  <2>1. DiskInv'
    BY <1>1, <1>10, ReclaimDisk
  <2> QED
    BY <1>1, <1>10, <2>1, QuietAnchors, QuietTruth DEF RetentionInv
<1>11. CASE Stop
  <2>1. DiskInv'
    BY <1>1, <1>11, QuietDisk
  <2> QED
    BY <1>1, <1>11, <2>1, StopAnchors, DownTruth DEF RetentionInv
<1>12. CASE PowerLoss
  BY <1>1, <1>12, PowerLossDisk, PowerLossAnchors, DownTruth DEF RetentionInv
<1>13. CASE Open
  <2>1. DiskInv'
    BY <1>1, <1>13, QuietDisk
  <2> QED
    BY <1>1, <1>13, <2>1, OpenAnchors, OpenTruth DEF RetentionInv
<1>14. CASE UNCHANGED vars
  <2>1. DiskInv'
    BY <1>1, <1>14 DEF vars, disk, memory, DiskInv, Positions, Frames, Suffix
  <2>2. UNCHANGED <<records, branches, meta, feeds, manifest, anchorFile, restorable, step, next, lapses>>
    BY <1>14 DEF vars, disk, memory
  <2>3. UNCHANGED <<head, synced, bases, anchor, durable>>
    BY <1>14 DEF vars, disk, memory
  <2>4. Files' = Files /\ Manifests' = Manifests /\ Told' = Told
    BY <2>2 DEF Files, Manifests, Told
  <2>5. \A a : Placed(a)' = Placed(a)
    BY <2>3 DEF Placed
  <2>6. AnchorForm'
    BY <1>1, <2>3, <2>4, <2>5 DEF AnchorInv, AnchorForm
  <2>7. Sums' /\ Held' /\ StillNamed'
    BY <1>1, <2>2, <2>3, <2>4 DEF AnchorInv, Sums, Held, StillNamed
  <2>8. TruthInv'
    BY <1>1, <2>2, <2>4, TruthAlone, ProvidedAlone, FeedsAlone DEF TruthInv
  <2> QED
    BY <2>1, <2>6, <2>7, <2>8 DEF RetentionInv, AnchorInv
<1> QED
  BY <1>2, <1>3, <1>4, <1>5, <1>6, <1>7, <1>8, <1>9, <1>10, <1>11, <1>12, <1>13, <1>14, CommandKeeps
     DEF Next

----------------------------------------------------------------------------
(* What retention promises *)

\* While no fork is made after an anchor, no anchor is made again after frames
\* went and no removal fails, an open finds every branch, checkpoint,
\* registration and bootstrap that was acknowledged, also those whose frames
\* are reclaimed and wherever crashes fall (db.rs open_internal,
\* system_metadata).
THEOREM ForgetsNothing == Spec => []NothingForgotten
<1>1. RetentionInv => NothingForgotten
  BY LoadedTruth DEF RetentionInv, TruthInv, NothingForgotten, Told, None
<1> QED
  BY <1>1, RetentionInit, RetentionNext, PTL DEF Spec

\* Whoever the floor has passed, a consumer at its checkpoint or a branch at its
\* fork, finds a bootstrap for exactly this floor in the anchor, and no open
\* feed is passed (facade.rs ApplyRetention, db.rs plan_retention), while no
\* anchor was replaced without a plan applied on it, no fork made after an anchor,
\* no anchor made again after frames went and no removal failed.
THEOREM StrandsNobody == Spec => []NobodyStranded
<1>1. RetentionInv => NobodyStranded
  <2> SUFFICES ASSUME RetentionInv, step # "down", lapses \subseteq {"moved", "unsettled"}
               PROVE  /\ \A c \in Consumers :
                            Behind(c, manifest.floor) => HasBootstrap(c, manifest.floor)
                      /\ \A b \in Branches :
                            (\E p \in ForkOf(b) : p < manifest.floor) => HasBootstrap(b, manifest.floor)
                      /\ \A c \in Consumers : \A p \in feeds[c] : p >= manifest.floor
    BY DEF NobodyStranded
  <2>1. Told /\ "replaced" \notin lapses
    BY DEF Told, Forgetful
  <2>2. manifest \in Manifests /\ manifest.floor \in Nat
    BY DEF RetentionInv, DiskInv, KeptInv, Floors, Manifests, Shape
  <2>3. manifest.sum # None => anchor = manifest.sum
    BY <2>1 DEF RetentionInv, AnchorInv, Held
  <2>4. ASSUME NEW x, NEW p, Served(x, p, manifest), p < manifest.floor
        PROVE  HasBootstrap(x, manifest.floor)
    BY <2>3, <2>4 DEF Served, HasBootstrap, None
  <2>5. ASSUME NEW c \in Consumers, Behind(c, manifest.floor)
        PROVE  HasBootstrap(c, manifest.floor)
    BY <2>1, <2>2, <2>4, <2>5 DEF Behind, RetentionInv, TruthInv, Provided
  <2>6. ASSUME NEW b \in Branches, NEW p \in ForkOf(b), p < manifest.floor
        PROVE  HasBootstrap(b, manifest.floor)
    BY <2>1, <2>2, <2>4, <2>6 DEF RetentionInv, TruthInv, Provided
  <2>7. ASSUME NEW c \in Consumers, NEW p \in feeds[c] PROVE p >= manifest.floor
    BY <2>2 DEF RetentionInv, TruthInv, FeedsAbove
  <2> QED
    BY <2>5, <2>6, <2>7
<1> QED
  BY <1>1, RetentionInit, RetentionNext, PTL DEF Spec

\* Wherever kills and power losses fall in the two maintenance commands, the
\* database opens again, while nothing of what retention does not survive has
\* happened (db.rs open_internal; retention.rs publish).
THEOREM OpensAgain == Spec => []Reopens
<1>1. RetentionInv => Reopens
  <2> SUFFICES ASSUME RetentionInv, lapses = {} PROVE Opens
    BY DEF Reopens
  <2>1. manifest \in Manifests
    BY DEF Manifests
  <2>2. CASE manifest.sum # None
    <3>1. PICK a \in manifest.sum : TRUE
      BY <2>2 DEF None
    <3>2. /\ anchorFile = manifest.sum
          /\ a.floor = manifest.floor /\ a.head = head
      BY <2>1, <2>2 DEF RetentionInv, AnchorInv, StillNamed
    <3>3. manifest.sum = {a}
      BY <2>1 DEF RetentionInv, AnchorInv, AnchorForm, AtMostOne
    <3>4. a \in ExactAnchor
      BY <3>2, <3>3 DEF ExactAnchor
    <3> QED
      BY <3>4 DEF Opens, None
  <2>3. CASE manifest.sum = None
    <3>1. manifest.floor = 0
      BY <2>1, <2>3 DEF RetentionInv, AnchorInv, Sums
    <3>2. 0 \in files
      BY <2>1, <3>1 DEF RetentionInv, DiskInv, KeptInv, Floors
    <3>3. ForkedOnce
      BY DEF RetentionInv, TruthInv, Truth, Told
    <3>4. Rebuilds
      BY <3>3 DEF Rebuilds, SystemRecords, ForkedOnce
    <3> QED
      BY <2>3, <3>2, <3>4 DEF Opens, CompletePrefix
  <2> QED
    BY <2>2, <2>3
<1> QED
  BY <1>1, RetentionInit, RetentionNext, PTL DEF Spec
=============================================================================
