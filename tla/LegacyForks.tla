----------------------------- MODULE LegacyForks -----------------------------
(***************************************************************************)
(* The rewriting of fork markers into branches (migration.rs,              *)
(* migrate_legacy_branches).  In a source a child stream begins with a     *)
(* marker record that names its parent and a position; its history is the  *)
(* parent's below that position, and then its own.  The destination has a  *)
(* branch for each child, the events without the markers, and all of a     *)
(* family under the name of its root.                                      *)
(*                                                                         *)
(* A source is [stream, forks, joined]: the stream of each record, parent  *)
(* and position of each child, and the records in the batch of the one     *)
(* before.  Record i has position i - 1.                                   *)
(***************************************************************************)
EXTENDS Naturals, FiniteSets, FiniteSetsExt

CONSTANTS
    Root,      \* a stream that no marker begins
    Children,  \* streams a marker may begin
    Length     \* records of a source

ASSUME LegacyAssumption == Root \notin Children /\ IsFiniteSet(Children) /\ Length \in Nat

Streams == Children \cup {Root}

Sources ==
    [stream : [1 .. Length -> Streams],
     forks : [Children -> [parent : Streams, at : 0 .. Length]],
     joined : SUBSET (2 .. Length)]

----------------------------------------------------------------------------
(* The source *)

\* discover_legacy_forks.
Forked(src) == {src.stream[i] : i \in 1 .. Length} \cap Children

MarkerOf(src, c) == Min({i \in 1 .. Length : src.stream[i] = c})

Markers(src) == {MarkerOf(src, c) : c \in Forked(src)}

\* validate_legacy_forks; each child has one marker.
ValidSource(src) ==
    \A c \in Forked(src) :
        LET fork == src.forks[c]
        IN /\ fork.at < MarkerOf(src, c)
           /\ fork.parent \in Forked(src) => MarkerOf(src, fork.parent) < MarkerOf(src, c)
           /\ fork.at \in 1 .. Length - 1 => fork.at + 1 \notin src.joined

\* A stream, its parent, the parent's parent; the root repeats.
Lineage(src, s) ==
    LET up[k \in 0 .. Cardinality(Children)] ==
            IF k = 0 THEN s
            ELSE IF up[k - 1] \in Forked(src) THEN src.forks[up[k - 1]].parent
            ELSE up[k - 1]
    IN up

Depths == 0 .. Cardinality(Children)

\* The records of a child: its own, and its ancestors' below each fork.
History(src, s) ==
    {i \in 1 .. Length \ Markers(src) :
        \E k \in Depths :
            /\ src.stream[i] = Lineage(src, s)[k]
            /\ \A j \in 0 .. k - 1 :
                  Lineage(src, s)[j] \in Forked(src) => i <= src.forks[Lineage(src, s)[j]].at}

----------------------------------------------------------------------------
(* The destination *)

\* Mutant: the marker at the position itself is counted.
DestinationPositionPast(src, position) ==
    position - Cardinality({m \in Markers(src) : m - 1 <= position})

\* destination_position.
DestinationPosition(src, position) ==
    position - Cardinality({m \in Markers(src) : m - 1 < position})

\* branch_by_stream: the branch of a child has its name, others are on main.
BranchOf(src, s) == IF s \in Forked(src) THEN s ELSE Root

\* canonical_stream_by_legacy_stream: the root of the family.
Canonical(src, s) == Lineage(src, s)[Cardinality(Children)]

\* The event of record i.
EventAt(src, i) ==
    [position |-> DestinationPosition(src, i - 1),
     branch |-> BranchOf(src, src.stream[i]), stream |-> Canonical(src, src.stream[i])]

\* What a reader of the child's branch and stream gets: each ancestor up to
\* the lowest of the forks below it.
BranchRead(src, s) ==
    {i \in 1 .. Length \ Markers(src) :
        LET event == EventAt(src, i)
        IN /\ event.stream = Canonical(src, s)
           /\ \E k \in Depths :
                 /\ event.branch = BranchOf(src, Lineage(src, s)[k])
                 /\ \A j \in 0 .. k - 1 :
                       Lineage(src, s)[j] \in Forked(src) =>
                           event.position < DestinationPosition(src, src.forks[Lineage(src, s)[j]].at)}

\* Every branch has the history of the stream it comes from, for all nestings
\* of forks and all places of the markers among the events
\* (migration.rs:58-170).
ForksExact(src) ==
    ValidSource(src) => \A s \in Forked(src) \cup {Root} : BranchRead(src, s) = History(src, s)
=============================================================================
