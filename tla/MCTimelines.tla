---------------------------- MODULE MCTimelines ----------------------------
(* An instance of Timelines: two streams, times out of order. *)
EXTENDS Timelines

CONSTANTS s1, s2

MCKinds ==
    {[stream |-> s1, time |-> 2, size |-> 1, count |-> 1],
     [stream |-> s2, time |-> 1, size |-> 2, count |-> 2]}

MCRequests == {[stream |-> {}, from |-> 0], [stream |-> {s1}, from |-> 1]}
MCSelections ==
    {[streams |-> Streams, time |-> {}], [streams |-> {s1}, time |-> {}],
     [streams |-> Streams, time |-> {[lo |-> 1, hi |-> 2]}]}

NameSymmetry == Permutations(Names)
=============================================================================
