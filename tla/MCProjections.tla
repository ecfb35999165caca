--------------------------- MODULE MCProjections ---------------------------
(* One stream in each of two partitions, a key in each. *)
EXTENDS Projections

CONSTANTS s1, s2, a, b

MCKinds ==
    {[stream |-> s1, key |-> a, good |-> TRUE], [stream |-> s2, key |-> b, good |-> TRUE],
     [stream |-> s1, key |-> a, good |-> FALSE]}

Split == (s1 :> 0) @@ (s2 :> 1)
Together == (s1 :> 0) @@ (s2 :> 0)

MCDescriptors ==
    {[count |-> 2, part |-> Split, scope |-> {s1, s2}, native |-> FALSE],
     [count |-> 1, part |-> Together, scope |-> {s1, s2}, native |-> FALSE],
     [count |-> 1, part |-> Together, scope |-> {s2}, native |-> TRUE]}
\* Once answers may be wrong there is nothing left to check.
NoLapse == lapses = {}
=============================================================================
