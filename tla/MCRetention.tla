---------------------------- MODULE MCRetention ----------------------------
(* One branch, one consumer and one projection beside the main branch. *)
EXTENDS Retention

CONSTANTS b, c, q
\* What an open forgets stays forgotten; the search ends there.
NoLapse == lapses \cap Forgetful = {}

\* The frames and feeds of a behaviour are about one branch, consumer or
\* projection.
OneSubject ==
    LET subjects == {records[i].key[2] : i \in DOMAIN records} \cup {x \in Consumers : feeds[x] # None}
    IN \A x, y \in subjects : x = y

\* A plan of an earlier head can only be refused; without it nothing differs.
PlanFresh == \A p \in plan : p.head = durable
=============================================================================
