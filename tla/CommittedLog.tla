---------------------------- MODULE CommittedLog ----------------------------
(***************************************************************************)
(* What the log of salamander-db promises its callers, with no files, no   *)
(* segments and no recovery: a growing sequence of frames of which a crash *)
(* may take back an unacknowledged suffix, and nothing else, and of which  *)
(* retention may discard what lies below a floor that never goes back.     *)
(* What was discarded may reappear in a crash for as long as nothing made  *)
(* the removal durable.  The promise ends, for good, when a power loss     *)
(* undoes a directory change that an open had built on.                    *)
(*                                                                         *)
(* The sequence is a set of frames: ids grow in the order of writing and   *)
(* each frame names the positions it takes.                                *)
(***************************************************************************)
EXTENDS Naturals

VARIABLES
    log,        \* the frames a reader may see
    discarded,  \* frames removed from it that a crash may bring back
    head,       \* the position the next event takes
    kept,       \* the retention floor
    acked,      \* frames below a head that commit() returned
    broken      \* the promise no longer holds

vars == <<log, discarded, head, kept, acked, broken>>

End(fr) == fr.first + fr.count

Above(fr, f) == f = 0 \/ End(fr) > f

Init ==
    /\ log = {}
    /\ discarded = {}
    /\ head = 0
    /\ kept = 0
    /\ acked = {}
    /\ broken = FALSE

\* append: the frame takes the positions from the head on.
Write ==
    \E fr \in log' :
        /\ log' = log \cup {fr}
        /\ \A old \in log \cup acked : old.id < fr.id
        /\ fr.first = head
        /\ head' = End(fr)
        /\ UNCHANGED <<discarded, kept, acked>>

\* commit: everything written so far is acknowledged.
Commit ==
    /\ acked' = acked \cup log
    /\ UNCHANGED <<log, discarded, head, kept>>

\* A kill or a power loss takes back every frame from some point on, or none,
\* and may bring discarded frames back; a floor being installed at that moment
\* may come into force.
Crash ==
    /\ \E back \in SUBSET discarded :
          \/ log' = log \cup back /\ UNCHANGED head
          \/ \E oldest \in log :
               /\ log' = {fr \in log : fr.id < oldest.id} \cup back
               /\ head' = oldest.first
    /\ discarded' \subseteq discarded
    /\ kept' \in Nat /\ kept <= kept'
    /\ \A fr \in acked : Above(fr, kept') => (fr \in log => fr \in log')
    /\ UNCHANGED acked

RaiseFloor ==
    /\ kept' \in Nat /\ kept <= kept'
    /\ UNCHANGED <<log, discarded, head, acked>>

\* Frames below the floor are discarded, all of them or some.
Discard ==
    /\ log' \subseteq log
    /\ discarded' = discarded \cup (log \ log')
    /\ \A fr \in log \ log' : ~Above(fr, kept)
    /\ UNCHANGED <<head, kept, acked>>

\* The removal is durable.
Settle ==
    /\ discarded' = {}
    /\ UNCHANGED <<log, head, kept, acked>>

Keep == Write \/ Commit \/ Crash \/ RaiseFloor \/ Discard \/ Settle

Next == \/ Keep /\ UNCHANGED broken
        \/ broken'

Spec == Init /\ [][Next]_vars
=============================================================================
