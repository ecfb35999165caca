----------------------------- MODULE IndexedView ------------------------------
(***************************************************************************)
(* IndexedView (view/indexed.rs): rows under a primary key and buckets of  *)
(* secondary index entries, folded from the events one at a time.  A       *)
(* reverse map remembers under which entries each key is filed, so that a  *)
(* change of its row can take it out of them.                              *)
(*                                                                         *)
(* Rows, buckets and the reverse map are sets of pairs.  An index entry is *)
(* the name of an index with a key of it; what a value is filed under is   *)
(* the caller's function, as is the change an event makes: {} for none,    *)
(* else the key with {value} to put or {} to delete.                       *)
(***************************************************************************)
EXTENDS Naturals, Sequences, SequencesExt

CONSTANTS
    Project, \* from <<stream, body>> to the change, a set of at most one
    Indexers \* from a value to the index entries it is filed under

NewView == [rows |-> {}, buckets |-> {}, indexedAs |-> {}, cursor |-> 0]

Others(pairs, key) == {p \in pairs : p.key # key}

\* Take the key out of the entries the reverse map has for it.
Prune(view, key) ==
    [view EXCEPT !.buckets = @ \ {p \in view.indexedAs : p.key = key},
                 !.indexedAs = Others(@, key)]

Filed(view, key, value) ==
    LET entries == [key : {key}, entry : Indexers[value]] IN
    [view EXCEPT !.buckets = @ \cup entries,
                 !.indexedAs = @ \cup entries,
                 !.rows = Others(@, key) \cup {[key |-> key, value |-> value]}]

\* Mutant: an update leaves the key filed under the old value.
PutUnpruned(view, key, value) ==
    Filed([view EXCEPT !.indexedAs = Others(@, key)], key, value)

Put(view, key, value) == Filed(Prune(view, key), key, value)

Delete(view, key) == [Prune(view, key) EXCEPT !.rows = Others(@, key)]

Changed(view, change) ==
    IF change.value = {} THEN Delete(view, change.key)
    ELSE Put(view, change.key, CHOOSE v \in change.value : TRUE)

\* record: the change of the event, if any; the cursor moves in any case.
RecordEvent(view, event) ==
    LET change == Project[<<event.stream, event.body>>] IN
    [(IF change = {} THEN view ELSE Changed(view, CHOOSE c \in change : TRUE))
        EXCEPT !.cursor = event.offset + 1]

\* by: the rows that an index finds under an entry.
By(view, entry) == {r \in view.rows : [key |-> r.key, entry |-> entry] \in view.buckets}

\* replay_into and catch_up: the events from the cursor up to `upto`.
CatchUp(view, events, upto) ==
    FoldLeft(RecordEvent, view,
             SelectSeq(events, LAMBDA e : e.offset \in view.cursor .. upto - 1))
=============================================================================
