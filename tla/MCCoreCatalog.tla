--------------------------- MODULE MCCoreCatalog ----------------------------
(* CoreCatalog with a handful of requests that meet each other. *)
EXTENDS CoreCatalog

CONSTANTS MaxEvents, s1, s2, k1, e1, e2, x, y, row, one, two

AnyRevision == 0 .. MaxEvents
NoStream == {0}
Exact(r) == {r + 1}

Event(id, body) == [id |-> id, body |-> body]

Req(stream, expected, key, events, sync) ==
    [stream |-> stream, expected |-> expected, key |-> key, events |-> events, sync |-> sync]

MCRequests ==
    { Req(s1, AnyRevision, {k1}, <<Event({}, x)>>, TRUE),
      Req(s1, AnyRevision, {k1}, <<Event({}, x)>>, FALSE),  \* its retry, or the other way round
      Req(s1, Exact(0), {}, <<Event({}, x), Event({}, y)>>, FALSE),
      Req(s2, AnyRevision, {}, <<Event({e1}, x)>>, TRUE),
      Req(s2, NoStream, {}, <<Event({e1}, y)>>, FALSE),          \* in conflict with it
      Req(s2, AnyRevision, {}, <<Event({e1}, x), Event({e2}, x)>>, FALSE) }

\* Two values of one key that share an index entry; stream s2 deletes the key.
MCIndexers == (one :> {"p", "q"}) @@ (two :> {"q"})

MCProject ==
    (<<s1, x>> :> {[key |-> row, value |-> {one}]}) @@ (<<s1, y>> :> {[key |-> row, value |-> {two}]})
        @@ (<<s2, x>> :> {[key |-> row, value |-> {}]}) @@ (<<s2, y>> :> {})
=============================================================================
