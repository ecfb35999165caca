----------------------------- MODULE FrameScan ------------------------------
(***************************************************************************)
(* scan_records (log/segment.rs), the walk over the bytes of a segment     *)
(* that decides at every open what the log contains and where it is cut.   *)
(*                                                                         *)
(* The input is what the appender wrote, one write_all after the other: a  *)
(* system frame, a bare event (only a migration writes these, before any   *)
(* batch), or a batch of BatchBegin, its events and BatchCommit.  One of   *)
(* the writes may be hurt: cut short by a crash, or by an error the        *)
(* process survived so that later writes follow it, or damaged on disk.    *)
(* Each step of the module is one iteration of the loop.                   *)
(*                                                                         *)
(* It stands behind SegmentLog, where a write is one frame, whole or torn. *)
(***************************************************************************)
EXTENDS Naturals, Sequences, SequencesExt

CONSTANTS
    MaxWrites,   \* writes in the segment at most, 1 or more
    MaxEvents,   \* events of a batch at most, 1 or more
    BatchIds     \* a retried batch carries its id and its events again

VARIABLES
    writes,     \* what was written
    hurt,       \* which of the writes is hurt; 0 for none
    fate,       \* how: its first `kept` frames are there, frame `at` is bad
    pos,        \* frames consumed
    validBytes, \* frames of the valid prefix
    nextOffset, \* the position the next append would take
    pending,    \* the batch being collected, or NoBatch
    stop        \* why the loop ended; "" while it runs

input == <<writes, hurt, fate>>
vars == <<input, pos, validBytes, nextOffset, pending, stop>>

----------------------------------------------------------------------------
(* What a segment may contain *)

Write == [kind : {"system"}, n : {0}, batch : {"none"}]
         \cup [kind : {"bare"}, n : {1}, batch : {"none"}]
         \cup [kind : {"batch"}, n : 1 .. MaxEvents, batch : BatchIds]

FrameCount(w) == IF w.kind = "batch" THEN w.n + 2 ELSE 1

Unhurt(w) == [kept |-> FrameCount(w), at |-> 0, cond |-> "whole"]

\* "cut": the bytes end inside the frame; "crc": they fail the checksum;
\* "header": magic, version, kind, flags or a length is not what was written,
\* as in a tail the file system filled with zeros.
Fates(w) ==
    [kept : 1 .. FrameCount(w) - 1, at : {0}, cond : {"whole"}]
    \cup {[kept |-> k, at |-> k, cond |-> "cut"] : k \in 1 .. FrameCount(w)}
    \cup [kept : {FrameCount(w)}, at : 1 .. FrameCount(w), cond : {"crc", "header"}]

FateOf(i) == IF i = hurt THEN fate ELSE Unhurt(writes[i])

\* A write_all that was cut short did not move the position.
Completed(i) == FateOf(i).kept = FrameCount(writes[i]) /\ FateOf(i).cond # "cut"

\* The position write i was given.
FirstOf(i) ==
    FoldLeft(LAMBDA s, j : IF Completed(j) THEN s + writes[j].n ELSE s,
             0, [j \in 1 .. i - 1 |-> j])

FrameKind(w, k) ==
    CASE w.kind = "system" -> "system"
      [] w.kind = "bare" -> "event"
      [] w.kind = "batch" -> IF k = 1 THEN "begin"
                             ELSE IF k = w.n + 2 THEN "commit" ELSE "event"

\* The control payload and envelope of a batch, in its first and last frame,
\* have its count and a digest, which stands for the checksum over the bytes of
\* its events.
DigestOf(i) == [e \in 1 .. writes[i].n |-> <<writes[i].batch, FirstOf(i) + e - 1>>]

\* append_batch, append_system, append_enveloped: frame k of write i.
FrameOf(i, k) ==
    LET w == writes[i]
        index == IF FrameKind(w, k) = "event" /\ w.kind = "batch" THEN k - 2 ELSE 0
    IN [kind |-> FrameKind(w, k),
        position |-> FirstOf(i) + index,
        batch |-> w.batch,
        index |-> index,
        count |-> w.n,
        digest |-> DigestOf(i),
        body |-> <<w.batch, FirstOf(i) + index>>,
        cond |-> IF k = FateOf(i).at THEN FateOf(i).cond ELSE "whole"]

BufUpTo(n) ==
    FoldLeft(LAMBDA b, i : b \o [k \in 1 .. FateOf(i).kept |-> FrameOf(i, k)],
             <<>>, [i \in 1 .. n |-> i])

buf == BufUpTo(Len(writes))

----------------------------------------------------------------------------
(* The scan *)

NoBatch == [first |-> 0, batch |-> "none", count |-> 0, digest |-> <<>>, events |-> <<>>]

Init ==
    /\ \E m \in 1 .. MaxWrites : writes \in [1 .. m -> Write]
    /\ \A i, j \in 1 .. Len(writes) :
          writes[i].kind = "batch" /\ writes[j].kind = "bare" => j < i
    /\ hurt \in 0 .. Len(writes)
    /\ fate \in IF hurt = 0 THEN {Unhurt(writes[1])} ELSE Fates(writes[hurt])
    /\ pos = 0
    /\ validBytes = 0
    /\ nextOffset = 0
    /\ pending = NoBatch
    /\ stop = ""

fr == buf[pos + 1]

\* The header, the checksum and the envelope of a frame are what was written,
\* and the bytes reach to its end.
Decodes(f) == f.cond = "whole"

\* decode returned the next frame, of kind `kind`.
Decoded(kind) ==
    /\ stop = ""
    /\ pos < Len(buf)
    /\ Decodes(fr)
    /\ fr.kind = kind

\* The loop ends; the valid prefix stays where the last whole write ended.
Stop(reason) ==
    /\ stop' = reason
    /\ UNCHANGED <<input, pos, validBytes, nextOffset, pending>>

Consume == pos' = pos + 1 /\ UNCHANGED <<input, stop>>

\* The frame ends a write: everything up to it is valid.
Accept(events) ==
    /\ validBytes' = pos + 1
    /\ nextOffset' = nextOffset + events
    /\ pending' = NoBatch

BatchBegin ==
    /\ Decoded("begin")
    /\ IF pending # NoBatch \/ fr.position # nextOffset
       THEN Stop("OffsetMismatch")
       ELSE /\ Consume
            /\ pending' = [first |-> fr.position, batch |-> fr.batch, count |-> fr.count,
                           digest |-> fr.digest, events |-> <<>>]
            /\ UNCHANGED <<validBytes, nextOffset>>

BatchEvent ==
    LET index == Len(pending.events) IN
    /\ Decoded("event")
    /\ pending # NoBatch
    /\ IF \/ fr.position # pending.first + index
          \/ fr.batch # pending.batch
          \/ fr.index # index
          \/ index >= pending.count
       THEN Stop("BatchMismatch")
       ELSE /\ Consume
            /\ pending' = [pending EXCEPT !.events = Append(@, fr.body)]
            /\ UNCHANGED <<validBytes, nextOffset>>

BareEvent ==
    /\ Decoded("event")
    /\ pending = NoBatch
    /\ IF fr.position = nextOffset
       THEN Consume /\ Accept(1)
       ELSE Stop("OffsetMismatch")

\* The frames of a batch close it: same batch, all its events, same bytes.
Closes ==
    /\ pending # NoBatch
    /\ fr.position = pending.first
    /\ fr.batch = pending.batch
    /\ fr.count = pending.count
    /\ fr.digest = pending.digest
    /\ Len(pending.events) = pending.count
    /\ pending.events = pending.digest

BatchCommit ==
    /\ Decoded("commit")
    /\ IF Closes
       THEN Consume /\ Accept(pending.count)
       ELSE Stop("BatchMismatch")

\* Mutant: a system frame does not look at the batch it interrupts.
SystemInsideBatch ==
    /\ Decoded("system")
    /\ IF fr.position # nextOffset
       THEN Stop("OffsetMismatch")
       ELSE Consume /\ Accept(0)

System ==
    /\ Decoded("system")
    /\ IF pending # NoBatch \/ fr.position # nextOffset
       THEN Stop("OffsetMismatch")
       ELSE Consume /\ Accept(0)

\* decode returns Ok(None) on an empty buffer.  With a batch pending the loop
\* goes back to its BatchBegin, so the end is not a clean one.
EndOfBytes ==
    /\ stop = ""
    /\ pos = Len(buf)
    /\ Stop(IF pending = NoBatch THEN "CleanEof" ELSE "TornTail")

\* decode on bytes that are not a frame: Ok(None) when the buffer ends before
\* the frame does, Corrupt when the checksum fails, and any other error from
\* the header checks, which scan_records and open pass on.  A remnant with
\* other frames behind it borrows their bytes, so each of the three is possible.
Undecodable ==
    LET reasons == CASE fr.cond = "crc" -> {"CrcError"}
                     [] fr.cond = "cut" /\ pos + 1 = Len(buf) -> {"TornTail"}
                     [] OTHER -> {"TornTail", "CrcError", "error"}
    IN /\ stop = ""
       /\ pos < Len(buf)
       /\ ~Decodes(fr)
       /\ \E reason \in reasons : Stop(reason)

Next == \/ BatchBegin \/ BatchEvent \/ BatchCommit
        \/ BareEvent \/ System
        \/ EndOfBytes \/ Undecodable

Spec == Init /\ [][Next]_vars

----------------------------------------------------------------------------

\* The writes before the hurt one, the ones that must survive.
Intact == IF hurt = 0 THEN Len(writes) ELSE hurt - 1

TypeOK ==
    /\ pos \in 0 .. Len(buf)
    /\ validBytes \in 0 .. pos
    /\ nextOffset \in 0 .. FirstOf(Len(writes) + 1)
    /\ stop \in {"", "CleanEof", "TornTail", "CrcError", "OffsetMismatch",
                 "BatchMismatch", "error"}

\* Recovery is all or nothing: wherever bytes are missing or damaged, and
\* whatever was written after them, the valid prefix is exactly the writes
\* before, never a part of a batch, and the head follows their events.
AllOrNothing ==
    stop \notin {"", "error"} =>
        /\ validBytes = Len(BufUpTo(Intact))
        /\ nextOffset = FirstOf(Intact + 1)

\* The doc comment of Segment::open: recovery "stops at the first invalid
\* record, and truncates the file there".  It never fails on what it finds.
NeverFails == stop # "error"
=============================================================================
