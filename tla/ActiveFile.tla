----------------------------- MODULE ActiveFile -----------------------------
(***************************************************************************)
(* The file behind the active segment, with the one file offset that the   *)
(* appender and every reader of the segment share: a reader's handle is a  *)
(* try_clone of the appender's, the file is not opened in append mode, and *)
(* append_batch writes at the offset it finds.                             *)
(*                                                                         *)
(* Frames have one size here and READ_CHUNK (128 KiB) is counted in them.  *)
(* A reader borrows the database, so appends wait until all are dropped;   *)
(* readers of one process interleave freely.                               *)
(*                                                                         *)
(* Two things a caller may do leave the offset where the code does not     *)
(* expect it: to drop a reader before it has read the file to its end, and *)
(* to let one reader read on after another has.  `lapses` records them.    *)
(* SegmentLog assumes what holds without them: an append lands at the end. *)
(***************************************************************************)
EXTENDS Naturals, Sequences, FiniteSets

CONSTANTS
    MaxFrames,  \* bound on the frames ever written
    Chunk,      \* frames one read call of a cursor returns at most
    Readers,    \* LogReaders a caller may hold at the same time
    Nobody      \* none of them

ASSUME ChunkAssumption ==
    /\ MaxFrames \in Nat
    /\ Chunk \in Nat \ {0}
    /\ Nobody \notin Readers

VARIABLES
    file,    \* frames in the file, each with the position it carries
    synced,  \* leading frames on the platter
    offset,  \* the shared file offset, in frames
    next,    \* Segment.next_offset
    written, \* what the appends asked for: the log as it should be
    acked,   \* head returned by the last commit()
    lastId,  \* frames written so far
    reader,  \* the LogReaders
    last,    \* history: the reader that moved the offset last, or Nobody
    lapses   \* history: what callers did that the shared offset does not bear

vars == <<file, synced, offset, next, written, acked, lastId, reader, last, lapses>>

Lapse == {"abandoned", "crossed"}

Frame == [pos : Nat, id : 1 .. MaxFrames]

\* No reader, or one that was dropped.
Unused == [state |-> "unused", buf |-> <<>>, expected |-> 0]

TypeOK ==
    /\ file \in Seq(Frame)
    /\ synced \in 0 .. Len(file)
    /\ offset \in 0 .. Len(file)
    /\ next \in Nat
    /\ written \in Seq(Frame)
    /\ acked \in Nat
    /\ lastId \in 0 .. MaxFrames
    /\ reader \in [Readers -> [state : {"unused", "live", "done", "corrupt"},
                               buf : Seq(Frame), expected : Nat]]
    /\ last \in Readers \cup {Nobody}
    /\ lapses \subseteq Lapse

Init ==
    /\ file = <<>>
    /\ synced = 0
    /\ offset = 0
    /\ next = 0
    /\ written = <<>>
    /\ acked = 0
    /\ lastId = 0
    /\ reader = [r \in Readers |-> Unused]
    /\ last = Nobody
    /\ lapses = {}

Smaller(m, n) == IF m < n THEN m ELSE n

----------------------------------------------------------------------------
(* The appender *)

\* Segment::append_*: write_all at the file offset, wherever it is.
Append1 ==
    LET fr == [pos |-> next, id |-> lastId + 1] IN
    /\ \A r \in Readers : reader[r] = Unused
    /\ lastId < MaxFrames
    /\ file' = SubSeq(file, 1, offset) \o <<fr>> \o SubSeq(file, offset + 2, Len(file))
    /\ synced' = Smaller(synced, offset)
    /\ offset' = offset + 1
    /\ next' = next + 1
    /\ written' = Append(written, fr)
    /\ lastId' = lastId + 1
    /\ UNCHANGED <<acked, reader, last, lapses>>

\* Segment::sync on behalf of commit().
Commit ==
    /\ \A r \in Readers : reader[r] = Unused
    /\ synced' = Len(file)
    /\ acked' = next
    /\ UNCHANGED <<file, offset, next, written, lastId, reader, last, lapses>>

ValidPrefix(fs) ==
    CHOOSE n \in 0 .. Len(fs) :
        /\ \A i \in 1 .. n : fs[i].pos = i - 1
        /\ n < Len(fs) => fs[n + 1].pos # n

\* Mutant: recovery leaves the offset at the start of the file.
SeekStart(n) == 0

\* Segment::open ends with a seek to the end of the valid prefix.
SeekEnd(n) == n

\* The process ends, by close, kill or power loss, and the segment is opened
\* again: any number of unsynced frames is lost, the rest is scanned.
Reopen ==
    /\ \E kept \in synced .. Len(file) :
          LET n == ValidPrefix(SubSeq(file, 1, kept)) IN
          /\ file' = SubSeq(file, 1, n)
          /\ synced' = Smaller(synced, n)
          /\ offset' = SeekEnd(n)
          /\ next' = n
          /\ written' = SubSeq(written, 1, n)
    /\ reader' = [r \in Readers |-> Unused]
    /\ UNCHANGED <<acked, lastId, last, lapses>>

----------------------------------------------------------------------------
(* The readers *)

\* Mutant: a fresh cursor reads on from where the file offset is.
StartAnywhere == offset

\* SegmentCursor::new seeks to the start of the segment.
StartOfFile == 0

\* fill and advance_to_match with the file offset at `at`: read a chunk if the
\* buffer is empty, then take one frame; an empty read is the end.
Advance(r, at, buf, expected) ==
    LET end   == Smaller(at + Chunk, Len(file))
        fresh == SubSeq(file, at + 1, end)
        input == IF buf = <<>> THEN fresh ELSE buf
        state == IF input = <<>> THEN "done"
                 ELSE IF Head(input).pos = expected THEN "live" ELSE "corrupt"
    IN  /\ offset' = IF buf = <<>> THEN end ELSE at
        /\ last' = IF buf = <<>> THEN r ELSE last
        /\ reader' = [reader EXCEPT ![r] =
                        [state    |-> state,
                         buf      |-> IF state = "live" THEN Tail(input) ELSE <<>>,
                         expected |-> IF state = "live" THEN expected + 1 ELSE expected]]

\* The first call of next() on a reader that a caller has planned.
ReadFirst(r) ==
    /\ reader[r].state = "unused"
    /\ Advance(r, StartOfFile, <<>>, 0)
    /\ UNCHANGED <<file, synced, next, written, acked, lastId, lapses>>

\* A reader in use has not had all of the file in its hands.
Unread(rd) == rd # Unused /\ rd.expected + Len(rd.buf) < Len(file)

\* Reader r takes its next chunk after another reader moved the offset, and one
\* of them is not through with the file.
Crosses(r) ==
    /\ reader[r].buf = <<>>
    /\ last \notin {r, Nobody}
    /\ Unread(reader[r]) \/ Unread(reader[last])

ReadOn(r) ==
    /\ reader[r].state = "live"
    /\ Advance(r, offset, reader[r].buf, reader[r].expected)
    /\ lapses' = lapses \cup {l \in {"crossed"} : Crosses(r)}
    /\ UNCHANGED <<file, synced, next, written, acked, lastId>>

\* The caller has what it wants (max_events, a position past its window, a
\* full page) or has seen the end, and drops the reader.
Drop(r) ==
    /\ reader[r].state # "unused"
    /\ reader' = [reader EXCEPT ![r] = Unused]
    /\ lapses' = lapses \cup {l \in {"abandoned"} : Unread(reader[r])}
    /\ UNCHANGED <<file, synced, offset, next, written, acked, lastId, last>>

Next ==
    \/ Append1
    \/ Commit
    \/ Reopen
    \/ \E r \in Readers : ReadFirst(r) \/ ReadOn(r) \/ Drop(r)

Spec == Init /\ [][Next]_vars

----------------------------------------------------------------------------

AppendOnlyAlways ==
    \A i \in 1 .. acked : i <= Len(file) /\ file[i] = written[i]

\* The log is append-only: what commit() acknowledged is in the file, frame
\* for frame, whatever readers did before the later appends, as long as no
\* reader was abandoned and none crossed another (ActiveFileOverwrites.cfg
\* checks AppendOnlyAlways and shows what happens otherwise).
AppendOnly == lapses = {} => AppendOnlyAlways

NoGapsAlways == \A r \in Readers : reader[r].state = "done" => reader[r].expected = next

\* A reader that reports the end has yielded every position below the head, so
\* its continuation leaves no gap, and none meets a frame it does not expect;
\* under the same condition (ActiveFileGaps.cfg checks NoGapsAlways).
NoGaps ==
    lapses = {} => NoGapsAlways /\ \A r \in Readers : reader[r].state # "corrupt"
=============================================================================
