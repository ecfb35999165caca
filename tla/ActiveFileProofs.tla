-------------------------- MODULE ActiveFileProofs --------------------------
(***************************************************************************)
(* For any number of frames and readers and any read chunk: as long as no  *)
(* reader is dropped with a part of the file unread, and none reads on     *)
(* after another moved the offset, sharing the file offset is harmless.    *)
(* The offset is then where the reader that moved it last has come to, or  *)
(* at the end of the file if that reader is gone.                          *)
(***************************************************************************)
EXTENDS ActiveFile, TLAPS

\* The file is what the appends asked for.
FileWhole ==
    /\ file = written
    /\ next = Len(file)
    /\ acked <= synced
    /\ Len(file) <= lastId
    /\ \A i \in 1 .. Len(file) : file[i].pos = i - 1

\* Where the frames end that a reader has had in its hands.
Reached(rd) == rd.expected + Len(rd.buf)

\* A reader in use holds the frames that follow on what it yielded.
Follows(rd) ==
    rd # Unused =>
        /\ rd.state \in {"live", "done"}
        /\ Reached(rd) <= next
        /\ rd.state = "done" => rd.buf = <<>> /\ rd.expected = next
        /\ \A i \in 1 .. Len(rd.buf) : rd.buf[i].pos = rd.expected + i - 1

OffsetKnown ==
    /\ last = Nobody => \A r \in Readers : reader[r] = Unused
    /\ offset = IF last \in Readers /\ reader[last] # Unused
                THEN Reached(reader[last])
                ELSE Len(file)

Whole ==
    /\ TypeOK
    /\ FileWhole
    /\ \A r \in Readers : Follows(reader[r])
    /\ OffsetKnown

FileInv == lapses = {} => Whole

----------------------------------------------------------------------------

\* The valid prefix of a file whose positions count up from 0 is all of it.
LEMMA ValidPrefixIsAll ==
    ASSUME NEW S, NEW fs \in Seq(S),
           \A i \in 1 .. Len(fs) : fs[i].pos = i - 1
    PROVE  ValidPrefix(fs) = Len(fs)
<1> DEFINE P(n) == /\ \A i \in 1 .. n : fs[i].pos = i - 1
                   /\ n < Len(fs) => fs[n + 1].pos # n
<1>1. Len(fs) \in 0 .. Len(fs) /\ P(Len(fs))
  OBVIOUS
<1>2. \A n \in 0 .. Len(fs) : P(n) => n = Len(fs)
  <2> SUFFICES ASSUME NEW n \in 0 .. Len(fs), P(n), n # Len(fs)
               PROVE  FALSE
    OBVIOUS
  <2>1. n + 1 \in 1 .. Len(fs)
    OBVIOUS
  <2>2. fs[n + 1].pos = n
    BY <2>1
  <2> QED
    BY <2>1, <2>2
<1>3. ValidPrefix(fs) = CHOOSE n \in 0 .. Len(fs) : P(n)
  BY DEF ValidPrefix
<1> HIDE DEF P
<1> QED
  BY <1>1, <1>2, <1>3

\* Smaller is the smaller of two numbers.
LEMMA SmallerIs ==
    ASSUME NEW m \in Nat, NEW n \in Nat
    PROVE  /\ m <= n => Smaller(m, n) = m
           /\ n <= m => Smaller(m, n) = n
BY DEF Smaller

\* Head and tail of a sequence that is not empty.
LEMMA HeadTail ==
    ASSUME NEW S, NEW s \in Seq(S), s # <<>>
    PROVE  /\ Len(s) \in Nat \ {0}
           /\ Head(s) = s[1]
           /\ Tail(s) \in Seq(S)
           /\ Len(Tail(s)) = Len(s) - 1
           /\ \A i \in 1 .. Len(Tail(s)) : Tail(s)[i] = s[i + 1]
OBVIOUS

\* The initial state.
LEMMA FileInit == Init => FileInv
<1> SUFFICES ASSUME Init PROVE Whole
  BY DEF FileInv
<1> USE DEF Init
<1>1. TypeOK
  BY ChunkAssumption DEF TypeOK, Unused
<1>2. FileWhole
  BY DEF FileWhole
<1>3. (\A r \in Readers : Follows(reader[r])) /\ OffsetKnown
  BY ChunkAssumption DEF Follows, OffsetKnown
<1> QED
  BY <1>1, <1>2, <1>3 DEF Whole

\* An append lands behind the last frame.
LEMMA Append1Step ==
    ASSUME Whole, Append1
    PROVE  Whole'
<1> DEFINE fr == [pos |-> next, id |-> lastId + 1]
<1>0. offset = Len(file)
  BY DEF Whole, OffsetKnown, Append1
<1> USE DEF Whole, TypeOK, FileWhole
<1>1. fr \in Frame
  BY ChunkAssumption DEF Frame, Append1
<1>2. file' = Append(file, fr)
  <2>1. SubSeq(file, 1, offset) = file /\ SubSeq(file, offset + 2, Len(file)) = <<>>
    BY <1>0
  <2>2. file' = file \o <<fr>> \o <<>>
    BY <2>1 DEF Append1
  <2> QED
    BY <2>2, <1>1
<1> HIDE DEF fr
<1>3. /\ written' = Append(written, fr)
      /\ offset' = offset + 1
      /\ next' = next + 1
      /\ synced' = Smaller(synced, offset)
      /\ lastId' = lastId + 1
      /\ lastId < MaxFrames
      /\ UNCHANGED <<acked, reader, last, lapses>>
      /\ \A r \in Readers : reader[r] = Unused
  BY DEF Append1, fr
<1>4. synced' = synced
  <2>1. synced \in Nat /\ offset \in Nat /\ synced <= offset
    BY <1>0
  <2> QED
    BY <2>1, <1>3, SmallerIs
<1>5. TypeOK'
  BY <1>0, <1>1, <1>2, <1>3, <1>4, ChunkAssumption
<1>6. FileWhole'
  <2>1. \A i \in 1 .. Len(file') : file'[i].pos = i - 1
    BY <1>1, <1>2 DEF fr
  <2> QED
    BY <1>1, <1>2, <1>3, <1>4, <2>1
<1>7. \A r \in Readers : Follows(reader[r])'
  BY <1>3 DEF Follows, Unused
<1>8. OffsetKnown'
  <2>1. Len(file') = Len(file) + 1
    BY <1>1, <1>2
  <2> QED
    BY <1>0, <1>3, <2>1 DEF OffsetKnown, Unused
<1> QED
  BY <1>5, <1>6, <1>7, <1>8

\* A reopen scans to the end of what survived and seeks there.
LEMMA ReopenStep ==
    ASSUME Whole, Reopen
    PROVE  Whole'
<1> USE DEF Whole, TypeOK, FileWhole
<1>1. PICK kept \in synced .. Len(file) :
          LET n == ValidPrefix(SubSeq(file, 1, kept)) IN
          /\ file' = SubSeq(file, 1, n)
          /\ synced' = Smaller(synced, n)
          /\ offset' = SeekEnd(n)
          /\ next' = n
          /\ written' = SubSeq(written, 1, n)
  BY DEF Reopen
<1>2. kept \in Nat /\ SubSeq(file, 1, kept) \in Seq(Frame) /\ Len(SubSeq(file, 1, kept)) = kept
  OBVIOUS
<1>3. ValidPrefix(SubSeq(file, 1, kept)) = kept
  <2>1. \A i \in 1 .. kept : SubSeq(file, 1, kept)[i].pos = i - 1
    OBVIOUS
  <2> QED
    BY <1>2, <2>1, ValidPrefixIsAll
<1>4. /\ file' = SubSeq(file, 1, kept)
      /\ synced' = synced
      /\ offset' = kept
      /\ next' = kept
      /\ written' = SubSeq(file, 1, kept)
      /\ reader' = [r \in Readers |-> Unused]
      /\ UNCHANGED <<acked, lastId, last, lapses>>
  BY <1>1, <1>2, <1>3, SmallerIs DEF Reopen, SeekEnd
<1>5. TypeOK'
  BY <1>2, <1>4 DEF Unused
<1>6. FileWhole'
  BY <1>2, <1>4
<1>7. (\A r \in Readers : Follows(reader[r])') /\ OffsetKnown'
  BY <1>2, <1>4 DEF Follows, OffsetKnown, Unused
<1> QED
  BY <1>5, <1>6, <1>7

\* The frames between two places of a file.
LEMMA CutIs ==
    ASSUME NEW S, NEW s \in Seq(S), NEW a \in 0 .. Len(s), NEW b \in a .. Len(s)
    PROVE  /\ SubSeq(s, a + 1, b) \in Seq(S)
           /\ Len(SubSeq(s, a + 1, b)) = b - a
           /\ \A i \in 1 .. Len(SubSeq(s, a + 1, b)) :
                  SubSeq(s, a + 1, b)[i] = s[a + i] /\ a + i \in 1 .. Len(s)
<1>1. Len(s) \in Nat /\ a \in Nat /\ b \in Nat /\ a <= b /\ b <= Len(s)
  OBVIOUS
<1>2. Len(SubSeq(s, a + 1, b)) = b - a
  <2>1. CASE a + 1 <= b
    BY <1>1, <2>1
  <2>2. CASE ~(a + 1 <= b)
    BY <1>1, <2>2
  <2> QED
    BY <2>1, <2>2
<1>3. SubSeq(s, a + 1, b) \in Seq(S)
  BY <1>1
<1>4. ASSUME NEW i \in 1 .. Len(SubSeq(s, a + 1, b))
      PROVE  SubSeq(s, a + 1, b)[i] = s[a + i] /\ a + i \in 1 .. Len(s)
  <2>1. i \in 1 .. (b - a) /\ a + i \in 1 .. Len(s)
    BY <1>1, <1>2
  <2>2. SubSeq(s, a + 1, b)[i] = s[(a + 1) + i - 1]
    BY <1>1, <2>1
  <2> QED
    BY <1>1, <2>1, <2>2
<1> QED
  BY <1>2, <1>3, <1>4

\* One step of a reader that reads a chunk from where it is, or takes a frame
\* of the chunk it has.
LEMMA AdvanceStep ==
    ASSUME Whole, NEW r \in Readers,
           NEW at \in 0 .. Len(file), NEW buf \in Seq(Frame), NEW expected \in Nat,
           Advance(r, at, buf, expected),
           \/ buf = <<>> /\ at = expected
           \/ /\ buf # <<>> /\ at = offset
              /\ reader[r] # Unused /\ Reached(reader[r]) = expected + Len(buf)
              /\ expected + Len(buf) <= next
              /\ \A i \in 1 .. Len(buf) : buf[i].pos = expected + i - 1,
           UNCHANGED <<file, synced, next, written, acked, lastId>>,
           lapses' = lapses
    PROVE  Whole'
<1> USE DEF Whole, TypeOK, FileWhole
<1> DEFINE end   == Smaller(at + Chunk, Len(file))
           fresh == SubSeq(file, at + 1, end)
           input == IF buf = <<>> THEN fresh ELSE buf
           state == IF input = <<>> THEN "done"
                    ELSE IF Head(input).pos = expected THEN "live" ELSE "corrupt"
           rd    == [state    |-> state,
                     buf      |-> IF state = "live" THEN Tail(input) ELSE <<>>,
                     expected |-> IF state = "live" THEN expected + 1 ELSE expected]
<1>1. end \in at .. Len(file) /\ (end = at => at = Len(file))
  BY ChunkAssumption DEF Smaller
<1>2. /\ offset' = IF buf = <<>> THEN end ELSE at
      /\ last' = IF buf = <<>> THEN r ELSE last
      /\ reader' = [reader EXCEPT ![r] = rd]
  BY DEF Advance
<1> HIDE DEF end
<1>3. /\ fresh \in Seq(Frame)
      /\ Len(fresh) = end - at
      /\ \A i \in 1 .. Len(fresh) : fresh[i].pos = at + i - 1
  <2>1. at \in 0 .. Len(file) /\ end \in at .. Len(file) /\ file \in Seq(Frame)
    BY <1>1
  <2>2. /\ fresh \in Seq(Frame)
        /\ Len(fresh) = end - at
        /\ \A i \in 1 .. Len(fresh) : fresh[i] = file[at + i] /\ at + i \in 1 .. Len(file)
    BY <2>1, CutIs
  <2>3. ASSUME NEW i \in 1 .. Len(fresh) PROVE fresh[i].pos = at + i - 1
    <3>1. fresh[i] = file[at + i] /\ at + i \in 1 .. Len(file)
      BY <2>2
    <3>2. file[at + i].pos = (at + i) - 1
      BY <3>1
    <3>3. at \in Nat /\ i \in Nat
      BY <2>1, <2>2
    <3> HIDE DEF fresh
    <3> QED
      BY <3>1, <3>2, <3>3
  <2> QED
    BY <2>2, <2>3
<1> HIDE DEF fresh
<1>4. /\ input \in Seq(Frame)
      /\ expected + Len(input) <= next
      /\ expected + Len(input) = IF buf = <<>> THEN end ELSE expected + Len(buf)
      /\ \A i \in 1 .. Len(input) : input[i].pos = expected + i - 1
      /\ input = <<>> => expected = next
  <2>1. CASE buf = <<>>
    <3>1. input = fresh /\ at = expected
      BY <2>1
    <3>2. input = <<>> => end = at
      BY <1>1, <1>3, <3>1
    <3> QED
      BY <1>1, <1>3, <2>1, <3>1, <3>2
  <2>2. CASE buf # <<>>
    BY <2>2
  <2> QED
    BY <2>1, <2>2
<1> HIDE DEF input, Whole, TypeOK, FileWhole
<1>5. input # <<>> => /\ Len(input) \in Nat \ {0}
                      /\ Head(input).pos = expected
                      /\ Tail(input) \in Seq(Frame)
                      /\ Len(Tail(input)) = Len(input) - 1
                      /\ \A i \in 1 .. Len(Tail(input)) : Tail(input)[i].pos = expected + 1 + i - 1
  <2> SUFFICES ASSUME input # <<>>
               PROVE  /\ Len(input) \in Nat \ {0}
                      /\ Head(input).pos = expected
                      /\ Tail(input) \in Seq(Frame)
                      /\ Len(Tail(input)) = Len(input) - 1
                      /\ \A i \in 1 .. Len(Tail(input)) : Tail(input)[i].pos = expected + 1 + i - 1
    OBVIOUS
  <2>1. /\ Len(input) \in Nat \ {0} /\ Head(input) = input[1]
        /\ Tail(input) \in Seq(Frame) /\ Len(Tail(input)) = Len(input) - 1
        /\ \A i \in 1 .. Len(Tail(input)) : Tail(input)[i] = input[i + 1]
    <3>1. input \in Seq(Frame)
      BY <1>4
    <3> QED
      BY <3>1, HeadTail
  <2>2. input[1].pos = expected + 1 - 1
    BY <1>4, <2>1
  <2>3. \A i \in 1 .. Len(Tail(input)) : Tail(input)[i].pos = expected + 1 + i - 1
    BY <1>4, <2>1
  <2> QED
    BY <2>1, <2>2, <2>3
<1>6. /\ rd \in [state : {"unused", "live", "done", "corrupt"}, buf : Seq(Frame), expected : Nat]
      /\ Follows(rd) /\ rd # Unused
      /\ Reached(rd) = expected + Len(input)
  <2>1. CASE input = <<>>
    <3>1. rd = [state |-> "done", buf |-> <<>>, expected |-> expected] /\ expected = next
      BY <2>1, <1>4
    <3> HIDE DEF rd
    <3> QED
      BY <2>1, <3>1 DEF Follows, Reached, Unused
  <2>2. CASE input # <<>>
    <3>1. rd = [state |-> "live", buf |-> Tail(input), expected |-> expected + 1]
      BY <2>2, <1>5
    <3>2. expected + 1 + Len(Tail(input)) = expected + Len(input)
      BY <2>2, <1>5
    <3>3. /\ rd.state = "live" /\ rd.buf = Tail(input) /\ rd.expected = expected + 1
          /\ rd # Unused
      BY <3>1 DEF Unused
    <3>4. rd \in [state : {"unused", "live", "done", "corrupt"}, buf : Seq(Frame), expected : Nat]
      BY <2>2, <1>5, <3>1
    <3> HIDE DEF rd
    <3>5. Reached(rd) = expected + Len(input)
      BY <3>2, <3>3 DEF Reached
    <3> QED
      BY <2>2, <1>4, <1>5, <3>3, <3>4, <3>5 DEF Follows
  <2> QED
    BY <2>1, <2>2
<1> HIDE DEF rd
<1>7. /\ reader'[r] = rd
      /\ \A q \in Readers \ {r} : reader'[q] = reader[q]
      /\ reader' \in [Readers -> [state : {"unused", "live", "done", "corrupt"},
                                  buf : Seq(Frame), expected : Nat]]
  BY <1>2, <1>6 DEF Whole, TypeOK
<1>8. \A q \in Readers : Follows(reader'[q])
  <2>1. \A q \in Readers : Follows(reader[q])
    BY DEF Whole
  <2> QED
    BY <1>6, <1>7, <2>1
<1>9. offset' \in 0 .. Len(file) /\ last' \in Readers \cup {Nobody}
  BY <1>1, <1>2 DEF Whole, TypeOK
<1>10. OffsetKnown'
  <2>1. CASE buf = <<>>
    BY <1>2, <1>4, <1>6, <1>7, <2>1, ChunkAssumption DEF OffsetKnown
  <2>2. CASE buf # <<>>
    <3>1. /\ last' = last /\ offset' = offset
          /\ reader[r] # Unused /\ Reached(reader[r]) = Reached(rd)
      BY <1>2, <1>4, <1>6, <2>2
    <3>2. OffsetKnown
      BY DEF Whole
    <3>3. last # Nobody
      BY <3>1, <3>2 DEF OffsetKnown
    <3>4. CASE last = r
      BY <1>6, <1>7, <3>1, <3>2, <3>3, <3>4 DEF OffsetKnown
    <3>5. CASE last # r
      <4>1. last \in Readers \ {r}
        BY <3>3, <3>5 DEF Whole, TypeOK
      <4>2. reader'[last] = reader[last]
        BY <1>7, <4>1
      <4> QED
        BY <3>1, <3>2, <3>3, <4>1, <4>2 DEF OffsetKnown
    <3> QED
      BY <3>4, <3>5
  <2> QED
    BY <2>1, <2>2
<1>11. TypeOK' /\ FileWhole'
  BY <1>7, <1>9 DEF Whole, TypeOK, FileWhole
<1>12. \A q \in Readers : Follows(reader[q])'
  BY <1>8 DEF Follows, Reached
<1> QED
  BY <1>10, <1>11, <1>12 DEF Whole

\* A reader that reads on without a lapse finds the offset where it has come to.
LEMMA ReadOnStep ==
    ASSUME Whole, NEW r \in Readers, ReadOn(r), lapses = {}, lapses' = {}
    PROVE  Whole'
<1> DEFINE buf == reader[r].buf
           expected == reader[r].expected
<1>1. /\ buf \in Seq(Frame) /\ expected \in Nat
      /\ reader[r].state = "live" /\ reader[r] # Unused
      /\ Reached(reader[r]) = expected + Len(buf)
      /\ expected + Len(buf) <= next
      /\ \A i \in 1 .. Len(buf) : buf[i].pos = expected + i - 1
      /\ next = Len(file) /\ Len(file) \in Nat /\ offset \in 0 .. Len(file)
  <2>1. buf \in Seq(Frame) /\ expected \in Nat
    BY DEF Whole, TypeOK
  <2>2. reader[r].state = "live" /\ reader[r] # Unused
    BY DEF ReadOn, Unused
  <2>3. Reached(reader[r]) = expected + Len(buf)
    BY DEF Reached
  <2>4. Follows(reader[r])
    BY DEF Whole
  <2>5. /\ expected + Len(buf) <= next
        /\ \A i \in 1 .. Len(buf) : buf[i].pos = expected + i - 1
    BY <2>2, <2>3, <2>4 DEF Follows
  <2>6. next = Len(file) /\ Len(file) \in Nat /\ offset \in 0 .. Len(file)
    BY DEF Whole, TypeOK, FileWhole
  <2> QED
    BY <2>1, <2>2, <2>3, <2>5, <2>6
<1>2. /\ Advance(r, offset, buf, expected)
      /\ UNCHANGED <<file, synced, next, written, acked, lastId>>
      /\ ~Crosses(r)
  BY DEF ReadOn
<1>3. buf = <<>> => offset = expected
  <2> SUFFICES ASSUME buf = <<>> PROVE offset = expected
    OBVIOUS
  <2>1. /\ last \in Readers
        /\ offset = IF reader[last] # Unused THEN Reached(reader[last]) ELSE Len(file)
    BY <1>1 DEF Whole, TypeOK, OffsetKnown
  <2>2. Reached(reader[r]) = expected
    BY <1>1
  <2>3. CASE last = r
    BY <1>1, <2>1, <2>2, <2>3
  <2>4. CASE last # r
    <3>1. ~Unread(reader[r]) /\ ~Unread(reader[last])
      BY <1>2, <2>1, <2>4, ChunkAssumption DEF Crosses
    <3>2. expected = Len(file)
      BY <1>1, <2>2, <3>1 DEF Unread, Reached
    <3>3. reader[last] # Unused => Reached(reader[last]) = Len(file)
      <4> SUFFICES ASSUME reader[last] # Unused PROVE Reached(reader[last]) = Len(file)
        OBVIOUS
      <4>1. Reached(reader[last]) <= Len(file) /\ Reached(reader[last]) \in Nat
        BY <1>1, <2>1 DEF Whole, TypeOK, Follows, Reached
      <4>2. ~(Reached(reader[last]) < Len(file))
        BY <3>1 DEF Unread, Reached
      <4> QED
        BY <1>1, <4>1, <4>2
    <3> QED
      BY <2>1, <3>2, <3>3
  <2> QED
    BY <2>3, <2>4
<1> HIDE DEF buf, expected
<1> QED
  BY <1>1, <1>2, <1>3, AdvanceStep

\* A reader that is dropped without a lapse leaves the offset at the end.
LEMMA DropStep ==
    ASSUME Whole, NEW r \in Readers, Drop(r), lapses' = {}
    PROVE  Whole'
<1>1. /\ reader' = [reader EXCEPT ![r] = Unused]
      /\ ~Unread(reader[r])
      /\ UNCHANGED <<file, synced, offset, next, written, acked, lastId, last>>
      /\ reader[r] # Unused
  BY DEF Drop, Unused
<1>2. /\ reader'[r] = Unused
      /\ \A q \in Readers \ {r} : reader'[q] = reader[q]
  BY <1>1 DEF Whole, TypeOK
<1>3. TypeOK' /\ FileWhole'
  BY <1>1 DEF Whole, TypeOK, FileWhole, Drop, Unused
<1>4. \A q \in Readers : Follows(reader[q])'
  BY <1>1, <1>2 DEF Whole, Follows, Reached, Unused
<1>5. Reached(reader[r]) = Len(file)
  <2>1. Reached(reader[r]) <= next /\ next = Len(file) /\ Reached(reader[r]) \in Nat
    BY <1>1 DEF Whole, TypeOK, FileWhole, Follows, Reached
  <2> QED
    BY <1>1, <2>1 DEF Unread, Reached
<1>6. OffsetKnown'
  <2>1. OffsetKnown
    BY DEF Whole
  <2>2. last # Nobody
    BY <1>1, <2>1 DEF OffsetKnown
  <2>3. last \in Readers
    BY <2>2 DEF Whole, TypeOK
  <2>4. CASE last = r
    BY <1>1, <1>2, <1>5, <2>1, <2>2, <2>3, <2>4 DEF OffsetKnown
  <2>5. CASE last # r
    BY <1>1, <1>2, <2>1, <2>2, <2>3, <2>5 DEF OffsetKnown, Unused, Reached
  <2> QED
    BY <2>4, <2>5
<1> QED
  BY <1>3, <1>4, <1>6 DEF Whole

\* Every step, of callers that have not lapsed and do not in it.
LEMMA FileStep ==
    ASSUME FileInv, [Next]_vars
    PROVE  FileInv'
<1> SUFFICES ASSUME lapses' = {} PROVE Whole'
  BY DEF FileInv
<1>0. Whole /\ lapses = {}
  BY DEF FileInv, Next, vars, Append1, Commit, Reopen, ReadFirst, ReadOn, Drop
<1>1. CASE Append1
  BY <1>0, <1>1, Append1Step
<1>2. CASE Commit
  BY <1>0, <1>2 DEF Whole, TypeOK, FileWhole, Follows, OffsetKnown, Reached, Unused, Commit
<1>3. CASE Reopen
  BY <1>0, <1>3, ReopenStep
<1>4. ASSUME NEW r \in Readers, ReadFirst(r) PROVE Whole'
  <2>1. <<>> \in Seq(Frame) /\ 0 \in 0 .. Len(file)
    BY <1>0 DEF Whole, TypeOK
  <2> QED
    BY <1>0, <1>4, <2>1, AdvanceStep DEF ReadFirst, StartOfFile
<1>5. ASSUME NEW r \in Readers, ReadOn(r) PROVE Whole'
  BY <1>0, <1>5, ReadOnStep
<1>6. ASSUME NEW r \in Readers, Drop(r) PROVE Whole'
  BY <1>0, <1>6, DropStep
<1>7. CASE UNCHANGED vars
  BY <1>0, <1>7 DEF Whole, TypeOK, FileWhole, Follows, OffsetKnown, Reached, Unused, vars
<1> QED
  BY <1>1, <1>2, <1>3, <1>4, <1>5, <1>6, <1>7 DEF Next

\* Whatever the size of a segment and of a read, and however many readers read
\* in turns: what commit() acknowledged is not overwritten, unless a reader is
\* dropped with frames unread or reads on after another (Segment::append_batch,
\* SegmentCursor::fill).
THEOREM NothingOverwritten == Spec => []AppendOnly
<1>1. FileInv => AppendOnly
  BY DEF FileInv, Whole, TypeOK, FileWhole, AppendOnly, AppendOnlyAlways
<1> QED
  BY <1>1, FileInit, FileStep, PTL DEF Spec

\* Under the same condition a reader that reports the end has yielded every
\* position below the head, however many chunks it took (LogReader::next).
THEOREM ReadersMissNothing == Spec => []NoGaps
<1>1. FileInv => NoGaps
  <2> SUFFICES ASSUME FileInv, lapses = {}
               PROVE  NoGapsAlways /\ \A r \in Readers : reader[r].state # "corrupt"
    BY DEF NoGaps
  <2>1. \A r \in Readers : Follows(reader[r])
    BY DEF FileInv, Whole
  <2> QED
    BY <2>1 DEF NoGapsAlways, Follows, Unused
<1> QED
  BY <1>1, FileInit, FileStep, PTL DEF Spec
=============================================================================
