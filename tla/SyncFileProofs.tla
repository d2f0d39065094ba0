--------------------------- MODULE SyncFileProofs ---------------------------
(***************************************************************************)
(* Proofs about sync_file, for any files, any arguments of the calls, any  *)
(* header and any size of the words.                                       *)
(***************************************************************************)
EXTENDS SyncFile, TLAPS

-----------------------------------------------------------------------------
(* Offsets and points.                                                     *)

\* The constants are in proportion: a file and its header fit well below the
\* quotient, and the quotient twice in a word.
LEMMA Sizes ==
  /\ HeaderSlots \in Nat /\ HeaderSlots > 1
  /\ RecordQuotient \in Nat /\ Word \in Nat
  /\ 2 * HeaderSlots + 2 < RecordQuotient
  /\ 2 * RecordQuotient <= Word
  /\ OffsetLimit \in Nat /\ 2 * HeaderSlots < OffsetLimit /\ OffsetLimit <= RecordQuotient
<1>1. FileSize(NoFile) + RecordSize < OffsetLimit
  BY FilesAssumption DEF IsFile
<1>2. PointCount(NoFile) = 0 /\ TailSize(NoFile) = 0
  BY DEF NoFile, PointCount, TailSize
<1>3. HeaderSlots \in Nat
  BY ConstantsAssumption DEF HeaderSlots
<1>4. 2 * HeaderSlots + 2 < OffsetLimit
  BY <1>1, <1>2, <1>3 DEF FileSize, HeaderSize, RecordSize
<1> QED
  BY <1>3, <1>4, ConstantsAssumption

LEMMA PointsOfTheModel ==
  NoPoint \in Points /\ ZeroPoint \in Points /\ Garbled \in Points
BY ConstantsAssumption DEF NoPoint, ZeroPoint, Points, Types, Exits, EmulatedExits

LEMMA EventsOfTheModel == NoEvent \in Events
BY DEF NoEvent, NoPoint, ContextOf, Events, Contexts, Types, Exits, EmulatedExits

LEMMA FileFacts ==
  ASSUME NEW f, IsFile(f)
  PROVE  /\ f.recs \in Seq(Points) /\ f.tail \in Seq(Points)
         /\ PointCount(f) \in Nat /\ TailSize(f) \in Nat /\ TailSize(f) <= 1
         /\ 2 * HeaderSlots + PointCount(f) + 2 < RecordQuotient
<1>1. f.recs \in Seq(Points) /\ f.tail \in Seq(Points)
  BY DEF IsFile, FileType
<1>2. PointCount(f) \in Nat /\ TailSize(f) \in Nat
  BY <1>1 DEF PointCount, TailSize
<1>3. TailSize(f) <= 1 /\ FileSize(f) + 2 < OffsetLimit
  BY DEF IsFile, RecordSize
<1>4. FileSize(f) = 2 * HeaderSlots + 2 * PointCount(f) + TailSize(f)
  BY DEF FileSize, HeaderSize
<1>5. \A h, c, t, l, q \in Nat : 2 * h + 2 * c + t + 2 < l /\ l <= q => 2 * h + c + 2 < q
  OBVIOUS
<1> QED
  BY <1>1, <1>2, <1>3, <1>4, <1>5, Sizes

LEMMA FileSizeFacts ==
  ASSUME NEW f, IsFile(f)
  PROVE  /\ FileSize(f) \in Nat /\ HeaderSize \in Nat
         /\ HeaderSize = 2 * HeaderSlots
         /\ FileSize(f) = HeaderSize + 2 * PointCount(f) + TailSize(f)
         /\ FileSize(f) + 2 < OffsetLimit /\ HeaderSize < OffsetLimit
<1>1. FileSize(f) + 2 < OffsetLimit
  BY DEF IsFile, RecordSize
<1> QED
  BY <1>1, FileFacts, Sizes DEF FileSize, HeaderSize

\* Whatever the offset, some point is decoded.
LEMMA PointAtType ==
  ASSUME NEW f, IsFile(f), NEW offset \in Nat
  PROVE  PointAt(f, offset) \in Points
<1>1. f.recs \in Seq(Points) /\ f.tail \in Seq(Points)
  BY FileFacts
<1>2. /\ PointCount(f) \in Nat /\ TailSize(f) \in Nat /\ TailSize(f) <= 1
      /\ FileSize(f) \in Nat /\ HeaderSize \in Nat /\ HeaderSize = 2 * HeaderSlots
      /\ FileSize(f) = HeaderSize + 2 * PointCount(f) + TailSize(f)
  BY FileFacts, FileSizeFacts
<1>3. CASE offset >= FileSize(f) \/ offset % 2 = 1
  BY <1>3, PointsOfTheModel DEF PointAt
<1>4. CASE offset < FileSize(f) /\ offset % 2 # 1 /\ offset < HeaderSize
  <2>1. (offset \div 2) + 1 \in 1..HeaderSlots
    BY <1>2, <1>4, Sizes
  <2>2. Header[(offset \div 2) + 1] \in Points
    BY <2>1, ConstantsAssumption DEF HeaderSlots
  <2> QED
    BY <1>2, <1>4, <2>2 DEF PointAt
<1>5. CASE /\ offset < FileSize(f) /\ offset % 2 # 1 /\ offset >= HeaderSize
           /\ offset < HeaderSize + 2 * PointCount(f)
  <2>1. ((offset - HeaderSize) \div 2) + 1 \in 1..PointCount(f)
    BY <1>2, <1>5
  <2>2. f.recs[((offset - HeaderSize) \div 2) + 1] \in Points
    BY <1>1, <2>1 DEF PointCount
  <2> QED
    BY <1>2, <1>5, <2>2 DEF PointAt
<1>6. CASE /\ offset < FileSize(f) /\ offset % 2 # 1
           /\ offset >= HeaderSize + 2 * PointCount(f)
  <2>1. TailSize(f) = 1
    BY <1>1, <1>2, <1>6
  <2>2. f.tail[1] \in Points
    BY <1>1, <2>1 DEF TailSize
  <2> QED
    BY <1>2, <1>6, <2>2 DEF PointAt
<1> QED
  BY <1>2, <1>3, <1>4, <1>5, <1>6

\* Reading m records from where position p is, within the file, leads to where
\* position p + m is: in each of the three ranges of OffsetOf.
LEMMA OffsetStep ==
  ASSUME NEW c \in Nat, 2 * HeaderSlots + c + 2 < RecordQuotient,
         NEW p \in 0..(Word - 1), NEW m \in Nat,
         OffsetOf(p) + 2 * m <= HeaderSize + 2 * c + 1
  PROVE  OffsetOf(Wrap(p + m)) = OffsetOf(p) + 2 * m
BY Sizes DEF OffsetOf, Wrap, HeaderSize

LEMMA WrapType ==
  ASSUME NEW p \in 0..(Word - 1), NEW m \in 0..Word
  PROVE  Wrap(p + m) \in 0..(Word - 1)
BY Sizes DEF Wrap

LEMMA OffsetType ==
  ASSUME NEW p \in 0..(Word - 1)
  PROVE  OffsetOf(p) \in Nat /\ OffsetOf(p) % 2 = 0
<1>1. PICK k \in Nat : OffsetOf(p) = 2 * k
  <2>1. CASE p >= Word - HeaderSlots
    <3>1. p - (Word - HeaderSlots) \in Nat /\ OffsetOf(p) = 2 * (p - (Word - HeaderSlots))
      BY <2>1, Sizes DEF OffsetOf
    <3> QED
      BY <3>1
  <2>2. CASE p < Word - HeaderSlots /\ p >= RecordQuotient - HeaderSlots
    <3>1. /\ p - (RecordQuotient - HeaderSlots) \in Nat
          /\ OffsetOf(p) = 2 * (p - (RecordQuotient - HeaderSlots))
      BY <2>2, Sizes DEF OffsetOf
    <3> QED
      BY <3>1
  <2>3. CASE p < Word - HeaderSlots /\ p < RecordQuotient - HeaderSlots
    <3>1. HeaderSlots + p \in Nat /\ OffsetOf(p) = 2 * (HeaderSlots + p)
      BY <2>3, Sizes DEF OffsetOf, HeaderSize
    <3> QED
      BY <3>1
  <2> QED
    BY <2>1, <2>2, <2>3, Sizes
<1>2. \A i \in Nat : 2 * i \in Nat /\ (2 * i) % 2 = 0
  OBVIOUS
<1> QED
  BY <1>1, <1>2

\* The offset after record p is that of position p.
LEMMA OffsetOfRecord ==
  ASSUME NEW f, IsFile(f), NEW p \in 1..PointCount(f), NEW offset \in Nat,
         offset + 2 = OffsetOf(p)
  PROVE  PointAt(f, offset) = f.recs[p]
<1>1. /\ PointCount(f) \in Nat /\ TailSize(f) \in Nat /\ TailSize(f) <= 1
      /\ 2 * HeaderSlots + PointCount(f) + 2 < RecordQuotient
      /\ FileSize(f) \in Nat /\ HeaderSize \in Nat /\ HeaderSize = 2 * HeaderSlots
      /\ FileSize(f) = HeaderSize + 2 * PointCount(f) + TailSize(f)
  BY FileFacts, FileSizeFacts
<1>2. offset = HeaderSize + 2 * (p - 1)
  BY <1>1, Sizes DEF OffsetOf
<1>3. /\ offset < FileSize(f) /\ ~(offset < HeaderSize)
      /\ offset < HeaderSize + 2 * PointCount(f)
  BY <1>1, <1>2
<1>4. offset = 2 * (HeaderSlots + p - 1) /\ offset - HeaderSize = 2 * (p - 1)
  BY <1>1, <1>2, Sizes
<1>5. offset % 2 # 1 /\ ((offset - HeaderSize) \div 2) + 1 = p
  BY <1>1, <1>4, Sizes
<1> QED
  BY <1>1, <1>3, <1>5 DEF PointAt

-----------------------------------------------------------------------------
(* The readers that next and seek leave.                                   *)

Stalls(s) == s.fail /\ ~s.eof

\* The offset of the stream is the one of the position or, between two records,
\* the next one; and the current point is the record of that position.
Consistent(f, r) ==
  r.stream.isOpen /\ ~Stalls(r.stream) =>
    /\ OffsetOf(r.position) \in {r.stream.at, r.stream.at - 1}
    /\ r.stream.at < OffsetLimit
    /\ ~r.stream.fail /\ r.stream.at % 2 = 0 /\ r.position \in 1..PointCount(f)
         => r.current \in {f.recs[r.position], NoPoint}

LEMMA ReaderType ==
  ASSUME NEW r
  PROVE  r \in Reader <=> /\ r = [stream |-> r.stream, current |-> r.current,
                                  position |-> r.position, event |-> r.event]
                          /\ r.stream \in S!Streams /\ r.current \in Points
                          /\ r.position \in 0..(Word - 1) /\ r.event \in Events
BY DEF Reader

LEMMA ReadType ==
  ASSUME NEW s \in S!Streams, NEW size
  PROVE  /\ S!Read(s, RecordSize, size) \in S!Streams
         /\ S!Read(s, RecordSize, size).isOpen = s.isOpen
<1>1. s.at + RecordSize \in Nat
  BY DEF S!Streams, RecordSize
<1> QED
  BY <1>1 DEF S!Streams, S!Read

\* How many points one call of next reads.
LEMMA ReadsFit ==
  ASSUME NEW f, IsFile(f), NEW r
  PROVE  ReadsAtMost(f, r) \in Nat /\ ReadsAtMost(f, r) < Word
<1>1. FileSize(f) \in Nat /\ FileSize(f) < OffsetLimit
  BY FileSizeFacts, Sizes
<1> QED
  BY <1>1, Sizes DEF ReadsAtMost

LEMMA StreamAfterType ==
  ASSUME NEW f, IsFile(f), NEW r \in Reader, NEW n \in Nat
  PROVE  /\ StreamAfter(f, r, n) \in S!Streams
         /\ StreamAfter(f, r, n).isOpen = r.stream.isOpen
         /\ r.stream.fail => StreamAfter(f, r, n) = r.stream
<1>1. r.stream \in S!Streams /\ r.stream.at \in Nat
  BY DEF Reader, S!Streams
<1> DEFINE s == [r.stream EXCEPT !.at = @ + 2 * n]
<1>2. s \in S!Streams /\ s.isOpen = r.stream.isOpen
  BY <1>1 DEF S!Streams
<1> HIDE DEF s
<1>3. S!Read(s, RecordSize, FileSize(f)) \in S!Streams
      /\ S!Read(s, RecordSize, FileSize(f)).isOpen = s.isOpen
  BY <1>2, ReadType
<1>4. StreamAfter(f, r, n) = IF r.stream.fail THEN r.stream ELSE S!Read(s, RecordSize, FileSize(f))
  BY DEF StreamAfter, s
<1> QED
  BY <1>1, <1>2, <1>3, <1>4

LEMMA NextKeeps ==
  ASSUME NEW f, IsFile(f), NEW r \in Reader, Consistent(f, r),
         NEW q \in NextFrom(f, r)
  PROVE  /\ q \in Reader /\ Consistent(f, q)
         /\ q.stream.isOpen = r.stream.isOpen
<1>1. CASE r.stream.eof
  BY <1>1 DEF NextFrom
<1>2. CASE ~r.stream.eof
  <2>1. PICK n \in Skips(f, r) :
          q = [stream   |-> StreamAfter(f, r, n),
               current  |-> PointAfter(f, r, n),
               position |-> Wrap(r.position + n + (IF EndsAfter(f, r, n) THEN 0 ELSE 1)),
               event    |-> NoEvent]
    BY <1>2 DEF NextFrom
  <2> DEFINE at == r.stream.at
             p  == r.position
  <2>2. /\ n \in Nat /\ n < Word
        /\ \A m \in 0..(n - 1) : ~EndsAfter(f, r, m)
    <3>1. ReadsAtMost(f, r) \in Nat /\ ReadsAtMost(f, r) < Word /\ Word \in Nat
      BY ReadsFit, Sizes
    <3>2. n \in 0..ReadsAtMost(f, r) /\ \A m \in 0..(n - 1) : ~EndsAfter(f, r, m)
      BY DEF Skips
    <3> QED
      BY <3>1, <3>2
  <2>3. /\ q.stream = StreamAfter(f, r, n)
        /\ q.current = PointAfter(f, r, n)
        /\ q.position = Wrap(p + n + (IF EndsAfter(f, r, n) THEN 0 ELSE 1))
        /\ q.event = NoEvent
        /\ q = [stream |-> q.stream, current |-> q.current,
                position |-> q.position, event |-> q.event]
    BY <2>1
  <2>4. /\ at \in Nat /\ p \in 0..(Word - 1) /\ FileSize(f) \in Nat
        /\ r.stream \in S!Streams /\ FileSize(f) + 2 < OffsetLimit /\ OffsetLimit \in Nat
    BY FileSizeFacts, Sizes DEF Reader, S!Streams
  <2>5. q.current \in Points
    BY <2>2, <2>3, <2>4, PointAtType, PointsOfTheModel DEF PointAfter
  <2>6. /\ EndsAfter(f, r, n) => q.position = Wrap(p + n)
        /\ ~EndsAfter(f, r, n) => q.position = Wrap(p + (n + 1))
    BY <2>2, <2>3, <2>4
  <2>7. q.position \in 0..(Word - 1)
    <3>1. n \in 0..Word /\ n + 1 \in 0..Word
      BY <2>2, Sizes
    <3> QED
      BY <2>4, <2>6, <3>1, WrapType
  <2>8. q.stream \in S!Streams /\ q.stream.isOpen = r.stream.isOpen
        /\ (r.stream.fail => q.stream = r.stream)
    BY <2>2, <2>3, StreamAfterType
  <2>9. q \in Reader
    BY <2>3, <2>5, <2>7, <2>8, EventsOfTheModel DEF Reader
  <2>10. Consistent(f, q)
    <3> SUFFICES ASSUME q.stream.isOpen, ~Stalls(q.stream)
                 PROVE  /\ OffsetOf(q.position) \in {q.stream.at, q.stream.at - 1}
                        /\ q.stream.at < OffsetLimit
                        /\ ~q.stream.fail /\ q.stream.at % 2 = 0
                           /\ q.position \in 1..PointCount(f)
                             => q.current \in {f.recs[q.position], NoPoint}
      BY DEF Consistent
    <3>1. ~r.stream.fail
      BY <1>2, <2>8 DEF Stalls
    <3>2. OffsetOf(p) \in {at, at - 1} /\ at < OffsetLimit
      BY <2>8, <3>1 DEF Consistent, Stalls
    <3>3. \A m \in Nat : EndsAfter(f, r, m) <=> at + 2 * m + 2 > FileSize(f)
      <4>1. ASSUME NEW m \in Nat PROVE [r.stream EXCEPT !.at = @ + 2 * m].at = at + 2 * m
        BY <2>4 DEF S!Streams
      <4> QED
        BY <3>1, <4>1 DEF EndsAfter, S!FallsShort, RecordSize
    <3>4. n # 0 => at + 2 * n <= FileSize(f)
      <4>1. n # 0 => n - 1 \in 0..(n - 1) /\ n - 1 \in Nat
        BY <2>2
      <4>2. n # 0 => ~(at + 2 * (n - 1) + 2 > FileSize(f))
        BY <2>2, <3>3, <4>1
      <4> QED
        BY <2>2, <2>4, <4>2
    <3> DEFINE s == [r.stream EXCEPT !.at = @ + 2 * n]
    <3>5. /\ q.stream = S!Read(s, RecordSize, FileSize(f)) /\ s \in S!Streams
          /\ s.at = at + 2 * n /\ ~s.fail /\ ~s.eof
      BY <1>2, <2>2, <2>3, <2>4, <3>1 DEF StreamAfter, S!Streams
    <3> HIDE DEF s
    <3>6. ASSUME NEW m \in Nat, m = 0 \/ at + 2 * m <= FileSize(f)
          PROVE  OffsetOf(Wrap(p + m)) = OffsetOf(p) + 2 * m
      <4>1. CASE m = 0
        BY <2>4, <4>1, OffsetType, Sizes DEF Wrap
      <4>2. CASE at + 2 * m <= FileSize(f)
        <5> DEFINE c == PointCount(f)
        <5>1. /\ c \in Nat /\ 2 * HeaderSlots + c + 2 < RecordQuotient
              /\ FileSize(f) <= HeaderSize + 2 * c + 1 /\ HeaderSize \in Nat
          BY FileFacts, FileSizeFacts
        <5> HIDE DEF c
        <5>2. OffsetOf(p) \in Nat /\ OffsetOf(p) <= at
          BY <2>4, <3>2, OffsetType
        <5>3. OffsetOf(p) + 2 * m <= HeaderSize + 2 * c + 1
          BY <2>4, <4>2, <5>1, <5>2
        <5> QED
          BY <2>4, <5>1, <5>3, OffsetStep
      <4> QED
        BY <3>6, <4>1, <4>2
    <3>7. CASE EndsAfter(f, r, n)
      <4>1. S!FallsShort(s, RecordSize, FileSize(f))
        BY <2>2, <2>4, <3>3, <3>5, <3>7 DEF S!FallsShort, RecordSize
      <4>2. q.stream = [s EXCEPT !.fail = TRUE, !.eof = TRUE]
        BY <3>5, <4>1 DEF S!Read
      <4>3. q.stream.at = at + 2 * n /\ q.stream.fail
        BY <3>5, <4>2 DEF S!Streams
      <4>4. OffsetOf(q.position) = OffsetOf(p) + 2 * n
        BY <2>2, <2>6, <3>4, <3>6, <3>7
      <4>5. OffsetOf(p) \in Nat
        BY <2>4, OffsetType
      <4>6. OffsetOf(q.position) \in {q.stream.at, q.stream.at - 1}
        BY <2>2, <2>4, <3>2, <4>3, <4>4, <4>5
      <4>7. q.stream.at < OffsetLimit
        BY <2>2, <2>4, <3>2, <3>4, <4>3
      <4> QED
        BY <4>3, <4>6, <4>7
    <3>8. CASE ~EndsAfter(f, r, n)
      <4>1. at + 2 * n + 2 <= FileSize(f)
        BY <2>2, <2>4, <3>3, <3>8
      <4>2. ~S!FallsShort(s, RecordSize, FileSize(f))
        BY <2>2, <2>4, <3>5, <4>1 DEF S!FallsShort, RecordSize
      <4>3. q.stream = [s EXCEPT !.at = @ + RecordSize]
        BY <3>5, <4>2 DEF S!Read
      <4>4. q.stream.at = at + 2 * n + 2
        BY <3>5, <4>3 DEF S!Streams, RecordSize
      <4>5. n + 1 \in Nat /\ at + 2 * (n + 1) <= FileSize(f)
        BY <2>2, <2>4, <4>1
      <4>6. OffsetOf(q.position) = OffsetOf(p) + 2 * (n + 1)
        BY <2>6, <3>6, <3>8, <4>5
      <4>7. OffsetOf(p) \in Nat
        BY <2>4, OffsetType
      <4>8. OffsetOf(q.position) \in {q.stream.at, q.stream.at - 1}
        BY <2>2, <2>4, <3>2, <4>4, <4>6, <4>7
      <4>9. q.stream.at < OffsetLimit
        BY <2>2, <2>4, <4>1, <4>4
      <4>10. ASSUME q.stream.at % 2 = 0, q.position \in 1..PointCount(f)
             PROVE  q.current = f.recs[q.position]
        <5>1. OffsetOf(q.position) % 2 = 0 /\ OffsetOf(q.position) \in Nat /\ q.stream.at \in Nat
          BY <2>2, <2>4, <2>7, <4>4, OffsetType
        <5>2. OffsetOf(q.position) = q.stream.at
          BY <4>8, <4>10, <5>1
        <5>3. at + 2 * n \in Nat /\ (at + 2 * n) + 2 = OffsetOf(q.position)
          BY <2>2, <2>4, <4>4, <5>2
        <5>4. q.current = PointAt(f, at + 2 * n)
          BY <2>3, <3>1 DEF PointAfter
        <5> QED
          BY <4>10, <5>3, <5>4, OffsetOfRecord
      <4> QED
        BY <4>8, <4>9, <4>10
    <3> QED
      BY <3>7, <3>8
  <2> QED
    BY <2>8, <2>9, <2>10
<1> QED
  BY <1>1, <1>2

LEMMA SeekType ==
  ASSUME NEW s \in S!Streams, NEW to \in Int
  PROVE  /\ S!Seek(s, to) \in S!Streams
         /\ S!Seek(s, to).isOpen = s.isOpen
         /\ ~S!Seek(s, to).fail => s.isOpen /\ to >= 0 /\ S!Seek(s, to).at = to
         /\ S!Seek(s, to).fail <=> ~(s.isOpen /\ to >= 0)
         /\ S!Seek(s, to).eof = ~s.isOpen
         /\ s.isOpen /\ to >= 0 => S!Seek(s, to).at = to
<1>1. CASE s.isOpen /\ to >= 0
  <2>1. S!Seek(s, to) = [s EXCEPT !.at = to, !.fail = FALSE, !.eof = FALSE]
    BY <1>1 DEF S!Seek, S!Streams
  <2>2. to \in Nat
    BY <1>1
  <2>3. S!Seek(s, to) \in S!Streams
    BY <2>1, <2>2 DEF S!Streams
  <2>4. /\ S!Seek(s, to).at = to /\ S!Seek(s, to).fail = FALSE
        /\ S!Seek(s, to).isOpen = s.isOpen /\ S!Seek(s, to).eof = FALSE
    BY <2>1 DEF S!Streams
  <2> QED
    BY <1>1, <2>3, <2>4
<1>2. CASE ~(s.isOpen /\ to >= 0)
  <2>1. S!Seek(s, to) = [s EXCEPT !.at = s.at, !.fail = TRUE, !.eof = ~s.isOpen]
    BY <1>2 DEF S!Seek, S!Streams
  <2> QED
    BY <1>2, <2>1 DEF S!Streams
<1> QED
  BY <1>1, <1>2

\* Where seek goes: to the offset of the position, or nowhere.
LEMMA SeekOffsetType ==
  ASSUME NEW p \in 0..(Word - 1)
  PROVE  /\ SeekOffset(p) \in Int
         /\ SeekOffset(p) >= 0 <=> OffsetOf(p) < OffsetLimit
         /\ SeekOffset(p) >= 0 => SeekOffset(p) = OffsetOf(p)
<1>1. OffsetOf(p) \in Nat
  BY OffsetType
<1> QED
  BY <1>1, Sizes DEF SeekOffset, S!Signed

LEMMA SeekKeeps ==
  ASSUME NEW f, IsFile(f), NEW r \in Reader, Consistent(f, r),
         r.stream.isOpen => sized,
         NEW p \in 0..(Word - 1), NEW q \in SeekFrom(f, r, p)
  PROVE  /\ q \in Reader /\ Consistent(f, q)
         /\ q.stream.isOpen = r.stream.isOpen
         /\ p = 0 => q.position = 0
<1>1. /\ r.stream \in S!Streams /\ r.event \in Events /\ HeaderSize \in Nat
      /\ 0 \in 0..(Word - 1) /\ OffsetOf(0) = HeaderSize /\ HeaderSize < OffsetLimit
  BY Sizes DEF Reader, HeaderSize, OffsetOf
<1>2. ASSUME NEW to \in Nat
      PROVE  /\ S!Seek(r.stream, to) \in S!Streams
             /\ S!Seek(r.stream, to).isOpen = r.stream.isOpen
             /\ r.stream.isOpen => S!Seek(r.stream, to).at = to
  <2>1. to \in Int /\ to >= 0
    BY <1>2
  <2> QED
    BY <1>1, <2>1, SeekType
<1>3. CASE ~sized
  <2>1. q = [r EXCEPT !.position = 0]
    BY <1>3 DEF SeekFrom
  <2> QED
    BY <1>1, <1>3, <2>1 DEF Reader, Consistent
<1>4. CASE sized /\ p = 0
  <2> DEFINE s == S!Seek(r.stream, HeaderSize)
  <2>1. q = [r EXCEPT !.stream = s, !.current = NoPoint, !.position = 0]
    BY <1>4 DEF SeekFrom
  <2>2. s \in S!Streams /\ s.isOpen = r.stream.isOpen /\ (s.isOpen => s.at = HeaderSize)
    BY <1>1, <1>2
  <2> HIDE DEF s
  <2>3. /\ q.stream = s /\ q.current = NoPoint /\ q.position = 0 /\ q \in Reader
    BY <1>1, <2>1, <2>2, PointsOfTheModel DEF Reader
  <2> QED
    BY <1>1, <2>2, <2>3 DEF Consistent
<1>5. CASE sized /\ p # 0
  <2> DEFINE s == S!Seek(r.stream, SeekOffset(p - 1))
             t == [r EXCEPT !.stream = s, !.current = NoPoint, !.position = p - 1]
  <2>1. q \in NextFrom(f, t)
    BY <1>5 DEF SeekFrom
  <2>2. p - 1 \in 0..(Word - 1)
    BY <1>5, Sizes
  <2>3. /\ s \in S!Streams /\ s.isOpen = r.stream.isOpen
        /\ s.isOpen /\ ~Stalls(s) => s.at = OffsetOf(p - 1) /\ s.at < OffsetLimit
    <3>1. SeekOffset(p - 1) \in Int
      BY <2>2, SeekOffsetType
    <3>2. /\ s \in S!Streams /\ s.isOpen = r.stream.isOpen
          /\ ~s.fail => SeekOffset(p - 1) >= 0 /\ s.at = SeekOffset(p - 1)
          /\ s.eof = ~r.stream.isOpen
      BY <1>1, <3>1, SeekType
    <3> QED
      BY <2>2, <3>2, SeekOffsetType DEF Stalls
  <2> HIDE DEF s
  <2>4. t \in Reader /\ t.stream = s /\ t.position = p - 1 /\ t.current = NoPoint
    BY <2>2, <2>3, PointsOfTheModel DEF Reader
  <2> HIDE DEF t
  <2>5. Consistent(f, t)
    BY <2>3, <2>4 DEF Consistent
  <2> QED
    BY <1>5, <2>1, <2>3, <2>4, <2>5, NextKeeps
<1> QED
  BY <1>3, <1>4, <1>5

-----------------------------------------------------------------------------
(* Where next goes in the records.                                         *)

\* The reader r stands after record p, where the next read begins.
StandsAfter(r, p) ==
  /\ ~r.stream.fail /\ ~r.stream.eof /\ r.stream.at = HeaderSize + 2 * p
  /\ r.position = p

\* What is read at the end of the file: the incomplete record, if there is one.
EndPoint(f) == IF TailSize(f) = 1 THEN f.tail[1] ELSE ZeroPoint

LEMMA FileLayout ==
  ASSUME NEW f, IsFile(f)
  PROVE  /\ f.recs \in Seq(Points) /\ PointCount(f) = Len(f.recs) /\ Len(f.recs) \in Nat
         /\ TailSize(f) \in {0, 1}
         /\ FileSize(f) = HeaderSize + 2 * Len(f.recs) + TailSize(f)
         /\ HeaderSize \in Nat /\ HeaderSize = 2 * HeaderSlots /\ HeaderSlots \in Nat
         /\ HeaderSlots + Len(f.recs) + 2 < RecordQuotient - HeaderSlots
         /\ RecordQuotient \in Nat /\ Word \in Nat /\ 2 * RecordQuotient <= Word
<1>1. /\ f.recs \in Seq(Points) /\ PointCount(f) = Len(f.recs) /\ Len(f.recs) \in Nat
      /\ 2 * HeaderSlots + PointCount(f) + 2 < RecordQuotient
      /\ FileSize(f) = HeaderSize + 2 * PointCount(f) + TailSize(f)
      /\ HeaderSize \in Nat /\ HeaderSize = 2 * HeaderSlots
      /\ TailSize(f) \in Nat /\ TailSize(f) <= 1
  BY FileFacts, FileSizeFacts DEF PointCount
<1>2. HeaderSlots + Len(f.recs) + 2 < RecordQuotient - HeaderSlots
  <2>1. HeaderSlots \in Nat /\ RecordQuotient \in Nat /\ Len(f.recs) \in Nat
        /\ 2 * HeaderSlots + Len(f.recs) + 2 < RecordQuotient
    BY <1>1, Sizes
  <2>2. \A a, b, c \in Nat : 2 * a + b + 2 < c => a + b + 2 < c - a
    OBVIOUS
  <2> QED
    BY <2>1, <2>2
<1>3. TailSize(f) \in {0, 1}
  BY <1>1
<1> QED
  BY <1>1, <1>2, <1>3, Sizes

LEMMA PointsOfFile ==
  ASSUME NEW f, IsFile(f), NEW p \in Nat, p < RecordQuotient - HeaderSlots
  PROVE  /\ p < Len(f.recs) => PointAt(f, HeaderSize + 2 * p) = f.recs[p + 1]
         /\ p = Len(f.recs) => PointAt(f, HeaderSize + 2 * p) = EndPoint(f)
         /\ p > Len(f.recs) => PointAt(f, HeaderSize + 2 * p) = ZeroPoint
<1>1. /\ PointCount(f) = Len(f.recs) /\ Len(f.recs) \in Nat /\ TailSize(f) \in {0, 1}
      /\ FileSize(f) = HeaderSize + 2 * Len(f.recs) + TailSize(f) /\ HeaderSize \in Nat
      /\ HeaderSize = 2 * HeaderSlots /\ HeaderSlots \in Nat
      /\ HeaderSlots + Len(f.recs) + 2 < RecordQuotient - HeaderSlots
      /\ RecordQuotient \in Nat /\ Word \in Nat /\ 2 * RecordQuotient <= Word
  BY FileLayout
<1>2. \A z \in Nat : z < RecordQuotient - HeaderSlots => OffsetOf(z) = HeaderSize + 2 * z
  BY <1>1 DEF OffsetOf
<1>3. ASSUME p < Len(f.recs) PROVE PointAt(f, HeaderSize + 2 * p) = f.recs[p + 1]
  <2>1. /\ p + 1 \in 1..PointCount(f) /\ HeaderSize + 2 * p \in Nat
        /\ (HeaderSize + 2 * p) + 2 = OffsetOf(p + 1)
    BY <1>1, <1>2, <1>3
  <2> QED
    BY <2>1, OffsetOfRecord
<1>4. ASSUME p > Len(f.recs) PROVE PointAt(f, HeaderSize + 2 * p) = ZeroPoint
  <2>1. HeaderSize + 2 * p >= FileSize(f)
    <3>1. \A h, l, q \in Nat, t \in {0, 1} : q > l => h + 2 * q >= h + 2 * l + t
      OBVIOUS
    <3> QED
      BY <1>1, <1>4, <3>1
  <2> QED
    BY <2>1 DEF PointAt
<1>5. ASSUME p = Len(f.recs) PROVE PointAt(f, HeaderSize + 2 * p) = EndPoint(f)
  <2> DEFINE o == HeaderSize + 2 * p
  <2>1. /\ o >= FileSize(f) <=> TailSize(f) # 1
        /\ o % 2 # 1 /\ ~(o < HeaderSize) /\ ~(o < HeaderSize + 2 * PointCount(f))
    <3>1. o = 2 * (HeaderSlots + p) /\ HeaderSlots + p \in Nat /\ o \in Nat
      BY <1>1
    <3>2. o = HeaderSize + 2 * PointCount(f)
      BY <1>1, <1>5
    <3> HIDE DEF o
    <3>3. o % 2 # 1
      <4>1. \A i \in Nat : (2 * i) % 2 # 1
        OBVIOUS
      <4> QED
        BY <3>1, <4>1
    <3>4. FileSize(f) = o + TailSize(f)
      BY <1>1, <3>2
    <3>5. o >= FileSize(f) <=> TailSize(f) # 1
      <4>1. \A i \in Nat, t \in {0, 1} : i >= i + t <=> t # 1
        OBVIOUS
      <4> QED
        BY <1>1, <3>1, <3>4, <4>1
    <3>6. ~(o < HeaderSize) /\ ~(o < HeaderSize + 2 * PointCount(f))
      <4>1. \A h, c \in Nat : ~(h + 2 * c < h) /\ ~(h + 2 * c < h + 2 * c)
        OBVIOUS
      <4>2. HeaderSize \in Nat /\ PointCount(f) \in Nat
        BY <1>1
      <4> QED
        BY <3>2, <4>1, <4>2
    <3> QED
      BY <3>3, <3>5, <3>6
  <2> HIDE DEF o
  <2>2. PointAt(f, o) = IF TailSize(f) = 1 THEN f.tail[1] ELSE ZeroPoint
    BY <2>1 DEF PointAt
  <2> QED
    BY <2>2 DEF o, EndPoint
<1> QED
  BY <1>3, <1>4, <1>5

(***************************************************************************)
(* next passes over records equal to the current point and stops at the    *)
(* next one, or at the end of the file. From version 3 on the record it    *)
(* stops at is another one than the current point.                         *)
(***************************************************************************)
LEMMA NextInFile ==
  ASSUME NEW f, IsFile(f), NEW r \in Reader, NEW p \in Nat,
         p < RecordQuotient - HeaderSlots, StandsAfter(r, p), NEW q \in NextFrom(f, r)
  PROVE  /\ q.event = NoEvent
         /\ p > Len(f.recs) => q.stream.eof /\ q.current = ZeroPoint /\ q.position = p
         /\ p <= Len(f.recs) =>
              \E z \in (p + 1)..(Len(f.recs) + 1) :
                /\ \A j \in (p + 1)..(z - 1) : f.recs[j] = r.current
                /\ z <= Len(f.recs) =>
                     /\ StandsAfter(q, z) /\ q.current = f.recs[z]
                     /\ f.version = 3 => f.recs[z] # r.current
                /\ z = Len(f.recs) + 1 =>
                     q.stream.eof /\ q.current = EndPoint(f) /\ q.position = Len(f.recs)
<1> DEFINE L == Len(f.recs)
<1>1. /\ L \in Nat /\ TailSize(f) \in {0, 1} /\ FileSize(f) = HeaderSize + 2 * L + TailSize(f)
      /\ HeaderSize \in Nat /\ HeaderSlots \in Nat
      /\ HeaderSlots + L + 2 < RecordQuotient - HeaderSlots
      /\ RecordQuotient \in Nat /\ Word \in Nat /\ 2 * RecordQuotient <= Word
  BY FileLayout
<1>2. /\ ~r.stream.fail /\ ~r.stream.eof /\ r.stream.at = HeaderSize + 2 * p
      /\ r.position = p /\ r.stream \in S!Streams
  BY DEF StandsAfter, Reader
<1> HIDE DEF L
<1>3. PICK n \in Skips(f, r) :
        q = [stream |-> S!Read([r.stream EXCEPT !.at = @ + 2 * n], RecordSize, FileSize(f)),
             current |-> PointAfter(f, r, n),
             position |-> Wrap(r.position + n + (IF EndsAfter(f, r, n) THEN 0 ELSE 1)),
             event |-> NoEvent]
  BY <1>2 DEF NextFrom, StreamAfter
<1>4. /\ n \in Nat
      /\ \A m \in 0..(n - 1) : PointAfter(f, r, m) = r.current /\ ~EndsAfter(f, r, m)
      /\ f.version = 3 => PointAfter(f, r, n) # r.current \/ EndsAfter(f, r, n)
  <2>1. ReadsAtMost(f, r) \in Nat
    BY ReadsFit
  <2> QED
    BY <2>1 DEF Skips
<1> DEFINE skipped == [r.stream EXCEPT !.at = @ + 2 * n]
<1>5. /\ q.stream = S!Read(skipped, RecordSize, FileSize(f))
      /\ q.current = PointAfter(f, r, n)
      /\ q.position = Wrap(p + n + (IF EndsAfter(f, r, n) THEN 0 ELSE 1))
      /\ q.event = NoEvent
  BY <1>2, <1>3
<1>6. ASSUME NEW m \in Nat
      PROVE  /\ EndsAfter(f, r, m) <=> p + m + 1 > L
             /\ PointAfter(f, r, m) = PointAt(f, HeaderSize + 2 * (p + m))
  <2>1. [r.stream EXCEPT !.at = @ + 2 * m].at = HeaderSize + 2 * p + 2 * m
    BY <1>2 DEF S!Streams
  <2>2. HeaderSize + 2 * p + 2 * m = HeaderSize + 2 * (p + m)
    BY <1>1
  <2>3. EndsAfter(f, r, m) <=> (HeaderSize + 2 * p + 2 * m) + 2 > HeaderSize + 2 * L + TailSize(f)
    BY <1>1, <1>2, <2>1 DEF EndsAfter, S!FallsShort, RecordSize
  <2>4. (HeaderSize + 2 * p + 2 * m) + 2 > HeaderSize + 2 * L + TailSize(f) <=> p + m + 1 > L
    BY <1>1
  <2> QED
    BY <1>2, <2>2, <2>3, <2>4 DEF PointAfter
<1>7. n = 0 \/ p + n <= L
  <2>1. n # 0 => n - 1 \in 0..(n - 1) /\ n - 1 \in Nat /\ ~EndsAfter(f, r, n - 1)
    BY <1>4
  <2> QED
    BY <1>1, <1>4, <1>6, <2>1
<1>8. skipped \in S!Streams /\ skipped.at = HeaderSize + 2 * (p + n) /\ ~skipped.fail /\ ~skipped.eof
  BY <1>1, <1>2, <1>4 DEF S!Streams
<1> HIDE DEF skipped
<1>9. ASSUME p + n + 1 <= L
      PROVE  /\ ~q.stream.fail /\ ~q.stream.eof /\ q.stream.at = HeaderSize + 2 * (p + n + 1)
             /\ q.position = p + n + 1
  <2>1. ~EndsAfter(f, r, n) /\ ~S!FallsShort(skipped, RecordSize, FileSize(f))
    BY <1>1, <1>4, <1>6, <1>8, <1>9 DEF S!FallsShort, RecordSize
  <2>2. q.stream = [skipped EXCEPT !.at = @ + RecordSize]
    BY <1>5, <1>8, <2>1 DEF S!Read
  <2>3. ~q.stream.fail /\ ~q.stream.eof /\ q.stream.at = HeaderSize + 2 * (p + n) + 2
    BY <1>8, <2>2 DEF S!Streams, RecordSize
  <2>4. q.position = Wrap(p + n + 1)
    BY <1>4, <1>5, <2>1
  <2> QED
    BY <1>1, <1>4, <1>9, <2>3, <2>4 DEF Wrap
<1>10. ASSUME p + n + 1 > L
       PROVE  /\ q.stream.eof /\ q.position = p + n
              /\ q.current = IF p + n = L THEN EndPoint(f) ELSE ZeroPoint
  <2>1. EndsAfter(f, r, n) /\ S!FallsShort(skipped, RecordSize, FileSize(f))
    BY <1>1, <1>4, <1>6, <1>8, <1>10 DEF S!FallsShort, RecordSize
  <2>2. q.stream = [skipped EXCEPT !.fail = TRUE, !.eof = TRUE]
    BY <1>5, <1>8, <2>1 DEF S!Read
  <2>3. q.stream.eof
    BY <1>8, <2>2 DEF S!Streams
  <2>4. q.position = Wrap(p + n)
    BY <1>4, <1>5, <2>1
  <2>5. p + n \in Nat /\ p + n < RecordQuotient - HeaderSlots /\ p + n >= L
    BY <1>1, <1>4, <1>7, <1>10
  <2>6. q.current = IF p + n = L THEN EndPoint(f) ELSE ZeroPoint
    <3>1. q.current = PointAt(f, HeaderSize + 2 * (p + n))
      BY <1>4, <1>5, <1>6
    <3> DEFINE u == p + n
    <3>2. u \in Nat /\ u < RecordQuotient - HeaderSlots /\ (u = L \/ u > L)
      BY <1>1, <2>5
    <3> HIDE DEF u
    <3>3. PointAt(f, HeaderSize + 2 * u) = IF u = L THEN EndPoint(f) ELSE ZeroPoint
      BY <1>1, <3>2, PointsOfFile DEF L
    <3> QED
      BY <3>1, <3>3 DEF u
  <2> QED
    BY <1>1, <2>3, <2>4, <2>5, <2>6 DEF Wrap
<1>11. ASSUME p > L PROVE q.stream.eof /\ q.current = ZeroPoint /\ q.position = p
  <2>1. n = 0 /\ p + n + 1 > L /\ p + n = p /\ p + n # L
    BY <1>1, <1>4, <1>7, <1>11
  <2> QED
    BY <1>10, <2>1
<1>12. ASSUME p <= L
       PROVE  \E z \in (p + 1)..(L + 1) :
                /\ \A j \in (p + 1)..(z - 1) : f.recs[j] = r.current
                /\ z <= L =>
                     /\ StandsAfter(q, z) /\ q.current = f.recs[z]
                     /\ f.version = 3 => f.recs[z] # r.current
                /\ z = L + 1 => q.stream.eof /\ q.current = EndPoint(f) /\ q.position = L
  <2> DEFINE z == p + n + 1
  <2>1. z \in (p + 1)..(L + 1)
    BY <1>1, <1>4, <1>7, <1>12
  <2>2. ASSUME NEW m \in Nat, p + m + 1 <= L PROVE PointAfter(f, r, m) = f.recs[p + m + 1]
    <3>1. p + m \in Nat /\ p + m < RecordQuotient - HeaderSlots /\ p + m < L
      BY <1>1, <2>2
    <3> QED
      BY <1>6, <3>1, PointsOfFile DEF L
  <2>3. ASSUME NEW j \in (p + 1)..(z - 1) PROVE f.recs[j] = r.current
    <3>1. /\ j - p - 1 \in 0..(n - 1) /\ j - p - 1 \in Nat /\ p + (j - p - 1) + 1 = j
          /\ j <= L
      BY <1>1, <1>4, <2>1
    <3> QED
      BY <1>4, <2>2, <3>1
  <2>4. ASSUME z <= L
        PROVE  /\ StandsAfter(q, z) /\ q.current = f.recs[z]
               /\ f.version = 3 => f.recs[z] # r.current
    <3>1. ~EndsAfter(f, r, n) /\ PointAfter(f, r, n) = f.recs[z]
      BY <1>1, <1>4, <1>6, <2>2, <2>4
    <3> QED
      BY <1>4, <1>5, <1>9, <2>4, <3>1 DEF StandsAfter
  <2>5. ASSUME z = L + 1 PROVE q.stream.eof /\ q.current = EndPoint(f) /\ q.position = L
    <3>1. p + n + 1 > L /\ p + n = L
      BY <1>1, <1>4, <2>5
    <3> QED
      BY <1>10, <3>1
  <2> HIDE DEF z
  <2> QED
    BY <2>1, <2>3, <2>4, <2>5
<1> QED
  BY <1>5, <1>11, <1>12 DEF L

-----------------------------------------------------------------------------
(* The inductive invariant.                                                *)

\* The positions held by a call in progress are positions.
LocalsAreBounded ==
  /\ draft.position < Word /\ target < Word
  /\ pc = "reload" /\ target = 0 => position = 0

OpenIsSized == stream.isOpen => sized

SpinsOnFailure == pc = "spin" => Stalls(stream)

IInv ==
  /\ TypeOK
  /\ LocalsAreBounded
  /\ OpenIsSized
  /\ SpinsOnFailure
  /\ Consistent(file, Here)

LEMMA HereIsReader ==
  ASSUME TypeOK
  PROVE  /\ Here \in Reader /\ IsFile(file)
         /\ Here.stream = stream /\ Here.position = position
         /\ Here.current = current /\ Here.event = event
BY DEF TypeOK, Here, Reader

\* A step that takes the reader to one that next may leave.
LEMMA BecomeNext ==
  ASSUME IInv, NEW r \in NextFrom(file, Here), Become(r), file' = file, sized' = sized
  PROVE  /\ stream' \in S!Streams /\ current' \in Points
         /\ position' \in 0..(Word - 1) /\ event' \in Events
         /\ OpenIsSized' /\ Consistent(file, Here)'
<1>1. r \in Reader /\ Consistent(file, r) /\ r.stream.isOpen = stream.isOpen
  BY HereIsReader, NextKeeps DEF IInv
<1>2. Here' = [stream |-> r.stream, current |-> r.current, position |-> r.position,
               event |-> r.event]
  BY DEF Become, Here
<1> QED
  BY <1>1, <1>2 DEF Become, IInv, OpenIsSized, Consistent, Reader

\* A step that takes it to one that seek may leave, with any event.
LEMMA BecomeSeek ==
  ASSUME IInv, NEW p \in 0..(Word - 1), NEW r \in SeekFrom(file, Here, p),
         NEW e \in Events, Become([r EXCEPT !.event = e]) \/ Become(r),
         file' = file, sized' = sized
  PROVE  /\ stream' \in S!Streams /\ current' \in Points
         /\ position' \in 0..(Word - 1) /\ event' \in Events
         /\ p = 0 => position' = 0
         /\ LastValidAfter(p, r) \in Nat
         /\ OpenIsSized' /\ Consistent(file, Here)'
<1>1. /\ r \in Reader /\ Consistent(file, r) /\ r.stream.isOpen = stream.isOpen
      /\ p = 0 => r.position = 0
  <2>1. Here.stream.isOpen => sized
    BY HereIsReader DEF IInv, OpenIsSized
  <2> QED
    BY <2>1, HereIsReader, SeekKeeps DEF IInv
<1>2. /\ stream' = r.stream /\ current' = r.current /\ position' = r.position
      /\ event' \in {r.event, e}
  BY <1>1 DEF Become, Reader
<1>3. LastValidAfter(p, r) \in Nat
  BY <1>1 DEF LastValidAfter, Reader, IInv, TypeOK
<1>4. /\ Here'.stream = r.stream /\ Here'.current = r.current
      /\ Here'.position = r.position
  BY <1>2 DEF Here
<1> QED
  BY <1>1, <1>2, <1>3, <1>4 DEF IInv, OpenIsSized, Consistent, Reader

\* The events that fetch_new_event builds.
LEMMA StartTypes ==
  ASSUME NEW p \in Points, NEW n \in Nat
  PROVE  /\ EventStartingAt(p, n) \in Events /\ EventStartingAt(p, n).position = n
         /\ [NoEvent EXCEPT !.position = n, !.isFirst = TRUE, !.isEmulation = TRUE] \in
              {e \in Events : e.position = n}
<1>1. NoEvent \in Events /\ ContextOf(p) \in Contexts
  BY EventsOfTheModel DEF ContextOf, Points, Contexts
<1>2. p.rip \in Nat /\ p.type \in Types
  BY DEF Points
<1>3. EventStartingAt(p, n) \in Events /\ EventStartingAt(p, n).position = n
  BY <1>1, <1>2 DEF EventStartingAt, Events
<1>4. [NoEvent EXCEPT !.position = n, !.isFirst = TRUE, !.isEmulation = TRUE] \in
        {e \in Events : e.position = n}
  BY <1>1 DEF Events
<1> QED
  BY <1>3, <1>4

LEMMA EventTypes ==
  ASSUME NEW e \in Events, NEW d \in Events, NEW p \in Points
  PROVE  /\ LastEvent(e) \in Events /\ LastEvent(e).position = e.position
         /\ Completed(e, p) \in Events /\ Completed(e, p).position = e.position
         /\ [e EXCEPT !.start = d.start] \in Events
<1>1. /\ ContextOf(p) \in Contexts /\ d.start \in Contexts
      /\ IsEmulation(e, p) \in BOOLEAN /\ p.rflags \in Nat
  BY DEF ContextOf, Points, Contexts, Events, IsEmulation
<1>2. LastEvent(e) \in Events /\ LastEvent(e).position = e.position
  BY DEF LastEvent, Events
<1>3. Completed(e, p) \in Events /\ Completed(e, p).position = e.position
  BY <1>1 DEF Completed, Events
<1>4. [e EXCEPT !.start = d.start] \in Events
  BY <1>1 DEF Events
<1> QED
  BY <1>2, <1>3, <1>4

\* A step that leaves the reader alone.
LEMMA ReaderStays ==
  ASSUME IInv, UNCHANGED <<fileVars, readerVars>>
  PROVE  /\ IsFile(file') /\ sized' \in BOOLEAN /\ stream' \in S!Streams
         /\ current' \in Points /\ position' \in 0..(Word - 1) /\ event' \in Events
         /\ OpenIsSized' /\ Consistent(file, Here)'
         /\ stream' = stream
BY DEF IInv, TypeOK, OpenIsSized, Consistent, Here, fileVars, readerVars

\* What leaving a call does to the variables of the library.
LEMMA LeaveType ==
  ASSUME IInv, NEW o \in {"returned", "threw"}, Leave(o)
  PROVE  /\ pc' \in Labels /\ draft' \in Events /\ held' \in Events
         /\ ahead' \in BOOLEAN /\ irq' \in Points /\ target' \in Nat
         /\ call' \in CallType
         /\ LocalsAreBounded' /\ SpinsOnFailure'
<1>1. call' \in CallType
  BY DEF Leave, IInv, TypeOK, CallType
<1>2. /\ pc' = "idle" /\ draft' = NoEvent /\ held' = NoEvent /\ ahead' = FALSE
      /\ irq' = NoPoint /\ target' = 0
  BY DEF Leave
<1>3. NoEvent.position = 0 /\ 0 < Word
  BY Sizes DEF NoEvent
<1> QED
  BY <1>1, <1>2, <1>3, EventsOfTheModel, PointsOfTheModel
     DEF Labels, LocalsAreBounded, SpinsOnFailure

LEMMA EnterType ==
  ASSUME IInv, NEW op \in Ops, NEW arg \in Nat,
         NEW o \in {"running", "returned", "refused", "threw"}, Enter(op, arg, o)
  PROVE  call' \in CallType
BY DEF IInv, TypeOK, Enter, CallType

-----------------------------------------------------------------------------
(* Each step keeps the invariant.                                          *)

LEMMA InitHolds == Init => IInv
<1> SUFFICES ASSUME Init PROVE IInv
  OBVIOUS
<1>1. IsFile(file)
  BY FilesAssumption DEF Init
<1>2. TypeOK
  <2>0. 0 \in 0..(Word - 1)
    BY Sizes
  <2>1. stream \in S!Streams
    <3>1. PICK o \in BOOLEAN : stream = S!Unopened(o)
      BY DEF Init
    <3> QED
      BY <3>1 DEF S!Unopened, S!Streams
  <2>2. call \in CallType
    BY <2>0 DEF Init, CallType, Ops
  <2>3. /\ sized \in BOOLEAN /\ current \in Points /\ position \in 0..(Word - 1)
        /\ lastValid \in Nat /\ event \in Events
    BY <2>0, EventsOfTheModel, PointsOfTheModel DEF Init
  <2>4. /\ pc \in Labels /\ draft \in Events /\ held \in Events
        /\ ahead \in BOOLEAN /\ irq \in Points /\ target \in Nat
    BY EventsOfTheModel, PointsOfTheModel DEF Init, Labels
  <2> QED
    BY <1>1, <2>1, <2>2, <2>3, <2>4 DEF TypeOK
<1>3. LocalsAreBounded /\ OpenIsSized /\ SpinsOnFailure /\ Consistent(file, Here)
  BY Sizes DEF Init, LocalsAreBounded, OpenIsSized, SpinsOnFailure, Consistent, Here,
     S!Unopened, NoEvent
<1> QED
  BY <1>2, <1>3 DEF IInv

LEMMA LoadKeeps == IInv /\ LoadFile => IInv'
<1> SUFFICES ASSUME IInv, LoadFile PROVE IInv'
  OBVIOUS
<1> DEFINE Loaded(f, s, o) ==
      /\ Load(f, s, o)
      /\ s.isOpen => sized' /\ s.at = HeaderSize
<1>1. HeaderSize \in Nat /\ OffsetOf(0) = HeaderSize
  BY Sizes DEF HeaderSize, OffsetOf
<1>2. sized' \in BOOLEAN
  BY DEF LoadFile, LoadAbsent, LoadShort, LoadRejected, LoadBadData, LoadGood, IInv, TypeOK
<1>3. PICK f \in Loadable, s \in S!Streams, o \in {"returned", "refused", "threw"} :
        Loaded(f, s, o)
  <2>1. PICK f \in Loadable :
          \/ LoadAbsent(f) \/ LoadShort(f) \/ LoadRejected(f)
          \/ LoadBadData(f) \/ LoadGood(f)
    BY DEF LoadFile
  <2>2. S!Load(FALSE) \in S!Streams /\ ~S!Load(FALSE).isOpen
    BY DEF S!Load, S!Streams
  <2>3. S!Close(S!Load(TRUE)) \in S!Streams /\ ~S!Close(S!Load(TRUE)).isOpen
    BY DEF S!Load, S!Close, S!Streams
  <2>4. S!Load(TRUE) \in S!Streams /\ S!Load(TRUE).isOpen
    BY DEF S!Load, S!Streams
  <2>5. /\ S!Seek(S!Load(TRUE), HeaderSize) \in S!Streams
        /\ S!Seek(S!Load(TRUE), HeaderSize).at = HeaderSize
    <3>1. HeaderSize \in Int /\ HeaderSize >= 0
      BY <1>1
    <3> QED
      BY <2>4, <3>1, SeekType
  <2> QED
    BY <2>1, <2>2, <2>3, <2>5
       DEF LoadAbsent, LoadShort, LoadRejected, LoadBadData, LoadGood
<1>4. IsFile(file')
  BY <1>3, FilesAssumption DEF Load, Loadable
<1>5. call' \in CallType
  BY <1>3, EnterType DEF Load, Ops
<1>6. TypeOK'
  BY <1>2, <1>3, <1>4, <1>5, Sizes DEF Load, IInv, TypeOK, localVars
<1>7. LocalsAreBounded' /\ SpinsOnFailure'
  BY <1>3 DEF Load, IInv, Idle, LocalsAreBounded, SpinsOnFailure, localVars
<1>8. OpenIsSized'
  BY <1>3 DEF Load, OpenIsSized
<1>9. Consistent(file, Here)'
  <2>1. Here' = [stream |-> s, current |-> current', position |-> 0, event |-> event']
    BY <1>3 DEF Load, Here
  <2>2. s.isOpen => s.at = HeaderSize
    BY <1>3
  <2>3. HeaderSize < OffsetLimit /\ ~(0 \in 1..PointCount(file'))
    BY <1>4, FileFacts, FileSizeFacts
  <2> QED
    BY <1>1, <2>1, <2>2, <2>3 DEF Consistent
<1> QED
  BY <1>6, <1>7, <1>8, <1>9 DEF IInv

\* next, called by the client.
LEMMA CallNextKeeps == IInv /\ (CallNext \/ CallNextSpins \/ Spin) => IInv'
<1>1. ASSUME IInv, CallNext PROVE IInv'
  <2>1. PICK r \in NextFrom(file, Here) : Become(r)
    BY <1>1 DEF CallNext
  <2>2. file' = file /\ sized' = sized /\ UNCHANGED <<lastValid, pc, localVars>>
    BY <1>1 DEF CallNext, fileVars
  <2>3. call' \in CallType
    BY <1>1, EnterType DEF CallNext, Ops
  <2>4. pc = "idle"
    BY <1>1 DEF CallNext, Idle
  <2>5. /\ stream' \in S!Streams /\ current' \in Points
        /\ position' \in 0..(Word - 1) /\ event' \in Events
        /\ OpenIsSized' /\ Consistent(file, Here)'
    BY <1>1, <2>1, <2>2, BecomeNext
  <2> QED
    BY <1>1, <2>2, <2>3, <2>4, <2>5
       DEF IInv, TypeOK, LocalsAreBounded, SpinsOnFailure, localVars
<1>2. ASSUME IInv, CallNextSpins PROVE IInv'
  <2>1. call' \in CallType
    BY <1>2, EnterType DEF CallNextSpins, Ops
  <2>2. Stalls(stream)
    BY HereIsReader, <1>2 DEF CallNextSpins, Spins, Stalls, IInv
  <2>3. pc' = "spin" /\ UNCHANGED <<fileVars, readerVars, lastValid, localVars>>
    BY <1>2 DEF CallNextSpins
  <2> QED
    BY <1>2, <2>1, <2>2, <2>3, ReaderStays
       DEF IInv, TypeOK, Labels, LocalsAreBounded, SpinsOnFailure, localVars
<1>3. ASSUME IInv, Spin PROVE IInv'
  <2>1. Stalls(stream) /\ position' = Wrap(position + 1)
    BY <1>3 DEF Spin, IInv, SpinsOnFailure
  <2>2. position' \in 0..(Word - 1)
    <3>1. position \in 0..(Word - 1) /\ 1 \in 0..Word
      BY <1>3, Sizes DEF IInv, TypeOK
    <3> QED
      BY <2>1, <3>1, WrapType
  <2>3. UNCHANGED <<fileVars, stream, current, event, lastValid, pc, localVars, call>>
    BY <1>3 DEF Spin
  <2>4. Consistent(file, Here)'
    BY <2>1, <2>3 DEF Consistent, Here
  <2> QED
    BY <1>3, <2>1, <2>2, <2>3, <2>4
       DEF Spin, IInv, TypeOK, LocalsAreBounded, OpenIsSized, SpinsOnFailure, fileVars, localVars
<1> QED
  BY <1>1, <1>2, <1>3

\* A step of fetch_new_event that calls next.
LEMMA FetchReads ==
  ASSUME IInv, pc # "spin", pc' \in Labels \ {"spin", "reload"},
         NEW r \in NextFrom(file, Here), Become(r),
         draft' \in Events, draft'.position < Word, irq' \in Points,
         UNCHANGED <<fileVars, lastValid, held, ahead, target, call>>
  PROVE  IInv'
<1>1. file' = file /\ sized' = sized
  BY DEF fileVars
<1>2. /\ stream' \in S!Streams /\ current' \in Points
      /\ position' \in 0..(Word - 1) /\ event' \in Events
      /\ OpenIsSized' /\ Consistent(file, Here)'
  BY <1>1, BecomeNext
<1> QED
  BY <1>1, <1>2 DEF IInv, TypeOK, LocalsAreBounded, SpinsOnFailure

\* A step of current_event or fetch_new_event that leaves the reader alone.
LEMMA LocalStep ==
  ASSUME IInv, pc' \in Labels \ {"spin", "reload"},
         draft' \in Events, draft'.position < Word, held' \in Events,
         ahead' \in BOOLEAN,
         UNCHANGED <<fileVars, readerVars, lastValid, irq, target, call>>
  PROVE  IInv'
BY ReaderStays DEF IInv, TypeOK, LocalsAreBounded, SpinsOnFailure

LEMMA FetchKeeps == IInv /\ FetchNewEvent => IInv'
<1> SUFFICES ASSUME IInv, FetchNewEvent PROVE IInv'
  OBVIOUS
<1>0. /\ current \in Points /\ position \in 0..(Word - 1) /\ position \in Nat
      /\ draft \in Events /\ draft.position < Word /\ irq \in Points
      /\ NoEvent \in Events /\ NoEvent.position < Word /\ Word \in Nat
  BY EventsOfTheModel, Sizes DEF IInv, TypeOK, LocalsAreBounded, NoEvent
<1>a. /\ EventStartingAt(current, position) \in Events
      /\ EventStartingAt(current, position).position = position
      /\ [NoEvent EXCEPT !.position = position, !.isFirst = TRUE, !.isEmulation = TRUE] \in
           {e \in Events : e.position = position}
  <2>1. current \in Points /\ position \in Nat
    BY <1>0
  <2> QED
    BY <2>1, StartTypes
<1>b. position < Word
  BY <1>0
<1>1. ASSUME NEW e \in Events, e.position < Word, NEW label \in Labels \ {"spin", "reload"},
             NextWithin(e, label), pc # "spin", irq' \in Points,
             UNCHANGED <<fileVars, lastValid, held, ahead, target, call>>
      PROVE  IInv'
  <2>1. PICK r \in NextFrom(file, Here) :
          /\ Become(r)
          /\ pc' \in {label, "return"} /\ draft' \in {e, LastEvent(e)}
    BY <1>1 DEF NextWithin
  <2>2. draft' \in Events /\ draft'.position < Word
    BY <1>0, <1>1, <2>1, EventTypes
  <2>3. pc' \in Labels \ {"spin", "reload"}
    BY <1>1, <2>1 DEF Labels
  <2> QED
    BY <1>1, <2>1, <2>2, <2>3, FetchReads
<1>2. CASE FetchSkip
  <2>1. PICK r \in NextFrom(file, Here) :
          /\ Become(r)
          /\ pc' \in {"skip", "return"} /\ draft' \in {draft, NoEvent}
    BY <1>2 DEF FetchSkip
  <2>2. UNCHANGED <<fileVars, lastValid, held, ahead, irq, target, call>> /\ pc # "spin"
    BY <1>2 DEF FetchSkip
  <2>3. pc' \in Labels \ {"spin", "reload"} /\ draft' \in Events /\ draft'.position < Word
    BY <1>0, <2>1 DEF Labels
  <2> QED
    BY <1>0, <2>1, <2>2, <2>3, FetchReads
<1>3. CASE FetchMissing
  <2>1. /\ draft' = [NoEvent EXCEPT !.position = position, !.isFirst = TRUE, !.isEmulation = TRUE]
        /\ pc' = "second"
        /\ UNCHANGED <<fileVars, readerVars, lastValid, held, ahead, irq, target, call>>
    BY <1>3 DEF FetchMissing
  <2>2. draft' \in Events /\ draft'.position < Word
    BY <1>a, <1>b, <2>1
  <2> QED
    BY <2>1, <2>2, LocalStep DEF Labels, IInv, TypeOK
<1>4. CASE FetchExit
  <2>1. /\ EventStartingAt(current, position) \in Events
        /\ EventStartingAt(current, position).position < Word
    BY <1>a, <1>b
  <2>2. /\ NextWithin(EventStartingAt(current, position), "second")
        /\ UNCHANGED <<fileVars, lastValid, held, ahead, irq, target, call>>
        /\ pc # "spin" /\ "second" \in Labels \ {"spin", "reload"}
    BY <1>4 DEF FetchExit, Labels
  <2> QED
    BY <1>0, <1>1, <2>1, <2>2
<1>5. CASE FetchSpins
  <2>1. Stalls(stream)
    BY <1>5, HereIsReader DEF FetchSpins, Spins, Stalls, IInv
  <2> QED
    BY <1>5, <2>1, ReaderStays DEF FetchSpins, IInv, TypeOK, Labels, LocalsAreBounded,
       SpinsOnFailure, localVars
<1>6. CASE FetchInterrupt
  <2> DEFINE e == [draft EXCEPT !.hasInterrupt = TRUE, !.vector = current.vector,
                                !.interruptRip = current.rip]
  <2>1. e \in Events /\ e.position < Word
    BY <1>0 DEF Events, Points
  <2>2. /\ NextWithin(e, "third")
        /\ UNCHANGED <<fileVars, lastValid, held, ahead, target, call>>
        /\ irq' \in Points
        /\ pc # "spin" /\ "third" \in Labels \ {"spin", "reload"}
    BY <1>0, <1>6 DEF FetchInterrupt, Labels
  <2> HIDE DEF e
  <2> QED
    BY <1>1, <2>1, <2>2
<1>7. CASE FetchRepeated
  <2>1. /\ NextWithin(draft, "last")
        /\ UNCHANGED <<fileVars, lastValid, held, ahead, irq, target, call>>
        /\ pc # "spin" /\ "last" \in Labels \ {"spin", "reload"}
    BY <1>7 DEF FetchRepeated, Labels
  <2> QED
    BY <1>0, <1>1, <2>1
<1>8. CASE FetchEnter
  <2>1. /\ draft' = Completed(draft, current) /\ pc' = "return"
        /\ UNCHANGED <<fileVars, readerVars, lastValid, held, ahead, irq, target, call>>
    BY <1>8 DEF FetchEnter
  <2>2. draft' \in Events /\ draft'.position < Word
    BY <1>0, <2>1, EventTypes
  <2> QED
    BY <2>1, <2>2, LocalStep DEF Labels, IInv, TypeOK
<1>9. CASE FetchThrows
  <2>1. Leave("threw") /\ UNCHANGED <<fileVars, readerVars, lastValid>>
    BY <1>9 DEF FetchThrows
  <2> QED
    BY <2>1, LeaveType, ReaderStays DEF IInv, TypeOK
<1> QED
  BY <1>2, <1>3, <1>4, <1>5, <1>6, <1>7, <1>8, <1>9 DEF FetchNewEvent

LEMMA CallCurrentEventKeeps == IInv /\ CallCurrentEvent => IInv'
<1> SUFFICES ASSUME IInv, CallCurrentEvent PROVE IInv'
  OBVIOUS
<1>1. /\ pc = "idle" /\ pc' \in {"idle", "fetch"}
      /\ UNCHANGED <<fileVars, readerVars, lastValid, localVars>>
      /\ call' \in CallType
  BY EnterType DEF CallCurrentEvent, Idle, Ops
<1> QED
  BY <1>1, ReaderStays DEF IInv, TypeOK, Labels, LocalsAreBounded, SpinsOnFailure, localVars

\* The loop of current_event.
LEMMA EventLoopKeeps == IInv /\ (FirstReturns \/ LookAhead \/ Keep \/ Merge) => IInv'
<1>1. ASSUME IInv, FirstReturns PROVE IInv'
  BY <1>1, LocalStep DEF FirstReturns, IInv, TypeOK, LocalsAreBounded, Labels
<1>2. ASSUME IInv, LookAhead PROVE IInv'
  BY <1>2, LocalStep DEF LookAhead, IInv, TypeOK, LocalsAreBounded, Labels
<1>3. ASSUME IInv, Merge PROVE IInv'
  <2>1. held' \in Events
    <3>1. draft \in Events /\ held \in Events /\ current \in Points
      BY <1>3 DEF IInv, TypeOK
    <3>2. [draft EXCEPT !.start = held.start] \in Events
      BY <3>1, EventTypes
    <3> QED
      BY <1>3, <3>2 DEF Merge
  <2> QED
    BY <1>3, <2>1, LocalStep DEF Merge, IInv, TypeOK, LocalsAreBounded, Labels
<1>4. ASSUME IInv, Keep PROVE IInv'
  <2>1. /\ event' = held /\ Leave("returned")
        /\ UNCHANGED <<fileVars, stream, current, position, lastValid>>
    BY <1>4 DEF Keep, Return
  <2>2. OpenIsSized' /\ Consistent(file, Here)'
    BY <1>4, <2>1 DEF IInv, OpenIsSized, Consistent, Here, fileVars
  <2> QED
    BY <1>4, <2>1, <2>2, LeaveType DEF IInv, TypeOK, fileVars
<1> QED
  BY <1>1, <1>2, <1>3, <1>4

LEMMA PutBackKeeps == IInv /\ PutBack => IInv'
<1> SUFFICES ASSUME IInv, PutBack PROVE IInv'
  OBVIOUS
<1> DEFINE p == Before(draft.position)
<1>1. p \in 0..(Word - 1)
  BY Sizes DEF Before, IInv, TypeOK, LocalsAreBounded, Events
<1>2. PICK r \in SeekFrom(file, Here, p) :
        /\ Become([r EXCEPT !.event = held])
        /\ lastValid' = LastValidAfter(p, r)
  BY DEF PutBack
<1>3. Leave("returned") /\ file' = file /\ sized' = sized
  BY DEF PutBack, Return, fileVars
<1> HIDE DEF p
<1>4. held \in Events
  BY DEF IInv, TypeOK
<1>5. /\ stream' \in S!Streams /\ current' \in Points
      /\ position' \in 0..(Word - 1) /\ event' \in Events
      /\ lastValid' \in Nat
      /\ OpenIsSized' /\ Consistent(file, Here)'
  BY <1>1, <1>2, <1>3, <1>4, BecomeSeek
<1> QED
  BY <1>3, <1>5, LeaveType DEF IInv, TypeOK

LEMMA AdvanceToKeeps == ASSUME IInv, NEW p \in SeekTargets, AdvanceTo(p) PROVE IInv'
<1>1. p \in 0..(Word - 1) /\ p \in Nat /\ p < Word
  BY ConstantsAssumption, Sizes
<1>2. PICK r \in SeekFrom(file, Here, p) :
        /\ Become(r)
        /\ lastValid' = LastValidAfter(p, r)
        /\ \/ Enter("advance_to", p, "returned") /\ UNCHANGED <<pc, target>>
           \/ Enter("advance_to", p, "running") /\ pc' = "reload" /\ target' = p /\ p # 0
  BY DEF AdvanceTo
<1>3. /\ file' = file /\ sized' = sized /\ pc = "idle" /\ "advance_to" \in Ops
      /\ UNCHANGED <<draft, held, ahead, irq>>
  BY DEF AdvanceTo, Idle, fileVars, Ops
<1>4. /\ stream' \in S!Streams /\ current' \in Points
      /\ position' \in 0..(Word - 1) /\ event' \in Events
      /\ lastValid' \in Nat
      /\ OpenIsSized' /\ Consistent(file, Here)'
  BY <1>1, <1>2, <1>3, BecomeSeek, EventsOfTheModel
<1>5. call' \in CallType
  BY <1>1, <1>2, <1>3, EnterType
<1>6. /\ pc' \in {"idle", "reload"} /\ target' \in Nat /\ target' < Word
      /\ pc' = "reload" => target' # 0
  BY <1>1, <1>2, <1>3 DEF IInv, TypeOK, LocalsAreBounded
<1> QED
  BY <1>3, <1>4, <1>5, <1>6
     DEF IInv, TypeOK, Labels, LocalsAreBounded, SpinsOnFailure

\* Where the walk back of advance_to seeks.
LEMMA ReloadTarget ==
  ASSUME IInv, ReloadBack
  PROVE  target - 1 \in 0..(Word - 1)
<1>1. target \in Nat /\ target < Word /\ position \in 0..(Word - 1)
  BY DEF IInv, TypeOK, LocalsAreBounded
<1>2. target # 0
  BY <1>1 DEF ReloadBack, IInv, LocalsAreBounded
<1> QED
  BY <1>1, <1>2, Sizes

LEMMA ReloadKeeps == IInv /\ (ReloadBack \/ ReloadEvent) => IInv'
<1>1. ASSUME IInv, ReloadBack PROVE IInv'
  <2> DEFINE p == target - 1
  <2>1. p \in 0..(Word - 1)
    BY <1>1, ReloadTarget
  <2>2. PICK r \in SeekFrom(file, Here, p) :
          Become(r) /\ lastValid' = LastValidAfter(p, r)
    BY <1>1 DEF ReloadBack
  <2>3. /\ file' = file /\ sized' = sized /\ target' = p /\ pc = "reload"
        /\ UNCHANGED <<pc, draft, held, ahead, irq, call>>
    BY <1>1 DEF ReloadBack, fileVars
  <2> HIDE DEF p
  <2>4. /\ stream' \in S!Streams /\ current' \in Points
        /\ position' \in 0..(Word - 1) /\ event' \in Events
        /\ lastValid' \in Nat /\ (p = 0 => position' = 0)
        /\ OpenIsSized' /\ Consistent(file, Here)'
    BY <1>1, <2>1, <2>2, <2>3, BecomeSeek, EventsOfTheModel
  <2> QED
    BY <1>1, <2>1, <2>3, <2>4, Sizes
       DEF IInv, TypeOK, LocalsAreBounded, SpinsOnFailure
<1>2. ASSUME IInv, ReloadEvent PROVE IInv'
  <2>1. UNCHANGED <<fileVars, readerVars, lastValid>>
    BY <1>2 DEF ReloadEvent
  <2>2. CASE Leave("returned")
    BY <1>2, <2>1, <2>2, LeaveType, ReaderStays DEF IInv, TypeOK
  <2>3. CASE pc' = "fetch" /\ UNCHANGED <<localVars, call>>
    BY <1>2, <2>1, <2>3, ReaderStays
       DEF IInv, TypeOK, Labels, LocalsAreBounded, SpinsOnFailure, localVars
  <2> QED
    BY <1>2, <2>2, <2>3 DEF ReloadEvent, Return
<1> QED
  BY <1>1, <1>2

\* The position that seek_from_end computes is the one of the offset it seeks.
LEMMA PositionOfOffset ==
  ASSUME NEW f, IsFile(f), NEW offset \in Int, offset <= FileSize(f), offset >= -1
  PROVE  /\ PositionAt(offset) \in 0..(Word - 1)
         /\ offset >= 0 => OffsetOf(PositionAt(offset)) \in {offset, offset - 1}
<1>1. /\ PointCount(f) \in Nat /\ TailSize(f) \in Nat /\ TailSize(f) <= 1
      /\ 2 * HeaderSlots + PointCount(f) + 2 < RecordQuotient
      /\ FileSize(f) \in Nat /\ HeaderSize \in Nat /\ HeaderSize = 2 * HeaderSlots
      /\ FileSize(f) = HeaderSize + 2 * PointCount(f) + TailSize(f)
  BY FileFacts, FileSizeFacts
<1>2. CASE offset >= HeaderSize
  <2>1. PICK k \in Nat : k = (offset - HeaderSize) \div 2
    BY <1>1, <1>2
  <2>2. 2 * k <= offset - HeaderSize /\ offset - HeaderSize <= 2 * k + 1
    BY <1>1, <1>2, <2>1
  <2>3. PositionAt(offset) = k
    BY <1>2, <2>1 DEF PositionAt
  <2>4. k < RecordQuotient - HeaderSlots /\ k < Word - HeaderSlots
    BY <1>1, <2>2, Sizes
  <2>5. OffsetOf(k) = HeaderSize + 2 * k
    BY <2>4, Sizes DEF OffsetOf
  <2>6. HeaderSize + 2 * k \in {offset, offset - 1}
    BY <1>1, <2>2, Sizes
  <2> QED
    BY <2>3, <2>4, <2>5, <2>6, Sizes
<1>3. CASE 0 <= offset /\ offset < HeaderSize
  <2>1. PICK k \in Nat : k = (HeaderSize - offset + 1) \div 2
    BY <1>1, <1>3
  <2>2. 2 * k <= HeaderSize - offset + 1 /\ HeaderSize - offset <= 2 * k
    BY <1>1, <1>3, <2>1
  <2>3. PositionAt(offset) = RecordQuotient - k /\ k <= HeaderSlots
    <3>1. PositionAt(offset) = RecordQuotient - k
      BY <1>1, <1>3, <2>1 DEF PositionAt
    <3>2. k <= HeaderSlots
      BY <1>1, <1>3, <2>2, Sizes
    <3> QED
      BY <3>1, <3>2
  <2>4. OffsetOf(RecordQuotient - k) = 2 * (HeaderSlots - k)
    BY <1>1, <2>3, Sizes DEF OffsetOf
  <2>5. HeaderSize - 2 * k \in {offset, offset - 1}
    BY <1>1, <1>3, <2>2, Sizes
  <2>6. RecordQuotient - k \in 0..(Word - 1)
    BY <2>3, Sizes
  <2>7. 2 * (HeaderSlots - k) = HeaderSize - 2 * k
    BY <1>1, <2>1, Sizes
  <2> QED
    BY <1>3, <2>3, <2>4, <2>5, <2>6, <2>7
<1>4. CASE offset = -1
  BY <1>1, <1>4, Sizes DEF PositionAt
<1> QED
  BY <1>1, <1>2, <1>3, <1>4

LEMMA EndArgumentsType == EndArguments \subseteq EndTargets /\ EndTargets \subseteq Nat
BY ConstantsAssumption DEF EndArguments

LEMMA SeekFromEndKeeps == ASSUME IInv, NEW p \in EndArguments, SeekFromEnd(p) PROVE IInv'
<1>1. /\ p \in Nat /\ "seek_from_end" \in Ops /\ pc = "idle"
      /\ UNCHANGED <<fileVars, event, pc, localVars>>
  BY EndArgumentsType DEF SeekFromEnd, Idle, Ops
<1>2. call' \in CallType
  BY <1>1, EnterType DEF SeekFromEnd
<1>3. IsFile(file) /\ stream \in S!Streams /\ 0 \in 0..(Word - 1)
  BY Sizes DEF IInv, TypeOK
<1>4. CASE sized
  <2> DEFINE to == FileSize(file) - RecordSize * (p + 1)
  <2>1. to \in Int /\ to <= FileSize(file)
    BY <1>1, <1>3, FileSizeFacts DEF RecordSize
  <2>2. /\ stream' = S!Seek(stream, to) /\ current' = NoPoint
        /\ position' = PositionAt(S!Pos(stream')) /\ lastValid' = p
    BY <1>4 DEF SeekFromEnd
  <2> HIDE DEF to
  <2>3. /\ stream' \in S!Streams /\ stream'.isOpen = stream.isOpen
        /\ ~stream'.fail => stream'.isOpen /\ to >= 0 /\ stream'.at = to
        /\ stream'.eof = ~stream.isOpen
    BY <1>3, <2>1, <2>2, SeekType
  <2>4. PICK at \in Int :
          /\ at = S!Pos(stream') /\ at <= FileSize(file) /\ at >= -1
          /\ ~stream'.fail => at = stream'.at /\ at >= 0
    <3>1. CASE stream'.fail \/ ~stream'.isOpen
      BY <1>3, <2>3, <3>1, FileSizeFacts DEF S!Pos
    <3>2. CASE ~stream'.fail /\ stream'.isOpen
      BY <2>1, <2>3, <3>2 DEF S!Pos
    <3> QED
      BY <3>1, <3>2
  <2>5. /\ position' \in 0..(Word - 1)
        /\ at >= 0 => OffsetOf(position') \in {at, at - 1}
    BY <1>3, <2>2, <2>4, PositionOfOffset
  <2>6. Consistent(file, Here)'
    <3>1. at < OffsetLimit
      BY <1>3, <2>4, FileSizeFacts, Sizes
    <3> QED
      BY <2>2, <2>3, <2>4, <2>5, <3>1 DEF Consistent, Stalls, Here
  <2>7. OpenIsSized'
    BY <1>1, <1>4 DEF OpenIsSized, fileVars
  <2> QED
    BY <1>1, <1>2, <2>2, <2>3, <2>5, <2>6, <2>7, PointsOfTheModel
       DEF IInv, TypeOK, LocalsAreBounded, SpinsOnFailure, fileVars, localVars
<1>5. CASE ~sized
  <2>1. position' = 0 /\ UNCHANGED <<stream, current, lastValid>>
    BY <1>5 DEF SeekFromEnd
  <2>2. ~stream.isOpen
    BY <1>5 DEF IInv, OpenIsSized
  <2>3. OpenIsSized' /\ Consistent(file, Here)'
    BY <2>1, <2>2 DEF OpenIsSized, Consistent, Here
  <2> QED
    BY <1>1, <1>2, <1>3, <2>1, <2>3
       DEF IInv, TypeOK, LocalsAreBounded, SpinsOnFailure, fileVars, localVars
<1> QED
  BY <1>3, <1>4, <1>5 DEF IInv, TypeOK

LEMMA ValidateKeeps == IInv /\ Validate => IInv'
<1> SUFFICES ASSUME IInv, Validate PROVE IInv'
  OBVIOUS
<1>1. /\ lastValid' = position /\ pc = "idle" /\ "validate" \in Ops
      /\ UNCHANGED <<fileVars, readerVars, pc, localVars>>
  BY DEF Validate, Idle, Ops
<1>2. call' \in CallType
  BY <1>1, EnterType DEF Validate
<1> QED
  BY <1>1, <1>2, ReaderStays
     DEF IInv, TypeOK, LocalsAreBounded, SpinsOnFailure, localVars

LEMMA StutterKeeps == IInv /\ UNCHANGED vars => IInv'
BY DEF IInv, TypeOK, LocalsAreBounded, OpenIsSized, SpinsOnFailure, Consistent, Here, vars

LEMMA NextKeepsIInv == IInv /\ [Next]_vars => IInv'
<1> SUFFICES ASSUME IInv, [Next]_vars PROVE IInv'
  OBVIOUS
<1>1. CASE Client
  BY <1>1, LoadKeeps, CallNextKeeps, CallCurrentEventKeeps, AdvanceToKeeps,
     SeekFromEndKeeps, ValidateKeeps DEF Client
<1>2. CASE Library
  BY <1>2, FetchKeeps, EventLoopKeeps, PutBackKeeps, ReloadKeeps, CallNextKeeps
     DEF Library, CurrentEvent
<1>3. CASE UNCHANGED vars
  BY <1>3, StutterKeeps
<1> QED
  BY <1>1, <1>2, <1>3 DEF Next

-----------------------------------------------------------------------------
(* A closed reader.                                                        *)

\* It is at the end of its file, and no event is being fetched from it.
ClosedAtEnd == ~stream.isOpen => stream.eof /\ pc \in {"idle", "reload"}

LEMMA InitClosed == Init => ClosedAtEnd
<1> SUFFICES ASSUME Init PROVE ClosedAtEnd
  OBVIOUS
<1>1. PICK o \in BOOLEAN : stream = S!Unopened(o)
  BY DEF Init
<1> QED
  BY <1>1 DEF ClosedAtEnd, Init, S!Unopened

\* At its end the stream gives next nothing; closed, it is not reopened by seek.
LEMMA ClosedNext ==
  ASSUME NEW f, NEW r, r.stream.eof, NEW q \in NextFrom(f, r)
  PROVE  q = r
BY DEF NextFrom

LEMMA ClosedSeek ==
  ASSUME NEW f, NEW r \in Reader, ~r.stream.isOpen, r.stream.eof, NEW p,
         NEW q \in SeekFrom(f, r, p)
  PROVE  /\ q.stream.eof /\ q.event = r.event
         /\ q.current \in {r.current, NoPoint}
<1>1. CASE ~sized
  BY <1>1 DEF SeekFrom, Reader
<1>2. ASSUME NEW to PROVE S!Seek(r.stream, to).eof
  BY DEF S!Seek, S!Streams, Reader
<1>3. CASE sized /\ p = 0
  BY <1>2, <1>3 DEF SeekFrom, Reader
<1>4. CASE sized /\ p # 0
  <2> DEFINE t == [r EXCEPT !.stream = S!Seek(@, SeekOffset(p - 1)),
                            !.current = NoPoint, !.position = p - 1]
  <2>1. /\ q \in NextFrom(f, t) /\ t.stream.eof
        /\ t.event = r.event /\ t.current = NoPoint
    BY <1>2, <1>4 DEF SeekFrom, Reader
  <2> HIDE DEF t
  <2> QED
    BY <2>1, ClosedNext
<1> QED
  BY <1>1, <1>3, <1>4

\* No step but load opens or closes the file.
LEMMA OnlyLoadOpens ==
  ASSUME IInv, [Next]_vars, ~LoadFile
  PROVE  stream'.isOpen = stream.isOpen
<1> USE HereIsReader DEF IInv
<1>1. ASSUME NEW r \in NextFrom(file, Here), Become(r)
      PROVE  stream'.isOpen = stream.isOpen
  BY <1>1, NextKeeps DEF Become
<1>2. ASSUME NEW p \in 0..(Word - 1), NEW r \in SeekFrom(file, Here, p), stream' = r.stream
      PROVE  stream'.isOpen = stream.isOpen
  <2>1. Here.stream.isOpen => sized
    BY DEF OpenIsSized
  <2> QED
    BY <1>2, <2>1, SeekKeeps
<1>3. CASE CallNext
  BY <1>1, <1>3 DEF CallNext
<1>4. CASE CallNextSpins \/ CallCurrentEvent \/ Validate \/ ReloadEvent \/ UNCHANGED vars
  BY <1>4 DEF CallNextSpins, CallCurrentEvent, Validate, ReloadEvent, readerVars, vars
<1>5. CASE Spin \/ FirstReturns \/ LookAhead \/ Keep \/ Merge
  BY <1>5 DEF Spin, FirstReturns, LookAhead, Keep, Merge, readerVars
<1>6. CASE FetchNewEvent
  <2>1. CASE FetchSkip
    BY <1>1, <2>1 DEF FetchSkip
  <2>2. CASE FetchExit \/ FetchInterrupt \/ FetchRepeated
    BY <1>1, <2>2 DEF FetchExit, FetchInterrupt, FetchRepeated, NextWithin
  <2>3. CASE FetchMissing \/ FetchSpins \/ FetchEnter \/ FetchThrows
    BY <2>3 DEF FetchMissing, FetchSpins, FetchEnter, FetchThrows, readerVars
  <2> QED
    BY <1>6, <2>1, <2>2, <2>3 DEF FetchNewEvent
<1>7. CASE PutBack
  <2> DEFINE p == Before(draft.position)
  <2>1. p \in 0..(Word - 1)
    BY Sizes DEF Before, TypeOK, LocalsAreBounded, Events
  <2>2. PICK r \in SeekFrom(file, Here, p) : Become([r EXCEPT !.event = held])
    BY <1>7 DEF PutBack
  <2> HIDE DEF p
  <2>3. r \in Reader
    BY <2>1, SeekKeeps DEF OpenIsSized
  <2>4. stream' = r.stream
    BY <2>2, <2>3 DEF Become, Reader
  <2> QED
    BY <1>2, <2>1, <2>4
<1>8. CASE \E p \in SeekTargets : AdvanceTo(p)
  BY <1>2, <1>8, ConstantsAssumption, Sizes DEF AdvanceTo, Become
<1>9. CASE ReloadBack
  <2> DEFINE p == target - 1
  <2>1. p \in 0..(Word - 1)
    BY <1>9, ReloadTarget
  <2>2. PICK r \in SeekFrom(file, Here, p) : Become(r)
    BY <1>9 DEF ReloadBack
  <2> HIDE DEF p
  <2> QED
    BY <1>2, <2>1, <2>2 DEF Become
<1>10. CASE \E p \in EndArguments : SeekFromEnd(p)
  <2>1. PICK p \in EndArguments : SeekFromEnd(p)
    BY <1>10
  <2>2. CASE sized
    <3>1. FileSize(file) - RecordSize * (p + 1) \in Int /\ stream \in S!Streams
      BY <2>1, EndArgumentsType, FileSizeFacts DEF RecordSize, TypeOK
    <3>2. stream' = S!Seek(stream, FileSize(file) - RecordSize * (p + 1))
      BY <2>1, <2>2 DEF SeekFromEnd
    <3> QED
      BY <3>1, <3>2, SeekType
  <2>3. CASE ~sized
    BY <2>1, <2>3 DEF SeekFromEnd
  <2> QED
    BY <2>2, <2>3
<1> QED
  BY <1>3, <1>4, <1>5, <1>6, <1>7, <1>8, <1>9, <1>10
     DEF Next, Client, Library, CurrentEvent

\* What a step does to a reader that is and stays closed.
StaysClosed ==
  ~stream.isOpen /\ ~stream'.isOpen =>
    /\ stream'.eof
    /\ current' \in {current, NoPoint}
    /\ event' = event

LEMMA ClosedKeeps == IInv /\ ClosedAtEnd /\ [Next]_vars => ClosedAtEnd' /\ StaysClosed
<1> SUFFICES ASSUME IInv, ClosedAtEnd, [Next]_vars PROVE ClosedAtEnd' /\ StaysClosed
  OBVIOUS
<1>1. CASE LoadFile
  <2>1. PICK f \in Loadable :
          \/ LoadAbsent(f) \/ LoadShort(f) \/ LoadRejected(f)
          \/ LoadBadData(f) \/ LoadGood(f)
    BY <1>1 DEF LoadFile
  <2>2. pc = "idle" /\ UNCHANGED <<pc, current, event>>
    BY <2>1 DEF LoadAbsent, LoadShort, LoadRejected, LoadBadData, LoadGood, Load, Idle
  <2>3. stream'.isOpen \/ stream'.eof
    <3>1. S!Load(FALSE).eof /\ S!Close(S!Load(TRUE)).eof
      BY DEF S!Load, S!Close
    <3>2. S!Seek(S!Load(TRUE), HeaderSize).isOpen
      BY DEF S!Load, S!Seek
    <3> QED
      BY <2>1, <3>1, <3>2
         DEF LoadAbsent, LoadShort, LoadRejected, LoadBadData, LoadGood, Load
  <2> QED
    BY <2>2, <2>3 DEF ClosedAtEnd, StaysClosed
<1>2. CASE ~LoadFile /\ stream.isOpen
  BY <1>2, OnlyLoadOpens DEF ClosedAtEnd, StaysClosed
<1>3. CASE ~LoadFile /\ ~stream.isOpen
  <2>1. /\ stream.eof /\ pc \in {"idle", "reload"} /\ ~stream'.isOpen
        /\ Here \in Reader /\ Here.stream = stream /\ Here.current = current
        /\ Here.event = event
    BY <1>3, OnlyLoadOpens, HereIsReader DEF ClosedAtEnd, IInv
  <2>2. ASSUME NEW p, NEW r \in SeekFrom(file, Here, p), Become(r)
        PROVE  stream'.eof /\ current' \in {current, NoPoint} /\ event' = event
    BY <1>3, <2>1, <2>2, ClosedSeek DEF Become
  <2>3. /\ stream'.eof /\ pc' \in {"idle", "reload"}
        /\ current' \in {current, NoPoint} /\ event' = event
    <3>1. CASE CallNext
      <4>1. PICK r \in NextFrom(file, Here) : Become(r)
        BY <3>1 DEF CallNext
      <4>2. r = Here
        BY <2>1, <4>1, ClosedNext
      <4> QED
        BY <2>1, <3>1, <4>1, <4>2 DEF CallNext, Become
    <3>2. CASE CallNextSpins
      BY <2>1, <3>2 DEF CallNextSpins, Spins
    <3>3. CASE CallCurrentEvent \/ Validate \/ ReloadEvent \/ UNCHANGED vars
      BY <2>1, <3>3 DEF CallCurrentEvent, Validate, ReloadEvent, Return, Leave, readerVars, vars
    <3>4. CASE CurrentEvent \/ Spin
      BY <2>1, <3>4 DEF CurrentEvent, Spin, FetchNewEvent, FetchSkip, FetchMissing,
         FetchExit, FetchSpins, FetchInterrupt, FetchRepeated, FetchEnter, FetchThrows,
         AtNewContext, FirstVmexitMissing, FirstReturns, LookAhead, Keep, Merge, PutBack
    <3>5. CASE \E p \in SeekTargets : AdvanceTo(p)
      BY <2>1, <2>2, <3>5 DEF AdvanceTo, Idle
    <3>6. CASE ReloadBack
      BY <2>1, <2>2, <3>6 DEF ReloadBack
    <3>7. CASE \E p \in EndArguments : SeekFromEnd(p)
      BY <1>3, <2>1, <3>7 DEF SeekFromEnd, S!Seek, S!Streams, IInv, TypeOK
    <3> QED
      BY <1>3, <3>1, <3>2, <3>3, <3>4, <3>5, <3>6, <3>7 DEF Next, Client, Library
  <2> QED
    BY <2>1, <2>3 DEF ClosedAtEnd, StaysClosed
<1> QED
  BY <1>1, <1>2, <1>3

-----------------------------------------------------------------------------
(* A stalled stream.                                                       *)

\* A read that fails meets the end of the file.
LEMMA NextStalls ==
  ASSUME NEW f, IsFile(f), NEW r \in Reader, NEW q \in NextFrom(f, r)
  PROVE  Stalls(q.stream) <=> Stalls(r.stream)
<1>1. CASE r.stream.eof
  BY <1>1 DEF NextFrom
<1>2. CASE ~r.stream.eof
  <2>1. PICK n \in Skips(f, r) : q.stream = StreamAfter(f, r, n)
    BY <1>2 DEF NextFrom
  <2>2. n \in Nat
    <3>1. ReadsAtMost(f, r) \in Nat
      BY ReadsFit
    <3> QED
      BY <3>1 DEF Skips
  <2>3. CASE r.stream.fail
    BY <2>1, <2>2, <2>3, StreamAfterType
  <2>4. CASE ~r.stream.fail
    <3> DEFINE skipped == [r.stream EXCEPT !.at = @ + 2 * n]
    <3>1. /\ skipped.fail = r.stream.fail /\ skipped.eof = r.stream.eof
          /\ skipped \in S!Streams
      BY <2>2 DEF Reader, S!Streams
    <3>2. q.stream = S!Read(skipped, RecordSize, FileSize(f))
      BY <2>1, <2>4 DEF StreamAfter
    <3> HIDE DEF skipped
    <3> QED
      BY <1>2, <2>4, <3>1, <3>2 DEF Stalls, S!Read, S!Streams
  <2> QED
    BY <2>3, <2>4
<1> QED
  BY <1>1, <1>2

\* A seek stalls an open stream where its offset is out of reach, and there only.
LEMMA SeekStalls ==
  ASSUME NEW f, IsFile(f), NEW r \in Reader, NEW p \in 0..(Word - 1), NEW q \in SeekFrom(f, r, p)
  PROVE  /\ Stalls(q.stream) /\ ~Stalls(r.stream) => p # 0 /\ OffsetOf(p - 1) >= OffsetLimit
         /\ r.stream.isOpen /\ sized /\ p # 0 /\ OffsetOf(p - 1) >= OffsetLimit
              => Stalls(q.stream)
<1>0. r.stream \in S!Streams
  BY DEF Reader
<1>1. CASE ~sized
  BY <1>1 DEF SeekFrom, Reader
<1>2. ASSUME NEW to \in Int
      PROVE  /\ Stalls(S!Seek(r.stream, to)) <=> r.stream.isOpen /\ to < 0
             /\ S!Seek(r.stream, to) \in S!Streams
  <2> DEFINE s == S!Seek(r.stream, to)
  <2>1. /\ s \in S!Streams
        /\ s.fail <=> ~(r.stream.isOpen /\ to >= 0)
        /\ s.eof = ~r.stream.isOpen
    BY <1>0, SeekType
  <2>2. to >= 0 <=> ~(to < 0)
    OBVIOUS
  <2> HIDE DEF s
  <2>3. Stalls(s) <=> r.stream.isOpen /\ to < 0
    BY <1>0, <2>1, <2>2 DEF Stalls, S!Streams
  <2> QED
    BY <2>1, <2>3 DEF s
<1>3. CASE sized /\ p = 0
  <2>1. HeaderSize \in Int /\ ~(HeaderSize < 0)
    BY Sizes DEF HeaderSize
  <2>2. q.stream = S!Seek(r.stream, HeaderSize)
    BY <1>3 DEF SeekFrom, Reader
  <2> QED
    BY <1>2, <1>3, <2>1, <2>2
<1>4. CASE sized /\ p # 0
  <2> DEFINE t == [r EXCEPT !.stream = S!Seek(@, SeekOffset(p - 1)),
                            !.current = NoPoint, !.position = p - 1]
  <2>1. p - 1 \in 0..(Word - 1) /\ OffsetOf(p - 1) \in Nat
    BY <1>4, OffsetType, Sizes
  <2>2. /\ SeekOffset(p - 1) \in Int
        /\ SeekOffset(p - 1) < 0 <=> OffsetOf(p - 1) >= OffsetLimit
    BY <2>1, SeekOffsetType, Sizes
  <2>3. q \in NextFrom(f, t)
    BY <1>4 DEF SeekFrom
  <2>4. t \in Reader /\ t.stream = S!Seek(r.stream, SeekOffset(p - 1))
    BY <1>2, <2>1, <2>2, PointsOfTheModel DEF Reader
  <2> HIDE DEF t
  <2>5. Stalls(q.stream) <=> Stalls(t.stream)
    BY <2>3, <2>4, NextStalls
  <2>6. Stalls(t.stream) <=> r.stream.isOpen /\ SeekOffset(p - 1) < 0
    BY <1>2, <2>2, <2>4
  <2> QED
    BY <1>4, <2>2, <2>5, <2>6
<1> QED
  BY <1>1, <1>3, <1>4

\* Of a position that is not one of the header.
InReach(p) == p < RecordQuotient - HeaderSlots => HeaderSize + 2 * p < OffsetLimit

(***************************************************************************)
(* The event being fetched and the target of the walk back are within the  *)
(* offsets that streams accept, unless the stream is stalled already or    *)
(* the event is one of the header.                                         *)
(***************************************************************************)
LocalsInReach ==
  /\ pc \in {"idle", "reload"} => draft = NoEvent
  /\ Stalled \/ InReach(draft.position)
  /\ pc = "reload" =>
       /\ target < RecordQuotient - HeaderSlots
       /\ stream.isOpen => Stalled \/ target = 0 \/ InReach(target - 1)

LEMMA InReachFacts ==
  /\ \A p \in 0..(Word - 1) : p < RecordQuotient - HeaderSlots => OffsetOf(p) = HeaderSize + 2 * p
  /\ InReach(0) /\ InReach(NoEvent.position)
<1>1. HeaderSize = 2 * HeaderSlots /\ HeaderSize + 2 * 0 = HeaderSize
  BY Sizes DEF HeaderSize
<1>2. NoEvent.position = 0
  BY DEF NoEvent
<1> QED
  BY <1>1, <1>2, Sizes DEF OffsetOf, InReach

\* Where the reader stands is in reach.
LEMMA PositionInReach ==
  ASSUME IInv, stream.isOpen, ~Stalled
  PROVE  InReach(position)
<1>1. /\ OffsetOf(position) \in {stream.at, stream.at - 1} /\ stream.at < OffsetLimit
      /\ position \in 0..(Word - 1) /\ stream.at \in Nat
  BY HereIsReader DEF IInv, TypeOK, Consistent, Stalled, Stalls, S!Streams
<1>2. OffsetOf(position) < OffsetLimit
  BY <1>1, Sizes
<1> QED
  BY <1>1, <1>2, InReachFacts DEF InReach

\* The seeks that current_event and the reload of advance_to make.
LEMMA PutBackInReach ==
  ASSUME IInv, LocalsInReach, ~Stalled, draft.position < RecordQuotient - HeaderSlots,
         Before(draft.position) # 0
  PROVE  OffsetOf(Before(draft.position) - 1) < OffsetLimit
<1> DEFINE k == draft.position
<1>1. k \in Nat /\ InReach(k)
  BY DEF IInv, TypeOK, Events, LocalsInReach
<1>2. HeaderSize + 2 * k < OffsetLimit /\ HeaderSize = 2 * HeaderSlots
  BY <1>1 DEF InReach, HeaderSize
<1>3. k # 1
  BY DEF Before
<1> HIDE DEF k
<1>4. CASE k = 0
  <2>1. Before(draft.position) - 1 = Word - 2
    BY <1>4, Sizes DEF Before, k
  <2>2. OffsetOf(Word - 2) = 2 * (HeaderSlots - 2)
    BY Sizes DEF OffsetOf
  <2> QED
    BY <2>1, <2>2, Sizes
<1>5. CASE k >= 2
  <2>1. Before(draft.position) - 1 = k - 2
    BY <1>1, <1>5 DEF Before, k
  <2>2. k - 2 \in 0..(Word - 1) /\ k - 2 < RecordQuotient - HeaderSlots
    BY <1>1, <1>5, Sizes DEF k
  <2>3. OffsetOf(k - 2) = HeaderSize + 2 * (k - 2)
    BY <2>2, InReachFacts
  <2> QED
    BY <1>1, <1>2, <1>5, <2>1, <2>3, Sizes
<1> QED
  BY <1>1, <1>3, <1>4, <1>5

LEMMA ReloadInReach ==
  ASSUME IInv, LocalsInReach, ReloadBack, target # 1
  PROVE  /\ target - 2 \in 0..(Word - 1) /\ OffsetOf(target - 2) = HeaderSize + 2 * (target - 2)
         /\ ~Stalled /\ stream.isOpen => OffsetOf(target - 2) < OffsetLimit
<1>1. /\ pc = "reload" /\ target - 1 \in 0..(Word - 1) /\ target \in Nat
      /\ target < RecordQuotient - HeaderSlots /\ target >= 2
  BY ReloadTarget DEF ReloadBack, LocalsInReach, IInv, TypeOK
<1>2. target - 2 \in 0..(Word - 1) /\ OffsetOf(target - 2) = HeaderSize + 2 * (target - 2)
  BY <1>1, InReachFacts, Sizes
<1>3. ASSUME ~Stalled, stream.isOpen PROVE OffsetOf(target - 2) < OffsetLimit
  <2>1. InReach(target - 1)
    BY <1>1, <1>3 DEF LocalsInReach
  <2>2. HeaderSize + 2 * (target - 1) < OffsetLimit /\ HeaderSize \in Nat
    BY <1>1, <2>1, Sizes DEF InReach, HeaderSize
  <2> QED
    BY <1>1, <1>2, <2>2, Sizes
<1> QED
  BY <1>2, <1>3

\* A step of fetch_new_event.
LEMMA FetchInReach ==
  ASSUME IInv, ClosedAtEnd, LocalsInReach, FetchNewEvent
  PROVE  LocalsInReach'
<1> USE HereIsReader DEF IInv
<1>0. /\ position \in Nat /\ current \in Points /\ draft \in Events
      /\ InReach(NoEvent.position)
  BY InReachFacts DEF TypeOK
<1>1. ASSUME NEW r \in NextFrom(file, Here), Become(r) PROVE Stalled' <=> Stalled
  BY <1>1, NextStalls DEF Become, Stalled, Stalls
<1>2. ASSUME pc \notin {"idle", "reload"} PROVE Stalled \/ InReach(position)
  BY <1>2, PositionInReach DEF ClosedAtEnd, Stalled
<1>3. ASSUME Stalled' <=> Stalled, Stalled \/ InReach(draft'.position),
             pc' \notin {"idle", "reload"}
      PROVE  LocalsInReach'
  BY <1>3 DEF LocalsInReach, InReach
<1>4. ASSUME NEW e \in Events, NEW label \in {"second", "third", "last"}, NextWithin(e, label),
             Stalled \/ InReach(e.position)
      PROVE  LocalsInReach'
  <2>1. PICK r \in NextFrom(file, Here) :
          Become(r) /\ pc' \in {label, "return"} /\ draft' \in {e, LastEvent(e)}
    BY <1>4 DEF NextWithin
  <2>2. draft'.position = e.position
    BY <1>0, <1>4, <2>1, EventTypes
  <2>3. Stalled' <=> Stalled
    BY <1>1, <2>1
  <2> QED
    BY <1>3, <1>4, <2>1, <2>2, <2>3
<1>5. CASE FetchSkip
  <2>1. PICK r \in NextFrom(file, Here) :
          Become(r) /\ pc' \in {"skip", "return"} /\ draft' \in {draft, NoEvent}
    BY <1>5 DEF FetchSkip
  <2>2. Stalled' <=> Stalled
    BY <1>1, <2>1
  <2>3. Stalled \/ InReach(draft'.position)
    BY <1>0, <2>1 DEF LocalsInReach
  <2> QED
    BY <1>3, <2>1, <2>2, <2>3
<1>6. CASE FetchMissing
  <2>1. /\ draft'.position = position /\ pc' = "second" /\ pc = "fetch"
        /\ stream' = stream
    BY <1>0, <1>6, StartTypes DEF FetchMissing, FirstVmexitMissing, readerVars
  <2>2. Stalled' <=> Stalled
    BY <2>1 DEF Stalled
  <2> QED
    BY <1>2, <1>3, <2>1, <2>2
<1>7. CASE FetchExit
  <2>1. /\ EventStartingAt(current, position) \in Events
        /\ EventStartingAt(current, position).position = position
    BY <1>0, StartTypes
  <2>2. NextWithin(EventStartingAt(current, position), "second") /\ pc \notin {"idle", "reload"}
    BY <1>7 DEF FetchExit
  <2> QED
    BY <1>2, <1>4, <2>1, <2>2
<1>8. CASE FetchInterrupt
  <2> DEFINE e == [draft EXCEPT !.hasInterrupt = TRUE, !.vector = current.vector,
                                !.interruptRip = current.rip]
  <2>1. e \in Events /\ e.position = draft.position
    BY <1>0 DEF Events, Points
  <2>2. NextWithin(e, "third")
    BY <1>8 DEF FetchInterrupt
  <2> HIDE DEF e
  <2> QED
    BY <1>4, <2>1, <2>2 DEF LocalsInReach
<1>9. CASE FetchRepeated
  BY <1>0, <1>4, <1>9 DEF FetchRepeated, LocalsInReach
<1>10. CASE FetchEnter
  <2>1. /\ draft'.position = draft.position /\ pc' = "return" /\ stream' = stream
    BY <1>0, <1>10, EventTypes DEF FetchEnter, readerVars
  <2> QED
    BY <1>3, <2>1 DEF LocalsInReach, Stalled
<1>11. CASE FetchSpins
  <2>1. /\ draft' = draft /\ pc' = "spin" /\ stream' = stream
    BY <1>11 DEF FetchSpins, readerVars, localVars
  <2> QED
    BY <1>3, <2>1 DEF LocalsInReach, Stalled
<1>12. CASE FetchThrows
  BY <1>0, <1>12 DEF FetchThrows, Leave, LocalsInReach, InReach
<1> QED
  BY <1>5, <1>6, <1>7, <1>8, <1>9, <1>10, <1>11, <1>12 DEF FetchNewEvent

LEMMA ReachKeeps ==
  IInv /\ ClosedAtEnd /\ LocalsInReach /\ [Next]_vars => LocalsInReach'
<1> SUFFICES ASSUME IInv, ClosedAtEnd, LocalsInReach, [Next]_vars PROVE LocalsInReach'
  OBVIOUS
<1> USE HereIsReader
<1>0. InReach(NoEvent.position)
  BY InReachFacts
<1>1. ASSUME draft' = NoEvent, pc' # "reload" PROVE LocalsInReach'
  BY <1>0, <1>1 DEF LocalsInReach, InReach
<1>2. ASSUME pc \in {"idle", "reload"}, draft' = draft, pc' # "reload" PROVE LocalsInReach'
  BY <1>1, <1>2 DEF LocalsInReach
<1>3. ASSUME UNCHANGED <<stream, draft>>, pc \notin {"idle", "reload"},
             pc' \notin {"idle", "reload"}
      PROVE  LocalsInReach'
  BY <1>3 DEF LocalsInReach, InReach, Stalled
<1>4. CASE LoadFile
  <2>1. pc = "idle" /\ pc' = pc /\ draft' = draft
    BY <1>4 DEF LoadFile, LoadAbsent, LoadShort, LoadRejected, LoadBadData, LoadGood, Load,
       Idle, localVars
  <2> QED
    BY <1>2, <2>1
<1>5. CASE CallNext \/ CallNextSpins \/ CallCurrentEvent \/ Validate
           \/ \E p \in EndArguments : SeekFromEnd(p)
  <2>1. pc = "idle" /\ pc' \in {"idle", "spin", "fetch"} /\ draft' = draft
    BY <1>5 DEF CallNext, CallNextSpins, CallCurrentEvent, Validate, SeekFromEnd, Idle, localVars
  <2> QED
    BY <1>2, <2>1
<1>6. CASE Spin \/ FirstReturns \/ LookAhead \/ Merge
  <2>1. /\ UNCHANGED <<stream, draft>> /\ pc \notin {"idle", "reload"}
        /\ pc' \notin {"idle", "reload"}
    BY <1>6 DEF Spin, FirstReturns, LookAhead, Merge, readerVars, localVars
  <2> QED
    BY <1>3, <2>1
<1>7. CASE Keep \/ PutBack
  BY <1>1, <1>7 DEF Keep, PutBack, Return, Leave
<1>8. CASE FetchNewEvent
  BY <1>8, FetchInReach
<1>9. CASE ReloadEvent
  <2>1. pc = "reload" /\ pc' \in {"idle", "fetch"} /\ draft' \in {draft, NoEvent}
    BY <1>9 DEF ReloadEvent, Return, Leave, localVars
  <2> QED
    BY <1>1, <1>2, <2>1
<1>10. CASE \E p \in SeekTargets : AdvanceTo(p)
  <2>1. PICK p \in SeekTargets : AdvanceTo(p)
    BY <1>10
  <2>2. p \in 0..(Word - 1) /\ p < RecordQuotient - HeaderSlots /\ p \in Nat
    BY ConstantsAssumption, Sizes
  <2>3. PICK r \in SeekFrom(file, Here, p) :
          Become(r) /\ (pc' = pc \/ (pc' = "reload" /\ target' = p /\ p # 0))
    BY <2>1 DEF AdvanceTo
  <2>4. pc = "idle" /\ draft' = draft /\ draft = NoEvent
    BY <2>1 DEF AdvanceTo, Idle, LocalsInReach
  <2>5. CASE pc' = pc
    BY <1>2, <2>4, <2>5
  <2>6. CASE pc' = "reload" /\ target' = p /\ p # 0
    <3>1. r.stream.isOpen = stream.isOpen /\ (stream.isOpen => sized)
      BY <2>2, SeekKeeps DEF IInv, OpenIsSized
    <3>2. ASSUME stream'.isOpen PROVE Stalled' \/ InReach(p - 1)
      <4>1. stream' = r.stream /\ stream.isOpen /\ sized
        BY <2>3, <3>1, <3>2 DEF Become
      <4>2. OffsetOf(p - 1) >= OffsetLimit => Stalls(r.stream)
        BY <2>2, <2>6, <4>1, SeekStalls DEF IInv
      <4>3. p - 1 \in 0..(Word - 1) /\ p - 1 < RecordQuotient - HeaderSlots
        BY <2>2, <2>6, Sizes
      <4>4. OffsetOf(p - 1) = HeaderSize + 2 * (p - 1) /\ OffsetOf(p - 1) \in Nat
        BY <4>3, InReachFacts, OffsetType
      <4> QED
        BY <4>1, <4>2, <4>4, Sizes DEF InReach, Stalled, Stalls
    <3> QED
      BY <1>0, <2>2, <2>4, <2>6, <3>2 DEF LocalsInReach, InReach
  <2> QED
    BY <2>3, <2>5, <2>6
<1>11. CASE ReloadBack
  <2>1. PICK r \in SeekFrom(file, Here, target - 1) : Become(r)
    BY <1>11 DEF ReloadBack
  <2>2. /\ pc = "reload" /\ pc' = pc /\ target' = target - 1 /\ draft' = draft
        /\ draft = NoEvent /\ target \in Nat /\ target < RecordQuotient - HeaderSlots
        /\ target - 1 \in 0..(Word - 1)
    BY <1>11, ReloadTarget DEF ReloadBack, LocalsInReach, IInv, TypeOK
  <2>3. r.stream.isOpen = stream.isOpen /\ (stream.isOpen => sized)
    BY <2>1, <2>2, SeekKeeps DEF IInv, OpenIsSized
  <2>4. ASSUME stream'.isOpen PROVE Stalled' \/ target' = 0 \/ InReach(target' - 1)
    <3> SUFFICES ASSUME target # 1 PROVE Stalled' \/ InReach(target - 2)
      BY <2>2
    <3>1. stream' = r.stream /\ stream.isOpen /\ sized
      BY <2>1, <2>3, <2>4 DEF Become
    <3>2. target - 2 \in 0..(Word - 1) /\ OffsetOf(target - 2) = HeaderSize + 2 * (target - 2)
      BY <1>11, ReloadInReach
    <3>3. (target - 1) - 1 = target - 2 /\ target - 1 # 0
      BY <2>2
    <3>4. OffsetOf(target - 2) >= OffsetLimit => Stalls(r.stream)
      BY <2>1, <2>2, <3>1, <3>3, SeekStalls DEF IInv
    <3>5. OffsetOf(target - 2) \in Nat
      BY <3>2, OffsetType
    <3> QED
      BY <3>1, <3>2, <3>4, <3>5, Sizes DEF InReach, Stalled, Stalls
  <2>5. target' < RecordQuotient - HeaderSlots
    BY <2>2, Sizes
  <2> QED
    BY <1>0, <2>2, <2>4, <2>5 DEF LocalsInReach, InReach
<1>12. CASE UNCHANGED vars
  BY <1>12 DEF vars, LocalsInReach, InReach, Stalled
<1> QED
  BY <1>4, <1>5, <1>6, <1>7, <1>8, <1>9, <1>10, <1>11, <1>12
     DEF Next, Client, Library, CurrentEvent

\* What a step that stalls the stream is.
StallsOutside ==
  Stalled' /\ ~Stalled =>
    \/ call'.op = "seek_from_end" /\ call'.arg >= PointCount(file)
    \/ /\ call'.op = "advance_to" /\ pc = "idle"
       /\ HeaderSize + RecordSize * (call'.arg - 1) >= OffsetLimit
    \/ pc = "return" /\ draft.position >= RecordQuotient - HeaderSlots

LEMMA StallsAtTheStart ==
  ASSUME IInv, LocalsInReach, [Next]_vars
  PROVE  StallsOutside
<1> SUFFICES ASSUME Stalled', ~Stalled
             PROVE  \/ call'.op = "seek_from_end" /\ call'.arg >= PointCount(file)
                    \/ /\ call'.op = "advance_to" /\ pc = "idle"
                       /\ HeaderSize + RecordSize * (call'.arg - 1) >= OffsetLimit
                    \/ pc = "return" /\ draft.position >= RecordQuotient - HeaderSlots
  BY DEF StallsOutside
<1> USE HereIsReader DEF IInv
<1>1. ASSUME NEW r \in NextFrom(file, Here), stream' = r.stream
      PROVE  FALSE
  BY <1>1, NextStalls DEF Stalled, Stalls
<1>2. ASSUME NEW p \in 0..(Word - 1), NEW r \in SeekFrom(file, Here, p), stream' = r.stream
      PROVE  p # 0 /\ OffsetOf(p - 1) >= OffsetLimit /\ stream.isOpen
  <2>1. p # 0 /\ OffsetOf(p - 1) >= OffsetLimit
    BY <1>2, SeekStalls DEF Stalled, Stalls
  <2>2. stream.isOpen
    <3>1. ASSUME ~stream.isOpen PROVE FALSE
      <4>1. CASE ~sized
        BY <1>2, <4>1 DEF SeekFrom, Reader, Stalled
      <4>2. CASE sized
        <5> DEFINE t == [Here EXCEPT !.stream = S!Seek(@, SeekOffset(p - 1)),
                                     !.current = NoPoint, !.position = p - 1]
        <5>1. r \in NextFrom(file, t)
          BY <1>2, <2>1, <4>2 DEF SeekFrom
        <5>2. t.stream.eof
          BY <3>1 DEF S!Seek, S!Streams, Reader
        <5> HIDE DEF t
        <5> QED
          BY <1>2, <5>1, <5>2, ClosedNext DEF Stalled
      <4> QED
        BY <4>1, <4>2
    <3> QED
      BY <3>1
  <2> QED
    BY <2>1, <2>2
<1>3. CASE LoadFile
  <2>1. \/ stream' = S!Load(FALSE)
        \/ stream' = S!Close(S!Load(TRUE))
        \/ stream' = S!Seek(S!Load(TRUE), HeaderSize)
    BY <1>3 DEF LoadFile, LoadAbsent, LoadShort, LoadRejected, LoadBadData, LoadGood, Load
  <2>2. ~Stalls(S!Load(FALSE)) /\ ~Stalls(S!Close(S!Load(TRUE)))
    BY DEF S!Load, S!Close, Stalls
  <2>3. HeaderSize \in Int /\ HeaderSize >= 0 /\ S!Load(TRUE) \in S!Streams
    BY Sizes DEF HeaderSize, S!Load, S!Streams
  <2>4. ~Stalls(S!Seek(S!Load(TRUE), HeaderSize))
    BY <2>3, SeekType DEF Stalls, S!Load
  <2> QED
    BY <2>1, <2>2, <2>4 DEF Stalls, Stalled
<1>4. CASE CallNext
  BY <1>1, <1>4 DEF CallNext, Become
<1>5. CASE CallNextSpins \/ CallCurrentEvent \/ Validate \/ ReloadEvent \/ UNCHANGED vars
  BY <1>5 DEF CallNextSpins, CallCurrentEvent, Validate, ReloadEvent, readerVars, vars, Stalled
<1>6. CASE Spin \/ FirstReturns \/ LookAhead \/ Keep \/ Merge
  BY <1>6 DEF Spin, FirstReturns, LookAhead, Keep, Merge, readerVars, Stalled
<1>7. CASE FetchNewEvent
  <2>1. CASE FetchSkip
    BY <1>1, <2>1 DEF FetchSkip, Become
  <2>2. CASE FetchExit \/ FetchInterrupt \/ FetchRepeated
    BY <1>1, <2>2 DEF FetchExit, FetchInterrupt, FetchRepeated, NextWithin, Become
  <2>3. CASE FetchMissing \/ FetchSpins \/ FetchEnter \/ FetchThrows
    BY <2>3 DEF FetchMissing, FetchSpins, FetchEnter, FetchThrows, readerVars, Stalled
  <2> QED
    BY <1>7, <2>1, <2>2, <2>3 DEF FetchNewEvent
<1>8. CASE PutBack
  <2> DEFINE p == Before(draft.position)
  <2>0. draft.position \in Nat /\ pc = "return"
    BY <1>8 DEF PutBack, TypeOK, Events
  <2>1. p \in 0..(Word - 1)
    BY Sizes DEF Before, TypeOK, LocalsAreBounded, Events
  <2>2. PICK r \in SeekFrom(file, Here, p) : Become([r EXCEPT !.event = held])
    BY <1>8 DEF PutBack
  <2> HIDE DEF p
  <2>3. r \in Reader
    BY <2>1, SeekKeeps DEF OpenIsSized
  <2>4. stream' = r.stream
    BY <2>2, <2>3 DEF Become, Reader
  <2>5. p # 0 /\ OffsetOf(p - 1) >= OffsetLimit
    BY <1>2, <2>1, <2>4
  <2>6. CASE draft.position < RecordQuotient - HeaderSlots
    <3>1. Before(draft.position) # 0
      BY <2>5 DEF p
    <3>2. OffsetOf(Before(draft.position) - 1) < OffsetLimit
      BY <2>6, <3>1, PutBackInReach
    <3>3. OffsetOf(p - 1) < OffsetLimit
      BY <3>2 DEF p
    <3>4. p - 1 \in 0..(Word - 1)
      BY <2>1, <2>5, Sizes
    <3> QED
      BY <2>5, <3>3, <3>4, OffsetType, Sizes
  <2> QED
    BY <2>0, <2>6, Sizes
<1>9. CASE \E p \in SeekTargets : AdvanceTo(p)
  <2>1. PICK p \in SeekTargets : AdvanceTo(p)
    BY <1>9
  <2>2. p \in 0..(Word - 1) /\ p < RecordQuotient - HeaderSlots /\ p \in Nat
    BY ConstantsAssumption, Sizes
  <2>3. PICK r \in SeekFrom(file, Here, p) : Become(r)
    BY <2>1 DEF AdvanceTo
  <2>4. p # 0 /\ OffsetOf(p - 1) >= OffsetLimit
    BY <1>2, <2>2, <2>3 DEF Become
  <2>5. p - 1 \in 0..(Word - 1) /\ p - 1 < RecordQuotient - HeaderSlots
    BY <2>2, <2>4, Sizes
  <2>6. OffsetOf(p - 1) = HeaderSize + 2 * (p - 1)
    BY <2>5, InReachFacts
  <2>7. call'.op = "advance_to" /\ call'.arg = p /\ pc = "idle"
    BY <2>1 DEF AdvanceTo, Enter, Idle
  <2> QED
    BY <2>4, <2>6, <2>7 DEF RecordSize
<1>10. CASE ReloadBack
  <2>1. PICK r \in SeekFrom(file, Here, target - 1) : Become(r)
    BY <1>10 DEF ReloadBack
  <2>2. target - 1 \in 0..(Word - 1) /\ target \in Nat
    BY <1>10, ReloadTarget DEF TypeOK
  <2>3. target - 1 # 0 /\ OffsetOf((target - 1) - 1) >= OffsetLimit /\ stream.isOpen
    BY <1>2, <2>1, <2>2 DEF Become
  <2>4. (target - 1) - 1 = target - 2 /\ target # 1
    BY <2>2, <2>3
  <2>5. target - 2 \in 0..(Word - 1) /\ OffsetOf(target - 2) < OffsetLimit
    BY <1>10, <2>3, <2>4, ReloadInReach
  <2> QED
    BY <2>3, <2>4, <2>5, OffsetType, Sizes
<1>11. CASE \E p \in EndArguments : SeekFromEnd(p)
  <2>1. PICK p \in EndArguments : SeekFromEnd(p)
    BY <1>11
  <2>2. p \in Nat /\ call'.op = "seek_from_end" /\ call'.arg = p
    BY <2>1, EndArgumentsType DEF SeekFromEnd, Enter
  <2>3. sized
    BY <2>1 DEF SeekFromEnd, Stalled
  <2>4. ~(FileSize(file) - RecordSize * (p + 1) >= 0)
    BY <2>1, <2>3 DEF SeekFromEnd, S!Seek, S!Streams, TypeOK, Stalled
  <2>5. /\ PointCount(file) \in Nat /\ TailSize(file) \in Nat
        /\ FileSize(file) = HeaderSize + 2 * PointCount(file) + TailSize(file)
    BY FileFacts, FileSizeFacts
  <2>6. HeaderSize = 2 * HeaderSlots /\ HeaderSlots \in Nat /\ HeaderSlots > 1
    BY Sizes DEF HeaderSize
  <2> QED
    BY <2>2, <2>4, <2>5, <2>6 DEF RecordSize
<1> QED
  BY <1>3, <1>4, <1>5, <1>6, <1>7, <1>8, <1>9, <1>10, <1>11
     DEF Next, Client, Library, CurrentEvent

-----------------------------------------------------------------------------
(* The last valid position.                                                *)

\* A reader whose load did not get as far as the record size has not moved.
UnsizedAtStart == ~sized => position = 0

LEMMA UnsizedStays ==
  IInv /\ ClosedAtEnd /\ UnsizedAtStart /\ [Next]_vars => UnsizedAtStart'
<1> SUFFICES ASSUME IInv, ClosedAtEnd, UnsizedAtStart, [Next]_vars, ~sized'
             PROVE  position' = 0
  BY DEF UnsizedAtStart
<1>1. CASE LoadFile
  BY <1>1 DEF LoadFile, LoadAbsent, LoadShort, LoadRejected, LoadBadData, LoadGood, Load
<1>2. CASE ~LoadFile
  <2>1. ~sized /\ position = 0
    BY <1>2 DEF UnsizedAtStart, Next, Client, Library, CurrentEvent, FetchNewEvent, CallNext,
       CallNextSpins, Spin, FetchSkip, FetchMissing, FetchExit, FetchSpins, FetchInterrupt,
       FetchRepeated, FetchEnter, FetchThrows, CallCurrentEvent, FirstReturns, LookAhead,
       Keep, Merge, PutBack, AdvanceTo, ReloadBack, ReloadEvent, SeekFromEnd, Validate,
       fileVars, vars
  <2>2. /\ ~stream.isOpen /\ stream.eof /\ pc \in {"idle", "reload"}
        /\ Here \in Reader /\ Here.stream = stream /\ Here.position = position
    BY <2>1, HereIsReader DEF IInv, OpenIsSized, ClosedAtEnd
  <2>3. ASSUME NEW q, NEW r \in SeekFrom(file, Here, q), Become(r)
        PROVE  position' = 0
    BY <2>1, <2>2, <2>3 DEF SeekFrom, Become, Reader
  <2>4. CASE CallNext
    BY <2>1, <2>2, <2>4, ClosedNext DEF CallNext, Become
  <2>5. CASE CallNextSpins \/ CallCurrentEvent \/ Validate \/ ReloadEvent \/ UNCHANGED vars
    BY <2>1, <2>5 DEF CallNextSpins, CallCurrentEvent, Validate, ReloadEvent, readerVars, vars
  <2>6. CASE CurrentEvent \/ Spin
    BY <2>2, <2>6 DEF CurrentEvent, Spin, FetchNewEvent, FetchSkip, FetchMissing,
       FetchExit, FetchSpins, FetchInterrupt, FetchRepeated, FetchEnter, FetchThrows,
       AtNewContext, FirstVmexitMissing, FirstReturns, LookAhead, Keep, Merge, PutBack
  <2>7. CASE \E q \in SeekTargets : AdvanceTo(q)
    BY <2>3, <2>7 DEF AdvanceTo
  <2>8. CASE ReloadBack
    BY <2>3, <2>8 DEF ReloadBack
  <2>9. CASE \E q \in EndArguments : SeekFromEnd(q)
    BY <2>1, <2>9 DEF SeekFromEnd
  <2> QED
    BY <1>2, <2>4, <2>5, <2>6, <2>7, <2>8, <2>9 DEF Next, Client, Library
<1> QED
  BY <1>1, <1>2

\* Outside the header next counts forward.
LEMMA NextCounts ==
  ASSUME NEW f, IsFile(f), NEW r \in Reader, NEW q \in NextFrom(f, r),
         r.position < RecordQuotient - HeaderSlots, Stalls(r.stream) => f.version = 3
  PROVE  q.position >= r.position
<1>1. r.position \in Nat /\ r.stream.at \in Nat /\ FileSize(f) \in Nat
  BY FileSizeFacts DEF Reader, S!Streams
<1>2. CASE r.stream.eof
  BY <1>1, <1>2, ClosedNext
<1>3. CASE ~r.stream.eof
  <2>1. PICK n \in Skips(f, r) :
          q.position = Wrap(r.position + n + (IF EndsAfter(f, r, n) THEN 0 ELSE 1))
    BY <1>3 DEF NextFrom
  <2>2. n \in Nat
    <3>1. ReadsAtMost(f, r) \in Nat
      BY ReadsFit
    <3> QED
      BY <3>1 DEF Skips
  <2>3. n = 0 \/ (~r.stream.fail /\ ~EndsAfter(f, r, n - 1))
    <3>1. n # 0 => n - 1 \in 0..(n - 1)
      BY <2>2
    <3>2. \A m \in 0..(n - 1) : PointAfter(f, r, m) = r.current /\ ~EndsAfter(f, r, m)
      BY DEF Skips
    <3>3. CASE r.stream.fail /\ n # 0
      <4>1. Stalls(r.stream) /\ f.version = 3
        BY <1>3, <3>3 DEF Stalls
      <4>2. PointAfter(f, r, n) = PointAfter(f, r, n - 1) /\ ~EndsAfter(f, r, n)
        BY <3>3 DEF PointAfter, EndsAfter
      <4>3. PointAfter(f, r, n) = r.current
        BY <3>1, <3>2, <3>3, <4>2
      <4> QED
        BY <4>1, <4>2, <4>3 DEF Skips
    <3> QED
      BY <3>1, <3>2, <3>3
  <2>4. n = 0 \/ r.stream.at + 2 * n <= FileSize(f)
    <3>1. ASSUME n # 0 PROVE r.stream.at + 2 * (n - 1) + 2 <= FileSize(f)
      BY <1>1, <2>2, <2>3, <3>1 DEF EndsAfter, S!FallsShort, RecordSize, Reader, S!Streams
    <3> QED
      BY <1>1, <2>2, <3>1
  <2>5. FileSize(f) + 2 < OffsetLimit
    BY FileSizeFacts
  <2>6. r.position + n + 1 < Word
    BY <1>1, <2>2, <2>4, <2>5, Sizes
  <2>7. q.position \in {r.position + n, r.position + n + 1}
    BY <1>1, <2>1, <2>2, <2>6, Sizes DEF Wrap
  <2> QED
    BY <1>1, <2>2, <2>7
<1> QED
  BY <1>2, <1>3

\* A seek leaves the last valid position just behind.
LEMMA SeekLeavesBehind ==
  ASSUME IInv, UnsizedAtStart, NEW p \in 0..(Word - 1), NEW r \in SeekFrom(file, Here, p),
         position' = r.position, lastValid' = LastValidAfter(p, r), lastValid <= position
  PROVE  lastValid' <= position'
<1>1. r \in Reader /\ (p = 0 => r.position = 0)
  BY HereIsReader, SeekKeeps DEF IInv, OpenIsSized
<1>2. r.position \in Nat /\ lastValid \in Nat
  BY <1>1 DEF Reader, IInv, TypeOK
<1>3. CASE sized
  BY <1>1, <1>2, <1>3 DEF LastValidAfter
<1>4. CASE ~sized
  BY <1>2, <1>4 DEF LastValidAfter, UnsizedAtStart
<1> QED
  BY <1>3, <1>4

LEMMA StaysBehind ==
  ASSUME IInv, UnsizedAtStart, [Next]_vars, call'.op \notin {"load", "seek_from_end"},
         position < RecordQuotient - HeaderSlots, lastValid <= position,
         Stalled => file.version = 3
  PROVE  lastValid' <= position'
<1> USE HereIsReader DEF IInv
<1>0. position \in Nat /\ lastValid \in Nat /\ Word \in Nat
  BY Sizes DEF TypeOK
<1>1. ASSUME NEW r \in NextFrom(file, Here), position' = r.position, lastValid' = lastValid
      PROVE  lastValid' <= position'
  <2>1. r.position >= position
    BY NextCounts DEF Stalled, Stalls
  <2>2. r.position \in Nat
    BY NextKeeps DEF Reader
  <2> QED
    BY <1>0, <1>1, <2>1, <2>2
<1>2. CASE LoadFile
  <2>1. PICK f, s, o : Load(f, s, o)
    BY <1>2 DEF LoadFile, LoadAbsent, LoadShort, LoadRejected, LoadBadData, LoadGood
  <2>2. call'.op = "load"
    BY <2>1 DEF Load, Enter
  <2> QED
    BY <2>2
<1>3. CASE CallNext
  BY <1>1, <1>3 DEF CallNext, Become
<1>4. CASE CallNextSpins \/ CallCurrentEvent \/ Validate \/ ReloadEvent \/ UNCHANGED vars
  BY <1>0, <1>4
     DEF CallNextSpins, CallCurrentEvent, Validate, ReloadEvent, readerVars, vars
<1>5. CASE Spin
  BY <1>0, <1>5, Sizes DEF Spin, Wrap
<1>6. CASE FirstReturns \/ LookAhead \/ Keep \/ Merge
  BY <1>6 DEF FirstReturns, LookAhead, Keep, Merge, readerVars
<1>7. CASE FetchNewEvent
  <2>1. CASE FetchSkip
    BY <1>1, <2>1 DEF FetchSkip, Become
  <2>2. CASE FetchExit \/ FetchInterrupt \/ FetchRepeated
    BY <1>1, <2>2 DEF FetchExit, FetchInterrupt, FetchRepeated, NextWithin, Become
  <2>3. CASE FetchMissing \/ FetchSpins \/ FetchEnter \/ FetchThrows
    BY <2>3 DEF FetchMissing, FetchSpins, FetchEnter, FetchThrows, readerVars
  <2> QED
    BY <1>7, <2>1, <2>2, <2>3 DEF FetchNewEvent
<1>8. CASE PutBack
  <2> DEFINE p == Before(draft.position)
  <2>1. p \in 0..(Word - 1)
    BY Sizes DEF Before, TypeOK, LocalsAreBounded, Events
  <2>2. PICK r \in SeekFrom(file, Here, p) :
          Become([r EXCEPT !.event = held]) /\ lastValid' = LastValidAfter(p, r)
    BY <1>8 DEF PutBack
  <2> HIDE DEF p
  <2>3. r \in Reader
    BY <2>1, SeekKeeps DEF OpenIsSized
  <2>4. position' = r.position
    BY <2>2, <2>3 DEF Become, Reader
  <2> QED
    BY <2>1, <2>2, <2>4, SeekLeavesBehind
<1>9. CASE \E p \in SeekTargets : AdvanceTo(p)
  <2>1. PICK p \in SeekTargets : AdvanceTo(p)
    BY <1>9
  <2>2. p \in 0..(Word - 1)
    BY ConstantsAssumption, Sizes
  <2> QED
    BY <2>1, <2>2, SeekLeavesBehind DEF AdvanceTo, Become
<1>10. CASE ReloadBack
  <2> DEFINE p == target - 1
  <2>1. p \in 0..(Word - 1)
    BY <1>10, ReloadTarget
  <2>2. PICK r \in SeekFrom(file, Here, p) : Become(r) /\ lastValid' = LastValidAfter(p, r)
    BY <1>10 DEF ReloadBack
  <2> HIDE DEF p
  <2> QED
    BY <2>1, <2>2, SeekLeavesBehind DEF Become
<1>11. CASE \E p \in EndArguments : SeekFromEnd(p)
  BY <1>11 DEF SeekFromEnd, Enter
<1> QED
  BY <1>2, <1>3, <1>4, <1>5, <1>6, <1>7, <1>8, <1>9, <1>10, <1>11
     DEF Next, Client, Library, CurrentEvent

-----------------------------------------------------------------------------
(* The theorems.                                                           *)

(***************************************************************************)
(* Every variable of a reader keeps its type under any series of calls, on *)
(* any files: in particular its position stays a 64-bit number, wherever   *)
(* the arithmetic of the seeks wraps around.                               *)
(***************************************************************************)
THEOREM TypeCorrect == Spec => []TypeOK
<1>1. IInv => TypeOK
  BY DEF IInv
<1> QED
  BY <1>1, InitHolds, NextKeepsIInv, PTL DEF Spec

(***************************************************************************)
(* position() names the record that current() holds, whatever files are    *)
(* read and however they were sought: the stream is always at the offset   *)
(* of the position, in each of the ranges where that offset wraps around.  *)
(***************************************************************************)
THEOREM PositionIsRight == Spec => []PositionNamesCurrent
<1>1. IInv => PositionNamesCurrent
  BY HereIsReader DEF IInv, Consistent, Stalls, PositionNamesCurrent, Readable, Aligned
<1> QED
  BY <1>1, InitHolds, NextKeepsIInv, PTL DEF Spec

(***************************************************************************)
(* A reader whose file is closed gives no new record and no new event, and *)
(* no seek brings it back: it is at the end of its file, where no event is *)
(* ever being fetched.                                                     *)
(***************************************************************************)
THEOREM ClosedIsSilent == Spec => ClosedReaderGivesNothing
<1>1. IInv /\ ClosedAtEnd /\ [Next]_vars => [StaysClosed]_vars
  BY ClosedKeeps
<1> QED
  BY <1>1, InitClosed, InitHolds, NextKeepsIInv, ClosedKeeps, PTL
     DEF Spec, ClosedReaderGivesNothing, StaysClosed

(***************************************************************************)
(* A stream on which reads fail and eof() stays false comes from           *)
(* seek_from_end beyond the start of the file, from advance_to beyond the  *)
(* offsets a stream accepts, or from the header, where only seek_from_end  *)
(* leads: a read that fails is at the end of the file, the reader stands   *)
(* at an offset in reach, and so do the events it fetches and the places   *)
(* that current_event and advance_to seek on their own.                    *)
(***************************************************************************)
THEOREM NothingElseStalls == Spec => OnlySeeksOutsideStall
<1>1. Init => LocalsInReach
  BY InReachFacts DEF Init, LocalsInReach
<1>2. IInv /\ LocalsInReach /\ [Next]_vars => [StallsOutside]_vars
  BY StallsAtTheStart
<1> QED
  BY <1>1, <1>2, InitClosed, InitHolds, NextKeepsIInv, ClosedKeeps, ReachKeeps, PTL
     DEF Spec, OnlySeeksOutsideStall, StallsOutside

(***************************************************************************)
(* No call but load and seek_from_end puts last_valid_position() ahead of  *)
(* position(), on any file and whatever the seek: those of advance_to      *)
(* beyond the end, of its walk back, and of current_event putting the      *)
(* reader back leave it one behind the position reached, or both at 0.     *)
(***************************************************************************)
THEOREM LastValidIsBehind == Spec => LastValidStaysBehind
<1>1. Init => UnsizedAtStart
  BY DEF Init, UnsizedAtStart
<1>2. IInv /\ UnsizedAtStart /\ [Next]_vars =>
        [call'.op \notin {"load", "seek_from_end"}
         /\ position < RecordQuotient - HeaderSlots /\ lastValid <= position
         /\ (Stalled => file.version = 3)
           => lastValid' <= position']_vars
  BY StaysBehind
<1> QED
  BY <1>1, <1>2, InitClosed, InitHolds, NextKeepsIInv, ClosedKeeps, UnsizedStays, PTL
     DEF Spec, LastValidStaysBehind
=============================================================================
