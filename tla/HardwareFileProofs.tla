-------------------------- MODULE HardwareFileProofs --------------------------
(***************************************************************************)
(* Lemmas about hardware_file, for any file: what a read gives, and that   *)
(* every call leaves a reader.                                             *)
(***************************************************************************)
EXTENDS HardwareFile, TLAPS

-----------------------------------------------------------------------------
(* The records of a file and what reading one gives.                       *)

LEMMA FileFacts ==
  ASSUME NEW f, IsHardwareFile(f)
  PROVE  /\ AccessCount(f) \in Nat
         /\ f.recs \in Seq(Accesses) /\ f.tail \in Seq(Accesses) /\ f.ends \in Seq(Nat)
         /\ Len(f.tail) \in {0, 1}
         /\ \A i \in 1..(AccessCount(f) + 1) : StartOf(f, i) \in Nat
         /\ \A i \in 1..AccessCount(f) : StartOf(f, i + 1) = f.ends[i]
         /\ \A i \in 1..AccessCount(f) : StartOf(f, i) < StartOf(f, i + 1)
         /\ \A i \in 1..AccessCount(f) : StartOf(f, i + 1) <= EndOf(f)
         /\ EndOf(f) \in Nat /\ FileSize(f) = EndOf(f) + Len(f.tail)
<1>1. AccessCount(f) \in Nat /\ Len(f.tail) \in {0, 1} /\ f.ends \in Seq(Nat)
      /\ f.recs \in Seq(Accesses) /\ f.tail \in Seq(Accesses)
  <2>1. f.ends \in Seq(Nat) /\ f.recs \in Seq(Accesses) /\ f.tail \in Seq(Accesses)
    BY DEF IsHardwareFile, HardwareFiles
  <2>2. Len(f.tail) \in Nat /\ Len(f.tail) <= 1
    BY <2>1 DEF IsHardwareFile
  <2>3. AccessCount(f) \in Nat
    BY <2>1 DEF AccessCount
  <2>4. \A n \in Nat : n <= 1 => n \in {0, 1}
    OBVIOUS
  <2>5. QED
    BY <2>1, <2>2, <2>3, <2>4
<1>2. \A i \in 1..(AccessCount(f) + 1) : StartOf(f, i) \in Nat
  BY <1>1 DEF StartOf, IsHardwareFile, HeaderSize
<1>3. \A i \in 1..AccessCount(f) : StartOf(f, i + 1) = f.ends[i]
  <2> SUFFICES ASSUME NEW i \in 1..AccessCount(f)
               PROVE  StartOf(f, i + 1) = f.ends[i]
    OBVIOUS
  <2>1. i \in Nat /\ i + 1 # 1 /\ (i + 1) - 1 = i
    BY <1>1
  <2>2. QED
    BY <2>1 DEF StartOf
<1>4. \A i, j \in 1..(AccessCount(f) + 1) : i < j => StartOf(f, i) < StartOf(f, j)
  BY DEF IsHardwareFile
<1>5. \A i \in 1..AccessCount(f) :
        StartOf(f, i) < StartOf(f, i + 1) /\ StartOf(f, i + 1) <= EndOf(f)
  <2> SUFFICES ASSUME NEW i \in 1..AccessCount(f)
               PROVE  StartOf(f, i) < StartOf(f, i + 1) /\ StartOf(f, i + 1) <= EndOf(f)
    OBVIOUS
  <2>1. StartOf(f, i) < StartOf(f, i + 1)
    BY <1>1, <1>4
  <2>2. StartOf(f, i + 1) <= EndOf(f)
    BY <1>1, <1>2, <1>4 DEF EndOf
  <2>3. QED
    BY <2>1, <2>2
<1>6. EndOf(f) \in Nat
  BY <1>1, <1>2 DEF EndOf
<1>7. QED
  BY <1>1, <1>2, <1>3, <1>5, <1>6 DEF FileSize

LEMMA OneRecordThere ==
  ASSUME NEW f, IsHardwareFile(f), NEW i \in 1..AccessCount(f)
  PROVE  RecordAt(f, StartOf(f, i)) = {i}
<1>1. \A j \in 1..AccessCount(f) : j # i => StartOf(f, j) # StartOf(f, i)
  <2> SUFFICES ASSUME NEW j \in 1..AccessCount(f), j # i
               PROVE  StartOf(f, j) # StartOf(f, i)
    OBVIOUS
  <2>1. AccessCount(f) \in Nat /\ StartOf(f, i) \in Nat /\ StartOf(f, j) \in Nat
    BY FileFacts
  <2>2. i < j => StartOf(f, i) < StartOf(f, j)
    BY <2>1 DEF IsHardwareFile
  <2>3. j < i => StartOf(f, j) < StartOf(f, i)
    BY <2>1 DEF IsHardwareFile
  <2>4. QED
    BY <2>1, <2>2, <2>3
<1>2. QED
  BY <1>1 DEF RecordAt

LEMMA NoRecordAtEnd ==
  ASSUME NEW f, IsHardwareFile(f)
  PROVE  RecordAt(f, EndOf(f)) = {}
<1>1. \A i \in 1..AccessCount(f) : StartOf(f, i) # EndOf(f)
  <2> SUFFICES ASSUME NEW i \in 1..AccessCount(f)
               PROVE  StartOf(f, i) # EndOf(f)
    OBVIOUS
  <2>1. AccessCount(f) \in Nat /\ StartOf(f, i) \in Nat /\ EndOf(f) \in Nat
        /\ StartOf(f, i + 1) \in Nat
    BY FileFacts
  <2>2. StartOf(f, i) < StartOf(f, i + 1) /\ StartOf(f, i + 1) <= EndOf(f)
    BY FileFacts
  <2>3. QED
    BY <2>1, <2>2
<1>2. QED
  BY <1>1 DEF RecordAt

\* A stream that can be read on.
Open(s) == s \in S!Streams /\ ~s.fail /\ ~s.eof

LEMMA ReadAtRecord ==
  ASSUME NEW f, IsHardwareFile(f), NEW s, Open(s), NEW i \in 1..AccessCount(f),
         s.at = StartOf(f, i)
  PROVE  /\ AccessRead(f, s) = f.recs[i]
         /\ AfterAccess(f, s) = [s EXCEPT !.at = StartOf(f, i + 1)]
<1>1. RecordAt(f, s.at) = {i}
  BY OneRecordThere
<1>2. AccessRead(f, s) = f.recs[i]
  BY <1>1 DEF AccessRead, Open
<1>3. /\ StartOf(f, i + 1) \in Nat /\ FileSize(f) \in Nat /\ s.at \in Nat
      /\ StartOf(f, i + 1) <= FileSize(f) /\ StartOf(f, i + 1) = f.ends[i]
  BY FileFacts, SMTT(30) DEF Open, S!Streams
<1>4. AfterAccess(f, s) = S!Read(s, f.ends[i] - s.at, FileSize(f))
  BY <1>1 DEF AfterAccess
<1>5. s.at + (f.ends[i] - s.at) = StartOf(f, i + 1)
  BY <1>3
<1>6. QED
  BY <1>2, <1>3, <1>4, <1>5 DEF S!Read, S!FallsShort, Open

LEMMA ReadElsewhere ==
  ASSUME NEW f, IsHardwareFile(f), NEW s, Open(s), RecordAt(f, s.at) = {}
  PROVE  AfterAccess(f, s) = [s EXCEPT !.fail = TRUE, !.eof = TRUE]
<1>1. s.at \in Nat /\ FileSize(f) \in Nat
  BY FileFacts DEF Open, S!Streams
<1>2. s.at + (FileSize(f) + 1) > FileSize(f)
  BY <1>1
<1>3. QED
  BY <1>2 DEF AfterAccess, S!Read, S!FallsShort, Open

LEMMA ReadFailed ==
  ASSUME NEW f, NEW s, s.fail \/ s.eof
  PROVE  AfterAccess(f, s) = s
BY DEF AfterAccess, S!Read

-----------------------------------------------------------------------------
(* Types.                                                                  *)

LEMMA AccessType ==
  ASSUME NEW f, IsHardwareFile(f), NEW s
  PROVE  AccessRead(f, s) \in Accesses
<1>1. ZeroAccess \in Accesses /\ Garbled \in Accesses
  BY DEF ZeroAccess, Garbled, Accesses
<1>2. \A i \in 1..AccessCount(f) : f.recs[i] \in Accesses
  BY FileFacts DEF AccessCount
<1>3. RecordAt(f, s.at) # {} =>
        f.recs[CHOOSE i \in RecordAt(f, s.at) : TRUE] \in Accesses
  BY <1>2 DEF RecordAt
<1>4. ASSUME s.at = EndOf(f), ~(s.at >= FileSize(f))
      PROVE  f.tail[1] \in Accesses
  BY <1>4, FileFacts
<1>5. QED
  BY <1>1, <1>3, <1>4 DEF AccessRead

LEMMA AfterType ==
  ASSUME NEW f, IsHardwareFile(f), NEW s \in S!Streams
  PROVE  AfterAccess(f, s) \in S!Streams
<1>1. CASE s.fail \/ s.eof
  BY <1>1, ReadFailed
<1>2. CASE Open(s) /\ RecordAt(f, s.at) = {}
  <2>1. AfterAccess(f, s) = [s EXCEPT !.fail = TRUE, !.eof = TRUE]
    BY <1>2, ReadElsewhere
  <2>2. [s EXCEPT !.fail = TRUE, !.eof = TRUE] \in S!Streams
    BY DEF S!Streams
  <2>3. QED
    BY <2>1, <2>2
<1>3. CASE Open(s) /\ RecordAt(f, s.at) # {}
  <2>1. PICK i \in 1..AccessCount(f) : StartOf(f, i) = s.at
    BY <1>3 DEF RecordAt
  <2>2. AfterAccess(f, s) = [s EXCEPT !.at = StartOf(f, i + 1)]
    BY <1>3, <2>1, ReadAtRecord
  <2>3. StartOf(f, i + 1) \in Nat
    BY FileFacts
  <2>4. QED
    BY <2>2, <2>3 DEF S!Streams
<1>4. QED
  BY <1>1, <1>2, <1>3 DEF Open

Offsets == Nat \cup {-1}

LEMMA SeekType ==
  ASSUME NEW s \in S!Streams, NEW to \in Offsets
  PROVE  /\ S!Seek(s, to) \in S!Streams
         /\ S!Seek(s, to).isOpen = s.isOpen
         /\ S!Seek(s, to).fail <=> ~(s.isOpen /\ to >= 0)
         /\ S!Seek(s, to).eof <=> ~s.isOpen
         /\ ~S!Seek(s, to).fail => S!Seek(s, to).at = to
<1>1. CASE s.isOpen /\ to >= 0
  <2>1. S!Seek(s, to) = [s EXCEPT !.at = to, !.fail = FALSE, !.eof = FALSE]
    BY <1>1 DEF S!Seek, S!Streams
  <2>2. to \in Nat
    BY <1>1 DEF Offsets
  <2>3. S!Seek(s, to) \in S!Streams
    BY <2>1, <2>2 DEF S!Streams
  <2>4. /\ S!Seek(s, to).at = to /\ S!Seek(s, to).isOpen = s.isOpen
        /\ S!Seek(s, to).fail = FALSE /\ S!Seek(s, to).eof = FALSE
    BY <2>1 DEF S!Streams
  <2>5. QED
    BY <1>1, <2>3, <2>4
<1>2. CASE ~(s.isOpen /\ to >= 0)
  <2>1. S!Seek(s, to) = [s EXCEPT !.at = s.at, !.fail = TRUE, !.eof = ~s.isOpen]
    BY <1>2 DEF S!Seek, S!Streams
  <2>2. S!Seek(s, to) \in S!Streams
    BY <2>1 DEF S!Streams
  <2>3. /\ S!Seek(s, to).isOpen = s.isOpen
        /\ S!Seek(s, to).fail = TRUE /\ S!Seek(s, to).eof = ~s.isOpen
    BY <2>1 DEF S!Streams
  <2>4. QED
    BY <1>2, <2>2, <2>3
<1>3. QED
  BY <1>1, <1>2

LEMMA PosType ==
  ASSUME NEW s \in S!Streams
  PROVE  S!Pos(s) \in Offsets
BY DEF S!Pos, S!Streams, Offsets

LEMMA NextType ==
  ASSUME NEW f, IsHardwareFile(f), NEW R \in Reader
  PROVE  NextOf(f, R) \in Reader
<1>1. R.stream \in S!Streams /\ R.current \in Accesses /\ R.position \in Nat
  BY DEF Reader
<1>2. [R.current EXCEPT !.tsc = 0] \in Accesses
  BY <1>1 DEF Accesses
<1>3. S!Pos(R.stream) \in Offsets
  BY <1>1, PosType
<1>4. AfterAccess(f, R.stream) \in S!Streams /\ AccessRead(f, R.stream) \in Accesses
  BY <1>1, AfterType, AccessType
<1>5. CASE R.stream.eof
  <2>1. NextOf(f, R) = [R EXCEPT !.lastRead = S!Pos(R.stream),
                                 !.current = [R.current EXCEPT !.tsc = 0]]
    BY <1>5 DEF NextOf, Reader
  <2>2. QED
    BY <1>2, <1>3, <2>1 DEF Reader, Offsets
<1>6. CASE ~R.stream.eof
  BY <1>1, <1>3, <1>4, <1>6 DEF NextOf, Reader, Offsets
<1>7. QED
  BY <1>5, <1>6

\* load of a good file stands where the first record starts, or where the file
\* ends.
LoadedAt(offset) ==
  [isOpen |-> TRUE, opened |-> TRUE, at |-> offset, fail |-> FALSE, eof |-> FALSE]

LEMMA LoadedStream ==
  ASSUME NEW f, IsHardwareFile(f)
  PROVE  S!Read(S!Load(TRUE), HeaderSize, FileSize(f)) = LoadedAt(HeaderSize)
<1>1. S!Load(TRUE) = LoadedAt(0)
  BY DEF S!Load, LoadedAt
<1>2. FileSize(f) \in Nat /\ FileSize(f) >= HeaderSize
  <2>1. /\ AccessCount(f) \in Nat /\ EndOf(f) \in Nat /\ Len(f.tail) \in {0, 1}
        /\ FileSize(f) = EndOf(f) + Len(f.tail)
    BY FileFacts
  <2>2. EndOf(f) >= HeaderSize
    <3>1. CASE AccessCount(f) = 0
      BY <3>1 DEF EndOf, StartOf, HeaderSize
    <3>2. CASE AccessCount(f) > 0
      <4>1. 1 < AccessCount(f) + 1 /\ StartOf(f, 1) = HeaderSize
        BY <2>1, <3>2 DEF StartOf
      <4>2. StartOf(f, 1) < StartOf(f, AccessCount(f) + 1)
        BY <2>1, <4>1 DEF IsHardwareFile
      <4>3. QED
        BY <2>1, <4>1, <4>2 DEF EndOf, HeaderSize
    <3>3. QED
      BY <2>1, <3>1, <3>2
  <2>3. QED
    BY <2>1, <2>2 DEF HeaderSize
<1>3. ~S!FallsShort(LoadedAt(0), HeaderSize, FileSize(f))
  BY <1>2 DEF S!FallsShort, LoadedAt, HeaderSize
<1>4. S!Read(LoadedAt(0), HeaderSize, FileSize(f))
        = [LoadedAt(0) EXCEPT !.at = LoadedAt(0).at + HeaderSize]
  BY <1>3 DEF S!Read, LoadedAt
<1>5. LoadedAt(0).at + HeaderSize = HeaderSize
  BY DEF LoadedAt, HeaderSize
<1>6. QED
  BY <1>1, <1>4, <1>5 DEF LoadedAt

LEMMA LoadedType == LoadedAt(HeaderSize) \in S!Streams
BY DEF LoadedAt, S!Streams, HeaderSize

LEMMA LoadType ==
  ASSUME NEW f, IsHardwareFile(f), NEW R \in Reader
  PROVE  LoadOf(f, R) \in Reader
<1>1. S!Load(TRUE) \in S!Streams /\ S!Load(FALSE) \in S!Streams
  BY DEF S!Load, S!Streams
<1>2. S!Close(S!Load(TRUE)) \in S!Streams
  BY <1>1 DEF S!Close, S!Streams
<1>3. S!Read(S!Load(TRUE), HeaderSize, FileSize(f)) \in S!Streams
  BY LoadedStream, LoadedType
<1>4. f.kind \in {"good", "absent", "short", "rejected"}
  BY DEF IsHardwareFile, HardwareFiles
<1> DEFINE stream == CASE f.kind = "absent" -> S!Load(FALSE)
                       [] f.kind = "good"   -> S!Read(S!Load(TRUE), HeaderSize, FileSize(f))
                       [] OTHER             -> S!Close(S!Load(TRUE))
<1>5. stream \in S!Streams
  BY <1>1, <1>2, <1>3, <1>4
<1>6. S!Pos(stream) \in Offsets
  BY <1>5, PosType
<1> DEFINE lastRead == IF f.kind = "good" THEN S!Pos(stream) ELSE R.lastRead
<1>7. LoadOf(f, R) = [R EXCEPT !.stream = stream, !.position = 0, !.lastRead = lastRead]
  BY DEF LoadOf
<1>8. lastRead \in Offsets
  BY <1>6 DEF Reader, Offsets
<1> HIDE DEF stream, lastRead
<1>9. LoadOf(f, R) = [stream |-> stream, current |-> R.current,
                      lastRead |-> lastRead, position |-> 0]
  BY <1>7 DEF Reader
<1>10. QED
  BY <1>5, <1>8, <1>9 DEF Reader, Offsets

\* What advance_to has before it calls next.
Sought(R, offset, p) ==
  [R EXCEPT !.stream = S!Seek(@, offset), !.position = IF p = 0 THEN 0 ELSE p - 1]

LEMMA AdvanceIsNext ==
  ASSUME NEW f, NEW R, NEW offset, NEW p
  PROVE  AdvanceOf(f, R, offset, p) =
           IF p = 0 THEN Sought(R, offset, p) ELSE NextOf(f, Sought(R, offset, p))
BY DEF AdvanceOf, Sought

LEMMA SoughtType ==
  ASSUME NEW R \in Reader, NEW offset \in Offsets, NEW p \in Nat
  PROVE  Sought(R, offset, p) \in Reader
<1>1. S!Seek(R.stream, offset) \in S!Streams
  BY SeekType DEF Reader
<1>2. (IF p = 0 THEN 0 ELSE p - 1) \in Nat
  OBVIOUS
<1>3. QED
  BY <1>1, <1>2 DEF Sought, Reader

LEMMA AdvanceType ==
  ASSUME NEW f, IsHardwareFile(f), NEW R \in Reader, NEW offset \in Offsets, NEW p \in Nat
  PROVE  AdvanceOf(f, R, offset, p) \in Reader
BY AdvanceIsNext, SoughtType, NextType

LEMMA SyncType ==
  ASSUME NEW R \in Reader, NEW Q \in Reader
  PROVE  SyncOf(R, Q) \in Reader
<1>1. S!Seek(R.stream, S!Pos(Q.stream)) \in S!Streams
  BY SeekType, PosType DEF Reader
<1>2. QED
  BY <1>1 DEF SyncOf, Reader

-----------------------------------------------------------------------------
(* Reading a file from its start: the items, one by one.                   *)

LEMMA ItemFacts ==
  ASSUME NEW f, IsHardwareFile(f)
  PROVE  /\ Items(f) \in Seq(Accesses)
         /\ Len(Items(f)) \in {AccessCount(f), AccessCount(f) + 1}
         /\ \A i \in 1..AccessCount(f) : Items(f)[i] = f.recs[i]
         /\ Len(Items(f)) = AccessCount(f) + 1 <=> Len(f.tail) = 1 /\ Valid(f.tail[1])
         /\ Len(Items(f)) = AccessCount(f) + 1 => Items(f)[AccessCount(f) + 1] = f.tail[1]
<1>1. /\ f.recs \in Seq(Accesses) /\ f.tail \in Seq(Accesses)
      /\ AccessCount(f) \in Nat /\ Len(f.tail) \in {0, 1} /\ AccessCount(f) = Len(f.recs)
  BY FileFacts DEF AccessCount
<1>2. CASE Len(f.tail) = 1 /\ Valid(f.tail[1])
  <2>0. f.tail # <<>> /\ f.tail[1] \in Accesses
    BY <1>1, <1>2
  <2>1. Items(f) = Append(f.recs, f.tail[1])
    BY <1>2, <2>0 DEF Items
  <2>2. Len(Items(f)) = AccessCount(f) + 1 /\ Items(f) \in Seq(Accesses)
    BY <1>1, <2>0, <2>1
  <2>3. \A i \in 1..AccessCount(f) : Items(f)[i] = f.recs[i]
    BY <1>1, <2>1
  <2>4. Items(f)[AccessCount(f) + 1] = f.tail[1]
    BY <1>1, <2>1
  <2>5. QED
    BY <1>2, <2>2, <2>3, <2>4
<1>3. CASE ~(Len(f.tail) = 1 /\ Valid(f.tail[1]))
  <2>1. f.tail # <<>> => Len(f.tail) = 1
    BY <1>1
  <2>2. Items(f) = f.recs
    BY <1>3, <2>1 DEF Items
  <2>3. QED
    BY <1>1, <1>3, <2>2
<1>4. QED
  BY <1>2, <1>3

\* The stream stands behind the record whose number is the position.
AtRecord(f, R) ==
  /\ R.stream.isOpen /\ ~R.stream.fail /\ ~R.stream.eof
  /\ R.position \in 0..AccessCount(f)
  /\ R.stream.at = StartOf(f, R.position + 1)

\* A reader that has read n items since load, and nothing else.
HasRead(f, R, n) ==
  IF f.kind = "good"
  THEN /\ n \in 0..Len(Items(f)) /\ R.position = n
       /\ IF n <= AccessCount(f) THEN AtRecord(f, R) ELSE R.stream.fail
  ELSE n = 0 /\ (R.stream.fail \/ R.stream.eof)

LEMMA LoadHasRead ==
  ASSUME NEW f, IsHardwareFile(f), NEW R \in Reader
  PROVE  HasRead(f, LoadOf(f, R), 0)
<1>1. CASE f.kind = "good"
  <2>1. LoadOf(f, R).stream = LoadedAt(HeaderSize) /\ LoadOf(f, R).position = 0
    BY <1>1, LoadedStream DEF LoadOf, Reader
  <2>2. StartOf(f, 0 + 1) = HeaderSize /\ AccessCount(f) \in Nat /\ Len(Items(f)) \in Nat
    BY FileFacts, ItemFacts DEF StartOf
  <2>3. AtRecord(f, LoadOf(f, R))
    BY <2>1, <2>2 DEF AtRecord, LoadedAt
  <2> QED
    BY <1>1, <2>1, <2>2, <2>3 DEF HasRead
<1>2. CASE f.kind # "good"
  <2>1. S!Load(FALSE).fail /\ S!Close(S!Load(TRUE)).eof
    BY DEF S!Load, S!Close
  <2>2. LoadOf(f, R).stream \in {S!Load(FALSE), S!Close(S!Load(TRUE))}
    BY <1>2 DEF LoadOf, Reader
  <2> QED
    BY <1>2, <2>1, <2>2 DEF HasRead
<1> QED
  BY <1>1, <1>2

\* A stream that cannot be read gives nothing.
LEMMA NothingRead ==
  ASSUME NEW f, NEW R \in Reader, R.stream.fail \/ R.stream.eof
  PROVE  ~Valid(NextOf(f, R).current)
BY DEF NextOf, Reader, AccessRead, Valid, ZeroAccess, Accesses

\* next gives the items in their order; what is not valid is none, or ends them.
LEMMA NextReads ==
  ASSUME NEW f, IsHardwareFile(f), NEW R \in Reader, NEW n, HasRead(f, R, n)
  PROVE  /\ Valid(NextOf(f, R).current) =>
              /\ f.kind = "good" /\ n + 1 \in 1..Len(Items(f))
              /\ NextOf(f, R).current = Items(f)[n + 1]
              /\ NextOf(f, R).position = n + 1
              /\ HasRead(f, NextOf(f, R), n + 1)
         /\ ~Valid(NextOf(f, R).current) /\ f.kind = "good" /\ n < Len(Items(f)) =>
              ~Valid(Items(f)[n + 1])
<1> DEFINE Q == NextOf(f, R)
           s == R.stream
<1>1. CASE f.kind # "good"
  BY <1>1, NothingRead DEF HasRead
<1> SUFFICES ASSUME f.kind = "good"
             PROVE  /\ Valid(Q.current) =>
                         /\ n + 1 \in 1..Len(Items(f)) /\ Q.current = Items(f)[n + 1]
                         /\ Q.position = n + 1 /\ HasRead(f, Q, n + 1)
                    /\ ~Valid(Q.current) /\ n < Len(Items(f)) => ~Valid(Items(f)[n + 1])
  BY <1>1
<1>2. /\ AccessCount(f) \in Nat /\ Len(Items(f)) \in {AccessCount(f), AccessCount(f) + 1}
      /\ n \in 0..Len(Items(f)) /\ R.position = n /\ s \in S!Streams
  BY ItemFacts, FileFacts DEF HasRead, Reader
<1>3. CASE n > AccessCount(f)
  <2>1. ~Valid(Q.current) /\ n = Len(Items(f))
    BY <1>2, <1>3, NothingRead DEF HasRead
  <2> QED
    BY <2>1
<1>4. CASE n <= AccessCount(f)
  <2>1. AtRecord(f, R) /\ Open(s) /\ s.at = StartOf(f, n + 1)
    BY <1>2, <1>4 DEF HasRead, AtRecord, Open
  <2>2. /\ Q.stream = AfterAccess(f, s) /\ Q.current = AccessRead(f, s)
        /\ Q.position = n + 1
    BY <1>2, <2>1 DEF NextOf, Open
  <2>3. CASE n < AccessCount(f)
    <3>1. n + 1 \in 1..AccessCount(f) /\ (n + 1) + 1 = n + 2
      BY <1>2, <2>3
    <3>2. /\ AccessRead(f, s) = f.recs[n + 1]
          /\ AfterAccess(f, s) = [s EXCEPT !.at = StartOf(f, n + 2)]
      BY <2>1, <3>1, ReadAtRecord
    <3>3. Q.stream.isOpen /\ ~Q.stream.fail /\ ~Q.stream.eof /\ Q.stream.at = StartOf(f, n + 2)
      BY <1>2, <2>1, <2>2, <3>2 DEF S!Streams, Open, AtRecord
    <3> HIDE DEF Q
    <3>4. AtRecord(f, Q)
      BY <2>2, <3>1, <3>3 DEF AtRecord
    <3>5. Q.current = Items(f)[n + 1] /\ n + 1 \in 1..Len(Items(f))
      BY <1>2, <2>2, <3>1, <3>2, ItemFacts
    <3>6. HasRead(f, Q, n + 1)
      BY <1>2, <2>2, <3>1, <3>4, <3>5 DEF HasRead
    <3> QED
      BY <2>2, <3>5, <3>6
  <2>4. CASE n = AccessCount(f)
    <3>1. s.at = EndOf(f) /\ RecordAt(f, s.at) = {}
      BY <2>1, <2>4, NoRecordAtEnd DEF EndOf
    <3>2. AfterAccess(f, s) = [s EXCEPT !.fail = TRUE, !.eof = TRUE]
      BY <2>1, <3>1, ReadElsewhere
    <3>3. Q.stream.fail
      BY <1>2, <2>2, <3>2 DEF S!Streams
    <3>4. /\ f.tail \in Seq(Accesses) /\ Len(f.tail) \in {0, 1}
          /\ FileSize(f) = EndOf(f) + Len(f.tail) /\ EndOf(f) \in Nat
      BY FileFacts
    <3>5. AccessRead(f, s) = IF Len(f.tail) = 0 THEN ZeroAccess ELSE f.tail[1]
      BY <2>1, <3>1, <3>4 DEF AccessRead, Open
    <3>6. Valid(Q.current) => Len(f.tail) = 1 /\ Q.current = f.tail[1]
      BY <2>2, <3>4, <3>5 DEF Valid, ZeroAccess
    <3>7. ~Valid(Q.current) => n = Len(Items(f))
      BY <1>2, <2>2, <2>4, <3>4, <3>5, ItemFacts
    <3> HIDE DEF Q
    <3>8. Valid(Q.current) => Len(Items(f)) = n + 1 /\ Q.current = Items(f)[n + 1]
      BY <2>4, <3>6, ItemFacts
    <3>9. Valid(Q.current) => HasRead(f, Q, n + 1)
      BY <1>2, <2>2, <2>4, <3>3, <3>8 DEF HasRead
    <3> QED
      BY <1>2, <2>2, <3>7, <3>8, <3>9
  <2> QED
    BY <1>2, <1>4, <2>3, <2>4
<1> QED
  BY <1>2, <1>3, <1>4

\* Who meets an item that is not valid, or the end, has counted the valid ones.
LEMMA ValidCountIs ==
  ASSUME NEW f, IsHardwareFile(f), NEW n \in 0..Len(Items(f)),
         \A i \in 1..n : Valid(Items(f)[i]),
         n < Len(Items(f)) => ~Valid(Items(f)[n + 1])
  PROVE  ValidCount(f) = n
<1> DEFINE Counts(m) == /\ \A i \in 1..m : Valid(Items(f)[i])
                        /\ m < Len(Items(f)) => ~Valid(Items(f)[m + 1])
           v == ValidCount(f)
<1>1. Len(Items(f)) \in Nat
  BY ItemFacts
<1>2. v \in 0..Len(Items(f)) /\ Counts(v)
  BY Counts(n) DEF ValidCount
<1>3. Counts(n)
  OBVIOUS
<1> HIDE DEF v
<1>4. ~(v < n)
  <2> SUFFICES ASSUME v < n PROVE FALSE
    OBVIOUS
  <2>1. v + 1 \in 1..n /\ v < Len(Items(f))
    BY <1>1, <1>2
  <2> QED
    BY <1>2, <1>3, <2>1
<1>5. ~(n < v)
  <2> SUFFICES ASSUME n < v PROVE FALSE
    OBVIOUS
  <2>1. n + 1 \in 1..v /\ n < Len(Items(f))
    BY <1>1, <1>2
  <2> QED
    BY <1>2, <1>3, <2>1
<1> QED
  BY <1>1, <1>2, <1>4, <1>5 DEF v
=============================================================================
