------------------------- MODULE HardwareReadersProofs -------------------------
(***************************************************************************)
(* Proofs about the readers of hardware accesses, for every file, any      *)
(* number of readers and whatever bounds: they have their types, a stream  *)
(* that can be read stands where a record starts, and for a careful client *)
(* they implement cursors on the sequence of accesses.                     *)
(***************************************************************************)
EXTENDS HardwareReaders, HardwareFileProofs

-----------------------------------------------------------------------------
(* Types.                                                                  *)

\* A reader that is given another value, and one that is not.
LEMMA SetReader ==
  ASSUME TypeOK, NEW r \in Readers, NEW reader, NEW telling, Set(r, reader, telling)
  PROVE  /\ readers'[r] = reader /\ told'[r] = telling
         /\ \A q \in Readers \ {r} : readers'[q] = readers[q] /\ told'[q] = told[q]
         /\ file' = file /\ saved' = saved
BY DEF Set, TypeOK

LEMMA FileIs ==
  ASSUME TypeOK
  PROVE  /\ IsHardwareFile(file) /\ file.kind = "good"
         /\ \A f \in {file} \cup Broken : IsHardwareFile(f)
BY FilesAssumption DEF TypeOK

LEMMA SetType ==
  ASSUME TypeOK, NEW r \in Readers, NEW reader \in Reader, NEW telling \in Tellings,
         Set(r, reader, telling) \/ Call(r, reader, telling)
  PROVE  TypeOK'
BY DEF TypeOK, Set, Call, Tellings

LEMMA InitType == Init => TypeOK
<1>1. \A o \in BOOLEAN : NewReader(o) \in Reader
  BY DEF NewReader, Reader, S!Unopened, S!Streams, ZeroAccess, Accesses
<1>2. QED
  BY <1>1 DEF Init, TypeOK, Tellings, Marks

LEMMA TypeStep == TypeOK /\ [Next]_vars => TypeOK'
<1> SUFFICES ASSUME TypeOK, [Next]_vars PROVE TypeOK'
  OBVIOUS
<1>1. CASE UNCHANGED vars
  BY <1>1 DEF vars, TypeOK
<1>2. ASSUME NEW r \in Readers, NEW f \in {file} \cup Broken, LoadFile(r, f) PROVE TypeOK'
  <2>1. LoadOf(f, readers[r]) \in Reader
    BY FileIs, LoadType DEF TypeOK
  <2>2. QED
    BY <1>2, <2>1, SetType DEF LoadFile, Tellings
<1>3. ASSUME NEW r \in Readers, ReadNext(r) PROVE TypeOK'
  <2>1. NextOf(file, readers[r]) \in Reader
    BY FileIs, NextType DEF TypeOK
  <2>2. QED
    BY <1>3, <2>1, SetType DEF ReadNext, Validity, Tellings
<1>4. ASSUME NEW r \in Readers, NEW mark \in saved, AdvanceTo(r, mark) PROVE TypeOK'
  <2>1. AdvanceOf(file, readers[r], mark.at, mark.position) \in Reader
    BY FileIs, AdvanceType DEF TypeOK, Marks, Offsets
  <2>2. QED
    BY <1>4, <2>1, SetType DEF AdvanceTo, Validity, Tellings
<1>5. ASSUME NEW r \in Readers, NEW other \in Readers, SyncWith(r, other) PROVE TypeOK'
  <2>1. SyncOf(readers[r], readers[other]) \in Reader
    BY SyncType DEF TypeOK
  <2>2. QED
    BY <1>5, <2>1, SetType DEF SyncWith, Tellings
<1>6. ASSUME NEW r \in Readers, Save(r) PROVE TypeOK'
  <2>1. [at |-> readers[r].lastRead, position |-> readers[r].position,
         fresh |-> told[r] \in {"valid", "invalid"}, shown |-> readers[r].current] \in Marks
    BY DEF TypeOK, Reader, Marks
  <2>2. QED
    BY <1>6, <2>1 DEF Save, TypeOK
<1>7. QED
  BY <1>1, <1>2, <1>3, <1>4, <1>5, <1>6 DEF Next

\* Every reader, and every pair noted down, has its type.
THEOREM TypesHold == Spec => []TypeOK
<1>1. Init => TypeOK
  BY InitType
<1>2. TypeOK /\ [Next]_vars => TypeOK'
  BY TypeStep
<1>3. QED
  BY <1>1, <1>2, PTL DEF Spec

-----------------------------------------------------------------------------
(* Where streams stand. A stream that can be read stands at a boundary,    *)
(* and so do the offsets that readers in use give and that were noted down;*)
(* the other offset is the -1 of a stream that failed.                     *)

OnBoundary(f) == Boundaries(f) \cup {-1}

Stands(f, R) == R.stream.isOpen /\ ~R.stream.fail => R.stream.at \in Boundaries(f)

Standing ==
  /\ \A r \in Readers : Stands(file, readers[r])
  /\ \A r \in Readers : InUse(r) => readers[r].lastRead \in OnBoundary(file)
  /\ \A mark \in saved : mark.at \in OnBoundary(file)

LEMMA BoundaryFacts ==
  ASSUME NEW f, IsHardwareFile(f)
  PROVE  /\ HeaderSize \in Boundaries(f)
         /\ \A i \in 1..AccessCount(f) : StartOf(f, i + 1) \in Boundaries(f)
         /\ OnBoundary(f) \subseteq Offsets
<1>1. AccessCount(f) \in Nat /\ \A i \in 1..(AccessCount(f) + 1) : StartOf(f, i) \in Nat
  BY FileFacts
<1>2. 1 \in 1..(AccessCount(f) + 1) /\ StartOf(f, 1) = HeaderSize
  BY <1>1 DEF StartOf
<1>3. \A i \in 1..AccessCount(f) : i + 1 \in 1..(AccessCount(f) + 1)
  BY <1>1
<1>4. QED
  BY <1>1, <1>2, <1>3 DEF Boundaries, OnBoundary, Offsets

\* A read of an open stream starts and ends at a boundary, or fails.
LEMMA NextStands ==
  ASSUME NEW f, IsHardwareFile(f), NEW R \in Reader, Stands(f, R)
  PROVE  Stands(f, NextOf(f, R)) /\ NextOf(f, R).lastRead \in OnBoundary(f)
<1>1. NextOf(f, R).lastRead = S!Pos(R.stream)
  BY DEF NextOf, Reader
<1>2. S!Pos(R.stream) \in OnBoundary(f)
  BY DEF S!Pos, Stands, OnBoundary
<1>3. NextOf(f, R).stream = IF R.stream.eof THEN R.stream ELSE AfterAccess(f, R.stream)
  BY DEF NextOf, Reader
<1>4. R.stream \in S!Streams
  BY DEF Reader
<1>5. CASE R.stream.eof \/ R.stream.fail
  BY <1>1, <1>2, <1>3, <1>5, ReadFailed DEF Stands
<1>6. CASE Open(R.stream) /\ RecordAt(f, R.stream.at) = {}
  <2>1. AfterAccess(f, R.stream) = [R.stream EXCEPT !.fail = TRUE, !.eof = TRUE]
    BY <1>6, ReadElsewhere
  <2>2. NextOf(f, R).stream.fail
    BY <1>3, <1>4, <1>6, <2>1 DEF Open, S!Streams
  <2>3. QED
    BY <1>1, <1>2, <2>2 DEF Stands
<1>7. CASE Open(R.stream) /\ RecordAt(f, R.stream.at) # {}
  <2>1. PICK i \in 1..AccessCount(f) : StartOf(f, i) = R.stream.at
    BY <1>7 DEF RecordAt
  <2>2. AfterAccess(f, R.stream) = [R.stream EXCEPT !.at = StartOf(f, i + 1)]
    BY <1>7, <2>1, ReadAtRecord
  <2>3. NextOf(f, R).stream.at = StartOf(f, i + 1)
    BY <1>3, <1>4, <1>7, <2>2 DEF Open, S!Streams
  <2>4. QED
    BY <1>1, <1>2, <2>3, BoundaryFacts DEF Stands
<1>8. QED
  BY <1>4, <1>5, <1>6, <1>7 DEF Open

LEMMA SeekStands ==
  ASSUME NEW f, IsHardwareFile(f), NEW s \in S!Streams, NEW to \in OnBoundary(f),
         ~S!Seek(s, to).fail
  PROVE  S!Seek(s, to).at \in Boundaries(f)
<1>1. to \in Offsets
  BY BoundaryFacts
<1>2. S!Seek(s, to).at = to /\ to >= 0
  BY <1>1, SeekType
<1>3. QED
  BY <1>2 DEF OnBoundary

LEMMA LoadStands ==
  ASSUME NEW f, IsHardwareFile(f), NEW g, IsHardwareFile(g), NEW R \in Reader
  PROVE  /\ Stands(g, LoadOf(f, R))
         /\ f.kind = "good" => LoadOf(f, R).lastRead = HeaderSize
<1>1. CASE f.kind = "good"
  <2>1. LoadOf(f, R).stream = LoadedAt(HeaderSize)
    BY <1>1, LoadedStream DEF LoadOf, Reader
  <2>2. LoadOf(f, R).lastRead = S!Pos(LoadedAt(HeaderSize))
    BY <1>1, LoadedStream DEF LoadOf, Reader
  <2>3. S!Pos(LoadedAt(HeaderSize)) = HeaderSize /\ LoadedAt(HeaderSize).at = HeaderSize
    BY DEF LoadedAt, S!Pos
  <2>4. QED
    BY <2>1, <2>2, <2>3, BoundaryFacts DEF Stands
<1>2. CASE f.kind # "good"
  <2>1. ~S!Load(FALSE).isOpen /\ ~S!Close(S!Load(TRUE)).isOpen
    BY DEF S!Load, S!Close
  <2>2. LoadOf(f, R).stream \in {S!Load(FALSE), S!Close(S!Load(TRUE))}
    BY <1>2 DEF LoadOf, Reader
  <2>3. QED
    BY <1>2, <2>1, <2>2 DEF Stands
<1>3. QED
  BY <1>1, <1>2

LEMMA SoughtStands ==
  ASSUME NEW f, IsHardwareFile(f), NEW R \in Reader, NEW offset \in OnBoundary(f), NEW p \in Nat
  PROVE  Stands(f, Sought(R, offset, p)) /\ Sought(R, offset, p).lastRead = R.lastRead
<1>1. Sought(R, offset, p).stream = S!Seek(R.stream, offset) /\ R.stream \in S!Streams
      /\ Sought(R, offset, p).lastRead = R.lastRead
  BY DEF Sought, Reader
<1>2. QED
  BY <1>1, SeekStands DEF Stands

\* A call on a reader, which then stands at a boundary, keeps the others.
LEMMA SetStanding ==
  ASSUME TypeOK, Standing, NEW r \in Readers, NEW reader, NEW telling,
         Set(r, reader, telling),
         Stands(file, reader),
         telling # "unloaded" => reader.lastRead \in OnBoundary(file)
  PROVE  Standing'
<1>1. /\ readers'[r] = reader /\ told'[r] = telling
      /\ \A q \in Readers \ {r} : readers'[q] = readers[q] /\ told'[q] = told[q]
      /\ file' = file /\ saved' = saved
  BY SetReader
<1>2. QED
  BY <1>1 DEF Standing, InUse

LEMMA StandingStep == TypeOK /\ Standing /\ [Next]_vars => Standing'
<1> SUFFICES ASSUME TypeOK, Standing, [Next]_vars PROVE Standing'
  OBVIOUS
<1>1. CASE UNCHANGED vars
  BY <1>1 DEF vars, Standing, InUse
<1>2. ASSUME NEW r \in Readers, NEW f \in {file} \cup Broken, LoadFile(r, f) PROVE Standing'
  <2> DEFINE telling == IF f.kind = "good" THEN "loaded" ELSE "unloaded"
  <2>1. IsHardwareFile(f) /\ IsHardwareFile(file) /\ readers[r] \in Reader
    BY FileIs DEF TypeOK
  <2>2. /\ Stands(file, LoadOf(f, readers[r]))
        /\ telling # "unloaded" => LoadOf(f, readers[r]).lastRead = HeaderSize
    BY <2>1, LoadStands
  <2>3. HeaderSize \in OnBoundary(file)
    BY <2>1, BoundaryFacts DEF OnBoundary
  <2>4. Set(r, LoadOf(f, readers[r]), telling)
    BY <1>2 DEF LoadFile
  <2> HIDE DEF telling
  <2>5. QED
    BY <2>2, <2>3, <2>4, SetStanding
<1>3. ASSUME NEW r \in Readers, ReadNext(r) PROVE Standing'
  <2>1. IsHardwareFile(file) /\ readers[r] \in Reader /\ Stands(file, readers[r])
    BY FileIs DEF TypeOK, Standing
  <2>2. /\ Stands(file, NextOf(file, readers[r]))
        /\ NextOf(file, readers[r]).lastRead \in OnBoundary(file)
    BY <2>1, NextStands
  <2>3. \E telling : Set(r, NextOf(file, readers[r]), telling)
    BY <1>3 DEF ReadNext, Call
  <2>4. QED
    BY <2>2, <2>3, SetStanding
<1>4. ASSUME NEW r \in Readers, NEW mark \in saved, AdvanceTo(r, mark) PROVE Standing'
  <2> DEFINE sought == Sought(readers[r], mark.at, mark.position)
             reader == AdvanceOf(file, readers[r], mark.at, mark.position)
  <2>1. /\ IsHardwareFile(file) /\ readers[r] \in Reader
        /\ mark.at \in OnBoundary(file) /\ mark.position \in Nat /\ mark.at \in Offsets
    BY FileIs DEF TypeOK, Standing, Marks, Offsets
  <2>2. Stands(file, sought) /\ sought.lastRead = readers[r].lastRead /\ sought \in Reader
    BY <2>1, SoughtStands, SoughtType
  <2>3. Stands(file, NextOf(file, sought)) /\ NextOf(file, sought).lastRead \in OnBoundary(file)
    BY <2>1, <2>2, NextStands
  <2>4. /\ Stands(file, reader)
        /\ InUse(r) => reader.lastRead \in OnBoundary(file)
    BY <2>2, <2>3, AdvanceIsNext DEF Standing
  <2>5. \E telling : /\ Set(r, reader, telling)
                     /\ telling # "unloaded" => InUse(r)
    BY <1>4 DEF AdvanceTo, Call
  <2> HIDE DEF reader, sought
  <2>6. QED
    BY <2>4, <2>5, SetStanding
<1>5. ASSUME NEW r \in Readers, NEW other \in Readers, SyncWith(r, other) PROVE Standing'
  <2> DEFINE to == S!Pos(readers[other].stream)
             reader == SyncOf(readers[r], readers[other])
  <2>1. /\ IsHardwareFile(file) /\ readers[r] \in Reader /\ readers[other] \in Reader
        /\ readers[r].stream \in S!Streams
    BY FileIs DEF TypeOK, Reader
  <2>2. to \in OnBoundary(file)
    BY <2>1 DEF S!Pos, Standing, Stands, OnBoundary
  <2>3. reader.stream = S!Seek(readers[r].stream, to) /\ reader.lastRead = readers[r].lastRead
    BY <2>1 DEF SyncOf, Reader
  <2>4. /\ Stands(file, reader)
        /\ InUse(r) => reader.lastRead \in OnBoundary(file)
    BY <2>1, <2>2, <2>3, SeekStands DEF Stands, Standing
  <2>5. \E telling : /\ Set(r, reader, telling)
                     /\ telling # "unloaded" => InUse(r)
    BY <1>5 DEF SyncWith, Call
  <2> HIDE DEF reader, to
  <2>6. QED
    BY <2>4, <2>5, SetStanding
<1>6. ASSUME NEW r \in Readers, Save(r) PROVE Standing'
  BY <1>6 DEF Save, Standing, InUse
<1>7. QED
  BY <1>1, <1>2, <1>3, <1>4, <1>5, <1>6 DEF Next

\* For every file and any number of readers: no call decodes an access from the
\* middle of another, whatever pairs are noted down and given back.
THEOREM ReadersStandAtRecords == Spec => []StandsAtARecord
<1>1. Init => Standing
  BY DEF Init, Standing, NewReader, S!Unopened, Stands, InUse
<1>2. TypeOK /\ Standing /\ [Next]_vars => Standing'
  BY StandingStep
<1>3. Standing => StandsAtARecord
  BY DEF Standing, Stands, StandsAtARecord, Readable
<1>4. QED
  BY <1>1, <1>2, <1>3, TypesHold, PTL DEF Spec

-----------------------------------------------------------------------------
(* What a pair gives. A read is a function of the offset, and the pair of a*)
(* reader that has just read holds the offset it read at: unless that is   *)
(* -1, when no access was read.                                            *)

AccessFrom(f, offset) == AccessRead(f, LoadedAt(offset))

\* The end is only seen by a read that fails, or on a closed file.
Ended(R) == R.stream.eof => R.stream.fail \/ ~R.stream.isOpen

Gives(f, offset, p, access) == offset >= 0 => p > 0 /\ access = AccessFrom(f, offset)

Giving ==
  /\ \A r \in Readers : Ended(readers[r])
  /\ \A r \in Readers : told[r] \in {"valid", "invalid"} =>
       Gives(file, readers[r].lastRead, readers[r].position, readers[r].current)
  /\ \A mark \in saved : mark.fresh => Gives(file, mark.at, mark.position, mark.shown)

LEMMA NextGives ==
  ASSUME NEW f, IsHardwareFile(f), NEW R \in Reader, Ended(R)
  PROVE  /\ Ended(NextOf(f, R))
         /\ Gives(f, NextOf(f, R).lastRead, NextOf(f, R).position, NextOf(f, R).current)
<1>1. R.stream \in S!Streams /\ R.position \in Nat
  BY DEF Reader
<1>2. NextOf(f, R).lastRead = S!Pos(R.stream)
  BY DEF NextOf, Reader
<1>3. CASE R.stream.eof \/ R.stream.fail
  <2>1. NextOf(f, R).stream = R.stream
    BY <1>3, ReadFailed DEF NextOf, Reader
  <2>2. S!Pos(R.stream) = -1 \/ ~R.stream.eof
    BY <1>3 DEF Ended, S!Pos
  <2>3. S!Pos(R.stream) = -1
    BY <1>3, <2>2 DEF S!Pos
  <2>4. QED
    BY <1>2, <2>1, <2>3 DEF Ended, Gives
<1>4. CASE Open(R.stream)
  <2>1. /\ NextOf(f, R).stream = AfterAccess(f, R.stream)
        /\ NextOf(f, R).current = AccessRead(f, R.stream)
        /\ NextOf(f, R).position = R.position + 1
    BY <1>4 DEF NextOf, Open
  <2>2. Ended(NextOf(f, R))
    <3>1. CASE RecordAt(f, R.stream.at) = {}
      <4>1. AfterAccess(f, R.stream) = [R.stream EXCEPT !.fail = TRUE, !.eof = TRUE]
        BY <1>4, <3>1, ReadElsewhere
      <4>2. AfterAccess(f, R.stream).fail
        BY <1>1, <4>1 DEF S!Streams
      <4>3. QED
        BY <2>1, <4>2 DEF Ended
    <3>2. CASE RecordAt(f, R.stream.at) # {}
      <4>1. PICK i \in 1..AccessCount(f) : StartOf(f, i) = R.stream.at
        BY <3>2 DEF RecordAt
      <4>2. AfterAccess(f, R.stream) = [R.stream EXCEPT !.at = StartOf(f, i + 1)]
        BY <1>4, <4>1, ReadAtRecord
      <4>3. ~AfterAccess(f, R.stream).eof
        BY <1>1, <1>4, <4>2 DEF S!Streams, Open
      <4>4. QED
        BY <2>1, <4>3 DEF Ended
    <3>3. QED
      BY <3>1, <3>2
  <2>3. ASSUME S!Pos(R.stream) >= 0
        PROVE  AccessRead(f, R.stream) = AccessFrom(f, S!Pos(R.stream))
    <3>1. S!Pos(R.stream) = R.stream.at
      BY <2>3 DEF S!Pos
    <3>2. ~R.stream.fail /\ LoadedAt(R.stream.at).at = R.stream.at /\ ~LoadedAt(R.stream.at).fail
      BY <1>4 DEF Open, LoadedAt
    <3>3. QED
      BY <3>1, <3>2 DEF AccessFrom, AccessRead
  <2>4. R.position + 1 > 0
    BY <1>1
  <2>5. QED
    BY <1>2, <2>1, <2>2, <2>3, <2>4 DEF Gives
<1>5. QED
  BY <1>1, <1>3, <1>4 DEF Open

LEMMA SeekEnded ==
  ASSUME NEW R \in Reader, NEW offset \in Offsets, NEW Q, Q.stream = S!Seek(R.stream, offset)
  PROVE  Ended(Q)
<1>1. R.stream \in S!Streams
  BY DEF Reader
<1>2. QED
  BY <1>1, SeekType DEF Ended

LEMMA SetGiving ==
  ASSUME TypeOK, Giving, NEW r \in Readers, NEW reader, NEW telling,
         Set(r, reader, telling),
         Ended(reader),
         telling \in {"valid", "invalid"} =>
           Gives(file, reader.lastRead, reader.position, reader.current)
  PROVE  Giving'
<1>1. /\ readers'[r] = reader /\ told'[r] = telling
      /\ \A q \in Readers \ {r} : readers'[q] = readers[q] /\ told'[q] = told[q]
      /\ file' = file /\ saved' = saved
  BY SetReader
<1>2. QED
  BY <1>1 DEF Giving

LEMMA GivingStep == TypeOK /\ Giving /\ [Next]_vars => Giving'
<1> SUFFICES ASSUME TypeOK, Giving, [Next]_vars PROVE Giving'
  OBVIOUS
<1>1. CASE UNCHANGED vars
  BY <1>1 DEF vars, Giving
<1>2. ASSUME NEW r \in Readers, NEW f \in {file} \cup Broken, LoadFile(r, f) PROVE Giving'
  <2> DEFINE reader == LoadOf(f, readers[r])
             telling == IF f.kind = "good" THEN "loaded" ELSE "unloaded"
  <2>1. IsHardwareFile(f) /\ readers[r] \in Reader
    BY FileIs DEF TypeOK
  <2>2. reader.stream \in {S!Load(FALSE), LoadedAt(HeaderSize), S!Close(S!Load(TRUE))}
    BY <2>1, LoadedStream DEF LoadOf, Reader
  <2>3. Set(r, reader, telling) /\ telling \notin {"valid", "invalid"}
    BY <1>2 DEF LoadFile
  <2> HIDE DEF reader, telling
  <2>4. Ended(reader)
    <3>1. S!Load(FALSE).fail /\ ~LoadedAt(HeaderSize).eof /\ ~S!Close(S!Load(TRUE)).isOpen
      BY DEF S!Load, S!Close, LoadedAt
    <3>2. QED
      BY <2>2, <3>1 DEF Ended
  <2>5. QED
    BY <2>3, <2>4, SetGiving
<1>3. ASSUME NEW r \in Readers, ReadNext(r) PROVE Giving'
  <2>1. IsHardwareFile(file) /\ readers[r] \in Reader /\ Ended(readers[r])
    BY FileIs DEF TypeOK, Giving
  <2>2. \E telling : Set(r, NextOf(file, readers[r]), telling)
    BY <1>3 DEF ReadNext, Call
  <2>3. QED
    BY <2>1, <2>2, NextGives, SetGiving
<1>4. ASSUME NEW r \in Readers, NEW mark \in saved, AdvanceTo(r, mark) PROVE Giving'
  <2> DEFINE sought == Sought(readers[r], mark.at, mark.position)
             reader == AdvanceOf(file, readers[r], mark.at, mark.position)
             telling == IF mark.position = 0 THEN "rewound" ELSE Validity(reader)
  <2>1. /\ IsHardwareFile(file) /\ readers[r] \in Reader
        /\ mark.at \in Offsets /\ mark.position \in Nat
    BY FileIs DEF TypeOK, Marks, Offsets
  <2>2. sought \in Reader /\ Ended(sought)
    BY <2>1, SoughtType, SeekEnded DEF Sought, Reader
  <2>3. /\ Ended(NextOf(file, sought))
        /\ Gives(file, NextOf(file, sought).lastRead, NextOf(file, sought).position,
                 NextOf(file, sought).current)
    BY <2>1, <2>2, NextGives
  <2>4. reader = IF mark.position = 0 THEN sought ELSE NextOf(file, sought)
    BY AdvanceIsNext
  <2>5. \E t : Set(r, reader, t) /\ t \in {telling, "unloaded"}
    BY <1>4 DEF AdvanceTo, Call
  <2>6. mark.position = 0 => telling = "rewound"
    OBVIOUS
  <2> HIDE DEF sought, reader, telling
  <2>7. QED
    BY <2>2, <2>3, <2>4, <2>5, <2>6, SetGiving
<1>5. ASSUME NEW r \in Readers, NEW other \in Readers, SyncWith(r, other) PROVE Giving'
  <2> DEFINE reader == SyncOf(readers[r], readers[other])
  <2>1. readers[r] \in Reader /\ readers[other] \in Reader
    BY DEF TypeOK
  <2>2. Ended(reader)
    BY <2>1, SeekEnded, PosType DEF SyncOf, Reader
  <2>3. \E t : Set(r, reader, t) /\ t \in {"synced", "unloaded"}
    BY <1>5 DEF SyncWith, Call
  <2> HIDE DEF reader
  <2>4. QED
    BY <2>2, <2>3, SetGiving
<1>6. ASSUME NEW r \in Readers, Save(r) PROVE Giving'
  <2> DEFINE mark == [at       |-> readers[r].lastRead,
                      position |-> readers[r].position,
                      fresh    |-> told[r] \in {"valid", "invalid"},
                      shown    |-> readers[r].current]
  <2>1. saved' = saved \cup {mark} /\ UNCHANGED <<file, readers, told>>
    BY <1>6 DEF Save
  <2>2. mark.fresh => Gives(file, mark.at, mark.position, mark.shown)
    BY DEF Giving
  <2> HIDE DEF mark
  <2>3. QED
    BY <2>1, <2>2 DEF Giving
<1>7. QED
  BY <1>1, <1>2, <1>3, <1>4, <1>5, <1>6 DEF Next

\* A pair noted down right after an access was read gives that access again, to
\* any reader that has the file open and whatever was done since.
THEOREM PairsGiveTheirAccess == Spec => RestoreRepeats
<1>1. Init => Giving
  BY DEF Init, Giving, NewReader, S!Unopened, Ended
<1>2. ASSUME TypeOK, Giving, NEW r \in Readers, NEW mark \in saved, AdvanceTo(r, mark),
             mark.fresh, mark.at >= 0, readers[r].stream.isOpen
      PROVE  /\ readers'[r].current = mark.shown
             /\ readers'[r].lastRead = mark.at
             /\ readers'[r].position = mark.position
  <2>1. /\ readers[r] \in Reader /\ mark.at \in Offsets /\ mark.position \in Nat
        /\ readers[r].stream \in S!Streams
    <3>1. readers[r] \in Reader /\ mark \in Marks
      BY <1>2 DEF TypeOK
    <3>2. QED
      BY <3>1 DEF Marks, Offsets, Reader
  <2> DEFINE sought == Sought(readers[r], mark.at, mark.position)
             s == sought.stream
  <2>2. mark.position > 0 /\ mark.shown = AccessFrom(file, mark.at)
    BY <1>2 DEF Giving, Gives
  <2>3. readers'[r] = NextOf(file, sought)
    BY <1>2, <2>1, <2>2, AdvanceIsNext, SetReader DEF AdvanceTo, Call
  <2>4. s = S!Seek(readers[r].stream, mark.at) /\ sought.position = mark.position - 1
    BY <2>1, <2>2 DEF Sought, Reader
  <2>5. s.isOpen /\ ~s.fail /\ ~s.eof /\ s.at = mark.at
    BY <1>2, <2>1, <2>4, SeekType
  <2> HIDE DEF sought
  <2>6. AccessRead(file, s) = AccessFrom(file, mark.at)
    <3>1. LoadedAt(mark.at).at = mark.at /\ ~LoadedAt(mark.at).fail
      BY DEF LoadedAt
    <3>2. QED
      BY <2>5, <3>1 DEF AccessFrom, AccessRead
  <2>7. S!Pos(s) = mark.at
    BY <2>5 DEF S!Pos
  <2>8. QED
    BY <2>1, <2>2, <2>3, <2>4, <2>5, <2>6, <2>7 DEF NextOf
<1>3. TypeOK /\ Giving /\ [Next]_vars =>
        [\A r \in Readers : \A mark \in saved :
           AdvanceTo(r, mark) /\ mark.fresh /\ mark.at >= 0 /\ readers[r].stream.isOpen =>
             /\ readers'[r].current = mark.shown
             /\ readers'[r].lastRead = mark.at
             /\ readers'[r].position = mark.position]_vars
  BY <1>2
<1>4. QED
  BY <1>1, <1>3, TypesHold, GivingStep, PTL DEF Spec, RestoreRepeats

\* On a stream that failed no call of next gives a valid access.
THEOREM TheEndIsFinal == Spec => EndIsFinal
<1>1. ASSUME TypeOK, NEW r \in Readers, ReadNext(r), readers[r].stream.fail
      PROVE  ~Valid(readers'[r].current)
  <2>1. readers[r] \in Reader
    BY <1>1 DEF TypeOK
  <2>2. readers'[r] = NextOf(file, readers[r])
    BY <1>1, SetReader DEF ReadNext, Call
  <2>3. readers[r].current \in Accesses
    BY <2>1 DEF Reader
  <2>4. CASE readers[r].stream.eof
    <3>1. readers'[r].current = [readers[r].current EXCEPT !.tsc = 0]
      BY <2>1, <2>2, <2>4 DEF NextOf, Reader
    <3>2. QED
      BY <2>3, <3>1 DEF Valid, Accesses
  <2>5. CASE ~readers[r].stream.eof
    BY <1>1, <2>2, <2>5 DEF NextOf, AccessRead, Valid, ZeroAccess
  <2>6. QED
    BY <2>4, <2>5
<1>2. TypeOK /\ [Next]_vars =>
        [\A r \in Readers :
           ReadNext(r) /\ readers[r].stream.fail => ~Valid(readers'[r].current)]_vars
  BY <1>1
<1>3. QED
  BY <1>2, TypesHold, PTL DEF Spec, EndIsFinal

-----------------------------------------------------------------------------
(* A careful client. Each of its readers is at a place: the stream stands  *)
(* behind the record whose number is the position, which is the current    *)
(* access; or it failed, beyond the last record.                           *)

Place(f, R) ==
  /\ R.stream.isOpen
  /\ ~R.stream.fail =>
       AtRecord(f, R) /\ (R.position > 0 => R.current = f.recs[R.position])
  /\ R.stream.fail =>
       /\ R.position > AccessCount(f)
       /\ R.stream.eof => R.position = AccessCount(f) + 1
       /\ Valid(R.current) => R.position = AccessCount(f) + 1 /\ f.tail = <<R.current>>

\* The offset and the number are those of one access.
IsPlace(f, offset, p) ==
  \/ p = 0 /\ offset = HeaderSize
  \/ p \in 1..Len(Items(f)) /\ offset = StartOf(f, p)

InPlace ==
  /\ \A r \in Readers : InUse(r) => Place(file, readers[r])
  /\ \A r \in Readers : told[r] = "loaded" =>
       /\ ~readers[r].stream.fail
       /\ readers[r].position = 0 /\ readers[r].lastRead = HeaderSize
  /\ \A r \in Readers : told[r] = "valid" =>
       /\ Valid(readers[r].current)
       /\ readers[r].position > 0
       /\ IsPlace(file, readers[r].lastRead, readers[r].position)
  /\ \A mark \in saved : IsPlace(file, mark.at, mark.position)

ShownIn(f, R) == IF NumberIn(f, R) \in 1..Len(Items(f)) THEN R.current ELSE Nothing

\* In its place a reader shows the access its number names.
LEMMA PlaceShows ==
  ASSUME NEW f, IsHardwareFile(f), NEW R \in Reader, Place(f, R)
  PROVE  /\ NumberIn(f, R) \in Nat
         /\ NumberIn(f, R) \in 1..Len(Items(f)) => R.current = Items(f)[NumberIn(f, R)]
<1>1. /\ AccessCount(f) \in Nat /\ Len(Items(f)) \in {AccessCount(f), AccessCount(f) + 1}
      /\ R.position \in Nat
  BY ItemFacts, FileFacts DEF Reader
<1>2. CASE ~R.stream.fail
  <2>1. NumberIn(f, R) = R.position /\ R.position \in 0..AccessCount(f)
    BY <1>2 DEF NumberIn, Place, AtRecord
  <2>2. R.position > 0 => R.current = Items(f)[R.position]
    BY <1>1, <1>2, <2>1, ItemFacts DEF Place
  <2>3. QED
    BY <1>1, <2>1, <2>2
<1>3. CASE R.stream.fail /\ Valid(R.current)
  <2>1. /\ NumberIn(f, R) = AccessCount(f) + 1
        /\ f.tail = <<R.current>>
    BY <1>3 DEF NumberIn, Place
  <2>2. Len(f.tail) = 1 /\ f.tail[1] = R.current
    BY <2>1
  <2>3. QED
    BY <1>1, <1>3, <2>1, <2>2, ItemFacts
<1>4. CASE R.stream.fail /\ ~Valid(R.current)
  <2>1. NumberIn(f, R) = Len(Items(f)) + 1
    BY <1>1, <1>4 DEF NumberIn, Place
  <2>2. QED
    BY <1>1, <2>1
<1>5. QED
  BY <1>2, <1>3, <1>4

\* Reading on from a place: the record behind it, or the end.
LEMMA ReadOn ==
  ASSUME NEW f, IsHardwareFile(f), NEW R \in Reader, AtRecord(f, R)
  PROVE  /\ Place(f, NextOf(f, R))
         /\ NextOf(f, R).lastRead = StartOf(f, R.position + 1)
         /\ NextOf(f, R).position = R.position + 1
         /\ NumberIn(f, NextOf(f, R)) = R.position + 1
         /\ R.position + 1 > Len(Items(f)) => ~Valid(NextOf(f, R).current)
<1> DEFINE Q == NextOf(f, R)
           s == R.stream
           n == R.position
<1>1. /\ s \in S!Streams /\ Open(s) /\ n \in 0..AccessCount(f) /\ s.at = StartOf(f, n + 1)
      /\ AccessCount(f) \in Nat /\ s.isOpen
  BY FileFacts DEF Reader, AtRecord, Open
<1>2. /\ Q.stream = AfterAccess(f, s) /\ Q.current = AccessRead(f, s)
      /\ Q.lastRead = S!Pos(s) /\ Q.position = n + 1
  BY <1>1 DEF NextOf, Open
<1>3. Q.lastRead = StartOf(f, n + 1)
  BY <1>1, <1>2 DEF S!Pos, Open
<1>4. CASE n < AccessCount(f)
  <2>1. n + 1 \in 1..AccessCount(f)
    BY <1>1, <1>4
  <2>2. AccessRead(f, s) = f.recs[n + 1] /\ AfterAccess(f, s) = [s EXCEPT !.at = StartOf(f, n + 2)]
    BY <1>1, <2>1, ReadAtRecord
  <2>3. /\ Q.stream.isOpen /\ ~Q.stream.fail /\ ~Q.stream.eof
        /\ Q.stream.at = StartOf(f, n + 2)
    BY <1>1, <1>2, <2>2 DEF S!Streams, Open
  <2>4. (n + 1) + 1 = n + 2 /\ Q.position \in 0..AccessCount(f)
    BY <1>1, <1>2, <2>1
  <2> HIDE DEF Q
  <2>5. Place(f, Q)
    BY <1>2, <2>2, <2>3, <2>4 DEF Place, AtRecord
  <2>6. NumberIn(f, Q) = n + 1
    BY <1>2, <2>3 DEF NumberIn
  <2>7. ~(n + 1 > Len(Items(f)))
    BY <1>1, <2>1, ItemFacts
  <2>8. QED
    BY <1>2, <1>3, <2>5, <2>6, <2>7 DEF Q
<1>5. CASE n = AccessCount(f)
  <2>1. s.at = EndOf(f) /\ RecordAt(f, s.at) = {}
    BY <1>1, <1>5, NoRecordAtEnd DEF EndOf
  <2>2. AfterAccess(f, s) = [s EXCEPT !.fail = TRUE, !.eof = TRUE]
    BY <1>1, <2>1, ReadElsewhere
  <2>3. Q.stream.isOpen /\ Q.stream.fail
    BY <1>1, <1>2, <2>2 DEF S!Streams
  <2>4. /\ f.tail \in Seq(Accesses) /\ Len(f.tail) \in {0, 1}
        /\ FileSize(f) = EndOf(f) + Len(f.tail) /\ EndOf(f) \in Nat
    BY FileFacts
  <2>5. AccessRead(f, s) = IF Len(f.tail) = 0 THEN ZeroAccess ELSE f.tail[1]
    BY <1>1, <2>1, <2>4 DEF AccessRead, Open
  <2>6. Valid(Q.current) => Len(f.tail) = 1 /\ Q.current = f.tail[1] /\ f.tail = <<Q.current>>
    BY <1>2, <2>4, <2>5 DEF Valid, ZeroAccess
  <2>7. ~Valid(Q.current) => Len(Items(f)) = AccessCount(f)
    BY <1>2, <2>4, <2>5, ItemFacts
  <2>8. Valid(Q.current) => Len(Items(f)) = AccessCount(f) + 1
    BY <2>6, ItemFacts
  <2> HIDE DEF Q
  <2>9. Place(f, Q)
    BY <1>1, <1>2, <1>5, <2>3, <2>6 DEF Place
  <2>10. NumberIn(f, Q) = n + 1
    BY <1>1, <1>2, <1>5, <2>3, <2>7 DEF NumberIn
  <2>11. n + 1 > Len(Items(f)) => ~Valid(Q.current)
    BY <1>1, <1>5, <2>8
  <2>12. QED
    BY <1>2, <1>3, <2>9, <2>10, <2>11 DEF Q
<1>6. QED
  BY <1>1, <1>4, <1>5

\* next moves the number forward by one, until it is beyond the last access.
LEMMA NextPlace ==
  ASSUME NEW f, IsHardwareFile(f), NEW R \in Reader, Place(f, R)
  PROVE  /\ Place(f, NextOf(f, R))
         /\ NumberIn(f, NextOf(f, R)) =
              IF NumberIn(f, R) > Len(Items(f)) THEN NumberIn(f, R) ELSE NumberIn(f, R) + 1
         /\ Valid(NextOf(f, R).current) =>
              /\ NextOf(f, R).position > 0
              /\ IsPlace(f, NextOf(f, R).lastRead, NextOf(f, R).position)
<1> DEFINE Q == NextOf(f, R)
<1>1. /\ AccessCount(f) \in Nat /\ Len(Items(f)) \in {AccessCount(f), AccessCount(f) + 1}
      /\ R.position \in Nat /\ R.stream \in S!Streams /\ R.current \in Accesses
  BY ItemFacts, FileFacts DEF Reader
<1>2. CASE ~R.stream.fail
  <2>1. AtRecord(f, R) /\ NumberIn(f, R) = R.position /\ R.position \in 0..AccessCount(f)
    BY <1>2 DEF Place, AtRecord, NumberIn
  <2>2. /\ Place(f, Q) /\ Q.lastRead = StartOf(f, R.position + 1)
        /\ Q.position = R.position + 1 /\ NumberIn(f, Q) = R.position + 1
        /\ R.position + 1 > Len(Items(f)) => ~Valid(Q.current)
    BY <2>1, ReadOn
  <2> HIDE DEF Q
  <2>3. ~(R.position > Len(Items(f)))
    BY <1>1, <2>1
  <2>4. Valid(Q.current) => Q.position \in 1..Len(Items(f))
    BY <1>1, <2>2
  <2>5. QED
    BY <1>1, <2>1, <2>2, <2>3, <2>4 DEF Q, IsPlace
<1>3. CASE R.stream.fail
  <2>1. Q.stream = R.stream
    BY <1>3, ReadFailed DEF NextOf, Reader
  <2>2. ~Valid(Q.current)
    BY <1>1, <1>3 DEF NextOf, Reader, AccessRead, Valid, ZeroAccess, Accesses
  <2>3. /\ Q.position >= R.position /\ Q.position \in Nat
        /\ R.stream.eof => Q.position = R.position
    BY <1>1 DEF NextOf, Reader
  <2> HIDE DEF Q
  <2>4. Place(f, Q)
    BY <1>1, <1>3, <2>1, <2>2, <2>3 DEF Place
  <2>5. NumberIn(f, Q) = Len(Items(f)) + 1
    BY <1>1, <1>3, <2>1, <2>2, <2>4 DEF NumberIn, Place
  <2>6. CASE ~Valid(R.current)
    <3>1. NumberIn(f, R) = Len(Items(f)) + 1
      BY <1>1, <1>3, <2>6 DEF NumberIn, Place
    <3>2. QED
      BY <1>1, <2>2, <2>4, <2>5, <3>1 DEF Q
  <2>7. CASE Valid(R.current)
    <3>1. NumberIn(f, R) = AccessCount(f) + 1 /\ f.tail = <<R.current>>
      BY <1>3, <2>7 DEF NumberIn, Place
    <3>2. Len(f.tail) = 1 /\ f.tail[1] = R.current
      BY <3>1
    <3>3. Len(Items(f)) = AccessCount(f) + 1
      BY <2>7, <3>2, ItemFacts
    <3>4. QED
      BY <1>1, <2>2, <2>4, <2>5, <3>1, <3>3 DEF Q
  <2>8. QED
    BY <2>6, <2>7
<1>4. QED
  BY <1>2, <1>3

\* A pair that is a place leads there.
LEMMA AdvancePlace ==
  ASSUME NEW f, IsHardwareFile(f), NEW R \in Reader, Place(f, R),
         NEW offset, NEW p \in Nat, IsPlace(f, offset, p)
  PROVE  /\ Place(f, AdvanceOf(f, R, offset, p))
         /\ NumberIn(f, AdvanceOf(f, R, offset, p)) = p
         /\ p > 0 => /\ AdvanceOf(f, R, offset, p).position > 0
                     /\ IsPlace(f, AdvanceOf(f, R, offset, p).lastRead,
                                   AdvanceOf(f, R, offset, p).position)
<1> DEFINE sought == Sought(R, offset, p)
<1>1. /\ AccessCount(f) \in Nat /\ Len(Items(f)) \in {AccessCount(f), AccessCount(f) + 1}
      /\ \A i \in 1..(AccessCount(f) + 1) : StartOf(f, i) \in Nat
      /\ R.stream \in S!Streams /\ R.stream.isOpen
  BY ItemFacts, FileFacts DEF Reader, Place
<1>2. offset \in Offsets /\ offset >= 0
  BY <1>1 DEF IsPlace, Offsets, HeaderSize
<1>3. /\ sought.stream = S!Seek(R.stream, offset) /\ sought \in Reader
      /\ sought.position = IF p = 0 THEN 0 ELSE p - 1
  BY <1>2, SoughtType DEF Sought, Reader
<1>4. /\ sought.stream.isOpen /\ ~sought.stream.fail /\ ~sought.stream.eof
      /\ sought.stream.at = offset
  BY <1>1, <1>2, <1>3, SeekType
<1> HIDE DEF sought
<1>5. CASE p = 0
  <2>1. offset = StartOf(f, 1)
    BY <1>5 DEF IsPlace, StartOf
  <2>2. AtRecord(f, sought)
    BY <1>1, <1>3, <1>4, <1>5, <2>1 DEF AtRecord
  <2>3. Place(f, sought) /\ NumberIn(f, sought) = 0
    BY <1>3, <1>4, <1>5, <2>2 DEF Place, NumberIn
  <2>4. QED
    BY <1>5, <2>3, AdvanceIsNext DEF sought
<1>6. CASE p > 0
  <2>1. p \in 1..Len(Items(f)) /\ offset = StartOf(f, p)
    BY <1>6 DEF IsPlace
  <2>2. p - 1 \in 0..AccessCount(f) /\ (p - 1) + 1 = p /\ sought.position = p - 1
    BY <1>1, <1>3, <1>6, <2>1
  <2>3. AtRecord(f, sought)
    BY <1>4, <2>1, <2>2 DEF AtRecord
  <2>4. AdvanceOf(f, R, offset, p) = NextOf(f, sought)
    BY <1>6, AdvanceIsNext DEF sought
  <2>5. /\ Place(f, NextOf(f, sought)) /\ NumberIn(f, NextOf(f, sought)) = p
        /\ NextOf(f, sought).lastRead = StartOf(f, p) /\ NextOf(f, sought).position = p
    BY <1>3, <2>2, <2>3, ReadOn
  <2>6. QED
    BY <1>6, <2>1, <2>4, <2>5 DEF IsPlace
<1>7. QED
  BY <1>5, <1>6

\* A reader that syncs with another is in its place.
LEMMA SyncPlace ==
  ASSUME NEW f, IsHardwareFile(f), NEW R \in Reader, Place(f, R), NEW Q \in Reader, Place(f, Q)
  PROVE  Place(f, SyncOf(R, Q)) /\ NumberIn(f, SyncOf(R, Q)) = NumberIn(f, Q)
<1> DEFINE to == S!Pos(Q.stream)
           T == SyncOf(R, Q)
<1>1. /\ R.stream \in S!Streams /\ R.stream.isOpen /\ Q.stream \in S!Streams /\ Q.stream.isOpen
      /\ to \in Offsets
  BY PosType DEF Reader, Place
<1>2. /\ T.stream = S!Seek(R.stream, to) /\ T.position = Q.position /\ T.current = Q.current
  BY DEF SyncOf, Reader
<1>3. CASE ~Q.stream.fail
  <2>1. to = Q.stream.at /\ to >= 0
    BY <1>1, <1>3 DEF S!Pos, S!Streams
  <2> HIDE DEF to, T
  <2>2. /\ T.stream.isOpen /\ ~T.stream.fail /\ ~T.stream.eof /\ T.stream.at = Q.stream.at
    BY <1>1, <1>2, <2>1, SeekType
  <2>3. Place(f, T) /\ NumberIn(f, T) = NumberIn(f, Q)
    BY <1>2, <1>3, <2>2 DEF Place, AtRecord, NumberIn
  <2>4. QED
    BY <2>3 DEF T
<1>4. CASE Q.stream.fail
  <2>1. to = -1
    BY <1>4 DEF S!Pos
  <2>2. ~(to >= 0)
    BY <2>1
  <2> HIDE DEF to, T
  <2>3. T.stream.isOpen /\ T.stream.fail /\ ~T.stream.eof
    BY <1>1, <1>2, <2>2 DEF S!Seek, S!Streams
  <2>4. Place(f, T)
    BY <1>2, <1>4, <2>3 DEF Place
  <2>5. NumberIn(f, T) = NumberIn(f, Q)
    <3>1. Q.stream.eof => Q.position = AccessCount(f) + 1
      BY <1>4 DEF Place
    <3>2. AccessCount(f) \in Nat /\ Len(Items(f)) \in Nat
      BY ItemFacts, FileFacts
    <3>3. QED
      BY <1>2, <1>4, <2>3, <3>1, <3>2 DEF NumberIn
  <2>6. QED
    BY <2>4, <2>5 DEF T
<1>5. QED
  BY <1>3, <1>4

LEMMA LoadPlace ==
  ASSUME NEW f, IsHardwareFile(f), f.kind = "good", NEW R \in Reader
  PROVE  /\ Place(f, LoadOf(f, R)) /\ NumberIn(f, LoadOf(f, R)) = 0
         /\ ~LoadOf(f, R).stream.fail
         /\ LoadOf(f, R).position = 0 /\ LoadOf(f, R).lastRead = HeaderSize
<1> DEFINE Q == LoadOf(f, R)
<1>1. Q.stream = LoadedAt(HeaderSize) /\ Q.position = 0
  BY LoadedStream DEF LoadOf, Reader
<1>2. Q.lastRead = HeaderSize
  BY LoadStands
<1> HIDE DEF Q
<1>3. StartOf(f, 1) = HeaderSize /\ AccessCount(f) \in Nat
  BY FileFacts DEF StartOf
<1>4. AtRecord(f, Q)
  BY <1>1, <1>3 DEF AtRecord, LoadedAt
<1>5. Place(f, Q) /\ NumberIn(f, Q) = 0 /\ ~Q.stream.fail
  BY <1>1, <1>4 DEF Place, AtRecord, NumberIn
<1>6. QED
  BY <1>1, <1>2, <1>5 DEF Q

-----------------------------------------------------------------------------
(* The steps of a careful client: each keeps InPlace and is one of a cursor.*)

LEMMA CarefulIsNext == [CarefulNext]_vars => [Next]_vars
BY DEF CarefulNext, Next

\* What a reader must be after a call for InPlace to hold again.
Told(f, R, telling) ==
  /\ telling # "unloaded" => Place(f, R)
  /\ telling = "loaded" => ~R.stream.fail /\ R.position = 0 /\ R.lastRead = HeaderSize
  /\ telling = "valid" => Valid(R.current) /\ R.position > 0 /\ IsPlace(f, R.lastRead, R.position)

\* Such a call moves the cursor to the number of the reader.
LEMMA SetMoves ==
  ASSUME TypeOK, InPlace, NEW r \in Readers, NEW reader \in Reader, NEW telling \in Tellings,
         Set(r, reader, telling), Told(file, reader, telling), NEW n,
         n = IF telling = "unloaded" THEN 0 ELSE NumberIn(file, reader)
  PROVE  InPlace' /\ Cursor!MoveTo(r, n)
<1>1. /\ readers'[r] = reader /\ told'[r] = telling
      /\ \A q \in Readers \ {r} : readers'[q] = readers[q] /\ told'[q] = told[q]
      /\ file' = file /\ saved' = saved
  BY SetReader
<1>2. InPlace'
  <2>1. ASSUME NEW q \in Readers
        PROVE  Told(file', readers'[q], told'[q])
    BY <1>1, <2>1 DEF Told, InPlace, InUse
  <2>2. QED
    BY <1>1, <2>1 DEF Told, InPlace, InUse
<1>3. \A q \in Readers : NumberOf(q)' = IF q = r THEN n ELSE NumberOf(q)
  BY <1>1 DEF NumberOf, InUse
<1>4. n \in 1..Len(Items(file)) => reader.current = Items(file)[n]
  <2>1. CASE telling = "unloaded"
    BY <2>1, FileIs, ItemFacts
  <2>2. CASE telling # "unloaded"
    <3>1. Place(file, reader) /\ n = NumberIn(file, reader)
      BY <2>2 DEF Told
    <3>2. QED
      BY <3>1, FileIs, PlaceShows
  <2>3. QED
    BY <2>1, <2>2
<1>5. \A q \in Readers : ShownBy(q)' = IF q = r THEN Cursor!Shown(n) ELSE ShownBy(q)
  BY <1>1, <1>3, <1>4 DEF ShownBy, Cursor!Shown
<1>6. QED
  BY <1>1, <1>2, <1>3, <1>5 DEF Cursor!MoveTo

LEMMA CarefulStep == TypeOK /\ InPlace /\ [CarefulNext]_vars => InPlace' /\ [Cursor!Next]_(Cursor!vars)
<1> SUFFICES ASSUME TypeOK, InPlace, [CarefulNext]_vars
             PROVE  InPlace' /\ [Cursor!Next]_(Cursor!vars)
  OBVIOUS
<1>1. CASE UNCHANGED vars
  BY <1>1 DEF vars, InPlace, InUse, Cursor!vars, NumberOf, ShownBy
<1>2. ASSUME NEW r \in Readers, NEW f \in {file} \cup Broken, LoadFile(r, f)
      PROVE  InPlace' /\ Cursor!Open(r)
  <2> DEFINE telling == IF f.kind = "good" THEN "loaded" ELSE "unloaded"
             reader == LoadOf(f, readers[r])
  <2>1. IsHardwareFile(f) /\ IsHardwareFile(file) /\ readers[r] \in Reader
    BY FileIs DEF TypeOK
  <2>2. Set(r, reader, telling) /\ reader \in Reader /\ telling \in Tellings
    BY <1>2, <2>1, LoadType DEF LoadFile, Tellings
  <2>3. CASE f.kind = "good"
    <3>1. f = file
      BY <2>3, FilesAssumption
    <3>2. Told(file, reader, telling) /\ NumberIn(file, reader) = 0 /\ telling = "loaded"
      BY <2>1, <2>3, <3>1, LoadPlace DEF Told
    <3> HIDE DEF telling, reader
    <3>3. QED
      BY <2>2, <3>2, SetMoves DEF Cursor!Open
  <2>4. CASE f.kind # "good"
    <3>1. Told(file, reader, telling) /\ telling = "unloaded"
      BY <2>4 DEF Told
    <3> HIDE DEF telling, reader
    <3>2. QED
      BY <2>2, <3>1, SetMoves DEF Cursor!Open
  <2>5. QED
    BY <2>3, <2>4
<1>3. ASSUME NEW r \in Readers, InUse(r), ReadNext(r)
      PROVE  InPlace' /\ Cursor!Forward(r)
  <2> DEFINE reader == NextOf(file, readers[r])
             telling == Validity(reader)
             n == NumberIn(file, readers[r])
  <2>1. IsHardwareFile(file) /\ readers[r] \in Reader /\ Place(file, readers[r])
    BY <1>3, FileIs DEF TypeOK, InPlace
  <2>2. /\ Place(file, reader) /\ reader \in Reader
        /\ NumberIn(file, reader) = IF n > Len(Items(file)) THEN n ELSE n + 1
        /\ Valid(reader.current) =>
             reader.position > 0 /\ IsPlace(file, reader.lastRead, reader.position)
    BY <2>1, NextPlace, NextType
  <2>3. /\ telling \in Tellings \ {"unloaded", "loaded"}
        /\ telling = "valid" => Valid(reader.current)
    BY DEF Validity, Tellings
  <2>4. Set(r, reader, telling) /\ Told(file, reader, telling)
    BY <1>3, <2>2, <2>3 DEF ReadNext, Call, Told
  <2>5. NumberOf(r) = n
    BY <1>3 DEF NumberOf
  <2> HIDE DEF reader, telling, n
  <2>6. InPlace' /\ Cursor!MoveTo(r, IF n > Len(Items(file)) THEN n ELSE n + 1)
    BY <2>2, <2>3, <2>4, SetMoves
  <2>7. QED
    BY <2>5, <2>6 DEF Cursor!Forward
<1>4. ASSUME NEW r \in Readers, InUse(r), NEW mark \in saved, AdvanceTo(r, mark)
      PROVE  InPlace' /\ Cursor!GoBack(r)
  <2> DEFINE reader == AdvanceOf(file, readers[r], mark.at, mark.position)
             telling == IF mark.position = 0 THEN "rewound" ELSE Validity(reader)
  <2>1. /\ IsHardwareFile(file) /\ readers[r] \in Reader /\ Place(file, readers[r])
        /\ mark.position \in Nat /\ mark.at \in Offsets /\ IsPlace(file, mark.at, mark.position)
    BY <1>4, FileIs DEF TypeOK, InPlace, Marks, Offsets
  <2>2. /\ Place(file, reader) /\ reader \in Reader
        /\ NumberIn(file, reader) = mark.position
        /\ mark.position > 0 =>
             reader.position > 0 /\ IsPlace(file, reader.lastRead, reader.position)
    BY <2>1, AdvancePlace, AdvanceType
  <2>3. /\ telling \in Tellings \ {"unloaded", "loaded"}
        /\ telling = "valid" => Valid(reader.current) /\ mark.position > 0
    BY <2>1 DEF Validity, Tellings
  <2>4. Set(r, reader, telling) /\ Told(file, reader, telling)
    BY <1>4, <2>2, <2>3 DEF AdvanceTo, Call, Told
  <2> HIDE DEF reader, telling
  <2>5. InPlace' /\ Cursor!MoveTo(r, mark.position)
    BY <2>2, <2>3, <2>4, SetMoves
  <2>6. QED
    BY <2>5 DEF Cursor!GoBack
<1>5. ASSUME NEW r \in Readers, InUse(r), NEW other \in Readers, InUse(other), SyncWith(r, other)
      PROVE  InPlace' /\ Cursor!Join(r, other)
  <2> DEFINE reader == SyncOf(readers[r], readers[other])
  <2>1. /\ IsHardwareFile(file) /\ readers[r] \in Reader /\ readers[other] \in Reader
        /\ Place(file, readers[r]) /\ Place(file, readers[other])
    BY <1>5, FileIs DEF TypeOK, InPlace
  <2>2. /\ Place(file, reader) /\ reader \in Reader
        /\ NumberIn(file, reader) = NumberIn(file, readers[other])
    BY <2>1, SyncPlace, SyncType
  <2>3. Set(r, reader, "synced") /\ Told(file, reader, "synced")
    BY <1>5, <2>2 DEF SyncWith, Call, Told
  <2>4. NumberOf(other) = NumberIn(file, readers[other])
    BY <1>5 DEF NumberOf
  <2> HIDE DEF reader
  <2>5. InPlace' /\ Cursor!MoveTo(r, NumberIn(file, readers[other]))
    BY <2>2, <2>3, SetMoves DEF Tellings
  <2>6. QED
    BY <2>4, <2>5 DEF Cursor!Join
<1>6. ASSUME NEW r \in Readers, told[r] \in {"loaded", "valid"}, Save(r)
      PROVE  InPlace' /\ Cursor!Mark(r)
  <2> DEFINE mark == [at       |-> readers[r].lastRead,
                      position |-> readers[r].position,
                      fresh    |-> told[r] \in {"valid", "invalid"},
                      shown    |-> readers[r].current]
  <2>1. saved' = saved \cup {mark} /\ UNCHANGED <<file, readers, told>>
    BY <1>6 DEF Save
  <2>2. IsPlace(file, readers[r].lastRead, readers[r].position)
    BY <1>6 DEF InPlace, IsPlace
  <2>3. InPlace'
    BY <2>1, <2>2 DEF InPlace, InUse
  <2>4. NumberOf(r) = mark.position
    BY <1>6 DEF InPlace, NumberOf, NumberIn, InUse
  <2>5. {m.position : m \in saved'} = {m.position : m \in saved} \cup {mark.position}
    BY <2>1
  <2>6. \A q \in Readers : NumberOf(q)' = NumberOf(q) /\ ShownBy(q)' = ShownBy(q)
    BY <2>1 DEF NumberOf, ShownBy, InUse
  <2> HIDE DEF mark
  <2>7. QED
    BY <2>1, <2>3, <2>4, <2>5, <2>6 DEF Cursor!Mark
<1>7. ASSUME CarefulNext
      PROVE  InPlace' /\ Cursor!Next
  BY <1>2, <1>3, <1>4, <1>5, <1>6, <1>7 DEF CarefulNext, Cursor!Next
<1>8. QED
  BY <1>1, <1>7

LEMMA CarefulInit == Init => InPlace /\ Cursor!Init
<1> SUFFICES ASSUME Init PROVE InPlace /\ Cursor!Init
  OBVIOUS
<1>1. \A r \in Readers : told[r] = "unloaded"
  BY DEF Init
<1>2. InPlace
  BY <1>1 DEF Init, InPlace, InUse
<1>3. \A r \in Readers : NumberOf(r) = 0 /\ ShownBy(r) = Nothing
  BY <1>1 DEF NumberOf, ShownBy, InUse
<1>4. QED
  BY <1>2, <1>3 DEF Init, Cursor!Init

\* For every file and any number of readers, those of a careful client are
\* cursors on the accesses of the file.
THEOREM ReadersAreCursors == CarefulSpec => ImplementsCursor
<1>1. Init => TypeOK /\ InPlace /\ Cursor!Init
  BY InitType, CarefulInit
<1>2. TypeOK /\ InPlace /\ [CarefulNext]_vars => TypeOK' /\ InPlace' /\ [Cursor!Next]_(Cursor!vars)
  BY TypeStep, CarefulIsNext, CarefulStep
<1>3. QED
  BY <1>1, <1>2, PTL DEF CarefulSpec, ImplementsCursor, Cursor!Spec
=============================================================================
