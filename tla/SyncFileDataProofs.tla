------------------------- MODULE SyncFileDataProofs -------------------------
(***************************************************************************)
(* Proofs about the memory dumps, for any sync files and any data files    *)
(* (whole, cut or wrong), and about the tools that print the points and    *)
(* their dumps.                                                            *)
(***************************************************************************)
EXTENDS DumpSyncPoints, SyncFileEventsProofs

-----------------------------------------------------------------------------
(* The dumps are added to sync_file and change nothing of it.              *)

LEMMA DataStepIsAStep == [DataStep]_<<vars, dataVars>> => [Next]_vars
<1> SUFFICES ASSUME [DataStep]_<<vars, dataVars>> PROVE [Next]_vars
  OBVIOUS
<1>1. CASE LoadData
  BY <1>1 DEF LoadData, Next, Client
<1>2. CASE CallNextData
  BY <1>2 DEF CallNextData, Next, Client
<1>3. CASE FetchData
  BY <1>3 DEF FetchData, Next, Library, CurrentEvent, FetchNewEvent
<1>4. CASE CurrentEventData
  BY <1>4 DEF CurrentEventData, Next, Client, Library, CurrentEvent
<1>5. CASE SeekData
  BY <1>5 DEF SeekData, Next, Client, Library
<1>6. CASE SpinData
  BY <1>6 DEF SpinData, Next, Client, Library, CurrentEvent, FetchNewEvent
<1>7. CASE UNCHANGED <<vars, dataVars>>
  BY <1>7
<1> QED
  BY <1>1, <1>2, <1>3, <1>4, <1>5, <1>6, <1>7 DEF DataStep

-----------------------------------------------------------------------------
(* Reading.                                                                *)

\* Where next stops on a stream it can read: at the end, where the read failed,
\* or after a record, where it did not.
LEMMA ReadsOpen ==
  ASSUME NEW f, IsFile(f), NEW r \in Reader, NEW q \in NextFrom(f, r),
         r.stream.isOpen, ~r.stream.fail, ~r.stream.eof
  PROVE  /\ q.stream.isOpen
         /\ q.stream.eof <=> q.stream.fail
<1>1. PICK n \in Skips(f, r) : q.stream = StreamAfter(f, r, n)
  BY DEF NextFrom
<1>2. n \in Nat
  BY ReadsFit DEF Skips
<1> DEFINE skipped == [r.stream EXCEPT !.at = @ + 2 * n]
<1>3. q.stream = S!Read(skipped, RecordSize, FileSize(f))
  BY <1>1 DEF StreamAfter
<1>4. r.stream \in S!Streams /\ r.stream.at + 2 * n \in Nat
  BY <1>2 DEF Reader, S!Streams
<1>5. /\ skipped.fail = r.stream.fail /\ skipped.eof = r.stream.eof
      /\ skipped.isOpen = r.stream.isOpen
      /\ skipped \in S!Streams
  BY <1>4 DEF S!Streams
<1> HIDE DEF skipped
<1> QED
  BY <1>3, <1>5 DEF S!Read, S!Streams

\* From a stream that fails nothing is read.
LEMMA ReadsFailed ==
  ASSUME NEW f, NEW r, NEW q \in NextFrom(f, r), r.stream.fail
  PROVE  q.stream.fail
BY DEF NextFrom, StreamAfter

\* seek_from_end leaves the file open.
LEMMA OpenAfterEnd ==
  ASSUME IInv, NEW p \in EndArguments, SeekFromEnd(p)
  PROVE  stream'.isOpen = stream.isOpen
<1>1. CASE sized
  <2>1. FileSize(file) - RecordSize * (p + 1) \in Int /\ stream \in S!Streams
    BY ConstantsAssumption, FileSizeFacts DEF EndArguments, RecordSize, IInv, TypeOK
  <2>2. stream' = S!Seek(stream, FileSize(file) - RecordSize * (p + 1))
    BY <1>1 DEF SeekFromEnd
  <2> QED
    BY <2>1, <2>2, SeekType
<1>2. CASE ~sized
  BY <1>2 DEF SeekFromEnd
<1> QED
  BY <1>1, <1>2

\* What is in dumps is what the record at position has, or nothing.
LEMMA ListOfRecord ==
  ASSUME NEW d, NEW eof, NEW i \in Nat, i > 0,
         NEW offset \in Int, offset = HeaderSize + 2 * (i - 1)
  PROVE  Collected(d, eof, offset) \in
           {IF i \in DOMAIN d.offsets /\ d.offsets[i] # 0
            THEN ListAt(d, d.offsets[i]) ELSE <<>>, <<>>}
<1>1. HeaderSize \in Nat /\ HeaderSize = 2 * HeaderSlots /\ HeaderSlots \in Nat
  BY Sizes DEF HeaderSize
<1>2. /\ offset >= HeaderSize
      /\ offset - HeaderSize = 2 * (i - 1)
      /\ offset = 2 * (HeaderSlots + i - 1)
  BY <1>1
<1>3. ((offset - HeaderSize) \div 2) + 1 = i /\ offset % 2 = 0
  BY <1>1, <1>2
<1>4. DataOffset(d, offset) = IF i \in DOMAIN d.offsets THEN d.offsets[i] ELSE 0
  BY <1>2, <1>3 DEF DataOffset
<1> QED
  BY <1>4 DEF Collected

LEMMA RecordNumbers ==
  ASSUME IInv
  PROVE  DOMAIN Records = 1..PointCount(file) /\ PointCount(file) \in Nat
BY HereIsReader, FileFacts DEF IInv, Records, PointCount

\* Once a record was read, the point reached has the dumps of its own record.
LEMMA ReadIsOwn ==
  ASSUME IInv', dataFile' = dataFile, NEW from, ReadDumps(from),
         stream'.eof \/ (stream'.isOpen /\ ~stream'.fail)
  PROVE  NoForeignDumps'
<1> SUFFICES ASSUME AtPoint' PROVE dumps' \in {ListOf(position)', <<>>}
  BY DEF NoForeignDumps
<1>1. CASE stream'.eof
  BY <1>1 DEF ReadDumps
<1>2. CASE ~stream'.eof
  <2> DEFINE last == stream'.at - RecordSize
  <2>1. PICK e : dumps' = Collected(dataFile, e, last)
    BY <1>2 DEF ReadDumps
  <2>2. /\ IsFile(file)' /\ stream' \in S!Streams /\ Consistent(file, Here)'
        /\ Here'.stream = stream' /\ Here'.position = position'
        /\ position' \in 0..(Word - 1)
    BY DEF IInv, TypeOK, Here
  <2>3. stream'.at \in Nat /\ RecordSize = 2 /\ OffsetOf(position') \in Nat
        /\ OffsetOf(position') % 2 = 0
    BY <2>2, OffsetType DEF S!Streams, RecordSize
  <2>4. CASE stream'.at % 2 = 0
    <3>0. OffsetOf(position') \in {stream'.at, stream'.at - 1}
      BY <1>2, <2>2 DEF Consistent, Stalls
    <3>1. stream'.at = OffsetOf(position')
      BY <2>3, <2>4, <3>0
    <3>2. /\ position' \in 1..PointCount(file') /\ PointCount(file') \in Nat
          /\ 2 * HeaderSlots + PointCount(file') + 2 < RecordQuotient
      <4>1. DOMAIN file'.recs = 1..PointCount(file')
        BY <2>2, FileFacts DEF PointCount
      <4> QED
        BY <2>2, <4>1, FileFacts DEF AtPoint, Records
    <3>3. /\ position' \in Nat /\ position' > 0
          /\ last \in Int /\ last = HeaderSize + 2 * (position' - 1)
      BY <2>3, <3>1, <3>2, Sizes DEF OffsetOf, HeaderSize
    <3> HIDE DEF last
    <3> QED
      BY <2>1, <3>3, ListOfRecord DEF ListOf
  <2>5. CASE stream'.at % 2 # 0
    <3>1. last % 2 # 0
      BY <2>3, <2>5
    <3> QED
      BY <2>1, <3>1 DEF Collected, DataOffset
  <2> QED
    BY <2>4, <2>5
<1> QED
  BY <1>1, <1>2

LEMMA NextIsOwn ==
  ASSUME IInv, IInv', ClosedAtEnd, NoForeignDumps, dataFile' = dataFile, file' = file,
         NEW r \in NextFrom(file, Here), Become(r), NextDumps
  PROVE  NoForeignDumps'
<1>1. Here \in Reader /\ IsFile(file) /\ Here.stream = stream
  BY HereIsReader DEF IInv
<1>2. CASE stream.eof
  <2>1. r = Here
    BY <1>1, <1>2, ClosedNext
  <2>2. current' = current /\ position' = position /\ dumps' = dumps
    BY <1>2, <2>1 DEF Become, Here, NextDumps
  <2> QED
    BY <2>2 DEF NoForeignDumps, AtPoint, Records, ListOf
<1>3. CASE ~stream.eof /\ stream.fail
  BY <1>3 DEF NextDumps, NoDumps, NoForeignDumps
<1>4. CASE ~stream.eof /\ ~stream.fail
  <2>1. r.stream.eof \/ (r.stream.isOpen /\ ~r.stream.fail)
    BY <1>1, <1>4, ReadsOpen DEF ClosedAtEnd
  <2>2. ReadDumps(stream.at) /\ stream' = r.stream
    BY <1>4 DEF NextDumps, Become
  <2> QED
    BY <2>1, <2>2, ReadIsOwn
<1> QED
  BY <1>2, <1>3, <1>4

LEMMA SeekIsOwn ==
  ASSUME IInv, IInv', dataFile' = dataFile, file' = file,
         NEW p \in 0..(Word - 1), NEW r \in SeekFrom(file, Here, p),
         stream' = r.stream, position' = r.position, SeekDumps(p)
  PROVE  NoForeignDumps'
<1>1. Here \in Reader /\ IsFile(file) /\ Here.stream = stream
  BY HereIsReader DEF IInv
<1>2. CASE ~sized
  <2>1. position' = 0
    BY <1>1, <1>2 DEF SeekFrom, Reader
  <2> QED
    BY <2>1, RecordNumbers DEF NoForeignDumps, AtPoint, Records
<1>3. CASE sized /\ (p = 0 \/ ~stream.isOpen \/ SeekOffset(p - 1) < 0)
  BY <1>3 DEF SeekDumps, NoDumps, NoForeignDumps
<1>4. CASE sized /\ p # 0 /\ stream.isOpen /\ ~(SeekOffset(p - 1) < 0)
  <2> DEFINE s == S!Seek(stream, SeekOffset(p - 1))
             t == [Here EXCEPT !.stream = s, !.current = NoPoint, !.position = p - 1]
  <2>1. p - 1 \in 0..(Word - 1) /\ SeekOffset(p - 1) \in Nat
    BY <1>4, SeekOffsetType, OffsetType, Sizes
  <2>2. stream \in S!Streams /\ SeekOffset(p - 1) \in Int /\ SeekOffset(p - 1) >= 0
    BY <1>1, <2>1 DEF Reader
  <2>3. s \in S!Streams /\ s.isOpen /\ ~s.fail /\ ~s.eof
    <3>1. s = [stream EXCEPT !.at = SeekOffset(p - 1), !.fail = FALSE, !.eof = FALSE]
      BY <1>4, <2>2 DEF S!Seek, S!Streams
    <3> QED
      BY <1>4, <2>1, <2>2, <3>1 DEF S!Streams
  <2>4. r \in NextFrom(file, t)
    BY <1>1, <1>4 DEF SeekFrom
  <2> HIDE DEF s
  <2>5. t \in Reader /\ t.stream = s
    BY <1>1, <2>1, <2>3, PointsOfTheModel DEF Reader
  <2> HIDE DEF t
  <2>6. r.stream.eof \/ (r.stream.isOpen /\ ~r.stream.fail)
    BY <1>1, <2>3, <2>4, <2>5, ReadsOpen
  <2>7. ReadDumps(OffsetOf(p - 1))
    BY <1>4 DEF SeekDumps
  <2> QED
    BY <2>6, <2>7, ReadIsOwn
<1> QED
  BY <1>2, <1>3, <1>4

-----------------------------------------------------------------------------
(* Steps.                                                                  *)

\* A step that leaves the point and its dumps alone.
LEMMA PointStays ==
  ASSUME NoForeignDumps, UNCHANGED <<file, current, position, dataFile, dumps>>
  PROVE  NoForeignDumps'
BY DEF NoForeignDumps, AtPoint, Records, ListOf

LEMMA LoadIsOwn == IInv' /\ LoadData => NoForeignDumps'
<1> SUFFICES ASSUME IInv', LoadData PROVE NoForeignDumps'
  OBVIOUS
<1>1. position' = 0
  BY DEF LoadData, LoadFile, LoadAbsent, LoadShort, LoadRejected, LoadBadData, LoadGood, Load
<1>2. DOMAIN file'.recs = 1..PointCount(file') /\ PointCount(file') \in Nat
  BY FileFacts DEF IInv, TypeOK, PointCount
<1> QED
  BY <1>1, <1>2 DEF NoForeignDumps, AtPoint, Records

LEMMA FetchIsOwn ==
  IInv /\ IInv' /\ ClosedAtEnd /\ NoForeignDumps /\ dataFile' = dataFile /\ FetchData
    => NoForeignDumps'
<1> SUFFICES ASSUME IInv, IInv', ClosedAtEnd, NoForeignDumps, dataFile' = dataFile, FetchData
             PROVE  NoForeignDumps'
  OBVIOUS
<1>1. CASE FetchSkip /\ NextDumps
  BY <1>1, NextIsOwn DEF FetchSkip, fileVars
<1>2. CASE FetchExit /\ NextDumps
  BY <1>2, NextIsOwn DEF FetchExit, NextWithin, fileVars
<1>3. CASE FetchInterrupt /\ NextDumps
  BY <1>3, NextIsOwn DEF FetchInterrupt, NextWithin, fileVars
<1>4. CASE FetchRepeated /\ NextDumps
  BY <1>4, NextIsOwn DEF FetchRepeated, NextWithin, fileVars
<1>5. CASE (FetchMissing \/ FetchEnter \/ FetchThrows) /\ UNCHANGED dumps
  BY <1>5, PointStays DEF FetchMissing, FetchEnter, FetchThrows, fileVars, readerVars
<1> QED
  BY <1>1, <1>2, <1>3, <1>4, <1>5 DEF FetchData

LEMMA CurrentEventIsOwn ==
  IInv /\ IInv' /\ NoForeignDumps /\ dataFile' = dataFile /\ CurrentEventData
    => NoForeignDumps'
<1> SUFFICES ASSUME IInv, IInv', NoForeignDumps, dataFile' = dataFile, CurrentEventData
             PROVE  NoForeignDumps'
  OBVIOUS
<1>1. CASE (FirstReturns \/ Merge \/ CallCurrentEvent \/ LookAhead \/ Keep) /\ UNCHANGED dumps
  BY <1>1, PointStays
     DEF FirstReturns, Merge, CallCurrentEvent, LookAhead, Keep, fileVars, readerVars
<1>2. CASE PutBack /\ SeekDumps(Before(draft.position))
  <2> DEFINE p == Before(draft.position)
  <2>1. p \in 0..(Word - 1)
    BY Sizes DEF Before, IInv, TypeOK, LocalsAreBounded, Events
  <2>2. PICK r \in SeekFrom(file, Here, p) : Become([r EXCEPT !.event = held])
    BY <1>2 DEF PutBack
  <2>3. SeekDumps(p) /\ file' = file
    BY <1>2 DEF PutBack, fileVars
  <2> HIDE DEF p
  <2>4. r \in Reader
    BY <2>1, SeekKeeps, HereIsReader DEF IInv, OpenIsSized
  <2>5. stream' = r.stream /\ position' = r.position
    BY <2>2, <2>4 DEF Become, Reader
  <2> QED
    BY <2>1, <2>3, <2>5, SeekIsOwn
<1> QED
  BY <1>1, <1>2 DEF CurrentEventData

LEMMA SeekDataIsOwn ==
  IInv /\ IInv' /\ NoForeignDumps /\ dataFile' = dataFile /\ SeekData => NoForeignDumps'
<1> SUFFICES ASSUME IInv, IInv', NoForeignDumps, dataFile' = dataFile, SeekData
             PROVE  NoForeignDumps'
  OBVIOUS
<1>1. CASE \E p \in SeekTargets : AdvanceTo(p) /\ SeekDumps(p)
  <2>1. PICK p \in SeekTargets : AdvanceTo(p) /\ SeekDumps(p)
    BY <1>1
  <2>2. p \in 0..(Word - 1)
    BY ConstantsAssumption, Sizes
  <2>3. PICK r \in SeekFrom(file, Here, p) : Become(r)
    BY <2>1 DEF AdvanceTo
  <2> QED
    BY <2>1, <2>2, <2>3, SeekIsOwn DEF Become, AdvanceTo, fileVars
<1>2. CASE ReloadBack /\ SeekDumps(target - 1)
  <2> DEFINE p == target - 1
  <2>1. p \in 0..(Word - 1)
    <3>1. target \in Nat /\ target < Word /\ position \in 0..(Word - 1)
      BY DEF IInv, TypeOK, LocalsAreBounded
    <3>2. target # 0
      BY <1>2, <3>1 DEF ReloadBack, IInv, LocalsAreBounded
    <3> QED
      BY <3>1, <3>2, Sizes
  <2>2. PICK r \in SeekFrom(file, Here, p) : Become(r)
    BY <1>2 DEF ReloadBack
  <2>3. SeekDumps(p) /\ file' = file
    BY <1>2 DEF ReloadBack, fileVars
  <2> HIDE DEF p
  <2> QED
    BY <2>1, <2>2, <2>3, SeekIsOwn DEF Become
<1>3. CASE /\ \E p \in EndArguments : SeekFromEnd(p)
           /\ IF sized THEN NoDumps ELSE UNCHANGED <<dataEof, dumps>>
  <2>1. CASE sized
    BY <1>3, <2>1 DEF NoDumps, NoForeignDumps
  <2>2. CASE ~sized
    <3>1. position' = 0 /\ file' = file
      BY <1>3, <2>2 DEF SeekFromEnd, fileVars
    <3> QED
      BY <3>1, RecordNumbers DEF NoForeignDumps, AtPoint, Records
  <2> QED
    BY <2>1, <2>2
<1>4. CASE (ReloadEvent \/ Validate) /\ UNCHANGED dumps
  BY <1>4, PointStays DEF ReloadEvent, Validate, fileVars, readerVars
<1> QED
  BY <1>1, <1>2, <1>3, <1>4 DEF SeekData

LEMMA DataStepIsOwn ==
  IInv /\ IInv' /\ ClosedAtEnd /\ NoForeignDumps /\ [DataStep]_<<vars, dataVars>>
    => NoForeignDumps'
<1> SUFFICES ASSUME IInv, IInv', ClosedAtEnd, NoForeignDumps, [DataStep]_<<vars, dataVars>>
             PROVE  NoForeignDumps'
  OBVIOUS
<1>1. CASE LoadData
  BY <1>1, LoadIsOwn
<1>2. CASE CallNextData /\ UNCHANGED dataFile
  BY <1>2, NextIsOwn DEF CallNextData, CallNext, fileVars
<1>3. CASE FetchData /\ UNCHANGED dataFile
  BY <1>3, FetchIsOwn
<1>4. CASE CurrentEventData /\ UNCHANGED dataFile
  BY <1>4, CurrentEventIsOwn
<1>5. CASE SeekData /\ UNCHANGED dataFile
  BY <1>5, SeekDataIsOwn
<1>6. CASE SpinData
  BY <1>6 DEF SpinData, NoDumps, NoForeignDumps
<1>7. CASE UNCHANGED <<vars, dataVars>>
  BY <1>7, PointStays DEF vars, dataVars, pointData
<1> QED
  BY <1>1, <1>2, <1>3, <1>4, <1>5, <1>6, <1>7 DEF DataStep

-----------------------------------------------------------------------------
(* A whole data file.                                                      *)

\* No list of it meets the end.
LEMMA WholeListsEnd ==
  ASSUME dataFile \in DataFileType, DataIsWhole, NEW k \in 1..Len(dataFile.cells)
  PROVE  ~HitsEnd(dataFile, k)
<1> DEFINE cells == dataFile.cells
           n == Len(cells)
           T == {m \in k..(k + n) : m > n \/ cells[m] \in {End, Torn}}
<1>1. cells \in Seq(Nat) /\ n \in Nat /\ cells # <<>> /\ DOMAIN cells = 1..n
  BY DEF DataFileType
<1>2. cells[n] = End
  BY <1>1 DEF DataIsWhole, Last
<1>3. n \in T /\ T \in SUBSET Nat
  BY <1>1, <1>2
<1>4. Min(T) \in T /\ Min(T) <= n
  <2> HIDE DEF T
  <2> QED
    BY <1>3, MinIs
<1>5. StopFrom(dataFile, k) = Min(T)
  BY DEF StopFrom
<1>6. Min(T) \in 1..n
  BY <1>1, <1>4
<1>7. cells[Min(T)] # Torn
  <2> HIDE DEF T
  <2> QED
    BY <1>1, <1>6 DEF DataIsWhole, Range
<1> HIDE DEF T
<1> QED
  BY <1>5, <1>6, <1>7 DEF HitsEnd

\* The end of the data file is met by no reading of a whole one, unless the
\* records have no lists at all.
NoLists == Range(dataFile.offsets) \subseteq {0}

EndNotMet == DataIsWhole /\ stream.isOpen => ~dataEof \/ NoLists

LEMMA OffsetIsCell ==
  ASSUME dataFile \in DataFileType, DataIsWhole, NEW offset
  PROVE  /\ DataOffset(dataFile, offset) # 0 =>
              DataOffset(dataFile, offset) \in 1..Len(dataFile.cells)
         /\ NoLists => DataOffset(dataFile, offset) = 0
<1> DEFINE i == ((offset - HeaderSize) \div 2) + 1
<1>1. Len(dataFile.cells) \in Nat
  BY DEF DataFileType
<1>2. ASSUME i \in DOMAIN dataFile.offsets
      PROVE  dataFile.offsets[i] \in Range(dataFile.offsets)
  BY <1>2 DEF Range
<1>3. \/ DataOffset(dataFile, offset) = 0
      \/ i \in DOMAIN dataFile.offsets /\ DataOffset(dataFile, offset) = dataFile.offsets[i]
  BY DEF DataOffset
<1> HIDE DEF i
<1> QED
  BY <1>1, <1>2, <1>3 DEF DataIsWhole, NoLists

LEMMA EofStays ==
  ASSUME dataFile \in DataFileType, DataIsWhole, NEW offsets
  PROVE  ~dataEof => ~EofAfter(dataFile, dataEof, offsets)
BY OffsetIsCell, WholeListsEnd DEF EofAfter

\* The list that a record leads to, read whole.
LEMMA ListIsRead ==
  ASSUME dataFile \in DataFileType, DataIsWhole, NEW eof, ~eof \/ NoLists,
         NEW i \in Nat, i > 0,
         NEW offset \in Int, offset = HeaderSize + 2 * (i - 1)
  PROVE  Collected(dataFile, eof, offset) = ListOf(i)
<1>1. HeaderSize \in Nat /\ HeaderSize = 2 * HeaderSlots /\ HeaderSlots \in Nat
  BY Sizes DEF HeaderSize
<1>2. /\ offset >= HeaderSize
      /\ offset - HeaderSize = 2 * (i - 1)
      /\ offset = 2 * (HeaderSlots + i - 1)
  BY <1>1
<1>3. ((offset - HeaderSize) \div 2) + 1 = i /\ offset % 2 = 0
  BY <1>1, <1>2
<1>4. DataOffset(dataFile, offset) =
        IF i \in DOMAIN dataFile.offsets THEN dataFile.offsets[i] ELSE 0
  BY <1>2, <1>3 DEF DataOffset
<1>5. NoLists => DataOffset(dataFile, offset) = 0
  BY OffsetIsCell
<1> QED
  BY <1>4, <1>5 DEF Collected, ListOf

DataInv == dataFile \in DataFileType /\ EndNotMet /\ PointCarriesItsDumps

\* Once a record was read, the point reached has all dumps of its record.
LEMMA ReadCarries ==
  ASSUME IInv', DataInv, dataFile' = dataFile, NEW from, ReadDumps(from),
         stream.isOpen, stream'.eof <=> stream'.fail
  PROVE  DataInv'
<1>1. EndNotMet'
  <2> SUFFICES ASSUME DataIsWhole PROVE ~dataEof' \/ NoLists'
    BY DEF EndNotMet, DataIsWhole
  <2>1. ~dataEof => ~dataEof'
    BY EofStays DEF ReadDumps, DataInv
  <2> QED
    BY <2>1 DEF DataInv, EndNotMet, NoLists
<1>2. PointCarriesItsDumps'
  <2> SUFFICES ASSUME DataIsWhole, OnRecord' PROVE dumps' = ListOf(position)'
    BY DEF PointCarriesItsDumps, DataIsWhole
  <2> DEFINE last == stream'.at - RecordSize
             read == {o \in from..last : (o - from) % RecordSize = 0}
             e == EofAfter(dataFile, dataEof, read \ {last})
  <2>1. ~stream'.eof
    BY DEF OnRecord, Readable
  <2>2. dumps' = Collected(dataFile, e, last)
    BY <2>1 DEF ReadDumps
  <2>3. ~e \/ NoLists
    BY EofStays DEF DataInv, EndNotMet
  <2>4. /\ IsFile(file)' /\ stream' \in S!Streams /\ Consistent(file, Here)'
        /\ Here'.stream = stream' /\ Here'.position = position'
        /\ position' \in 0..(Word - 1)
    BY DEF IInv, TypeOK, Here
  <2>5. stream'.at \in Nat /\ RecordSize = 2 /\ OffsetOf(position') \in Nat
        /\ OffsetOf(position') % 2 = 0
    BY <2>4, OffsetType DEF S!Streams, RecordSize
  <2>6. stream'.at = OffsetOf(position')
    <3>1. OffsetOf(position') \in {stream'.at, stream'.at - 1}
      BY <2>4 DEF Consistent, Stalls, OnRecord, Readable
    <3> QED
      BY <2>5, <3>1 DEF OnRecord, Aligned
  <2>7. /\ position' \in 1..PointCount(file') /\ PointCount(file') \in Nat
        /\ 2 * HeaderSlots + PointCount(file') + 2 < RecordQuotient
    <3>1. DOMAIN file'.recs = 1..PointCount(file')
      BY <2>4, FileFacts DEF PointCount
    <3> QED
      BY <2>4, <3>1, FileFacts DEF OnRecord, Records
  <2>8. /\ position' \in Nat /\ position' > 0
        /\ last \in Int /\ last = HeaderSize + 2 * (position' - 1)
    BY <2>5, <2>6, <2>7, Sizes DEF OffsetOf, HeaderSize
  <2> HIDE DEF last, e
  <2>9. Collected(dataFile, e, last) = ListOf(position')
    BY <2>3, <2>8, ListIsRead DEF DataInv
  <2> QED
    BY <2>2, <2>9 DEF ListOf
<1> QED
  BY <1>1, <1>2 DEF DataInv

\* A step after which the reader is on no record, its data file not read.
LEMMA NoRecord ==
  ASSUME DataInv, ~OnRecord', UNCHANGED <<dataFile, dataEof>>, stream'.isOpen => stream.isOpen
  PROVE  DataInv'
BY DEF DataInv, EndNotMet, PointCarriesItsDumps, DataIsWhole, NoLists

\* A step that leaves the point and its dumps alone.
LEMMA DataStays ==
  ASSUME DataInv, UNCHANGED <<file, stream, current, position, dataFile, dataEof, dumps>>
  PROVE  DataInv'
BY DEF DataInv, EndNotMet, PointCarriesItsDumps, OnRecord, Readable, Aligned, Records,
   DataIsWhole, NoLists, ListOf

LEMMA NextCarries ==
  ASSUME IInv, IInv', ClosedAtEnd, DataInv, dataFile' = dataFile, file' = file,
         NEW r \in NextFrom(file, Here), Become(r), NextDumps
  PROVE  DataInv'
<1>1. Here \in Reader /\ IsFile(file) /\ Here.stream = stream
  BY HereIsReader DEF IInv
<1>2. CASE stream.eof
  <2>1. r = Here
    BY <1>1, <1>2, ClosedNext
  <2>2. UNCHANGED <<stream, current, position, dataEof, dumps>>
    BY <1>2, <2>1 DEF Become, Here, NextDumps
  <2> QED
    BY <2>2, DataStays
<1>3. CASE ~stream.eof /\ stream.fail
  <2>1. stream'.fail /\ stream'.isOpen = stream.isOpen
    BY <1>1, <1>3, NextKeeps, ReadsFailed DEF Become, IInv
  <2>2. ~OnRecord'
    BY <2>1 DEF OnRecord, Readable
  <2> QED
    BY <1>3, <2>1, <2>2, NoRecord DEF NextDumps, NoDumps
<1>4. CASE ~stream.eof /\ ~stream.fail
  <2>1. r.stream.isOpen /\ (r.stream.eof <=> r.stream.fail)
    BY <1>1, <1>4, ReadsOpen DEF ClosedAtEnd
  <2>2. ReadDumps(stream.at) /\ stream' = r.stream
    BY <1>4 DEF NextDumps, Become
  <2>3. stream.isOpen
    BY <1>4 DEF ClosedAtEnd
  <2> QED
    BY <2>1, <2>2, <2>3, ReadCarries
<1> QED
  BY <1>2, <1>3, <1>4

LEMMA SeekCarries ==
  ASSUME IInv, IInv', DataInv, dataFile' = dataFile, file' = file,
         NEW p \in 0..(Word - 1), NEW r \in SeekFrom(file, Here, p),
         stream' = r.stream, position' = r.position, current' = r.current, SeekDumps(p)
  PROVE  DataInv'
<1>1. Here \in Reader /\ IsFile(file) /\ Here.stream = stream
  BY HereIsReader DEF IInv
<1>2. stream'.isOpen = stream.isOpen
  BY <1>1, SeekKeeps DEF IInv, OpenIsSized
<1>3. CASE ~stream.isOpen
  <2>1. ~OnRecord'
    BY <1>2, <1>3 DEF OnRecord, Readable
  <2> QED
    BY <1>2, <1>3, <2>1, NoRecord DEF SeekDumps, NoDumps
<1>4. CASE stream.isOpen /\ p = 0
  <2>1. sized
    BY <1>4 DEF IInv, OpenIsSized
  <2>2. current' = NoPoint
    BY <1>1, <1>4, <2>1 DEF SeekFrom, Reader
  <2>3. ~OnRecord'
    BY <2>2 DEF OnRecord
  <2> QED
    BY <1>2, <1>4, <2>1, <2>3, NoRecord DEF SeekDumps, NoDumps
<1>5. CASE p # 0 /\ stream.isOpen /\ SeekOffset(p - 1) < 0
  <2> DEFINE s == S!Seek(stream, SeekOffset(p - 1))
             t == [Here EXCEPT !.stream = s, !.current = NoPoint, !.position = p - 1]
  <2>1. s.fail /\ t.stream = s
    <3>1. stream \in S!Streams /\ Here.stream = stream
      BY <1>1 DEF Reader
    <3>2. s.fail
      BY <1>5, <3>1, SeekOffsetType, Sizes DEF S!Seek, S!Streams
    <3>3. t.stream = s
      BY <1>1 DEF Reader
    <3> QED
      BY <3>2, <3>3
  <2>2. sized
    BY <1>5 DEF IInv, OpenIsSized
  <2>3. r \in NextFrom(file, t)
    BY <1>1, <1>5, <2>2 DEF SeekFrom
  <2> HIDE DEF t
  <2>4. ~OnRecord'
    BY <2>1, <2>3, ReadsFailed DEF OnRecord, Readable
  <2> QED
    BY <1>2, <1>5, <2>2, <2>4, NoRecord DEF SeekDumps, NoDumps
<1>6. CASE p # 0 /\ stream.isOpen /\ ~(SeekOffset(p - 1) < 0)
  <2> DEFINE s == S!Seek(stream, SeekOffset(p - 1))
             t == [Here EXCEPT !.stream = s, !.current = NoPoint, !.position = p - 1]
  <2>0. sized
    BY <1>6 DEF IInv, OpenIsSized
  <2>1. p - 1 \in 0..(Word - 1) /\ SeekOffset(p - 1) \in Nat
    BY <1>6, SeekOffsetType, OffsetType, Sizes
  <2>2. stream \in S!Streams /\ SeekOffset(p - 1) \in Int /\ SeekOffset(p - 1) >= 0
    BY <1>1, <2>1 DEF Reader
  <2>3. s \in S!Streams /\ s.isOpen /\ ~s.fail /\ ~s.eof
    <3>1. s = [stream EXCEPT !.at = SeekOffset(p - 1), !.fail = FALSE, !.eof = FALSE]
      BY <1>6, <2>2 DEF S!Seek, S!Streams
    <3> QED
      BY <1>6, <2>1, <2>2, <3>1 DEF S!Streams
  <2>4. r \in NextFrom(file, t)
    BY <1>1, <1>6, <2>0 DEF SeekFrom
  <2> HIDE DEF s
  <2>5. t \in Reader /\ t.stream = s
    BY <1>1, <2>1, <2>3, PointsOfTheModel DEF Reader
  <2> HIDE DEF t
  <2>6. r.stream.eof <=> r.stream.fail
    BY <1>1, <2>3, <2>4, <2>5, ReadsOpen
  <2>7. ReadDumps(OffsetOf(p - 1))
    BY <1>6, <2>0 DEF SeekDumps
  <2> QED
    BY <1>6, <2>6, <2>7, ReadCarries
<1> QED
  BY <1>3, <1>4, <1>5, <1>6

LEMMA LoadCarries == IInv' /\ DataInv /\ LoadData => DataInv'
<1> SUFFICES ASSUME IInv', DataInv, LoadData PROVE DataInv'
  OBVIOUS
<1>1. position' = 0
  BY DEF LoadData, LoadFile, LoadAbsent, LoadShort, LoadRejected, LoadBadData, LoadGood, Load
<1>2. ~OnRecord'
  <2>1. DOMAIN file'.recs = 1..PointCount(file') /\ PointCount(file') \in Nat
    BY FileFacts DEF IInv, TypeOK, PointCount
  <2> QED
    BY <1>1, <2>1 DEF OnRecord, Records
<1>3. PICK f \in Files \cup Reloads :
        /\ file' = f
        /\ LoadAbsent(f) \/ LoadShort(f) \/ LoadRejected(f) \/ LoadBadData(f) \/ LoadGood(f)
  BY DEF LoadData, LoadFile, Loadable, LoadAbsent, LoadShort, LoadRejected, LoadBadData,
     LoadGood, Load
<1>0. ~S!Load(FALSE).isOpen /\ ~S!Close(S!Load(TRUE)).isOpen
  BY DEF S!Load, S!Close
<1>4. CASE f.kind \notin {"good", "bad_data"}
  <2>1. ~stream'.isOpen
    BY <1>0, <1>3, <1>4 DEF LoadAbsent, LoadShort, LoadRejected, LoadBadData, LoadGood, Load
  <2>2. UNCHANGED <<dataFile, dataEof>>
    BY <1>3, <1>4 DEF LoadData
  <2> QED
    BY <1>2, <2>1, <2>2, NoRecord
<1>5. CASE f.kind \in {"good", "bad_data"} /\ f.version = 0
  <2>1. dataFile' = [dataFile EXCEPT !.offsets = <<>>]
    BY <1>3, <1>5 DEF LoadData
  <2>2. dataFile' \in DataFileType /\ dataFile'.offsets = <<>>
    <3>1. <<>> \in Seq(Nat) /\ dataFile \in DataFileType
      BY DEF DataInv
    <3> QED
      BY <2>1, <3>1 DEF DataFileType
  <2>3. NoLists'
    BY <2>2 DEF NoLists, Range
  <2> QED
    BY <1>2, <2>2, <2>3 DEF DataInv, EndNotMet, PointCarriesItsDumps
<1>6. CASE f.kind = "bad_data" /\ f.version # 0
  <2>1. ~stream'.isOpen
    BY <1>0, <1>3, <1>6 DEF LoadAbsent, LoadShort, LoadRejected, LoadBadData, LoadGood, Load
  <2>2. dataFile' = dataFile
    BY <1>3, <1>6 DEF LoadData
  <2> QED
    BY <1>2, <2>1, <2>2 DEF DataInv, EndNotMet, PointCarriesItsDumps
<1>7. CASE f.kind = "good" /\ f.version # 0
  <2>1. PICK d \in DataFilesFor(f) : dataFile' = d /\ dataEof' = ~d.exists
    BY <1>3, <1>7 DEF LoadData
  <2>2. dataFile' \in DataFileType
    BY <2>1, DataFilesAssumption
  <2> QED
    BY <1>2, <2>1, <2>2 DEF DataInv, EndNotMet, PointCarriesItsDumps, DataIsWhole
<1> QED
  BY <1>4, <1>5, <1>6, <1>7

LEMMA FetchCarries ==
  IInv /\ IInv' /\ ClosedAtEnd /\ DataInv /\ dataFile' = dataFile /\ FetchData => DataInv'
<1> SUFFICES ASSUME IInv, IInv', ClosedAtEnd, DataInv, dataFile' = dataFile, FetchData
             PROVE  DataInv'
  OBVIOUS
<1>1. CASE FetchSkip /\ NextDumps
  BY <1>1, NextCarries DEF FetchSkip, fileVars
<1>2. CASE FetchExit /\ NextDumps
  BY <1>2, NextCarries DEF FetchExit, NextWithin, fileVars
<1>3. CASE FetchInterrupt /\ NextDumps
  BY <1>3, NextCarries DEF FetchInterrupt, NextWithin, fileVars
<1>4. CASE FetchRepeated /\ NextDumps
  BY <1>4, NextCarries DEF FetchRepeated, NextWithin, fileVars
<1>5. CASE (FetchMissing \/ FetchEnter \/ FetchThrows) /\ UNCHANGED <<dataEof, dumps>>
  BY <1>5, DataStays DEF FetchMissing, FetchEnter, FetchThrows, fileVars, readerVars
<1> QED
  BY <1>1, <1>2, <1>3, <1>4, <1>5 DEF FetchData

LEMMA CurrentEventCarries ==
  IInv /\ IInv' /\ DataInv /\ dataFile' = dataFile /\ CurrentEventData => DataInv'
<1> SUFFICES ASSUME IInv, IInv', DataInv, dataFile' = dataFile, CurrentEventData
             PROVE  DataInv'
  OBVIOUS
<1>1. CASE /\ FirstReturns \/ Merge \/ CallCurrentEvent \/ LookAhead \/ Keep
           /\ UNCHANGED <<dataEof, dumps>>
  BY <1>1, DataStays
     DEF FirstReturns, Merge, CallCurrentEvent, LookAhead, Keep, fileVars, readerVars
<1>2. CASE PutBack /\ SeekDumps(Before(draft.position))
  <2> DEFINE p == Before(draft.position)
  <2>1. p \in 0..(Word - 1)
    BY Sizes DEF Before, IInv, TypeOK, LocalsAreBounded, Events
  <2>2. PICK r \in SeekFrom(file, Here, p) : Become([r EXCEPT !.event = held])
    BY <1>2 DEF PutBack
  <2>3. SeekDumps(p) /\ file' = file
    BY <1>2 DEF PutBack, fileVars
  <2> HIDE DEF p
  <2>4. r \in Reader
    BY <2>1, SeekKeeps, HereIsReader DEF IInv, OpenIsSized
  <2>5. stream' = r.stream /\ position' = r.position /\ current' = r.current
    BY <2>2, <2>4 DEF Become, Reader
  <2> QED
    BY <2>1, <2>3, <2>5, SeekCarries
<1> QED
  BY <1>1, <1>2 DEF CurrentEventData

LEMMA SeekDataCarries ==
  IInv /\ IInv' /\ DataInv /\ dataFile' = dataFile /\ SeekData => DataInv'
<1> SUFFICES ASSUME IInv, IInv', DataInv, dataFile' = dataFile, SeekData
             PROVE  DataInv'
  OBVIOUS
<1>1. CASE \E p \in SeekTargets : AdvanceTo(p) /\ SeekDumps(p)
  <2>1. PICK p \in SeekTargets : AdvanceTo(p) /\ SeekDumps(p)
    BY <1>1
  <2>2. p \in 0..(Word - 1)
    BY ConstantsAssumption, Sizes
  <2>3. PICK r \in SeekFrom(file, Here, p) : Become(r)
    BY <2>1 DEF AdvanceTo
  <2> QED
    BY <2>1, <2>2, <2>3, SeekCarries DEF Become, AdvanceTo, fileVars
<1>2. CASE ReloadBack /\ SeekDumps(target - 1)
  <2> DEFINE p == target - 1
  <2>1. p \in 0..(Word - 1)
    BY <1>2, ReloadTarget
  <2>2. PICK r \in SeekFrom(file, Here, p) : Become(r)
    BY <1>2 DEF ReloadBack
  <2>3. SeekDumps(p) /\ file' = file
    BY <1>2 DEF ReloadBack, fileVars
  <2> HIDE DEF p
  <2> QED
    BY <2>1, <2>2, <2>3, SeekCarries DEF Become
<1>3. CASE /\ \E p \in EndArguments : SeekFromEnd(p)
           /\ IF sized THEN NoDumps ELSE UNCHANGED <<dataEof, dumps>>
  <2>1. CASE sized
    <3>1. current' = NoPoint /\ stream'.isOpen = stream.isOpen
      BY <1>3, <2>1, OpenAfterEnd DEF SeekFromEnd
    <3>2. ~OnRecord'
      BY <3>1 DEF OnRecord
    <3> QED
      BY <1>3, <2>1, <3>1, <3>2, NoRecord DEF NoDumps
  <2>2. CASE ~sized
    <3>1. stream' = stream /\ ~stream.isOpen
      BY <1>3, <2>2 DEF SeekFromEnd, IInv, OpenIsSized
    <3>2. ~OnRecord'
      BY <3>1 DEF OnRecord, Readable
    <3> QED
      BY <1>3, <2>2, <3>1, <3>2, NoRecord
  <2> QED
    BY <2>1, <2>2
<1>4. CASE (ReloadEvent \/ Validate) /\ UNCHANGED <<dataEof, dumps>>
  BY <1>4, DataStays DEF ReloadEvent, Validate, fileVars, readerVars
<1> QED
  BY <1>1, <1>2, <1>3, <1>4 DEF SeekData

LEMMA DataInitHolds == DataInit => IInv /\ ClosedAtEnd /\ DataInv
<1> SUFFICES ASSUME DataInit PROVE IInv /\ ClosedAtEnd /\ DataInv
  OBVIOUS
<1>1. IInv /\ ClosedAtEnd
  BY InitHolds, InitClosed DEF DataInit
<1>2. dataFile = NoDataFile /\ ~NoDataFile.exists /\ NoDataFile \in DataFileType
  BY DEF DataInit, NoDataFile, DataFileType
<1> QED
  BY <1>1, <1>2 DEF DataInv, EndNotMet, PointCarriesItsDumps, DataIsWhole

LEMMA DataStepCarries ==
  IInv /\ IInv' /\ ClosedAtEnd /\ DataInv /\ [DataStep]_<<vars, dataVars>> => DataInv'
<1> SUFFICES ASSUME IInv, IInv', ClosedAtEnd, DataInv, [DataStep]_<<vars, dataVars>>
             PROVE  DataInv'
  OBVIOUS
<1>1. CASE LoadData
  BY <1>1, LoadCarries
<1>2. CASE CallNextData /\ UNCHANGED dataFile
  BY <1>2, NextCarries DEF CallNextData, CallNext, fileVars
<1>3. CASE FetchData /\ UNCHANGED dataFile
  BY <1>3, FetchCarries
<1>4. CASE CurrentEventData /\ UNCHANGED dataFile
  BY <1>4, CurrentEventCarries
<1>5. CASE SeekData /\ UNCHANGED dataFile
  BY <1>5, SeekDataCarries
<1>6. CASE SpinData /\ UNCHANGED dataFile
  <2>1. stream.fail /\ stream' = stream
    BY <1>6, HereIsReader DEF SpinData, CallNextSpins, FetchSpins, Spin, Spins, readerVars,
       IInv, SpinsOnFailure, Stalls
  <2>2. ~OnRecord'
    BY <2>1 DEF OnRecord, Readable
  <2> QED
    BY <1>6, <2>1, <2>2, NoRecord DEF SpinData, NoDumps
<1>7. CASE UNCHANGED <<vars, dataVars>>
  BY <1>7, DataStays DEF vars, dataVars, pointData
<1> QED
  BY <1>1, <1>2, <1>3, <1>4, <1>5, <1>6, <1>7 DEF DataStep

-----------------------------------------------------------------------------
(* The dumps of an event.                                                  *)

LEMMA ListIsSeq ==
  ASSUME dataFile \in DataFileType, DataIsWhole, NEW i
  PROVE  ListOf(i) \in Seq(Nat)
<1> DEFINE cells == dataFile.cells
           n == Len(cells)
<1>1. cells \in Seq(Nat) /\ n \in Nat /\ DOMAIN cells = 1..n
  BY DEF DataFileType
<1>2. n # 0 => cells[n] = End
  BY <1>1 DEF DataIsWhole, Last
<1>3. ASSUME NEW k \in 1..n PROVE ListAt(dataFile, k) \in Seq(Nat)
  <2> DEFINE T == {m \in k..(k + n) : m > n \/ cells[m] \in {End, Torn}}
  <2>1. n \in T /\ T \in SUBSET Nat
    BY <1>1, <1>2, <1>3
  <2>2. StopFrom(dataFile, k) = Min(T)
    BY DEF StopFrom
  <2>3. Min(T) \in T /\ Min(T) <= n
    <3> HIDE DEF T
    <3> QED
      BY <2>1, MinIs
  <2>4. PICK m \in k..n : m = Min(T)
    <3>1. Min(T) \in k..(k + n)
      BY <2>3
    <3> HIDE DEF T
    <3> QED
      BY <1>1, <1>3, <2>3, <3>1
  <2> HIDE DEF T
  <2>5. SubSeq(cells, k, m - 1) \in Seq(Nat)
    <3>1. k \in Nat /\ k >= 1 /\ m - 1 \in Nat /\ k - 1 <= m - 1 /\ m - 1 <= Len(cells)
      BY <1>1, <1>3, <2>4
    <3> HIDE DEF cells
    <3> QED
      BY <1>1, <3>1, PartIsSeq
  <2>6. <<Torn>> \in Seq(Nat) /\ <<>> \in Seq(Nat)
    BY DEF Torn
  <2> HIDE DEF n, cells
  <2>7. (IF m <= n /\ cells[m] = Torn THEN <<Torn>> ELSE <<>>) \in Seq(Nat)
    BY <2>6
  <2>8. ListAt(dataFile, k) =
          SubSeq(cells, k, m - 1) \o (IF m <= n /\ cells[m] = Torn THEN <<Torn>> ELSE <<>>)
    BY <2>2, <2>4 DEF ListAt, n, cells
  <2> QED
    BY <2>5, <2>7, <2>8, ConcatIs
<1>4. ASSUME i \in DOMAIN dataFile.offsets, dataFile.offsets[i] # 0
      PROVE  dataFile.offsets[i] \in 1..n
  <2>1. dataFile.offsets[i] \in Range(dataFile.offsets)
    BY <1>4 DEF Range
  <2> QED
    BY <1>1, <1>4, <2>1 DEF DataIsWhole
<1>5. <<>> \in Seq(Nat)
  OBVIOUS
<1> QED
  BY <1>3, <1>4, <1>5 DEF ListOf

\* One record more.
Added(R, x, j) == IF Contributes(R, x, j) THEN ListOf(j) ELSE <<>>

LEMMA AddedIsSeq ==
  ASSUME dataFile \in DataFileType, DataIsWhole, NEW R, NEW x, NEW j
  PROVE  Added(R, x, j) \in Seq(Nat)
<1>1. <<>> \in Seq(Nat)
  OBVIOUS
<1> QED
  BY <1>1, ListIsSeq DEF Added

LEMMA GatheredNext ==
  ASSUME dataFile \in DataFileType, DataIsWhole,
         NEW R, NEW x \in Nat, NEW p \in Nat, p + 1 >= x
  PROVE  /\ Gathered(R, x, p) \in Seq(Nat)
         /\ Gathered(R, x, p + 1) = Gathered(R, x, p) \o Added(R, x, p + 1)
<1> DEFINE n == (p + 1) - x
           items(k) == [i \in 1..k |-> Added(R, x, x + i - 1)]
<1>1. n \in Nat /\ (p + 1) - x + 1 = n + 1 /\ p - x + 1 = n /\ x + (n + 1) - 1 = p + 1
  OBVIOUS
<1>2. ASSUME NEW k \in Nat PROVE items(k) \in Seq(Seq(Nat)) /\ Len(items(k)) = k
  <2>1. \A i \in 1..k : Added(R, x, x + i - 1) \in Seq(Nat)
    BY AddedIsSeq
  <2>2. items(k) \in [1..k -> Seq(Nat)]
    BY <2>1
  <2> HIDE DEF items
  <2> QED
    BY <2>2
<1>3. Gathered(R, x, p) = FlattenSeq(items(n)) /\ Gathered(R, x, p + 1) = FlattenSeq(items(n + 1))
  <2>1. \A r \in Nat :
          Gathered(R, x, r) = FlattenSeq([i \in 1..(r - x + 1) |-> Added(R, x, x + i - 1)])
    BY DEF Gathered, Added
  <2>2. p + 1 \in Nat
    OBVIOUS
  <2> QED
    BY <1>1, <2>1, <2>2
<1>4. /\ Flat(items(n + 1), n) = FlattenSeq(items(n))
      /\ Flat(items(n + 1), n + 1) = FlattenSeq(items(n + 1))
      /\ items(n + 1)[n + 1] = Added(R, x, p + 1)
  <2>1. /\ \A i \in 1..(n + 1) : items(n + 1)[i] = Added(R, x, x + i - 1)
        /\ \A i \in 1..n : items(n)[i] = Added(R, x, x + i - 1)
        /\ DOMAIN items(n) = 1..n /\ DOMAIN items(n + 1) = 1..(n + 1)
    OBVIOUS
  <2>2. n \in Nat /\ n + 1 \in Nat /\ n <= n + 1 /\ n + 1 <= n + 1 /\ n + 1 \in 1..(n + 1)
        /\ 1..n \subseteq 1..(n + 1)
    BY <1>1
  <2>3. items(n) \in Seq(Seq(Nat)) /\ items(n + 1) \in Seq(Seq(Nat))
        /\ Len(items(n)) = n /\ Len(items(n + 1)) = n + 1
    BY <1>2, <2>2
  <2> HIDE DEF items, n
  <2>4. /\ SubSeq(items(n + 1), 1, n) \in Seq(Seq(Nat)) /\ Len(SubSeq(items(n + 1), 1, n)) = n
        /\ \A i \in 1..n : SubSeq(items(n + 1), 1, n)[i] = items(n + 1)[i]
    BY <2>2, <2>3, FirstItems
  <2>5. /\ SubSeq(items(n + 1), 1, n + 1) \in Seq(Seq(Nat))
        /\ Len(SubSeq(items(n + 1), 1, n + 1)) = n + 1
        /\ \A i \in 1..(n + 1) : SubSeq(items(n + 1), 1, n + 1)[i] = items(n + 1)[i]
    BY <2>2, <2>3, FirstItems
  <2>6. SubSeq(items(n + 1), 1, n) = items(n)
    <3> DEFINE s == SubSeq(items(n + 1), 1, n)
    <3>1. \A i \in 1..n : s[i] = items(n)[i]
      BY <2>1, <2>2, <2>4
    <3>2. s \in Seq(Seq(Nat)) /\ Len(s) = n
      BY <2>4
    <3> HIDE DEF s
    <3>3. s = items(n)
      BY <2>3, <3>1, <3>2, SameSequence
    <3> QED
      BY <3>3 DEF s
  <2>7. SubSeq(items(n + 1), 1, n + 1) = items(n + 1)
    BY <2>3, <2>5, SameSequence
  <2>8. items(n + 1)[n + 1] = Added(R, x, p + 1)
    BY <1>1, <2>1, <2>2
  <2> QED
    BY <2>6, <2>7, <2>8 DEF Flat
<1> QED
  <2>1. n + 1 \in Nat /\ n + 1 <= n + 1
    BY <1>1
  <2>2. items(n + 1) \in Seq(Seq(Nat)) /\ Len(items(n + 1)) = n + 1 /\ items(n) \in Seq(Seq(Nat))
    BY <1>1, <1>2, <2>1
  <2> HIDE DEF items, n
  <2>3. Flat(items(n + 1), n + 1) = Flat(items(n + 1), n) \o items(n + 1)[n + 1]
    BY <1>1, <2>1, <2>2, FlattenNext
  <2>4. FlattenSeq(items(n)) \in Seq(Nat)
    BY <2>2, FlattenType
  <2> QED
    BY <1>3, <1>4, <2>3, <2>4

\* What is gathered is a list of dumps.
LEMMA GatheredType ==
  ASSUME dataFile \in DataFileType, DataIsWhole,
         NEW R, NEW x \in Nat, NEW p \in Nat, p >= x
  PROVE  Gathered(R, x, p) \in Seq(Nat)
<1> p + 1 >= x
  OBVIOUS
<1> QED
  BY GatheredNext

LEMMA DumpsOfType ==
  ASSUME dataFile \in DataFileType, DataIsWhole, NEW R \in Seq(Points), NEW x \in 1..Len(R)
  PROVE  DumpsOf(R, x) \in Seq(Nat)
<1>1. /\ EndOf(R, x) \in x..Reach(R, x) /\ Reach(R, x) \in x..Len(R) /\ Len(R) \in Nat
  BY EndFacts, ReachFacts
<1>2. x \in Nat /\ EndOf(R, x) \in Nat /\ EndOf(R, x) >= x
  BY <1>1
<1> QED
  BY <1>2, GatheredType DEF DumpsOf

\* The first record of an event.
LEMMA GatheredFirst ==
  ASSUME dataFile \in DataFileType, DataIsWhole, NEW R, NEW x \in Nat, x >= 1
  PROVE  Gathered(R, x, x) = ListOf(x)
<1>1. x - 1 \in Nat /\ (x - 1) + 1 = x /\ x - 1 - x + 1 = 0
  OBVIOUS
<1>2. /\ Gathered(R, x, x) = Gathered(R, x, x - 1) \o Added(R, x, x)
  <2>1. (x - 1) + 1 >= x
    BY <1>1
  <2>2. Gathered(R, x, (x - 1) + 1) = Gathered(R, x, x - 1) \o Added(R, x, (x - 1) + 1)
    BY <1>1, <2>1, GatheredNext
  <2> QED
    BY <1>1, <2>2
<1>3. Gathered(R, x, x - 1) = <<>>
  <2>1. \A F : [n \in 1..0 |-> F[n]] = <<>>
    OBVIOUS
  <2>2. [n \in 1..((x - 1) - x + 1) |->
           LET j == x + n - 1 IN IF Contributes(R, x, j) THEN ListOf(j) ELSE <<>>] = <<>>
    BY <1>1
  <2> QED
    BY <2>2, FlattenEmpty DEF Gathered
<1>4. Added(R, x, x) = ListOf(x)
  BY DEF Added, Contributes
<1> QED
  BY <1>2, <1>3, <1>4, ListIsSeq

\* Identical records give their dumps once.
LEMMA GatheredRun ==
  ASSUME dataFile \in DataFileType, DataIsWhole,
         NEW R \in Seq(Points), NEW x \in 1..Len(R), NEW p \in x..Len(R), NEW q, Run(R, p, q)
  PROVE  Gathered(R, x, q - 1) = Gathered(R, x, p)
<1>1. /\ q \in (p + 1)..(Len(R) + 1) /\ \A j \in (p + 1)..(q - 1) : R[j] = R[p]
      /\ x \in Nat /\ p \in Nat /\ q \in Nat /\ Len(R) \in Nat /\ x >= 1 /\ x <= p
  BY DEF Run
<1> DEFINE T == {n \in Nat : p + n <= q - 1 => Gathered(R, x, p + n) = Gathered(R, x, p)}
<1>2. 0 \in T
  <2>1. p + 0 = p
    BY <1>1
  <2> QED
    BY <2>1
<1>3. ASSUME NEW n \in Nat, n \in T PROVE n + 1 \in T
  <2> SUFFICES ASSUME p + (n + 1) <= q - 1
               PROVE  Gathered(R, x, p + (n + 1)) = Gathered(R, x, p)
    OBVIOUS
  <2>1. /\ p + n \in Nat /\ p + (n + 1) = (p + n) + 1 /\ (p + n) + 1 >= x /\ p + n <= q - 1
        /\ (p + n) + 1 # x /\ ((p + n) + 1) - 1 = p + n
        /\ (p + n) + 1 \in (p + 1)..(q - 1) /\ (p + n = p \/ p + n \in (p + 1)..(q - 1))
    BY <1>1
  <2>2. R[(p + n) + 1] = R[p + n]
    BY <1>1, <2>1
  <2>3. Added(R, x, (p + n) + 1) = <<>>
    BY <2>1, <2>2 DEF Added, Contributes
  <2>4. Gathered(R, x, p + n) = Gathered(R, x, p)
    BY <1>3, <2>1
  <2> HIDE DEF T
  <2>5. /\ Gathered(R, x, p + n) \in Seq(Nat)
        /\ Gathered(R, x, (p + n) + 1) = Gathered(R, x, p + n) \o Added(R, x, (p + n) + 1)
    BY <1>1, <2>1, GatheredNext
  <2>6. \A s \in Seq(Nat) : s \o <<>> = s
    OBVIOUS
  <2> QED
    BY <2>1, <2>3, <2>4, <2>5, <2>6
<1> HIDE DEF T
<1>4. Nat \subseteq T
  BY <1>2, <1>3, SetInduction
<1>5. (q - 1) - p \in Nat /\ p + ((q - 1) - p) = q - 1
  BY <1>1
<1>6. (q - 1) - p \in T
  BY <1>4, <1>5
<1> QED
  BY <1>5, <1>6 DEF T

\* The first record of the next run gives its own, unless the interrupt was
\* reported before.
LEMMA GatheredOnwards ==
  ASSUME dataFile \in DataFileType, DataIsWhole,
         NEW R \in Seq(Points), NEW x \in 1..Len(R), NEW p \in x..Len(R),
         NEW q \in 1..Len(R), Run(R, p, q)
  PROVE  Gathered(R, x, q) =
           Gathered(R, x, p) \o
             (IF IsInterrupt(R[q]) /\ \E i \in x..p : IsInterrupt(R[i]) THEN <<>> ELSE ListOf(q))
<1>1. /\ q \in (p + 1)..Len(R) /\ \A j \in (p + 1)..(q - 1) : R[j] = R[p] /\ R[q] # R[p]
      /\ x \in Nat /\ p \in Nat /\ q \in Nat /\ x >= 1 /\ x <= p
  BY DEF Run
<1>2. /\ q - 1 \in Nat /\ (q - 1) + 1 = q /\ (q - 1) + 1 >= x /\ q # x
      /\ q - 1 = p \/ q - 1 \in (p + 1)..(q - 1)
  BY <1>1
<1>3. R[q] # R[q - 1]
  BY <1>1, <1>2 DEF Run
<1>4. (\E i \in x..(q - 1) : IsInterrupt(R[i])) <=> \E i \in x..p : IsInterrupt(R[i])
  <2>1. ASSUME NEW i \in x..(q - 1), IsInterrupt(R[i]) PROVE \E k \in x..p : IsInterrupt(R[k])
    <3>1. i \in x..p \/ i \in (p + 1)..(q - 1)
      BY <1>1, <2>1
    <3>2. p \in x..p
      BY <1>1
    <3> QED
      BY <1>1, <2>1, <3>1, <3>2
  <2>2. x..p \subseteq x..(q - 1)
    BY <1>1
  <2> QED
    BY <2>1, <2>2
<1>5. Added(R, x, q) =
        IF IsInterrupt(R[q]) /\ \E i \in x..p : IsInterrupt(R[i]) THEN <<>> ELSE ListOf(q)
  BY <1>2, <1>3, <1>4 DEF Added, Contributes
<1>6. Gathered(R, x, q) = Gathered(R, x, q - 1) \o Added(R, x, q)
  <2>1. Gathered(R, x, (q - 1) + 1) = Gathered(R, x, q - 1) \o Added(R, x, (q - 1) + 1)
    BY <1>1, <1>2, GatheredNext
  <2> QED
    BY <1>2, <2>1
<1>7. Gathered(R, x, q - 1) = Gathered(R, x, p)
  BY GatheredRun
<1> QED
  BY <1>5, <1>6, <1>7

\* What has been gathered of an event, at each place of the code: the points
\* read so far, until a third report of an interrupt makes the event malformed.
PartGathers ==
  pc \in {"second", "third", "last"} =>
    \/ pc = "last" /\ IsInterrupt(current)
    \/ draftDumps = Gathered(Records, draft.position, position)

DraftGathers == pc = "return" => Lost \/ draftDumps = DumpsOf(Records, draft.position)

HeldGathers == pc = "merge" \/ ahead => Lost \/ heldDumps = DumpsOf(Records, held.position)

EventGathers == pc = "idle" /\ event.isValid => eventDumps = DumpsOf(Records, event.position)

GatherInv ==
  stream.isOpen /\ DataIsWhole => PartGathers /\ DraftGathers /\ HeldGathers /\ EventGathers

LEMMA GatheredStays ==
  ASSUME UNCHANGED dataFile
  PROVE  /\ \A R, x, p : Gathered(R, x, p)' = Gathered(R, x, p)
         /\ \A R, x : DumpsOf(R, x)' = DumpsOf(R, x)
         /\ DataIsWhole' <=> DataIsWhole
<1>1. \A i : ListOf(i)' = ListOf(i)
  BY DEF ListOf
<1>2. \A R, x, p : Gathered(R, x, p)' = Gathered(R, x, p)
  BY <1>1 DEF Gathered
<1> QED
  BY <1>2 DEF DumpsOf, DataIsWhole

\* On a record of a scenario the current point has its dumps.
LEMMA DumpsAtRecord ==
  IInv /\ OpenInv /\ stream.isOpen /\ DataInv /\ DataIsWhole /\ AtRecord
    => dumps = ListOf(position)
<1> SUFFICES ASSUME IInv, OpenInv, stream.isOpen, DataInv, DataIsWhole, AtRecord
             PROVE  dumps = ListOf(position)
  OBVIOUS
<1>1. /\ ~stream.fail /\ stream.at = HeaderSize + 2 * position
      /\ position \in 1..Count /\ current = Records[position]
  BY DEF AtRecord
<1>2. /\ Records = file.recs /\ Count = Len(Records) /\ Records \in Seq(Points)
      /\ IsFile(file) /\ IsScenario(file)
  BY OpenFacts
<1>3. /\ HeaderSize = 2 * HeaderSlots /\ HeaderSlots \in Nat
      /\ \A j \in 1..Len(file.recs) : file.recs[j] # NoPoint
  BY <1>2, ScenarioFacts
<1>4. position \in DOMAIN Records /\ current # NoPoint /\ position \in Nat
  BY <1>1, <1>2, <1>3
<1>5. stream.at % 2 = 0
  <2>1. stream.at = 2 * (HeaderSlots + position) /\ HeaderSlots + position \in Nat
    BY <1>1, <1>3, <1>4
  <2>2. \A i \in Nat : (2 * i) % 2 = 0
    OBVIOUS
  <2> QED
    BY <2>1, <2>2
<1>6. OnRecord
  BY <1>1, <1>4, <1>5 DEF OnRecord, Readable, Aligned
<1> QED
  BY <1>6 DEF DataInv, PointCarriesItsDumps

LEMMA DumpsAtNext ==
  (IInv /\ OpenInv /\ stream.isOpen /\ DataInv /\ DataIsWhole /\ AtRecord)'
    => (dumps = ListOf(position))'
BY DumpsAtRecord, PTL

\* The next part of the event at x is read, or the end of the file, and its
\* dumps are put behind those gathered.
LEMMA PartIsGathered ==
  ASSUME IInv, IInv', OpenInv, OpenInv', AtRecord, stream'.isOpen,
         DataInv, DataInv', DataIsWhole, UNCHANGED <<file, dataFile>>,
         NEW x \in 1..position, NEW e \in Events, e.position = x,
         NEW label \in {"second", "third", "last"}, NextWithin(e, label),
         NEW more, draftDumps' = Gathered(Records, x, position) \o more,
         ~Valid(current') => more = <<>>,
         Valid(current') /\ ~(label = "last" /\ IsInterrupt(current')) =>
           more = IF IsInterrupt(current') /\ \E i \in x..position : IsInterrupt(Records[i])
                  THEN <<>> ELSE dumps'
  PROVE  PartGathers' /\ DraftGathers'
<1> DEFINE R == Records
           L == Len(R)
<1>1. /\ R \in Seq(Points) /\ Count = L /\ L \in Nat /\ IsScenario(file)
      /\ position \in 1..L /\ current = R[position]
      /\ dataFile \in DataFileType
  BY OpenFacts, PlaceFacts DEF DataInv
<1>2. PICK r \in NextFrom(file, Here) :
        /\ Become(r)
        /\ IF Valid(r.current) THEN pc' = label /\ draft' = e
           ELSE pc' = "return" /\ draft' = LastEvent(e)
  BY DEF NextWithin
<1>3. PICK q : /\ Run(R, position, q)
               /\ q <= L => AtRecord' /\ position' = q /\ Valid(r.current)
               /\ q = L + 1 => AtEnd' /\ position' = L /\ ~Valid(r.current)
  BY <1>1, <1>2, StepNext
<1>4. /\ q \in (position + 1)..(L + 1) /\ q \in Nat /\ position \in x..L /\ x \in 1..L
      /\ Records' = R /\ current' = r.current
  BY <1>1, <1>2, <1>3 DEF Run, Become, Records
<1>5. /\ \A s, y, p : Gathered(s, y, p)' = Gathered(s, y, p)
      /\ \A s, y : DumpsOf(s, y)' = DumpsOf(s, y)
      /\ DataIsWhole'
  BY GatheredStays
<1>6. CASE q <= L
  <2>1. /\ AtRecord' /\ position' = q /\ Valid(current') /\ pc' = label /\ draft' = e
        /\ q \in 1..L
    BY <1>1, <1>2, <1>3, <1>4, <1>6
  <2>2. current' = R[q]
    BY <1>4, <2>1 DEF AtRecord
  <2>3. dumps' = ListOf(q)
    BY <1>5, <2>1, DumpsAtNext DEF ListOf
  <2>4. ASSUME ~(label = "last" /\ IsInterrupt(current'))
        PROVE  draftDumps' = Gathered(R, x, q)
    <3>1. Gathered(R, x, q) =
            Gathered(R, x, position) \o
              (IF IsInterrupt(R[q]) /\ \E i \in x..position : IsInterrupt(R[i])
               THEN <<>> ELSE ListOf(q))
      BY <1>1, <1>3, <1>4, <2>1, GatheredOnwards
    <3> QED
      BY <2>1, <2>2, <2>3, <2>4, <3>1
  <2>5. PartGathers'
    BY <1>4, <1>5, <2>1, <2>4 DEF PartGathers
  <2> QED
    BY <2>1, <2>5 DEF DraftGathers
<1>7. CASE q = L + 1
  <2>1. position' = L /\ ~Valid(current') /\ pc' = "return" /\ draft' = LastEvent(e)
    BY <1>2, <1>3, <1>4, <1>7
  <2>2. draft'.position = x
    BY <2>1, LastFields
  <2>3. Lost' \/ EndOf(R, x) = L
    BY <1>4, <2>1, <2>2 DEF OpenInv, AtReturn, ReadTo
  <2>4. Gathered(R, x, L) = Gathered(R, x, position)
    <3>1. q - 1 = L
      BY <1>1, <1>7
    <3>2. Gathered(R, x, q - 1) = Gathered(R, x, position)
      BY <1>1, <1>3, <1>4, GatheredRun
    <3> QED
      BY <3>1, <3>2
  <2>5. Gathered(R, x, position) \in Seq(Nat)
    <3>1. position + 1 >= x /\ position \in Nat /\ x \in Nat
      BY <1>1, <1>4
    <3> QED
      BY <1>1, <3>1, GatheredNext
  <2>6. draftDumps' = Gathered(R, x, L)
    <3>1. \A s \in Seq(Nat) : s \o <<>> = s
      OBVIOUS
    <3> QED
      BY <2>1, <2>4, <2>5, <3>1
  <2>7. DraftGathers'
    BY <1>4, <1>5, <2>2, <2>3, <2>6 DEF DraftGathers, DumpsOf
  <2> QED
    BY <2>1, <2>7 DEF PartGathers
<1>8. q <= L \/ q = L + 1
  <2>1. \A a, b, c \in Nat : a \in (c + 1)..(b + 1) => a <= b \/ a = b + 1
    OBVIOUS
  <2>2. L \in Nat /\ q \in Nat /\ position \in Nat /\ q \in (position + 1)..(L + 1)
    BY <1>1, <1>4
  <2> HIDE DEF L
  <2> QED
    BY <2>1, <2>2
<1> QED
  BY <1>6, <1>7, <1>8

\* The dumps of the event held stay while the next one is fetched.
LEMMA HeldDumpsStay ==
  ASSUME IInv, OpenInv, CurrentEvent, HeldGathers, pc' # "merge",
         UNCHANGED <<file, dataFile, held, heldDumps, ahead>>
  PROVE  HeldGathers'
<1>1. Lost => Lost'
  BY LostStays
<1>2. Records' = Records /\ \A s, y : DumpsOf(s, y)' = DumpsOf(s, y)
  BY GatheredStays DEF Records
<1> QED
  BY <1>1, <1>2 DEF HeldGathers

LEMMA FetchGathers ==
  ASSUME IInv, IInv', OpenInv, OpenInv', stream.isOpen, stream'.isOpen,
         DataInv, DataInv', DataIsWhole, GatherInv, UNCHANGED dataFile, FetchData
  PROVE  PartGathers' /\ DraftGathers' /\ HeldGathers' /\ EventGathers'
<1>1. PartGathers /\ DraftGathers /\ HeldGathers
  BY DEF GatherInv
<1>2. /\ \A s, y, p : Gathered(s, y, p)' = Gathered(s, y, p)
      /\ \A s, y : DumpsOf(s, y)' = DumpsOf(s, y)
  BY GatheredStays
<1>3. dataFile \in DataFileType
  BY DEF DataInv
<1>4. CASE FetchSkip /\ UNCHANGED heldDumps
  <2>1. /\ pc \in {"fetch", "skip"} /\ (pc' = "skip" \/ (pc' = "return" /\ draft' = NoEvent))
        /\ UNCHANGED <<file, held, ahead>>
    BY <1>4 DEF FetchSkip, fileVars
  <2>2. HeldGathers'
    BY <1>1, <1>4, <2>1, HeldDumpsStay DEF CurrentEvent, FetchNewEvent
  <2>3. DraftGathers'
    <3> SUFFICES ASSUME pc' = "return" PROVE Lost'
      BY DEF DraftGathers
    <3>1. draft' = NoEvent /\ NoEvent.position = 0
      BY <2>1 DEF NoEvent
    <3>2. ~AtReturn'
      BY <3>1 DEF AtReturn, IsEventAt
    <3> QED
      BY <3>2 DEF OpenInv
  <2> QED
    BY <2>1, <2>2, <2>3 DEF PartGathers, EventGathers
<1>5. CASE FetchMissing /\ draftDumps' = dumps /\ UNCHANGED heldDumps
  <2>1. /\ pc = "fetch" /\ pc' = "second" /\ position = 1 /\ position' = 1
        /\ ~IsVmexit(current)
        /\ draft' = [NoEvent EXCEPT !.position = position, !.isFirst = TRUE, !.isEmulation = TRUE]
        /\ UNCHANGED <<file, stream, current, held, ahead>>
    BY <1>5 DEF FetchMissing, FirstVmexitMissing, fileVars, readerVars
  <2>2. AtRecord
    BY <2>1, PlaceFacts DEF OpenInv, AtFetch, Lost
  <2>3. draft'.position = 1
    BY <2>1 DEF NoEvent
  <2>4. dumps = ListOf(1)
    BY <2>1, <2>2, DumpsAtRecord
  <2>5. PartGathers'
    <3>1. Gathered(Records, 1, 1) = ListOf(1)
      BY <1>3, GatheredFirst
    <3>2. Records' = Records
      BY <2>1 DEF Records
    <3> QED
      BY <1>2, <1>5, <2>1, <2>3, <2>4, <3>1, <3>2 DEF PartGathers
  <2>6. HeldGathers'
    BY <1>1, <1>5, <2>1, HeldDumpsStay DEF CurrentEvent, FetchNewEvent
  <2> QED
    BY <2>1, <2>5, <2>6 DEF DraftGathers, EventGathers
<1>6. CASE /\ FetchExit /\ UNCHANGED heldDumps
           /\ draftDumps' = dumps \o (IF Valid(current') THEN dumps' ELSE <<>>)
  <2> DEFINE e == EventStartingAt(current, position)
  <2>1. /\ pc \in {"fetch", "skip"} /\ IsVmexit(current) /\ NextWithin(e, "second")
        /\ UNCHANGED <<file, held, ahead>> /\ pc' \in {"second", "return"}
    BY <1>6 DEF FetchExit, NextWithin, fileVars
  <2>2. HeldGathers'
    BY <1>1, <1>6, <2>1, HeldDumpsStay DEF CurrentEvent, FetchNewEvent
  <2>3. CASE Lost
    <3>1. Lost' /\ pc' # "second"
      <4>1. Lost'
        BY <1>6, <2>3, LostStays DEF CurrentEvent, FetchNewEvent
      <4>2. pc' \in {"fetch", "return", "merge"}
        BY <1>6, <2>3, LostStays DEF CurrentEvent, FetchNewEvent
      <4> QED
        BY <4>1, <4>2
    <3> QED
      BY <2>1, <2>2, <3>1 DEF PartGathers, DraftGathers, EventGathers
  <2>4. CASE ~Lost
    <3>1. AtRecord
      BY <2>1, <2>4, PlaceFacts DEF OpenInv, AtFetch
    <3>2. /\ position \in 1..Count /\ current = Records[position] /\ Count \in Nat
          /\ position \in 1..position
      BY <3>1, PlaceFacts, OpenFacts
    <3>3. dumps = Gathered(Records, position, position)
      <4>1. dumps = ListOf(position)
        BY <3>1, DumpsAtRecord
      <4>2. position \in Nat /\ position >= 1
        BY <3>2
      <4> QED
        BY <1>3, <4>1, <4>2, GatheredFirst
    <3>4. e \in Events /\ e.position = position
      <4>1. current \in Points /\ position \in Nat
        BY OpenFacts
      <4> QED
        BY <4>1, StartTypes
    <3> DEFINE more == IF Valid(current') THEN dumps' ELSE <<>>
    <3>5. ~(\E i \in position..position : IsInterrupt(Records[i]))
      <4>1. \A i \in position..position : i = position
        BY <3>2
      <4> QED
        BY <2>1, <3>2, <4>1, Kinds
    <3>6. /\ draftDumps' = Gathered(Records, position, position) \o more
          /\ ~Valid(current') => more = <<>>
          /\ Valid(current') /\ ~("second" = "last" /\ IsInterrupt(current')) =>
               more = IF IsInterrupt(current') /\ \E i \in position..position : IsInterrupt(Records[i])
                      THEN <<>> ELSE dumps'
      BY <1>6, <3>3, <3>5
    <3>7. "second" \in {"second", "third", "last"}
      OBVIOUS
    <3> HIDE DEF e, more
    <3>8. PartGathers' /\ DraftGathers'
      BY <2>1, <3>1, <3>2, <3>4, <3>6, <3>7, PartIsGathered
    <3> QED
      BY <2>1, <2>2, <3>8 DEF EventGathers
  <2> QED
    BY <2>3, <2>4
<1>7. ASSUME NEW e, NEW label \in {"third", "last"}, pc \in {"second", "third"},
             IsInterrupt(current), NextWithin(e, label), e \in Events, e.position = draft.position,
             UNCHANGED <<file, held, ahead, heldDumps>>, CurrentEvent,
             NEW more, draftDumps' = draftDumps \o more,
             ~Valid(current') => more = <<>>,
             Valid(current') =>
               more = IF IsInterrupt(current') /\ label = "third" THEN <<>> ELSE dumps'
      PROVE  PartGathers' /\ DraftGathers' /\ HeldGathers' /\ EventGathers'
  <2>1. /\ AtPart /\ AtRecord /\ draft.position \in 1..position /\ position \in 1..Count
        /\ current = Records[position] /\ Count \in Nat
    <3>1. AtPart
      BY <1>7 DEF OpenInv
    <3> QED
      BY <3>1, PartFacts, OpenFacts
  <2>2. PICK x \in 1..position : x = draft.position
    BY <2>1
  <2>3. draftDumps = Gathered(Records, x, position)
    BY <1>1, <1>7, <2>2 DEF PartGathers
  <2>4. \E i \in x..position : IsInterrupt(Records[i])
    <3>1. position \in x..position
      BY <2>1, <2>2
    <3> QED
      BY <1>7, <2>1, <3>1
  <2>5. Valid(current') /\ ~(label = "last" /\ IsInterrupt(current')) =>
          more = IF IsInterrupt(current') /\ \E i \in x..position : IsInterrupt(Records[i])
                 THEN <<>> ELSE dumps'
    BY <1>7, <2>4
  <2>6. PartGathers' /\ DraftGathers'
    <3>1. e.position = x /\ label \in {"second", "third", "last"}
      BY <1>7, <2>2
    <3>2. draftDumps' = Gathered(Records, x, position) \o more
      BY <1>7, <2>3
    <3> QED
      BY <1>7, <2>1, <2>5, <3>1, <3>2, PartIsGathered
  <2>7. pc' \in {label, "return"}
    BY <1>7 DEF NextWithin
  <2>8. HeldGathers'
    BY <1>1, <1>7, <2>7, HeldDumpsStay
  <2> QED
    BY <2>6, <2>7, <2>8 DEF EventGathers
<1>8. CASE FetchInterrupt /\ draftDumps' = draftDumps \o AfterInterrupt /\ UNCHANGED heldDumps
  <2> DEFINE e == [draft EXCEPT !.hasInterrupt = TRUE, !.vector = current.vector,
                                !.interruptRip = current.rip]
  <2>1. /\ pc = "second" /\ IsInterrupt(current) /\ NextWithin(e, "third")
        /\ UNCHANGED <<file, held, ahead>>
    BY <1>8 DEF FetchInterrupt, fileVars
  <2>2. e \in Events /\ e.position = draft.position
    <3>1. draft \in Events /\ current \in Points
      BY OpenFacts
    <3> QED
      BY <3>1, EventTypes DEF Events, Points
  <2>3. /\ ~Valid(current') => AfterInterrupt = <<>>
        /\ Valid(current') =>
             AfterInterrupt = IF IsInterrupt(current') /\ "third" = "third" THEN <<>> ELSE dumps'
    BY DEF AfterInterrupt
  <2>4. CurrentEvent
    BY <1>8 DEF CurrentEvent, FetchNewEvent
  <2> HIDE DEF e
  <2> QED
    BY <1>7, <1>8, <2>1, <2>2, <2>3, <2>4
<1>9. CASE /\ FetchRepeated /\ UNCHANGED heldDumps
           /\ draftDumps' = draftDumps \o (IF Valid(current') THEN dumps' ELSE <<>>)
  <2>1. /\ pc = "third" /\ IsInterrupt(current) /\ NextWithin(draft, "last")
        /\ UNCHANGED <<file, held, ahead>> /\ draft \in Events
    BY <1>9, OpenFacts DEF FetchRepeated, fileVars
  <2>2. CurrentEvent
    BY <1>9 DEF CurrentEvent, FetchNewEvent
  <2> DEFINE more == IF Valid(current') THEN dumps' ELSE <<>>
  <2>3. /\ draftDumps' = draftDumps \o more
        /\ ~Valid(current') => more = <<>>
        /\ Valid(current') => more = IF IsInterrupt(current') /\ "last" = "third" THEN <<>> ELSE dumps'
    BY <1>9
  <2> HIDE DEF more
  <2> QED
    BY <1>7, <1>9, <2>1, <2>2, <2>3
<1>10. CASE FetchEnter /\ UNCHANGED <<draftDumps, heldDumps>>
  <2>1. /\ pc \in {"second", "third", "last"} /\ NewContextFits /\ pc' = "return"
        /\ draft' = Completed(draft, current)
        /\ UNCHANGED <<file, stream, current, position, held, ahead>>
    BY <1>10 DEF FetchEnter, AtNewContext, fileVars, readerVars
  <2>2. ~IsInterrupt(current)
    BY <2>1, Kinds DEF NewContextFits
  <2>3. draftDumps = Gathered(Records, draft.position, position)
    BY <1>1, <2>1, <2>2 DEF PartGathers
  <2>4. draft'.position = draft.position
    BY <2>1, OpenFacts, CompletedFields
  <2>5. Lost' \/ EndOf(Records', draft'.position) = position'
    BY <2>1 DEF OpenInv, AtReturn, ReadTo
  <2>6. DraftGathers'
    <3>1. Records' = Records
      BY <2>1 DEF Records
    <3> QED
      BY <1>2, <1>10, <2>1, <2>3, <2>4, <2>5, <3>1 DEF DraftGathers, DumpsOf
  <2>7. HeldGathers'
    BY <1>1, <1>10, <2>1, HeldDumpsStay DEF CurrentEvent, FetchNewEvent
  <2> QED
    BY <2>1, <2>6, <2>7 DEF PartGathers, EventGathers
<1>11. CASE FetchThrows
  <2>1. pc # "idle" /\ pc' = "idle" /\ event' = event
    BY <1>11 DEF FetchThrows, AtNewContext, Leave, readerVars
  <2>2. ~event'.isValid /\ ~ahead'
    BY <2>1 DEF OpenInv
  <2> QED
    BY <2>1, <2>2 DEF PartGathers, DraftGathers, HeldGathers, EventGathers
<1> QED
  BY <1>4, <1>5, <1>6, <1>8, <1>9, <1>10, <1>11 DEF FetchData

LEMMA LoopGathers ==
  ASSUME IInv, IInv', OpenInv, OpenInv', stream.isOpen, DataIsWhole, GatherInv,
         UNCHANGED dataFile, CurrentEventData
  PROVE  PartGathers' /\ DraftGathers' /\ HeldGathers' /\ EventGathers'
<1>1. DraftGathers /\ HeldGathers /\ EventGathers
  BY DEF GatherInv
<1>2. \A s, y : DumpsOf(s, y)' = DumpsOf(s, y)
  BY GatheredStays
<1>3. (FirstReturns \/ LookAhead \/ Merge) /\ Lost => Lost'
  BY LostStays DEF CurrentEvent
<1>4. CASE (FirstReturns \/ Merge) /\ heldDumps' = draftDumps
  <2>1. /\ pc = "return" /\ pc' = "merge" /\ file' = file
        /\ held' = draft \/ held' = [draft EXCEPT !.start = held.start]
    BY <1>4 DEF FirstReturns, Merge, fileVars
  <2>2. held'.position = draft.position
    <3>1. draft \in Events
      BY OpenFacts
    <3>2. \A e \in Events : \A c : [e EXCEPT !.start = c].position = e.position
      BY DEF Events
    <3> QED
      BY <2>1, <3>1, <3>2
  <2>3. Lost' \/ heldDumps' = DumpsOf(Records, held'.position)
    BY <1>1, <1>3, <1>4, <2>1, <2>2 DEF DraftGathers
  <2>4. HeldGathers'
    BY <1>2, <2>1, <2>3 DEF HeldGathers, Records
  <2> QED
    BY <2>1, <2>4 DEF PartGathers, DraftGathers, EventGathers
<1>5. CASE LookAhead /\ UNCHANGED heldDumps
  <2>1. pc = "merge" /\ pc' = "fetch" /\ file' = file /\ held' = held
    BY <1>5 DEF LookAhead, fileVars
  <2>2. HeldGathers'
    BY <1>1, <1>2, <1>3, <1>5, <2>1 DEF HeldGathers, Records
  <2> QED
    BY <2>1, <2>2 DEF PartGathers, DraftGathers, EventGathers
<1>6. CASE CallCurrentEvent /\ UNCHANGED eventDumps
  <2>1. /\ pc = "idle" /\ pc' \in {"idle", "fetch"} /\ file' = file /\ event' = event
        /\ ahead' = ahead
    BY <1>6 DEF CallCurrentEvent, Idle, fileVars, readerVars, localVars
  <2>2. ~ahead
    BY <2>1 DEF OpenInv
  <2>3. EventGathers'
    BY <1>1, <1>2, <1>6, <2>1 DEF EventGathers, Records
  <2> QED
    BY <2>1, <2>2, <2>3 DEF PartGathers, DraftGathers, HeldGathers
<1>7. CASE (Keep \/ PutBack) /\ eventDumps' = heldDumps
  <2>1. ~Lost
    BY <1>7 DEF Lost, IsBlank, Keep, PutBack, Merges, MayMerge, AreValuesEquivalent
  <2>2. /\ pc' = "idle" /\ event' = held /\ file' = file /\ (pc = "merge" \/ ahead)
        /\ ~ahead'
    <3>1. CASE Keep
      BY <3>1 DEF Keep, Return, Leave, fileVars
    <3>2. CASE PutBack
      <4>1. event' = held /\ ahead /\ Return /\ file' = file
        BY <3>2, PutBackFacts
      <4> QED
        BY <4>1 DEF Return, Leave
    <3> QED
      BY <1>7, <3>1, <3>2
  <2>3. EventGathers'
    BY <1>1, <1>2, <1>7, <2>1, <2>2 DEF HeldGathers, EventGathers, Records
  <2> QED
    BY <2>2, <2>3 DEF PartGathers, DraftGathers, HeldGathers
<1> QED
  BY <1>4, <1>5, <1>6, <1>7 DEF CurrentEventData

\* A call between two others leaves the event and its dumps, or neither.
LEMMA EventGoesOrStays ==
  ASSUME EventGathers, UNCHANGED <<file, dataFile>>, pc = "idle",
         event' \in {event, NoEvent}, ForgetEvent \/ UNCHANGED eventDumps
  PROVE  EventGathers'
<1>1. \A s, y : DumpsOf(s, y)' = DumpsOf(s, y)
  BY GatheredStays
<1>2. ~NoEvent.isValid
  BY DEF NoEvent
<1>3. event'.isValid => event' = event /\ eventDumps' = eventDumps
  BY <1>2 DEF ForgetEvent
<1> QED
  BY <1>1, <1>3 DEF EventGathers, Records

LEMMA NextForgets ==
  ASSUME NEW f, NEW r, NEW q \in NextFrom(f, r)
  PROVE  q.event \in {r.event, NoEvent}
BY DEF NextFrom

LEMMA SeekForgets ==
  ASSUME NEW f, NEW r \in Reader, NEW p, NEW q \in SeekFrom(f, r, p)
  PROVE  q.event \in {r.event, NoEvent}
<1>1. CASE ~sized \/ p = 0
  BY <1>1 DEF SeekFrom, Reader
<1>2. CASE sized /\ p # 0
  <2> DEFINE t == [r EXCEPT !.stream = S!Seek(@, SeekOffset(p - 1)), !.current = NoPoint,
                            !.position = p - 1]
  <2>1. q \in NextFrom(f, t)
    BY <1>2 DEF SeekFrom
  <2>2. t.event = r.event
    BY DEF Reader
  <2> HIDE DEF t
  <2> QED
    BY <2>1, <2>2, NextForgets
<1> QED
  BY <1>1, <1>2

LEMMA CallGathers ==
  ASSUME IInv, OpenInv, OpenInv', DataIsWhole, stream.isOpen, GatherInv, UNCHANGED dataFile,
         CallNextData \/ SeekData, Recorded
  PROVE  PartGathers' /\ DraftGathers' /\ HeldGathers' /\ EventGathers'
<1>1. EventGathers
  BY DEF GatherInv
<1>2. Here \in Reader /\ Here.event = event
  BY HereIsReader DEF IInv
<1>3. pc' \in {"idle", "reload"} => ~ahead'
  BY DEF OpenInv
<1>4. CASE CallNextData
  <2>1. /\ pc = "idle" /\ pc' = "idle" /\ file' = file
        /\ \E r \in NextFrom(file, Here) : Become(r)
    BY <1>4 DEF CallNextData, CallNext, Idle, fileVars
  <2>2. event' \in {event, NoEvent}
    BY <1>2, <2>1, NextForgets DEF Become
  <2>3. EventGathers'
    BY <1>1, <1>4, <2>1, <2>2, EventGoesOrStays DEF CallNextData
  <2> QED
    BY <1>3, <2>1, <2>3 DEF PartGathers, DraftGathers, HeldGathers
<1>5. CASE (\E p \in SeekTargets : AdvanceTo(p)) /\ ForgetEvent
  <2>1. PICK p \in SeekTargets : AdvanceTo(p)
    BY <1>5
  <2>2. /\ pc = "idle" /\ pc' \in {"idle", "reload"} /\ file' = file
        /\ \E r \in SeekFrom(file, Here, p) : Become(r)
    BY <2>1 DEF AdvanceTo, Idle, fileVars
  <2>3. event' \in {event, NoEvent}
    BY <1>2, <2>2, SeekForgets DEF Become
  <2>4. EventGathers'
    BY <1>1, <1>5, <2>2, <2>3, EventGoesOrStays
  <2> QED
    BY <1>3, <2>2, <2>4 DEF PartGathers, DraftGathers, HeldGathers
<1>6. CASE ReloadBack
  <2>1. pc' = "reload"
    BY <1>6 DEF ReloadBack
  <2> QED
    BY <1>3, <2>1 DEF PartGathers, DraftGathers, HeldGathers, EventGathers
<1>7. CASE ReloadEvent
  <2>1. /\ pc = "reload" /\ pc' \in {"idle", "fetch"} /\ event' = event
        /\ pc' = "fetch" => ahead' = ahead
    BY <1>7 DEF ReloadEvent, Return, Leave, readerVars, localVars
  <2>2. ~event.isValid /\ ~ahead
    BY <2>1 DEF OpenInv
  <2> QED
    BY <1>3, <2>1, <2>2 DEF PartGathers, DraftGathers, HeldGathers, EventGathers
<1>8. CASE Validate /\ UNCHANGED eventDumps
  <2>1. pc = "idle" /\ pc' = "idle" /\ file' = file /\ event' = event
    BY <1>8 DEF Validate, Idle, fileVars, readerVars
  <2>2. EventGathers'
    BY <1>1, <1>8, <2>1, EventGoesOrStays
  <2> QED
    BY <1>3, <2>1, <2>2 DEF PartGathers, DraftGathers, HeldGathers
<1>9. ~(\E p \in EndArguments : SeekFromEnd(p))
  BY DEF SeekFromEnd, Recorded
<1> QED
  BY <1>4, <1>5, <1>6, <1>7, <1>8, <1>9 DEF SeekData

\* A reader that next does not return from has no event, and fetches none.
LEMMA StuckGathers ==
  ASSUME Recorded, IInv, StuckInv, stream.isOpen, [Next]_vars, ~LoadFile
  PROVE  PartGathers' /\ DraftGathers' /\ HeldGathers' /\ EventGathers'
<1>1. ~event.isValid /\ ~ahead /\ pc \in {"idle", "fetch", "spin"}
  BY DEF StuckInv
<1>2. CASE \/ CallNextSpins \/ CallCurrentEvent \/ Validate \/ FetchSpins \/ Spin
           \/ UNCHANGED vars
  <2>1. UNCHANGED <<event, ahead>> /\ pc' \in {"idle", "fetch", "spin"}
    BY <1>1, <1>2 DEF CallNextSpins, CallCurrentEvent, Validate, FetchSpins, Spin, Idle,
       readerVars, localVars, vars
  <2> QED
    BY <1>1, <2>1 DEF PartGathers, DraftGathers, HeldGathers, EventGathers
<1>3. CASE \E p \in SeekTargets : AdvanceTo(p)
  <2>1. PICK p \in SeekTargets : AdvanceTo(p)
    BY <1>3
  <2>2. pc' \in {"idle", "reload"} /\ ahead' = ahead
        /\ \E r \in SeekFrom(file, Here, p) : Become(r)
    BY <2>1 DEF AdvanceTo, Idle
  <2>3. event' \in {event, NoEvent}
    BY <2>2, HereIsReader, SeekForgets DEF Become, IInv
  <2>4. ~event'.isValid
    BY <1>1, <2>3 DEF NoEvent
  <2> QED
    BY <1>1, <2>2, <2>4 DEF PartGathers, DraftGathers, HeldGathers, EventGathers
<1> QED
  BY <1>2, <1>3, StuckSteps

LEMMA GatherInvKept ==
  ASSUME Recorded, IInv, IInv', ClosedAtEnd, EventInv, EventInv', DataInv, DataInv', GatherInv,
         [DataStep]_<<vars, dataVars>>
  PROVE  GatherInv'
<1> SUFFICES ASSUME stream'.isOpen, DataIsWhole'
             PROVE  PartGathers' /\ DraftGathers' /\ HeldGathers' /\ EventGathers'
  BY DEF GatherInv
<1>1. CASE LoadFile
  <2>1. file = NoFile
    BY <1>1 DEF LoadFile, Loadable, Recorded
  <2>2. ~event.isValid /\ ~ahead
    BY <2>1 DEF EventInv, OpenInv, ClosedInv, StuckInv
  <2>3. pc' = "idle" /\ event' = event /\ ahead' = ahead
    BY <1>1 DEF LoadFile, LoadAbsent, LoadShort, LoadRejected, LoadBadData, LoadGood,
       Load, Idle, localVars
  <2> QED
    BY <2>2, <2>3 DEF PartGathers, DraftGathers, HeldGathers, EventGathers
<1>2. CASE ~LoadFile
  <2>1. ~LoadData
    BY <1>2 DEF LoadData
  <2>2. stream.isOpen
    BY <1>2, DataStepIsAStep, OnlyLoadOpens
  <2>3. UNCHANGED dataFile
    BY <2>1 DEF DataStep, dataVars, pointData
  <2>4. DataIsWhole /\ (OpenInv \/ StuckInv) /\ (OpenInv' \/ StuckInv')
    BY <2>3, <2>2, GatheredStays DEF EventInv
  <2>5. CASE StuckInv'
    <3>1. ~event'.isValid /\ ~ahead' /\ pc' \in {"idle", "fetch", "spin"}
      BY <2>5 DEF StuckInv
    <3> QED
      BY <3>1 DEF PartGathers, DraftGathers, HeldGathers, EventGathers
  <2>6. CASE StuckInv /\ OpenInv'
    BY <1>2, <2>2, <2>6, DataStepIsAStep, StuckGathers
  <2>7. CASE OpenInv /\ OpenInv'
    <3>1. CASE FetchData
      BY <2>3, <2>2, <2>4, <2>7, <3>1, FetchGathers
    <3>2. CASE CurrentEventData
      BY <2>3, <2>2, <2>4, <2>7, <3>2, LoopGathers
    <3>3. CASE CallNextData \/ SeekData
      BY <2>3, <2>2, <2>4, <2>7, <3>3, CallGathers
    <3>4. ~SpinData
      BY <2>7 DEF SpinData, CallNextSpins, FetchSpins, Spin, OpenInv
    <3>5. CASE UNCHANGED <<vars, dataVars>>
      <4>1. /\ UNCHANGED <<file, stream, current, position, event, pc, draft, held, ahead>>
            /\ UNCHANGED <<draftDumps, heldDumps, eventDumps>>
        BY <3>5 DEF vars, dataVars
      <4>2. Records' = Records /\ Lost' = Lost
        BY <4>1 DEF Records, Lost, AtEnd, Count
      <4>3. /\ \A s, y, p : Gathered(s, y, p)' = Gathered(s, y, p)
            /\ \A s, y : DumpsOf(s, y)' = DumpsOf(s, y)
        BY <2>3, GatheredStays
      <4> QED
        BY <2>2, <2>4, <4>1, <4>2, <4>3
           DEF GatherInv, PartGathers, DraftGathers, HeldGathers, EventGathers
    <3> QED
      BY <2>1, <3>1, <3>2, <3>3, <3>4, <3>5 DEF DataStep
  <2> QED
    BY <2>4, <2>5, <2>6, <2>7
<1> QED
  BY <1>1, <1>2

-----------------------------------------------------------------------------
(* The tools that print the points.                                        *)

\* Whatever the user of the library does is a step of the library, or none.
LEMMA UsersStepIsADataStep ==
  [PointsStep \/ OtherClient]_<<vars, dataVars, toolVars>> => [DataStep]_<<vars, dataVars>>
BY DEF PointsStep, PointsLoad, PointsNext, PointsPrint, PointsStop, OtherClient, DataStep

\* The points printed are those to print among the first p records.
Upto(p) == {i \in Printable : i <= p}

EntryFits(x, n) ==
  /\ x.number \in Printable
  /\ Cardinality({j \in Printable : j < x.number}) = n - 1
  /\ x.point = Records[x.number]
  /\ DataIsWhole => x.data = ListOf(x.number)

Printed(p) ==
  /\ Len(printed) = Cardinality(Upto(p))
  /\ \A n \in DOMAIN printed : EntryFits(printed[n], n)

\* The reader is on record p, or before the first, and goes on from there.
Reached(p) ==
  /\ stream.isOpen /\ StandsAfter(Here, p)
  /\ IF p = 0 THEN current = NoPoint
     ELSE p \in Printable /\ current = Records[p]

Progress ==
  CASE tool = "next" -> \E p \in 0..Len(Records) : Reached(p) /\ Printed(p)
    [] tool = "test" -> IF Valid(current)
                        THEN position \in Printable /\ Reached(position) /\ Printed(position - 1)
                        ELSE Printed(Len(Records))
    [] tool = "done" -> Printed(Len(Records))

Running == tool \in {"next", "test", "done"}

PointsInv ==
  /\ tool \in {"none", "load", "next", "test", "done", "aborted"}
  /\ \E T : printed \in Seq(T)
  /\ ~Running => printed = <<>>
  /\ tool # "none" => pc = "idle"
  /\ tool = "load" => file = NoFile /\ current = NoPoint
  /\ Running => IF ReadableKinds THEN file \in Files /\ Progress
                ELSE stream.eof /\ current = NoPoint /\ printed = <<>>

LEMMA PrintableFacts ==
  ASSUME IsFile(file)
  PROVE  /\ Records \in Seq(Points) /\ Len(Records) \in Nat
         /\ DOMAIN Records = 1..Len(Records)
         /\ Printable \subseteq 1..Len(Records) /\ IsFiniteSet(Printable)
         /\ Upto(Len(Records)) = Printable
<1>1. Records \in Seq(Points) /\ Len(Records) \in Nat /\ DOMAIN Records = 1..Len(Records)
  BY FileFacts DEF Records
<1>2. Printable \subseteq 1..Len(Records)
  BY <1>1 DEF Printable
<1>3. IsFiniteSet(Printable)
  <2>1. IsFiniteSet(1..Len(Records))
    BY <1>1, FS_Interval
  <2>2. Printable \in SUBSET (1..Len(Records))
    BY <1>2
  <2> QED
    BY <2>1, <2>2, FS_Subset
<1>4. \A i \in Printable : i <= Len(Records)
  BY <1>1, <1>2
<1> QED
  BY <1>1, <1>2, <1>3, <1>4 DEF Upto

\* Nothing is to be printed between two records.
LEMMA PrintedOnwards ==
  ASSUME IsFile(file), NEW p \in Nat, NEW q \in Nat, p <= q, Printed(p),
         \A i \in Printable : i <= p \/ i > q
  PROVE  Printed(q)
<1>1. Printable \subseteq Nat
  <2>1. Printable \subseteq 1..Len(Records) /\ Len(Records) \in Nat
    BY PrintableFacts
  <2> QED
    BY <2>1
<1>2. \A i \in Printable : (i <= p) <=> (i <= q)
  BY <1>1
<1>3. Upto(p) = Upto(q)
  BY <1>2 DEF Upto
<1> QED
  BY <1>3 DEF Printed

LEMMA EndIsInvalid ==
  ASSUME NEW f, IsFile(f), IsPlain(f)
  PROVE  ~Valid(EndPoint(f)) /\ ~Valid(ZeroPoint) /\ ~Valid(NoPoint)
<1>1. ~Valid(ZeroPoint) /\ ~Valid(NoPoint)
  BY DEF Valid, ZeroPoint, NoPoint
<1>2. TailSize(f) = 1 => f.tail # <<>>
  <2>1. Len(<<>>) = 0
    OBVIOUS
  <2> QED
    BY <2>1 DEF TailSize
<1>3. TailSize(f) = 1 => ~Valid(f.tail[1])
  BY <1>2 DEF IsPlain
<1> QED
  BY <1>1, <1>3 DEF EndPoint

\* The first record that next reads.
LEMMA FirstRecord ==
  ASSUME IsFile(file), IsPlain(file), NEW z \in 1..(Len(Records) + 1),
         \A j \in 1..(z - 1) : Records[j] = NoPoint
  PROVE  /\ z = 1
         /\ Len(Records) >= 1 /\ Valid(Records[1]) => 1 \in Printable
         /\ ~(Len(Records) >= 1 /\ Valid(Records[1])) => Printable = {}
<1>1. Len(Records) \in Nat /\ DOMAIN Records = 1..Len(Records) /\ Records \in Seq(Points)
  BY PrintableFacts
<1>2. z = 1
  <2>1. ASSUME z > 1 PROVE FALSE
    <3>1. 1 \in 1..(z - 1) /\ Len(Records) >= 1
      BY <1>1, <2>1
    <3>2. Records[1] # NoPoint
      BY <1>1, <3>1 DEF IsPlain, Records
    <3> QED
      BY <3>1, <3>2
  <2> QED
    BY <1>1, <2>1
<1>3. ASSUME NEW i \in Printable PROVE Len(Records) >= 1 /\ Valid(Records[1])
  <2>1. i \in 1..Len(Records) /\ 1 \in 1..i
    BY <1>1 DEF Printable
  <2> QED
    BY <1>1, <2>1 DEF Printable
<1>4. ASSUME Len(Records) >= 1, Valid(Records[1]) PROVE 1 \in Printable
  BY <1>1, <1>4 DEF Printable
<1> QED
  BY <1>2, <1>3, <1>4

\* From a record to print, next leads to the next one.
LEMMA NextRecord ==
  ASSUME IsFile(file), IsPlain(file), NEW p \in Printable,
         NEW z \in (p + 1)..(Len(Records) + 1),
         \A j \in (p + 1)..(z - 1) : Records[j] = Records[p],
         z <= Len(Records) /\ file.version = 3 => Records[z] # Records[p]
  PROVE  /\ \A i \in Printable : i <= p \/ i > z - 1
         /\ z <= Len(Records) /\ Valid(Records[z]) => z \in Printable
         /\ ~(z <= Len(Records) /\ Valid(Records[z])) =>
              \A i \in Printable : i <= p \/ i > Len(Records)
<1>1. /\ Len(Records) \in Nat /\ DOMAIN Records = 1..Len(Records)
      /\ p \in 1..Len(Records) /\ Printable \subseteq 1..Len(Records)
  BY PrintableFacts
<1>2. \A j \in p..(z - 1) : Records[j] = Records[p]
  BY <1>1
<1>3. ASSUME NEW i \in Printable PROVE i <= p \/ i > z - 1
  <2>1. ASSUME i > p, i <= z - 1 PROVE FALSE
    <3>1. i \in p..(z - 1) /\ i - 1 \in p..(z - 1) /\ i # 1
      BY <1>1, <2>1
    <3>2. Records[i] = Records[i - 1]
      BY <1>2, <3>1
    <3> QED
      BY <3>1, <3>2 DEF Printable
  <2> QED
    BY <1>1, <2>1
<1>4. ASSUME z <= Len(Records), Valid(Records[z]) PROVE z \in Printable
  <2>1. z \in DOMAIN Records /\ z \in 2..Len(file.recs) /\ z - 1 \in p..(z - 1)
    BY <1>1, <1>4 DEF Records
  <2>2. Records[z] # Records[z - 1]
    <3>1. Records[z - 1] = Records[p]
      BY <1>2, <2>1
    <3>2. CASE file.version = 3
      BY <1>4, <3>1, <3>2
    <3>3. CASE file.version # 3
      BY <2>1, <3>3 DEF IsPlain, Records
    <3> QED
      BY <3>2, <3>3
  <2>3. ASSUME NEW j \in 1..z PROVE Valid(Records[j])
    <3>1. CASE j <= p
      BY <1>1, <3>1 DEF Printable
    <3>2. CASE j > p /\ j <= z - 1
      <4>1. Records[j] = Records[p] /\ Valid(Records[p])
        BY <1>1, <3>2 DEF Printable
      <4> QED
        BY <4>1
    <3>3. CASE j = z
      BY <1>4, <3>3
    <3> QED
      BY <1>1, <3>1, <3>2, <3>3
  <2> QED
    BY <2>1, <2>2, <2>3 DEF Printable
<1>5. ASSUME ~(z <= Len(Records) /\ Valid(Records[z])), NEW i \in Printable
      PROVE  i <= p \/ i > Len(Records)
  <2>1. ASSUME i >= z PROVE FALSE
    <3>1. z \in 1..i /\ z <= Len(Records)
      BY <1>1, <2>1
    <3> QED
      BY <1>5, <3>1 DEF Printable
  <2> QED
    BY <1>1, <1>3, <2>1
<1> QED
  BY <1>3, <1>4, <1>5

\* What is printed so far stays as it is while the file and the output do.
LEMMA PrintedStays ==
  ASSUME UNCHANGED <<file, dataFile, printed>>
  PROVE  /\ Records' = Records /\ Printable' = Printable /\ ReadableKinds' = ReadableKinds
         /\ \A p : Printed(p)' <=> Printed(p)
<1>1. Records' = Records /\ Printable' = Printable /\ ReadableKinds' = ReadableKinds
  BY DEF Records, Printable, ReadableKinds
<1>2. ASSUME NEW p PROVE Printed(p)' <=> Printed(p)
  BY <1>1 DEF Printed, Upto, EntryFits, DataIsWhole, ListOf
<1> QED
  BY <1>1, <1>2

LEMMA PrintedNothing == IsFile(file) /\ printed = <<>> => Printed(0)
<1> SUFFICES ASSUME IsFile(file), printed = <<>> PROVE Printed(0)
  OBVIOUS
<1>1. \A i \in Printable : ~(i <= 0)
  <2>1. Printable \subseteq 1..Len(Records) /\ Len(Records) \in Nat
    BY PrintableFacts
  <2> QED
    BY <2>1
<1>2. Upto(0) = {}
  BY <1>1 DEF Upto
<1>3. Len(printed) = 0 /\ DOMAIN printed = {}
  OBVIOUS
<1> QED
  BY <1>2, <1>3, FS_EmptySet DEF Printed

LEMMA StillNothing == (IsFile(file) /\ printed = <<>>)' => Printed(0)'
BY PrintedNothing, PTL

LEMMA ToolLoads == IInv /\ IInv' /\ ClosedAtEnd' /\ PointsInv /\ PointsLoad => PointsInv'
<1> SUFFICES ASSUME IInv, IInv', ClosedAtEnd', PointsInv, PointsLoad PROVE PointsInv'
  OBVIOUS
<1>1. /\ tool = "load" /\ printed = <<>> /\ pc = "idle" /\ file = NoFile /\ current = NoPoint
      /\ printed' = printed
  BY DEF PointsLoad, PointsInv, Running
<1>2. PICK f \in Files :
        LoadAbsent(f) \/ LoadShort(f) \/ LoadRejected(f) \/ LoadBadData(f) \/ LoadGood(f)
  BY <1>1 DEF PointsLoad, LoadData, LoadFile, Loadable
<1>3. file' = f /\ current' = current /\ position' = 0 /\ pc' = pc /\ IsFile(file)'
  BY <1>2 DEF LoadAbsent, LoadShort, LoadRejected, LoadBadData, LoadGood, Load, IInv, TypeOK
<1>4. CASE LoadAbsent(f) \/ LoadShort(f)
  <2>1. stream' = S!Load(FALSE) \/ stream' = S!Close(S!Load(TRUE))
    BY <1>4 DEF LoadAbsent, LoadShort, Load
  <2>2. stream'.eof
    <3>1. S!Load(FALSE).eof /\ S!Close(S!Load(TRUE)).eof
      BY DEF S!Load, S!Close
    <3> QED
      BY <2>1, <3>1
  <2>3. call' = [op |-> "load", from |-> position, arg |-> 0, outcome |-> "refused"]
    BY <1>4 DEF LoadAbsent, LoadShort, Load, Enter
  <2>4. tool' = "next" /\ ~ReadableKinds'
    BY <1>3, <1>4, <2>3 DEF PointsLoad, LoadAbsent, LoadShort, ReadableKinds
  <2> QED
    BY <1>1, <1>3, <2>2, <2>4 DEF PointsInv, Running
<1>5. CASE LoadRejected(f) \/ LoadBadData(f)
  <2>1. call' = [op |-> "load", from |-> position, arg |-> 0, outcome |-> "threw"]
    BY <1>5 DEF LoadRejected, LoadBadData, Load, Enter
  <2>2. tool' = "aborted"
    BY <2>1 DEF PointsLoad
  <2> QED
    BY <1>1, <1>3, <2>2 DEF PointsInv, Running
<1>6. CASE LoadGood(f)
  <2>1. call' = [op |-> "load", from |-> position, arg |-> 0, outcome |-> "returned"]
    BY <1>6 DEF LoadGood, Load, Enter
  <2>2. tool' = "next" /\ ReadableKinds'
    BY <1>3, <1>6, <2>1 DEF PointsLoad, LoadGood, ReadableKinds
  <2>3. HeaderSize \in Nat /\ HeaderSize + 2 * 0 = HeaderSize
    BY <1>3, FileLayout
  <2>4. /\ stream'.isOpen /\ ~stream'.fail /\ ~stream'.eof
        /\ stream'.at = HeaderSize + 2 * 0
    <3>1. stream' = S!Seek(S!Load(TRUE), HeaderSize)
      BY <1>6 DEF LoadGood, Load
    <3>2. HeaderSize >= 0 /\ HeaderSize = HeaderSize + 2 * 0
      BY <2>3
    <3>3. /\ S!Seek(S!Load(TRUE), HeaderSize).isOpen
          /\ ~S!Seek(S!Load(TRUE), HeaderSize).fail
          /\ ~S!Seek(S!Load(TRUE), HeaderSize).eof
          /\ S!Seek(S!Load(TRUE), HeaderSize).at = HeaderSize
      BY <3>2 DEF S!Seek, S!Load
    <3> QED
      BY <3>1, <3>2, <3>3
  <2>5. Reached(0)'
    <3>1. StandsAfter(Here, 0)'
      BY <1>3, <2>4 DEF StandsAfter, Here
    <3>2. current' = NoPoint
      BY <1>1, <1>3
    <3> QED
      BY <2>4, <3>1, <3>2 DEF Reached
  <2>6. Printed(0)' /\ 0 \in 0..Len(Records')
    <3>1. Len(Records') \in Nat
      BY <1>3, FileFacts DEF Records
    <3>2. 0 \in 0..Len(Records')
      BY <3>1
    <3> QED
      BY <1>1, <1>3, <3>2, StillNothing
  <2>7. Progress'
    BY <2>2, <2>5, <2>6 DEF Progress
  <2> QED
    BY <1>1, <1>3, <2>2, <2>7 DEF PointsInv, Running
<1> QED
  BY <1>2, <1>4, <1>5, <1>6

\* The first call of next.
LEMMA FirstNext ==
  ASSUME IInv, IsPlain(file), NEW r \in NextFrom(file, Here), Become(r),
         Reached(0), Printed(0), UNCHANGED <<file, dataFile, printed>>
  PROVE  IF Valid(current')
         THEN (position \in Printable)' /\ Reached(position)' /\ Printed(position' - 1)
         ELSE Printed(Len(Records))
<1> DEFINE R == Records
           L == Len(R)
<1>1. /\ IsFile(file) /\ Here \in Reader /\ Here.current = current
      /\ L \in Nat /\ R = file.recs /\ L = Len(file.recs) /\ Printable \subseteq 1..L
      /\ 0 < RecordQuotient - HeaderSlots
  <2>1. IsFile(file) /\ Here \in Reader /\ Here.current = current
    BY HereIsReader DEF IInv
  <2>2. 0 < RecordQuotient - HeaderSlots
    <3>1. /\ Len(file.recs) \in Nat /\ HeaderSlots \in Nat /\ RecordQuotient \in Nat
          /\ HeaderSlots + Len(file.recs) + 2 < RecordQuotient - HeaderSlots
      BY <2>1, FileLayout
    <3> QED
      BY <3>1
  <2> QED
    BY <2>1, <2>2, PrintableFacts DEF Records
<1>2. stream' = r.stream /\ current' = r.current /\ position' = r.position
  BY DEF Become
<1>3. StandsAfter(Here, 0) /\ current = NoPoint /\ stream.isOpen
  BY DEF Reached
<1>4. ~Valid(EndPoint(file)) /\ ~Valid(ZeroPoint)
  BY <1>1, EndIsInvalid
<1> HIDE DEF R, L
<1>5. PICK z \in 1..(L + 1) :
        /\ \A j \in 1..(z - 1) : R[j] = NoPoint
        /\ z <= L => StandsAfter(r, z) /\ r.current = R[z]
        /\ z = L + 1 => r.current = EndPoint(file)
  <2>1. 0 \in Nat /\ 0 + 1 = 1 /\ 0 <= Len(file.recs) /\ L = Len(file.recs)
    BY <1>1
  <2>2. \E z \in (0 + 1)..(Len(file.recs) + 1) :
          /\ \A j \in (0 + 1)..(z - 1) : file.recs[j] = Here.current
          /\ z <= Len(file.recs) =>
               /\ StandsAfter(r, z) /\ r.current = file.recs[z]
               /\ file.version = 3 => file.recs[z] # Here.current
          /\ z = Len(file.recs) + 1 =>
               r.stream.eof /\ r.current = EndPoint(file) /\ r.position = Len(file.recs)
    BY <1>1, <1>3, <2>1, NextInFile
  <2> QED
    BY <1>1, <1>3, <2>1, <2>2
<1>6. /\ z = 1
      /\ L >= 1 /\ Valid(R[1]) => 1 \in Printable
      /\ ~(L >= 1 /\ Valid(R[1])) => Printable = {}
  BY <1>1, <1>5, FirstRecord DEF R, L
<1>7. CASE Valid(current')
  <2>1. L >= 1 /\ StandsAfter(r, 1) /\ current' = R[1] /\ 1 \in Printable
    BY <1>1, <1>2, <1>4, <1>5, <1>6, <1>7
  <2>2. position' = 1 /\ r.position = 1
    BY <1>2, <2>1 DEF StandsAfter
  <2>3. Printable' = Printable /\ Records' = R
    BY PrintedStays DEF R
  <2>4. stream'.isOpen
    BY <1>1, <1>2, <1>3, NextKeeps, HereIsReader DEF IInv
  <2>5. StandsAfter(Here, 1)'
    BY <1>2, <2>1 DEF StandsAfter, Here
  <2>6. Reached(position)'
    BY <2>1, <2>2, <2>3, <2>4, <2>5 DEF Reached
  <2>7. Printed(position' - 1)
    BY <2>2
  <2> QED
    BY <1>7, <2>1, <2>2, <2>3, <2>6, <2>7
<1>8. CASE ~Valid(current')
  <2>1. Printable = {}
    BY <1>1, <1>2, <1>5, <1>6, <1>8
  <2>2. Printed(Len(Records))
    BY <1>1, <2>1, PrintedOnwards DEF L, R
  <2> QED
    BY <1>8, <2>2
<1> QED
  BY <1>7, <1>8

\* The others.
LEMMA LaterNext ==
  ASSUME IInv, IsPlain(file), NEW r \in NextFrom(file, Here), Become(r),
         NEW p \in Printable, Reached(p), Printed(p), UNCHANGED <<file, dataFile, printed>>
  PROVE  IF Valid(current')
         THEN (position \in Printable)' /\ Reached(position)' /\ Printed(position' - 1)
         ELSE Printed(Len(Records))
<1> DEFINE R == Records
           L == Len(R)
<1>1. /\ IsFile(file) /\ Here \in Reader /\ Here.current = current
      /\ L \in Nat /\ R = file.recs /\ L = Len(file.recs) /\ Printable \subseteq 1..L
      /\ HeaderSlots + L + 2 < RecordQuotient - HeaderSlots /\ HeaderSlots \in Nat
      /\ RecordQuotient \in Nat
  BY HereIsReader, PrintableFacts, FileLayout DEF IInv, Records
<1>2. stream' = r.stream /\ current' = r.current /\ position' = r.position
  BY DEF Become
<1>3. StandsAfter(Here, p) /\ current = R[p] /\ stream.isOpen
  <2>1. p # 0
    BY <1>1
  <2> QED
    BY <2>1 DEF Reached
<1>4. ~Valid(EndPoint(file)) /\ ~Valid(ZeroPoint)
  BY <1>1, EndIsInvalid
<1> HIDE DEF R, L
<1>5. p \in Nat /\ p >= 1 /\ p <= L /\ p < RecordQuotient - HeaderSlots
  BY <1>1
<1>6. PICK z \in (p + 1)..(L + 1) :
        /\ \A j \in (p + 1)..(z - 1) : R[j] = R[p]
        /\ z <= L => /\ StandsAfter(r, z) /\ r.current = R[z]
                     /\ file.version = 3 => R[z] # R[p]
        /\ z = L + 1 => r.current = EndPoint(file)
  <2>1. L = Len(file.recs) /\ p <= Len(file.recs)
    BY <1>1, <1>5
  <2>2. \E z \in (p + 1)..(Len(file.recs) + 1) :
          /\ \A j \in (p + 1)..(z - 1) : file.recs[j] = Here.current
          /\ z <= Len(file.recs) =>
               /\ StandsAfter(r, z) /\ r.current = file.recs[z]
               /\ file.version = 3 => file.recs[z] # Here.current
          /\ z = Len(file.recs) + 1 =>
               r.stream.eof /\ r.current = EndPoint(file) /\ r.position = Len(file.recs)
    BY <1>1, <1>3, <1>5, <2>1, NextInFile
  <2> QED
    BY <1>1, <1>3, <2>1, <2>2
<1>7. /\ \A i \in Printable : i <= p \/ i > z - 1
      /\ z <= L /\ Valid(R[z]) => z \in Printable
      /\ ~(z <= L /\ Valid(R[z])) => \A i \in Printable : i <= p \/ i > L
  BY <1>1, <1>6, NextRecord DEF R, L
<1>8. CASE Valid(current')
  <2>1. z <= L /\ StandsAfter(r, z) /\ current' = R[z] /\ z \in Printable
    <3>1. z # L + 1
      BY <1>2, <1>4, <1>6, <1>8
    <3>2. z <= L
      BY <1>1, <1>5, <3>1
    <3>3. StandsAfter(r, z) /\ current' = R[z]
      BY <1>2, <1>6, <3>2
    <3> QED
      BY <1>7, <1>8, <3>2, <3>3
  <2>2. position' = z /\ z # 0
    BY <1>2, <1>5, <2>1 DEF StandsAfter
  <2>3. Printable' = Printable /\ Records' = R
    BY PrintedStays DEF R
  <2>4. stream'.isOpen
    BY <1>1, <1>2, <1>3, NextKeeps, HereIsReader DEF IInv
  <2>5. StandsAfter(Here, z)'
    BY <1>2, <2>1 DEF StandsAfter, Here
  <2>6. Reached(z)'
    BY <2>1, <2>2, <2>3, <2>4, <2>5 DEF Reached
  <2>7. Printed(z - 1)
    <3>1. z - 1 \in Nat /\ p <= z - 1
      BY <1>1, <1>5
    <3> QED
      BY <1>1, <1>5, <1>7, <3>1, PrintedOnwards
  <2> QED
    BY <1>8, <2>1, <2>2, <2>3, <2>6, <2>7
<1>9. CASE ~Valid(current')
  <2>1. \A i \in Printable : i <= p \/ i > L
    BY <1>1, <1>2, <1>5, <1>6, <1>7, <1>9
  <2>2. Printed(Len(Records))
    BY <1>1, <1>5, <2>1, PrintedOnwards DEF L, R
  <2> QED
    BY <1>9, <2>2
<1> QED
  BY <1>8, <1>9

LEMMA ToolNext == IInv /\ ClosedAtEnd /\ (\A f \in Files : IsPlain(f)) /\ PointsInv /\ PointsNext
                    => PointsInv'
<1> SUFFICES ASSUME IInv, ClosedAtEnd, \A f \in Files : IsPlain(f), PointsInv, PointsNext
             PROVE  PointsInv'
  OBVIOUS
<1>1. PICK r \in NextFrom(file, Here) : Become(r)
  BY DEF PointsNext, CallNextData, CallNext
<1>2. /\ tool = "next" /\ tool' = "test" /\ Running /\ Running'
      /\ UNCHANGED <<file, dataFile, printed, pc>>
  BY DEF PointsNext, CallNextData, CallNext, fileVars, Running
<1>3. Records' = Records /\ Printable' = Printable /\ ReadableKinds' = ReadableKinds
      /\ \A p : Printed(p)' <=> Printed(p)
  BY <1>2, PrintedStays
<1>4. /\ tool' # "load" /\ tool' \in {"none", "load", "next", "test", "done", "aborted"}
      /\ \E T : printed' \in Seq(T)
      /\ pc' = "idle"
  BY <1>2 DEF PointsInv
<1>5. CASE ~ReadableKinds
  <2>1. stream.eof /\ current = NoPoint /\ printed = <<>>
    BY <1>2, <1>5 DEF PointsInv
  <2>2. r = Here
    BY <2>1, HereIsReader, ClosedNext DEF IInv
  <2>3. stream' = stream /\ current' = current
    BY <1>1, <2>2 DEF Become, Here
  <2> QED
    BY <1>2, <1>3, <1>4, <1>5, <2>1, <2>3 DEF PointsInv
<1>6. CASE ReadableKinds
  <2>1. file \in Files /\ Progress
    BY <1>2, <1>6 DEF PointsInv
  <2>2. PICK p \in 0..Len(Records) : Reached(p) /\ Printed(p)
    BY <1>2, <2>1 DEF Progress
  <2>3. IF Valid(current')
        THEN (position \in Printable)' /\ Reached(position)' /\ Printed(position' - 1)
        ELSE Printed(Len(Records))
    <3>1. CASE p = 0
      BY <1>1, <1>2, <2>1, <2>2, <3>1, FirstNext
    <3>2. CASE p # 0
      <4>1. p \in Printable
        BY <2>2, <3>2 DEF Reached
      <4> QED
        BY <1>1, <1>2, <2>1, <2>2, <4>1, LaterNext
    <3> QED
      BY <3>1, <3>2
  <2>4. Progress'
    BY <1>2, <1>3, <2>3 DEF Progress
  <2> QED
    BY <1>2, <1>3, <1>4, <1>6, <2>1, <2>4 DEF PointsInv
<1> QED
  BY <1>5, <1>6

\* The point printed is the next one to print, and its dumps are its own.
LEMMA OnePrinted ==
  ASSUME IInv, DataInv, NEW T, printed \in Seq(T),
         NEW p \in Printable, p = position, Reached(p), Printed(p - 1),
         printed' = Append(printed, [number |-> position, point |-> current, data |-> dumps]),
         UNCHANGED <<file, dataFile>>
  PROVE  Printed(p)'
<1> DEFINE e == [number |-> position, point |-> current, data |-> dumps]
<1>1. /\ IsFile(file) /\ DOMAIN Records = 1..Len(Records) /\ Len(Records) \in Nat
      /\ Printable \subseteq 1..Len(Records) /\ IsFiniteSet(Printable)
  BY HereIsReader, PrintableFacts DEF IInv
<1>2. p \in Nat /\ p >= 1
  BY <1>1
<1>3. /\ DOMAIN printed' = 1..(Len(printed) + 1) /\ Len(printed') = Len(printed) + 1
      /\ printed'[Len(printed) + 1] = e /\ Len(printed) \in Nat
      /\ \A n \in 1..Len(printed) : printed'[n] = printed[n]
  OBVIOUS
<1>4. Upto(p) = Upto(p - 1) \cup {p} /\ p \notin Upto(p - 1)
  <2>1. \A i \in Nat : (i <= p) <=> (i <= p - 1 \/ i = p)
    BY <1>2
  <2>2. ~(p <= p - 1) /\ p <= p
    BY <1>2
  <2>3. Printable \subseteq Nat
    BY <1>1
  <2> QED
    BY <2>1, <2>2, <2>3 DEF Upto
<1>5. IsFiniteSet(Upto(p - 1)) /\ Cardinality(Upto(p - 1)) \in Nat
  <2>1. Upto(p - 1) \in SUBSET Printable
    BY DEF Upto
  <2> QED
    BY <1>1, <2>1, FS_Subset, FS_CardinalityType
<1>6. Cardinality(Upto(p)) = Cardinality(Upto(p - 1)) + 1
  BY <1>4, <1>5, FS_AddElement, ZenonT(30)
<1>7. Len(printed) = Cardinality(Upto(p - 1))
  BY DEF Printed
<1>8. EntryFits(e, Len(printed) + 1)
  <2>1. {j \in Printable : j < p} = Upto(p - 1)
    <3>1. \A j \in Printable : (j < p) <=> (j <= p - 1)
      BY <1>1, <1>2
    <3> QED
      BY <3>1 DEF Upto
  <2>2. current = Records[p]
    BY <1>2 DEF Reached
  <2>3. ASSUME DataIsWhole PROVE dumps = ListOf(p)
    <3>1. stream.at = HeaderSize + 2 * p /\ ~stream.fail /\ stream.isOpen
      BY HereIsReader DEF IInv, Reached, StandsAfter
    <3>2. stream.at % 2 = 0
      <4>1. stream.at = 2 * (HeaderSlots + p) /\ HeaderSlots + p \in Nat
        BY <1>2, <3>1, Sizes DEF HeaderSize
      <4>2. \A i \in Nat : (2 * i) % 2 = 0
        OBVIOUS
      <4> QED
        BY <4>1, <4>2
    <3>3. current # NoPoint
      <4>1. Valid(Records[p])
        BY <1>1, <1>2 DEF Printable
      <4> QED
        BY <2>2, <4>1 DEF Valid, NoPoint
    <3>4. OnRecord
      BY <1>1, <3>1, <3>2, <3>3 DEF OnRecord, Readable, Aligned
    <3>5. PointCarriesItsDumps
      BY DEF DataInv
    <3>6. dumps = ListOf(position)
      BY <2>3, <3>4, <3>5 DEF PointCarriesItsDumps
    <3>7. position = p
      OBVIOUS
    <3> QED
      BY <3>6, <3>7
  <2>4. Cardinality({j \in Printable : j < p}) = (Len(printed) + 1) - 1
    <3>1. Len(printed) = (Len(printed) + 1) - 1
      BY <1>3
    <3>2. Cardinality({j \in Printable : j < p}) = Len(printed)
      BY <1>7, <2>1
    <3> QED
      BY <3>1, <3>2
  <2>5. e.number = p /\ e.point = current /\ e.data = dumps
    OBVIOUS
  <2> HIDE DEF e
  <2> QED
    BY <2>2, <2>3, <2>4, <2>5 DEF EntryFits
<1>9. \A n \in 1..Len(printed) : EntryFits(printed[n], n)
  <2>1. DOMAIN printed = 1..Len(printed)
    OBVIOUS
  <2> QED
    BY <2>1 DEF Printed
<1> HIDE DEF e
<1>10. \A n \in DOMAIN printed' : EntryFits(printed'[n], n)
  BY <1>3, <1>8, <1>9
<1>11. Len(printed') = Cardinality(Upto(p))
  BY <1>3, <1>6, <1>7
<1>12. Records' = Records /\ Printable' = Printable /\ (DataIsWhole <=> DataIsWhole')
       /\ \A i : ListOf(i)' = ListOf(i)
  BY DEF Records, Printable, DataIsWhole, ListOf
<1>13. \A n : EntryFits(printed'[n], n) <=> EntryFits(printed[n], n)'
  BY <1>12 DEF EntryFits
<1> QED
  BY <1>10, <1>11, <1>12, <1>13 DEF Printed, Upto

LEMMA ToolPrints == IInv /\ DataInv /\ PointsInv /\ PointsPrint => PointsInv'
<1> SUFFICES ASSUME IInv, DataInv, PointsInv, PointsPrint PROVE PointsInv'
  OBVIOUS
<1>1. /\ tool = "test" /\ tool' = "next" /\ Running /\ Running' /\ Valid(current)
      /\ UNCHANGED <<file, stream, position, current, pc, dataFile>>
      /\ printed' = Append(printed, [number |-> position, point |-> current, data |-> dumps])
  BY DEF PointsPrint, Invalid, Running, vars, fileVars, readerVars, localVars, dataVars, pointData
<1>2. PICK T : printed \in Seq(T)
  BY DEF PointsInv
<1>3. ReadableKinds
  BY <1>1 DEF PointsInv, Valid, NoPoint
<1>4. file \in Files /\ position \in Printable /\ Reached(position) /\ Printed(position - 1)
  BY <1>1, <1>3 DEF PointsInv, Progress
<1>5. PICK p \in Printable : p = position
  BY <1>4
<1>6. Printed(p)'
  BY <1>1, <1>2, <1>4, <1>5, OnePrinted
<1>7. /\ p \in 0..Len(Records) /\ Records' = Records /\ Printable' = Printable
      /\ ReadableKinds'
  <2>1. Printable \subseteq 1..Len(Records) /\ Len(Records) \in Nat
    BY HereIsReader, PrintableFacts DEF IInv
  <2> QED
    BY <1>1, <1>3, <2>1 DEF Records, Printable, ReadableKinds
<1>8. Reached(p)'
  BY <1>1, <1>4, <1>5, <1>7 DEF Reached, StandsAfter, Here
<1>9. Progress'
  BY <1>1, <1>6, <1>7, <1>8 DEF Progress
<1>10. \E U : printed' \in Seq(U)
  <2> DEFINE e == [number |-> position, point |-> current, data |-> dumps]
  <2>1. printed \in Seq(T \cup {e}) /\ e \in T \cup {e}
    BY <1>2
  <2>2. printed' = Append(printed, e)
    BY <1>1
  <2> HIDE DEF e
  <2> QED
    BY <2>1, <2>2
<1> QED
  BY <1>1, <1>4, <1>7, <1>9, <1>10 DEF PointsInv

LEMMA ToolStops == PointsInv /\ PointsStop => PointsInv'
<1> SUFFICES ASSUME PointsInv, PointsStop PROVE PointsInv'
  OBVIOUS
<1>1. /\ tool = "test" /\ tool' = "done" /\ Running /\ Running' /\ ~Valid(current)
      /\ UNCHANGED <<file, stream, current, pc, dataFile, printed>>
  BY DEF PointsStop, Invalid, Running, vars, fileVars, readerVars, localVars, dataVars, pointData
<1>2. Records' = Records /\ ReadableKinds' = ReadableKinds /\ \A p : Printed(p)' <=> Printed(p)
  BY <1>1, PrintedStays
<1>3. ReadableKinds => Progress'
  BY <1>1, <1>2 DEF PointsInv, Progress
<1> QED
  BY <1>1, <1>2, <1>3 DEF PointsInv

LEMMA ToolWaits ==
  PointsInv /\ (OtherClient \/ UNCHANGED <<vars, dataVars, toolVars>>) => PointsInv'
<1>1. ASSUME PointsInv, OtherClient PROVE PointsInv'
  <2>1. tool = "none" /\ tool' = "none" /\ printed' = printed
    BY <1>1 DEF OtherClient, toolVars
  <2> QED
    BY <1>1, <2>1 DEF PointsInv, Running
<1>2. ASSUME PointsInv, UNCHANGED <<vars, dataVars, toolVars>> PROVE PointsInv'
  <2>1. UNCHANGED <<file, stream, current, position, event, pc, dataFile, tool, printed>>
    BY <1>2 DEF vars, fileVars, readerVars, localVars, dataVars, pointData, toolVars
  <2>2. /\ Records' = Records /\ Printable' = Printable /\ ReadableKinds' = ReadableKinds
        /\ \A p : Printed(p)' <=> Printed(p)
    BY <2>1, PrintedStays
  <2>3. \A p : Reached(p)' <=> Reached(p)
    BY <2>1, <2>2 DEF Reached, StandsAfter, Here
  <2>4. Running /\ ReadableKinds => Progress'
    BY <1>2, <2>1, <2>2, <2>3 DEF PointsInv, Progress, Running
  <2> QED
    BY <1>2, <2>1, <2>2, <2>4 DEF PointsInv, Running
<1> QED
  BY <1>1, <1>2

\* What is printed is right.
LEMMA PrintedIsRight == IInv /\ PointsInv => PrintsThePoints
<1> SUFFICES ASSUME IInv, PointsInv PROVE PrintsThePoints
  OBVIOUS
<1> DEFINE numbers == IF ReadableKinds THEN Printable ELSE {}
<1>1. /\ Upto(Len(Records)) = Printable /\ IsFiniteSet(Printable)
      /\ Cardinality(Printable) \in Nat
  BY HereIsReader, PrintableFacts, FS_CardinalityType DEF IInv
<1>2. CASE printed = <<>> /\ ~(Running /\ ReadableKinds)
  <2>1. Len(printed) = 0 /\ DOMAIN printed = {}
    BY <1>2
  <2>2. Cardinality(numbers) \in Nat /\ (~ReadableKinds => Cardinality(numbers) = 0)
    BY <1>1, FS_EmptySet
  <2>3. tool = "done" => ~ReadableKinds
    BY <1>2 DEF Running
  <2> HIDE DEF numbers
  <2>4. /\ Len(printed) <= Cardinality(numbers)
        /\ tool = "done" => Len(printed) = Cardinality(numbers)
    BY <2>1, <2>2, <2>3
  <2> QED
    BY <2>1, <2>4 DEF PrintsThePoints, numbers
<1>3. CASE Running /\ ReadableKinds
  <2>1. Progress
    BY <1>3 DEF PointsInv
  <2>2. PICK q : Printed(q) /\ (tool = "done" => q = Len(Records))
    BY <1>3, <2>1 DEF Progress, Running
  <2>3. Cardinality(Upto(q)) <= Cardinality(Printable)
    <3>1. Upto(q) \in SUBSET Printable
      BY DEF Upto
    <3> QED
      BY <1>1, <3>1, FS_Subset
  <2>4. /\ Len(printed) <= Cardinality(Printable)
        /\ tool = "done" => Len(printed) = Cardinality(Printable)
    BY <1>1, <2>2, <2>3 DEF Printed
  <2>5. \A n \in DOMAIN printed : EntryFits(printed[n], n)
    BY <2>2 DEF Printed
  <2> QED
    BY <1>3, <2>4, <2>5 DEF PrintsThePoints, EntryFits
<1> QED
  BY <1>2, <1>3 DEF PointsInv


-----------------------------------------------------------------------------
(* The theorems.                                                           *)

(***************************************************************************)
(* A reader with its data file behaves as one without it: the dumps decide *)
(* nothing of where the reader goes, so that whatever is proved of         *)
(* sync_file holds of it too.                                              *)
(***************************************************************************)
THEOREM DataChangesNothing == DataSpec => Spec
<1>1. DataInit => Init
  BY DEF DataInit
<1> QED
  BY <1>1, DataStepIsAStep, PTL DEF DataSpec, Spec

(***************************************************************************)
(* No point ever has the memory dumps of another one, whatever the sync    *)
(* file, the data file (whole, cut or with offsets that lead anywhere) and *)
(* the calls: also after the look-ahead and put-back of current_event, the *)
(* walk back of advance_to, and seeks that wrap around.                    *)
(***************************************************************************)
THEOREM DumpsAreOwn == DataSpec => []NoForeignDumps
<1>1. DataInit => IInv /\ ClosedAtEnd /\ NoForeignDumps
  <2> SUFFICES ASSUME DataInit PROVE IInv /\ ClosedAtEnd /\ NoForeignDumps
    OBVIOUS
  <2>1. IInv /\ ClosedAtEnd
    BY InitHolds, InitClosed DEF DataInit
  <2>2. dumps = <<>>
    BY DEF DataInit
  <2> QED
    BY <2>1, <2>2 DEF NoForeignDumps
<1>2. IInv /\ ClosedAtEnd /\ NoForeignDumps /\ [DataStep]_<<vars, dataVars>>
        => IInv' /\ ClosedAtEnd' /\ NoForeignDumps'
  BY DataStepIsAStep, NextKeepsIInv, ClosedKeeps, DataStepIsOwn
<1> QED
  BY <1>1, <1>2, PTL DEF DataSpec

(***************************************************************************)
(* With a whole data file every point has all the dumps of its record, in  *)
(* their order, whatever files were loaded before it and however it was    *)
(* reached: next meets the end of that file in no list of it, and a load   *)
(* or a list cut short in an earlier file leaves no end behind.            *)
(***************************************************************************)
THEOREM DumpsAreComplete == DataSpec => []PointCarriesItsDumps
<1>1. DataInit => IInv /\ ClosedAtEnd /\ DataInv
  BY DataInitHolds
<1>2. IInv /\ ClosedAtEnd /\ DataInv /\ [DataStep]_<<vars, dataVars>>
        => IInv' /\ ClosedAtEnd' /\ DataInv'
  BY DataStepIsAStep, NextKeepsIInv, ClosedKeeps, DataStepCarries
<1>3. DataInv => PointCarriesItsDumps
  BY DEF DataInv
<1> QED
  BY <1>1, <1>2, <1>3, PTL DEF DataSpec

(***************************************************************************)
(* The current event has the dumps of its own points, each once and in the *)
(* order of its records: none of them is missing, none is of the event     *)
(* looked at after it and put back, and an interrupt reported twice gives  *)
(* its dumps once. So it is for any scenario whose data file is whole.     *)
(***************************************************************************)
THEOREM EventsCarryTheirDumps == Recorded => (DataSpec => []EventCarriesItsDumps)
<1> SUFFICES ASSUME Recorded PROVE DataSpec => []EventCarriesItsDumps
  OBVIOUS
<1> DEFINE Inv == IInv /\ ClosedAtEnd /\ EventInv /\ DataInv /\ GatherInv
<1>1. DataInit => Inv
  <2> SUFFICES ASSUME DataInit PROVE Inv
    OBVIOUS
  <2>1. IInv /\ ClosedAtEnd /\ DataInv /\ EventInv
    BY DataInitHolds, EventInvHolds DEF DataInit
  <2>2. pc = "idle" /\ event = NoEvent /\ ~ahead
    BY DEF DataInit, Init
  <2> QED
    BY <2>1, <2>2
       DEF GatherInv, PartGathers, DraftGathers, HeldGathers, EventGathers, NoEvent
<1>2. Inv /\ [DataStep]_<<vars, dataVars>> => Inv'
  BY DataStepIsAStep, NextKeepsIInv, ClosedKeeps, EventInvKept, DataStepCarries, GatherInvKept
<1>3. Inv => EventCarriesItsDumps
  <2> SUFFICES ASSUME Inv, Idle, event.isValid, Readable, DataIsWhole PROVE EventCarriesItsDumps
    BY DEF EventCarriesItsDumps
  <2> DEFINE own == DumpsOf(Records, event.position)
  <2>1. eventDumps = own
    BY DEF GatherInv, EventGathers, Readable, Idle
  <2>2. own \in Seq(Nat)
    <3>1. OpenInv
      BY DEF EventInv, StuckInv, Readable
    <3>2. event.position \in 1..Len(Records)
      BY <3>1 DEF OpenInv, BetweenCalls, EventIsRight, IsCombinedAt, IsEventAt, Idle
    <3>3. Records \in Seq(Points)
      BY <3>1, OpenFacts
    <3> QED
      BY <3>2, <3>3, DumpsOfType DEF DataInv
  <2> HIDE DEF own
  <2>3. /\ Len(own) - Len(own) = 0 /\ SubSeq(own, 0 + 1, Len(own)) = own
        /\ \A n \in 1..0 : FALSE
    BY <2>2
  <2> QED
    BY <2>1, <2>3 DEF own, EventCarriesItsDumps
<1> QED
  BY <1>1, <1>2, <1>3, PTL DEF DataSpec

(***************************************************************************)
(* The tools and other clients use the library and nothing else: whatever  *)
(* is proved of sync_file and its dumps holds while they run.              *)
(***************************************************************************)
THEOREM UsersAreClients == UsersSpec => DataSpec
<1>1. UsersInit => DataInit
  BY DEF UsersInit
<1> QED
  BY <1>1, UsersStepIsADataStep, PTL DEF UsersSpec, DataSpec

(***************************************************************************)
(* The tools print the points of any plain file as they promise: those to  *)
(* print and no other, each once and in order, under its number, and with  *)
(* its dumps where the data file is whole; they stop when they have        *)
(* printed them all, and print nothing of a file that load refuses. What   *)
(* is printed is always what is to be printed among the records up to the  *)
(* one the reader is on.                                                   *)
(***************************************************************************)
THEOREM ToolsPrintThePoints ==
  ASSUME \A f \in Files : IsPlain(f)
  PROVE  UsersSpec => []PrintsThePoints
<1> DEFINE Inv == IInv /\ ClosedAtEnd /\ DataInv /\ PointsInv
           Step == [PointsStep \/ OtherClient]_<<vars, dataVars, toolVars>>
<1>1. UsersInit => Inv
  <2> SUFFICES ASSUME UsersInit PROVE Inv
    OBVIOUS
  <2>1. IInv /\ ClosedAtEnd /\ DataInv
    BY DataInitHolds DEF UsersInit
  <2>2. pc = "idle" /\ file = NoFile /\ current = NoPoint /\ printed = <<>>
        /\ tool \in {"load", "none"}
    BY DEF UsersInit, DataInit, Init
  <2>3. \E T : printed \in Seq(T)
    BY <2>2
  <2> QED
    BY <2>1, <2>2, <2>3 DEF PointsInv, Running
<1>2. Inv /\ Step => Inv'
  <2> SUFFICES ASSUME Inv, Step PROVE Inv'
    OBVIOUS
  <2>1. IInv' /\ ClosedAtEnd' /\ DataInv'
    BY UsersStepIsADataStep, DataStepIsAStep, NextKeepsIInv, ClosedKeeps, DataStepCarries
  <2>2. PointsInv'
    BY <2>1, ToolLoads, ToolNext, ToolPrints, ToolStops, ToolWaits DEF PointsStep
  <2> QED
    BY <2>1, <2>2
<1>3. Inv => PrintsThePoints
  BY PrintedIsRight
<1> QED
  BY <1>1, <1>2, <1>3, PTL DEF UsersSpec
=============================================================================
