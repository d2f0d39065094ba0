---------------------------- MODULE SyncFileData ----------------------------
(***************************************************************************)
(* The memory dumps of a scenario. They are in a file of their own, beside *)
(* the sync file: each record of the sync file holds the offset of a list  *)
(* of dumps there, or 0. next reads the lists of the records it reads,     *)
(* current_event gathers those of the points it aggregates. The module     *)
(* adds the dumps to SyncFile and changes nothing of it.                   *)
(***************************************************************************)
EXTENDS SyncFileEvents, SequencesExt

CONSTANT DataFilesFor(_)  \* the data files a sync file may come with

VARIABLES
  dataFile,    \* the data file of the last load that opened one
  dataEof,     \* data_file_.eof(): also when the file is closed
  dumps,       \* current_.data
  draftDumps,  \* the data of the local event of fetch_new_event
  heldDumps,   \* the data of the local event of current_event
  eventDumps   \* current_event_.data

pointData == <<dataFile, dataEof, dumps>>
dataVars == <<pointData, draftDumps, heldDumps, eventDumps>>

(***************************************************************************)
(* A data file is a series of cells, named by numbers: a dump, End (the    *)
(* mark of a list, data_end), or Torn, the part of a dump that a truncated *)
(* file ends with. offsets gives the cell the list of each record starts   *)
(* at, 0 when it has none.                                                 *)
(***************************************************************************)
End == 0
Torn == 1

DataFileType == [exists: BOOLEAN, cells: Seq(Nat), offsets: Seq(Nat)]

NoDataFile == [exists |-> FALSE, cells |-> <<>>, offsets |-> <<>>]

ASSUME DataFilesAssumption ==
  \A f \in Files \cup Reloads : \A d \in DataFilesFor(f) : d \in DataFileType

\* The cell at which reading from cell k stops: beyond the last one every read
\* gives zeros, and data_end is 0.
StopFrom(d, k) ==
  Min({m \in k..(k + Len(d.cells)) : m > Len(d.cells) \/ d.cells[m] \in {End, Torn}})

\* Mistake: the end of the file is met with the mark of its last list already.
HitsEndEarly(d, k) == StopFrom(d, k) >= Len(d.cells)

HitsEnd(d, k) ==
  LET m == StopFrom(d, k) IN m > Len(d.cells) \/ d.cells[m] = Torn

\* The dumps read there. A torn one is kept too.
ListAt(d, k) ==
  LET m == StopFrom(d, k)
  IN  SubSeq(d.cells, k, m - 1) \o (IF m <= Len(d.cells) /\ d.cells[m] = Torn THEN <<Torn>> ELSE <<>>)

\* data_offset of the record at an offset of the sync file; there is none in
\* the header, nor in what is read beyond the end or at a wrong alignment.
DataOffset(d, offset) ==
  LET i == ((offset - HeaderSize) \div 2) + 1
  IN  IF offset >= HeaderSize /\ offset % 2 = 0 /\ i \in DOMAIN d.offsets
      THEN d.offsets[i] ELSE 0

\* Mistake: the list of the point before is not cleared.
CollectedOnto(d, eof, offset) ==
  LET k == DataOffset(d, offset)
  IN  dumps \o (IF k = 0 \/ eof THEN <<>> ELSE ListAt(d, k))

\* current_.data once the record at an offset is read.
Collected(d, eof, offset) ==
  LET k == DataOffset(d, offset)
  IN  IF k = 0 \/ eof THEN <<>> ELSE ListAt(d, k)

\* The data file once the records at some offsets are read: its end, once met,
\* keeps all later lists from being sought.
EofAfter(d, eof, offsets) ==
  eof \/ \E o \in offsets : DataOffset(d, o) # 0 /\ HitsEnd(d, DataOffset(d, o))

\* The dumps that reading the sync file from an offset on leaves: next reads
\* the lists of the points it skips too, and keeps the last one.
ReadDumps(from) ==
  LET last == stream'.at - RecordSize
      read == {o \in from..last : (o - from) % RecordSize = 0}
  IN  /\ dataEof' = EofAfter(dataFile, dataEof, read)
      /\ dumps' = IF stream'.eof THEN <<>>
                  ELSE Collected(dataFile, EofAfter(dataFile, dataEof, read \ {last}), last)

\* Nothing is read: the offset is 0, in zeros, or the point is reset.
NoDumps == dumps' = <<>> /\ UNCHANGED dataEof

\* next() returns at once at the end of the sync file.
NextDumps ==
  IF stream.eof THEN UNCHANGED <<dataEof, dumps>>
  ELSE IF stream.fail THEN NoDumps
  ELSE ReadDumps(stream.at)

\* seek(p)
SeekDumps(p) ==
  IF ~sized THEN UNCHANGED <<dataEof, dumps>>
  ELSE IF p = 0 \/ ~stream.isOpen \/ SeekOffset(p - 1) < 0 THEN NoDumps
  ELSE ReadDumps(OffsetOf(p - 1))

-----------------------------------------------------------------------------
(* The calls of sync_file, with what they do to the dumps.                 *)

\* Mistake: the end of the data file of before is still the end.
LoadDataAtEnd ==
  /\ LoadFile
  /\ IF file'.kind \notin {"good", "bad_data"} THEN UNCHANGED <<dataFile, dataEof>>
     ELSE IF file'.version = 0
     THEN dataFile' = [dataFile EXCEPT !.offsets = <<>>] /\ UNCHANGED dataEof
     ELSE IF file'.kind = "bad_data" THEN dataEof' = TRUE /\ UNCHANGED dataFile
     ELSE \E d \in DataFilesFor(file') :
            dataFile' = d /\ dataEof' = (~d.exists \/ (dataEof /\ dataFile # NoDataFile))
  /\ UNCHANGED <<dumps, draftDumps, heldDumps, eventDumps>>

\* A load that does not get as far as the data file leaves the one of before;
\* so does a sync file of version 0, whose records have no dumps.
LoadData ==
  /\ LoadFile
  /\ IF file'.kind \notin {"good", "bad_data"} THEN UNCHANGED <<dataFile, dataEof>>
     ELSE IF file'.version = 0
     THEN dataFile' = [dataFile EXCEPT !.offsets = <<>>] /\ UNCHANGED dataEof
     ELSE IF file'.kind = "bad_data" THEN dataEof' = TRUE /\ UNCHANGED dataFile
     ELSE \E d \in DataFilesFor(file') : dataFile' = d /\ dataEof' = ~d.exists
  /\ UNCHANGED <<dumps, draftDumps, heldDumps, eventDumps>>

\* The event given up by next gives up its dumps.
ForgetEvent == eventDumps' = IF event' = NoEvent THEN <<>> ELSE eventDumps

\* Mistake: the dumps of an interrupt reported twice are taken twice.
AfterInterruptTwice == IF Valid(current') THEN dumps' ELSE <<>>

\* The points after the interrupt: the second report of it is passed over.
AfterInterrupt ==
  IF Valid(current') /\ ~IsInterrupt(current') THEN dumps' ELSE <<>>

CallNextData ==
  /\ CallNext
  /\ NextDumps /\ ForgetEvent
  /\ UNCHANGED <<draftDumps, heldDumps>>

FetchData ==
  \/ /\ FetchSkip
     /\ NextDumps /\ ForgetEvent
     /\ draftDumps' = <<>>
     /\ UNCHANGED heldDumps
  \/ /\ FetchMissing
     /\ draftDumps' = dumps
     /\ UNCHANGED <<dataEof, dumps, heldDumps, eventDumps>>
  \/ /\ FetchExit
     /\ NextDumps /\ ForgetEvent
     /\ draftDumps' = dumps \o (IF Valid(current') THEN dumps' ELSE <<>>)
     /\ UNCHANGED heldDumps
  \/ /\ FetchInterrupt
     /\ NextDumps /\ ForgetEvent
     /\ draftDumps' = draftDumps \o AfterInterrupt
     /\ UNCHANGED heldDumps
  \/ /\ FetchRepeated
     /\ NextDumps /\ ForgetEvent
     /\ draftDumps' = draftDumps \o (IF Valid(current') THEN dumps' ELSE <<>>)
     /\ UNCHANGED heldDumps
  \/ /\ FetchEnter
     /\ UNCHANGED <<dataEof, dumps, draftDumps, heldDumps, eventDumps>>
  \/ /\ FetchThrows
     /\ draftDumps' = <<>> /\ heldDumps' = <<>>
     /\ UNCHANGED <<dataEof, dumps, eventDumps>>

\* A merge keeps the dumps of the second event only.
CurrentEventData ==
  \/ /\ FirstReturns \/ Merge
     /\ heldDumps' = draftDumps
     /\ UNCHANGED <<dataEof, dumps, draftDumps, eventDumps>>
  \/ /\ CallCurrentEvent \/ LookAhead
     /\ UNCHANGED <<dataEof, dumps, draftDumps, heldDumps, eventDumps>>
  \/ /\ Keep
     /\ eventDumps' = heldDumps
     /\ draftDumps' = <<>> /\ heldDumps' = <<>>
     /\ UNCHANGED <<dataEof, dumps>>
  \/ /\ PutBack
     /\ SeekDumps(Before(draft.position))
     /\ eventDumps' = heldDumps
     /\ draftDumps' = <<>> /\ heldDumps' = <<>>

SeekData ==
  \/ /\ \E p \in SeekTargets : AdvanceTo(p) /\ SeekDumps(p)
     /\ ForgetEvent
     /\ UNCHANGED <<draftDumps, heldDumps>>
  \/ /\ ReloadBack
     /\ SeekDumps(target - 1) /\ ForgetEvent
     /\ UNCHANGED <<draftDumps, heldDumps>>
  \/ /\ \E p \in EndArguments : SeekFromEnd(p)
     /\ IF sized THEN NoDumps ELSE UNCHANGED <<dataEof, dumps>>
     /\ UNCHANGED <<draftDumps, heldDumps, eventDumps>>
  \/ /\ ReloadEvent \/ Validate
     /\ UNCHANGED <<dataEof, dumps, draftDumps, heldDumps, eventDumps>>

\* next that never returns finds no data_offset in the zeros it reads.
SpinData ==
  /\ CallNextSpins \/ FetchSpins \/ Spin
  /\ NoDumps
  /\ UNCHANGED <<draftDumps, heldDumps, eventDumps>>

DataInit ==
  /\ Init
  /\ dataFile = NoDataFile /\ dataEof = TRUE
  /\ dumps = <<>> /\ draftDumps = <<>> /\ heldDumps = <<>> /\ eventDumps = <<>>

DataStep ==
  \/ LoadData
  \/ /\ CallNextData \/ FetchData \/ CurrentEventData \/ SeekData \/ SpinData
     /\ UNCHANGED dataFile

DataSpec == DataInit /\ [][DataStep]_<<vars, dataVars>>

-----------------------------------------------------------------------------
(* Properties.                                                             *)

ListOf(i) ==
  IF i \in DOMAIN dataFile.offsets /\ dataFile.offsets[i] # 0
  THEN ListAt(dataFile, dataFile.offsets[i]) ELSE <<>>

\* The data file is all there: it ends with the mark of its last list.
DataIsWhole ==
  /\ dataFile.exists
  /\ Range(dataFile.offsets) \subseteq 0..Len(dataFile.cells)
  /\ dataFile.cells # <<>> => Last(dataFile.cells) = End
  /\ Torn \notin Range(dataFile.cells)

\* The reader is on a record, and its stream there.
OnRecord ==
  Readable /\ Aligned /\ position \in DOMAIN Records /\ current # NoPoint

AtPoint == position \in DOMAIN Records /\ current = Records[position]

(***************************************************************************)
(* With a whole data file the current point has the dumps of its record,   *)
(* all of them and in order, whatever lists were read before it: looking   *)
(* ahead, putting back and seeking leave the data file elsewhere, and the  *)
(* last list of the file is read to its mark without meeting the end.      *)
(***************************************************************************)
PointCarriesItsDumps == DataIsWhole /\ OnRecord => dumps = ListOf(position)

(***************************************************************************)
(* A truncated data file, or none, may lose dumps (the first list that is  *)
(* cut short makes all later ones, the whole ones too, read as empty), but *)
(* a point never has the dumps of another one.                             *)
(***************************************************************************)
NoForeignDumps == AtPoint => dumps \in {ListOf(position), <<>>}

\* The dumps of record j are among those of the event at x: a reader stops at
\* the first of identical records, and passes over the second report of an
\* interrupt.
Contributes(R, x, j) ==
  /\ j = x \/ R[j] # R[j - 1]
  /\ IsInterrupt(R[j]) => \A i \in x..(j - 1) : ~IsInterrupt(R[i])

\* The dumps of the event at x up to record p, and all of them.
Gathered(R, x, p) ==
  FlattenSeq([n \in 1..(p - x + 1) |->
                LET j == x + n - 1 IN IF Contributes(R, x, j) THEN ListOf(j) ELSE <<>>])

DumpsOf(R, x) == Gathered(R, x, EndOf(R, x))

\* The dumps of the events that the one at x may have absorbed.
AbsorbedDumps(R, x) ==
  UNION {Range(DumpsOf(R, o)) : o \in {o \in 1..(x - 1) : Absorbing(R, o, x)}}

(***************************************************************************)
(* The current event has the dumps of its own points, each once and in the *)
(* order of its records, and none of the event looked at after it. Before  *)
(* them there is room only for those of events it absorbed. (An event that *)
(* a later load left behind goes with the first next.)                     *)
(***************************************************************************)
EventCarriesItsDumps ==
  Idle /\ event.isValid /\ Readable /\ position > 0 /\ DataIsWhole =>
    LET own   == DumpsOf(Records, event.position)
        extra == Len(eventDumps) - Len(own)
    IN  /\ extra >= 0
        /\ SubSeq(eventDumps, extra + 1, Len(eventDumps)) = own
        /\ \A n \in 1..extra : eventDumps[n] \in AbsorbedDumps(Records, event.position)

\* sync_file.cpp:165, current_event: "we'll combine the two to produce only one
\* event". Right after two events were combined the dumps of the first are gone.
CombinedEventsKeepDumps ==
  pc = "merge" /\ ahead /\ DataIsWhole =>
    \A x \in StartsOf(Records) :
      Absorbed(Records, x) /\ Following(Records, x) = held.position =>
        Range(DumpsOf(Records, x)) \subseteq Range(heldDumps)
=============================================================================
