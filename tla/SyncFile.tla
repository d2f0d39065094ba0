------------------------------ MODULE SyncFile ------------------------------
(***************************************************************************)
(* sync_file: the reader of a recorded scenario. It walks the records of   *)
(* the sync file (next, advance_to, seek_from_end) and aggregates them     *)
(* into events (current_event). A call that needs a single read of the     *)
(* file is one step; current_event and the reload loop of advance_to are   *)
(* walked one call of next or seek at a time, pc naming the place.         *)
(*                                                                         *)
(* File offsets are counted in half records: a record is two units, and    *)
(* the incomplete record a truncated file may end with is one.             *)
(***************************************************************************)
EXTENDS SyncPoint, Sequences

CONSTANTS
  Files,          \* the files a client may open first
  Reloads,        \* the files it may open afterwards
  Calls,          \* the calls it makes besides load, next and current_event
  SeekTargets,    \* the arguments it gives advance_to
  EndTargets,     \* the arguments it gives seek_from_end
  Header,         \* what the header decodes to, read as records
  Garbled,        \* what a record read at a wrong alignment decodes to
  Word,           \* 2^64, where positions wrap
  RecordQuotient, \* 2^64 / record_size_, rounded down
  OffsetLimit     \* the first offset a stream refuses, 2^63 at most

HeaderSlots == Len(Header)

(***************************************************************************)
(* kind "good": load succeeds; "absent": it cannot be opened; "short": it  *)
(* ends within the fields load reads; "rejected": wrong magic or too new a *)
(* version; "bad_data": good, but the data file has the wrong magic.       *)
(***************************************************************************)
FileKinds == {"good", "absent", "short", "rejected", "bad_data"}

FileType ==
  [kind: FileKinds \cup {"none"}, version: 0..3, recs: Seq(Points), tail: Seq(Points)]

NoFile == [kind |-> "none", version |-> 3, recs |-> <<>>, tail |-> <<>>]

\* sync_point_count(), and the size of the incomplete record.
PointCount(f) == Len(f.recs)
TailSize(f) == Len(f.tail)

HeaderSize == 2 * HeaderSlots
RecordSize == 2

FileSize(f) == HeaderSize + 2 * PointCount(f) + TailSize(f)

\* At most one incomplete record, and every offset in reach.
IsFile(f) ==
  /\ f \in FileType
  /\ TailSize(f) <= 1
  /\ FileSize(f) + RecordSize < OffsetLimit

ASSUME FilesAssumption == \A f \in Files \cup Reloads \cup {NoFile} : IsFile(f)

ASSUME ConstantsAssumption ==
  /\ Header \in Seq(Points) /\ HeaderSlots > 1
  /\ Garbled \in Points
  /\ Word \in Nat /\ RecordQuotient \in Nat /\ 2 * RecordQuotient <= Word
  /\ OffsetLimit \in 0..RecordQuotient
  /\ Calls \subseteq {"advance_to", "seek_from_end", "validate"}
  /\ SeekTargets \subseteq 0..(RecordQuotient - HeaderSlots - 1)
  /\ \A p \in EndTargets : p \in Nat /\ RecordSize * (p + 1) < OffsetLimit

VARIABLES
  file,       \* the file given to the last load
  stream,     \* file_
  sized,      \* is record_size_ nonzero?
  current,    \* current_
  position,   \* position_
  lastValid,  \* last_valid_position_
  event,      \* current_event_
  pc,         \* where the call in progress is; "idle" between calls
  draft,      \* the local event of fetch_new_event
  held,       \* the local event of current_event
  ahead,      \* is fetch_new_event called from the loop of current_event?
  irq,        \* interrupt_sp of fetch_new_event
  target,     \* the local position of advance_to
  call        \* the call in progress or last made: its name, the position
              \* it started from, its argument and how it ended

fileVars   == <<file, sized>>
readerVars == <<stream, current, position, event>>
localVars  == <<draft, held, ahead, irq, target>>
vars == <<file, stream, sized, current, position, lastValid, event, pc,
          draft, held, ahead, irq, target, call>>

S == INSTANCE StreamableFile

-----------------------------------------------------------------------------
(* Offsets and positions.                                                  *)

Wrap(n) == IF n >= Word THEN n - Word ELSE n

\* HEADER_SIZE + record_size_ * n, in 64 bits. Two ranges of n wrap around into
\* the header, the small negative numbers and those that PositionAt gives the
\* offsets before HEADER_SIZE. (The latter, where record_size_ divides 2^64, as
\* it does since version 3; see EndArguments for the versions before.)
OffsetOf(n) ==
  IF n >= Word - HeaderSlots THEN 2 * (n - (Word - HeaderSlots))
  ELSE IF n >= RecordQuotient - HeaderSlots THEN 2 * (n - (RecordQuotient - HeaderSlots))
  ELSE HeaderSize + 2 * n

\* Mistake: the division is signed.
PositionAtSigned(offset) == (offset - HeaderSize) \div 2

\* (pos - HEADER_SIZE) / record_size_, unsigned.
PositionAt(offset) ==
  IF offset >= HeaderSize THEN (offset - HeaderSize) \div 2
  ELSE IF offset >= 0 THEN RecordQuotient - ((HeaderSize - offset + 1) \div 2)
  ELSE RecordQuotient - HeaderSlots - 1

\* The point the fields of one record decode to at an offset: beyond the end
\* they are all zero, and the tail holds what an incomplete record decodes to.
PointAt(f, offset) ==
  IF offset >= FileSize(f) THEN ZeroPoint
  ELSE IF offset % 2 = 1 THEN Garbled
  ELSE IF offset < HeaderSize THEN Header[(offset \div 2) + 1]
  ELSE IF offset < HeaderSize + 2 * PointCount(f)
       THEN f.recs[((offset - HeaderSize) \div 2) + 1]
  ELSE f.tail[1]

-----------------------------------------------------------------------------
(* next() and seek(), as functions from a reader to the readers they may   *)
(* leave. A reader is the part of the state next() works on.               *)

Reader == [stream: S!Streams, current: Points, position: 0..(Word - 1), event: Events]

Here == [stream |-> stream, current |-> current, position |-> position, event |-> event]

PointAfter(f, r, n) == IF r.stream.fail THEN ZeroPoint ELSE PointAt(f, r.stream.at + 2 * n)

EndsAfter(f, r, n) ==
  ~r.stream.fail /\ S!FallsShort([r.stream EXCEPT !.at = @ + 2 * n], RecordSize, FileSize(f))

\* How many reads one call of next() may make: as many as there are positions
\* on a failed stream, where the end is never met.
ReadsAtMost(f, r) == IF r.stream.fail THEN Word - 1 ELSE FileSize(f)

(***************************************************************************)
(* The number of identical points that next() may skip: those equal to the *)
(* current one, up to the end of the file. Before version 3 the            *)
(* interrupt_vector of a point that is no interrupt is never assigned, so  *)
(* that two such points may compare as different.                          *)
(***************************************************************************)
Skips(f, r) ==
  {n \in 0..ReadsAtMost(f, r) :
     /\ \A m \in 0..(n - 1) : PointAfter(f, r, m) = r.current /\ ~EndsAfter(f, r, m)
     /\ \/ PointAfter(f, r, n) # r.current
        \/ EndsAfter(f, r, n)
        \/ f.version < 3 /\ ~IsInterrupt(r.current)}

\* On a failed stream every read returns zeros: next() may not return once the
\* current point is zero too. (Since version 3 it never does, Skips is empty.)
Spins(f, r) == r.stream.fail /\ ~r.stream.eof /\ r.current = ZeroPoint

\* The stream after n points are skipped and one more is read.
StreamAfter(f, r, n) ==
  IF r.stream.fail THEN r.stream
  ELSE S!Read([r.stream EXCEPT !.at = @ + 2 * n], RecordSize, FileSize(f))

\* Mistake: a run of identical points counts as one.
NextFromCountingRuns(f, r) ==
  IF r.stream.eof THEN {r}
  ELSE {[stream   |-> StreamAfter(f, r, n),
         current  |-> PointAfter(f, r, n),
         position |-> Wrap(r.position + (IF EndsAfter(f, r, n) THEN 0 ELSE 1)),
         event    |-> NoEvent] : n \in Skips(f, r)}

NextFrom(f, r) ==
  IF r.stream.eof THEN {r}
  ELSE {[stream   |-> StreamAfter(f, r, n),
         current  |-> PointAfter(f, r, n),
         position |-> Wrap(r.position + n + (IF EndsAfter(f, r, n) THEN 0 ELSE 1)),
         event    |-> NoEvent] : n \in Skips(f, r)}

\* Where file_.seek goes for position p, counted from 0.
SeekOffset(p) == S!Signed(OffsetOf(p), OffsetLimit)

\* Mistake: the point read by seek is not counted back.
SeekFromCounted(f, r, p) ==
  IF ~sized THEN {[r EXCEPT !.position = 0]}
  ELSE IF p = 0
  THEN {[r EXCEPT !.stream = S!Seek(@, HeaderSize), !.current = NoPoint, !.position = 0]}
  ELSE NextFrom(f, [r EXCEPT !.stream = S!Seek(@, SeekOffset(p - 1)),
                             !.current = NoPoint, !.position = p])

\* seek(p), the assignment of last_valid_position_ apart.
SeekFrom(f, r, p) ==
  IF ~sized THEN {[r EXCEPT !.position = 0]}
  ELSE IF p = 0
  THEN {[r EXCEPT !.stream = S!Seek(@, HeaderSize), !.current = NoPoint, !.position = 0]}
  ELSE NextFrom(f, [r EXCEPT !.stream = S!Seek(@, SeekOffset(p - 1)),
                             !.current = NoPoint, !.position = p - 1])

\* Mistake: the position asked for, beyond the end of the file too.
LastValidAsAsked(p, r) == IF ~sized THEN lastValid ELSE p

LastValidAfter(p, r) ==
  IF ~sized THEN lastValid ELSE IF p = 0 \/ r.position = 0 THEN 0 ELSE r.position - 1

Become(r) ==
  /\ stream' = r.stream
  /\ current' = r.current
  /\ position' = r.position
  /\ event' = r.event
-----------------------------------------------------------------------------
(* Calls.                                                                  *)

Ops == {"none", "load", "next", "current_event"} \cup Calls

CallType ==
  [op: Ops, from: 0..(Word - 1), arg: Nat,
   outcome: {"running", "returned", "refused", "threw"}]

Enter(op, arg, outcome) ==
  call' = [op |-> op, from |-> position, arg |-> arg, outcome |-> outcome]

Idle == pc = "idle"

\* The locals of the call go out of scope.
Leave(outcome) ==
  /\ pc' = "idle"
  /\ call' = [call EXCEPT !.outcome = outcome]
  /\ draft' = NoEvent /\ held' = NoEvent /\ ahead' = FALSE
  /\ irq' = NoPoint /\ target' = 0

Return == Leave("returned")

-----------------------------------------------------------------------------
(* load. Only the stream, the position and record_size_ are set: the       *)
(* current point, the event and last_valid_position_ of an earlier file    *)
(* stay.                                                                   *)

Loadable == IF file = NoFile THEN Files ELSE Reloads

Load(f, s, outcome) ==
  /\ Idle
  /\ file' = f
  /\ stream' = s
  /\ position' = 0
  /\ Enter("load", 0, outcome)
  /\ UNCHANGED <<current, lastValid, event, pc, localVars>>

LoadAbsent(f) ==
  /\ f.kind = "absent"
  /\ Load(f, S!Load(FALSE), "refused")
  /\ UNCHANGED sized

\* The file may end before, within or after the bytes of record_size_.
LoadShort(f) ==
  /\ f.kind = "short"
  /\ Load(f, S!Close(S!Load(TRUE)), "refused")
  /\ sized' \in BOOLEAN

LoadRejected(f) ==
  /\ f.kind = "rejected"
  /\ Load(f, S!Close(S!Load(TRUE)), "threw")
  /\ sized' = FALSE

LoadBadData(f) ==
  /\ f.kind = "bad_data" /\ f.version > 0
  /\ Load(f, S!Close(S!Load(TRUE)), "threw")
  /\ sized' = TRUE

LoadGood(f) ==
  /\ f.kind = "good" \/ (f.kind = "bad_data" /\ f.version = 0)
  /\ Load(f, S!Seek(S!Load(TRUE), HeaderSize), "returned")
  /\ sized' = TRUE

LoadFile ==
  \E f \in Loadable :
    \/ LoadAbsent(f)
    \/ LoadShort(f)
    \/ LoadRejected(f)
    \/ LoadBadData(f)
    \/ LoadGood(f)

-----------------------------------------------------------------------------
(* next                                                                    *)

CallNext ==
  /\ Idle
  /\ \E r \in NextFrom(file, Here) : Become(r)
  /\ Enter("next", 0, "returned")
  /\ UNCHANGED <<fileVars, lastValid, pc, localVars>>

\* next() that never returns: it goes on counting records it does not read.
CallNextSpins ==
  /\ Idle
  /\ Spins(file, Here)
  /\ pc' = "spin"
  /\ Enter("next", 0, "running")
  /\ UNCHANGED <<fileVars, readerVars, lastValid, localVars>>

Spin ==
  /\ pc = "spin"
  /\ position' = Wrap(position + 1)
  /\ UNCHANGED <<fileVars, stream, current, event, lastValid, pc, localVars, call>>

-----------------------------------------------------------------------------
(* fetch_new_event                                                         *)

\* first_vmexit_missing is computed once, on entry: not where the loop has come to.
FirstVmexitMissing == pc = "fetch" /\ ~IsVmexit(current) /\ position = 1

\* Skip to the next VMEXIT; without one the event is returned invalid.
FetchSkip ==
  /\ pc \in {"fetch", "skip"}
  /\ ~IsVmexit(current) /\ ~FirstVmexitMissing
  /\ \E r \in NextFrom(file, Here) :
       /\ Become(r)
       /\ IF Valid(r.current) THEN pc' = "skip" /\ UNCHANGED draft
          ELSE pc' = "return" /\ draft' = NoEvent
  /\ UNCHANGED <<fileVars, lastValid, held, ahead, irq, target, call>>

FetchMissing ==
  /\ FirstVmexitMissing
  /\ draft' = [NoEvent EXCEPT !.position = position, !.isFirst = TRUE, !.isEmulation = TRUE]
  /\ pc' = "second"
  /\ UNCHANGED <<fileVars, readerVars, lastValid, held, ahead, irq, target, call>>

EventStartingAt(p, pos) ==
  [NoEvent EXCEPT !.position = pos, !.start = ContextOf(p), !.startRip = p.rip,
                  !.reason = p.type]

LastEvent(e) == [e EXCEPT !.isLast = TRUE, !.isValid = TRUE]

\* Call next() inside an event e: at the end of the file e is the last one.
NextWithin(e, label) ==
  \E r \in NextFrom(file, Here) :
    /\ Become(r)
    /\ IF Valid(r.current) THEN pc' = label /\ draft' = e
       ELSE pc' = "return" /\ draft' = LastEvent(e)

FetchExit ==
  /\ pc \in {"fetch", "skip"}
  /\ IsVmexit(current)
  /\ NextWithin(EventStartingAt(current, position), "second")
  /\ UNCHANGED <<fileVars, lastValid, held, ahead, irq, target, call>>

\* next() does not return from a failed stream (see Spins).
FetchSpins ==
  /\ pc \in {"fetch", "skip"}
  /\ IsVmexit(current)
  /\ Spins(file, Here)
  /\ pc' = "spin"
  /\ UNCHANGED <<fileVars, readerVars, lastValid, localVars, call>>

FetchInterrupt ==
  /\ pc = "second"
  /\ IsInterrupt(current)
  /\ NextWithin([draft EXCEPT !.hasInterrupt = TRUE, !.vector = current.vector,
                              !.interruptRip = current.rip], "third")
  /\ irq' = current
  /\ UNCHANGED <<fileVars, lastValid, held, ahead, target, call>>

\* "Sometimes interrupts are reported twice."
FetchRepeated ==
  /\ pc = "third"
  /\ IsInterrupt(current) /\ IsEquivalent(current, irq)
  /\ NextWithin(draft, "last")
  /\ UNCHANGED <<fileVars, lastValid, held, ahead, irq, target, call>>

\* Mistake: an interrupt is never reported twice.
AtNewContextOnceIrq == pc \in {"third", "last"} \/ (pc = "second" /\ ~IsInterrupt(current))

\* The point that ends the event is reached, or should be.
AtNewContext == pc = "last" \/ (pc \in {"second", "third"} /\ ~IsInterrupt(current))

\* Mistake: HLT is not an exit of its own.
IsEmulationOrHalt(e, p) ==
  \/ e.isEmulation
  \/ e.reason \in EmulatedExits
  \/ ~e.isFirst /\ p.rip # e.startRip

IsEmulation(e, p) ==
  \/ e.isEmulation
  \/ e.reason \in EmulatedExits
  \/ e.reason # "HLT" /\ ~e.isFirst /\ p.rip # e.startRip

Completed(e, p) ==
  [e EXCEPT !.new = ContextOf(p), !.rflags = p.rflags,
            !.isEmulation = IsEmulation(e, p), !.isValid = TRUE]

\* Mistake: equality, which compares the type and the TSC too.
NewContextEquals ==
  /\ draft.hasInterrupt => current = irq
  /\ IsVmenter(current)
  /\ IsSane(Completed(draft, current))

\* Mistake: the point after the interrupt is not compared with it.
NewContextUncompared ==
  /\ IsVmenter(current)
  /\ IsSane(Completed(draft, current))

NewContextFits ==
  /\ draft.hasInterrupt => IsEquivalent(current, irq)
  /\ IsVmenter(current)
  /\ IsSane(Completed(draft, current))

FetchEnter ==
  /\ AtNewContext
  /\ NewContextFits
  /\ draft' = Completed(draft, current)
  /\ pc' = "return"
  /\ UNCHANGED <<fileVars, readerVars, lastValid, held, ahead, irq, target, call>>

\* Mistake: the reader is put back where the event starts.
FetchThrowsRewound ==
  /\ \/ pc = "third" /\ IsInterrupt(current) /\ ~IsEquivalent(current, irq)
     \/ AtNewContext /\ ~NewContextFits
  /\ Leave("threw")
  /\ \E r \in SeekFrom(file, Here, draft.position) : Become(r)
  /\ UNCHANGED <<fileVars, lastValid>>

FetchThrows ==
  /\ \/ pc = "third" /\ IsInterrupt(current) /\ ~IsEquivalent(current, irq)
     \/ AtNewContext /\ ~NewContextFits
  /\ Leave("threw")
  /\ UNCHANGED <<fileVars, readerVars, lastValid>>

FetchNewEvent ==
  \/ FetchSkip
  \/ FetchMissing
  \/ FetchExit
  \/ FetchSpins
  \/ FetchInterrupt
  \/ FetchRepeated
  \/ FetchEnter
  \/ FetchThrows

-----------------------------------------------------------------------------
(* current_event                                                           *)

CallCurrentEvent ==
  /\ Idle
  /\ IF event.isValid \/ stream.eof
     THEN Enter("current_event", 0, "returned") /\ UNCHANGED pc
     ELSE Enter("current_event", 0, "running") /\ pc' = "fetch"
  /\ UNCHANGED <<fileVars, readerVars, lastValid, localVars>>

\* The first fetch returns: its event is the one the loop looks at.
FirstReturns ==
  /\ pc = "return" /\ ~ahead
  /\ held' = draft
  /\ pc' = "merge"
  /\ UNCHANGED <<fileVars, readerVars, lastValid, draft, ahead, irq, target, call>>

\* An event without effect may be one with the event that follows it.
MayMerge(e) ==
  e.position # 1 /\ ~e.hasInterrupt /\ AreValuesEquivalent(e.start, e.new)

LookAhead ==
  /\ pc = "merge"
  /\ MayMerge(held)
  /\ ahead' = TRUE
  /\ pc' = "fetch"
  /\ UNCHANGED <<fileVars, readerVars, lastValid, draft, held, irq, target, call>>

Keep ==
  /\ pc = "merge"
  /\ ~MayMerge(held)
  /\ event' = held
  /\ Return
  /\ UNCHANGED <<fileVars, stream, current, position, lastValid>>

\* Mistake: the exits must be of one kind as well.
MergesAlike(e, f) ==
  /\ AreValuesEquivalent(e.new, f.start)
  /\ e.startRip = f.startRip
  /\ e.reason = f.reason
  /\ ~e.isEmulation

\* Mistake: an emulated instruction is merged too.
MergesEmulated(e, f) ==
  /\ AreValuesEquivalent(e.new, f.start)
  /\ e.startRip = f.startRip

Merges(e, f) ==
  /\ AreValuesEquivalent(e.new, f.start)
  /\ e.startRip = f.startRip
  /\ ~e.isEmulation

\* Mistake: the combined event starts where the second one did.
MergeFromSecond ==
  /\ pc = "return" /\ ahead
  /\ Merges(held, draft)
  /\ held' = draft
  /\ pc' = "merge"
  /\ UNCHANGED <<fileVars, readerVars, lastValid, draft, ahead, irq, target, call>>

Merge ==
  /\ pc = "return" /\ ahead
  /\ Merges(held, draft)
  /\ held' = [draft EXCEPT !.start = held.start]
  /\ pc' = "merge"
  /\ UNCHANGED <<fileVars, readerVars, lastValid, draft, ahead, irq, target, call>>

\* Mistake: back to the first point of the next event, not to the one before.
BeforeNone(n) == n

Before(n) == IF n = 0 THEN Word - 1 ELSE n - 1

\* The next event is another one: go back to the point before it.
PutBack ==
  /\ pc = "return" /\ ahead
  /\ ~Merges(held, draft)
  /\ \E r \in SeekFrom(file, Here, Before(draft.position)) :
       /\ Become([r EXCEPT !.event = held])
       /\ lastValid' = LastValidAfter(Before(draft.position), r)
  /\ Return
  /\ UNCHANGED fileVars

CurrentEvent ==
  \/ FetchNewEvent
  \/ FirstReturns
  \/ LookAhead
  \/ Keep
  \/ Merge
  \/ PutBack

-----------------------------------------------------------------------------
(* advance_to, seek_from_end, validate                                     *)

\* Mistake: the event is not reloaded.
AdvanceToAlone(p) ==
  /\ Idle /\ "advance_to" \in Calls
  /\ \E r \in SeekFrom(file, Here, p) :
       /\ Become(r)
       /\ lastValid' = LastValidAfter(p, r)
  /\ Enter("advance_to", p, "returned")
  /\ UNCHANGED <<fileVars, pc, localVars>>

AdvanceTo(p) ==
  /\ Idle /\ "advance_to" \in Calls
  /\ \E r \in SeekFrom(file, Here, p) :
       /\ Become(r)
       /\ lastValid' = LastValidAfter(p, r)
       /\ IF p = 0 \/ ~IsVmenter(r.current)
          THEN Enter("advance_to", p, "returned") /\ UNCHANGED <<pc, target>>
          ELSE Enter("advance_to", p, "running") /\ pc' = "reload" /\ target' = p
  /\ UNCHANGED <<fileVars, draft, held, ahead, irq>>

\* "Hack: reload the current event": walk back to its VMEXIT ...
ReloadBack ==
  /\ pc = "reload"
  /\ ~IsVmexit(current) /\ position > 1
  /\ target' = target - 1
  /\ \E r \in SeekFrom(file, Here, target - 1) :
       /\ Become(r)
       /\ lastValid' = LastValidAfter(target - 1, r)
  /\ UNCHANGED <<fileVars, pc, draft, held, ahead, irq, call>>

\* ... and call current_event there.
ReloadEvent ==
  /\ pc = "reload"
  /\ IsVmexit(current) \/ position <= 1
  /\ IF event.isValid \/ stream.eof THEN Return
     ELSE pc' = "fetch" /\ UNCHANGED <<localVars, call>>
  /\ UNCHANGED <<fileVars, readerVars, lastValid>>

SeekFromEnd(p) ==
  /\ Idle /\ "seek_from_end" \in Calls
  /\ Enter("seek_from_end", p, "returned")
  /\ IF sized
     THEN /\ stream' = S!Seek(stream, FileSize(file) - RecordSize * (p + 1))
          /\ current' = NoPoint
          /\ position' = PositionAt(S!Pos(stream'))
          /\ lastValid' = p
     ELSE position' = 0 /\ UNCHANGED <<stream, current, lastValid>>
  /\ UNCHANGED <<fileVars, event, pc, localVars>>

Validate ==
  /\ Idle /\ "validate" \in Calls
  /\ lastValid' = position
  /\ Enter("validate", 0, "returned")
  /\ UNCHANGED <<fileVars, readerVars, pc, localVars>>

-----------------------------------------------------------------------------
Init ==
  /\ file = NoFile
  /\ stream \in {S!Unopened(o) : o \in BOOLEAN}
  /\ sized \in BOOLEAN
  /\ current = NoPoint /\ position = 0 /\ lastValid = 0
  /\ event = NoEvent /\ draft = NoEvent /\ held = NoEvent
  /\ irq = NoPoint /\ ahead = FALSE /\ target = 0
  /\ pc = "idle"
  /\ call = [op |-> "none", from |-> 0, arg |-> 0, outcome |-> "returned"]

\* The distances from the end that a client asks for. Before version 3 a record
\* is 80 bytes, which divide neither the header nor 2^64: only the places among
\* the records are modelled there.
EndArguments ==
  IF file.version >= 3 THEN EndTargets ELSE EndTargets \cap 0..(PointCount(file) - 1)

\* What the client does between two calls, and what the library does in one.
Client ==
  \/ LoadFile
  \/ CallNext
  \/ CallNextSpins
  \/ CallCurrentEvent
  \/ \E p \in SeekTargets : AdvanceTo(p)
  \/ \E p \in EndArguments : SeekFromEnd(p)
  \/ Validate

Library ==
  \/ CurrentEvent
  \/ ReloadBack
  \/ ReloadEvent
  \/ Spin

Next == Client \/ Library

Spec == Init /\ [][Next]_vars

\* The library runs on the thread of its caller: a call goes on once begun.
FairSpec == Spec /\ WF_vars(Library)

-----------------------------------------------------------------------------
(* Properties.                                                             *)

Labels ==
  {"idle", "spin", "fetch", "skip", "second", "third", "last", "return", "merge", "reload"}

\* Every variable has its type; positions are 64-bit.
TypeOK ==
  /\ IsFile(file)
  /\ stream \in S!Streams
  /\ sized \in BOOLEAN
  /\ current \in Points
  /\ position \in 0..(Word - 1)
  /\ lastValid \in Nat
  /\ event \in Events
  /\ pc \in Labels
  /\ draft \in Events /\ held \in Events
  /\ ahead \in BOOLEAN
  /\ irq \in Points
  /\ target \in Nat
  /\ call \in CallType

Aligned == stream.at % 2 = 0

Readable == stream.isOpen /\ ~stream.fail

\* Every read fails, and none of them reaches the end.
Stalled == stream.fail /\ ~stream.eof

(***************************************************************************)
(* position() names the record that current() holds: after any series of   *)
(* calls, whatever was skipped as a duplicate, looked ahead at and put     *)
(* back, or reloaded, current_ is record number position_ of the file, or  *)
(* the empty point seek_from_end and seek(0) leave.                        *)
(***************************************************************************)
PositionNamesCurrent ==
  Readable /\ Aligned /\ position \in 1..PointCount(file) =>
    current \in {file.recs[position], NoPoint}

(***************************************************************************)
(* No call but load and seek_from_end puts last_valid_position() ahead of  *)
(* position(): a client that goes back to it goes back. Every seek of the  *)
(* library moves both, also those current_event and advance_to make.       *)
(* (Within the header a position is a negative number, and next may take   *)
(* it around to 0; before version 3 it may take it around on a stalled     *)
(* stream too.)                                                            *)
(***************************************************************************)
LastValidStaysBehind ==
  [][call'.op \notin {"load", "seek_from_end"}
     /\ position < RecordQuotient - HeaderSlots /\ lastValid <= position
     /\ (Stalled => file.version = 3)
       => lastValid' <= position']_vars

(***************************************************************************)
(* Only two seeks of the client leave a stream on which next() may not     *)
(* return: seek_from_end by more records than the file has, and advance_to *)
(* a position whose offset the stream refuses. No load and no read at the  *)
(* end of the file does, and no seek that current_event or the reload of   *)
(* advance_to makes on its own, to positions that wrapped included: but    *)
(* that of current_event to before an event it read from the header, where *)
(* only seek_from_end leads.                                               *)
(***************************************************************************)
OnlySeeksOutsideStall ==
  [][Stalled' /\ ~Stalled =>
       \/ call'.op = "seek_from_end" /\ call'.arg >= PointCount(file)
       \/ /\ call'.op = "advance_to" /\ pc = "idle"
          /\ HeaderSize + RecordSize * (call'.arg - 1) >= OffsetLimit
       \/ pc = "return" /\ draft.position >= RecordQuotient - HeaderSlots]_vars

(***************************************************************************)
(* A reader whose load failed, or whose file a failed load has closed,     *)
(* stays at the end of the file and gives no new record and no new event:  *)
(* seeking does not bring it back, only another load does.                 *)
(***************************************************************************)
ClosedReaderGivesNothing ==
  [][~stream.isOpen /\ ~stream'.isOpen =>
       /\ stream'.eof
       /\ current' \in {current, NoPoint}
       /\ event' = event]_vars
=============================================================================
