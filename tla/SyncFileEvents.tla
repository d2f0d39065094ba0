--------------------------- MODULE SyncFileEvents ---------------------------
(***************************************************************************)
(* What a client of sync_file relies on, stated against the events of the  *)
(* file as SyncEvents reads them off its records.                          *)
(***************************************************************************)
EXTENDS SyncFile, SyncEvents

Records == file.recs

(***************************************************************************)
(* A scenario as it is recorded: of the present version, whole, every      *)
(* point with its TSC, and ending with an event that changed something, so *)
(* that current_event does not look for another one beyond it. Nor is it a *)
(* lone record without a VMEXIT, which current_event, called before next,  *)
(* skips: it then makes an event of the zeros after the end, and gives it. *)
(***************************************************************************)
IsScenario(f) ==
  /\ f.version = 3
  /\ TailSize(f) = 0
  /\ \A j \in DOMAIN f.recs : Valid(f.recs[j])
  /\ PointCount(f) = 1 => IsVmexit(f.recs[1])
  /\ \A x \in DOMAIN f.recs :
       IsStart(f.recs, x) /\ Reach(f.recs, x) = Len(f.recs) => ~MayMerge(EventOf(f.recs, x))

\* The record that the event around record p starts at.
StartBefore(p) == Max({x \in 1..p : IsStart(Records, x)})

\* A call of op has ended so.
Ended(op, outcome) == Idle /\ call.op = op /\ call.outcome = outcome

(***************************************************************************)
(* The current event is the one that the records describe at its position, *)
(* and the reader stands within it: on its VMENTER or further, before the  *)
(* next VMEXIT, or at the end of the file when the event has no VMENTER.   *)
(* Whatever was looked ahead at, put back or reloaded, no field comes from *)
(* another event, but for the start context of one that absorbed others:   *)
(* that is the first one's, which differs in TSC and FPU words at most.    *)
(* (advance_to(0) and seek_from_end leave the event of before, and the     *)
(* reader on no point.)                                                    *)
(***************************************************************************)
EventMatchesRecords ==
  LET x == event.position
  IN Idle /\ event.isValid =>
       /\ x \in DOMAIN Records /\ IsStart(Records, x)
       /\ \E o \in 1..x : Absorbing(Records, o, x) /\ event = Combined(Records, o, x)
       /\ AreValuesEquivalent(event.start, EventOf(Records, x).start)
       /\ current # NoPoint =>
            /\ position \in EndOf(Records, x)..Reach(Records, x)
            /\ event.isLast <=> stream.eof

(***************************************************************************)
(* An event that its successor absorbs is never given to the client, from  *)
(* wherever the reader was put before current_event was called.            *)
(***************************************************************************)
AbsorbedEventsAreHidden ==
  Idle /\ event.isValid => ~Absorbed(Records, event.position)

(***************************************************************************)
(* advance_to(p) puts the reader on p: on record p itself when it is no    *)
(* VMENTER; otherwise on the event that p belongs to, or on the one that   *)
(* absorbs it. The result depends on p alone, so that a client that kept   *)
(* position() comes back to the event it left.                             *)
(***************************************************************************)
AdvanceToReaches ==
  LET p == call.arg
  IN Ended("advance_to", "returned") /\ p \in DOMAIN Records /\ file.kind = "good" =>
       IF IsVmenter(Records[p])
       THEN event.isValid /\ event.position = Surviving(Records, StartBefore(p))
       ELSE ~event.isValid /\ position = p /\ current = Records[p]

(***************************************************************************)
(* An exception means a malformed event, the one the reader stands in or   *)
(* has just left: neither current_event nor the reload of advance_to       *)
(* throws because of another one, from any position.                       *)
(***************************************************************************)
ThrowsMeanMalformed ==
  Idle /\ call.outcome = "threw" /\ call.op # "load" =>
    \E x \in 1..position :
      IsStart(Records, x) /\ ~WellFormedEvent(Records, x) /\ position <= Reach(Records, x) + 1

\* And a malformed event throws: the client is never given one.
EventsAreWellFormed ==
  Idle /\ event.isValid => WellFormedEvent(Records, event.position)

(***************************************************************************)
(* A current_event that throws has read past the record it failed on: a    *)
(* client that catches the exception and calls again does not meet the     *)
(* same one for ever.                                                      *)
(***************************************************************************)
ThrowMakesProgress == Ended("current_event", "threw") => position > call.from
=============================================================================
