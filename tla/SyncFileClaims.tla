--------------------------- MODULE SyncFileClaims ---------------------------
(***************************************************************************)
(* What comments of the code say of sync_file and the code does not do.    *)
(* Each is the subject of a run that TLC refutes.                          *)
(***************************************************************************)
EXTENDS SyncFileEvents

\* sync_file.h:35, current_event: "May advance the file if necessary". After a
\* quiet last event it goes back to before the first record instead.
EventsOnlyAdvance ==
  Ended("current_event", "returned") /\ ~stream.eof =>
    position \in call.from..Len(Records)

\* sync_event.h:48: "An invalid event indicate failure to read it from the file".
\* With no VMEXIT left before the end, current_event never returns one.
CurrentEventReturns == call.op = "current_event" /\ ~Idle ~> Idle
=============================================================================
