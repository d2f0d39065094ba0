--------------------------- MODULE DumpSyncEvents ---------------------------
(***************************************************************************)
(* The tool dump_sync_events: it loads the file it is given and prints the *)
(* current event after each call of next that gives a valid point. An      *)
(* exception ends it.                                                      *)
(***************************************************************************)
EXTENDS SyncFileEvents, SyncTool

DumpInit == Init /\ tool = "load" /\ printed = <<>>

\* The result of load is not looked at; what it throws is not caught.
DumpLoad ==
  /\ tool = "load"
  /\ LoadFile
  /\ tool' = IF call'.outcome = "threw" THEN "aborted" ELSE "next"
  /\ UNCHANGED printed

\* while (file.next() ... A stream that never was sought from the end never
\* fails without being at its end: next returns.
DumpNext ==
  /\ tool = "next"
  /\ CallNext
  /\ tool' = "test"
  /\ UNCHANGED printed

\* Mistake: an invalid point is passed over.
DumpTestSkips ==
  /\ tool = "test"
  /\ tool' = IF Valid(current) THEN "event" ELSE "next"
  /\ UNCHANGED <<vars, printed>>

\* ... .valid())
DumpTest ==
  /\ tool = "test"
  /\ tool' = IF Valid(current) THEN "event" ELSE "done"
  /\ UNCHANGED <<vars, printed>>

DumpEvent ==
  /\ tool = "event"
  /\ CallCurrentEvent
  /\ tool' = "print"
  /\ UNCHANGED printed

DumpPrint ==
  /\ tool = "print" /\ Idle
  /\ IF call.outcome = "threw"
     THEN tool' = "aborted" /\ UNCHANGED printed
     ELSE tool' = "next" /\ printed' = Append(printed, event)
  /\ UNCHANGED vars

DumpStep ==
  \/ DumpLoad
  \/ DumpNext
  \/ DumpTest
  \/ DumpEvent
  \/ DumpPrint
  \/ Library /\ UNCHANGED toolVars

\* One thread: the tool waits for the call it made, and the call for nothing.
DumpSpec ==
  /\ DumpInit
  /\ [][DumpStep]_<<vars, toolVars>>
  /\ WF_<<vars, toolVars>>(DumpStep)

-----------------------------------------------------------------------------
ReadableRecords(f) == IF f.kind = "good" THEN f.recs ELSE <<>>

Promise ==
  INSTANCE EventDump WITH
    records <- ReadableRecords(file),
    status  <- IF tool = "load" THEN "loading"
               ELSE IF tool \in {"done", "aborted"} THEN tool ELSE "running"

(***************************************************************************)
(* The tool implements EventDump: it prints the events of the scenario,    *)
(* none of them twice or out of order, and ends only after the last one,   *)
(* although current_event reads ahead of the event it gives.               *)
(***************************************************************************)
PrintsTheEvents == Promise!Spec

(***************************************************************************)
(* The tool ends, as does each call it makes, on every file that ends with *)
(* its last event, when that event is not one a successor could absorb.    *)
(***************************************************************************)
DumpEnds == <>(tool \in {"done", "aborted"})
=============================================================================
