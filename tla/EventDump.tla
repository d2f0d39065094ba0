------------------------------ MODULE EventDump ------------------------------
(***************************************************************************)
(* What dump_sync_events promises, whatever the way it reads the file: it  *)
(* prints the events of the scenario one after the other, each once and in *)
(* the order of their records, those absorbed by their successor in it,    *)
(* and ends after the last one. Only a malformed scenario stops it before. *)
(***************************************************************************)
EXTENDS SyncEvents

VARIABLES
  records,  \* the records of the file the tool was given
  printed,  \* the events printed so far
  status    \* "loading", "running", "done" or "aborted"

vars == <<records, printed, status>>

Init ==
  /\ records = <<>> /\ printed = <<>> /\ status = "loading"

\* A file that cannot be read counts as one without records.
Load ==
  /\ status = "loading"
  /\ records' \in Seq(Points)
  /\ status' = "running"
  /\ UNCHANGED printed

\* A file of another kind.
Reject ==
  /\ status = "loading"
  /\ status' = "aborted"
  /\ UNCHANGED <<records, printed>>

\* The next event is the one with as many before it as were printed.
Emit ==
  /\ status = "running"
  /\ Len(printed') = Len(printed) + 1
  /\ LET kept == Kept(records)
     IN \E x \in kept :
          /\ Cardinality({y \in kept : y < x}) = Len(printed)
          /\ printed' = Append(printed, Combined(records, Origin(records, x), x))
  /\ UNCHANGED <<records, status>>

Finish ==
  /\ status = "running" /\ status' = "done"
  /\ Len(printed) = Cardinality(Kept(records))
  /\ UNCHANGED <<records, printed>>

Abort ==
  /\ status = "running" /\ status' = "aborted"
  /\ ~WellFormed(records)
  /\ UNCHANGED <<records, printed>>

Next == Load \/ Reject \/ Emit \/ Finish \/ Abort

Spec == Init /\ [][Next]_vars
==============================================================================
