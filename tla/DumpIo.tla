------------------------------- MODULE DumpIo -------------------------------
(***************************************************************************)
(* dump_io: loads the file it is given and prints the devices of the table *)
(* in the order of their ids, whatever load returned.                      *)
(***************************************************************************)
EXTENDS IoFile

VARIABLES
  tool,    \* where main is: "load", "print", "done"; "aborted": load
           \* threw; "none": another client uses io_file
  printed  \* the devices written to the standard output

toolVars == <<tool, printed>>

DumpLoads ==
  /\ tool = "load"
  /\ \E f \in Files : LoadRefused(f) \/ LoadGood(f)
  /\ tool' = IF outcome' = "threw" THEN "aborted" ELSE "print"
  /\ UNCHANGED printed

Unprinted == {i \in DOMAIN devices : \A n \in DOMAIN printed : printed[n].id # i}

\* The map is walked in the order of its keys.
DumpPrints ==
  /\ tool = "print" /\ pc = "idle" /\ Unprinted # {}
  /\ printed' = Append(printed, devices[Min(Unprinted)])
  /\ UNCHANGED <<vars, tool>>

DumpStops ==
  /\ tool = "print" /\ pc = "idle" /\ Unprinted = {}
  /\ tool' = "done"
  /\ UNCHANGED <<vars, printed>>

DumpStep ==
  \/ DumpLoads
  \/ LoadStep /\ UNCHANGED toolVars
  \/ DumpPrints
  \/ DumpStops

\* Another client loads one file after the other.
OtherClient ==
  /\ tool = "none"
  /\ Next
  /\ UNCHANGED toolVars

UsersInit == Init /\ tool \in {"load", "none"} /\ printed = <<>>

\* The tool is one thread, which nothing blocks.
UsersSpec ==
  /\ UsersInit
  /\ [][DumpStep \/ OtherClient]_<<vars, toolVars>>
  /\ WF_<<vars, toolVars>>(DumpStep)

-----------------------------------------------------------------------------
\* dump_io ends, with as many devices printed as the table has ids.
DumpEnds ==
  <>(tool \in {"aborted", "none"} \/
     (tool = "done" /\ Len(printed) = Cardinality(DOMAIN devices)))
=============================================================================
