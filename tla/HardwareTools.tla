----------------------------- MODULE HardwareTools -----------------------------
(***************************************************************************)
(* The tools for hardware files, one after the other: reorder_hardware     *)
(* sorts a file, then dump_hardware prints that file or the sorted one.    *)
(***************************************************************************)
EXTENDS ReorderHardware

CONSTANT Numbers  \* the numbers dump_hardware is given

VARIABLES
  dumped,   \* the file dump_hardware is given
  given,    \* the rest of its state, see DumpHardware
  trace,
  dumper,
  num,
  printed,
  dumpPc    \* "wait" until it is started

dumpVars == <<dumped, given, trace, dumper, num, printed, dumpPc>>

D == INSTANCE DumpHardware WITH file <- dumped, reader <- dumper, pc <- dumpPc

Absent == [kind |-> "absent", recs |-> <<>>, ends |-> <<>>, tail |-> <<>>]

\* The destination of reorder_hardware, as a file to read.
Destination ==
  IF ~out.isOpen THEN Absent
  ELSE [kind |-> "good", recs |-> out.written,
        ends |-> [i \in 1..Len(out.written) |-> HeaderSize + i], tail |-> <<>>]

Reorder == Next /\ UNCHANGED dumpVars

StartDump ==
  /\ dumpPc = "wait" /\ pc \in {"done", "abort"}
  /\ dumped' \in {file, Destination}
  /\ \E argument \in D!Arguments :
       given' = argument.given /\ trace' = argument.trace /\ num' = argument.trace
  /\ dumper' \in {NewReader(o) : o \in BOOLEAN}
  /\ dumpPc' = "load"
  /\ UNCHANGED <<vars, printed>>

Dump == D!Next /\ UNCHANGED vars

ToolsInit ==
  /\ Init
  /\ dumped = Absent /\ given = "none" /\ trace = 0 /\ dumper = NewReader(FALSE)
  /\ num = 0 /\ printed = <<>> /\ dumpPc = "wait"

ToolsNext == Reorder \/ StartDump \/ Dump

\* Each program runs on, and the second is started when the first has ended.
ToolsSpec ==
  ToolsInit /\ [][ToolsNext]_<<vars, dumpVars>> /\ WF_<<vars, dumpVars>>(ToolsNext)

-----------------------------------------------------------------------------
(***************************************************************************)
(* Without a number dump_hardware prints each access before the first      *)
(* record of TSC 0 once: of the source in its order, that of a truncated   *)
(* record included, and of the sorted file in the order of the TSCs, those *)
(* of one TSC as they were recorded.                                       *)
(***************************************************************************)
DumpShowsTheSource ==
  LET n == IF file.kind = "good" THEN ValidCount(file) ELSE 0
      Shows(i, place) == printed[place] = [position |-> place, access |-> Items(file)[i]]
  IN  dumpPc = "done" /\ given = "none" =>
        /\ dumped = file => Len(printed) = n /\ \A i \in 1..n : Shows(i, i)
        /\ dumped = Destination /\ writable =>
             Len(printed) = n /\ \A i \in 1..n : Shows(i, Rank(file, n, i))

\* Both programs end, whatever the source, the destination and the number.
ToolsEnd == <>(dumpPc \in {"done", "abort"})
=============================================================================
