------------------------------ MODULE DumpHardware ------------------------------
(***************************************************************************)
(* dump_hardware: prints all accesses of a file or, given a number, one of *)
(* them. In what form an access is printed ("@") makes no difference here. *)
(***************************************************************************)
EXTENDS HardwareFile

CONSTANTS
  Files,   \* the files given
  Numbers  \* the numbers given

VARIABLES
  file,     \* the file given
  given,    \* the second argument: "none", "number", or "other", no number
  trace,    \* the number given
  reader,   \* file, the hardware_file
  num,      \* num
  printed,  \* the positions and accesses printed
  pc        \* "load", "all", "skip", "one", "done"; "abort": something threw

vars == <<file, given, trace, reader, num, printed, pc>>

LoadFile ==
  /\ pc = "load"
  /\ reader' = LoadOf(file, reader)
  /\ pc' = CASE file.kind = "rejected" -> "abort"
             [] given = "none"         -> "all"
             [] given = "number"       -> "skip"
             [] OTHER                  -> "abort"
  /\ UNCHANGED <<file, given, trace, num, printed>>

\* Mistake: the access is printed before it is looked at.
PrintAllFirst ==
  /\ pc = "all"
  /\ reader' = NextOf(file, reader)
  /\ printed' = Append(printed, [position |-> reader'.position, access |-> reader'.current])
  /\ pc' = IF Valid(reader'.current) THEN pc ELSE "done"
  /\ UNCHANGED <<file, given, trace, num>>

Show(r) == printed' = Append(printed, [position |-> r.position, access |-> r.current])

PrintAll ==
  /\ pc = "all"
  /\ reader' = NextOf(file, reader)
  /\ IF Valid(reader'.current) THEN Show(reader') /\ UNCHANGED pc
     ELSE pc' = "done" /\ UNCHANGED printed
  /\ UNCHANGED <<file, given, trace, num>>

\* Mistake: the loop goes on until as many valid accesses have been read.
SkipValid ==
  /\ pc = "skip"
  /\ reader' = NextOf(file, reader)
  /\ num' = IF num > 0 /\ Valid(reader'.current) THEN num - 1 ELSE num
  /\ pc' = IF num > 0 THEN "skip" ELSE "one"
  /\ UNCHANGED <<file, given, trace, printed>>

\* The condition of the loop reads an access, then tests num.
Skip ==
  /\ pc = "skip"
  /\ reader' = NextOf(file, reader)
  /\ IF Valid(reader'.current) /\ num > 0 THEN num' = num - 1 /\ UNCHANGED pc
     ELSE pc' = "one" /\ UNCHANGED num
  /\ UNCHANGED <<file, given, trace, printed>>

PrintOne ==
  /\ pc = "one"
  /\ reader' = NextOf(file, reader)
  /\ IF Valid(reader'.current) THEN Show(reader') ELSE UNCHANGED printed
  /\ pc' = "done"
  /\ UNCHANGED <<file, given, trace, num>>

\* What may follow the file on the command line.
Arguments ==
  [given: {"none", "other"}, trace: {0}] \cup [given: {"number"}, trace: Numbers]

Init ==
  /\ file \in Files
  /\ \E argument \in Arguments :
       given = argument.given /\ trace = argument.trace /\ num = argument.trace
  /\ reader \in {NewReader(o) : o \in BOOLEAN}
  /\ printed = <<>>
  /\ pc = "load"

Next == LoadFile \/ PrintAll \/ Skip \/ PrintOne

Spec == Init /\ [][Next]_vars

-----------------------------------------------------------------------------
(***************************************************************************)
(* "file [@][trace]": the access printed is the one whose number is given, *)
(* be they counted from 0 or from 1.                                       *)
(***************************************************************************)
PrintsTheTrace ==
  printed # <<>> /\ given = "number" => printed[1].position \in {trace, trace + 1}
=============================================================================
