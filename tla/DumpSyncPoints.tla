--------------------------- MODULE DumpSyncPoints ---------------------------
(***************************************************************************)
(* The tools dump_sync_points and dump_sync_points_data: they load the     *)
(* file they are given and print the current point after each call of next *)
(* that gives a valid one. The first is given no data file and prints the  *)
(* number and the fields of the point, the second its TSC and its dumps.   *)
(***************************************************************************)
EXTENDS SyncFileData, SyncTool

\* The result of load is not looked at; what it throws is not caught.
PointsLoad ==
  /\ tool = "load"
  /\ LoadData
  /\ tool' = IF call'.outcome = "threw" THEN "aborted" ELSE "next"
  /\ UNCHANGED printed

\* while (file.next() ...
PointsNext ==
  /\ tool = "next"
  /\ CallNextData /\ UNCHANGED dataFile
  /\ tool' = "test"
  /\ UNCHANGED printed

\* ... .valid()) ends the loop.
Invalid == ~Valid(current)

PointsPrint ==
  /\ tool = "test" /\ ~Invalid
  /\ printed' = Append(printed, [number |-> position, point |-> current, data |-> dumps])
  /\ tool' = "next"
  /\ UNCHANGED <<vars, dataVars>>

\* Mistake: an invalid point is passed over.
PointsSkip ==
  /\ tool = "test" /\ Invalid
  /\ tool' = "next"
  /\ UNCHANGED <<vars, dataVars, printed>>

PointsStop ==
  /\ tool = "test" /\ Invalid
  /\ tool' = "done"
  /\ UNCHANGED <<vars, dataVars, printed>>

PointsStep == PointsLoad \/ PointsNext \/ PointsPrint \/ PointsStop

(***************************************************************************)
(* Whoever uses the library: one of the tools or, where tool is "none",    *)
(* another client, which calls it as it likes.                             *)
(***************************************************************************)
OtherClient ==
  /\ tool = "none"
  /\ DataStep
  /\ UNCHANGED toolVars

UsersInit == DataInit /\ tool \in {"load", "none"} /\ printed = <<>>

\* A tool is one thread, which nothing blocks.
UsersSpec ==
  /\ UsersInit
  /\ [][PointsStep \/ OtherClient]_<<vars, dataVars, toolVars>>
  /\ WF_<<vars, dataVars, toolVars>>(PointsStep)

-----------------------------------------------------------------------------
(* Properties.                                                             *)

\* The records to print: of identical ones the first, up to an invalid one.
Printable ==
  {i \in DOMAIN Records :
     /\ i = 1 \/ Records[i] # Records[i - 1]
     /\ \A j \in 1..i : Valid(Records[j])}

\* Files on which next stops at the records to print and at no other: it
\* compares points in full, it does not take the first record for a repetition
\* of the empty point it starts with, and no valid point ends the file.
IsPlain(f) ==
  /\ f.version = 3 \/ \A i \in 2..Len(f.recs) : f.recs[i] # f.recs[i - 1]
  /\ f.recs # <<>> => f.recs[1] # NoPoint
  /\ f.tail # <<>> => ~Valid(f.tail[1])

ReadableKinds == file.kind = "good" \/ (file.kind = "bad_data" /\ file.version = 0)

(***************************************************************************)
(* The tools print the records of the file up to the first invalid one,    *)
(* each run of identical records once, under the number of its first one   *)
(* and, when the data file is whole, with the dumps of that one; and they  *)
(* stop only when they have printed them all. A file that is refused       *)
(* prints nothing. (Of files that are plain.)                              *)
(***************************************************************************)
PrintsThePoints ==
  LET numbers == IF ReadableKinds THEN Printable ELSE {}
  IN  /\ Len(printed) <= Cardinality(numbers)
      /\ tool = "done" => Len(printed) = Cardinality(numbers)
      /\ \A n \in DOMAIN printed :
           LET i == printed[n].number
           IN  /\ i \in numbers /\ Cardinality({j \in numbers : j < i}) = n - 1
               /\ printed[n].point = Records[i]
               /\ DataIsWhole => printed[n].data = ListOf(i)

(***************************************************************************)
(* The tools end on every file but one that ends within a record whose TSC *)
(* is there: at the end of that file next returns that point for ever.     *)
(***************************************************************************)
PointsEnd == <>(tool \in {"done", "aborted", "none"})
=============================================================================
