-------------------------- MODULE MCDumpSyncPoints --------------------------
(***************************************************************************)
(* The files that the tools printing the points are given, and another     *)
(* client of the library.                                                  *)
(***************************************************************************)
EXTENDS DumpSyncPoints, MCSyncFileData

\* A point without TSC among the others, and a file that ends within one.
NoTsc(p) == [p EXCEPT !.tsc = 0]

PointFiles ==
  DataFiles
    \cup {Good(IrqNow \o <<NoTsc(Pt("OTHER", 2, 2))>> \o EmulatedLast)}
    \cup {[Good(start \o DoubledExit) EXCEPT !.tail = <<NoTsc(Pt("OTHER", 2, 2))>>] :
            start \in {IrqNow, EmulatedLast}}

ASSUME PlainAssumption == \A f \in PointFiles : IsPlain(f)
=============================================================================
