--------------------------- MODULE MCSyncFileData ---------------------------
(***************************************************************************)
(* The data files of the runs. Dump 10 * i + j is number j of record i.    *)
(***************************************************************************)
EXTENDS SyncFileData, MCSyncFile

\* A whole data file: the lists of the records in order, a record in three
\* without one, the others with one or two dumps.
DumpCount(i) == (i + 1) % 3

CellsOf(i) ==
  IF DumpCount(i) = 0 THEN <<>> ELSE [j \in 1..DumpCount(i) |-> 10 * i + j] \o <<End>>

Cells(n) == FlattenSeq([i \in 1..n |-> CellsOf(i)])

Whole(n) ==
  [exists |-> TRUE, cells |-> Cells(n),
   offsets |-> [i \in 1..n |-> IF DumpCount(i) = 0 THEN 0 ELSE Len(Cells(i - 1)) + 1]]

\* The same, cut after a cell or within the one that follows.
Cut(n) ==
  LET w == Whole(n)
      cut(k) == [w EXCEPT !.cells = SubSeq(@, 1, k)]
      kept == {k \in 0..Len(w.cells) : k % 3 = 0 \/ k = Len(w.cells) - 1}
  IN  {cut(k) : k \in kept} \cup {[cut(k) EXCEPT !.cells = Append(@, Torn)] : k \in kept}

NoneOrWhole(f) ==
  LET whole == Whole(PointCount(f)) IN {whole, [NoDataFile EXCEPT !.offsets = whole.offsets]}

WholeAndCut(f) == NoneOrWhole(f) \cup Cut(PointCount(f))

WholeOnly(f) == {Whole(PointCount(f))}

\* What can stand between two events, read from the start and sought.
DataFiles ==
  Scenarios(Starts, WellFormedGroups, 1, {EmulatedLast, ExitLast, IrqLast})
    \cup Scenarios({<<>>}, {Quiet(1, 1), DoubledExit, IrqTwice, EmulatedIrqNow}, 2, {EmulatedLast})
    \cup {[Good(IrqNow) EXCEPT !.kind = k, !.version = v] :
            k \in {"good", "bad_data", "short"}, v \in {0, 1, 3}}
=============================================================================
