---------------------------- MODULE ReorderHardware ----------------------------
(***************************************************************************)
(* reorder_hardware: reads the accesses of a file until one is not valid   *)
(* and writes them to another file in the order of their TSC. The header   *)
(* that is written is left out of what was written.                        *)
(***************************************************************************)
EXTENDS HardwareFile, FiniteSets

CONSTANTS Files  \* the files given as the source

ASSUME FilesAssumption == \A f \in Files : IsHardwareFile(f)

VARIABLES
  file,      \* the source
  writable,  \* can the destination be opened?
  reader,    \* file, the hardware_file
  out,       \* out
  accesses,  \* the entries of the multimap that are not written yet; order is
             \* the order in which they were inserted
  pc         \* "load", "open", "read", "write", "done"; "abort": load threw

vars == <<file, writable, reader, out, accesses, pc>>

O == INSTANCE StreamableOutfile

\* A load that returns false is not noticed, one that throws ends the program.
LoadSource ==
  /\ pc = "load"
  /\ reader' = LoadOf(file, reader)
  /\ pc' = IF file.kind = "rejected" THEN "abort" ELSE "open"
  /\ UNCHANGED <<file, writable, out, accesses>>

OpenDestination ==
  /\ pc = "open"
  /\ out' = O!Open(writable)
  /\ pc' = "read"
  /\ UNCHANGED <<file, writable, reader, accesses>>

Entry(access, order) == [access |-> access, order |-> order]

\* Mistake: at most one access of a TSC, as in a map.
InsertUnique(entries, access, order) ==
  IF \E e \in entries : e.access.tsc = access.tsc THEN entries
  ELSE entries \cup {Entry(access, order)}

Insert(entries, access, order) == entries \cup {Entry(access, order)}

ReadAccess ==
  /\ pc = "read"
  /\ reader' = NextOf(file, reader)
  /\ IF Valid(reader'.current)
     THEN accesses' = Insert(accesses, reader'.current, reader'.position) /\ UNCHANGED pc
     ELSE pc' = "write" /\ UNCHANGED accesses
  /\ UNCHANGED <<file, writable, out>>

\* Mistake: the order of insertion.
PrecedesInserted(e, d) == e.order < d.order

\* A multimap is iterated in the order of its keys, equal keys as inserted.
Precedes(e, d) ==
  \/ e.access.tsc < d.access.tsc
  \/ e.access.tsc = d.access.tsc /\ e.order < d.order

WriteAccess ==
  /\ pc = "write"
  /\ \E e \in accesses :
       /\ \A d \in accesses \ {e} : Precedes(e, d)
       /\ out' = O!Write(out, e.access)
       /\ accesses' = accesses \ {e}
  /\ UNCHANGED <<file, writable, reader, pc>>

Finish ==
  /\ pc = "write" /\ accesses = {}
  /\ pc' = "done"
  /\ UNCHANGED <<file, writable, reader, out, accesses>>

Init ==
  /\ file \in Files
  /\ writable \in BOOLEAN
  /\ reader \in {NewReader(o) : o \in BOOLEAN}
  /\ out = O!Unopened
  /\ accesses = {}
  /\ pc = "load"

Next == LoadSource \/ OpenDestination \/ ReadAccess \/ WriteAccess \/ Finish

Spec == Init /\ [][Next]_vars

-----------------------------------------------------------------------------
Entries == [access: Accesses, order: Nat]

\* Every variable has its type.
TypeOK ==
  /\ file \in Files
  /\ writable \in BOOLEAN
  /\ reader \in Reader
  /\ out \in [isOpen: BOOLEAN, written: Seq(Accesses)]
  /\ accesses \subseteq Entries
  /\ pc \in {"load", "open", "read", "write", "done", "abort"}

(***************************************************************************)
(* The assertion of the loop that writes: current_tsc <= access.tsc, for   *)
(* every access and the one written before it.                             *)
(***************************************************************************)
WrittenInOrder ==
  \A i, j \in 1..Len(out.written) : i < j => out.written[i].tsc <= out.written[j].tsc

\* The place of item i among the first n, in the order of the TSCs.
Rank(f, n, i) ==
  Cardinality({j \in 1..n : \/ Items(f)[j].tsc < Items(f)[i].tsc
                            \/ Items(f)[j].tsc = Items(f)[i].tsc /\ j <= i})

(***************************************************************************)
(* The destination holds each access that comes before the first record of *)
(* TSC 0, once, in the order of the TSCs; accesses of one TSC stay in the  *)
(* order in which they were recorded.                                      *)
(***************************************************************************)
SortsStably ==
  pc = "done" /\ writable =>
    LET n == IF file.kind = "good" THEN ValidCount(file) ELSE 0
    IN  /\ Len(out.written) = n
        /\ \A i \in 1..n : out.written[Rank(file, n, i)] = Items(file)[i]

=============================================================================
