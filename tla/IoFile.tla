------------------------------- MODULE IoFile -------------------------------
(***************************************************************************)
(* io_file: the table of the devices of a recorded machine, read whole by  *)
(* load. A file announces how many devices it holds; load reads so many,   *)
(* also from beyond its end, where every read gives zeros.                 *)
(*                                                                         *)
(* A file is a series of cells: a text, an id, the length of a list or a   *)
(* range (its fields go together). It holds the first cells of what was    *)
(* written to it; of the last one it may hold a part only.                 *)
(***************************************************************************)
EXTENDS Integers, SequencesExt

CONSTANTS Files  \* the files given to load

Devices == [name: Nat, id: Nat, ports: Seq(Nat), memory: Seq(Nat)]

Kinds == {"good", "absent", "short", "rejected"}

Encoded(d) == <<d.name, d.id, Len(d.ports)>> \o d.ports \o <<Len(d.memory)>> \o d.memory

EncodedAll(ds) == FlattenSeq([i \in DOMAIN ds |-> Encoded(ds[i])])

(***************************************************************************)
(* written: the devices the file was meant to hold; announced: how many of *)
(* them its header says; cells: what is there of them; torn: is only a     *)
(* part of the last cell there, which reads as any value?                  *)
(***************************************************************************)
WholeCells(f) == Len(f.cells) - (IF f.torn THEN 1 ELSE 0)

IsIoFile(f) ==
  /\ f.kind \in Kinds
  /\ f.written \in Seq(Devices)
  /\ f.announced \in Nat
  /\ f.cells \in Seq(Nat)
  /\ f.torn \in BOOLEAN
  /\ WholeCells(f) >= 0
  /\ IsPrefix(SubSeq(f.cells, 1, WholeCells(f)), EncodedAll(f.written))
  /\ Len(f.cells) <= Len(EncodedAll(f.written))

ASSUME FilesAssumption == \A f \in Files : IsIoFile(f)

VARIABLES
  file,     \* the file of the last load
  devices,  \* devices_
  at,       \* the cell load reads next
  left,     \* how many devices load has still to read
  outcome,  \* how load ended: "true", "false" or "threw"
  pc        \* "idle", or "reading" while load runs

vars == <<file, devices, at, left, outcome, pc>>

-----------------------------------------------------------------------------
(* Reading.                                                                *)

CellAt(f, k) == IF k \in DOMAIN f.cells THEN f.cells[k] ELSE 0

\* A list is read until it is complete or a read has fallen short: an item that
\* falls short belongs to it.
ListAt(f, k) ==
  LET items == {j \in 1..CellAt(f, k) : k + j <= WholeCells(f) + 1}
  IN  [j \in items |-> CellAt(f, k + j)]

\* The stream does not move once a read has fallen short.
Reached(f, k) == Min({k, WholeCells(f) + 2})

DeviceAt(f, k) ==
  LET ports == ListAt(f, k + 2)
      memory == ListAt(f, k + 3 + Len(ports))
  IN  [device |-> [name |-> CellAt(f, k), id |-> CellAt(f, k + 1),
                   ports |-> ports, memory |-> memory],
       end |-> Reached(f, k + 4 + Len(ports) + Len(memory))]

-----------------------------------------------------------------------------
(* load                                                                    *)

\* Mistake: the table is cleared only once the file is known to be good.
ClearedIfGood(f) == IF f.kind = "good" THEN <<>> ELSE devices

Cleared(f) == <<>>

LoadRefused(f) ==
  /\ pc = "idle" /\ f.kind # "good"
  /\ devices' = Cleared(f)
  /\ file' = f
  /\ outcome' = IF f.kind = "rejected" THEN "threw" ELSE "false"
  /\ UNCHANGED <<at, left, pc>>

LoadGood(f) ==
  /\ pc = "idle" /\ f.kind = "good"
  /\ devices' = Cleared(f)
  /\ file' = f
  /\ at' = 1 /\ left' = f.announced
  /\ pc' = "reading"
  /\ UNCHANGED outcome

\* Mistake: a device is inserted, which leaves an earlier one of its id there.
InsertedOnce(table, d) == table @@ (d.id :> d)

\* Mistake: the key is the number of the device.
AssignedInOrder(table, d) == (Cardinality(DOMAIN table) :> d) @@ table

\* devices_[d.id] = d
Assigned(table, d) ==
  [i \in DOMAIN table \cup {d.id} |-> IF i = d.id THEN d ELSE table[i]]

\* Mistake: the loop runs until the table has as many devices as announced.
ReadDeviceOfNewId ==
  LET d == DeviceAt(file, at).device
  IN  /\ pc = "reading" /\ left > 0
      /\ devices' = Assigned(devices, d)
      /\ at' = DeviceAt(file, at).end
      /\ left' = IF d.id \in DOMAIN devices THEN left ELSE left - 1
      /\ UNCHANGED <<file, outcome, pc>>

ReadDevice ==
  /\ pc = "reading" /\ left > 0
  /\ devices' = Assigned(devices, DeviceAt(file, at).device)
  /\ at' = DeviceAt(file, at).end
  /\ left' = left - 1
  /\ UNCHANGED <<file, outcome, pc>>

LoadReturns ==
  /\ pc = "reading" /\ left = 0
  /\ outcome' = "true"
  /\ pc' = "idle"
  /\ UNCHANGED <<file, devices, at, left>>

LoadStep == ReadDevice \/ LoadReturns

NoFile ==
  [kind |-> "absent", written |-> <<>>, announced |-> 0, cells |-> <<>>, torn |-> FALSE]

Init ==
  /\ file = NoFile /\ devices = <<>>
  /\ at = 1 /\ left = 0 /\ outcome = "false" /\ pc = "idle"

Next ==
  \/ \E f \in Files : LoadRefused(f) \/ LoadGood(f)
  \/ LoadStep

Spec == Init /\ [][Next]_vars

-----------------------------------------------------------------------------
(* Properties.                                                             *)

TypeOK ==
  /\ IsIoFile(file)
  /\ \A i \in DOMAIN devices : devices[i] \in Devices /\ devices[i].id = i
  /\ at \in Nat /\ left \in 0..file.announced
  /\ outcome \in {"true", "false", "threw"}
  /\ pc \in {"idle", "reading"}

(***************************************************************************)
(* A load that fails leaves no device, not even those of the file before.  *)
(***************************************************************************)
FailedLoadsLeaveNothing == pc = "idle" /\ outcome # "true" => devices = <<>>

\* The devices of which every cell is in the file, and those of them announced.
Intact(f) ==
  {n \in DOMAIN f.written : Len(EncodedAll(SubSeq(f.written, 1, n))) <= WholeCells(f)}

Loaded(f) == 1..f.announced \cap Intact(f)

\* The ids that the devices announced beyond those read as: the first one as its
\* own unless that is cut or there is none, the others as 0.
CutIds(f) ==
  LET intact == Cardinality(Intact(f))
      k == Len(EncodedAll(SubSeq(f.written, 1, intact))) + 1
  IN  (IF f.announced > intact THEN {CellAt(f, k + 1)} ELSE {})
        \cup (IF f.announced > intact + 1 THEN {0} ELSE {})

\* The last device loaded whole of an id.
Written(f, i) == f.written[Max({n \in Loaded(f) : f.written[n].id = i})]

(***************************************************************************)
(* What was read from a file is in the table as it was written, whatever   *)
(* the file of before: of the devices of one id the last one, the lists of *)
(* each whole. Where a file is cut short, or announces more devices than   *)
(* it holds, that costs no device but those cut and those of an id they    *)
(* read as, and adds no device of another id.                              *)
(***************************************************************************)
TableHoldsTheFile ==
  pc = "idle" /\ outcome = "true" =>
    LET ids == {file.written[n].id : n \in Loaded(file)}
    IN  /\ DOMAIN devices = ids \cup CutIds(file)
        /\ \A i \in ids \ CutIds(file) : devices[i] = Written(file, i)
=============================================================================
