---------------------------- MODULE IoFileProofs ----------------------------
(***************************************************************************)
(* Proofs about io_file, for any files: the table is one of devices, each  *)
(* under its id, and a load that fails leaves none. They hold of dump_io   *)
(* as of any other client, whose steps are all steps of io_file.           *)
(***************************************************************************)
EXTENDS DumpIo, LibraryProofs

LEMMA FileFacts ==
  ASSUME NEW f, IsIoFile(f)
  PROVE  /\ f.cells \in Seq(Nat)
         /\ WholeCells(f) \in Nat
         /\ Len(f.written) \in Nat
         /\ f.announced \in Nat
<1>1. /\ f.cells \in Seq(Nat) /\ f.torn \in BOOLEAN
      /\ f.written \in Seq(Devices) /\ f.announced \in Nat /\ WholeCells(f) >= 0
  BY Zenon DEF IsIoFile
<1>2. WholeCells(f) \in Int
  BY <1>1 DEF WholeCells
<1>3. QED
  BY <1>1, <1>2

LEMMA CellType ==
  ASSUME NEW f, IsIoFile(f), NEW k \in Nat
  PROVE  CellAt(f, k) \in Nat
BY FileFacts DEF CellAt

\* A list cut short is a sequence still: its items are the first ones.
LEMMA ListType ==
  ASSUME NEW f, IsIoFile(f), NEW k \in Nat
  PROVE  ListAt(f, k) \in Seq(Nat)
<1> DEFINE n == CellAt(f, k)
           room == WholeCells(f) + 1 - k
           len == IF room < 0 THEN 0 ELSE IF n < room THEN n ELSE room
<1>1. n \in Nat /\ WholeCells(f) \in Nat
  BY CellType, FileFacts
<1>2. len \in Nat
  BY <1>1
<1>3. {j \in 1..n : k + j <= WholeCells(f) + 1} = 1..len
  BY <1>1
<1>4. \A j \in 1..len : CellAt(f, k + j) \in Nat
  BY CellType, <1>2
<1>5. ListAt(f, k) = [j \in 1..len |-> CellAt(f, k + j)]
  BY <1>3 DEF ListAt
<1> HIDE DEF len
<1>6. [j \in 1..len |-> CellAt(f, k + j)] \in Seq(Nat)
  BY <1>2, <1>4
<1>7. QED
  BY <1>5, <1>6

LEMMA ReachedType ==
  ASSUME NEW f, IsIoFile(f), NEW k \in Nat
  PROVE  Reached(f, k) \in Nat
<1>1. WholeCells(f) + 2 \in Nat
  BY FileFacts
<1>2. \E x \in {k, WholeCells(f) + 2} : \A y \in {k, WholeCells(f) + 2} : x =< y
  BY <1>1
<1>3. Reached(f, k) \in {k, WholeCells(f) + 2}
  BY <1>2 DEF Reached, Min
<1>4. QED
  BY <1>1, <1>3

LEMMA DeviceType ==
  ASSUME NEW f, IsIoFile(f), NEW k \in Nat
  PROVE  /\ DeviceAt(f, k).device \in Devices
         /\ DeviceAt(f, k).end \in Nat
<1> DEFINE ports == ListAt(f, k + 2)
           memory == ListAt(f, k + 3 + Len(ports))
           after == k + 4 + Len(ports) + Len(memory)
<1>1. ports \in Seq(Nat) /\ Len(ports) \in Nat
  BY ListType
<1>2. memory \in Seq(Nat) /\ Len(memory) \in Nat
  BY <1>1, ListType
<1>3. CellAt(f, k) \in Nat /\ CellAt(f, k + 1) \in Nat
  BY CellType
<1>4. Reached(f, after) \in Nat
  <2>1. after \in Nat
    BY <1>1, <1>2
  <2>2. QED
    BY <2>1, ReachedType
<1>5. DeviceAt(f, k) =
        [device |-> [name |-> CellAt(f, k), id |-> CellAt(f, k + 1),
                     ports |-> ports, memory |-> memory],
         end |-> Reached(f, after)]
  BY DEF DeviceAt
<1> HIDE DEF ports, memory, after
<1>6. QED
  BY <1>1, <1>2, <1>3, <1>4, <1>5 DEF Devices

\* devices_[d.id] = d leaves every device under its id.
LEMMA AssignedType ==
  ASSUME NEW table, \A i \in DOMAIN table : table[i] \in Devices /\ table[i].id = i,
         NEW d \in Devices
  PROVE  \A i \in DOMAIN Assigned(table, d) :
           Assigned(table, d)[i] \in Devices /\ Assigned(table, d)[i].id = i
BY DEF Assigned

LEMMA EmptyFileIsOne == IsIoFile(NoFile)
<1>1. SubSeq(<<>>, 1, 0) = <<>>
  OBVIOUS
<1>2. [i \in DOMAIN <<>> |-> Encoded(<<>>[i])] = <<>>
  OBVIOUS
<1>3. EncodedAll(<<>>) = <<>>
  BY <1>2 DEF EncodedAll, FlattenSeq
<1>4. WholeCells(NoFile) = 0
  BY DEF WholeCells, NoFile
<1>5. QED
  BY <1>1, <1>3, <1>4 DEF IsIoFile, NoFile, Kinds, IsPrefix

-----------------------------------------------------------------------------
(***************************************************************************)
(* The type invariant alone is not inductive: a refused load replaces the  *)
(* file and keeps left, which has to be 0 when no load is running.         *)
(***************************************************************************)
IInv ==
  /\ TypeOK
  /\ pc = "idle" => left = 0
  /\ FailedLoadsLeaveNothing

LEMMA InitInv == Init => IInv
BY EmptyFileIsOne DEF Init, IInv, TypeOK, FailedLoadsLeaveNothing, NoFile

LEMMA InvStep == IInv /\ [Next]_vars => IInv'
<1> SUFFICES ASSUME IInv, [Next]_vars PROVE IInv'
  OBVIOUS
<1>1. CASE UNCHANGED vars
  BY <1>1 DEF vars, IInv, TypeOK, FailedLoadsLeaveNothing
<1>2. ASSUME NEW f \in Files, LoadRefused(f) PROVE IInv'
  <2>1. IsIoFile(f)
    BY FilesAssumption
  <2>2. left' \in 0..file'.announced
    <3>1. f.announced \in Nat /\ left' = 0 /\ file' = f
      BY <1>2, <2>1, FileFacts DEF LoadRefused, IInv
    <3>2. QED
      BY <3>1
  <2>3. QED
    BY <1>2, <2>1, <2>2 DEF LoadRefused, Cleared, IInv, TypeOK, FailedLoadsLeaveNothing
<1>3. ASSUME NEW f \in Files, LoadGood(f) PROVE IInv'
  <2>1. IsIoFile(f)
    BY FilesAssumption
  <2>2. left' \in 0..file'.announced
    <3>1. f.announced \in Nat /\ left' = f.announced /\ file' = f
      BY <1>3, <2>1, FileFacts DEF LoadGood
    <3>2. QED
      BY <3>1
  <2>3. QED
    BY <1>3, <2>1, <2>2 DEF LoadGood, Cleared, IInv, TypeOK, FailedLoadsLeaveNothing
<1>4. CASE ReadDevice
  <2>1. /\ DeviceAt(file, at).device \in Devices
        /\ DeviceAt(file, at).end \in Nat
    BY DeviceType DEF IInv, TypeOK
  <2>2. \A i \in DOMAIN devices' : devices'[i] \in Devices /\ devices'[i].id = i
    <3> HIDE DEF Devices
    <3>1. \A i \in DOMAIN devices : devices[i] \in Devices /\ devices[i].id = i
      BY DEF IInv, TypeOK
    <3>2. devices' = Assigned(devices, DeviceAt(file, at).device)
      BY <1>4 DEF ReadDevice
    <3>3. QED
      BY <2>1, <3>1, <3>2, AssignedType
  <2>3. left' \in 0..file'.announced
    <3>1. file.announced \in Nat
      BY FileFacts DEF IInv, TypeOK
    <3>2. QED
      BY <1>4, <3>1 DEF ReadDevice, IInv, TypeOK
  <2>4. QED
    BY <1>4, <2>1, <2>2, <2>3 DEF ReadDevice, IInv, TypeOK, FailedLoadsLeaveNothing
<1>5. CASE LoadReturns
  BY <1>5 DEF LoadReturns, IInv, TypeOK, FailedLoadsLeaveNothing
<1>6. QED
  BY <1>1, <1>2, <1>3, <1>4, <1>5 DEF Next, LoadStep

(***************************************************************************)
(* Whatever the files hold, the table is one of devices under their ids    *)
(* and load reads no more of them than the file announces.                 *)
(***************************************************************************)
THEOREM TableIsTyped == Spec => []TypeOK
<1>1. IInv => TypeOK
  BY DEF IInv
<1>2. QED
  BY <1>1, InitInv, InvStep, PTL DEF Spec

(***************************************************************************)
(* A load that fails, without a file, at a header cut short or at a wrong  *)
(* magic, leaves no device of the file before (io_file.cpp:14-47).         *)
(***************************************************************************)
THEOREM FailureLeavesNothing == Spec => []FailedLoadsLeaveNothing
<1>1. IInv => FailedLoadsLeaveNothing
  BY DEF IInv
<1>2. QED
  BY <1>1, InitInv, InvStep, PTL DEF Spec

-----------------------------------------------------------------------------
\* Each step of the tool and of any other client is one of io_file, or none.
LEMMA UsersStep == [DumpStep \/ OtherClient]_<<vars, toolVars>> => [Next]_vars
<1> SUFFICES ASSUME [DumpStep \/ OtherClient]_<<vars, toolVars>> PROVE [Next]_vars
  OBVIOUS
<1>1. CASE UNCHANGED <<vars, toolVars>>
  BY <1>1
<1>2. CASE DumpLoads
  BY <1>2 DEF DumpLoads, Next
<1>3. CASE LoadStep
  BY <1>3 DEF Next
<1>4. CASE DumpPrints \/ DumpStops
  BY <1>4 DEF DumpPrints, DumpStops
<1>5. CASE OtherClient
  BY <1>5 DEF OtherClient
<1>6. QED
  BY <1>1, <1>2, <1>3, <1>4, <1>5 DEF DumpStep

(***************************************************************************)
(* dump_io and the clients of the run use io_file as it is modelled: the   *)
(* theorems above hold of them.                                            *)
(***************************************************************************)
THEOREM UsersUseIoFile == UsersSpec => Spec
<1>1. UsersInit => Init
  BY DEF UsersInit
<1>2. QED
  BY <1>1, UsersStep, PTL DEF UsersSpec, Spec

-----------------------------------------------------------------------------
(***************************************************************************)
(* Where the devices are: what the cells of a file mean.                   *)
(***************************************************************************)
Encs(ds) == [i \in DOMAIN ds |-> Encoded(ds[i])]

\* How many cells the first n devices take.
Offset(f, n) == Len(EncodedAll(SubSeq(f.written, 1, n)))

LEMMA EncodedIs ==
  ASSUME NEW d \in Devices
  PROVE  LET p == Len(d.ports)
         IN  /\ p \in Nat /\ Len(d.memory) \in Nat
             /\ Encoded(d) \in Seq(Nat)
             /\ Len(Encoded(d)) = 4 + p + Len(d.memory)
             /\ Encoded(d)[1] = d.name /\ Encoded(d)[2] = d.id /\ Encoded(d)[3] = p
             /\ \A j \in 1..p : Encoded(d)[3 + j] = d.ports[j]
             /\ Encoded(d)[4 + p] = Len(d.memory)
             /\ \A j \in 1..Len(d.memory) : Encoded(d)[4 + p + j] = d.memory[j]
<1> DEFINE p == Len(d.ports)
           q == Len(d.memory)
           head == <<d.name, d.id, p>>
           first == head \o d.ports
           second == first \o <<q>>
<1>1. /\ d.name \in Nat /\ d.id \in Nat /\ d.ports \in Seq(Nat) /\ d.memory \in Seq(Nat)
      /\ p \in Nat /\ q \in Nat
  BY DEF Devices
<1>2. /\ head \in Seq(Nat) /\ Len(head) = 3
      /\ head[1] = d.name /\ head[2] = d.id /\ head[3] = p
  <2> HIDE DEF p
  <2> QED
    BY <1>1
<1>3. Encoded(d) = second \o d.memory
  BY DEF Encoded
<1> HIDE DEF head
<1>4. /\ first \in Seq(Nat) /\ Len(first) = 3 + p
      /\ \A j \in 1..3 : first[j] = head[j]
      /\ \A j \in 1..p : first[3 + j] = d.ports[j]
  <2> DEFINE ports == d.ports
  <2>1. ports \in Seq(Nat) /\ Len(ports) = p
    BY <1>1
  <2> HIDE DEF p, ports
  <2>2. head \o ports \in Seq(Nat) /\ Len(head \o ports) = Len(head) + Len(ports)
    BY <1>2, <2>1, ConcatIs
  <2>3. \A j \in 1..Len(head) : (head \o ports)[j] = head[j]
    BY <1>2, <2>1, ConcatIs, SMTT(30)
  <2>4. \A j \in 1..Len(ports) : (head \o ports)[Len(head) + j] = ports[j]
    <3>1. head \in Seq(Nat) /\ ports \in Seq(Nat)
      BY <1>2, <2>1
    <3> QED
      BY <3>1, ConcatIs
  <2>5. first = head \o ports
    BY DEF ports
  <2> HIDE DEF first
  <2>6. \A j \in 1..p : first[3 + j] = ports[j]
    BY <1>2, <2>1, <2>4, <2>5
  <2> QED
    BY <1>2, <2>1, <2>2, <2>3, <2>5, <2>6 DEF ports
<1> HIDE DEF first
<1>5. /\ second \in Seq(Nat) /\ Len(second) = 4 + p
      /\ \A j \in 1..(3 + p) : second[j] = first[j]
      /\ second[4 + p] = q
  <2> HIDE DEF p, q
  <2>1. <<q>> \in Seq(Nat) /\ Len(<<q>>) = 1 /\ <<q>>[1] = q
    BY <1>1
  <2>2. /\ second \in Seq(Nat) /\ Len(second) = 3 + p + 1
        /\ \A j \in 1..(3 + p) : second[j] = first[j]
        /\ \A j \in 1..1 : second[3 + p + j] = <<q>>[j]
    BY <1>4, <2>1, ConcatIs
  <2>3. 3 + p + 1 = 4 + p /\ 1 \in 1..1
    BY <1>1
  <2> HIDE DEF second
  <2> QED
    BY <2>1, <2>2, <2>3
<1> HIDE DEF second
<1>6. /\ Encoded(d) \in Seq(Nat) /\ Len(Encoded(d)) = 4 + p + q
      /\ \A j \in 1..(4 + p) : Encoded(d)[j] = second[j]
      /\ \A j \in 1..q : Encoded(d)[4 + p + j] = d.memory[j]
  <2> DEFINE memory == d.memory
  <2>1. memory \in Seq(Nat) /\ Len(memory) = q
    BY <1>1
  <2> HIDE DEF p, q, memory
  <2>2. second \o memory \in Seq(Nat) /\ Len(second \o memory) = Len(second) + Len(memory)
    BY <1>5, <2>1, ConcatIs
  <2>3. \A j \in 1..Len(second) : (second \o memory)[j] = second[j]
    BY <1>5, <2>1, ConcatIs
  <2>4. \A j \in 1..Len(memory) : (second \o memory)[Len(second) + j] = memory[j]
    BY <1>5, <2>1, ConcatIs, SMTT(30)
  <2>5. Encoded(d) = second \o memory
    BY <1>3 DEF memory
  <2>6. \A j \in 1..q : Encoded(d)[4 + p + j] = memory[j]
    BY <1>5, <2>1, <2>4, <2>5
  <2> QED
    BY <1>5, <2>1, <2>2, <2>3, <2>5, <2>6 DEF memory
<1> HIDE DEF p, q
<1>7. /\ 1 \in 1..(3 + p) /\ 2 \in 1..(3 + p) /\ 3 \in 1..(3 + p) /\ 4 + p \in 1..(4 + p)
      /\ \A j \in 1..(3 + p) : j \in 1..(4 + p)
      /\ \A j \in 1..p : 3 + j \in 1..(3 + p)
  BY <1>1
<1>8. \A j \in 1..(3 + p) : Encoded(d)[j] = first[j]
  BY <1>5, <1>6, <1>7
<1>9. Encoded(d)[1] = d.name /\ Encoded(d)[2] = d.id /\ Encoded(d)[3] = p
  <2>1. 1 \in 1..3 /\ 2 \in 1..3 /\ 3 \in 1..3
    OBVIOUS
  <2> QED
    BY <1>2, <1>4, <1>7, <1>8, <2>1
<1>10. \A j \in 1..p : Encoded(d)[3 + j] = d.ports[j]
  BY <1>4, <1>7, <1>8
<1>11. Encoded(d)[4 + p] = q
  BY <1>5, <1>6, <1>7
<1> QED
  BY <1>1, <1>6, <1>9, <1>10, <1>11 DEF p, q

\* The devices of a file, encoded one by one.
LEMMA EncsAre ==
  ASSUME NEW f, IsIoFile(f)
  PROVE  /\ Encs(f.written) \in Seq(Seq(Nat))
         /\ Len(Encs(f.written)) = Len(f.written)
         /\ \A n \in 1..Len(f.written) :
              f.written[n] \in Devices /\ Encs(f.written)[n] = Encoded(f.written[n])
<1>1. f.written \in Seq(Devices)
  BY Zenon DEF IsIoFile
<1>2. \A n \in 1..Len(f.written) : f.written[n] \in Devices
  <2> HIDE DEF Devices
  <2> QED
    BY <1>1
<1>3. \A n \in 1..Len(f.written) : Encoded(f.written[n]) \in Seq(Nat)
  BY <1>2, EncodedIs
<1>4. DOMAIN f.written = 1..Len(f.written) /\ Len(f.written) \in Nat
  <2> HIDE DEF Devices
  <2> QED
    BY <1>1
<1>5. Encs(f.written) = [n \in 1..Len(f.written) |-> Encoded(f.written[n])]
  BY <1>4 DEF Encs
<1>6. Encs(f.written) \in Seq(Seq(Nat)) /\ Len(Encs(f.written)) = Len(f.written)
  <2> DEFINE R == Seq(Nat)
             e(n) == Encoded(f.written[n])
  <2>1. \A n \in 1..Len(f.written) : e(n) \in R
    BY <1>3
  <2> HIDE DEF R, e
  <2>2. [n \in 1..Len(f.written) |-> e(n)] \in Seq(R) /\ Len([n \in 1..Len(f.written) |-> e(n)]) = Len(f.written)
    BY <1>4, <2>1
  <2> QED
    BY <1>5, <2>2 DEF R, e
<1> QED
  BY <1>2, <1>5, <1>6

LEMMA OffsetIs ==
  ASSUME NEW f, IsIoFile(f), NEW n \in Nat, n <= Len(f.written)
  PROVE  Offset(f, n) = Len(Flat(Encs(f.written), n))
<1> DEFINE ds == SubSeq(f.written, 1, n)
           es == SubSeq(Encs(f.written), 1, n)
<1>1. f.written \in Seq(Devices) /\ Len(f.written) \in Nat
  BY FileFacts, Zenon DEF IsIoFile
<1>2. Len(ds) = n /\ DOMAIN ds = 1..n /\ \A i \in 1..n : ds[i] = f.written[i]
  <2> HIDE DEF Devices
  <2> QED
    BY <1>1
<1>3. es \in Seq(Seq(Nat)) /\ Len(es) = n /\ \A i \in 1..n : es[i] = Encs(f.written)[i]
  BY EncsAre, FirstItems
<1>4. es = [i \in 1..n |-> es[i]]
  BY <1>3
<1>5. \A i \in 1..n : es[i] = Encoded(ds[i])
  <2>1. \A i \in 1..n : i \in 1..Len(f.written)
    BY <1>1
  <2> QED
    BY <1>2, <1>3, <2>1, EncsAre
<1>6. [i \in DOMAIN ds |-> Encoded(ds[i])] = es
  <2> HIDE DEF ds, es
  <2> QED
    BY <1>2, <1>4, <1>5
<1> QED
  BY <1>6 DEF Offset, EncodedAll, Flat

LEMMA EndOffset ==
  ASSUME NEW f, IsIoFile(f)
  PROVE  Offset(f, Len(f.written)) = Len(EncodedAll(f.written))
<1>1. f.written \in Seq(Devices) /\ Len(f.written) \in Nat
  BY FileFacts, Zenon DEF IsIoFile
<1>2. SubSeq(f.written, 1, Len(f.written)) = f.written
  <2> HIDE DEF Devices
  <2> QED
    BY <1>1
<1> QED
  BY <1>2 DEF Offset

LEMMA Layout ==
  ASSUME NEW f, IsIoFile(f), NEW n \in Nat, n + 1 <= Len(f.written)
  PROVE  LET d == f.written[n + 1]
         IN  /\ d \in Devices
             /\ Offset(f, n) \in Nat
             /\ Offset(f, n + 1) = Offset(f, n) + Len(Encoded(d))
             /\ Offset(f, n + 1) <= Len(EncodedAll(f.written))
             /\ \A j \in 1..Len(Encoded(d)) :
                  EncodedAll(f.written)[Offset(f, n) + j] = Encoded(d)[j]
<1>1. Len(f.written) \in Nat /\ n <= Len(f.written) /\ n + 1 \in 1..Len(f.written)
  BY FileFacts
<1>2. /\ Offset(f, n) = Len(Flat(Encs(f.written), n))
      /\ Offset(f, n + 1) = Len(Flat(Encs(f.written), n + 1))
  BY <1>1, OffsetIs
<1>3. /\ Encs(f.written) \in Seq(Seq(Nat)) /\ n + 1 <= Len(Encs(f.written))
      /\ f.written[n + 1] \in Devices
      /\ Encs(f.written)[n + 1] = Encoded(f.written[n + 1])
  BY <1>1, EncsAre
<1>4. EncodedAll(f.written) = FlattenSeq(Encs(f.written))
  BY DEF EncodedAll, Encs
<1>5. /\ Len(Flat(Encs(f.written), n)) \in Nat
      /\ Len(Flat(Encs(f.written), n + 1)) =
           Len(Flat(Encs(f.written), n)) + Len(Encs(f.written)[n + 1])
      /\ Len(Flat(Encs(f.written), n + 1)) <= Len(FlattenSeq(Encs(f.written)))
      /\ \A j \in 1..Len(Encs(f.written)[n + 1]) :
           FlattenSeq(Encs(f.written))[Len(Flat(Encs(f.written), n)) + j]
             = Encs(f.written)[n + 1][j]
  BY <1>3, FlattenItem
<1> QED
  BY <1>2, <1>3, <1>4, <1>5

-----------------------------------------------------------------------------
(***************************************************************************)
(* What load reads of a device that is whole, cut or missing.              *)
(***************************************************************************)
LEMMA WholeCell ==
  ASSUME NEW f, IsIoFile(f)
  PROVE  /\ WholeCells(f) <= Len(EncodedAll(f.written))
         /\ \A k \in 1..WholeCells(f) : CellAt(f, k) = EncodedAll(f.written)[k]
         /\ \A k \in Nat : k > WholeCells(f) + 1 => CellAt(f, k) = 0
<1> DEFINE all == EncodedAll(f.written)
           w == WholeCells(f)
           cells == f.cells
           first == SubSeq(cells, 1, w)
<1>1. /\ cells \in Seq(Nat) /\ w \in Nat /\ f.torn \in BOOLEAN
      /\ IsPrefix(first, all) /\ w = Len(cells) - (IF f.torn THEN 1 ELSE 0)
  BY FileFacts, Zenon DEF IsIoFile, WholeCells
<1>2. all \in Seq(Nat)
  <2>1. all = FlattenSeq(Encs(f.written))
    BY DEF EncodedAll, Encs
  <2> QED
    BY <2>1, EncsAre, FlattenType
<1>3. w <= Len(cells) /\ Len(cells) <= w + 1 /\ Len(cells) \in Nat
  <2> HIDE DEF w, cells
  <2> QED
    BY <1>1
<1>4. /\ first \in Seq(Nat) /\ Len(first) = w
      /\ \A k \in 1..w : first[k] = cells[k]
  <2> HIDE DEF w, cells
  <2> QED
    BY <1>1, <1>3, FirstItems
<1>5. Len(first) <= Len(all) /\ SubSeq(first, 1, Len(first)) = SubSeq(all, 1, Len(first))
  <2> HIDE DEF first, all
  <2> QED
    BY <1>1 DEF IsPrefix
<1> HIDE DEF first, all
<1>6. w <= Len(all)
  BY <1>4, <1>5
<1>7. \A k \in 1..w : first[k] = all[k]
  <2> HIDE DEF w
  <2>1. \A k \in 1..w : SubSeq(first, 1, w)[k] = first[k]
    BY <1>1, <1>4, FirstItems
  <2>2. \A k \in 1..w : SubSeq(all, 1, w)[k] = all[k]
    BY <1>1, <1>2, <1>6, FirstItems
  <2> QED
    BY <1>4, <1>5, <2>1, <2>2
<1>8. \A k \in 1..w : CellAt(f, k) = cells[k]
  <2> HIDE DEF w
  <2> QED
    BY <1>1, <1>3 DEF CellAt
<1>9. \A k \in Nat : k > w + 1 => CellAt(f, k) = 0
  <2> SUFFICES ASSUME NEW k \in Nat, k > w + 1 PROVE CellAt(f, k) = 0
    OBVIOUS
  <2>1. CellAt(f, k) = IF k \in DOMAIN cells THEN cells[k] ELSE 0
    BY DEF CellAt
  <2> HIDE DEF w, cells
  <2>2. k \notin DOMAIN cells
    BY <1>1, <1>3
  <2> QED
    BY <2>1, <2>2
<1> HIDE DEF w, cells
<1> QED
  BY <1>4, <1>6, <1>7, <1>8, <1>9 DEF all, w

\* The list at k: as long as its length says, or as the file goes.
LEMMA ListIs ==
  ASSUME NEW f, IsIoFile(f), NEW k \in Nat
  PROVE  LET n == CellAt(f, k)
             w == WholeCells(f)
             len == IF k + n <= w + 1 THEN n ELSE IF k <= w + 1 THEN w + 1 - k ELSE 0
         IN  /\ n \in Nat /\ w \in Nat /\ len \in Nat
             /\ ListAt(f, k) = [j \in 1..len |-> CellAt(f, k + j)]
             /\ Len(ListAt(f, k)) = len
<1> DEFINE n == CellAt(f, k)
           w == WholeCells(f)
           len == IF k + n <= w + 1 THEN n ELSE IF k <= w + 1 THEN w + 1 - k ELSE 0
<1>1. n \in Nat /\ w \in Nat
  BY CellType, FileFacts
<1>2. ListAt(f, k) = [j \in {j \in 1..n : k + j <= w + 1} |-> CellAt(f, k + j)]
  BY DEF ListAt
<1> HIDE DEF n, w
<1>3. len \in Nat
  BY <1>1
<1>4. {j \in 1..n : k + j <= w + 1} = 1..len
  BY <1>1
<1> HIDE DEF len
<1>5. ListAt(f, k) = [j \in 1..len |-> CellAt(f, k + j)]
  BY <1>2, <1>4
<1>6. Len(ListAt(f, k)) = len
  BY <1>3, <1>5
<1> QED
  BY <1>1, <1>3, <1>5, <1>6 DEF n, w, len

LEMMA ReachedIs ==
  ASSUME NEW f, IsIoFile(f), NEW k \in Nat
  PROVE  Reached(f, k) = IF k <= WholeCells(f) + 2 THEN k ELSE WholeCells(f) + 2
<1> DEFINE e == WholeCells(f) + 2
           r == IF k <= e THEN k ELSE e
<1>1. e \in Nat
  BY FileFacts
<1>2. {k, e} \in SUBSET Nat /\ r \in {k, e} /\ \A y \in {k, e} : r <= y
  BY <1>1
<1> HIDE DEF r
<1>3. Min({k, e}) = r
  BY <1>2, MinFound
<1> QED
  BY <1>3 DEF Reached, r

\* A whole device is read as it was written.
LEMMA WholeIsRead ==
  ASSUME NEW f, IsIoFile(f), NEW n \in Nat, n + 1 <= Len(f.written),
         Offset(f, n + 1) <= WholeCells(f)
  PROVE  /\ DeviceAt(f, Offset(f, n) + 1).device = f.written[n + 1]
         /\ DeviceAt(f, Offset(f, n) + 1).end = Offset(f, n + 1) + 1
<1> DEFINE d == f.written[n + 1]
           o == Offset(f, n)
           p == Len(d.ports)
           q == Len(d.memory)
           w == WholeCells(f)
           all == EncodedAll(f.written)
<1>1. d \in Devices /\ o \in Nat /\ w \in Nat /\ p \in Nat /\ q \in Nat
  BY Layout, EncodedIs, FileFacts
<1>2. Offset(f, n + 1) = o + (4 + p + q) /\ Len(Encoded(d)) = 4 + p + q
  <2>1. Offset(f, n + 1) = o + Len(Encoded(d))
    BY Layout
  <2>2. Len(Encoded(d)) = 4 + p + q
    BY <1>1, EncodedIs
  <2> HIDE DEF o, p, q, d
  <2> QED
    BY <2>1, <2>2
<1>3. \A j \in 1..(4 + p + q) : CellAt(f, o + j) = Encoded(d)[j]
  <2>1. \A j \in 1..(4 + p + q) : all[o + j] = Encoded(d)[j]
    <3>1. \A j \in 1..Len(Encoded(d)) : all[o + j] = Encoded(d)[j]
      BY Layout
    <3> HIDE DEF o, p, q, d, all
    <3> QED
      BY <1>2, <3>1
  <2>2. \A j \in 1..(4 + p + q) : o + j \in 1..w
    <3>1. o + (4 + p + q) <= w
      BY <1>2
    <3> HIDE DEF o, p, q, w
    <3> QED
      BY <1>1, <3>1
  <2>3. \A j \in 1..w : CellAt(f, j) = all[j]
    BY WholeCell
  <2> HIDE DEF o, p, q, w, all, d
  <2> QED
    BY <2>1, <2>2, <2>3
<1>4. /\ Encoded(d)[1] = d.name /\ Encoded(d)[2] = d.id /\ Encoded(d)[3] = p
      /\ \A j \in 1..p : Encoded(d)[3 + j] = d.ports[j]
      /\ Encoded(d)[4 + p] = q
      /\ \A j \in 1..q : Encoded(d)[4 + p + j] = d.memory[j]
  BY <1>1, EncodedIs
<1>5. /\ d = [name |-> d.name, id |-> d.id, ports |-> d.ports, memory |-> d.memory]
      /\ d.ports \in Seq(Nat) /\ d.memory \in Seq(Nat)
  BY <1>1 DEF Devices
<1>6. o + (4 + p + q) <= w
  BY <1>2
<1> DEFINE k == o + 1
           ports == ListAt(f, k + 2)
           memory == ListAt(f, k + 3 + Len(ports))
           dports == d.ports
           dmemory == d.memory
           cell(i) == CellAt(f, i)
<1>7. dports \in Seq(Nat) /\ dmemory \in Seq(Nat) /\ Len(dports) = p /\ Len(dmemory) = q
  BY <1>5
<1>8. /\ cell(o + 1) = d.name /\ cell(o + 2) = d.id /\ cell(o + 3) = p /\ cell(o + (4 + p)) = q
      /\ \A j \in 1..p : cell(o + (3 + j)) = dports[j]
      /\ \A j \in 1..q : cell(o + (4 + p + j)) = dmemory[j]
  <2>1. /\ 1 \in 1..(4 + p + q) /\ 2 \in 1..(4 + p + q) /\ 3 \in 1..(4 + p + q)
        /\ 4 + p \in 1..(4 + p + q)
        /\ \A j \in 1..p : 3 + j \in 1..(4 + p + q)
        /\ \A j \in 1..q : 4 + p + j \in 1..(4 + p + q)
    <3> HIDE DEF p, q
    <3> QED
      BY <1>1, SMTT(30)
  <2> HIDE DEF o, p, q, d
  <2> QED
    BY <1>3, <1>4, <2>1
<1>9. Len(ports) = p /\ ports = [j \in 1..p |-> cell((k + 2) + j)]
  <2>1. k + 2 \in Nat /\ k + 2 = o + 3 /\ (k + 2) + p <= w + 1
    <3> HIDE DEF o, p, q, w
    <3> QED
      BY <1>1, <1>6
  <2>2. CellAt(f, k + 2) = p
    BY <1>8, <2>1
  <2> HIDE DEF k, p, w, d
  <2> QED
    BY <2>1, <2>2, ListIs DEF w
<1>10. ports = dports
  <2>1. \A j \in 1..p : cell((k + 2) + j) = dports[j]
    <3>1. \A j \in 1..p : (k + 2) + j = o + (3 + j)
      <4> HIDE DEF o, p
      <4> QED
        BY <1>1
    <3> HIDE DEF o, p, cell, dports, k
    <3> QED
      BY <1>8, <3>1
  <2> HIDE DEF cell, dports, k, p, ports
  <2> QED
    BY <1>7, <1>9, <2>1
<1>11. Len(memory) = q /\ memory = [j \in 1..q |-> cell((k + 3 + p) + j)]
  <2>1. k + 3 + p \in Nat /\ k + 3 + p = o + (4 + p) /\ (k + 3 + p) + q <= w + 1
    <3> HIDE DEF o, p, q, w
    <3> QED
      BY <1>1, <1>6
  <2>2. CellAt(f, k + 3 + p) = q
    BY <1>8, <2>1
  <2>3. memory = ListAt(f, k + 3 + p)
    BY <1>9
  <2> HIDE DEF k, p, q, w, d, ports, memory
  <2> QED
    BY <2>1, <2>2, <2>3, ListIs DEF w
<1>12. memory = dmemory
  <2>1. \A j \in 1..q : cell((k + 3 + p) + j) = dmemory[j]
    <3>1. \A j \in 1..q : (k + 3 + p) + j = o + (4 + p + j)
      <4> HIDE DEF o, p, q
      <4> QED
        BY <1>1
    <3> HIDE DEF o, p, q, cell, dmemory, k
    <3> QED
      BY <1>8, <3>1
  <2> HIDE DEF cell, dmemory, k, p, q, memory
  <2> QED
    BY <1>7, <1>11, <2>1
<1>13. /\ DeviceAt(f, k).device = [name |-> CellAt(f, k), id |-> CellAt(f, k + 1), ports |-> ports, memory |-> memory]
       /\ DeviceAt(f, k).end = Reached(f, k + 4 + p + q)
  <2>1. DeviceAt(f, k).device = [name |-> CellAt(f, k), id |-> CellAt(f, k + 1), ports |-> ports, memory |-> memory]
    BY DEF DeviceAt
  <2>2. DeviceAt(f, k).end = Reached(f, k + 4 + Len(ports) + Len(memory))
    BY DEF DeviceAt
  <2> HIDE DEF k, p, q, ports, memory
  <2> QED
    BY <1>9, <1>11, <2>1, <2>2
<1>14. k + 1 = o + 2 /\ k + 4 + p + q = o + (4 + p + q) + 1 /\ k + 4 + p + q \in Nat /\ k + 4 + p + q <= w + 2
  <2> HIDE DEF o, p, q, w
  <2> QED
    BY <1>1, <1>6
<1>15. Reached(f, k + 4 + p + q) = o + (4 + p + q) + 1
  <2> HIDE DEF k, o, p, q, w
  <2> QED
    BY <1>14, ReachedIs DEF w
<1>16. CellAt(f, k) = d.name /\ CellAt(f, k + 1) = d.id
  BY <1>8, <1>14
<1> HIDE DEF k, o, p, q, w, ports, memory, d
<1> QED
  BY <1>2, <1>5, <1>10, <1>12, <1>13, <1>15, <1>16 DEF d, dports, dmemory, k, o

\* A device cut short: load comes to the end, wherever it is cut.
LEMMA CutIsRead ==
  ASSUME NEW f, IsIoFile(f), NEW n \in Nat, n + 1 <= Len(f.written),
         Offset(f, n) <= WholeCells(f), WholeCells(f) < Offset(f, n + 1)
  PROVE  /\ DeviceAt(f, Offset(f, n) + 1).device.id = CellAt(f, Offset(f, n) + 2)
         /\ DeviceAt(f, Offset(f, n) + 1).end = WholeCells(f) + 2
<1> DEFINE d == f.written[n + 1]
           o == Offset(f, n)
           p == Len(d.ports)
           q == Len(d.memory)
           w == WholeCells(f)
           k == o + 1
           cell(i) == CellAt(f, i)
           ports == ListAt(f, k + 2)
           m == k + 3 + Len(ports)
           memory == ListAt(f, m)
           stop == k + 4 + Len(ports) + Len(memory)
<1>1. d \in Devices /\ o \in Nat /\ w \in Nat /\ p \in Nat /\ q \in Nat
  BY Layout, EncodedIs, FileFacts
<1>2. w < o + (4 + p + q) /\ o <= w
  <2>1. Offset(f, n + 1) = o + Len(Encoded(d))
    BY Layout
  <2>2. Len(Encoded(d)) = 4 + p + q
    BY <1>1, EncodedIs
  <2> HIDE DEF o, p, q, d, w
  <2> QED
    BY <2>1, <2>2 DEF o, w
<1>3. \A j \in 1..(4 + p + q) : o + j <= w => cell(o + j) = Encoded(d)[j]
  <2>1. \A j \in 1..(4 + p + q) : EncodedAll(f.written)[o + j] = Encoded(d)[j]
    <3>1. \A j \in 1..Len(Encoded(d)) : EncodedAll(f.written)[o + j] = Encoded(d)[j]
      BY Layout
    <3>2. Len(Encoded(d)) = 4 + p + q
      BY <1>1, EncodedIs
    <3> HIDE DEF o, p, q, d
    <3> QED
      BY <3>1, <3>2
  <2>2. \A j \in 1..w : CellAt(f, j) = EncodedAll(f.written)[j]
    BY WholeCell
  <2>3. \A j \in 1..(4 + p + q) : o + j <= w => o + j \in 1..w
    <3> HIDE DEF o, p, q, w
    <3> QED
      BY <1>1
  <2> HIDE DEF o, p, q, d, w
  <2> QED
    BY <2>1, <2>2, <2>3
<1>4. /\ o + 3 <= w => cell(o + 3) = p
      /\ o + (4 + p) <= w => cell(o + (4 + p)) = q
  <2>1. Encoded(d)[3] = p /\ Encoded(d)[4 + p] = q
    BY <1>1, EncodedIs
  <2>2. 3 \in 1..(4 + p + q) /\ 4 + p \in 1..(4 + p + q)
    <3> HIDE DEF p, q
    <3> QED
      BY <1>1
  <2> HIDE DEF o, p, q, d, w, cell
  <2> QED
    BY <1>3, <2>1, <2>2
<1>5. \A i \in Nat : i > w + 1 => cell(i) = 0
  BY WholeCell
<1>6. /\ cell(k + 2) \in Nat /\ Len(ports) \in Nat
      /\ Len(ports) = IF (k + 2) + cell(k + 2) <= w + 1 THEN cell(k + 2)
                      ELSE IF k + 2 <= w + 1 THEN w + 1 - (k + 2) ELSE 0
  <2> DEFINE h == k + 2
             list == ListAt(f, h)
  <2>1. h \in Nat
    BY <1>1
  <2> HIDE DEF h
  <2>2. /\ cell(h) \in Nat /\ Len(list) \in Nat
        /\ Len(list) = IF h + cell(h) <= w + 1 THEN cell(h)
                       ELSE IF h <= w + 1 THEN w + 1 - h ELSE 0
    BY <2>1, ListIs
  <2> HIDE DEF list, cell, w
  <2> QED
    BY <2>2 DEF h, list
<1>7. /\ m \in Nat /\ cell(m) \in Nat /\ Len(memory) \in Nat
      /\ Len(memory) = IF m + cell(m) <= w + 1 THEN cell(m)
                       ELSE IF m <= w + 1 THEN w + 1 - m ELSE 0
  <2>1. m \in Nat
    <3>1. k \in Nat
      BY <1>1
    <3> HIDE DEF k, ports
    <3> QED
      BY <1>6, <3>1
  <2> HIDE DEF m
  <2> QED
    BY <2>1, ListIs
<1>8. /\ DeviceAt(f, k).device.id = cell(k + 1)
      /\ DeviceAt(f, k).end = Reached(f, stop)
  BY DEF DeviceAt
<1>9. stop \in Nat /\ stop >= w + 2
  <2> DEFINE a == Len(ports)
             b == Len(memory)
             c == cell(k + 2)
             e == cell(m)
  <2>1. stop = o + 5 + a + b /\ m = o + 4 + a /\ k + 2 = o + 3
    <3> HIDE DEF o, ports, memory
    <3> QED
      BY <1>1, <1>6, <1>7
  <2>2. /\ a \in Nat /\ c \in Nat
        /\ a = IF o + 3 + c <= w + 1 THEN c ELSE IF o + 3 <= w + 1 THEN w + 1 - (o + 3) ELSE 0
    <3> HIDE DEF k, o, w, cell, ports
    <3> QED
      BY <1>6, <2>1
  <2>3. /\ b \in Nat /\ e \in Nat
        /\ b = IF o + 4 + a + e <= w + 1 THEN e
               ELSE IF o + 4 + a <= w + 1 THEN w + 1 - (o + 4 + a) ELSE 0
    <3> HIDE DEF m, o, w, cell, ports, memory
    <3> QED
      BY <1>7, <2>1
  <2>4. o + 3 <= w => c = p
    BY <1>4, <2>1
  <2>5. a = p /\ o + 4 + p <= w => e = q
    <3>1. o + 4 + p = o + (4 + p)
      <4> HIDE DEF o, p
      <4> QED
        BY <1>1
    <3> HIDE DEF o, p, q, w, ports, m, cell
    <3> QED
      BY <1>4, <2>1, <3>1
  <2> HIDE DEF a, b, c, e, o, p, q, w, stop, m, ports, memory, k
  <2>6. CASE o + 4 + p <= w
    BY <1>1, <1>2, <2>1, <2>2, <2>3, <2>4, <2>5, <2>6
  <2>7. CASE o + 4 + p > w
    BY <1>1, <1>2, <2>1, <2>2, <2>3, <2>4, <2>7
  <2> QED
    BY <1>1, <2>6, <2>7
<1>10. Reached(f, stop) = w + 2
  <2> HIDE DEF stop
  <2> QED
    BY <1>1, <1>9, ReachedIs
<1>11. k + 1 = o + 2
  BY <1>1
<1> HIDE DEF k, stop
<1>12. DeviceAt(f, k).device.id = cell(o + 2) /\ DeviceAt(f, k).end = w + 2
  BY <1>8, <1>10, <1>11
<1> QED
  BY <1>12 DEF k

\* A device after the last one written: the file ends where it would begin.
LEMMA NoneIsRead ==
  ASSUME NEW f, IsIoFile(f), Offset(f, Len(f.written)) <= WholeCells(f)
  PROVE  /\ DeviceAt(f, Offset(f, Len(f.written)) + 1).device.id
              = CellAt(f, Offset(f, Len(f.written)) + 2)
         /\ DeviceAt(f, Offset(f, Len(f.written)) + 1).end = WholeCells(f) + 2
<1> DEFINE w == WholeCells(f)
           k == w + 1
           ports == ListAt(f, k + 2)
           memory == ListAt(f, k + 3 + Len(ports))
           stop == k + 4 + Len(ports) + Len(memory)
<1>1. w \in Nat /\ k \in Nat
  BY FileFacts
<1>2. Offset(f, Len(f.written)) = w
  BY <1>1, WholeCell, EndOffset
<1>3. Len(ports) \in Nat
  <2> HIDE DEF k
  <2>1. k + 2 \in Nat
    BY <1>1
  <2> QED
    BY <2>1, ListIs
<1>4. Len(memory) \in Nat
  <2> HIDE DEF k
  <2>1. k + 3 + Len(ports) \in Nat
    BY <1>1, <1>3
  <2> QED
    BY <2>1, ListIs
<1>5. DeviceAt(f, k).device.id = CellAt(f, k + 1) /\ DeviceAt(f, k).end = Reached(f, stop)
  BY DEF DeviceAt
<1>6. stop \in Nat /\ stop > w + 2
  <2> HIDE DEF ports, memory
  <2> QED
    BY <1>1, <1>3, <1>4
<1>7. Reached(f, stop) = w + 2
  <2> HIDE DEF stop
  <2> QED
    BY <1>1, <1>6, ReachedIs
<1>8. k + 1 = w + 2
  BY <1>1
<1> QED
  BY <1>2, <1>5, <1>7, <1>8

\* From beyond the end of the file every device reads as one of id 0.
LEMMA NothingIsRead ==
  ASSUME NEW f, IsIoFile(f)
  PROVE  /\ DeviceAt(f, WholeCells(f) + 2).device.id = 0
         /\ DeviceAt(f, WholeCells(f) + 2).end = WholeCells(f) + 2
<1> DEFINE w == WholeCells(f)
           k == w + 2
           ports == ListAt(f, k + 2)
           memory == ListAt(f, k + 3 + Len(ports))
           stop == k + 4 + Len(ports) + Len(memory)
<1>1. w \in Nat /\ k \in Nat /\ k + 1 \in Nat /\ k + 1 > w + 1
  BY FileFacts
<1>2. Len(ports) \in Nat
  <2> HIDE DEF k
  <2>1. k + 2 \in Nat
    BY <1>1
  <2> QED
    BY <2>1, ListIs
<1>3. Len(memory) \in Nat
  <2> HIDE DEF k
  <2>1. k + 3 + Len(ports) \in Nat
    BY <1>1, <1>2
  <2> QED
    BY <2>1, ListIs
<1>4. DeviceAt(f, k).device.id = CellAt(f, k + 1) /\ DeviceAt(f, k).end = Reached(f, stop)
  BY DEF DeviceAt
<1>5. CellAt(f, k + 1) = 0
  BY <1>1, WholeCell
<1>6. stop \in Nat /\ stop > w + 2
  <2> HIDE DEF ports, memory
  <2> QED
    BY <1>1, <1>2, <1>3
<1>7. Reached(f, stop) = w + 2
  <2> HIDE DEF stop
  <2> QED
    BY <1>1, <1>6, ReachedIs
<1> QED
  BY <1>4, <1>5, <1>7

-----------------------------------------------------------------------------
(***************************************************************************)
(* The whole devices of a file come first.                                 *)
(***************************************************************************)
LEMMA OffsetsGrow ==
  ASSUME NEW f, IsIoFile(f), NEW m \in Nat, NEW n \in Nat, m <= n, n <= Len(f.written)
  PROVE  /\ Offset(f, m) \in Nat /\ Offset(f, n) \in Nat
         /\ Offset(f, m) <= Offset(f, n)
<1> DEFINE es == Encs(f.written)
<1>1. es \in Seq(Seq(Nat)) /\ Len(es) = Len(f.written) /\ Len(f.written) \in Nat
  BY EncsAre, FileFacts
<1>2. m <= Len(f.written)
  BY <1>1
<1>3. Offset(f, m) = Len(Flat(es, m)) /\ Offset(f, n) = Len(Flat(es, n))
  BY <1>2, OffsetIs
<1>4. n - m \in Nat /\ m + (n - m) = n
  OBVIOUS
<1> HIDE DEF es
<1>5. Flat(es, m) \in Seq(Nat) /\ Flat(es, n) \in Seq(Nat)
  BY <1>1, <1>2, FlatType
<1>6. \A i \in Nat : m + i <= Len(es) => Len(Flat(es, m)) <= Len(Flat(es, m + i))
  BY <1>1, FlattenPrefix
<1>7. Len(Flat(es, m)) <= Len(Flat(es, n))
  BY <1>1, <1>4, <1>6
<1> QED
  BY <1>3, <1>5, <1>7

LEMMA NoOffset ==
  ASSUME NEW f, IsIoFile(f)
  PROVE  Offset(f, 0) = 0
<1>1. 0 <= Len(f.written)
  BY FileFacts
<1>2. Offset(f, 0) = Len(Flat(Encs(f.written), 0))
  BY <1>1, OffsetIs
<1>3. SubSeq(Encs(f.written), 1, 0) = <<>>
  BY EncsAre
<1>4. Flat(Encs(f.written), 0) = <<>>
  BY <1>3, FlattenEmpty DEF Flat
<1> QED
  BY <1>2, <1>4

IntactCount(f) == Cardinality(Intact(f))

LEMMA IntactIs ==
  ASSUME NEW f, IsIoFile(f)
  PROVE  LET c == IntactCount(f)
         IN  /\ c \in Nat /\ c <= Len(f.written)
             /\ Intact(f) = 1..c
             /\ Offset(f, c) <= WholeCells(f)
             /\ \A n \in (c + 1)..Len(f.written) : WholeCells(f) < Offset(f, n)
             /\ \A n \in 1..c : Offset(f, n) <= WholeCells(f)
             /\ DOMAIN f.written = 1..Len(f.written)
<1> DEFINE w == WholeCells(f)
           l == Len(f.written)
           T == {n \in 0..l : Offset(f, n) <= w}
<1>1. w \in Nat /\ l \in Nat /\ DOMAIN f.written = 1..l
  <2>1. f.written \in Seq(Devices)
    BY Zenon DEF IsIoFile
  <2> HIDE DEF Devices
  <2> QED
    BY <2>1, FileFacts
<1>2. 0 \in T
  BY <1>1, NoOffset
<1>3. PICK c \in T : \A n \in T : c >= n
  <2>1. T \in SUBSET Nat /\ T # {} /\ \A n \in T : n <= l
    BY <1>1, <1>2
  <2> HIDE DEF T
  <2> QED
    BY <1>1, <2>1, GreatestExists
<1>4. c \in 0..l /\ Offset(f, c) <= w
  BY <1>3
<1>5. \A n \in 1..c : Offset(f, n) <= w
  <2> SUFFICES ASSUME NEW n \in 1..c PROVE Offset(f, n) <= w
    OBVIOUS
  <2>1. n \in Nat /\ c \in Nat /\ n <= c /\ c <= Len(f.written)
    BY <1>1, <1>4
  <2>2. Offset(f, n) \in Nat /\ Offset(f, c) \in Nat /\ Offset(f, n) <= Offset(f, c)
    BY <2>1, OffsetsGrow
  <2> QED
    BY <1>1, <1>4, <2>2
<1>6. \A n \in (c + 1)..l : w < Offset(f, n)
  <2> SUFFICES ASSUME NEW n \in (c + 1)..l PROVE w < Offset(f, n)
    OBVIOUS
  <2>1. n \in Nat /\ n <= Len(f.written) /\ n \in 0..l /\ n > c
    BY <1>1, <1>4
  <2>2. Offset(f, n) \in Nat
    BY <2>1, OffsetsGrow
  <2>3. n \notin T
    BY <1>3, <1>4, <2>1
  <2> HIDE DEF w
  <2> QED
    BY <1>1, <2>1, <2>2, <2>3
<1>7. Intact(f) = 1..c
  <2>1. Intact(f) = {n \in 1..l : Offset(f, n) <= w}
    BY <1>1 DEF Intact, Offset
  <2>2. \A n \in 1..l : Offset(f, n) \in Nat
    BY <1>1, OffsetsGrow
  <2> HIDE DEF w, l
  <2>3. \A n \in 1..l : Offset(f, n) <= w <=> n \in 1..c
    <3> TAKE n \in 1..l
    <3>1. n \in 1..c \/ n \in (c + 1)..l
      BY <1>1, <1>4
    <3> QED
      BY <1>1, <1>4, <1>5, <1>6, <2>2, <3>1
  <2> QED
    BY <1>1, <1>4, <2>1, <2>3
<1>8. Cardinality(Intact(f)) = c
  BY <1>1, <1>4, <1>7, FS_Interval
<1>9. c \in Nat /\ c <= Len(f.written)
  BY <1>1, <1>4
<1> HIDE DEF T
<1> QED
  BY <1>1, <1>4, <1>5, <1>6, <1>7, <1>8, <1>9 DEF IntactCount

-----------------------------------------------------------------------------
(***************************************************************************)
(* What is in the table once m devices were read: the whole ones among     *)
(* them, the last one of each id, and what the cut ones were taken for.    *)
(***************************************************************************)
ReadIds(f, m) == {f.written[n].id : n \in 1..m \cap Intact(f)}

CutRead(f, m) ==
  (IF m > IntactCount(f) THEN {CellAt(f, Offset(f, IntactCount(f)) + 2)} ELSE {})
    \cup (IF m > IntactCount(f) + 1 THEN {0} ELSE {})

LastOf(f, m, i, n) ==
  /\ n \in 1..m \cap Intact(f) /\ f.written[n].id = i
  /\ \A k \in 1..m \cap Intact(f) : f.written[k].id = i => k <= n

TableIs(f, table, m) ==
  /\ DOMAIN table = ReadIds(f, m) \cup CutRead(f, m)
  /\ \A i \in ReadIds(f, m) \ CutRead(f, m) :
       \E n \in 1..m \cap Intact(f) : LastOf(f, m, i, n) /\ table[i] = f.written[n]

\* Load goes from device to device, then stays at the end.
StandsAt(f, k, m) ==
  k = IF m <= IntactCount(f) THEN Offset(f, m) + 1 ELSE WholeCells(f) + 2

\* The property is that of the state when left is 0.
TableInv ==
  pc = "reading" \/ outcome = "true" =>
    LET m == file.announced - left
    IN  StandsAt(file, at, m) /\ TableIs(file, devices, m)

LEMMA NothingInTable ==
  ASSUME NEW f, IsIoFile(f)
  PROVE  StandsAt(f, 1, 0) /\ TableIs(f, <<>>, 0)
<1>1. IntactCount(f) \in Nat
  BY IntactIs, FileFacts
<1>2. StandsAt(f, 1, 0)
  BY <1>1, NoOffset DEF StandsAt
<1>3. 1..0 \cap Intact(f) = {}
  OBVIOUS
<1>4. ReadIds(f, 0) = {} /\ CutRead(f, 0) = {}
  BY <1>1, <1>3 DEF ReadIds, CutRead
<1>5. DOMAIN <<>> = {}
  OBVIOUS
<1> QED
  BY <1>2, <1>4, <1>5 DEF TableIs

\* One whole device more: the last one of its id.
LEMMA TableGrows ==
  ASSUME NEW f, IsIoFile(f), NEW m \in Nat, m + 1 <= IntactCount(f),
         NEW table, TableIs(f, table, m)
  PROVE  TableIs(f, Assigned(table, f.written[m + 1]), m + 1)
<1> DEFINE d == f.written[m + 1]
           c == IntactCount(f)
           now == Assigned(table, d)
           S == 1..m \cap Intact(f)
           T == 1..(m + 1) \cap Intact(f)
<1>1. c \in Nat /\ Intact(f) = 1..c
  BY IntactIs, FileFacts
<1>2. S = 1..m /\ T = 1..(m + 1) /\ T = S \cup {m + 1}
  <2> HIDE DEF c
  <2> QED
    BY <1>1 DEF c
<1>3. CutRead(f, m) = {} /\ CutRead(f, m + 1) = {}
  <2>1. ~(m > c) /\ ~(m > c + 1) /\ ~(m + 1 > c) /\ ~(m + 1 > c + 1)
    <3> HIDE DEF c
    <3> QED
      BY <1>1 DEF c
  <2> QED
    BY <2>1 DEF CutRead
<1>4. ReadIds(f, m + 1) = ReadIds(f, m) \cup {d.id}
  <2>1. ReadIds(f, m + 1) = {f.written[n].id : n \in T} /\ ReadIds(f, m) = {f.written[n].id : n \in S}
    BY DEF ReadIds
  <2> HIDE DEF S, T
  <2> QED
    BY <1>2, <2>1
<1>5. now = [i \in DOMAIN table \cup {d.id} |-> IF i = d.id THEN d ELSE table[i]]
  BY DEF Assigned
<1>6. DOMAIN table = ReadIds(f, m)
  BY <1>3 DEF TableIs
<1>7. DOMAIN now = ReadIds(f, m + 1)
  <2> HIDE DEF now, d
  <2> QED
    BY <1>4, <1>5, <1>6
<1>8. ASSUME NEW i \in ReadIds(f, m + 1)
      PROVE  \E n \in T : LastOf(f, m + 1, i, n) /\ now[i] = f.written[n]
  <2>1. CASE i = d.id
    <3>1. m + 1 \in T
      BY <1>2
    <3>2. \A k \in T : k <= m + 1
      BY <1>2
    <3>3. LastOf(f, m + 1, i, m + 1)
      BY <2>1, <3>1, <3>2 DEF LastOf
    <3>4. now[i] = d
      <4> HIDE DEF d, now
      <4> QED
        BY <1>5, <2>1
    <3> QED
      BY <3>1, <3>3, <3>4
  <2>2. CASE i # d.id
    <3>1. i \in ReadIds(f, m)
      BY <1>4, <2>2
    <3>2. PICK n \in S : LastOf(f, m, i, n) /\ table[i] = f.written[n]
      BY <1>3, <3>1 DEF TableIs
    <3>3. now[i] = table[i]
      <4> HIDE DEF d, now
      <4> QED
        BY <1>5, <1>6, <2>2, <3>1
    <3>4. n \in T /\ f.written[n].id = i
      BY <1>2, <3>2 DEF LastOf
    <3>5. ASSUME NEW k \in T, f.written[k].id = i PROVE k <= n
      <4>1. k \in S
        BY <1>2, <2>2, <3>5
      <4> QED
        BY <3>2, <3>5, <4>1 DEF LastOf
    <3>6. LastOf(f, m + 1, i, n)
      BY <3>4, <3>5 DEF LastOf
    <3> QED
      BY <3>2, <3>3, <3>4, <3>6
  <2> QED
    BY <2>1, <2>2
<1> HIDE DEF d, now
<1> QED
  BY <1>3, <1>7, <1>8 DEF TableIs, d, now

\* A device cut short or missing takes its id from the whole ones.
LEMMA TableLoses ==
  ASSUME NEW f, IsIoFile(f), NEW m \in Nat, m >= IntactCount(f),
         NEW table, TableIs(f, table, m), NEW d,
         CutRead(f, m + 1) = CutRead(f, m) \cup {d.id}
  PROVE  TableIs(f, Assigned(table, d), m + 1)
<1> DEFINE c == IntactCount(f)
           now == Assigned(table, d)
<1>1. c \in Nat /\ Intact(f) = 1..c
  BY IntactIs, FileFacts
<1>2. 1..(m + 1) \cap Intact(f) = 1..m \cap Intact(f)
  <2> HIDE DEF c
  <2> QED
    BY <1>1 DEF c
<1>3. ReadIds(f, m + 1) = ReadIds(f, m)
  BY <1>2 DEF ReadIds
<1>4. \A i, n : LastOf(f, m + 1, i, n) <=> LastOf(f, m, i, n)
  BY <1>2 DEF LastOf
<1>5. now = [i \in DOMAIN table \cup {d.id} |-> IF i = d.id THEN d ELSE table[i]]
  BY DEF Assigned
<1> HIDE DEF now
<1>6. DOMAIN table = ReadIds(f, m) \cup CutRead(f, m)
  BY DEF TableIs
<1>7. DOMAIN now = ReadIds(f, m + 1) \cup CutRead(f, m + 1)
  BY <1>3, <1>5, <1>6
<1>8. ASSUME NEW i \in ReadIds(f, m + 1) \ CutRead(f, m + 1)
      PROVE  \E n \in 1..(m + 1) \cap Intact(f) :
               LastOf(f, m + 1, i, n) /\ now[i] = f.written[n]
  <2>1. i \in ReadIds(f, m) \ CutRead(f, m) /\ i # d.id
    BY <1>3
  <2>2. PICK n \in 1..m \cap Intact(f) : LastOf(f, m, i, n) /\ table[i] = f.written[n]
    BY <2>1 DEF TableIs
  <2>3. now[i] = table[i]
    BY <1>5, <1>6, <2>1
  <2> QED
    BY <1>2, <1>4, <2>2, <2>3
<1> QED
  BY <1>7, <1>8 DEF TableIs, now

LEMMA DeviceIsRead ==
  ASSUME NEW f, IsIoFile(f), NEW m \in Nat,
         NEW k, StandsAt(f, k, m), NEW table, TableIs(f, table, m)
  PROVE  /\ StandsAt(f, DeviceAt(f, k).end, m + 1)
         /\ TableIs(f, Assigned(table, DeviceAt(f, k).device), m + 1)
<1> DEFINE c == IntactCount(f)
           w == WholeCells(f)
           cut == CellAt(f, Offset(f, c) + 2)
<1>1. /\ c \in Nat /\ c <= Len(f.written) /\ Len(f.written) \in Nat
      /\ \A n \in 1..c : Offset(f, n) <= w
      /\ \A n \in (c + 1)..Len(f.written) : w < Offset(f, n)
      /\ Offset(f, c) <= w
  BY IntactIs, FileFacts
<1>2. CASE m + 1 <= c
  <2>1. k = Offset(f, m) + 1 /\ m + 1 \in 1..c /\ m + 1 <= Len(f.written)
    <3> HIDE DEF c
    <3> QED
      BY <1>1, <1>2 DEF StandsAt, c
  <2>2. Offset(f, m + 1) <= WholeCells(f)
    BY <1>1, <2>1
  <2>3. DeviceAt(f, k).device = f.written[m + 1] /\ DeviceAt(f, k).end = Offset(f, m + 1) + 1
    BY <2>1, <2>2, WholeIsRead
  <2>4. StandsAt(f, DeviceAt(f, k).end, m + 1)
    BY <1>2, <2>3 DEF StandsAt
  <2> QED
    BY <1>2, <2>3, <2>4, TableGrows
<1>3. CASE m = c
  <2>1. k = Offset(f, m) + 1
    <3> HIDE DEF c
    <3> QED
      BY <1>1, <1>3 DEF StandsAt, c
  <2>2. DeviceAt(f, k).device.id = CellAt(f, Offset(f, m) + 2) /\ DeviceAt(f, k).end = w + 2
    <3>1. CASE m + 1 <= Len(f.written)
      <4>1. m + 1 \in (c + 1)..Len(f.written)
        <5> HIDE DEF c
        <5> QED
          BY <1>1, <1>3, <3>1
      <4>2. Offset(f, m) <= WholeCells(f) /\ WholeCells(f) < Offset(f, m + 1)
        BY <1>1, <1>3, <4>1
      <4> QED
        BY <2>1, <3>1, <4>2, CutIsRead
    <3>2. CASE ~(m + 1 <= Len(f.written))
      <4>1. m = Len(f.written)
        <5> HIDE DEF c
        <5> QED
          BY <1>1, <1>3, <3>2
      <4>2. Offset(f, Len(f.written)) <= WholeCells(f)
        BY <1>1, <1>3, <4>1
      <4>3. /\ DeviceAt(f, Offset(f, Len(f.written)) + 1).device.id
                 = CellAt(f, Offset(f, Len(f.written)) + 2)
            /\ DeviceAt(f, Offset(f, Len(f.written)) + 1).end = WholeCells(f) + 2
        BY <4>2, NoneIsRead
      <4> QED
        BY <2>1, <4>1, <4>3
    <3> QED
      BY <3>1, <3>2
  <2>3. DeviceAt(f, k).device.id = cut
    BY <1>3, <2>2
  <2>4. ~(m + 1 <= c) /\ ~(m > c) /\ ~(m > c + 1) /\ m + 1 > c /\ ~(m + 1 > c + 1) /\ m >= c
    <3> HIDE DEF c
    <3> QED
      BY <1>1, <1>3
  <2>5. StandsAt(f, DeviceAt(f, k).end, m + 1)
    BY <2>2, <2>4 DEF StandsAt
  <2>6. CutRead(f, m) = {} /\ CutRead(f, m + 1) = {cut}
    BY <2>4 DEF CutRead
  <2>7. CutRead(f, m + 1) = CutRead(f, m) \cup {DeviceAt(f, k).device.id}
    BY <2>3, <2>6
  <2> QED
    BY <2>4, <2>5, <2>7, TableLoses
<1>4. CASE m > c
  <2>1. ~(m <= c) /\ ~(m + 1 <= c) /\ m + 1 > c /\ m + 1 > c + 1 /\ m >= c
    <3> HIDE DEF c
    <3> QED
      BY <1>1, <1>4
  <2>2. k = w + 2
    BY <2>1 DEF StandsAt
  <2>3. DeviceAt(f, k).device.id = 0 /\ DeviceAt(f, k).end = w + 2
    BY <2>2, NothingIsRead
  <2>4. StandsAt(f, DeviceAt(f, k).end, m + 1)
    BY <2>1, <2>3 DEF StandsAt
  <2>5. /\ CutRead(f, m + 1) = {cut} \cup {0}
        /\ CutRead(f, m) = {cut} \cup (IF m > c + 1 THEN {0} ELSE {})
    BY <1>4, <2>1 DEF CutRead
  <2>6. CutRead(f, m + 1) = CutRead(f, m) \cup {DeviceAt(f, k).device.id}
    <3> HIDE DEF cut, c
    <3> QED
      BY <2>3, <2>5
  <2> QED
    BY <2>1, <2>4, <2>6, TableLoses
<1> QED
  <2> HIDE DEF c
  <2> QED
    BY <1>1, <1>2, <1>3, <1>4

-----------------------------------------------------------------------------
(***************************************************************************)
(* TableHoldsTheFile is about a load that has ended. While one runs it is  *)
(* TableInv that holds, of the devices read so far, with the place at      *)
(* which load stands: after the last of them, or at the end of the file.   *)
(***************************************************************************)
LEMMA TableStep == IInv /\ TableInv /\ [Next]_vars => TableInv'
<1> SUFFICES ASSUME IInv, TableInv, [Next]_vars PROVE TableInv'
  OBVIOUS
<1> HIDE DEF IsIoFile
<1>1. CASE UNCHANGED vars
  BY <1>1 DEF vars, TableInv
<1>2. ASSUME NEW f \in Files, LoadRefused(f) PROVE TableInv'
  <2>1. pc' = "idle" /\ outcome' \in {"threw", "false"}
    BY <1>2 DEF LoadRefused
  <2> QED
    BY <2>1 DEF TableInv
<1>3. ASSUME NEW f \in Files, LoadGood(f) PROVE TableInv'
  <2>1. IsIoFile(f) /\ f.announced \in Nat
    BY FilesAssumption, FileFacts
  <2>2. /\ file' = f /\ devices' = <<>> /\ at' = 1
        /\ file'.announced - left' = 0
    BY <1>3, <2>1 DEF LoadGood, Cleared
  <2>3. StandsAt(f, 1, 0) /\ TableIs(f, <<>>, 0)
    BY <2>1, NothingInTable
  <2> QED
    BY <2>2, <2>3 DEF TableInv
<1>4. CASE ReadDevice
  <2> DEFINE m == file.announced - left
             d == DeviceAt(file, at)
  <2>1. /\ IsIoFile(file) /\ left \in 0..file.announced /\ left > 0
        /\ file.announced \in Nat
    BY <1>4, FileFacts DEF ReadDevice, IInv, TypeOK
  <2>2. m \in Nat /\ m + 1 <= file.announced
    BY <2>1
  <2>3. StandsAt(file, at, m) /\ TableIs(file, devices, m)
    BY <1>4 DEF ReadDevice, TableInv
  <2>4. StandsAt(file, d.end, m + 1) /\ TableIs(file, Assigned(devices, d.device), m + 1)
    <3> HIDE DEF m
    <3> QED
      BY <2>1, <2>2, <2>3, DeviceIsRead
  <2>5. /\ file' = file /\ devices' = Assigned(devices, d.device) /\ at' = d.end
        /\ file'.announced - left' = m + 1
    BY <1>4, <2>1 DEF ReadDevice
  <2> HIDE DEF m, d
  <2> QED
    BY <2>4, <2>5 DEF TableInv
<1>5. CASE LoadReturns
  <2>1. pc = "reading" /\ UNCHANGED <<file, devices, at, left>>
    BY <1>5 DEF LoadReturns
  <2> QED
    BY <2>1 DEF TableInv
<1>6. QED
  BY <1>1, <1>2, <1>3, <1>4, <1>5 DEF Next, LoadStep

LEMMA TableIsRight == IInv /\ TableInv => TableHoldsTheFile
<1> SUFFICES ASSUME IInv, TableInv, pc = "idle", outcome = "true"
             PROVE  LET ids == {file.written[n].id : n \in Loaded(file)}
                    IN  /\ DOMAIN devices = ids \cup CutIds(file)
                        /\ \A i \in ids \ CutIds(file) : devices[i] = Written(file, i)
  BY DEF TableHoldsTheFile
<1> DEFINE c == IntactCount(file)
           m == file.announced
           o == Offset(file, c)
<1>1. /\ IsIoFile(file) /\ m \in Nat /\ c \in Nat /\ Intact(file) = 1..c
      /\ c <= Len(file.written) /\ Cardinality(Intact(file)) = c
  <2>1. IsIoFile(file)
    BY DEF IInv, TypeOK
  <2> QED
    BY <2>1, FileFacts, IntactIs DEF IntactCount
<1>2. m - left = m /\ TableIs(file, devices, m)
  BY <1>1 DEF IInv, TableInv
<1>3. 1..m \cap Intact(file) = Loaded(file)
  BY DEF Loaded
<1>4. CutIds(file) = CutRead(file, m)
  <2>1. CutIds(file) = (IF m > c THEN {CellAt(file, (o + 1) + 1)} ELSE {})
                         \cup (IF m > c + 1 THEN {0} ELSE {})
    BY <1>1 DEF CutIds, Offset
  <2>2. (o + 1) + 1 = o + 2
    BY <1>1, OffsetsGrow
  <2>3. CutRead(file, m) = (IF m > c THEN {CellAt(file, o + 2)} ELSE {})
                             \cup (IF m > c + 1 THEN {0} ELSE {})
    BY DEF CutRead
  <2> HIDE DEF o, c, m
  <2> QED
    BY <2>1, <2>2, <2>3
<1>5. ReadIds(file, m) = {file.written[n].id : n \in Loaded(file)}
  BY <1>3 DEF ReadIds
<1>6. ASSUME NEW i \in ReadIds(file, m) \ CutRead(file, m)
      PROVE  devices[i] = Written(file, i)
  <2>1. PICK n \in Loaded(file) : LastOf(file, m, i, n) /\ devices[i] = file.written[n]
    BY <1>2, <1>3 DEF TableIs
  <2> DEFINE S == {k \in Loaded(file) : file.written[k].id = i}
  <2>2. S \in SUBSET Nat /\ n \in S /\ \A k \in S : k <= n
    BY <1>1, <1>3, <2>1 DEF LastOf
  <2>3. Max(S) = n
    <3> HIDE DEF S
    <3> QED
      BY <2>2, MaxFound
  <2>4. Written(file, i) = file.written[Max(S)]
    BY DEF Written
  <2> QED
    BY <2>1, <2>3, <2>4
<1> QED
  BY <1>2, <1>4, <1>5, <1>6 DEF TableIs

(***************************************************************************)
(* What load leaves in the table, for any files, whole or cut anywhere,    *)
(* loaded one after the other: of the devices of one id the last one, as   *)
(* it was written, and no device lost but to those cut (io_file.cpp:52-83).*)
(***************************************************************************)
THEOREM TableHolds == Spec => []TableHoldsTheFile
<1>1. Init => TableInv
  BY DEF Init, TableInv
<1>2. QED
  BY <1>1, InitInv, InvStep, TableStep, TableIsRight, PTL DEF Spec
=============================================================================
