-------------------------- MODULE HardwareToolsProofs --------------------------
(***************************************************************************)
(* Proofs about the tools for hardware files, for any source.              *)
(***************************************************************************)
EXTENDS HardwareTools, HardwareFileProofs, FiniteSetTheorems

LEMMA TypeStep == TypeOK /\ [Next]_vars => TypeOK'
<1> SUFFICES ASSUME TypeOK, [Next]_vars PROVE TypeOK'
  OBVIOUS
<1>0. IsHardwareFile(file) /\ reader \in Reader
  BY FilesAssumption DEF TypeOK
<1>1. CASE UNCHANGED vars
  BY <1>1 DEF vars, TypeOK
<1>2. CASE LoadSource
  <2>1. LoadOf(file, reader) \in Reader
    BY <1>0, LoadType
  <2>2. QED
    BY <1>2, <2>1 DEF LoadSource, TypeOK
<1>3. CASE OpenDestination
  <2>1. O!Open(writable) \in [isOpen: BOOLEAN, written: Seq(Accesses)]
    BY DEF TypeOK, O!Open
  <2>2. QED
    BY <1>3, <2>1 DEF OpenDestination, TypeOK
<1>4. CASE ReadAccess
  <2>1. NextOf(file, reader) \in Reader
    BY <1>0, NextType
  <2>2. reader' \in Reader
    BY <1>4, <2>1 DEF ReadAccess
  <2>3. Entry(reader'.current, reader'.position) \in Entries
    BY <2>2 DEF Entry, Entries, Reader
  <2>4. QED
    BY <1>4, <2>2, <2>3 DEF ReadAccess, Insert, TypeOK
<1>5. CASE WriteAccess
  <2>1. PICK e \in accesses : out' = O!Write(out, e.access) /\ accesses' = accesses \ {e}
    BY <1>5 DEF WriteAccess
  <2>2. e.access \in Accesses
    BY <2>1 DEF TypeOK, Entries
  <2>3. out' \in [isOpen: BOOLEAN, written: Seq(Accesses)]
    BY <2>1, <2>2 DEF O!Write, TypeOK
  <2>4. QED
    BY <1>5, <2>1, <2>3 DEF WriteAccess, TypeOK
<1>6. CASE Finish
  BY <1>6 DEF Finish, TypeOK
<1>7. QED
  BY <1>1, <1>2, <1>3, <1>4, <1>5, <1>6 DEF Next

LEMMA InitType == Init => TypeOK
<1>1. \A o \in BOOLEAN : NewReader(o) \in Reader
  BY DEF NewReader, Reader, S!Unopened, S!Streams, ZeroAccess, Accesses
<1>2. O!Unopened \in [isOpen: BOOLEAN, written: Seq(Accesses)]
  BY DEF O!Unopened
<1>3. QED
  BY <1>1, <1>2 DEF Init, TypeOK

\* Every variable of reorder_hardware has its type.
THEOREM ReorderTypes == Spec => []TypeOK
BY InitType, TypeStep, PTL DEF Spec

-----------------------------------------------------------------------------
(* What is written is in order, and nothing that is left belongs before it.*)

Ordered ==
  /\ WrittenInOrder
  /\ \A i \in 1..Len(out.written) : \A e \in accesses : out.written[i].tsc <= e.access.tsc
  /\ pc \in {"load", "open", "read"} => out.written = <<>>

LEMMA OrderedStep == TypeOK /\ Ordered /\ [Next]_vars => Ordered'
<1> SUFFICES ASSUME TypeOK, Ordered, [Next]_vars PROVE Ordered'
  OBVIOUS
<1>1. CASE UNCHANGED vars
  BY <1>1 DEF vars, Ordered, WrittenInOrder
<1>2. CASE LoadSource \/ Finish
  BY <1>2 DEF LoadSource, Finish, Ordered, WrittenInOrder
<1>3. CASE OpenDestination
  <2>1. out'.written = <<>>
    BY <1>3 DEF OpenDestination, O!Open
  <2>2. QED
    BY <2>1 DEF Ordered, WrittenInOrder
<1>4. CASE ReadAccess
  <2>1. out'.written = <<>>
    BY <1>4 DEF ReadAccess, Ordered
  <2>2. QED
    BY <2>1 DEF Ordered, WrittenInOrder
<1>5. CASE WriteAccess
  <2> DEFINE w == out.written
  <2>1. PICK e \in accesses : /\ \A d \in accesses \ {e} : Precedes(e, d)
                             /\ out' = O!Write(out, e.access)
                             /\ accesses' = accesses \ {e}
    BY <1>5 DEF WriteAccess
  <2>2. /\ w \in Seq(Accesses) /\ e \in Entries
        /\ e.access \in Accesses /\ e.access.tsc \in Nat
    BY <2>1 DEF TypeOK, Entries, Accesses
  <2>3. \A d \in accesses' : d.access.tsc \in Nat /\ e.access.tsc <= d.access.tsc
    BY <2>1, <2>2 DEF Precedes, TypeOK, Entries, Accesses
  <2>4. pc' = "write"
    BY <1>5 DEF WriteAccess
  <2>5. CASE ~out.isOpen
    BY <2>1, <2>4, <2>5 DEF O!Write, Ordered, WrittenInOrder
  <2>6. CASE out.isOpen
    <3>1. out'.written = Append(w, e.access)
      BY <2>1, <2>6 DEF O!Write, TypeOK
    <3>2. /\ Len(out'.written) = Len(w) + 1
          /\ \A i \in 1..Len(w) : out'.written[i] = w[i]
          /\ out'.written[Len(w) + 1] = e.access
      BY <2>2, <3>1
    <3>3. Len(w) \in Nat /\ \A i \in 1..Len(w) : w[i].tsc <= e.access.tsc
      BY <2>1, <2>2 DEF Ordered
    <3> HIDE DEF w
    <3>4. WrittenInOrder'
      <4> SUFFICES ASSUME NEW i \in 1..(Len(w) + 1), NEW j \in 1..(Len(w) + 1), i < j
                   PROVE  out'.written[i].tsc <= out'.written[j].tsc
        BY <3>2 DEF WrittenInOrder
      <4>1. i \in 1..Len(w) /\ out'.written[i] = w[i]
        BY <3>2, <3>3
      <4>2. CASE j = Len(w) + 1
        BY <3>2, <3>3, <4>1, <4>2
      <4>3. CASE j \in 1..Len(w)
        BY <3>2, <4>1, <4>3 DEF Ordered, WrittenInOrder, w
      <4>4. QED
        BY <3>3, <4>2, <4>3
    <3>5. \A i \in 1..(Len(w) + 1) : \A d \in accesses' :
            out'.written[i].tsc <= d.access.tsc
      <4> SUFFICES ASSUME NEW i \in 1..(Len(w) + 1), NEW d \in accesses'
                   PROVE  out'.written[i].tsc <= d.access.tsc
        OBVIOUS
      <4>1. CASE i = Len(w) + 1
        BY <2>3, <3>2, <4>1
      <4>2. CASE i \in 1..Len(w)
        BY <2>1, <3>2, <4>2 DEF Ordered, w
      <4>3. QED
        BY <3>3, <4>1, <4>2
    <3>6. QED
      BY <2>4, <3>2, <3>4, <3>5 DEF Ordered
  <2>7. QED
    BY <2>5, <2>6
<1>6. QED
  BY <1>1, <1>2, <1>3, <1>4, <1>5 DEF Next

\* Whatever the source, each access is written behind those of a smaller or the
\* same TSC: the assertion of the loop holds.
THEOREM WritesInOrder == Spec => []WrittenInOrder
<1>1. Init => Ordered
  BY DEF Init, Ordered, WrittenInOrder, O!Unopened
<1>2. Ordered => WrittenInOrder
  BY DEF Ordered
<1>3. QED
  BY <1>1, <1>2, OrderedStep, ReorderTypes, PTL DEF Spec

-----------------------------------------------------------------------------
(* Sorting. What has been read is inserted under its number.               *)

CountOf(f) == IF f.kind = "good" THEN ValidCount(f) ELSE 0

EntryOf(f, i) == Entry(Items(f)[i], i)

EntriesOf(f, n) == {EntryOf(f, i) : i \in 1..n}

AllValid(f, n) == n \in 0..Len(Items(f)) /\ \A i \in 1..n : Valid(Items(f)[i])

\* Item j is written before item i, or is it.
Before(f, j, i) ==
  \/ Items(f)[j].tsc < Items(f)[i].tsc
  \/ Items(f)[j].tsc = Items(f)[i].tsc /\ j <= i

\* The items that are written: each behind those that come before it.
Gone(f, n, entries) == {i \in 1..n : EntryOf(f, i) \notin entries}

Sorted(f, n, entries, written) ==
  LET gone == Gone(f, n, entries)
  IN  /\ \A i \in gone : \A j \in 1..n : Before(f, j, i) => j \in gone
      /\ written \in Seq(Accesses) /\ Len(written) = Cardinality(gone)
      /\ \A i \in gone : Rank(f, n, i) \in 1..Len(written)
                         /\ written[Rank(f, n, i)] = Items(f)[i]

SortInv ==
  /\ pc \in {"load", "open"} => accesses = {}
  /\ pc = "open" => HasRead(file, reader, 0)
  /\ pc = "read" =>
       \E n \in Nat : /\ HasRead(file, reader, n) /\ accesses = EntriesOf(file, n)
                      /\ file.kind = "good" => AllValid(file, n)
                      /\ file.kind # "good" => n = 0
  /\ pc \in {"load", "open", "read"} => out.written = <<>>
  /\ pc \in {"read", "write", "done"} => out.isOpen = writable
  /\ pc \in {"write", "done"} =>
       /\ file.kind = "good" => AllValid(file, CountOf(file))
       /\ accesses \subseteq EntriesOf(file, CountOf(file))
       /\ writable => Sorted(file, CountOf(file), accesses, out.written)
  /\ pc = "done" => accesses = {}

LEMMA CountFacts ==
  ASSUME NEW f, IsHardwareFile(f), NEW n, f.kind = "good" => AllValid(f, n), f.kind # "good" => n = 0
  PROVE  /\ n \in 0..Len(Items(f)) /\ n \in Nat /\ Len(Items(f)) \in Nat
         /\ \A i \in 1..n : /\ i \in 1..Len(Items(f)) /\ Items(f)[i] \in Accesses
                            /\ Items(f)[i].tsc \in Nat /\ Valid(Items(f)[i])
<1>1. Items(f) \in Seq(Accesses) /\ Len(Items(f)) \in Nat
  BY ItemFacts
<1>2. n \in 0..Len(Items(f))
  BY <1>1 DEF AllValid
<1>3. ASSUME NEW i \in 1..n
      PROVE  /\ i \in 1..Len(Items(f)) /\ Items(f)[i] \in Accesses
             /\ Items(f)[i].tsc \in Nat /\ Valid(Items(f)[i])
  <2>1. i \in 1..Len(Items(f)) /\ Items(f)[i] \in Accesses
    BY <1>1, <1>2
  <2> QED
    BY <1>3, <2>1 DEF Accesses, AllValid
<1> QED
  BY <1>1, <1>2, <1>3

\* Before the first write all entries are there.
LEMMA NoneGone ==
  ASSUME NEW f, NEW n \in Nat
  PROVE  Sorted(f, n, EntriesOf(f, n), <<>>)
<1>1. Gone(f, n, EntriesOf(f, n)) = {}
  BY DEF Gone, EntriesOf
<1>2. Cardinality({}) = 0
  BY FS_EmptySet
<1> QED
  BY <1>1, <1>2 DEF Sorted

\* The one that is written next comes right behind those written.
LEMMA OneMoreGone ==
  ASSUME NEW f, IsHardwareFile(f), NEW n,
         f.kind = "good" => AllValid(f, n), f.kind # "good" => n = 0,
         NEW entries, entries \subseteq EntriesOf(f, n),
         NEW written, Sorted(f, n, entries, written),
         NEW e \in entries, \A d \in entries \ {e} : Precedes(e, d)
  PROVE  Sorted(f, n, entries \ {e}, Append(written, e.access))
<1>1. PICK i \in 1..n : e = EntryOf(f, i)
  BY DEF EntriesOf
<1> DEFINE gone == Gone(f, n, entries)
           next == Gone(f, n, entries \ {e})
           w == Append(written, e.access)
<1>2. e.access = Items(f)[i] /\ \A j \in 1..n : EntryOf(f, j) = e => j = i
  BY <1>1 DEF EntryOf, Entry
<1>3. next = gone \cup {i} /\ i \notin gone /\ gone \subseteq 1..n
  BY <1>1, <1>2 DEF Gone
<1>4. /\ n \in Nat
      /\ \A j \in 1..n : Items(f)[j] \in Accesses /\ Items(f)[j].tsc \in Nat
  BY CountFacts
<1>5. IsFiniteSet(gone) /\ Cardinality(gone) \in Nat /\ Cardinality(next) = Cardinality(gone) + 1
  <2>1. IsFiniteSet(1..n)
    BY <1>4, FS_Interval
  <2>2. IsFiniteSet(gone)
    BY <1>3, <2>1, FS_Subset
  <2> QED
    BY <1>3, <2>2, FS_AddElement, FS_CardinalityType
<1>6. ASSUME NEW j \in 1..n PROVE Before(f, j, i) <=> j \in next
  <2>1. Before(f, j, i) \/ Before(f, i, j)
    BY <1>4 DEF Before
  <2>2. j \in gone => ~Before(f, i, j)
    BY <1>3 DEF Sorted
  <2>3. ASSUME j \notin gone, j # i PROVE ~Before(f, j, i)
    <3>1. EntryOf(f, j) \in entries \ {e}
      BY <1>2, <2>3 DEF Gone
    <3>2. Precedes(e, EntryOf(f, j))
      BY <3>1
    <3>3. \/ Items(f)[i].tsc < Items(f)[j].tsc
          \/ Items(f)[i].tsc = Items(f)[j].tsc /\ i < j
      BY <1>1, <3>2 DEF Precedes, EntryOf, Entry
    <3> QED
      BY <1>4, <3>3 DEF Before
  <2>4. Before(f, i, i)
    BY DEF Before
  <2> QED
    BY <1>3, <2>1, <2>2, <2>3, <2>4
<1>7. Rank(f, n, i) = Cardinality(next)
  <2>1. Rank(f, n, i) = Cardinality({j \in 1..n : Before(f, j, i)})
    BY DEF Rank, Before
  <2>2. {j \in 1..n : Before(f, j, i)} = next
    BY <1>3, <1>6
  <2> QED
    BY <2>1, <2>2
<1>8. written \in Seq(Accesses) /\ Len(written) = Cardinality(gone)
  BY DEF Sorted
<1>9. /\ w \in Seq(Accesses) /\ Len(w) = Cardinality(gone) + 1
      /\ w[Cardinality(gone) + 1] = Items(f)[i]
      /\ \A j \in 1..Len(written) : w[j] = written[j]
  BY <1>2, <1>4, <1>8
<1> HIDE DEF w
<1>10. ASSUME NEW j \in next, NEW h \in 1..n, Before(f, h, j) PROVE h \in next
  <2>1. CASE j = i
    BY <1>6, <1>10, <2>1
  <2>2. CASE j \in gone
    BY <1>3, <1>10, <2>2 DEF Sorted
  <2> QED
    BY <1>3, <2>1, <2>2
<1>11. ASSUME NEW j \in next
       PROVE  Rank(f, n, j) \in 1..Len(w) /\ w[Rank(f, n, j)] = Items(f)[j]
  <2>1. CASE j = i
    BY <1>5, <1>7, <1>9, <2>1
  <2>2. CASE j \in gone
    <3>1. Rank(f, n, j) \in 1..Len(written) /\ written[Rank(f, n, j)] = Items(f)[j]
      BY <2>2 DEF Sorted
    <3> QED
      BY <1>5, <1>8, <1>9, <3>1
  <2> QED
    BY <1>3, <2>1, <2>2
<1> HIDE DEF gone, next
<1>12. Sorted(f, n, entries \ {e}, w)
  BY <1>5, <1>9, <1>10, <1>11 DEF Sorted, next
<1> QED
  BY <1>12 DEF w

\* Reading one more access inserts it under its number.
LEMMA OneMoreRead ==
  ASSUME NEW f, NEW n \in Nat
  PROVE  EntriesOf(f, n + 1) = EntriesOf(f, n) \cup {EntryOf(f, n + 1)}
<1>1. 1..(n + 1) = (1..n) \cup {n + 1}
  OBVIOUS
<1> QED
  BY <1>1 DEF EntriesOf

LEMMA SortKept == ASSUME TypeOK, SortInv, [Next]_vars PROVE SortInv'
<1> DEFINE c == CountOf(file)
<1>0. IsHardwareFile(file) /\ reader \in Reader /\ file.kind \in {"good", "absent", "short", "rejected"}
  BY FilesAssumption DEF TypeOK, IsHardwareFile, HardwareFiles
<1>1. CASE UNCHANGED vars
  BY <1>1 DEF vars, SortInv
<1>2. CASE LoadSource
  <2>1. HasRead(file, LoadOf(file, reader), 0)
    BY <1>0, LoadHasRead
  <2> QED
    BY <1>2, <2>1 DEF LoadSource, SortInv
<1>3. CASE OpenDestination
  <2>1. /\ pc = "open" /\ pc' = "read" /\ out' = O!Open(writable) /\ accesses = {}
        /\ UNCHANGED <<file, writable, reader, accesses>> /\ HasRead(file, reader, 0)
    BY <1>3 DEF OpenDestination, SortInv
  <2>2. out'.isOpen = writable /\ out'.written = <<>>
    BY <2>1 DEF O!Open
  <2>3. EntriesOf(file, 0) = {} /\ AllValid(file, 0)
    BY <1>0, ItemFacts DEF EntriesOf, AllValid
  <2> QED
    BY <2>1, <2>2, <2>3 DEF SortInv
<1>4. CASE ReadAccess
  <2>1. /\ pc = "read" /\ reader' = NextOf(file, reader)
        /\ IF Valid(reader'.current)
           THEN accesses' = Insert(accesses, reader'.current, reader'.position) /\ pc' = pc
           ELSE pc' = "write" /\ accesses' = accesses
        /\ UNCHANGED <<file, writable, out>>
    BY <1>4 DEF ReadAccess
  <2>2. PICK n \in Nat : /\ HasRead(file, reader, n) /\ accesses = EntriesOf(file, n)
                         /\ file.kind = "good" => AllValid(file, n)
                         /\ file.kind # "good" => n = 0
    BY <2>1 DEF SortInv
  <2>3. out.written = <<>> /\ out.isOpen = writable
    BY <2>1 DEF SortInv
  <2>4. CASE Valid(reader'.current)
    <3>1. /\ file.kind = "good" /\ n + 1 \in 1..Len(Items(file))
          /\ reader'.current = Items(file)[n + 1] /\ reader'.position = n + 1
          /\ HasRead(file, reader', n + 1)
      BY <1>0, <2>1, <2>2, <2>4, NextReads
    <3>2. AllValid(file, n + 1)
      BY <2>2, <2>4, <3>1 DEF AllValid
    <3>3. accesses' = EntriesOf(file, n + 1)
      BY <2>1, <2>2, <2>4, <3>1, OneMoreRead DEF Insert, EntryOf
    <3> QED
      BY <2>1, <2>3, <2>4, <3>1, <3>2, <3>3 DEF SortInv
  <2>5. CASE ~Valid(reader'.current)
    <3>1. c = n
      <4>1. CASE file.kind = "good"
        <5>1. n < Len(Items(file)) => ~Valid(Items(file)[n + 1])
          BY <1>0, <2>1, <2>2, <2>5, <4>1, NextReads
        <5> QED
          BY <1>0, <2>2, <4>1, <5>1, ValidCountIs DEF AllValid, CountOf
      <4>2. CASE file.kind # "good"
        BY <2>2, <4>2 DEF CountOf
      <4> QED
        BY <4>1, <4>2
    <3>2. Sorted(file, n, accesses, out.written)
      BY <2>2, <2>3, NoneGone
    <3> HIDE DEF c
    <3>3. /\ file.kind = "good" => AllValid(file, c)
          /\ accesses \subseteq EntriesOf(file, c)
          /\ Sorted(file, c, accesses, out.written)
      BY <2>2, <3>1, <3>2
    <3> QED
      BY <2>1, <2>3, <2>5, <3>3 DEF SortInv, c
  <2> QED
    BY <2>4, <2>5
<1>5. CASE WriteAccess
  <2>1. PICK e \in accesses : /\ \A d \in accesses \ {e} : Precedes(e, d)
                              /\ out' = O!Write(out, e.access)
                              /\ accesses' = accesses \ {e}
    BY <1>5 DEF WriteAccess
  <2>2. pc = "write" /\ UNCHANGED <<file, writable, reader, pc>>
    BY <1>5 DEF WriteAccess
  <2>3. /\ file.kind = "good" => AllValid(file, c)
        /\ file.kind # "good" => c = 0
        /\ accesses \subseteq EntriesOf(file, c) /\ out.isOpen = writable
        /\ writable => Sorted(file, c, accesses, out.written)
    BY <2>2 DEF SortInv, CountOf
  <2>4. out'.isOpen = writable
    BY <2>1, <2>3 DEF O!Write, TypeOK
  <2>5. ASSUME writable PROVE Sorted(file, c, accesses', out'.written)
    <3>1. out'.written = Append(out.written, e.access)
      BY <2>1, <2>3, <2>5 DEF O!Write, TypeOK
    <3> HIDE DEF c
    <3>2. Sorted(file, c, accesses \ {e}, Append(out.written, e.access))
      BY <1>0, <2>1, <2>3, <2>5, OneMoreGone
    <3> QED
      BY <2>1, <3>1, <3>2
  <2>6. accesses' \subseteq EntriesOf(file, c)
    BY <2>1, <2>3
  <2> QED
    BY <2>2, <2>3, <2>4, <2>5, <2>6 DEF SortInv
<1>6. CASE Finish
  BY <1>6 DEF Finish, SortInv
<1> QED
  BY <1>1, <1>2, <1>3, <1>4, <1>5, <1>6 DEF Next

LEMMA SortInvariant == Spec => []SortInv
<1>1. Init => SortInv
  BY DEF Init, SortInv, O!Unopened
<1>2. TypeOK /\ SortInv /\ [Next]_vars => SortInv'
  BY SortKept
<1> QED
  BY <1>1, <1>2, ReorderTypes, PTL DEF Spec

\* In the end all are written.
LEMMA AllGone ==
  ASSUME TypeOK, SortInv, pc = "done", writable
  PROVE  /\ out.isOpen /\ out.written \in Seq(Accesses) /\ Len(out.written) = CountOf(file)
         /\ \A i \in 1..CountOf(file) :
              /\ Rank(file, CountOf(file), i) \in 1..CountOf(file)
              /\ out.written[Rank(file, CountOf(file), i)] = Items(file)[i]
<1> DEFINE c == CountOf(file)
<1>1. IsHardwareFile(file)
  BY FilesAssumption DEF TypeOK
<1>2. /\ Sorted(file, c, {}, out.written) /\ out.isOpen
      /\ file.kind = "good" => AllValid(file, c)
      /\ file.kind # "good" => c = 0
  BY DEF SortInv, CountOf
<1> HIDE DEF c
<1>3. c \in Nat
  BY <1>1, <1>2, CountFacts
<1>4. Gone(file, c, {}) = 1..c
  BY DEF Gone
<1>5. Cardinality(1..c) = c
  BY <1>3, FS_Interval
<1>6. /\ out.written \in Seq(Accesses) /\ Len(out.written) = c
      /\ \A i \in 1..c : Rank(file, c, i) \in 1..c /\ out.written[Rank(file, c, i)] = Items(file)[i]
  BY <1>2, <1>4, <1>5 DEF Sorted
<1> QED
  BY <1>2, <1>6 DEF c

\* Whatever the source and however the multimap is filled: the destination holds
\* the accesses that come before the first of TSC 0, each once, in the order of
\* their TSC, those of one TSC as they were recorded.
THEOREM ReorderSorts == Spec => []SortsStably
<1>1. TypeOK /\ SortInv => SortsStably
  <2> SUFFICES ASSUME TypeOK, SortInv, pc = "done", writable
               PROVE  /\ Len(out.written) = CountOf(file)
                      /\ \A i \in 1..CountOf(file) :
                           out.written[Rank(file, CountOf(file), i)] = Items(file)[i]
    BY DEF SortsStably, CountOf
  <2> QED
    BY AllGone
<1> QED
  BY <1>1, SortInvariant, ReorderTypes, PTL

-----------------------------------------------------------------------------
(* dump_hardware, on the source or on what was written. It reads with the  *)
(* same calls.                                                             *)

LEMMA SameCalls ==
  ASSUME NEW f, NEW R
  PROVE  D!NextOf(f, R) = NextOf(f, R) /\ D!LoadOf(f, R) = LoadOf(f, R)
<1>1. /\ D!HeaderSize = HeaderSize /\ D!ZeroAccess = ZeroAccess /\ D!Garbled = Garbled
      /\ D!AccessCount(f) = AccessCount(f)
  BY DEF D!HeaderSize, HeaderSize, D!ZeroAccess, ZeroAccess, D!Garbled, Garbled,
     D!AccessCount, AccessCount
<1>2. \A i : D!StartOf(f, i) = StartOf(f, i)
  BY <1>1 DEF D!StartOf, StartOf
<1>3. D!EndOf(f) = EndOf(f) /\ D!FileSize(f) = FileSize(f)
  BY <1>1, <1>2 DEF D!EndOf, EndOf, D!FileSize, FileSize
<1>4. \A at : D!RecordAt(f, at) = RecordAt(f, at)
  BY <1>1, <1>2 DEF D!RecordAt, RecordAt
<1>5. /\ \A s : D!S!Pos(s) = S!Pos(s)
      /\ \A s, n, size : D!S!Read(s, n, size) = S!Read(s, n, size)
      /\ \A s : D!S!Close(s) = S!Close(s)
      /\ \A b : D!S!Load(b) = S!Load(b)
  BY DEF D!S!Pos, S!Pos, D!S!FallsShort, S!FallsShort, D!S!Read, S!Read, D!S!Close, S!Close,
     D!S!Load, S!Load
<1>6. ASSUME NEW s PROVE D!AccessRead(f, s) = AccessRead(f, s)
  BY <1>1, <1>3, <1>4, D!RecordAt(f, s.at) = RecordAt(f, s.at) DEF D!AccessRead, AccessRead
<1>7. \A s : D!AfterAccess(f, s) = AfterAccess(f, s)
  BY <1>3, <1>4, <1>5 DEF D!AfterAccess, AfterAccess
<1>8. D!NextOf(f, R) = NextOf(f, R)
  BY <1>5, <1>6, <1>7 DEF D!NextOf, NextOf
<1>9. D!LoadOf(f, R) = LoadOf(f, R)
  BY <1>1, <1>3, <1>5 DEF D!LoadOf, LoadOf
<1> QED
  BY <1>8, <1>9

\* Only valid accesses are inserted and written; a source that is rejected
\* ends the program before the destination is opened.
OnlyValid ==
  /\ \A e \in accesses : Valid(e.access)
  /\ \A i \in 1..Len(out.written) : Valid(out.written[i])
  /\ pc \in {"load", "open", "abort"} => ~out.isOpen
  /\ pc = "abort" => file.kind = "rejected"

LEMMA OnlyValidKept == ASSUME TypeOK, OnlyValid, [Next]_vars PROVE OnlyValid'
<1>1. CASE UNCHANGED vars
  BY <1>1 DEF vars, OnlyValid
<1>2. CASE LoadSource \/ Finish
  BY <1>2 DEF LoadSource, Finish, OnlyValid
<1>3. CASE OpenDestination
  <2>1. out'.written = <<>>
    BY <1>3 DEF OpenDestination, O!Open
  <2> QED
    BY <1>3, <2>1 DEF OpenDestination, OnlyValid
<1>4. CASE ReadAccess
  BY <1>4 DEF ReadAccess, Insert, Entry, OnlyValid
<1>5. CASE WriteAccess
  <2>1. PICK e \in accesses : out' = O!Write(out, e.access) /\ accesses' = accesses \ {e}
    BY <1>5 DEF WriteAccess
  <2>2. pc = "write" /\ pc' = "write" /\ file' = file /\ Valid(e.access)
    BY <1>5, <2>1 DEF WriteAccess, OnlyValid
  <2>3. e.access \in Accesses /\ out.written \in Seq(Accesses)
    BY <2>1 DEF TypeOK, Entries
  <2>4. out'.written \in {out.written, Append(out.written, e.access)}
    BY <2>1 DEF O!Write, TypeOK
  <2>5. \A i \in 1..Len(out'.written) : Valid(out'.written[i])
    <3>1. CASE out'.written = out.written
      BY <3>1 DEF OnlyValid
    <3>2. CASE out'.written = Append(out.written, e.access)
      <4> SUFFICES ASSUME NEW i \in 1..Len(out'.written) PROVE Valid(out'.written[i])
        OBVIOUS
      <4>1. CASE i \in 1..Len(out.written)
        BY <2>3, <3>2, <4>1 DEF OnlyValid
      <4>2. CASE i = Len(out.written) + 1
        BY <2>2, <2>3, <3>2, <4>2
      <4> QED
        BY <2>3, <3>2, <4>1, <4>2
    <3> QED
      BY <2>4, <3>1, <3>2
  <2> QED
    BY <2>1, <2>2, <2>5 DEF OnlyValid
<1> QED
  BY <1>1, <1>2, <1>3, <1>4, <1>5 DEF Next

LEMMA OnlyValidInvariant == Spec => []OnlyValid
<1>1. Init => OnlyValid
  BY DEF Init, OnlyValid, O!Unopened
<1>2. TypeOK /\ OnlyValid /\ [Next]_vars => OnlyValid'
  BY OnlyValidKept
<1> QED
  BY <1>1, <1>2, ReorderTypes, PTL DEF Spec

\* What was written is a hardware file, and all its accesses are valid.
LEMMA DestinationFacts ==
  ASSUME TypeOK, OnlyValid
  PROVE  /\ IsHardwareFile(Destination)
         /\ out.isOpen => /\ Destination.kind = "good" /\ Items(Destination) = out.written
                          /\ CountOf(Destination) = Len(out.written)
         /\ ~out.isOpen => CountOf(Destination) = 0
<1> DEFINE d == Destination
           w == out.written
<1>1. w \in Seq(Accesses) /\ Len(w) \in Nat
  BY DEF TypeOK
<1>2. CASE out.isOpen
  <2>1. d = [kind |-> "good", recs |-> w, ends |-> [i \in 1..Len(w) |-> HeaderSize + i],
             tail |-> <<>>]
    BY <1>2 DEF Destination
  <2>2. [i \in 1..Len(w) |-> HeaderSize + i] \in Seq(Nat)
        /\ Len([i \in 1..Len(w) |-> HeaderSize + i]) = Len(w)
    BY <1>1 DEF HeaderSize
  <2>3. d \in HardwareFiles /\ Len(d.ends) = Len(w) /\ AccessCount(d) = Len(w)
        /\ d.kind = "good" /\ d.recs = w /\ d.tail = <<>>
    BY <1>1, <2>1, <2>2 DEF HardwareFiles, AccessCount
  <2>4. \A i \in 1..Len(w) : d.ends[i] = HeaderSize + i
    BY <2>1
  <2> HIDE DEF d
  <2>5. ASSUME NEW i \in 1..(Len(w) + 1) PROVE StartOf(d, i) = i
    <3>1. CASE i = 1
      BY <3>1 DEF StartOf, HeaderSize
    <3>2. CASE i # 1
      <4>1. i - 1 \in 1..Len(w) /\ HeaderSize + (i - 1) = i
        BY <1>1, <3>2 DEF HeaderSize
      <4> QED
        BY <2>4, <3>2, <4>1 DEF StartOf
    <3> QED
      BY <3>1, <3>2
  <2>6. IsHardwareFile(d)
    <3>1. Len(d.tail) <= 1
      BY <2>3
    <3>2. \A i, j \in 1..(Len(w) + 1) : i < j => StartOf(d, i) < StartOf(d, j)
      BY <2>5
    <3> QED
      BY <2>3, <3>1, <3>2 DEF IsHardwareFile
  <2>7. Items(d) = w
    BY <2>3 DEF Items
  <2>8. ValidCount(d) = Len(w)
    <3>1. Len(w) \in 0..Len(Items(d)) /\ ~(Len(w) < Len(Items(d)))
      BY <1>1, <2>7
    <3>2. \A i \in 1..Len(w) : Valid(Items(d)[i])
      BY <2>7 DEF OnlyValid
    <3> QED
      BY <2>6, <3>1, <3>2, ValidCountIs
  <2>9. CountOf(d) = Len(w)
    BY <2>3, <2>8 DEF CountOf
  <2> QED
    BY <1>2, <2>3, <2>6, <2>7, <2>9 DEF d
<1>3. CASE ~out.isOpen
  <2>1. d = Absent
    BY <1>3 DEF Destination
  <2>2. Absent \in HardwareFiles /\ AccessCount(Absent) = 0
        /\ Len(Absent.ends) = 0 /\ Len(Absent.tail) <= 1
    BY DEF Absent, HardwareFiles, AccessCount
  <2>3. \A i, j \in 1..(AccessCount(Absent) + 1) : ~(i < j)
    BY <2>2
  <2>4. IsHardwareFile(Absent)
    BY <2>2, <2>3 DEF IsHardwareFile
  <2>5. CountOf(Absent) = 0
    BY DEF CountOf, Absent
  <2> QED
    BY <1>3, <2>1, <2>4, <2>5
<1> QED
  BY <1>2, <1>3

-----------------------------------------------------------------------------
(* What dump_hardware without a number has printed: the first n items.     *)

Shown(f, n, list) ==
  /\ list \in Seq([position: Nat, access: Accesses]) /\ Len(list) = n
  /\ \A i \in 1..n : list[i] = [position |-> i, access |-> Items(f)[i]]

DumpInv ==
  /\ dumpPc = "wait" => printed = <<>>
  /\ dumpPc # "wait" => /\ pc \in {"done", "abort"}
                        /\ dumped \in {file, Destination} /\ dumper \in Reader
  /\ given = "none" =>
       /\ dumpPc = "load" => printed = <<>>
       /\ dumpPc = "all" =>
            \E n \in Nat : /\ HasRead(dumped, dumper, n) /\ Shown(dumped, n, printed)
                           /\ dumped.kind = "good" => AllValid(dumped, n)
                           /\ dumped.kind # "good" => n = 0
       /\ dumpPc \notin {"skip", "one"}
       /\ dumpPc = "done" => Shown(dumped, CountOf(dumped), printed)

LEMMA OneMoreShown ==
  ASSUME NEW f, NEW n \in Nat, NEW list, Shown(f, n, list), NEW access \in Accesses,
         access = Items(f)[n + 1]
  PROVE  Shown(f, n + 1, Append(list, [position |-> n + 1, access |-> access]))
<1> DEFINE item == [position |-> n + 1, access |-> access]
           L == Append(list, item)
<1>1. item \in [position: Nat, access: Accesses]
  OBVIOUS
<1>2. list \in Seq([position: Nat, access: Accesses]) /\ Len(list) = n
  BY DEF Shown
<1> HIDE DEF item
<1>3. /\ L \in Seq([position: Nat, access: Accesses]) /\ Len(L) = n + 1
      /\ L[n + 1] = item /\ \A i \in 1..n : L[i] = list[i]
  BY <1>1, <1>2
<1> HIDE DEF L
<1>4. ASSUME NEW i \in 1..(n + 1) PROVE L[i] = [position |-> i, access |-> Items(f)[i]]
  <2>1. CASE i = n + 1
    BY <1>3, <2>1 DEF item
  <2>2. CASE i \in 1..n
    BY <1>3, <2>2 DEF Shown
  <2> QED
    BY <2>1, <2>2
<1> QED
  BY <1>3, <1>4 DEF Shown, L, item

LEMMA DumpedIsFile ==
  ASSUME TypeOK, OnlyValid, dumped \in {file, Destination}
  PROVE  IsHardwareFile(dumped)
BY DestinationFacts, FilesAssumption DEF TypeOK

LEMMA DumpKept ==
  ASSUME TypeOK, OnlyValid, DumpInv, [ToolsNext]_<<vars, dumpVars>>
  PROVE  DumpInv'
<1>1. CASE UNCHANGED <<vars, dumpVars>>
  BY <1>1 DEF vars, dumpVars, DumpInv, Destination
<1>2. CASE Reorder
  <2>1. dumpPc = "wait" /\ dumpPc' = "wait" /\ printed' = printed /\ given' = given
    BY <1>2 DEF Reorder, Next, LoadSource, OpenDestination, ReadAccess, WriteAccess, Finish,
       dumpVars, DumpInv
  <2> QED
    BY <2>1 DEF DumpInv
<1>3. CASE StartDump
  <2>1. /\ dumpPc = "wait" /\ dumpPc' = "load" /\ pc \in {"done", "abort"}
        /\ dumped' \in {file, Destination} /\ dumper' \in {NewReader(o) : o \in BOOLEAN}
        /\ printed' = printed /\ UNCHANGED <<pc, file, out>>
    BY <1>3 DEF StartDump, vars
  <2>2. dumper' \in Reader
    <3>1. \A o \in BOOLEAN : NewReader(o) \in Reader
      BY DEF NewReader, Reader, S!Unopened, S!Streams, ZeroAccess, Accesses
    <3> QED
      BY <2>1, <3>1
  <2>3. Destination' = Destination
    BY <2>1 DEF Destination
  <2> QED
    BY <2>1, <2>2, <2>3 DEF DumpInv
<1>4. ASSUME Dump PROVE DumpInv'
  <2>1. /\ D!LoadFile \/ D!PrintAll \/ D!Skip \/ D!PrintOne
        /\ UNCHANGED <<file, writable, reader, out, accesses, pc>>
    BY <1>4 DEF Dump, D!Next, vars
  <2>2. /\ dumpPc \in {"load", "all", "skip", "one"} /\ dumpPc' # "wait"
        /\ UNCHANGED <<dumped, given>> /\ Destination' = Destination
        /\ dumper' \in {LoadOf(dumped, dumper), NextOf(dumped, dumper)}
    BY <2>1, SameCalls DEF D!LoadFile, D!PrintAll, D!Skip, D!PrintOne, Destination
  <2>3. /\ pc \in {"done", "abort"} /\ dumped \in {file, Destination} /\ dumper \in Reader
        /\ IsHardwareFile(dumped)
    BY <2>2, DumpedIsFile DEF DumpInv
  <2>4. dumper' \in Reader
    BY <2>2, <2>3, LoadType, NextType
  <2>5. ASSUME given = "none"
        PROVE  /\ dumpPc' # "load"
               /\ dumpPc' = "all" =>
                    \E n \in Nat : /\ HasRead(dumped, dumper', n) /\ Shown(dumped, n, printed')
                                   /\ dumped.kind = "good" => AllValid(dumped, n)
                                   /\ dumped.kind # "good" => n = 0
               /\ dumpPc' \notin {"skip", "one"}
               /\ dumpPc' = "done" => Shown(dumped, CountOf(dumped), printed')
    <3>1. CASE D!LoadFile
      <4>1. /\ dumper' = LoadOf(dumped, dumper) /\ printed' = printed /\ printed = <<>>
            /\ dumpPc' \in {"abort", "all"}
        BY <2>5, <3>1, SameCalls DEF D!LoadFile, DumpInv
      <4>2. HasRead(dumped, dumper', 0)
        BY <2>3, <4>1, LoadHasRead
      <4>3. Shown(dumped, 0, printed') /\ AllValid(dumped, 0)
        BY <2>3, <4>1, ItemFacts DEF Shown, AllValid
      <4> QED
        BY <4>1, <4>2, <4>3
    <3>2. CASE D!PrintAll
      <4>1. /\ dumper' = NextOf(dumped, dumper) /\ dumpPc = "all"
            /\ IF Valid(dumper'.current)
               THEN printed' = Append(printed, [position |-> dumper'.position,
                                                access |-> dumper'.current])
                    /\ dumpPc' = "all"
               ELSE dumpPc' = "done" /\ printed' = printed
        BY <3>2, SameCalls DEF D!PrintAll, D!Show, D!Valid, Valid
      <4>2. PICK n \in Nat : /\ HasRead(dumped, dumper, n) /\ Shown(dumped, n, printed)
                             /\ dumped.kind = "good" => AllValid(dumped, n)
                             /\ dumped.kind # "good" => n = 0
        BY <2>5, <4>1 DEF DumpInv
      <4>3. CASE Valid(dumper'.current)
        <5>1. /\ dumped.kind = "good" /\ n + 1 \in 1..Len(Items(dumped))
              /\ dumper'.current = Items(dumped)[n + 1] /\ dumper'.position = n + 1
              /\ HasRead(dumped, dumper', n + 1)
          BY <2>3, <4>1, <4>2, <4>3, NextReads
        <5>2. AllValid(dumped, n + 1)
          BY <4>2, <4>3, <5>1 DEF AllValid
        <5>3. dumper'.current \in Accesses
          BY <2>4 DEF Reader
        <5>4. Shown(dumped, n + 1, printed')
          BY <4>1, <4>2, <4>3, <5>1, <5>3, OneMoreShown
        <5> QED
          BY <4>1, <4>3, <5>1, <5>2, <5>4
      <4>4. CASE ~Valid(dumper'.current)
        <5>1. CASE dumped.kind = "good"
          <6>1. n < Len(Items(dumped)) => ~Valid(Items(dumped)[n + 1])
            BY <2>3, <4>1, <4>2, <4>4, <5>1, NextReads
          <6>2. CountOf(dumped) = n
            BY <2>3, <4>2, <5>1, <6>1, ValidCountIs DEF AllValid, CountOf
          <6> QED
            BY <4>1, <4>2, <4>4, <6>2
        <5>2. CASE dumped.kind # "good"
          BY <4>1, <4>2, <4>4, <5>2 DEF CountOf
        <5> QED
          BY <5>1, <5>2
      <4> QED
        BY <4>3, <4>4
    <3>3. ~(D!Skip \/ D!PrintOne)
      BY <2>5 DEF D!Skip, D!PrintOne, DumpInv
    <3> QED
      BY <2>1, <3>1, <3>2, <3>3
  <2> QED
    BY <2>1, <2>2, <2>3, <2>4, <2>5 DEF DumpInv
<1> QED
  BY <1>1, <1>2, <1>3, <1>4 DEF ToolsNext

\* While the tools run, reorder_hardware does what it does alone.
LEMMA ToolsReorder == ToolsSpec => Spec
<1>1. ToolsInit => Init
  BY DEF ToolsInit
<1>2. [ToolsNext]_<<vars, dumpVars>> => [Next]_vars
  BY DEF ToolsNext, Reorder, StartDump, Dump
<1> QED
  BY <1>1, <1>2, PTL DEF ToolsSpec, Spec

LEMMA DumpShows ==
  ASSUME TypeOK, SortInv, OnlyValid, DumpInv
  PROVE  DumpShowsTheSource
<1> DEFINE c == CountOf(file)
           Place(i) == Rank(file, c, i)
<1> SUFFICES ASSUME dumpPc = "done", given = "none"
             PROVE  /\ dumped = file =>
                         /\ Len(printed) = c
                         /\ \A i \in 1..c : printed[i] = [position |-> i, access |-> Items(file)[i]]
                    /\ dumped = Destination /\ writable =>
                         /\ Len(printed) = c
                         /\ \A i \in 1..c : printed[Place(i)] =
                              [position |-> Place(i), access |-> Items(file)[i]]
  BY DEF DumpShowsTheSource, CountOf
<1>1. Shown(dumped, CountOf(dumped), printed) /\ pc \in {"done", "abort"}
  BY DEF DumpInv
<1>2. ASSUME dumped = Destination, writable
      PROVE  /\ Len(printed) = c
             /\ \A i \in 1..c : printed[Place(i)] =
                  [position |-> Place(i), access |-> Items(file)[i]]
  <2>1. CASE pc = "abort"
    <3>1. c = 0 /\ CountOf(dumped) = 0
      BY <1>2, <2>1, DestinationFacts DEF OnlyValid, CountOf
    <3> HIDE DEF c
    <3> QED
      BY <1>1, <3>1 DEF Shown
  <2>2. CASE pc = "done"
    <3>1. /\ out.isOpen /\ Len(out.written) = c
          /\ \A i \in 1..c : Place(i) \in 1..c /\ out.written[Place(i)] = Items(file)[i]
      BY <1>2, <2>2, AllGone
    <3>2. Items(dumped) = out.written /\ CountOf(dumped) = c
      BY <1>2, <3>1, DestinationFacts
    <3>3. /\ Len(printed) = c
          /\ \A i \in 1..c : printed[i] = [position |-> i, access |-> out.written[i]]
      BY <1>1, <3>2 DEF Shown
    <3> HIDE DEF c, Place
    <3> QED
      BY <3>1, <3>3
  <2> QED
    BY <1>1, <2>1, <2>2
<1>3. ASSUME dumped = file
      PROVE  /\ Len(printed) = c
             /\ \A i \in 1..c : printed[i] = [position |-> i, access |-> Items(file)[i]]
  BY <1>1, <1>3 DEF Shown
<1> HIDE DEF c, Place
<1> QED
  BY <1>2, <1>3

\* The two tools together: dump_hardware prints the source access by access, and
\* what reorder_hardware made of it in the order of the TSCs, whatever the source
\* holds and even when it ends within a record.
THEOREM ToolsShowTheSource == ToolsSpec => []DumpShowsTheSource
<1>1. ToolsInit => DumpInv
  BY DEF ToolsInit, DumpInv
<1>2. TypeOK /\ OnlyValid /\ DumpInv /\ [ToolsNext]_<<vars, dumpVars>> => DumpInv'
  BY DumpKept
<1>3. TypeOK /\ SortInv /\ OnlyValid /\ DumpInv => DumpShowsTheSource
  BY DumpShows
<1> QED
  BY <1>1, <1>2, <1>3, ToolsReorder, ReorderTypes, SortInvariant, OnlyValidInvariant, PTL
     DEF ToolsSpec
=============================================================================
