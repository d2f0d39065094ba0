----------------------------- MODULE SyncEvents ------------------------------
(***************************************************************************)
(* The events of a sync file, read off its records at once instead of one  *)
(* record after the other: what the aggregation of sync_file is checked    *)
(* against. R is the sequence of records.                                  *)
(***************************************************************************)
EXTENDS SyncPoint, Sequences, FiniteSetsExt

\* p continues the run of identical records that q belongs to.
SameRun(R, q, p) == \A j \in q..p : R[j] = R[q]

\* An event starts at every VMEXIT, and at record 1 if its VMEXIT is missing.
IsStart(R, x) == IsVmexit(R[x]) \/ x = 1

\* The starts a reader meets: of identical records it reads the first.
StartsOf(R) == {x \in DOMAIN R : IsStart(R, x) /\ (x = 1 \/ R[x - 1] # R[x])}

\* The last record of the event that starts at x, and its VMENTERs.
Reach(R, x) ==
  Max({e \in x..Len(R) : \A j \in x..e : IsVmexit(R[j]) => SameRun(R, x, j)})

Enters(R, x) == {e \in x..Reach(R, x) : IsVmenter(R[e])}

Complete(R, x) == Enters(R, x) # {}

\* Where the new context is read; the last record of an incomplete event.
EndOf(R, x) == IF Complete(R, x) THEN Min(Enters(R, x)) ELSE Reach(R, x)

Irqs(R, x) == {j \in x..EndOf(R, x) : IsInterrupt(R[j])}

\* The instruction is emulated: by the nature of the exit, or seen from rip.
Emulates(R, x) ==
  \/ ~IsVmexit(R[x])
  \/ /\ Complete(R, x)
     /\ \/ R[x].type \in EmulatedExits
        \/ R[x].type # "HLT" /\ R[EndOf(R, x)].rip # R[x].rip

\* The event that starts at record x.
EventOf(R, x) ==
  LET known == IF IsVmexit(R[x]) THEN R[x] ELSE ZeroPoint
      irq   == IF Irqs(R, x) = {} THEN ZeroPoint ELSE R[Min(Irqs(R, x))]
      enter == IF Complete(R, x) THEN R[EndOf(R, x)] ELSE ZeroPoint
  IN [position |-> x, isValid |-> TRUE, isFirst |-> ~IsVmexit(R[x]),
      startRip |-> known.rip, start |-> ContextOf(known), reason |-> known.type,
      rflags |-> enter.rflags,
      isLast |-> ~Complete(R, x), hasInterrupt |-> Irqs(R, x) # {},
      vector |-> irq.vector, interruptRip |-> irq.rip,
      isEmulation |-> Emulates(R, x), new |-> ContextOf(enter)]

\* An event is well formed: nothing but one interrupt, reported once or twice,
\* between its VMEXIT and its VMENTER, in one state, and a sane whole. Only
\* the last event of a file may lack its VMENTER.
WellFormedEvent(R, x) ==
  LET fresh == {j \in Irqs(R, x) : j = x \/ R[j - 1] # R[j]}
      after == IF Complete(R, x) THEN Irqs(R, x) \cup {EndOf(R, x)} ELSE Irqs(R, x)
  IN /\ Cardinality(fresh) <= 2
     /\ Irqs(R, x) # {} => \A i, j \in after : IsEquivalent(R[i], R[j])
     /\ IF Complete(R, x) THEN IsSane(EventOf(R, x)) ELSE Reach(R, x) = Len(R)

WellFormed(R) == \A x \in StartsOf(R) : WellFormedEvent(R, x)

-----------------------------------------------------------------------------
(* Merging.                                                                *)

\* The start that follows x, 0 at the end of the file.
Following(R, x) == IF Reach(R, x) = Len(R) THEN 0 ELSE Reach(R, x) + 1

\* x changes nothing and the event after it starts in its very state.
Absorbed(R, x) ==
  LET y == Following(R, x)
      e == EventOf(R, x)
  IN /\ x # 1 /\ y # 0
     /\ ~e.hasInterrupt /\ AreValuesEquivalent(e.start, e.new) /\ ~e.isEmulation
     /\ AreValuesEquivalent(e.new, EventOf(R, y).start)
     /\ EventOf(R, y).startRip = e.startRip

\* Read from the start at o, every event before the one at x is absorbed.
Absorbing(R, o, x) ==
  /\ IsStart(R, o)
  /\ \A y \in o..(x - 1) : IsStart(R, y) /\ (y = o \/ y \in StartsOf(R)) => Absorbed(R, y)

\* The event at x with those from o on in it: it has the start context of the
\* first, whose registers are its own and whose TSC and FPU words may not be.
Combined(R, o, x) == [EventOf(R, x) EXCEPT !.start = EventOf(R, o).start]

\* The event current_event gives for a reader about to fetch the one at x: the
\* first one from there that is not absorbed by its successor.
Surviving(R, x) ==
  Min({y \in x..Len(R) : /\ IsStart(R, y) /\ (y = x \/ y \in StartsOf(R))
                         /\ ~Absorbed(R, y)})

\* The events of the file, those absorbed left out, in order.
Kept(R) == {x \in StartsOf(R) : ~Absorbed(R, x)}

\* The first of the events that the one at x absorbs, or x.
Origin(R, x) == Min({o \in StartsOf(R) : o <= x /\ Absorbing(R, o, x)})
==============================================================================
