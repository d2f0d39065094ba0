----------------------------- MODULE MCScenarios -----------------------------
(***************************************************************************)
(* Small scenarios for the readers of sync files. A scenario is a series   *)
(* of groups: a VMEXIT with what follows it up to the next one.            *)
(***************************************************************************)
EXTENDS SyncPoint, SequencesExt

Pt(type, regs, rip) ==
  [type |-> type, regs |-> regs, cr2 |-> 0, rip |-> rip, rflags |-> 0,
   tsc |-> IF type = "VMENTER" THEN 2 ELSE 1, vector |-> 0]

Flags(p) == [p EXCEPT !.rflags = 1]

Irq(vector, regs, rip) == [Pt("INTERRUPT", regs, rip) EXCEPT !.vector = vector]

\* The longest file ends at offset 30; offsets from 36 on are refused.
MCOffsetLimit == 36
MCRecordQuotient == 40
MCWord == 2 * MCRecordQuotient
MCGarbled == [Pt("OTHER", 9, 9) EXCEPT !.tsc = 9]

\* The magic number reads as a nonzero TSC, the rest of the header as zeros.
MCHeader == <<[ZeroPoint EXCEPT !.type = "OTHER", !.tsc = 7], ZeroPoint, ZeroPoint>>

Good(recs) == [kind |-> "good", version |-> 3, recs |-> recs, tail |-> <<>>]

-----------------------------------------------------------------------------
(* Groups.                                                                 *)

\* Quiet events have a TSC of their own: the start of the one that absorbs them.
Quiet(r, a)     == <<[Pt("OTHER", r, a) EXCEPT !.tsc = 3], Pt("VMENTER", r, a)>>
Emulated(r, a)  == <<Pt("IO_INSTR", r, a), Pt("VMENTER", r + 1, a + 1)>>
EmulatedSame    == <<Pt("IO_INSTR", 1, 1), Pt("VMENTER", 1, 1)>>
Halted          == <<Pt("HLT", 1, 1), Flags(Pt("VMENTER", 1, 2))>>
Stepped         == <<Pt("XCPT_OR_NMI", 1, 1), Pt("VMENTER", 2, 2)>>
IrqNow          == <<Pt("OTHER", 1, 1), Irq(48, 1, 1), Pt("VMENTER", 1, 1)>>
IrqTwice        == <<Pt("OTHER", 1, 1), Irq(48, 1, 1), Irq(49, 1, 1), Pt("VMENTER", 1, 1)>>
IrqNext         == <<Pt("IO_INSTR", 1, 1), Irq(48, 2, 2), Pt("VMENTER", 2, 2)>>
DoubledEnter    == <<Pt("OTHER", 1, 1), Pt("VMENTER", 1, 1), Pt("VMENTER", 1, 1)>>
DoubledIrq      == <<Pt("OTHER", 1, 1), Irq(48, 1, 1), Irq(48, 1, 1), Pt("VMENTER", 1, 1)>>
DoubledExit     == <<Pt("OTHER", 1, 1), Pt("OTHER", 1, 1), Pt("VMENTER", 1, 1)>>

\* Malformed groups: each makes fetch_new_event or check_sanity throw.
IrqElsewhere    == <<Pt("OTHER", 1, 1), Irq(48, 1, 1), Pt("VMENTER", 2, 1)>>
IrqsDiffer      == <<Pt("OTHER", 1, 1), Irq(48, 1, 1), Irq(48, 2, 1), Pt("VMENTER", 1, 1)>>
IrqOtherFlags   == <<Pt("OTHER", 1, 1), Irq(48, 1, 1), Flags(Pt("VMENTER", 1, 1))>>
NoEnter         == <<Pt("OTHER", 1, 1), Pt("OTHER", 1, 2)>>
EmulatedIrqNow  == <<Pt("IO_INSTR", 1, 1), Irq(48, 1, 1), Pt("VMENTER", 1, 1)>>
FaultLater      == <<Pt("HLT", 1, 1), Irq(13, 1, 2), Pt("VMENTER", 1, 2)>>

\* What a file may start and end with.
Starts == {<<>>, <<Pt("VMENTER", 1, 1)>>, <<Irq(48, 1, 1), Pt("VMENTER", 1, 1)>>}
ExitLast == <<Pt("OTHER", 1, 1)>>
IrqLast  == <<Pt("OTHER", 1, 1), Irq(48, 1, 1)>>

Scenarios(starts, groups, n, ends) ==
  {Good(start \o FlattenSeq(gs) \o end) :
     start \in starts, gs \in BoundedSeq(groups, n), end \in ends}

-----------------------------------------------------------------------------
(* The files of the runs.                                                  *)

EmulatedLast == Emulated(1, 1)

WellFormedGroups ==
  {Quiet(1, 1), Emulated(1, 1), EmulatedSame, Halted, Stepped, IrqNow, IrqTwice,
   IrqNext, DoubledEnter, DoubledIrq, DoubledExit}

MalformedGroups ==
  {IrqElsewhere, IrqsDiffer, IrqOtherFlags, NoEnter, EmulatedIrqNow, FaultLater}
=============================================================================
