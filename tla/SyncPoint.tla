----------------------------- MODULE SyncPoint ------------------------------
(***************************************************************************)
(* sync_point and sync_event: the records a sync file holds and the events *)
(* they are aggregated into. Registers are reduced to what the comparisons *)
(* of the code tell apart:                                                 *)
(*   regs    rax .. r15, cr0, cr3, cr4 (compared by every equality)        *)
(*   cr2     compared with regs, and on its own by check_sanity            *)
(*   rip     the instruction pointer (part of a point, not of a context)   *)
(*   rflags  rflags and cs (likewise; cs is not kept in an event)          *)
(*   tsc     tsc, and the fault_error_code of an interrupt                 *)
(*   vector  interrupt_vector; 0 unless an interrupt (what a reader leaves *)
(*           there from an earlier interrupt is the same in both points it *)
(*           compares)                                                     *)
(* No equality of the code looks at the FPU words or the attached memory   *)
(* dumps. The words go from a point to an event with the TSC, in the same  *)
(* assignments: the tsc of a context stands for both. The dumps are in     *)
(* SyncFileData.                                                           *)
(***************************************************************************)
EXTENDS Integers

\* The exits whose VMENTER context overrides the one of the emulator.
EmulatedExits ==
  {"IO_INSTR", "CPUID", "RDTSC", "RDTSCP", "RDMSR", "MOV_CRX", "EPT_MISCONFIG"}

\* "OTHER" stands for the exits that no case of fetch_new_event names.
Exits == EmulatedExits \cup {"HLT", "XCPT_OR_NMI", "OTHER"}

Types == Exits \cup {"VMENTER", "INTERRUPT"}

Points ==
  [type: Types, regs: Nat, cr2: Nat, rip: Nat, rflags: Nat, tsc: Nat, vector: Nat]

IsInterrupt(p) == p.type = "INTERRUPT"
IsVmenter(p)   == p.type = "VMENTER"
IsVmexit(p)    == ~IsInterrupt(p) /\ ~IsVmenter(p)
Valid(p)       == p.tsc # 0

\* sync_point(): all zero, of type VMENTER.
NoPoint ==
  [type |-> "VMENTER", regs |-> 0, cr2 |-> 0, rip |-> 0, rflags |-> 0, tsc |-> 0,
   vector |-> 0]

\* What a record decodes to when every read of it returns zeros: type 0.
ZeroPoint == [NoPoint EXCEPT !.type = "XCPT_OR_NMI"]

\* is_equivalent: the same machine state, whatever the type, TSC and vector.
IsEquivalent(p, q) ==
  p.regs = q.regs /\ p.cr2 = q.cr2 /\ p.rip = q.rip /\ p.rflags = q.rflags

Contexts == [regs: Nat, cr2: Nat, tsc: Nat]

\* point_context_to_event
ContextOf(p) == [regs |-> p.regs, cr2 |-> p.cr2, tsc |-> p.tsc]

Events ==
  [position: Nat, isValid: BOOLEAN, isFirst: BOOLEAN, startRip: Nat,
   start: Contexts, reason: Types, rflags: Nat, isLast: BOOLEAN,
   hasInterrupt: BOOLEAN, vector: Nat, interruptRip: Nat, isEmulation: BOOLEAN,
   new: Contexts]

\* sync_event()
NoEvent ==
  [position |-> 0, isValid |-> FALSE, isFirst |-> FALSE, startRip |-> 0,
   start |-> ContextOf(NoPoint), reason |-> "XCPT_OR_NMI", rflags |-> 0,
   isLast |-> FALSE, hasInterrupt |-> FALSE, vector |-> 0, interruptRip |-> 0,
   isEmulation |-> FALSE, new |-> ContextOf(NoPoint)]

\* are_values_equivalent: the TSC and the FPU words are not compared.
AreValuesEquivalent(c, d) == c.regs = d.regs /\ c.cr2 = d.cr2

PageFault == 14

\* check_sanity, in a build without RVN_MACHINES_DEBUG_SYNC: does not throw.
IsSane(e) ==
  ~e.isFirst /\ e.hasInterrupt =>
    /\ ~(e.isEmulation /\ e.startRip = e.interruptRip)
    /\ e.new.cr2 = e.start.cr2 \/ e.vector = PageFault
    /\ ~(e.vector < 32 /\ e.startRip # e.interruptRip)
=============================================================================
