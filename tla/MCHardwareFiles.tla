---------------------------- MODULE MCHardwareFiles ----------------------------
(***************************************************************************)
(* Files of hardware accesses. The programs that read one from end to end  *)
(* are given all those of up to MaxAccesses accesses.                      *)
(***************************************************************************)
EXTENDS HardwareFile

MaxAccesses == 4

MCAccesses == [tsc: 0..2, body: {1}] \cup {[tsc |-> 2, body |-> 2]}

HardwareFileOf(recs, tail) ==
  [kind |-> "good", recs |-> recs,
   ends |-> [i \in 1..Len(recs) |-> HeaderSize + 2 * i + (i % 2)], tail |-> tail]

Refused(k) == [kind |-> k, recs |-> <<>>, ends |-> <<>>, tail |-> <<>>]

RefusedFiles == {Refused(k) : k \in {"absent", "short", "rejected"}}

MCAllFiles ==
  RefusedFiles \cup
  {HardwareFileOf(recs, tail) :
     recs \in UNION {[1..n -> MCAccesses] : n \in 0..MaxAccesses},
     tail \in {<<>>, <<[tsc |-> 0, body |-> 1]>>, <<[tsc |-> 1, body |-> 0]>>}}
=============================================================================
