--------------------------- MODULE MCHardwareReaders ---------------------------
EXTENDS HardwareReaders, MCHardwareFiles, TLC

CONSTANTS r1, r2

A(tsc, body) == [tsc |-> tsc, body |-> body]

\* Whole; with a record of TSC 0 in the middle; cut within a record, whose TSC
\* was still there, or was not; without any access.
MCFiles ==
  {[kind |-> "good", recs |-> <<A(5, 1), A(5, 2), A(3, 1)>>, ends |-> <<3, 4, 7>>, tail |-> <<>>],
   [kind |-> "good", recs |-> <<A(4, 1), A(0, 3), A(6, 2)>>, ends |-> <<4, 5, 8>>, tail |-> <<>>],
   [kind |-> "good", recs |-> <<A(5, 1), A(7, 2)>>, ends |-> <<3, 6>>, tail |-> <<A(8, 0)>>],
   [kind |-> "good", recs |-> <<A(5, 1)>>, ends |-> <<4>>, tail |-> <<A(0, 0)>>],
   [kind |-> "good", recs |-> <<>>, ends |-> <<>>, tail |-> <<>>]}

MCReaders == {r1, r2}

\* The readers are interchangeable, and no property is a liveness property.
Symmetry == Permutations(MCReaders)
=============================================================================
