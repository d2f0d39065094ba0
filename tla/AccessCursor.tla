----------------------------- MODULE AccessCursor -----------------------------
(***************************************************************************)
(* What a reader of hardware accesses promises: a cursor on the sequence   *)
(* of accesses, whose place is one number. A place that was marked can be  *)
(* gone back to by any cursor, and a cursor can be put where another is.   *)
(***************************************************************************)
EXTENDS Naturals, Sequences

CONSTANTS Readers, Nothing

VARIABLES
  items,   \* the accesses
  number,  \* the number of the access each cursor is at; 0 is before the first
  shown,   \* that access, or Nothing
  marks    \* the numbers that were marked

vars == <<items, number, shown, marks>>

Shown(n) == IF n \in 1..Len(items) THEN items[n] ELSE Nothing

MoveTo(r, n) ==
  /\ number' = [number EXCEPT ![r] = n]
  /\ shown' = [shown EXCEPT ![r] = Shown(n)]
  /\ UNCHANGED <<items, marks>>

Open(r) == MoveTo(r, 0)

Forward(r) == MoveTo(r, IF number[r] > Len(items) THEN number[r] ELSE number[r] + 1)

Mark(r) == marks' = marks \cup {number[r]} /\ UNCHANGED <<items, number, shown>>

GoBack(r) == \E n \in marks : MoveTo(r, n)

Join(r, other) == MoveTo(r, number[other])

Init ==
  /\ number = [r \in Readers |-> 0]
  /\ shown = [r \in Readers |-> Nothing]
  /\ marks = {}

Next ==
  \E r \in Readers :
    \/ Open(r)
    \/ Forward(r)
    \/ Mark(r)
    \/ GoBack(r)
    \/ \E other \in Readers \ {r} : Join(r, other)

Spec == Init /\ [][Next]_vars
=============================================================================
