------------------------ MODULE SyncFileEventsProofs ------------------------
(***************************************************************************)
(* Proofs about the events of sync_file, for any scenarios: next reads the *)
(* records one run after the other, fetch_new_event walks through the      *)
(* parts of an event, and current_event through the events that absorb one *)
(* another.                                                                *)
(***************************************************************************)
EXTENDS DumpSyncEvents, SyncFileProofs, LibraryProofs

\* What the theorems are about: a client that opens one file, a scenario, and
\* then goes on or seeks, but not from the end.
Recorded ==
  /\ Reloads = {}
  /\ "seek_from_end" \notin Calls
  /\ \A f \in Files : f.kind \in {"good", "bad_data"} => IsScenario(f)

-----------------------------------------------------------------------------
(* Where a reader of a scenario can be.                                    *)

Count == Len(Records)

OnStart ==
  /\ ~stream.fail /\ ~stream.eof /\ stream.at = HeaderSize
  /\ position = 0 /\ current = NoPoint

AtRecord ==
  /\ ~stream.fail /\ ~stream.eof /\ stream.at = HeaderSize + 2 * position
  /\ position \in 1..Count /\ current = Records[position]

AtEnd == stream.eof /\ current = ZeroPoint /\ position >= Count

-----------------------------------------------------------------------------
(* The parts of an event.                                                  *)

\* Records x to i - 1 are the VMEXIT of the event that starts at x, or it has
\* none and is the first of the file.
Led(R, x, i) ==
  IF IsVmexit(R[x]) THEN i > x /\ \A j \in x..(i - 1) : R[j] = R[x]
  ELSE x = 1 /\ i = 1

\* Those from i to k - 1 are its interrupt, those from k to p - 1 its second
\* report: what fetch_new_event has read of it when it comes to record p.
Shape(R, x, i, k, p) ==
  /\ x \in 1..Len(R) /\ i \in x..p /\ k \in i..p /\ p \in x..(Len(R) + 1)
  /\ Led(R, x, i)
  /\ \A j \in i..(k - 1) : R[j] = R[i]
  /\ \A j \in k..(p - 1) : R[j] = R[k]
  /\ i < p => i < k /\ IsInterrupt(R[i])
  /\ k < p => IsInterrupt(R[k]) /\ R[k] # R[i] /\ IsEquivalent(R[k], R[i])
  /\ p \in (x + 1)..Len(R) => R[p] # R[p - 1]

\* The local event of fetch_new_event then.
Started(R, x) ==
  IF IsVmexit(R[x]) THEN EventStartingAt(R[x], x)
  ELSE [NoEvent EXCEPT !.position = x, !.isFirst = TRUE, !.isEmulation = TRUE]

Drafted(R, x, i, p) ==
  IF i < p
  THEN [Started(R, x) EXCEPT !.hasInterrupt = TRUE, !.vector = R[i].vector,
                             !.interruptRip = R[i].rip]
  ELSE Started(R, x)

-----------------------------------------------------------------------------
(* What holds at each place of the code.                                   *)

IsEventAt(R, e, x) ==
  /\ x \in 1..Len(R) /\ IsStart(R, x)
  /\ e = EventOf(R, x) /\ WellFormedEvent(R, x)

\* e is the event at x and those before it that it absorbs.
IsCombinedAt(R, e, x) ==
  /\ IsEventAt(R, EventOf(R, x), x)
  /\ \E o \in 1..x : /\ Absorbing(R, o, x) /\ e = Combined(R, o, x)
                      /\ AreValuesEquivalent(e.start, EventOf(R, x).start)

\* The reader has just read the event at x to its end.
ReadTo(x) ==
  /\ position = EndOf(Records, x)
  /\ IF Complete(Records, x) THEN AtRecord ELSE AtEnd

\* The starts that a reader put on s may meet, and the one a seek to p finds.
Met(R, s) == {y \in s..Len(R) : IsStart(R, y) /\ (y = s \/ y \in StartsOf(R))}
LastStart(R, p) == Max({x \in 1..p : IsStart(R, x)})

\* A call of advance_to comes to the event at x by way of absorbed ones.
Sought(R, c, x) ==
  c.op = "advance_to" =>
    /\ c.arg \in 1..Len(R) /\ IsVmenter(R[c.arg])
    /\ x \in Met(R, LastStart(R, c.arg))
    /\ \A y \in Met(R, LastStart(R, c.arg)) : y < x => Absorbed(R, y)

\* A call of current_event is past the record it started from, or at it.
From(c, x) == c.op = "current_event" => c.from <= x

\* The event held while the next one is fetched.
HeldAhead ==
  ahead =>
    /\ IsCombinedAt(Records, held, held.position)
    /\ MayMerge(held)
    /\ Sought(Records, call, held.position)
    /\ From(call, held.position)

\* The event fetched is the one after it, or the one the call started at.
IsNext(x) ==
  IF ahead THEN x = Following(Records, held.position) ELSE Sought(Records, call, x)

AtFetch ==
  /\ HeldAhead
  /\ IF ahead
     THEN AtRecord /\ position \in EndOf(Records, held.position)..(Reach(Records, held.position) + 1)
     ELSE /\ OnStart \/ AtRecord
          /\ From(call, position)
          /\ Sought(Records, call, position)
          /\ pc = "skip" => call.op # "advance_to"

AtPart ==
  LET x == draft.position
  IN  /\ HeldAhead /\ IsNext(x) /\ From(call, x)
      /\ AtRecord /\ IsStart(Records, x)
      /\ \E i, k \in 1..position :
           /\ Shape(Records, x, i, k, position)
           /\ draft = Drafted(Records, x, i, position)
           /\ i < position => irq = Records[i]
           /\ pc = "second" => i = position
           /\ pc = "third" => i < position /\ k = position
           /\ pc = "last" => k < position

AtReturn ==
  LET x == draft.position
  IN  /\ HeldAhead /\ IsNext(x) /\ From(call, x)
      /\ IsEventAt(Records, draft, x) /\ ReadTo(x)

AtMerge ==
  LET x == held.position
  IN  /\ IsCombinedAt(Records, held, x) /\ ReadTo(x)
      /\ Sought(Records, call, x) /\ From(call, x)

\* The walk back of advance_to has come to record target and met no VMEXIT.
AtReload ==
  /\ AtRecord /\ position = target
  /\ call.op = "advance_to"
  /\ call.arg \in target..Count /\ IsVmenter(Records[call.arg])
  /\ \A j \in (target + 1)..call.arg : ~IsVmexit(Records[j])

\* No event was left and the end is what current_event goes on merging.
IsBlank(e) ==
  /\ e.position # 1 /\ ~e.hasInterrupt /\ ~e.isEmulation /\ e.startRip = 0
  /\ e.start = ContextOf(ZeroPoint) /\ e.new = ContextOf(ZeroPoint)

Lost ==
  /\ AtEnd /\ position # 1
  /\ pc \in {"fetch", "skip"} => ahead
  /\ pc = "return" => IsBlank(draft)
  /\ pc = "merge" \/ ahead => IsBlank(held)

\* Between two calls.
EventIsRight ==
  LET x == event.position
  IN  event.isValid =>
        /\ IsCombinedAt(Records, event, x) /\ ~Absorbed(Records, x)
        /\ current # NoPoint =>
             /\ position \in EndOf(Records, x)..Reach(Records, x)
             /\ event.isLast <=> stream.eof

ThrewAt(x) ==
  /\ x \in 1..position /\ x \in 1..Count /\ IsStart(Records, x)
  /\ ~WellFormedEvent(Records, x) /\ position <= Reach(Records, x) + 1

BetweenCalls ==
  /\ OnStart \/ AtRecord \/ AtEnd
  /\ EventIsRight
  /\ AdvanceToReaches
  /\ call.outcome = "threw" /\ call.op # "load" =>
       \E x \in 1..Count : ThrewAt(x) /\ (call.op = "current_event" => call.from < position)

\* A reader without a file.
ClosedInv ==
  /\ current = NoPoint /\ ~event.isValid /\ ~ahead
  /\ file.kind # "good"
  /\ call.op # "load" => call.outcome # "threw"

OpenInv ==
  /\ IsScenario(file) /\ file # NoFile
  /\ pc # "idle" => ~event.isValid
  /\ pc \in {"idle", "reload"} => ~ahead
  /\ pc # "spin"
  /\ pc = "idle" => BetweenCalls
  /\ pc = "reload" => AtReload
  /\ pc \in {"fetch", "skip"} => AtFetch \/ Lost
  /\ pc \in {"second", "third", "last"} => AtPart
  /\ pc = "return" => AtReturn \/ Lost
  /\ pc = "merge" => AtMerge \/ Lost

\* advance_to has taken a reader beyond the offsets that its stream accepts:
\* the next call of next does not return.
StuckInv ==
  /\ IsScenario(file) /\ file # NoFile
  /\ Stalled /\ current = ZeroPoint /\ ~event.isValid /\ ~ahead
  /\ pc \in {"idle", "fetch", "spin"}
  /\ call.outcome # "threw"
  /\ call.op = "advance_to" => call.arg \notin 1..Count

EventInv == IF stream.isOpen THEN OpenInv \/ StuckInv ELSE ClosedInv

-----------------------------------------------------------------------------
(* What Reach and StartsOf come to.                                        *)

LEMMA ReachFacts ==
  ASSUME NEW R \in Seq(Points), NEW x \in 1..Len(R)
  PROVE  /\ Reach(R, x) \in x..Len(R)
         /\ \A j \in x..Reach(R, x) : IsVmexit(R[j]) => SameRun(R, x, j)
         /\ Reach(R, x) < Len(R) =>
              IsVmexit(R[Reach(R, x) + 1]) /\ ~SameRun(R, x, Reach(R, x) + 1)
<1> DEFINE T == {e \in x..Len(R) : \A j \in x..e : IsVmexit(R[j]) => SameRun(R, x, j)}
<1>1. T \in SUBSET Nat /\ Len(R) \in Nat /\ \A y \in T : y <= Len(R)
  OBVIOUS
<1>2. x \in T
  BY DEF SameRun
<1>3. Reach(R, x) = Max(T)
  BY DEF Reach
<1>4. Reach(R, x) \in T /\ \A y \in T : Reach(R, x) >= y
  <2> HIDE DEF T
  <2> QED
    BY <1>1, <1>2, <1>3, MaxIs
<1>5. ASSUME Reach(R, x) < Len(R)
      PROVE  IsVmexit(R[Reach(R, x) + 1]) /\ ~SameRun(R, x, Reach(R, x) + 1)
  <2>1. Reach(R, x) + 1 \in x..Len(R) /\ Reach(R, x) + 1 \notin T
    BY <1>4, <1>5
  <2>2. PICK j \in x..(Reach(R, x) + 1) : IsVmexit(R[j]) /\ ~SameRun(R, x, j)
    BY <2>1
  <2>3. j = Reach(R, x) + 1
    BY <1>4, <2>2
  <2> QED
    BY <2>2, <2>3
<1> QED
  BY <1>4, <1>5

LEMMA ReachIs ==
  ASSUME NEW R \in Seq(Points), NEW x \in 1..Len(R), NEW e \in x..Len(R),
         \A j \in x..e : IsVmexit(R[j]) => SameRun(R, x, j),
         e = Len(R) \/ (IsVmexit(R[e + 1]) /\ ~SameRun(R, x, e + 1))
  PROVE  Reach(R, x) = e
<1> DEFINE T == {y \in x..Len(R) : \A j \in x..y : IsVmexit(R[j]) => SameRun(R, x, j)}
<1>1. T \in SUBSET Nat /\ e \in T
  OBVIOUS
<1>2. ASSUME NEW y \in T PROVE y <= e
  <2> SUFFICES ASSUME y > e PROVE FALSE
    OBVIOUS
  <2>1. e + 1 \in x..y /\ e # Len(R)
    OBVIOUS
  <2> QED
    BY <2>1
<1>3. Reach(R, x) = Max(T)
  BY DEF Reach
<1> QED
  <2> HIDE DEF T
  <2> QED
    BY <1>1, <1>2, <1>3, MaxFound

\* Between the starts of two runs no event starts but by a copy of its VMEXIT.
LEMMA NoStartWithin ==
  ASSUME NEW R \in Seq(Points), NEW x \in 1..Len(R), NEW z \in (x + 1)..Reach(R, x)
  PROVE  z \notin StartsOf(R)
<1>1. /\ Reach(R, x) \in x..Len(R)
      /\ \A j \in x..Reach(R, x) : IsVmexit(R[j]) => SameRun(R, x, j)
  BY ReachFacts
<1> SUFFICES ASSUME IsVmexit(R[z]), R[z - 1] # R[z] PROVE FALSE
  BY <1>1 DEF StartsOf, IsStart
<1>2. SameRun(R, x, z) /\ z - 1 \in x..z /\ z \in x..z
  BY <1>1
<1> QED
  BY <1>2 DEF SameRun

LEMMA FollowingStarts ==
  ASSUME NEW R \in Seq(Points), NEW x \in 1..Len(R), Reach(R, x) < Len(R)
  PROVE  /\ Following(R, x) = Reach(R, x) + 1
         /\ Following(R, x) \in StartsOf(R) /\ Following(R, x) \in (x + 1)..Len(R)
         /\ IsVmexit(R[Following(R, x)]) /\ R[Reach(R, x)] # R[Reach(R, x) + 1]
<1> DEFINE n == Reach(R, x)
<1>1. /\ n \in x..Len(R)
      /\ \A j \in x..n : IsVmexit(R[j]) => SameRun(R, x, j)
      /\ IsVmexit(R[n + 1]) /\ ~SameRun(R, x, n + 1)
  BY ReachFacts
<1> HIDE DEF n
<1>2. R[n] # R[n + 1]
  <2> SUFFICES ASSUME R[n] = R[n + 1] PROVE FALSE
    OBVIOUS
  <2>1. SameRun(R, x, n) /\ n \in x..n
    BY <1>1
  <2>2. SameRun(R, x, n + 1)
    BY <1>1, <2>1 DEF SameRun
  <2> QED
    BY <1>1, <2>2
<1>3. n + 1 \in 1..Len(R) /\ n + 1 # 1 /\ (n + 1) - 1 = n
  BY <1>1 DEF n
<1>4. n + 1 \in StartsOf(R)
  BY <1>1, <1>2, <1>3 DEF StartsOf, IsStart
<1> QED
  BY <1>1, <1>2, <1>4 DEF Following, n

\* A record that is no VMENTER, nor a VMEXIT of another run, comes before the
\* end of the event.
LEMMA ReachesFurther ==
  ASSUME NEW R \in Seq(Points), NEW x \in 1..Len(R), NEW p \in x..Len(R),
         \A j \in x..p : IsVmexit(R[j]) => SameRun(R, x, j)
  PROVE  Reach(R, x) >= p
<1>1. /\ Reach(R, x) \in x..Len(R)
      /\ Reach(R, x) < Len(R) =>
           IsVmexit(R[Reach(R, x) + 1]) /\ ~SameRun(R, x, Reach(R, x) + 1)
  BY ReachFacts
<1> SUFFICES ASSUME Reach(R, x) < p PROVE FALSE
  BY <1>1
<1>2. Reach(R, x) + 1 \in x..p /\ Reach(R, x) < Len(R)
  BY <1>1
<1> QED
  BY <1>1, <1>2

LEMMA EndFacts ==
  ASSUME NEW R \in Seq(Points), NEW x \in 1..Len(R)
  PROVE  /\ EndOf(R, x) \in x..Reach(R, x)
         /\ Complete(R, x) => IsVmenter(R[EndOf(R, x)])
         /\ \A e \in x..(EndOf(R, x) - 1) : ~IsVmenter(R[e])
<1>1. Reach(R, x) \in x..Len(R)
  BY ReachFacts
<1>2. Enters(R, x) \in SUBSET Nat
  BY <1>1 DEF Enters
<1>3. CASE Complete(R, x)
  <2>1. EndOf(R, x) \in Enters(R, x) /\ \A y \in Enters(R, x) : EndOf(R, x) <= y
    BY <1>2, <1>3, MinIs DEF EndOf, Complete
  <2> QED
    BY <1>1, <1>3, <2>1 DEF Enters
<1>4. CASE ~Complete(R, x)
  BY <1>1, <1>4 DEF EndOf, Complete, Enters
<1> QED
  BY <1>3, <1>4

\* Beyond its VMENTER an event has no VMEXIT.
LEMMA NoExitBeyond ==
  ASSUME NEW R \in Seq(Points), NEW x \in 1..Len(R), IsStart(R, x), Complete(R, x),
         NEW j \in EndOf(R, x)..Reach(R, x)
  PROVE  ~IsVmexit(R[j])
<1>1. /\ Reach(R, x) \in x..Len(R)
      /\ \A e \in x..Reach(R, x) : IsVmexit(R[e]) => SameRun(R, x, e)
  BY ReachFacts
<1>2. EndOf(R, x) \in x..Reach(R, x) /\ IsVmenter(R[EndOf(R, x)])
  BY EndFacts
<1> SUFFICES ASSUME IsVmexit(R[j]) PROVE FALSE
  OBVIOUS
<1>3. SameRun(R, x, j) /\ EndOf(R, x) \in x..j /\ j \in x..j
  BY <1>1, <1>2
<1>4. R[j] = R[x] /\ R[EndOf(R, x)] = R[x]
  BY <1>3 DEF SameRun
<1> QED
  BY <1>2, <1>4 DEF IsVmexit
-----------------------------------------------------------------------------
(* What the parts of an event make of it.                                  *)

LEMMA Kinds ==
  ASSUME NEW p
  PROVE  /\ IsVmexit(p) <=> ~IsInterrupt(p) /\ ~IsVmenter(p)
         /\ ~(IsInterrupt(p) /\ IsVmenter(p))
  BY DEF IsVmexit, IsInterrupt, IsVmenter

LEMMA ShapeTypes ==
  ASSUME NEW R \in Seq(Points), NEW x, NEW i, NEW k, NEW p, Shape(R, x, i, k, p)
  PROVE  /\ x \in 1..Len(R) /\ i \in x..p /\ k \in i..p /\ p \in x..(Len(R) + 1)
         /\ Len(R) \in Nat /\ x \in Nat /\ i \in Nat /\ k \in Nat /\ p \in Nat
  BY DEF Shape

LEMMA ShapeKinds ==
  ASSUME NEW R \in Seq(Points), NEW x, NEW i, NEW k, NEW p, Shape(R, x, i, k, p)
  PROVE  /\ \A j \in x..(i - 1) : IsVmexit(R[j]) /\ R[j] = R[x]
         /\ \A j \in i..(p - 1) : IsInterrupt(R[j])
         /\ \A j \in i..(k - 1) : R[j] = R[i]
         /\ \A j \in k..(p - 1) : R[j] = R[k] /\ R[k] # R[i]
         /\ \A j \in x..(p - 1) : IsVmexit(R[j]) => SameRun(R, x, j)
<1>1. /\ x \in 1..Len(R) /\ i \in x..p /\ k \in i..p /\ p \in x..(Len(R) + 1)
      /\ x \in Nat /\ i \in Nat /\ k \in Nat /\ p \in Nat
  BY ShapeTypes
<1>2. /\ Led(R, x, i)
      /\ \A j \in i..(k - 1) : R[j] = R[i]
      /\ \A j \in k..(p - 1) : R[j] = R[k]
      /\ i < p => i < k /\ IsInterrupt(R[i])
      /\ k < p => IsInterrupt(R[k]) /\ R[k] # R[i]
  BY DEF Shape
<1>3. ASSUME NEW j \in x..(i - 1) PROVE IsVmexit(R[j]) /\ R[j] = R[x]
  BY <1>1, <1>2 DEF Led
<1>4. ASSUME NEW j \in i..(p - 1) PROVE IsInterrupt(R[j])
  <2>1. CASE j < k
    <3>1. j \in i..(k - 1) /\ i < p
      BY <1>1, <2>1
    <3> QED
      BY <1>2, <3>1
  <2>2. CASE j >= k
    <3>1. j \in k..(p - 1) /\ k < p
      BY <1>1, <2>2
    <3> QED
      BY <1>2, <3>1
  <2> QED
    BY <1>1, <2>1, <2>2
<1>5. ASSUME NEW j \in k..(p - 1) PROVE R[j] = R[k] /\ R[k] # R[i]
  <2>1. k < p
    BY <1>1
  <2> QED
    BY <1>2, <2>1
<1>6. ASSUME NEW j \in x..(p - 1), IsVmexit(R[j]) PROVE SameRun(R, x, j)
  <2>1. j \in x..(i - 1)
    <3> SUFFICES ASSUME j \in i..(p - 1) PROVE FALSE
      BY <1>1
    <3> QED
      BY <1>4, <1>6, Kinds
  <2>2. \A n \in x..j : R[n] = R[x]
    BY <1>1, <1>3, <2>1
  <2> QED
    BY <2>2 DEF SameRun
<1> QED
  BY <1>2, <1>3, <1>4, <1>5, <1>6

\* The interrupts read are the interrupts of the event.
LEMMA ShapeIrqs ==
  ASSUME NEW R \in Seq(Points), NEW x, NEW i, NEW k, NEW p, Shape(R, x, i, k, p),
         EndOf(R, x) \in x..Len(R)
  PROVE  /\ EndOf(R, x) >= p - 1 => i..(p - 1) \subseteq Irqs(R, x)
         /\ \A j \in Irqs(R, x) : j >= i /\ j \in Nat
         /\ EndOf(R, x) >= p - 1 /\ i < p => Min(Irqs(R, x)) = i
         /\ EndOf(R, x) = p - 1 \/ (EndOf(R, x) = p /\ ~IsInterrupt(R[p])) =>
              Irqs(R, x) = i..(p - 1)
<1>1. /\ x \in 1..Len(R) /\ i \in x..p /\ k \in i..p /\ p \in x..(Len(R) + 1)
      /\ x \in Nat /\ i \in Nat /\ k \in Nat /\ p \in Nat
  BY ShapeTypes
<1>2. /\ \A j \in x..(i - 1) : IsVmexit(R[j])
      /\ \A j \in i..(p - 1) : IsInterrupt(R[j])
  BY ShapeKinds
<1> DEFINE e == EndOf(R, x)
<1>3. e \in x..Len(R)
  OBVIOUS
<1>4. Irqs(R, x) = {j \in x..e : IsInterrupt(R[j])}
  BY DEF Irqs
<1> HIDE DEF e
<1>5. ASSUME NEW j \in Irqs(R, x) PROVE j >= i /\ j \in Nat
  <2>1. j \in x..e /\ IsInterrupt(R[j])
    BY <1>4
  <2>2. j \notin x..(i - 1)
    BY <1>2, <2>1, Kinds
  <2> QED
    BY <1>1, <1>3, <2>1, <2>2
<1>6. ASSUME e >= p - 1 PROVE i..(p - 1) \subseteq Irqs(R, x)
  <2>1. \A j \in i..(p - 1) : j \in x..e
    BY <1>1, <1>3, <1>6
  <2> QED
    BY <1>2, <1>4, <2>1
<1>7. ASSUME e >= p - 1, i < p PROVE Min(Irqs(R, x)) = i
  <2>1. i \in Irqs(R, x) /\ Irqs(R, x) \in SUBSET Nat
    BY <1>1, <1>5, <1>6, <1>7
  <2> QED
    BY <1>1, <1>5, <2>1, MinFound
<1>8. ASSUME e = p - 1 \/ (e = p /\ ~IsInterrupt(R[p])) PROVE Irqs(R, x) = i..(p - 1)
  <2>1. i..(p - 1) \subseteq Irqs(R, x)
    BY <1>1, <1>3, <1>6, <1>8
  <2>2. ASSUME NEW j \in Irqs(R, x) PROVE j \in i..(p - 1)
    <3>1. j \in x..e /\ IsInterrupt(R[j]) /\ j >= i /\ j \in Nat
      BY <1>4, <1>5
    <3> QED
      BY <1>1, <1>3, <1>8, <3>1
  <2> QED
    BY <2>1, <2>2
<1> QED
  BY <1>5, <1>6, <1>7, <1>8 DEF e

\* The parts that fetch_new_event has read are in one state.
LEMMA ShapeStates ==
  ASSUME NEW R \in Seq(Points), NEW x, NEW i, NEW k, NEW p, Shape(R, x, i, k, p),
         NEW j \in i..(p - 1)
  PROVE  IsEquivalent(R[j], R[i])
<1>1. /\ k \in i..p /\ p \in x..(Len(R) + 1)
      /\ i \in Nat /\ k \in Nat /\ p \in Nat
  BY ShapeTypes
<1>2. CASE j < k
  <2>1. R[j] = R[i]
    BY <1>1, <1>2, ShapeKinds
  <2> QED
    BY <2>1 DEF IsEquivalent
<1>3. CASE j >= k
  <2>1. j \in k..(p - 1) /\ k < p
    BY <1>1, <1>3
  <2>3. R[j] = R[k]
    BY <2>1, ShapeKinds
  <2>2. IsEquivalent(R[k], R[i])
    BY <2>1 DEF Shape
  <2> QED
    BY <2>2, <2>3 DEF IsEquivalent
<1> QED
  BY <1>1, <1>2, <1>3

\* The first of a run of interrupts is one of two.
LEMMA ShapeFresh ==
  ASSUME NEW R \in Seq(Points), NEW x, NEW i, NEW k, NEW p, Shape(R, x, i, k, p),
         NEW j \in i..(p - 1), j = x \/ R[j - 1] # R[j]
  PROVE  j \in {i, k}
<1>1. /\ x \in 1..Len(R) /\ i \in x..p /\ k \in i..p /\ p \in x..(Len(R) + 1)
      /\ x \in Nat /\ i \in Nat /\ k \in Nat /\ p \in Nat
  BY ShapeTypes
<1>2. /\ \A n \in i..(k - 1) : R[n] = R[i]
      /\ \A n \in k..(p - 1) : R[n] = R[k]
  BY ShapeKinds
<1> SUFFICES ASSUME j # i, j # k PROVE R[j - 1] = R[j] /\ j # x
  OBVIOUS
<1>3. CASE j < k
  <2>1. j - 1 \in i..(k - 1) /\ j \in i..(k - 1) /\ j # x
    BY <1>1, <1>3
  <2> QED
    BY <1>2, <2>1
<1>4. CASE j > k
  <2>1. j - 1 \in k..(p - 1) /\ j \in k..(p - 1) /\ j # x
    BY <1>1, <1>4
  <2> QED
    BY <1>2, <2>1
<1> QED
  BY <1>1, <1>3, <1>4

LEMMA TwoAtMost ==
  ASSUME NEW i, NEW k, NEW T \in SUBSET {i, k}
  PROVE  Cardinality(T) <= 2
<1>1. IsFiniteSet({i, k}) /\ Cardinality({i, k}) <= 2
  <2>1. IsFiniteSet({i}) /\ Cardinality({i}) = 1
    BY FS_Singleton
  <2>2. {i, k} = {i} \cup {k}
    OBVIOUS
  <2>3. /\ IsFiniteSet({i} \cup {k})
        /\ Cardinality({i} \cup {k}) = Cardinality({i}) \/ Cardinality({i} \cup {k}) = Cardinality({i}) + 1
    BY <2>1, FS_AddElement
  <2> QED
    BY <2>1, <2>2, <2>3
<1>2. IsFiniteSet(T) /\ Cardinality(T) <= Cardinality({i, k})
  BY <1>1, FS_Subset
<1>3. Cardinality(T) \in Nat /\ Cardinality({i, k}) \in Nat
  BY <1>1, <1>2, FS_CardinalityType
<1> QED
  BY <1>1, <1>2, <1>3

LEMMA ThreeAtLeast ==
  ASSUME NEW T, IsFiniteSet(T), NEW a \in T, NEW b \in T, NEW c \in T,
         a # b, b # c, a # c
  PROVE  Cardinality(T) > 2
<1>1. IsFiniteSet({a}) /\ Cardinality({a}) = 1
  BY FS_Singleton
<1>2. IsFiniteSet({a} \cup {b}) /\ Cardinality({a} \cup {b}) = 2
  <2>1. b \notin {a}
    OBVIOUS
  <2>2. /\ IsFiniteSet({a} \cup {b})
        /\ b \notin {a} => Cardinality({a} \cup {b}) = Cardinality({a}) + 1
    BY <1>1, FS_AddElement
  <2> QED
    BY <1>1, <2>1, <2>2
<1>3. IsFiniteSet({a} \cup {b} \cup {c}) /\ Cardinality({a} \cup {b} \cup {c}) = 3
  <2>1. c \notin {a} \cup {b}
    OBVIOUS
  <2>2. /\ IsFiniteSet(({a} \cup {b}) \cup {c})
        /\ c \notin {a} \cup {b} => Cardinality(({a} \cup {b}) \cup {c}) = Cardinality({a} \cup {b}) + 1
    BY <1>2, FS_AddElement
  <2> QED
    BY <1>2, <2>1, <2>2
<1>4. {a} \cup {b} \cup {c} \subseteq T
  OBVIOUS
<1>5. Cardinality({a} \cup {b} \cup {c}) <= Cardinality(T) /\ Cardinality(T) \in Nat
  BY <1>4, FS_Subset, FS_CardinalityType
<1> QED
  BY <1>3, <1>5
-----------------------------------------------------------------------------
(* How fetch_new_event ends, from the parts that it has read.              *)

LEMMA Unstarted ==
  /\ ContextOf(ZeroPoint) = NoEvent.start /\ ContextOf(ZeroPoint) = NoEvent.new
  /\ ZeroPoint.rip = 0 /\ ZeroPoint.vector = 0 /\ ZeroPoint.rflags = 0
  /\ ZeroPoint.type = "XCPT_OR_NMI"
  BY DEF ContextOf, ZeroPoint, NoPoint, NoEvent

\* The draft, field by field.
Known(R, x) == IF IsVmexit(R[x]) THEN R[x] ELSE ZeroPoint

LEMMA StartIs ==
  ASSUME NEW R, NEW x
  PROVE  Started(R, x) =
           [position |-> x, isValid |-> FALSE, isFirst |-> ~IsVmexit(R[x]),
            startRip |-> Known(R, x).rip, start |-> ContextOf(Known(R, x)),
            reason |-> Known(R, x).type, rflags |-> 0, isLast |-> FALSE,
            hasInterrupt |-> FALSE, vector |-> 0, interruptRip |-> 0,
            isEmulation |-> ~IsVmexit(R[x]), new |-> ContextOf(ZeroPoint)]
<1>1. CASE IsVmexit(R[x])
  <2>1. Started(R, x) =
          [position |-> x, isValid |-> FALSE, isFirst |-> FALSE,
           startRip |-> R[x].rip, start |-> ContextOf(R[x]),
           reason |-> R[x].type, rflags |-> 0, isLast |-> FALSE,
           hasInterrupt |-> FALSE, vector |-> 0, interruptRip |-> 0,
           isEmulation |-> FALSE, new |-> ContextOf(NoPoint)]
    BY <1>1 DEF Started, EventStartingAt, NoEvent
  <2>2. (~IsVmexit(R[x])) = FALSE /\ Known(R, x) = R[x]
    BY <1>1 DEF Known
  <2>3. ContextOf(ZeroPoint) = ContextOf(NoPoint)
    BY DEF ContextOf, ZeroPoint, NoPoint
  <2> QED
    BY <2>1, <2>2, <2>3, Zenon
<1>2. CASE ~IsVmexit(R[x])
  <2>1. Started(R, x) =
          [position |-> x, isValid |-> FALSE, isFirst |-> TRUE,
           startRip |-> 0, start |-> ContextOf(NoPoint),
           reason |-> "XCPT_OR_NMI", rflags |-> 0, isLast |-> FALSE,
           hasInterrupt |-> FALSE, vector |-> 0, interruptRip |-> 0,
           isEmulation |-> TRUE, new |-> ContextOf(NoPoint)]
    BY <1>2 DEF Started, NoEvent
  <2>2. (~IsVmexit(R[x])) = TRUE /\ Known(R, x) = ZeroPoint
    BY <1>2 DEF Known
  <2>3. /\ ContextOf(ZeroPoint) = ContextOf(NoPoint)
        /\ ZeroPoint.rip = 0 /\ ZeroPoint.type = "XCPT_OR_NMI"
    BY DEF ContextOf, ZeroPoint, NoPoint
  <2> QED
    BY <2>1, <2>2, <2>3, Zenon
<1> QED
  BY <1>1, <1>2

LEMMA DraftIs ==
  ASSUME NEW R, NEW x, NEW i, NEW p, NEW q, q = IF i < p THEN R[i] ELSE ZeroPoint
  PROVE  Drafted(R, x, i, p) =
           [position |-> x, isValid |-> FALSE, isFirst |-> ~IsVmexit(R[x]),
            startRip |-> Known(R, x).rip, start |-> ContextOf(Known(R, x)),
            reason |-> Known(R, x).type, rflags |-> 0, isLast |-> FALSE,
            hasInterrupt |-> i < p, vector |-> q.vector, interruptRip |-> q.rip,
            isEmulation |-> ~IsVmexit(R[x]), new |-> ContextOf(ZeroPoint)]
<1>1. CASE i < p
  <2>1. q = R[i] /\ (i < p) = TRUE
    BY <1>1
  <2>2. Drafted(R, x, i, p) =
          [position |-> x, isValid |-> FALSE, isFirst |-> ~IsVmexit(R[x]),
           startRip |-> Known(R, x).rip, start |-> ContextOf(Known(R, x)),
           reason |-> Known(R, x).type, rflags |-> 0, isLast |-> FALSE,
           hasInterrupt |-> TRUE, vector |-> R[i].vector, interruptRip |-> R[i].rip,
           isEmulation |-> ~IsVmexit(R[x]), new |-> ContextOf(ZeroPoint)]
    BY <1>1, StartIs DEF Drafted
  <2> QED
    BY <2>1, <2>2, Zenon
<1>2. CASE ~(i < p)
  <2>1. q = ZeroPoint /\ (i < p) = FALSE
    BY <1>2
  <2>2. q.vector = 0 /\ q.rip = 0
    BY <2>1, Unstarted
  <2>3. Drafted(R, x, i, p) = Started(R, x)
    BY <1>2 DEF Drafted
  <2> QED
    BY <2>1, <2>2, <2>3, StartIs, Zenon
<1> QED
  BY <1>1, <1>2

\* The interrupt of the event is the first of those read.
LEMMA IrqIs ==
  ASSUME NEW R, NEW x, NEW i \in Nat, NEW p \in Nat,
         Irqs(R, x) = i..(p - 1), i < p => Min(Irqs(R, x)) = i
  PROVE  /\ (IF i < p THEN R[i] ELSE ZeroPoint) =
              (IF Irqs(R, x) = {} THEN ZeroPoint ELSE R[Min(Irqs(R, x))])
         /\ (i < p) = (Irqs(R, x) # {})
<1>1. Irqs(R, x) = {} <=> ~(i < p)
  <2>1. i < p => i \in Irqs(R, x)
    OBVIOUS
  <2> QED
    BY <2>1
<1> QED
  BY <1>1

LEMMA SameEvent ==
  ASSUME NEW e \in Events, NEW d \in Events,
         e.position = d.position, e.isValid = d.isValid, e.isFirst = d.isFirst,
         e.startRip = d.startRip, e.start = d.start, e.reason = d.reason,
         e.rflags = d.rflags, e.isLast = d.isLast, e.hasInterrupt = d.hasInterrupt,
         e.vector = d.vector, e.interruptRip = d.interruptRip,
         e.isEmulation = d.isEmulation, e.new = d.new
  PROVE  e = d
  BY DEF Events

LEMMA LastFields ==
  ASSUME NEW e \in Events
  PROVE  LET d == LastEvent(e)
         IN  /\ d \in Events /\ d.isLast = TRUE /\ d.isValid = TRUE
             /\ d.position = e.position /\ d.isFirst = e.isFirst
             /\ d.startRip = e.startRip /\ d.start = e.start /\ d.reason = e.reason
             /\ d.rflags = e.rflags /\ d.hasInterrupt = e.hasInterrupt
             /\ d.vector = e.vector /\ d.interruptRip = e.interruptRip
             /\ d.isEmulation = e.isEmulation /\ d.new = e.new
  BY DEF LastEvent, Events

LEMMA CompletedFields ==
  ASSUME NEW e \in Events, NEW p \in Points
  PROVE  LET d == Completed(e, p)
         IN  /\ d \in Events /\ d.isLast = e.isLast /\ d.isValid = TRUE
             /\ d.position = e.position /\ d.isFirst = e.isFirst
             /\ d.startRip = e.startRip /\ d.start = e.start /\ d.reason = e.reason
             /\ d.rflags = p.rflags /\ d.hasInterrupt = e.hasInterrupt
             /\ d.vector = e.vector /\ d.interruptRip = e.interruptRip
             /\ d.isEmulation = IsEmulation(e, p) /\ d.new = ContextOf(p)
<1>1. IsEmulation(e, p) \in BOOLEAN
  BY DEF IsEmulation, Events
<1>2. ContextOf(p) \in Contexts /\ p.rflags \in Nat
  BY DEF ContextOf, Contexts, Points
<1> QED
  BY <1>1, <1>2 DEF Completed, Events

\* The interrupt the draft was given; that of the event, and its VMENTER.
ReadIrq(R, i, p) == IF i < p THEN R[i] ELSE ZeroPoint
FirstIrq(R, x) == IF Irqs(R, x) = {} THEN ZeroPoint ELSE R[Min(Irqs(R, x))]
Entered(R, x) == IF Complete(R, x) THEN R[EndOf(R, x)] ELSE ZeroPoint

HasDraftFields(d, R, x, i, p) ==
  /\ d \in Events /\ d.isLast = FALSE
  /\ d.position = x /\ d.isFirst = ~IsVmexit(R[x])
  /\ d.startRip = Known(R, x).rip /\ d.start = ContextOf(Known(R, x))
  /\ d.reason = Known(R, x).type
  /\ d.rflags = 0 /\ d.hasInterrupt = (i < p)
  /\ d.vector = ReadIrq(R, i, p).vector /\ d.interruptRip = ReadIrq(R, i, p).rip
  /\ d.isEmulation = ~IsVmexit(R[x]) /\ d.new = ContextOf(ZeroPoint)

HasEventFields(d, R, x) ==
  /\ d \in Events /\ d.isValid = TRUE /\ d.isLast = ~Complete(R, x)
  /\ d.position = x /\ d.isFirst = ~IsVmexit(R[x])
  /\ d.startRip = Known(R, x).rip /\ d.start = ContextOf(Known(R, x))
  /\ d.reason = Known(R, x).type
  /\ d.rflags = Entered(R, x).rflags /\ d.hasInterrupt = (Irqs(R, x) # {})
  /\ d.vector = FirstIrq(R, x).vector /\ d.interruptRip = FirstIrq(R, x).rip
  /\ d.isEmulation = Emulates(R, x) /\ d.new = ContextOf(Entered(R, x))

LEMMA DraftFields ==
  ASSUME NEW R \in Seq(Points), NEW x \in 1..Len(R), NEW i, NEW p,
         ReadIrq(R, i, p) \in Points
  PROVE  HasDraftFields(Drafted(R, x, i, p), R, x, i, p)
<1> DEFINE q == ReadIrq(R, i, p)
<1>1. Drafted(R, x, i, p) =
        [position |-> x, isValid |-> FALSE, isFirst |-> ~IsVmexit(R[x]),
         startRip |-> Known(R, x).rip, start |-> ContextOf(Known(R, x)),
         reason |-> Known(R, x).type, rflags |-> 0, isLast |-> FALSE,
         hasInterrupt |-> i < p, vector |-> q.vector, interruptRip |-> q.rip,
         isEmulation |-> ~IsVmexit(R[x]), new |-> ContextOf(ZeroPoint)]
  BY DraftIs DEF ReadIrq
<1> HIDE DEF q
<1>2. Known(R, x) \in Points /\ ZeroPoint \in Points
  BY PointsOfTheModel DEF Known
<1>3. \A z \in Points : /\ ContextOf(z) \in Contexts
                        /\ z.rip \in Nat /\ z.vector \in Nat /\ z.type \in Types
  BY DEF ContextOf, Contexts, Points
<1> QED
  BY <1>1, <1>2, <1>3, q \in Points DEF Events, q, HasDraftFields

LEMMA EventFields ==
  ASSUME NEW R \in Seq(Points), NEW x \in 1..Len(R),
         FirstIrq(R, x) \in Points, Entered(R, x) \in Points
  PROVE  HasEventFields(EventOf(R, x), R, x)
<1> DEFINE c == IF IsVmexit(R[x]) THEN R[x] ELSE ZeroPoint
           a == IF Irqs(R, x) = {} THEN ZeroPoint ELSE R[Min(Irqs(R, x))]
           b == IF Complete(R, x) THEN R[EndOf(R, x)] ELSE ZeroPoint
           q == FirstIrq(R, x)
           n == Entered(R, x)
<1>1. EventOf(R, x) =
        [position |-> x, isValid |-> TRUE, isFirst |-> ~IsVmexit(R[x]),
         startRip |-> c.rip, start |-> ContextOf(c),
         reason |-> c.type, rflags |-> b.rflags,
         isLast |-> ~Complete(R, x), hasInterrupt |-> Irqs(R, x) # {},
         vector |-> a.vector, interruptRip |-> a.rip,
         isEmulation |-> Emulates(R, x), new |-> ContextOf(b)]
  BY Zenon DEF EventOf
<1>2. a = q /\ b = n /\ c = Known(R, x) /\ c \in Points /\ q \in Points /\ n \in Points
  BY PointsOfTheModel DEF Known, FirstIrq, Entered
<1> HIDE DEF a, b, c, q, n
<1>3. EventOf(R, x) =
        [position |-> x, isValid |-> TRUE, isFirst |-> ~IsVmexit(R[x]),
         startRip |-> Known(R, x).rip, start |-> ContextOf(Known(R, x)),
         reason |-> Known(R, x).type, rflags |-> n.rflags,
         isLast |-> ~Complete(R, x), hasInterrupt |-> Irqs(R, x) # {},
         vector |-> q.vector, interruptRip |-> q.rip,
         isEmulation |-> Emulates(R, x), new |-> ContextOf(n)]
  BY <1>1, <1>2, Zenon
<1>4. Emulates(R, x) \in BOOLEAN
  BY DEF Emulates
<1>5. \A z \in Points : /\ ContextOf(z) \in Contexts /\ z.rflags \in Nat
                        /\ z.rip \in Nat /\ z.vector \in Nat /\ z.type \in Types
  BY DEF ContextOf, Contexts, Points
<1> QED
  <2> DEFINE d == EventOf(R, x)
  <2>1. /\ d \in Events /\ d.isValid = TRUE /\ d.isLast = ~Complete(R, x)
        /\ d.position = x /\ d.isFirst = ~IsVmexit(R[x])
        /\ d.startRip = Known(R, x).rip /\ d.start = ContextOf(Known(R, x))
        /\ d.reason = Known(R, x).type
        /\ d.rflags = n.rflags /\ d.hasInterrupt = (Irqs(R, x) # {})
        /\ d.vector = q.vector /\ d.interruptRip = q.rip
        /\ d.isEmulation = Emulates(R, x) /\ d.new = ContextOf(n)
    BY <1>2, <1>3, <1>4, <1>5 DEF Events
  <2> QED
    BY <2>1, Zenon DEF q, n, HasEventFields

LEMMA EventWithout ==
  ASSUME NEW R \in Seq(Points), NEW x \in 1..Len(R), NEW i \in 1..(Len(R) + 1),
         NEW p \in 1..(Len(R) + 1), ~Complete(R, x), Irqs(R, x) = i..(p - 1),
         i < p => Min(Irqs(R, x)) = i
  PROVE  EventOf(R, x) = LastEvent(Drafted(R, x, i, p))
<1> DEFINE e == Drafted(R, x, i, p)
           f == EventOf(R, x)
<1>1. /\ Emulates(R, x) = ~IsVmexit(R[x]) /\ (~Complete(R, x)) = TRUE
      /\ ZeroPoint.rflags = 0
  BY Unstarted DEF Emulates
<1>2. /\ ReadIrq(R, i, p) = FirstIrq(R, x) /\ (i < p) = (Irqs(R, x) # {})
      /\ ReadIrq(R, i, p) \in Points
      /\ Entered(R, x) = ZeroPoint /\ ZeroPoint \in Points
  <2>1. i \in Nat /\ p \in Nat
    OBVIOUS
  <2>2. ReadIrq(R, i, p) \in Points
    BY PointsOfTheModel DEF ReadIrq
  <2> QED
    BY <1>1, <2>1, <2>2, IrqIs, PointsOfTheModel DEF ReadIrq, FirstIrq, Entered
<1>3. HasDraftFields(e, R, x, i, p)
  BY <1>2, DraftFields
<1>4. HasEventFields(f, R, x)
  <2>1. FirstIrq(R, x) \in Points /\ Entered(R, x) \in Points
    BY <1>2
  <2> QED
    BY <2>1, EventFields
<1> HIDE DEF e, f
<1> DEFINE d == LastEvent(e)
<1>5. /\ d \in Events /\ d.isLast = TRUE /\ d.isValid = TRUE
      /\ d.position = e.position /\ d.isFirst = e.isFirst
      /\ d.startRip = e.startRip /\ d.start = e.start /\ d.reason = e.reason
      /\ d.rflags = e.rflags /\ d.hasInterrupt = e.hasInterrupt
      /\ d.vector = e.vector /\ d.interruptRip = e.interruptRip
      /\ d.isEmulation = e.isEmulation /\ d.new = e.new
  BY <1>3, LastFields DEF HasDraftFields
<1> HIDE DEF d
<1>6. f = d
  <2>1. /\ f.position = d.position /\ f.isValid = d.isValid /\ f.isFirst = d.isFirst
        /\ f.startRip = d.startRip /\ f.start = d.start /\ f.reason = d.reason
        /\ f.rflags = d.rflags /\ f.isLast = d.isLast
        /\ f.hasInterrupt = d.hasInterrupt
        /\ f.vector = d.vector /\ f.interruptRip = d.interruptRip
        /\ f.isEmulation = d.isEmulation /\ f.new = d.new
    BY <1>1, <1>2, <1>3, <1>4, <1>5, ZenonT(30) DEF HasDraftFields, HasEventFields
  <2> QED
    BY <1>4, <1>5, <2>1, SameEvent, Zenon DEF HasEventFields
<1> QED
  BY <1>6 DEF d, e, f

LEMMA EventWith ==
  ASSUME NEW R \in Seq(Points), NEW x \in 1..Len(R), NEW i \in 1..(Len(R) + 1),
         NEW p \in 1..Len(R), Complete(R, x), EndOf(R, x) = p,
         Irqs(R, x) = i..(p - 1), i < p => Min(Irqs(R, x)) = i
  PROVE  EventOf(R, x) = Completed(Drafted(R, x, i, p), R[p])
<1> DEFINE e == Drafted(R, x, i, p)
           f == EventOf(R, x)
<1>2. /\ ReadIrq(R, i, p) = FirstIrq(R, x) /\ (i < p) = (Irqs(R, x) # {})
      /\ ReadIrq(R, i, p) \in Points
      /\ Entered(R, x) = R[p] /\ R[p] \in Points
  <2>1. i \in Nat /\ p \in Nat /\ R[p] \in Points
    OBVIOUS
  <2>2. ReadIrq(R, i, p) \in Points
    BY PointsOfTheModel DEF ReadIrq
  <2>3. Entered(R, x) = R[p]
    BY DEF Entered
  <2>4. ReadIrq(R, i, p) = FirstIrq(R, x) /\ (i < p) = (Irqs(R, x) # {})
    BY <2>1, IrqIs, ZenonT(30) DEF ReadIrq, FirstIrq
  <2> QED
    BY <2>1, <2>2, <2>3, <2>4
<1>3. HasDraftFields(e, R, x, i, p)
  BY <1>2, DraftFields
<1>4. HasEventFields(f, R, x)
  <2>1. FirstIrq(R, x) \in Points /\ Entered(R, x) \in Points
    BY <1>2
  <2> QED
    BY <2>1, EventFields
<1> HIDE DEF e, f
<1>7. IsEmulation(e, R[p]) = Emulates(R, x)
  <2>2. CASE IsVmexit(R[x])
    <3>1. Known(R, x) = R[x] /\ ~e.isEmulation /\ ~e.isFirst
      BY <1>3, <2>2 DEF Known, HasDraftFields
    <3> QED
      BY <1>3, <2>2, <3>1 DEF IsEmulation, Emulates, HasDraftFields
  <2>3. CASE ~IsVmexit(R[x])
    <3>1. e.isEmulation
      BY <1>3, <2>3 DEF HasDraftFields
    <3> QED
      BY <2>3, <3>1 DEF IsEmulation, Emulates
  <2> QED
    BY <2>2, <2>3
<1> DEFINE d == Completed(e, R[p])
<1>5. /\ d \in Events /\ d.isLast = e.isLast /\ d.isValid = TRUE
      /\ d.position = e.position /\ d.isFirst = e.isFirst
      /\ d.startRip = e.startRip /\ d.start = e.start /\ d.reason = e.reason
      /\ d.rflags = R[p].rflags /\ d.hasInterrupt = e.hasInterrupt
      /\ d.vector = e.vector /\ d.interruptRip = e.interruptRip
      /\ d.isEmulation = IsEmulation(e, R[p]) /\ d.new = ContextOf(R[p])
  <2>1. e \in Events /\ R[p] \in Points
    BY <1>2, <1>3 DEF HasDraftFields
  <2> HIDE DEF d
  <2> QED
    BY <2>1, CompletedFields, Zenon DEF d
<1>6. (~Complete(R, x)) = FALSE
  OBVIOUS
<1> HIDE DEF d
<1>8. f = d
  <2>1. /\ f.position = d.position /\ f.isValid = d.isValid /\ f.isFirst = d.isFirst
        /\ f.startRip = d.startRip /\ f.start = d.start /\ f.reason = d.reason
        /\ f.rflags = d.rflags /\ f.isLast = d.isLast
        /\ f.hasInterrupt = d.hasInterrupt
        /\ f.vector = d.vector /\ f.interruptRip = d.interruptRip
        /\ f.isEmulation = d.isEmulation /\ f.new = d.new
    BY <1>2, <1>3, <1>4, <1>5, <1>6, <1>7, ZenonT(30) DEF HasDraftFields, HasEventFields
  <2> QED
    BY <1>4, <1>5, <2>1, SameEvent, Zenon DEF HasEventFields
<1> QED
  BY <1>8 DEF d, e, f

\* All interrupts of an event read to the end are fit to be one.
LEMMA OneInterrupt ==
  ASSUME NEW R \in Seq(Points), NEW x, NEW i, NEW k, NEW p, Shape(R, x, i, k, p),
         Irqs(R, x) = i..(p - 1)
  PROVE  /\ Cardinality({j \in Irqs(R, x) : j = x \/ R[j - 1] # R[j]}) <= 2
         /\ \A j, n \in Irqs(R, x) : IsEquivalent(R[j], R[n])
<1>1. {j \in Irqs(R, x) : j = x \/ R[j - 1] # R[j]} \subseteq {i, k}
  BY ShapeFresh
<1>2. ASSUME NEW j \in Irqs(R, x), NEW n \in Irqs(R, x) PROVE IsEquivalent(R[j], R[n])
  <2>1. IsEquivalent(R[j], R[i]) /\ IsEquivalent(R[n], R[i])
    BY ShapeStates
  <2> QED
    BY <2>1 DEF IsEquivalent
<1> QED
  BY <1>1, <1>2, TwoAtMost

\* The file ends.
LEMMA EndsUnfinished ==
  ASSUME NEW R \in Seq(Points), NEW x, NEW i, NEW k,
         Shape(R, x, i, k, Len(R) + 1), IsStart(R, x)
  PROVE  /\ EventOf(R, x) = LastEvent(Drafted(R, x, i, Len(R) + 1))
         /\ WellFormedEvent(R, x)
         /\ ~Complete(R, x) /\ EndOf(R, x) = Len(R)
<1> DEFINE p == Len(R) + 1
<1>1. /\ x \in 1..Len(R) /\ i \in x..p /\ k \in i..p
      /\ x \in Nat /\ i \in Nat /\ k \in Nat /\ p \in Nat /\ p - 1 = Len(R)
  BY ShapeTypes
<1>2. Reach(R, x) = Len(R)
  <2>1. \A j \in x..Len(R) : IsVmexit(R[j]) => SameRun(R, x, j)
    BY <1>1, ShapeKinds
  <2> QED
    BY <1>1, <2>1, ReachIs
<1>3. ~Complete(R, x)
  <2>1. ASSUME NEW j \in x..Len(R) PROVE ~IsVmenter(R[j])
    <3>1. IsVmexit(R[j]) \/ IsInterrupt(R[j])
      BY <1>1, ShapeKinds, SMTT(30)
    <3> QED
      BY <3>1, Kinds
  <2> QED
    BY <1>2, <2>1 DEF Complete, Enters
<1>4. EndOf(R, x) = Len(R)
  BY <1>2, <1>3 DEF EndOf
<1>5. Irqs(R, x) = i..(p - 1) /\ (i < p => Min(Irqs(R, x)) = i)
  <2>1. EndOf(R, x) \in x..Len(R) /\ EndOf(R, x) = p - 1 /\ EndOf(R, x) >= p - 1
    BY <1>1, <1>4
  <2> HIDE DEF p
  <2> QED
    BY <2>1, ShapeIrqs DEF p
<1>6. EventOf(R, x) = LastEvent(Drafted(R, x, i, p))
  BY <1>1, <1>3, <1>5, EventWithout
<1>7. WellFormedEvent(R, x)
  <2>1. /\ Cardinality({j \in Irqs(R, x) : j = x \/ R[j - 1] # R[j]}) <= 2
        /\ \A j, n \in Irqs(R, x) : IsEquivalent(R[j], R[n])
    BY <1>5, OneInterrupt
  <2> QED
    BY <1>2, <1>3, <2>1 DEF WellFormedEvent
<1> QED
  BY <1>3, <1>4, <1>6, <1>7

\* Its VMENTER comes.
LEMMA EndsAtEnter ==
  ASSUME NEW R \in Seq(Points), NEW x, NEW i, NEW k, NEW p,
         Shape(R, x, i, k, p), IsStart(R, x), p <= Len(R), IsVmenter(R[p])
  PROVE  /\ EventOf(R, x) = Completed(Drafted(R, x, i, p), R[p])
         /\ Complete(R, x) /\ EndOf(R, x) = p /\ p <= Reach(R, x)
         /\ WellFormedEvent(R, x) <=>
              /\ i < p => IsEquivalent(R[p], R[i])
              /\ IsSane(EventOf(R, x))
<1>1. /\ x \in 1..Len(R) /\ i \in x..p /\ k \in i..p /\ p \in x..Len(R)
      /\ x \in Nat /\ i \in Nat /\ k \in Nat /\ p \in Nat
  BY ShapeTypes
<1>2. Reach(R, x) >= p /\ Reach(R, x) \in x..Len(R)
  <2>1. \A j \in x..p : IsVmexit(R[j]) => SameRun(R, x, j)
    <3>1. \A j \in x..p : j = p \/ j \in x..(p - 1)
      BY <1>1
    <3> QED
      BY <3>1, ShapeKinds, Kinds
  <2> QED
    BY <1>1, <2>1, ReachesFurther, ReachFacts
<1>3. Complete(R, x) /\ EndOf(R, x) = p
  <2>1. p \in Enters(R, x) /\ Enters(R, x) \in SUBSET Nat
    BY <1>1, <1>2 DEF Enters
  <2>2. ASSUME NEW j \in Enters(R, x) PROVE p <= j
    <3> SUFFICES ASSUME j \in x..(p - 1) PROVE FALSE
      BY <1>1, <1>2 DEF Enters
    <3>1. IsVmexit(R[j]) \/ IsInterrupt(R[j])
      BY <1>1, ShapeKinds, SMTT(30)
    <3> QED
      BY <3>1, Kinds DEF Enters
  <2> QED
    BY <2>1, <2>2, MinFound DEF Complete, EndOf
<1>5. Irqs(R, x) = i..(p - 1) /\ (i < p => Min(Irqs(R, x)) = i)
  <2>1. /\ EndOf(R, x) \in x..Len(R) /\ EndOf(R, x) = p /\ EndOf(R, x) >= p - 1
        /\ ~IsInterrupt(R[p])
    BY <1>1, <1>3, Kinds
  <2> QED
    BY <2>1, ShapeIrqs
<1>6. EventOf(R, x) = Completed(Drafted(R, x, i, p), R[p])
  BY <1>1, <1>3, <1>5, EventWith
<1>7. /\ Cardinality({j \in Irqs(R, x) : j = x \/ R[j - 1] # R[j]}) <= 2
      /\ \A j, n \in Irqs(R, x) : IsEquivalent(R[j], R[n])
  BY <1>5, OneInterrupt
<1>8. ASSUME WellFormedEvent(R, x), i < p PROVE IsEquivalent(R[p], R[i])
  <2>1. i \in Irqs(R, x)
    BY <1>1, <1>5, <1>8
  <2>2. i \in Irqs(R, x) \cup {p} /\ p \in Irqs(R, x) \cup {p} /\ Irqs(R, x) # {}
    BY <2>1
  <2>3. \A j, n \in Irqs(R, x) \cup {p} : IsEquivalent(R[j], R[n])
    BY <1>3, <1>8, <2>2 DEF WellFormedEvent
  <2> QED
    BY <2>2, <2>3
<1>9. ASSUME i < p => IsEquivalent(R[p], R[i]), Irqs(R, x) # {}
      PROVE  \A j, n \in Irqs(R, x) \cup {p} : IsEquivalent(R[j], R[n])
  <2>1. i \in Irqs(R, x) /\ IsEquivalent(R[p], R[i])
    BY <1>1, <1>5, <1>9
  <2>2. \A j \in Irqs(R, x) \cup {p} : IsEquivalent(R[j], R[i])
    BY <1>7, <2>1
  <2> QED
    BY <2>2 DEF IsEquivalent
<1>10. WellFormedEvent(R, x) <=>
         (i < p => IsEquivalent(R[p], R[i])) /\ IsSane(EventOf(R, x))
  <2>1. WellFormedEvent(R, x) => (i < p => IsEquivalent(R[p], R[i])) /\ IsSane(EventOf(R, x))
    BY <1>3, <1>8 DEF WellFormedEvent
  <2>2. (i < p => IsEquivalent(R[p], R[i])) /\ IsSane(EventOf(R, x)) => WellFormedEvent(R, x)
    BY <1>3, <1>7, <1>9 DEF WellFormedEvent
  <2> QED
    BY <2>1, <2>2
<1> QED
  BY <1>2, <1>3, <1>6, <1>10

\* A VMEXIT comes instead.
LEMMA EndsAtExit ==
  ASSUME NEW R \in Seq(Points), NEW x, NEW i, NEW k, NEW p,
         Shape(R, x, i, k, p), p > x, p <= Len(R), IsVmexit(R[p])
  PROVE  /\ ~WellFormedEvent(R, x) /\ p <= Reach(R, x) + 1
<1>1. /\ x \in 1..Len(R) /\ p \in (x + 1)..Len(R) /\ x \in Nat /\ p \in Nat
  BY ShapeTypes
<1>2. ~SameRun(R, x, p)
  <2> SUFFICES ASSUME SameRun(R, x, p) PROVE FALSE
    OBVIOUS
  <2>1. p \in x..p /\ p - 1 \in x..p
    BY <1>1
  <2>2. R[p] # R[p - 1]
    BY <1>1 DEF Shape
  <2> QED
    BY <2>1, <2>2 DEF SameRun
<1>3. Reach(R, x) = p - 1
  <2>1. \A j \in x..(p - 1) : IsVmexit(R[j]) => SameRun(R, x, j)
    BY ShapeKinds
  <2>2. p - 1 \in x..Len(R) /\ (p - 1) + 1 = p
    BY <1>1
  <2> QED
    BY <1>1, <1>2, <2>1, <2>2, ReachIs
<1>4. ~Complete(R, x)
  <2>1. ASSUME NEW j \in x..(p - 1) PROVE ~IsVmenter(R[j])
    <3>1. IsVmexit(R[j]) \/ IsInterrupt(R[j])
      BY <1>1, ShapeTypes, ShapeKinds, SMTT(30)
    <3> QED
      BY <3>1, Kinds
  <2> QED
    BY <1>3, <2>1 DEF Complete, Enters
<1> QED
  BY <1>1, <1>3, <1>4 DEF WellFormedEvent

\* An interrupt comes that is another one.
LEMMA EndsAtInterrupt ==
  ASSUME NEW R \in Seq(Points), NEW x, NEW i, NEW k, NEW p,
         Shape(R, x, i, k, p), IsStart(R, x), i < p, p <= Len(R), IsInterrupt(R[p]),
         ~IsEquivalent(R[p], R[i]) \/ k < p
  PROVE  ~WellFormedEvent(R, x) /\ p <= Reach(R, x)
<1>1. /\ x \in 1..Len(R) /\ i \in x..p /\ k \in i..p /\ p \in x..Len(R)
      /\ x \in Nat /\ i \in Nat /\ k \in Nat /\ p \in Nat /\ i < k
  BY ShapeTypes DEF Shape
<1>2. Reach(R, x) >= p /\ Reach(R, x) \in x..Len(R)
  <2>1. \A j \in x..p : IsVmexit(R[j]) => SameRun(R, x, j)
    <3>1. \A j \in x..p : j = p \/ j \in x..(p - 1)
      BY <1>1
    <3> QED
      BY <3>1, ShapeKinds, Kinds
  <2> QED
    BY <1>1, <2>1, ReachesFurther, ReachFacts
<1>3. EndOf(R, x) >= p /\ EndOf(R, x) \in x..Len(R)
  <2>1. /\ EndOf(R, x) \in x..Reach(R, x)
        /\ Complete(R, x) => IsVmenter(R[EndOf(R, x)])
        /\ ~Complete(R, x) => EndOf(R, x) = Reach(R, x)
    BY <1>1, EndFacts DEF EndOf
  <2> SUFFICES ASSUME EndOf(R, x) < p PROVE FALSE
    BY <1>1, <1>2, <2>1
  <2>2. Complete(R, x) /\ EndOf(R, x) \in x..(p - 1) /\ IsVmenter(R[EndOf(R, x)])
    BY <1>1, <1>2, <2>1
  <2>3. IsVmexit(R[EndOf(R, x)]) \/ IsInterrupt(R[EndOf(R, x)])
    BY <1>1, <2>2, ShapeKinds
  <2> QED
    BY <2>2, <2>3, Kinds
<1>4. /\ \A j \in i..p : j \in Irqs(R, x)
      /\ i \in Irqs(R, x) /\ p \in Irqs(R, x)
  <2>1. \A j \in i..p : IsInterrupt(R[j])
    <3>1. \A j \in i..p : j = p \/ j \in i..(p - 1)
      BY <1>1
    <3> QED
      BY <3>1, ShapeKinds
  <2>2. \A j \in i..p : j \in x..EndOf(R, x)
    BY <1>1, <1>3
  <2>3. \A j \in i..p : j \in Irqs(R, x)
    BY <2>1, <2>2 DEF Irqs
  <2> QED
    BY <1>1, <2>3
<1> SUFFICES ASSUME WellFormedEvent(R, x) PROVE FALSE
  BY <1>2
<1>5. IsEquivalent(R[p], R[i])
  <2>1. \A j, n \in Irqs(R, x) : IsEquivalent(R[j], R[n])
    BY <1>4 DEF WellFormedEvent
  <2> QED
    BY <1>4, <2>1
<1> DEFINE fresh == {j \in Irqs(R, x) : j = x \/ R[j - 1] # R[j]}
<1>6. k < p /\ k \in Irqs(R, x)
  BY <1>1, <1>4, <1>5
<1>7. i \in fresh
  <2>1. i = x \/ i - 1 \in x..(i - 1)
    BY <1>1
  <2>2. i = x \/ (IsVmexit(R[i - 1]) /\ IsInterrupt(R[i]))
    <3>1. i \in i..(p - 1)
      BY <1>1
    <3> QED
      BY <2>1, <3>1, ShapeKinds
  <2> QED
    BY <1>4, <2>2, Kinds
<1>8. k \in fresh
  <2>1. k - 1 \in i..(k - 1) /\ k \in k..(p - 1)
    BY <1>1, <1>6
  <2>2. R[k - 1] = R[i] /\ R[k] # R[i]
    BY <2>1, ShapeKinds
  <2> QED
    BY <1>6, <2>2
<1>9. p \in fresh
  <2>1. p \in (x + 1)..Len(R)
    BY <1>1
  <2> QED
    BY <1>4, <2>1 DEF Shape
<1>10. IsFiniteSet(fresh)
  <2>1. IsFiniteSet(x..EndOf(R, x)) /\ fresh \subseteq x..EndOf(R, x)
    BY <1>1, <1>3, FS_Interval DEF Irqs
  <2> QED
    BY <2>1, FS_Subset
<1>11. Cardinality(fresh) > 2
  <2>1. i # k /\ k # p /\ i # p
    BY <1>1, <1>6
  <2> HIDE DEF fresh
  <2> QED
    BY <1>7, <1>8, <1>9, <1>10, <2>1, ThreeAtLeast
<1>12. Cardinality(fresh) <= 2 /\ Cardinality(fresh) \in Nat
  BY <1>10, FS_CardinalityType DEF WellFormedEvent
<1> QED
  BY <1>11, <1>12
-----------------------------------------------------------------------------
(* The parts of an event come one after the other.                         *)

\* Records p to q - 1 are identical, and q is the first that is not.
Run(R, p, q) ==
  /\ q \in (p + 1)..(Len(R) + 1)
  /\ \A j \in (p + 1)..(q - 1) : R[j] = R[p]
  /\ q <= Len(R) => R[q] # R[p]

LEMMA ExitIsPart ==
  ASSUME NEW R \in Seq(Points), NEW x \in 1..Len(R), IsVmexit(R[x]), NEW q, Run(R, x, q)
  PROVE  /\ Shape(R, x, q, q, q)
         /\ Drafted(R, x, q, q) = EventStartingAt(R[x], x)
<1>1. /\ q \in (x + 1)..(Len(R) + 1) /\ \A j \in (x + 1)..(q - 1) : R[j] = R[x]
      /\ q <= Len(R) => R[q] # R[x]
      /\ x \in Nat /\ q \in Nat /\ Len(R) \in Nat
  BY DEF Run
<1>2. \A j \in x..(q - 1) : R[j] = R[x]
  <2>1. \A j \in x..(q - 1) : j = x \/ j \in (x + 1)..(q - 1)
    BY <1>1
  <2> QED
    BY <1>1, <2>1
<1>3. Led(R, x, q)
  BY <1>1, <1>2 DEF Led
<1>4. q \in (x + 1)..Len(R) => R[q] # R[q - 1]
  <2>1. q - 1 \in x..(q - 1)
    BY <1>1
  <2> QED
    BY <1>1, <1>2, <2>1
<1>5. Shape(R, x, q, q, q)
  BY <1>1, <1>3, <1>4 DEF Shape
<1> QED
  BY <1>1, <1>5 DEF Drafted, Started

LEMMA NothingIsPart ==
  ASSUME NEW R \in Seq(Points), 1 \in 1..Len(R), ~IsVmexit(R[1])
  PROVE  /\ Shape(R, 1, 1, 1, 1)
         /\ Drafted(R, 1, 1, 1) =
              [NoEvent EXCEPT !.position = 1, !.isFirst = TRUE, !.isEmulation = TRUE]
<1>1. Led(R, 1, 1)
  BY DEF Led
<1>2. Shape(R, 1, 1, 1, 1)
  BY <1>1 DEF Shape
<1> QED
  BY <1>2 DEF Drafted, Started

LEMMA IrqIsPart ==
  ASSUME NEW R \in Seq(Points), NEW x, NEW k, NEW p, Shape(R, x, p, k, p),
         p <= Len(R), IsInterrupt(R[p]), NEW q, Run(R, p, q)
  PROVE  /\ Shape(R, x, p, q, q)
         /\ Drafted(R, x, p, q) =
              [Drafted(R, x, p, p) EXCEPT !.hasInterrupt = TRUE, !.vector = R[p].vector,
                                          !.interruptRip = R[p].rip]
<1>1. /\ q \in (p + 1)..(Len(R) + 1) /\ \A j \in (p + 1)..(q - 1) : R[j] = R[p]
      /\ q <= Len(R) => R[q] # R[p]
  BY DEF Run
<1>2. /\ x \in 1..Len(R) /\ p \in x..Len(R) /\ Led(R, x, p)
      /\ x \in Nat /\ p \in Nat /\ q \in Nat /\ Len(R) \in Nat
  BY <1>1, ShapeTypes DEF Shape
<1>3. \A j \in p..(q - 1) : R[j] = R[p]
  <2>1. \A j \in p..(q - 1) : j = p \/ j \in (p + 1)..(q - 1)
    BY <1>1, <1>2
  <2> QED
    BY <1>1, <2>1
<1>4. q \in (x + 1)..Len(R) => R[q] # R[q - 1]
  <2>1. q - 1 \in p..(q - 1)
    BY <1>1, <1>2
  <2> QED
    BY <1>1, <1>2, <1>3, <2>1
<1>5. Shape(R, x, p, q, q)
  BY <1>1, <1>2, <1>3, <1>4 DEF Shape
<1>6. p < q /\ ~(p < p)
  BY <1>1, <1>2
<1>7. /\ Drafted(R, x, p, p) = Started(R, x)
      /\ Drafted(R, x, p, q) =
           [Started(R, x) EXCEPT !.hasInterrupt = TRUE, !.vector = R[p].vector,
                                 !.interruptRip = R[p].rip]
  BY <1>6, Zenon DEF Drafted
<1> QED
  BY <1>5, <1>7, Zenon

LEMMA RepeatIsPart ==
  ASSUME NEW R \in Seq(Points), NEW x, NEW i, NEW p, Shape(R, x, i, p, p), i < p,
         p <= Len(R), IsInterrupt(R[p]), IsEquivalent(R[p], R[i]), NEW q, Run(R, p, q)
  PROVE  /\ Shape(R, x, i, p, q)
         /\ Drafted(R, x, i, q) = Drafted(R, x, i, p)
<1>1. /\ q \in (p + 1)..(Len(R) + 1) /\ \A j \in (p + 1)..(q - 1) : R[j] = R[p]
      /\ q <= Len(R) => R[q] # R[p]
  BY DEF Run
<1>2. /\ x \in 1..Len(R) /\ i \in x..p /\ p \in x..Len(R) /\ Led(R, x, i)
      /\ x \in Nat /\ i \in Nat /\ p \in Nat /\ q \in Nat /\ Len(R) \in Nat
      /\ \A j \in i..(p - 1) : R[j] = R[i]
      /\ IsInterrupt(R[i])
  BY <1>1, ShapeTypes DEF Shape
<1>3. \A j \in p..(q - 1) : R[j] = R[p]
  <2>1. \A j \in p..(q - 1) : j = p \/ j \in (p + 1)..(q - 1)
    BY <1>1, <1>2
  <2> QED
    BY <1>1, <2>1
<1>4. q \in (x + 1)..Len(R) => R[q] # R[q - 1]
  <2>1. q - 1 \in p..(q - 1)
    BY <1>1, <1>2
  <2> QED
    BY <1>1, <1>2, <1>3, <2>1
<1>5. R[p] # R[i]
  <2>1. p \in (x + 1)..Len(R) /\ p - 1 \in i..(p - 1)
    BY <1>2
  <2>2. R[p] # R[p - 1]
    BY <2>1 DEF Shape
  <2> QED
    BY <1>2, <2>1, <2>2
<1>6. Shape(R, x, i, p, q)
  BY <1>1, <1>2, <1>3, <1>4, <1>5 DEF Shape
<1> QED
  BY <1>1, <1>2, <1>6 DEF Drafted

-----------------------------------------------------------------------------
(* next and seek on a scenario.                                            *)

LEMMA ScenarioFacts ==
  ASSUME NEW f, IsFile(f), IsScenario(f)
  PROVE  /\ f.recs \in Seq(Points) /\ PointCount(f) = Len(f.recs) /\ Len(f.recs) \in Nat
         /\ f.version = 3 /\ FileSize(f) = HeaderSize + 2 * Len(f.recs)
         /\ HeaderSize \in Nat /\ HeaderSize = 2 * HeaderSlots /\ HeaderSlots \in Nat
         /\ HeaderSlots + Len(f.recs) + 2 < RecordQuotient - HeaderSlots
         /\ RecordQuotient \in Nat /\ Word \in Nat /\ 2 * RecordQuotient <= Word
         /\ HeaderSize + 2 * Len(f.recs) + 2 < OffsetLimit /\ OffsetLimit \in Nat
         /\ \A j \in 1..Len(f.recs) : f.recs[j] # NoPoint /\ Valid(f.recs[j])
<1>1. /\ f.recs \in Seq(Points) /\ PointCount(f) = Len(f.recs) /\ Len(f.recs) \in Nat
      /\ 2 * HeaderSlots + PointCount(f) + 2 < RecordQuotient
      /\ FileSize(f) = HeaderSize + 2 * PointCount(f) + TailSize(f)
      /\ HeaderSize \in Nat /\ HeaderSize = 2 * HeaderSlots
  BY FileFacts, FileSizeFacts DEF PointCount
<1>2. f.version = 3 /\ TailSize(f) = 0 /\ \A j \in 1..Len(f.recs) : Valid(f.recs[j])
  BY <1>1 DEF IsScenario
<1>3. \A j \in 1..Len(f.recs) : f.recs[j] # NoPoint
  BY <1>2 DEF Valid, NoPoint
<1>4. FileSize(f) = HeaderSize + 2 * Len(f.recs)
  BY <1>1, <1>2
<1>5. HeaderSlots + Len(f.recs) + 2 < RecordQuotient - HeaderSlots
  <2>1. HeaderSlots \in Nat /\ RecordQuotient \in Nat /\ Len(f.recs) \in Nat
        /\ 2 * HeaderSlots + Len(f.recs) + 2 < RecordQuotient
    BY <1>1, Sizes
  <2>2. \A a, b, c \in Nat : 2 * a + b + 2 < c => a + b + 2 < c - a
    OBVIOUS
  <2> QED
    BY <2>1, <2>2
<1>6. HeaderSize + 2 * Len(f.recs) + 2 < OffsetLimit /\ OffsetLimit \in Nat
  BY <1>4, FileSizeFacts, Sizes
<1> QED
  BY <1>1, <1>2, <1>3, <1>4, <1>5, <1>6, Sizes

LEMMA ScenarioPoints ==
  ASSUME NEW f, IsFile(f), IsScenario(f), NEW p \in Nat, p < RecordQuotient - HeaderSlots
  PROVE  /\ OffsetOf(p) = HeaderSize + 2 * p
         /\ p < Len(f.recs) => PointAt(f, HeaderSize + 2 * p) = f.recs[p + 1]
         /\ p >= Len(f.recs) => PointAt(f, HeaderSize + 2 * p) = ZeroPoint
<1>1. /\ PointCount(f) = Len(f.recs) /\ Len(f.recs) \in Nat
      /\ FileSize(f) = HeaderSize + 2 * Len(f.recs) /\ HeaderSize \in Nat
      /\ HeaderSize = 2 * HeaderSlots /\ HeaderSlots \in Nat
      /\ HeaderSlots + Len(f.recs) + 2 < RecordQuotient - HeaderSlots
      /\ RecordQuotient \in Nat /\ Word \in Nat /\ 2 * RecordQuotient <= Word
  BY ScenarioFacts
<1>2. \A z \in Nat : z < RecordQuotient - HeaderSlots => OffsetOf(z) = HeaderSize + 2 * z
  BY <1>1 DEF OffsetOf
<1>3. ASSUME p < Len(f.recs) PROVE PointAt(f, HeaderSize + 2 * p) = f.recs[p + 1]
  <2>1. /\ p + 1 \in 1..PointCount(f) /\ HeaderSize + 2 * p \in Nat
        /\ (HeaderSize + 2 * p) + 2 = OffsetOf(p + 1)
    BY <1>1, <1>2, <1>3
  <2> QED
    BY <2>1, OffsetOfRecord
<1>4. ASSUME p >= Len(f.recs) PROVE PointAt(f, HeaderSize + 2 * p) = ZeroPoint
  <2>1. HeaderSize + 2 * p >= FileSize(f)
    BY <1>1, <1>4
  <2> QED
    BY <2>1 DEF PointAt
<1> QED
  BY <1>2, <1>3, <1>4

\* next goes to the next record that differs, or to the end of the file.
LEMMA NextGoesOn ==
  ASSUME NEW f, IsFile(f), IsScenario(f), NEW r \in Reader, NEW p \in Nat,
         p < RecordQuotient - HeaderSlots, StandsAfter(r, p), NEW q \in NextFrom(f, r)
  PROVE  /\ q.event = NoEvent
         /\ p > Len(f.recs) => q.stream.eof /\ q.current = ZeroPoint /\ q.position = p
         /\ p <= Len(f.recs) =>
              \E z \in (p + 1)..(Len(f.recs) + 1) :
                /\ \A j \in (p + 1)..(z - 1) : f.recs[j] = r.current
                /\ z <= Len(f.recs) =>
                     f.recs[z] # r.current /\ StandsAfter(q, z) /\ q.current = f.recs[z]
                /\ z = Len(f.recs) + 1 =>
                     q.stream.eof /\ q.current = ZeroPoint /\ q.position = Len(f.recs)
<1>1. /\ Len(f.recs) \in Nat /\ f.version = 3 /\ TailSize(f) = 0
  BY ScenarioFacts DEF IsScenario
<1>2. EndPoint(f) = ZeroPoint
  BY <1>1 DEF EndPoint
<1> QED
  BY <1>1, <1>2, NextInFile

\* On a reader that stands at a record, or before the first.
LEMMA StepNext ==
  ASSUME IInv, IsScenario(file), NEW r \in NextFrom(file, Here), Become(r), file' = file
  PROVE  /\ OnStart =>
              /\ event' = NoEvent
              /\ Count >= 1 => AtRecord' /\ position' = 1 /\ Valid(r.current)
              /\ Count = 0 => AtEnd' /\ position' = 0 /\ ~Valid(r.current)
         /\ AtRecord =>
              /\ event' = NoEvent
              /\ \E q : /\ Run(Records, position, q)
                        /\ q <= Count => AtRecord' /\ position' = q /\ Valid(r.current)
                        /\ q = Count + 1 => AtEnd' /\ position' = Count /\ ~Valid(r.current)
<1> DEFINE R == Records
           L == Len(R)
<1>1. /\ R \in Seq(Points) /\ L \in Nat /\ IsFile(file) /\ Here \in Reader
      /\ L + 1 < RecordQuotient - HeaderSlots
      /\ \A j \in 1..L : R[j] # NoPoint /\ Valid(R[j])
      /\ Here.stream = stream /\ Here.position = position /\ Here.current = current
  <2>1. IsFile(file) /\ Here \in Reader
    BY HereIsReader DEF IInv
  <2>2. Here.stream = stream /\ Here.position = position /\ Here.current = current
    BY DEF Here
  <2> QED
    BY <2>1, <2>2, ScenarioFacts, Sizes DEF Records
<1>2. ~Valid(ZeroPoint)
  BY DEF Valid, ZeroPoint, NoPoint
<1>3. /\ stream' = r.stream /\ current' = r.current /\ position' = r.position
      /\ event' = r.event /\ Count' = L /\ Records' = R /\ HeaderSize' = HeaderSize
  BY DEF Become, Count, Records
<1>4. ASSUME NEW p \in 0..L, StandsAfter(Here, p)
      PROVE  /\ r.event = NoEvent
             /\ \E z \in (p + 1)..(L + 1) :
                  /\ \A j \in (p + 1)..(z - 1) : R[j] = current
                  /\ z <= L => R[z] # current /\ StandsAfter(r, z) /\ r.current = R[z]
                  /\ z = L + 1 => r.stream.eof /\ r.current = ZeroPoint /\ r.position = L
  <2>1. p \in Nat /\ p < RecordQuotient - HeaderSlots /\ p <= L
    BY <1>1, Sizes
  <2>2. R = file.recs /\ L = Len(file.recs) /\ IsFile(file) /\ Here \in Reader
    BY <1>1 DEF Records
  <2> HIDE DEF R, L
  <2>3. /\ r.event = NoEvent
        /\ \E z \in (p + 1)..(Len(file.recs) + 1) :
             /\ \A j \in (p + 1)..(z - 1) : file.recs[j] = Here.current
             /\ z <= Len(file.recs) =>
                  file.recs[z] # Here.current /\ StandsAfter(r, z) /\ r.current = file.recs[z]
             /\ z = Len(file.recs) + 1 =>
                  r.stream.eof /\ r.current = ZeroPoint /\ r.position = Len(file.recs)
    BY <1>4, <2>1, <2>2, NextGoesOn, SMTT(30)
  <2> QED
    BY <1>1, <2>2, <2>3
<1>5. ASSUME NEW z \in 1..(L + 1),
             z <= L => StandsAfter(r, z) /\ r.current = R[z],
             z = L + 1 => r.stream.eof /\ r.current = ZeroPoint /\ r.position = L
      PROVE  /\ z <= L => AtRecord' /\ position' = z /\ Valid(r.current)
             /\ z = L + 1 => AtEnd' /\ position' = L /\ ~Valid(r.current)
  <2>1. ASSUME z <= L PROVE AtRecord' /\ position' = z /\ Valid(r.current)
    <3>1. StandsAfter(r, z) /\ r.current = R[z] /\ z \in 1..L
      BY <1>1, <1>5, <2>1
    <3> QED
      BY <1>1, <1>3, <3>1 DEF StandsAfter, AtRecord
  <2>2. ASSUME z = L + 1 PROVE AtEnd' /\ position' = L /\ ~Valid(r.current)
    BY <1>1, <1>2, <1>3, <1>5, <2>2 DEF AtEnd
  <2> QED
    BY <2>1, <2>2
<1>6. ASSUME OnStart
      PROVE  /\ event' = NoEvent
             /\ Count >= 1 => AtRecord' /\ position' = 1 /\ Valid(r.current)
             /\ Count = 0 => AtEnd' /\ position' = 0 /\ ~Valid(r.current)
  <2>1. StandsAfter(Here, 0) /\ 0 \in 0..L /\ current = NoPoint
    <3>1. HeaderSize \in Nat /\ HeaderSize + 2 * 0 = HeaderSize
      BY <1>1, FileSizeFacts
    <3> QED
      BY <1>1, <1>6, <3>1 DEF OnStart, StandsAfter
  <2>2. PICK z \in 1..(L + 1) :
          /\ \A j \in 1..(z - 1) : R[j] = NoPoint
          /\ z <= L => R[z] # current /\ StandsAfter(r, z) /\ r.current = R[z]
          /\ z = L + 1 => r.stream.eof /\ r.current = ZeroPoint /\ r.position = L
    BY <1>4, <2>1
  <2>3. z = 1
    <3>1. z > 1 => 1 \in 1..(z - 1) /\ 1 \in 1..L
      BY <1>1
    <3> QED
      BY <1>1, <2>2, <3>1
  <2> QED
    BY <1>1, <1>3, <1>4, <1>5, <2>1, <2>2, <2>3 DEF Count
<1>7. ASSUME AtRecord
      PROVE  /\ event' = NoEvent
             /\ \E q : /\ Run(R, position, q)
                       /\ q <= L => AtRecord' /\ position' = q /\ Valid(r.current)
                       /\ q = L + 1 => AtEnd' /\ position' = L /\ ~Valid(r.current)
  <2>1. StandsAfter(Here, position) /\ position \in 0..L /\ position \in 1..L
        /\ current = R[position]
    BY <1>1, <1>7 DEF AtRecord, StandsAfter, Count
  <2>2. PICK z \in (position + 1)..(L + 1) :
          /\ \A j \in (position + 1)..(z - 1) : R[j] = current
          /\ z <= L => R[z] # current /\ StandsAfter(r, z) /\ r.current = R[z]
          /\ z = L + 1 => r.stream.eof /\ r.current = ZeroPoint /\ r.position = L
    BY <1>4, <2>1
  <2>3. Run(R, position, z)
    BY <2>1, <2>2 DEF Run
  <2>4. z \in 1..(L + 1)
    BY <1>1, <2>1
  <2> QED
    BY <1>3, <1>4, <1>5, <2>1, <2>2, <2>3, <2>4
<1> QED
  BY <1>6, <1>7 DEF Count

\* seek goes to the record asked for, or to the end of the file.
LEMMA StepSeek ==
  ASSUME IInv, IsScenario(file), stream.isOpen, NEW p \in 0..(RecordQuotient - HeaderSlots - 1),
         p # 0 => HeaderSize + 2 * (p - 1) < OffsetLimit,
         NEW r \in SeekFrom(file, Here, p), file' = file,
         stream' = r.stream, current' = r.current, position' = r.position
  PROVE  /\ p = 0 => OnStart' /\ r.event = event
         /\ p \in 1..Count =>
              AtRecord' /\ position' = p /\ r.event = NoEvent /\ r.current = Records[p]
         /\ p > Count => AtEnd' /\ r.event = NoEvent /\ r.current = ZeroPoint
<1> DEFINE R == Records
           L == Len(R)
<1>1. /\ R \in Seq(Points) /\ L \in Nat /\ IsFile(file) /\ Here \in Reader
      /\ L + 1 < RecordQuotient - HeaderSlots /\ RecordQuotient - HeaderSlots \in Nat
      /\ \A j \in 1..L : R[j] # NoPoint
      /\ Here.stream = stream /\ Here.event = event /\ sized
      /\ stream \in S!Streams /\ HeaderSize \in Nat
  <2>1. IsFile(file) /\ Here \in Reader
    BY HereIsReader DEF IInv
  <2> QED
    BY <2>1, HereIsReader, ScenarioFacts, Sizes DEF Records, IInv, OpenIsSized, TypeOK
<1>2. Count' = L /\ Records' = R /\ HeaderSize' = HeaderSize
  BY DEF Count, Records
<1>3. ASSUME NEW to \in Nat
      PROVE  /\ ~S!Seek(stream, to).fail /\ ~S!Seek(stream, to).eof
             /\ S!Seek(stream, to).at = to /\ S!Seek(stream, to) \in S!Streams
  <2>1. stream.isOpen /\ to >= 0
    BY <1>3
  <2>2. S!Seek(stream, to) = [stream EXCEPT !.at = to, !.fail = FALSE, !.eof = FALSE]
    BY <1>1, <2>1 DEF S!Seek, S!Streams
  <2> QED
    BY <1>1, <2>2 DEF S!Streams
<1>4. ASSUME p = 0 PROVE OnStart' /\ r.event = event
  <2> DEFINE s == S!Seek(stream, HeaderSize)
  <2>1. r = [Here EXCEPT !.stream = s, !.current = NoPoint, !.position = 0]
    BY <1>1, <1>4 DEF SeekFrom
  <2>2. ~s.fail /\ ~s.eof /\ s.at = HeaderSize
    BY <1>1, <1>3
  <2> HIDE DEF s
  <2>3. r.stream = s /\ r.current = NoPoint /\ r.position = 0 /\ r.event = event
    BY <1>1, <2>1 DEF Reader
  <2> QED
    BY <1>2, <2>2, <2>3 DEF OnStart
<1>5. ASSUME p # 0
      PROVE  /\ p <= L => AtRecord' /\ position' = p /\ r.event = NoEvent /\ r.current = R[p]
             /\ p > L => AtEnd' /\ r.event = NoEvent /\ r.current = ZeroPoint
  <2> DEFINE s == S!Seek(stream, SeekOffset(p - 1))
             t == [Here EXCEPT !.stream = s, !.current = NoPoint, !.position = p - 1]
  <2>1. r \in NextFrom(file, t)
    BY <1>1, <1>5 DEF SeekFrom
  <2>2. p - 1 \in Nat /\ p - 1 < RecordQuotient - HeaderSlots /\ p - 1 \in 0..(Word - 1)
    BY <1>1, <1>5, Sizes
  <2>3. SeekOffset(p - 1) = HeaderSize + 2 * (p - 1) /\ SeekOffset(p - 1) \in Nat
    <3>1. OffsetOf(p - 1) = HeaderSize + 2 * (p - 1) /\ OffsetOf(p - 1) \in Nat
      BY <1>1, <2>2, ScenarioPoints
    <3> QED
      BY <1>5, <3>1 DEF SeekOffset, S!Signed
  <2>4. ~s.fail /\ ~s.eof /\ s.at = HeaderSize + 2 * (p - 1) /\ s \in S!Streams
    BY <1>3, <2>3
  <2> HIDE DEF s
  <2>5. t \in Reader /\ t.stream = s /\ t.current = NoPoint /\ t.position = p - 1
    BY <1>1, <2>2, <2>4, PointsOfTheModel DEF Reader
  <2> HIDE DEF t
  <2>6. StandsAfter(t, p - 1)
    BY <2>4, <2>5 DEF StandsAfter
  <2>7. /\ r.event = NoEvent
        /\ p - 1 > L => r.stream.eof /\ r.current = ZeroPoint /\ r.position = p - 1
        /\ p - 1 <= L =>
             \E z \in ((p - 1) + 1)..(L + 1) :
               /\ \A j \in ((p - 1) + 1)..(z - 1) : R[j] = t.current
               /\ z <= L => R[z] # t.current /\ StandsAfter(r, z) /\ r.current = R[z]
               /\ z = L + 1 => r.stream.eof /\ r.current = ZeroPoint /\ r.position = L
    <3> DEFINE k == p - 1
    <3>1. k \in Nat /\ k < RecordQuotient - HeaderSlots /\ StandsAfter(t, k)
      BY <2>2, <2>6
    <3> HIDE DEF k
    <3>2. /\ r.event = NoEvent
          /\ k > Len(file.recs) => r.stream.eof /\ r.current = ZeroPoint /\ r.position = k
          /\ k <= Len(file.recs) =>
               \E z \in (k + 1)..(Len(file.recs) + 1) :
                 /\ \A j \in (k + 1)..(z - 1) : file.recs[j] = t.current
                 /\ z <= Len(file.recs) =>
                      file.recs[z] # t.current /\ StandsAfter(r, z) /\ r.current = file.recs[z]
                 /\ z = Len(file.recs) + 1 =>
                      r.stream.eof /\ r.current = ZeroPoint /\ r.position = Len(file.recs)
      BY <1>1, <2>1, <2>5, <3>1, NextGoesOn, SMTT(30)
    <3> QED
      BY <3>2 DEF k, Records
  <2>8. CASE p - 1 > L
    BY <1>1, <1>2, <2>2, <2>7, <2>8 DEF AtEnd
  <2>9. CASE p - 1 <= L
    <3>1. PICK z \in ((p - 1) + 1)..(L + 1) :
               /\ \A j \in ((p - 1) + 1)..(z - 1) : R[j] = NoPoint
               /\ z <= L => StandsAfter(r, z) /\ r.current = R[z]
               /\ z = L + 1 => r.stream.eof /\ r.current = ZeroPoint /\ r.position = L
      BY <2>5, <2>7, <2>9
    <3>2. z = p
      <4>1. z > p => p \in ((p - 1) + 1)..(z - 1) /\ p \in 1..L
        BY <1>1, <2>2
      <4> QED
        BY <1>1, <2>2, <3>1, <4>1
    <3>3. CASE p <= L
      <4>1. StandsAfter(r, p) /\ r.current = R[p] /\ p \in 1..L
        BY <1>1, <2>2, <3>1, <3>2, <3>3
      <4> QED
        BY <1>2, <2>7, <3>3, <4>1, <1>1 DEF StandsAfter, AtRecord
    <3>4. CASE p > L
      <4>1. r.stream.eof /\ r.current = ZeroPoint /\ r.position = L
        BY <1>1, <2>2, <2>9, <3>1, <3>2, <3>4
      <4> QED
        BY <1>1, <1>2, <2>7, <3>4, <4>1 DEF AtEnd
    <3> QED
      BY <1>1, <3>3, <3>4
  <2> QED
    BY <1>1, <2>2, <2>8, <2>9
<1> QED
  BY <1>1, <1>4, <1>5 DEF Count

-----------------------------------------------------------------------------
(* What the events at the records of a scenario come to.                   *)

LEMMA EventTyped ==
  ASSUME NEW R \in Seq(Points), NEW x \in 1..Len(R)
  PROVE  /\ HasEventFields(EventOf(R, x), R, x)
         /\ EndOf(R, x) \in x..Reach(R, x) /\ Reach(R, x) \in x..Len(R)
         /\ EndOf(R, x) \in 1..Len(R)
<1>1. EndOf(R, x) \in x..Reach(R, x) /\ Reach(R, x) \in x..Len(R)
  BY EndFacts, ReachFacts
<1>2. EndOf(R, x) \in 1..Len(R)
  BY <1>1
<1>3. FirstIrq(R, x) \in Points
  <2>1. Irqs(R, x) \in SUBSET Nat /\ Irqs(R, x) \subseteq 1..Len(R)
    BY <1>1 DEF Irqs
  <2>2. Irqs(R, x) # {} => Min(Irqs(R, x)) \in 1..Len(R)
    BY <2>1, MinIs
  <2> QED
    BY <2>2, PointsOfTheModel DEF FirstIrq
<1>4. Entered(R, x) \in Points
  BY <1>2, PointsOfTheModel DEF Entered
<1> QED
  BY <1>1, <1>2, <1>3, <1>4, EventFields

LEMMA EventAtFacts ==
  ASSUME NEW R \in Seq(Points), NEW x, NEW e, IsEventAt(R, e, x)
  PROVE  /\ x \in 1..Len(R) /\ x \in Nat /\ e.position = x /\ e \in Events /\ e.isValid
         /\ e.isLast <=> ~Complete(R, x)
         /\ EndOf(R, x) \in x..Reach(R, x) /\ Reach(R, x) \in x..Len(R)
<1>1. x \in 1..Len(R) /\ e = EventOf(R, x)
  BY DEF IsEventAt
<1>2. HasEventFields(e, R, x)
  BY <1>1, EventTyped
<1>3. e.position = x /\ e \in Events /\ e.isValid /\ (e.isLast <=> ~Complete(R, x))
  BY <1>2 DEF HasEventFields
<1> QED
  BY <1>1, <1>3, EventTyped

\* An event and what it absorbed: the same event but for the start context,
\* and that in its TSC and FPU words only.
LEMMA CombinedFacts ==
  ASSUME NEW R \in Seq(Points), NEW x, NEW e, IsCombinedAt(R, e, x)
  PROVE  LET d == EventOf(R, x)
         IN  /\ x \in 1..Len(R) /\ x \in Nat /\ IsStart(R, x) /\ WellFormedEvent(R, x)
             /\ IsEventAt(R, d, x) /\ d \in Events /\ d.position = x
             /\ e = [d EXCEPT !.start = e.start] /\ AreValuesEquivalent(e.start, d.start)
             /\ e.position = x /\ e \in Events /\ e.isValid
             /\ e.startRip = d.startRip /\ e.isEmulation = d.isEmulation /\ e.new = d.new
             /\ e.hasInterrupt = d.hasInterrupt /\ e.isLast = d.isLast
             /\ (e.isLast <=> ~Complete(R, x))
             /\ EndOf(R, x) \in x..Reach(R, x) /\ Reach(R, x) \in x..Len(R)
<1> DEFINE d == EventOf(R, x)
<1>1. IsEventAt(R, d, x)
  BY DEF IsCombinedAt
<1>2. /\ x \in 1..Len(R) /\ x \in Nat /\ IsStart(R, x) /\ WellFormedEvent(R, x)
      /\ d.position = x /\ d \in Events /\ d.isValid
      /\ (d.isLast <=> ~Complete(R, x))
      /\ EndOf(R, x) \in x..Reach(R, x) /\ Reach(R, x) \in x..Len(R)
  BY <1>1, EventAtFacts DEF IsEventAt
<1>3. PICK o \in 1..x : e = [d EXCEPT !.start = EventOf(R, o).start] /\ AreValuesEquivalent(e.start, d.start)
  BY DEF IsCombinedAt, Combined
<1>4. o \in 1..Len(R)
  BY <1>2
<1>5. EventOf(R, o) \in Events
  BY <1>4, EventTyped DEF HasEventFields
<1> HIDE DEF d
<1>6. PICK c \in Contexts : e = [d EXCEPT !.start = c]
  BY <1>3, <1>5 DEF Events
<1>7. e.start = c /\ e \in Events
  BY <1>2, <1>6 DEF Events
<1>8. /\ e.position = d.position /\ e.isValid = d.isValid
      /\ e.startRip = d.startRip /\ e.isEmulation = d.isEmulation /\ e.new = d.new
      /\ e.hasInterrupt = d.hasInterrupt /\ e.isLast = d.isLast
  BY <1>2, <1>6 DEF Events
<1> QED
  BY <1>1, <1>2, <1>3, <1>6, <1>7, <1>8 DEF d

\* An event as it is fetched has absorbed none.
LEMMA CombinedAlone ==
  ASSUME NEW R \in Seq(Points), NEW x, NEW e, IsEventAt(R, e, x)
  PROVE  IsCombinedAt(R, e, x)
<1>1. /\ x \in 1..Len(R) /\ x \in Nat /\ IsStart(R, x) /\ e = EventOf(R, x) /\ e \in Events
  BY EventAtFacts DEF IsEventAt
<1>2. Absorbing(R, x, x)
  BY <1>1 DEF Absorbing
<1>3. e = Combined(R, x, x)
  <2>1. \A d \in Events : [d EXCEPT !.start = d.start] = d
    BY DEF Events
  <2> QED
    BY <1>1, <2>1 DEF Combined
<1>4. AreValuesEquivalent(e.start, EventOf(R, x).start) /\ x \in 1..x
  BY <1>1 DEF AreValuesEquivalent
<1> QED
  BY <1>1, <1>2, <1>3, <1>4 DEF IsCombinedAt

\* Whether an event may be merged does not depend on what it absorbed.
LEMMA MergesLikeOne ==
  ASSUME NEW R \in Seq(Points), NEW x, NEW e, IsCombinedAt(R, e, x)
  PROVE  MayMerge(e) <=> MayMerge(EventOf(R, x))
BY CombinedFacts DEF MayMerge, AreValuesEquivalent

\* Of an event that may be merged there is another one to come.
LEMMA MergeFacts ==
  ASSUME NEW f, IsFile(f), IsScenario(f), NEW x, NEW e, IsCombinedAt(f.recs, e, x),
         MayMerge(e)
  PROVE  /\ x # 1 /\ Complete(f.recs, x) /\ Reach(f.recs, x) < Len(f.recs)
         /\ Following(f.recs, x) = Reach(f.recs, x) + 1
         /\ Following(f.recs, x) \in (x + 1)..Len(f.recs)
         /\ Following(f.recs, x) \in StartsOf(f.recs)
         /\ IsVmexit(f.recs[Following(f.recs, x)])
         /\ f.recs[Reach(f.recs, x)] # f.recs[Reach(f.recs, x) + 1]
<1> DEFINE R == f.recs
<1>1. R \in Seq(Points)
  BY ScenarioFacts
<1>2. /\ x \in 1..Len(R) /\ IsStart(R, x) /\ WellFormedEvent(R, x)
      /\ e.position = x /\ Reach(R, x) \in x..Len(R)
      /\ MayMerge(EventOf(R, x))
  BY <1>1, CombinedFacts, MergesLikeOne
<1>3. Reach(R, x) # Len(R)
  <2>1. x \in DOMAIN R /\ IsStart(R, x) /\ MayMerge(EventOf(R, x))
    BY <1>1, <1>2
  <2> QED
    BY <2>1 DEF IsScenario
<1>4. x # 1 /\ Complete(R, x) /\ Reach(R, x) < Len(R)
  BY <1>2, <1>3 DEF MayMerge, WellFormedEvent
<1> HIDE DEF R
<1> QED
  BY <1>1, <1>2, <1>4, FollowingStarts DEF R

\* current_event merges two events when the second absorbs the first.
LEMMA MergesAbsorbed ==
  ASSUME NEW R \in Seq(Points), NEW x, NEW e, NEW d, IsCombinedAt(R, e, x), MayMerge(e),
         Following(R, x) # 0, IsEventAt(R, d, Following(R, x))
  PROVE  Absorbed(R, x) <=> Merges(e, d)
<1> DEFINE a == EventOf(R, x)
<1>1. /\ e.startRip = a.startRip /\ e.isEmulation = a.isEmulation /\ e.new = a.new
      /\ MayMerge(a) /\ a.position = x /\ d = EventOf(R, Following(R, x))
  BY CombinedFacts, MergesLikeOne DEF IsEventAt
<1> HIDE DEF a
<1>2. Merges(e, d) <=> /\ AreValuesEquivalent(a.new, d.start)
                       /\ a.startRip = d.startRip /\ ~a.isEmulation
  BY <1>1 DEF Merges
<1>3. /\ x # 1 /\ ~a.hasInterrupt /\ AreValuesEquivalent(a.start, a.new)
  BY <1>1 DEF MayMerge
<1> QED
  BY <1>1, <1>2, <1>3, Zenon DEF Absorbed, a

LEMMA KeepsOthers ==
  ASSUME NEW R \in Seq(Points), NEW x, NEW e, IsCombinedAt(R, e, x), ~MayMerge(e)
  PROVE  ~Absorbed(R, x)
<1>1. ~MayMerge(EventOf(R, x)) /\ EventOf(R, x).position = x
  BY CombinedFacts, MergesLikeOne
<1> QED
  BY <1>1 DEF MayMerge, Absorbed

LEMMA LastStartIs ==
  ASSUME NEW R, NEW p \in Nat, p >= 1
  PROVE  /\ LastStart(R, p) \in 1..p /\ IsStart(R, LastStart(R, p))
         /\ \A y \in 1..p : IsStart(R, y) => y <= LastStart(R, p)
<1> DEFINE T == {y \in 1..p : IsStart(R, y)}
<1>1. T \in SUBSET Nat /\ 1 \in T /\ \A y \in T : y <= p
  BY DEF IsStart
<1>2. LastStart(R, p) = Max(T)
  BY DEF LastStart
<1>3. Max(T) \in T /\ \A y \in T : Max(T) >= y
  <2> HIDE DEF T
  <2> QED
    BY <1>1, MaxIs
<1>4. Max(T) \in Nat
  BY <1>3
<1> QED
  BY <1>2, <1>3, <1>4

\* What absorbs all from o to x absorbs what absorbs x.
LEMMA AbsorbingGrows ==
  ASSUME NEW R \in Seq(Points), NEW x \in 1..Len(R), NEW o \in 1..x, Absorbing(R, o, x),
         Absorbed(R, x), Reach(R, x) < Len(R)
  PROVE  Absorbing(R, o, Following(R, x)) /\ o \in 1..Following(R, x)
<1> DEFINE y == Following(R, x)
<1>1. Reach(R, x) \in x..Len(R) /\ x \in Nat
  BY ReachFacts
<1>2. y = Reach(R, x) + 1 /\ y \in (x + 1)..Len(R)
  BY <1>1, FollowingStarts
<1>3. ASSUME NEW z \in o..(y - 1), IsStart(R, z), z = o \/ z \in StartsOf(R)
      PROVE  Absorbed(R, z)
  <2>1. CASE z < x
    <3>1. z \in o..(x - 1)
      BY <1>1, <1>2, <1>3, <2>1
    <3> QED
      BY <1>3, <3>1 DEF Absorbing
  <2>2. CASE z > x
    <3>1. z \in (x + 1)..Reach(R, x) /\ z # o
      BY <1>1, <1>2, <1>3, <2>2
    <3> QED
      BY <1>1, <1>3, <3>1, NoStartWithin
  <2> QED
    BY <1>1, <1>2, <2>1, <2>2
<1> QED
  BY <1>1, <1>2, <1>3 DEF Absorbing

\* An event that absorbs one with what it absorbed.
LEMMA CombinedGrows ==
  ASSUME NEW R \in Seq(Points), NEW x, NEW e, IsCombinedAt(R, e, x), Absorbed(R, x),
         Reach(R, x) < Len(R), NEW d, IsEventAt(R, d, Following(R, x))
  PROVE  IsCombinedAt(R, [d EXCEPT !.start = e.start], Following(R, x))
<1> DEFINE y == Following(R, x)
           a == EventOf(R, x)
<1>1. x \in 1..Len(R) /\ x \in Nat /\ Reach(R, x) \in x..Len(R) /\ a \in Events
      /\ AreValuesEquivalent(e.start, a.start)
  BY CombinedFacts
<1>2. y = Reach(R, x) + 1 /\ y \in (x + 1)..Len(R)
  BY <1>1, FollowingStarts
<1>3. PICK o \in 1..x : Absorbing(R, o, x) /\ e = [a EXCEPT !.start = EventOf(R, o).start]
  BY DEF IsCombinedAt, Combined
<1>4. e.start = EventOf(R, o).start
  BY <1>1, <1>3 DEF Events
<1>5. d = EventOf(R, y) /\ d \in Events /\ IsEventAt(R, EventOf(R, y), y)
  BY EventAtFacts DEF IsEventAt
<1>6. AreValuesEquivalent(e.start, d.start)
  <2>1. AreValuesEquivalent(a.start, a.new) /\ AreValuesEquivalent(a.new, d.start)
    BY <1>5 DEF Absorbed
  <2> HIDE DEF a
  <2> QED
    BY <1>1, <2>1 DEF AreValuesEquivalent
<1>8. Absorbing(R, o, y) /\ o \in 1..y
  BY <1>1, <1>3, AbsorbingGrows
<1>10. [d EXCEPT !.start = e.start] = Combined(R, o, y)
  BY <1>4, <1>5 DEF Combined
<1>11. [d EXCEPT !.start = e.start].start = e.start
  BY <1>5 DEF Events
<1> HIDE DEF y
<1> QED
  BY <1>5, <1>6, <1>8, <1>10, <1>11 DEF IsCombinedAt, y

\* The event that absorbs one sought is sought after it.
LEMMA SoughtFollows ==
  ASSUME NEW R \in Seq(Points), NEW c, NEW x \in 1..Len(R), Sought(R, c, x), Absorbed(R, x),
         Reach(R, x) < Len(R)
  PROVE  Sought(R, c, Following(R, x))
<1> DEFINE s == LastStart(R, c.arg)
           y == Following(R, x)
<1> SUFFICES ASSUME c.op = "advance_to"
             PROVE  y \in Met(R, s) /\ \A z \in Met(R, s) : z < y => Absorbed(R, z)
  BY DEF Sought
<1>1. /\ y = Reach(R, x) + 1 /\ y \in StartsOf(R) /\ y \in (x + 1)..Len(R)
      /\ IsVmexit(R[y]) /\ Reach(R, x) \in x..Len(R)
  BY FollowingStarts, ReachFacts
<1>2. /\ c.arg \in 1..Len(R) /\ x \in Met(R, s)
      /\ \A z \in Met(R, s) : z < x => Absorbed(R, z)
  BY DEF Sought
<1>3. s \in 1..c.arg /\ c.arg \in Nat
  BY <1>2, LastStartIs
<1> HIDE DEF s, y
<1>4. x \in s..Len(R) /\ s \in Nat
  BY <1>2, <1>3 DEF Met
<1>5. y \in Met(R, s)
  BY <1>1, <1>4 DEF Met, StartsOf
<1>6. ASSUME NEW z \in Met(R, s), z < y PROVE Absorbed(R, z)
  <2>1. z \in s..Len(R) /\ (z = s \/ z \in StartsOf(R))
    BY DEF Met
  <2>2. CASE z < x
    BY <1>2, <2>2
  <2>3. CASE z = x
    BY <2>3
  <2>4. CASE z > x
    <3>1. z \in (x + 1)..Reach(R, x) /\ z # s
      BY <1>1, <1>4, <1>6, <2>1, <2>4
    <3> QED
      BY <2>1, <3>1, NoStartWithin
  <2> QED
    BY <1>4, <2>1, <2>2, <2>3, <2>4
<1> QED
  BY <1>5, <1>6

\* What advance_to finds is the event that its record belongs to, or the one
\* that absorbs it.
LEMMA SoughtSurvives ==
  ASSUME NEW R \in Seq(Points), NEW c, c.op = "advance_to", NEW x, Sought(R, c, x),
         ~Absorbed(R, x)
  PROVE  /\ c.arg \in 1..Len(R) /\ IsVmenter(R[c.arg])
         /\ x = Surviving(R, LastStart(R, c.arg))
<1> DEFINE s == LastStart(R, c.arg)
           T == {y \in s..Len(R) : /\ IsStart(R, y) /\ (y = s \/ y \in StartsOf(R))
                                   /\ ~Absorbed(R, y)}
<1>1. /\ c.arg \in 1..Len(R) /\ IsVmenter(R[c.arg]) /\ x \in Met(R, s)
      /\ \A z \in Met(R, s) : z < x => Absorbed(R, z)
  BY DEF Sought
<1>2. s \in 1..c.arg /\ s \in Nat
  BY <1>1, LastStartIs
<1>3. T = {y \in Met(R, s) : ~Absorbed(R, y)}
  BY DEF Met
<1>4. Surviving(R, s) = Min(T)
  BY DEF Surviving
<1>5. x \in T /\ T \in SUBSET Nat
  BY <1>1, <1>2, <1>3 DEF Met
<1>6. ASSUME NEW y \in T PROVE x <= y
  <2>1. y \in Met(R, s) /\ ~Absorbed(R, y) /\ x \in Nat /\ y \in Nat
    BY <1>2, <1>3, <1>5
  <2> QED
    BY <1>1, <2>1
<1> HIDE DEF s, T
<1>7. Min(T) = x
  BY <1>5, <1>6, MinFound
<1> QED
  BY <1>1, <1>4, <1>7 DEF s

\* A reader that a seek has put on a start, the last one before the record.
LEMMA SoughtStarts ==
  ASSUME NEW R \in Seq(Points), NEW c, NEW x, c.arg \in 1..Len(R), IsVmenter(R[c.arg]),
         x \in 1..c.arg, IsStart(R, x), \A j \in (x + 1)..c.arg : ~IsStart(R, j)
  PROVE  Sought(R, c, x)
<1>1. /\ LastStart(R, c.arg) \in 1..c.arg /\ IsStart(R, LastStart(R, c.arg))
      /\ x <= LastStart(R, c.arg)
  BY LastStartIs
<1>2. LastStart(R, c.arg) = x
  BY <1>1
<1>3. \A y \in Met(R, x) : ~(y < x)
  BY DEF Met
<1>4. x \in Met(R, x)
  BY DEF Met
<1> QED
  BY <1>2, <1>3, <1>4 DEF Sought

-----------------------------------------------------------------------------
(* fetch_new_event.                                                        *)

LEMMA ScenarioOpen ==
  ASSUME IInv, IsScenario(file)
  PROVE  /\ Records \in Seq(Points) /\ Count = Len(Records) /\ Count \in Nat
         /\ Records = file.recs /\ IsFile(file) /\ IsScenario(file)
         /\ position \in Nat /\ current \in Points /\ draft \in Events /\ held \in Events
         /\ ahead \in BOOLEAN /\ stream \in S!Streams
<1>1. IsFile(file)
  BY DEF IInv, TypeOK
<1>2. file.recs \in Seq(Points)
  BY <1>1, ScenarioFacts
<1>3. position \in Nat /\ Word \in Nat
  BY Sizes DEF IInv, TypeOK
<1> QED
  BY <1>1, <1>2, <1>3 DEF IInv, TypeOK, Records, Count

LEMMA OpenFacts ==
  ASSUME IInv, OpenInv
  PROVE  /\ Records \in Seq(Points) /\ Count = Len(Records) /\ Count \in Nat
         /\ Records = file.recs /\ IsFile(file) /\ IsScenario(file)
         /\ position \in Nat /\ current \in Points /\ draft \in Events /\ held \in Events
         /\ ahead \in BOOLEAN /\ stream \in S!Streams
BY ScenarioOpen DEF OpenInv

LEMMA HeldStays ==
  ASSUME HeldAhead, UNCHANGED <<file, held, ahead, call>>
  PROVE  HeldAhead'
BY DEF HeldAhead, Records

LEMMA PlaceFacts ==
  /\ OnStart => current = NoPoint /\ ~stream.eof /\ ~stream.fail /\ position = 0
  /\ AtRecord => /\ ~stream.eof /\ ~stream.fail /\ position \in 1..Count
                 /\ current = Records[position]
  /\ AtEnd => stream.eof /\ current = ZeroPoint
  /\ IsVmenter(NoPoint) /\ ~IsVmexit(NoPoint) /\ IsVmexit(ZeroPoint)
  /\ ~Valid(ZeroPoint) /\ ~Valid(NoPoint)
  /\ ~NoEvent.isValid
BY DEF OnStart, AtRecord, AtEnd, IsVmenter, IsVmexit, IsInterrupt, NoPoint, ZeroPoint, Valid,
   NoEvent

\* At the end of the file next does nothing.
LEMMA EndNext ==
  ASSUME IInv, AtEnd, NEW r \in NextFrom(file, Here)
  PROVE  r = Here /\ ~Valid(r.current) /\ Here.event = event
<1>1. Here.stream.eof /\ Here.current = ZeroPoint /\ Here.event = event
  BY HereIsReader, PlaceFacts DEF IInv
<1>2. r = Here
  BY <1>1, ClosedNext
<1> QED
  BY <1>1, <1>2, PlaceFacts

\* The next part of the event at x is read, or the end of the file.
LEMMA PartIsRead ==
  ASSUME IInv, OpenInv, AtRecord, HeldAhead,
         NEW x \in Nat, IsNext(x), From(call, x), IsStart(Records, x),
         NEW e, NEW label \in {"second", "third", "last"}, NextWithin(e, label),
         UNCHANGED <<file, held, ahead, call>>,
         \A q : Run(Records, position, q) =>
           \E i, k : /\ Shape(Records, x, i, k, q) /\ e = Drafted(Records, x, i, q)
                     /\ i < q => irq' = Records[i]
                     /\ label = "second" => i = q
                     /\ label = "third" => i < q /\ k = q
                     /\ label = "last" => k < q
  PROVE  OpenInv'
<1> DEFINE R == Records
           L == Len(R)
<1>1. /\ R \in Seq(Points) /\ Count = L /\ L \in Nat /\ IsScenario(file)
      /\ position \in 1..L /\ current = R[position] /\ file # NoFile
  BY OpenFacts, PlaceFacts DEF OpenInv
<1>2. PICK r \in NextFrom(file, Here) :
        /\ Become(r)
        /\ IF Valid(r.current) THEN pc' = label /\ draft' = e
           ELSE pc' = "return" /\ draft' = LastEvent(e)
  BY DEF NextWithin
<1>3. /\ event' = NoEvent
      /\ \E q : /\ Run(R, position, q)
                /\ q <= L => AtRecord' /\ position' = q /\ Valid(r.current)
                /\ q = L + 1 => AtEnd' /\ position' = L /\ ~Valid(r.current)
  BY <1>1, <1>2, StepNext
<1>4. PICK q : /\ Run(R, position, q)
               /\ q <= L => AtRecord' /\ position' = q /\ Valid(r.current)
               /\ q = L + 1 => AtEnd' /\ position' = L /\ ~Valid(r.current)
  BY <1>3
<1>5. PICK i, k :
        /\ Shape(R, x, i, k, q) /\ e = Drafted(R, x, i, q)
        /\ i < q => irq' = R[i]
        /\ label = "second" => i = q
        /\ label = "third" => i < q /\ k = q
        /\ label = "last" => k < q
  BY <1>4
<1>6. /\ x \in 1..L /\ i \in x..q /\ k \in i..q /\ q \in x..(L + 1)
      /\ i \in Nat /\ k \in Nat /\ q \in Nat
  BY <1>1, <1>5, ShapeTypes
<1>7. e.position = x /\ e \in Events
  <2>1. ReadIrq(R, i, q) \in Points
    <3>1. i < q => i \in 1..L
      BY <1>1, <1>6
    <3> QED
      BY <1>1, <3>1, PointsOfTheModel DEF ReadIrq
  <2>2. HasDraftFields(Drafted(R, x, i, q), R, x, i, q)
    BY <1>1, <1>6, <2>1, DraftFields
  <2> QED
    BY <1>5, <2>2 DEF HasDraftFields
<1>8. /\ Records' = R /\ HeldAhead' /\ ahead' = ahead /\ held' = held /\ call' = call
      /\ Count' = Count /\ file' = file
  BY HeldStays DEF Records, Count
<1>9. IsNext(x)'
  BY <1>8 DEF IsNext
<1> HIDE DEF R, L
<1>10. CASE q <= L
  <2>1. AtRecord' /\ position' = q /\ pc' = label /\ draft' = e
    BY <1>2, <1>4, <1>10
  <2>2. i \in 1..q /\ k \in 1..q
    BY <1>6
  <2>3. AtPart'
    <3>1. draft'.position = x
      BY <1>7, <2>1
    <3>2. \E m, n \in 1..q :
            /\ Shape(R, x, m, n, q)
            /\ e = Drafted(R, x, m, q)
            /\ m < q => irq' = R[m]
            /\ label = "second" => m = q
            /\ label = "third" => m < q /\ n = q
            /\ label = "last" => n < q
      BY <1>5, <2>2
    <3>3. IsStart(R, x)
      BY DEF R
    <3> QED
      BY <1>8, <1>9, <2>1, <3>1, <3>2, <3>3 DEF AtPart, IsNext
  <2> QED
    BY <1>1, <1>3, <1>8, <2>1, <2>3, PlaceFacts DEF OpenInv
<1>11. CASE q = L + 1
  <2>1. AtEnd' /\ position' = L /\ pc' = "return" /\ draft' = LastEvent(e)
    BY <1>2, <1>4, <1>11
  <2>2. /\ EventOf(R, x) = LastEvent(e) /\ WellFormedEvent(R, x)
        /\ ~Complete(R, x) /\ EndOf(R, x) = L
    <3>1. Shape(R, x, i, k, L + 1) /\ IsStart(R, x) /\ e = Drafted(R, x, i, L + 1)
      BY <1>5, <1>11 DEF R
    <3> QED
      BY <1>1, <3>1, EndsUnfinished DEF L
  <2>3. IsEventAt(R, draft', x)
    BY <1>6, <2>1, <2>2 DEF IsEventAt, L, R
  <2>4. draft'.position = x
    BY <1>1, <2>3, EventAtFacts
  <2>5. AtReturn'
    BY <1>8, <1>9, <2>1, <2>2, <2>3, <2>4 DEF AtReturn, ReadTo, IsNext
  <2> QED
    BY <1>1, <1>3, <1>8, <2>1, <2>5, PlaceFacts DEF OpenInv
<1> QED
  BY <1>1, <1>6, <1>10, <1>11

\* The event held while another is fetched.
LEMMA HeldFacts ==
  ASSUME IInv, OpenInv, HeldAhead, ahead
  PROVE  LET h == held.position
         IN  /\ h \in 1..Count /\ h # 1 /\ IsStart(Records, h) /\ Complete(Records, h)
             /\ IsCombinedAt(Records, held, h)
             /\ EndOf(Records, h) \in h..Reach(Records, h)
             /\ Reach(Records, h) \in 1..(Count - 1)
             /\ Following(Records, h) = Reach(Records, h) + 1
             /\ Following(Records, h) \in StartsOf(Records)
             /\ IsVmexit(Records[Reach(Records, h) + 1])
             /\ Records[Reach(Records, h)] # Records[Reach(Records, h) + 1]
<1> DEFINE h == held.position
<1>1. Records \in Seq(Points) /\ Count = Len(Records) /\ Records = file.recs
  BY OpenFacts
<1>2. IsCombinedAt(Records, held, h) /\ MayMerge(held) /\ IsFile(file) /\ IsScenario(file)
  BY OpenFacts DEF HeldAhead
<1> HIDE DEF h
<1>3. /\ h \in 1..Count /\ EndOf(Records, h) \in h..Reach(Records, h)
      /\ Reach(Records, h) \in h..Count /\ IsStart(Records, h)
  BY <1>1, <1>2, CombinedFacts
<1>4. /\ h # 1 /\ Complete(Records, h) /\ Reach(Records, h) < Count
      /\ Following(Records, h) = Reach(Records, h) + 1
      /\ Following(Records, h) \in StartsOf(Records)
      /\ IsVmexit(Records[Following(Records, h)])
      /\ Records[Reach(Records, h)] # Records[Reach(Records, h) + 1]
  BY <1>1, <1>2, MergeFacts
<1>5. Reach(Records, h) \in 1..(Count - 1)
  BY <1>1, <1>3, <1>4
<1> QED
  BY <1>2, <1>3, <1>4, <1>5 DEF h

\* From the end of the file, without an event, current_event does not return.
LEMMA LostStays ==
  ASSUME IInv, OpenInv, Lost, CurrentEvent
  PROVE  Lost' /\ event' = event /\ pc' \in {"fetch", "return", "merge"}
<1>1. AtEnd /\ position \in Nat /\ position # 1 /\ current = ZeroPoint /\ stream.eof
      /\ draft \in Events /\ held \in Events
  BY OpenFacts, PlaceFacts DEF Lost
<1>2. IsVmexit(current) /\ ~AtPart
  BY <1>1, PlaceFacts DEF AtPart
<1>3. pc \notin {"second", "third", "last"}
  BY <1>2 DEF OpenInv
<1>4. CASE FetchExit
  <2> DEFINE e == EventStartingAt(current, position)
  <2>1. PICK r \in NextFrom(file, Here) :
          /\ Become(r)
          /\ IF Valid(r.current) THEN pc' = "second" /\ draft' = e
             ELSE pc' = "return" /\ draft' = LastEvent(e)
    BY <1>4 DEF FetchExit, NextWithin
  <2>2. r = Here /\ ~Valid(r.current) /\ Here.event = event
    BY <1>1, <2>1, EndNext
  <2>3. /\ pc \in {"fetch", "skip"} /\ pc' = "return" /\ draft' = LastEvent(e)
        /\ stream' = stream /\ current' = current /\ position' = position /\ event' = event
        /\ file' = file /\ ahead' = ahead /\ held' = held /\ Count' = Count
    BY <1>4, <2>1, <2>2, HereIsReader DEF Become, IInv, FetchExit, fileVars, Records, Count
  <2>4. /\ e = [NoEvent EXCEPT !.position = position, !.start = ContextOf(ZeroPoint),
                               !.startRip = ZeroPoint.rip, !.reason = ZeroPoint.type]
        /\ e \in Events
    BY <1>1, PointsOfTheModel, StartTypes DEF EventStartingAt
  <2>5. /\ e.position = position /\ ~e.hasInterrupt /\ ~e.isEmulation /\ e.startRip = 0
        /\ e.start = ContextOf(ZeroPoint) /\ e.new = ContextOf(ZeroPoint)
    BY <2>4, Unstarted DEF NoEvent
  <2> HIDE DEF e
  <2>6. IsBlank(draft')
    <3>1. /\ draft'.position = e.position /\ draft'.hasInterrupt = e.hasInterrupt
          /\ draft'.isEmulation = e.isEmulation /\ draft'.startRip = e.startRip
          /\ draft'.start = e.start /\ draft'.new = e.new
      BY <2>3, <2>4, LastFields
    <3> QED
      BY <1>1, <2>5, <3>1 DEF IsBlank
  <2> QED
    BY <1>1, <2>3, <2>6 DEF Lost, AtEnd
<1>5. CASE FirstReturns \/ LookAhead
  <2>1. AtEnd'
    BY <1>1, <1>5 DEF FirstReturns, LookAhead, AtEnd, fileVars, readerVars, Records, Count
  <2> QED
    BY <1>1, <1>5, <2>1 DEF Lost, FirstReturns, LookAhead, readerVars
<1>6. CASE Merge
  <2>1. /\ pc = "return" /\ ahead /\ held' = [draft EXCEPT !.start = held.start] /\ pc' = "merge"
        /\ UNCHANGED <<file, stream, current, position, event, ahead, draft>>
    BY <1>6 DEF Merge, fileVars, readerVars
  <2>2. IsBlank(held) /\ IsBlank(draft)
    BY <2>1 DEF Lost
  <2>3. held' = draft
    <3>1. \A e \in Events : [e EXCEPT !.start = e.start] = e
      BY DEF Events
    <3> QED
      BY <1>1, <2>1, <2>2, <3>1 DEF IsBlank
  <2>4. AtEnd'
    BY <1>1, <2>1 DEF AtEnd, Records, Count
  <2> QED
    BY <1>1, <2>1, <2>2, <2>3, <2>4 DEF Lost
<1>7. ~FetchSkip /\ ~FetchMissing /\ ~FetchSpins
  <2>1. Here.stream = stream
    BY HereIsReader DEF IInv
  <2> QED
    BY <1>1, <1>2, <2>1 DEF FetchSkip, FetchMissing, FetchSpins, FirstVmexitMissing, Spins
<1>8. ~FetchInterrupt /\ ~FetchRepeated /\ ~FetchEnter /\ ~FetchThrows
  BY <1>3 DEF FetchInterrupt, FetchRepeated, FetchEnter, FetchThrows, AtNewContext
<1>9. ~Keep /\ ~PutBack
  BY DEF Lost, IsBlank, Keep, PutBack, Merges, MayMerge, AreValuesEquivalent
<1> QED
  BY <1>4, <1>5, <1>6, <1>7, <1>8, <1>9 DEF CurrentEvent, FetchNewEvent

LEMMA FetchSkipRight == ASSUME IInv, OpenInv, FetchSkip PROVE OpenInv'
<1> DEFINE R == Records
           L == Len(R)
<1>1. /\ R \in Seq(Points) /\ Count = L /\ L \in Nat /\ IsScenario(file) /\ file # NoFile
      /\ position \in Nat
  BY OpenFacts DEF OpenInv
<1>2. PICK r \in NextFrom(file, Here) :
        /\ Become(r)
        /\ IF Valid(r.current) THEN pc' = "skip" /\ draft' = draft
           ELSE pc' = "return" /\ draft' = NoEvent
  BY DEF FetchSkip
<1>3. /\ pc \in {"fetch", "skip"} /\ ~IsVmexit(current) /\ ~FirstVmexitMissing
      /\ file' = file /\ held' = held /\ ahead' = ahead /\ call' = call
      /\ Records' = R /\ Count' = Count
  BY DEF FetchSkip, fileVars, Records, Count
<1>4. AtFetch
  BY <1>3, PlaceFacts DEF OpenInv, Lost
<1>5. HeldAhead /\ HeldAhead'
  BY <1>3, <1>4, HeldStays DEF AtFetch
<1>6. CASE ahead
  <2> DEFINE n == Reach(R, held.position)
  <2>1. /\ AtRecord /\ position \in EndOf(R, held.position)..(n + 1)
        /\ position \in 1..L /\ current = R[position]
    BY <1>1, <1>4, <1>6, PlaceFacts DEF AtFetch
  <2>2. /\ n \in 1..(L - 1) /\ IsVmexit(R[n + 1]) /\ R[n] # R[n + 1]
        /\ EndOf(R, held.position) \in Nat
    BY <1>1, <1>5, <1>6, HeldFacts
  <2> HIDE DEF n
  <2>3. position <= n
    BY <1>1, <1>3, <2>1, <2>2
  <2>4. PICK q : /\ Run(R, position, q)
                 /\ q <= L => AtRecord' /\ position' = q /\ Valid(r.current)
    BY <1>1, <1>2, <1>3, <2>1, StepNext
  <2>5. q \in (position + 1)..(n + 1)
    <3>1. q \in (position + 1)..(L + 1) /\ \A j \in (position + 1)..(q - 1) : R[j] = R[position]
      BY <2>4 DEF Run
    <3> SUFFICES ASSUME q > n + 1 PROVE FALSE
      BY <1>1, <2>2, <2>3, <3>1
    <3>2. n + 1 \in (position + 1)..(q - 1) /\ (n = position \/ n \in (position + 1)..(q - 1))
      BY <1>1, <2>2, <2>3, <3>1
    <3> QED
      BY <2>2, <3>1, <3>2
  <2>6. AtRecord' /\ position' = q /\ pc' = "skip" /\ event' = NoEvent
    <3>1. q <= L
      BY <1>1, <2>2, <2>5
    <3> QED
      BY <1>1, <1>2, <1>3, <2>1, <2>4, <3>1, StepNext
  <2>7. position' \in EndOf(R, held.position)..(n + 1)
    BY <1>1, <2>1, <2>2, <2>5, <2>6
  <2>8. AtFetch'
    BY <1>3, <1>5, <1>6, <2>6, <2>7 DEF AtFetch, n
  <2> QED
    BY <1>1, <1>3, <2>6, <2>8, PlaceFacts DEF OpenInv
<1>7. CASE ~ahead
  <2>1. (OnStart \/ AtRecord) /\ From(call, position) /\ Sought(R, call, position)
    BY <1>4, <1>7 DEF AtFetch
  <2>2. call.op # "advance_to"
    <3> SUFFICES ASSUME call.op = "advance_to" PROVE FALSE
      OBVIOUS
    <3>0. pc = "fetch"
      BY <1>3, <1>4, <1>7 DEF AtFetch
    <3>1. call.arg \in 1..L /\ position \in Met(R, LastStart(R, call.arg))
      BY <2>1 DEF Sought
    <3>2. LastStart(R, call.arg) \in 1..call.arg
      BY <1>1, <3>1, LastStartIs
    <3>3. position >= 1 /\ IsStart(R, position)
      BY <3>1, <3>2 DEF Met
    <3>4. current = R[position]
      BY <2>1, <3>3, PlaceFacts
    <3> QED
      BY <1>3, <3>0, <3>3, <3>4 DEF IsStart, FirstVmexitMissing
  <2>3. \A z : Sought(R, call, z)
    BY <2>2 DEF Sought
  <2>4. /\ event' = NoEvent
        /\ \/ AtRecord' /\ Valid(r.current) /\ position' >= position
           \/ AtEnd' /\ ~Valid(r.current) /\ position' # 1
    <3>1. CASE OnStart
      <4>1. position = 0
        BY <3>1, PlaceFacts
      <4> QED
        BY <1>1, <1>2, <1>3, <3>1, <4>1, StepNext
    <3>2. CASE AtRecord
      <4>1. position \in 1..L /\ L # 1
        <5>1. position \in 1..L /\ ~IsVmexit(R[position])
          BY <1>1, <1>3, <3>2, PlaceFacts
        <5> QED
          BY <1>1, <5>1 DEF IsScenario, PointCount, Records
      <4>2. /\ event' = NoEvent
            /\ \E q : /\ Run(R, position, q)
                      /\ q <= L => AtRecord' /\ position' = q /\ Valid(r.current)
                      /\ q = L + 1 => AtEnd' /\ position' = L /\ ~Valid(r.current)
        BY <1>1, <1>2, <1>3, <3>2, StepNext
      <4>3. PICK q : /\ Run(R, position, q)
                     /\ q <= L => AtRecord' /\ position' = q /\ Valid(r.current)
                     /\ q = L + 1 => AtEnd' /\ position' = L /\ ~Valid(r.current)
        BY <4>2
      <4>4. q \in (position + 1)..(L + 1)
        BY <4>3 DEF Run
      <4>5. (q <= L \/ q = L + 1) /\ q >= position /\ L # 1
        BY <1>1, <4>1, <4>4
      <4> QED
        BY <4>2, <4>3, <4>5
    <3> QED
      BY <2>1, <3>1, <3>2
  <2>5. CASE AtRecord' /\ Valid(r.current) /\ position' >= position
    <3>1. pc' = "skip" /\ position' \in Nat
      <4>1. position' \in 1..Count
        BY <1>3, <2>5 DEF AtRecord
      <4> QED
        BY <1>1, <1>2, <1>3, <2>5, <4>1
    <3>2. From(call, position')
      <4>1. call.op = "current_event" => call.from <= position /\ call.from \in Nat
        BY <2>1, Sizes DEF From, IInv, TypeOK, CallType
      <4>2. call.op = "current_event" => call.from <= position'
        BY <1>1, <2>5, <3>1, <4>1
      <4> QED
        BY <4>2 DEF From
    <3>3. AtFetch'
      BY <1>3, <1>5, <1>7, <2>2, <2>3, <2>5, <3>2 DEF AtFetch
    <3> QED
      BY <1>1, <1>3, <2>4, <3>1, <3>3, PlaceFacts DEF OpenInv
  <2>6. CASE AtEnd' /\ ~Valid(r.current) /\ position' # 1
    <3>1. pc' = "return" /\ draft' = NoEvent
      BY <1>2, <2>6
    <3>2. IsBlank(NoEvent)
      BY Unstarted DEF IsBlank, NoEvent
    <3>3. Lost'
      BY <1>3, <1>7, <2>6, <3>1, <3>2 DEF Lost
    <3> QED
      BY <1>1, <1>3, <2>4, <3>1, <3>3, PlaceFacts DEF OpenInv
  <2> QED
    BY <2>4, <2>5, <2>6
<1> QED
  BY <1>6, <1>7

LEMMA FetchMissingRight == ASSUME IInv, OpenInv, FetchMissing PROVE OpenInv'
<1> DEFINE R == Records
           L == Len(R)
<1>1. /\ R \in Seq(Points) /\ Count = L /\ L \in Nat /\ IsScenario(file) /\ file # NoFile
  BY OpenFacts DEF OpenInv
<1>2. /\ pc = "fetch" /\ ~IsVmexit(current) /\ position = 1 /\ pc' = "second"
      /\ draft' = [NoEvent EXCEPT !.position = position, !.isFirst = TRUE, !.isEmulation = TRUE]
      /\ UNCHANGED <<file, stream, current, position, event, held, ahead, irq, call>>
      /\ Records' = R /\ Count' = Count
  BY DEF FetchMissing, FirstVmexitMissing, fileVars, readerVars, Records, Count
<1>3. AtFetch /\ HeldAhead /\ HeldAhead'
  BY <1>2, HeldStays, PlaceFacts DEF OpenInv, Lost, AtFetch
<1>4. ~ahead
  <2> SUFFICES ASSUME ahead PROVE FALSE
    OBVIOUS
  <2>1. position \in EndOf(R, held.position)..(Reach(R, held.position) + 1)
    BY <1>3 DEF AtFetch
  <2>2. /\ held.position \in 1..Count /\ held.position # 1
        /\ EndOf(R, held.position) \in held.position..Reach(R, held.position)
    BY <1>3, HeldFacts
  <2> QED
    BY <1>1, <1>2, <2>1, <2>2
<1>5. /\ AtRecord /\ From(call, 1) /\ Sought(R, call, 1)
      /\ 1 \in 1..L /\ ~IsVmexit(R[1])
  BY <1>1, <1>2, <1>3, <1>4, PlaceFacts DEF AtFetch
<1>6. AtRecord'
  BY <1>2, <1>5 DEF AtRecord
<1>7. Shape(R, 1, 1, 1, 1) /\ draft' = Drafted(R, 1, 1, 1)
  BY <1>1, <1>2, <1>5, NothingIsPart
<1>8. draft'.position = 1
  BY <1>2 DEF NoEvent
<1>9. AtPart'
  <2>1. IsStart(R, 1) /\ 1 \in 1..1 /\ ~(1 < 1)
    BY DEF IsStart
  <2>2. \E i, k \in 1..1 :
           /\ Shape(R, 1, i, k, 1)
           /\ draft' = Drafted(R, 1, i, 1)
           /\ i < 1 => irq = R[i]
           /\ i = 1
    BY <1>7, <2>1
  <2> HIDE DEF R, L
  <2> QED
    BY <1>2, <1>3, <1>4, <1>5, <1>6, <1>8, <2>1, <2>2 DEF AtPart, IsNext
<1> QED
  BY <1>1, <1>2, <1>9 DEF OpenInv

LEMMA FetchExitRight == ASSUME IInv, OpenInv, FetchExit PROVE OpenInv'
<1> DEFINE R == Records
           L == Len(R)
<1>1. /\ R \in Seq(Points) /\ Count = L /\ L \in Nat /\ IsScenario(file) /\ file # NoFile
  BY OpenFacts DEF OpenInv
<1>2. /\ pc \in {"fetch", "skip"} /\ IsVmexit(current)
      /\ NextWithin(EventStartingAt(current, position), "second")
      /\ UNCHANGED <<file, held, ahead, irq, call>>
      /\ Records' = R /\ Count' = Count
  BY DEF FetchExit, fileVars, Records, Count
<1>3. CASE AtFetch
  <2>1. HeldAhead
    BY <1>3 DEF AtFetch
  <2>2. AtRecord /\ position \in 1..L /\ current = R[position] /\ position \in Nat
    BY <1>1, <1>2, <1>3, PlaceFacts DEF AtFetch
  <2>3. IsNext(position) /\ From(call, position)
    <3>1. CASE ahead
      <4> DEFINE h == held.position
                 n == Reach(R, h)
      <4>1. /\ h \in 1..L /\ IsStart(R, h) /\ Complete(R, h) /\ n \in 1..(L - 1)
            /\ EndOf(R, h) \in h..n /\ Following(R, h) = n + 1
        BY <1>1, <2>1, <3>1, HeldFacts
      <4>2. position \in EndOf(R, h)..(n + 1) /\ From(call, h)
        BY <1>3, <2>1, <3>1 DEF AtFetch, HeldAhead
      <4> HIDE DEF h
      <4>3. position = n + 1
        <5>1. position \notin EndOf(R, h)..n
          BY <1>1, <1>2, <2>2, <4>1, NoExitBeyond
        <5> QED
          BY <4>1, <4>2, <5>1
      <4>4. call.op = "current_event" => call.from <= h /\ call.from \in Nat
        BY <4>2, Sizes DEF From, IInv, TypeOK, CallType
      <4>5. From(call, position)
        <5>1. h <= position /\ h \in Nat
          BY <2>2, <4>1, <4>2, <4>3
        <5>2. call.op = "current_event" => call.from <= position
          BY <2>2, <4>4, <5>1
        <5> QED
          BY <5>2 DEF From
      <4> QED
        BY <3>1, <4>1, <4>3, <4>5 DEF IsNext, h
    <3>2. CASE ~ahead
      BY <1>3, <3>2 DEF AtFetch, IsNext
    <3> QED
      BY <3>1, <3>2
  <2>4. IsStart(R, position) /\ IsVmexit(R[position])
    BY <1>2, <2>2 DEF IsStart
  <2>5. ASSUME NEW q, Run(R, position, q)
        PROVE  \E i, k : /\ Shape(R, position, i, k, q)
                         /\ EventStartingAt(current, position) = Drafted(R, position, i, q)
                         /\ i < q => irq' = R[i]
                         /\ i = q
    <3>1. Shape(R, position, q, q, q) /\ Drafted(R, position, q, q) = EventStartingAt(R[position], position)
      BY <1>1, <2>2, <2>4, <2>5, ExitIsPart
    <3>2. q \in Nat /\ ~(q < q)
      BY <1>1, <3>1, ShapeTypes
    <3> QED
      BY <2>2, <3>1, <3>2
  <2> QED
    <3> DEFINE x == position
               e == EventStartingAt(current, position)
    <3>1. x \in Nat /\ IsNext(x) /\ From(call, x) /\ IsStart(Records, x)
      BY <2>2, <2>3, <2>4
    <3>2. "second" \in {"second", "third", "last"} /\ NextWithin(e, "second")
      BY <1>2
    <3>3. \A q : Run(Records, position, q) =>
            \E i, k : /\ Shape(Records, x, i, k, q) /\ e = Drafted(Records, x, i, q)
                      /\ i < q => irq' = Records[i]
                      /\ "second" = "second" => i = q
                      /\ "second" = "third" => i < q /\ k = q
                      /\ "second" = "last" => k < q
      BY <2>5
    <3> HIDE DEF x, e
    <3> QED
      BY <1>2, <2>1, <2>2, <3>1, <3>2, <3>3, PartIsRead
<1>4. CASE Lost
  BY <1>1, <1>2, <1>4, LostStays DEF OpenInv, CurrentEvent, FetchNewEvent
<1> QED
  BY <1>2, <1>3, <1>4 DEF OpenInv

LEMMA FetchInterruptRight == ASSUME IInv, OpenInv, FetchInterrupt PROVE OpenInv'
<1> DEFINE R == Records
           L == Len(R)
           x == draft.position
           p == position
           e == [draft EXCEPT !.hasInterrupt = TRUE, !.vector = current.vector,
                              !.interruptRip = current.rip]
<1>1. /\ R \in Seq(Points) /\ Count = L /\ L \in Nat
  BY OpenFacts
<1>2. /\ pc = "second" /\ IsInterrupt(current) /\ NextWithin(e, "third") /\ irq' = current
      /\ UNCHANGED <<file, held, ahead, call>>
  BY DEF FetchInterrupt, fileVars
<1>3. AtPart
  BY <1>2 DEF OpenInv
<1>4. /\ HeldAhead /\ IsNext(x) /\ From(call, x) /\ AtRecord /\ IsStart(R, x)
      /\ p \in 1..L /\ current = R[p]
  BY <1>1, <1>3, PlaceFacts DEF AtPart
<1>5. PICK k \in 1..p : Shape(R, x, p, k, p) /\ draft = Drafted(R, x, p, p)
  BY <1>2, <1>3 DEF AtPart
<1>6. ASSUME NEW q, Run(R, p, q)
      PROVE  /\ Shape(R, x, p, q, q) /\ e = Drafted(R, x, p, q)
             /\ p < q /\ irq' = R[p]
  <2>1. /\ Shape(R, x, p, q, q)
        /\ Drafted(R, x, p, q) =
             [Drafted(R, x, p, p) EXCEPT !.hasInterrupt = TRUE, !.vector = R[p].vector,
                                         !.interruptRip = R[p].rip]
    <3>1. p <= Len(R) /\ IsInterrupt(R[p])
      BY <1>1, <1>2, <1>4
    <3> HIDE DEF x, p, R
    <3> QED
      BY <1>1, <1>5, <1>6, <3>1, IrqIsPart, Zenon
  <2>2. p < q
    BY <1>1, <1>4, <1>6 DEF Run
  <2> QED
    BY <1>2, <1>4, <1>5, <2>1, <2>2
<1>7. x \in Nat
  <2> HIDE DEF x, p
  <2> QED
    BY <1>1, <1>5, ShapeTypes
<1>8. \A q : Run(Records, position, q) =>
        \E i, h : /\ Shape(Records, x, i, h, q) /\ e = Drafted(Records, x, i, q)
                  /\ i < q => irq' = Records[i]
                  /\ "third" = "second" => i = q
                  /\ "third" = "third" => i < q /\ h = q
                  /\ "third" = "last" => h < q
  BY <1>6
<1>9. "third" \in {"second", "third", "last"}
  OBVIOUS
<1> HIDE DEF x, e
<1> QED
  BY <1>2, <1>4, <1>7, <1>8, <1>9, PartIsRead

LEMMA FetchRepeatedRight == ASSUME IInv, OpenInv, FetchRepeated PROVE OpenInv'
<1> DEFINE R == Records
           L == Len(R)
           x == draft.position
           p == position
<1>1. /\ R \in Seq(Points) /\ Count = L /\ L \in Nat
  BY OpenFacts
<1>2. /\ pc = "third" /\ IsInterrupt(current) /\ IsEquivalent(current, irq)
      /\ NextWithin(draft, "last") /\ irq' = irq
      /\ UNCHANGED <<file, held, ahead, call>>
  BY DEF FetchRepeated, fileVars
<1>3. AtPart
  BY <1>2 DEF OpenInv
<1>4. /\ HeldAhead /\ IsNext(x) /\ From(call, x) /\ AtRecord /\ IsStart(R, x)
      /\ p \in 1..L /\ current = R[p]
  BY <1>1, <1>3, PlaceFacts DEF AtPart
<1>5. PICK i \in 1..p : /\ Shape(R, x, i, p, p) /\ draft = Drafted(R, x, i, p)
                        /\ i < p /\ irq = R[i]
  BY <1>2, <1>3 DEF AtPart
<1>6. ASSUME NEW q, Run(R, p, q)
      PROVE  /\ Shape(R, x, i, p, q) /\ draft = Drafted(R, x, i, q)
             /\ p < q /\ irq' = R[i]
  <2>1. Shape(R, x, i, p, q) /\ Drafted(R, x, i, q) = Drafted(R, x, i, p)
    <3> HIDE DEF x, p
    <3> QED
      BY <1>1, <1>2, <1>4, <1>5, <1>6, RepeatIsPart
  <2>2. p < q
    BY <1>1, <1>4, <1>6 DEF Run
  <2> QED
    BY <1>2, <1>5, <2>1, <2>2
<1>7. x \in Nat
  <2> HIDE DEF x, p
  <2> QED
    BY <1>1, <1>5, ShapeTypes
<1>8. \A q : Run(Records, position, q) =>
        \E m, k : /\ Shape(Records, x, m, k, q) /\ draft = Drafted(Records, x, m, q)
                  /\ m < q => irq' = Records[m]
                  /\ "last" = "second" => m = q
                  /\ "last" = "third" => m < q /\ k = q
                  /\ "last" = "last" => k < q
  BY <1>6
<1>9. "last" \in {"second", "third", "last"}
  OBVIOUS
<1> HIDE DEF x
<1> QED
  BY <1>2, <1>4, <1>7, <1>8, <1>9, PartIsRead

\* What the places within an event come to.
LEMMA PartFacts ==
  ASSUME IInv, OpenInv, AtPart
  PROVE  LET x == draft.position
             p == position
         IN  /\ HeldAhead /\ IsNext(x) /\ From(call, x) /\ AtRecord /\ IsStart(Records, x)
             /\ Records \in Seq(Points) /\ Count = Len(Records)
             /\ x \in 1..p /\ p \in 1..Count /\ current = Records[p] /\ p <= Len(Records)
             /\ \E i, k : /\ Shape(Records, x, i, k, p) /\ i \in x..p /\ k \in i..p
                          /\ draft = Drafted(Records, x, i, p)
                          /\ draft.hasInterrupt <=> i < p
                          /\ draft.isFirst <=> ~IsVmexit(Records[x])
                          /\ i < p => irq = Records[i]
                          /\ pc = "second" => i = p
                          /\ pc = "third" => i < p /\ k = p
                          /\ pc = "last" => k < p
<1> DEFINE R == Records
           L == Len(R)
           x == draft.position
           p == position
<1>1. /\ R \in Seq(Points) /\ Count = L /\ L \in Nat
  BY OpenFacts
<1>2. /\ HeldAhead /\ IsNext(x) /\ From(call, x) /\ AtRecord /\ IsStart(R, x)
      /\ p \in 1..L /\ current = R[p] /\ p <= L
  BY <1>1, PlaceFacts DEF AtPart
<1>3. PICK i, k \in 1..p : /\ Shape(R, x, i, k, p)
                           /\ draft = Drafted(R, x, i, p)
                           /\ i < p => irq = R[i]
                           /\ pc = "second" => i = p
                           /\ pc = "third" => i < p /\ k = p
                           /\ pc = "last" => k < p
  BY DEF AtPart
<1> HIDE DEF x, p
<1>4. x \in 1..L /\ i \in x..p /\ k \in i..p /\ x \in Nat
  BY <1>1, <1>3, ShapeTypes
<1>5. (draft.hasInterrupt <=> i < p) /\ (draft.isFirst <=> ~IsVmexit(R[x]))
  <2>1. i \in 1..L
    BY <1>1, <1>2, <1>4
  <2>2. ReadIrq(R, i, p) \in Points
    BY <1>1, <2>1, PointsOfTheModel DEF ReadIrq
  <2>3. HasDraftFields(Drafted(R, x, i, p), R, x, i, p)
    BY <1>1, <1>4, <2>2, DraftFields
  <2>4. draft.hasInterrupt = (i < p) /\ draft.isFirst = ~IsVmexit(R[x])
    BY <1>3, <2>3, Zenon DEF HasDraftFields
  <2> QED
    BY <2>4
<1>6. x \in 1..p
  BY <1>1, <1>2, <1>4
<1> QED
  BY <1>1, <1>2, <1>3, <1>4, <1>5, <1>6 DEF x, p

LEMMA FetchEnterRight == ASSUME IInv, OpenInv, FetchEnter PROVE OpenInv'
<1> DEFINE R == Records
           x == draft.position
           p == position
<1>1. /\ pc \in {"second", "third", "last"} /\ NewContextFits
      /\ draft' = Completed(draft, current) /\ pc' = "return"
      /\ UNCHANGED <<file, stream, current, position, event, held, ahead, call>>
      /\ Records' = R /\ Count' = Count
  BY DEF FetchEnter, AtNewContext, fileVars, readerVars, Records, Count
<1>2. AtPart
  BY <1>1 DEF OpenInv
<1>3. /\ HeldAhead /\ IsNext(x) /\ From(call, x) /\ AtRecord /\ IsStart(R, x)
      /\ R \in Seq(Points) /\ p <= Len(R) /\ current = R[p]
  BY <1>2, PartFacts
<1>4. PICK i, k : /\ Shape(R, x, i, k, p) /\ draft = Drafted(R, x, i, p)
                  /\ draft.hasInterrupt <=> i < p
                  /\ i < p => irq = R[i]
  BY <1>2, PartFacts
<1>5. IsVmenter(R[p]) /\ (i < p => IsEquivalent(R[p], R[i])) /\ IsSane(draft')
  BY <1>1, <1>3, <1>4 DEF NewContextFits
<1>6. /\ EventOf(R, x) = draft' /\ Complete(R, x) /\ EndOf(R, x) = p
      /\ WellFormedEvent(R, x)
  <2>1. draft' = Completed(Drafted(R, x, i, p), R[p])
    BY <1>1, <1>3, <1>4
  <2> HIDE DEF x, p
  <2>2. /\ EventOf(R, x) = Completed(Drafted(R, x, i, p), R[p])
        /\ Complete(R, x) /\ EndOf(R, x) = p
        /\ WellFormedEvent(R, x) <=>
             /\ i < p => IsEquivalent(R[p], R[i])
             /\ IsSane(EventOf(R, x))
    BY <1>3, <1>4, <1>5, EndsAtEnter
  <2> QED
    BY <1>5, <2>1, <2>2
<1>7. x \in 1..Len(R)
  <2> HIDE DEF x, p
  <2> QED
    BY <1>3, <1>4, ShapeTypes
<1>8. IsEventAt(R, draft', x)
  BY <1>3, <1>6, <1>7 DEF IsEventAt
<1>9. draft'.position = x
  <2> HIDE DEF x
  <2> QED
    BY <1>3, <1>8, EventAtFacts
<1>10. HeldAhead' /\ AtRecord'
  BY <1>1, <1>3, HeldStays DEF AtRecord
<1> HIDE DEF x
<1>11. AtReturn'
  BY <1>1, <1>3, <1>6, <1>8, <1>9, <1>10 DEF AtReturn, ReadTo, IsNext
<1> QED
  BY <1>1, <1>11, OpenFacts DEF OpenInv

\* fetch_new_event throws for a malformed event, at a record beyond its first.
LEMMA ThrowFacts ==
  ASSUME IInv, OpenInv, FetchThrows
  PROVE  LET x == draft.position
         IN  /\ AtPart /\ From(call, x) /\ IsStart(Records, x)
             /\ x \in 1..Count /\ x \in Nat /\ x < position
             /\ ~WellFormedEvent(Records, x) /\ position <= Reach(Records, x) + 1
<1> DEFINE R == Records
           x == draft.position
           p == position
<1>1. /\ pc \in {"second", "third", "last"}
      /\ \/ pc = "third" /\ IsInterrupt(current) /\ ~IsEquivalent(current, irq)
         \/ AtNewContext /\ ~NewContextFits
      /\ Leave("threw")
      /\ UNCHANGED <<file, stream, current, position, event>>
      /\ Records' = R /\ Count' = Count
  BY DEF FetchThrows, AtNewContext, fileVars, readerVars, Records, Count
<1>2. AtPart
  BY <1>1 DEF OpenInv
<1>3. /\ From(call, x) /\ AtRecord /\ IsStart(R, x)
      /\ R \in Seq(Points) /\ Count = Len(R) /\ p <= Len(R) /\ current = R[p]
      /\ x \in 1..p /\ p \in 1..Count
  BY <1>2, PartFacts
<1>4. PICK i, k : /\ Shape(R, x, i, k, p) /\ i \in x..p /\ k \in i..p
                  /\ draft = Drafted(R, x, i, p)
                  /\ draft.hasInterrupt <=> i < p
                  /\ draft.isFirst <=> ~IsVmexit(R[x])
                  /\ i < p => irq = R[i]
                  /\ pc = "second" => i = p
                  /\ pc = "third" => i < p /\ k = p
                  /\ pc = "last" => k < p
  BY <1>2, PartFacts
<1>5. x \in Nat /\ p \in Nat /\ x \in 1..Len(R) /\ i \in Nat /\ k \in Nat
  BY <1>3, <1>4
<1> HIDE DEF x, p
<1>6. p > x
  <2> SUFFICES ASSUME p = x PROVE FALSE
    BY <1>3, <1>5
  <2>1. i = p /\ k = p /\ pc = "second" /\ ~draft.hasInterrupt
    BY <1>1, <1>4, <1>5
  <2>2. ~IsVmexit(R[p])
    <3>1. Led(R, x, i) /\ i \in x..p
      BY <1>4 DEF Shape
    <3> QED
      BY <1>5, <3>1 DEF Led
  <2>3. ~IsInterrupt(current) /\ ~NewContextFits
    BY <1>1, <2>1 DEF AtNewContext
  <2>4. IsVmenter(current)
    BY <1>3, <2>2, <2>3, Kinds
  <2>5. draft.isFirst
    BY <1>4, <2>2
  <2>6. IsSane(Completed(draft, current))
    <3>1. Completed(draft, current).isFirst = draft.isFirst
      BY OpenFacts, CompletedFields
    <3> QED
      BY <2>5, <3>1 DEF IsSane
  <2> QED
    BY <2>1, <2>3, <2>4, <2>6 DEF NewContextFits
<1>7. ~WellFormedEvent(R, x) /\ p <= Reach(R, x) + 1
  <2>1. CASE IsVmexit(R[p])
    BY <1>3, <1>4, <1>6, <2>1, EndsAtExit
  <2>2. CASE IsInterrupt(R[p])
    <3>1. i < p /\ (~IsEquivalent(R[p], R[i]) \/ k < p)
      BY <1>1, <1>3, <1>4, <1>5, <2>2 DEF AtNewContext
    <3>2. ~WellFormedEvent(R, x) /\ p <= Reach(R, x)
      BY <1>3, <1>4, <2>2, <3>1, EndsAtInterrupt
    <3>3. Reach(R, x) \in Nat
      BY <1>3, <1>5, ReachFacts
    <3> QED
      BY <1>5, <3>2, <3>3
  <2>3. CASE IsVmenter(R[p])
    <3>1. ~NewContextFits
      BY <1>1, <1>3, <2>3, Kinds
    <3>2. ~(i < p => IsEquivalent(R[p], R[i])) \/ ~IsSane(Completed(draft, R[p]))
      BY <1>3, <1>4, <2>3, <3>1 DEF NewContextFits
    <3>3. /\ EventOf(R, x) = Completed(Drafted(R, x, i, p), R[p]) /\ p <= Reach(R, x)
          /\ WellFormedEvent(R, x) <=>
               /\ i < p => IsEquivalent(R[p], R[i])
               /\ IsSane(EventOf(R, x))
      BY <1>3, <1>4, <2>3, EndsAtEnter
    <3>4. Reach(R, x) \in Nat
      BY <1>3, <1>5, ReachFacts
    <3>5. EventOf(R, x) = Completed(draft, R[p])
      BY <1>4, <3>3
    <3> QED
      BY <1>5, <3>2, <3>3, <3>4, <3>5
  <2> QED
    BY <2>1, <2>2, <2>3, Kinds
<1> QED
  BY <1>2, <1>3, <1>5, <1>6, <1>7 DEF x, p

LEMMA FetchThrowsRight == ASSUME IInv, OpenInv, FetchThrows PROVE OpenInv'
<1> DEFINE R == Records
           x == draft.position
           p == position
<1>1. /\ Leave("threw")
      /\ UNCHANGED <<file, stream, current, position, event>>
      /\ Records' = R /\ Count' = Count
  BY DEF FetchThrows, fileVars, readerVars, Records, Count
<1>2. /\ From(call, x) /\ AtRecord /\ IsStart(R, x) /\ x \in 1..Count
      /\ x \in Nat /\ p \in Nat /\ x < p /\ p \in 1..Count
      /\ ~WellFormedEvent(R, x) /\ p <= Reach(R, x) + 1
  BY ThrowFacts, PlaceFacts, OpenFacts DEF AtPart
<1> HIDE DEF x, p
<1>3. x \in 1..p
  BY <1>2
<1>8. \E y \in 1..Count' : y = x /\ ThrewAt(y)'
  <2>1. PICK y : y = x
    OBVIOUS
  <2>2. y \in 1..position /\ y \in 1..Count /\ y \in 1..Count' /\ IsStart(R, y)
    BY <1>1, <1>2, <1>3, <2>1 DEF p
  <2>3. ~WellFormedEvent(R, y) /\ position <= Reach(R, y) + 1
    BY <1>2, <2>1 DEF p
  <2>4. ThrewAt(y)'
    BY <1>1, <2>2, <2>3 DEF ThrewAt
  <2> QED
    BY <2>1, <2>2, <2>4
<1>9. call.op = "current_event" => call.from < p
  <2>1. call.op = "current_event" => call.from <= x /\ call.from \in Nat
    BY <1>2, Sizes DEF From, IInv, TypeOK, CallType
  <2> QED
    BY <1>2, <2>1
<1>10. call'.op = call.op /\ call'.from = call.from /\ call'.outcome = "threw"
  BY <1>1 DEF Leave, IInv, TypeOK, CallType
<1>11. AtRecord' /\ pc' = "idle" /\ ~ahead'
  BY <1>1, <1>2 DEF AtRecord, Leave
<1>12. ~event'.isValid
  BY <1>1 DEF OpenInv, FetchThrows, AtNewContext
<1>13. BetweenCalls'
  <2>1. EventIsRight' /\ AdvanceToReaches'
    BY <1>10, <1>12 DEF EventIsRight, AdvanceToReaches, Ended
  <2>2. p = position'
    BY <1>1 DEF p
  <2>3. PICK y \in 1..Count' : ThrewAt(y)'
    BY <1>8
  <2>4. call'.op = "current_event" => call'.from < position'
    BY <1>9, <1>10, <2>2
  <2>5. \E z \in 1..Count' : ThrewAt(z)' /\ (call'.op = "current_event" => call'.from < position')
    BY <2>3, <2>4
  <2> QED
    BY <1>11, <2>1, <2>5 DEF BetweenCalls
<1> QED
  BY <1>1, <1>11, <1>12, <1>13, OpenFacts DEF OpenInv

LEMMA FetchRight == ASSUME IInv, OpenInv, FetchNewEvent PROVE OpenInv'
<1>1. ~FetchSpins
  <2> SUFFICES ASSUME FetchSpins PROVE FALSE
    OBVIOUS
  <2>1. pc \in {"fetch", "skip"} /\ stream.fail /\ ~stream.eof
    BY HereIsReader DEF FetchSpins, Spins, IInv
  <2> QED
    BY <2>1, PlaceFacts DEF OpenInv, AtFetch, Lost
<1> QED
  BY <1>1, FetchSkipRight, FetchMissingRight, FetchExitRight, FetchInterruptRight,
     FetchRepeatedRight, FetchEnterRight, FetchThrowsRight DEF FetchNewEvent

-----------------------------------------------------------------------------
(* The loop of current_event.                                              *)

\* The call ends and gives the event held, which is that of x.
LEMMA EventGiven ==
  ASSUME IInv, OpenInv, NEW x, IsCombinedAt(Records, held, x), ~Absorbed(Records, x),
         Sought(Records, call, x), event' = held, Return, file' = file,
         AtRecord' \/ AtEnd', position' \in EndOf(Records, x)..Reach(Records, x),
         held.isLast <=> stream'.eof
  PROVE  OpenInv'
<1> DEFINE R == Records
<1>1. R \in Seq(Points) /\ IsScenario(file) /\ file # NoFile /\ Records' = R
  BY OpenFacts DEF OpenInv, Records
<1>2. held.position = x /\ x \in 1..Len(R) /\ held.isValid
  BY <1>1, CombinedFacts
<1>3. /\ call'.op = call.op /\ call'.arg = call.arg /\ call'.outcome = "returned"
      /\ pc' = "idle" /\ ~ahead'
  BY DEF Return, Leave, IInv, TypeOK, CallType
<1>4. EventIsRight'
  BY <1>1, <1>2 DEF EventIsRight
<1>5. AdvanceToReaches'
  <2> SUFFICES ASSUME call.op = "advance_to"
               PROVE  /\ IsVmenter(R[call.arg])
                      /\ held.isValid /\ x = Surviving(R, LastStart(R, call.arg))
    BY <1>1, <1>2, <1>3 DEF AdvanceToReaches, Ended, StartBefore, LastStart
  <2> QED
    BY <1>1, <1>2, SoughtSurvives
<1> QED
  BY <1>1, <1>3, <1>4, <1>5 DEF OpenInv, BetweenCalls

LEMMA LoopFacts ==
  ASSUME IInv, OpenInv, AtMerge
  PROVE  LET x == held.position
         IN  /\ IsCombinedAt(Records, held, x) /\ ReadTo(x)
             /\ Sought(Records, call, x) /\ From(call, x)
             /\ x \in 1..Count /\ (held.isLast <=> ~Complete(Records, x))
             /\ EndOf(Records, x) \in x..Reach(Records, x) /\ Reach(Records, x) \in x..Count
<1> DEFINE x == held.position
<1>1. /\ IsCombinedAt(Records, held, x) /\ ReadTo(x)
      /\ Sought(Records, call, x) /\ From(call, x)
      /\ Records \in Seq(Points) /\ Count = Len(Records)
  BY OpenFacts DEF AtMerge
<1> HIDE DEF x
<1>2. /\ x \in 1..Count /\ (held.isLast <=> ~Complete(Records, x))
      /\ EndOf(Records, x) \in x..Reach(Records, x) /\ Reach(Records, x) \in x..Count
  BY <1>1, CombinedFacts
<1> QED
  BY <1>1, <1>2 DEF x

LEMMA FirstReturnsRight == ASSUME IInv, OpenInv, FirstReturns PROVE OpenInv'
<1>1. /\ pc = "return" /\ ~ahead /\ held' = draft /\ pc' = "merge"
      /\ UNCHANGED <<file, stream, current, position, event, ahead, draft, call>>
      /\ Records' = Records /\ Count' = Count
  BY DEF FirstReturns, fileVars, readerVars, Records, Count
<1>2. AtRecord' = AtRecord /\ AtEnd' = AtEnd
  BY <1>1 DEF AtRecord, AtEnd
<1>3. CASE AtReturn
  <2>1. AtMerge'
    <3>1. IsCombinedAt(Records, draft, draft.position)
      BY <1>3, OpenFacts, CombinedAlone DEF AtReturn
    <3> QED
      BY <1>1, <1>2, <1>3, <3>1 DEF AtReturn, AtMerge, IsNext, ReadTo
  <2> QED
    BY <1>1, <2>1, OpenFacts DEF OpenInv
<1>4. CASE Lost
  <2>1. Lost'
    BY <1>1, <1>2, <1>4 DEF Lost
  <2> QED
    BY <1>1, <2>1, OpenFacts DEF OpenInv
<1> QED
  BY <1>1, <1>3, <1>4 DEF OpenInv

LEMMA LookAheadRight == ASSUME IInv, OpenInv, LookAhead PROVE OpenInv'
<1> DEFINE x == held.position
<1>1. /\ pc = "merge" /\ MayMerge(held) /\ ahead' = TRUE /\ pc' = "fetch"
      /\ UNCHANGED <<file, stream, current, position, event, held, call>>
      /\ Records' = Records /\ Count' = Count
  BY DEF LookAhead, fileVars, readerVars, Records, Count
<1>2. AtRecord' = AtRecord /\ AtEnd' = AtEnd
  BY <1>1 DEF AtRecord, AtEnd
<1>3. CASE AtMerge
  <2>1. /\ IsCombinedAt(Records, held, x) /\ ReadTo(x)
        /\ Sought(Records, call, x) /\ From(call, x)
        /\ x \in 1..Count /\ EndOf(Records, x) \in x..Reach(Records, x)
        /\ Reach(Records, x) \in x..Count
    BY <1>3, LoopFacts
  <2>2. Complete(Records, x)
    BY <1>1, <2>1, OpenFacts, MergeFacts
  <2>3. AtRecord /\ position = EndOf(Records, x)
    BY <2>1, <2>2 DEF ReadTo
  <2>4. position \in EndOf(Records, x)..(Reach(Records, x) + 1)
    BY <2>1, <2>3
  <2>5. AtFetch'
    BY <1>1, <1>2, <2>1, <2>3, <2>4 DEF AtFetch, HeldAhead
  <2> QED
    BY <1>1, <2>5, OpenFacts DEF OpenInv
<1>4. CASE Lost
  <2>1. Lost'
    BY <1>1, <1>2, <1>4 DEF Lost
  <2> QED
    BY <1>1, <2>1, OpenFacts DEF OpenInv
<1> QED
  BY <1>1, <1>3, <1>4 DEF OpenInv

LEMMA KeepRight == ASSUME IInv, OpenInv, Keep PROVE OpenInv'
<1>1. /\ pc = "merge" /\ ~MayMerge(held) /\ event' = held /\ Return
      /\ UNCHANGED <<file, stream, current, position>> /\ Count' = Count
  BY DEF Keep, fileVars, Records, Count
<1>2. AtRecord' = AtRecord /\ AtEnd' = AtEnd
  BY <1>1 DEF AtRecord, AtEnd, Records
<1>3. ~Lost
  BY <1>1 DEF Lost, IsBlank, MayMerge, AreValuesEquivalent
<1>4. AtMerge
  BY <1>1, <1>3 DEF OpenInv
<1>5. PICK x : x = held.position
  OBVIOUS
<1>6. /\ IsCombinedAt(Records, held, x) /\ ReadTo(x) /\ Sought(Records, call, x)
      /\ x \in 1..Count /\ (held.isLast <=> ~Complete(Records, x))
      /\ EndOf(Records, x) \in x..Reach(Records, x) /\ Reach(Records, x) \in x..Count
  BY <1>4, <1>5, LoopFacts
<1>7. ~Absorbed(Records, x)
  BY <1>1, <1>6, OpenFacts, KeepsOthers
<1>8. position \in EndOf(Records, x)..Reach(Records, x)
  BY <1>6 DEF ReadTo
<1>9. (AtRecord \/ AtEnd) /\ (held.isLast <=> stream.eof)
  BY <1>6, PlaceFacts DEF ReadTo
<1> QED
  BY <1>1, <1>2, <1>6, <1>7, <1>8, <1>9, EventGiven

LEMMA MergeRight == ASSUME IInv, OpenInv, Merge PROVE OpenInv'
<1> DEFINE R == Records
           h == held.position
           y == draft.position
<1>1. /\ pc = "return" /\ ahead /\ Merges(held, draft)
      /\ held' = [draft EXCEPT !.start = held.start] /\ pc' = "merge"
      /\ UNCHANGED <<file, stream, current, position, event, ahead, draft, call>>
      /\ Records' = Records /\ Count' = Count
      /\ draft \in Events /\ held \in Events
  BY OpenFacts DEF Merge, fileVars, readerVars, Records, Count
<1>2. AtRecord' = AtRecord /\ AtEnd' = AtEnd
  BY <1>1 DEF AtRecord, AtEnd
<1>3. held'.position = draft.position
  BY <1>1 DEF Events
<1>4. CASE AtReturn
  <2>1. /\ HeldAhead /\ y = Following(R, h) /\ From(call, y)
        /\ IsEventAt(R, draft, y) /\ ReadTo(y)
    BY <1>1, <1>4 DEF AtReturn, IsNext
  <2>2. /\ IsCombinedAt(R, held, h) /\ MayMerge(held) /\ Sought(R, call, h)
        /\ h \in 1..Count /\ Following(R, h) # 0 /\ Reach(R, h) < Len(R)
        /\ R \in Seq(Points) /\ Count = Len(R)
    BY <1>1, <2>1, HeldFacts, OpenFacts DEF HeldAhead
  <2>5. Absorbed(R, h)
    <3> HIDE DEF h
    <3> QED
      BY <1>1, <2>1, <2>2, MergesAbsorbed
  <2>4. IsCombinedAt(R, held', y)
    <3> HIDE DEF h
    <3> QED
      BY <1>1, <2>1, <2>2, <2>5, CombinedGrows
  <2>6. Sought(R, call, y)
    <3> HIDE DEF h
    <3> QED
      BY <2>1, <2>2, <2>5, SoughtFollows
  <2>7. AtMerge'
    BY <1>1, <1>2, <1>3, <2>1, <2>4, <2>6 DEF AtMerge, ReadTo
  <2> QED
    BY <1>1, <2>7, OpenFacts DEF OpenInv
<1>5. CASE Lost
  <2>1. IsBlank(held) /\ IsBlank(draft)
    BY <1>1, <1>5 DEF Lost
  <2>2. held' = draft
    <3>1. \A e \in Events : [e EXCEPT !.start = e.start] = e
      BY DEF Events
    <3> QED
      BY <1>1, <2>1, <3>1 DEF IsBlank
  <2>3. Lost'
    BY <1>1, <1>2, <1>5, <2>1, <2>2 DEF Lost
  <2> QED
    BY <1>1, <2>3, OpenFacts DEF OpenInv
<1> QED
  BY <1>1, <1>4, <1>5 DEF OpenInv

\* The event held is given, and the reader goes back before the one after it.
LEMMA PutBackFacts ==
  ASSUME IInv, OpenInv, PutBack
  PROVE  LET h == held.position
             n == Reach(Records, h)
         IN  /\ AtReturn /\ ahead /\ Return /\ file' = file
             /\ IsCombinedAt(Records, held, h) /\ ~Absorbed(Records, h) /\ Sought(Records, call, h)
             /\ ~held.isLast /\ EndOf(Records, h) \in h..n /\ h \in 1..Count
             /\ n \in 1..(Count - 1) /\ n \in 0..(RecordQuotient - HeaderSlots - 1)
             /\ Count = Len(Records)
             /\ event' = held
             /\ \E r \in SeekFrom(file, Here, n) :
                  stream' = r.stream /\ current' = r.current /\ position' = r.position
<1>1. /\ pc = "return" /\ ahead /\ ~Merges(held, draft) /\ Return /\ file' = file
      /\ Count' = Count /\ held \in Events /\ draft \in Events
  BY OpenFacts DEF PutBack, fileVars, Records, Count
<1>2. ~Lost
  BY <1>1 DEF Lost, IsBlank, Merges, AreValuesEquivalent
<1>3. AtReturn
  BY <1>1, <1>2 DEF OpenInv
<1>4. PICK h : h = held.position
  OBVIOUS
<1>5. /\ HeldAhead /\ draft.position = Following(Records, h)
      /\ IsEventAt(Records, draft, Following(Records, h))
  BY <1>1, <1>3, <1>4 DEF AtReturn, IsNext
<1>6. /\ IsCombinedAt(Records, held, h) /\ MayMerge(held) /\ Sought(Records, call, h)
      /\ h \in 1..Count /\ Complete(Records, h)
      /\ EndOf(Records, h) \in h..Reach(Records, h)
      /\ Reach(Records, h) \in 1..(Count - 1)
      /\ Following(Records, h) = Reach(Records, h) + 1
      /\ Records \in Seq(Points) /\ Count = Len(Records) /\ Count \in Nat
  BY <1>1, <1>4, <1>5, HeldFacts, OpenFacts DEF HeldAhead
<1>7. PICK n \in 1..(Count - 1) : n = Reach(Records, h)
  BY <1>6
<1>8. Before(draft.position) = n
  BY <1>5, <1>6, <1>7 DEF Before
<1>9. ~Absorbed(Records, h) /\ (held.isLast <=> ~Complete(Records, h))
  <2>1. Following(Records, h) # 0
    BY <1>6, <1>7
  <2> QED
    BY <1>1, <1>5, <1>6, <2>1, MergesAbsorbed, CombinedFacts
<1>10. PICK r \in SeekFrom(file, Here, n) : Become([r EXCEPT !.event = held])
  BY <1>8 DEF PutBack
<1>11. n \in 0..(RecordQuotient - HeaderSlots - 1) /\ n \in 0..(Word - 1)
  <2>1. /\ HeaderSlots + Count + 2 < RecordQuotient - HeaderSlots /\ HeaderSlots \in Nat
        /\ RecordQuotient \in Nat /\ Word \in Nat /\ 2 * RecordQuotient <= Word
    BY <1>6, OpenFacts, ScenarioFacts
  <2> QED
    BY <1>6, <1>7, <2>1
<1>12. /\ stream' = r.stream /\ current' = r.current /\ position' = r.position
       /\ event' = held
  <2>1. n \in 0..(Word - 1)
    BY <1>11
  <2>2. r \in Reader
    BY <2>1, HereIsReader, SeekKeeps DEF IInv, OpenIsSized
  <2> QED
    BY <1>10, <2>2 DEF Become, Reader
<1> QED
  BY <1>1, <1>3, <1>4, <1>5, <1>6, <1>7, <1>9, <1>10, <1>11, <1>12

LEMMA PutBackRight == ASSUME IInv, OpenInv, stream.isOpen, PutBack PROVE OpenInv'
<1>1. PICK h : h = held.position
  OBVIOUS
<1>2. PICK n : n = Reach(Records, h)
  OBVIOUS
<1>3. /\ Return /\ file' = file
      /\ IsCombinedAt(Records, held, h) /\ ~Absorbed(Records, h) /\ Sought(Records, call, h)
      /\ ~held.isLast /\ EndOf(Records, h) \in h..n /\ h \in 1..Count
      /\ n \in 1..(Count - 1) /\ n \in 0..(RecordQuotient - HeaderSlots - 1)
      /\ Count = Len(Records) /\ event' = held
      /\ \E r \in SeekFrom(file, Here, n) :
           stream' = r.stream /\ current' = r.current /\ position' = r.position
  BY <1>1, <1>2, PutBackFacts
<1>4. PICK r \in SeekFrom(file, Here, n) :
        stream' = r.stream /\ current' = r.current /\ position' = r.position
  BY <1>3
<1>5. Count \in Nat /\ n # 0 /\ n \in 1..Count /\ n \in Nat
  BY <1>3, OpenFacts
<1>6. AtRecord' /\ position' = n
  <2>1. HeaderSize + 2 * (n - 1) < OffsetLimit
    <3>1. HeaderSize + 2 * Count + 2 < OffsetLimit /\ HeaderSize \in Nat /\ OffsetLimit \in Nat
      BY OpenFacts, ScenarioFacts
    <3> QED
      BY <1>5, <3>1
  <2> QED
    BY <1>3, <1>4, <1>5, <2>1, StepSeek, OpenFacts
<1>7. ~stream'.eof
  BY <1>3, <1>5, <1>6 DEF AtRecord
<1>8. position' \in EndOf(Records, h)..Reach(Records, h)
  BY <1>2, <1>3, <1>5, <1>6
<1> QED
  BY <1>3, <1>6, <1>7, <1>8, EventGiven

-----------------------------------------------------------------------------
(* The calls of a client.                                                  *)

LEMMA CallCurrentEventRight == ASSUME IInv, OpenInv, CallCurrentEvent PROVE OpenInv'
<1>1. /\ pc = "idle" /\ UNCHANGED <<file, stream, current, position, event, ahead>>
      /\ call'.op = "current_event" /\ call'.from = position /\ call'.outcome # "threw"
      /\ Records' = Records /\ Count' = Count
  BY DEF CallCurrentEvent, Idle, Enter, fileVars, readerVars, localVars, Records, Count
<1>2. BetweenCalls /\ ~ahead
  BY <1>1 DEF OpenInv
<1>3. AtRecord' = AtRecord /\ AtEnd' = AtEnd /\ OnStart' = OnStart
  BY <1>1 DEF AtRecord, AtEnd, OnStart
<1>4. CASE event.isValid \/ stream.eof
  <2>1. pc' = "idle"
    BY <1>1, <1>4 DEF CallCurrentEvent
  <2>2. EventIsRight'
    BY <1>1, <1>2 DEF BetweenCalls, EventIsRight
  <2>3. AdvanceToReaches'
    BY <1>1 DEF AdvanceToReaches, Ended
  <2>4. BetweenCalls'
    BY <1>1, <1>2, <1>3, <2>2, <2>3 DEF BetweenCalls
  <2> QED
    BY <1>1, <1>2, <2>1, <2>4, OpenFacts DEF OpenInv
<1>5. CASE ~(event.isValid \/ stream.eof)
  <2>1. pc' = "fetch"
    BY <1>1, <1>5 DEF CallCurrentEvent
  <2>2. OnStart \/ AtRecord
    BY <1>2, <1>5 DEF BetweenCalls, AtEnd
  <2>3. From(call', position) /\ Sought(Records, call', position)
    BY <1>1, OpenFacts DEF From, Sought
  <2>4. AtFetch'
    BY <1>1, <1>2, <1>3, <2>2, <2>3 DEF AtFetch, HeldAhead
  <2> QED
    BY <1>1, <1>2, <1>5, <2>1, <2>4, OpenFacts DEF OpenInv
<1> QED
  BY <1>4, <1>5

LEMMA CallNextRight == ASSUME IInv, OpenInv, CallNext PROVE OpenInv'
<1>1. /\ pc = "idle" /\ pc' = "idle" /\ file' = file /\ ahead' = ahead
      /\ call'.op = "next" /\ call'.outcome = "returned"
      /\ Records' = Records /\ Count' = Count
  BY DEF CallNext, Idle, Enter, fileVars, localVars, Records, Count
<1>2. BetweenCalls /\ ~ahead
  BY <1>1 DEF OpenInv
<1>3. PICK r \in NextFrom(file, Here) : Become(r)
  BY DEF CallNext
<1>4. AdvanceToReaches'
  BY <1>1 DEF AdvanceToReaches, Ended
<1>5. CASE OnStart \/ AtRecord
  <2>1. event' = NoEvent /\ (AtRecord' \/ AtEnd')
    <3>1. CASE OnStart
      <4>1. Count >= 1 \/ Count = 0
        BY OpenFacts
      <4> QED
        BY <1>1, <1>3, <3>1, <4>1, StepNext, OpenFacts
    <3>2. CASE AtRecord
      <4>1. /\ event' = NoEvent
            /\ \E q : /\ Run(Records, position, q)
                      /\ q <= Count => AtRecord' /\ position' = q /\ Valid(r.current)
                      /\ q = Count + 1 => AtEnd' /\ position' = Count /\ ~Valid(r.current)
        BY <1>1, <1>3, <3>2, StepNext, OpenFacts
      <4>2. PICK q : /\ Run(Records, position, q)
                     /\ q <= Count => AtRecord'
                     /\ q = Count + 1 => AtEnd'
        BY <4>1
      <4>3. q \in (position + 1)..(Count + 1) /\ Count \in Nat /\ position \in Nat
        BY <4>2, OpenFacts DEF Run
      <4>4. q <= Count \/ q = Count + 1
        BY <4>3
      <4> QED
        BY <4>1, <4>2, <4>4
    <3> QED
      BY <1>5, <3>1, <3>2
  <2>2. BetweenCalls'
    BY <1>1, <1>4, <2>1, PlaceFacts DEF BetweenCalls, EventIsRight
  <2> QED
    BY <1>1, <1>2, <2>2, OpenFacts DEF OpenInv
<1>6. CASE AtEnd
  <2>1. r = Here
    BY <1>3, <1>6, EndNext
  <2>2. stream' = stream /\ current' = current /\ position' = position /\ event' = event
    BY <1>3, <2>1, HereIsReader DEF Become, IInv
  <2>3. EventIsRight' /\ AtEnd'
    BY <1>1, <1>2, <1>6, <2>2 DEF BetweenCalls, EventIsRight, AtEnd
  <2>4. BetweenCalls'
    BY <1>1, <1>4, <2>3 DEF BetweenCalls
  <2> QED
    BY <1>1, <1>2, <2>4, OpenFacts DEF OpenInv
<1> QED
  BY <1>2, <1>5, <1>6 DEF BetweenCalls

LEMMA ValidateRight == ASSUME IInv, OpenInv, Validate PROVE OpenInv'
<1>1. /\ pc = "idle" /\ pc' = "idle"
      /\ UNCHANGED <<file, stream, current, position, event, ahead>>
      /\ call'.op = "validate" /\ call'.outcome = "returned"
      /\ Records' = Records /\ Count' = Count
  BY DEF Validate, Idle, Enter, fileVars, readerVars, localVars, Records, Count
<1>2. BetweenCalls /\ ~ahead
  BY <1>1 DEF OpenInv
<1>3. AtRecord' = AtRecord /\ AtEnd' = AtEnd /\ OnStart' = OnStart
  BY <1>1 DEF AtRecord, AtEnd, OnStart
<1>4. EventIsRight' /\ AdvanceToReaches'
  BY <1>1, <1>2 DEF BetweenCalls, EventIsRight, AdvanceToReaches, Ended
<1>5. BetweenCalls'
  BY <1>1, <1>2, <1>3, <1>4 DEF BetweenCalls
<1> QED
  BY <1>1, <1>2, <1>5, OpenFacts DEF OpenInv

LEMMA AdvanceToRight ==
  ASSUME IInv, IsScenario(file), file # NoFile, ~ahead, EventIsRight, stream.isOpen,
         NEW p \in SeekTargets, AdvanceTo(p), p # 0 => HeaderSize + 2 * (p - 1) < OffsetLimit
  PROVE  OpenInv'
<1>1. p \in 0..(RecordQuotient - HeaderSlots - 1) /\ p \in Nat
  BY ConstantsAssumption, Sizes
<1>2. /\ pc = "idle" /\ file' = file /\ ahead' = ahead
      /\ call'.op = "advance_to" /\ call'.arg = p /\ call'.outcome # "threw"
      /\ Records' = Records /\ Count' = Count /\ Count \in Nat
  BY ScenarioOpen DEF AdvanceTo, Idle, Enter, fileVars, Records, Count
<1>3. PICK r \in SeekFrom(file, Here, p) :
        /\ Become(r)
        /\ IF p = 0 \/ ~IsVmenter(r.current)
           THEN call'.outcome = "returned" /\ pc' = pc
           ELSE call'.outcome = "running" /\ pc' = "reload" /\ target' = p
  BY DEF AdvanceTo, Enter
<1>4. IsScenario(file) /\ file # NoFile /\ ~ahead
  OBVIOUS
<1>5. /\ p = 0 => OnStart' /\ r.event = event
      /\ p \in 1..Count =>
           AtRecord' /\ position' = p /\ r.event = NoEvent /\ r.current = Records[p]
      /\ p > Count => AtEnd' /\ r.event = NoEvent /\ r.current = ZeroPoint
  BY <1>1, <1>2, <1>3, StepSeek, ScenarioOpen DEF Become
<1>6. current' = r.current /\ event' = r.event
  BY <1>3 DEF Become
<1>7. Records \in Seq(Points) /\ DOMAIN Records = 1..Count
  BY ScenarioOpen
<1>8. CASE p = 0
  <2>1. pc' = "idle" /\ OnStart' /\ event' = event /\ current' = NoPoint
    BY <1>2, <1>3, <1>5, <1>6, <1>8 DEF OnStart
  <2>2. EventIsRight'
    BY <1>2, <2>1 DEF EventIsRight
  <2>3. AdvanceToReaches'
    BY <1>2, <1>7, <1>8 DEF AdvanceToReaches
  <2>4. BetweenCalls'
    BY <1>2, <2>1, <2>2, <2>3 DEF BetweenCalls
  <2> QED
    BY <1>2, <1>4, <2>1, <2>4, ScenarioOpen DEF OpenInv
<1>9. CASE p \in 1..Count /\ IsVmenter(Records[p])
  <2>1. /\ pc' = "reload" /\ target' = p /\ AtRecord' /\ position' = p /\ event' = NoEvent
    BY <1>3, <1>5, <1>6, <1>9
  <2>2. call'.arg \in target'..Count /\ \A j \in (target' + 1)..call'.arg : FALSE
    BY <1>2, <1>9, <2>1
  <2>3. AtReload'
    BY <1>2, <1>9, <2>1, <2>2 DEF AtReload
  <2> QED
    BY <1>2, <1>4, <2>1, <2>3, PlaceFacts, ScenarioOpen DEF OpenInv
<1>10. CASE p \in 1..Count /\ ~IsVmenter(Records[p])
  <2>1. pc' = "idle" /\ AtRecord' /\ position' = p /\ event' = NoEvent /\ current' = Records[p]
    BY <1>2, <1>3, <1>5, <1>6, <1>10
  <2>2. EventIsRight' /\ AdvanceToReaches'
    BY <1>2, <1>10, <2>1, PlaceFacts DEF EventIsRight, AdvanceToReaches
  <2>3. BetweenCalls'
    BY <1>2, <2>1, <2>2 DEF BetweenCalls
  <2> QED
    BY <1>2, <1>4, <2>1, <2>3, PlaceFacts, ScenarioOpen DEF OpenInv
<1>11. CASE p > Count
  <2>1. pc' = "idle" /\ AtEnd' /\ event' = NoEvent
    BY <1>2, <1>3, <1>5, <1>6, <1>11, PlaceFacts, Kinds
  <2>2. p \notin 1..Count
    BY <1>1, <1>2, <1>11
  <2>3. EventIsRight' /\ AdvanceToReaches'
    BY <1>2, <1>7, <2>1, <2>2, PlaceFacts DEF EventIsRight, AdvanceToReaches
  <2>4. BetweenCalls'
    BY <1>2, <2>1, <2>3 DEF BetweenCalls
  <2> QED
    BY <1>2, <1>4, <2>1, <2>4, PlaceFacts, ScenarioOpen DEF OpenInv
<1> QED
  BY <1>1, <1>2, <1>8, <1>9, <1>10, <1>11

\* Beyond the offsets that its stream accepts a reader is stuck.
LEMMA AdvanceToSticks ==
  ASSUME IInv, IsScenario(file), file # NoFile, ~ahead, stream.isOpen,
         NEW p \in SeekTargets, AdvanceTo(p), p # 0, HeaderSize + 2 * (p - 1) >= OffsetLimit
  PROVE  StuckInv'
<1>1. /\ p \in 0..(RecordQuotient - HeaderSlots - 1) /\ p \in Nat /\ p - 1 \in Nat
      /\ p - 1 < RecordQuotient - HeaderSlots
      /\ RecordQuotient \in Nat /\ HeaderSlots \in Nat
  BY ConstantsAssumption, Sizes
<1>2. /\ pc = "idle" /\ file' = file /\ ahead' = ahead /\ stream \in S!Streams /\ sized
      /\ call'.op = "advance_to" /\ call'.arg = p /\ call'.outcome # "threw"
      /\ Count' = Count /\ Count \in Nat
      /\ Here.stream = stream /\ Here \in Reader
  BY ScenarioOpen, HereIsReader
     DEF AdvanceTo, Idle, Enter, fileVars, Records, Count, IInv, OpenIsSized
<1>3. PICK r \in SeekFrom(file, Here, p) :
        /\ Become(r)
        /\ p = 0 \/ ~IsVmenter(r.current) => pc' = pc
  BY DEF AdvanceTo, Enter
<1> DEFINE s == S!Seek(stream, SeekOffset(p - 1))
           t == [Here EXCEPT !.stream = s, !.current = NoPoint, !.position = p - 1]
<1>4. SeekOffset(p - 1) = -1
  <2>1. OffsetOf(p - 1) = HeaderSize + 2 * (p - 1)
    BY <1>1, ScenarioOpen, ScenarioPoints
  <2>2. HeaderSize + 2 * (p - 1) \in Nat /\ OffsetLimit \in Nat
    BY <1>1, Sizes DEF HeaderSize
  <2> QED
    BY <2>1, <2>2 DEF SeekOffset, S!Signed
<1>5. s.fail /\ ~s.eof
  <2>1. s = [stream EXCEPT !.at = stream.at, !.fail = TRUE, !.eof = FALSE]
    <3>1. ~(-1 >= 0)
      OBVIOUS
    <3> QED
      BY <1>4, <3>1 DEF S!Seek
  <2> QED
    BY <1>2, <2>1 DEF S!Streams
<1> HIDE DEF s
<1>6. t.stream = s /\ t.current = NoPoint
  BY <1>2 DEF Reader
<1>7. r \in NextFrom(file, t)
  BY <1>1, <1>2 DEF SeekFrom, s
<1> HIDE DEF t
<1>8. PICK n \in Skips(file, t) :
        r = [stream   |-> StreamAfter(file, t, n),
             current  |-> PointAfter(file, t, n),
             position |-> Wrap(t.position + n + (IF EndsAfter(file, t, n) THEN 0 ELSE 1)),
             event    |-> NoEvent]
  BY <1>5, <1>6, <1>7 DEF NextFrom
<1>9. r.stream = s /\ r.current = ZeroPoint /\ r.event = NoEvent
  BY <1>5, <1>6, <1>8 DEF StreamAfter, PointAfter
<1>10. /\ stream' = s /\ current' = ZeroPoint /\ event' = NoEvent /\ pc' = "idle"
  BY <1>2, <1>3, <1>9, PlaceFacts, Kinds DEF Become
<1>11. p \notin 1..Count
  <2>1. HeaderSize + 2 * Count + 2 < OffsetLimit /\ HeaderSize \in Nat /\ OffsetLimit \in Nat
    BY ScenarioOpen, ScenarioFacts
  <2> QED
    BY <1>1, <1>2, <2>1
<1> QED
  BY <1>2, <1>5, <1>10, <1>11, PlaceFacts DEF StuckInv, Stalled

\* What a reader can do that next does not return from.
LEMMA StuckSteps ==
  ASSUME Recorded, IInv, StuckInv, stream.isOpen, [Next]_vars, ~LoadFile
  PROVE  \/ CallNextSpins \/ CallCurrentEvent \/ Validate \/ FetchSpins \/ Spin
         \/ \E p \in SeekTargets : AdvanceTo(p)
         \/ UNCHANGED vars
<1>1. /\ IsScenario(file) /\ file # NoFile /\ file.version = 3
      /\ stream.fail /\ ~stream.eof /\ current = ZeroPoint /\ ~event.isValid /\ ~ahead
      /\ pc \in {"idle", "fetch", "spin"} /\ call.outcome # "threw"
      /\ call.op = "advance_to" => call.arg \notin 1..Count
  BY DEF StuckInv, Stalled, IsScenario
<1>2. NextFrom(file, Here) = {}
  <2>1. Here.stream.fail /\ ~Here.stream.eof /\ Here.current = ZeroPoint
    BY <1>1, HereIsReader DEF IInv
  <2>2. Skips(file, Here) = {}
    BY <1>1, <2>1 DEF Skips, PointAfter, EndsAfter
  <2> QED
    BY <2>1, <2>2 DEF NextFrom
<1>3. IsVmexit(current)
  BY <1>1, PlaceFacts
<1>4. ~CallNext /\ ~FetchSkip /\ ~FetchMissing /\ ~FetchExit
  BY <1>2, <1>3 DEF CallNext, FetchSkip, FetchMissing, FetchExit, NextWithin, FirstVmexitMissing
<1>5. /\ ~FetchInterrupt /\ ~FetchRepeated /\ ~FetchEnter /\ ~FetchThrows
      /\ ~FirstReturns /\ ~LookAhead /\ ~Keep /\ ~Merge /\ ~PutBack
      /\ ~ReloadBack /\ ~ReloadEvent
  BY <1>1 DEF FetchInterrupt, FetchRepeated, FetchEnter, FetchThrows, AtNewContext,
     FirstReturns, LookAhead, Keep, Merge, PutBack, ReloadBack, ReloadEvent
<1>6. ~(\E p \in EndArguments : SeekFromEnd(p))
  BY DEF SeekFromEnd, Recorded
<1> QED
  BY <1>4, <1>5, <1>6 DEF Next, Client, Library, CurrentEvent, FetchNewEvent

\* Only another seek, or load, gets it out.
LEMMA StuckRight ==
  ASSUME Recorded, IInv, StuckInv, stream.isOpen, [Next]_vars, ~LoadFile
  PROVE  OpenInv' \/ StuckInv'
<1>1. /\ IsScenario(file) /\ file # NoFile /\ file.version = 3
      /\ stream.fail /\ ~stream.eof /\ current = ZeroPoint /\ ~event.isValid /\ ~ahead
      /\ pc \in {"idle", "fetch", "spin"} /\ call.outcome # "threw"
      /\ call.op = "advance_to" => call.arg \notin 1..Count
  BY DEF StuckInv, Stalled, IsScenario
<1>2. CASE UNCHANGED vars
  BY <1>2 DEF vars, StuckInv, Stalled, Records, Count
<1>3. CASE CallNextSpins \/ CallCurrentEvent \/ Validate \/ FetchSpins \/ Spin
  <2>1. /\ UNCHANGED <<file, stream, current, event, ahead>> /\ pc' \in {"idle", "fetch", "spin"}
        /\ call' = call \/ (call'.op # "advance_to" /\ call'.outcome # "threw")
    BY <1>1, <1>3 DEF CallNextSpins, CallCurrentEvent, Validate, FetchSpins, Spin, Idle, Enter,
       fileVars, readerVars, localVars
  <2> QED
    BY <1>1, <2>1 DEF StuckInv, Stalled, Records, Count
<1>4. CASE \E p \in SeekTargets : AdvanceTo(p)
  <2>1. PICK p \in SeekTargets : AdvanceTo(p)
    BY <1>4
  <2>2. CASE p # 0 => HeaderSize + 2 * (p - 1) < OffsetLimit
    BY <1>1, <2>1, <2>2, AdvanceToRight DEF EventIsRight
  <2>3. CASE p # 0 /\ ~(HeaderSize + 2 * (p - 1) < OffsetLimit)
    <3>1. HeaderSize + 2 * (p - 1) >= OffsetLimit
      BY <2>3, ConstantsAssumption, Sizes DEF HeaderSize
    <3> QED
      BY <1>1, <2>1, <2>3, <3>1, AdvanceToSticks
  <2> QED
    BY <2>2, <2>3
<1> QED
  BY <1>2, <1>3, <1>4, StuckSteps

LEMMA ReloadBackRight ==
  ASSUME IInv, OpenInv, stream.isOpen, ReloadBack
  PROVE  OpenInv'
<1>1. /\ pc = "reload" /\ pc' = "reload" /\ ~IsVmexit(current) /\ position > 1
      /\ target' = target - 1
      /\ UNCHANGED <<file, ahead, call>> /\ Records' = Records /\ Count' = Count
  BY DEF ReloadBack, fileVars, Records, Count
<1>2. AtReload /\ ~ahead
  BY <1>1 DEF OpenInv
<1>3. /\ AtRecord /\ position = target /\ position \in 1..Count /\ current = Records[position]
      /\ call.op = "advance_to" /\ call.arg \in target..Count /\ IsVmenter(Records[call.arg])
      /\ \A j \in (target + 1)..call.arg : ~IsVmexit(Records[j])
  BY <1>2, PlaceFacts DEF AtReload
<1>4. PICK n \in 1..Count : n = target - 1
  BY <1>1, <1>3, OpenFacts
<1>5. PICK r \in SeekFrom(file, Here, n) : Become(r)
  BY <1>4 DEF ReloadBack
<1>6. n \in 0..(RecordQuotient - HeaderSlots - 1)
  <2>1. /\ HeaderSlots + Count + 2 < RecordQuotient - HeaderSlots /\ HeaderSlots \in Nat
        /\ RecordQuotient \in Nat /\ Count \in Nat
    BY OpenFacts, ScenarioFacts
  <2> QED
    BY <1>4, <2>1
<1>7. AtRecord' /\ position' = n /\ event' = NoEvent
  <2>1. HeaderSize + 2 * (n - 1) < OffsetLimit
    <3>1. /\ HeaderSize + 2 * Count + 2 < OffsetLimit /\ HeaderSize \in Nat /\ OffsetLimit \in Nat
          /\ Count \in Nat
      BY OpenFacts, ScenarioFacts
    <3> QED
      BY <1>4, <3>1
  <2> QED
    BY <1>1, <1>4, <1>5, <1>6, <2>1, StepSeek, OpenFacts DEF Become
<1>8. AtReload'
  <2>1. PICK a \in Nat, c \in Nat : a = call.arg /\ c = Count /\ a \in (n + 1)..c
    <3>1. target \in Nat /\ Count \in Nat /\ target = n + 1 /\ call.arg \in target..Count
      BY <1>3, <1>4, OpenFacts
    <3>2. call.arg \in Nat
      BY <3>1
    <3> QED
      BY <3>1, <3>2
  <2>2. a \in n..c
    BY <1>4, <2>1, n \in Nat
  <2>3. ASSUME NEW j \in (n + 1)..a PROVE ~IsVmexit(Records[j])
    <3>1. j = n + 1 \/ j \in ((n + 1) + 1)..a
      BY <2>1, n \in Nat
    <3>2. n + 1 = target
      BY <1>3, <1>4, OpenFacts
    <3> QED
      BY <1>1, <1>3, <2>1, <3>1, <3>2
  <2> QED
    BY <1>1, <1>3, <1>4, <1>7, <2>1, <2>2, <2>3 DEF AtReload
<1> QED
  BY <1>1, <1>2, <1>7, <1>8, PlaceFacts, OpenFacts DEF OpenInv

LEMMA ReloadEventRight == ASSUME IInv, OpenInv, ReloadEvent PROVE OpenInv'
<1>1. /\ pc = "reload" /\ (IsVmexit(current) \/ position <= 1)
      /\ UNCHANGED <<file, stream, current, position, event>>
      /\ Records' = Records /\ Count' = Count
  BY DEF ReloadEvent, fileVars, readerVars, Records, Count
<1>2. AtReload /\ ~ahead /\ ~event.isValid
  BY <1>1 DEF OpenInv
<1>3. /\ AtRecord /\ position = target /\ position \in 1..Count /\ current = Records[position]
      /\ call.op = "advance_to" /\ call.arg \in target..Count /\ IsVmenter(Records[call.arg])
      /\ \A j \in (target + 1)..call.arg : ~IsVmexit(Records[j])
      /\ ~stream.eof
  BY <1>2, PlaceFacts DEF AtReload
<1>4. pc' = "fetch" /\ ahead' = ahead /\ call' = call
  BY <1>2, <1>3 DEF ReloadEvent, localVars
<1>5. Sought(Records, call, position)
  <2>1. /\ Records \in Seq(Points) /\ call.arg \in 1..Len(Records)
        /\ position \in 1..call.arg
    BY <1>3, OpenFacts
  <2>2. IsStart(Records, position)
    BY <1>1, <1>3 DEF IsStart
  <2>3. \A j \in (position + 1)..call.arg : ~IsStart(Records, j)
    BY <1>3 DEF IsStart
  <2> QED
    BY <1>3, <2>1, <2>2, <2>3, SoughtStarts
<1>6. From(call, position)
  BY <1>3 DEF From
<1>7. AtRecord'
  BY <1>1, <1>3 DEF AtRecord
<1>8. AtFetch'
  BY <1>1, <1>2, <1>4, <1>5, <1>6, <1>7 DEF AtFetch, HeldAhead
<1> QED
  BY <1>1, <1>2, <1>4, <1>8, OpenFacts DEF OpenInv

-----------------------------------------------------------------------------
(* A reader before and after its load.                                     *)

LEMMA LoadRight ==
  ASSUME Recorded, IInv, EventInv, LoadFile
  PROVE  EventInv'
<1>1. PICK f \in Loadable :
        \/ LoadAbsent(f) \/ LoadShort(f) \/ LoadRejected(f)
        \/ LoadBadData(f) \/ LoadGood(f)
  BY DEF LoadFile
<1>2. /\ pc = "idle" /\ pc' = "idle" /\ file' = f /\ position' = 0
      /\ UNCHANGED <<current, event, ahead>> /\ call'.op = "load"
  <2>1. PICK s, outcome : Load(f, s, outcome)
    BY <1>1 DEF LoadAbsent, LoadShort, LoadRejected, LoadBadData, LoadGood
  <2> QED
    BY <2>1 DEF Load, Idle, Enter, localVars
<1>3. file = NoFile /\ f \in Files
  BY DEF Loadable, Recorded
<1>4. ~stream.isOpen
  BY <1>3 DEF EventInv, OpenInv, StuckInv
<1>5. current = NoPoint /\ ~event.isValid /\ ~ahead
  BY <1>4 DEF EventInv, ClosedInv
<1>6. CASE LoadGood(f)
  <2>1. f.kind \in {"good", "bad_data"} /\ stream' = S!Seek(S!Load(TRUE), HeaderSize)
    BY <1>6 DEF LoadGood, Load
  <2>2. IsScenario(f) /\ f # NoFile
    BY <1>3, <2>1 DEF Recorded, NoFile
  <2>3. /\ stream'.isOpen /\ ~stream'.fail /\ ~stream'.eof /\ stream'.at = HeaderSize
    <3>1. HeaderSize >= 0
      BY Sizes DEF HeaderSize
    <3> QED
      BY <2>1, <3>1 DEF S!Seek, S!Load
  <2>4. OnStart'
    BY <1>2, <1>5, <2>3 DEF OnStart
  <2>5. BetweenCalls'
    BY <1>2, <1>5, <2>4 DEF BetweenCalls, EventIsRight, AdvanceToReaches, Ended
  <2>6. OpenInv'
    BY <1>2, <1>5, <2>2, <2>5 DEF OpenInv
  <2> QED
    BY <2>3, <2>6 DEF EventInv
<1>7. CASE ~LoadGood(f)
  <2>1. /\ stream' \in {S!Load(FALSE), S!Close(S!Load(TRUE))}
        /\ f.kind \in {"absent", "short", "rejected", "bad_data"}
    BY <1>1, <1>7 DEF LoadAbsent, LoadShort, LoadRejected, LoadBadData, LoadGood, Load
  <2>2. ~S!Load(FALSE).isOpen /\ ~S!Close(S!Load(TRUE)).isOpen
    BY DEF S!Load, S!Close
  <2>3. ~stream'.isOpen
    BY <2>1, <2>2
  <2> QED
    BY <1>2, <1>5, <2>1, <2>3 DEF EventInv, ClosedInv
<1> QED
  BY <1>6, <1>7

LEMMA ClosedRight ==
  ASSUME IInv, ClosedAtEnd, ClosedInv, ~stream.isOpen, [Next]_vars, ~LoadFile
  PROVE  EventInv'
<1>1. /\ ~stream'.isOpen /\ current' \in {current, NoPoint} /\ event' = event
      /\ pc \in {"idle", "reload"}
  BY OnlyLoadOpens, ClosedKeeps DEF StaysClosed, ClosedAtEnd
<1>2. file' = file /\ ~ahead' /\ (call'.op # "load" => call'.outcome # "threw")
  <2>1. CASE UNCHANGED vars
    BY <2>1 DEF ClosedInv, vars
  <2>2. CASE CallNext \/ CallNextSpins \/ CallCurrentEvent \/ Validate
             \/ (\E p \in EndArguments : SeekFromEnd(p))
    BY <2>2 DEF ClosedInv, CallNext, CallNextSpins, CallCurrentEvent, Validate, SeekFromEnd,
       Enter, fileVars, localVars
  <2>3. CASE \E p \in SeekTargets : AdvanceTo(p)
    BY <2>3 DEF ClosedInv, AdvanceTo, Enter, fileVars
  <2>4. CASE ReloadBack
    BY <2>4 DEF ClosedInv, ReloadBack, fileVars
  <2>5. CASE ReloadEvent
    BY <2>5 DEF ClosedInv, ReloadEvent, Return, Leave, fileVars, localVars, IInv, TypeOK,
       CallType
  <2>6. CASE CurrentEvent \/ Spin
    BY <1>1, <2>6 DEF CurrentEvent, Spin, FetchNewEvent, FetchSkip, FetchMissing,
       FetchExit, FetchSpins, FetchInterrupt, FetchRepeated, FetchEnter, FetchThrows,
       AtNewContext, FirstVmexitMissing, FirstReturns, LookAhead, Keep, Merge, PutBack
  <2> QED
    BY <2>1, <2>2, <2>3, <2>4, <2>5, <2>6 DEF Next, Client, Library
<1> QED
  BY <1>1, <1>2 DEF EventInv, ClosedInv

LEMMA EventInvHolds == Init => EventInv
<1> SUFFICES ASSUME Init PROVE EventInv
  OBVIOUS
<1>1. PICK o \in BOOLEAN : stream = S!Unopened(o)
  BY DEF Init
<1>2. ~stream.isOpen
  BY <1>1 DEF S!Unopened
<1> QED
  BY <1>2 DEF EventInv, ClosedInv, Init, NoFile, NoEvent

LEMMA CurrentEventRight ==
  ASSUME IInv, OpenInv, stream.isOpen, CurrentEvent
  PROVE  OpenInv'
BY FetchRight, FirstReturnsRight, LookAheadRight, KeepRight, MergeRight, PutBackRight
   DEF CurrentEvent

LEMMA OpenUnchanged ==
  ASSUME OpenInv, UNCHANGED vars
  PROVE  OpenInv'
<1>1. UNCHANGED <<file, stream, current, position, event, pc, draft, held, ahead, irq,
                  target, call>>
  BY DEF vars
<1> QED
  BY <1>1 DEF OpenInv, BetweenCalls, AtReload, AtFetch, AtPart, AtReturn,
     AtMerge, Lost, HeldAhead, IsNext, ReadTo, AtRecord, AtEnd, OnStart, EventIsRight,
     AdvanceToReaches, ThrewAt, Ended, Idle, StartBefore, Records, Count

LEMMA EventInvKept ==
  ASSUME Recorded, IInv, ClosedAtEnd, EventInv, [Next]_vars
  PROVE  EventInv'
<1>1. CASE LoadFile
  BY <1>1, LoadRight
<1>2. CASE ~LoadFile /\ ~stream.isOpen
  BY <1>2, ClosedRight DEF EventInv
<1>3. CASE ~LoadFile /\ stream.isOpen /\ StuckInv
  <2>1. stream'.isOpen
    BY <1>3, OnlyLoadOpens
  <2> QED
    BY <1>3, <2>1, StuckRight DEF EventInv
<1>4. CASE ~LoadFile /\ stream.isOpen /\ OpenInv
  <2>1. stream'.isOpen /\ OpenInv
    BY <1>4, OnlyLoadOpens
  <2>2. CASE UNCHANGED vars
    BY <2>1, <2>2, OpenUnchanged DEF EventInv
  <2>3. CASE CurrentEvent
    BY <1>4, <2>1, <2>3, CurrentEventRight DEF EventInv
  <2>4. CASE CallNext \/ CallCurrentEvent \/ Validate
    BY <2>1, <2>4, CallNextRight, CallCurrentEventRight, ValidateRight DEF EventInv
  <2>5. CASE \E p \in SeekTargets : AdvanceTo(p)
    <3>1. PICK p \in SeekTargets : AdvanceTo(p)
      BY <2>5
    <3>2. IsScenario(file) /\ file # NoFile /\ ~ahead /\ EventIsRight
      BY <2>1, <3>1 DEF OpenInv, BetweenCalls, AdvanceTo, Idle
    <3>3. CASE p # 0 => HeaderSize + 2 * (p - 1) < OffsetLimit
      BY <1>4, <2>1, <3>1, <3>2, <3>3, AdvanceToRight DEF EventInv
    <3>4. CASE p # 0 /\ ~(HeaderSize + 2 * (p - 1) < OffsetLimit)
      <4>1. HeaderSize + 2 * (p - 1) >= OffsetLimit
        BY <3>4, ConstantsAssumption, Sizes DEF HeaderSize
      <4> QED
        BY <1>4, <2>1, <3>1, <3>2, <3>4, <4>1, AdvanceToSticks DEF EventInv
    <3> QED
      BY <3>3, <3>4
  <2>6. CASE ReloadBack \/ ReloadEvent
    BY <1>4, <2>1, <2>6, ReloadBackRight, ReloadEventRight DEF EventInv
  <2>7. ~(\E p \in EndArguments : SeekFromEnd(p)) /\ ~Spin
    BY <2>1 DEF SeekFromEnd, Recorded, Spin, OpenInv
  <2>8. ~CallNextSpins
    <3> SUFFICES ASSUME CallNextSpins PROVE FALSE
      OBVIOUS
    <3>1. pc = "idle" /\ stream.fail /\ ~stream.eof
      BY HereIsReader DEF CallNextSpins, Idle, Spins, IInv
    <3> QED
      BY <2>1, <3>1, PlaceFacts DEF OpenInv, BetweenCalls
  <2> QED
    BY <1>4, <2>2, <2>3, <2>4, <2>5, <2>6, <2>7, <2>8 DEF Next, Client, Library
<1> QED
  BY <1>1, <1>2, <1>3, <1>4 DEF EventInv

LEMMA EventInvariant == Recorded => (Spec => [](IInv /\ ClosedAtEnd /\ EventInv))
<1> SUFFICES ASSUME Recorded PROVE Spec => [](IInv /\ ClosedAtEnd /\ EventInv)
  OBVIOUS
<1>1. Init => IInv /\ ClosedAtEnd /\ EventInv
  BY InitHolds, InitClosed, EventInvHolds
<1>2. IInv /\ ClosedAtEnd /\ EventInv /\ [Next]_vars => (IInv /\ ClosedAtEnd /\ EventInv)'
  BY NextKeepsIInv, ClosedKeeps, EventInvKept
<1> QED
  BY <1>1, <1>2, PTL DEF Spec

-----------------------------------------------------------------------------
(* What the invariant says of the events given.                            *)

LEMMA GivenFacts ==
  ASSUME IInv, EventInv
  PROVE  /\ Idle /\ event.isValid =>
              EventIsRight /\ Records \in Seq(Points) /\ Count = Len(Records)
         /\ AdvanceToReaches
         /\ Idle /\ call.outcome = "threw" /\ call.op # "load" =>
              \E x \in 1..Count : ThrewAt(x) /\ (call.op = "current_event" => call.from < position)
<1>0. CASE stream.isOpen /\ StuckInv
  <2>1. DOMAIN Records = 1..Count
    BY <1>0, ScenarioOpen DEF StuckInv
  <2> QED
    BY <1>0, <2>1 DEF StuckInv, AdvanceToReaches, Ended
<1>1. CASE stream.isOpen /\ OpenInv
  <2>1. OpenInv /\ (Idle => BetweenCalls)
    BY <1>1 DEF OpenInv, Idle
  <2>2. AdvanceToReaches
    BY <2>1 DEF BetweenCalls, AdvanceToReaches, Ended
  <2> QED
    BY <2>1, <2>2, OpenFacts DEF BetweenCalls
<1>2. CASE ~stream.isOpen
  <2>1. ClosedInv
    BY <1>2 DEF EventInv
  <2> QED
    BY <2>1 DEF ClosedInv, AdvanceToReaches
<1> QED
  BY <1>0, <1>1, <1>2 DEF EventInv

-----------------------------------------------------------------------------
(* The properties.                                                         *)

LEMMA RightEvents ==
  ASSUME IInv, EventInv
  PROVE  EventMatchesRecords /\ EventsAreWellFormed /\ AbsorbedEventsAreHidden
<1> SUFFICES ASSUME Idle, event.isValid
             PROVE  EventMatchesRecords /\ EventsAreWellFormed /\ AbsorbedEventsAreHidden
  BY DEF EventMatchesRecords, EventsAreWellFormed, AbsorbedEventsAreHidden
<1>1. EventIsRight /\ DOMAIN Records = 1..Len(Records) /\ Records \in Seq(Points)
  BY GivenFacts
<1> DEFINE x == event.position
<1>2. IsCombinedAt(Records, event, x) /\ ~Absorbed(Records, x)
  BY <1>1 DEF EventIsRight
<1>3. x \in DOMAIN Records /\ IsStart(Records, x) /\ WellFormedEvent(Records, x)
      /\ AreValuesEquivalent(event.start, EventOf(Records, x).start)
  BY <1>1, <1>2, CombinedFacts
<1>4. \E o \in 1..x : Absorbing(Records, o, x) /\ event = Combined(Records, o, x)
  BY <1>2 DEF IsCombinedAt
<1> QED
  BY <1>1, <1>2, <1>3, <1>4 DEF EventIsRight, EventMatchesRecords, EventsAreWellFormed,
     AbsorbedEventsAreHidden

LEMMA RightThrows ==
  ASSUME IInv, EventInv
  PROVE  ThrowsMeanMalformed /\ ThrowMakesProgress
<1> SUFFICES ASSUME Idle, call.outcome = "threw", call.op # "load"
             PROVE  /\ \E x \in 1..position : /\ IsStart(Records, x)
                                              /\ ~WellFormedEvent(Records, x)
                                              /\ position <= Reach(Records, x) + 1
                    /\ call.op = "current_event" => position > call.from
  BY DEF ThrowsMeanMalformed, ThrowMakesProgress, Ended
<1>1. PICK x \in 1..Count : ThrewAt(x) /\ (call.op = "current_event" => call.from < position)
  BY GivenFacts
<1> QED
  BY <1>1 DEF ThrewAt

\* An event given to the client is the one its records describe, field by
\* field, but for the start context of an event that absorbed others, which is
\* that of the first of them and has its TSC and FPU words; and the reader
\* stands within the event, whatever was merged, looked ahead at, put back or
\* reloaded: current_event and advance_to of sync_file.
THEOREM GivenEventsMatch == Recorded => (Spec => []EventMatchesRecords)
<1>1. IInv /\ ClosedAtEnd /\ EventInv => EventMatchesRecords
  BY RightEvents
<1> QED
  BY <1>1, EventInvariant, PTL

\* current_event checks all that makes an event well formed: no malformed one
\* reaches the client.
THEOREM GivenEventsAreWellFormed == Recorded => (Spec => []EventsAreWellFormed)
<1>1. IInv /\ ClosedAtEnd /\ EventInv => EventsAreWellFormed
  BY RightEvents
<1> QED
  BY <1>1, EventInvariant, PTL

\* The look ahead of current_event goes on through every event that changes
\* nothing: one that its successor absorbs is never given.
THEOREM AbsorbedAreHidden == Recorded => (Spec => []AbsorbedEventsAreHidden)
<1>1. IInv /\ ClosedAtEnd /\ EventInv => AbsorbedEventsAreHidden
  BY RightEvents
<1> QED
  BY <1>1, EventInvariant, PTL

\* An exception of current_event, or of the reload of advance_to, is the fault
\* of the malformed event that the reader stands in or has just left.
THEOREM ThrowsAreDeserved == Recorded => (Spec => []ThrowsMeanMalformed)
<1>1. IInv /\ ClosedAtEnd /\ EventInv => ThrowsMeanMalformed
  BY RightThrows
<1> QED
  BY <1>1, EventInvariant, PTL

\* current_event, called again after it threw, starts beyond where it was
\* called before: a client that goes on after an exception leaves the
\* malformed event behind.
THEOREM ThrowsMakeProgress == Recorded => (Spec => []ThrowMakesProgress)
<1>1. IInv /\ ClosedAtEnd /\ EventInv => ThrowMakesProgress
  BY RightThrows
<1> QED
  BY <1>1, EventInvariant, PTL

\* advance_to(p) puts the reader on record p, or on the event that p belongs
\* to or the one that absorbs it, wherever the reader was before.
THEOREM AdvanceToArrives == Recorded => (Spec => []AdvanceToReaches)
<1>1. IInv /\ ClosedAtEnd /\ EventInv => AdvanceToReaches
  BY GivenFacts
<1> QED
  BY <1>1, EventInvariant, PTL

-----------------------------------------------------------------------------
(* dump_sync_events.                                                       *)

\* As many events were printed as there are to print before record b.
Emitted(b) == Len(printed) = Cardinality({y \in Kept(Records) : y < b})

\* Of identical records next stops at the first.
FirstOfRun(p) == p = 1 \/ Records[p - 1] # Records[p]

\* The event current_event has come to.
ComeTo ==
  IF ahead \/ pc = "merge" THEN held.position
  ELSE IF pc \in {"fetch", "skip"} THEN position
  ELSE draft.position

\* No event before record b is absorbed by one from there on.
Fresh(b) ==
  \A y \in StartsOf(Records) : y < b => \E z \in Kept(Records) : y <= z /\ z < b

\* e is an event with all those that it absorbs.
IsWhole(e) ==
  \E o \in StartsOf(Records) :
    /\ o <= e.position /\ Fresh(o)
    /\ Absorbing(Records, o, e.position) /\ e = Combined(Records, o, e.position)

\* The tool never calls current_event before the first record: the fetch, which
\* then would, does not skip it.
FetchesWhole ==
  IF ahead \/ pc = "merge" THEN IsWhole(held)
  ELSE /\ Fresh(ComeTo)
       /\ pc = "fetch" => AtRecord
       /\ pc = "skip" => position > 1

\* What the tool relies on when it prints, and has printed before.
PrintInv ==
  /\ call.op = "current_event"
  /\ pc # "idle" => Lost \/ (Emitted(ComeTo) /\ FirstOfRun(ComeTo) /\ FetchesWhole)
  /\ pc = "idle" => IF call.outcome = "threw" THEN ~WellFormed(Records)
                    ELSE /\ event.isValid /\ event.position \in Kept(Records)
                         /\ Emitted(event.position) /\ IsWhole(event) /\ current # NoPoint

FreshRecord ==
  /\ AtRecord /\ FirstOfRun(position) /\ ~event.isValid
  /\ Emitted(position) /\ Fresh(position)

DumpInv ==
  /\ tool \in {"load", "next", "test", "event", "print", "done", "aborted"}
  /\ printed \in Seq(Events)
  /\ tool = "load" => file = NoFile /\ printed = <<>>
  /\ tool # "print" => pc = "idle"
  /\ tool # "load" => (file.kind = "good" <=> stream.isOpen)
  /\ stream.isOpen =>
       /\ OpenInv
       /\ tool # "load"
       /\ tool = "next" => Emitted(position + 1) /\ Fresh(position + 1)
       /\ tool = "test" => FreshRecord \/ (AtEnd /\ Emitted(Count + 1))
       /\ tool = "event" => FreshRecord
       /\ tool = "print" => PrintInv
  /\ ~stream.isOpen => printed = <<>> /\ tool \notin {"event", "print"}

-----------------------------------------------------------------------------
(* What the tool counts.                                                   *)

LEMMA KeptFacts ==
  ASSUME NEW R \in Seq(Points)
  PROVE  /\ Kept(R) \subseteq StartsOf(R) /\ StartsOf(R) \subseteq 1..Len(R)
         /\ Len(R) \in Nat /\ IsFiniteSet(Kept(R))
         /\ \A b : IsFiniteSet({y \in Kept(R) : y < b})
<1>1. Len(R) \in Nat /\ DOMAIN R = 1..Len(R)
  OBVIOUS
<1>2. Kept(R) \subseteq StartsOf(R) /\ StartsOf(R) \subseteq 1..Len(R)
  BY <1>1 DEF Kept, StartsOf
<1>3. IsFiniteSet(1..Len(R))
  BY <1>1, FS_Interval
<1>4. IsFiniteSet(Kept(R))
  BY <1>2, <1>3, FS_Subset
<1>5. \A b : IsFiniteSet({y \in Kept(R) : y < b})
  <2> TAKE b
  <2>1. {y \in Kept(R) : y < b} \subseteq Kept(R)
    OBVIOUS
  <2> QED
    BY <1>4, <2>1, FS_Subset
<1> QED
  BY <1>1, <1>2, <1>4, <1>5

\* There is nothing to print between a and b.
LEMMA NothingBetween ==
  ASSUME NEW R \in Seq(Points), NEW a \in Nat, NEW b \in Nat, a <= b,
         \A y \in a..(b - 1) : y \notin Kept(R)
  PROVE  {y \in Kept(R) : y < a} = {y \in Kept(R) : y < b}
<1>1. Kept(R) \subseteq Nat
  BY KeptFacts
<1>2. \A y \in Nat : y < b => y < a \/ y \in a..(b - 1)
  OBVIOUS
<1>3. \A y \in Nat : y < a => y < b
  OBVIOUS
<1> QED
  BY <1>1, <1>2, <1>3

\* One event more.
LEMMA OneMoreKept ==
  ASSUME NEW R \in Seq(Points), NEW x \in Kept(R)
  PROVE  Cardinality({y \in Kept(R) : y < x + 1}) = Cardinality({y \in Kept(R) : y < x}) + 1
<1>1. Kept(R) \subseteq Nat
  BY KeptFacts
<1>2. \A y \in Nat : y < x + 1 <=> y < x \/ y = x
  BY <1>1
<1>3. {y \in Kept(R) : y < x + 1} = {y \in Kept(R) : y < x} \cup {x}
  BY <1>1, <1>2
<1>4. x \notin {y \in Kept(R) : y < x} /\ IsFiniteSet({y \in Kept(R) : y < x})
  <2>1. x \in Nat
    BY <1>1
  <2>2. ~(x < x)
    BY <2>1
  <2> QED
    BY <2>2, KeptFacts
<1> QED
  BY <1>3, <1>4, FS_AddElement

\* Beyond the last record there is nothing to print.
LEMMA AllKept ==
  ASSUME NEW R \in Seq(Points)
  PROVE  {y \in Kept(R) : y < Len(R) + 1} = Kept(R)
<1>1. Kept(R) \subseteq 1..Len(R) /\ Len(R) \in Nat
  BY KeptFacts
<1>2. \A y \in 1..Len(R) : y < Len(R) + 1
  BY <1>1
<1> QED
  BY <1>1, <1>2

\* next passes over no start.
LEMMA NoStartInRun ==
  ASSUME NEW R \in Seq(Points), NEW p \in 1..Len(R), NEW q, Run(R, p, q)
  PROVE  /\ \A y \in (p + 1)..(q - 1) : y \notin StartsOf(R)
         /\ q \in (p + 1)..(Len(R) + 1)
         /\ q <= Len(R) => R[q - 1] # R[q]
<1>1. /\ q \in (p + 1)..(Len(R) + 1) /\ Len(R) \in Nat /\ p \in Nat
      /\ \A j \in (p + 1)..(q - 1) : R[j] = R[p]
      /\ q <= Len(R) => R[q] # R[p]
  BY DEF Run
<1>2. ASSUME NEW y \in (p + 1)..(q - 1) PROVE y \notin StartsOf(R)
  <2>1. y # 1 /\ R[y] = R[p] /\ y \in Nat
    BY <1>1, <1>2
  <2>2. y - 1 = p \/ y - 1 \in (p + 1)..(q - 1)
    BY <1>1, <1>2
  <2>3. R[y - 1] = R[p]
    BY <1>1, <2>2
  <2> QED
    BY <2>1, <2>3 DEF StartsOf
<1>3. ASSUME q <= Len(R) PROVE R[q - 1] # R[q]
  <2>1. q - 1 = p \/ q - 1 \in (p + 1)..(q - 1)
    BY <1>1
  <2>2. R[q - 1] = R[p]
    BY <1>1, <2>1
  <2> QED
    BY <1>1, <1>3, <2>2
<1> QED
  BY <1>1, <1>2, <1>3

\* The events of EventDump are those of sync_file.
LEMMA SameReference ==
  /\ \A R : Promise!Kept(R) = Kept(R)
  /\ \A R : Promise!WellFormed(R) <=> WellFormed(R)
  /\ \A R, o, x : Promise!Combined(R, o, x) = Combined(R, o, x)
  /\ \A R, x : Promise!Origin(R, x) = Origin(R, x)
  /\ \A T : Promise!Cardinality(T) = Cardinality(T)
<1>1. \A p : Promise!IsInterrupt(p) <=> IsInterrupt(p)
  BY DEF Promise!IsInterrupt, IsInterrupt
<1>2. \A p : Promise!IsVmenter(p) <=> IsVmenter(p)
  BY DEF Promise!IsVmenter, IsVmenter
<1>3. \A p : Promise!IsVmexit(p) <=> IsVmexit(p)
  BY <1>1, <1>2 DEF Promise!IsVmexit, IsVmexit
<1>4. \A p, q : Promise!IsEquivalent(p, q) <=> IsEquivalent(p, q)
  BY DEF Promise!IsEquivalent, IsEquivalent
<1>5. \A p : Promise!ContextOf(p) = ContextOf(p)
  BY DEF Promise!ContextOf, ContextOf
<1>6. Promise!ZeroPoint = ZeroPoint /\ Promise!EmulatedExits = EmulatedExits
  BY DEF Promise!ZeroPoint, ZeroPoint, Promise!NoPoint, NoPoint, Promise!EmulatedExits, EmulatedExits
<1>7. \A e : Promise!IsSane(e) <=> IsSane(e)
  BY DEF Promise!IsSane, IsSane, Promise!PageFault, PageFault
<1>8. \A T : Promise!Max(T) = Max(T) /\ Promise!Min(T) = Min(T)
  BY DEF Promise!Max, Max, Promise!Min, Min
<1>9. \A R, q, p : Promise!SameRun(R, q, p) <=> SameRun(R, q, p)
  BY DEF Promise!SameRun, SameRun
<1>10. \A R, x : Promise!IsStart(R, x) <=> IsStart(R, x)
  BY <1>3 DEF Promise!IsStart, IsStart
<1>11. \A R : Promise!StartsOf(R) = StartsOf(R)
  BY <1>10 DEF Promise!StartsOf, StartsOf
<1>12. \A R, x : Promise!Reach(R, x) = Reach(R, x)
  BY <1>3, <1>8, <1>9 DEF Promise!Reach, Reach
<1>13. \A R, x : Promise!Enters(R, x) = Enters(R, x)
  BY <1>2, <1>12 DEF Promise!Enters, Enters
<1>14. \A R, x : Promise!Complete(R, x) <=> Complete(R, x)
  BY <1>13 DEF Promise!Complete, Complete
<1>15. \A R, x : Promise!EndOf(R, x) = EndOf(R, x)
  BY <1>8, <1>12, <1>13, <1>14 DEF Promise!EndOf, EndOf
<1>16. \A R, x : Promise!Irqs(R, x) = Irqs(R, x)
  BY <1>1, <1>15 DEF Promise!Irqs, Irqs
<1>17. \A R, x : Promise!Emulates(R, x) <=> Emulates(R, x)
  BY <1>3, <1>6, <1>14, <1>15 DEF Promise!Emulates, Emulates
<1>18. \A R, x : Promise!EventOf(R, x) = EventOf(R, x)
  <2> TAKE R, x
  <2> DEFINE exit      == IF IsVmexit(R[x]) THEN R[x] ELSE ZeroPoint
             interrupt == IF Irqs(R, x) = {} THEN ZeroPoint ELSE R[Min(Irqs(R, x))]
             enter     == IF Complete(R, x) THEN R[EndOf(R, x)] ELSE ZeroPoint
  <2>1. /\ (IF Promise!IsVmexit(R[x]) THEN R[x] ELSE Promise!ZeroPoint) = exit
        /\ (IF Promise!Complete(R, x) THEN R[Promise!EndOf(R, x)] ELSE Promise!ZeroPoint) = enter
    BY <1>3, <1>6, <1>14, <1>15
  <2>2. (IF Promise!Irqs(R, x) = {} THEN Promise!ZeroPoint
         ELSE R[Promise!Min(Promise!Irqs(R, x))]) = interrupt
    BY <1>6, <1>8, <1>16
  <2>3. EventOf(R, x) =
          [position |-> x, isValid |-> TRUE, isFirst |-> ~IsVmexit(R[x]),
           startRip |-> exit.rip, start |-> ContextOf(exit), reason |-> exit.type,
           rflags |-> enter.rflags,
           isLast |-> ~Complete(R, x), hasInterrupt |-> Irqs(R, x) # {},
           vector |-> interrupt.vector, interruptRip |-> interrupt.rip,
           isEmulation |-> Emulates(R, x), new |-> ContextOf(enter)]
    BY DEF EventOf
  <2> HIDE DEF exit, interrupt, enter
  <2>4. Promise!EventOf(R, x) =
          [position |-> x, isValid |-> TRUE, isFirst |-> ~Promise!IsVmexit(R[x]),
           startRip |-> exit.rip, start |-> Promise!ContextOf(exit), reason |-> exit.type,
           rflags |-> enter.rflags,
           isLast |-> ~Promise!Complete(R, x), hasInterrupt |-> Promise!Irqs(R, x) # {},
           vector |-> interrupt.vector, interruptRip |-> interrupt.rip,
           isEmulation |-> Promise!Emulates(R, x), new |-> Promise!ContextOf(enter)]
    BY <2>1, <2>2 DEF Promise!EventOf
  <2>5. /\ Promise!ContextOf(exit) = ContextOf(exit) /\ Promise!ContextOf(enter) = ContextOf(enter)
        /\ (~Promise!IsVmexit(R[x])) = (~IsVmexit(R[x]))
        /\ (~Promise!Complete(R, x)) = (~Complete(R, x))
        /\ (Promise!Irqs(R, x) # {}) = (Irqs(R, x) # {})
        /\ Promise!Emulates(R, x) = Emulates(R, x)
    BY <1>3, <1>5, <1>14, <1>16, <1>17 DEF Promise!Emulates, Emulates
  <2> QED
    BY <2>3, <2>4, <2>5
<1>19. \A T : Promise!Cardinality(T) = Cardinality(T)
  BY DEF Promise!Cardinality, Cardinality
<1>20. \A R, x : Promise!WellFormedEvent(R, x) <=> WellFormedEvent(R, x)
  <2> TAKE R, x
  <2> DEFINE fresh == {j \in Irqs(R, x) : j = x \/ R[j - 1] # R[j]}
             after == IF Complete(R, x) THEN Irqs(R, x) \cup {EndOf(R, x)} ELSE Irqs(R, x)
             whole == IF Complete(R, x) THEN IsSane(EventOf(R, x)) ELSE Reach(R, x) = Len(R)
  <2>1. WellFormedEvent(R, x) <=>
          /\ Cardinality(fresh) <= 2
          /\ Irqs(R, x) # {} => \A i, j \in after : IsEquivalent(R[i], R[j])
          /\ whole
    BY DEF WellFormedEvent
  <2>2. Promise!WellFormedEvent(R, x) <=>
          /\ Cardinality(fresh) <= 2
          /\ Irqs(R, x) # {} => \A i, j \in after : Promise!IsEquivalent(R[i], R[j])
          /\ whole
    BY <1>7, <1>12, <1>14, <1>15, <1>16, <1>18, <1>19 DEF Promise!WellFormedEvent
  <2> QED
    BY <1>4, <2>1, <2>2
<1>21. \A R, x : Promise!Following(R, x) = Following(R, x)
  BY <1>12 DEF Promise!Following, Following
<1>22. \A R, x : Promise!Absorbed(R, x) <=> Absorbed(R, x)
  <2>1. \A c, d : Promise!AreValuesEquivalent(c, d) <=> AreValuesEquivalent(c, d)
    BY DEF Promise!AreValuesEquivalent, AreValuesEquivalent
  <2> QED
    BY <1>18, <1>21, <2>1 DEF Promise!Absorbed, Absorbed
<1>23. \A R, o, x : Promise!Absorbing(R, o, x) <=> Absorbing(R, o, x)
  BY <1>10, <1>11, <1>22 DEF Promise!Absorbing, Absorbing
<1>24. \A R, o, x : Promise!Combined(R, o, x) = Combined(R, o, x)
  BY <1>18 DEF Promise!Combined, Combined
<1>25. \A R, x : Promise!Origin(R, x) = Origin(R, x)
  BY <1>8, <1>11, <1>23 DEF Promise!Origin, Origin
<1>26. \A R : Promise!Kept(R) = Kept(R)
  BY <1>11, <1>22 DEF Promise!Kept, Kept
<1>27. \A R : Promise!WellFormed(R) <=> WellFormed(R)
  BY <1>11, <1>20 DEF Promise!WellFormed, WellFormed
<1> QED
  BY <1>19, <1>24, <1>25, <1>26, <1>27

-----------------------------------------------------------------------------
(* Which events an event printed has absorbed.                             *)

\* No start is passed over, none comes before.
LEMMA FreshUpTo ==
  ASSUME Records \in Seq(Points), NEW a \in Nat, NEW b \in Nat, a <= b, Fresh(a),
         \A y \in a..(b - 1) : y \notin StartsOf(Records)
  PROVE  Fresh(b)
<1> SUFFICES ASSUME NEW y \in StartsOf(Records), y < b
             PROVE  \E z \in Kept(Records) : y <= z /\ z < b
  BY DEF Fresh
<1>1. y \in Nat /\ Kept(Records) \subseteq Nat
  BY KeptFacts
<1>2. y < a
  BY <1>1
<1>3. PICK z \in Kept(Records) : y <= z /\ z < a
  BY <1>2 DEF Fresh
<1>4. z < b
  BY <1>1, <1>3
<1> QED
  BY <1>3, <1>4

\* Nor does one that reads on from an event that is kept.
LEMMA FreshAfter ==
  ASSUME Records \in Seq(Points), NEW x \in Kept(Records)
  PROVE  Fresh(x + 1)
<1> SUFFICES ASSUME NEW y \in StartsOf(Records), y < x + 1
             PROVE  \E z \in Kept(Records) : y <= z /\ z < x + 1
  BY DEF Fresh
<1>1. y \in Nat /\ x \in Nat
  BY KeptFacts
<1>2. y <= x /\ x < x + 1
  BY <1>1
<1> QED
  BY <1>2

\* The first of the events that an event has absorbed.
LEMMA OriginIs ==
  ASSUME Records \in Seq(Points), NEW x \in Nat, NEW o \in StartsOf(Records), o <= x,
         Fresh(o), Absorbing(Records, o, x)
  PROVE  Origin(Records, x) = o
<1> DEFINE T == {q \in StartsOf(Records) : q <= x /\ Absorbing(Records, q, x)}
<1>1. o \in T /\ T \in SUBSET Nat /\ o \in Nat
  BY KeptFacts
<1>2. ASSUME NEW q \in T PROVE o <= q
  <2> SUFFICES ASSUME q < o PROVE FALSE
    BY <1>1
  <2>1. PICK z \in Kept(Records) : q <= z /\ z < o
    BY DEF Fresh
  <2>2. q \in Nat /\ z \in Nat /\ z \in StartsOf(Records) /\ ~Absorbed(Records, z)
    <3>1. z \in StartsOf(Records) /\ ~Absorbed(Records, z)
      BY DEF Kept
    <3>2. z \in Nat /\ q \in Nat
      BY <1>1, <3>1, KeptFacts
    <3> QED
      BY <3>1, <3>2
  <2>3. z \in q..(x - 1) /\ IsStart(Records, z)
    BY <1>1, <2>1, <2>2 DEF StartsOf
  <2> QED
    BY <2>2, <2>3 DEF Absorbing
<1> HIDE DEF T
<1>3. Min(T) = o
  BY <1>1, <1>2, MinFound
<1> QED
  BY <1>3 DEF Origin, T

\* An event as it is fetched first.
LEMMA WholeAlone ==
  ASSUME Records \in Seq(Points), NEW x, NEW e, IsEventAt(Records, e, x), FirstOfRun(x),
         Fresh(x)
  PROVE  IsWhole(e)
<1>1. /\ x \in 1..Len(Records) /\ x \in Nat /\ IsStart(Records, x) /\ e \in Events
      /\ e = EventOf(Records, x) /\ e.position = x
  BY EventAtFacts DEF IsEventAt
<1>2. x \in StartsOf(Records) /\ x <= x
  BY <1>1 DEF StartsOf, FirstOfRun
<1>3. Absorbing(Records, x, x)
  BY <1>1 DEF Absorbing
<1>4. e = Combined(Records, x, x)
  <2>1. \A d \in Events : [d EXCEPT !.start = d.start] = d
    BY DEF Events
  <2> QED
    BY <1>1, <2>1 DEF Combined
<1> QED
  BY <1>1, <1>2, <1>3, <1>4 DEF IsWhole

\* An event merged with the one held.
LEMMA WholeGrows ==
  ASSUME Records \in Seq(Points), NEW x \in 1..Len(Records), NEW e \in Events,
         e.position = x, IsWhole(e), Absorbed(Records, x),
         Reach(Records, x) < Len(Records), NEW d, IsEventAt(Records, d, Following(Records, x))
  PROVE  IsWhole([d EXCEPT !.start = e.start])
<1> DEFINE R == Records
           y == Following(R, x)
           g == [d EXCEPT !.start = e.start]
<1>1. PICK o \in StartsOf(R) :
        o <= x /\ Fresh(o) /\ Absorbing(R, o, x) /\ e = Combined(R, o, x)
  BY DEF IsWhole
<1>2. o \in 1..x /\ EventOf(R, x) \in Events /\ d \in Events /\ d.position = y
      /\ d = EventOf(R, y)
  <2>1. o \in 1..Len(R) /\ o \in 1..x
    BY <1>1, KeptFacts
  <2>2. HasEventFields(EventOf(R, x), R, x)
    BY EventTyped
  <2>3. EventOf(R, x) \in Events
    BY <2>2 DEF HasEventFields
  <2>4. d \in Events /\ d.position = y
    BY EventAtFacts
  <2>5. d = EventOf(R, y)
    BY DEF IsEventAt
  <2> QED
    BY <2>1, <2>3, <2>4, <2>5
<1>3. e.start = EventOf(R, o).start
  BY <1>1, <1>2 DEF Combined, Events
<1>4. Absorbing(R, o, y) /\ o \in 1..y
  BY <1>1, <1>2, AbsorbingGrows
<1>5. g = Combined(R, o, y)
  BY <1>2, <1>3 DEF Combined
<1>6. g.position = y
  BY <1>2 DEF Events
<1>7. o <= y
  BY <1>4
<1> HIDE DEF y, g
<1> QED
  BY <1>1, <1>4, <1>5, <1>6, <1>7 DEF IsWhole, g

LEMMA WholeStays ==
  ASSUME IsWhole(held), UNCHANGED <<file, held>>
  PROVE  IsWhole(held)'
BY DEF IsWhole, Fresh, Records

-----------------------------------------------------------------------------
(* What the steps of current_event do to the tool.                         *)

\* The event that current_event has come to moves on over absorbed ones only.
LEMMA GoesOn ==
  ASSUME IInv, OpenInv, OpenInv', CurrentEvent, pc' # "idle", ~Lost, FirstOfRun(ComeTo),
         FetchesWhole
  PROVE  Lost' \/ /\ ComeTo \in Nat /\ ComeTo' \in Nat /\ ComeTo <= ComeTo'
                  /\ FirstOfRun(ComeTo)' /\ FetchesWhole'
                  /\ \A y \in ComeTo..(ComeTo' - 1) : y \notin Kept(Records)
<1> DEFINE R == Records
<1>1. /\ R \in Seq(Points) /\ Count = Len(R) /\ Count \in Nat /\ IsScenario(file)
      /\ position \in Nat /\ draft \in Events /\ held \in Events
  BY OpenFacts
<1>2. held.position \in Nat /\ draft.position \in Nat
  BY <1>1 DEF Events
<1>3. ComeTo \in Nat
  BY <1>1, <1>2 DEF ComeTo
<1>4. ASSUME ComeTo' = ComeTo, file' = file, held' = held, ahead' = ahead,
             pc # "merge", pc' # "merge", pc' \in {"fetch", "skip"} => ahead
      PROVE  /\ ComeTo' \in Nat /\ ComeTo <= ComeTo' /\ FirstOfRun(ComeTo)' /\ FetchesWhole'
             /\ \A y \in ComeTo..(ComeTo' - 1) : y \notin Kept(Records)
  <2>1. Records' = R
    BY <1>4 DEF Records
  <2>2. FirstOfRun(ComeTo)'
    BY <1>4, <2>1 DEF FirstOfRun
  <2>3. FetchesWhole'
    <3>1. CASE ahead
      BY <1>4, <3>1, WholeStays DEF FetchesWhole
    <3>2. CASE ~ahead
      <4>1. Fresh(ComeTo)
        BY <1>4, <3>2 DEF FetchesWhole
      <4>2. Fresh(ComeTo)'
        BY <1>4, <2>1, <4>1 DEF Fresh
      <4> QED
        BY <1>4, <3>2, <4>2 DEF FetchesWhole
    <3> QED
      BY <1>1, <3>1, <3>2
  <2> HIDE DEF ComeTo
  <2> QED
    BY <1>3, <1>4, <2>2, <2>3
<1>5. CASE FetchSkip
  <2>1. /\ pc \in {"fetch", "skip"} /\ ahead' = ahead /\ held' = held /\ file' = file
        /\ Records' = R /\ pc' \in {"skip", "return"}
        /\ ~IsVmexit(current) /\ ~FirstVmexitMissing /\ Count' = Count
    BY <1>5 DEF FetchSkip, fileVars, Records, Count
  <2>2. CASE ahead
    <3>1. ComeTo' = ComeTo
      BY <2>1, <2>2 DEF ComeTo
    <3> QED
      BY <1>3, <1>4, <2>1, <2>2, <3>1
  <2>3. CASE ~ahead
    <3>1. PICK r \in NextFrom(file, Here) :
            /\ Become(r)
            /\ IF Valid(r.current) THEN pc' = "skip" /\ draft' = draft
               ELSE pc' = "return" /\ draft' = NoEvent
      BY <1>5 DEF FetchSkip
    <3>2. CASE ~Valid(r.current)
      <4>1. pc' = "return" /\ draft' = NoEvent
        BY <3>1, <3>2
      <4>2. ~AtReturn'
        <5> SUFFICES ASSUME AtReturn' PROVE FALSE
          OBVIOUS
        <5>1. draft' = EventOf(Records', draft'.position)
          BY DEF AtReturn, IsEventAt
        <5> QED
          BY <4>1, <5>1 DEF EventOf, NoEvent
      <4> QED
        BY <4>1, <4>2 DEF OpenInv
    <3>3. CASE Valid(r.current)
      <4>1. pc' = "skip" /\ ComeTo = position /\ ComeTo' = position'
        BY <2>1, <2>3, <3>1, <3>3 DEF ComeTo
      <4>2. AtRecord /\ Fresh(position) /\ (pc = "skip" => position > 1)
        <5>1. /\ Fresh(position) /\ (pc = "fetch" => AtRecord)
              /\ (pc = "skip" => position > 1)
          BY <2>1, <2>3, <4>1 DEF FetchesWhole
        <5>2. OnStart \/ AtRecord
          BY <2>1, <2>3 DEF OpenInv, AtFetch
        <5> QED
          BY <2>1, <5>1, <5>2, PlaceFacts
      <4>4. AtRecord
        BY <4>2
      <4>5. position > 1
        BY <1>1, <2>1, <4>2 DEF FirstVmexitMissing, AtRecord
      <4> QED
        <5>1. PICK q : /\ Run(R, position, q)
                       /\ q <= Count => AtRecord' /\ position' = q
                       /\ q = Count + 1 => ~Valid(r.current)
          BY <1>1, <2>1, <3>1, <4>4, StepNext
        <5>2. position \in 1..Len(R) /\ position # 1 /\ ~IsVmexit(R[position])
          BY <1>1, <2>1, <4>4, <4>5, PlaceFacts DEF R
        <5>3. /\ \A y \in (position + 1)..(q - 1) : y \notin StartsOf(R)
              /\ q \in (position + 1)..(Len(R) + 1)
              /\ q <= Len(R) => R[q - 1] # R[q]
          BY <1>1, <5>1, <5>2, NoStartInRun
        <5>4. q <= Count /\ position' = q /\ position < q /\ q \in Nat
          BY <1>1, <3>3, <5>1, <5>3
        <5>5. position \notin StartsOf(R)
          BY <5>2 DEF StartsOf, IsStart
        <5>6. \A y \in position..(q - 1) : y = position \/ y \in (position + 1)..(q - 1)
          BY <1>1, <5>4
        <5>7. \A y \in position..(q - 1) : y \notin StartsOf(R)
          BY <1>1, <5>3, <5>5, <5>6
        <5>8. \A y \in position..(q - 1) : y \notin Kept(R)
          BY <5>7 DEF Kept
        <5>9. Fresh(q)
          BY <1>1, <4>2, <5>4, <5>7, FreshUpTo DEF R
        <5>10. Fresh(ComeTo)'
          BY <2>1, <4>1, <5>4, <5>9 DEF Fresh, R
        <5>11. FirstOfRun(ComeTo)'
          BY <1>1, <2>1, <4>1, <5>3, <5>4 DEF FirstOfRun, R
        <5>12. position' > 1
          BY <1>1, <4>5, <5>4
        <5>13. FetchesWhole'
          BY <2>1, <2>3, <4>1, <5>10, <5>12 DEF FetchesWhole
        <5>14. /\ ComeTo' \in Nat /\ ComeTo <= ComeTo'
               /\ \A y \in ComeTo..(ComeTo' - 1) : y \notin Kept(R)
          BY <1>1, <4>1, <5>4, <5>8
        <5> HIDE DEF ComeTo
        <5> QED
          BY <1>3, <5>11, <5>13, <5>14 DEF R
    <3> QED
      BY <3>2, <3>3
  <2> QED
    BY <2>2, <2>3
<1>6. CASE FetchMissing \/ FetchExit
  <2>1. /\ pc \in {"fetch", "skip"} /\ ahead' = ahead /\ held' = held /\ file' = file
        /\ pc' \in {"second", "return"}
        /\ draft'.position = position
    <3>1. EventStartingAt(current, position).position = position
      BY DEF EventStartingAt, NoEvent
    <3>2. EventStartingAt(current, position) \in Events
      BY <1>1, StartTypes DEF IInv, TypeOK
    <3>3. LastEvent(EventStartingAt(current, position)).position = position
      BY <3>1, <3>2, LastFields
    <3>4. CASE FetchExit
      BY <3>1, <3>3, <3>4 DEF FetchExit, NextWithin, fileVars
    <3>5. CASE FetchMissing
      BY <3>5 DEF FetchMissing, FirstVmexitMissing, fileVars, readerVars, NoEvent
    <3> QED
      BY <1>6, <3>4, <3>5
  <2>2. ComeTo' = ComeTo
    BY <2>1 DEF ComeTo
  <2> QED
    BY <1>3, <1>4, <2>1, <2>2
<1>7. CASE FetchInterrupt \/ FetchRepeated \/ FetchEnter
  <2>1. /\ pc \in {"second", "third", "last"} /\ pc' \in {"third", "last", "return"}
        /\ ahead' = ahead /\ held' = held /\ file' = file
        /\ draft'.position = draft.position
    <3>1. CASE FetchInterrupt
      <4> DEFINE e == [draft EXCEPT !.hasInterrupt = TRUE, !.vector = current.vector,
                                    !.interruptRip = current.rip]
      <4>1. e \in Events /\ e.position = draft.position
        <5>1. current.vector \in Nat /\ current.rip \in Nat
          BY DEF IInv, TypeOK, Points
        <5> QED
          BY <1>1, <5>1 DEF Events
      <4>2. LastEvent(e).position = draft.position
        BY <4>1, LastFields
      <4> QED
        BY <3>1, <4>1, <4>2 DEF FetchInterrupt, NextWithin, fileVars
    <3>2. CASE FetchRepeated
      <4>1. LastEvent(draft).position = draft.position
        BY <1>1, LastFields
      <4> QED
        BY <3>2, <4>1 DEF FetchRepeated, NextWithin, fileVars
    <3>3. CASE FetchEnter
      <4>1. Completed(draft, current).position = draft.position
        BY <1>1, OpenFacts, CompletedFields
      <4> QED
        BY <3>3, <4>1 DEF FetchEnter, AtNewContext, fileVars
    <3> QED
      BY <1>7, <3>1, <3>2, <3>3
  <2>2. ComeTo' = ComeTo
    BY <2>1 DEF ComeTo
  <2> QED
    BY <1>3, <1>4, <2>1, <2>2
<1>8. CASE FirstReturns \/ LookAhead
  <2>1. ComeTo' = ComeTo /\ Records' = R /\ file' = file
    BY <1>8 DEF ComeTo, FirstReturns, LookAhead, fileVars, Records
  <2>2. FirstOfRun(ComeTo)'
    BY <2>1 DEF FirstOfRun
  <2>3. IsWhole(held)'
    <3>1. CASE LookAhead
      <4>1. pc = "merge" /\ held' = held
        BY <3>1 DEF LookAhead
      <4> QED
        BY <2>1, <4>1, WholeStays DEF FetchesWhole
    <3>2. CASE FirstReturns
      <4>1. pc = "return" /\ ~ahead /\ held' = draft
        BY <3>2 DEF FirstReturns
      <4>2. IsEventAt(R, draft, draft.position) /\ ComeTo = draft.position
        BY <4>1 DEF OpenInv, AtReturn, ComeTo
      <4>3. Fresh(draft.position) /\ FirstOfRun(draft.position)
        BY <4>1, <4>2 DEF FetchesWhole
      <4>4. IsWhole(draft)
        BY <1>1, <4>2, <4>3, WholeAlone
      <4> QED
        BY <2>1, <4>1, <4>4 DEF IsWhole, Fresh
    <3> QED
      BY <1>8, <3>1, <3>2
  <2>4. FetchesWhole'
    BY <1>8, <2>3 DEF FetchesWhole, FirstReturns, LookAhead
  <2> HIDE DEF ComeTo
  <2> QED
    BY <1>3, <2>1, <2>2, <2>4
<1>9. CASE Merge
  <2> DEFINE h == held.position
             y == draft.position
  <2>1. /\ pc = "return" /\ ahead /\ Merges(held, draft) /\ pc' = "merge" /\ ahead' = ahead
        /\ held' = [draft EXCEPT !.start = held.start] /\ Records' = R
    BY <1>9 DEF Merge, fileVars, Records
  <2>2. held'.position = y
    BY <1>1, <2>1 DEF Events
  <2>3. ComeTo = h /\ ComeTo' = y
    BY <2>1, <2>2 DEF ComeTo
  <2>4. HeldAhead /\ y = Following(R, h) /\ IsEventAt(R, draft, y)
    BY <2>1 DEF OpenInv, AtReturn, IsNext
  <2>5. /\ IsCombinedAt(R, held, h) /\ MayMerge(held)
        /\ h \in 1..Count /\ Following(R, h) = Reach(R, h) + 1
        /\ Reach(R, h) \in 1..(Count - 1) /\ EndOf(R, h) \in h..Reach(R, h)
        /\ R[Reach(R, h)] # R[Reach(R, h) + 1]
    BY <2>1, <2>4, HeldFacts DEF HeldAhead
  <2> HIDE DEF h, y
  <2>6. Absorbed(R, h)
    <3>1. Following(R, h) # 0 /\ IsEventAt(R, draft, Following(R, h))
      BY <1>1, <2>4, <2>5
    <3> QED
      BY <1>1, <2>1, <2>5, <3>1, MergesAbsorbed
  <2>7. h \notin Kept(R)
    BY <2>6 DEF Kept
  <2>8. y = Reach(R, h) + 1 /\ y - 1 = Reach(R, h) /\ h <= y /\ h \in Nat /\ y \in Nat
    BY <1>1, <2>4, <2>5
  <2>9. ASSUME NEW z \in h..(y - 1) PROVE z \notin Kept(R)
    <3>1. z = h \/ z \in (h + 1)..Reach(R, h)
      BY <2>8
    <3>2. z \in (h + 1)..Reach(R, h) => z \notin StartsOf(R)
      BY <1>1, <2>5, NoStartWithin
    <3> QED
      BY <1>1, <2>7, <3>1, <3>2, KeptFacts
  <2>10. FirstOfRun(ComeTo)'
    <3>1. Records'[ComeTo' - 1] # Records'[ComeTo']
      BY <2>1, <2>3, <2>5, <2>8
    <3> QED
      BY <3>1 DEF FirstOfRun
  <2>11. FetchesWhole'
    <3>1. IsWhole(held)
      BY <2>1 DEF FetchesWhole
    <3>2. Reach(R, h) < Len(R) /\ h \in 1..Len(R)
      BY <1>1, <2>5
    <3>3. IsWhole([draft EXCEPT !.start = held.start])
      BY <1>1, <2>4, <2>6, <3>1, <3>2, WholeGrows DEF h
    <3>4. IsWhole(held)'
      BY <2>1, <3>3 DEF IsWhole, Fresh
    <3> QED
      BY <2>1, <3>4 DEF FetchesWhole
  <2> HIDE DEF ComeTo
  <2> QED
    BY <2>3, <2>8, <2>9, <2>10, <2>11
<1>10. ~Keep /\ ~PutBack /\ ~FetchThrows
  BY DEF Keep, PutBack, FetchThrows, Return, Leave
<1>11. ~FetchSpins
  <2> SUFFICES ASSUME FetchSpins PROVE FALSE
    OBVIOUS
  <2>1. pc \in {"fetch", "skip"} /\ stream.fail /\ ~stream.eof
    BY HereIsReader DEF FetchSpins, Spins, IInv
  <2> QED
    BY <2>1, PlaceFacts DEF OpenInv, AtFetch, Lost
<1> QED
  BY <1>5, <1>6, <1>7, <1>8, <1>9, <1>10, <1>11 DEF CurrentEvent, FetchNewEvent

\* current_event gives the event it has come to, one that is to be printed.
LEMMA GivesTheEvent ==
  ASSUME IInv, OpenInv, OpenInv', stream.isOpen, Keep \/ PutBack, FirstOfRun(ComeTo),
         FetchesWhole
  PROVE  /\ pc' = "idle" /\ call'.op = call.op /\ call'.outcome = "returned"
         /\ file' = file /\ current' # NoPoint /\ IsWhole(event)'
         /\ event'.isValid /\ event'.position = ComeTo /\ ComeTo \in Kept(Records)
<1> DEFINE R == Records
           h == held.position
<1>1. R \in Seq(Points) /\ Count = Len(R) /\ IsFile(file) /\ IsScenario(file) /\ R = file.recs
  BY OpenFacts
<1>2. /\ Return /\ file' = file /\ event' = held /\ ComeTo = h
      /\ IsCombinedAt(R, held, h) /\ ~Absorbed(R, h) /\ IsWhole(held)
      /\ AtRecord' \/ current' = ZeroPoint
  <2>1. CASE Keep
    <3>1. /\ pc = "merge" /\ ~MayMerge(held) /\ event' = held /\ Return
          /\ UNCHANGED <<file, stream, current, position>> /\ Count' = Count /\ R' = R
      BY <2>1 DEF Keep, fileVars, Records, Count
    <3>2. ~Lost
      BY <3>1 DEF Lost, IsBlank, MayMerge, AreValuesEquivalent
    <3>3. IsCombinedAt(R, held, h) /\ ReadTo(h)
      BY <3>1, <3>2, LoopFacts DEF OpenInv
    <3>4. ~Absorbed(R, h)
      <4> HIDE DEF h
      <4> QED
        BY <1>1, <3>1, <3>3, KeepsOthers
    <3>5. AtRecord' \/ current' = ZeroPoint
      BY <3>1, <3>3, PlaceFacts DEF ReadTo, AtRecord
    <3>6. IsWhole(held)
      BY <3>1 DEF FetchesWhole
    <3> QED
      BY <3>1, <3>3, <3>4, <3>5, <3>6 DEF ComeTo
  <2>2. CASE PutBack
    <3>1. PICK n : n = Reach(R, h)
      OBVIOUS
    <3>2. /\ ahead /\ Return /\ file' = file /\ event' = held
          /\ IsCombinedAt(R, held, h) /\ ~Absorbed(R, h)
          /\ n \in 1..(Count - 1) /\ n \in 0..(RecordQuotient - HeaderSlots - 1)
          /\ \E r \in SeekFrom(file, Here, n) :
               stream' = r.stream /\ current' = r.current /\ position' = r.position
      BY <2>2, <3>1, PutBackFacts
    <3>3. PICK r \in SeekFrom(file, Here, n) :
            stream' = r.stream /\ current' = r.current /\ position' = r.position
      BY <3>2
    <3>4. n \in 1..Count
      BY <3>2, OpenFacts
    <3>5. AtRecord'
      <4>1. HeaderSize + 2 * (n - 1) < OffsetLimit
        <5>1. /\ HeaderSize + 2 * Count + 2 < OffsetLimit /\ HeaderSize \in Nat
              /\ OffsetLimit \in Nat /\ Count \in Nat
          BY OpenFacts, ScenarioFacts
        <5> QED
          BY <3>4, <5>1
      <4> QED
        BY <1>1, <3>2, <3>3, <3>4, <4>1, StepSeek
    <3>6. IsWhole(held)
      BY <3>2 DEF FetchesWhole
    <3> QED
      BY <3>2, <3>5, <3>6 DEF ComeTo
  <2> QED
    BY <2>1, <2>2
<1> HIDE DEF h
<1>3. h \in 1..Len(R) /\ held.position = h /\ held.isValid /\ IsStart(R, h)
  BY <1>1, <1>2, CombinedFacts
<1>4. h \in Kept(R)
  BY <1>1, <1>2, <1>3 DEF Kept, StartsOf, FirstOfRun
<1>5. call'.op = call.op /\ call'.outcome = "returned" /\ pc' = "idle"
  BY <1>2 DEF Return, Leave, IInv, TypeOK, CallType
<1>6. current' # NoPoint
  <2>1. CASE AtRecord'
    <3>1. Count' = Count /\ Records' = R
      BY <1>2 DEF Records, Count
    <3>2. position' \in 1..Len(R) /\ current' = R[position']
      BY <1>1, <2>1, <3>1 DEF AtRecord
    <3> QED
      BY <1>1, <3>2, ScenarioFacts
  <2>2. CASE current' = ZeroPoint
    BY <2>2, PlaceFacts
  <2> QED
    BY <1>2, <2>1, <2>2
<1>7. IsWhole(event)'
  BY <1>2 DEF IsWhole, Fresh, Records
<1> QED
  BY <1>2, <1>3, <1>4, <1>5, <1>6, <1>7

\* An exception comes of a malformed event that a reader of the file meets.
LEMMA ThrowsAtMalformed ==
  ASSUME IInv, OpenInv, FetchThrows, FirstOfRun(ComeTo)
  PROVE  /\ pc' = "idle" /\ call'.op = call.op /\ call'.outcome = "threw" /\ file' = file
         /\ ~WellFormed(Records)
<1>1. PICK x : x = draft.position
  OBVIOUS
<1>2. AtPart /\ IsStart(Records, x) /\ x \in 1..Count /\ ~WellFormedEvent(Records, x)
  BY <1>1, ThrowFacts
<1>3. /\ pc \in {"second", "third", "last"} /\ Leave("threw") /\ file' = file
  BY DEF FetchThrows, AtNewContext, fileVars
<1>4. Records \in Seq(Points) /\ Count = Len(Records)
  BY OpenFacts
<1>5. x \in StartsOf(Records)
  <2>1. CASE ahead
    <3>1. x = Following(Records, held.position) /\ HeldAhead
      BY <1>1, <1>2, <2>1 DEF AtPart, IsNext
    <3> QED
      BY <2>1, <3>1, HeldFacts
  <2>2. CASE ~ahead
    <3>1. FirstOfRun(x)
      BY <1>1, <1>3, <2>2 DEF ComeTo
    <3> QED
      BY <1>2, <1>4, <3>1 DEF StartsOf, FirstOfRun
  <2> QED
    BY <2>1, <2>2
<1>6. call'.op = call.op /\ call'.outcome = "threw" /\ pc' = "idle"
  BY <1>3 DEF Leave, IInv, TypeOK, CallType
<1> QED
  BY <1>2, <1>3, <1>5, <1>6 DEF WellFormed

\* Where nothing is to be printed, as many events come before b as before a.
LEMMA EmittedUpTo ==
  ASSUME Records \in Seq(Points), NEW a \in Nat, NEW b \in Nat, a <= b, Emitted(a),
         \A y \in a..(b - 1) : y \notin Kept(Records)
  PROVE  Emitted(b)
BY NothingBetween DEF Emitted

\* What current_event leaves alone, and how it ends.
LEMMA CurrentEventFacts ==
  ASSUME IInv, CurrentEvent
  PROVE  /\ pc # "idle" /\ file' = file /\ call'.op = call.op
         /\ pc' = "idle" => Keep \/ PutBack \/ FetchThrows
<1>1. CASE FetchSkip \/ FetchMissing \/ FetchExit \/ FetchSpins
  BY <1>1 DEF FetchSkip, FetchMissing, FetchExit, FetchSpins, FirstVmexitMissing, NextWithin,
     fileVars
<1>2. CASE FetchInterrupt \/ FetchRepeated \/ FetchEnter
  BY <1>2 DEF FetchInterrupt, FetchRepeated, FetchEnter, AtNewContext, NextWithin, fileVars
<1>3. CASE FirstReturns \/ LookAhead \/ Merge
  BY <1>3 DEF FirstReturns, LookAhead, Merge, fileVars
<1>4. CASE FetchThrows
  BY <1>4 DEF FetchThrows, AtNewContext, Leave, fileVars, IInv, TypeOK, CallType
<1>5. CASE Keep \/ PutBack
  BY <1>5 DEF Keep, PutBack, Return, Leave, fileVars, IInv, TypeOK, CallType
<1> QED
  BY <1>1, <1>2, <1>3, <1>4, <1>5 DEF CurrentEvent, FetchNewEvent

LEMMA LibraryKeepsDump ==
  ASSUME IInv, OpenInv, stream.isOpen, stream'.isOpen, DumpInv, Library,
         UNCHANGED toolVars
  PROVE  DumpInv'
<1>1. tool' = tool /\ printed' = printed /\ printed \in Seq(Events)
  BY DEF toolVars, DumpInv
<1>2. pc # "idle"
  BY CurrentEventFacts DEF Library, ReloadBack, ReloadEvent, Spin
<1>3. tool = "print" /\ call.op = "current_event" /\ file.kind = "good"
      /\ (Lost \/ (Emitted(ComeTo) /\ FirstOfRun(ComeTo) /\ FetchesWhole))
  BY <1>2 DEF DumpInv, PrintInv
<1>4. CurrentEvent
  <2>1. ~ReloadBack /\ ~ReloadEvent /\ ~Spin
    BY <1>3 DEF ReloadBack, ReloadEvent, Spin, OpenInv, AtReload
  <2> QED
    BY <2>1 DEF Library
<1>5. file' = file /\ call'.op = "current_event" /\ Records' = Records /\ OpenInv'
  BY <1>3, <1>4, CurrentEventFacts, CurrentEventRight DEF Records
<1>6. Records \in Seq(Points)
  BY OpenFacts
<1>7. PrintInv'
  <2>1. CASE Lost
    <3>1. Lost' /\ pc' # "idle"
      BY <1>4, <2>1, LostStays
    <3> QED
      BY <1>5, <3>1 DEF PrintInv
  <2>2. CASE ~Lost /\ pc' # "idle"
    <3>1. Lost' \/ /\ ComeTo \in Nat /\ ComeTo' \in Nat /\ ComeTo <= ComeTo'
                   /\ FirstOfRun(ComeTo)' /\ FetchesWhole'
                   /\ \A y \in ComeTo..(ComeTo' - 1) : y \notin Kept(Records)
      BY <1>3, <1>4, <1>5, <2>2, GoesOn
    <3>2. CASE ~Lost'
      <4>1. PICK b : b = ComeTo'
        OBVIOUS
      <4>2. Emitted(b)
        <5>1. /\ ComeTo \in Nat /\ b \in Nat /\ ComeTo <= b
              /\ \A y \in ComeTo..(b - 1) : y \notin Kept(Records)
          BY <3>1, <3>2, <4>1
        <5> HIDE DEF ComeTo
        <5> QED
          BY <1>3, <1>6, <2>2, <5>1, EmittedUpTo
      <4>3. Emitted(ComeTo)'
        BY <1>1, <1>5, <4>1, <4>2 DEF Emitted
      <4> QED
        BY <1>5, <2>2, <3>1, <3>2, <4>3 DEF PrintInv
    <3> QED
      BY <1>5, <2>2, <3>2 DEF PrintInv
  <2>3. CASE ~Lost /\ pc' = "idle"
    <3>1. CASE Keep \/ PutBack
      <4>1. /\ call'.outcome = "returned" /\ current' # NoPoint /\ IsWhole(event)'
            /\ event'.isValid /\ event'.position = ComeTo /\ ComeTo \in Kept(Records)
        BY <1>3, <1>5, <2>3, <3>1, GivesTheEvent
      <4>2. Emitted(event.position)'
        BY <1>1, <1>3, <1>5, <2>3, <4>1 DEF Emitted
      <4> QED
        BY <1>5, <2>3, <4>1, <4>2 DEF PrintInv
    <3>2. CASE FetchThrows
      <4>1. call'.outcome = "threw" /\ ~WellFormed(Records)
        BY <1>3, <2>3, <3>2, ThrowsAtMalformed
      <4> QED
        BY <1>5, <2>3, <4>1 DEF PrintInv
    <3> QED
      BY <1>4, <2>3, <3>1, <3>2, CurrentEventFacts
  <2> QED
    BY <2>1, <2>2, <2>3
<1> QED
  BY <1>1, <1>3, <1>5, <1>7 DEF DumpInv

-----------------------------------------------------------------------------
(* The steps of the tool.                                                  *)

\* Before the first record there is nothing to print.
LEMMA NothingFirst ==
  ASSUME Records \in Seq(Points), printed = <<>>
  PROVE  Emitted(1) /\ Fresh(1)
<1>1. {y \in Kept(Records) : y < 1} = {}
  <2>1. Kept(Records) \subseteq 1..Len(Records) /\ \A y \in 1..Len(Records) : ~(y < 1)
    BY KeptFacts
  <2> QED
    BY <2>1
<1>2. Cardinality({}) = 0 /\ Len(printed) = 0
  BY FS_EmptySet
<1>3. Fresh(1)
  <2>1. StartsOf(Records) \subseteq 1..Len(Records) /\ \A y \in 1..Len(Records) : ~(y < 1)
    BY KeptFacts
  <2> QED
    BY <2>1 DEF Fresh
<1> QED
  BY <1>1, <1>2, <1>3 DEF Emitted

LEMMA DumpInitHolds == DumpInit => DumpInv
<1> SUFFICES ASSUME DumpInit PROVE DumpInv
  OBVIOUS
<1>1. PICK o \in BOOLEAN : stream = S!Unopened(o)
  BY DEF DumpInit, Init
<1>2. ~stream.isOpen
  BY <1>1 DEF S!Unopened
<1> QED
  BY <1>2 DEF DumpInit, Init, DumpInv

\* load: the file is a scenario, or it is closed.
LEMMA LoadKeepsDump ==
  ASSUME Recorded, IInv, IInv', EventInv, EventInv', DumpInv, DumpLoad
  PROVE  /\ DumpInv'
         /\ ~stream'.isOpen => ReadableRecords(file') = <<>>
         /\ tool' = "aborted" => ~stream'.isOpen
<1>1. /\ tool = "load" /\ LoadFile /\ file = NoFile /\ printed = <<>> /\ printed' = printed
      /\ tool' = IF call'.outcome = "threw" THEN "aborted" ELSE "next"
  BY DEF DumpLoad, DumpInv
<1>2. PICK f \in Loadable :
        \/ LoadAbsent(f) \/ LoadShort(f) \/ LoadRejected(f)
        \/ LoadBadData(f) \/ LoadGood(f)
  BY <1>1 DEF LoadFile
<1>3. /\ pc' = "idle" /\ file' = f /\ position' = 0 /\ f \in Files
  <2>1. PICK s, outcome : Load(f, s, outcome)
    BY <1>2 DEF LoadAbsent, LoadShort, LoadRejected, LoadBadData, LoadGood
  <2> QED
    BY <1>1, <2>1 DEF Load, Idle, Enter, localVars, Loadable
<1>4. printed' \in Seq(Events) /\ printed' = <<>>
  BY <1>1
<1>5. CASE stream'.isOpen
  <2>0. LoadGood(f)
    <3>1. ~S!Load(FALSE).isOpen /\ ~S!Close(S!Load(TRUE)).isOpen
      BY DEF S!Load, S!Close
    <3> QED
      BY <1>2, <1>5, <3>1 DEF LoadAbsent, LoadShort, LoadRejected, LoadBadData, Load
  <2>1. OpenInv' /\ Records' \in Seq(Points) /\ IsScenario(f)
    <3>0. ~Stalled'
      <4>1. stream' = S!Seek(S!Load(TRUE), HeaderSize) /\ HeaderSize >= 0
        BY <2>0, Sizes DEF LoadGood, Load, HeaderSize
      <4> QED
        BY <4>1 DEF S!Seek, S!Load, Stalled
    <3>1. OpenInv'
      BY <1>5, <3>0 DEF EventInv, StuckInv
    <3>2. (IInv /\ OpenInv => Records \in Seq(Points))'
      BY OpenFacts, PTL
    <3> QED
      BY <1>3, <3>1, <3>2 DEF OpenInv
  <2>3. f.kind = "good" /\ call'.outcome = "returned"
    BY <2>0, <2>1 DEF LoadGood, Load, Enter, IsScenario
  <2>4. Emitted(1)' /\ Fresh(1)'
    <3>1. (Records \in Seq(Points) /\ printed = <<>> => Emitted(1) /\ Fresh(1))'
      BY NothingFirst, PTL
    <3> QED
      BY <1>4, <2>1, <3>1
  <2>5. Emitted(position + 1)' /\ Fresh(position + 1)'
    BY <1>3, <2>4 DEF Emitted, Fresh
  <2> QED
    BY <1>1, <1>3, <1>4, <1>5, <2>1, <2>3, <2>5 DEF DumpInv
<1>6. CASE ~stream'.isOpen
  <2>1. file'.kind # "good"
    BY <1>6 DEF EventInv, ClosedInv
  <2> QED
    BY <1>1, <1>3, <1>4, <1>6, <2>1 DEF DumpInv, ReadableRecords
<1> QED
  BY <1>5, <1>6

\* next: no start is passed over.
LEMMA NextKeepsDump ==
  ASSUME IInv, IInv', OpenInv, OpenInv', stream.isOpen, stream'.isOpen, DumpInv, DumpNext
  PROVE  DumpInv'
<1> DEFINE R == Records
<1>1. /\ tool = "next" /\ tool' = "test" /\ printed' = printed /\ CallNext
      /\ pc = "idle" /\ pc' = "idle" /\ file' = file /\ R' = R /\ Count' = Count
  BY DEF DumpNext, CallNext, Idle, fileVars, Records, Count
<1>2. /\ printed \in Seq(Events) /\ file.kind = "good"
      /\ Emitted(position + 1) /\ Fresh(position + 1)
  BY <1>1 DEF DumpInv
<1>3. /\ R \in Seq(Points) /\ Count = Len(R) /\ Count \in Nat /\ IsScenario(file)
      /\ position \in Nat /\ Kept(R) \subseteq StartsOf(R) /\ StartsOf(R) \subseteq 1..Len(R)
  BY OpenFacts, KeptFacts
<1>4. PICK r \in NextFrom(file, Here) : Become(r)
  BY <1>1 DEF CallNext
<1>5. OnStart \/ AtRecord \/ AtEnd
  BY <1>1 DEF OpenInv, BetweenCalls
<1>6. FreshRecord' \/ (AtEnd' /\ Emitted(Count + 1))
  <2>1. CASE OnStart
    <3>1. position = 0 /\ (Count >= 1 \/ Count = 0)
      BY <1>3, <2>1, PlaceFacts
    <3>2. /\ event' = NoEvent
          /\ Count >= 1 => AtRecord' /\ position' = 1
          /\ Count = 0 => AtEnd' /\ position' = 0
      BY <1>1, <1>3, <1>4, <2>1, StepNext
    <3>3. Emitted(1) /\ Fresh(1)
      <4>1. position + 1 = 1
        BY <3>1
      <4> QED
        BY <1>2, <4>1
    <3>4. CASE Count >= 1
      <4>1. position' = 1
        BY <3>2, <3>4
      <4>2. Emitted(position)' /\ FirstOfRun(position)' /\ Fresh(position)'
        BY <1>1, <3>3, <4>1 DEF Emitted, FirstOfRun, Fresh
      <4> QED
        BY <3>2, <3>4, <4>2, PlaceFacts DEF FreshRecord
    <3>5. CASE Count = 0
      <4>1. Count + 1 = 1
        BY <3>5
      <4> QED
        BY <3>2, <3>3, <3>5, <4>1
    <3> QED
      BY <3>1, <3>4, <3>5
  <2>2. CASE AtRecord
    <3>1. /\ event' = NoEvent
          /\ \E q : /\ Run(R, position, q)
                    /\ q <= Count => AtRecord' /\ position' = q
                    /\ q = Count + 1 => AtEnd' /\ position' = Count
      BY <1>1, <1>3, <1>4, <2>2, StepNext
    <3>2. PICK q : /\ Run(R, position, q)
                   /\ q <= Count => AtRecord' /\ position' = q
                   /\ q = Count + 1 => AtEnd' /\ position' = Count
      BY <3>1
    <3>3. /\ \A y \in (position + 1)..(q - 1) : y \notin StartsOf(R)
          /\ q \in (position + 1)..(Len(R) + 1)
          /\ q <= Len(R) => R[q - 1] # R[q]
      BY <1>3, <2>2, <3>2, NoStartInRun, PlaceFacts
    <3>4. position + 1 \in Nat /\ q \in Nat /\ position + 1 <= q /\ (q <= Count \/ q = Count + 1)
      BY <1>3, <3>3
    <3>5. Emitted(q) /\ Fresh(q)
      <4>1. \A y \in (position + 1)..(q - 1) : y \notin Kept(R)
        BY <1>3, <3>3
      <4> QED
        BY <1>2, <1>3, <3>3, <3>4, <4>1, EmittedUpTo, FreshUpTo
    <3>6. CASE q <= Count
      <4>1. Emitted(position)' /\ FirstOfRun(position)' /\ Fresh(position)'
        BY <1>1, <1>3, <3>2, <3>3, <3>5, <3>6 DEF Emitted, FirstOfRun, Fresh
      <4> QED
        BY <3>1, <3>2, <3>6, <4>1, PlaceFacts DEF FreshRecord
    <3>7. CASE q = Count + 1
      BY <3>2, <3>5, <3>7
    <3> QED
      BY <3>4, <3>6, <3>7
  <2>3. CASE AtEnd
    <3>1. r = Here
      BY <1>4, <2>3, EndNext
    <3>2. stream' = stream /\ current' = current /\ position' = position
      BY <1>4, <3>1, HereIsReader DEF Become, IInv
    <3>3. AtEnd'
      BY <1>1, <2>3, <3>2 DEF AtEnd
    <3>4. Count + 1 \in Nat /\ position + 1 \in Nat /\ Count + 1 <= position + 1
      BY <1>3, <2>3 DEF AtEnd
    <3>5. \A y \in (Count + 1)..((position + 1) - 1) : y \notin Kept(R)
      BY <1>3
    <3>6. {y \in Kept(R) : y < Count + 1} = {y \in Kept(R) : y < position + 1}
      BY <1>3, <3>4, <3>5, NothingBetween
    <3> QED
      BY <1>2, <3>3, <3>6 DEF Emitted
  <2> QED
    BY <1>5, <2>1, <2>2, <2>3
<1>7. Emitted(Count + 1)' = Emitted(Count + 1)
  BY <1>1 DEF Emitted
<1> QED
  BY <1>1, <1>2, <1>6, <1>7 DEF DumpInv

LEMMA ClosedNextKeepsDump ==
  ASSUME ~stream.isOpen, ~stream'.isOpen, DumpInv, DumpNext
  PROVE  DumpInv'
BY DEF DumpInv, DumpNext, CallNext, Idle, fileVars

\* The loop ends at the end of the file, and there only.
LEMMA TestFacts ==
  ASSUME IInv, EventInv, DumpInv, tool = "test"
  PROVE  /\ Valid(current) => stream.isOpen /\ FreshRecord
         /\ ~Valid(current) => Len(printed) = Cardinality(Kept(ReadableRecords(file)))
<1>1. CASE stream.isOpen
  <2>1. /\ OpenInv /\ file.kind = "good" /\ ReadableRecords(file) = Records
        /\ FreshRecord \/ (AtEnd /\ Emitted(Count + 1))
    BY <1>1 DEF DumpInv, ReadableRecords, Records
  <2>2. /\ Records \in Seq(Points) /\ Count = Len(Records) /\ IsFile(file) /\ IsScenario(file)
        /\ Records = file.recs
    BY <2>1, OpenFacts
  <2>3. CASE FreshRecord
    <3>1. position \in 1..Len(file.recs) /\ current = file.recs[position]
      BY <2>2, <2>3 DEF FreshRecord, AtRecord
    <3>2. Valid(current)
      BY <2>2, <3>1, ScenarioFacts
    <3> QED
      BY <1>1, <2>3, <3>2
  <2>4. CASE AtEnd /\ Emitted(Count + 1)
    <3>1. ~Valid(current)
      BY <2>4, PlaceFacts
    <3>2. Len(printed) = Cardinality(Kept(Records))
      BY <2>2, <2>4, AllKept DEF Emitted
    <3> QED
      BY <2>1, <3>1, <3>2
  <2> QED
    BY <2>1, <2>3, <2>4
<1>2. CASE ~stream.isOpen
  <2>1. current = NoPoint /\ printed = <<>> /\ ReadableRecords(file) = <<>>
    BY <1>2 DEF EventInv, ClosedInv, DumpInv, ReadableRecords
  <2>2. Kept(<<>>) = {}
    BY DEF Kept, StartsOf
  <2>3. Cardinality({}) = 0 /\ Len(printed) = 0
    BY <2>1, FS_EmptySet
  <2> QED
    BY <2>1, <2>2, <2>3, PlaceFacts
<1> QED
  BY <1>1, <1>2

LEMMA TestKeepsDump ==
  ASSUME IInv, EventInv, DumpInv, stream'.isOpen => OpenInv', DumpTest
  PROVE  DumpInv'
<1>1. /\ tool = "test" /\ tool' = IF Valid(current) THEN "event" ELSE "done"
      /\ UNCHANGED <<file, stream, current, position, event, pc, printed>>
      /\ Records' = Records /\ Count' = Count
  BY DEF DumpTest, vars, Records, Count
<1>2. /\ printed \in Seq(Events) /\ pc = "idle" /\ (file.kind = "good" <=> stream.isOpen)
      /\ ~stream.isOpen => printed = <<>>
  BY <1>1 DEF DumpInv
<1>3. CASE Valid(current)
  <2>1. stream.isOpen /\ FreshRecord
    BY <1>1, <1>3, TestFacts
  <2>2. FreshRecord'
    BY <1>1, <2>1 DEF FreshRecord, AtRecord, FirstOfRun, Emitted, Fresh
  <2> QED
    BY <1>1, <1>2, <1>3, <2>1, <2>2 DEF DumpInv
<1>4. CASE ~Valid(current)
  BY <1>1, <1>2, <1>4 DEF DumpInv
<1> QED
  BY <1>3, <1>4

LEMMA EventKeepsDump ==
  ASSUME IInv, EventInv, DumpInv, stream'.isOpen => OpenInv', DumpEvent
  PROVE  DumpInv'
<1>1. /\ tool = "event" /\ tool' = "print" /\ printed' = printed /\ CallCurrentEvent
      /\ stream.isOpen /\ FreshRecord /\ printed \in Seq(Events) /\ file.kind = "good"
  BY DEF DumpEvent, DumpInv
<1>2. /\ UNCHANGED <<file, stream, current, position, event, ahead>>
      /\ call'.op = "current_event" /\ pc = "idle" /\ Records' = Records
  BY <1>1 DEF CallCurrentEvent, Idle, Enter, fileVars, readerVars, localVars, Records
<1>3. ~ahead /\ ~event.isValid /\ ~stream.eof
  BY <1>1, <1>2, PlaceFacts DEF DumpInv, OpenInv, FreshRecord
<1>4. pc' = "fetch"
  BY <1>1, <1>3 DEF CallCurrentEvent
<1>5. Emitted(ComeTo)' /\ FirstOfRun(ComeTo)' /\ FetchesWhole'
  <2>1. ComeTo' = position
    BY <1>2, <1>3, <1>4 DEF ComeTo
  <2>2. Emitted(ComeTo)' /\ FirstOfRun(ComeTo)' /\ Fresh(ComeTo)'
    BY <1>1, <1>2, <2>1 DEF FreshRecord, Emitted, FirstOfRun, Fresh
  <2>3. AtRecord'
    BY <1>1, <1>2 DEF FreshRecord, AtRecord, Count
  <2> QED
    BY <1>2, <1>3, <1>4, <2>2, <2>3 DEF FetchesWhole
<1>6. PrintInv'
  BY <1>2, <1>4, <1>5 DEF PrintInv
<1> QED
  BY <1>1, <1>2, <1>6 DEF DumpInv

\* What is printed is the next event to print; an exception is deserved.
LEMMA PrintFacts ==
  ASSUME IInv, EventInv, DumpInv, tool = "print", Idle
  PROVE  /\ stream.isOpen /\ ReadableRecords(file) = Records /\ Records \in Seq(Points)
         /\ call.outcome = "threw" => ~WellFormed(Records)
         /\ call.outcome # "threw" =>
              /\ event \in Events /\ event.position \in Kept(Records) /\ Emitted(event.position)
              /\ event = Combined(Records, Origin(Records, event.position), event.position)
              /\ \A y \in (event.position + 1)..position : y \notin StartsOf(Records)
              /\ position \in Nat /\ event.position <= position
<1>1. /\ stream.isOpen /\ OpenInv /\ PrintInv /\ file.kind = "good" /\ pc = "idle"
  BY DEF DumpInv, Idle
<1>2. Records \in Seq(Points) /\ ReadableRecords(file) = Records /\ position \in Nat
  BY <1>1, OpenFacts DEF ReadableRecords
<1>3. call.outcome = "threw" => ~WellFormed(Records)
  BY <1>1 DEF PrintInv
<1>4. ASSUME call.outcome # "threw"
      PROVE  /\ event \in Events /\ event.position \in Kept(Records) /\ Emitted(event.position)
             /\ event = Combined(Records, Origin(Records, event.position), event.position)
             /\ \A y \in (event.position + 1)..position : y \notin StartsOf(Records)
             /\ event.position <= position
  <2>1. PICK x : x = event.position
    OBVIOUS
  <2>2. event.isValid /\ x \in Kept(Records) /\ Emitted(x) /\ current # NoPoint /\ IsWhole(event)
    BY <1>1, <1>4, <2>1 DEF PrintInv
  <2>3. IsCombinedAt(Records, event, x) /\ position \in EndOf(Records, x)..Reach(Records, x)
    BY <1>1, <2>1, <2>2 DEF OpenInv, BetweenCalls, EventIsRight
  <2>4. /\ x \in 1..Len(Records) /\ event \in Events
        /\ EndOf(Records, x) \in x..Reach(Records, x) /\ Reach(Records, x) \in x..Len(Records)
    BY <1>2, <2>3, CombinedFacts
  <2>5. \A y \in (x + 1)..Reach(Records, x) : y \notin StartsOf(Records)
    BY <1>2, <2>4, NoStartWithin
  <2>6. /\ \A y \in (x + 1)..position : y \in (x + 1)..Reach(Records, x)
        /\ x <= position
    BY <1>2, <2>3, <2>4
  <2>7. \A y \in (x + 1)..position : y \notin StartsOf(Records)
    BY <2>5, <2>6
  <2>8. event = Combined(Records, Origin(Records, x), x)
    <3>1. PICK o \in StartsOf(Records) :
            o <= x /\ Fresh(o) /\ Absorbing(Records, o, x) /\ event = Combined(Records, o, x)
      BY <2>1, <2>2 DEF IsWhole
    <3>2. Origin(Records, x) = o
      BY <1>2, <2>4, <3>1, OriginIs
    <3> QED
      BY <3>1, <3>2
  <2> QED
    BY <2>1, <2>2, <2>4, <2>6, <2>7, <2>8
<1> QED
  BY <1>1, <1>2, <1>3, <1>4

LEMMA PrintKeepsDump ==
  ASSUME IInv, EventInv, DumpInv, stream'.isOpen => OpenInv', DumpPrint
  PROVE  DumpInv'
<1>1. /\ tool = "print" /\ Idle
      /\ UNCHANGED <<file, stream, position, pc>> /\ Records' = Records
      /\ IF call.outcome = "threw" THEN tool' = "aborted" /\ printed' = printed
         ELSE tool' = "next" /\ printed' = Append(printed, event)
  BY DEF DumpPrint, vars, Records
<1>2. /\ stream.isOpen /\ file.kind = "good" /\ pc = "idle" /\ printed \in Seq(Events)
      /\ Records \in Seq(Points)
  BY <1>1, PrintFacts DEF DumpInv, Idle
<1>3. CASE call.outcome = "threw"
  BY <1>1, <1>2, <1>3 DEF DumpInv
<1>4. CASE call.outcome # "threw"
  <2>1. PICK x : x = event.position
    OBVIOUS
  <2>2. /\ event \in Events /\ x \in Kept(Records) /\ Emitted(x)
        /\ \A y \in (x + 1)..position : y \notin StartsOf(Records)
        /\ position \in Nat /\ x <= position
    BY <1>1, <1>4, <2>1, PrintFacts
  <2>3. x + 1 \in Nat /\ position + 1 \in Nat /\ x + 1 <= position + 1
        /\ (position + 1) - 1 = position
    BY <1>2, <2>2, KeptFacts DEF Events
  <2>4. {y \in Kept(Records) : y < x + 1} = {y \in Kept(Records) : y < position + 1}
    <3>1. \A y \in (x + 1)..((position + 1) - 1) : y \notin Kept(Records)
      BY <2>2, <2>3 DEF Kept
    <3> QED
      BY <1>2, <2>2, <2>3, <3>1, NothingBetween
  <2>5. Len(printed') = Len(printed) + 1 /\ printed' \in Seq(Events)
    BY <1>1, <1>2, <1>4, <2>2
  <2>6. Len(printed') = Cardinality({y \in Kept(Records) : y < position + 1})
    BY <1>2, <2>2, <2>4, <2>5, OneMoreKept DEF Emitted
  <2>7. Emitted(position + 1)'
    BY <1>1, <2>6 DEF Emitted
  <2>8. Fresh(position + 1)
    <3>1. Fresh(x + 1)
      BY <1>2, <2>2, FreshAfter
    <3>2. \A y \in (x + 1)..((position + 1) - 1) : y \notin StartsOf(Records)
      BY <2>2, <2>3
    <3> QED
      BY <1>2, <2>3, <3>1, <3>2, FreshUpTo
  <2>9. Fresh(position + 1)'
    BY <1>1, <2>8 DEF Fresh
  <2> QED
    BY <1>1, <1>2, <1>4, <2>5, <2>7, <2>9 DEF DumpInv
<1> QED
  BY <1>3, <1>4

\* Each step of the tool is one of sync_file, or none.
LEMMA DumpSteps == [DumpStep]_<<vars, toolVars>> => [Next]_vars
BY DEF DumpStep, DumpLoad, DumpNext, DumpTest, DumpEvent, DumpPrint, Next, Client

LEMMA LoadIsLoad == LoadFile => Idle /\ call'.op = "load"
<1> SUFFICES ASSUME LoadFile PROVE Idle /\ call'.op = "load"
  OBVIOUS
<1>1. PICK f, s, outcome : Load(f, s, outcome)
  BY DEF LoadFile, LoadAbsent, LoadShort, LoadRejected, LoadBadData, LoadGood
<1> QED
  BY <1>1 DEF Load, Enter

LEMMA DumpInvKept ==
  ASSUME Recorded, IInv, IInv', ClosedAtEnd, EventInv, EventInv', DumpInv,
         [DumpStep]_<<vars, toolVars>>
  PROVE  DumpInv'
<1>1. [Next]_vars
  BY DumpSteps
<1>2. CASE DumpLoad
  BY <1>2, LoadKeepsDump
<1>3. CASE DumpNext
  <2>1. ~LoadFile
    BY <1>3, LoadIsLoad DEF DumpNext, CallNext, Enter
  <2>2. stream'.isOpen = stream.isOpen
    BY <1>1, <2>1, OnlyLoadOpens
  <2>3. stream.isOpen => OpenInv /\ OpenInv'
    BY <1>3, CallNextRight DEF DumpInv, DumpNext
  <2> QED
    BY <1>3, <2>2, <2>3, NextKeepsDump, ClosedNextKeepsDump
<1>4. CASE DumpTest \/ DumpEvent \/ DumpPrint
  <2>1. stream' = stream /\ (stream.isOpen => OpenInv)
    BY <1>4 DEF DumpTest, DumpEvent, DumpPrint, CallCurrentEvent, readerVars, vars, DumpInv
  <2>2. CASE DumpEvent
    <3>1. stream.isOpen => OpenInv'
      BY <2>1, <2>2, CallCurrentEventRight DEF DumpEvent
    <3> QED
      BY <2>1, <2>2, <3>1, EventKeepsDump
  <2>3. CASE DumpTest \/ DumpPrint
    <3>1. UNCHANGED vars
      BY <2>3 DEF DumpTest, DumpPrint
    <3>2. stream.isOpen => OpenInv'
      BY <2>1, <3>1, OpenUnchanged
    <3> QED
      BY <2>1, <2>3, <3>2, TestKeepsDump, PrintKeepsDump
  <2> QED
    BY <1>4, <2>2, <2>3
<1>5. CASE Library /\ UNCHANGED toolVars
  <2>1. pc # "idle" /\ tool = "print"
    BY <1>5, CurrentEventFacts DEF Library, ReloadBack, ReloadEvent, Spin, DumpInv
  <2>2. stream.isOpen /\ ~LoadFile
    BY <2>1, LoadIsLoad DEF DumpInv, Idle
  <2>3. stream'.isOpen
    BY <1>1, <2>2, OnlyLoadOpens
  <2> QED
    BY <1>5, <2>2, <2>3, LibraryKeepsDump DEF DumpInv
<1>6. CASE UNCHANGED <<vars, toolVars>>
  <2>1. stream.isOpen => OpenInv'
    BY <1>6, OpenUnchanged DEF DumpInv
  <2> QED
    BY <1>6, <2>1 DEF vars, toolVars, DumpInv, PrintInv, FreshRecord, FirstOfRun, Emitted, ComeTo, Lost,
       FetchesWhole, IsWhole, Fresh, IsBlank, AtRecord, AtEnd, Records, Count
<1> QED
  BY <1>2, <1>3, <1>4, <1>5, <1>6 DEF DumpStep

\* A step of the tool is one of EventDump, or changes nothing that it tells of.
LEMMA StepsAreMapped ==
  ASSUME Recorded, IInv, IInv', ClosedAtEnd, EventInv, EventInv', DumpInv, DumpInv',
         [DumpStep]_<<vars, toolVars>>
  PROVE  [Promise!Next]_(Promise!vars)
<1> DEFINE status(t) == IF t = "load" THEN "loading"
                        ELSE IF t \in {"done", "aborted"} THEN t ELSE "running"
           recs == ReadableRecords(file)
<1>1. Promise!vars = <<recs, printed, status(tool)>>
  BY DEF Promise!vars
<1>2. Promise!vars' = <<recs', printed', status(tool')>>
  BY DEF Promise!vars
<1>3. ASSUME recs' = recs, printed' = printed, status(tool') = status(tool)
      PROVE  UNCHANGED Promise!vars
  BY <1>1, <1>2, <1>3
<1>4. CASE DumpLoad
  <2>1. /\ tool = "load" /\ file = NoFile /\ printed' = printed
        /\ tool' = IF call'.outcome = "threw" THEN "aborted" ELSE "next"
    BY <1>4 DEF DumpLoad, DumpInv
  <2>2. recs = <<>>
    BY <2>1 DEF ReadableRecords, NoFile
  <2>3. /\ ~stream'.isOpen => recs' = <<>>
        /\ tool' = "aborted" => ~stream'.isOpen
    BY <1>4, LoadKeepsDump
  <2>4. recs' \in Seq(Promise!Points)
    <3>1. recs' \in Seq(Points)
      <4>1. IsFile(file')
        BY DEF IInv, TypeOK
      <4>2. file'.recs \in Seq(Points)
        BY <4>1, FileFacts
      <4> QED
        BY <4>2 DEF ReadableRecords
    <3>2. Promise!Points = Points
      BY DEF Promise!Points, Points, Promise!Types, Types, Promise!Exits, Exits,
         Promise!EmulatedExits, EmulatedExits
    <3> QED
      BY <3>1, <3>2
  <2>5. CASE tool' = "aborted"
    BY <2>1, <2>2, <2>3, <2>5 DEF Promise!Next, Promise!Reject
  <2>6. CASE tool' = "next"
    BY <2>1, <2>4, <2>6 DEF Promise!Next, Promise!Load
  <2> QED
    BY <2>1, <2>5, <2>6
<1>5. CASE DumpNext \/ DumpEvent
  <2>1. file' = file /\ printed' = printed /\ status(tool') = status(tool)
    BY <1>5 DEF DumpNext, DumpEvent, CallNext, CallCurrentEvent, fileVars
  <2> QED
    BY <1>3, <2>1
<1>6. CASE DumpTest
  <2>1. /\ tool = "test" /\ tool' = IF Valid(current) THEN "event" ELSE "done"
        /\ printed' = printed /\ file' = file
    BY <1>6 DEF DumpTest, vars
  <2>2. CASE Valid(current)
    BY <1>3, <2>1, <2>2
  <2>3. CASE ~Valid(current)
    <3>1. Len(printed) = Promise!Cardinality(Promise!Kept(recs))
      BY <2>1, <2>3, TestFacts, SameReference
    <3>2. recs' = recs
      BY <2>1
    <3> QED
      BY <2>1, <2>3, <3>1, <3>2 DEF Promise!Next, Promise!Finish
  <2> QED
    BY <2>2, <2>3
<1>7. CASE DumpPrint
  <2>1. /\ tool = "print" /\ Idle /\ file' = file /\ recs' = recs
        /\ IF call.outcome = "threw" THEN tool' = "aborted" /\ printed' = printed
           ELSE tool' = "next" /\ printed' = Append(printed, event)
    BY <1>7 DEF DumpPrint, vars
  <2>2. recs = Records
    BY <2>1, PrintFacts
  <2>3. CASE call.outcome = "threw"
    <3>1. ~Promise!WellFormed(recs)
      BY <2>1, <2>2, <2>3, PrintFacts, SameReference
    <3> QED
      BY <2>1, <2>3, <3>1 DEF Promise!Next, Promise!Abort
  <2>4. CASE call.outcome # "threw"
    <3>1. PICK x : x = event.position
      OBVIOUS
    <3>2. /\ x \in Promise!Kept(recs)
          /\ Promise!Cardinality({y \in Promise!Kept(recs) : y < x}) = Len(printed)
          /\ event = Promise!Combined(recs, Promise!Origin(recs, x), x) /\ event \in Events
      BY <2>1, <2>2, <2>4, <3>1, PrintFacts, SameReference DEF Emitted
    <3>3. printed' = Append(printed, Promise!Combined(recs, Promise!Origin(recs, x), x))
      BY <2>1, <2>4, <3>2
    <3>4. Len(printed') = Len(printed) + 1
      BY <2>1, <2>4, <3>2 DEF DumpInv
    <3>5. status(tool) = "running" /\ status(tool') = status(tool)
      BY <2>1, <2>4
    <3> HIDE DEF status, recs
    <3>6. \E z \in Promise!Kept(recs) :
            /\ Promise!Cardinality({y \in Promise!Kept(recs) : y < z}) = Len(printed)
            /\ printed' = Append(printed, Promise!Combined(recs, Promise!Origin(recs, z), z))
      BY <3>2, <3>3
    <3> QED
      BY <2>1, <3>4, <3>5, <3>6 DEF Promise!Next, Promise!Emit, status, recs
  <2> QED
    BY <2>3, <2>4
<1>8. CASE Library /\ UNCHANGED toolVars
  <2>1. file' = file
    BY <1>8, CurrentEventFacts DEF Library, ReloadBack, ReloadEvent, Spin, fileVars
  <2> QED
    BY <1>3, <1>8, <2>1 DEF toolVars
<1>9. CASE UNCHANGED <<vars, toolVars>>
  BY <1>3, <1>9 DEF vars, toolVars
<1> QED
  BY <1>4, <1>5, <1>6, <1>7, <1>8, <1>9 DEF DumpStep

\* dump_sync_events prints the events of the scenario it is given, each once
\* and in the order of their records, and ends after the last one, or at a
\* malformed one: its main loop over next and current_event, which reads ahead
\* and goes back, is one of EventDump.
THEOREM ToolImplementsDump == Recorded => (DumpSpec => PrintsTheEvents)
<1> SUFFICES ASSUME Recorded PROVE DumpSpec => PrintsTheEvents
  OBVIOUS
<1>1. DumpInit => IInv /\ ClosedAtEnd /\ EventInv /\ DumpInv /\ Promise!Init
  <2>1. DumpInit => Promise!Init
    BY DEF DumpInit, Init, NoFile, ReadableRecords, Promise!Init
  <2> QED
    BY <2>1, InitHolds, InitClosed, EventInvHolds, DumpInitHolds DEF DumpInit
<1>2. /\ IInv /\ ClosedAtEnd /\ EventInv /\ DumpInv
      /\ [DumpStep]_<<vars, toolVars>>
      => (IInv /\ ClosedAtEnd /\ EventInv /\ DumpInv)'
  BY DumpSteps, NextKeepsIInv, ClosedKeeps, EventInvKept, DumpInvKept
<1>3. /\ IInv /\ ClosedAtEnd /\ EventInv /\ DumpInv
      /\ (IInv /\ ClosedAtEnd /\ EventInv /\ DumpInv)'
      /\ [DumpStep]_<<vars, toolVars>>
      => [Promise!Next]_(Promise!vars)
  BY StepsAreMapped
<1> QED
  BY <1>1, <1>2, <1>3, PTL DEF DumpSpec, PrintsTheEvents, Promise!Spec
=============================================================================
