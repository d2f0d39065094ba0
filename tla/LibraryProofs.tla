---------------------------- MODULE LibraryProofs ----------------------------
(***************************************************************************)
(* What operators of the community modules give, for any argument: the     *)
(* least and the greatest number of a set, with induction over the natural *)
(* numbers, which follows from there being a least one; and a series of    *)
(* series flattened.                                                       *)
(***************************************************************************)
EXTENDS SequencesExt, FiniteSetTheorems, TLAPS

-----------------------------------------------------------------------------
(* Least and greatest numbers.                                             *)

LEMMA LeastExists ==
  ASSUME NEW T \in SUBSET Nat, T # {}
  PROVE  \E x \in T : \A y \in T : x <= y
<1>1. PICK x \in T : \A y \in T : ~(<<y, x>> \in OpToRel(<, Nat))
  BY NatLessThanWellFounded, WFMin
<1>2. ASSUME NEW y \in T PROVE x <= y
  <2>1. ~(<<y, x>> \in {ss \in Nat \X Nat : ss[1] < ss[2]})
    BY <1>1 DEF OpToRel
  <2> QED
    BY <2>1
<1> QED
  BY <1>2

LEMMA GreatestExists ==
  ASSUME NEW T \in SUBSET Nat, T # {}, NEW n \in Nat, \A y \in T : y <= n
  PROVE  \E x \in T : \A y \in T : x >= y
<1> DEFINE U == {n - y : y \in T}
<1>1. U \in SUBSET Nat /\ U # {}
  <2>1. ASSUME NEW y \in T PROVE n - y \in Nat
    BY <2>1
  <2>2. PICK y \in T : TRUE
    OBVIOUS
  <2>3. n - y \in U
    BY <2>2
  <2> QED
    BY <2>1, <2>3
<1>2. PICK u \in U : \A v \in U : u <= v
  <2> HIDE DEF U
  <2> QED
    BY <1>1, LeastExists
<1>3. PICK x \in T : u = n - x
  BY <1>2
<1>4. ASSUME NEW y \in T PROVE x >= y
  <2>1. u <= n - y
    BY <1>2
  <2> QED
    BY <1>3, <2>1
<1> QED
  BY <1>4

LEMMA MinIs ==
  ASSUME NEW T \in SUBSET Nat, T # {}
  PROVE  Min(T) \in T /\ \A y \in T : Min(T) <= y
<1>1. \E x \in T : \A y \in T : x =< y
  BY LeastExists
<1> QED
  BY <1>1 DEF Min

LEMMA MaxIs ==
  ASSUME NEW T \in SUBSET Nat, T # {}, NEW n \in Nat, \A y \in T : y <= n
  PROVE  Max(T) \in T /\ \A y \in T : Max(T) >= y
<1>1. \E x \in T : \A y \in T : x >= y
  BY GreatestExists
<1> QED
  BY <1>1 DEF Max

\* To find the least or greatest number of a set is to know it.
LEMMA MinFound ==
  ASSUME NEW T \in SUBSET Nat, NEW x \in T, \A y \in T : x <= y
  PROVE  Min(T) = x
<1>1. Min(T) \in Nat /\ Min(T) <= x /\ x <= Min(T) /\ x \in Nat
  BY MinIs
<1> QED
  BY <1>1

LEMMA MaxFound ==
  ASSUME NEW T \in SUBSET Nat, NEW x \in T, \A y \in T : y <= x
  PROVE  Max(T) = x
<1>1. Max(T) \in Nat /\ Max(T) >= x /\ Max(T) <= x /\ x \in Nat
  <2>1. Max(T) \in T /\ Max(T) >= x
    BY MaxIs
  <2> QED
    BY <2>1
<1> QED
  BY <1>1

\* Induction over the natural numbers, for the numbers that are in a set.
LEMMA SetInduction ==
  ASSUME NEW T, 0 \in T, \A n \in Nat : n \in T => n + 1 \in T
  PROVE  Nat \subseteq T
<1> SUFFICES ASSUME Nat \ T # {} PROVE FALSE
  OBVIOUS
<1>1. PICK x \in Nat \ T : \A y \in Nat \ T : x <= y
  BY LeastExists
<1>2. x - 1 \in Nat /\ x - 1 \in T
  BY <1>1
<1> QED
  BY <1>1, <1>2

\* Two sequences with the same elements are one.
LEMMA SameSequence ==
  ASSUME NEW R, NEW s \in Seq(R), NEW t \in Seq(R), Len(s) = Len(t),
         \A i \in 1..Len(s) : s[i] = t[i]
  PROVE  s = t
<1>1. s = [i \in 1..Len(s) |-> s[i]] /\ t = [i \in 1..Len(t) |-> t[i]]
  OBVIOUS
<1> QED
  BY <1>1

\* A part of a sequence.
LEMMA PartIsSeq ==
  ASSUME NEW R, NEW s \in Seq(R), NEW k \in Nat, k >= 1, NEW m \in Nat, k - 1 <= m, m <= Len(s)
  PROVE  SubSeq(s, k, m) \in Seq(R)
<1>1. Len(s) \in Nat /\ (m - k) + 1 \in Nat
  OBVIOUS
<1>2. SubSeq(s, k, m) = [i \in 1..((m - k) + 1) |-> s[i + (k - 1)]]
  BY <1>1
<1>3. \A i \in 1..((m - k) + 1) : i + (k - 1) \in 1..Len(s)
  BY <1>1
<1>4. \A i \in 1..((m - k) + 1) : s[i + (k - 1)] \in R
  BY <1>3
<1> QED
  BY <1>1, <1>2, <1>4

\* One sequence put behind another.
LEMMA ConcatIs ==
  ASSUME NEW R, NEW x \in Seq(R), NEW y \in Seq(R)
  PROVE  /\ Len(x) \in Nat /\ Len(y) \in Nat
         /\ x \o y \in Seq(R) /\ Len(x \o y) = Len(x) + Len(y)
         /\ \A j \in 1..Len(x) : (x \o y)[j] = x[j]
         /\ \A j \in 1..Len(y) : (x \o y)[Len(x) + j] = y[j]
OBVIOUS

-----------------------------------------------------------------------------
(***************************************************************************)
(* A series flattened: what FlattenSeq gives of the first items.           *)
(***************************************************************************)
Flattens(s, n, g) ==
  \A i \in 1..n : g[i] = IF i = 1 THEN s[i] ELSE g[i - 1] \o s[i]

FlatTo(R, s, n) == \E g \in [1..n -> Seq(R)] : Flattens(s, n, g)

\* The recursive function in the definition of FlattenSeq exists.
LEMMA FlatExists ==
  ASSUME NEW R, NEW s \in Seq(Seq(R))
  PROVE  \A n \in 0..Len(s) : FlatTo(R, s, n)
<1> DEFINE T == {n \in Nat : n <= Len(s) => FlatTo(R, s, n)}
<1>1. 0 \in T
  <2> DEFINE g == [i \in 1..0 |-> <<>>]
  <2>1. g \in [1..0 -> Seq(R)]
    OBVIOUS
  <2>2. Flattens(s, 0, g)
    BY DEF Flattens
  <2>3. FlatTo(R, s, 0)
    <3> HIDE DEF g
    <3> QED
      BY <2>1, <2>2 DEF FlatTo
  <2> QED
    BY <2>3
<1>2. ASSUME NEW n \in Nat, n \in T PROVE n + 1 \in T
  <2> SUFFICES ASSUME n + 1 <= Len(s)
               PROVE  FlatTo(R, s, n + 1)
    OBVIOUS
  <2>1. n <= Len(s) /\ Len(s) \in Nat
    OBVIOUS
  <2>2. PICK g \in [1..n -> Seq(R)] : Flattens(s, n, g)
    BY <1>2, <2>1 DEF FlatTo
  <2> DEFINE last == IF n = 0 THEN s[1] ELSE g[n] \o s[n + 1]
             h == [i \in 1..(n + 1) |-> IF i <= n THEN g[i] ELSE last]
  <2>3. s[n + 1] \in Seq(R) /\ s[1] \in Seq(R)
    BY <2>1
  <2>4. last \in Seq(R)
    BY <2>2, <2>3
  <2>5. h \in [1..(n + 1) -> Seq(R)]
    <3> HIDE DEF last
    <3> QED
      BY <2>2, <2>4
  <2>6. ASSUME NEW i \in 1..(n + 1)
        PROVE  h[i] = IF i = 1 THEN s[i] ELSE h[i - 1] \o s[i]
    <3>1. CASE i <= n
      <4>1. h[i] = g[i] /\ (i # 1 => h[i - 1] = g[i - 1])
        BY <3>1
      <4>2. g[i] = IF i = 1 THEN s[i] ELSE g[i - 1] \o s[i]
        <5>1. i \in 1..n
          BY <3>1
        <5> QED
          BY <2>2, <5>1 DEF Flattens
      <4> HIDE DEF h
      <4> QED
        BY <4>1, <4>2
    <3>2. CASE i = n + 1
      <4>1. h[i] = last /\ (i # 1 => h[i - 1] = g[i - 1])
        BY <3>2
      <4> HIDE DEF h
      <4> QED
        BY <3>2, <4>1
    <3> QED
      BY <3>1, <3>2
  <2>7. Flattens(s, n + 1, h)
    BY <2>6 DEF Flattens
  <2> HIDE DEF h
  <2> QED
    BY <2>5, <2>7 DEF FlatTo
<1>3. Nat \subseteq T
  <2> HIDE DEF T
  <2> QED
    BY <1>1, <1>2, SetInduction
<1> QED
  BY <1>3

\* Two such functions agree as far as both are defined.
LEMMA FlatAgrees ==
  ASSUME NEW s, NEW n \in Nat, n > 0, NEW g, NEW h, Flattens(s, n, g), Flattens(s, n, h)
  PROVE  g[n] = h[n]
<1> DEFINE T == {i \in Nat : i \in 1..n => g[i] = h[i]}
<1>1. 0 \in T
  OBVIOUS
<1>2. ASSUME NEW i \in Nat, i \in T PROVE i + 1 \in T
  <2> SUFFICES ASSUME i + 1 \in 1..n PROVE g[i + 1] = h[i + 1]
    OBVIOUS
  <2>1. CASE i = 0
    BY <2>1 DEF Flattens
  <2>2. CASE i # 0
    <3>1. g[i] = h[i]
      BY <1>2, <2>2
    <3>3. g[i + 1] = g[i] \o s[i + 1]
      <4>1. (i + 1) - 1 = i /\ i + 1 # 1
        BY <2>2
      <4> QED
        BY <4>1 DEF Flattens
    <3>4. h[i + 1] = h[i] \o s[i + 1]
      <4>1. (i + 1) - 1 = i /\ i + 1 # 1
        BY <2>2
      <4> QED
        BY <4>1 DEF Flattens
    <3> QED
      BY <3>1, <3>3, <3>4
  <2> QED
    BY <2>1, <2>2
<1>3. Nat \subseteq T
  <2> HIDE DEF T
  <2> QED
    BY <1>1, <1>2, SetInduction
<1>4. n \in T /\ n \in 1..n
  BY <1>3
<1> QED
  BY <1>4

LEMMA FlattenIs ==
  ASSUME NEW R, NEW s \in Seq(Seq(R)), Len(s) > 0
  PROVE  \E g \in [1..Len(s) -> Seq(R)] :
           Flattens(s, Len(s), g) /\ FlattenSeq(s) = g[Len(s)]
<1>0. Len(s) \in Nat
  OBVIOUS
<1>1. PICK g \in [1..Len(s) -> Seq(R)] : Flattens(s, Len(s), g)
  <2>1. FlatTo(R, s, Len(s))
    BY <1>0, FlatExists
  <2> QED
    BY <2>1 DEF FlatTo
<1> DEFINE Eq(f) == f = [i \in 1..Len(s) |-> IF i = 1 THEN s[i] ELSE f[i - 1] \o s[i]]
           flat == CHOOSE f : Eq(f)
<1>2. Eq(g)
  BY <1>1 DEF Flattens
<1>3. Eq(flat)
  <2> HIDE DEF Eq
  <2> QED
    BY <1>2
<1>5. FlattenSeq(s) = flat[Len(s)]
  BY <1>0 DEF FlattenSeq
<1> HIDE DEF flat
<1>4. Flattens(s, Len(s), flat)
  <2> SUFFICES ASSUME NEW i \in 1..Len(s)
               PROVE  flat[i] = IF i = 1 THEN s[i] ELSE flat[i - 1] \o s[i]
    BY DEF Flattens
  <2> QED
    BY <1>3
<1>6. flat[Len(s)] = g[Len(s)]
  BY <1>0, <1>1, <1>4, FlatAgrees
<1>7. FlattenSeq(s) = g[Len(s)]
  BY <1>0, <1>5, <1>6
<1> QED
  BY <1>1, <1>7

\* The first items flattened.
Flat(s, n) == FlattenSeq(SubSeq(s, 1, n))

LEMMA FirstItems ==
  ASSUME NEW S, NEW s \in Seq(S), NEW n \in Nat, n <= Len(s)
  PROVE  /\ SubSeq(s, 1, n) \in Seq(S) /\ Len(SubSeq(s, 1, n)) = n
         /\ \A i \in 1..n : SubSeq(s, 1, n)[i] = s[i]
OBVIOUS

LEMMA FlattenEmpty == FlattenSeq(<<>>) = <<>>
BY DEF FlattenSeq

LEMMA FlattenType ==
  ASSUME NEW R, NEW s \in Seq(Seq(R))
  PROVE  FlattenSeq(s) \in Seq(R)
<1>1. CASE Len(s) = 0
  <2>1. FlattenSeq(s) = s
    BY <1>1 DEF FlattenSeq
  <2>2. s = <<>>
    BY <1>1
  <2>3. <<>> \in Seq(R)
    OBVIOUS
  <2> QED
    BY <2>1, <2>2, <2>3
<1>2. CASE Len(s) > 0
  <2>1. PICK g \in [1..Len(s) -> Seq(R)] :
          Flattens(s, Len(s), g) /\ FlattenSeq(s) = g[Len(s)]
    BY <1>2, FlattenIs
  <2>2. Len(s) \in 1..Len(s)
    BY <1>2
  <2> QED
    BY <2>1, <2>2
<1>3. Len(s) \in Nat
  OBVIOUS
<1> QED
  BY <1>1, <1>2, <1>3

LEMMA FlatType ==
  ASSUME NEW R, NEW s \in Seq(Seq(R)), NEW n \in Nat, n <= Len(s)
  PROVE  Flat(s, n) \in Seq(R)
BY FirstItems, FlattenType DEF Flat

\* One item more.
LEMMA FlattenNext ==
  ASSUME NEW R, NEW s \in Seq(Seq(R)), NEW n \in Nat, n + 1 <= Len(s)
  PROVE  Flat(s, n + 1) = Flat(s, n) \o s[n + 1]
<1> DEFINE t == SubSeq(s, 1, n + 1)
           u == SubSeq(s, 1, n)
<1>1. /\ t \in Seq(Seq(R)) /\ Len(t) = n + 1 /\ \A i \in 1..(n + 1) : t[i] = s[i]
      /\ u \in Seq(Seq(R)) /\ Len(u) = n /\ \A i \in 1..n : u[i] = s[i]
      /\ s[n + 1] \in Seq(R)
  <2>1. n <= Len(s) /\ Len(s) \in Nat
    OBVIOUS
  <2> QED
    BY <2>1, FirstItems
<1> HIDE DEF t, u
<1>2. PICK g \in [1..(n + 1) -> Seq(R)] :
        Flattens(t, n + 1, g) /\ FlattenSeq(t) = g[n + 1]
  <2>1. Len(t) > 0
    BY <1>1
  <2>2. \E g \in [1..Len(t) -> Seq(R)] :
          Flattens(t, Len(t), g) /\ FlattenSeq(t) = g[Len(t)]
    BY <1>1, <2>1, FlattenIs
  <2>3. Len(t) = n + 1
    BY <1>1
  <2> QED
    BY <2>2, <2>3, Zenon
<1>3. g[n + 1] = IF n = 0 THEN s[1] ELSE g[n] \o s[n + 1]
  <2>1. n + 1 \in 1..(n + 1) /\ (n + 1) - 1 = n /\ (n + 1 = 1 <=> n = 0)
    OBVIOUS
  <2>2. g[n + 1] = IF n + 1 = 1 THEN t[n + 1] ELSE g[(n + 1) - 1] \o t[n + 1]
    BY <1>2, <2>1 DEF Flattens
  <2>3. t[n + 1] = s[n + 1]
    BY <1>1, <2>1
  <2> QED
    BY <2>1, <2>2, <2>3
<1>4. CASE n = 0
  <2>1. u = <<>>
    BY <1>1, <1>4
  <2>2. FlattenSeq(u) = <<>>
    BY <2>1, FlattenEmpty
  <2>3. FlattenSeq(t) = s[1]
    BY <1>2, <1>3, <1>4
  <2>4. <<>> \o s[n + 1] = s[n + 1]
    BY <1>1
  <2> QED
    <3>1. FlattenSeq(t) = FlattenSeq(u) \o s[n + 1]
      BY <1>4, <2>2, <2>3, <2>4
    <3> QED
      BY <3>1 DEF Flat, t, u
<1>5. CASE n # 0
  <2>1. PICK h \in [1..n -> Seq(R)] : Flattens(u, n, h) /\ FlattenSeq(u) = h[n]
    <3>1. Len(u) > 0
      BY <1>1, <1>5
    <3>2. \E h \in [1..Len(u) -> Seq(R)] :
            Flattens(u, Len(u), h) /\ FlattenSeq(u) = h[Len(u)]
      BY <1>1, <3>1, FlattenIs
    <3>3. Len(u) = n
      BY <1>1
    <3> QED
      BY <3>2, <3>3, Zenon
  <2>2. Flattens(t, n, g)
    <3>1. \A i \in 1..n : i \in 1..(n + 1)
      OBVIOUS
    <3> QED
      BY <1>2, <3>1 DEF Flattens
  <2>3. \A i \in 1..n : t[i] = u[i]
    <3>1. \A i \in 1..n : i \in 1..(n + 1)
      OBVIOUS
    <3> QED
      BY <1>1, <3>1
  <2>4. Flattens(t, n, h)
    BY <2>1, <2>3 DEF Flattens
  <2>5. g[n] = h[n]
    BY <1>5, <2>2, <2>4, FlatAgrees
  <2> QED
    <3>1. FlattenSeq(t) = FlattenSeq(u) \o s[n + 1]
      BY <1>2, <1>3, <1>5, <2>1, <2>5
    <3> QED
      BY <3>1 DEF Flat, t, u
<1> QED
  BY <1>4, <1>5

\* What is before an item is what the items before it make.
LEMMA FlattenPrefix ==
  ASSUME NEW R, NEW s \in Seq(Seq(R)), NEW m \in Nat
  PROVE  \A i \in Nat : m + i <= Len(s) =>
           /\ Len(Flat(s, m)) <= Len(Flat(s, m + i))
           /\ \A k \in 1..Len(Flat(s, m)) : Flat(s, m + i)[k] = Flat(s, m)[k]
<1> DEFINE Begins(i) ==
             /\ Len(Flat(s, m)) <= Len(Flat(s, m + i))
             /\ \A k \in 1..Len(Flat(s, m)) : Flat(s, m + i)[k] = Flat(s, m)[k]
           T == {i \in Nat : m + i <= Len(s) => Begins(i)}
<1>1. 0 \in T
  <2>1. m + 0 = m
    OBVIOUS
  <2>2. m <= Len(s) => Len(Flat(s, m)) \in Nat
    BY FlatType
  <2>3. m + 0 <= Len(s) => Begins(0)
    BY <2>1, <2>2
  <2> HIDE DEF Begins
  <2> QED
    BY <2>3
<1>2. ASSUME NEW i \in Nat, i \in T PROVE i + 1 \in T
  <2>1. ASSUME m + (i + 1) <= Len(s) PROVE Begins(i + 1)
    <3> DEFINE x == Flat(s, m)
               y == Flat(s, m + i)
               z == s[(m + i) + 1]
    <3>1. /\ m <= Len(s) /\ m + i <= Len(s) /\ m + i \in Nat
          /\ m + (i + 1) = (m + i) + 1 /\ Len(s) \in Nat /\ (m + i) + 1 <= Len(s)
      BY <2>1
    <3>2. Begins(i)
      BY <1>2, <3>1
    <3>3. Flat(s, m + (i + 1)) = y \o z
      BY <3>1, FlattenNext
    <3>4. x \in Seq(R) /\ y \in Seq(R)
      BY <3>1, FlatType
    <3>5. z \in Seq(R)
      BY <3>1
    <3>6. Len(x) <= Len(y) /\ \A k \in 1..Len(x) : y[k] = x[k]
      BY <3>2
    <3> HIDE DEF x, y, z
    <3>7. Len(x) <= Len(y \o z) /\ \A k \in 1..Len(x) : (y \o z)[k] = x[k]
      BY <3>4, <3>5, <3>6
    <3> QED
      BY <3>3, <3>7 DEF x
  <2> HIDE DEF Begins
  <2> QED
    BY <2>1
<1> HIDE DEF T
<1>3. Nat \subseteq T
  BY <1>1, <1>2, SetInduction
<1> QED
  BY <1>3 DEF T

\* The cells of an item, where they are in the whole.
LEMMA FlattenItem ==
  ASSUME NEW R, NEW s \in Seq(Seq(R)), NEW n \in Nat, n + 1 <= Len(s)
  PROVE  /\ Len(Flat(s, n)) \in Nat
         /\ Len(Flat(s, n + 1)) = Len(Flat(s, n)) + Len(s[n + 1])
         /\ Len(Flat(s, n + 1)) <= Len(FlattenSeq(s))
         /\ \A j \in 1..Len(s[n + 1]) : FlattenSeq(s)[Len(Flat(s, n)) + j] = s[n + 1][j]
<1> DEFINE x == Flat(s, n)
           y == Flat(s, n + 1)
           z == s[n + 1]
<1>1. SubSeq(s, 1, Len(s)) = s /\ Len(s) \in Nat
  OBVIOUS
<1>2. FlattenSeq(s) = Flat(s, Len(s))
  BY <1>1 DEF Flat
<1>3. x \in Seq(R) /\ z \in Seq(R)
  <2>1. n <= Len(s)
    BY <1>1
  <2>2. z \in Seq(R)
    BY <1>1
  <2> QED
    BY <2>1, <2>2, FlatType
<1>4. y = x \o z
  BY FlattenNext
<1>5. Len(y) <= Len(FlattenSeq(s)) /\ \A k \in 1..Len(y) : FlattenSeq(s)[k] = y[k]
  <2> DEFINE i == Len(s) - (n + 1)
  <2>1. i \in Nat /\ (n + 1) + i = Len(s) /\ n + 1 \in Nat
    BY <1>1
  <2>2. (n + 1) + i <= Len(s)
    BY <1>1, <2>1
  <2>3. /\ Len(y) <= Len(Flat(s, (n + 1) + i))
        /\ \A k \in 1..Len(y) : Flat(s, (n + 1) + i)[k] = y[k]
    <3> HIDE DEF i
    <3> QED
      BY <2>1, <2>2, FlattenPrefix
  <2> HIDE DEF i, y
  <2> QED
    BY <1>2, <2>1, <2>3
<1> HIDE DEF x, y, z
<1>6. /\ Len(x) \in Nat /\ Len(y) = Len(x) + Len(z)
      /\ \A j \in 1..Len(z) : y[Len(x) + j] = z[j] /\ Len(x) + j \in 1..Len(y)
  BY <1>3, <1>4
<1>7. \A j \in 1..Len(z) : FlattenSeq(s)[Len(x) + j] = z[j]
  BY <1>5, <1>6
<1> QED
  BY <1>5, <1>6, <1>7 DEF x, y, z
=============================================================================
