------------------------------- MODULE Extremes -------------------------------
(***************************************************************************)
(* The least and the greatest of a set of numbers exist: the lemmas that   *)
(* the searches for a first entry, a highest unit or a first record use.   *)
(***************************************************************************)
EXTENDS Integers, FiniteSetsExt, WellFoundedInduction, TLAPS

LEMMA LeastNat ==
  ASSUME NEW S, S \subseteq Nat, S # {}
  PROVE  \E m \in S : \A x \in S : m <= x
<1>1. PICK m \in S : \A x \in S : <<x, m>> \notin OpToRel(<, Nat)
  BY NatLessThanWellFounded, WFMin, Zenon
<1>2. \A x \in S : ~(x < m)
  BY <1>1 DEF OpToRel
<1> QED
  BY <1>2

LEMMA LeastIs ==
  ASSUME NEW S, S \subseteq Nat, S # {}
  PROVE  Min(S) \in S /\ \A x \in S : Min(S) <= x
BY LeastNat DEF Min

LEMMA GreatestIs ==
  ASSUME NEW S, NEW n \in Nat, S \subseteq 0..n, S # {}
  PROVE  Max(S) \in S /\ \A x \in S : x <= Max(S)
<1>1. {n - x : x \in S} \subseteq Nat /\ {n - x : x \in S} # {}
  <2>1. \A x \in S : n - x \in Nat
    OBVIOUS
  <2> QED
    BY <2>1
<1>2. PICK m \in {n - x : x \in S} : \A y \in {n - x : x \in S} : m <= y
  BY <1>1, LeastNat
<1>3. PICK g \in S : m = n - g
  BY <1>2
<1>4. \A x \in S : g >= x
  <2> TAKE x \in S
  <2>1. n - g <= n - x
    BY <1>2, <1>3
  <2> QED
    BY <2>1
<1>5. Max(S) \in S /\ \A x \in S : Max(S) >= x
  BY <1>4 DEF Max
<1> QED
  BY <1>5

LEMMA LeastOfTwo ==
  ASSUME NEW a \in Int, NEW b \in Int
  PROVE  (a <= b => Min({a, b}) = a) /\ (b <= a => Min({a, b}) = b)
<1>1. CASE a <= b
  BY <1>1 DEF Min
<1>2. CASE b <= a
  BY <1>2 DEF Min
<1> QED
  BY <1>1, <1>2

LEMMA GreatestIn ==
  ASSUME NEW S, S \subseteq Int, NEW m \in S, \A x \in S : x <= m
  PROVE  Max(S) = m
<1>1. \A x \in S : (\A y \in S : x >= y) => x = m
  OBVIOUS
<1>2. \A y \in S : m >= y
  OBVIOUS
<1> QED
  BY <1>1, <1>2 DEF Max

LEMMA GreatestOfTwo ==
  ASSUME NEW a \in Int, NEW b \in Int
  PROVE  (a <= b => Max({a, b}) = b) /\ (b <= a => Max({a, b}) = a)
<1>1. CASE a <= b
  BY <1>1 DEF Max
<1>2. CASE b <= a
  BY <1>2 DEF Max
<1> QED
  BY <1>1, <1>2

\* The numbers of a sequence that is not empty have a greatest and a least one.
LEMMA ExtremesOfSequence ==
  ASSUME NEW S, S \subseteq Int, S # {}, NEW n \in Nat, NEW f,
         \A x \in S : \E i \in 1..n : f[i] = x
  PROVE  /\ Max(S) \in S /\ \A x \in S : x <= Max(S)
         /\ Min(S) \in S /\ \A x \in S : Min(S) <= x
<1> DEFINE Upto(k) == {x \in S : \E i \in 1..k : f[i] = x}
           Bad == {k \in 1..n : /\ Upto(k) # {}
                                /\ \/ ~\E m \in Upto(k) : \A x \in Upto(k) : x <= m
                                   \/ ~\E m \in Upto(k) : \A x \in Upto(k) : m <= x}
<1>1. CASE Bad # {}
  <2>0. Bad \subseteq Nat
    OBVIOUS
  <2> HIDE DEF Bad
  <2>1. PICK k \in Bad : \A x \in Bad : k <= x
    BY <1>1, <2>0, LeastNat
  <2> USE DEF Bad
  <2>2. k \in 1..n /\ k - 1 \in 0..n /\ k - 1 \notin Bad
    <3>1. k \in 1..n
      BY <2>1
    <3> HIDE DEF Bad
    <3> QED
      BY <2>1, <3>1
  <2> DEFINE v == f[k]
  <2>a. \A i \in 1..k : i = k \/ i \in 1..(k - 1)
    BY <2>2
  <2>b. k \in 1..k /\ 1..(k - 1) \subseteq 1..k
    BY <2>2
  <2> HIDE DEF Bad
  <2>3. \A x \in Upto(k) : x \in Upto(k - 1) \/ x = v
    BY <2>a
  <2>4. Upto(k - 1) \subseteq Upto(k) /\ Upto(k) \subseteq Int /\ (v \in S => v \in Upto(k))
    BY <2>b
  <2> USE DEF Bad
  <2>5. Upto(k) # {}
    BY <2>1
  <2>6. CASE Upto(k - 1) = {}
    BY <2>1, <2>3, <2>4, <2>5, <2>6
  <2>7. CASE Upto(k - 1) # {}
    <3>0. k - 1 \in 1..n
      BY <2>2, <2>7
    <3>1. /\ \E m \in Upto(k - 1) : \A x \in Upto(k - 1) : x <= m
          /\ \E m \in Upto(k - 1) : \A x \in Upto(k - 1) : m <= x
      BY <2>2, <2>7, <3>0
    <3> HIDE DEF Upto
    <3>2. CASE v \notin Upto(k)
      BY <2>1, <2>3, <2>4, <3>1, <3>2
    <3>3. CASE v \in Upto(k)
      <4>1. PICK m \in Upto(k - 1) : \A x \in Upto(k - 1) : x <= m
        BY <3>1
      <4>2. PICK l \in Upto(k - 1) : \A x \in Upto(k - 1) : l <= x
        BY <3>1
      <4>3. m \in Int /\ l \in Int /\ v \in Int
        BY <2>4, <3>3
      <4>4. \E y \in Upto(k) : \A x \in Upto(k) : x <= y
        <5>1. CASE m <= v
          BY <2>3, <2>4, <3>3, <4>1, <4>3, <5>1
        <5>2. CASE v <= m
          BY <2>3, <2>4, <3>3, <4>1, <4>3, <5>2
        <5> QED
          BY <4>3, <5>1, <5>2
      <4>5. \E y \in Upto(k) : \A x \in Upto(k) : y <= x
        <5>1. CASE v <= l
          BY <2>3, <2>4, <3>3, <4>2, <4>3, <5>1
        <5>2. CASE l <= v
          BY <2>3, <2>4, <3>3, <4>2, <4>3, <5>2
        <5> QED
          BY <4>3, <5>1, <5>2
      <4> QED
        BY <2>1, <4>4, <4>5
    <3> QED
      BY <3>2, <3>3
  <2> QED
    BY <2>6, <2>7
<1>2. CASE Bad = {}
  <2>1. Upto(n) = S
    OBVIOUS
  <2>2. n \in 1..n
    <3>1. 1..n # {}
      OBVIOUS
    <3> QED
      BY <3>1
  <2>3. /\ \E m \in S : \A x \in S : x <= m
        /\ \E m \in S : \A x \in S : m <= x
    BY <1>2, <2>1, <2>2
  <2> QED
    BY <2>3 DEF Max, Min
<1> QED
  BY <1>1, <1>2
=============================================================================
