---------------------------- MODULE XdfSeq_proofs ----------------------------
(***************************************************************************)
(* Theorems about XdfSeq: the types, the addresses in handles, the         *)
(* position, and that it implements SeqTape, for every length of records,  *)
(* size of clusters and bound, through marks, searches, skips and crashes. *)
(***************************************************************************)
EXTENDS XdfSeq, Extremes, FiniteSetTheorems

-----------------------------------------------------------------------------
(* Multiples.                                                              *)

Rounded(e, s) == ((e + s - 1) \div s) * s

LEMMA Rounding ==
  ASSUME NEW s \in Nat \ {0}, NEW e \in Nat, NEW m \in Nat, e <= m * s
  PROVE  \E q \in 0..m : q * s >= e /\ Rounded(e, s) = q * s
<1> DEFINE x == e + s - 1
           q == x \div s
           r == x % s
<1>1. x \in Nat
  OBVIOUS
<1>2. q \in Nat /\ r \in 0..(s - 1) /\ x = s * q + r
  BY <1>1
<1> HIDE DEF q, r
<1>3. q * s = x - r /\ q * s >= e
  BY <1>2
<1>4. ~(q > m)
  <2> SUFFICES ASSUME q > m PROVE FALSE
    OBVIOUS
  <2>1. q * s >= (m + 1) * s
    BY <1>2
  <2>2. (m + 1) * s = m * s + s
    OBVIOUS
  <2>3. m * s \in Int /\ q * s \in Int
    BY <1>2
  <2> QED
    BY <1>2, <1>3, <2>1, <2>2, <2>3
<1>5. q \in 0..m
  BY <1>2, <1>4
<1> QED
  BY <1>3, <1>5 DEF Rounded, q

LEMMA Quotient ==
  ASSUME NEW s \in Nat \ {0}, NEW q \in Nat
  PROVE  (q * s) \div s = q
<1> DEFINE x == q * s
           d == x \div s
           r == x % s
<1>1. x \in Nat
  OBVIOUS
<1>2. d \in Nat /\ r \in 0..(s - 1) /\ x = s * d + r
  BY <1>1
<1> HIDE DEF d, r
<1>3. s * (d - q) = 0 - r
  BY <1>2
<1>4. ~(d > q)
  <2> SUFFICES ASSUME d > q PROVE FALSE
    OBVIOUS
  <2>1. s * (d - q) >= s
    BY <1>2
  <2> QED
    BY <1>2, <1>3, <2>1
<1>5. ~(d < q)
  <2> SUFFICES ASSUME d < q PROVE FALSE
    OBVIOUS
  <2>1. s * (d - q) <= 0 - s
    BY <1>2
  <2> QED
    BY <1>2, <1>3, <2>1
<1>6. d = q
  BY <1>2, <1>4, <1>5
<1> QED
  BY <1>6 DEF d

LEMMA Small ==
  ASSUME NEW s \in Nat \ {0}, NEW q \in Nat, q < s
  PROVE  q % s = q
OBVIOUS

-----------------------------------------------------------------------------
(* Clusters and handles.                                                   *)

LEMMA SizesAre ==
  /\ Size(0) = 1 /\ Size(1) = Factor /\ Size(2) = Factor * Factor
  /\ Size(3) = Factor * Factor * Factor
  /\ Start(0) = 0 /\ Start(1) = Cap /\ Start(2) = Cap * Factor
  /\ Start(3) = Cap * (Factor * Factor)
<1>1. Factor \in Nat /\ Cap \in Nat
  BY SeqAssumption
<1> QED
  BY <1>1 DEF Size, Start

\* Each cluster begins at a multiple of its size, and behind the one before.
LEMMA StartsAre ==
  /\ \A c \in 0..3 : Size(c) \in Nat \ {0} /\ Start(c) \in Nat
  /\ Start(1) < Start(2) /\ Start(2) < Start(3) /\ Start(3) < Cap * Size(3)
  /\ \E k \in Nat : k < Cap /\ Start(1) = k * Size(1) /\ Start(2) = k * Size(2)
                    /\ Start(3) = k * Size(3)
<1>1. Factor \in Nat /\ Factor >= 2 /\ Cap \in Nat /\ Cap >= 1 /\ Cap % Factor = 0
  BY SeqAssumption
<1>2. ASSUME NEW x \in Nat, x >= 1 PROVE x * Factor \in Nat /\ x < x * Factor
  <2> DEFINE f == Factor - 1
  <2>1. f \in Nat /\ f >= 1 /\ Factor = f + 1
    BY <1>1
  <2> HIDE DEF f
  <2>2. x * f \in Nat /\ x * f >= 1
    BY <1>2, <2>1
  <2>3. x * Factor = x * f + x
    BY <1>2, <2>1
  <2> QED
    BY <1>2, <2>2, <2>3
<1> DEFINE s2 == Factor * Factor
           s3 == Factor * Factor * Factor
           k == Cap \div Factor
<1>3. s2 \in Nat /\ s2 >= 1 /\ s3 = s2 * Factor
  BY <1>1
<1>4. s3 \in Nat /\ s3 >= 1
  BY <1>2, <1>3
<1>5. k \in Nat /\ Cap = k * Factor
  BY <1>1
<1>6. k < Cap
  <2>1. k >= 1
    BY <1>1, <1>5
  <2> QED
    BY <1>2, <1>5, <2>1
<1> HIDE DEF k
<1>7. Cap * Factor = k * s2
  BY <1>1, <1>5
<1>8. Cap * s2 = k * s3
  BY <1>1, <1>5
<1>9. Cap < Cap * Factor
  BY <1>1, <1>2
<1>10. Cap * Factor \in Nat /\ Cap * Factor >= 1 /\ Cap * s2 = (Cap * Factor) * Factor
  BY <1>1, <1>9
<1>11. Cap * s2 \in Nat /\ Cap * Factor < Cap * s2 /\ Cap * s2 >= 1
  BY <1>2, <1>10
<1>12. Cap * s3 = (Cap * s2) * Factor
  BY <1>1, <1>3
<1>13. Cap * s2 < Cap * s3
  BY <1>2, <1>11, <1>12
<1>14. \A c \in 0..3 : Size(c) \in Nat \ {0} /\ Start(c) \in Nat
  BY <1>1, <1>3, <1>4, <1>10, <1>11, SizesAre
<1> QED
  BY <1>5, <1>6, <1>7, <1>8, <1>9, <1>11, <1>13, <1>14, SizesAre

LEMMA ClusterIs ==
  ASSUME NEW a \in Nat
  PROVE  /\ ClusterOf(a) \in 0..3
         /\ a < Start(1) => ClusterOf(a) = 0
         /\ Start(1) <= a /\ a < Start(2) => ClusterOf(a) = 1
         /\ Start(2) <= a /\ a < Start(3) => ClusterOf(a) = 2
         /\ Start(3) <= a => ClusterOf(a) = 3
<1> DEFINE In(c) == a >= Start(c) /\ \A d \in c+1..3 : a < Start(d)
<1>1. Start(0) = 0 /\ \A c \in 0..3 : Start(c) \in Nat
  BY StartsAre, SizesAre
<1>2. Start(1) < Start(2) /\ Start(2) < Start(3)
  BY StartsAre
<1>3. \A c \in 0..3 :
        In(c) <=> \/ c = 0 /\ a < Start(1)
                  \/ c = 1 /\ Start(1) <= a /\ a < Start(2)
                  \/ c = 2 /\ Start(2) <= a /\ a < Start(3)
                  \/ c = 3 /\ Start(3) <= a
  BY <1>1, <1>2
<1>4. \E c \in 0..3 : In(c)
  BY <1>1, <1>2, <1>3
<1>5. ClusterOf(a) \in 0..3 /\ In(ClusterOf(a))
  BY <1>4 DEF ClusterOf
<1> HIDE DEF In
<1> QED
  BY <1>1, <1>2, <1>3, <1>5

\* A handle made of address p gives it back.
Resolves(p) == AddressOf(HandleOf(p)) = p

LEMMA ResolvesIf ==
  ASSUME NEW p \in Nat, NEW q \in Nat, q < Cap, p = q * Size(ClusterOf(p))
  PROVE  Resolves(p)
<1>1. ClusterOf(p) \in 0..3 /\ Size(ClusterOf(p)) \in Nat \ {0}
  BY ClusterIs, StartsAre
<1> DEFINE s == Size(ClusterOf(p))
<1>2. s \in Nat \ {0} /\ p = q * s
  BY <1>1
<1> HIDE DEF s
<1>3. p \div s = q
  BY <1>2, Quotient
<1>4. q % Cap = q
  BY Small, SeqAssumption
<1>5. AddressOf(HandleOf(p)) = ((p \div s) % Cap) * s
  BY DEF AddressOf, HandleOf, s
<1> QED
  BY <1>2, <1>3, <1>4, <1>5 DEF Resolves

\* With the length that c_xdfput gives it, a record ends where the next handle resolves.
LEMMA PutLenIs ==
  ASSUME NEW a \in Nat, NEW n \in Nat \ {0}, a + PutLen(a, n) + 2 <= MaxAddr
  PROVE  /\ PutLen(a, n) \in Nat /\ PutLen(a, n) >= n
         /\ Resolves(a + PutLen(a, n) + 2)
<1> DEFINE e == a + n + 2
           c == ClusterOf(e)
           s == Size(c)
           p == Rounded(e, s)
<1>1. e \in Nat /\ c \in 0..3 /\ s \in Nat \ {0}
  BY ClusterIs, StartsAre
<1>2. PutLen(a, n) = p - a - 2
  BY DEF PutLen, Rounded
<1>3. e = a + n + 2
  OBVIOUS
<1>4. PICK q \in Nat : q * s >= e /\ p = q * s /\ \A m \in Nat : e <= m * s => q <= m
  <2> HIDE DEF e, c, s, p
  <2>1. e <= e * s
    <3> DEFINE r == s - 1
    <3>1. r \in Nat /\ s = r + 1
      BY <1>1
    <3> HIDE DEF r
    <3>2. e * r \in Nat /\ e * s = e * r + e
      BY <1>1, <3>1
    <3> QED
      BY <1>1, <3>2
  <2>2. PICK q \in 0..e : q * s >= e /\ p = q * s
    BY <1>1, <2>1, Rounding DEF p
  <2>3. ASSUME NEW m \in Nat, e <= m * s PROVE q <= m
    <3>1. PICK r \in 0..m : r * s >= e /\ p = r * s
      BY <1>1, <2>3, Rounding DEF p
    <3>2. q = (q * s) \div s /\ r = (r * s) \div s
      BY <1>1, <2>2, <3>1, Quotient
    <3> QED
      BY <2>2, <3>1, <3>2
  <2> QED
    BY <2>2, <2>3
<1> HIDE DEF p
<1>5. p \in Nat /\ p >= e
  BY <1>1, <1>4
<1>6. PutLen(a, n) \in Nat /\ PutLen(a, n) >= n /\ a + PutLen(a, n) + 2 = p
  BY <1>2, <1>3, <1>5
<1>7. PICK k \in Nat : k < Cap /\ Start(1) = k * Size(1) /\ Start(2) = k * Size(2)
                      /\ Start(3) = k * Size(3)
  BY StartsAre
<1>8. /\ Start(1) \in Nat /\ Start(2) \in Nat /\ Start(3) \in Nat
      /\ Start(1) < Start(2) /\ Start(2) < Start(3)
      /\ Start(1) = Cap * Size(0) /\ Start(2) = Cap * Size(1) /\ Start(3) = Cap * Size(2)
      /\ Size(0) = 1 /\ Cap \in Nat /\ MaxAddr \in Nat /\ MaxAddr < Cap * Size(3)
  BY StartsAre, SizesAre, SeqAssumption
<1> HIDE DEF e, s, c
\* The multiple is in the cluster of e, or it is the first address of the next one.
<1> SUFFICES Resolves(p)
  BY <1>6
<1>9. ASSUME p = q * Size(ClusterOf(p)), q < Cap PROVE Resolves(p)
  BY <1>5, <1>9, ResolvesIf
<1>10. ASSUME p = k * Size(ClusterOf(p)) PROVE Resolves(p)
  BY <1>5, <1>7, <1>10, ResolvesIf
<1>11. ASSUME NEW d \in 0..2, c = d, e < Start(d + 1), Start(d + 1) = Cap * Size(d)
       PROVE  /\ q <= Cap
              /\ q = Cap => p = Start(d + 1)
              /\ q < Cap => p < Start(d + 1)
  <2>1. s = Size(d)
    BY <1>11 DEF s
  <2>2. q <= Cap
    BY <1>1, <1>4, <1>8, <1>11, <2>1
  <2>3. q < Cap => q * s < Cap * s
    BY <1>1, <1>8
  <2> QED
    BY <1>4, <1>11, <2>1, <2>2, <2>3
<1>12. CASE c = 0
  <2>1. e < Start(1)
    BY <1>1, <1>8, <1>12, ClusterIs DEF c
  <2>2. s = Size(0)
    BY <1>12 DEF s
  <2>3. q <= Cap /\ (q = Cap => p = Start(1)) /\ (q < Cap => p < Start(1))
    BY <1>8, <1>11, <1>12, <2>1
  <2>4. CASE q = Cap
    <3>1. ClusterOf(p) = 1 /\ p = Start(1)
      BY <1>5, <1>8, <2>3, <2>4, ClusterIs
    <3> QED
      BY <1>7, <1>10, <3>1
  <2>5. CASE q < Cap
    <3>1. ClusterOf(p) = 0
      BY <1>5, <2>3, <2>5, ClusterIs
    <3>2. p = q * Size(ClusterOf(p))
      BY <1>4, <2>2, <3>1
    <3> QED
      BY <1>9, <2>5, <3>2
  <2> QED
    BY <1>4, <1>8, <2>3, <2>4, <2>5
<1>13. CASE c = 1
  <2>1. Start(1) <= e /\ e < Start(2)
    BY <1>1, <1>8, <1>13, ClusterIs DEF c
  <2>2. s = Size(1)
    BY <1>13 DEF s
  <2>3. q <= Cap /\ (q = Cap => p = Start(2)) /\ (q < Cap => p < Start(2))
    BY <1>8, <1>11, <1>13, <2>1
  <2>4. CASE q = Cap
    <3>1. ClusterOf(p) = 2 /\ p = Start(2)
      BY <1>5, <1>8, <2>3, <2>4, ClusterIs
    <3> QED
      BY <1>7, <1>10, <3>1
  <2>5. CASE q < Cap
    <3>1. ClusterOf(p) = 1
      BY <1>1, <1>5, <1>8, <2>1, <2>3, <2>5, ClusterIs
    <3>2. p = q * Size(ClusterOf(p))
      BY <1>4, <2>2, <3>1
    <3> QED
      BY <1>9, <2>5, <3>2
  <2> QED
    BY <1>4, <1>8, <2>3, <2>4, <2>5
<1>14. CASE c = 2
  <2>1. Start(2) <= e /\ e < Start(3)
    BY <1>1, <1>8, <1>14, ClusterIs DEF c
  <2>2. s = Size(2)
    BY <1>14 DEF s
  <2>3. q <= Cap /\ (q = Cap => p = Start(3)) /\ (q < Cap => p < Start(3))
    BY <1>8, <1>11, <1>14, <2>1
  <2>4. CASE q = Cap
    <3>1. ClusterOf(p) = 3 /\ p = Start(3)
      BY <1>5, <1>8, <2>3, <2>4, ClusterIs
    <3> QED
      BY <1>7, <1>10, <3>1
  <2>5. CASE q < Cap
    <3>1. ClusterOf(p) = 2
      BY <1>1, <1>5, <1>8, <2>1, <2>3, <2>5, ClusterIs
    <3>2. p = q * Size(ClusterOf(p))
      BY <1>4, <2>2, <3>1
    <3> QED
      BY <1>9, <2>5, <3>2
  <2> QED
    BY <1>4, <1>8, <2>3, <2>4, <2>5
<1>15. CASE c = 3
  <2>1. Start(3) <= e
    BY <1>1, <1>8, <1>15, ClusterIs DEF c
  <2>2. s = Size(3)
    BY <1>15 DEF s
  <2>3. ClusterOf(p) = 3
    BY <1>1, <1>5, <1>8, <2>1, ClusterIs
  <2>4. q < Cap
    <3> SUFFICES ASSUME q >= Cap PROVE FALSE
      BY <1>4, <1>8
    <3>1. q * s >= Cap * s
      BY <1>1, <1>4, <1>8
    <3>2. q * s \in Nat /\ Cap * s \in Nat
      BY <1>1, <1>4, <1>8
    <3> QED
      BY <1>4, <1>6, <1>8, <2>2, <3>1, <3>2
  <2>5. p = q * Size(ClusterOf(p))
    BY <1>4, <2>2, <2>3
  <2> QED
    BY <1>9, <2>4, <2>5
<1> QED
  BY <1>1, <1>12, <1>13, <1>14, <1>15

\* In the first cluster every address resolves, and so does the first address behind it.
LEMMA FirstCluster ==
  ASSUME NEW p \in Nat, p <= Cap
  PROVE  Resolves(p)
<1>1. PICK k \in Nat : k < Cap /\ Start(1) = k * Size(1)
  BY StartsAre
<1>2. Start(1) = Cap /\ Start(1) < Start(2) /\ Size(0) = 1 /\ Cap \in Nat /\ Start(2) \in Nat
  BY SizesAre, StartsAre, SeqAssumption
<1>3. CASE p < Cap
  <2>1. ClusterOf(p) = 0
    BY <1>2, <1>3, ClusterIs
  <2>2. p = p * Size(ClusterOf(p))
    BY <1>2, <2>1
  <2> QED
    BY <1>3, <2>2, ResolvesIf
<1>4. CASE p = Cap
  <2>1. ClusterOf(p) = 1
    BY <1>2, <1>4, ClusterIs
  <2>2. p = k * Size(ClusterOf(p))
    BY <1>1, <1>2, <1>4, <2>1
  <2> QED
    BY <1>1, <2>2, ResolvesIf
<1> QED
  BY <1>2, <1>3, <1>4

-----------------------------------------------------------------------------
(* Functions that go up the tape.                                          *)

\* A set of addresses that has none without one behind it is empty.
LEMMA NoneLast ==
  ASSUME NEW M \in Nat, NEW B, B \subseteq 0..M, \A a \in B : \E b \in B : b > a
  PROVE  B = {}
<1> SUFFICES ASSUME B # {} PROVE FALSE
  OBVIOUS
<1>1. PICK m \in B : \A b \in B : b <= m
  BY GreatestIs
<1>2. PICK b \in B : b > m
  BY <1>1
<1>3. b \in Nat /\ m \in Nat /\ b <= m
  BY <1>1, <1>2
<1> QED
  BY <1>2, <1>3

\* A function that is given by its values behind an address exists.
Upward(M, stop, next) ==
  \A a \in Nat : (a > M => a \in stop) /\ (a \notin stop => next[a] > a)
Recursive(w, stop, base, next, g) ==
  \A a \in Nat : w[a] = IF a \in stop THEN base[a] ELSE g[<<a, w[next[a]]>>]

LEMMA Recursion ==
  ASSUME NEW V, NEW M \in Nat, NEW stop, NEW base \in [Nat -> V], NEW next \in [Nat -> Nat],
         NEW g \in [Nat \X V -> V], Upward(M, stop, next)
  PROVE  \E w \in [Nat -> V] : Recursive(w, stop, base, next, g)
<1> USE DEF Upward, Recursive
<1> DEFINE At1(w, a) == IF a \in stop THEN base[a] ELSE g[<<a, w[next[a]]>>]
           G == {n \in 0..(M + 1) : \E w \in [Nat -> V] : \A a \in Nat : a >= n => w[a] = At1(w, a)}
<1>1. M + 1 \in G
  <2>1. \A a \in Nat : a >= M + 1 => base[a] = At1(base, a)
    OBVIOUS
  <2> QED
    BY <2>1
<1>2. G \subseteq 0..(M + 1)
  <2> HIDE DEF At1
  <2> QED
    OBVIOUS
<1>3. PICK m \in G : \A n \in G : m <= n
  <2> HIDE DEF G
  <2>1. G \subseteq Nat /\ G # {}
    BY <1>1, <1>2
  <2> QED
    BY <2>1, LeastNat
<1>4. PICK w \in [Nat -> V] : \A a \in Nat : a >= m => w[a] = At1(w, a)
  OBVIOUS
<1>7. m \in 0..(M + 1)
  BY <1>2
<1>5. ASSUME m > 0 PROVE FALSE
  <2> DEFINE k == m - 1
             u == [w EXCEPT ![k] = At1(w, k)]
  <2>1. k \in Nat /\ k \in 0..(M + 1)
    BY <1>5
  <2>2. At1(w, k) \in V
    BY <2>1
  <2> HIDE DEF At1, k
  <2>3. u \in [Nat -> V] /\ u[k] = At1(w, k) /\ \A a \in Nat : a # k => u[a] = w[a]
    BY <2>1, <2>2
  <2> HIDE DEF u
  <2>4. ASSUME NEW a \in Nat, a >= k PROVE u[a] = At1(u, a)
    <3>1. At1(u, a) = At1(w, a)
      <4>1. a \notin stop => next[a] \in Nat /\ next[a] # k
        BY <2>1, <2>4
      <4> QED
        BY <2>3, <4>1 DEF At1
    <3>2. CASE a = k
      BY <2>3, <3>1, <3>2
    <3>3. CASE a # k
      <4>1. a >= m
        BY <2>1, <2>4, <3>3 DEF k
      <4> QED
        BY <1>4, <2>3, <3>1, <3>3, <4>1
    <3> QED
      BY <3>2, <3>3
  <2>5. k \in G
    BY <2>1, <2>3, <2>4
  <2>6. k < m /\ m \in Nat
    BY <1>7, <2>1 DEF k
  <2>7. m <= k
    BY <1>3, <2>5
  <2> QED
    BY <2>1, <2>6, <2>7
<1>6. m = 0
  BY <1>5, <1>7
<1> QED
  BY <1>4, <1>6

-----------------------------------------------------------------------------
(* The tape.                                                               *)

\* A record or a mark begins at a; the mark EOF; where the next one begins.
Item(a)   == tape[a].what \in {"rec", "dead", "mark"}
Ends(a)   == tape[a].what = "mark" /\ tape[a].n = EOF
Behind(a) == a + Step(tape[a])

\* Where a record or a mark may begin.
Boundary(p) == p = HeaderLen \/ \E a \in Addr : Item(a) /\ ~Ends(a) /\ Behind(a) = p

\* The record at a lost its postfix.
Torn(a)   == IsRecord(tape[a]) /\ At(a + tape[a].len).what # "post"
NoneTorn  == \A a \in Addr : ~Torn(a)

TapeTyped == tape \in [Addr -> Cell]

\* Every header has a length, a record that of a search's read at least, and only the file
\* has a header of its own.
CellsHaveLengths ==
  \A a \in Addr : /\ tape[a].what # "none" => tape[a].len >= 1
                  /\ IsRecord(tape[a]) => tape[a].len >= Width
                  /\ tape[a].what = "head" => a = 0
                  /\ tape[a].what = "mark" => tape[a].len = 1
MarksHaveNoKey == \A a \in Addr : tape[a].what = "mark" => tape[a].key = "none"
HeaderStands ==
  /\ st = "none" => \A a \in Addr : tape[a] = Blank
  /\ st # "none" => tape[0] = FileHead

\* Each record and each mark begins where another ends, and none inside another.
ItemsFollow == \A a \in Addr : Item(a) => a >= HeaderLen /\ Boundary(a)
ItemsApart  == \A a, b \in Addr : Item(a) /\ Item(b) /\ a < b => Behind(a) <= b

\* A postfix is that of a record, and says where it begins.
PostsLead ==
  \A b \in Addr : tape[b].what = "post" =>
    /\ tape[b].len = 2 /\ tape[b].n \in Addr /\ IsRecord(tape[tape[b].n])
    /\ tape[b].n + tape[tape[b].n].len = b

\* Nothing follows the end of the tape or a record that was cut off.
LastIsLast == \A a, b \in Addr : (Torn(a) \/ Ends(a)) /\ b > a => ~Item(b)

\* Handles resolve where a record may begin.
BoundariesResolve == ~LateMarks => \A p \in Addr : Boundary(p) => Resolves(p)

TypeSizes == size \in Nat /\ eff \in Nat /\ disk \in Nat

\* No header of the tape reaches behind the end of the file, nor behind where a close would
\* cut it; a tape without an end mark is as long as its file.
Sizes ==
  /\ st # "none" => Within(disk)
  /\ st = "open" => /\ Within(size) /\ size <= eff /\ eff <= disk
                    /\ ~Closed => size = disk

TapeInv ==
  /\ TapeTyped /\ CellsHaveLengths /\ MarksHaveNoKey /\ HeaderStands
  /\ ItemsFollow /\ ItemsApart /\ PostsLead /\ LastIsLast

LEMMA AtTyped ==
  ASSUME TapeTyped
  PROVE  \A a : At(a) \in Cell
<1>1. Blank \in Cell
  BY DEF Blank, Cell
<1> QED
  BY <1>1 DEF At, TapeTyped

LEMMA AddrIs == Addr \subseteq Nat /\ 0 \in Addr /\ MaxAddr \in Nat /\ Addr = 0..MaxAddr
BY SeqAssumption DEF Addr

\* Where a record that was cut off ends.
Stump(a) == \E t \in Addr : Torn(t) /\ t + tape[t].len = a

\* Past the end of a tape that was never closed.
Past(a) == ~Closed /\ a >= disk

\* Where a record or a mark may begin, or nothing follows.
Stand(a) == Boundary(a) \/ Past(a)

\* Where a walk can be: there, at a header, at a postfix or where one is missing.
OnWay(a) == a = 0 \/ Stand(a) \/ Stump(a) \/ (a \in Addr /\ tape[a].what = "post")

\* A tape without an end mark, where nothing of it follows.
Ended(a) ==
  /\ At(a).what = "none" /\ ~Closed /\ Within(a)
  /\ \A e \in Addr : Item(e) => e < a

LEMMA BoundaryIsNat ==
  ASSUME TapeTyped, NEW p, Boundary(p)
  PROVE  p \in Nat
<1>1. \A a \in Addr : tape[a] \in Cell /\ tape[a].len \in Nat
  BY DEF TapeTyped, Cell
<1>2. \A a \in Addr : Behind(a) \in Nat
  BY <1>1, AddrIs DEF Behind, Step
<1> QED
  BY <1>2, SeqAssumption DEF Boundary

LEMMA ItemsAre ==
  ASSUME TapeInv, NEW a \in Addr, Item(a)
  PROVE  /\ a \in Nat /\ a >= HeaderLen /\ Boundary(a)
         /\ tape[a].len \in Nat /\ Behind(a) \in Nat /\ Behind(a) > a
<1>1. a \in Nat /\ tape[a].len \in Nat /\ tape[a].len >= 1
  BY AddrIs DEF TapeInv, TapeTyped, Cell, CellsHaveLengths, Item
<1> QED
  BY <1>1 DEF Behind, Step, TapeInv, ItemsFollow

LEMMA PostsAre ==
  ASSUME TapeInv, NEW b \in Addr, tape[b].what = "post"
  PROVE  LET n == tape[b].n
         IN  /\ n \in Addr /\ Item(n) /\ IsRecord(tape[n]) /\ n + tape[n].len = b /\ n < b
             /\ tape[b].len = 2 /\ Step(tape[b]) = 2 /\ Behind(n) = b + 2
<1> DEFINE n == tape[b].n
<1>1. tape[b].len = 2 /\ n \in Addr /\ IsRecord(tape[n]) /\ n + tape[n].len = b
  BY DEF TapeInv, PostsLead
<1>2. Step(tape[b]) = 2
  BY <1>1 DEF Step, IsRecord
<1> HIDE DEF n
<1>3. Item(n) /\ Step(tape[n]) = tape[n].len + 2 /\ tape[n].what # "none"
  BY <1>1 DEF Item, IsRecord, Step
<1>4. n \in Nat /\ b \in Nat /\ tape[n].len \in Nat /\ tape[n].len >= 1
  BY <1>1, <1>3, AddrIs DEF TapeInv, TapeTyped, Cell, CellsHaveLengths
<1>5. Behind(n) = b + 2 /\ n < b
  BY <1>1, <1>3, <1>4 DEF Behind
<1> QED
  BY <1>1, <1>2, <1>3, <1>5 DEF n

\* All headers end where the records and marks do.
LEMMA HeadersEnd ==
  ASSUME TapeInv, NEW a \in Nat, a >= HeaderLen,
         \A e \in Addr : Item(e) => e + tape[e].len <= a,
         \A e \in Addr : Item(e) /\ ~Torn(e) => Behind(e) <= a
  PROVE  Within(a)
<1> SUFFICES ASSUME NEW b \in Addr, tape[b].what # "none" PROVE b + tape[b].len <= a
  BY DEF Within
<1>1. CASE Item(b)
  BY <1>1
<1>2. CASE tape[b].what = "post"
  <2> DEFINE n == tape[b].n
  <2>1. n \in Addr /\ Item(n) /\ n + tape[n].len = b /\ tape[b].len = 2 /\ Behind(n) = b + 2
    BY <1>2, PostsAre
  <2> HIDE DEF n
  <2>2. ~Torn(n)
    BY <1>2, <2>1 DEF Torn, At
  <2> QED
    BY <2>1, <2>2
<1>3. CASE tape[b].what = "head"
  <2>1. b = 0
    BY <1>3 DEF TapeInv, CellsHaveLengths
  <2>2. st # "none"
    BY <1>3 DEF TapeInv, HeaderStands, Blank
  <2>3. tape[0].len = HeaderLen
    BY <2>2 DEF TapeInv, HeaderStands, FileHead, Blank
  <2> QED
    BY <2>1, <2>3, SeqAssumption
<1> QED
  BY <1>1, <1>2, <1>3 DEF Item, TapeInv, TapeTyped, Cell

\* Behind a record that was cut off nothing of the tape stands.
LEMMA StumpIs ==
  ASSUME TapeInv, NEW a \in Nat, Stump(a)
  PROVE  Ended(a)
<1>1. PICK t \in Addr : Torn(t) /\ t + tape[t].len = a
  BY DEF Stump
<1>2. Item(t) /\ IsRecord(tape[t]) /\ t \in Nat /\ \A b \in Addr : b > t => ~Item(b)
  BY <1>1, AddrIs DEF Torn, IsRecord, Item, TapeInv, LastIsLast
<1>3. t < a /\ t >= HeaderLen
  <2>1. t \in Nat /\ t >= HeaderLen /\ tape[t].len \in Nat
    BY <1>2, ItemsAre
  <2>2. tape[t].len >= Width
    BY <1>2 DEF TapeInv, CellsHaveLengths
  <2> QED
    BY <1>1, <2>1, <2>2, SeqAssumption
<1>4. \A e \in Addr : Item(e) => e <= t
  BY <1>2, AddrIs
<1>5. \A e \in Addr : Item(e) => e \in Nat /\ tape[e].len \in Nat /\ Behind(e) >= e + tape[e].len
  BY ItemsAre DEF Behind, Step
<1>6. \A e \in Addr : Item(e) /\ e # t => Behind(e) <= t
  BY <1>2, <1>4, AddrIs DEF TapeInv, ItemsApart
<1>7. Within(a)
  <2>1. \A e \in Addr : Item(e) => e + tape[e].len <= a
    <3> TAKE e \in Addr
    <3> HAVE Item(e)
    <3>1. CASE e = t
      BY <1>1, <3>1
    <3>2. CASE e # t
      BY <1>2, <1>3, <1>5, <1>6, <3>2, ItemsAre
    <3> QED
      BY <3>1, <3>2
  <2>2. \A e \in Addr : Item(e) /\ ~Torn(e) => Behind(e) <= a
    BY <1>1, <1>2, <1>3, <1>6, ItemsAre
  <2>3. a >= HeaderLen
    BY <1>2, <1>3, SeqAssumption
  <2> HIDE DEF Behind
  <2> QED
    BY <2>1, <2>2, <2>3, HeadersEnd
<1>8. At(a).what = "none"
  <2> SUFFICES ASSUME a \in Addr, tape[a].what # "none" PROVE FALSE
    BY DEF At, Blank
  <2>1. a + tape[a].len <= a /\ tape[a].len >= 1 /\ tape[a].len \in Nat
    BY <1>7 DEF Within, TapeInv, TapeTyped, CellsHaveLengths, Cell
  <2> QED
    BY <2>1
<1>9. ~Closed
  <2> SUFFICES ASSUME NEW e \in Addr, Ends(e) PROVE FALSE
    BY DEF Closed, Ends
  <2>1. Item(e) /\ e # t
    BY <1>2 DEF Ends, Item, IsRecord
  <2>2. e < t /\ e \in Nat
    BY <1>2, <1>4, <2>1, AddrIs
  <2> QED
    BY <1>2, <2>2 DEF TapeInv, LastIsLast
<1>10. \A e \in Addr : Item(e) => e < a
  BY <1>2, <1>3, <1>4, AddrIs
<1> QED
  BY <1>7, <1>8, <1>9, <1>10 DEF Ended

\* A step of a walk goes on, by the whole of a record or by its length, and passes no other
\* record or mark.
LEMMA WayGoesOn ==
  ASSUME TapeInv, st # "none", NEW a \in Nat, OnWay(a), At(a).what # "none",
         ~(At(a).what = "mark" /\ At(a).n = EOF)
  PROVE  /\ Boundary(a + Step(At(a))) /\ OnWay(a + At(a).len)
         /\ \A e \in Addr : Item(e) /\ e > a => e >= a + Step(At(a)) /\ e >= a + At(a).len
<1>1. a \in Addr /\ At(a) = tape[a]
  BY DEF At, Blank
<1>2. tape[a] \in Cell /\ tape[a].len \in Nat
  BY <1>1 DEF TapeInv, TapeTyped, Cell
<1>3. CASE tape[a].what = "head"
  <2>1. a = 0 /\ tape[a] = FileHead
    BY <1>1, <1>3 DEF TapeInv, CellsHaveLengths, HeaderStands
  <2>2. tape[a].len = HeaderLen /\ Step(tape[a]) = HeaderLen
    BY <1>3, <2>1 DEF FileHead, Blank, Step, IsRecord
  <2>3. a + HeaderLen = HeaderLen
    BY <2>1, SeqAssumption
  <2>4. \A e \in Addr : Item(e) => e >= HeaderLen
    BY ItemsAre
  <2> QED
    BY <1>1, <2>2, <2>3, <2>4 DEF OnWay, Stand, Boundary
<1>4. CASE IsRecord(tape[a])
  <2>1. Item(a) /\ ~Ends(a) /\ Step(tape[a]) = tape[a].len + 2
    BY <1>4 DEF Item, Ends, IsRecord, Step
  <2>2. Boundary(a + Step(tape[a]))
    BY <1>1, <2>1 DEF Boundary, Behind
  <2>3. ASSUME At(a + tape[a].len).what = "post" PROVE OnWay(a + tape[a].len)
    <3>1. a + tape[a].len \in Addr /\ tape[a + tape[a].len].what = "post"
      BY <2>3 DEF At, Blank
    <3> QED
      BY <3>1 DEF OnWay
  <2>4. ASSUME At(a + tape[a].len).what # "post" PROVE OnWay(a + tape[a].len)
    BY <1>1, <1>4, <2>4 DEF OnWay, Stump, Torn
  <2>5. \A e \in Addr : Item(e) /\ e > a => e >= a + Step(tape[a])
    BY <1>1, <1>2, <2>1 DEF TapeInv, ItemsApart, Behind
  <2>6. \A e \in Addr : Item(e) /\ e > a => e >= a + tape[a].len
    BY <1>1, <1>2, <2>1, <2>5, AddrIs
  <2>7. OnWay(a + tape[a].len)
    BY <2>3, <2>4
  <2> QED
    BY <1>1, <2>2, <2>5, <2>6, <2>7 DEF OnWay, Stand
<1>5. CASE tape[a].what = "post"
  <2> DEFINE n == tape[a].n
  <2>1. n \in Addr /\ Item(n) /\ IsRecord(tape[n]) /\ n < a /\ Behind(n) = a + 2
        /\ tape[a].len = 2 /\ Step(tape[a]) = 2
    BY <1>1, <1>5, PostsAre
  <2> HIDE DEF n
  <2>2. Boundary(a + 2)
    BY <2>1 DEF Boundary, Ends, IsRecord
  <2>3. \A e \in Addr : Item(e) /\ e > a => e >= a + 2
    <3> TAKE e \in Addr
    <3> HAVE Item(e) /\ e > a
    <3>1. n < e
      BY <2>1, AddrIs
    <3> QED
      BY <2>1, <3>1 DEF TapeInv, ItemsApart
  <2> QED
    BY <1>1, <2>1, <2>2, <2>3 DEF OnWay, Stand
<1>6. CASE tape[a].what = "mark"
  <2>1. Item(a) /\ ~Ends(a) /\ Step(tape[a]) = tape[a].len
    BY <1>1, <1>6 DEF Item, Ends, IsRecord, Step
  <2>2. Boundary(a + Step(tape[a]))
    BY <1>1, <2>1 DEF Boundary, Behind
  <2>3. \A e \in Addr : Item(e) /\ e > a => e >= a + Step(tape[a])
    BY <1>1, <2>1 DEF TapeInv, ItemsApart, Behind
  <2> QED
    BY <1>1, <2>1, <2>2, <2>3 DEF OnWay, Stand
<1> QED
  BY <1>1, <1>2, <1>3, <1>4, <1>5, <1>6 DEF Cell, IsRecord

\* A walk that ends in front of a record, a mark or nothing ends where one may begin.
LEMMA WayEnds ==
  ASSUME TapeInv, st # "none", NEW a \in Nat, OnWay(a), At(a).what \notin {"head", "post"}
  PROVE  Stand(a) \/ Stump(a)
<1>1. CASE a = 0
  <2>1. tape[0] = FileHead /\ At(0) = tape[0]
    BY AddrIs DEF TapeInv, HeaderStands, At
  <2> QED
    BY <1>1, <2>1 DEF FileHead, Blank
<1>2. CASE a \in Addr /\ tape[a].what = "post"
  BY <1>2 DEF At
<1> QED
  BY <1>1, <1>2 DEF OnWay

\* A record or mark at or behind where one may begin: one begins there.
LEMMA NoGap ==
  ASSUME TapeInv, NEW p, Boundary(p), NEW b \in Addr, Item(b), p <= b
  PROVE  p \in Addr /\ Item(p)
<1> DEFINE S == {c \in Addr : Item(c) /\ p <= c}
<1>1. p \in Nat
  BY BoundaryIsNat DEF TapeInv
<1>2. S # {} /\ S \subseteq Nat
  BY AddrIs
<1>3. PICK c \in S : \A d \in S : c <= d
  <2> HIDE DEF S
  <2> QED
    BY <1>2, LeastNat
<1>4. c \in Addr /\ c \in Nat /\ Item(c) /\ p <= c /\ c >= HeaderLen /\ Boundary(c)
  BY <1>3, AddrIs DEF TapeInv, ItemsFollow
<1>5. \A d \in Addr : Item(d) /\ p <= d => c <= d
  BY <1>3
<1> HIDE DEF S
<1>6. \A a \in Addr : Item(a) => Behind(a) > a /\ a >= HeaderLen /\ a \in Nat
  BY ItemsAre
<1> SUFFICES p = c
  BY <1>4
<1>7. CASE c = HeaderLen
  <2>1. p >= HeaderLen
    <3>1. \A a \in Addr : Item(a) /\ Behind(a) = p => p >= HeaderLen
      BY <1>1, <1>6, SeqAssumption
    <3> QED
      BY <3>1, SeqAssumption DEF Boundary
  <2> QED
    BY <1>1, <1>4, <1>7, <2>1, SeqAssumption
<1>8. CASE c # HeaderLen
  <2>1. PICK e \in Addr : Item(e) /\ ~Ends(e) /\ Behind(e) = c
    BY <1>4, <1>8 DEF Boundary
  <2>2. e < c /\ e \in Nat /\ e < p
    BY <1>1, <1>4, <1>5, <1>6, <2>1
  <2>3. p # HeaderLen
    BY <1>1, <1>6, <2>1, <2>2, SeqAssumption
  <2>4. PICK a \in Addr : Item(a) /\ ~Ends(a) /\ Behind(a) = p
    BY <2>3 DEF Boundary
  <2>5. a < p /\ a \in Nat
    BY <1>1, <1>6, <2>4
  <2>6. \A x, y \in Addr : Item(x) /\ Item(y) /\ x < y => Behind(x) <= y
    BY DEF TapeInv, ItemsApart
  <2>7. ~(a < e)
    BY <1>1, <2>1, <2>2, <2>4, <2>5, <2>6
  <2>8. ~(e < a)
    BY <1>1, <1>4, <2>1, <2>2, <2>4, <2>5, <2>6
  <2> QED
    BY <2>1, <2>2, <2>4, <2>5, <2>7, <2>8
<1> QED
  BY <1>7, <1>8

\* In front of where an item may begin, the items are whole and none is the mark EOF.
LEMMA InFront ==
  ASSUME TapeInv, NEW p \in Nat, Boundary(p), NEW a \in Addr, Item(a), a < p
  PROVE  Behind(a) <= p /\ ~Ends(a) /\ a >= HeaderLen /\ Behind(a) > a /\ a \in Nat
<1>1. \A b \in Addr : Item(b) => b \in Nat /\ b >= HeaderLen /\ Behind(b) > b
  BY ItemsAre
<1>2. p # HeaderLen
  BY <1>1, AddrIs, SeqAssumption
<1>3. PICK e \in Addr : Item(e) /\ ~Ends(e) /\ Behind(e) = p
  BY <1>2 DEF Boundary
<1>4. a \in Nat /\ e \in Nat /\ e < p
  BY <1>1, <1>3, AddrIs
<1>5. ~(e < a)
  BY <1>3, <1>4 DEF TapeInv, ItemsApart
<1>6. CASE a = e
  BY <1>1, <1>3, <1>4, <1>6
<1>7. CASE a < e
  <2>1. Behind(a) <= e
    BY <1>3, <1>7 DEF TapeInv, ItemsApart
  <2>2. ~Ends(a)
    BY <1>3, <1>7 DEF TapeInv, LastIsLast
  <2>3. Behind(a) \in Nat
    <3>1. tape[a].len \in Nat
      BY DEF TapeInv, TapeTyped, Cell
    <3> QED
      BY <1>4, <3>1 DEF Behind, Step
  <2> QED
    BY <1>1, <1>4, <2>1, <2>2, <2>3
<1> QED
  BY <1>4, <1>5, <1>6, <1>7

\* Where one may begin and none does, nothing of the tape follows.
LEMMA BoundaryEnds ==
  ASSUME TapeInv, NEW a, Boundary(a), At(a).what = "none"
  PROVE  a \in Nat /\ Ended(a)
<1>1. a \in Nat
  BY BoundaryIsNat DEF TapeInv
<1>2. \A e \in Addr : Item(e) => e < a
  <2> SUFFICES ASSUME NEW e \in Addr, Item(e), e >= a PROVE FALSE
    BY <1>1, AddrIs
  <2>1. a \in Addr /\ Item(a)
    BY NoGap
  <2> QED
    BY <2>1 DEF At, Item
<1>3. \A e \in Addr : Item(e) => /\ e \in Nat /\ e >= HeaderLen /\ tape[e].len \in Nat
                                 /\ Behind(e) \in Nat /\ Behind(e) >= e + tape[e].len
  BY ItemsAre DEF Behind, Step
<1>4. /\ a >= HeaderLen
      /\ \A e \in Addr : Item(e) => Behind(e) <= a /\ ~Ends(e)
  <2>1. \A e \in Addr : Item(e) => Behind(e) <= a /\ ~Ends(e)
    BY <1>1, <1>2, InFront
  <2>2. a = HeaderLen \/ \E e \in Addr : Item(e) /\ Behind(e) = a
    BY DEF Boundary
  <2> QED
    BY <1>1, <1>3, <2>1, <2>2, SeqAssumption
<1>5. ~Closed
  BY <1>4 DEF Closed, Ends, Item
<1>6. \A e \in Addr : Item(e) => e + tape[e].len <= a
  BY <1>1, <1>3, <1>4
<1>7. Within(a)
  BY <1>1, <1>4, <1>6, HeadersEnd
<1> QED
  BY <1>1, <1>2, <1>5, <1>7 DEF Ended

\* Behind the file there is nothing.
LEMMA PastIs ==
  ASSUME TapeInv, Sizes, TypeSizes, st = "open", NEW a \in Nat, Past(a)
  PROVE  Ended(a) /\ a >= eff /\ size = disk /\ eff = disk
<1>1. Within(disk) /\ size <= eff /\ eff <= disk /\ size = disk /\ ~Closed /\ a >= disk
  BY DEF Sizes, Past
<1>2. \A b \in Addr : tape[b].what # "none" => b + tape[b].len <= a /\ b < a
  <2> TAKE b \in Addr
  <2> HAVE tape[b].what # "none"
  <2>1. b \in Nat /\ tape[b].len \in Nat /\ tape[b].len >= 1 /\ b + tape[b].len <= disk
    BY <1>1, AddrIs DEF Within, TapeInv, TapeTyped, CellsHaveLengths, Cell
  <2> QED
    BY <1>1, <2>1 DEF TypeSizes
<1>3. At(a).what = "none"
  BY <1>2 DEF At, Blank
<1>4. Within(a) /\ \A e \in Addr : Item(e) => e < a
  BY <1>2 DEF Within, Item
<1> QED
  BY <1>1, <1>3, <1>4 DEF Ended, TypeSizes

\* Where a walk finds no header of the tape, no record and no mark follows: it is past the
\* end of the file, or the tape is frayed.
LEMMA NothingFollows ==
  ASSUME TapeInv, Sizes, TypeSizes, st = "open", NEW a \in Nat, OnWay(a), At(a).what = "none"
  PROVE  Ended(a) /\ IF a < eff THEN Frayed ELSE Past(a)
<1>1. Ended(a)
  BY WayEnds, BoundaryEnds, StumpIs, PastIs DEF Stand
<1>2. size = disk /\ eff = disk
  BY <1>1 DEF Ended, Sizes, TypeSizes
<1>3. ASSUME a < eff PROVE Frayed
  <2>1. Within(disk - 1)
    <3> SUFFICES ASSUME NEW b \in Addr, tape[b].what # "none" PROVE b + tape[b].len <= disk - 1
      BY DEF Within
    <3>1. b + tape[b].len <= a /\ b + tape[b].len \in Nat
      BY <1>1, AddrIs DEF Ended, Within, TapeInv, TapeTyped, Cell
    <3> QED
      BY <1>2, <1>3, <3>1 DEF TypeSizes
  <2> QED
    BY <1>1, <2>1 DEF Frayed, Ended
<1>4. ASSUME ~(a < eff) PROVE Past(a)
  BY <1>1, <1>2, <1>4 DEF Past, Ended, TypeSizes
<1> QED
  BY <1>1, <1>3, <1>4

\* No record and no mark begins at a postfix.
LEMMA NoPostAtBoundary ==
  ASSUME TapeInv, NEW b \in Addr, Boundary(b)
  PROVE  tape[b].what \notin {"post", "head"}
<1>1. b \in Nat /\ b >= HeaderLen /\ HeaderLen >= 3 /\ HeaderLen \in Nat
  <2>1. \A e \in Addr : Item(e) => e \in Nat /\ e >= HeaderLen /\ tape[e].len \in Nat
    BY AddrIs DEF TapeInv, ItemsFollow, TapeTyped, Cell
  <2>2. \A e \in Addr : Item(e) => Behind(e) >= HeaderLen
    BY <2>1, SeqAssumption DEF Behind, Step
  <2> QED
    BY <2>2, AddrIs, SeqAssumption DEF Boundary
<1>2. tape[b].what # "head"
  BY <1>1 DEF TapeInv, CellsHaveLengths
<1>3. ASSUME tape[b].what = "post" PROVE FALSE
  <2> DEFINE n == tape[b].n
  <2>1. n \in Addr /\ IsRecord(tape[n]) /\ n + tape[n].len = b
    BY <1>3 DEF TapeInv, PostsLead
  <2> HIDE DEF n
  <2>2. Item(n) /\ n \in Nat /\ n >= HeaderLen /\ tape[n].len \in Nat /\ tape[n].len >= 1
    <3>1. Item(n) /\ tape[n].what # "none"
      BY <2>1 DEF IsRecord, Item
    <3> QED
      BY <2>1, <3>1, AddrIs DEF TapeInv, ItemsFollow, TapeTyped, Cell, CellsHaveLengths
  <2>3. Behind(n) = b + 2 /\ n < b
    BY <1>1, <2>1, <2>2 DEF Behind, Step
  <2>4. Behind(n) <= b
    BY <2>1, <2>2, <2>3, InFront
  <2> QED
    BY <1>1, <2>3, <2>4
<1> QED
  BY <1>2, <1>3

-----------------------------------------------------------------------------
(* Walks.                                                                  *)

\* The body of Walk, and what it gives.
WalkAt(K, w, a) ==
  LET c    == At(a)
      full == a + Width <= eff
      End(to, last) == [found |-> FALSE, lost |-> OldWords(a), cur |-> to, last |-> last]
  IN  CASE c.what = "none" -> End(a, -1)
        [] Halts(c) -> End(IF IsLesserMark(c) THEN a + 1 ELSE a, a)
        [] c.what \notin {"none", "mark", "dead"} /\ ~full -> End(a, a)
        [] c.what = "rec" /\ full /\ c.key \in K ->
             [found |-> TRUE, lost |-> FALSE, cur |-> a + Step(c), last |-> a]
        [] OTHER -> LET r == w[a + Step(c)]
                    IN  IF r.last = -1 THEN [r EXCEPT !.last = a] ELSE r

WalkSet ==
  [found : {FALSE}, lost : BOOLEAN, cur : Nat, last : Nat \cup {-1}] \cup
  [found : {TRUE}, lost : {FALSE}, cur : Nat, last : Nat]

\* A walk stops at a; what it gives there.
Short(a) == At(a).what \notin {"none", "mark", "dead"} /\ ~(a + Width <= eff)
Stops(K, a) == \/ At(a).what = "none" \/ Halts(At(a)) \/ Short(a)
               \/ At(a).what = "rec" /\ At(a).key \in K
Stopped(K, a) ==
  LET End(to, last) == [found |-> FALSE, lost |-> OldWords(a), cur |-> to, last |-> last]
  IN  CASE At(a).what = "none" -> End(a, -1)
        [] Halts(At(a)) -> End(IF IsLesserMark(At(a)) THEN a + 1 ELSE a, a)
        [] Short(a) -> End(a, a)
        [] OTHER -> [found |-> TRUE, lost |-> FALSE, cur |-> a + Step(At(a)), last |-> a]
Passing(r, a) == IF r.last = -1 THEN [r EXCEPT !.last = a] ELSE r

LEMMA WalkAtIs ==
  ASSUME NEW K, NEW w, NEW a
  PROVE  WalkAt(K, w, a) = IF Stops(K, a) THEN Stopped(K, a) ELSE Passing(w[a + Step(At(a))], a)
<1>1. CASE At(a).what = "none"
  BY <1>1 DEF WalkAt, Stops, Stopped, Halts, Short
<1>2. CASE At(a).what # "none" /\ Halts(At(a))
  BY <1>2 DEF WalkAt, Stops, Stopped, Halts, Short
<1>3. CASE At(a).what # "none" /\ ~Halts(At(a)) /\ Short(a)
  BY <1>3 DEF WalkAt, Stops, Stopped, Halts, Short
<1>4. CASE At(a).what = "rec" /\ ~Short(a) /\ At(a).key \in K
  BY <1>4 DEF WalkAt, Stops, Stopped, Halts, Short
<1>5. CASE ~Stops(K, a)
  BY <1>5 DEF WalkAt, Stops, Passing, Halts, Short
<1> QED
  BY <1>1, <1>2, <1>3, <1>4, <1>5 DEF Stops

LEMMA StoppedIs ==
  ASSUME TapeTyped, TypeSizes, NEW K, NEW a \in Nat, Stops(K, a)
  PROVE  Stopped(K, a) \in WalkSet
<1>1. At(a).len \in Nat
  BY AtTyped DEF Cell
<1>2. a + Step(At(a)) \in Nat
  BY <1>1 DEF Step
<1>3. OldWords(a) \in BOOLEAN
  BY DEF OldWords
<1> QED
  BY <1>2, <1>3 DEF Stopped, WalkSet

LEMMA PassingIs ==
  ASSUME NEW r \in WalkSet, NEW a \in Nat
  PROVE  Passing(r, a) \in WalkSet /\ Passing(r, a).cur = r.cur
BY DEF Passing, WalkSet

\* Where a walk does not stop, it goes on behind.
LEMMA StepOn ==
  ASSUME TapeTyped, CellsHaveLengths, NEW a \in Nat, At(a).what # "none"
  PROVE  /\ a \in Addr /\ a <= MaxAddr
         /\ a + Step(At(a)) \in Nat /\ a + Step(At(a)) > a
         /\ a + At(a).len \in Nat /\ a + At(a).len > a
<1>1. a \in Addr /\ At(a) = tape[a]
  BY DEF At, Blank
<1>2. tape[a].len \in Nat /\ tape[a].len >= 1
  BY <1>1 DEF TapeTyped, CellsHaveLengths, Cell
<1> QED
  BY <1>1, <1>2, AddrIs DEF Step

LEMMA WalkIs ==
  ASSUME TapeTyped, CellsHaveLengths, TypeSizes, NEW K
  PROVE  \E w : w = [a \in Nat |-> WalkAt(K, w, a)] /\ \A a \in Nat : Walk(K, a) = w[a]
<1> DEFINE stop == {a \in Nat : Stops(K, a)}
           some == [found |-> FALSE, lost |-> FALSE, cur |-> 0, last |-> -1]
           base == [a \in Nat |-> IF Stops(K, a) THEN Stopped(K, a) ELSE some]
           next == [a \in Nat |-> a + Step(At(a))]
           g == [p \in Nat \X WalkSet |-> Passing(p[2], p[1])]
<1>1. some \in WalkSet
  BY DEF WalkSet
<1>2. base \in [Nat -> WalkSet]
  BY <1>1, StoppedIs
<1>3. next \in [Nat -> Nat]
  <2>1. \A a \in Nat : At(a).len \in Nat
    BY AtTyped DEF Cell
  <2> QED
    BY <2>1 DEF Step
<1>4. g \in [Nat \X WalkSet -> WalkSet]
  BY PassingIs
<1>5. \A a \in Nat : a \notin stop => next[a] > a /\ a <= MaxAddr
  BY StepOn DEF Stops
<1>6. \A a \in Nat : a > MaxAddr => a \in stop
  BY <1>5, AddrIs
<1>7. \A a \in Nat, r \in WalkSet : g[<<a, r>>] = Passing(r, a)
  OBVIOUS
<1>8. \A a \in stop : base[a] = Stopped(K, a)
  OBVIOUS
<1>9. \A a \in Nat : next[a] = a + Step(At(a)) /\ (a \in stop <=> Stops(K, a))
  OBVIOUS
<1> HIDE DEF stop, some, base, next, g
<1>10. PICK w \in [Nat -> WalkSet] : Recursive(w, stop, base, next, g)
  <2>1. MaxAddr \in Nat /\ Upward(MaxAddr, stop, next)
    BY <1>5, <1>6, AddrIs DEF Upward
  <2> QED
    BY <1>2, <1>3, <1>4, <2>1, Recursion, Zenon
<1>11. ASSUME NEW a \in Nat PROVE w[a] = WalkAt(K, w, a)
  <2>1. next[a] \in Nat /\ w[next[a]] \in WalkSet
    BY <1>3
  <2>2. w[a] = IF Stops(K, a) THEN Stopped(K, a) ELSE Passing(w[a + Step(At(a))], a)
    BY <1>7, <1>8, <1>9, <1>10, <2>1 DEF Recursive
  <2> QED
    BY <2>2, WalkAtIs
<1>12. w = [a \in Nat |-> WalkAt(K, w, a)]
  BY <1>11
<1> DEFINE v == CHOOSE f : f = [a \in Nat |-> WalkAt(K, f, a)]
<1>13. v = [a \in Nat |-> WalkAt(K, v, a)]
  BY <1>12
<1>14. \A a \in Nat : Walk(K, a) = v[a]
  BY DEF Walk, WalkAt
<1> QED
  BY <1>13, <1>14

\* A search for keys of K stops at b.
Halting(K, b) == Item(b) /\ (tape[b].what # "rec" \/ tape[b].key \in K)

\* The outcome r of a search from an address: the first item from there on at which it stops;
\* or nothing, past the end of a tape that was never closed; or old words; or, from the
\* postfix of a record that only marks follow, too few words for a search's read.
StopsAt(b, r) ==
  /\ r.last = b
  /\ r.found <=> tape[b].what = "rec"
  /\ r.cur = IF tape[b].what = "dead" \/ Ends(b) THEN b ELSE Behind(b)
FindsNone(r) == ~r.found /\ Past(r.cur)
LastPost(a) ==
  /\ a \in Addr /\ tape[a].what = "post"
  /\ \A e \in Addr : Item(e) /\ e >= a => tape[e].what = "mark"
FallsShort(from, r) == ~r.found /\ r.cur = from /\ r.last = from /\ LastPost(from)
Outcome(K, from, r) ==
  \/ ~r.lost /\ \E b \in Addr : /\ Halting(K, b) /\ b >= from /\ StopsAt(b, r)
                                /\ \A e \in Addr : Halting(K, e) /\ e >= from => e >= b
  \/ ~r.lost /\ FindsNone(r) /\ \A e \in Addr : Halting(K, e) => e < from
  \/ ~r.lost /\ FallsShort(from, r)
  \/ r.lost /\ Frayed

\* The file is open, and its tape in order.
Live == st = "open" /\ TapeInv /\ Sizes /\ TypeSizes

\* A record can be read whole, and so can the header of the file.
LEMMA ReadWhole ==
  ASSUME Live, NEW a \in Addr, tape[a].what \in {"rec", "dead", "head"}
  PROVE  ~Short(a)
<1>1. a + tape[a].len <= size /\ size <= eff
  BY DEF Live, Sizes, Within
<1>2. a \in Nat /\ tape[a].len \in Nat
  BY AddrIs DEF Live, TapeInv, TapeTyped, Cell
<1>3. tape[a].len >= Width
  <2>1. CASE tape[a].what = "head"
    <3>1. tape[a] = FileHead
      BY <2>1 DEF Live, TapeInv, CellsHaveLengths, HeaderStands
    <3>2. FileHead.len = HeaderLen
      BY DEF FileHead, Blank
    <3> QED
      BY <3>1, <3>2, SeqAssumption
  <2>2. CASE IsRecord(tape[a])
    BY <2>2 DEF Live, TapeInv, CellsHaveLengths
  <2> QED
    BY <2>1, <2>2 DEF IsRecord
<1> QED
  BY <1>1, <1>2, <1>3, SeqAssumption DEF Short, Live, TypeSizes

\* Where a search cannot read a header, it is on the last postfix.
LEMMA ShortIsLast ==
  ASSUME Live, NEW a \in Nat, Short(a)
  PROVE  LastPost(a)
<1>1. a \in Addr /\ At(a) = tape[a]
  BY DEF Short, At, Blank
<1>2. tape[a].what = "post"
  BY <1>1, ReadWhole DEF Short, Live, TapeInv, TapeTyped, Cell
<1> DEFINE n == tape[a].n
<1>3. n \in Addr /\ Item(n) /\ n < a /\ Behind(n) = a + 2
  BY <1>1, <1>2, PostsAre DEF Live
<1> HIDE DEF n
<1>4. ASSUME NEW e \in Addr, Item(e), e >= a, tape[e].what # "mark" PROVE FALSE
  <2>1. e \in Nat /\ tape[e].len \in Nat /\ e >= a + 2
    BY <1>3, <1>4, AddrIs DEF Live, TapeInv, TapeTyped, Cell, ItemsApart
  <2>2. IsRecord(tape[e]) /\ tape[e].len >= Width
    BY <1>4 DEF Item, IsRecord, Live, TapeInv, CellsHaveLengths
  <2>3. e + tape[e].len <= size /\ size <= eff
    BY <2>2 DEF Live, Sizes, Within, IsRecord
  <2>4. ~(a + Width <= eff)
    BY DEF Short
  <2> QED
    BY <2>1, <2>2, <2>3, <2>4, SeqAssumption DEF Live, TypeSizes
<1> QED
  BY <1>1, <1>2, <1>4 DEF LastPost

\* A walk gives an answer: that of a search.
LEMMA WalkEnds ==
  ASSUME TapeTyped, CellsHaveLengths, TypeSizes, NEW K, NEW from \in Nat
  PROVE  /\ Walk(K, from) \in WalkSet
         /\ Live /\ OnWay(from) => Outcome(K, from, Walk(K, from))
<1>1. PICK w : w = [a \in Nat |-> WalkAt(K, w, a)] /\ \A a \in Nat : Walk(K, a) = w[a]
  BY WalkIs
<1>2. \A a \in Nat : w[a] = IF Stops(K, a) THEN Stopped(K, a) ELSE Passing(w[a + Step(At(a))], a)
  <2>1. \A a \in Nat : w[a] = WalkAt(K, w, a)
    BY <1>1
  <2> QED
    BY <2>1, WalkAtIs
<1> DEFINE Good(a) == /\ w[a] \in WalkSet
                      /\ Live /\ OnWay(a) => Outcome(K, a, w[a])
           B == {a \in 0..MaxAddr : ~Good(a)}
<1>3. ASSUME NEW a \in Nat, Stops(K, a) PROVE Good(a)
  <2>1. w[a] = Stopped(K, a)
    BY <1>2, <1>3
  <2>2. w[a] \in WalkSet
    BY <1>3, <2>1, StoppedIs
  <2>3. ASSUME Live, OnWay(a) PROVE Outcome(K, a, w[a])
    <3>1. CASE At(a).what = "none"
      <4>1. w[a].cur = a /\ w[a].found = FALSE /\ w[a].lost = OldWords(a)
        BY <2>1, <3>1 DEF Stopped, Halts, Short
      <4>2. Ended(a) /\ IF a < eff THEN Frayed ELSE Past(a)
        BY <2>3, <3>1, NothingFollows DEF Live
      <4>3. \A e \in Addr : Halting(K, e) => e < a
        BY <4>2 DEF Ended, Halting
      <4> QED
        BY <3>1, <4>1, <4>2, <4>3 DEF Outcome, FindsNone, OldWords
    <3>2. CASE At(a).what # "none" /\ Short(a)
      <4>1. LastPost(a) /\ tape[a].what = "post" /\ At(a) = tape[a]
        BY <2>3, <3>2, ShortIsLast DEF LastPost, At
      <4>2. w[a].cur = a /\ w[a].found = FALSE /\ w[a].lost = OldWords(a) /\ w[a].last = a
        BY <2>1, <3>2, <4>1 DEF Stopped, Halts, Short
      <4> QED
        BY <4>1, <4>2 DEF Outcome, FallsShort, OldWords
    <3>3. CASE At(a).what # "none" /\ ~Short(a)
      <4>1. a \in Addr /\ At(a) = tape[a]
        BY <3>3 DEF At, Blank
      <4>2. Halting(K, a)
        BY <1>3, <3>3, <4>1 DEF Stops, Halts, Halting, Item
      <4>3. w[a].last = a /\ (w[a].found <=> tape[a].what = "rec") /\ ~w[a].lost
        <5>1. ~OldWords(a)
          BY <3>3 DEF OldWords
        <5> QED
          BY <1>3, <2>1, <3>3, <4>1, <5>1 DEF Stopped, Stops, Halts
      <4>4. tape[a].what = "mark" => Step(tape[a]) = 1
        BY <4>1 DEF CellsHaveLengths, Step, IsRecord
      <4>5. w[a].cur = IF tape[a].what = "dead" \/ Ends(a) THEN a ELSE Behind(a)
        BY <1>3, <2>1, <3>3, <4>1, <4>4 DEF Stopped, Stops, Halts, IsLesserMark, Ends, Behind
      <4>6. StopsAt(a, w[a])
        BY <4>3, <4>5 DEF StopsAt
      <4> QED
        BY <4>1, <4>2, <4>3, <4>6 DEF Outcome
    <3> QED
      BY <3>1, <3>2, <3>3
  <2> QED
    BY <2>2, <2>3
<1>4. ASSUME NEW a \in Nat, ~Stops(K, a), Good(a + Step(At(a))) PROVE Good(a)
  <2> DEFINE b == a + Step(At(a))
  <2>1. At(a).what # "none" /\ ~(At(a).what = "mark" /\ At(a).n = EOF)
    BY <1>4 DEF Stops, Halts
  <2>2. w[a] = Passing(w[b], a) /\ w[b] \in WalkSet
    BY <1>2, <1>4
  <2>3. w[a] \in WalkSet /\ w[a].cur = w[b].cur /\ w[a].found = w[b].found
        /\ w[a].lost = w[b].lost
        /\ (w[b].last # -1 => w[a].last = w[b].last)
    <3>1. ASSUME NEW r \in WalkSet PROVE /\ Passing(r, a).found = r.found
                                         /\ Passing(r, a).lost = r.lost
                                         /\ r.last # -1 => Passing(r, a).last = r.last
      BY DEF Passing, WalkSet
    <3> QED
      BY <2>2, <3>1, PassingIs
  <2>4. ASSUME Live, OnWay(a) PROVE Outcome(K, a, w[a])
    <3>1. Boundary(b) /\ OnWay(b) /\ \A e \in Addr : Item(e) /\ e > a => e >= b
      BY <2>1, <2>4, WayGoesOn DEF Live, OnWay, Stand
    <3>2. Outcome(K, b, w[b])
      BY <1>4, <2>4, <3>1
    <3>3. b \in Nat /\ b > a
      BY <2>1, StepOn
    <3>4. a \in Addr => ~Halting(K, a)
      BY <1>4 DEF Halting, Item, Stops, Halts, At
    <3> HIDE DEF b
    <3>5. \A e \in Addr : Halting(K, e) => (e >= a <=> e >= b) /\ e \in Nat
      BY <3>1, <3>3, <3>4, AddrIs DEF Halting
    <3>6. CASE ~w[b].lost /\ FindsNone(w[b]) /\ \A e \in Addr : Halting(K, e) => e < b
      <4>1. FindsNone(w[a])
        BY <2>3, <3>6 DEF FindsNone
      <4> QED
        BY <2>3, <3>3, <3>5, <3>6, <4>1 DEF Outcome
    <3>7. ASSUME ~w[b].lost, NEW c \in Addr, Halting(K, c), c >= b, StopsAt(c, w[b]),
                 \A e \in Addr : Halting(K, e) /\ e >= b => e >= c
          PROVE  Outcome(K, a, w[a])
      <4>1. StopsAt(c, w[a])
        BY <2>3, <3>7, AddrIs DEF StopsAt
      <4> QED
        BY <2>3, <3>5, <3>7, <4>1 DEF Outcome
    <3>8. CASE w[b].lost /\ Frayed
      BY <2>3, <3>8 DEF Outcome
    <3>9. ~FallsShort(b, w[b])
      BY <2>4, <3>1, NoPostAtBoundary DEF FallsShort, LastPost, Live
    <3> QED
      BY <3>2, <3>6, <3>7, <3>8, <3>9 DEF Outcome
  <2> QED
    BY <2>3, <2>4
<1>5. \A a \in Nat : ~Stops(K, a) => /\ a <= MaxAddr /\ a + Step(At(a)) \in Nat
                                     /\ a + Step(At(a)) > a
  BY StepOn DEF Stops
<1> HIDE DEF Good
<1>6. \A a \in B : \E b \in B : b > a
  <2> TAKE a \in B
  <2>1. a \in Nat /\ ~Good(a)
    BY AddrIs
  <2>2. ~Stops(K, a)
    BY <1>3, <2>1
  <2> DEFINE b == a + Step(At(a))
  <2>3. b \in Nat /\ b > a /\ ~Good(b)
    BY <1>4, <1>5, <2>1, <2>2
  <2> HIDE DEF b
  <2>4. b <= MaxAddr
    BY <1>3, <1>5, <2>3
  <2>5. b \in B
    BY <2>3, <2>4, AddrIs
  <2> QED
    BY <2>3, <2>5
<1>7. B \subseteq 0..MaxAddr
  OBVIOUS
<1>8. B = {}
  <2> HIDE DEF B
  <2> QED
    BY <1>6, <1>7, AddrIs, NoneLast
<1>9. Good(from)
  <2>1. from > MaxAddr => Good(from)
    BY <1>3, <1>5, AddrIs
  <2>2. from <= MaxAddr => Good(from)
    BY <1>8, AddrIs
  <2> QED
    BY <2>1, <2>2, AddrIs
<1> QED
  BY <1>1, <1>9 DEF Good

LEMMA OutcomeStands ==
  ASSUME TapeInv, NEW K, NEW from, NEW r, Outcome(K, from, r), ~r.lost
  PROVE  Stand(r.cur) \/ LastPost(r.cur)
<1>1. CASE FindsNone(r)
  BY <1>1 DEF FindsNone, Stand
<1>3. CASE FallsShort(from, r)
  BY <1>3 DEF FallsShort
<1>2. ASSUME NEW b \in Addr, Halting(K, b), StopsAt(b, r) PROVE Stand(r.cur)
  <2>1. Item(b) /\ Boundary(b)
    BY <1>2, ItemsAre DEF Halting
  <2>2. CASE tape[b].what = "dead" \/ Ends(b)
    BY <1>2, <2>1, <2>2 DEF StopsAt, Stand
  <2>3. CASE ~(tape[b].what = "dead" \/ Ends(b))
    <3>1. r.cur = Behind(b)
      BY <1>2, <2>3 DEF StopsAt
    <3> QED
      BY <2>1, <2>3, <3>1 DEF Stand, Boundary
  <2> QED
    BY <2>2, <2>3
<1> QED
  BY <1>1, <1>2, <1>3 DEF Outcome

-----------------------------------------------------------------------------
(* The walk of c_fstapp.                                                   *)

AppendAt(w, a) ==
  LET End(last) == [cur |-> a, last |-> last, lost |-> OldWords(a)]
  IN  CASE At(a).what = "none" -> End(-1)
        [] At(a).what = "mark" -> End(a)
        [] OTHER -> LET r == w[a + At(a).len]
                    IN  IF r.last = -1 THEN [r EXCEPT !.last = a] ELSE r

AppendSet == [cur : Nat, last : Nat \cup {-1}, lost : BOOLEAN]
AppendStops(a) == At(a).what \in {"none", "mark"}
AppendStopped(a) == [cur |-> a, last |-> IF At(a).what = "mark" THEN a ELSE -1,
                     lost |-> OldWords(a)]

LEMMA AppendAtIs ==
  ASSUME NEW w, NEW a
  PROVE  AppendAt(w, a) = IF AppendStops(a) THEN AppendStopped(a)
                          ELSE Passing(w[a + At(a).len], a)
<1>1. CASE At(a).what = "none"
  BY <1>1 DEF AppendAt, AppendStops, AppendStopped
<1>2. CASE At(a).what = "mark"
  BY <1>2 DEF AppendAt, AppendStops, AppendStopped
<1>3. CASE ~AppendStops(a)
  BY <1>3 DEF AppendAt, AppendStops, Passing
<1> QED
  BY <1>1, <1>2, <1>3 DEF AppendStops

LEMMA AppendPassingIs ==
  ASSUME NEW r \in AppendSet, NEW a \in Nat
  PROVE  Passing(r, a) \in AppendSet /\ Passing(r, a).cur = r.cur /\ Passing(r, a).lost = r.lost
BY DEF Passing, AppendSet

LEMMA AppendWalkIs ==
  ASSUME TapeTyped, CellsHaveLengths
  PROVE  \E w : w = [a \in Nat |-> AppendAt(w, a)] /\ \A a \in Nat : AppendWalk(a) = w[a]
<1> DEFINE stop == {a \in Nat : AppendStops(a)}
           base == [a \in Nat |-> AppendStopped(a)]
           next == [a \in Nat |-> a + At(a).len]
           g == [p \in Nat \X AppendSet |-> Passing(p[2], p[1])]
<1>2. base \in [Nat -> AppendSet]
  <2>1. \A a \in Nat : OldWords(a) \in BOOLEAN
    BY DEF OldWords
  <2> QED
    BY <2>1 DEF AppendStopped, AppendSet
<1>3. next \in [Nat -> Nat]
  <2>1. \A a \in Nat : At(a).len \in Nat
    BY AtTyped DEF Cell
  <2> QED
    BY <2>1
<1>4. g \in [Nat \X AppendSet -> AppendSet]
  BY AppendPassingIs
<1>5. \A a \in Nat : a \notin stop => next[a] > a /\ a <= MaxAddr
  BY StepOn DEF AppendStops
<1>6. \A a \in Nat : a > MaxAddr => a \in stop
  BY <1>5, AddrIs
<1>7. \A a \in Nat, r \in AppendSet : g[<<a, r>>] = Passing(r, a)
  OBVIOUS
<1>9. \A a \in Nat : /\ base[a] = AppendStopped(a) /\ next[a] = a + At(a).len
                     /\ a \in stop <=> AppendStops(a)
  OBVIOUS
<1> HIDE DEF stop, base, next, g
<1>10. PICK w \in [Nat -> AppendSet] : Recursive(w, stop, base, next, g)
  <2>1. MaxAddr \in Nat /\ Upward(MaxAddr, stop, next)
    BY <1>5, <1>6, AddrIs DEF Upward
  <2> QED
    BY <1>2, <1>3, <1>4, <2>1, Recursion, Zenon
<1>11. ASSUME NEW a \in Nat PROVE w[a] = AppendAt(w, a)
  <2>1. next[a] \in Nat /\ w[next[a]] \in AppendSet
    BY <1>3
  <2>2. w[a] = IF AppendStops(a) THEN AppendStopped(a) ELSE Passing(w[a + At(a).len], a)
    BY <1>7, <1>9, <1>10, <2>1 DEF Recursive
  <2> QED
    BY <2>2, AppendAtIs
<1>12. w = [a \in Nat |-> AppendAt(w, a)]
  BY <1>11
<1> DEFINE v == CHOOSE f : f = [a \in Nat |-> AppendAt(f, a)]
<1>13. v = [a \in Nat |-> AppendAt(v, a)]
  BY <1>12
<1>14. \A a \in Nat : AppendWalk(a) = v[a]
  BY DEF AppendWalk, AppendAt
<1> QED
  BY <1>13, <1>14

\* c_fstapp goes to the next mark, or to the end of the tape.
ToMark(from, p) ==
  /\ Stand(p) /\ p >= from
  /\ \A e \in Addr : Item(e) /\ e >= from /\ e < p => tape[e].what # "mark"

Appends(from, r) == IF r.lost THEN Frayed ELSE ToMark(from, r.cur)

LEMMA AppendWalkEnds ==
  ASSUME TapeTyped, CellsHaveLengths, NEW from \in Nat
  PROVE  /\ AppendWalk(from) \in AppendSet
         /\ Live /\ OnWay(from) => Appends(from, AppendWalk(from))
<1>1. PICK w : w = [a \in Nat |-> AppendAt(w, a)] /\ \A a \in Nat : AppendWalk(a) = w[a]
  BY AppendWalkIs
<1>2. \A a \in Nat : w[a] = IF AppendStops(a) THEN AppendStopped(a)
                            ELSE Passing(w[a + At(a).len], a)
  <2>1. \A a \in Nat : w[a] = AppendAt(w, a)
    BY <1>1
  <2> QED
    BY <2>1, AppendAtIs
<1> DEFINE Good(a) == /\ w[a] \in AppendSet
                      /\ Live /\ OnWay(a) => Appends(a, w[a])
           B == {a \in 0..MaxAddr : ~Good(a)}
<1>3. ASSUME NEW a \in Nat, AppendStops(a) PROVE Good(a)
  <2>1. w[a] = AppendStopped(a)
    BY <1>2, <1>3
  <2>2. w[a] \in AppendSet /\ w[a].cur = a /\ w[a].lost = OldWords(a)
    BY <2>1 DEF AppendStopped, AppendSet, OldWords
  <2>3. ASSUME Live, OnWay(a), OldWords(a) PROVE Frayed
    BY <2>3, NothingFollows DEF Live, OldWords
  <2>4. ASSUME Live, OnWay(a), ~OldWords(a) PROVE Stand(a)
    <3>1. CASE At(a).what = "none"
      BY <2>4, <3>1, NothingFollows DEF Live, OldWords, Stand
    <3>2. CASE At(a).what = "mark"
      BY <2>4, <3>2, WayEnds, StumpIs DEF Live, Ended
    <3> QED
      BY <1>3, <3>1, <3>2 DEF AppendStops
  <2>5. \A e \in Addr : ~(e >= a /\ e < a)
    BY AddrIs
  <2> QED
    BY <2>2, <2>3, <2>4, <2>5 DEF ToMark, Appends
<1>4. ASSUME NEW a \in Nat, ~AppendStops(a), Good(a + At(a).len) PROVE Good(a)
  <2> DEFINE b == a + At(a).len
  <2>1. At(a).what # "none" /\ At(a).what # "mark"
    BY <1>4 DEF AppendStops
  <2>2. w[a] = Passing(w[b], a) /\ w[b] \in AppendSet
    BY <1>2, <1>4
  <2>3. w[a] \in AppendSet /\ w[a].cur = w[b].cur /\ w[b].cur \in Nat /\ w[a].lost = w[b].lost
    <3>1. w[b].cur \in Nat
      BY <2>2 DEF AppendSet
    <3> QED
      BY <2>2, <3>1, AppendPassingIs
  <2>4. ASSUME Live, OnWay(a) PROVE Appends(a, w[a])
    <3>1. OnWay(b) /\ \A e \in Addr : Item(e) /\ e > a => e >= b
      BY <2>1, <2>4, WayGoesOn DEF Live
    <3>2. Appends(b, w[b]) /\ b \in Nat /\ b > a
      BY <1>4, <2>1, <2>4, <3>1, StepOn
    <3>3. a \in Addr => tape[a].what # "mark"
      BY <2>1 DEF At
    <3> HIDE DEF b
    <3>4. CASE w[b].lost
      BY <2>3, <3>2, <3>4 DEF Appends
    <3>5. CASE ~w[b].lost
      <4>1. ToMark(b, w[b].cur)
        BY <3>2, <3>5 DEF Appends
      <4>2. \A e \in Addr : Item(e) /\ e >= a /\ e < w[b].cur => tape[e].what # "mark"
        <5> TAKE e \in Addr
        <5> HAVE Item(e) /\ e >= a /\ e < w[b].cur
        <5>1. e = a \/ e >= b
          BY <3>1, AddrIs
        <5> QED
          BY <3>3, <4>1, <5>1 DEF ToMark
      <4>3. w[b].cur >= a
        BY <2>3, <3>2, <4>1 DEF ToMark
      <4> QED
        BY <2>3, <3>5, <4>1, <4>2, <4>3 DEF ToMark, Appends
    <3> QED
      BY <3>4, <3>5
  <2> QED
    BY <2>3, <2>4
<1>5. \A a \in Nat : ~AppendStops(a) => /\ a <= MaxAddr /\ a + At(a).len \in Nat
                                        /\ a + At(a).len > a
  BY StepOn DEF AppendStops
<1> HIDE DEF Good
<1>6. \A a \in B : \E b \in B : b > a
  <2> TAKE a \in B
  <2>1. a \in Nat /\ ~Good(a)
    BY AddrIs
  <2>2. ~AppendStops(a)
    BY <1>3, <2>1
  <2> DEFINE b == a + At(a).len
  <2>3. b \in Nat /\ b > a /\ ~Good(b)
    BY <1>4, <1>5, <2>1, <2>2
  <2> HIDE DEF b
  <2>4. b <= MaxAddr
    BY <1>3, <1>5, <2>3
  <2>5. b \in B
    BY <2>3, <2>4, AddrIs
  <2> QED
    BY <2>3, <2>5
<1>7. B \subseteq 0..MaxAddr
  OBVIOUS
<1>8. B = {}
  <2> HIDE DEF B
  <2> QED
    BY <1>6, <1>7, AddrIs, NoneLast
<1>9. Good(from)
  <2>1. from > MaxAddr => Good(from)
    BY <1>3, <1>5, AddrIs
  <2>2. from <= MaxAddr => Good(from)
    BY <1>8, AddrIs
  <2> QED
    BY <2>1, <2>2, AddrIs
<1> QED
  BY <1>1, <1>9 DEF Good

-----------------------------------------------------------------------------
(* The records and marks of the whole tape.                                *)

PlacesAt(w, a) ==
  LET c == At(a)
  IN  CASE IsRecord(c) -> <<a>> \o w[a + c.len + 2]
        [] c.what = "mark" /\ c.n # EOF -> <<a>> \o w[a + 1]
        [] c.what = "mark" /\ c.n = EOF -> <<a>>
        [] OTHER -> <<>>

PlacesStop(a) == ~IsRecord(At(a)) /\ ~(At(a).what = "mark" /\ At(a).n # EOF)
PlacesStopped(a) == IF At(a).what = "mark" THEN <<a>> ELSE <<>>

LEMMA PlacesAtIs ==
  ASSUME TapeTyped, CellsHaveLengths, NEW w, NEW a \in Nat
  PROVE  PlacesAt(w, a) = IF PlacesStop(a) THEN PlacesStopped(a)
                          ELSE <<a>> \o w[a + Step(At(a))]
<1>1. CASE IsRecord(At(a))
  <2>1. At(a).len \in Nat
    BY AtTyped DEF Cell
  <2>2. a + At(a).len + 2 = a + Step(At(a))
    BY <1>1, <2>1 DEF Step
  <2>3. PlacesAt(w, a) = <<a>> \o w[a + At(a).len + 2] /\ ~PlacesStop(a)
    BY <1>1 DEF PlacesAt, PlacesStop, IsRecord
  <2> QED
    BY <2>2, <2>3
<1>2. CASE At(a).what = "mark" /\ At(a).n # EOF
  <2>1. ~IsRecord(At(a)) /\ ~PlacesStop(a)
    BY <1>2 DEF IsRecord, PlacesStop
  <2>2. Step(At(a)) = 1
    BY <1>2, <2>1 DEF Step, At, Blank, CellsHaveLengths
  <2>3. PlacesAt(w, a) = <<a>> \o w[a + 1]
    BY <1>2, <2>1 DEF PlacesAt
  <2> QED
    BY <2>1, <2>2, <2>3
<1>3. CASE PlacesStop(a)
  BY <1>3 DEF PlacesAt, PlacesStop, PlacesStopped
<1> QED
  BY <1>1, <1>2, <1>3 DEF PlacesStop

LEMMA ConsIs ==
  ASSUME NEW s \in Seq(Nat), NEW a \in Nat
  PROVE  /\ <<a>> \o s \in Seq(Nat) /\ Len(<<a>> \o s) = Len(s) + 1
         /\ (<<a>> \o s)[1] = a
         /\ \A i \in 1..Len(s) : (<<a>> \o s)[i + 1] = s[i]
OBVIOUS

LEMMA PlacesIs ==
  ASSUME TapeTyped, CellsHaveLengths
  PROVE  \E w : w = [a \in Nat |-> PlacesAt(w, a)] /\ Places = w[HeaderLen]
<1> DEFINE stop == {a \in Nat : PlacesStop(a)}
           base == [a \in Nat |-> PlacesStopped(a)]
           next == [a \in Nat |-> a + Step(At(a))]
           g == [p \in Nat \X Seq(Nat) |-> <<p[1]>> \o p[2]]
<1>2. base \in [Nat -> Seq(Nat)]
  BY DEF PlacesStopped
<1>3. next \in [Nat -> Nat]
  <2>1. \A a \in Nat : At(a).len \in Nat
    BY AtTyped DEF Cell
  <2> QED
    BY <2>1 DEF Step
<1>4. g \in [Nat \X Seq(Nat) -> Seq(Nat)]
  BY ConsIs
<1>5. \A a \in Nat : a \notin stop => next[a] > a /\ a <= MaxAddr
  BY StepOn DEF PlacesStop, IsRecord
<1>6. \A a \in Nat : a > MaxAddr => a \in stop
  BY <1>5, AddrIs
<1>7. \A a \in Nat, r \in Seq(Nat) : g[<<a, r>>] = <<a>> \o r
  OBVIOUS
<1>9. \A a \in Nat : /\ base[a] = PlacesStopped(a) /\ next[a] = a + Step(At(a))
                     /\ a \in stop <=> PlacesStop(a)
  OBVIOUS
<1> HIDE DEF stop, base, next, g
<1>10. PICK w \in [Nat -> Seq(Nat)] : Recursive(w, stop, base, next, g)
  <2>1. MaxAddr \in Nat /\ Upward(MaxAddr, stop, next)
    BY <1>5, <1>6, AddrIs DEF Upward
  <2> QED
    BY <1>2, <1>3, <1>4, <2>1, Recursion, Zenon
<1>11. ASSUME NEW a \in Nat PROVE w[a] = PlacesAt(w, a)
  <2>1. next[a] \in Nat /\ w[next[a]] \in Seq(Nat)
    BY <1>3
  <2>2. w[a] = IF PlacesStop(a) THEN PlacesStopped(a) ELSE <<a>> \o w[a + Step(At(a))]
    BY ZenonT(40), <1>7, <1>9, <1>10, <2>1 DEF Recursive
  <2> QED
    BY <2>2, PlacesAtIs
<1>12. w = [a \in Nat |-> PlacesAt(w, a)]
  BY <1>11
<1> DEFINE v == CHOOSE f : f = [a \in Nat |-> PlacesAt(f, a)]
<1>13. v = [a \in Nat |-> PlacesAt(v, a)]
  BY <1>12
<1>14. Places = v[HeaderLen]
  BY DEF Places, PlacesAt
<1> QED
  BY <1>13, <1>14

\* s holds items from a on, in order.
Held(s, a) ==
  /\ s \in Seq(Nat)
  /\ \A i \in 1..Len(s) : s[i] \in Addr /\ Item(s[i]) /\ s[i] >= a
  /\ \A i, j \in 1..Len(s) : i < j => s[i] < s[j]

LEMMA HeldCons ==
  ASSUME NEW s, NEW a \in Addr, NEW b \in Nat, Item(a), b > a, Held(s, b)
  PROVE  Held(<<a>> \o s, a)
<1> DEFINE t == <<a>> \o s
           n == Len(s)
<1>1. s \in Seq(Nat) /\ a \in Nat /\ n \in Nat
  BY AddrIs DEF Held
<1>2. t \in Seq(Nat) /\ Len(t) = n + 1 /\ t[1] = a /\ \A i \in 1..n : t[i + 1] = s[i]
  BY <1>1, ConsIs
<1>3. /\ \A i \in 1..n : s[i] \in Addr /\ Item(s[i]) /\ s[i] >= b /\ s[i] \in Nat
      /\ \A i, j \in 1..n : i < j => s[i] < s[j]
  BY AddrIs DEF Held
<1> HIDE DEF t, n
<1>4. ASSUME NEW i \in 1..(n + 1), i > 1 PROVE i - 1 \in 1..n /\ t[i] = s[i - 1]
  <2> DEFINE k == i - 1
  <2>1. k \in 1..n /\ i = k + 1
    BY <1>1, <1>4
  <2> HIDE DEF k
  <2>2. t[i] = s[k]
    BY <1>2, <2>1
  <2> QED
    BY <2>1, <2>2 DEF k
<1>5. ASSUME NEW i \in 1..Len(t) PROVE t[i] \in Addr /\ Item(t[i]) /\ t[i] >= a
  <2>1. CASE i = 1
    BY <1>1, <1>2, <2>1
  <2>2. CASE i > 1
    <3>1. i - 1 \in 1..n /\ t[i] = s[i - 1]
      BY <1>2, <1>4, <2>2
    <3>2. s[i - 1] \in Addr /\ Item(s[i - 1]) /\ s[i - 1] >= b /\ s[i - 1] \in Nat
      BY <1>3, <3>1
    <3> QED
      BY <1>1, <3>1, <3>2
  <2> QED
    BY <1>1, <1>2, <2>1, <2>2
<1>6. ASSUME NEW i \in 1..Len(t), NEW j \in 1..Len(t), i < j PROVE t[i] < t[j]
  <2>1. j - 1 \in 1..n /\ t[j] = s[j - 1]
    BY <1>1, <1>2, <1>4, <1>6
  <2>2. CASE i = 1
    BY <1>1, <1>2, <1>3, <2>1, <2>2
  <2>3. CASE i > 1
    <3>1. i - 1 \in 1..n /\ t[i] = s[i - 1] /\ i - 1 < j - 1
      BY <1>1, <1>2, <1>4, <1>6, <2>3
    <3> QED
      BY <1>3, <2>1, <3>1
  <2> QED
    BY <1>1, <1>2, <2>2, <2>3
<1> QED
  BY <1>2, <1>5, <1>6 DEF Held, t

\* Every item from a on is in s.
HoldsAll(s, a) == \A b \in Addr : Item(b) /\ b >= a => \E i \in 1..Len(s) : s[i] = b

LEMMA PlacesHold ==
  ASSUME TapeTyped, CellsHaveLengths
  PROVE  /\ Held(Places, HeaderLen)
         /\ TapeInv => HoldsAll(Places, HeaderLen)
<1>1. PICK w : w = [a \in Nat |-> PlacesAt(w, a)] /\ Places = w[HeaderLen]
  BY PlacesIs
<1>2. \A a \in Nat : w[a] = IF PlacesStop(a) THEN PlacesStopped(a)
                            ELSE <<a>> \o w[a + Step(At(a))]
  <2>1. \A a \in Nat : w[a] = PlacesAt(w, a)
    BY <1>1
  <2> QED
    BY <2>1, PlacesAtIs
<1> DEFINE Good(a) == Held(w[a], a) /\ (TapeInv /\ Boundary(a) => HoldsAll(w[a], a))
           B == {a \in 0..MaxAddr : ~Good(a)}
<1>3. ASSUME NEW a \in Nat, PlacesStop(a) PROVE Good(a)
  <2>1. w[a] = PlacesStopped(a)
    BY <1>2, <1>3
  <2>2. CASE At(a).what = "mark"
    <3>1. a \in Addr /\ Item(a) /\ Ends(a)
      BY <1>3, <2>2 DEF At, Blank, Item, Ends, PlacesStop
    <3>2. w[a] = <<a>>
      BY <2>1, <2>2 DEF PlacesStopped
    <3>3. <<a>> \in Seq(Nat) /\ Len(<<a>>) = 1 /\ <<a>>[1] = a
      OBVIOUS
    <3>4. Held(w[a], a)
      BY <3>1, <3>2, <3>3 DEF Held
    <3>5. ASSUME TapeInv, NEW b \in Addr, Item(b), b >= a PROVE b = a
      BY <3>1, <3>5, AddrIs DEF TapeInv, LastIsLast
    <3>6. TapeInv => HoldsAll(w[a], a)
      BY <3>2, <3>3, <3>5 DEF HoldsAll
    <3> QED
      BY <3>4, <3>6
  <2>3. CASE At(a).what # "mark"
    <3>1. w[a] = << >>
      BY <2>1, <2>3 DEF PlacesStopped
    <3>2. Held(w[a], a)
      BY <3>1 DEF Held
    <3>3. ASSUME TapeInv, Boundary(a), NEW b \in Addr, Item(b), b >= a PROVE FALSE
      <4>1. a \in Addr /\ Item(a)
        BY <3>3, NoGap
      <4> QED
        BY <1>3, <2>3, <4>1 DEF Item, At, IsRecord, PlacesStop
    <3> QED
      BY <3>2, <3>3 DEF HoldsAll
  <2> QED
    BY <2>2, <2>3
<1>5. \A a \in Nat : ~PlacesStop(a) => /\ a <= MaxAddr /\ a + Step(At(a)) \in Nat
                                       /\ a + Step(At(a)) > a
  BY StepOn DEF PlacesStop, IsRecord
<1>4. ASSUME NEW a \in Nat, ~PlacesStop(a), Good(a + Step(At(a))) PROVE Good(a)
  <2> DEFINE b == a + Step(At(a))
             s == w[b]
  <2>1. a \in Addr /\ At(a) = tape[a] /\ Item(a) /\ ~Ends(a)
    BY <1>4 DEF PlacesStop, IsRecord, At, Blank, Item, Ends
  <2>2. b \in Nat /\ b > a /\ Behind(a) = b
    BY <1>4, <1>5, <2>1 DEF Behind
  <2>3. w[a] = <<a>> \o s
    BY <1>2, <1>4
  <2>4. Held(s, b) /\ (TapeInv /\ Boundary(b) => HoldsAll(s, b))
    BY <1>4
  <2> HIDE DEF b, s
  <2>5. Held(w[a], a)
    BY <2>1, <2>2, <2>3, <2>4, HeldCons
  <2>6. ASSUME TapeInv PROVE HoldsAll(w[a], a)
    <3>1. Boundary(b)
      BY <2>1, <2>2 DEF Boundary
    <3>2. s \in Seq(Nat)
      BY <2>4 DEF Held
    <3>3. /\ Len(w[a]) = Len(s) + 1 /\ Len(s) \in Nat
          /\ w[a][1] = a /\ \A i \in 1..Len(s) : w[a][i + 1] = s[i]
      BY <2>3, <3>2, ConsIs
    <3>4. ASSUME NEW c \in Addr, Item(c), c >= a PROVE \E i \in 1..Len(w[a]) : w[a][i] = c
      <4>1. CASE c = a
        <5>1. 1 \in 1..Len(w[a])
          BY <3>3
        <5> QED
          BY <3>3, <4>1, <5>1
      <4>2. CASE c # a
        <5>1. c >= b
          BY <2>1, <2>2, <2>6, <3>4, <4>2, AddrIs DEF TapeInv, ItemsApart
        <5>2. PICK i \in 1..Len(s) : s[i] = c
          BY <2>4, <2>6, <3>1, <3>4, <5>1 DEF HoldsAll
        <5>3. i + 1 \in 1..Len(w[a]) /\ w[a][i + 1] = c
          BY <3>3, <5>2
        <5> QED
          BY <5>3
      <4> QED
        BY <4>1, <4>2
    <3> QED
      BY <3>4 DEF HoldsAll
  <2> QED
    BY <2>5, <2>6
<1> HIDE DEF Good
<1>6. \A a \in B : \E b \in B : b > a
  <2> TAKE a \in B
  <2>1. a \in Nat /\ ~Good(a)
    BY AddrIs
  <2>2. ~PlacesStop(a)
    BY <1>3, <2>1
  <2> DEFINE b == a + Step(At(a))
  <2>3. b \in Nat /\ b > a /\ ~Good(b)
    BY <1>4, <1>5, <2>1, <2>2
  <2> HIDE DEF b
  <2>4. b <= MaxAddr
    BY <1>3, <1>5, <2>3
  <2>5. b \in B
    BY <2>3, <2>4, AddrIs
  <2> QED
    BY <2>3, <2>5
<1>7. B \subseteq 0..MaxAddr
  OBVIOUS
<1>8. B = {}
  <2> HIDE DEF B
  <2> QED
    BY <1>6, <1>7, AddrIs, NoneLast
<1>9. Good(HeaderLen)
  <2>1. HeaderLen \in Nat
    BY SeqAssumption
  <2>2. HeaderLen > MaxAddr => Good(HeaderLen)
    BY <1>3, <1>5, <2>1, AddrIs
  <2>3. HeaderLen <= MaxAddr => Good(HeaderLen)
    BY <1>8, <2>1, AddrIs
  <2> QED
    BY <2>1, <2>2, <2>3, AddrIs
<1> QED
  BY <1>1, <1>9 DEF Good, Boundary

LEMMA RecordsAre ==
  ASSUME TapeTyped, CellsHaveLengths
  PROVE  \A a \in Records : a \in Addr /\ IsRecord(tape[a])
<1>1. Held(Places, HeaderLen)
  BY PlacesHold
<1> QED
  BY <1>1 DEF Records, Held

LEMMA PositionIsRight ==
  ASSUME TapeInv, cur = 0 \/ Stand(cur) \/ LastPost(cur)
  PROVE  OnBoundary
<1>1. CASE Past(cur)
  BY <1>1 DEF Past, OnBoundary
<1>4. CASE LastPost(cur)
  <2>1. \A a \in Records : a \in Addr /\ IsRecord(tape[a])
    BY RecordsAre DEF TapeInv
  <2>2. At(cur).what = "post" /\ cur \in Addr
    BY <1>4 DEF LastPost, At
  <2>3. \A a \in Records : a < cur
    BY <1>4, <2>1, <2>2, AddrIs DEF LastPost, IsRecord, Item
  <2> QED
    BY <2>2, <2>3 DEF OnBoundary
<1>2. CASE cur \in {0, HeaderLen}
  BY <1>2 DEF OnBoundary
<1>3. CASE Boundary(cur) /\ cur # HeaderLen
  <2>1. PICK a \in Addr : Item(a) /\ Behind(a) = cur
    BY <1>3 DEF Boundary
  <2>2. a >= HeaderLen
    BY <2>1 DEF TapeInv, ItemsFollow
  <2>3. PICK i \in 1..Len(Places) : Places[i] = a
    BY <2>1, <2>2, PlacesHold DEF TapeInv, HoldsAll
  <2>4. a \in Nat /\ tape[a].len \in Nat
    BY AddrIs DEF TapeInv, TapeTyped, Cell
  <2>5. cur = a + tape[a].len + (IF IsRecord(tape[a]) THEN 2 ELSE 0)
    BY <2>1, <2>4 DEF Behind, Step
  <2> QED
    BY <2>3, <2>5 DEF OnBoundary
<1> QED
  BY <1>1, <1>2, <1>3, <1>4 DEF Stand

LEMMA HandlesAreRight ==
  ASSUME TapeInv, BoundariesResolve, ~LateMarks
  PROVE  HandlesResolve
<1>1. \A a \in Records : a \in Addr /\ Item(a)
  BY RecordsAre DEF TapeInv, IsRecord, Item
<1>2. \A a \in Records : Resolves(a)
  BY <1>1 DEF TapeInv, ItemsFollow, BoundariesResolve
<1> QED
  BY <1>2 DEF HandlesResolve, Resolves

-----------------------------------------------------------------------------
(* Writing.                                                                *)

\* The tape with an item c at p, its postfix and the mark EOF behind it.
NewTape(p, c, posted, closed) ==
  [a \in Addr |-> IF a < p THEN tape[a]
                  ELSE IF a = p THEN c
                  ELSE IF posted /\ a = p + c.len THEN Post(p)
                  ELSE IF closed /\ a = p + Step(c) THEN Mark(EOF)
                  ELSE Blank]

IsEOF(c) == c.what = "mark" /\ c.n = EOF

\* What the calls write, and what is left of it when the process dies.
Writes(p, c, posted, closed) ==
  /\ c \in Cell /\ c.what \in {"rec", "mark"} /\ c.len >= 1
  /\ c.what = "rec" => c.len >= Width
  /\ c.what = "mark" => c.len = 1 /\ c.key = "none"
  /\ posted => c.what = "rec" /\ p + c.len \in Addr
  /\ closed => ~IsEOF(c) /\ (c.what = "rec" => posted) /\ p + Step(c) \in Addr

\* Where what they write ends.
NewEnd(p, c, posted, closed) ==
  IF closed THEN p + Step(c) + 1
  ELSE IF c.what = "rec" /\ ~posted THEN p + c.len ELSE p + Step(c)

LEMMA CellsTyped ==
  /\ Blank \in Cell /\ FileHead \in Cell /\ Mark(EOF) \in Cell /\ \A p \in Nat : Post(p) \in Cell
  /\ Blank.what = "none" /\ Blank.len = 0
  /\ Mark(EOF).what = "mark" /\ Mark(EOF).n = EOF /\ Mark(EOF).len = 1
  /\ Mark(EOF).key = "none"
  /\ \A p \in Nat : Post(p).what = "post" /\ Post(p).len = 2 /\ Post(p).n = p
  /\ FileHead.what = "head" /\ FileHead.len = HeaderLen
<1>1. HeaderLen \in Nat
  BY SeqAssumption
<1> QED
  BY <1>1 DEF Blank, FileHead, Mark, Post, EOF, Cell

LEMMA Written ==
  ASSUME TapeInv, st # "none", st' # "none", NEW p \in Addr, Boundary(p),
         \A a \in Addr : a < p => ~Torn(a),
         NEW c, NEW posted, NEW closed, Writes(p, c, posted, closed),
         tape' = NewTape(p, c, posted, closed), p >= HeaderLen
  PROVE  /\ TapeInv'
         /\ Boundary(p)'
         /\ ~IsEOF(c) => Boundary(p + Step(c))'
         /\ \A q \in Addr : Boundary(q)' => Boundary(q) \/ (q = p + Step(c) /\ ~IsEOF(c))
         /\ \A m \in Nat : m >= NewEnd(p, c, posted, closed) => Within(m)'
         /\ closed \/ IsEOF(c) => Closed'
<1> DEFINE b == p + Step(c)
<1>1. p \in Nat /\ c \in Cell /\ c.len \in Nat /\ c.len >= 1 /\ MaxAddr \in Nat /\ HeaderLen \in Nat
      /\ HeaderLen >= 3
  BY AddrIs, SeqAssumption DEF Writes, Cell
<1>2. /\ c.what \in {"rec", "mark"}
      /\ c.what = "rec" => b = p + c.len + 2 /\ Step(c) = c.len + 2
      /\ c.what = "mark" => b = p + 1 /\ c.len = 1 /\ Step(c) = 1
      /\ posted => c.what = "rec" /\ p + c.len \in Addr
      /\ closed => ~IsEOF(c) /\ (c.what = "rec" => posted) /\ b \in Addr
  BY <1>1 DEF Writes, Step, IsRecord
<1>3. b \in Nat /\ b > p
  BY <1>1, <1>2
<1> HIDE DEF b
<1>4. /\ tape' = [a \in Addr |-> tape'[a]]
      /\ \A a \in Addr : a < p => tape'[a] = tape[a]
      /\ tape'[p] = c
      /\ \A a \in Addr : a > p =>
           \/ posted /\ a = p + c.len /\ tape'[a] = Post(p)
           \/ closed /\ a = b /\ tape'[a] = Mark(EOF)
           \/ tape'[a] = Blank
      /\ posted => tape'[p + c.len] = Post(p)
      /\ closed => tape'[b] = Mark(EOF)
  <2>1. \A a \in Addr : a \in Nat
    BY AddrIs
  <2>2. tape' = [a \in Addr |->
                  IF a < p THEN tape[a]
                  ELSE IF a = p THEN c
                  ELSE IF posted /\ a = p + c.len THEN Post(p)
                  ELSE IF closed /\ a = b THEN Mark(EOF)
                  ELSE Blank]
    BY DEF NewTape, b
  <2>3. \A a \in Addr : tape'[a] = IF a < p THEN tape[a]
                                  ELSE IF a = p THEN c
                                  ELSE IF posted /\ a = p + c.len THEN Post(p)
                                  ELSE IF closed /\ a = b THEN Mark(EOF)
                                  ELSE Blank
    BY <2>2
  <2>4. tape' = [a \in Addr |-> tape'[a]]
    BY <2>2
  <2>5. (\A a \in Addr : a < p => tape'[a] = tape[a]) /\ tape'[p] = c
    BY <1>1, <2>3
  <2>6. \A a \in Addr : a > p =>
          \/ posted /\ a = p + c.len /\ tape'[a] = Post(p)
          \/ closed /\ a = b /\ tape'[a] = Mark(EOF)
          \/ tape'[a] = Blank
    <3> TAKE a \in Addr
    <3> HAVE a > p
    <3>1. ~(a < p) /\ a # p
      BY <1>1, <2>1
    <3> QED
      BY <2>3, <3>1
  <2>7. posted => tape'[p + c.len] = Post(p)
    <3> HAVE posted
    <3>1. p + c.len \in Addr /\ ~(p + c.len < p) /\ p + c.len # p
      BY <1>1, <1>2
    <3> QED
      BY <2>3, <3>1
  <2>8. closed => tape'[b] = Mark(EOF)
    <3> HAVE closed
    <3>1. b \in Addr /\ ~(b < p) /\ b # p
      BY <1>1, <1>2, <1>3
    <3>2. ~(posted /\ b = p + c.len)
      BY <1>1, <1>2
    <3> QED
      BY <2>3, <3>1, <3>2
  <2> QED
    BY <2>4, <2>5, <2>6, <2>7, <2>8
<1>5. \A a \in Addr : a < p \/ a = p \/ a > p
  BY <1>1, AddrIs
\* The items of the new tape.
<1>6. ASSUME NEW a \in Addr, Item(a)'
      PROVE  \/ a < p /\ Item(a)
             \/ a = p
             \/ a = b /\ a > p /\ closed /\ tape'[a] = Mark(EOF)
  BY <1>3, <1>4, <1>5, <1>6, CellsTyped, AddrIs DEF Item
<1>7. \A a \in Addr : a < p /\ Item(a) =>
        /\ Item(a)' /\ Behind(a)' = Behind(a) /\ Behind(a) <= p /\ Behind(a) > a
        /\ ~Ends(a) /\ ~Ends(a)' /\ a >= HeaderLen /\ a \in Nat
  <2> TAKE a \in Addr
  <2> HAVE a < p /\ Item(a)
  <2>1. Behind(a) <= p /\ ~Ends(a) /\ a >= HeaderLen /\ Behind(a) > a /\ a \in Nat
    BY <1>1, InFront
  <2>2. tape'[a] = tape[a]
    BY <1>4
  <2> QED
    BY <2>1, <2>2 DEF Item, Ends, Behind
<1>8. Item(p)' /\ Behind(p)' = b /\ Ends(p)' = IsEOF(c)
  BY <1>2, <1>4 DEF Item, Behind, Ends, IsEOF, b
<1>9. closed => Ends(b)' /\ Behind(b)' > b /\ b \in Addr
  <2> HAVE closed
  <2>1. tape'[b].what = "mark" /\ tape'[b].n = EOF /\ tape'[b].len = 1
    BY <1>4, CellsTyped
  <2>2. Ends(b)' /\ Behind(b)' = b + 1
    BY <2>1 DEF Ends, Behind, Step, IsRecord
  <2> QED
    BY <1>2, <1>3, <2>2
<1>10. TapeTyped'
  <2>1. \A a \in Addr : tape'[a] \in Cell
    BY <1>1, <1>4, <1>5, CellsTyped DEF TapeInv, TapeTyped
  <2> QED
    BY <1>4, <2>1 DEF TapeTyped
<1>11. CellsHaveLengths'
  <2>1. \A a \in Addr : a < p => /\ tape'[a].what # "none" => tape'[a].len >= 1
                                 /\ IsRecord(tape'[a]) => tape'[a].len >= Width
                                 /\ tape'[a].what = "head" => a = 0
                                 /\ tape'[a].what = "mark" => tape'[a].len = 1
    BY <1>4 DEF TapeInv, CellsHaveLengths
  <2>2. \A a \in Addr : a >= p => /\ tape'[a].what # "none" => tape'[a].len >= 1
                                  /\ IsRecord(tape'[a]) => tape'[a].len >= Width
                                  /\ tape'[a].what = "head" => a = 0
                                  /\ tape'[a].what = "mark" => tape'[a].len = 1
    <3> TAKE a \in Addr
    <3> HAVE a >= p
    <3>1. CASE a = p
      BY <1>1, <1>2, <1>4, <3>1 DEF IsRecord, Writes
    <3>2. CASE a > p
      <4>1. tape'[a] \in {Post(p), Mark(EOF), Blank}
        BY <1>4, <3>2
      <4>2. \A x \in {Post(p), Mark(EOF), Blank} :
              /\ x.what # "none" => x.len >= 1
              /\ x.what # "head" /\ (x.what = "mark" => x.len = 1) /\ ~IsRecord(x)
        BY <1>1, CellsTyped DEF IsRecord
      <4> QED
        BY <4>1, <4>2
    <3> QED
      BY <1>1, <3>1, <3>2, AddrIs
  <2> QED
    BY <1>1, <1>5, <2>1, <2>2, AddrIs DEF CellsHaveLengths
<1>12. HeaderStands'
  BY <1>1, <1>4, AddrIs DEF TapeInv, HeaderStands
<1>22. MarksHaveNoKey'
  <2>1. c.what = "mark" => c.key = "none"
    BY DEF Writes
  <2>2. \A a \in Addr : a > p => (tape'[a].what = "mark" => tape'[a].key = "none")
    BY <1>1, <1>4, CellsTyped
  <2> QED
    BY <1>4, <1>5, <2>1, <2>2 DEF TapeInv, MarksHaveNoKey
\* Where an item may begin in front of p, one may begin still.
<1>13. \A a \in Addr : a <= p /\ Boundary(a) => Boundary(a)'
  <2> SUFFICES ASSUME NEW a \in Addr, a <= p, Boundary(a), a # HeaderLen PROVE Boundary(a)'
    BY DEF Boundary
  <2>1. PICK e \in Addr : Item(e) /\ ~Ends(e) /\ Behind(e) = a
    BY DEF Boundary
  <2>2. e < p
    <3>1. At(e) = tape[e] /\ At(e).what # "none" /\ e \in Nat
      BY <2>1, AddrIs DEF At, Item
    <3>2. Behind(e) > e
      BY <3>1, StepOn DEF TapeInv, Behind
    <3> QED
      BY <1>1, <2>1, <3>1, <3>2, AddrIs
  <2>3. Item(e)' /\ ~Ends(e)' /\ Behind(e)' = a
    BY <1>7, <2>1, <2>2
  <2> QED
    BY <2>3 DEF Boundary
<1>14. Boundary(p)'
  BY <1>1, <1>13
<1>15. ~IsEOF(c) => Boundary(b)'
  BY <1>8 DEF Boundary
<1>16. ItemsFollow'
  <2> SUFFICES ASSUME NEW a \in Addr, Item(a)' PROVE a >= HeaderLen /\ Boundary(a)'
    BY DEF ItemsFollow
  <2>1. CASE a < p /\ Item(a)
    BY <1>1, <1>7, <1>13, <2>1, AddrIs DEF TapeInv, ItemsFollow
  <2>2. CASE a = p
    BY <1>14, <2>2
  <2>3. CASE a = b /\ closed
    BY <1>1, <1>2, <1>3, <1>15, <2>3
  <2> QED
    BY <1>6, <2>1, <2>2, <2>3
<1>17. ItemsApart'
  <2> SUFFICES ASSUME NEW a \in Addr, NEW d \in Addr, Item(a)', Item(d)', a < d
               PROVE  Behind(a)' <= d
    BY DEF ItemsApart
  <2>1. CASE a < p /\ Item(a)
    <3>1. CASE d < p /\ Item(d)
      BY <1>7, <2>1, <3>1 DEF TapeInv, ItemsApart
    <3>2. CASE d >= p
      <4>1. Behind(a)' \in Nat
        <5>1. tape[a].len \in Nat
          BY DEF TapeInv, TapeTyped, Cell
        <5> QED
          BY <1>7, <2>1, <5>1 DEF Behind, Step
      <4> QED
        BY <1>1, <1>7, <2>1, <3>2, <4>1, AddrIs
    <3> QED
      BY <1>1, <1>3, <1>6, <3>1, <3>2, AddrIs
  <2>2. CASE a = p
    BY <1>1, <1>3, <1>6, <1>8, <2>2, AddrIs
  <2>3. CASE a = b /\ a > p
    BY <1>1, <1>3, <1>6, <2>3, AddrIs
  <2> QED
    BY <1>6, <2>1, <2>2, <2>3
<1>18. PostsLead'
  <2> SUFFICES ASSUME NEW d \in Addr, tape'[d].what = "post"
               PROVE  /\ tape'[d].len = 2 /\ tape'[d].n \in Addr /\ IsRecord(tape'[tape'[d].n])
                      /\ tape'[d].n + tape'[tape'[d].n].len = d
    BY DEF PostsLead
  <2>1. CASE d < p
    <3> DEFINE n == tape[d].n
    <3>1. tape'[d] = tape[d]
      BY <1>4, <2>1
    <3>2. tape[d].len = 2 /\ n \in Addr /\ IsRecord(tape[n]) /\ n + tape[n].len = d
      BY <3>1 DEF TapeInv, PostsLead
    <3> HIDE DEF n
    <3>3. n < p
      <4>1. tape[n].len \in Nat /\ n \in Nat /\ d \in Nat
        BY <3>2, AddrIs DEF TapeInv, TapeTyped, Cell
      <4> QED
        BY <1>1, <2>1, <3>2, <4>1
    <3>4. tape'[n] = tape[n]
      BY <1>4, <3>2, <3>3
    <3> QED
      BY <3>1, <3>2, <3>4 DEF n
  <2>2. CASE d = p
    BY <1>2, <1>4, <2>2
  <2>3. CASE d > p
    <3>1. posted /\ d = p + c.len /\ tape'[d] = Post(p)
      BY <1>4, <2>3, CellsTyped
    <3>2. tape'[d].len = 2 /\ tape'[d].n = p /\ tape'[p] = c /\ c.what = "rec"
      <4>1. Post(p).len = 2 /\ Post(p).n = p
        BY <1>1, CellsTyped
      <4> QED
        BY <1>2, <1>4, <3>1, <4>1
    <3> QED
      BY <3>1, <3>2 DEF IsRecord
  <2> QED
    BY <1>5, <2>1, <2>2, <2>3
<1>19. LastIsLast'
  <2> SUFFICES ASSUME NEW a \in Addr, NEW d \in Addr, Torn(a)' \/ Ends(a)', d > a, Item(d)'
               PROVE  FALSE
    BY DEF LastIsLast
  <2>1. Item(a)'
    BY DEF Torn, Ends, IsRecord, Item
  <2>2. CASE a < p /\ Item(a)
    <3>1. Torn(a)'
      BY <1>7, <2>2
    <3>2. tape'[a] = tape[a] /\ IsRecord(tape[a])
      BY <1>4, <2>2, <3>1 DEF Torn
    <3>3. a \in Nat /\ tape[a].len \in Nat /\ Behind(a) = a + tape[a].len + 2 /\ Behind(a) <= p
      <4>1. a \in Nat /\ tape[a].len \in Nat
        BY AddrIs DEF TapeInv, TapeTyped, Cell
      <4> QED
        BY <1>7, <2>2, <3>2, <4>1 DEF Behind, Step
    <3> DEFINE e == a + tape[a].len
    <3>4. e \in Addr /\ e < p
      BY SMTT(40), <1>1, <3>3, AddrIs
    <3> HIDE DEF e
    <3>5. tape'[e] = tape[e]
      BY <1>4, <3>4
    <3>6. tape[e].what = "post"
      BY <2>2, <3>2, <3>4 DEF Torn, At, e
    <3>7. tape'[e].what # "post"
      BY <3>1, <3>2, <3>4 DEF Torn, At, e
    <3> QED
      BY <3>5, <3>6, <3>7
  <2>3. CASE a = p
    <3>1. d = b /\ closed
      BY <1>1, <1>6, <2>3, AddrIs
    <3>2. Torn(a)' /\ c.what = "rec" /\ posted
      BY <1>2, <1>4, <1>8, <2>3, <3>1 DEF Torn, IsRecord, IsEOF
    <3>3. At(a + tape[a].len)'.what = "post"
      <4>1. tape'[a].len = c.len /\ a + c.len \in Addr /\ tape'[a + c.len] = Post(p)
        BY <1>2, <1>4, <2>3, <3>2
      <4>2. Post(p).what = "post"
        BY <1>1, CellsTyped
      <4> QED
        BY <4>1, <4>2 DEF At
    <3> QED
      BY <3>2, <3>3 DEF Torn
  <2>4. CASE a = b /\ a > p
    BY <1>1, <1>3, <1>6, <2>4, AddrIs
  <2> QED
    BY <1>6, <2>1, <2>2, <2>3, <2>4
<1>20. ASSUME NEW q \in Addr, Boundary(q)' PROVE Boundary(q) \/ (q = b /\ ~IsEOF(c))
  <2>1. CASE q = HeaderLen
    BY <2>1 DEF Boundary
  <2>2. CASE q # HeaderLen
    <3>1. PICK e \in Addr : Item(e)' /\ ~Ends(e)' /\ Behind(e)' = q
      BY <1>20, <2>2 DEF Boundary
    <3>2. CASE e < p /\ Item(e)
      BY <1>7, <3>1, <3>2 DEF Boundary
    <3>3. CASE e = p
      BY <1>8, <3>1, <3>3
    <3>4. CASE e = b /\ closed
      BY <1>9, <3>1, <3>4
    <3> QED
      BY <1>6, <3>1, <3>2, <3>3, <3>4
  <2> QED
    BY <2>1, <2>2
<1>21. TapeInv'
  BY <1>10, <1>11, <1>12, <1>16, <1>17, <1>18, <1>19, <1>22 DEF TapeInv
\* Where the headers end.
<1>23. ASSUME NEW m \in Nat, m >= NewEnd(p, c, posted, closed) PROVE Within(m)'
  <2> SUFFICES ASSUME NEW a \in Addr, tape'[a].what # "none" PROVE a + tape'[a].len <= m
    BY DEF Within
  <2>1. m >= p + c.len /\ (c.what = "mark" => m >= b) /\ (posted => m >= b) /\ (closed => m >= b + 1)
    BY <1>1, <1>2, <1>3, <1>23 DEF NewEnd, b
  <2>2. a \in Nat
    BY AddrIs
  <2>3. CASE a < p
    <3>1. tape'[a] = tape[a]
      BY <1>4, <2>3
    <3>2. CASE Item(a)
      <4>1. /\ tape[a].len \in Nat /\ Behind(a) \in Nat
            /\ a + tape[a].len <= Behind(a) /\ Behind(a) <= p
        BY <1>7, <2>2, <2>3, <3>2, ItemsAre DEF Behind, Step
      <4> QED
        BY <1>1, <1>7, <2>1, <2>2, <2>3, <3>1, <3>2, <4>1
    <3>3. CASE tape[a].what = "post"
      <4> DEFINE n == tape[a].n
      <4>1. n \in Addr /\ Item(n) /\ n < a /\ tape[a].len = 2 /\ Behind(n) = a + 2
        BY <3>3, PostsAre
      <4> HIDE DEF n
      <4>2. Behind(n) <= p
        BY <1>1, <1>7, <2>2, <2>3, <4>1, AddrIs
      <4> QED
        BY <1>1, <2>1, <2>2, <3>1, <4>1, <4>2
    <3>4. CASE tape[a].what = "head"
      <4>1. a = 0 /\ tape[a] = FileHead
        BY <3>4 DEF TapeInv, CellsHaveLengths, HeaderStands
      <4>2. tape[a].len = HeaderLen
        BY <4>1, CellsTyped
      <4> QED
        BY <1>1, <2>1, <3>1, <4>1, <4>2
    <3>5. tape[a] \in Cell
      BY DEF TapeInv, TapeTyped
    <3> QED
      BY <3>1, <3>2, <3>3, <3>4, <3>5 DEF Cell, Item
  <2>4. CASE a = p
    BY <1>4, <2>1, <2>4
  <2>5. CASE a > p
    <3>1. CASE posted /\ a = p + c.len /\ tape'[a] = Post(p)
      <4>1. tape'[a].len = 2
        BY <1>1, <3>1, CellsTyped
      <4> QED
        BY <1>1, <1>2, <2>1, <3>1, <4>1
    <3>2. CASE closed /\ a = b /\ tape'[a] = Mark(EOF)
      <4>1. tape'[a].len = 1
        BY <3>2, CellsTyped
      <4> QED
        BY <2>1, <3>2, <4>1
    <3> QED
      BY <1>4, <2>5, <3>1, <3>2, CellsTyped
  <2> QED
    BY <1>5, <2>3, <2>4, <2>5
<1>24. ASSUME closed \/ IsEOF(c) PROVE Closed'
  BY <1>4, <1>9, <1>24 DEF Closed, Ends, IsEOF
<1> QED
  BY <1>14, <1>15, <1>20, <1>21, <1>23, <1>24 DEF b

\* A step that at most marks a record as deleted.
SameShape ==
  /\ TapeTyped'
  /\ \A a \in Addr : /\ tape'[a].len = tape[a].len /\ tape'[a].n = tape[a].n
                     /\ \/ tape'[a].what = tape[a].what
                        \/ tape[a].what = "rec" /\ tape'[a].what = "dead"
  /\ \A a \in Addr : tape[a].what # "rec" => tape'[a] = tape[a]

LEMMA Shaped ==
  ASSUME TapeInv, SameShape, st' = "none" <=> st = "none"
  PROVE  /\ TapeInv' /\ Closed' = Closed
         /\ \A q : /\ Boundary(q)' <=> Boundary(q)
                   /\ LastPost(q)' <=> LastPost(q)
                   /\ Within(q)' <=> Within(q)
         /\ \A a \in Addr : Item(a)' <=> Item(a)
<1>1. \A a \in Addr : /\ IsRecord(tape'[a]) <=> IsRecord(tape[a])
                      /\ tape'[a].what = "post" <=> tape[a].what = "post"
                      /\ tape'[a].what = "head" <=> tape[a].what = "head"
                      /\ tape'[a].what = "mark" <=> tape[a].what = "mark"
                      /\ tape'[a].what = "none" <=> tape[a].what = "none"
                      /\ tape'[a].len = tape[a].len /\ tape'[a].n = tape[a].n
  BY DEF SameShape, IsRecord
<1>2. \A a \in Addr : /\ Item(a)' <=> Item(a)
                      /\ Ends(a)' <=> Ends(a)
                      /\ Behind(a)' = Behind(a)
  BY <1>1 DEF Item, Ends, Behind, Step, IsRecord
<1>3. \A x : At(x)'.what = "post" <=> At(x).what = "post"
  BY <1>1 DEF At
<1>4. \A a \in Addr : Torn(a)' <=> Torn(a)
  BY <1>1, <1>3 DEF Torn
<1>5. \A q : Boundary(q)' <=> Boundary(q)
  BY <1>2 DEF Boundary
<1>6. TapeTyped' /\ CellsHaveLengths'
  BY <1>1 DEF TapeInv, CellsHaveLengths, SameShape
<1>7. HeaderStands'
  <2>1. st = "none" => \A a \in Addr : tape[a] = Blank /\ tape'[a] = tape[a]
    BY CellsTyped DEF TapeInv, HeaderStands, SameShape
  <2>2. st # "none" => tape[0] = FileHead /\ tape'[0] = tape[0]
    BY CellsTyped, AddrIs DEF TapeInv, HeaderStands, SameShape
  <2> QED
    BY <2>1, <2>2 DEF HeaderStands
<1>8. ItemsFollow' /\ ItemsApart'
  BY <1>2, <1>5 DEF TapeInv, ItemsFollow, ItemsApart
<1>9. PostsLead'
  BY <1>1 DEF TapeInv, PostsLead
<1>10. LastIsLast'
  BY <1>2, <1>4 DEF TapeInv, LastIsLast
<1>11. \A q : (LastPost(q)' <=> LastPost(q)) /\ (Within(q)' <=> Within(q))
  BY <1>1, <1>2 DEF LastPost, Within
<1>13. Closed' = Closed
  BY <1>2 DEF Closed, Ends
<1>12. MarksHaveNoKey'
  BY <1>1 DEF SameShape, TapeInv, MarksHaveNoKey
<1> QED
  BY <1>2, <1>5, <1>6, <1>7, <1>8, <1>9, <1>10, <1>11, <1>12, <1>13 DEF TapeInv

-----------------------------------------------------------------------------
(* The types.                                                              *)

Answers == [code : {"none", "found", "end", "read", "lost"}, handle : [cluster : 0..3, addr : Nat],
            n : Nat, for : SUBSET (Keys \cup {"none"}), after : Nat \cup {-1}]

TypeInv ==
  /\ st \in {"none", "closed", "open"}
  /\ mode \in {"CREATE", "RDMODE", "RWMODE", "APPEND"}
  /\ TapeTyped /\ CellsHaveLengths
  /\ TypeSizes /\ modified \in BOOLEAN
  /\ cur \in Nat /\ bof \in {0, HeaderLen}
  /\ head.at \in Nat /\ head.cell \in Cell
  /\ validpos \in BOOLEAN
  /\ ret \in Answers

LEMMA TypeInvIsEnough == TypeInv => TypeOK
BY DEF TypeInv, TypeOK, TapeTyped, TypeSizes, Answers

LEMMA HandleIs ==
  ASSUME NEW a \in Nat
  PROVE  HandleOf(a) \in [cluster : 0..3, addr : Nat] /\ AddressOf(HandleOf(a)) \in Nat
<1> DEFINE c == ClusterOf(a)
           s == Size(c)
           d == (a \div s) % Cap
<1>1. c \in 0..3 /\ s \in Nat \ {0} /\ Cap \in Nat \ {0}
  BY ClusterIs, StartsAre, SeqAssumption
<1>2. d \in Nat /\ d * s \in Nat
  <2> HIDE DEF s
  <2>1. a \div s \in Nat
    BY <1>1
  <2>2. d \in Nat
    BY <1>1, <2>1
  <2> HIDE DEF d
  <2> QED
    BY <1>1, <2>2
<1>3. HandleOf(a) = [cluster |-> c, addr |-> d]
  BY DEF HandleOf
<1>4. AddressOf(HandleOf(a)) = d * s
  BY <1>3 DEF AddressOf
<1> HIDE DEF c, d, s
<1> QED
  BY <1>1, <1>2, <1>3, <1>4

LEMMA NoRetIs == NoRet \in Answers
<1>1. {} \in SUBSET (Keys \cup {"none"}) /\ 0 \in 0..3
  OBVIOUS
<1> QED
  BY <1>1 DEF NoRet, Answers

LEMMA TypeInit == Init => TypeInv
<1>1. NoHeader.at \in Nat /\ NoHeader.cell \in Cell
  BY CellsTyped DEF NoHeader
<1>2. ASSUME Init PROVE TapeTyped /\ CellsHaveLengths
  BY <1>2, CellsTyped DEF Init, TapeTyped, CellsHaveLengths, IsRecord
<1>3. ASSUME Init
      PROVE  /\ st = "none" /\ mode = "RDMODE" /\ cur = 0 /\ bof = 0
             /\ head = NoHeader /\ validpos = FALSE /\ ret = NoRet
             /\ size = 0 /\ eff = 0 /\ disk = 0 /\ modified = FALSE
  BY <1>3 DEF Init
<1> QED
  BY <1>1, <1>2, <1>3, NoRetIs DEF TypeInv, TypeSizes

LEMMA ForgottenTypes ==
  ASSUME TypeInv, Forgotten, (TapeTyped /\ CellsHaveLengths)', disk' \in Nat
  PROVE  TypeInv'
<1>1. NoHeader.at \in Nat /\ NoHeader.cell \in Cell
  BY CellsTyped DEF NoHeader
<1> QED
  BY <1>1, NoRetIs DEF TypeInv, TypeSizes, Forgotten

LEMMA StillFoundIs == TypeInv => StillFound \in Answers
<1> SUFFICES ASSUME TypeInv PROVE StillFound \in Answers
  OBVIOUS
<1>1. ret.handle \in [cluster : 0..3, addr : Nat] /\ {} \in SUBSET (Keys \cup {"none"}) /\ 0 \in 0..3
  BY DEF TypeInv, Answers
<1> QED
  BY <1>1, NoRetIs DEF StillFound, NoRet, Answers

LEMMA MovedTypes ==
  ASSUME TypeInv, cur' \in Nat, validpos' \in BOOLEAN, ret' = StillFound,
         UNCHANGED <<st, mode, tape, bof, head, lengths>>
  PROVE  TypeInv'
<1>1. ret' \in Answers
  BY StillFoundIs
<1>2. TapeTyped' /\ CellsHaveLengths'
  BY DEF TypeInv, TapeTyped, CellsHaveLengths
<1>3. TypeSizes' /\ modified' \in BOOLEAN
  BY DEF TypeInv, TypeSizes, lengths
<1> QED
  BY <1>1, <1>2, <1>3 DEF TypeInv

LEMMA AstrayTypes ==
  ASSUME TypeInv, GoesAstray
  PROVE  TypeInv'
<1>1. ret' \in Answers
  BY NoRetIs DEF GoesAstray, Answers
<1>2. TapeTyped' /\ CellsHaveLengths'
  BY DEF TypeInv, GoesAstray, TapeTyped, CellsHaveLengths
<1>3. TypeSizes' /\ modified' \in BOOLEAN
  BY DEF TypeInv, GoesAstray, TypeSizes, lengths
<1> QED
  BY <1>1, <1>2, <1>3 DEF TypeInv, GoesAstray

\* What is written has its type.
LEMMA WrittenTypes ==
  ASSUME TypeInv, NEW p, p = cur, NEW c, NEW posted, NEW closed,
         c \in Cell, c.len >= 1, c.what \in {"rec", "mark"}, c.what = "mark" => c.len = 1,
         c.what = "rec" => c.len >= Width,
         tape' = NewTape(p, c, posted, closed)
  PROVE  TapeTyped' /\ CellsHaveLengths'
<1>1. p \in Nat
  BY DEF TypeInv
<1>2. /\ Post(p) \in Cell /\ Post(p).what = "post" /\ Post(p).len = 2
      /\ Mark(EOF) \in Cell /\ Mark(EOF).what = "mark" /\ Mark(EOF).len = 1
      /\ Blank \in Cell /\ Blank.what = "none"
  BY <1>1, CellsTyped
<1>3. \A a \in Addr : /\ tape[a] \in Cell
                      /\ IsRecord(tape[a]) => tape[a].len >= Width
                      /\ tape[a].what # "none" => tape[a].len >= 1
                      /\ tape[a].what = "head" => a = 0
                      /\ tape[a].what = "mark" => tape[a].len = 1
  BY DEF TypeInv, TapeTyped, CellsHaveLengths
<1>4. \A a \in Addr : tape'[a] \in {tape[a], c, Post(p), Mark(EOF), Blank}
  BY DEF NewTape
<1>5. \A a \in Addr : /\ tape'[a] \in Cell
                      /\ IsRecord(tape'[a]) => tape'[a].len >= Width
                      /\ tape'[a].what # "none" => tape'[a].len >= 1
                      /\ tape'[a].what = "head" => a = 0
                      /\ tape'[a].what = "mark" => tape'[a].len = 1
  BY <1>2, <1>3, <1>4 DEF IsRecord
<1>6. tape' = [a \in Addr |-> tape'[a]]
  BY DEF NewTape
<1> QED
  BY <1>5, <1>6 DEF TapeTyped, CellsHaveLengths

-----------------------------------------------------------------------------
(* What each call writes.                                                  *)

LEMMA RecIs ==
  ASSUME NEW l \in Nat, l >= 1, NEW k \in Keys
  PROVE  /\ Rec(l, k) \in Cell /\ Rec(l, k).what = "rec" /\ Rec(l, k).len = l
         /\ Step(Rec(l, k)) = l + 2 /\ ~IsEOF(Rec(l, k))
BY DEF Rec, Blank, Cell, Step, IsRecord, IsEOF

LEMMA MarkIs ==
  ASSUME NEW l \in Nat
  PROVE  /\ Mark(l) \in Cell /\ Mark(l).what = "mark" /\ Mark(l).len = 1 /\ Mark(l).n = l
         /\ Mark(l).key = "none"
         /\ Step(Mark(l)) = 1 /\ (IsEOF(Mark(l)) <=> l = EOF)
BY DEF Mark, Blank, Cell, Step, IsRecord, IsEOF

\* A write that ends at e grows the file; when the process dies only the disk keeps it.
Grows(e) ==
  /\ disk' = IF e > disk THEN e ELSE disk
  /\ \/ /\ st' = "open" /\ eff' = IF e > size THEN e ELSE eff
        /\ size' = e \/ size' = IF e > size THEN e ELSE size
     \/ st' = "closed" /\ size' = 0 /\ eff' = 0

\* An item is written at the position, and where the next one may begin a handle resolves.
WriteStep ==
  /\ st = "open" /\ ret.code # "lost" /\ ret' = NoRet
  /\ cur \in Addr /\ Attached
  /\ \E c, posted, closed :
       /\ Writes(cur, c, posted, closed)
       /\ tape' = NewTape(cur, c, posted, closed)
       /\ c.what = "mark" => c.n \in Levels \cup {EOF}
       /\ \/ closed /\ cur' = cur + Step(c) /\ st' = "open"
          \/ ~closed /\ ~IsEOF(c) /\ cur' = 0 /\ st' = "closed"
          \/ ~closed /\ IsEOF(c) /\ cur' = cur /\ st' = "open"
       /\ ~LateMarks /\ ~IsEOF(c) => Resolves(cur + Step(c))
       /\ Grows(NewEnd(cur, c, posted, closed))

LEMMA PutWrites ==
  ASSUME TypeInv, NEW n \in Lens, NEW k \in Keys, Put(n, k)
  PROVE  WriteStep
<1> DEFINE l == PutLen(cur, n)
           c == Rec(l, k)
<1>1. cur \in Nat /\ n \in Nat \ {0} /\ MaxAddr \in Nat /\ n >= Width /\ Width \in Nat
  BY SeqAssumption DEF TypeInv
<1>2. /\ Attached /\ ret.code # "lost" /\ st = "open" /\ st' = st /\ ret' = NoRet
      /\ cur + l + 2 <= MaxAddr /\ cur' = cur + l + 2
      /\ tape' = Cells([a \in {cur, cur + l, cur + l + 2} |->
                          IF a = cur THEN Rec(l, k)
                          ELSE IF a = cur + l THEN Post(cur) ELSE Mark(EOF)], cur)
      /\ Grown(cur + l + 3) /\ size' = cur + l + 3
  BY DEF Put, Writing, Ready, InMemory
<1>3. l \in Nat /\ l >= 1 /\ l >= Width /\ Resolves(cur + l + 2)
  BY <1>1, <1>2, PutLenIs
<1> HIDE DEF l
<1>4. c \in Cell /\ c.what = "rec" /\ c.len = l /\ Step(c) = l + 2 /\ ~IsEOF(c)
  BY <1>3, RecIs
<1>5. cur \in Addr /\ cur + l \in Addr /\ cur + l + 2 \in Addr /\ cur + Step(c) = cur + l + 2
  BY <1>1, <1>2, <1>3, <1>4, AddrIs
<1> HIDE DEF c
<1>6. Writes(cur, c, TRUE, TRUE)
  BY <1>3, <1>4, <1>5 DEF Writes
<1>7. tape' = NewTape(cur, c, TRUE, TRUE)
  <2>1. tape' = [a \in Addr |-> IF a < cur THEN tape[a]
                                ELSE IF a = cur THEN c
                                ELSE IF a = cur + l THEN Post(cur)
                                ELSE IF a = cur + l + 2 THEN Mark(EOF) ELSE Blank]
    BY <1>2 DEF Cells, c
  <2> QED
    BY <1>4, <1>5, <2>1 DEF NewTape
<1>8. cur' = cur + Step(c) /\ Resolves(cur + Step(c))
  BY <1>2, <1>3, <1>5
<1>9. NewEnd(cur, c, TRUE, TRUE) = cur + l + 3
  BY <1>1, <1>3, <1>4 DEF NewEnd
<1>10. Grows(cur + l + 3)
  BY <1>2 DEF Grows, Grown
<1> QED
  BY <1>2, <1>4, <1>5, <1>6, <1>7, <1>8, <1>9, <1>10 DEF WriteStep

LEMMA TornPutWrites ==
  ASSUME TypeInv, NEW n \in Lens, NEW k \in Keys, NEW d \in 1..2, TornPut(n, k, d)
  PROVE  WriteStep
<1> DEFINE l == PutLen(cur, n)
           c == Rec(l, k)
           posted == (d = 2)
<1>1. cur \in Nat /\ n \in Nat \ {0} /\ MaxAddr \in Nat /\ n >= Width /\ Width \in Nat
  BY SeqAssumption DEF TypeInv
<1>2. /\ Attached /\ ret.code # "lost" /\ st = "open" /\ st' = "closed" /\ ret' = NoRet
      /\ cur + l + 2 <= MaxAddr /\ cur' = 0
      /\ tape' = Cells([a \in IF d = 1 THEN {cur} ELSE {cur, cur + l} |->
                          IF a = cur THEN Rec(l, k) ELSE Post(cur)], cur)
      /\ Grows(IF d = 1 THEN cur + l ELSE cur + l + 2)
  BY DEF TornPut, Writing, Ready, Forgotten, Grows
<1>3. l \in Nat /\ l >= 1 /\ l >= Width /\ Resolves(cur + l + 2)
  BY <1>1, <1>2, PutLenIs
<1> HIDE DEF l
<1>4. c \in Cell /\ c.what = "rec" /\ c.len = l /\ Step(c) = l + 2 /\ ~IsEOF(c)
  BY <1>3, RecIs
<1>5. cur \in Addr /\ cur + l \in Addr /\ cur + Step(c) = cur + l + 2
  BY <1>1, <1>2, <1>3, <1>4, AddrIs
<1> HIDE DEF c
<1>6. Writes(cur, c, posted, FALSE)
  BY <1>3, <1>4, <1>5 DEF Writes
<1>7. tape' = NewTape(cur, c, posted, FALSE)
  <2>1. tape' = [a \in Addr |-> IF a < cur THEN tape[a]
                                ELSE IF a = cur THEN c
                                ELSE IF d = 2 /\ a = cur + l THEN Post(cur) ELSE Blank]
    BY <1>2 DEF Cells, c
  <2> QED
    BY <1>4, <2>1 DEF NewTape
<1>8. Resolves(cur + Step(c))
  BY <1>3, <1>5
<1>9. NewEnd(cur, c, posted, FALSE) = IF d = 1 THEN cur + l ELSE cur + l + 2
  BY <1>1, <1>3, <1>4 DEF NewEnd
<1>10. Grows(NewEnd(cur, c, posted, FALSE))
  BY <1>2, <1>9
<1>11. posted \in BOOLEAN
  OBVIOUS
<1> HIDE DEF posted
<1> QED
  BY <1>2, <1>4, <1>5, <1>6, <1>7, <1>8, <1>10 DEF WriteStep

LEMMA WeoWrites ==
  ASSUME TypeInv, NEW l \in Levels \cup {EOF}, Weo(l)
  PROVE  WriteStep
<1> DEFINE c == Mark(l)
           closed == (l < EOF)
           p == IF l < EOF THEN cur + 1 ELSE cur
<1>1. cur \in Nat /\ MaxAddr \in Nat /\ HeaderLen \in Nat /\ Cap \in Nat
      /\ l \in Nat /\ l <= EOF /\ EOF \in Nat
  BY SeqAssumption DEF TypeInv, EOF
<1>2. /\ Attached /\ ret.code # "lost" /\ st = "open" /\ st' = st /\ ret' = NoRet
      /\ p <= MaxAddr /\ cur' = p /\ (LateMarks \/ l = EOF \/ cur < Cap)
      /\ tape' = Cells([a \in cur..p |-> IF a = cur THEN Mark(l) ELSE Mark(EOF)], cur)
      /\ Grows(p + 1)
  BY DEF Weo, Writing, Ready, InMemory, Grows, Grown
<1>3. /\ c \in Cell /\ c.what = "mark" /\ c.len = 1 /\ Step(c) = 1 /\ (IsEOF(c) <=> l = EOF)
      /\ c.key = "none" /\ c.n = l
  BY <1>1, MarkIs
<1>4. cur \in Addr /\ (l < EOF => cur + 1 \in Addr)
  BY <1>1, <1>2, AddrIs
<1> HIDE DEF c
<1>5. Writes(cur, c, FALSE, closed)
  BY <1>1, <1>3, <1>4 DEF Writes
<1>6. tape' = NewTape(cur, c, FALSE, closed)
  <2>1. \A a \in Addr : a \in Nat
    BY AddrIs
  <2>2. \A a \in Addr : a \in cur..p <=> a = cur \/ (l < EOF /\ a = cur + 1)
    BY <1>1, <2>1
  <2>3. tape' = [a \in Addr |-> IF a < cur THEN tape[a]
                                ELSE IF a = cur THEN c
                                ELSE IF l < EOF /\ a = cur + 1 THEN Mark(EOF) ELSE Blank]
    <3> HIDE DEF p
    <3> QED
      BY <1>2, <2>2 DEF Cells, c
  <2> QED
    BY <1>3, <2>3 DEF NewTape
<1>7. ~LateMarks /\ ~IsEOF(c) => Resolves(cur + Step(c))
  BY <1>1, <1>2, <1>3, FirstCluster
<1>8. \/ closed /\ cur' = cur + Step(c)
      \/ ~closed /\ IsEOF(c) /\ cur' = cur
  BY <1>1, <1>2, <1>3
<1>9. NewEnd(cur, c, FALSE, closed) = p + 1
  BY <1>1, <1>3 DEF NewEnd
<1> HIDE DEF closed
<1> QED
  BY <1>2, <1>3, <1>4, <1>5, <1>6, <1>7, <1>8, <1>9 DEF WriteStep

LEMMA TornWeoWrites ==
  ASSUME TypeInv, NEW l \in Levels, TornWeo(l)
  PROVE  WriteStep
<1> DEFINE c == Mark(l)
<1>1. cur \in Nat /\ MaxAddr \in Nat /\ HeaderLen \in Nat /\ Cap \in Nat /\ l \in Nat
  BY SeqAssumption DEF TypeInv
<1>2. /\ Attached /\ ret.code # "lost" /\ st = "open" /\ st' = "closed" /\ ret' = NoRet
      /\ cur + 1 <= MaxAddr /\ cur' = 0 /\ (LateMarks \/ cur < Cap)
      /\ tape' = Cells([a \in {cur} |-> Mark(l)], cur)
      /\ Grows(cur + 1)
  BY DEF TornWeo, Writing, Ready, Forgotten, Grows
<1>3. /\ c \in Cell /\ c.what = "mark" /\ c.len = 1 /\ Step(c) = 1 /\ ~IsEOF(c)
      /\ c.key = "none" /\ c.n = l
  <2>1. l # EOF
    BY SeqAssumption DEF EOF
  <2> QED
    BY <1>1, <2>1, MarkIs
<1>4. cur \in Addr
  BY <1>1, <1>2, AddrIs
<1> HIDE DEF c
<1>5. Writes(cur, c, FALSE, FALSE)
  BY <1>3, <1>4 DEF Writes
<1>6. tape' = NewTape(cur, c, FALSE, FALSE)
  BY <1>2 DEF Cells, NewTape, c
<1>7. ~LateMarks => Resolves(cur + Step(c))
  BY <1>1, <1>2, <1>3, FirstCluster
<1>8. NewEnd(cur, c, FALSE, FALSE) = cur + 1
  BY <1>3 DEF NewEnd
<1> QED
  BY <1>2, <1>3, <1>4, <1>5, <1>6, <1>7, <1>8 DEF WriteStep

-----------------------------------------------------------------------------
(* The other calls.                                                        *)

LEMMA DeleteKeepsShape ==
  ASSUME TypeInv, NEW h, Delete(h)
  PROVE  SameShape
<1> DEFINE a == AddressOf(h)
<1>1. CASE UNCHANGED tape
  BY <1>1 DEF SameShape, TypeInv, TapeTyped
<1>2. CASE tape' = [tape EXCEPT ![a].what = "dead"] /\ At(a).what = "rec"
  <2>1. a \in Addr /\ tape[a].what = "rec"
    BY <1>2 DEF At, Blank
  <2> HIDE DEF a
  <2>2. tape \in [Addr -> Cell] /\ tape[a] \in Cell
    BY <2>1 DEF TypeInv, TapeTyped
  <2>3. [tape[a] EXCEPT !.what = "dead"] \in Cell
    BY <2>2 DEF Cell
  <2>4. tape' = [tape EXCEPT ![a] = [tape[a] EXCEPT !.what = "dead"]]
    BY <1>2, <2>1, <2>2
  <2>5. tape' \in [Addr -> Cell]
    BY <2>2, <2>3, <2>4
  <2>6. /\ [tape[a] EXCEPT !.what = "dead"].len = tape[a].len
        /\ [tape[a] EXCEPT !.what = "dead"].n = tape[a].n
        /\ [tape[a] EXCEPT !.what = "dead"].what = "dead"
    BY <2>2 DEF Cell
  <2>7. \A b \in Addr : b # a => tape'[b] = tape[b]
    BY <2>2, <2>4
  <2>8. tape'[a].len = tape[a].len /\ tape'[a].n = tape[a].n /\ tape'[a].what = "dead"
    BY <2>1, <2>2, <2>4, <2>6
  <2> QED
    BY <2>1, <2>5, <2>7, <2>8 DEF SameShape, TapeTyped
<1> QED
  BY <1>1, <1>2 DEF Delete

LEMMA ShapeTypes ==
  ASSUME TypeInv, SameShape
  PROVE  TapeTyped' /\ CellsHaveLengths'
BY DEF TypeInv, SameShape, TapeTyped, CellsHaveLengths, IsRecord

LEMMA LocateTypes ==
  ASSUME TypeInv, NEW from, from \in Nat, NEW K, K \in Targets, NEW after,
         after \in Nat \cup {-1}, Locate(from, K, after)
  PROVE  TypeInv'
<1> DEFINE w == Walk(K, from)
           h == IF w.last = -1 THEN head ELSE HeaderAt(w.last)
           r == [NoRet EXCEPT !.for = K, !.after = after]
<1> SUFFICES ASSUME ~GoesAstray PROVE TypeInv'
  BY AstrayTypes
<1>1. w \in WalkSet
  BY WalkEnds DEF TypeInv
<1>2. /\ cur' = w.cur \/ cur' = w.cur + 1
      /\ head' = h /\ validpos' = w.found
      /\ ret' = IF w.found THEN [r EXCEPT !.code = "found", !.handle = HandleOf(w.last)]
                ELSE [r EXCEPT !.code = "end", !.n = EofLevel(h.cell)]
      /\ UNCHANGED <<st, mode, tape, bof, lengths>>
  BY DEF Locate
<1> HIDE DEF w
<1>3. w.cur \in Nat /\ w.found \in BOOLEAN /\ w.last \in Nat \cup {-1}
      /\ (w.found => w.last \in Nat)
  BY <1>1 DEF WalkSet
<1>4. h.at \in Nat /\ h.cell \in Cell
  BY <1>3, AtTyped DEF TypeInv, HeaderAt
<1> HIDE DEF h
<1>5. EofLevel(h.cell) \in Nat
  BY <1>4 DEF EofLevel, Cell
<1>6. K \in SUBSET (Keys \cup {"none"})
  BY DEF Targets
<1>7. r \in Answers
  BY <1>6, NoRetIs DEF Answers
<1> HIDE DEF r
<1>8. ret' \in Answers
  <2>1. CASE w.found
    <3>1. HandleOf(w.last) \in [cluster : 0..3, addr : Nat]
      BY <1>3, <2>1, HandleIs
    <3> QED
      BY <1>2, <1>7, <2>1, <3>1 DEF Answers
  <2>2. CASE ~w.found
    BY <1>2, <1>5, <1>7, <2>2 DEF Answers
  <2> QED
    BY <2>1, <2>2
<1>9. TapeTyped' /\ CellsHaveLengths'
  BY <1>2 DEF TypeInv, TapeTyped, CellsHaveLengths
<1>10. TypeSizes' /\ modified' \in BOOLEAN
  BY <1>2 DEF TypeInv, TypeSizes, lengths
<1> QED
  BY <1>2, <1>3, <1>4, <1>8, <1>9, <1>10 DEF TypeInv

\* A record's address is in its handle, as far as the handle can hold it.
LEMMA HandlesAre ==
  ASSUME TypeInv, NEW h \in Handles
  PROVE  \E a \in Addr : IsRecord(tape[a]) /\ h = HandleOf(a) /\ AddressOf(h) \in Nat
<1>1. PICK a \in Records : h = HandleOf(a)
  BY DEF Handles
<1>2. a \in Addr /\ IsRecord(tape[a])
  BY <1>1, RecordsAre DEF TypeInv
<1>3. AddressOf(h) \in Nat
  BY <1>1, <1>2, HandleIs, AddrIs
<1> QED
  BY <1>1, <1>2, <1>3

LEMMA AppTypes ==
  ASSUME TypeInv, App
  PROVE  TypeInv'
<1> DEFINE w == AppendWalk(cur)
<1> SUFFICES ASSUME ~GoesAstray PROVE TypeInv'
  BY AstrayTypes
<1>1. w \in AppendSet
  BY AppendWalkEnds DEF TypeInv
<1>2. /\ cur' = w.cur /\ ret' = StillFound
      /\ head' = IF At(w.cur).what = "mark" THEN HeaderAt(w.cur)
                 ELSE [at |-> LastRead(w.last), cell |-> Mark(EOF)]
      /\ UNCHANGED <<st, mode, tape, bof, validpos, lengths>>
  BY DEF App
<1> HIDE DEF w
<1>3. w.cur \in Nat /\ w.last \in Nat \cup {-1}
  BY <1>1 DEF AppendSet
<1>4. LastRead(w.last) \in Nat
  BY <1>3 DEF LastRead, TypeInv
<1>5. head'.at \in Nat /\ head'.cell \in Cell
  <2>1. At(w.cur) \in Cell /\ Mark(EOF) \in Cell
    BY AtTyped, CellsTyped DEF TypeInv
  <2> QED
    BY <1>2, <1>3, <1>4, <2>1 DEF HeaderAt
<1>6. ret' \in Answers
  BY <1>2, StillFoundIs
<1>7. TapeTyped' /\ CellsHaveLengths'
  BY <1>2 DEF TypeInv, TapeTyped, CellsHaveLengths
<1>8. TypeSizes' /\ modified' \in BOOLEAN
  BY <1>2 DEF TypeInv, TypeSizes, lengths
<1> QED
  BY <1>2, <1>3, <1>5, <1>6, <1>7, <1>8 DEF TypeInv

LEMMA ReadTypes ==
  ASSUME TypeInv, Read
  PROVE  TypeInv'
<1>1. At(head.at).key \in Keys \cup {"none"}
  BY AtTyped DEF TypeInv, Cell
<1>2. [ret EXCEPT !.code = "read", !.for = {At(head.at).key}, !.after = -1] \in Answers
  BY <1>1 DEF TypeInv, Answers
<1>3. ret' \in Answers
  BY <1>2, NoRetIs DEF Read
<1>4. TapeTyped' /\ CellsHaveLengths'
  BY DEF TypeInv, Read, TapeTyped, CellsHaveLengths
<1>5. TypeSizes' /\ modified' \in BOOLEAN
  BY DEF TypeInv, Read, TypeSizes, lengths
<1> QED
  BY <1>3, <1>4, <1>5 DEF TypeInv, Read

LEMMA WriteTypes ==
  ASSUME TypeInv, WriteStep
  PROVE  TapeTyped' /\ CellsHaveLengths' /\ TypeSizes' /\ cur' \in Nat
<1>1. PICK c, posted, closed :
        /\ Writes(cur, c, posted, closed)
        /\ tape' = NewTape(cur, c, posted, closed)
        /\ cur' = 0 \/ cur' = cur \/ cur' = cur + Step(c)
        /\ Grows(NewEnd(cur, c, posted, closed))
  BY DEF WriteStep
<1>2. /\ c \in Cell /\ c.len >= 1 /\ c.what \in {"rec", "mark"} /\ (c.what = "mark" => c.len = 1)
      /\ c.what = "rec" => c.len >= Width
  BY <1>1 DEF Writes
<1>3. TapeTyped' /\ CellsHaveLengths'
  <2>1. PICK p : p = cur
    OBVIOUS
  <2>2. tape' = NewTape(p, c, posted, closed)
    BY <1>1, <2>1
  <2> QED
    BY <1>2, <2>1, <2>2, WrittenTypes
<1>4. Step(c) \in Nat /\ c.len \in Nat
  BY <1>2 DEF Step, Cell
<1>5. TypeSizes'
  <2> DEFINE e == NewEnd(cur, c, posted, closed)
  <2>1. e \in Nat
    BY <1>4 DEF NewEnd, TypeInv
  <2>2. Grows(e)
    BY <1>1
  <2> HIDE DEF e
  <2> QED
    BY <2>1, <2>2 DEF Grows, TypeInv, TypeSizes
<1> QED
  BY <1>1, <1>3, <1>4, <1>5 DEF TypeInv

LEMMA TypeStep == TypeInv /\ [Next]_seqVars => TypeInv'
<1> SUFFICES ASSUME TypeInv, [Next]_seqVars PROVE TypeInv'
  OBVIOUS
<1>1. ASSUME NEW n \in Lens, NEW k \in Keys, Put(n, k) PROVE TypeInv'
  <2>1. TapeTyped' /\ CellsHaveLengths' /\ TypeSizes' /\ cur' \in Nat
    BY <1>1, PutWrites, WriteTypes
  <2>2. ret' \in Answers /\ InMemory /\ modified' \in BOOLEAN
    BY <1>1, NoRetIs DEF Put
  <2> QED
    BY <2>1, <2>2 DEF TypeInv, InMemory
<1>2. ASSUME NEW n \in Lens, NEW k \in Keys, NEW d \in 1..2, TornPut(n, k, d) PROVE TypeInv'
  <2>1. TapeTyped' /\ CellsHaveLengths' /\ TypeSizes'
    BY <1>2, TornPutWrites, WriteTypes
  <2> QED
    BY <1>2, <2>1, ForgottenTypes DEF TornPut, TypeSizes
<1>3. ASSUME NEW l \in Levels \cup {EOF}, Weo(l) PROVE TypeInv'
  <2>1. TapeTyped' /\ CellsHaveLengths' /\ TypeSizes' /\ cur' \in Nat
    BY <1>3, WeoWrites, WriteTypes
  <2>2. ret' \in Answers /\ InMemory /\ modified' \in BOOLEAN
    BY <1>3, NoRetIs DEF Weo, TypeInv
  <2> QED
    BY <2>1, <2>2 DEF TypeInv, InMemory
<1>4. ASSUME NEW l \in Levels, TornWeo(l) PROVE TypeInv'
  <2>1. TapeTyped' /\ CellsHaveLengths' /\ TypeSizes'
    BY <1>4, TornWeoWrites, WriteTypes
  <2> QED
    BY <1>4, <2>1, ForgottenTypes DEF TornWeo, TypeSizes
<1>5. ASSUME NEW h, Delete(h) PROVE TypeInv'
  <2>1. TapeTyped' /\ CellsHaveLengths'
    BY <1>5, DeleteKeepsShape, ShapeTypes
  <2>2. ret' \in Answers /\ cur' = cur /\ InMemory /\ modified' \in BOOLEAN /\ TypeSizes'
    BY <1>5, NoRetIs DEF Delete, TypeInv, TypeSizes
  <2> QED
    BY <2>1, <2>2 DEF TypeInv, InMemory
<1>6. ASSUME Create PROVE TypeInv'
  <2>1. FileHead \in Cell /\ FileHead.len >= 1 /\ FileHead.what = "head" /\ HeaderLen \in Nat
    <3>1. FileHead \in Cell /\ FileHead.len = HeaderLen /\ FileHead.what = "head"
      BY CellsTyped
    <3> QED
      BY <3>1, SeqAssumption
  <2>2. TapeTyped' /\ CellsHaveLengths'
    <3>1. tape \in [Addr -> Cell] /\ 0 \in Addr /\ tape' = [tape EXCEPT ![0] = FileHead]
      BY <1>6, AddrIs DEF TypeInv, TapeTyped, Create
    <3>2. tape' \in [Addr -> Cell]
      BY <2>1, <3>1
    <3>3. tape'[0] = FileHead /\ \A a \in Addr : a # 0 => tape'[a] = tape[a]
      BY <3>1
    <3> QED
      BY <2>1, <3>2, <3>3 DEF TypeInv, TapeTyped, CellsHaveLengths, IsRecord
  <2>3. /\ st' = "open" /\ mode' = "CREATE" /\ cur' = HeaderLen /\ bof' = 0 /\ ret' = NoRet
        /\ UNCHANGED <<head, validpos>>
        /\ disk' = HeaderLen /\ size' = disk' /\ eff' = disk' /\ modified' = TRUE
    BY <1>6 DEF Create, Opened
  <2> QED
    BY <2>1, <2>2, <2>3, NoRetIs DEF TypeInv, TypeSizes
<1>7. ASSUME NEW m \in Modes, Open(m) PROVE TypeInv'
  <2>1. /\ st' = "open" /\ mode' = m /\ cur' = HeaderLen /\ bof' = HeaderLen /\ ret' = NoRet
        /\ UNCHANGED <<head, validpos, tape, disk, modified>>
        /\ size' = disk' /\ eff' = disk'
    BY <1>7 DEF Open, Opened
  <2>2. HeaderLen \in Nat /\ m \in {"RDMODE", "RWMODE", "APPEND"}
    BY SeqAssumption
  <2>3. TapeTyped' /\ CellsHaveLengths'
    BY <2>1 DEF TypeInv, TapeTyped, CellsHaveLengths
  <2> QED
    BY <2>1, <2>2, <2>3, NoRetIs DEF TypeInv, TypeSizes
<1>8. ASSUME Leave \/ Crash PROVE TypeInv'
  <2>1. TapeTyped' /\ CellsHaveLengths' /\ Forgotten
    BY <1>8 DEF Leave, Crash, TypeInv, TapeTyped, CellsHaveLengths
  <2>2. disk' \in Nat
    BY <1>8 DEF Leave, Crash, TypeInv, TypeSizes
  <2> QED
    BY <2>1, <2>2, ForgottenTypes
<1>9. ASSUME Rewind PROVE TypeInv'
  <2>1. /\ cur' = bof /\ validpos' = FALSE /\ ret' = StillFound
        /\ UNCHANGED <<st, mode, tape, bof, head, lengths>>
    BY <1>9 DEF Rewind, Moved
  <2>2. bof \in Nat
    BY SeqAssumption DEF TypeInv
  <2> QED
    BY <2>1, <2>2, MovedTypes
<1>10. ASSUME SkipForward PROVE TypeInv'
  <2> SUFFICES ASSUME ~GoesAstray PROVE TypeInv'
    BY AstrayTypes
  <2>1. At(cur).len \in Nat /\ cur \in Nat
    BY AtTyped DEF TypeInv, Cell
  <2>2. /\ cur' \in {cur, cur + At(cur).len, cur + 2, cur + At(cur).len + 2}
        /\ validpos' = validpos /\ ret' = StillFound
        /\ UNCHANGED <<st, mode, tape, bof, head, lengths>>
    BY <1>10 DEF SkipForward, Moved
  <2>3. cur' \in Nat /\ validpos' \in BOOLEAN
    BY <2>1, <2>2 DEF TypeInv
  <2> QED
    BY <2>2, <2>3, MovedTypes
<1>11. ASSUME SkipBack PROVE TypeInv'
  <2> SUFFICES ASSUME ~GoesAstray PROVE TypeInv'
    BY AstrayTypes
  <2>1. At(cur - 2).n \in Nat /\ cur \in Nat
    BY AtTyped DEF TypeInv, Cell
  <2>2. /\ cur' \in {cur, At(cur - 2).n}
        /\ validpos' = validpos /\ ret' = StillFound
        /\ UNCHANGED <<st, mode, tape, bof, head, lengths>>
    BY <1>11 DEF SkipBack, Moved
  <2>3. cur' \in Nat /\ validpos' \in BOOLEAN
    BY <2>1, <2>2 DEF TypeInv
  <2> QED
    BY <2>2, <2>3, MovedTypes
<1>12. ASSUME NEW K \in Targets, FindNext(K) PROVE TypeInv'
  BY <1>12, LocateTypes DEF FindNext, TypeInv
<1>13. ASSUME NEW h \in Handles, NEW K \in Targets, FindAfter(h, K) PROVE TypeInv'
  <2> DEFINE a == AddressOf(h)
  <2>1. a \in Nat
    BY HandlesAre
  <2>2. At(a).len \in Nat
    BY AtTyped DEF TypeInv, Cell
  <2>3. Locate(a + At(a).len, K, a)
    BY <1>13 DEF FindAfter
  <2> HIDE DEF a
  <2>4. a + At(a).len \in Nat
    BY <2>1, <2>2
  <2> QED
    BY <2>1, <2>3, <2>4, LocateTypes
<1>14. CASE UNCHANGED seqVars
  BY <1>14 DEF seqVars, TypeInv, TapeTyped, CellsHaveLengths, TypeSizes
<1> QED
  BY <1>1, <1>2, <1>3, <1>4, <1>5, <1>6, <1>7, <1>8, <1>9, <1>10, <1>11, <1>12, <1>13, <1>14,
     AppTypes, ReadTypes DEF Next

LEMMA TypesHold == Spec => []TypeInv
BY TypeInit, TypeStep, PTL DEF Spec

\* Every variable has its type, whatever is written, searched or skipped.
THEOREM TypeCorrect == Spec => []TypeOK
BY TypesHold, TypeInvIsEnough, PTL

-----------------------------------------------------------------------------
(* The tape, the handles and the position.                                 *)

\* The position is where a record or a mark may begin, or nothing follows it, or it is on the
\* last postfix.
Positioned == cur = 0 \/ Stand(cur) \/ LastPost(cur)

\* The record found last stands on the tape.
FoundStands ==
  ret.code = "found" => AddressOf(ret.handle) \in Addr /\ Item(AddressOf(ret.handle))

SeqInv == TypeInv /\ TapeInv /\ Sizes /\ BoundariesResolve /\ Positioned /\ FoundStands

LEMMA SeqInit == Init => SeqInv
<1> SUFFICES ASSUME Init PROVE SeqInv
  OBVIOUS
<1>1. TypeInv
  BY TypeInit
<1>2. st = "none" /\ cur = 0 /\ \A a \in Addr : tape[a] = Blank
  BY DEF Init
<1>3. \A a \in Addr : ~Item(a) /\ ~IsRecord(tape[a]) /\ tape[a].what # "post"
  BY <1>2, CellsTyped DEF Item, IsRecord
<1>4. TapeInv
  <2>1. \A a \in Addr : ~Torn(a) /\ ~Ends(a) /\ tape[a].what # "mark"
    BY <1>3 DEF Torn, Ends, Item
  <2>2. TapeTyped /\ CellsHaveLengths /\ HeaderStands
    BY <1>1, <1>2 DEF TypeInv, HeaderStands
  <2>3. MarksHaveNoKey /\ ItemsFollow /\ ItemsApart /\ PostsLead /\ LastIsLast
    BY <1>3, <2>1 DEF MarksHaveNoKey, ItemsFollow, ItemsApart, PostsLead, LastIsLast
  <2> QED
    BY <2>2, <2>3 DEF TapeInv
<1>5. Resolves(HeaderLen)
  BY FirstCluster, SeqAssumption
<1>6. BoundariesResolve
  BY <1>3, <1>5 DEF BoundariesResolve, Boundary
<1>7. FoundStands
  BY DEF Init, FoundStands, NoRet
<1>8. Sizes
  BY <1>2 DEF Sizes
<1> QED
  BY <1>1, <1>2, <1>4, <1>6, <1>7, <1>8 DEF SeqInv, Positioned

\* A step that writes nothing or marks a record as deleted.
LEMMA SizesStay ==
  ASSUME TapeInv, Sizes, SameShape, st' = st, UNCHANGED <<size, eff, disk>>
  PROVE  Sizes'
<1>1. PICK s, e, d : s = size /\ e = eff /\ d = disk
  OBVIOUS
<1>2. size' = s /\ eff' = e /\ disk' = d
  BY <1>1
<1>3. Closed' = Closed /\ (Within(d)' <=> Within(d)) /\ (Within(s)' <=> Within(s))
  BY Shaped
<1>4. /\ st # "none" => Within(d)
      /\ st = "open" => Within(s) /\ s <= e /\ e <= d /\ (~Closed => s = d)
  BY <1>1 DEF Sizes
<1>5. /\ st' # "none" => Within(d)'
      /\ st' = "open" => Within(s)' /\ s <= e /\ e <= d /\ (~Closed' => s = d)
  BY <1>3, <1>4
<1> HIDE DEF SameShape
<1> QED
  BY <1>2, <1>5 DEF Sizes, Within

\* The file is opened or left.
LEMMA SizesTurn ==
  ASSUME TapeInv, Sizes, TypeSizes, UNCHANGED tape,
         \/ st = "closed" /\ st' = "open" /\ disk' = disk /\ size' = disk' /\ eff' = disk'
         \/ st = "open" /\ st' = "closed" /\ disk' \in {size, disk}
  PROVE  Sizes'
<1>1. CASE st = "closed" /\ st' = "open" /\ disk' = disk /\ size' = disk' /\ eff' = disk'
  <2>1. Within(disk)
    BY <1>1 DEF Sizes
  <2>2. Within(disk)' /\ Within(size)'
    BY <1>1, <2>1 DEF Within
  <2> QED
    BY <1>1, <2>2 DEF Sizes, TypeSizes
<1>2. CASE st = "open" /\ st' = "closed" /\ disk' \in {size, disk}
  <2>1. Within(disk) /\ Within(size)
    BY <1>2 DEF Sizes
  <2>2. Within(disk)'
    BY <1>2, <2>1 DEF Within
  <2> QED
    BY <1>2, <2>2 DEF Sizes
<1> QED
  BY <1>1, <1>2

\* A step that writes nothing or marks a record as deleted, and leaves the position where it
\* may be.
LEMMA KeepsSeq ==
  ASSUME SeqInv, TypeInv', SameShape, st' = "none" <=> st = "none", Sizes',
         cur' = 0 \/ Boundary(cur') \/ LastPost(cur') \/ (Past(cur') /\ disk' = disk),
         \/ ret'.code # "found"
         \/ ret.code = "found" /\ ret'.handle = ret.handle
         \/ AddressOf(ret'.handle) \in Addr /\ Item(AddressOf(ret'.handle))
  PROVE  SeqInv'
<1>1. /\ TapeInv' /\ Closed' = Closed
      /\ \A q : (Boundary(q)' <=> Boundary(q)) /\ (LastPost(q)' <=> LastPost(q))
      /\ \A a \in Addr : Item(a)' <=> Item(a)
  BY Shaped DEF SeqInv
<1>2. BoundariesResolve'
  BY <1>1 DEF SeqInv, BoundariesResolve
<1>3. Positioned'
  <2>1. PICK q : q = cur'
    OBVIOUS
  <2>2. q = 0 \/ Boundary(q)' \/ LastPost(q)' \/ (~Closed' /\ q >= disk')
    BY <1>1, <2>1 DEF Past
  <2> QED
    BY <2>1, <2>2 DEF Positioned, Stand, Boundary, LastPost, Past
<1>4. FoundStands'
  <2> SUFFICES ASSUME ret'.code = "found"
               PROVE  AddressOf(ret.handle)' \in Addr /\ Item(AddressOf(ret.handle))'
    BY DEF FoundStands
  <2>1. PICK h : h = ret'.handle
    OBVIOUS
  <2>2. AddressOf(h) \in Addr /\ Item(AddressOf(h))
    BY <2>1 DEF SeqInv, FoundStands
  <2>3. PICK a : a = AddressOf(h)
    OBVIOUS
  <2>4. Item(a)'
    BY <1>1, <2>2, <2>3
  <2>5. AddressOf(ret.handle)' = a
    BY <2>1, <2>3 DEF AddressOf
  <2> QED
    BY <2>2, <2>3, <2>4, <2>5 DEF Item
<1> QED
  BY <1>1, <1>2, <1>3, <1>4 DEF SeqInv

\* The position at which a call writes.
LEMMA WritePlace ==
  ASSUME TapeInv, Attached
  PROVE  cur >= HeaderLen /\ Boundary(cur) /\ \A t \in Addr : t < cur => ~Torn(t)
<1>1. \A t \in Addr : Torn(t) => Item(t) /\ IsRecord(tape[t])
  BY DEF Torn, IsRecord, Item
<1>2. CASE cur = HeaderLen
  <2>1. \A t \in Addr : Item(t) => t >= HeaderLen
    BY DEF TapeInv, ItemsFollow
  <2>2. HeaderLen >= HeaderLen /\ \A t \in Addr : ~(t >= HeaderLen /\ t < HeaderLen)
    BY AddrIs, SeqAssumption
  <2> QED
    BY <1>1, <1>2, <2>1, <2>2 DEF Boundary
<1>3. ASSUME NEW n \in Addr, Item(n), ~Ends(n), ~Torn(n), Behind(n) = cur
      PROVE  cur >= HeaderLen /\ Boundary(cur) /\ \A t \in Addr : t < cur => ~Torn(t)
  <2>1. n \in Nat /\ n >= HeaderLen /\ Behind(n) \in Nat /\ Behind(n) > n
    BY <1>3, ItemsAre
  <2>2. ASSUME NEW t \in Addr, t < cur, Torn(t) PROVE FALSE
    <3>1. Item(t) /\ t \in Nat /\ t # n
      BY <1>1, <1>3, <2>2, AddrIs
    <3>2. ~(n > t)
      BY <1>3, <2>2 DEF TapeInv, LastIsLast
    <3>3. n < t
      BY <2>1, <3>1, <3>2
    <3>4. Behind(n) <= t
      BY <1>3, <3>1, <3>3 DEF TapeInv, ItemsApart
    <3> QED
      BY <1>3, <2>1, <2>2, <3>1, <3>4
  <2>3. cur >= HeaderLen
    BY <1>3, <2>1, SeqAssumption
  <2>4. Boundary(cur)
    BY <1>3 DEF Boundary
  <2> QED
    BY <2>2, <2>3, <2>4
<1>4. ASSUME NEW b \in Addr, tape[b].what = "post", cur = b + tape[b].len
      PROVE  \E n \in Addr : Item(n) /\ ~Ends(n) /\ ~Torn(n) /\ Behind(n) = cur
  <2>1. PICK n : n = tape[b].n
    OBVIOUS
  <2>2. /\ n \in Addr /\ Item(n) /\ IsRecord(tape[n]) /\ n + tape[n].len = b
        /\ tape[b].len = 2 /\ Behind(n) = b + 2
    BY <1>4, <2>1, PostsAre
  <2>3. ~Ends(n)
    BY <2>2 DEF Ends, IsRecord
  <2>4. ~Torn(n)
    BY <1>4, <2>2 DEF Torn, At
  <2> QED
    BY <1>4, <2>2, <2>3, <2>4
<1>5. ASSUME NEW b \in Addr, IsLesserMark(tape[b]), cur = b + tape[b].len
      PROVE  Item(b) /\ ~Ends(b) /\ ~Torn(b) /\ Behind(b) = cur
  BY <1>5 DEF IsLesserMark, Item, Ends, Torn, IsRecord, Behind, Step
<1> QED
  BY <1>2, <1>3, <1>4, <1>5 DEF Attached

LEMMA WriteKeepsSeq ==
  ASSUME SeqInv, TypeInv', WriteStep
  PROVE  SeqInv' /\ (st' = "open" => Closed') /\ (cur' = 0 \/ Boundary(cur)')
<1>1. cur \in Addr /\ cur >= HeaderLen /\ Boundary(cur) /\ \A t \in Addr : t < cur => ~Torn(t)
  BY WritePlace DEF SeqInv, WriteStep
<1>2. PICK p \in Addr : p = cur
  BY <1>1
<1>3. Boundary(p) /\ p >= HeaderLen /\ \A t \in Addr : t < p => ~Torn(t)
  BY <1>1, <1>2
<1>4. PICK c, posted, closed :
        /\ Writes(p, c, posted, closed)
        /\ tape' = NewTape(p, c, posted, closed)
        /\ cur' = 0 \/ cur' = p \/ (cur' = p + Step(c) /\ ~IsEOF(c))
        /\ ~LateMarks /\ ~IsEOF(c) => Resolves(p + Step(c))
        /\ st' = "open" => closed \/ IsEOF(c)
        /\ Grows(NewEnd(p, c, posted, closed))
  <2>1. PICK c, posted, closed :
        /\ Writes(cur, c, posted, closed)
        /\ tape' = NewTape(cur, c, posted, closed)
        /\ \/ closed /\ cur' = cur + Step(c) /\ st' = "open"
           \/ ~closed /\ ~IsEOF(c) /\ cur' = 0 /\ st' = "closed"
           \/ ~closed /\ IsEOF(c) /\ cur' = cur /\ st' = "open"
        /\ ~LateMarks /\ ~IsEOF(c) => Resolves(cur + Step(c))
        /\ Grows(NewEnd(cur, c, posted, closed))
    BY DEF WriteStep
  <2>2. closed => ~IsEOF(c)
    BY <2>1 DEF Writes
  <2>3. /\ cur' = 0 \/ cur' = p \/ (cur' = p + Step(c) /\ ~IsEOF(c))
        /\ st' = "open" => closed \/ IsEOF(c)
    BY <1>2, <2>1, <2>2
  <2>4. /\ Writes(p, c, posted, closed)
        /\ tape' = NewTape(p, c, posted, closed)
        /\ ~LateMarks /\ ~IsEOF(c) => Resolves(p + Step(c))
        /\ Grows(NewEnd(p, c, posted, closed))
    BY <1>2, <2>1
  <2> QED
    BY <2>3, <2>4
<1>5. st # "none" /\ st' # "none" /\ st = "open"
  BY <1>4 DEF WriteStep, Grows
<1>6. /\ TapeInv'
      /\ Boundary(p)'
      /\ ~IsEOF(c) => Boundary(p + Step(c))'
      /\ \A q \in Addr : Boundary(q)' => Boundary(q) \/ (q = p + Step(c) /\ ~IsEOF(c))
      /\ \A m \in Nat : m >= NewEnd(p, c, posted, closed) => Within(m)'
      /\ closed \/ IsEOF(c) => Closed'
  BY <1>3, <1>4, <1>5, Written DEF SeqInv
<1>7. BoundariesResolve'
  BY <1>4, <1>6 DEF SeqInv, BoundariesResolve
<1>8. cur' = 0 \/ Boundary(cur)'
  BY <1>4, <1>6 DEF Boundary
<1>9. FoundStands'
  BY DEF WriteStep, NoRet, FoundStands
<1>10. Sizes'
  <2>1. PICK e : e = NewEnd(p, c, posted, closed)
    OBVIOUS
  <2>2. /\ size \in Nat /\ eff \in Nat /\ disk \in Nat
        /\ size' \in Nat /\ eff' \in Nat /\ disk' \in Nat
    BY DEF SeqInv, TypeInv, TypeSizes
  <2>3. size <= eff /\ eff <= disk
    BY <1>5 DEF SeqInv, Sizes
  <2>4. Grows(e)
    BY <1>4, <2>1
  <2>5. e \in Nat
    <3>1. p \in Nat /\ c.len \in Nat /\ Step(c) \in Nat
      BY <1>4, AddrIs DEF Writes, Cell, Step
    <3> QED
      BY <2>1, <3>1 DEF NewEnd
  <2>6. disk' >= e /\ Within(disk)'
    <3>1. disk' >= e
      BY <2>2, <2>4, <2>5 DEF Grows
    <3>2. PICK d \in Nat : d = disk'
      BY <2>2
    <3>3. Within(d)'
      BY <1>6, <2>1, <3>1, <3>2
    <3> QED
      BY <3>1, <3>2, <3>3 DEF Within
  <2>7. ASSUME st' = "open" PROVE size' >= e /\ size' <= eff' /\ eff' <= disk'
    BY <2>2, <2>3, <2>4, <2>5, <2>7 DEF Grows
  <2>8. ASSUME st' = "open" PROVE Within(size)'
    <3>1. PICK s \in Nat : s = size'
      BY <2>2
    <3>2. Within(s)'
      BY <1>6, <2>1, <2>7, <2>8, <3>1
    <3> QED
      BY <3>1, <3>2 DEF Within
  <2>9. st' = "open" => Closed'
    BY <1>4, <1>6
  <2> QED
    BY <2>6, <2>7, <2>8, <2>9 DEF Sizes
<1> QED
  BY <1>4, <1>6, <1>7, <1>8, <1>9, <1>10 DEF SeqInv, Positioned, Stand

\* The position is on the way of a walk.
LEMMA PositionOnWay ==
  ASSUME SeqInv
  PROVE  cur \in Nat /\ OnWay(cur)
BY DEF SeqInv, TypeInv, Positioned, OnWay, LastPost

\* No mark is passed on the way forward.
Passes(from, q) ==
  q >= from /\ \A e \in Addr : Item(e) /\ e >= from /\ e < q => tape[e].what # "mark"

\* Where the position may be.
Place(q) == q = 0 \/ Boundary(q) \/ LastPost(q) \/ Past(q)

\* c_fstskp forward passes the header, a record or what is left of one.
LEMMA SkipPasses ==
  ASSUME SeqInv, st = "open", NEW p \in Nat, NEW q \in Nat, ~OldWords(p),
         p = IF At(cur).what \in {"none", "mark"} THEN cur ELSE cur + At(cur).len,
         \/ At(p).what # "post" /\ q = p
         \/ p # cur /\ At(p).what \in {"post", "none"} /\ q = p + 2
  PROVE  (q = cur \/ Stand(q)) /\ Passes(cur, q)
<1> DEFINE c == At(cur)
<1>1. /\ TapeInv /\ Sizes /\ TypeSizes /\ cur \in Nat /\ OnWay(cur) /\ st # "none"
      /\ TapeTyped /\ CellsHaveLengths
  BY PositionOnWay DEF SeqInv, TypeInv
<1>2. CASE c.what \in {"none", "mark"}
  <2>1. p = cur /\ q = cur
    BY <1>2
  <2>2. Passes(cur, cur)
    BY <1>1, AddrIs DEF Passes
  <2> QED
    BY <2>1, <2>2
<1>3. CASE c.what \notin {"none", "mark"}
  <2>1. p = cur + c.len
    BY <1>3
  <2>2. /\ Boundary(cur + Step(c)) /\ OnWay(p)
        /\ \A e \in Addr : Item(e) /\ e > cur => e >= cur + Step(c) /\ e >= p
    BY <1>1, <1>3, <2>1, WayGoesOn
  <2>3. cur + Step(c) \in Nat /\ p > cur
    BY <1>1, <1>3, <2>1, StepOn
  <2>4. \A e \in Addr : Item(e) /\ e = cur => tape[e].what # "mark"
    BY <1>3 DEF At
  <2>5. ASSUME \A e \in Addr : Item(e) /\ e > cur => e >= q PROVE Passes(cur, q)
    BY <1>1, <2>3, <2>4, <2>5, AddrIs DEF Passes
  <2>6. CASE At(p).what = "post"
    <3>1. p \in Addr /\ tape[p].what = "post"
      BY <2>6 DEF At, Blank
    <3>2. ~Boundary(p)
      BY <1>1, <3>1, NoPostAtBoundary
    <3>3. Step(c) = c.len + 2
      BY <2>1, <2>2, <3>2 DEF Step
    <3>4. q = cur + Step(c)
      <4>1. c \in Cell
        BY <1>1, AtTyped
      <4>2. c.len \in Nat
        BY <4>1 DEF Cell
      <4> QED
        BY <1>1, <2>1, <2>6, <3>3, <4>2
    <3> QED
      BY <2>2, <2>5, <3>4 DEF Stand
  <2>7. CASE At(p).what = "none"
    <3>1. Ended(p) /\ (IF p < eff THEN Frayed ELSE Past(p))
      BY <1>1, <2>2, <2>7, NothingFollows
    <3>2. Past(p)
      BY <2>7, <3>1 DEF OldWords
    <3>3. Past(q)
      BY <1>1, <3>2 DEF Past, TypeSizes
    <3>4. \A e \in Addr : Item(e) /\ e > cur => e >= q
      BY <2>2, <3>1, AddrIs DEF Ended
    <3> QED
      BY <2>5, <3>3, <3>4 DEF Stand
  <2>8. CASE At(p).what \notin {"post", "none"}
    <3>1. q = p
      BY <2>8
    <3>2. At(p).what # "head"
      <4>1. p \in Addr /\ At(p) = tape[p] /\ p # 0
        BY <1>1, <2>3, <2>8 DEF At, Blank
      <4> QED
        BY <1>1, <4>1 DEF CellsHaveLengths
    <3>3. Stand(p) \/ Stump(p)
      BY <1>1, <2>2, <2>8, <3>2, WayEnds
    <3>4. ~Stump(p) /\ ~Past(p)
      BY <1>1, <2>8, StumpIs, PastIs DEF Ended
    <3>5. Boundary(q)
      BY <3>1, <3>3, <3>4 DEF Stand
    <3>6. \A e \in Addr : Item(e) /\ e > cur => e >= q
      BY <2>2, <3>1
    <3> QED
      BY <2>5, <3>5, <3>6 DEF Stand
  <2> QED
    BY <2>6, <2>7, <2>8
<1> QED
  BY <1>2, <1>3

\* c_fstskp backward returns to the record before.
LEMMA SkipReturns ==
  ASSUME TapeInv, cur \in Nat, NEW q, At(cur - 2).what = "post", q = At(cur - 2).n
  PROVE  Boundary(q) /\ q \in Nat /\ Passes(q, cur)
<1>1. PICK b : b = cur - 2
  OBVIOUS
<1>2. b \in Addr /\ tape[b].what = "post" /\ q = tape[b].n
  BY <1>1 DEF At, Blank
<1>3. q \in Addr /\ Item(q) /\ Behind(q) = cur /\ IsRecord(tape[q])
  BY <1>1, <1>2, PostsAre
<1>4. Boundary(q) /\ q \in Nat /\ cur > q
  BY <1>3, ItemsAre
<1>5. ASSUME NEW e \in Addr, Item(e), e >= q, e < cur PROVE e = q
  <2>1. ~(q < e)
    <3>1. q < e => cur <= e
      BY <1>3, <1>5 DEF TapeInv, ItemsApart
    <3> QED
      BY <1>5, <3>1, AddrIs
  <2> QED
    BY <1>4, <1>5, <2>1, AddrIs
<1>6. tape[q].what # "mark"
  BY <1>3 DEF IsRecord
<1>7. Passes(q, cur)
  BY <1>4, <1>5, <1>6 DEF Passes
<1> QED
  BY <1>4, <1>7

\* Where the units before the position belong to no item, no end mark stands.
LEMMA StrayIsBehind ==
  ASSUME SeqInv, st = "open", cur - 2 > bof, Within(cur - 2)
  PROVE  ~Closed /\ \A e \in Addr : Item(e) => e < cur
<1>1. TapeInv /\ cur \in Nat /\ bof \in Nat
  BY SeqAssumption DEF SeqInv, TypeInv
<1>2. \A e \in Addr : tape[e].what # "none" => e + tape[e].len <= cur - 2
  BY DEF Within
<1>3. \A e \in Addr : tape[e].what # "none" => e \in Nat /\ tape[e].len \in Nat
  BY <1>1, AddrIs DEF TapeInv, TapeTyped, Cell
<1>4. \A e \in Addr : tape[e].what # "none" => e < cur
  BY <1>1, <1>2, <1>3
<1>5. \A e \in Addr : Item(e) => e < cur
  BY <1>4 DEF Item
<1>6. CASE Past(cur)
  BY <1>5, <1>6 DEF Past
<1>7. CASE Boundary(cur)
  <2>1. ASSUME NEW e \in Addr, Ends(e) PROVE FALSE
    <3>1. Item(e)
      BY <2>1 DEF Ends, Item
    <3>2. e < cur
      BY <1>5, <3>1
    <3> QED
      BY <1>1, <1>7, <2>1, <3>1, <3>2, InFront
  <2> QED
    BY <1>5, <2>1 DEF Closed, Ends
<1>8. ~LastPost(cur) /\ cur # 0
  <2>1. ~LastPost(cur)
    BY <1>1, <1>4 DEF LastPost
  <2>2. cur # 0
    BY <1>1
  <2> QED
    BY <2>1, <2>2
<1> QED
  BY <1>6, <1>7, <1>8 DEF SeqInv, Positioned, Stand

\* What a search returns.
Answered(w, K, after) ==
  ret' = IF w.found
         THEN [code |-> "found", handle |-> HandleOf(w.last), n |-> 0, for |-> K,
               after |-> after]
         ELSE [code |-> "end", handle |-> NoRet.handle, for |-> K, after |-> after,
               n |-> EofLevel((IF w.last = -1 THEN head ELSE HeaderAt(w.last)).cell)]

\* The search finds an item, or the end; or it falls short on the last postfix, or is lost.
LEMMA LocateIs ==
  ASSUME SeqInv, NEW from, from \in Nat, NEW K, NEW after, Locate(from, K, after),
         OnWay(from)
  PROVE  \/ \E w : /\ w \in WalkSet /\ Outcome(K, from, w) /\ ~w.lost
                   /\ \/ cur' = w.cur
                      \/ w.last = -1 /\ FindsNone(w) /\ cur' = w.cur + 1
                   /\ Place(cur') /\ Answered(w, K, after)
                   /\ st = "open" /\ ret.code # "lost"
                   /\ UNCHANGED <<st, mode, tape, bof, lengths>>
         \/ Frayed /\ GoesAstray
<1>1. /\ TapeInv /\ TapeTyped /\ CellsHaveLengths /\ TypeSizes
      /\ st = "open" => Live
  BY DEF SeqInv, TypeInv, Live
<1>2. PICK w : w = Walk(K, from)
  OBVIOUS
<1>3. st = "open" => w \in WalkSet /\ Outcome(K, from, w)
  BY <1>1, <1>2, WalkEnds
<1>4. CASE w.lost /\ GoesAstray
  <2>1. st = "open"
    BY <1>4 DEF GoesAstray, Ready
  <2>2. Frayed
    BY <1>3, <1>4, <2>1 DEF Outcome
  <2> QED
    BY <1>4, <2>2
<1>5. CASE /\ Ready /\ ~w.lost
           /\ cur' = IF w.last = -1 /\ IsLesserMark(head.cell) THEN w.cur + 1 ELSE w.cur
           /\ ret' = IF w.found
                     THEN [[NoRet EXCEPT !.for = K, !.after = after] EXCEPT
                              !.code = "found", !.handle = HandleOf(w.last)]
                     ELSE [[NoRet EXCEPT !.for = K, !.after = after] EXCEPT
                              !.code = "end",
                              !.n = EofLevel((IF w.last = -1 THEN head ELSE HeaderAt(w.last)).cell)]
           /\ UNCHANGED <<st, mode, tape, bof, lengths>>
  <2>1. st = "open" /\ ret.code # "lost" /\ w \in WalkSet /\ Outcome(K, from, w)
    BY <1>3, <1>5 DEF Ready
  <2> DEFINE h == IF w.last = -1 THEN head ELSE HeaderAt(w.last)
             r == [NoRet EXCEPT !.for = K, !.after = after]
  <2>3. ret' = IF w.found THEN [r EXCEPT !.code = "found", !.handle = HandleOf(w.last)]
               ELSE [r EXCEPT !.code = "end", !.n = EofLevel(h.cell)]
    BY <1>5
  <2>4. PICK o, e : o = NoRet.handle /\ e = {}
    OBVIOUS
  <2>7. NoRet = [code |-> "none", handle |-> o, n |-> 0, for |-> e, after |-> -1]
    <3>1. NoRet.handle = [cluster |-> 0, addr |-> 0]
      BY DEF NoRet
    <3> QED
      BY <2>4, <3>1, Zenon DEF NoRet
  <2>8. r = [code |-> "none", handle |-> o, n |-> 0, for |-> K, after |-> after]
    <3> DEFINE s == [NoRet EXCEPT !.for = K]
    <3>1. s = [code |-> "none", handle |-> o, n |-> 0, for |-> K, after |-> -1]
      BY <2>7
    <3>2. r = [s EXCEPT !.after = after]
      OBVIOUS
    <3> HIDE DEF s, r
    <3> QED
      BY <3>1, <3>2
  <2> HIDE DEF r
  <2>9. \A f : [r EXCEPT !.code = "found", !.handle = f] =
               [code |-> "found", handle |-> f, n |-> 0, for |-> K, after |-> after]
    <3> TAKE f
    <3> DEFINE s == [r EXCEPT !.code = "found"]
    <3>1. s = [code |-> "found", handle |-> o, n |-> 0, for |-> K, after |-> after]
      BY <2>8
    <3>2. [r EXCEPT !.code = "found", !.handle = f] = [s EXCEPT !.handle = f]
      OBVIOUS
    <3> HIDE DEF s
    <3> QED
      BY <3>1, <3>2
  <2>10. \A f : [r EXCEPT !.code = "end", !.n = f] =
               [code |-> "end", handle |-> o, n |-> f, for |-> K, after |-> after]
    <3> TAKE f
    <3> DEFINE s == [r EXCEPT !.code = "end"]
    <3>1. s = [code |-> "end", handle |-> o, n |-> 0, for |-> K, after |-> after]
      BY <2>8
    <3>2. [r EXCEPT !.code = "end", !.n = f] = [s EXCEPT !.n = f]
      OBVIOUS
    <3> HIDE DEF s
    <3> QED
      BY <3>1, <3>2
  <2> HIDE DEF h
  <2>5. /\ [r EXCEPT !.code = "found", !.handle = HandleOf(w.last)] =
             [code |-> "found", handle |-> HandleOf(w.last), n |-> 0, for |-> K, after |-> after]
        /\ [r EXCEPT !.code = "end", !.n = EofLevel(h.cell)] =
             [code |-> "end", handle |-> NoRet.handle, for |-> K, after |-> after,
              n |-> EofLevel(h.cell)]
    <3>1. \A f : [code |-> "end", handle |-> o, n |-> f, for |-> K, after |-> after] =
                 [code |-> "end", handle |-> o, for |-> K, after |-> after, n |-> f]
      OBVIOUS
    <3> QED
      BY <2>4, <2>9, <2>10, <3>1, Zenon
  <2>6. Answered(w, K, after)
    BY <2>3, <2>5, Zenon DEF Answered, h
  <2>11. w.cur \in Nat /\ (w.last = -1 => FindsNone(w))
    <3>1. w.cur \in Nat
      BY <2>1 DEF WalkSet
    <3>2. ASSUME NEW b \in Addr, StopsAt(b, w) PROVE w.last # -1
      BY <3>2, AddrIs DEF StopsAt
    <3>3. FallsShort(from, w) => w.last # -1
      BY DEF FallsShort
    <3> QED
      BY <1>5, <2>1, <3>1, <3>2, <3>3 DEF Outcome
  <2>12. cur' = w.cur \/ (w.last = -1 /\ FindsNone(w) /\ cur' = w.cur + 1)
    BY <1>5, <2>11
  <2>13. Stand(w.cur) \/ LastPost(w.cur)
    BY <1>1, <1>5, <2>1, OutcomeStands
  <2>14. Place(cur')
    <3>1. CASE cur' = w.cur
      BY <2>13, <3>1 DEF Place, Stand
    <3>2. CASE FindsNone(w) /\ cur' = w.cur + 1
      BY <1>1, <2>11, <3>2 DEF Place, FindsNone, Past, TypeSizes
    <3> QED
      BY <2>12, <3>1, <3>2
  <2> QED
    BY <1>5, <2>1, <2>6, <2>12, <2>14
<1>6. \/ w.lost /\ GoesAstray
      \/ /\ Ready /\ ~w.lost
         /\ cur' = IF w.last = -1 /\ IsLesserMark(head.cell) THEN w.cur + 1 ELSE w.cur
         /\ ret' = IF w.found
                   THEN [[NoRet EXCEPT !.for = K, !.after = after] EXCEPT
                            !.code = "found", !.handle = HandleOf(w.last)]
                   ELSE [[NoRet EXCEPT !.for = K, !.after = after] EXCEPT
                            !.code = "end",
                            !.n = EofLevel((IF w.last = -1 THEN head ELSE HeaderAt(w.last)).cell)]
         /\ UNCHANGED <<st, mode, tape, bof, lengths>>
  BY <1>2 DEF Locate
<1> QED
  BY <1>4, <1>5, <1>6

\* fstinfx goes on from the postfix of a record, or behind it.
LEMMA AfterIsOnWay ==
  ASSUME SeqInv, ~LateMarks, st # "none", NEW h \in Handles
  PROVE  \E a \in Addr :
           /\ Item(a) /\ IsRecord(tape[a]) /\ h = HandleOf(a) /\ AddressOf(h) = a
           /\ At(a) = tape[a] /\ a + At(a).len \in Nat /\ OnWay(a + At(a).len)
           /\ a + At(a).len > a
           /\ \A e \in Addr : Item(e) => (e > a <=> e >= a + At(a).len)
<1>1. TapeInv /\ TypeInv
  BY DEF SeqInv
<1>2. PICK a \in Addr : IsRecord(tape[a]) /\ h = HandleOf(a)
  BY <1>1, HandlesAre
<1>3. Item(a)
  BY <1>2 DEF IsRecord, Item
<1>4. Boundary(a) /\ a \in Nat /\ tape[a].len \in Nat
  BY <1>1, <1>3, ItemsAre
<1>5. AddressOf(h) = a
  BY <1>2, <1>4 DEF SeqInv, BoundariesResolve, Resolves
<1>6. At(a) = tape[a] /\ At(a).what # "none" /\ ~(At(a).what = "mark" /\ At(a).n = EOF)
  BY <1>2 DEF At, IsRecord
<1>7. OnWay(a)
  BY <1>4 DEF OnWay, Stand
<1>8. OnWay(a + At(a).len) /\ \A e \in Addr : Item(e) /\ e > a => e >= a + At(a).len
  BY <1>1, <1>4, <1>6, <1>7, WayGoesOn
<1>9. a + At(a).len \in Nat /\ a + At(a).len > a
  BY <1>1, <1>4, <1>6, StepOn DEF TapeInv
<1>10. \A e \in Addr : Item(e) => (e > a <=> e >= a + At(a).len)
  BY <1>4, <1>8, <1>9, AddrIs
<1> QED
  BY <1>2, <1>3, <1>5, <1>6, <1>8, <1>9, <1>10

LEMMA CreateKeepsSeq ==
  ASSUME SeqInv, TypeInv', Create
  PROVE  SeqInv'
<1>1. /\ st = "none" /\ st' = "open" /\ cur' = HeaderLen
      /\ tape' = [tape EXCEPT ![0] = FileHead]
  BY DEF Create, Opened
<1>2. tape \in [Addr -> Cell] /\ 0 \in Addr /\ \A a \in Addr : tape[a] = Blank
  BY <1>1, AddrIs DEF SeqInv, TapeInv, TapeTyped, HeaderStands
<1>3. tape'[0] = FileHead /\ \A a \in Addr : a # 0 => tape'[a] = Blank
  BY <1>1, <1>2
<1>4. \A a \in Addr : tape'[a].what \in {"head", "none"}
  BY <1>3, CellsTyped
<1>5. \A a \in Addr : ~Item(a)' /\ ~IsRecord(tape'[a]) /\ tape'[a].what # "post"
  BY <1>4 DEF Item, IsRecord
<1>6. TapeInv'
  <2>1. \A a \in Addr : ~Torn(a)' /\ ~Ends(a)' /\ tape'[a].what # "mark"
    BY <1>5 DEF Torn, Ends, Item
  <2>2. TapeTyped' /\ CellsHaveLengths' /\ HeaderStands'
    BY <1>1, <1>3 DEF TypeInv, HeaderStands
  <2>3. MarksHaveNoKey' /\ ItemsFollow' /\ ItemsApart' /\ PostsLead' /\ LastIsLast'
    BY <1>5, <2>1 DEF MarksHaveNoKey, ItemsFollow, ItemsApart, PostsLead, LastIsLast
  <2> QED
    BY <2>2, <2>3 DEF TapeInv
<1>7. Resolves(HeaderLen)
  BY FirstCluster, SeqAssumption
<1>8. BoundariesResolve'
  BY <1>5, <1>7 DEF BoundariesResolve, Boundary
<1>9. Boundary(cur)'
  BY <1>1 DEF Boundary
<1>10. FoundStands'
  BY DEF Create, Opened, NoRet, FoundStands
<1>11. Sizes'
  <2>1. disk' = HeaderLen /\ size' = HeaderLen /\ eff' = HeaderLen /\ HeaderLen \in Nat
    BY SeqAssumption DEF Create, Opened
  <2>2. \A a \in Addr : tape'[a].what # "none" => a + tape'[a].len <= HeaderLen
    <3> SUFFICES ASSUME NEW a \in Addr, tape'[a].what # "none"
                 PROVE  a + tape'[a].len <= HeaderLen
      OBVIOUS
    <3>1. a = 0
      BY <1>3, CellsTyped
    <3> QED
      BY <1>3, <2>1, <3>1, CellsTyped
  <2> QED
    BY <2>1, <2>2 DEF Sizes, Within
<1> QED
  BY <1>6, <1>8, <1>9, <1>10, <1>11 DEF SeqInv, Positioned, Stand

LEMMA SeqStep ==
  ASSUME ~LateMarks
  PROVE  SeqInv /\ [Next]_seqVars => SeqInv'
<1> SUFFICES ASSUME SeqInv, [Next]_seqVars PROVE SeqInv'
  OBVIOUS
<1>1. TypeInv' /\ TypeInv /\ TapeInv /\ Sizes /\ TypeSizes
  BY TypeStep DEF SeqInv, TypeInv
<1>2. UNCHANGED tape => SameShape
  BY <1>1 DEF SameShape, TypeInv, TapeTyped
<1>3. cur \in Nat /\ OnWay(cur) /\ Place(cur)
  BY PositionOnWay DEF SeqInv, Positioned, Place, Stand
<1>4. Place(HeaderLen) /\ Place(0)
  BY DEF Place, Boundary
<1>5. ASSUME WriteStep PROVE SeqInv'
  BY <1>1, <1>5, WriteKeepsSeq
<1>18. NoRet.code # "found" /\ (StillFound.code = "found" => ret.code = "found" /\ StillFound.handle = ret.handle)
  BY DEF NoRet, StillFound
<1>20. ASSUME NEW h, Delete(h) PROVE SeqInv'
  <2>1. SameShape
    BY <1>1, <1>20, DeleteKeepsShape
  <2>2. cur' = cur /\ st' = st /\ ret' = NoRet /\ UNCHANGED <<size, eff, disk>>
    BY <1>20 DEF Delete, InMemory
  <2>3. Sizes'
    BY <1>1, <2>1, <2>2, SizesStay
  <2> QED
    BY <1>1, <1>3, <1>18, <2>1, <2>2, <2>3, KeepsSeq DEF Place
<1>7. ASSUME NEW m \in Modes, Open(m) PROVE SeqInv'
  <2>1. /\ st = "closed" /\ st' = "open" /\ cur' = HeaderLen /\ UNCHANGED tape /\ ret' = NoRet
        /\ disk' = disk /\ size' = disk' /\ eff' = disk'
    BY <1>7 DEF Open, Opened
  <2>2. Sizes'
    BY <1>1, <2>1, SizesTurn
  <2> QED
    BY <1>1, <1>2, <1>4, <1>18, <2>1, <2>2, KeepsSeq DEF Place
<1>8. ASSUME Leave \/ Crash PROVE SeqInv'
  <2>1. st = "open" /\ st' = "closed" /\ cur' = 0 /\ UNCHANGED tape /\ ret' = NoRet
    BY <1>8 DEF Leave, Crash, Forgotten
  <2>2. disk' \in {size, disk}
    BY <1>8 DEF Leave, Crash
  <2>3. Sizes'
    BY <1>1, <2>1, <2>2, SizesTurn
  <2> QED
    BY <1>1, <1>2, <1>18, <2>1, <2>3, KeepsSeq
<1>19. ASSUME Place(cur'), st' = st, UNCHANGED <<tape, lengths>>,
              \/ ret'.code # "found"
              \/ ret.code = "found" /\ ret'.handle = ret.handle
              \/ AddressOf(ret'.handle) \in Addr /\ Item(AddressOf(ret'.handle))
       PROVE  SeqInv'
  <2>1. UNCHANGED <<size, eff, disk>>
    BY <1>19 DEF lengths
  <2>2. Sizes'
    BY <1>1, <1>2, <1>19, <2>1, SizesStay
  <2> QED
    BY <1>1, <1>2, <1>19, <2>1, <2>2, KeepsSeq DEF Place
<1>21. ASSUME Place(cur'), st' = st, UNCHANGED <<tape, lengths>>, ret' = StillFound
       PROVE  SeqInv'
  BY <1>18, <1>19, <1>21
<1>22. ASSUME GoesAstray PROVE SeqInv'
  <2>1. cur' = cur /\ st' = st /\ UNCHANGED <<tape, lengths>>
    BY <1>22 DEF GoesAstray
  <2>2. ret'.code # "found"
    BY <1>22 DEF GoesAstray, NoRet
  <2>3. Place(cur')
    BY <1>3, <2>1
  <2> QED
    BY <1>19, <2>1, <2>2, <2>3
<1>9. ASSUME Rewind PROVE SeqInv'
  <2>1. st' = st /\ cur' = bof /\ UNCHANGED <<tape, lengths>> /\ ret' = StillFound
    BY <1>9 DEF Rewind, Moved
  <2>2. bof \in {0, HeaderLen}
    BY <1>1 DEF TypeInv
  <2> QED
    BY <1>4, <1>21, <2>1, <2>2
<1>10. ASSUME SkipForward PROVE SeqInv'
  <2>1. PICK p : p = IF At(cur).what \in {"none", "mark"} THEN cur ELSE cur + At(cur).len
    OBVIOUS
  <2>2. \/ GoesAstray
        \/ /\ Ready /\ ~OldWords(p)
           /\ \E q : /\ Moved(q)
                     /\ \/ At(p).what # "post" /\ q = p
                        \/ p # cur /\ At(p).what \in {"post", "none"} /\ q = p + 2
    BY <1>10, <2>1 DEF SkipForward
  <2>3. ASSUME Ready, ~OldWords(p), NEW q, Moved(q),
               \/ At(p).what # "post" /\ q = p
               \/ p # cur /\ At(p).what \in {"post", "none"} /\ q = p + 2
        PROVE  SeqInv'
    <3>1. p \in Nat /\ q \in Nat
      <4>1. At(cur).len \in Nat
        BY <1>1, AtTyped DEF TapeInv, Cell
      <4> QED
        BY <1>3, <2>1, <2>3, <4>1
    <3>2. st = "open" /\ st' = st /\ cur' = q /\ UNCHANGED <<tape, lengths>> /\ ret' = StillFound
      BY <2>3 DEF Ready, Moved
    <3>3. Place(q)
      <4>1. q = cur \/ Stand(q)
        BY <2>1, <2>3, <3>1, <3>2, SkipPasses
      <4> QED
        BY <1>3, <4>1 DEF Place, Stand
    <3> QED
      BY <1>21, <3>2, <3>3
  <2> QED
    BY <1>22, <2>2, <2>3
<1>11. ASSUME SkipBack PROVE SeqInv'
  <2>1. \/ GoesAstray
        \/ /\ st' = st /\ UNCHANGED <<tape, lengths>> /\ ret' = StillFound
           /\ \/ cur' = cur
              \/ At(cur - 2).what = "post" /\ cur' = At(cur - 2).n
    BY <1>11 DEF SkipBack, Moved
  <2>2. At(cur - 2).what = "post" /\ cur' = At(cur - 2).n => Place(cur')
    BY <1>1, <1>3, SkipReturns DEF Place
  <2> QED
    BY <1>3, <1>21, <1>22, <2>1, <2>2
<1>12. ASSUME App PROVE SeqInv'
  <2>1. \/ GoesAstray
        \/ /\ st = "open" /\ st' = st /\ UNCHANGED <<tape, lengths>> /\ ret' = StillFound
           /\ cur' = AppendWalk(cur).cur /\ ~AppendWalk(cur).lost
    BY <1>12 DEF App, Ready
  <2>2. ASSUME st = "open", ~AppendWalk(cur).lost PROVE Place(AppendWalk(cur).cur)
    <3>1. TapeTyped /\ CellsHaveLengths /\ Live
      BY <1>1, <2>2 DEF TypeInv, Live
    <3> QED
      BY <1>3, <2>2, <3>1, AppendWalkEnds DEF Appends, ToMark, Place, Stand
  <2> QED
    BY <1>21, <1>22, <2>1, <2>2
<1>13. ASSUME Read PROVE SeqInv'
  <2>1. st' = st /\ cur' = cur /\ UNCHANGED <<tape, lengths>>
    BY <1>13 DEF Read
  <2>2. ret'.code # "found"
    BY <1>1, <1>13, <1>18 DEF Read, TypeInv, Answers
  <2>3. Place(cur')
    BY <1>3, <2>1
  <2> QED
    BY <1>19, <2>1, <2>2, <2>3
<1>14. ASSUME NEW from, from \in Nat, NEW K, NEW after, Locate(from, K, after), OnWay(from)
       PROVE  SeqInv'
  <2>1. ASSUME NEW w, w \in WalkSet, Outcome(K, from, w), ~w.lost,
               Place(cur'), Answered(w, K, after),
               UNCHANGED <<st, mode, tape, bof, lengths>>
        PROVE  SeqInv'
    <3>1. st' = st /\ UNCHANGED <<tape, lengths>>
      BY <2>1
    <3>2. ret'.code = "found" => w.found /\ ret'.handle = HandleOf(w.last)
      <4>1. w.found => ret'.handle = HandleOf(w.last)
        BY <2>1 DEF Answered
      <4>2. ~w.found => ret'.code = "end"
        BY <2>1 DEF Answered
      <4>3. w.found \in BOOLEAN
        BY <2>1 DEF WalkSet
      <4> QED
        BY <4>1, <4>2, <4>3
    <3>3. ASSUME w.found PROVE LET a == AddressOf(HandleOf(w.last)) IN a \in Addr /\ Item(a)
      <4>1. PICK b \in Addr : Halting(K, b) /\ StopsAt(b, w)
        BY <2>1, <3>3 DEF Outcome, FindsNone, FallsShort
      <4>2. w.last = b /\ Item(b) /\ Boundary(b)
        BY <1>1, <4>1 DEF StopsAt, Halting, TapeInv, ItemsFollow
      <4>3. AddressOf(HandleOf(b)) = b
        BY <4>2 DEF SeqInv, BoundariesResolve, Resolves
      <4> QED
        BY <4>2, <4>3
    <3>4. \/ ret'.code # "found"
          \/ AddressOf(ret'.handle) \in Addr /\ Item(AddressOf(ret'.handle))
      BY <3>2, <3>3
    <3> QED
      BY <1>19, <2>1, <3>1, <3>4
  <2> QED
    BY <1>14, <1>22, <2>1, LocateIs
<1>15. ASSUME NEW K \in Targets, FindNext(K) PROVE SeqInv'
  <2>1. PICK from : from = cur
    OBVIOUS
  <2>2. from \in Nat /\ Locate(from, K, -1) /\ OnWay(from)
    BY <1>3, <1>15, <2>1 DEF FindNext
  <2> QED
    BY <1>14, <2>2
<1>16. ASSUME NEW h \in Handles, NEW K \in Targets, FindAfter(h, K) PROVE SeqInv'
  <2>1. st # "none"
    BY <1>16 DEF FindAfter, Locate, GoesAstray, Ready
  <2>2. PICK a \in Addr : /\ AddressOf(h) = a /\ a + At(a).len \in Nat /\ OnWay(a + At(a).len)
    BY <2>1, AfterIsOnWay
  <2>3. PICK from : from = a + At(a).len
    OBVIOUS
  <2>4. from \in Nat /\ Locate(from, K, a) /\ OnWay(from)
    BY <1>16, <2>2, <2>3 DEF FindAfter
  <2> QED
    BY <1>14, <2>4
<1>17. CASE UNCHANGED seqVars
  <2>1. st' = st /\ cur' = cur /\ UNCHANGED <<tape, lengths>> /\ ret' = ret
    BY <1>17 DEF seqVars, lengths
  <2>2. Place(cur')
    BY <1>3, <2>1
  <2> QED
    BY <1>19, <2>1, <2>2
<1>6. \A h : ~Delete(h) \/ SeqInv'
  BY <1>20
<1> QED
  BY <1>1, <1>5, <1>6, <1>7, <1>8, <1>9, <1>10, <1>11, <1>12, <1>13, <1>15, <1>16, <1>17,
     PutWrites, TornPutWrites, WeoWrites, TornWeoWrites, CreateKeepsSeq DEF Next

LEMMA SeqHolds ==
  ASSUME ~LateMarks
  PROVE  Spec => []SeqInv
<1>1. Init => SeqInv
  BY SeqInit
<1>2. SeqInv /\ [Next]_seqVars => SeqInv'
  BY SeqStep
<1> QED
  BY <1>1, <1>2, PTL DEF Spec

\* A handle gives the address of its record back, in whatever cluster, as long as no mark is
\* written past the first cluster: c_xdfput ends each record where the next one's address is
\* a multiple of the size of its cluster.
THEOREM HandlesGiveBack ==
  ASSUME ~LateMarks
  PROVE  Spec => []HandlesResolve
<1>1. SeqInv => HandlesResolve
  BY HandlesAreRight DEF SeqInv
<1> QED
  BY <1>1, SeqHolds, PTL

\* No sequence of searches, skips, writes, deletions and crashes leaves the position inside
\* a record: it is where a record or a mark may begin, on the last postfix, or past the end of
\* a tape that was never closed.
THEOREM PositionIsOnBoundary ==
  ASSUME ~LateMarks
  PROVE  Spec => []OnBoundary
<1>1. SeqInv => OnBoundary
  BY PositionIsRight DEF SeqInv, Positioned
<1> QED
  BY <1>1, SeqHolds, PTL
-----------------------------------------------------------------------------
(* The tape as a list.                                                     *)

\* s lists the numbers of S in order.
Lists(s, S) ==
  /\ s \in Seq(Nat)
  /\ \A i \in 1..Len(s) : s[i] \in S
  /\ \A i, j \in 1..Len(s) : i < j => s[i] < s[j]
  /\ \A x \in S : \E i \in 1..Len(s) : s[i] = x

\* One number of the list is the i-th of the other too.
LEMMA ListAgrees ==
  ASSUME NEW S, NEW s, NEW t, Lists(s, S), Lists(t, S)
  PROVE  \A i \in 1..Len(s) : i \in 1..Len(t) /\ s[i] = t[i]
<1> DEFINE D == {i \in 1..Len(s) : ~(i \in 1..Len(t) /\ s[i] = t[i])}
<1>1. /\ Len(s) \in Nat /\ Len(t) \in Nat
      /\ \A i \in 1..Len(s) : s[i] \in S /\ s[i] \in Nat
      /\ \A i \in 1..Len(t) : t[i] \in S /\ t[i] \in Nat
  BY DEF Lists
<1>2. /\ \A i, j \in 1..Len(s) : i < j => s[i] < s[j]
      /\ \A i, j \in 1..Len(t) : i < j => t[i] < t[j]
  BY DEF Lists
<1>3. /\ \A x \in S : \E i \in 1..Len(s) : s[i] = x
      /\ \A x \in S : \E i \in 1..Len(t) : t[i] = x
  BY DEF Lists
<1> SUFFICES ASSUME D # {} PROVE FALSE
  OBVIOUS
<1>4. PICK i \in D : \A j \in D : i <= j
  <2>1. D \subseteq Nat
    OBVIOUS
  <2> HIDE DEF D
  <2> QED
    BY <2>1, LeastNat
<1>5. /\ i \in 1..Len(s) /\ ~(i \in 1..Len(t) /\ s[i] = t[i])
      /\ \A j \in 1..Len(s) : j < i => j \in 1..Len(t) /\ s[j] = t[j]
  <2>1. \A j \in 1..Len(s) : j < i => j \notin D
    BY <1>4
  <2> QED
    BY <2>1
<1> HIDE DEF D
<1>6. PICK j \in 1..Len(t) : t[j] = s[i]
  BY <1>1, <1>3, <1>5
<1>7. ~(j < i)
  <2> SUFFICES ASSUME j < i PROVE FALSE
    OBVIOUS
  <2>1. j \in 1..Len(s)
    BY <1>1, <1>5
  <2>2. s[j] = t[j] /\ s[j] < s[i]
    BY <1>2, <1>5, <2>1
  <2> QED
    BY <1>1, <1>5, <1>6, <2>1, <2>2
<1>8. i \in 1..Len(t) /\ j > i
  BY <1>1, <1>5, <1>6, <1>7
<1>9. PICK k \in 1..Len(s) : s[k] = t[i]
  BY <1>1, <1>3, <1>8
<1>10. ~(k < i)
  <2> SUFFICES ASSUME k < i PROVE FALSE
    OBVIOUS
  <2>1. s[k] = t[k] /\ k \in 1..Len(t)
    BY <1>5
  <2>2. t[k] < t[i]
    BY <1>2, <1>8, <2>1
  <2> QED
    BY <1>1, <1>8, <1>9, <2>1, <2>2
<1>11. s[i] <= s[k]
  <2>1. k = i \/ i < k
    BY <1>1, <1>5, <1>10
  <2> QED
    BY <1>1, <1>2, <1>5, <2>1
<1>12. t[i] < t[j]
  BY <1>2, <1>8
<1> QED
  BY <1>1, <1>5, <1>6, <1>8, <1>9, <1>11, <1>12

\* There is one list of a set.
LEMMA OneList ==
  ASSUME NEW S, NEW s, NEW t, Lists(s, S), Lists(t, S)
  PROVE  s = t
<1>1. \A i \in 1..Len(s) : i \in 1..Len(t) /\ s[i] = t[i]
  BY ListAgrees
<1>2. \A i \in 1..Len(t) : i \in 1..Len(s)
  BY ListAgrees
<1>3. Len(s) \in Nat /\ Len(t) \in Nat /\ s \in Seq(Nat) /\ t \in Seq(Nat)
  BY DEF Lists
<1>4. Len(s) = Len(t)
  <2>1. Len(s) > 0 => Len(s) \in 1..Len(t)
    BY <1>1, <1>3
  <2>2. Len(t) > 0 => Len(t) \in 1..Len(s)
    BY <1>2, <1>3
  <2> QED
    BY <1>3, <2>1, <2>2
<1>5. s = [i \in 1..Len(s) |-> s[i]] /\ t = [i \in 1..Len(t) |-> t[i]]
  <2>1. \A q \in Seq(Nat) : q = [i \in 1..Len(q) |-> q[i]]
    OBVIOUS
  <2> QED
    BY <1>3, <2>1
<1>6. [i \in 1..Len(s) |-> s[i]] = [i \in 1..Len(t) |-> t[i]]
  BY <1>1, <1>4
<1> QED
  BY <1>5, <1>6

\* n numbers of the list are below p.
Splits(s, p, n) == n \in 0..Len(s) /\ \A i \in 1..Len(s) : i <= n <=> s[i] < p

LEMMA SplitsOnce ==
  ASSUME NEW s \in Seq(Nat), NEW p, NEW n, NEW m, Splits(s, p, n), Splits(s, p, m)
  PROVE  n = m
<1>1. Len(s) \in Nat /\ n \in 0..Len(s) /\ m \in 0..Len(s)
  BY DEF Splits
<1>2. ~(n < m)
  <2> SUFFICES ASSUME n < m PROVE FALSE
    OBVIOUS
  <2>1. m \in 1..Len(s)
    BY <1>1
  <2> QED
    BY <1>1, <2>1 DEF Splits
<1>3. ~(m < n)
  <2> SUFFICES ASSUME m < n PROVE FALSE
    OBVIOUS
  <2>1. n \in 1..Len(s)
    BY <1>1
  <2> QED
    BY <1>1, <2>1 DEF Splits
<1> QED
  BY <1>1, <1>2, <1>3

LEMMA SomeSplits ==
  ASSUME NEW S, NEW s, Lists(s, S), NEW p \in Nat
  PROVE  \E n : Splits(s, p, n)
<1> DEFINE B == {i \in 1..Len(s) : s[i] < p}
<1>1. Len(s) \in Nat /\ \A i \in 1..Len(s) : s[i] \in Nat
  BY DEF Lists
<1>2. \A i, j \in 1..Len(s) : i < j => s[i] < s[j]
  BY DEF Lists
<1>3. CASE B = {}
  <2>1. Splits(s, p, 0)
    BY <1>1, <1>3 DEF Splits
  <2> QED
    BY <2>1
<1>4. CASE B # {}
  <2>1. PICK n \in B : \A i \in B : i <= n
    <3>1. B \subseteq 0..Len(s)
      OBVIOUS
    <3> HIDE DEF B
    <3> QED
      BY <1>1, <1>4, <3>1, GreatestIs
  <2>2. n \in 1..Len(s) /\ s[n] < p /\ \A i \in 1..Len(s) : s[i] < p => i <= n
    BY <2>1
  <2> HIDE DEF B
  <2>3. ASSUME NEW i \in 1..Len(s), i <= n PROVE s[i] < p
    <3>1. i = n \/ i < n
      BY <1>1, <2>2, <2>3
    <3>2. s[i] <= s[n]
      BY <1>1, <1>2, <2>2, <3>1
    <3> QED
      BY <1>1, <2>2, <3>2
  <2>4. Splits(s, p, n)
    BY <1>1, <2>2, <2>3 DEF Splits
  <2> QED
    BY <2>4
<1> QED
  BY <1>3, <1>4

\* It is their number.
LEMMA SplitsCount ==
  ASSUME NEW S, NEW s, Lists(s, S), NEW p \in Nat, NEW n, Splits(s, p, n)
  PROVE  Cardinality({x \in S : x < p}) = n
<1> DEFINE T == {x \in S : x < p}
           f == [i \in 1..n |-> s[i]]
<1>1. Len(s) \in Nat /\ n \in 0..Len(s) /\ \A i \in 1..Len(s) : s[i] \in Nat /\ s[i] \in S
  BY DEF Lists, Splits
<1>2. \A i \in 1..n : i \in 1..Len(s) /\ s[i] \in T
  BY <1>1 DEF Splits
<1>3. f \in [1..n -> T]
  BY <1>2
<1>4. ASSUME NEW i \in 1..n, NEW j \in 1..n, f[i] = f[j] PROVE i = j
  <2>1. s[i] = s[j] /\ i \in 1..Len(s) /\ j \in 1..Len(s) /\ i \in Int /\ j \in Int
    BY <1>1, <1>2, <1>4
  <2>2. ~(i < j) /\ ~(j < i)
    BY <1>1, <2>1 DEF Lists
  <2> QED
    BY <2>1, <2>2
<1>5. ASSUME NEW x \in T PROVE \E i \in 1..n : f[i] = x
  <2>1. PICK i \in 1..Len(s) : s[i] = x
    BY DEF Lists
  <2>2. i <= n
    BY <2>1 DEF Splits
  <2>3. i \in 1..n
    BY <1>1, <2>2
  <2> QED
    BY <2>1, <2>3
<1> HIDE DEF T, f
<1>6. f \in Bijection(1..n, T)
  BY <1>3, <1>4, <1>5 DEF Bijection, Injection, Surjection, IsInjective
<1>7. ExistsBijection(1..n, T)
  BY <1>6 DEF ExistsBijection
<1>8. IsFiniteSet(1..n) /\ Cardinality(1..n) = n
  <2>1. 1 \in Int /\ n \in Int
    BY <1>1
  <2>2. IsFiniteSet(1..n) /\ Cardinality(1..n) = IF 1 > n THEN 0 ELSE n - 1 + 1
    BY <2>1, FS_Interval
  <2> QED
    BY <1>1, <2>2
<1>9. Cardinality(T) = Cardinality(1..n)
  BY <1>7, <1>8, FS_Bijection
<1> QED
  BY <1>8, <1>9 DEF T

\* The addresses of the records and marks.
ItemSet == {a \in Addr : Item(a)}

LEMMA PlacesList == TapeInv => Lists(Places, ItemSet)
<1> SUFFICES ASSUME TapeInv PROVE Lists(Places, ItemSet)
  OBVIOUS
<1>1. Held(Places, HeaderLen) /\ HoldsAll(Places, HeaderLen)
  BY PlacesHold DEF TapeInv
<1>2. \A a \in Addr : Item(a) => a >= HeaderLen
  BY DEF TapeInv, ItemsFollow
<1> QED
  BY <1>1, <1>2 DEF Lists, Held, HoldsAll, ItemSet

LEMMA PassedSplits == TapeInv => \A p \in Nat : Splits(Places, p, Passed(p))
<1> SUFFICES ASSUME TapeInv, NEW p \in Nat PROVE Splits(Places, p, Passed(p))
  OBVIOUS
<1>1. Lists(Places, ItemSet)
  BY PlacesList
<1>2. PICK n : Splits(Places, p, n)
  BY <1>1, SomeSplits
<1>3. Cardinality({x \in ItemSet : x < p}) = n
  BY <1>1, <1>2, SplitsCount
<1>4. {x \in ItemSet : x < p} = {b \in Addr : b < p /\ tape[b].what \in {"rec", "dead", "mark"}}
  BY DEF ItemSet, Item
<1>5. Passed(p) = n
  BY <1>3, <1>4, Zenon DEF Passed
<1> QED
  BY <1>2, <1>5

\* What a reader sees of a cell and of the tape.
View(c) == [what |-> c.what, key |-> c.key, level |-> IF c.what = "mark" THEN c.n ELSE 0]
Views(P, T) == [i \in 1..Len(P) |-> View(T[P[i]])]

LEMMA ItemsAreViews == Items = Views(Places, tape)
BY DEF Items, Views, View

\* The answer x shows what the call has returned.
Shows(P, r, x) ==
  /\ x = [code |-> r.code, for |-> r.for, after |-> x.after, n |-> x.n]
  /\ r.after = -1 => x.after = -1
  /\ r.after # -1 => Splits(P, r.after + 1, x.after)
  /\ r.code \in {"found", "read"} => Splits(P, AddressOf(r.handle) + 1, x.n)
  /\ r.code \notin {"found", "read"} => x.n = r.n

\* The tape, the position and the answer that SeqTape sees.
Seen ==
  /\ Lists(Places, ItemSet) /\ Items = Views(Places, tape)
  /\ Splits(Places, cur, Position) /\ Shows(Places, ret, Answer)

LEMMA AddressIsNat ==
  ASSUME NEW h \in [cluster : 0..3, addr : Nat]
  PROVE  AddressOf(h) \in Nat
<1>1. Size(h.cluster) \in Nat /\ h.addr \in Nat
  BY StartsAre
<1> QED
  BY <1>1 DEF AddressOf

LEMMA WhatIsSeen == SeqInv => Seen
<1> SUFFICES ASSUME SeqInv PROVE Seen
  OBVIOUS
<1>1. TapeInv /\ TypeInv
  BY DEF SeqInv
<1>2. \A p \in Nat : Splits(Places, p, Passed(p))
  BY <1>1, PassedSplits
<1>3. cur \in Nat /\ ret \in Answers
  BY <1>1 DEF TypeInv
<1>4. ret.after # -1 => ret.after + 1 \in Nat
  BY <1>3 DEF Answers
<1>5. AddressOf(ret.handle) + 1 \in Nat
  BY <1>3, AddressIsNat DEF Answers
<1>6. Shows(Places, ret, Answer)
  <2>1. PICK d, q : /\ d = (IF ret.after = -1 THEN -1 ELSE Passed(ret.after + 1))
                    /\ q = (IF ret.code \in {"found", "read"}
                            THEN Passed(AddressOf(ret.handle) + 1) ELSE ret.n)
    OBVIOUS
  <2>2. Answer = [code |-> ret.code, for |-> ret.for, after |-> d, n |-> q]
    BY <2>1, Zenon DEF Answer
  <2>3. Answer.after = d /\ Answer.n = q
    BY <2>2
  <2>4. ret.after # -1 => Splits(Places, ret.after + 1, d)
    BY <1>2, <1>4, <2>1
  <2>5. ret.code \in {"found", "read"} => Splits(Places, AddressOf(ret.handle) + 1, q)
    BY <1>2, <1>5, <2>1
  <2> QED
    BY <2>1, <2>2, <2>3, <2>4, <2>5 DEF Shows
<1>7. Splits(Places, cur, Position)
  BY <1>2, <1>3 DEF Position
<1> QED
  BY <1>1, <1>6, <1>7, PlacesList, ItemsAreViews DEF Seen

LEMMA SeenAfter == SeqInv' => Seen'
BY WhatIsSeen, PTL

LEMMA ListIs ==
  ASSUME NEW P, NEW S, Lists(P, S)
  PROVE  /\ P \in Seq(Nat) /\ Len(P) \in Nat
         /\ \A i \in 1..Len(P) : P[i] \in S /\ P[i] \in Nat
BY DEF Lists

LEMMA NoneBefore ==
  ASSUME NEW P, NEW S, Lists(P, S), NEW p \in Nat, \A a \in S : a >= p
  PROVE  Splits(P, p, 0)
<1>1. \A i \in 1..Len(P) : P[i] >= p /\ P[i] \in Nat
  BY ListIs
<1> QED
  BY <1>1, ListIs DEF Splits

LEMMA AllBefore ==
  ASSUME NEW P, NEW S, Lists(P, S), NEW p \in Nat, \A a \in S : a < p
  PROVE  Splits(P, p, Len(P))
<1>1. \A i \in 1..Len(P) : P[i] < p /\ P[i] \in Nat
  BY ListIs
<1> QED
  BY <1>1, ListIs DEF Splits

\* The tape stays.
LEMMA TapeStays ==
  ASSUME Seen, Seen', UNCHANGED tape
  PROVE  Places' = Places /\ Items' = Items
<1>1. ItemSet' = ItemSet
  BY DEF ItemSet, Item
<1>2. Lists(Places', ItemSet)
  BY <1>1 DEF Seen
<1>3. Places' = Places
  BY <1>2, OneList DEF Seen
<1> QED
  BY <1>3 DEF Seen

LEMMA NothingIsSeen ==
  ASSUME NEW P, NEW x, Shows(P, NoRet, x)
  PROVE  x = Tape!Nothing
<1>1. NoRet.code = "none" /\ NoRet.for = {} /\ NoRet.after = -1 /\ NoRet.n = 0
  BY DEF NoRet
<1>2. x.after = -1 /\ x.n = 0 /\ x = [code |-> "none", for |-> {}, after |-> x.after, n |-> x.n]
  BY <1>1 DEF Shows
<1> QED
  BY <1>2 DEF Tape!Nothing

TapeStep == [Tape!Next]_(Tape!tapeVars)

\* The position is on a postfix: the last search fell short.
OnPost == At(cur).what = "post"

LEMMA OffPost ==
  ASSUME SeqInv, UNCHANGED tape, cur' \in Nat,
         cur' = 0 \/ Boundary(cur') \/ (st = "open" /\ Past(cur'))
  PROVE  ~OnPost'
<1>1. PICK q : q = cur'
  OBVIOUS
<1>2. /\ TapeInv /\ Sizes /\ TypeSizes /\ q \in Nat
      /\ q = 0 \/ Boundary(q) \/ (st = "open" /\ Past(q))
  BY <1>1 DEF SeqInv, TypeInv
<1>3. OnPost' => At(q).what = "post"
  BY <1>1 DEF OnPost, At
<1>4. CASE q = 0
  <2>1. At(q) \in {FileHead, Blank}
    BY <1>2, <1>4, AddrIs DEF At, TapeInv, HeaderStands
  <2> QED
    BY <1>3, <2>1, CellsTyped
<1>5. CASE Boundary(q)
  BY <1>2, <1>3, <1>5, NoPostAtBoundary DEF At, Blank
<1>6. CASE st = "open" /\ Past(q)
  <2>1. Ended(q)
    BY <1>2, <1>6, PastIs
  <2> QED
    BY <1>3, <2>1 DEF Ended
<1> QED
  BY <1>2, <1>4, <1>5, <1>6

LEMMA PostStays ==
  ASSUME SeqInv, UNCHANGED tape, cur' \in Nat,
         cur' = cur \/ cur' = 0 \/ Boundary(cur') \/ (st = "open" /\ Past(cur'))
  PROVE  OnPost' => OnPost
<1>1. cur' = cur => (OnPost' => OnPost)
  BY DEF OnPost, At
<1> QED
  BY <1>1, OffPost

\* A record or a mark may begin at the position.
LEMMA NotOnPost ==
  TapeInv /\ (cur = 0 \/ Boundary(cur)) => ~OnPost
<1> SUFFICES ASSUME TapeInv, cur = 0 \/ Boundary(cur) PROVE ~OnPost
  OBVIOUS
<1>1. CASE cur = 0
  <2>1. At(cur) \in {FileHead, Blank}
    BY <1>1, AddrIs DEF At, TapeInv, HeaderStands
  <2> QED
    BY <2>1, CellsTyped DEF OnPost
<1>2. CASE Boundary(cur)
  BY <1>2, NoPostAtBoundary DEF OnPost, At, Blank
<1> QED
  BY <1>1, <1>2

LEMMA NotOnPostAfter ==
  (TapeInv /\ (cur = 0 \/ Boundary(cur)))' => ~OnPost'
BY NotOnPost, PTL

LEMMA FrayedStays ==
  ASSUME UNCHANGED <<tape, disk>>, st' = "none" <=> st = "none"
  PROVE  Frayed' = Frayed
BY DEF Frayed, Closed, Within

LEMMA CallStep ==
  ASSUME OnPost' => OnPost, ret.code # "lost", Tape!Call
  PROVE  TapeStep
<1>1. Answer.code # "lost"
  BY DEF Answer
<1> QED
  BY <1>1 DEF TapeStep, Tape!Next, OnPost

LEMMA TurnStep ==
  ASSUME OnPost' => OnPost, Tape!Open \/ Tape!Leave
  PROVE  TapeStep
BY DEF TapeStep, Tape!Next, OnPost

\* A step without an effect that a reader sees.
LEMMA RefusedStep ==
  ASSUME Items' = Items, Position' = Position, st' = st, Frayed' = Frayed,
         Answer' = Tape!Nothing, OnPost' => OnPost, ret.code # "lost"
  PROVE  TapeStep
<1>1. Tape!Refused
  BY DEF Tape!Refused
<1> QED
  BY <1>1, CallStep DEF Tape!Call

-----------------------------------------------------------------------------
(* Opening, closing, moving.                                               *)

LEMMA StartsAsTape == Init => Tape!Init
<1> SUFFICES ASSUME Init PROVE Tape!Init
  OBVIOUS
<1>1. SeqInv /\ Seen
  BY SeqInit, WhatIsSeen
<1>2. st = "none" /\ cur = 0 /\ ret = NoRet /\ \A a \in Addr : tape[a] = Blank
  BY DEF Init
<1>3. ItemSet = {}
  BY <1>2, CellsTyped DEF ItemSet, Item
<1>4. Lists(Places, {}) /\ Places \in Seq(Nat) /\ Len(Places) \in Nat
  BY <1>1, <1>3, ListIs DEF Seen
<1>5. Len(Places) = 0
  <2>1. \A i \in 1..Len(Places) : FALSE
    BY <1>4 DEF Lists
  <2> QED
    BY <1>4, <2>1
<1>6. Items = << >>
  <2>1. Items = [i \in 1..0 |-> View(tape[Places[i]])]
    BY <1>1, <1>5 DEF Seen, Views
  <2> QED
    BY <2>1
<1>7. Position = 0
  BY <1>1, <1>5 DEF Seen, Splits
<1>8. Answer = Tape!Nothing
  BY <1>1, <1>2, NothingIsSeen DEF Seen
<1>9. ~Frayed /\ ~OnPost
  <2>1. ~Frayed
    BY <1>2 DEF Frayed
  <2> QED
    BY <1>1, <1>2, <2>1, NotOnPost DEF SeqInv
<1> QED
  BY <1>2, <1>6, <1>7, <1>8, <1>9 DEF Tape!Init, OnPost

\* The position in front of all items is the first.
LEMMA FirstPosition ==
  TapeInv /\ Seen /\ cur \in {0, HeaderLen} => Position = 0
<1> SUFFICES ASSUME TapeInv, Seen, cur \in {0, HeaderLen} PROVE Position = 0
  OBVIOUS
<1>1. cur \in Nat /\ \A a \in ItemSet : a >= cur
  BY SeqAssumption, ItemsAre DEF ItemSet
<1>2. Splits(Places, cur, 0)
  BY <1>1, NoneBefore DEF Seen
<1> QED
  BY <1>2, ListIs, SplitsOnce DEF Seen

LEMMA FirstPositionAfter ==
  (TapeInv /\ Seen /\ cur \in {0, HeaderLen})' => (Position = 0)'
BY FirstPosition, PTL

LEMMA FirstAfter ==
  ASSUME SeqInv', cur' \in {0, HeaderLen}
  PROVE  Position' = 0
BY FirstPositionAfter, SeenAfter DEF SeqInv

LEMMA OpenStep ==
  ASSUME SeqInv, SeqInv', NEW m, Open(m)
  PROVE  TapeStep
<1>1. Seen /\ Seen'
  BY WhatIsSeen, SeenAfter
<1>2. /\ st = "closed" /\ st' = "open" /\ cur' = HeaderLen /\ ret' = NoRet
      /\ UNCHANGED <<tape, disk>>
  BY DEF Open, Opened
<1>3. Items' = Items
  BY <1>1, <1>2, TapeStays
<1>4. Position' = 0
  BY <1>2, FirstAfter
<1>5. Answer' = Tape!Nothing
  BY <1>1, <1>2, NothingIsSeen DEF Seen
<1>6. Frayed' = Frayed
  BY <1>2, FrayedStays
<1>7. Tape!Open
  BY <1>2, <1>3, <1>4, <1>5, <1>6 DEF Tape!Open
<1>8. OnPost' => OnPost
  BY <1>2, PostStays, SeqAssumption DEF Boundary
<1> QED
  BY <1>7, <1>8, TurnStep

LEMMA CreateStep ==
  ASSUME SeqInv, SeqInv', Create
  PROVE  TapeStep
<1>1. Seen /\ Seen'
  BY WhatIsSeen, SeenAfter
<1>2. /\ st = "none" /\ st' = "open" /\ cur' = HeaderLen /\ ret' = NoRet
      /\ tape' = [tape EXCEPT ![0] = FileHead]
  BY DEF Create, Opened
<1>3. ItemSet = {} /\ ItemSet' = {}
  <2>1. tape \in [Addr -> Cell] /\ 0 \in Addr /\ \A a \in Addr : tape[a] = Blank
    BY <1>2, AddrIs DEF SeqInv, TapeInv, TapeTyped, HeaderStands
  <2>2. \A a \in Addr : tape'[a] \in {FileHead, Blank}
    BY <1>2, <2>1
  <2> QED
    BY <2>1, <2>2, CellsTyped DEF ItemSet, Item
<1>4. Places' = Places /\ Len(Places) = 0
  <2>1. Lists(Places, {}) /\ Lists(Places', {})
    BY <1>1, <1>3 DEF Seen
  <2>2. Places' = Places
    BY <2>1, OneList
  <2>3. \A i \in 1..Len(Places) : FALSE
    BY <2>1 DEF Lists
  <2> QED
    BY <2>1, <2>2, <2>3, ListIs
<1>5. Items' = Items
  <2>1. Items = [i \in 1..0 |-> View(tape[Places[i]])] /\ Items' = [i \in 1..0 |-> View(tape'[Places'[i]])]
    BY <1>1, <1>4 DEF Seen, Views
  <2> QED
    BY <2>1
<1>6. Position' = 0
  BY <1>2, FirstAfter
<1>7. Answer' = Tape!Nothing
  BY <1>1, <1>2, NothingIsSeen DEF Seen
<1>8. ~Frayed /\ ~Frayed'
  <2>1. disk' = HeaderLen /\ HeaderLen \in Nat
    BY SeqAssumption DEF Create
  <2>2. tape'[0] = FileHead /\ 0 \in Addr
    BY <1>2, AddrIs DEF SeqInv, TapeInv, TapeTyped
  <2>3. ~Frayed'
    <3>1. tape'[0].what # "none" /\ tape'[0].len = HeaderLen
      BY <2>2, CellsTyped
    <3>2. ~Within(disk - 1)'
      BY <2>1, <2>2, <3>1 DEF Within
    <3> QED
      BY <3>2 DEF Frayed
  <2> QED
    BY <1>2, <2>3 DEF Frayed
<1>9. Tape!Open
  <2>1. Frayed' = Frayed
    BY <1>8 DEF Frayed
  <2> QED
    BY <1>2, <1>5, <1>6, <1>7, <2>1 DEF Tape!Open
<1>10. ~OnPost'
  BY <1>2, NotOnPostAfter DEF SeqInv, Boundary
<1> QED
  BY <1>9, <1>10, TurnStep

LEMMA LeaveStep ==
  ASSUME SeqInv, SeqInv', Leave \/ Crash
  PROVE  TapeStep
<1>1. Seen /\ Seen'
  BY WhatIsSeen, SeenAfter
<1>2. st = "open" /\ st' = "closed" /\ cur' = 0 /\ ret' = NoRet /\ UNCHANGED tape
  BY DEF Leave, Crash, Forgotten
<1>3. Items' = Items
  BY <1>1, <1>2, TapeStays
<1>4. Position' = 0
  BY <1>2, FirstAfter
<1>5. Answer' = Tape!Nothing
  BY <1>1, <1>2, NothingIsSeen DEF Seen
<1>6. Frayed' => Frayed
  <2>1. disk' \in {size, disk}
    BY DEF Leave, Crash
  <2>2. Closed' = Closed
    BY <1>2 DEF Closed
  <2>3. ~Closed => disk' = disk
    BY <1>2, <2>1 DEF SeqInv, Sizes
  <2>4. ~Closed => Frayed' = Frayed
    BY <1>2, <2>3, FrayedStays
  <2> QED
    BY <2>2, <2>4 DEF Frayed
<1>7. Tape!Leave
  BY <1>2, <1>3, <1>4, <1>5, <1>6 DEF Tape!Leave
<1>8. OnPost' => OnPost
  BY <1>2, PostStays
<1> QED
  BY <1>7, <1>8, TurnStep

\* The handle found last is kept.
LEMMA StaysFound ==
  ASSUME Seen, Seen', UNCHANGED tape, ret' = StillFound
  PROVE  Tape!Held
<1>1. Places' = Places
  BY TapeStays
<1> DEFINE P == Places
           r == ret
           x == Answer
           y == Answer'
<1>2. Shows(P, r, x) /\ Shows(P, StillFound, y) /\ P \in Seq(Nat)
  BY <1>1, ListIs DEF Seen
<1>3. x.code = r.code
  BY <1>2 DEF Shows
<1>4. CASE r.code = "found"
  <2>1. StillFound = [NoRet EXCEPT !.code = "found", !.handle = r.handle]
    BY <1>4 DEF StillFound
  <2>2. /\ StillFound.code = "found" /\ StillFound.handle = r.handle /\ StillFound.for = {}
        /\ StillFound.after = -1
    BY <2>1 DEF NoRet
  <2>3. Splits(P, AddressOf(r.handle) + 1, x.n) /\ Splits(P, AddressOf(r.handle) + 1, y.n)
    BY <1>2, <1>4, <2>2 DEF Shows
  <2>4. y.n = x.n
    BY <1>2, <2>3, SplitsOnce
  <2>5. y = [code |-> "found", for |-> {}, after |-> -1, n |-> x.n]
    BY <1>2, <2>2, <2>4 DEF Shows
  <2>6. y = [Tape!Nothing EXCEPT !.code = "found", !.n = x.n]
    <3> DEFINE s == [Tape!Nothing EXCEPT !.code = "found"]
    <3>1. s = [code |-> "found", n |-> 0, for |-> {}, after |-> -1]
      BY DEF Tape!Nothing
    <3>2. [Tape!Nothing EXCEPT !.code = "found", !.n = x.n] = [s EXCEPT !.n = x.n]
      OBVIOUS
    <3> HIDE DEF s, x, y
    <3>3. [s EXCEPT !.n = x.n] = [code |-> "found", for |-> {}, after |-> -1, n |-> x.n]
      BY <3>1
    <3> QED
      BY <2>5, <3>2, <3>3
  <2> QED
    BY <1>3, <1>4, <2>6 DEF Tape!Held
<1>5. CASE r.code # "found"
  <2>1. StillFound = NoRet
    BY <1>5 DEF StillFound
  <2>2. y = Tape!Nothing
    BY <1>2, <2>1, NothingIsSeen
  <2> QED
    BY <1>3, <1>5, <2>2 DEF Tape!Held
<1> QED
  BY <1>4, <1>5

LEMMA RewindStep ==
  ASSUME SeqInv, SeqInv', Rewind
  PROVE  TapeStep
<1>1. Seen /\ Seen'
  BY WhatIsSeen, SeenAfter
<1>2. /\ st = "open" /\ st' = st /\ cur' = bof /\ ret' = StillFound /\ UNCHANGED <<tape, disk>>
      /\ ret.code # "lost" /\ bof \in {0, HeaderLen}
  BY DEF Rewind, Moved, Ready, lengths, SeqInv, TypeInv
<1>3. Items' = Items
  BY <1>1, <1>2, TapeStays
<1>4. Position' = 0
  BY <1>2, FirstAfter
<1>5. Tape!Held
  BY <1>1, <1>2, StaysFound
<1>6. Frayed' = Frayed
  BY <1>2, FrayedStays
<1>7. Tape!Rewind
  BY <1>2, <1>3, <1>4, <1>5, <1>6 DEF Tape!Rewind
<1>8. OnPost' => OnPost
  BY <1>2, PostStays, SeqAssumption DEF Boundary
<1> QED
  BY <1>2, <1>7, <1>8, CallStep DEF Tape!Call

\* The position moves over records.
LEMMA MoveStep ==
  ASSUME SeqInv, SeqInv', st = "open", UNCHANGED <<st, tape, lengths>>, ret' = StillFound,
         ret.code # "lost", cur' = cur \/ Boundary(cur') \/ Past(cur'),
         \A e \in Addr : Item(e) /\ ((cur <= e /\ e < cur') \/ (cur' <= e /\ e < cur))
                         => tape[e].what # "mark"
  PROVE  TapeStep
<1>1. Seen /\ Seen'
  BY WhatIsSeen, SeenAfter
<1>2. Places' = Places /\ Items' = Items
  BY <1>1, TapeStays
<1>3. Tape!Held
  BY <1>1, StaysFound
<1> DEFINE P == Places
           p == Position'
<1>4. /\ Splits(P, cur, Position) /\ Splits(P, cur', p) /\ Lists(P, ItemSet)
      /\ Items = Views(P, tape) /\ cur \in Nat /\ cur' \in Nat
  BY <1>1, <1>2 DEF Seen, SeqInv, TypeInv
<1>5. \A i \in 1..Len(P) : P[i] \in Addr /\ Item(P[i]) /\ P[i] \in Nat
  BY <1>4, AddrIs DEF Lists, ItemSet
<1>6. Len(P) \in Nat /\ Position \in 0..Len(P) /\ p \in 0..Len(P)
  BY <1>4, ListIs DEF Splits
<1>7. Len(Items) = Len(P)
  BY <1>4, <1>6 DEF Views
<1>8. \A i \in 1..Len(P) : Items[i].what = tape[P[i]].what
  BY <1>4 DEF Views, View
<1>9. ASSUME NEW i \in 1..Len(P), (Position < i /\ i <= p) \/ (p < i /\ i <= Position)
      PROVE  Items[i].what # "mark"
  <2>1. /\ i <= Position <=> P[i] < cur
        /\ i <= p <=> P[i] < cur'
    BY <1>4 DEF Splits
  <2> HIDE DEF P, p
  <2>2. (cur <= P[i] /\ P[i] < cur') \/ (cur' <= P[i] /\ P[i] < cur)
    BY <1>4, <1>5, <1>6, <1>9, <2>1
  <2> QED
    BY <1>5, <1>8, <2>2
<1>11. Frayed' = Frayed
  BY FrayedStays DEF lengths
<1>10. Tape!Move
  <2> HIDE DEF P
  <2> QED
    BY <1>2, <1>3, <1>6, <1>7, <1>9, <1>11 DEF Tape!Move
<1>12. OnPost' => OnPost
  BY <1>4, PostStays
<1> QED
  BY <1>10, <1>12, CallStep DEF Tape!Call

\* A call that reads old words is lost.
LEMMA StrayStep ==
  ASSUME SeqInv, SeqInv', GoesAstray,
         Frayed \/ (~Closed /\ \A e \in Addr : Item(e) => e < cur)
  PROVE  TapeStep
<1>1. Seen /\ Seen' /\ TapeInv /\ cur \in Nat
  BY WhatIsSeen, SeenAfter DEF SeqInv, TypeInv
<1>2. /\ st = "open" /\ st' = st /\ cur' = cur /\ UNCHANGED <<tape, disk>> /\ ret.code # "lost"
      /\ ret' = [NoRet EXCEPT !.code = "lost"]
  BY DEF GoesAstray, Ready, lengths
<1>3. Places' = Places /\ Items' = Items
  BY <1>1, <1>2, TapeStays
<1>4. /\ Lists(Places, ItemSet) /\ Items = Views(Places, tape) /\ Splits(Places, cur, Position)
      /\ Splits(Places, cur, Position') /\ Shows(Places, ret', Answer') /\ Places \in Seq(Nat)
  BY <1>1, <1>2, <1>3, ListIs DEF Seen
<1>5. Position' = Position
  BY <1>4, SplitsOnce
<1>6. Answer' = [Tape!Nothing EXCEPT !.code = "lost"]
  <2>1. /\ ret'.code = "lost" /\ ret'.for = {} /\ ret'.after = -1 /\ ret'.n = 0
    BY <1>2 DEF NoRet
  <2>2. \A r, x : Shows(Places, r, x) /\ r.code = "lost" /\ r.for = {} /\ r.after = -1 /\ r.n = 0
                  => x = [code |-> "lost", n |-> 0, for |-> {}, after |-> -1]
    <3> TAKE r, x
    <3> HAVE Shows(Places, r, x) /\ r.code = "lost" /\ r.for = {} /\ r.after = -1 /\ r.n = 0
    <3>1. x.after = -1 /\ x.n = 0 /\ x = [code |-> r.code, for |-> r.for, after |-> x.after, n |-> x.n]
      BY DEF Shows
    <3> QED
      BY <3>1
  <2>3. [Tape!Nothing EXCEPT !.code = "lost"] = [code |-> "lost", n |-> 0, for |-> {}, after |-> -1]
    BY DEF Tape!Nothing
  <2> QED
    BY <1>4, <2>1, <2>2, <2>3
<1>7. Frayed' = Frayed
  BY <1>2, FrayedStays
<1>8. Frayed \/ (Position = Len(Items) /\ ~Tape!HasEnd)
  <2> SUFFICES ASSUME ~Closed, \A e \in Addr : Item(e) => e < cur
               PROVE  Position = Len(Items) /\ ~Tape!HasEnd
    OBVIOUS
  <2>1. Splits(Places, cur, Len(Places)) /\ Len(Places) \in Nat
    BY <1>1, <1>4, AllBefore, ListIs DEF ItemSet
  <2>2. Position = Len(Places)
    BY <1>4, <2>1, SplitsOnce
  <2>3. Len(Items) = Len(Places) /\ \A i \in 1..Len(Items) : Items[i] = View(tape[Places[i]])
    BY <1>4, <2>1 DEF Views
  <2>4. ASSUME NEW i \in 1..Len(Items), Items[i] = Tape!EofMark PROVE FALSE
    <3>1. Places[i] \in Addr
      BY <1>4, <2>3, <2>4 DEF Lists, ItemSet
    <3>2. PICK c : c = tape[Places[i]]
      OBVIOUS
    <3>3. View(c) = [what |-> "mark", key |-> "none", level |-> 15]
      BY <2>3, <2>4, <3>2 DEF Tape!EofMark, Tape!EOF
    <3>4. c.what = "mark" /\ c.n = 15
      BY <3>3 DEF View
    <3> QED
      BY <3>1, <3>2, <3>4 DEF Closed, EOF
  <2> QED
    BY <2>2, <2>3, <2>4 DEF Tape!HasEnd
<1>9. Tape!Stray
  BY <1>2, <1>3, <1>5, <1>6, <1>7, <1>8 DEF Tape!Stray
<1>10. OnPost' => OnPost
  BY <1>1, <1>2, PostStays
<1> QED
  BY <1>2, <1>9, <1>10, CallStep DEF Tape!Call

\* The position moves forward.
LEMMA MoveOn ==
  ASSUME SeqInv, SeqInv', st = "open", UNCHANGED <<st, tape, lengths>>, ret' = StillFound,
         ret.code # "lost", cur' = cur \/ Stand(cur'), Passes(cur, cur')
  PROVE  TapeStep
<1>1. cur \in Nat /\ cur' \in Nat
  BY DEF SeqInv, TypeInv
<1>2. ASSUME NEW e \in Addr, Item(e), (cur <= e /\ e < cur') \/ (cur' <= e /\ e < cur)
      PROVE  tape[e].what # "mark"
  BY <1>1, <1>2, AddrIs DEF Passes
<1>3. cur' = cur \/ Boundary(cur') \/ Past(cur')
  BY DEF Stand
<1> QED
  BY <1>2, <1>3, MoveStep

LEMMA SkipForwardStep ==
  ASSUME SeqInv, SeqInv', SkipForward
  PROVE  TapeStep
<1>1. /\ TapeInv /\ Sizes /\ TypeSizes /\ cur \in Nat /\ OnWay(cur)
      /\ TapeTyped /\ CellsHaveLengths
  BY PositionOnWay DEF SeqInv, TypeInv
<1>2. PICK p : p = IF At(cur).what \in {"none", "mark"} THEN cur ELSE cur + At(cur).len
  OBVIOUS
<1>3. \/ OldWords(p) /\ GoesAstray
      \/ /\ Ready /\ ~OldWords(p)
         /\ \E q : /\ Moved(q)
                   /\ \/ At(p).what # "post" /\ q = p
                      \/ p # cur /\ At(p).what \in {"post", "none"} /\ q = p + 2
  BY <1>2 DEF SkipForward
<1>4. p \in Nat
  <2>1. At(cur).len \in Nat
    BY <1>1, AtTyped DEF Cell
  <2> QED
    BY <1>1, <1>2, <2>1
<1>5. CASE OldWords(p) /\ GoesAstray
  <2>1. st = "open"
    BY <1>5 DEF GoesAstray, Ready
  <2>2. OnWay(p)
    <3>1. CASE At(cur).what \in {"none", "mark"}
      BY <1>1, <1>2, <3>1
    <3>2. CASE At(cur).what \notin {"none", "mark"}
      BY <1>1, <1>2, <2>1, <3>2, WayGoesOn
    <3> QED
      BY <3>1, <3>2
  <2>3. Frayed
    BY <1>1, <1>4, <1>5, <2>1, <2>2, NothingFollows DEF OldWords
  <2> QED
    BY <1>5, <2>3, StrayStep
<1>6. ASSUME Ready, ~OldWords(p), NEW q, Moved(q),
             \/ At(p).what # "post" /\ q = p
             \/ p # cur /\ At(p).what \in {"post", "none"} /\ q = p + 2
      PROVE  TapeStep
  <2>1. /\ st = "open" /\ UNCHANGED <<st, tape, lengths>> /\ ret' = StillFound
        /\ ret.code # "lost" /\ cur' = q
    BY <1>6 DEF Ready, Moved
  <2>2. q \in Nat
    BY <1>4, <1>6
  <2>3. (q = cur \/ Stand(q)) /\ Passes(cur, q)
    BY <1>2, <1>4, <1>6, <2>1, <2>2, SkipPasses
  <2>4. (cur' = cur \/ Stand(cur')) /\ Passes(cur, cur')
    BY <2>1, <2>3
  <2> QED
    BY <2>1, <2>4, MoveOn
<1> QED
  BY <1>3, <1>5, <1>6

LEMMA SkipBackStep ==
  ASSUME SeqInv, SeqInv', SkipBack
  PROVE  TapeStep
<1>1. cur \in Nat /\ cur' \in Nat /\ TapeInv
  BY DEF SeqInv, TypeInv
<1>2. \/ cur - 2 > bof /\ Within(cur - 2) /\ GoesAstray
      \/ /\ st = "open" /\ UNCHANGED <<st, tape, lengths>> /\ ret' = StillFound
         /\ ret.code # "lost"
         /\ \/ cur' = cur
            \/ At(cur - 2).what = "post" /\ cur' = At(cur - 2).n
  BY DEF SkipBack, Ready, Moved
<1>3. CASE cur - 2 > bof /\ Within(cur - 2) /\ GoesAstray
  <2>1. st = "open"
    BY <1>3 DEF GoesAstray, Ready
  <2> QED
    BY <1>3, <2>1, StrayIsBehind, StrayStep
<1>4. CASE /\ st = "open" /\ UNCHANGED <<st, tape, lengths>> /\ ret' = StillFound
           /\ ret.code # "lost"
           /\ \/ cur' = cur
              \/ At(cur - 2).what = "post" /\ cur' = At(cur - 2).n
  <2>1. cur' = cur \/ (Boundary(cur') /\ Passes(cur', cur))
    BY <1>1, <1>4, SkipReturns
  <2>2. ASSUME NEW e \in Addr, Item(e), (cur <= e /\ e < cur') \/ (cur' <= e /\ e < cur)
        PROVE  tape[e].what # "mark"
    BY <1>1, <2>1, <2>2, AddrIs DEF Passes
  <2> QED
    BY <1>4, <2>1, <2>2, MoveStep
<1> QED
  BY <1>2, <1>3, <1>4

LEMMA AppStep ==
  ASSUME SeqInv, SeqInv', App
  PROVE  TapeStep
<1>1. PICK w : w = AppendWalk(cur)
  OBVIOUS
<1>2. \/ w.lost /\ GoesAstray
      \/ /\ st = "open" /\ UNCHANGED <<st, tape, lengths>> /\ ret' = StillFound
         /\ ret.code # "lost" /\ cur' = w.cur /\ ~w.lost
  BY <1>1 DEF App, Ready
<1>3. st = "open"
  BY <1>2 DEF GoesAstray, Ready
<1>4. Appends(cur, w)
  <2>1. TapeTyped /\ CellsHaveLengths /\ Live /\ cur \in Nat /\ OnWay(cur)
    BY <1>3, PositionOnWay DEF SeqInv, TypeInv, Live
  <2> QED
    BY <1>1, <2>1, AppendWalkEnds
<1>5. CASE w.lost /\ GoesAstray
  BY <1>4, <1>5, StrayStep DEF Appends
<1>6. CASE /\ st = "open" /\ UNCHANGED <<st, tape, lengths>> /\ ret' = StillFound
           /\ ret.code # "lost" /\ cur' = w.cur /\ ~w.lost
  <2>1. Stand(cur') /\ Passes(cur, cur')
    BY <1>4, <1>6 DEF Appends, ToMark, Passes
  <2> QED
    BY <1>6, <2>1, MoveOn
<1> QED
  BY <1>2, <1>5, <1>6

-----------------------------------------------------------------------------
(* Deleting, reading and searching.                                        *)

\* The item that stands at an address.
LEMMA IndexOf ==
  ASSUME NEW P, NEW S, Lists(P, S), NEW a \in Nat, a \in S, NEW n, Splits(P, a + 1, n)
  PROVE  n \in 1..Len(P) /\ P[n] = a
<1>1. /\ Len(P) \in Nat /\ n \in 0..Len(P)
      /\ \A i \in 1..Len(P) : P[i] \in Nat /\ (i <= n <=> P[i] < a + 1)
  BY ListIs DEF Splits
<1>2. PICK i \in 1..Len(P) : P[i] = a
  BY DEF Lists
<1>3. i <= n /\ n \in 1..Len(P)
  BY <1>1, <1>2
<1>4. P[n] < a + 1 /\ P[n] \in Nat
  BY <1>1, <1>3
<1>5. ~(i < n)
  <2>1. i < n => P[i] < P[n]
    BY <1>3 DEF Lists
  <2> QED
    BY <1>2, <1>4, <2>1
<1> QED
  BY <1>1, <1>2, <1>3, <1>5

\* In front of an item and behind it.
LEMMA AroundItem ==
  ASSUME TapeInv, NEW P, Lists(P, ItemSet), NEW k \in 1..Len(P)
  PROVE  /\ P[k] \in Addr /\ Item(P[k]) /\ P[k] \in Nat
         /\ Splits(P, P[k], k - 1) /\ Splits(P, P[k] + 1, k) /\ Splits(P, Behind(P[k]), k)
<1> DEFINE b == P[k]
<1>1. Len(P) \in Nat /\ \A i \in 1..Len(P) : P[i] \in Addr /\ Item(P[i]) /\ P[i] \in Nat
  BY ListIs, AddrIs DEF Lists, ItemSet
<1>2. \A i \in 1..Len(P) : (i < k => P[i] < b) /\ (k < i => b < P[i])
  BY DEF Lists
<1>3. Behind(b) \in Nat /\ Behind(b) > b
  BY <1>1, ItemsAre
<1>4. \A i \in 1..Len(P) : b < P[i] => Behind(b) <= P[i]
  BY <1>1 DEF TapeInv, ItemsApart
<1> HIDE DEF b
<1>5. \A i \in 1..Len(P) : i < k \/ (i = k /\ P[i] = b) \/ k < i
  BY <1>1 DEF b
<1>6. b \in Nat
  BY <1>1 DEF b
<1>7. Splits(P, b, k - 1)
  <2>1. \A i \in 1..Len(P) : i <= k - 1 <=> i < k
    OBVIOUS
  <2>2. \A i \in 1..Len(P) : i < k <=> P[i] < b
    BY <1>1, <1>2, <1>5, <1>6
  <2> QED
    BY <1>1, <2>1, <2>2 DEF Splits
<1>8. Splits(P, b + 1, k)
  BY <1>1, <1>2, <1>5, <1>6 DEF Splits
<1>9. Splits(P, Behind(b), k)
  <2> DEFINE e == Behind(b)
  <2> HIDE DEF e
  <2>1. e \in Nat /\ e > b /\ \A i \in 1..Len(P) : b < P[i] => e <= P[i]
    BY <1>3, <1>4 DEF e
  <2>2. Splits(P, e, k)
    BY <1>1, <1>2, <1>5, <1>6, <2>1 DEF Splits
  <2> QED
    BY <2>2 DEF e
<1> QED
  BY <1>1, <1>7, <1>8, <1>9 DEF b

LEMMA DeleteStep ==
  ASSUME SeqInv, SeqInv', NEW h, Delete(h)
  PROVE  TapeStep
<1>1. Seen /\ Seen' /\ TypeInv /\ TapeInv
  BY WhatIsSeen, SeenAfter DEF SeqInv
<1>2. st = "open" /\ st' = st /\ cur' = cur /\ ret' = NoRet /\ disk' = disk /\ ret.code # "lost"
  BY DEF Delete, Ready, InMemory
<1>8. SameShape
  BY <1>1, DeleteKeepsShape
<1>9. OnPost' => OnPost
  BY <1>2, <1>8, AddrIs DEF OnPost, At, SameShape
<1>10. Frayed' = Frayed
  <2>1. PICK d : d = disk - 1
    OBVIOUS
  <2>2. Closed' = Closed /\ (Within(d)' <=> Within(d))
    BY <1>1, <1>2, <1>8, Shaped
  <2>3. Within(disk - 1)' <=> Within(disk - 1)
    BY <1>2, <2>1, <2>2 DEF Within
  <2> QED
    BY <1>2, <2>2, <2>3 DEF Frayed
<1>3. Places' = Places
  <2>2. \A a \in Addr : Item(a)' <=> Item(a)
    BY <1>1, <1>2, <1>8, Shaped
  <2>3. ItemSet' = ItemSet
    BY <2>2 DEF ItemSet
  <2>4. Lists(Places', ItemSet)
    BY <1>1, <2>3 DEF Seen
  <2> QED
    BY <1>1, <2>4, OneList DEF Seen
<1>4. Position' = Position
  <2>1. Splits(Places, cur, Position) /\ Splits(Places, cur, Position') /\ Lists(Places, ItemSet)
    BY <1>1, <1>2, <1>3 DEF Seen
  <2> QED
    BY <2>1, ListIs, SplitsOnce
<1>5. Answer' = Tape!Nothing
  BY <1>1, <1>2, NothingIsSeen DEF Seen
<1>6. CASE UNCHANGED tape
  <2>1. Items' = Items
    BY <1>1, <1>6, TapeStays
  <2> QED
    BY <1>2, <1>4, <1>5, <1>9, <1>10, <2>1, RefusedStep
<1>7. ASSUME NEW a, a = AddressOf(h), At(a).what = "rec", tape' = [tape EXCEPT ![a].what = "dead"]
      PROVE  TapeStep
  <2>1. a \in Addr /\ tape[a].what = "rec" /\ a \in ItemSet
    BY <1>7 DEF At, Blank, Item, ItemSet
  <2> DEFINE P == Places
  <2>2. Lists(P, ItemSet) /\ Items = Views(P, tape) /\ Items' = Views(P, tape') /\ Len(P) \in Nat
    BY <1>1, <1>3, ListIs DEF Seen
  <2>3. PICK i \in 1..Len(P) : P[i] = a
    BY <2>1, <2>2 DEF Lists
  <2>4. \A j \in 1..Len(P) : P[j] \in Addr /\ (j # i => P[j] # a)
    <3> TAKE j \in 1..Len(P)
    <3>1. P[j] \in Addr /\ P[j] \in Nat /\ P[i] \in Nat
      BY <2>2, AddrIs DEF Lists, ItemSet
    <3>2. (j < i => P[j] < P[i]) /\ (i < j => P[i] < P[j])
      BY <2>2 DEF Lists
    <3> QED
      BY <2>2, <2>3, <3>1, <3>2
  <2>5. /\ \A b \in Addr : b # a => tape'[b] = tape[b]
        /\ tape'[a].what = "dead" /\ tape'[a].key = tape[a].key
    <3>1. tape \in [Addr -> Cell] /\ tape[a] \in Cell
      BY <1>1, <2>1 DEF TapeInv, TapeTyped
    <3>2. tape' = [tape EXCEPT ![a] = [tape[a] EXCEPT !.what = "dead"]]
      BY <1>7
    <3>3. /\ [tape[a] EXCEPT !.what = "dead"].what = "dead"
          /\ [tape[a] EXCEPT !.what = "dead"].key = tape[a].key
      BY <3>1 DEF Cell
    <3> QED
      BY <2>1, <3>1, <3>2, <3>3
  <2> HIDE DEF P
  <2>6. /\ Items = [j \in 1..Len(P) |-> View(tape[P[j]])]
        /\ Items' = [j \in 1..Len(P) |-> View(tape'[P[j]])]
    BY <2>2 DEF Views
  <2>7. View(tape'[a]) = [View(tape[a]) EXCEPT !.what = "dead"]
    BY <2>1, <2>5 DEF View
  <2>8. Items' = [Items EXCEPT ![i].what = "dead"]
    <3>1. Items' = [Items EXCEPT ![i] = View(tape'[a])]
      BY <2>3, <2>4, <2>5, <2>6
    <3>2. Items[i] = View(tape[a])
      BY <2>3, <2>6
    <3> QED
      BY <2>7, <3>1, <3>2
  <2>9. Len(Items) = Len(P) /\ Items[i].what = "rec"
    BY <2>1, <2>2, <2>3, <2>6 DEF View
  <2>10. Tape!Delete
    BY <1>2, <1>4, <1>5, <1>10, <2>3, <2>8, <2>9 DEF Tape!Delete
  <2> QED
    BY <1>2, <1>9, <2>10, CallStep DEF Tape!Call
<1> QED
  BY <1>6, <1>7 DEF Delete

LEMMA ReadStep ==
  ASSUME SeqInv, SeqInv', Read
  PROVE  TapeStep
<1>1. Seen /\ Seen' /\ TypeInv /\ TapeInv
  BY WhatIsSeen, SeenAfter DEF SeqInv
<1>2. /\ st = "open" /\ st' = st /\ UNCHANGED <<tape, disk>> /\ cur' = cur /\ ret.code = "found"
      /\ cur \in Nat
  BY DEF Read, Ready, lengths, SeqInv, TypeInv
<1>7. OnPost' => OnPost
  BY <1>2, PostStays
<1>8. Frayed' = Frayed
  BY <1>2, FrayedStays
<1>3. Places' = Places /\ Items' = Items
  BY <1>1, <1>2, TapeStays
<1>4. Position' = Position
  <2>1. Splits(Places, cur, Position) /\ Splits(Places, cur, Position') /\ Lists(Places, ItemSet)
    BY <1>1, <1>2, <1>3 DEF Seen
  <2> QED
    BY <2>1, ListIs, SplitsOnce
<1>5. CASE ret' = NoRet
  <2>1. Answer' = Tape!Nothing
    BY <1>1, <1>5, NothingIsSeen DEF Seen
  <2> QED
    BY <1>2, <1>3, <1>4, <1>7, <1>8, <2>1, RefusedStep
<1>6. ASSUME NEW a, a = AddressOf(ret.handle), a = head.at,
             ret' = [ret EXCEPT !.code = "read", !.for = {At(head.at).key}, !.after = -1]
      PROVE  TapeStep
  <2> DEFINE P == Places
             x == Answer
             y == Answer'
  <2>1. a \in Addr /\ a \in Nat /\ a \in ItemSet /\ At(a) = tape[a]
    BY <1>2, <1>6, AddrIs DEF SeqInv, FoundStands, ItemSet, At
  <2>2. Lists(P, ItemSet) /\ Items = Views(P, tape) /\ Shows(P, ret, x) /\ Shows(P, ret', y)
        /\ P \in Seq(Nat)
    BY <1>1, <1>3, ListIs DEF Seen
  <2>3. /\ ret'.code = "read" /\ ret'.handle = ret.handle /\ ret'.after = -1
        /\ ret'.for = {tape[a].key}
    BY <1>1, <1>6, <2>1 DEF TypeInv, Answers
  <2>4. Splits(P, a + 1, x.n) /\ Splits(P, a + 1, y.n) /\ x.code = "found"
    <3> HIDE DEF P, x, y
    <3>1. \A r, z : Shows(P, r, z) =>
            /\ z.code = r.code
            /\ (r.code \in {"found", "read"} => Splits(P, AddressOf(r.handle) + 1, z.n))
      BY DEF Shows
    <3>2. Splits(P, AddressOf(ret.handle) + 1, x.n) /\ x.code = "found"
      BY <1>2, <2>2, <3>1
    <3>3. Splits(P, AddressOf(ret'.handle) + 1, y.n)
      BY <2>2, <2>3, <3>1
    <3> QED
      BY <1>6, <2>3, <3>2, <3>3
  <2>5. y.n = x.n /\ x.n \in 1..Len(P) /\ P[x.n] = a
    BY <2>1, <2>2, <2>4, SplitsOnce, IndexOf
  <2>6. Items[x.n].key = tape[a].key
    BY <2>2, <2>5 DEF Views, View
  <2>7. y = [code |-> "read", for |-> {tape[a].key}, after |-> -1, n |-> x.n]
    BY <2>2, <2>3, <2>5 DEF Shows
  <2>8. PICK q, K : q = x.n /\ K = {Items[q].key}
    OBVIOUS
  <2>9. y = [code |-> "read", n |-> q, for |-> K, after |-> -1]
    <3> HIDE DEF y, x
    <3> QED
      BY <2>6, <2>7, <2>8
  <2>10. [Tape!Nothing EXCEPT !.code = "read", !.n = q, !.for = K] =
           [code |-> "read", n |-> q, for |-> K, after |-> -1]
    <3> DEFINE r == [Tape!Nothing EXCEPT !.code = "read"]
               s == [r EXCEPT !.n = q]
    <3>1. r = [code |-> "read", n |-> 0, for |-> {}, after |-> -1]
      BY DEF Tape!Nothing
    <3>2. [Tape!Nothing EXCEPT !.code = "read", !.n = q, !.for = K] = [s EXCEPT !.for = K]
      OBVIOUS
    <3> HIDE DEF r
    <3>3. s = [code |-> "read", n |-> q, for |-> {}, after |-> -1]
      BY <3>1
    <3> HIDE DEF s
    <3> QED
      BY <3>2, <3>3
  <2>11. Tape!Read
    BY <1>2, <1>3, <1>4, <1>8, <2>4, <2>8, <2>9, <2>10, Zenon DEF Tape!Read
  <2>12. Answer'.code = "read"
    BY <2>7
  <2>13. ret.code # "lost"
    BY <1>2
  <2> QED
    BY <1>7, <2>11, <2>12, <2>13, CallStep DEF Tape!Call
<1> QED
  BY <1>5, <1>6 DEF Read

\* The search of SeqTape, from the item n on for the keys of K.
Candidates(n, K) == {i \in n + 1 .. Len(Items) : Items[i].what # "rec" \/ Items[i].key \in K}
SearchFrom == IF Answer'.after = -1 THEN Position ELSE Answer'.after
Returns(c, n) == Answer'.code = c /\ Answer'.n = n

LEMMA SearchIs ==
  ASSUME NEW S, S = Candidates(SearchFrom, Answer'.for),
         st = "open", st' = st, Items' = Items, Frayed' = Frayed, ~OnPost',
         \/ S = {} /\ Answer'.code = "end" /\ Position' = Len(Items)
         \/ \E k \in S :
              /\ \A j \in S : k <= j
              /\ S \subseteq Int
              /\ \/ Items[k].what = "rec" /\ Returns("found", k) /\ Position' = k
                 \/ /\ Items[k].what = "mark" /\ Returns("end", Items[k].level)
                    /\ Position' = IF Items[k] = Tape!EofMark THEN k - 1 ELSE k
                 \/ Items[k].what = "dead" /\ Returns("end", 0) /\ Position' = k - 1
  PROVE  Tape!Search
<1>1. S = {i \in (IF Answer'.after = -1 THEN Position ELSE Answer'.after) + 1 .. Len(Items) :
             Items[i].what # "rec" \/ Items[i].key \in Answer'.for}
  BY DEF Candidates, SearchFrom
<1>2. CASE S = {} /\ Answer'.code = "end" /\ Position' = Len(Items)
  BY <1>1, <1>2 DEF Tape!Search, OnPost
<1>3. ASSUME NEW k \in S, \A j \in S : k <= j, S \subseteq Int,
             \/ Items[k].what = "rec" /\ Returns("found", k) /\ Position' = k
             \/ /\ Items[k].what = "mark" /\ Returns("end", Items[k].level)
                /\ Position' = IF Items[k] = Tape!EofMark THEN k - 1 ELSE k
             \/ Items[k].what = "dead" /\ Returns("end", 0) /\ Position' = k - 1
      PROVE  Tape!Search
  <2> DEFINE stop == CHOOSE i \in S : \A j \in S : i <= j
  <2>1. stop = k
    <3>1. stop \in S /\ \A j \in S : stop <= j
      BY <1>3
    <3> HIDE DEF stop
    <3>2. stop <= k /\ k <= stop /\ stop \in Int /\ k \in Int
      BY <1>3, <3>1
    <3> QED
      BY <3>2
  <2> HIDE DEF stop
  <2>2. CASE Items[stop].what = "rec"
    <3>1. Answer'.code = "found" /\ Answer'.n = stop /\ Position' = stop
      BY <1>3, <2>1, <2>2 DEF Returns
    <3> QED
      BY <1>1, <1>3, <2>2, <3>1 DEF Tape!Search, stop, OnPost
  <2>3. CASE Items[stop].what = "mark"
    <3>1. /\ Answer'.code = "end" /\ Answer'.n = Items[stop].level
          /\ Position' = IF Items[stop] = Tape!EofMark THEN stop - 1 ELSE stop
      BY <1>3, <2>1, <2>3 DEF Returns
    <3> QED
      BY <1>1, <1>3, <2>3, <3>1 DEF Tape!Search, stop, OnPost
  <2>4. CASE Items[stop].what = "dead"
    <3>1. Answer'.code = "end" /\ Answer'.n = 0 /\ Position' = stop - 1
      BY <1>3, <2>1, <2>4 DEF Returns
    <3> QED
      BY <1>1, <1>3, <2>4, <3>1 DEF Tape!Search, stop, OnPost
  <2> QED
    BY <1>3, <2>1, <2>2, <2>3, <2>4
<1> QED
  BY <1>2, <1>3

\* The item at which a search stops is that of SeqTape, and so is what it returns.
LEMMA FoundStep ==
  ASSUME SeqInv, SeqInv', NEW from \in Nat, NEW K, NEW after, ~LateMarks,
         \/ after = -1 /\ from = cur
         \/ after \in Nat /\ \A e \in Addr : Item(e) => (e > after <=> e >= from),
         NEW w, w \in WalkSet, Outcome(K, from, w), ~w.lost,
         cur' = w.cur \/ (w.last = -1 /\ FindsNone(w) /\ cur' = w.cur + 1),
         Answered(w, K, after), st = "open", ret.code # "lost",
         UNCHANGED <<st, mode, tape, bof, lengths>>
  PROVE  TapeStep
<1>1. Seen /\ Seen' /\ TypeInv /\ TapeInv /\ BoundariesResolve /\ Sizes /\ TypeSizes
  BY WhatIsSeen, SeenAfter DEF SeqInv, TypeInv
<1>2. st = "open" /\ st' = st /\ UNCHANGED <<tape, disk>> /\ cur' \in Nat
  BY DEF lengths, SeqInv, TypeInv
<1>3. Places' = Places /\ Items' = Items
  BY <1>1, <1>2, TapeStays
<1>4. /\ w \in WalkSet /\ Outcome(K, from, w) /\ ~w.lost
      /\ cur' = w.cur \/ (w.last = -1 /\ FindsNone(w) /\ cur' = w.cur + 1)
      /\ Answered(w, K, after)
  OBVIOUS
<1>18. Frayed' = Frayed
  BY <1>2, FrayedStays
<1> DEFINE P == Places
           N == Len(P)
           y == Answer'
           p == Position'
           f == SearchFrom
           S == Candidates(f, y.for)
<1>5. /\ Lists(P, ItemSet) /\ Items = Views(P, tape) /\ Splits(P, cur, Position)
      /\ Splits(P, cur', p) /\ Shows(P, ret', y) /\ P \in Seq(Nat) /\ N \in Nat
  BY <1>1, <1>3, ListIs DEF Seen
<1> HIDE DEF P
<1>6. \A i \in 1..N : /\ P[i] \in Addr /\ Item(P[i]) /\ P[i] \in Nat
                      /\ Items[i] = View(tape[P[i]])
  BY <1>5, AddrIs DEF Lists, ItemSet, Views
<1>7. Len(Items) = N
  BY <1>5 DEF Views
<1>22. \A i \in 1..N : Items[i].what = tape[P[i]].what
  <2> TAKE i \in 1..N
  <2>1. Items[i] = View(tape[P[i]])
    BY <1>6
  <2>2. PICK c : c = tape[P[i]]
    OBVIOUS
  <2>3. View(c).what = c.what
    BY DEF View
  <2> QED
    BY <2>1, <2>2, <2>3
<1>8. /\ w.found \in BOOLEAN /\ ret'.for = K /\ ret'.after = after
      /\ w.found => ret'.code = "found" /\ ret'.handle = HandleOf(w.last)
      /\ ~w.found => /\ ret'.code = "end"
                     /\ ret'.n = EofLevel((IF w.last = -1 THEN head ELSE HeaderAt(w.last)).cell)
  <2>1. w.found \in BOOLEAN
    BY <1>4 DEF WalkSet
  <2> QED
    BY <1>4, <2>1 DEF Answered
<1>9. /\ y.for = K /\ (after = -1 => y.after = -1)
      /\ after # -1 => Splits(P, after + 1, y.after)
      /\ w.found => y.code = "found" /\ Splits(P, AddressOf(HandleOf(w.last)) + 1, y.n)
      /\ ~w.found => y.code = "end" /\ y.n = ret'.n
  <2>1. PICK r : r = ret'
    OBVIOUS
  <2>2. y = [code |-> r.code, for |-> r.for, after |-> y.after, n |-> y.n]
    BY <1>5, <2>1 DEF Shows
  <2>3. y.code = r.code /\ y.for = r.for
    BY <2>2
  <2>4. /\ r.after = -1 => y.after = -1
        /\ r.after # -1 => Splits(P, r.after + 1, y.after)
        /\ r.code = "found" => Splits(P, AddressOf(r.handle) + 1, y.n)
        /\ r.code = "end" => y.n = r.n
    BY <1>5, <2>1 DEF Shows
  <2> HIDE DEF y
  <2> QED
    BY <1>8, <2>1, <2>3, <2>4
\* It begins at the same item.
<1>10. Splits(P, from, f) /\ f \in 0..N
  <2>1. CASE after = -1 /\ from = cur
    <3>1. f = Position
      BY <1>9, <2>1 DEF SearchFrom
    <3> QED
      BY <1>5, <2>1, <3>1 DEF Splits
  <2>2. CASE after \in Nat /\ \A e \in Addr : Item(e) => (e > after <=> e >= from)
    <3>1. Splits(P, after + 1, y.after)
      BY <1>9, <2>2
    <3>2. y.after # -1 /\ y.after \in 0..N
      BY <1>5, <3>1 DEF Splits
    <3>3. f = y.after
      BY <3>2 DEF SearchFrom
    <3> HIDE DEF f, y
    <3>4. \A i \in 1..N : (i <= f <=> P[i] < after + 1)
      BY <3>1, <3>3 DEF Splits
    <3>5. \A i \in 1..N : (P[i] < after + 1 <=> P[i] < from)
      BY <1>6, <2>2
    <3> QED
      BY <3>2, <3>3, <3>4, <3>5 DEF Splits
  <2> QED
    BY <2>1, <2>2
<1>11. \A i \in 1..N : (i > f <=> P[i] >= from)
  <2>1. \A i \in 1..N : (i <= f <=> P[i] < from)
    BY <1>10 DEF Splits
  <2> HIDE DEF f
  <2> QED
    BY <1>5, <1>6, <1>10, <2>1
<1>12. \A i \in 1..N : Halting(K, P[i]) <=> (Items[i].what # "rec" \/ Items[i].key \in K)
  <2> TAKE i \in 1..N
  <2>1. Item(P[i]) /\ Items[i] = View(tape[P[i]])
    BY <1>6
  <2>2. Items[i].what = tape[P[i]].what /\ Items[i].key = tape[P[i]].key
    BY <2>1 DEF View
  <2> QED
    BY <2>1, <2>2 DEF Halting, Item
<1>13. S = {i \in 1..N : P[i] >= from /\ Halting(K, P[i])}
  <2>1. S = {i \in f + 1 .. N : Items[i].what # "rec" \/ Items[i].key \in K}
    BY <1>7, <1>9 DEF Candidates
  <2>2. f \in Nat
    BY <1>10
  <2> HIDE DEF f, S
  <2>3. \A i : i \in f + 1 .. N <=> i \in 1..N /\ i > f
    BY <1>5, <2>2
  <2> QED
    BY <1>11, <1>12, <2>1, <2>3
<1>14. /\ st = "open" /\ st' = st /\ Items' = Items /\ S = Candidates(SearchFrom, Answer'.for)
       /\ Frayed' = Frayed
  BY <1>2, <1>3, <1>18
<1>19. y.code = Answer'.code /\ y.n = Answer'.n /\ p = Position'
  OBVIOUS
<1> HIDE DEF S
<1>15. ASSUME ~FallsShort(from, w)
       PROVE
       \/ S = {} /\ y.code = "end" /\ p = N
       \/ \E k \in S :
            /\ \A j \in S : k <= j
            /\ S \subseteq Int
            /\ \/ Items[k].what = "rec" /\ Returns("found", k) /\ p = k
               \/ /\ Items[k].what = "mark" /\ Returns("end", Items[k].level)
                  /\ p = IF Items[k] = Tape!EofMark THEN k - 1 ELSE k
               \/ Items[k].what = "dead" /\ Returns("end", 0) /\ p = k - 1
  <2>1. CASE FindsNone(w) /\ \A e \in Addr : Halting(K, e) => e < from
    <3>1. S = {}
      <4>1. \A i \in 1..N : ~(P[i] >= from /\ Halting(K, P[i]))
        BY <1>6, <2>1
      <4> QED
        BY <1>13, <4>1
    <3>2. ~w.found /\ Past(cur')
      <4>1. w.cur \in Nat /\ disk \in Nat
        BY <1>1, <1>4 DEF WalkSet, TypeSizes
      <4> QED
        BY <1>4, <2>1, <4>1 DEF FindsNone, Past
    <3>3. Splits(P, cur', N)
      <4>1. \A e \in ItemSet : e < cur'
        BY <1>1, <1>2, <3>2, PastIs DEF Ended, ItemSet
      <4> QED
        BY <1>2, <1>5, <4>1, AllBefore
    <3>4. p = N
      BY <1>5, <3>3, SplitsOnce
    <3> QED
      BY <1>9, <3>1, <3>2, <3>4
  <2>2. ASSUME NEW b \in Addr, Halting(K, b), b >= from, StopsAt(b, w),
               \A e \in Addr : Halting(K, e) /\ e >= from => e >= b
        PROVE  \E k \in S :
                 /\ \A j \in S : k <= j
                 /\ S \subseteq Int
                 /\ \/ Items[k].what = "rec" /\ Returns("found", k) /\ p = k
                    \/ /\ Items[k].what = "mark" /\ Returns("end", Items[k].level)
                       /\ p = IF Items[k] = Tape!EofMark THEN k - 1 ELSE k
                    \/ Items[k].what = "dead" /\ Returns("end", 0) /\ p = k - 1
    <3>1. Item(b) /\ b \in ItemSet /\ b \in Nat /\ Boundary(b)
      BY <1>1, <2>2, ItemsAre DEF Halting, ItemSet
    <3>2. PICK k \in 1..N : P[k] = b
      BY <1>5, <3>1 DEF Lists
    <3>3. k \in S
      BY <1>13, <2>2, <3>2
    <3>4. S \subseteq Int /\ \A j \in S : k <= j
      <4>1. \A j \in S : j \in 1..N /\ P[j] >= b
        BY <1>6, <1>13, <2>2
      <4>2. \A j \in 1..N : j < k => P[j] < P[k]
        BY <1>5 DEF Lists
      <4>3. \A j \in S : ~(j < k)
        BY <1>6, <3>1, <3>2, <4>1, <4>2
      <4> QED
        BY <4>1, <4>3
    <3>5. Splits(P, b, k - 1) /\ Splits(P, b + 1, k) /\ Splits(P, Behind(b), k)
      BY <1>1, <1>5, <3>2, AroundItem
    <3>6. Items[k] = View(tape[b])
      BY <1>6, <3>2
    <3>7. p = IF tape[b].what = "dead" \/ Ends(b) THEN k - 1 ELSE k
      <4>1. cur' = IF tape[b].what = "dead" \/ Ends(b) THEN b ELSE Behind(b)
        <5>1. w.last # -1
          BY <2>2, <3>1 DEF StopsAt
        <5> QED
          BY <1>4, <2>2, <5>1 DEF StopsAt
      <4>2. CASE tape[b].what = "dead" \/ Ends(b)
        BY <1>5, <3>5, <4>1, <4>2, SplitsOnce
      <4>3. CASE ~(tape[b].what = "dead" \/ Ends(b))
        BY <1>5, <3>5, <4>1, <4>3, SplitsOnce
      <4> QED
        BY <4>2, <4>3
    <3>8. w.last = b /\ (w.found <=> tape[b].what = "rec")
      BY <2>2 DEF StopsAt
    <3>9. CASE tape[b].what = "rec"
      <4>1. AddressOf(HandleOf(b)) = b
        <5>1. ~LateMarks => Resolves(b)
          BY <1>1, <3>1 DEF BoundariesResolve
        <5>2. Resolves(b)
          BY <5>1
        <5> QED
          BY <5>2 DEF Resolves
      <4>2. y.n = k /\ y.code = "found"
        BY <1>5, <1>9, <3>5, <3>8, <3>9, <4>1, SplitsOnce
      <4>3. p = k
        BY <3>7, <3>9 DEF Ends
      <4>4. Items[k].what = "rec"
        BY <3>6, <3>9 DEF View
      <4> QED
        BY <3>3, <3>4, <4>2, <4>3, <4>4 DEF Returns
    <3>10. CASE tape[b].what = "mark"
      <4>1. y.code = "end" /\ y.n = EofLevel(At(b))
        <5>1. b # -1
          BY <3>1
        <5> QED
          BY <1>8, <1>9, <3>8, <3>10, <5>1 DEF HeaderAt
      <4>2. y.n = tape[b].n
        BY <3>10, <4>1 DEF At, EofLevel
      <4>3. Items[k].what = "mark" /\ Items[k].level = tape[b].n
        BY <3>6, <3>10 DEF View
      <4>4. Items[k] = Tape!EofMark <=> Ends(b)
        <5>1. tape[b].key = "none"
          BY <1>1, <3>10 DEF TapeInv, MarksHaveNoKey
        <5>2. View(tape[b]) = [what |-> "mark", key |-> "none", level |-> tape[b].n]
          BY <3>10, <5>1 DEF View
        <5> QED
          BY <3>6, <3>10, <5>2 DEF Tape!EofMark, Tape!EOF, Ends, EOF
      <4>5. p = IF Items[k] = Tape!EofMark THEN k - 1 ELSE k
        BY <3>7, <3>10, <4>4
      <4> QED
        BY <3>3, <3>4, <4>1, <4>2, <4>3, <4>5 DEF Returns
    <3>11. CASE tape[b].what = "dead"
      <4>1. y.code = "end" /\ y.n = EofLevel(At(b))
        <5>1. b # -1
          BY <3>1
        <5> QED
          BY <1>8, <1>9, <3>8, <3>11, <5>1 DEF HeaderAt
      <4>2. y.n = 0
        BY <3>11, <4>1 DEF At, EofLevel
      <4>3. Items[k].what = "dead"
        BY <3>6, <3>11 DEF View
      <4>4. p = k - 1
        BY <3>7, <3>11
      <4> QED
        BY <3>3, <3>4, <4>1, <4>2, <4>3, <4>4 DEF Returns
    <3> QED
      BY <3>1, <3>9, <3>10, <3>11 DEF Item
  <2> QED
    BY <1>4, <1>15, <2>1, <2>2 DEF Outcome
<1>20. CASE ~FallsShort(from, w)
  <2>1. Boundary(cur') \/ Past(cur')
    <3>1. ASSUME NEW b \in Addr, Halting(K, b), StopsAt(b, w) PROVE Boundary(cur')
      <4>1. Item(b) /\ Boundary(b) /\ b \in Nat
        BY <1>1, <3>1, ItemsAre DEF Halting
      <4>2. w.last # -1
        BY <3>1, <4>1 DEF StopsAt
      <4>3. cur' = IF tape[b].what = "dead" \/ Ends(b) THEN b ELSE Behind(b)
        BY <1>4, <3>1, <4>2 DEF StopsAt
      <4>4. ~Ends(b) => Boundary(Behind(b))
        BY <4>1 DEF Boundary
      <4> QED
        BY <4>1, <4>3, <4>4
    <3>2. ASSUME FindsNone(w) PROVE Past(cur')
      <4>1. w.cur \in Nat /\ disk \in Nat
        BY <1>1, <1>4 DEF WalkSet, TypeSizes
      <4> QED
        BY <1>4, <3>2, <4>1 DEF FindsNone, Past
    <3> QED
      BY <1>4, <1>20, <3>1, <3>2 DEF Outcome
  <2>4. ~OnPost'
    BY <1>2, <2>1, OffPost
  <2>2. Tape!Search
    BY <1>7, <1>14, <1>15, <1>20, <2>4, SearchIs
  <2>3. Answer'.code \in {"found", "end"}
    BY <1>8, <1>9
  <2> QED
    BY <2>2, <2>3, <2>4, CallStep DEF Tape!Call
<1>21. CASE FallsShort(from, w)
  <2>1. ~w.found /\ cur' = from /\ w.last = from /\ LastPost(from)
    BY <1>4, <1>21 DEF FallsShort
  <2>2. from \in Addr /\ tape[from].what = "post" /\ At(from) = tape[from]
    BY <2>1 DEF LastPost, At
  <2>3. OnPost' /\ (after = -1 => OnPost)
    BY <1>2, <2>1, <2>2 DEF OnPost, At
  <2>4. PICK n : n = tape[from].n
    OBVIOUS
  <2>5. n \in Addr /\ Item(n) /\ IsRecord(tape[n]) /\ n < from /\ Behind(n) = from + 2 /\ n \in Nat
    BY <1>1, <2>2, <2>4, PostsAre, AddrIs
  <2>6. PICK k \in 1..N : P[k] = n
    BY <1>5, <2>5 DEF Lists, ItemSet
  <2>7. f \in 1..N /\ P[f] = n
    <3>1. k <= f
      BY <1>10, <2>5, <2>6 DEF Splits
    <3>2. f \in 1..N
      BY <1>5, <1>10, <3>1
    <3>3. P[f] < from
      BY <1>5, <1>10, <3>2 DEF Splits
    <3>4. ~(k < f)
      <4>1. k < f => P[k] < P[f]
        BY <1>5, <3>2 DEF Lists
      <4>2. P[k] < P[f] => Behind(n) <= P[f]
        BY <1>1, <1>6, <2>5, <2>6, <3>2 DEF TapeInv, ItemsApart
      <4> QED
        BY <1>6, <2>5, <3>2, <3>3, <4>1, <4>2
    <3> QED
      BY <1>5, <2>6, <3>1, <3>2, <3>4
  <2>8. Items[f].what # "mark"
    <3>1. tape[n].what # "mark"
      BY <2>5 DEF IsRecord
    <3> HIDE DEF f
    <3> QED
      BY <1>22, <2>7, <3>1
  <2>9. \A i \in f + 1 .. N : Items[i].what = "mark"
    <3> TAKE i \in f + 1 .. N
    <3>1. i \in 1..N /\ i > f
      BY <1>5, <1>10
    <3>2. P[i] \in Addr /\ Item(P[i]) /\ P[i] >= from
      BY <1>6, <1>11, <3>1
    <3>3. tape[P[i]].what = "mark"
      BY <2>1, <3>2 DEF LastPost
    <3> HIDE DEF f
    <3> QED
      BY <1>22, <3>1, <3>3
  <2>10. p = f
    BY <1>5, <1>10, <2>1, SplitsOnce
  <2>11. y.code = "end" /\ y.n = 0
    <3>1. y.code = "end" /\ y.n = EofLevel(At(from))
      <4>1. from # -1
        OBVIOUS
      <4> QED
        BY <1>8, <1>9, <2>1, <4>1 DEF HeaderAt
    <3> QED
      BY <2>2, <3>1 DEF EofLevel
  <2>12. y.after = -1 => OnPost
    <3>1. after # -1 => y.after # -1
      BY <1>5, <1>9 DEF Splits
    <3> QED
      BY <2>3, <3>1
  <2>13. Tape!FallShort
    <3>1. (IF Answer'.after = -1 THEN Position ELSE Answer'.after) = f
      BY DEF SearchFrom
    <3> HIDE DEF f
    <3> QED
      BY <1>2, <1>3, <1>7, <1>18, <2>3, <2>7, <2>8, <2>9, <2>10, <2>11, <2>12, <3>1
         DEF Tape!FallShort, OnPost
  <2>14. Answer.code # "lost"
    BY DEF Answer
  <2> QED
    BY <2>13, <2>14 DEF TapeStep, Tape!Next
<1> QED
  BY <1>20, <1>21

\* A search, whatever comes of it.
LEMMA LocateStep ==
  ASSUME SeqInv, SeqInv', NEW from \in Nat, OnWay(from), NEW K, NEW after,
         Locate(from, K, after), ~LateMarks,
         \/ after = -1 /\ from = cur
         \/ after \in Nat /\ \A e \in Addr : Item(e) => (e > after <=> e >= from)
  PROVE  TapeStep
<1>1. CASE Frayed /\ GoesAstray
  BY <1>1, StrayStep
<1>2. ASSUME NEW w, w \in WalkSet, Outcome(K, from, w), ~w.lost,
             cur' = w.cur \/ (w.last = -1 /\ FindsNone(w) /\ cur' = w.cur + 1),
             Answered(w, K, after), st = "open", ret.code # "lost",
             UNCHANGED <<st, mode, tape, bof, lengths>>
      PROVE  TapeStep
  BY <1>2, FoundStep
<1> QED
  BY <1>1, <1>2, LocateIs

-----------------------------------------------------------------------------
(* Writing on the tape.                                                    *)

\* What is listed below an address.
Below(S, p) == {a \in S : a < p}

LEMMA ListBelow ==
  ASSUME NEW P, NEW S, Lists(P, S), NEW p \in Nat, NEW k, Splits(P, p, k)
  PROVE  Lists(SubSeq(P, 1, k), Below(S, p)) /\ Len(SubSeq(P, 1, k)) = k
<1> DEFINE Q == SubSeq(P, 1, k)
           B == {a \in S : a < p}
<1>1. /\ P \in Seq(Nat) /\ Len(P) \in Nat /\ k \in 0..Len(P)
      /\ \A i \in 1..Len(P) : P[i] \in S /\ P[i] \in Nat /\ (i <= k <=> P[i] < p)
  BY ListIs DEF Splits
<1>2. Q \in Seq(Nat) /\ Len(Q) = k /\ \A i \in 1..k : Q[i] = P[i]
  BY <1>1
<1>3. \A i \in 1..k : i \in 1..Len(P) /\ i <= k
  BY <1>1
<1> HIDE DEF Q
<1>4. \A i \in 1..k : Q[i] \in B
  BY <1>1, <1>2, <1>3
<1>5. \A i, j \in 1..k : i < j => Q[i] < Q[j]
  BY <1>2, <1>3 DEF Lists
<1>6. ASSUME NEW x \in B PROVE \E i \in 1..k : Q[i] = x
  <2>1. PICK i \in 1..Len(P) : P[i] = x
    BY DEF Lists
  <2>2. i <= k /\ i \in 1..k
    BY <1>1, <2>1
  <2> QED
    BY <1>2, <2>1, <2>2
<1> HIDE DEF B
<1>7. Lists(Q, B)
  BY <1>2, <1>4, <1>5, <1>6 DEF Lists
<1> QED
  BY <1>2, <1>7 DEF Q, B, Below

\* One more at its end.
LEMMA ListGrows ==
  ASSUME NEW Q, NEW S, Lists(Q, S), NEW p \in Nat, \A a \in S : a < p
  PROVE  /\ Lists(Append(Q, p), S \cup {p})
         /\ Len(Append(Q, p)) = Len(Q) + 1 /\ Append(Q, p)[Len(Q) + 1] = p
         /\ \A i \in 1..Len(Q) : Append(Q, p)[i] = Q[i]
<1> DEFINE R == Append(Q, p)
           n == Len(Q)
<1>1. Q \in Seq(Nat) /\ n \in Nat /\ \A i \in 1..n : Q[i] \in S /\ Q[i] \in Nat /\ Q[i] < p
  BY ListIs
<1>2. /\ R \in Seq(Nat) /\ Len(R) = n + 1 /\ R[n + 1] = p
      /\ \A i \in 1..n : R[i] = Q[i]
  BY <1>1
<1>3. \A i, j \in 1..n : i < j => Q[i] < Q[j]
  BY DEF Lists
<1>4. \A x \in S : \E i \in 1..n : Q[i] = x
  BY DEF Lists
<1> HIDE DEF R, n
<1>5. \A i \in 1..n + 1 : i \in 1..n \/ i = n + 1
  BY <1>1
<1>6. \A i \in 1..n : i \in 1..n + 1 /\ i < n + 1
  BY <1>1
<1>7. \A i \in 1..n + 1 : R[i] \in S \cup {p}
  BY <1>1, <1>2, <1>5
<1>8. \A i, j \in 1..n + 1 : i < j => R[i] < R[j]
  <2> TAKE i, j \in 1..n + 1
  <2> HAVE i < j
  <2>1. i \in 1..n
    BY <1>1
  <2>2. CASE j \in 1..n
    BY <1>2, <1>3, <2>1, <2>2
  <2>3. CASE j = n + 1
    BY <1>1, <1>2, <2>1, <2>3
  <2> QED
    BY <1>5, <2>2, <2>3
<1>9. \A x \in S \cup {p} : \E i \in 1..n + 1 : R[i] = x
  <2> TAKE x \in S \cup {p}
  <2>1. CASE x \in S
    BY <1>2, <1>4, <1>6, <2>1
  <2>2. CASE x = p
    <3>1. n + 1 \in 1..n + 1
      BY <1>1
    <3> QED
      BY <1>2, <2>2, <3>1
  <2> QED
    BY <2>1, <2>2
<1>10. Lists(R, S \cup {p})
  BY <1>2, <1>7, <1>8, <1>9 DEF Lists
<1> QED
  BY <1>2, <1>10 DEF R, n

LEMMA SplitsGrown ==
  ASSUME NEW Q, NEW S, Lists(Q, S), NEW p \in Nat, \A a \in S : a < p
  PROVE  /\ Splits(Append(Q, p), p, Len(Q))
         /\ Splits(Append(Q, p), p + 1, Len(Q) + 1)
<1> DEFINE R == Append(Q, p)
           n == Len(Q)
<1>1. n \in Nat /\ \A i \in 1..n : Q[i] \in Nat /\ Q[i] < p
  BY ListIs
<1>2. Len(R) = n + 1 /\ R[n + 1] = p /\ \A i \in 1..n : R[i] = Q[i]
  BY ListGrows
<1> HIDE DEF R, n
<1>3. \A i \in 1..n + 1 : i \in 1..n \/ i = n + 1
  BY <1>1
<1>4. \A i \in 1..n + 1 : (i <= n <=> R[i] < p) /\ R[i] < p + 1 /\ i <= n + 1
  <2> TAKE i \in 1..n + 1
  <2>1. CASE i \in 1..n
    BY <1>1, <1>2, <2>1
  <2>2. CASE i = n + 1
    BY <1>1, <1>2, <2>2
  <2> QED
    BY <1>3, <2>1, <2>2
<1>5. Splits(R, p, n) /\ Splits(R, p + 1, n + 1)
  BY <1>1, <1>2, <1>4 DEF Splits
<1> QED
  BY <1>5 DEF R, n

\* What is seen of them.
LEMMA ViewsOfGrown ==
  ASSUME NEW Q \in Seq(Nat), NEW p \in Nat, NEW T
  PROVE  Views(Append(Q, p), T) = Append(Views(Q, T), View(T[p]))
<1> DEFINE n == Len(Q)
           R == Append(Q, p)
           X == Views(Q, T)
           v == View(T[p])
<1>1. n \in Nat /\ Len(R) = n + 1 /\ R[n + 1] = p /\ \A i \in 1..n : R[i] = Q[i]
  OBVIOUS
<1>2. X = [i \in 1..n |-> View(T[Q[i]])] /\ Views(R, T) = [i \in 1..n + 1 |-> View(T[R[i]])]
  BY <1>1 DEF Views
<1> HIDE DEF n, R, X, v
<1> DEFINE W == {X[i] : i \in 1..n} \cup {v}
<1>7. X \in [1..n -> W] /\ v \in W
  BY <1>2
<1> HIDE DEF W
<1>3. X \in Seq(W) /\ v \in W /\ Len(X) = n
  BY <1>1, <1>2, <1>7
<1>4. Append(X, v) = [i \in 1..n + 1 |-> IF i <= n THEN X[i] ELSE v]
  <2> DEFINE Y == Append(X, v)
  <2>1. Y \in Seq(W) /\ Len(Y) = n + 1 /\ Y[n + 1] = v /\ \A i \in 1..n : Y[i] = X[i]
    BY <1>1, <1>3
  <2> HIDE DEF Y
  <2>2. Y = [i \in 1..n + 1 |-> Y[i]]
    <3>1. \A q \in Seq(W) : q = [i \in 1..Len(q) |-> q[i]]
      OBVIOUS
    <3> QED
      BY <2>1, <3>1
  <2>3. \A i \in 1..n + 1 : Y[i] = IF i <= n THEN X[i] ELSE v
    <3> TAKE i \in 1..n + 1
    <3>1. i \in 1..n <=> i <= n
      BY <1>1
    <3>2. ~(i <= n) => i = n + 1
      BY <1>1
    <3> QED
      BY <2>1, <3>1, <3>2
  <2> QED
    BY <2>2, <2>3 DEF Y
<1>5. \A i \in 1..n + 1 : View(T[R[i]]) = IF i <= n THEN X[i] ELSE v
  <2> TAKE i \in 1..n + 1
  <2>1. CASE i <= n
    <3>1. i \in 1..n
      BY <1>1, <2>1
    <3> QED
      BY <1>1, <1>2, <2>1, <3>1
  <2>2. CASE ~(i <= n)
    <3>1. i = n + 1
      BY <1>1, <2>2
    <3> QED
      BY <1>1, <2>2, <3>1 DEF v
  <2> QED
    BY <2>1, <2>2
<1>6. Views(R, T) = Append(X, v)
  BY <1>2, <1>4, <1>5
<1> QED
  BY <1>6 DEF R, X, v

LEMMA ViewsOfBelow ==
  ASSUME NEW P \in Seq(Nat), NEW k \in 0..Len(P), NEW T, NEW U,
         \A i \in 1..k : U[P[i]] = T[P[i]]
  PROVE  Views(SubSeq(P, 1, k), U) = SubSeq(Views(P, T), 1, k)
<1> DEFINE n == Len(P)
           Q == SubSeq(P, 1, k)
           X == Views(P, T)
<1>1. n \in Nat /\ k \in 0..n /\ Len(Q) = k /\ \A i \in 1..k : i \in 1..n /\ Q[i] = P[i]
  OBVIOUS
<1>2. X = [i \in 1..n |-> View(T[P[i]])] /\ Views(Q, U) = [i \in 1..k |-> View(U[Q[i]])]
  BY <1>1 DEF Views
<1> HIDE DEF n, Q, X
<1> DEFINE W == {X[i] : i \in 1..n}
<1>6. X \in [1..n -> W]
  BY <1>2
<1> HIDE DEF W
<1>3. X \in Seq(W) /\ Len(X) = n
  BY <1>1, <1>2, <1>6
<1>4. SubSeq(X, 1, k) = [i \in 1..k |-> X[i]]
  <2> DEFINE Y == SubSeq(X, 1, k)
  <2>1. Y \in Seq(W) /\ Len(Y) = k /\ \A i \in 1..k : Y[i] = X[i]
    BY <1>1, <1>3
  <2> HIDE DEF Y
  <2>2. Y = [i \in 1..k |-> Y[i]]
    <3>1. \A q \in Seq(W) : q = [i \in 1..Len(q) |-> q[i]]
      OBVIOUS
    <3> QED
      BY <2>1, <3>1
  <2> QED
    BY <2>1, <2>2 DEF Y
<1>5. \A i \in 1..k : View(U[Q[i]]) = X[i]
  BY <1>1, <1>2
<1> QED
  BY <1>2, <1>4, <1>5 DEF Q, X

\* A call that writes cuts the tape at the position and adds the item, and the mark EOF if
\* the process lives.
LEMMA WrittenItems ==
  ASSUME SeqInv, SeqInv', NEW p \in Addr, p = cur, Boundary(p),
         NEW c, NEW posted, NEW closed \in BOOLEAN, Writes(p, c, posted, closed),
         tape' = NewTape(p, c, posted, closed)
  PROVE  LET k   == Position
             one == Append(Tape!Kept, View(c))
         IN  /\ k \in Nat
             /\ Tape!Kept \in Seq({Items[i] : i \in 1..k}) /\ Len(Tape!Kept) = k
             /\ Items' = IF closed THEN Append(one, Tape!EofMark) ELSE one
             /\ cur' = p => Position' = k
             /\ closed /\ cur' = p + Step(c) => Position' = k + 1
<1> DEFINE P == Places
           k == Position
           S == {a \in ItemSet : a < p}
           Q == SubSeq(P, 1, k)
           R == Append(Q, p)
           b == p + Step(c)
           V == Append(R, b)
           T == tape'
<1>1. Seen /\ Seen' /\ TapeInv /\ p \in Nat
  BY WhatIsSeen, SeenAfter, AddrIs DEF SeqInv
<1>2. Lists(P, ItemSet) /\ Items = Views(P, tape) /\ Splits(P, p, k) /\ P \in Seq(Nat)
  BY <1>1, ListIs DEF Seen
<1>3. Lists(Q, S) /\ Len(Q) = k /\ \A i \in 1..k : Q[i] = P[i]
  <2> HIDE DEF P, k
  <2>1. Lists(SubSeq(P, 1, k), Below(ItemSet, p))
    BY <1>1, <1>2, ListBelow
  <2>2. Len(SubSeq(P, 1, k)) = k
    BY <1>1, <1>2, ListBelow
  <2>3. k \in 0..Len(P) /\ Len(P) \in Nat
    BY <1>2, ListIs DEF Splits
  <2>4. \A i \in 1..k : SubSeq(P, 1, k)[i] = P[i]
    BY <1>2, <2>3
  <2> QED
    BY <2>1, <2>2, <2>4 DEF Below
<1>4. Lists(R, S \cup {p}) /\ Splits(R, p, k)
  <2>1. \A a \in S : a < p
    OBVIOUS
  <2> HIDE DEF Q, S
  <2>2. Lists(Append(Q, p), S \cup {p}) /\ Splits(Append(Q, p), p, Len(Q))
    BY <1>1, <1>3, <2>1, ListGrows, SplitsGrown
  <2> QED
    BY <1>3, <2>2
<1>5. /\ c \in Cell /\ c.what \in {"rec", "mark"} /\ Step(c) \in Nat /\ b \in Nat /\ b > p
      /\ posted => p + c.len \in Addr /\ c.what = "rec" /\ b = p + c.len + 2
      /\ closed => b \in Addr
  BY <1>1 DEF Writes, Cell, Step, IsRecord
<1> HIDE DEF b
\* The items of the new tape.
<1>6. /\ \A a \in Addr : a < p => T[a] = tape[a]
      /\ T[p] = c
      /\ \A a \in Addr : a > p =>
           T[a].what \in {"rec", "dead", "mark"} <=> (closed /\ a = b)
      /\ closed => T[b] = Mark(EOF)
  <2>1. \A a \in Addr : a \in Nat
    BY AddrIs
  <2>2. /\ \A a \in Addr : a < p => T[a] = tape[a]
        /\ T[p] = c
        /\ \A a \in Addr : a > p =>
             \/ posted /\ a = p + c.len /\ T[a] = Post(p)
             \/ closed /\ a = b /\ T[a] = Mark(EOF)
             \/ ~(closed /\ a = b) /\ T[a] = Blank
    <3>1. \A a \in Addr : T[a] = IF a < p THEN tape[a]
                                ELSE IF a = p THEN c
                                ELSE IF posted /\ a = p + c.len THEN Post(p)
                                ELSE IF closed /\ a = b THEN Mark(EOF)
                                ELSE Blank
      BY DEF NewTape, b
    <3>2. \A a \in Addr : (a < p => a # p /\ ~(a > p)) /\ (a > p => ~(a < p) /\ a # p)
      BY <1>1, <2>1
    <3> HIDE DEF T
    <3>3. \A a \in Addr : a < p => T[a] = tape[a]
      BY <3>1
    <3>4. T[p] = c
      BY <1>1, <3>1
    <3>5. ASSUME NEW a \in Addr, a > p
          PROVE  \/ posted /\ a = p + c.len /\ T[a] = Post(p)
                 \/ closed /\ a = b /\ T[a] = Mark(EOF)
                 \/ ~(closed /\ a = b) /\ T[a] = Blank
      BY <3>1, <3>2, <3>5
    <3> QED
      BY <3>3, <3>4, <3>5
  <2>3. Post(p).what = "post" /\ Blank.what = "none" /\ Mark(EOF).what = "mark"
    BY <1>1, CellsTyped
  <2>4. closed => T[b] = Mark(EOF) /\ b \in Addr
    BY <1>1, <1>5 DEF NewTape, b
  <2>5. ~(posted /\ p + c.len = b)
    BY <1>1, <1>5 DEF Cell
  <2> HIDE DEF T
  <2>6. ASSUME NEW a \in Addr, a > p
        PROVE  T[a].what \in {"rec", "dead", "mark"} <=> (closed /\ a = b)
    BY <2>2, <2>3, <2>5, <2>6
  <2> QED
    BY <2>2, <2>4, <2>6
<1>7. ItemSet' = IF closed THEN (S \cup {p}) \cup {b} ELSE S \cup {p}
  <2>1. ItemSet' = {a \in Addr : T[a].what \in {"rec", "dead", "mark"}}
    BY DEF ItemSet, Item
  <2>2. S = {a \in Addr : tape[a].what \in {"rec", "dead", "mark"} /\ a < p}
    BY DEF ItemSet, Item
  <2>3. \A a \in Addr : a < p \/ a = p \/ a > p
    BY <1>1, AddrIs
  <2>4. \A a \in Addr : ~(a = p /\ a < p) /\ ~(a < p /\ a > p) /\ ~(a = p /\ a > p)
    BY <1>1, AddrIs
  <2> HIDE DEF T, S
  <2>5. ASSUME NEW a \in Addr
        PROVE  T[a].what \in {"rec", "dead", "mark"} <=> (a \in S \/ a = p \/ (closed /\ a = b))
    <3>1. CASE a < p
      <4>1. ~(closed /\ a = b) /\ a # p
        BY <1>1, <1>5, <3>1, AddrIs
      <4> QED
        BY <1>6, <2>2, <3>1, <4>1
    <3>2. CASE a = p
      BY <1>5, <1>6, <3>2
    <3>3. CASE a > p
      <4>1. a \notin S /\ a # p
        BY <2>2, <2>4, <3>3
      <4> QED
        BY <1>6, <3>3, <4>1
    <3> QED
      BY <2>3, <3>1, <3>2, <3>3
  <2>6. S \subseteq Addr /\ (closed => b \in Addr)
    BY <1>5, <2>2
  <2> QED
    BY <2>1, <2>5, <2>6
<1>8. Lists(Places', ItemSet') /\ Items' = Views(Places', T) /\ Splits(Places', cur', Position')
  BY <1>1 DEF Seen
<1>9. k \in 0..Len(P) /\ Len(P) \in Nat
  BY <1>2, ListIs DEF Splits
<1>10. Q \in Seq(Nat) /\ R \in Seq(Nat) /\ Len(R) = k + 1
  <2>1. Q \in Seq(Nat)
    BY <1>3, ListIs
  <2> HIDE DEF Q
  <2> QED
    BY <1>1, <1>3, <2>1
\* What a reader sees of it.
<1>11. Tape!Kept = SubSeq(Items, 1, k)
  BY DEF Tape!Kept
<1>12. Views(Q, T) = Tape!Kept
  <2>1. \A i \in 1..k : T[P[i]] = tape[P[i]]
    <3> TAKE i \in 1..k
    <3>1. i \in 1..Len(P) /\ i <= k
      BY <1>9
    <3>2. P[i] \in Addr /\ P[i] < p
      BY <1>2, <3>1 DEF Lists, Splits, ItemSet
    <3> QED
      BY <1>6, <3>2
  <2> HIDE DEF P, k, T
  <2>2. Views(SubSeq(P, 1, k), T) = SubSeq(Views(P, tape), 1, k)
    BY <1>2, <1>9, <2>1, ViewsOfBelow
  <2> QED
    BY <1>2, <1>11, <2>2
<1>13. Views(R, T) = Append(Tape!Kept, View(c))
  <2> HIDE DEF Q, T
  <2>1. Views(Append(Q, p), T) = Append(Views(Q, T), View(T[p]))
    BY <1>1, <1>10, ViewsOfGrown
  <2> QED
    BY <1>6, <1>12, <2>1
<1>14. closed => Views(V, T) = Append(Append(Tape!Kept, View(c)), Tape!EofMark)
  <2>1. View(Mark(EOF)) = Tape!EofMark
    BY CellsTyped DEF View, Tape!EofMark, Tape!EOF, EOF
  <2> HIDE DEF R, T
  <2>2. Views(Append(R, b), T) = Append(Views(R, T), View(T[b]))
    BY <1>5, <1>10, ViewsOfGrown
  <2> QED
    BY <1>6, <1>13, <2>1, <2>2
<1>15. k \in Nat /\ Tape!Kept \in Seq({Items[i] : i \in 1..k}) /\ Len(Tape!Kept) = k
  <2> DEFINE X == Tape!Kept
  <2>1. X = [i \in 1..k |-> View(T[Q[i]])] /\ k \in Nat
    BY <1>3, <1>9, <1>12 DEF Views
  <2>2. \A i \in 1..k : X[i] = Items[i]
    <3>1. \A i \in 1..k : i \in 1..Len(P) /\ P[i] \in Addr /\ P[i] < p
      <4> TAKE i \in 1..k
      <4>1. i \in 1..Len(P) /\ i <= k
        BY <1>9
      <4> QED
        BY <1>2, <4>1 DEF Lists, Splits, ItemSet
    <3>2. \A i \in 1..Len(P) : Items[i] = View(tape[P[i]])
      BY <1>2 DEF Views
    <3> HIDE DEF X, T, Q, P, k
    <3> QED
      BY <1>3, <1>6, <2>1, <3>1, <3>2 DEF X
  <2> DEFINE W == {Items[i] : i \in 1..k}
  <2> HIDE DEF T, Q, X, k
  <2>3. X \in [1..k -> W]
    BY <2>1, <2>2
  <2> HIDE DEF W
  <2>4. X \in Seq(W) /\ Len(X) = k
    BY <2>1, <2>3
  <2> QED
    BY <2>1, <2>4 DEF X, W
<1>16. CASE closed
  <2>1. \A a \in S \cup {p} : a < b
    <3> TAKE a \in S \cup {p}
    <3>1. a = p \/ (a < p /\ a \in Nat)
      BY AddrIs DEF ItemSet
    <3> QED
      BY <1>1, <1>5, <3>1
  <2>2. Lists(V, (S \cup {p}) \cup {b}) /\ Splits(V, b, k + 1) /\ \A i \in 1..k + 1 : V[i] = R[i]
    <3> HIDE DEF R, S
    <3>1. /\ Lists(Append(R, b), (S \cup {p}) \cup {b})
          /\ \A i \in 1..Len(R) : Append(R, b)[i] = R[i]
      BY <1>4, <1>5, <2>1, ListGrows
    <3>2. Splits(Append(R, b), b, Len(R))
      BY <1>4, <1>5, <2>1, SplitsGrown
    <3> QED
      BY <1>10, <3>1, <3>2
  <2>3. Places' = V
    <3> HIDE DEF V, S
    <3> QED
      BY <1>7, <1>8, <1>16, <2>2, OneList
  <2>4. Items' = Append(Append(Tape!Kept, View(c)), Tape!EofMark)
    BY <1>8, <1>14, <1>16, <2>3, Zenon
  <2>5. V \in Seq(Nat)
    BY <2>2, ListIs
  <2>6. Splits(V, cur', Position')
    BY <1>8, <2>3, Zenon
  <2>7. cur' = b => Position' = k + 1
    <3> HIDE DEF V, k
    <3> QED
      BY <2>2, <2>5, <2>6, SplitsOnce
  <2>8. cur' = p => Position' = k
    <3>1. Splits(V, p, k)
      <4>1. Len(V) = k + 2 /\ V[k + 2] = b
        <5> HIDE DEF R
        <5> QED
          BY <1>5, <1>9, <1>10
      <4>2. /\ \A i \in 1..k + 1 : (i <= k <=> R[i] < p)
            /\ k \in Nat
        <5> HIDE DEF R
        <5> QED
          BY <1>4, <1>9, <1>10 DEF Splits
      <4>3. \A i \in 1..k + 2 : i \in 1..k + 1 \/ i = k + 2
        BY <4>2
      <4> HIDE DEF V, R, k
      <4>4. \A i \in 1..k + 2 : i <= k <=> V[i] < p
        BY <1>1, <1>5, <2>2, <4>1, <4>2, <4>3
      <4> QED
        BY <4>1, <4>2, <4>4 DEF Splits
    <3> HIDE DEF V, k
    <3> QED
      BY <2>5, <2>6, <3>1, SplitsOnce
  <2> QED
    BY <1>15, <1>16, <2>4, <2>7, <2>8 DEF b
<1>17. CASE ~closed
  <2>1. Places' = R
    <3> HIDE DEF R, S
    <3> QED
      BY <1>4, <1>7, <1>8, <1>17, OneList
  <2>2. Items' = Append(Tape!Kept, View(c))
    BY <1>8, <1>13, <2>1, Zenon
  <2>3. Splits(R, cur', Position')
    BY <1>8, <2>1, Zenon
  <2>4. cur' = p => Position' = k
    <3> HIDE DEF R, k
    <3> QED
      BY <1>4, <1>10, <2>3, SplitsOnce
  <2> QED
    BY <1>15, <1>17, <2>2, <2>4
<1> QED
  BY <1>16, <1>17

LEMMA ViewIsItem ==
  ASSUME NEW p, NEW c, NEW posted, NEW closed, Writes(p, c, posted, closed),
         c.what = "mark" => c.n \in Levels \cup {EOF}
  PROVE  /\ View(c) \in Tape!Item
         /\ IsEOF(c) => View(c) = Tape!EofMark
<1>1. c.key \in Keys \cup {"none"} /\ c.what \in {"rec", "mark"}
  BY DEF Writes, Cell
<1>2. (IF c.what = "mark" THEN c.n ELSE 0) \in Levels \cup {0, 15}
  BY DEF EOF
<1>3. IsEOF(c) => c.what = "mark" /\ c.key = "none" /\ c.n = 15
  BY DEF IsEOF, EOF, Writes
<1> QED
  BY <1>1, <1>2, <1>3 DEF View, Tape!Item, Tape!EofMark, Tape!EOF

LEMMA WrittenStep ==
  ASSUME SeqInv, SeqInv', WriteStep
  PROVE  TapeStep
<1>1. TapeInv /\ Seen' /\ TypeInv' /\ TapeInv'
  BY SeenAfter DEF SeqInv
<1>2. PICK p \in Addr : p = cur /\ Boundary(p)
  BY <1>1, WritePlace DEF WriteStep
<1>3. PICK c, posted, closed :
        /\ Writes(p, c, posted, closed)
        /\ tape' = NewTape(p, c, posted, closed)
        /\ c.what = "mark" => c.n \in Levels \cup {EOF}
        /\ \/ closed /\ cur' = p + Step(c) /\ st' = "open"
           \/ ~closed /\ ~IsEOF(c) /\ cur' = 0 /\ st' = "closed"
           \/ ~closed /\ IsEOF(c) /\ cur' = p /\ st' = "open"
  BY <1>2 DEF WriteStep
<1> DEFINE d == closed = TRUE
<1>4. /\ d \in BOOLEAN /\ Writes(p, c, posted, d) /\ tape' = NewTape(p, c, posted, d)
      /\ \/ d /\ cur' = p + Step(c) /\ st' = "open"
         \/ ~d /\ ~IsEOF(c) /\ cur' = 0 /\ st' = "closed"
         \/ ~d /\ IsEOF(c) /\ cur' = p /\ st' = "open"
  BY <1>3 DEF Writes, NewTape
<1> HIDE DEF d
<1>5. st = "open" /\ ret' = NoRet /\ ret.code # "lost"
  BY DEF WriteStep
<1>13. (st' = "open" => ~Frayed') /\ Frayed' \in BOOLEAN
  <2>1. st' = "open" => Closed'
    BY <1>1, WriteKeepsSeq
  <2> QED
    BY <2>1 DEF Frayed
<1>14. ~OnPost'
  <2>1. cur' = 0 \/ Boundary(cur)'
    BY <1>1, WriteKeepsSeq
  <2> QED
    BY <1>1, <2>1, NotOnPostAfter
<1>6. Answer' = Tape!Nothing
  BY <1>1, <1>5, NothingIsSeen DEF Seen
<1> DEFINE k == Position
           X == Tape!Kept
           v == View(c)
           W == {Items[i] : i \in 1..k} \cup {v, Tape!EofMark}
<1>7. /\ k \in Nat /\ X \in Seq({Items[i] : i \in 1..k}) /\ Len(X) = k
      /\ Items' = IF d THEN Append(Append(X, v), Tape!EofMark) ELSE Append(X, v)
      /\ cur' = p => Position' = k
      /\ d /\ cur' = p + Step(c) => Position' = k + 1
  BY <1>2, <1>4, WrittenItems
<1>8. v \in Tape!Item /\ (IsEOF(c) => v = Tape!EofMark)
  BY <1>3, ViewIsItem
<1> HIDE DEF X, v, k
<1>9. X \in Seq(W) /\ v \in W /\ Tape!EofMark \in W
  <2>1. \A B, C : B \subseteq C => Seq(B) \subseteq Seq(C)
    OBVIOUS
  <2> QED
    BY <1>7, <2>1
<1> HIDE DEF W
<1>10. CASE d /\ cur' = p + Step(c) /\ st' = "open"
  <2>1. Items' = X \o <<v, Tape!EofMark>>
    BY <1>7, <1>9, <1>10
  <2>2. Items'[k + 1] = v
    BY <1>7, <1>9, <1>10
  <2>3. Position' = k + 1
    BY <1>7, <1>10
  <2>4. Tape!Write
    BY <1>5, <1>6, <1>8, <1>10, <1>13, <2>1, <2>2, <2>3 DEF Tape!Write, X, k
  <2> QED
    BY <1>5, <1>14, <2>4, CallStep DEF Tape!Call
<1>11. CASE ~d /\ ~IsEOF(c) /\ cur' = 0 /\ st' = "closed"
  <2>1. Position' = 0
    BY <1>11, FirstAfter
  <2>2. Items' = Append(X, v)
    BY <1>7, <1>11
  <2>3. Len(Items') = k + 1 /\ Items'[k + 1] = v /\ Items' # << >>
    BY <1>7, <1>9, <2>2
  <2>4. Tape!TornWrite
    BY <1>5, <1>6, <1>8, <1>11, <1>13, <2>1, <2>2, <2>3 DEF Tape!TornWrite, X
  <2> QED
    BY <1>5, <1>14, <2>4, CallStep DEF Tape!Call
<1>12. CASE ~d /\ IsEOF(c) /\ cur' = p /\ st' = "open"
  <2>1. Items' = Append(X, Tape!EofMark) /\ Position' = k
    BY <1>7, <1>8, <1>12
  <2>2. Tape!Cut
    BY <1>5, <1>6, <1>12, <1>13, <2>1 DEF Tape!Cut, X, k
  <2> QED
    BY <1>5, <1>14, <2>2, CallStep DEF Tape!Call
<1> QED
  BY <1>4, <1>10, <1>11, <1>12

-----------------------------------------------------------------------------
(* Each step of XdfSeq is one of SeqTape.                                  *)

LEMMA FindNextStep ==
  ASSUME SeqInv, SeqInv', NEW K, FindNext(K), ~LateMarks
  PROVE  TapeStep
<1>1. PICK from : from = cur
  OBVIOUS
<1>2. from \in Nat /\ OnWay(from) /\ Locate(from, K, -1)
  BY <1>1, PositionOnWay DEF FindNext, SeqInv, TypeInv
<1> QED
  BY <1>1, <1>2, LocateStep

LEMMA FindAfterStep ==
  ASSUME SeqInv, SeqInv', NEW h \in Handles, NEW K, FindAfter(h, K), ~LateMarks
  PROVE  TapeStep
<1>1. st # "none"
  BY DEF FindAfter, Locate, GoesAstray, Ready
<1>2. PICK a \in Addr :
        /\ AddressOf(h) = a /\ a + At(a).len \in Nat /\ OnWay(a + At(a).len)
        /\ \A e \in Addr : Item(e) => (e > a <=> e >= a + At(a).len)
  BY <1>1, AfterIsOnWay
<1>3. PICK from : from = a + At(a).len
  OBVIOUS
<1>4. a \in Nat /\ from \in Nat /\ OnWay(from) /\ Locate(from, K, a)
      /\ \A e \in Addr : Item(e) => (e > a <=> e >= from)
  BY <1>2, <1>3, AddrIs DEF FindAfter
<1> QED
  BY <1>4, LocateStep

LEMMA StutterStep == UNCHANGED seqVars => TapeStep
<1> SUFFICES ASSUME UNCHANGED seqVars PROVE TapeStep
  OBVIOUS
<1>1. st' = st /\ tape' = tape /\ cur' = cur /\ ret' = ret /\ disk' = disk
  BY DEF seqVars
<1>2. Places' = Places
  BY <1>1 DEF Places, At
<1>3. Items' = Items
  BY <1>1, <1>2 DEF Items
<1>4. Position' = Position
  BY <1>1 DEF Position, Passed
<1>5. Answer' = Answer
  BY <1>1 DEF Answer, Passed, AddressOf
<1>6. Frayed' = Frayed
  BY <1>1, FrayedStays
<1>7. (At(cur).what = "post")' = (At(cur).what = "post")
  BY <1>1 DEF At
<1> QED
  BY <1>1, <1>3, <1>4, <1>5, <1>6, <1>7 DEF TapeStep, Tape!tapeVars

LEMMA RefinesStep ==
  ASSUME ~LateMarks
  PROVE  SeqInv /\ SeqInv' /\ [Next]_seqVars => TapeStep
<1> SUFFICES ASSUME SeqInv, SeqInv', [Next]_seqVars PROVE TapeStep
  OBVIOUS
<1>1. TypeInv
  BY DEF SeqInv
<1>2. ASSUME NEW n \in Lens, NEW k \in Keys, Put(n, k) PROVE TapeStep
  BY <1>1, <1>2, PutWrites, WrittenStep
<1>3. ASSUME NEW n \in Lens, NEW k \in Keys, NEW d \in 1..2, TornPut(n, k, d) PROVE TapeStep
  BY <1>1, <1>3, TornPutWrites, WrittenStep
<1>4. ASSUME NEW l \in Levels \cup {EOF}, Weo(l) PROVE TapeStep
  BY <1>1, <1>4, WeoWrites, WrittenStep
<1>5. ASSUME NEW l \in Levels, TornWeo(l) PROVE TapeStep
  BY <1>1, <1>5, TornWeoWrites, WrittenStep
<1>6. ASSUME NEW h \in Handles, NEW K \in Targets, FindAfter(h, K) PROVE TapeStep
  BY <1>6, FindAfterStep
<1>7. ASSUME NEW K \in Targets, FindNext(K) PROVE TapeStep
  BY <1>7, FindNextStep
<1>8. ASSUME NEW h \in Handles, Delete(h) PROVE TapeStep
  BY <1>8, DeleteStep
<1>9. ASSUME NEW m \in Modes, Open(m) PROVE TapeStep
  BY <1>9, OpenStep
<1>10. Leave \/ Crash => TapeStep
  BY LeaveStep
<1> QED
  BY <1>2, <1>3, <1>4, <1>5, <1>6, <1>7, <1>8, <1>9, <1>10, CreateStep, RewindStep,
     SkipForwardStep, SkipBackStep, AppStep, ReadStep, StutterStep DEF Next

\* A sequential file is the tape of SeqTape, as long as no mark is written past the first
\* cluster: every write, crash, search, skip, deletion and read does to the records, the
\* marks and the position what SeqTape says, and answers what it answers.
THEOREM ImplementsTape ==
  ASSUME ~LateMarks
  PROVE  Spec => Refines
<1>1. Init => Tape!Init
  BY StartsAsTape
<1>2. SeqInv /\ SeqInv' /\ [Next]_seqVars => [Tape!Next]_(Tape!tapeVars)
  BY RefinesStep DEF TapeStep
<1>3. Spec => []SeqInv
  BY SeqHolds
<1> QED
  BY <1>1, <1>2, <1>3, PTL DEF Spec, Refines, Tape!Spec
=============================================================================
