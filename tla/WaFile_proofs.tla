----------------------------- MODULE WaFile_proofs -----------------------------
(***************************************************************************)
(* The page cache keeps the words of the files: whatever pages were        *)
(* scrapped, for whichever file and in whichever order, the pages in       *)
(* memory and the words on disk together are the file, and every call is   *)
(* a step of WordStore, for every value of the constants.                  *)
(*                                                                         *)
(* The invariant relates a state to the words w of the files (Shows): each *)
(* page starts at a multiple of the page size, ends with the file or with  *)
(* the page, holds the words of w, and no two pages of a file are the      *)
(* same; a page that was not written to repeats what is on disk, and a     *)
(* word no page holds is on disk.                                          *)
(***************************************************************************)
EXTENDS WaFile, Extremes, FiniteSetTheorems, TLAPS

PageType == [wa0 : Nat, walast : Nat, access_count : Nat, touch_flag : BOOLEAN,
             adr : [0..(P - 1) -> Word]]

StateType == [disk : [Files -> Seq(Word)], size : [Files -> Nat],
              page : [Files -> Seq(PageType)], nfree : Nat, count : Nat,
              exited : BOOLEAN, out : Seq(Word)]

AllFiles == [Files -> Seq(Word)]

\* What qqcopen makes of WA_CONFIG.
ConfigOK ==
    /\ config.size \in Nat /\ config.size % 2 = 0
    /\ config.nb \in 1..MaxPages /\ config.limit \in Nat \ {0}
    /\ config.streams \subseteq Files

IsStart(s) == \E q \in Nat : s = q * P + 1

InUse(f) == open_flag[f] /\ f \notin config.streams
Paged(f) == P > 0 /\ InUse(f)

In(pg, j) == pg.wa0 <= j /\ j <= pg.walast

\* The words w of file f, as the state has them in memory and on disk.
Held(st, f, j) == \E i \in 1..Len(st.page[f]) : In(st.page[f][i], j)
OnDisk(st, w, f, j) == j <= Len(st.disk[f]) /\ st.disk[f][j] = w[f][j]

PageShows(st, w, f, pg) ==
    /\ IsStart(pg.wa0) /\ pg.wa0 <= st.size[f]
    /\ pg.walast <= st.size[f] /\ pg.walast <= pg.wa0 + P - 1
    /\ pg.walast = st.size[f] \/ pg.walast = pg.wa0 + P - 1
    /\ \A j \in Nat : In(pg, j) =>
           /\ pg.adr[j - pg.wa0] = w[f][j]
           /\ pg.touch_flag \/ OnDisk(st, w, f, j)

FileShows(st, w, f) ==
    /\ Len(st.disk[f]) <= st.size[f]
    /\ \A i \in 1..Len(st.page[f]) : PageShows(st, w, f, st.page[f][i])
    /\ \A i, j \in 1..Len(st.page[f]) : i # j => st.page[f][i].wa0 # st.page[f][j].wa0
    /\ \A j \in 1..Len(w[f]) : Held(st, f, j) \/ OnDisk(st, w, f, j)

Plain(st, w, f) == st.page[f] = <<>> /\ w[f] = st.disk[f]

ShowsAt(st, w, f) == /\ IF Paged(f) THEN FileShows(st, w, f) ELSE Plain(st, w, f)
                     /\ InUse(f) => st.size[f] = Len(w[f])

Shows(st, w) == \A f \in Files : ShowsAt(st, w, f)

Pages(st) == UNION {{<<f, i>> : i \in DOMAIN st.page[f]} : f \in Files}

\* The buffers.
Counted(st) ==
    /\ IsFiniteSet(Pages(st)) /\ st.count = st.nfree + Cardinality(Pages(st))
    /\ st.count <= config.limit
    /\ \A f \in Files : Len(st.page[f]) <= config.nb

Sound(st, w) == st \in StateType /\ w \in AllFiles /\ Shows(st, w) /\ Counted(st)

-----------------------------------------------------------------------------
(* Numbers.                                                                *)

LEMMA StartsApart ==
  ASSUME P \in Nat \ {0}, NEW s, IsStart(s), NEW t, IsStart(t), s # t
  PROVE  s + P <= t \/ t + P <= s
<1>1. PICK q \in Nat : s = q * P + 1
  BY DEF IsStart
<1>2. PICK r \in Nat : t = r * P + 1
  BY DEF IsStart
<1> DEFINE p == P
<1>3. p \in Nat \ {0} /\ s = q * p + 1 /\ t = r * p + 1
  BY <1>1, <1>2
<1> HIDE DEF p
<1>4. q < r \/ r < q
  BY <1>1, <1>2
<1>5. ASSUME q < r PROVE q * p + p <= r * p
  BY <1>5, <1>3
<1>6. ASSUME r < q PROVE r * p + p <= q * p
  BY <1>6, <1>3
<1>7. s + p <= t \/ t + p <= s
  BY <1>3, <1>4, <1>5, <1>6
<1> QED
  BY <1>7 DEF p

LEMMA StartNat ==
  ASSUME P \in Nat, NEW s, IsStart(s)
  PROVE  s \in Nat \ {0}
BY DEF IsStart

\* Max and Min of two numbers, as the model takes them.
LEMMA MaxOfTwo ==
  ASSUME NEW a \in Int, NEW b \in Int
  PROVE  Max({a, b}) = IF a >= b THEN a ELSE b
<1> DEFINE m == IF a >= b THEN a ELSE b
<1>1. m \in {a, b} /\ \A x \in {a, b} : m >= x
  OBVIOUS
<1>2. \A y \in {a, b} : (\A x \in {a, b} : y >= x) => y = m
  OBVIOUS
<1> HIDE DEF m
<1>3. Max({a, b}) = m
  BY <1>1, <1>2 DEF Max
<1> QED
  BY <1>3 DEF m

LEMMA MinOfTwo ==
  ASSUME NEW a \in Int, NEW b \in Int
  PROVE  Min({a, b}) = IF a <= b THEN a ELSE b
<1> DEFINE m == IF a <= b THEN a ELSE b
<1>1. m \in {a, b} /\ \A x \in {a, b} : m <= x
  OBVIOUS
<1>2. \A y \in {a, b} : (\A x \in {a, b} : y <= x) => y = m
  OBVIOUS
<1> HIDE DEF m
<1>3. Min({a, b}) = m
  BY <1>1, <1>2 DEF Min
<1> QED
  BY <1>3 DEF m

\* An odd address is in the page that starts at PageStart.
LEMMA PageStartIs ==
  ASSUME ConfigOK, P > 0, NEW a \in Nat, a % 2 = 1
  PROVE  /\ IsStart(PageStart(a)) /\ PageStart(a) <= a /\ a + 1 <= PageStart(a) + P
         /\ PageStart(a) \in Nat \ {0}
<1> DEFINE p == P
           q == a \div p
           h == p \div 2
<1>1. p \in Nat \ {0} /\ p % 2 = 0
  BY DEF ConfigOK, P
<1>2. q \in Nat /\ h \in Nat /\ p = 2 * h /\ a = p * q + (a % p) /\ a % p \in 0..(p - 1)
  BY <1>1
<1>3. a % p # 0
  <2> SUFFICES ASSUME a % p = 0 PROVE FALSE
    OBVIOUS
  <2> HIDE DEF p, q, h
  <2>1. a = 2 * (h * q) /\ h * q \in Nat
    BY <1>1, <1>2
  <2> QED
    BY <2>1
<1> DEFINE r == a % p
<1>4. r \in 1..(p - 1) /\ a = p * q + r
  BY <1>2, <1>3
<1>5. PageStart(a) = Max({a - r + 1, 1})
  BY DEF PageStart
<1> HIDE DEF p, q, h, r
<1>6. p * q \in Nat /\ p * q = q * p
  BY <1>1, <1>2
<1>7. PageStart(a) = q * p + 1
  BY <1>4, <1>5, <1>6, <1>2, MaxOfTwo
<1>8. IsStart(PageStart(a))
  BY <1>7, <1>2 DEF IsStart, p
<1>9. PageStart(a) <= a /\ a + 1 <= PageStart(a) + p /\ PageStart(a) \in Nat \ {0}
  BY <1>7, <1>6, <1>4, <1>1
<1> QED
  BY <1>8, <1>9 DEF p

\* A page that holds a piece of the page that starts at s starts at s.
LEMMA HoldsIs ==
  ASSUME P \in Nat \ {0}, NEW s, IsStart(s), NEW pg, IsStart(pg.wa0),
         NEW a \in Nat, NEW n \in Nat \ {0}, s <= a, a + n <= s + P
  PROVE  Holds(pg, a, n) <=> pg.wa0 = s
BY StartsApart, StartNat DEF Holds

-----------------------------------------------------------------------------
(* Sequences, and the pages in use.                                        *)

LEMMA RemoveAtIs ==
  ASSUME NEW T, NEW s \in Seq(T), NEW i \in 1..Len(s)
  PROVE  /\ RemoveAt(s, i) \in Seq(T)
         /\ Len(RemoveAt(s, i)) = Len(s) - 1
         /\ \A k \in 1..(Len(s) - 1) :
                RemoveAt(s, i)[k] = IF k < i THEN s[k] ELSE s[k + 1]
<1> DEFINE x == SubSeq(s, 1, i - 1)
           y == SubSeq(s, i + 1, Len(s))
<1>1. x \in Seq(T) /\ Len(x) = i - 1 /\ \A k \in 1..(i - 1) : x[k] = s[k]
  OBVIOUS
<1>2. y \in Seq(T) /\ Len(y) = Len(s) - i /\ \A k \in 1..(Len(s) - i) : y[k] = s[k + i]
  OBVIOUS
<1>3. RemoveAt(s, i) = x \o y
  BY DEF RemoveAt
<1> HIDE DEF x, y
<1>4. x \o y \in Seq(T) /\ Len(x \o y) = Len(s) - 1
  BY <1>1, <1>2
<1>5. \A k \in 1..(Len(s) - 1) : (x \o y)[k] = IF k < i THEN s[k] ELSE s[k + 1]
  BY <1>1, <1>2
<1> QED
  BY <1>3, <1>4, <1>5

LEMMA ReplacedIs ==
  ASSUME NEW T, NEW s \in Seq(T), NEW i \in 1..Len(s), NEW e \in T
  PROVE  /\ [s EXCEPT ![i] = e] \in Seq(T) /\ Len([s EXCEPT ![i] = e]) = Len(s)
         /\ [s EXCEPT ![i] = e][i] = e
         /\ \A k \in 1..Len(s) : k # i => [s EXCEPT ![i] = e][k] = s[k]
OBVIOUS

LEMMA OverlayIs ==
  ASSUME NEW s \in Seq(Word), NEW a \in Nat \ {0}, NEW v \in Seq(Word)
  PROVE  /\ Overlay(s, a, v) \in Seq(Word)
         /\ Len(Overlay(s, a, v)) =
                IF Len(s) >= a + Len(v) - 1 THEN Len(s) ELSE a + Len(v) - 1
         /\ \A i \in 1..Len(Overlay(s, a, v)) :
                Overlay(s, a, v)[i] = IF a <= i /\ i <= a + Len(v) - 1 THEN v[i - a + 1]
                                      ELSE IF i <= Len(s) THEN s[i] ELSE 0
<1> DEFINE W == Word
           m == IF Len(s) >= a + Len(v) - 1 THEN Len(s) ELSE a + Len(v) - 1
           e(i) == IF i \in a..(a + Len(v) - 1) THEN v[i - a + 1]
                   ELSE IF i <= Len(s) THEN s[i] ELSE 0
           x == [i \in 1..m |-> e(i)]
<1>1. Max({Len(s), a + Len(v) - 1}) = m /\ m \in Nat
  BY MaxOfTwo
<1>2. Overlay(s, a, v) = x
  BY <1>1 DEF Overlay
<1>3. s \in Seq(W) /\ v \in Seq(W) /\ 0 \in W
  BY DEF Word
<1> HIDE DEF W
<1>4. \A i \in 1..m : e(i) \in W
  BY <1>3
<1>5. \A i \in 1..m :
          e(i) = IF a <= i /\ i <= a + Len(v) - 1 THEN v[i - a + 1]
                 ELSE IF i <= Len(s) THEN s[i] ELSE 0
  OBVIOUS
<1> HIDE DEF m, e
<1>6. x \in Seq(W) /\ Len(x) = m
  BY <1>1, <1>4
<1>7. \A i \in 1..m : x[i] = e(i)
  OBVIOUS
<1> HIDE DEF x
<1> QED
  BY <1>2, <1>5, <1>6, <1>7 DEF m, W

LEMMA InPages ==
  ASSUME NEW st \in StateType, NEW x
  PROVE  x \in Pages(st) <=> \E g \in Files : \E i \in 1..Len(st.page[g]) : x = <<g, i>>
<1>1. \A g \in Files : st.page[g] \in Seq(PageType)
  BY DEF StateType
<1>2. \A g \in Files : DOMAIN st.page[g] = 1..Len(st.page[g])
  BY <1>1
<1> QED
  BY <1>2 DEF Pages

Adding(S, x) == S \cup {x}

LEMMA PageAdded ==
  ASSUME NEW s \in StateType, NEW t \in StateType, NEW f \in Files,
         \A g \in Files \ {f} : t.page[g] = s.page[g],
         Len(t.page[f]) = Len(s.page[f]) + 1
  PROVE  /\ Pages(t) = Adding(Pages(s), <<f, Len(s.page[f]) + 1>>)
         /\ <<f, Len(s.page[f]) + 1>> \notin Pages(s)
<1> DEFINE l == Len(s.page[f])
           z == <<f, l + 1>>
<1>1. l \in Nat
  <2>1. s.page[f] \in Seq(PageType)
    BY DEF StateType
  <2> QED
    BY <2>1
<1>2. z \notin Pages(s)
  BY <1>1, InPages
<1>3. ASSUME NEW x \in Pages(t) PROVE x \in Pages(s) \cup {z}
  <2>1. PICK g \in Files : \E i \in 1..Len(t.page[g]) : x = <<g, i>>
    BY <1>3, InPages
  <2>2. PICK i \in 1..Len(t.page[g]) : x = <<g, i>>
    BY <2>1
  <2>3. CASE g = f
    <3>1. i \in 1..l \/ i = l + 1
      BY <2>3, <1>1
    <3> QED
      BY <3>1, <2>2, <2>3, InPages
  <2>4. CASE g # f
    BY <2>2, <2>4, InPages
  <2> QED
    BY <2>3, <2>4
<1>4. ASSUME NEW x \in Pages(s) PROVE x \in Pages(t)
  <2>1. PICK g \in Files : \E i \in 1..Len(s.page[g]) : x = <<g, i>>
    BY <1>4, InPages
  <2>2. PICK i \in 1..Len(s.page[g]) : x = <<g, i>>
    BY <2>1
  <2>3. i \in 1..Len(t.page[g])
    BY <2>2, <1>1
  <2> QED
    BY <2>2, <2>3, InPages
<1>5. z \in Pages(t)
  <2>1. l + 1 \in 1..Len(t.page[f])
    BY <1>1
  <2> QED
    BY <2>1, InPages
<1> HIDE DEF z
<1>6. Pages(t) = Pages(s) \cup {z}
  BY <1>3, <1>4, <1>5
<1> QED
  BY <1>2, <1>6 DEF z, Adding

LEMMA BufferAdded ==
  ASSUME NEW s \in StateType, NEW t \in StateType, NEW f \in Files, Counted(s),
         \A g \in Files \ {f} : t.page[g] = s.page[g],
         Len(t.page[f]) = Len(s.page[f]) + 1, Len(s.page[f]) < config.nb,
         t.nfree = s.nfree - 1, t.count = s.count, ConfigOK
  PROVE  Counted(t)
<1>1. Pages(t) = Pages(s) \cup {<<f, Len(s.page[f]) + 1>>}
  <2>1. Pages(t) = Adding(Pages(s), <<f, Len(s.page[f]) + 1>>)
    BY PageAdded
  <2> QED
    BY <2>1 DEF Adding
<1>2. <<f, Len(s.page[f]) + 1>> \notin Pages(s)
  BY PageAdded
<1>3. IsFiniteSet(Pages(t)) /\ Cardinality(Pages(t)) = Cardinality(Pages(s)) + 1
  BY <1>1, <1>2, FS_AddElement DEF Counted
<1>4. Cardinality(Pages(s)) \in Nat
  BY FS_CardinalityType DEF Counted
<1>5. s.nfree \in Nat /\ s.count \in Nat /\ Len(s.page[f]) \in Nat /\ config.nb \in Nat
  <2>1. s.page[f] \in Seq(PageType)
    BY DEF StateType
  <2> QED
    BY SMTT(40), <2>1 DEF StateType, ConfigOK
<1>6. \A g \in Files : Len(t.page[g]) <= config.nb
  BY <1>5 DEF Counted
<1> QED
  BY <1>3, <1>4, <1>5, <1>6 DEF Counted

LEMMA BufferFreed ==
  ASSUME NEW s \in StateType, NEW t \in StateType, NEW f \in Files, Counted(s),
         \A g \in Files \ {f} : t.page[g] = s.page[g],
         Len(s.page[f]) = Len(t.page[f]) + 1,
         t.nfree = s.nfree + 1, t.count = s.count, ConfigOK
  PROVE  Counted(t)
<1>1. Pages(s) = Pages(t) \cup {<<f, Len(t.page[f]) + 1>>}
  <2>1. Pages(s) = Adding(Pages(t), <<f, Len(t.page[f]) + 1>>)
    BY PageAdded
  <2> QED
    BY <2>1 DEF Adding
<1>2. <<f, Len(t.page[f]) + 1>> \notin Pages(t)
  BY PageAdded
<1>3. Pages(t) = Pages(s) \ {<<f, Len(t.page[f]) + 1>>}
  BY <1>1, <1>2
<1>4. IsFiniteSet(Pages(t)) /\ Cardinality(Pages(t)) = Cardinality(Pages(s)) - 1
  <2> DEFINE z == <<f, Len(t.page[f]) + 1>>
  <2>1. Pages(t) = Pages(s) \ {z} /\ z \in Pages(s)
    BY <1>3, <1>1
  <2>2. IsFiniteSet(Pages(s))
    BY DEF Counted
  <2> HIDE DEF z
  <2> QED
    BY <2>1, <2>2, FS_RemoveElement
<1>5. Cardinality(Pages(s)) \in Nat
  BY FS_CardinalityType DEF Counted
<1>6. s.nfree \in Nat /\ s.count \in Nat /\ Len(t.page[f]) \in Nat /\ config.nb \in Nat
  <2>1. t.page[f] \in Seq(PageType)
    BY DEF StateType
  <2> QED
    BY SMTT(40), <2>1 DEF StateType, ConfigOK
<1>7. \A g \in Files : Len(t.page[g]) <= config.nb
  BY <1>6 DEF Counted
<1> QED
  BY <1>4, <1>5, <1>6, <1>7 DEF Counted

-----------------------------------------------------------------------------
(* What only changes how often the pages were used.                        *)

PageAlike(p, q) ==
    q.wa0 = p.wa0 /\ q.walast = p.walast /\ q.touch_flag = p.touch_flag /\ q.adr = p.adr

Alike(s, t) ==
    /\ t.disk = s.disk /\ t.size = s.size /\ t.nfree = s.nfree /\ t.count = s.count
    /\ \A f \in Files : Len(t.page[f]) = Len(s.page[f])
    /\ \A f \in Files : \A i \in 1..Len(s.page[f]) : PageAlike(s.page[f][i], t.page[f][i])

LEMMA AlikeSound ==
  ASSUME NEW s, NEW w, Sound(s, w), NEW t \in StateType, Alike(s, t)
  PROVE  Sound(t, w)
<1>1. s \in StateType /\ Shows(s, w) /\ Counted(s)
  BY DEF Sound
<1>2. Pages(t) = Pages(s)
  BY <1>1, InPages DEF Alike
<1>3. Counted(t)
  BY <1>1, <1>2 DEF Counted, Alike
<1>4. ASSUME NEW f \in Files PROVE ShowsAt(t, w, f)
  <2>1. ShowsAt(s, w, f)
    BY <1>1 DEF Shows
  <2>2. t.disk[f] = s.disk[f] /\ t.size[f] = s.size[f] /\ Len(t.page[f]) = Len(s.page[f])
    BY DEF Alike
  <2>3. \A i \in 1..Len(s.page[f]) : PageAlike(s.page[f][i], t.page[f][i])
    BY DEF Alike
  <2>4. CASE Paged(f)
    <3>1. FileShows(s, w, f)
      BY <2>1, <2>4 DEF ShowsAt
    <3>2. ASSUME NEW i \in 1..Len(t.page[f]) PROVE PageShows(t, w, f, t.page[f][i])
      <4>1. PageShows(s, w, f, s.page[f][i]) /\ PageAlike(s.page[f][i], t.page[f][i])
        BY <3>1, <2>2, <2>3 DEF FileShows
      <4> QED
        BY <4>1, <2>2 DEF PageShows, PageAlike, OnDisk, In
    <3>3. ASSUME NEW j \in 1..Len(w[f]) PROVE Held(t, f, j) \/ OnDisk(t, w, f, j)
      <4>1. Held(s, f, j) \/ OnDisk(s, w, f, j)
        BY <3>1 DEF FileShows
      <4> QED
        BY <4>1, <2>2, <2>3 DEF Held, OnDisk, PageAlike, In
    <3>4. \A i, j \in 1..Len(t.page[f]) : i # j => t.page[f][i].wa0 # t.page[f][j].wa0
      BY SMTT(40), <3>1, <2>2, <2>3 DEF FileShows, PageAlike
    <3>5. Len(t.disk[f]) <= t.size[f]
      BY <3>1, <2>2 DEF FileShows
    <3>6. FileShows(t, w, f)
      BY <3>2, <3>3, <3>4, <3>5 DEF FileShows
    <3> QED
      BY <3>6, <2>1, <2>2, <2>4 DEF ShowsAt
  <2>5. CASE ~Paged(f)
    <3>1. Plain(s, w, f)
      BY <2>1, <2>5 DEF ShowsAt
    <3>2. t.page[f] \in Seq(PageType) /\ s.page[f] = <<>>
      BY <3>1 DEF StateType, Plain
    <3>3. t.page[f] = <<>>
      BY <3>2, <2>2
    <3>4. Plain(t, w, f)
      BY <3>1, <3>3, <2>2 DEF Plain
    <3> QED
      BY <3>4, <2>1, <2>2, <2>5 DEF ShowsAt
  <2> QED
    BY <2>4, <2>5
<1> QED
  BY <1>3, <1>4 DEF Sound, Shows

LEMMA DecayedIs ==
  ASSUME NEW pages \in Seq(PageType)
  PROVE  /\ Decayed(pages) \in Seq(PageType) /\ Len(Decayed(pages)) = Len(pages)
         /\ \A i \in 1..Len(pages) : PageAlike(pages[i], Decayed(pages)[i])
<1> DEFINE T == PageType
           n == Len(pages)
           e(i) == [pages[i] EXCEPT !.access_count = decay(@)]
           x == [i \in 1..n |-> e(i)]
<1>1. ASSUME NEW i \in 1..n PROVE e(i) \in T /\ PageAlike(pages[i], e(i))
  <2>1. pages[i] \in PageType
    OBVIOUS
  <2>2. decay(pages[i].access_count) \in Nat
    BY SMTT(40), <2>1 DEF PageType, decay
  <2> QED
    BY <2>1, <2>2 DEF PageType, PageAlike
<1>2. Decayed(pages) = SubSeq(x, 1, n)
  BY DEF Decayed
<1>3. n \in Nat
  OBVIOUS
<1> HIDE DEF e, T, n
<1>4. x \in Seq(T) /\ Len(x) = n /\ \A i \in 1..n : x[i] = e(i)
  BY <1>1, <1>3
<1> HIDE DEF x
<1>5. SubSeq(x, 1, n) \in Seq(T) /\ Len(SubSeq(x, 1, n)) = n
  BY <1>3, <1>4
<1>6. \A i \in 1..n : SubSeq(x, 1, n)[i] = x[i]
  BY <1>3, <1>4
<1> QED
  BY <1>1, <1>2, <1>4, <1>5, <1>6 DEF T, n

LEMMA DecayIs ==
  ASSUME NEW st \in StateType
  PROVE  /\ process_decay(st) \in StateType /\ Alike(st, process_decay(st))
         /\ process_decay(st).exited = st.exited /\ process_decay(st).out = st.out
<1> DEFINE pg == [f \in Files |-> Decayed(st.page[f])]
           t == [st EXCEPT !.page = pg]
<1>1. \A f \in Files : st.page[f] \in Seq(PageType)
  BY DEF StateType
<1>2. pg \in [Files -> Seq(PageType)]
  BY <1>1, DecayedIs
<1>3. \A f \in Files : pg[f] = Decayed(st.page[f])
  OBVIOUS
<1> HIDE DEF pg
<1>4. t \in StateType
  BY <1>2 DEF StateType
<1>5. /\ t.disk = st.disk /\ t.size = st.size /\ t.nfree = st.nfree /\ t.count = st.count
      /\ t.exited = st.exited /\ t.out = st.out /\ t.page = pg
  BY DEF StateType
<1>6. process_decay(st) = t
  BY DEF process_decay, pg
<1> HIDE DEF t
<1>7. \A f \in Files : Len(t.page[f]) = Len(st.page[f])
  BY <1>1, <1>3, <1>5, DecayedIs
<1>8. \A f \in Files : \A i \in 1..Len(st.page[f]) : PageAlike(st.page[f][i], t.page[f][i])
  BY <1>1, <1>3, <1>5, DecayedIs
<1> QED
  BY <1>4, <1>5, <1>6, <1>7, <1>8 DEF Alike

-----------------------------------------------------------------------------
(* scrap_page.                                                             *)

AgeOf(st, x) == st.page[x[1]][x[2]].access_count
UsedLess(st, x, y) ==
    \/ AgeOf(st, x) < AgeOf(st, y)
    \/ AgeOf(st, x) = AgeOf(st, y) /\ (x[1] < y[1] \/ (x[1] = y[1] /\ x[2] <= y[2]))

LEMMA FileNumbers == \A f \in Files : f \in Nat
<1>1. PICK n : n = Cardinality(Files)
  OBVIOUS
<1>2. Files = 1..n /\ n \in Nat
  BY <1>1, WaAssumption, FS_CardinalityType
<1> QED
  BY <1>2

\* The page scrap_page looks for exists: the first of the files with a page that was used
\* least, and the first such page of it.
LEMMA LeastUsefulIs ==
  ASSUME NEW st \in StateType, NEW files, files \subseteq Files,
         NEW g \in files, st.page[g] # <<>>
  PROVE  \E f \in files : \E i \in 1..Len(st.page[f]) : LeastUseful(st, files) = <<f, i>>
<1> DEFINE all == UNION {{<<f, i>> : i \in DOMAIN st.page[f]} : f \in files}
<1>1. \A f \in files : st.page[f] \in Seq(PageType) /\ f \in Nat
  <2>1. \A f \in Files : f \in Nat
    BY FileNumbers
  <2> QED
    BY <2>1 DEF StateType
<1>2. \A x : x \in all <=> \E f \in files : \E i \in 1..Len(st.page[f]) : x = <<f, i>>
  <2>1. \A f \in files : DOMAIN st.page[f] = 1..Len(st.page[f])
    BY <1>1
  <2> QED
    BY <2>1
<1>3. \A x \in all : AgeOf(st, x) \in Nat /\ x[1] \in Nat /\ x[2] \in Nat
  <2> TAKE x \in all
  <2>1. PICK f \in files : \E i \in 1..Len(st.page[f]) : x = <<f, i>>
    BY <1>2
  <2>2. PICK i \in 1..Len(st.page[f]) : x = <<f, i>>
    BY <2>1
  <2>3. st.page[f][i] \in PageType /\ x[1] = f /\ x[2] = i
    BY <2>2, <1>1
  <2> QED
    BY SMTT(40), <2>3, <1>1 DEF AgeOf, PageType
<1>4. <<g, 1>> \in all
  <2>1. 1 \in 1..Len(st.page[g])
    BY <1>1
  <2> QED
    BY <2>1, <1>2
<1>5. LeastUseful(st, files) = CHOOSE x \in all : \A y \in all : UsedLess(st, x, y)
  BY DEF LeastUseful, UsedLess, AgeOf
<1> HIDE DEF all
<1>6. PICK x \in all : \A y \in all : UsedLess(st, x, y)
  <2> DEFINE A == {AgeOf(st, x) : x \in all}
  <2>1. PICK a \in A : \A b \in A : a <= b
    <3>1. A \subseteq Nat /\ A # {}
      BY <1>3, <1>4
    <3> QED
      BY <3>1, LeastNat
  <2>2. \A y \in all : a <= AgeOf(st, y) /\ a \in Nat
    BY <2>1, <1>3
  <2> DEFINE F == {x[1] : x \in {y \in all : AgeOf(st, y) = a}}
  <2>3. PICK f \in F : \A b \in F : f <= b
    <3>1. F \subseteq Nat /\ F # {}
      BY <1>3, <2>1
    <3> QED
      BY <3>1, LeastNat
  <2>4. \A y \in all : AgeOf(st, y) = a => f <= y[1]
    BY <2>3
  <2> DEFINE I == {x[2] : x \in {y \in all : AgeOf(st, y) = a /\ y[1] = f}}
  <2>5. PICK i \in I : \A b \in I : i <= b
    <3>1. I \subseteq Nat /\ I # {}
      BY <1>3, <2>3
    <3> QED
      BY <3>1, LeastNat
  <2>6. \A y \in all : AgeOf(st, y) = a /\ y[1] = f => i <= y[2]
    BY <2>5
  <2>7. PICK x \in all : AgeOf(st, x) = a /\ x[1] = f /\ x[2] = i
    BY <2>5
  <2>8. ASSUME NEW y \in all PROVE UsedLess(st, x, y)
    <3>1. a <= AgeOf(st, y) /\ a \in Nat /\ AgeOf(st, y) \in Nat /\ y[1] \in Nat /\ y[2] \in Nat
      BY <2>2, <1>3
    <3>2. f \in Nat /\ i \in Nat
      BY <2>7, <1>3
    <3>3. AgeOf(st, y) = a => f <= y[1]
      BY <2>4
    <3>4. AgeOf(st, y) = a /\ y[1] = f => i <= y[2]
      BY <2>6
    <3> QED
      BY <3>1, <3>2, <3>3, <3>4, <2>7 DEF UsedLess
  <2> QED
    BY <2>8
<1>7. LeastUseful(st, files) \in all
  BY <1>5, <1>6
<1> QED
  BY <1>2, <1>7

\* t has fewer pages than s, and is otherwise what a caller of get_new_page finds.
Relieved(s, t) ==
    /\ t.size = s.size /\ t.out = s.out /\ t.exited = s.exited
    /\ \A g \in Files : Len(t.page[g]) <= Len(s.page[g])
    /\ \A g \in Files : \A k \in 1..Len(t.page[g]) : \E j \in 1..Len(s.page[g]) :
           t.page[g][k] = s.page[g][j]

LEMMA RelievedTwice ==
  ASSUME NEW s, NEW t, NEW u, s \in StateType, t \in StateType, u \in StateType,
         Relieved(s, t), Relieved(t, u)
  PROVE  Relieved(s, u)
<1>1. \A g \in Files : Len(s.page[g]) \in Nat /\ Len(t.page[g]) \in Nat /\ Len(u.page[g]) \in Nat
  <2>1. \A g \in Files : s.page[g] \in Seq(PageType) /\ t.page[g] \in Seq(PageType)
                         /\ u.page[g] \in Seq(PageType)
    BY DEF StateType
  <2> QED
    BY <2>1
<1>2. \A g \in Files : Len(u.page[g]) <= Len(s.page[g])
  BY SMTT(40), <1>1 DEF Relieved
<1>3. ASSUME NEW g \in Files, NEW k \in 1..Len(u.page[g])
      PROVE  \E j \in 1..Len(s.page[g]) : u.page[g][k] = s.page[g][j]
  <2>1. PICK i \in 1..Len(t.page[g]) : u.page[g][k] = t.page[g][i]
    BY <1>3 DEF Relieved
  <2>2. PICK j \in 1..Len(s.page[g]) : t.page[g][i] = s.page[g][j]
    BY <2>1 DEF Relieved
  <2> QED
    BY <2>1, <2>2
<1> QED
  BY <1>2, <1>3 DEF Relieved

\* What a page leaves on disk.
PageWords(pg) == [k \in 1..(pg.walast - pg.wa0 + 1) |-> pg.adr[k - 1]]
DiskAfter(st, f, pg) ==
    IF pg.touch_flag THEN Overlay(st.disk[f], pg.wa0, PageWords(pg)) ELSE st.disk[f]

LEMMA DiskAfterIs ==
  ASSUME ConfigOK, P > 0, NEW st \in StateType, NEW w \in AllFiles, NEW f \in Files,
         NEW pg \in PageType, PageShows(st, w, f, pg), Len(st.disk[f]) <= st.size[f]
  PROVE  /\ DiskAfter(st, f, pg) \in Seq(Word)
         /\ Len(DiskAfter(st, f, pg)) <= st.size[f]
         /\ Len(st.disk[f]) <= Len(DiskAfter(st, f, pg))
         /\ \A j \in Nat : In(pg, j) => /\ j <= Len(DiskAfter(st, f, pg))
                                        /\ DiskAfter(st, f, pg)[j] = w[f][j]
         /\ \A j \in Nat \ {0} : j <= Len(st.disk[f]) /\ ~In(pg, j) =>
                DiskAfter(st, f, pg)[j] = st.disk[f][j]
<1> DEFINE W == Word
           d == st.disk[f]
           a == pg.wa0
           b == pg.walast
           v == PageWords(pg)
           x == DiskAfter(st, f, pg)
           z == st.size[f]
<1>1. d \in Seq(Word) /\ z \in Nat /\ Len(d) \in Nat
  <2>1. d \in Seq(Word) /\ z \in Nat
    BY DEF StateType
  <2> QED
    BY <2>1
<1>2. a \in Nat \ {0} /\ b \in Nat /\ a <= b /\ b <= z /\ b <= a + P - 1 /\ P \in Nat
  <2>1. P \in Nat
    BY DEF ConfigOK, P
  <2>2. a \in Nat \ {0}
    BY <2>1, StartNat DEF PageShows
  <2> QED
    BY <2>1, <2>2, <1>1 DEF PageShows, PageType
<1>3. CASE pg.touch_flag
  <2>1. \A k \in 1..(b - a + 1) : pg.adr[k - 1] \in W
    BY <1>2 DEF PageType
  <2>2. v = [k \in 1..(b - a + 1) |-> pg.adr[k - 1]]
    BY DEF PageWords
  <2>3. b - a + 1 \in Nat
    BY <1>2
  <2> HIDE DEF W, v, a, b
  <2>4. v \in Seq(W) /\ Len(v) = b - a + 1 /\ \A k \in 1..(b - a + 1) : v[k] = pg.adr[k - 1]
    BY <2>1, <2>2, <2>3
  <2>5. x = Overlay(d, a, v)
    BY <1>3 DEF DiskAfter, v, a
  <2>6. v \in Seq(Word)
    BY <2>4 DEF W
  <2> HIDE DEF x, d
  <2>7. x \in Seq(Word) /\ Len(x) = IF Len(d) >= a + Len(v) - 1 THEN Len(d) ELSE a + Len(v) - 1
    BY <2>5, <2>6, <1>1, <1>2, OverlayIs
  <2>8. \A i \in 1..Len(x) :
            x[i] = IF a <= i /\ i <= a + Len(v) - 1 THEN v[i - a + 1]
                   ELSE IF i <= Len(d) THEN d[i] ELSE 0
    BY <2>5, <2>6, <1>1, <1>2, OverlayIs
  <2>9. Len(x) = IF Len(d) >= b THEN Len(d) ELSE b
    BY <2>7, <2>4, <1>1, <1>2
  <2>10. Len(d) <= z
    BY DEF d, z
  <2>11. \A i \in 1..Len(x) :
            x[i] = IF a <= i /\ i <= b THEN pg.adr[i - a]
                   ELSE IF i <= Len(d) THEN d[i] ELSE 0
    <3> TAKE i \in 1..Len(x)
    <3>1. Len(x) \in Nat
      BY <2>9, <1>1, <1>2
    <3>2. ASSUME a <= i, i <= b PROVE v[i - a + 1] = pg.adr[i - a]
      <4>1. i - a + 1 \in 1..(b - a + 1) /\ (i - a + 1) - 1 = i - a
        BY <3>1, <3>2, <1>2
      <4> QED
        BY <4>1, <2>4
    <3>3. a + Len(v) - 1 = b
      BY <2>4, <1>2
    <3> QED
      BY <2>8, <3>2, <3>3
  <2>12. \A j \in Nat : In(pg, j) => pg.adr[j - a] = w[f][j]
    BY DEF PageShows, a
  <2>13. \A j \in Nat : In(pg, j) <=> a <= j /\ j <= b
    BY DEF In, a, b
  <2>14. \A j \in Nat : In(pg, j) => j <= Len(x) /\ x[j] = w[f][j]
    BY <2>9, <2>11, <2>12, <2>13, <1>1, <1>2
  <2>15. \A j \in Nat \ {0} : j <= Len(d) /\ ~In(pg, j) => x[j] = d[j]
    BY <2>9, <2>11, <2>13, <1>1, <1>2
  <2>16. Len(x) <= z /\ Len(d) <= Len(x)
    BY <2>9, <2>10, <1>1, <1>2
  <2> QED
    BY <2>7, <2>14, <2>15, <2>16 DEF x, d, z
<1>4. CASE ~pg.touch_flag
  <2>1. x = d
    BY <1>4 DEF DiskAfter
  <2>2. \A j \in Nat : In(pg, j) => OnDisk(st, w, f, j)
    BY <1>4 DEF PageShows
  <2> QED
    BY <2>1, <2>2, <1>1 DEF OnDisk
<1> QED
  BY <1>3, <1>4

LEMMA ScrappedIs ==
  ASSUME ConfigOK, NEW st, NEW w, Sound(st, w), NEW f \in Files,
         NEW i \in 1..Len(st.page[f])
  PROVE  /\ Sound(Scrapped(st, f, i), w) /\ Relieved(st, Scrapped(st, f, i))
         /\ Scrapped(st, f, i).nfree = st.nfree + 1
         /\ Scrapped(st, f, i).count = st.count
         /\ Len(Scrapped(st, f, i).page[f]) = Len(st.page[f]) - 1
<1> DEFINE pages == st.page[f]
           pg == pages[i]
           d == DiskAfter(st, f, pg)
           left == RemoveAt(pages, i)
           D == [st.disk EXCEPT ![f] = d]
           G == [st.page EXCEPT ![f] = left]
           t == [st EXCEPT !.disk = D, !.page = G, !.nfree = st.nfree + 1]
<1>1. st \in StateType /\ w \in AllFiles /\ Shows(st, w) /\ Counted(st)
  BY DEF Sound
<1>2. pages \in Seq(PageType) /\ pg \in PageType
  <2>1. pages \in Seq(PageType)
    BY <1>1 DEF StateType
  <2> QED
    BY <2>1
<1>3. Paged(f) /\ FileShows(st, w, f)
  <2>1. pages # <<>>
    BY <1>2
  <2>2. ShowsAt(st, w, f)
    BY <1>1 DEF Shows
  <2> QED
    BY <2>1, <2>2 DEF ShowsAt, Plain
<1>4. PageShows(st, w, f, pg) /\ Len(st.disk[f]) <= st.size[f] /\ P > 0
  BY <1>3 DEF FileShows, Paged
<1>5. /\ d \in Seq(Word) /\ Len(d) <= st.size[f] /\ Len(st.disk[f]) <= Len(d)
      /\ \A j \in Nat : In(pg, j) => j <= Len(d) /\ d[j] = w[f][j]
      /\ \A j \in Nat \ {0} : j <= Len(st.disk[f]) /\ ~In(pg, j) => d[j] = st.disk[f][j]
  BY <1>1, <1>2, <1>4, DiskAfterIs
<1>6. /\ left \in Seq(PageType) /\ Len(left) = Len(pages) - 1
      /\ \A k \in 1..(Len(pages) - 1) : left[k] = IF k < i THEN pages[k] ELSE pages[k + 1]
  BY <1>2, RemoveAtIs
<1>7. Scrapped(st, f, i) = t
  BY DEF Scrapped, DiskAfter, PageWords
<1> HIDE DEF d, left
<1>8. D \in [Files -> Seq(Word)] /\ D[f] = d /\ \A g \in Files \ {f} : D[g] = st.disk[g]
  BY <1>1, <1>5 DEF StateType
<1>9. G \in [Files -> Seq(PageType)] /\ G[f] = left /\ \A g \in Files \ {f} : G[g] = st.page[g]
  BY <1>1, <1>6 DEF StateType
<1> HIDE DEF D, G
<1>10. t \in StateType
  <2> DEFINE n == st.nfree + 1
             t1 == [st EXCEPT !.disk = D]
             t2 == [t1 EXCEPT !.page = G]
  <2>1. n \in Nat
    BY <1>1 DEF StateType
  <2>2. t = [t2 EXCEPT !.nfree = n]
    OBVIOUS
  <2> HIDE DEF n, t
  <2>3. t1 \in StateType
    BY <1>1, <1>8 DEF StateType
  <2> HIDE DEF t1
  <2>4. t2 \in StateType
    BY <2>3, <1>9 DEF StateType
  <2> HIDE DEF t2
  <2> QED
    BY <2>1, <2>2, <2>4 DEF StateType
<1>11. /\ t.disk = D /\ t.page = G /\ t.nfree = st.nfree + 1 /\ t.count = st.count
       /\ t.size = st.size /\ t.exited = st.exited /\ t.out = st.out
  BY <1>1 DEF StateType
<1> HIDE DEF t
<1>12. Len(pages) \in Nat /\ i \in 1..Len(pages) /\ Len(t.page[f]) = Len(pages) - 1
  BY <1>2, <1>6, <1>9, <1>11
<1>13. Counted(t)
  <2>1. Len(st.page[f]) = Len(t.page[f]) + 1
    BY <1>12
  <2>2. \A g \in Files \ {f} : t.page[g] = st.page[g]
    BY <1>9, <1>11
  <2> QED
    BY <2>1, <2>2, <1>1, <1>10, <1>11, BufferFreed
<1>14. \A k \in 1..Len(t.page[f]) : \E j \in 1..Len(pages) \ {i} : t.page[f][k] = pages[j]
  <2> TAKE k \in 1..Len(t.page[f])
  <2>1. k \in 1..(Len(pages) - 1) /\ t.page[f][k] = IF k < i THEN pages[k] ELSE pages[k + 1]
    BY <1>12, <1>6, <1>9, <1>11
  <2> QED
    BY <2>1, <1>12
<1>15. \A j \in 1..Len(pages) : j # i => \E k \in 1..Len(t.page[f]) : t.page[f][k] = pages[j]
  <2> SUFFICES ASSUME NEW j \in 1..Len(pages), j # i
               PROVE  \E k \in 1..Len(t.page[f]) : t.page[f][k] = pages[j]
    OBVIOUS
  <2>1. CASE j < i
    <3>1. j \in 1..(Len(pages) - 1) /\ t.page[f][j] = pages[j]
      BY <2>1, <1>12, <1>6, <1>9, <1>11
    <3> QED
      BY <3>1, <1>12
  <2>2. CASE j > i
    <3>1. j - 1 \in 1..(Len(pages) - 1) /\ t.page[f][j - 1] = pages[j]
      BY <2>2, <1>12, <1>6, <1>9, <1>11
    <3> QED
      BY <3>1, <1>12
  <2> QED
    BY <2>1, <2>2, <1>12
<1>16. \A j \in Nat \ {0} : OnDisk(st, w, f, j) => OnDisk(t, w, f, j)
  <2> TAKE j \in Nat \ {0}
  <2>1. t.disk[f] = d /\ Len(d) \in Nat /\ Len(st.disk[f]) \in Nat
    <3>1. st.disk[f] \in Seq(Word)
      BY <1>1 DEF StateType
    <3> QED
      BY <3>1, <1>5, <1>8, <1>11
  <2> QED
    BY <2>1, <1>5 DEF OnDisk
<1>17. \A j \in Nat : In(pg, j) => OnDisk(t, w, f, j)
  BY <1>5, <1>8, <1>11 DEF OnDisk
<1>18. FileShows(t, w, f)
  <2>1. ASSUME NEW k \in 1..Len(t.page[f]) PROVE PageShows(t, w, f, t.page[f][k])
    <3>1. PICK j \in 1..Len(pages) \ {i} : t.page[f][k] = pages[j]
      BY <1>14
    <3>2. PageShows(st, w, f, pages[j])
      BY <1>3 DEF FileShows
    <3>3. \A x \in Nat : In(pages[j], x) => x \in Nat \ {0}
      <4>1. pages[j].wa0 \in Nat \ {0}
        BY <3>2, StartNat DEF PageShows, ConfigOK, P
      <4> QED
        BY <4>1 DEF In
    <3>4. PageShows(t, w, f, pages[j])
      BY <3>2, <3>3, <1>16, <1>11 DEF PageShows
    <3> QED
      BY <3>1, <3>4
  <2>2. \A k, l \in 1..Len(t.page[f]) : k # l => t.page[f][k].wa0 # t.page[f][l].wa0
    <3> SUFFICES ASSUME NEW k \in 1..Len(t.page[f]), NEW l \in 1..Len(t.page[f]), k # l
                 PROVE  t.page[f][k].wa0 # t.page[f][l].wa0
      OBVIOUS
    <3> DEFINE u(q) == IF q < i THEN q ELSE q + 1
    <3>1. \A q \in 1..Len(t.page[f]) : u(q) \in 1..Len(pages) /\ t.page[f][q] = pages[u(q)]
      BY <1>12, <1>6, <1>9, <1>11
    <3>2. u(k) # u(l)
      BY <1>12
    <3> HIDE DEF u
    <3>3. pages[u(k)].wa0 # pages[u(l)].wa0
      BY <3>1, <3>2, <1>3 DEF FileShows
    <3> QED
      BY <3>1, <3>3
  <2>3. ASSUME NEW j \in 1..Len(w[f]) PROVE Held(t, f, j) \/ OnDisk(t, w, f, j)
    <3>1. j \in Nat \ {0}
      <4>1. w[f] \in Seq(Word)
        BY <1>1 DEF AllFiles
      <4> QED
        BY <4>1
    <3>2. CASE OnDisk(st, w, f, j)
      BY <3>1, <3>2, <1>16
    <3>3. ASSUME Held(st, f, j) PROVE Held(t, f, j) \/ OnDisk(t, w, f, j)
      <4>1. PICK k \in 1..Len(pages) : In(pages[k], j)
        BY <3>3 DEF Held
      <4>2. CASE k = i
        BY <4>1, <4>2, <1>17, <3>1
      <4>3. CASE k # i
        BY <4>1, <4>3, <1>15 DEF Held
      <4> QED
        BY <4>2, <4>3
    <3> QED
      BY <3>2, <3>3, <1>3 DEF FileShows
  <2>4. Len(t.disk[f]) <= t.size[f]
    BY <1>5, <1>8, <1>11
  <2> QED
    BY <2>1, <2>2, <2>3, <2>4 DEF FileShows
<1>19. ASSUME NEW g \in Files PROVE ShowsAt(t, w, g)
  <2>1. ShowsAt(st, w, g)
    BY <1>1 DEF Shows
  <2>2. CASE g = f
    BY <2>1, <2>2, <1>3, <1>18, <1>11 DEF ShowsAt
  <2>3. CASE g # f
    <3>1. t.page[g] = st.page[g] /\ t.disk[g] = st.disk[g] /\ t.size[g] = st.size[g]
      BY <2>3, <1>8, <1>9, <1>11
    <3>2. FileShows(st, w, g) => FileShows(t, w, g)
      BY <3>1 DEF FileShows, PageShows, Held, OnDisk
    <3>3. Plain(st, w, g) => Plain(t, w, g)
      BY <3>1 DEF Plain
    <3> QED
      BY <2>1, <3>1, <3>2, <3>3 DEF ShowsAt
  <2> QED
    BY <2>2, <2>3
<1>20. Relieved(st, t)
  <2>1. \A g \in Files \ {f} : t.page[g] = st.page[g]
    BY <1>9, <1>11
  <2>2. \A g \in Files : Len(t.page[g]) <= Len(st.page[g])
    <3>1. \A g \in Files : st.page[g] \in Seq(PageType)
      BY <1>1 DEF StateType
    <3>2. \A g \in Files : Len(st.page[g]) \in Nat
      BY <3>1
    <3> QED
      BY <3>2, <2>1, <1>12
  <2>3. \A g \in Files : \A k \in 1..Len(t.page[g]) : \E j \in 1..Len(st.page[g]) :
            t.page[g][k] = st.page[g][j]
    BY <2>1, <1>14
  <2> QED
    BY <2>2, <2>3, <1>11 DEF Relieved
<1> QED
  BY <1>1, <1>7, <1>10, <1>11, <1>12, <1>13, <1>19, <1>20 DEF Sound, Shows

LEMMA scrap_pageIs ==
  ASSUME ConfigOK, NEW st, NEW w, Sound(st, w), NEW files, files \subseteq Files,
         NEW g \in files, st.page[g] # <<>>
  PROVE  /\ Sound(scrap_page(st, files), w) /\ Relieved(st, scrap_page(st, files))
         /\ scrap_page(st, files).nfree = st.nfree + 1
         /\ scrap_page(st, files).count = st.count
         /\ \E f \in files : Len(scrap_page(st, files).page[f]) = Len(st.page[f]) - 1
<1>1. st \in StateType
  BY DEF Sound
<1>2. PICK f \in files : \E i \in 1..Len(st.page[f]) : LeastUseful(st, files) = <<f, i>>
  BY <1>1, LeastUsefulIs
<1>3. PICK i \in 1..Len(st.page[f]) : LeastUseful(st, files) = <<f, i>>
  BY <1>2
<1>4. scrap_page(st, files) = Scrapped(st, f, i)
  BY <1>3 DEF scrap_page
<1>5. f \in Files
  BY <1>2
<1>6. /\ Sound(Scrapped(st, f, i), w) /\ Relieved(st, Scrapped(st, f, i))
      /\ Scrapped(st, f, i).nfree = st.nfree + 1
      /\ Scrapped(st, f, i).count = st.count
      /\ Len(Scrapped(st, f, i).page[f]) = Len(st.page[f]) - 1
  BY <1>3, <1>5, ScrappedIs
<1> QED
  BY <1>2, <1>4, <1>6

\* What decides what a state shows.
LEMMA SameShows ==
  ASSUME NEW s, NEW t, NEW w, Shows(s, w), t.page = s.page, t.disk = s.disk, t.size = s.size
  PROVE  Shows(t, w)
BY DEF Shows, ShowsAt, FileShows, Plain, PageShows, Held, OnDisk

LEMMA WithRoomIs ==
  ASSUME ConfigOK, NEW st, NEW w, Sound(st, w), NEW f \in Files
  PROVE  /\ Sound(WithRoom(st, f), w) /\ Relieved(st, WithRoom(st, f))
         /\ Len(WithRoom(st, f).page[f]) < config.nb
<1>1. st \in StateType /\ Counted(st)
  BY DEF Sound
<1>2. st.page[f] \in Seq(PageType) /\ Len(st.page[f]) <= config.nb
  BY <1>1 DEF StateType, Counted
<1>3. config.nb \in Nat \ {0} /\ Len(st.page[f]) \in Nat
  <2>1. config.nb \in Nat \ {0}
    BY WaAssumption DEF ConfigOK
  <2> QED
    BY <2>1, <1>2
<1>4. CASE Len(st.page[f]) >= config.nb
  <2>1. WithRoom(st, f) = scrap_page(st, {f})
    BY <1>4 DEF WithRoom
  <2>2. st.page[f] # <<>> /\ {f} \subseteq Files /\ f \in {f}
    BY <1>2, <1>3, <1>4
  <2>3. Sound(scrap_page(st, {f}), w) /\ Relieved(st, scrap_page(st, {f}))
    BY <2>2, scrap_pageIs
  <2>4. \E h \in {f} : Len(scrap_page(st, {f}).page[h]) = Len(st.page[h]) - 1
    BY <2>2, scrap_pageIs
  <2>5. Len(scrap_page(st, {f}).page[f]) = Len(st.page[f]) - 1
    BY <2>4
  <2> QED
    BY <2>1, <2>3, <2>5, <1>2, <1>3
<1>5. CASE ~(Len(st.page[f]) >= config.nb)
  <2>1. WithRoom(st, f) = st
    BY <1>5 DEF WithRoom
  <2>2. Relieved(st, st)
    <3>1. \A g \in Files : st.page[g] \in Seq(PageType)
      BY <1>1 DEF StateType
    <3>2. \A g \in Files : Len(st.page[g]) \in Nat
      BY <3>1
    <3> QED
      BY <3>2 DEF Relieved
  <2> QED
    BY <2>1, <2>2, <1>3, <1>5
<1> QED
  BY <1>4, <1>5

LEMMA RelievedSame ==
  ASSUME NEW s \in StateType, NEW t, t.page = s.page, t.size = s.size, t.out = s.out,
         t.exited = s.exited
  PROVE  Relieved(s, t)
<1>1. \A g \in Files : s.page[g] \in Seq(PageType)
  BY DEF StateType
<1>2. \A g \in Files : Len(s.page[g]) \in Nat
  BY <1>1
<1> QED
  BY <1>2 DEF Relieved

LEMMA AllocatedIs ==
  ASSUME ConfigOK, NEW st, NEW w, Sound(st, w)
  PROVE  /\ Sound(Allocated(st), w) /\ Relieved(st, Allocated(st))
         /\ Allocated(st).nfree > 0 \/ Allocated(st).count >= config.limit
<1>1. st \in StateType /\ Counted(st) /\ Shows(st, w) /\ w \in AllFiles
  BY DEF Sound
<1>2. st.nfree \in Nat /\ st.count \in Nat /\ config.limit \in Nat \ {0}
  BY <1>1 DEF StateType, ConfigOK
<1>3. CASE st.nfree = 0 /\ st.count < config.limit
  <2> DEFINE n == st.count + 1
             t1 == [st EXCEPT !.count = n]
             t == [t1 EXCEPT !.nfree = 1]
  <2>1. Allocated(st) = t
    BY <1>3 DEF Allocated
  <2>2. n \in Nat /\ n = st.count + 1
    BY <1>2
  <2> HIDE DEF n
  <2>3. t1 \in StateType /\ t1.count = n /\ t1.page = st.page /\ t1.disk = st.disk
        /\ t1.size = st.size /\ t1.out = st.out /\ t1.exited = st.exited
    BY <1>1, <2>2 DEF StateType
  <2> HIDE DEF t1
  <2>4. t \in StateType /\ t.count = n /\ t.page = st.page /\ t.disk = st.disk
        /\ t.size = st.size /\ t.out = st.out /\ t.exited = st.exited /\ t.nfree = 1
    BY <2>3 DEF StateType
  <2> HIDE DEF t
  <2>5. Pages(t) = Pages(st)
    BY <2>4 DEF Pages
  <2>6. Cardinality(Pages(st)) \in Nat
    BY <1>1, FS_CardinalityType DEF Counted
  <2>7. Counted(t)
    BY <1>1, <1>2, <1>3, <2>2, <2>4, <2>5, <2>6 DEF Counted
  <2>8. Shows(t, w)
    BY <1>1, <2>4, SameShows
  <2>9. Relieved(st, t)
    BY <1>1, <2>4, RelievedSame
  <2>10. Sound(t, w)
    BY <1>1, <2>4, <2>7, <2>8 DEF Sound
  <2>11. t.nfree > 0
    BY <2>4
  <2> QED
    BY <2>1, <2>9, <2>10, <2>11
<1>4. CASE ~(st.nfree = 0 /\ st.count < config.limit)
  <2>1. Allocated(st) = st
    BY <1>4 DEF Allocated
  <2>2. Relieved(st, st)
    BY <1>1, RelievedSame
  <2> QED
    BY <2>1, <2>2, <1>2, <1>4
<1> QED
  BY <1>3, <1>4

LEMMA WithBufferIs ==
  ASSUME ConfigOK, NEW st, NEW w, Sound(st, w), st.nfree > 0 \/ st.count >= config.limit
  PROVE  /\ Sound(WithBuffer(st), w) /\ Relieved(st, WithBuffer(st))
         /\ WithBuffer(st).nfree > 0
<1>1. st \in StateType /\ Counted(st)
  BY DEF Sound
<1>2. st.nfree \in Nat /\ st.count \in Nat /\ config.limit \in Nat \ {0}
  BY <1>1 DEF StateType, ConfigOK
<1>3. CASE st.nfree = 0
  <2>1. Pages(st) # {}
    <3>1. IsFiniteSet(Pages(st)) /\ Cardinality(Pages(st)) \in Nat
      BY <1>1, FS_CardinalityType DEF Counted
    <3>2. st.count = st.nfree + Cardinality(Pages(st))
      BY <1>1 DEF Counted
    <3>3. Cardinality(Pages(st)) # 0
      BY <3>1, <3>2, <1>2, <1>3
    <3> QED
      BY <3>1, <3>3, FS_EmptySet
  <2>2. PICK x : x \in Pages(st)
    BY <2>1
  <2>3. PICK g \in Files : \E i \in 1..Len(st.page[g]) : x = <<g, i>>
    BY <2>2, <1>1, InPages
  <2>4. st.page[g] # <<>>
    BY <2>3
  <2>5. WithBuffer(st) = scrap_page(st, Files)
    BY <1>3 DEF WithBuffer
  <2>6. /\ Sound(scrap_page(st, Files), w) /\ Relieved(st, scrap_page(st, Files))
        /\ scrap_page(st, Files).nfree = st.nfree + 1
    BY <2>4, scrap_pageIs
  <2> QED
    BY <2>5, <2>6, <1>2
<1>4. CASE st.nfree # 0
  <2>1. WithBuffer(st) = st
    BY <1>4 DEF WithBuffer
  <2>2. Relieved(st, st)
    BY <1>1, RelievedSame
  <2> QED
    BY <2>1, <2>2, <1>2, <1>4
<1> QED
  BY <1>3, <1>4

\* The state in which get_new_page takes a buffer.
Ready(st, f) == WithBuffer(Allocated(WithRoom(st, f)))

LEMMA ReadyIs ==
  ASSUME ConfigOK, NEW st, NEW w, Sound(st, w), NEW f \in Files
  PROVE  /\ Sound(Ready(st, f), w) /\ Relieved(st, Ready(st, f))
         /\ Ready(st, f).nfree > 0 /\ Len(Ready(st, f).page[f]) < config.nb
<1> DEFINE a == WithRoom(st, f)
           b == Allocated(a)
           c == WithBuffer(b)
<1>1. Sound(a, w) /\ Relieved(st, a) /\ Len(a.page[f]) < config.nb
  BY WithRoomIs
<1> HIDE DEF a
<1>2. Sound(b, w) /\ Relieved(a, b) /\ (b.nfree > 0 \/ b.count >= config.limit)
  BY <1>1, AllocatedIs
<1> HIDE DEF b
<1>3. Sound(c, w) /\ Relieved(b, c) /\ c.nfree > 0
  BY <1>2, WithBufferIs
<1> HIDE DEF c
<1>4. st \in StateType /\ a \in StateType /\ b \in StateType /\ c \in StateType
  BY <1>1, <1>2, <1>3 DEF Sound
<1>5. Relieved(st, b)
  BY <1>1, <1>2, <1>4, RelievedTwice
<1>6. Relieved(st, c)
  BY <1>3, <1>5, <1>4, RelievedTwice
<1>7. Relieved(a, c)
  BY <1>2, <1>3, <1>4, RelievedTwice
<1>8. Len(c.page[f]) < config.nb
  <2>1. c.page[f] \in Seq(PageType) /\ a.page[f] \in Seq(PageType) /\ config.nb \in Nat
    <3>1. config.nb \in Nat
      BY WaAssumption DEF ConfigOK
    <3> QED
      BY <3>1, <1>4 DEF StateType
  <2>2. Len(c.page[f]) <= Len(a.page[f])
    BY <1>7 DEF Relieved
  <2> QED
    BY <2>1, <2>2, <1>1
<1> QED
  BY <1>3, <1>6, <1>8 DEF Ready, a, b, c

-----------------------------------------------------------------------------
(* A page is put into the cache, or changed there.                         *)

\* t is s with page i of file f, which is new or was there with the same first word.
Places(s, t, f, i) ==
    /\ t.disk = s.disk
    /\ \A g \in Files \ {f} : t.page[g] = s.page[g] /\ t.size[g] = s.size[g]
    /\ \A j \in 1..Len(t.page[f]) : j # i =>
           j \in 1..Len(s.page[f]) /\ t.page[f][j] = s.page[f][j]
    /\ \A j \in 1..Len(s.page[f]) :
           /\ j \in 1..Len(t.page[f])
           /\ j # i => s.page[f][j].wa0 # t.page[f][i].wa0
           /\ j = i => s.page[f][j].walast <= t.page[f][i].walast
                       /\ s.page[f][j].wa0 = t.page[f][i].wa0

\* The file is not longer, or it ends with the page.
Extends(s, t, f, pg) ==
    /\ s.size[f] <= t.size[f]
    /\ t.size[f] = s.size[f] \/ (pg.walast = t.size[f] /\ pg.wa0 <= s.size[f] + 1)

\* The first and last words a, b of a page of a file of z words, which becomes one of y
\* words that ends with another page, c to d.
LEMMA EndsStill ==
  ASSUME NEW p \in Nat \ {0}, NEW a \in Nat, NEW b \in Nat, NEW c \in Nat, NEW d \in Nat,
         NEW z \in Nat, NEW y \in Nat, a + p <= c \/ c + p <= a,
         a <= z, b <= z, b <= a + p - 1, b = z \/ b = a + p - 1, d <= c + p - 1,
         z <= y, y = z \/ (d = y /\ c <= z + 1)
  PROVE  /\ a <= y /\ b <= y /\ (b = y \/ b = a + p - 1)
         /\ \A j \in Nat : a <= j /\ j <= b => j <= y /\ ~(c <= j /\ j <= d)
OBVIOUS

LEMMA Placed ==
  ASSUME ConfigOK, NEW s, NEW w, Sound(s, w), NEW f \in Files, Paged(f),
         NEW t \in StateType, NEW v \in AllFiles, NEW i \in 1..Len(t.page[f]),
         Places(s, t, f, i), \A g \in Files \ {f} : v[g] = w[g],
         PageShows(t, v, f, t.page[f][i]), Extends(s, t, f, t.page[f][i]),
         t.size[f] = Len(v[f]),
         \A j \in 1..Len(v[f]) : \/ In(t.page[f][i], j)
                                 \/ j <= Len(w[f]) /\ v[f][j] = w[f][j]
  PROVE  Shows(t, v)
<1> DEFINE pg == t.page[f][i]
<1>1. s \in StateType /\ w \in AllFiles /\ Shows(s, w)
  BY DEF Sound
<1>2. FileShows(s, w, f) /\ s.size[f] = Len(w[f])
  BY <1>1 DEF Shows, ShowsAt, Paged
<1>3. /\ s.size[f] \in Nat /\ t.size[f] \in Nat /\ P \in Nat \ {0}
      /\ s.page[f] \in Seq(PageType) /\ t.page[f] \in Seq(PageType)
  BY SMTT(40), <1>1 DEF StateType, ConfigOK, P, Paged
<1>4. IsStart(pg.wa0) /\ pg.wa0 \in Nat \ {0} /\ pg.walast \in Nat /\ pg.walast <= pg.wa0 + P - 1
  <2>1. pg \in PageType
    BY <1>3
  <2> QED
    BY <2>1, <1>3, StartNat DEF PageShows, PageType
<1> HIDE DEF pg
<1>5. ASSUME NEW k \in 1..Len(t.page[f]), k # i PROVE PageShows(t, v, f, t.page[f][k])
  <2> DEFINE q == s.page[f][k]
  <2>1. k \in 1..Len(s.page[f]) /\ t.page[f][k] = q
    BY <1>5 DEF Places
  <2>2. PageShows(s, w, f, q)
    BY <2>1, <1>2 DEF FileShows
  <2>3. q.wa0 # pg.wa0
    BY <2>1, <1>5 DEF Places, pg
  <2>4. q \in PageType
    BY <2>1, <1>3
  <2> HIDE DEF q
  <2>5. IsStart(q.wa0) /\ q.wa0 \in Nat \ {0} /\ q.walast \in Nat
    BY <2>2, <2>4, <1>3, StartNat DEF PageShows, PageType
  <2>6. q.wa0 + P <= pg.wa0 \/ pg.wa0 + P <= q.wa0
    BY <2>3, <2>5, <1>3, <1>4, StartsApart
  <2>7. q.wa0 <= s.size[f] /\ q.walast <= s.size[f] /\ q.walast <= q.wa0 + P - 1
        /\ (q.walast = s.size[f] \/ q.walast = q.wa0 + P - 1)
    BY <2>2 DEF PageShows
  <2>8. s.size[f] <= t.size[f]
        /\ (t.size[f] = s.size[f] \/ (pg.walast = t.size[f] /\ pg.wa0 <= s.size[f] + 1))
    BY DEF Extends, pg
  <2>9. /\ q.wa0 <= t.size[f] /\ q.walast <= t.size[f]
        /\ q.walast = t.size[f] \/ q.walast = q.wa0 + P - 1
        /\ \A j \in Nat : q.wa0 <= j /\ j <= q.walast =>
               j <= t.size[f] /\ ~(pg.wa0 <= j /\ j <= pg.walast)
    <3> DEFINE a == q.wa0
               b == q.walast
               c == pg.wa0
               d == pg.walast
               z == s.size[f]
               y == t.size[f]
               p == P
    <3>1. /\ p \in Nat \ {0} /\ a \in Nat /\ b \in Nat /\ c \in Nat /\ d \in Nat
          /\ z \in Nat /\ y \in Nat
      BY <2>5, <1>3, <1>4
    <3>2. (a + p <= c \/ c + p <= a) /\ d <= c + p - 1
      BY <2>6, <1>4
    <3>3. a <= z /\ b <= z /\ b <= a + p - 1 /\ (b = z \/ b = a + p - 1)
      BY <2>7
    <3>4. z <= y /\ (y = z \/ (d = y /\ c <= z + 1))
      BY <2>8
    <3> HIDE DEF a, b, c, d, z, y, p
    <3>5. /\ a <= y /\ b <= y /\ (b = y \/ b = a + p - 1)
          /\ \A j \in Nat : a <= j /\ j <= b => j <= y /\ ~(c <= j /\ j <= d)
      BY <3>1, <3>2, <3>3, <3>4, EndsStill
    <3> QED
      BY <3>5 DEF a, b, c, d, z, y, p
  <2>10. ASSUME NEW j \in Nat, In(q, j)
         PROVE  q.adr[j - q.wa0] = v[f][j] /\ (q.touch_flag \/ OnDisk(t, v, f, j))
    <3>1. ~In(pg, j) /\ j \in 1..t.size[f]
      BY <2>10, <2>5, <2>9, <1>3 DEF In
    <3>2. v[f][j] = w[f][j]
      BY <3>1 DEF pg
    <3>3. q.adr[j - q.wa0] = w[f][j] /\ (q.touch_flag \/ OnDisk(s, w, f, j))
      BY <2>2, <2>10 DEF PageShows
    <3> QED
      BY <3>2, <3>3 DEF OnDisk, Places
  <2> QED
    BY <2>1, <2>5, <2>7, <2>9, <2>10 DEF PageShows
<1>6. FileShows(t, v, f)
  <2>1. Len(t.disk[f]) <= t.size[f]
    <3>1. s.disk[f] \in Seq(Word)
      BY <1>1 DEF StateType
    <3>2. Len(s.disk[f]) \in Nat /\ Len(s.disk[f]) <= s.size[f]
      BY <3>1, <1>2 DEF FileShows
    <3> QED
      BY <3>2, <1>3 DEF Places, Extends
  <2>2. \A k \in 1..Len(t.page[f]) : PageShows(t, v, f, t.page[f][k])
    BY <1>5
  <2>3. \A k, l \in 1..Len(t.page[f]) : k # l => t.page[f][k].wa0 # t.page[f][l].wa0
    <3> SUFFICES ASSUME NEW k \in 1..Len(t.page[f]), NEW l \in 1..Len(t.page[f]), k # l
                 PROVE  t.page[f][k].wa0 # t.page[f][l].wa0
      OBVIOUS
    <3>1. CASE k # i /\ l # i
      <4>1. /\ k \in 1..Len(s.page[f]) /\ t.page[f][k] = s.page[f][k]
            /\ l \in 1..Len(s.page[f]) /\ t.page[f][l] = s.page[f][l]
        BY <3>1 DEF Places
      <4>2. s.page[f][k].wa0 # s.page[f][l].wa0
        BY <4>1, <1>2 DEF FileShows
      <4> QED
        BY <4>1, <4>2
    <3>2. CASE k = i
      BY <3>2 DEF Places
    <3>3. CASE l = i
      BY <3>3 DEF Places
    <3> QED
      BY <3>1, <3>2, <3>3
  <2>4. ASSUME NEW j \in 1..Len(v[f]) PROVE Held(t, f, j) \/ OnDisk(t, v, f, j)
    <3>1. CASE In(pg, j)
      BY <3>1 DEF Held, pg
    <3>2. CASE ~In(pg, j)
      <4>1. v[f][j] = w[f][j] /\ j \in 1..Len(w[f])
        <5>1. v[f][j] = w[f][j] /\ j <= Len(w[f])
          BY <3>2 DEF pg
        <5> QED
          BY <5>1, <1>2, <1>3
      <4>2. CASE OnDisk(s, w, f, j)
        BY <4>1, <4>2 DEF OnDisk, Places
      <4>3. CASE Held(s, f, j)
        <5>1. PICK k \in 1..Len(s.page[f]) : In(s.page[f][k], j)
          BY <4>3 DEF Held
        <5>2. k # i
          <6> SUFFICES ASSUME k = i PROVE FALSE
            OBVIOUS
          <6>1. s.page[f][k].walast <= pg.walast /\ s.page[f][k].wa0 = pg.wa0
            BY <5>1 DEF Places, pg
          <6>2. s.page[f][k].walast \in Nat
            <7>1. s.page[f][k] \in PageType
              BY <1>3
            <7> QED
              BY <7>1 DEF PageType
          <6> QED
            BY <6>1, <6>2, <5>1, <3>2, <1>4 DEF In
        <5>3. k \in 1..Len(t.page[f]) /\ t.page[f][k] = s.page[f][k]
          BY <5>1, <5>2 DEF Places
        <5>4. Held(t, f, j)
          BY <5>1, <5>3 DEF Held
        <5> QED
          BY <5>4
      <4> QED
        BY <4>1, <4>2, <4>3, <1>2 DEF FileShows
    <3> QED
      BY <3>1, <3>2
  <2> QED
    BY <2>1, <2>2, <2>3, <2>4 DEF FileShows
<1>7. ASSUME NEW g \in Files PROVE ShowsAt(t, v, g)
  <2>1. CASE g = f
    BY <2>1, <1>6 DEF ShowsAt
  <2>2. CASE g # f
    <3>1. t.page[g] = s.page[g] /\ t.disk[g] = s.disk[g] /\ t.size[g] = s.size[g] /\ v[g] = w[g]
      BY <2>2 DEF Places
    <3>2. FileShows(s, w, g) => FileShows(t, v, g)
      <4>1. \A j : OnDisk(s, w, g, j) <=> OnDisk(t, v, g, j)
        BY <3>1 DEF OnDisk
      <4>2. \A j : Held(s, g, j) <=> Held(t, g, j)
        BY <3>1 DEF Held
      <4>3. \A q : PageShows(s, w, g, q) => PageShows(t, v, g, q)
        BY <3>1, <4>1 DEF PageShows
      <4> QED
        BY <3>1, <4>1, <4>2, <4>3 DEF FileShows
    <3>3. Plain(s, w, g) => Plain(t, v, g)
      BY <3>1 DEF Plain
    <3>4. ShowsAt(s, w, g)
      BY <1>1 DEF Shows
    <3> QED
      BY <3>1, <3>2, <3>3, <3>4 DEF ShowsAt
  <2> QED
    BY <2>1, <2>2
<1> QED
  BY <1>7 DEF Shows

LEMMA PageOfIs ==
  ASSUME P \in Nat \ {0}, NEW st \in StateType, NEW f \in Files, NEW s, IsStart(s),
         NEW a \in Nat, NEW n \in Nat \ {0}, s <= a, a + n <= s + P,
         \A i \in 1..Len(st.page[f]) : IsStart(st.page[f][i].wa0)
  PROVE  \/ /\ PageOf(st, f, a, n) = 0
            /\ \A i \in 1..Len(st.page[f]) : st.page[f][i].wa0 # s
         \/ /\ PageOf(st, f, a, n) \in 1..Len(st.page[f])
            /\ st.page[f][PageOf(st, f, a, n)].wa0 = s
<1> DEFINE hits == {i \in DOMAIN st.page[f] : Holds(st.page[f][i], a, n)}
<1>1. st.page[f] \in Seq(PageType)
  BY DEF StateType
<1>2. DOMAIN st.page[f] = 1..Len(st.page[f]) /\ Len(st.page[f]) \in Nat
  BY <1>1
<1>3. \A i \in 1..Len(st.page[f]) : i \in hits <=> st.page[f][i].wa0 = s
  BY <1>2, HoldsIs
<1>4. hits \subseteq 1..Len(st.page[f]) /\ hits \subseteq Nat
  BY <1>2
<1>5. PageOf(st, f, a, n) = IF hits = {} THEN 0 ELSE Min(hits)
  BY DEF PageOf
<1> HIDE DEF hits
<1>6. CASE hits = {}
  BY <1>3, <1>5, <1>6
<1>7. CASE hits # {}
  <2>1. Min(hits) \in hits
    BY <1>4, <1>7, LeastIs
  <2> QED
    BY <2>1, <1>3, <1>4, <1>5, <1>7
<1> QED
  BY <1>6, <1>7

\* One page of one file is changed.
LEMMA PageChanged ==
  ASSUME NEW st \in StateType, NEW f \in Files, NEW pages \in Seq(PageType)
  PROVE  /\ [st EXCEPT !.page[f] = pages] \in StateType
         /\ [st EXCEPT !.page[f] = pages].disk = st.disk
         /\ [st EXCEPT !.page[f] = pages].size = st.size
         /\ [st EXCEPT !.page[f] = pages].nfree = st.nfree
         /\ [st EXCEPT !.page[f] = pages].count = st.count
         /\ [st EXCEPT !.page[f] = pages].exited = st.exited
         /\ [st EXCEPT !.page[f] = pages].out = st.out
         /\ [st EXCEPT !.page[f] = pages].page[f] = pages
         /\ \A g \in Files \ {f} : [st EXCEPT !.page[f] = pages].page[g] = st.page[g]
<1> DEFINE G == [st.page EXCEPT ![f] = pages]
           t == [st EXCEPT !.page = G]
<1>1. [st EXCEPT !.page[f] = pages] = t
  OBVIOUS
<1>2. G \in [Files -> Seq(PageType)] /\ G[f] = pages /\ \A g \in Files \ {f} : G[g] = st.page[g]
  BY DEF StateType
<1> HIDE DEF G
<1>3. t \in StateType
  BY <1>2 DEF StateType
<1>4. /\ t.disk = st.disk /\ t.size = st.size /\ t.nfree = st.nfree /\ t.count = st.count
      /\ t.exited = st.exited /\ t.out = st.out /\ t.page = G
  BY DEF StateType
<1> HIDE DEF t
<1> QED
  BY <1>1, <1>2, <1>3, <1>4

LEMMA TakenIs ==
  ASSUME ConfigOK, NEW st \in StateType, st.nfree > 0, NEW f \in Files
  PROVE  /\ Taken(st, f) \in StateType
         /\ Taken(st, f).disk = st.disk /\ Taken(st, f).size = st.size
         /\ Taken(st, f).nfree = st.nfree - 1 /\ Taken(st, f).count = st.count
         /\ Taken(st, f).exited = st.exited /\ Taken(st, f).out = st.out
         /\ Taken(st, f).page[f] = Append(st.page[f], NewPage)
         /\ \A g \in Files \ {f} : Taken(st, f).page[g] = st.page[g]
<1> DEFINE n == st.nfree - 1
           pages == Append(st.page[f], NewPage)
           u == [st EXCEPT !.nfree = n]
           t == [u EXCEPT !.page[f] = pages]
<1>1. NewPage \in PageType
  BY WaAssumption DEF NewPage, PageType, Word
<1>2. n \in Nat /\ n = st.nfree - 1
  BY DEF StateType
<1>3. st.page[f] \in Seq(PageType)
  BY DEF StateType
<1>4. pages \in Seq(PageType)
  BY <1>1, <1>3
<1>5. Taken(st, f) = t
  BY DEF Taken
<1> HIDE DEF n
<1>6. /\ u \in StateType /\ u.disk = st.disk /\ u.size = st.size /\ u.nfree = n
      /\ u.count = st.count /\ u.exited = st.exited /\ u.out = st.out /\ u.page = st.page
  BY <1>2 DEF StateType
<1> HIDE DEF u, pages
<1>7. /\ t \in StateType /\ t.disk = u.disk /\ t.size = u.size /\ t.nfree = u.nfree
      /\ t.count = u.count /\ t.exited = u.exited /\ t.out = u.out /\ t.page[f] = pages
      /\ \A g \in Files \ {f} : t.page[g] = u.page[g]
  BY <1>4, <1>6, PageChanged
<1> HIDE DEF t
<1> QED
  BY <1>2, <1>5, <1>6, <1>7 DEF pages

\* The last page of f, as Fill leaves it.
FilledPage(st, f, pg, wa0, need, got) ==
    IF need THEN [pg EXCEPT !.wa0 = wa0, !.access_count = 1, !.walast = wa0 + got - 1,
                            !.adr = Filled(st.disk[f], wa0, got)]
    ELSE [pg EXCEPT !.wa0 = wa0, !.access_count = 1]

LEMMA FilledIs ==
  ASSUME ConfigOK, NEW words \in Seq(Word), NEW wa0 \in Nat \ {0}, NEW got \in Nat,
         wa0 + got - 1 <= Len(words)
  PROVE  /\ Filled(words, wa0, got) \in [0..(P - 1) -> Word]
         /\ \A k \in 0..(P - 1) : k < got => Filled(words, wa0, got)[k] = words[wa0 + k]
<1> DEFINE W == Word
           e(k) == IF k < got THEN words[wa0 + k] ELSE 0
<1>1. P \in Nat /\ words \in Seq(W) /\ 0 \in W
  BY DEF ConfigOK, P, Word
<1>2. Filled(words, wa0, got) = [k \in 0..(P - 1) |-> e(k)]
  BY DEF Filled
<1> HIDE DEF W
<1>3. \A k \in 0..(P - 1) : e(k) \in W
  <2> TAKE k \in 0..(P - 1)
  <2>1. k \in Nat
    BY <1>1
  <2>2. CASE k < got
    <3>1. wa0 + k \in 1..Len(words)
      BY <2>1, <2>2
    <3> QED
      BY <3>1, <2>2, <1>1
  <2>3. CASE ~(k < got)
    BY <2>3, <1>1
  <2> QED
    BY <2>2, <2>3
<1>4. \A k \in 0..(P - 1) : k < got => e(k) = words[wa0 + k]
  OBVIOUS
<1> HIDE DEF e
<1> QED
  BY <1>2, <1>3, <1>4 DEF W

LEMMA FilledPageIs ==
  ASSUME ConfigOK, NEW st \in StateType, NEW f \in Files, NEW pg \in PageType,
         NEW wa0 \in Nat \ {0}, NEW need \in BOOLEAN, NEW got \in Nat,
         need => wa0 + got - 1 <= Len(st.disk[f]) /\ wa0 + got - 1 \in Nat
  PROVE  /\ FilledPage(st, f, pg, wa0, need, got) \in PageType
         /\ FilledPage(st, f, pg, wa0, need, got).wa0 = wa0
         /\ FilledPage(st, f, pg, wa0, need, got).touch_flag = pg.touch_flag
         /\ need => /\ FilledPage(st, f, pg, wa0, need, got).walast = wa0 + got - 1
                    /\ FilledPage(st, f, pg, wa0, need, got).adr =
                           Filled(st.disk[f], wa0, got)
         /\ ~need => FilledPage(st, f, pg, wa0, need, got).walast = pg.walast
<1>1. st.disk[f] \in Seq(Word)
  BY DEF StateType
<1>2. CASE need
  <2> DEFINE b == wa0 + got - 1
             A == Filled(st.disk[f], wa0, got)
             x == [pg EXCEPT !.wa0 = wa0, !.access_count = 1, !.walast = b, !.adr = A]
  <2>1. A \in [0..(P - 1) -> Word]
    BY <1>1, <1>2, FilledIs
  <2>2. b \in Nat
    BY <1>2
  <2>3. FilledPage(st, f, pg, wa0, need, got) = x
    BY <1>2 DEF FilledPage
  <2> HIDE DEF A, b
  <2>4. x \in PageType
    BY <2>1, <2>2 DEF PageType
  <2>5. x.wa0 = wa0 /\ x.touch_flag = pg.touch_flag /\ x.walast = b /\ x.adr = A
    BY DEF PageType
  <2> QED
    BY <1>2, <2>3, <2>4, <2>5 DEF A, b
<1>3. CASE ~need
  <2> DEFINE x == [pg EXCEPT !.wa0 = wa0, !.access_count = 1]
  <2>1. FilledPage(st, f, pg, wa0, need, got) = x
    BY <1>3 DEF FilledPage
  <2>2. x \in PageType
    BY DEF PageType
  <2>3. x.wa0 = wa0 /\ x.touch_flag = pg.touch_flag /\ x.walast = pg.walast
    BY DEF PageType
  <2> QED
    BY <1>3, <2>1, <2>2, <2>3
<1> QED
  BY <1>2, <1>3

\* pg is a new page of f, its last, in a buffer of s.
Added(s, t, f, pg) ==
    /\ t \in StateType /\ t.disk = s.disk /\ t.size = s.size
    /\ t.nfree = s.nfree - 1 /\ t.count = s.count
    /\ t.exited = s.exited /\ t.out = s.out
    /\ \A g \in Files \ {f} : t.page[g] = s.page[g]
    /\ Len(t.page[f]) = Len(s.page[f]) + 1
    /\ t.page[f][Len(s.page[f]) + 1] = pg
    /\ \A j \in 1..Len(s.page[f]) : t.page[f][j] = s.page[f][j]

LEMMA FillIs ==
  ASSUME ConfigOK, NEW st \in StateType, st.nfree > 0, NEW f \in Files,
         NEW wa0 \in Nat \ {0}, NEW need \in BOOLEAN, NEW got \in Nat,
         need => wa0 + got - 1 <= Len(st.disk[f]) /\ wa0 + got - 1 \in Nat
  PROVE  Added(st, Fill(Taken(st, f), f, wa0, need, got), f,
               FilledPage(st, f, NewPage, wa0, need, got))
<1> DEFINE t == Fill(Taken(st, f), f, wa0, need, got)
           l == Len(st.page[f]) + 1
           u == Taken(st, f)
           pg == FilledPage(st, f, NewPage, wa0, need, got)
           pages == [u.page[f] EXCEPT ![l] = pg]
<1>1. /\ u \in StateType /\ u.disk = st.disk /\ u.size = st.size
      /\ u.nfree = st.nfree - 1 /\ u.count = st.count
      /\ u.exited = st.exited /\ u.out = st.out
      /\ u.page[f] = Append(st.page[f], NewPage)
      /\ \A g \in Files \ {f} : u.page[g] = st.page[g]
  BY TakenIs
<1>2. st.page[f] \in Seq(PageType) /\ Len(st.page[f]) \in Nat
  <2>1. st.page[f] \in Seq(PageType)
    BY DEF StateType
  <2> QED
    BY <2>1
<1>3. NewPage \in PageType
  BY WaAssumption DEF NewPage, PageType, Word
<1>4. pg \in PageType
  BY <1>3, FilledPageIs
<1>5. /\ u.page[f] \in Seq(PageType) /\ Len(u.page[f]) = l /\ l \in Nat \ {0}
      /\ u.page[f][l] = NewPage
      /\ \A j \in 1..Len(st.page[f]) : u.page[f][j] = st.page[f][j]
  BY <1>1, <1>2, <1>3
<1>6. t = [u EXCEPT !.page[f] = pages]
  <2>1. t = [u EXCEPT !.page[f][l] = FilledPage(u, f, u.page[f][l], wa0, need, got)]
    BY <1>5 DEF Fill, FilledPage
  <2>2. FilledPage(u, f, u.page[f][l], wa0, need, got) = pg
    BY <1>1, <1>5 DEF FilledPage
  <2> HIDE DEF u, pg
  <2>3. t = [u EXCEPT !.page[f][l] = pg]
    BY <2>1, <2>2
  <2> QED
    BY <2>3
<1> HIDE DEF u, pg
<1>7. /\ pages \in Seq(PageType) /\ Len(pages) = l /\ pages[l] = pg
      /\ \A j \in 1..Len(st.page[f]) : pages[j] = st.page[f][j]
  <2> DEFINE x == u.page[f]
             y == [x EXCEPT ![l] = pg]
  <2>1. x \in Seq(PageType) /\ Len(x) = l /\ l \in 1..Len(x) /\ pg \in PageType
    BY <1>4, <1>5
  <2>2. \A j \in 1..Len(st.page[f]) : j \in 1..Len(x) /\ j # l /\ x[j] = st.page[f][j]
    BY <1>2, <1>5
  <2>3. pages = y
    OBVIOUS
  <2> HIDE DEF x, pages
  <2>4. /\ y \in Seq(PageType) /\ Len(y) = Len(x) /\ y[l] = pg
        /\ \A k \in 1..Len(x) : k # l => y[k] = x[k]
    BY <2>1, ReplacedIs
  <2> QED
    BY <2>1, <2>2, <2>3, <2>4
<1> HIDE DEF pages
<1>8. /\ t \in StateType /\ t.disk = u.disk /\ t.size = u.size /\ t.nfree = u.nfree
      /\ t.count = u.count /\ t.exited = u.exited /\ t.out = u.out /\ t.page[f] = pages
      /\ \A g \in Files \ {f} : t.page[g] = u.page[g]
  BY <1>1, <1>6, <1>7, PageChanged
<1>9. Added(st, t, f, pg)
  BY <1>1, <1>5, <1>7, <1>8 DEF Added
<1> QED
  BY <1>9 DEF t, pg

-----------------------------------------------------------------------------
(* A page is read in.                                                      *)

\* The first word of a page is that of no page of f.
Absent(st, f, s) == \A i \in 1..Len(st.page[f]) : st.page[f][i].wa0 # s

\* The words of a page that is not in memory are on disk.
LEMMA OnDiskWhenAbsent ==
  ASSUME ConfigOK, NEW st, NEW w, Sound(st, w), NEW f \in Files, Paged(f),
         NEW s, IsStart(s), s <= st.size[f], Absent(st, f, s)
  PROVE  /\ \A j \in Nat : s <= j /\ j <= s + P - 1 /\ j <= st.size[f] => OnDisk(st, w, f, j)
         /\ Len(st.disk[f]) <= st.size[f]
<1>1. st \in StateType /\ w \in AllFiles /\ Shows(st, w)
  BY DEF Sound
<1>2. FileShows(st, w, f) /\ st.size[f] = Len(w[f])
  BY <1>1 DEF Shows, ShowsAt, Paged
<1>3. /\ st.size[f] \in Nat /\ P \in Nat \ {0} /\ st.page[f] \in Seq(PageType)
      /\ s \in Nat \ {0}
  BY <1>1, StartNat DEF StateType, ConfigOK, P, Paged
<1>4. ASSUME NEW j \in Nat, s <= j, j <= s + P - 1, j <= st.size[f]
      PROVE  OnDisk(st, w, f, j)
  <2>1. ~Held(st, f, j)
    <3> SUFFICES ASSUME NEW i \in 1..Len(st.page[f]), In(st.page[f][i], j)
                 PROVE  FALSE
      BY DEF Held
    <3> DEFINE q == st.page[f][i]
    <3>1. PageShows(st, w, f, q) /\ q.wa0 # s /\ q \in PageType
      BY <1>2, <1>3 DEF FileShows, Absent
    <3> HIDE DEF q
    <3>2. q.wa0 \in Nat /\ q.walast \in Nat /\ q.walast <= q.wa0 + P - 1
      BY <3>1 DEF PageShows, PageType
    <3>3. q.wa0 + P <= s \/ s + P <= q.wa0
      BY <3>1, <1>3, StartsApart DEF PageShows
    <3>4. q.wa0 <= j /\ j <= q.walast
      BY DEF In, q
    <3> QED
      BY <3>2, <3>3, <3>4, <1>3, <1>4
  <2>2. j \in 1..Len(w[f])
    BY <1>2, <1>3, <1>4
  <2> QED
    BY <2>1, <2>2, <1>2 DEF FileShows
<1> QED
  BY <1>2, <1>4 DEF FileShows

\* The last word of the page that starts at s.
LastOf(st, f, s) == IF s + P - 1 <= st.size[f] THEN s + P - 1 ELSE st.size[f]

LEMMA RequiredIs ==
  ASSUME ConfigOK, P > 0, NEW st \in StateType, NEW f \in Files, NEW s \in Nat \ {0}
  PROVE  Required(st, f, s) = LastOf(st, f, s) + 1 - s
<1> DEFINE p == P
           z == st.size[f]
<1>1. p \in Nat /\ z \in Nat
  BY DEF ConfigOK, P, StateType
<1>2. Required(st, f, s) = IF p + s > z THEN z + 1 - s ELSE p
  BY DEF Required
<1>3. LastOf(st, f, s) = IF s + p - 1 <= z THEN s + p - 1 ELSE z
  BY DEF LastOf
<1> HIDE DEF p, z
<1> QED
  BY <1>1, <1>2, <1>3

LEMMA PresentIs ==
  ASSUME ConfigOK, NEW st, NEW w, Sound(st, w), NEW f \in Files, Paged(f),
         NEW s, IsStart(s), s <= st.size[f], Absent(st, f, s),
         NEW most, most \in {P, Required(st, f, s)}
  PROVE  /\ Present(st, f, s, most) = LastOf(st, f, s) + 1 - s
         /\ LastOf(st, f, s) \in Nat /\ s <= LastOf(st, f, s)
         /\ LastOf(st, f, s) <= Len(st.disk[f])
<1> DEFINE p == P
           z == st.size[f]
           d == Len(st.disk[f])
           e == LastOf(st, f, s)
<1>1. st \in StateType
  BY DEF Sound
<1>2. st.disk[f] \in Seq(Word)
  BY <1>1 DEF StateType
<1>3. p \in Nat \ {0} /\ z \in Nat /\ d \in Nat /\ s \in Nat \ {0}
  BY <1>1, <1>2, StartNat DEF ConfigOK, P, StateType, Paged
<1>4. e = IF s + p - 1 <= z THEN s + p - 1 ELSE z
  BY DEF LastOf
<1>5. d <= z /\ OnDisk(st, w, f, e)
  <2>1. e \in Nat /\ s <= e /\ e <= s + p - 1 /\ e <= z
    BY <1>3, <1>4
  <2> QED
    BY <2>1, OnDiskWhenAbsent
<1>6. e <= d
  BY <1>5 DEF OnDisk
<1>7. most \in {p, e + 1 - s}
  BY <1>1, <1>3, RequiredIs DEF Paged
<1>8. Present(st, f, s, most) = Max({0, Min({most, d + 1 - s})}) /\ s <= z
  BY DEF Present
<1> HIDE DEF p, z, d, e
<1>9. Min({most, d + 1 - s}) = e + 1 - s
  <2>1. most \in Int /\ d + 1 - s \in Int
    BY <1>3, <1>4, <1>7
  <2>2. Min({most, d + 1 - s}) = IF most <= d + 1 - s THEN most ELSE d + 1 - s
    BY <2>1, MinOfTwo
  <2> QED
    BY <2>2, <1>3, <1>4, <1>5, <1>6, <1>7
<1>10. e + 1 - s \in Nat /\ e + 1 - s > 0
  BY <1>3, <1>4, <1>8
<1>11. Max({0, e + 1 - s}) = e + 1 - s
  BY <1>10, MaxOfTwo
<1>12. Present(st, f, s, most) = e + 1 - s
  BY <1>8, <1>9, <1>11
<1>13. e \in Nat /\ s <= e /\ e <= d
  BY <1>3, <1>4, <1>6, <1>8
<1> QED
  BY <1>12, <1>13 DEF e, d

LEMMA AddedCounted ==
  ASSUME ConfigOK, NEW s \in StateType, Counted(s), NEW f \in Files,
         Len(s.page[f]) < config.nb, NEW t, NEW pg, Added(s, t, f, pg)
  PROVE  Counted(t)
<1>1. /\ t \in StateType /\ t.nfree = s.nfree - 1 /\ t.count = s.count
      /\ \A g \in Files \ {f} : t.page[g] = s.page[g]
      /\ Len(t.page[f]) = Len(s.page[f]) + 1
  BY DEF Added
<1> QED
  BY <1>1, BufferAdded

LEMMA AddedPlaces ==
  ASSUME NEW s \in StateType, NEW f \in Files, NEW t, NEW pg, Added(s, t, f, pg),
         NEW x, pg.wa0 = x, Absent(s, f, x)
  PROVE  /\ \E i \in 1..Len(t.page[f]) : /\ t.page[f][i] = pg
                                         /\ Places(s, t, f, i)
         /\ Extends(s, t, f, pg)
<1> DEFINE n == Len(s.page[f])
           l == n + 1
<1>1. n \in Nat
  <2>1. s.page[f] \in Seq(PageType)
    BY DEF StateType
  <2> QED
    BY <2>1
<1>2. /\ t.disk = s.disk /\ t.size = s.size
      /\ \A g \in Files \ {f} : t.page[g] = s.page[g]
      /\ Len(t.page[f]) = l /\ t.page[f][l] = pg
      /\ \A j \in 1..n : t.page[f][j] = s.page[f][j]
  BY DEF Added
<1>3. \A j \in 1..n : s.page[f][j].wa0 # x
  BY DEF Absent
<1>4. s.size[f] \in Nat
  BY DEF StateType
<1>5. \A j \in 1..Len(t.page[f]) : j # n + 1 => j \in 1..Len(s.page[f])
  BY <1>1, <1>2
<1>6. \A j \in 1..Len(s.page[f]) : j \in 1..Len(t.page[f]) /\ j # n + 1
  BY <1>1, <1>2
<1>7. l \in 1..Len(t.page[f])
  BY <1>1, <1>2
<1> HIDE DEF n, l
<1>8. Places(s, t, f, l)
  BY <1>2, <1>3, <1>5, <1>6, <1>7 DEF Places, n, l
<1>9. Extends(s, t, f, pg)
  BY <1>2, <1>4 DEF Extends
<1> QED
  BY <1>2, <1>7, <1>8, <1>9

\* The page that starts at x shows the words.
ShowsFrom(st, w, f, pg, x) == pg.wa0 = x /\ PageShows(st, w, f, pg)

\* The words of a page that is read in.
LEMMA FilledShows ==
  ASSUME ConfigOK, NEW r, NEW w, Sound(r, w), NEW f \in Files, Paged(f),
         NEW s, IsStart(s), s <= r.size[f], Absent(r, f, s),
         NEW most, most \in {P, Required(r, f, s)}, NEW got, got = LastOf(r, f, s) + 1 - s,
         NEW t, t.disk = r.disk, t.size = r.size
  PROVE  ShowsFrom(t, w, f, FilledPage(r, f, NewPage, s, TRUE, got), s)
<1> DEFINE e == LastOf(r, f, s)
           pg == FilledPage(r, f, NewPage, s, TRUE, got)
<1>1. r \in StateType /\ w \in AllFiles
  BY DEF Sound
<1>2. /\ Present(r, f, s, most) = e + 1 - s
      /\ e \in Nat /\ s <= e /\ e <= Len(r.disk[f])
  BY PresentIs
<1>3. s \in Nat \ {0} /\ P \in Nat \ {0}
  BY StartNat DEF ConfigOK, P, Paged
<1>4. got \in Nat /\ s + got - 1 = e
  <2>1. got = e + 1 - s
    OBVIOUS
  <2> HIDE DEF e
  <2> QED
    BY <1>2, <1>3, <2>1
<1>5. /\ pg.wa0 = s /\ pg.walast = e /\ pg.adr = Filled(r.disk[f], s, got)
      /\ pg.touch_flag = FALSE
  <2>1. NewPage \in PageType /\ NewPage.touch_flag = FALSE
    BY WaAssumption DEF NewPage, PageType, Word
  <2> DEFINE b == s + got - 1
             A == Filled(r.disk[f], s, got)
             n == NewPage
             x == [n EXCEPT !.wa0 = s, !.access_count = 1, !.walast = b, !.adr = A]
  <2>2. pg = x
    BY DEF FilledPage
  <2>3. n \in PageType /\ n.touch_flag = FALSE
    BY <2>1
  <2> HIDE DEF b, A, n, pg
  <2>4. x.wa0 = s /\ x.touch_flag = n.touch_flag /\ x.walast = b /\ x.adr = A
    BY <2>3 DEF PageType
  <2>5. pg.wa0 = s /\ pg.touch_flag = FALSE /\ pg.walast = b /\ pg.adr = A
    BY <2>2, <2>3, <2>4
  <2> QED
    BY <2>5, <1>4 DEF b, A
<1> DEFINE z == r.size[f]
           p == P
<1>6. e = IF s + p - 1 <= z THEN s + p - 1 ELSE z
  BY DEF LastOf
<1>7. z \in Nat /\ s <= z /\ p \in Nat \ {0}
  BY <1>1, <1>3 DEF StateType
<1> HIDE DEF e, pg
<1>8. s <= z /\ e <= z /\ e <= s + p - 1 /\ (e = z \/ e = s + p - 1)
  <2> HIDE DEF z, p
  <2> QED
    BY <1>6, <1>7, <1>3
<1>9. ASSUME NEW j \in Nat, s <= j, j <= e
      PROVE  pg.adr[j - s] = w[f][j] /\ OnDisk(t, w, f, j)
  <2>1. j <= s + P - 1 /\ j <= r.size[f]
    BY <1>7, <1>8, <1>9, <1>2, <1>3
  <2>2. OnDisk(r, w, f, j)
    BY <2>1, <1>9, OnDiskWhenAbsent
  <2>3. j - s \in 0..(P - 1) /\ j - s < got /\ s + (j - s) = j
    BY <2>1, <1>9, <1>2, <1>3, <1>4
  <2>4. r.disk[f] \in Seq(Word)
    BY <1>1 DEF StateType
  <2>5. Filled(r.disk[f], s, got)[j - s] = r.disk[f][s + (j - s)]
    <3>1. s + got - 1 <= Len(r.disk[f])
      BY <1>2, <1>4
    <3>2. \A k \in 0..(P - 1) : k < got =>
              Filled(r.disk[f], s, got)[k] = r.disk[f][s + k]
      BY <3>1, <2>4, <1>3, <1>4, FilledIs
    <3> QED
      BY <3>2, <2>3
  <2>6. OnDisk(t, w, f, j)
    BY <2>2 DEF OnDisk
  <2> QED
    BY <2>2, <2>3, <2>5, <2>6, <1>5 DEF OnDisk
<1> HIDE DEF z
<1>10. t.size[f] = z
  BY DEF z
<1>11. PageShows(t, w, f, pg)
  BY <1>8, <1>9, <1>10, <1>5 DEF PageShows, In
<1> QED
  BY <1>5, <1>11 DEF ShowsFrom, pg

\* A page that was added shows the words that were there.
LEMMA AddedShows ==
  ASSUME ConfigOK, NEW r, NEW w, Sound(r, w), NEW f \in Files, Paged(f),
         Len(r.page[f]) < config.nb, NEW s, Absent(r, f, s),
         NEW t, NEW pg, Added(r, t, f, pg), pg.wa0 = s, PageShows(t, w, f, pg)
  PROVE  /\ Sound(t, w) /\ t.exited = r.exited /\ t.size = r.size /\ t.out = r.out
         /\ \E i \in 1..Len(t.page[f]) : t.page[f][i].wa0 = s
<1>1. r \in StateType /\ w \in AllFiles /\ Counted(r) /\ Shows(r, w)
  BY DEF Sound
<1>2. /\ t \in StateType /\ t.size = r.size
      /\ t.exited = r.exited /\ t.out = r.out
  BY DEF Added
<1>3. PICK i \in 1..Len(t.page[f]) : t.page[f][i] = pg /\ Places(r, t, f, i)
  BY <1>1, AddedPlaces
<1>4. Extends(r, t, f, pg)
  BY <1>1, AddedPlaces
<1>5. Counted(t)
  BY <1>1, AddedCounted
<1>6. t.size[f] = Len(w[f])
  BY <1>1, <1>2 DEF Shows, ShowsAt, Paged
<1>7. \A j \in 1..Len(w[f]) : j <= Len(w[f]) /\ w[f][j] = w[f][j]
  <2>1. w[f] \in Seq(Word)
    BY <1>1 DEF AllFiles
  <2> QED
    BY <2>1
<1>8. Shows(t, w)
  BY <1>1, <1>2, <1>3, <1>4, <1>6, <1>7, Placed
<1> QED
  BY <1>1, <1>2, <1>3, <1>5, <1>8 DEF Sound

\* The page that starts at s is in memory.
HasPage(st, f, s) == \E i \in 1..Len(st.page[f]) : st.page[f][i].wa0 = s

\* The page that starts at s has come into memory, and nothing else is to be seen.
ReadIn(st, t, w, f, s) ==
    /\ Sound(t, w) /\ ~t.exited /\ t.size = st.size /\ t.out = st.out
    /\ HasPage(t, f, s)

LEMMA BringIs ==
  ASSUME ConfigOK, NEW st, NEW w, Sound(st, w), ~st.exited, NEW f \in Files, Paged(f),
         NEW a, IsStart(PageStart(a)), PageStart(a) <= st.size[f],
         Absent(st, f, PageStart(a)),
         NEW most, most \in {P, Required(st, f, PageStart(a))}
  PROVE  ReadIn(st, Bring(st, f, a, TRUE, most), w, f, PageStart(a))
<1> DEFINE s == PageStart(a)
           t == Bring(st, f, a, TRUE, most)
<1>0. IsStart(s) /\ s <= st.size[f] /\ Absent(st, f, s)
      /\ most \in {P, Required(st, f, s)}
  OBVIOUS
<1> DEFINE r == Ready(st, f)
           u == Taken(r, f)
           e == LastOf(r, f, s)
           got == Present(u, f, s, most)
<1>1. Sound(r, w) /\ Relieved(st, r) /\ r.nfree > 0 /\ Len(r.page[f]) < config.nb
  BY ReadyIs
<1>2. t = Brought(u, f, s, TRUE, most)
  BY DEF Bring, get_new_page, Ready
<1> HIDE DEF r, s, t
<1>3. r \in StateType /\ w \in AllFiles
      /\ r.size = st.size /\ r.out = st.out /\ r.exited = st.exited
  BY <1>1 DEF Sound, Relieved
<1>4. Absent(r, f, s) /\ s <= r.size[f]
  BY <1>0, <1>1 DEF Relieved, Absent
<1>5. most \in {P, Required(r, f, s)}
  BY <1>0, <1>3 DEF Required
<1>6. /\ Present(r, f, s, most) = e + 1 - s
      /\ e \in Nat /\ s <= e /\ e <= Len(r.disk[f])
  BY <1>0, <1>1, <1>4, <1>5, PresentIs
<1>7. s \in Nat \ {0} /\ P \in Nat \ {0}
  BY <1>0, StartNat DEF ConfigOK, P, Paged
<1>8. /\ u \in StateType /\ u.disk = r.disk /\ u.size = r.size /\ u.exited = r.exited
  BY <1>1, <1>3, TakenIs
<1>9. got = e + 1 - s
  BY <1>6, <1>8 DEF Present
<1>10. Required(u, f, s) = e + 1 - s
  <2>1. Required(r, f, s) = e + 1 - s
    BY <1>3, <1>7, RequiredIs
  <2> QED
    BY <2>1, <1>8 DEF Required
<1>11. t = Fill(u, f, s, TRUE, got)
  <2>1. ~(got < Required(u, f, s))
    BY <1>6, <1>7, <1>9, <1>10
  <2> QED
    BY <1>2, <1>3, <1>8, <2>1 DEF Brought
<1> HIDE DEF got
<1>12. got \in Nat /\ s + got - 1 = e
  <2> HIDE DEF e
  <2> QED
    BY <1>6, <1>7, <1>9
<1> DEFINE pg == FilledPage(r, f, NewPage, s, TRUE, got)
<1>13. Added(r, Fill(u, f, s, TRUE, got), f, pg)
  <2>1. s + got - 1 <= Len(r.disk[f]) /\ s + got - 1 \in Nat
    BY <1>6, <1>12
  <2> QED
    BY <2>1, <1>1, <1>3, <1>7, <1>12, FillIs
<1>14. Added(r, t, f, pg)
  BY <1>11, <1>13
<1>15. t.disk = r.disk /\ t.size = r.size
  BY <1>14 DEF Added
<1>16. pg = FilledPage(r, f, NewPage, s, TRUE, got) /\ e = LastOf(r, f, s)
  OBVIOUS
<1> HIDE DEF u, e, pg
<1>17. PageShows(t, w, f, pg) /\ pg.wa0 = s
  <2>1. got = LastOf(r, f, s) + 1 - s
    BY <1>9, <1>16
  <2>2. ShowsFrom(t, w, f, FilledPage(r, f, NewPage, s, TRUE, got), s)
    BY <2>1, <1>0, <1>1, <1>4, <1>5, <1>15, FilledShows
  <2> QED
    BY <2>2, <1>16 DEF ShowsFrom
<1>18. /\ Sound(t, w) /\ t.exited = r.exited /\ t.size = r.size /\ t.out = r.out
       /\ \E i \in 1..Len(t.page[f]) : t.page[f][i].wa0 = s
  BY <1>1, <1>4, <1>14, <1>17, AddedShows
<1>19. ReadIn(st, t, w, f, s)
  BY <1>3, <1>18 DEF ReadIn, HasPage
<1> QED
  BY <1>19 DEF s, t

-----------------------------------------------------------------------------
(* A piece is written.                                                     *)

\* The words t of a file after a write of x at a that leaves no hole in s.
IsPut(t, s, a, x) ==
    /\ t \in Seq(Word)
    /\ Len(t) = IF a + Len(x) - 1 > Len(s) THEN a + Len(x) - 1 ELSE Len(s)
    /\ \A i \in 1..Len(t) : IF a <= i /\ i <= a + Len(x) - 1 THEN t[i] = x[i - a + 1]
                            ELSE i <= Len(s) /\ t[i] = s[i]

LEMMA PutIs ==
  ASSUME NEW s \in Seq(Word), NEW a \in Nat \ {0}, NEW x \in Seq(Word), a <= Len(s) + 1
  PROVE  IsPut(Store!Put(s, a, x), s, a, x)
<1> DEFINE W == Word
           m == IF a + Len(x) - 1 > Len(s) THEN a + Len(x) - 1 ELSE Len(s)
           e(i) == IF i \in a..(a + Len(x) - 1) THEN x[i - a + 1]
                   ELSE IF i <= Len(s) THEN s[i] ELSE Junk
           y == [i \in 1..m |-> e(i)]
<1>1. m \in Nat
  OBVIOUS
<1>2. Store!Put(s, a, x) = y
  BY DEF Store!Put
<1>3. s \in Seq(W) /\ x \in Seq(W) /\ Junk \in W
  BY DEF Word
<1> HIDE DEF W
<1>4. \A i \in 1..m : e(i) \in W
  BY <1>3
<1>5. \A i \in 1..m : IF a <= i /\ i <= a + Len(x) - 1 THEN e(i) = x[i - a + 1]
                      ELSE i <= Len(s) /\ e(i) = s[i]
  OBVIOUS
<1> HIDE DEF m, e
<1>6. y \in Seq(W) /\ Len(y) = m
  BY <1>1, <1>4
<1>7. \A i \in 1..m : y[i] = e(i)
  OBVIOUS
<1> HIDE DEF y
<1>8. IsPut(y, s, a, x)
  BY <1>5, <1>6, <1>7 DEF IsPut, m, W
<1> QED
  BY <1>2, <1>8

\* r is page pg with the words x from a on.
Rewritten(r, pg, a, x) ==
    LET last == a + Len(x) - 1
    IN  /\ r.wa0 = pg.wa0 /\ r.touch_flag
        /\ r.walast = IF pg.walast >= last THEN pg.walast ELSE last
        /\ \A j \in Nat : pg.wa0 <= j /\ j <= pg.wa0 + P - 1 =>
               r.adr[j - pg.wa0] = IF a <= j /\ j <= last THEN x[j - a + 1]
                                   ELSE pg.adr[j - pg.wa0]

LEMMA WrittenIs ==
  ASSUME ConfigOK, NEW pg \in PageType, NEW a \in Nat \ {0}, NEW x \in Seq(Word)
  PROVE  Written(pg, a, x) \in PageType /\ Rewritten(Written(pg, a, x), pg, a, x)
<1> DEFINE last == a + Len(x) - 1
           W == Word
           e(k) == IF k + pg.wa0 \in a..last THEN x[k + pg.wa0 - a + 1] ELSE pg.adr[k]
           A == [k \in 0..(P - 1) |-> e(k)]
           b == Max({pg.walast, last})
           c == pg.access_count + AgeWrite
           q == [pg EXCEPT !.adr = A, !.access_count = c, !.touch_flag = TRUE, !.walast = b]
<1>1. /\ pg.wa0 \in Nat /\ pg.walast \in Nat /\ pg.access_count \in Nat
      /\ pg.adr \in [0..(P - 1) -> W] /\ x \in Seq(W) /\ P \in Nat
  BY DEF PageType, ConfigOK, P
<1>2. last \in Nat /\ c \in Nat
  BY <1>1, WaAssumption
<1>3. b = IF pg.walast >= last THEN pg.walast ELSE last
  BY <1>1, <1>2, MaxOfTwo
<1>4. A = [k \in 0..(P - 1) |-> e(k)]
  OBVIOUS
<1> HIDE DEF W
<1>5. \A k \in 0..(P - 1) : e(k) \in W
  <2> TAKE k \in 0..(P - 1)
  <2>1. CASE k + pg.wa0 \in a..last
    <3> DEFINE n == Len(x)
               o == pg.wa0
    <3>2. k \in Nat /\ n \in Nat /\ o \in Nat /\ last = a + n - 1
      BY <1>1
    <3>3. a <= k + o /\ k + o <= last
      BY <2>1, <3>2
    <3> HIDE DEF n, o
    <3>4. k + o - a + 1 \in 1..n
      BY <3>2, <3>3
    <3>1. k + pg.wa0 - a + 1 \in 1..Len(x)
      BY <3>4 DEF n, o
    <3> QED
      BY SMTT(40), <3>1, <2>1, <1>1
  <2>2. CASE k + pg.wa0 \notin a..last
    BY <2>2, <1>1
  <2> QED
    BY <2>1, <2>2
<1>6. \A k \in 0..(P - 1) : e(k) = IF a <= k + pg.wa0 /\ k + pg.wa0 <= last
                                   THEN x[k + pg.wa0 - a + 1] ELSE pg.adr[k]
  BY <1>1, <1>2
<1>7. Written(pg, a, x) = q
  BY DEF Written
<1> HIDE DEF e
<1>8. A \in [0..(P - 1) -> W] /\ \A k \in 0..(P - 1) : A[k] = e(k)
  BY <1>4, <1>5
<1>9. b \in Nat /\ A \in [0..(P - 1) -> Word]
  BY <1>1, <1>2, <1>3, <1>8 DEF W
<1> HIDE DEF A, b, c
<1>10. q \in PageType
  BY <1>2, <1>9 DEF PageType
<1>11. q.wa0 = pg.wa0 /\ q.touch_flag = TRUE /\ q.walast = b /\ q.adr = A
  BY DEF PageType
<1> HIDE DEF q, last
<1>12. ASSUME NEW j \in Nat, pg.wa0 <= j, j <= pg.wa0 + P - 1
       PROVE  A[j - pg.wa0] = IF a <= j /\ j <= last THEN x[j - a + 1]
                              ELSE pg.adr[j - pg.wa0]
  <2> DEFINE k == j - pg.wa0
             c0 == pg.wa0
  <2>1. k \in 0..(P - 1) /\ k + c0 = j
    BY <1>1, <1>12
  <2>2. A[k] = IF a <= k + c0 /\ k + c0 <= last THEN x[k + c0 - a + 1] ELSE pg.adr[k]
    BY <2>1, <1>6, <1>8
  <2> HIDE DEF k
  <2>3. A[k] = IF a <= j /\ j <= last THEN x[j - a + 1] ELSE pg.adr[k]
    <3>1. k \in Int /\ c0 \in Int
      BY <1>1, <2>1
    <3> HIDE DEF c0
    <3>2. k + c0 = j /\ k + c0 - a + 1 = j - a + 1
      BY <2>1, <3>1
    <3> QED
      BY <2>2, <3>2, Zenon
  <2> QED
    BY <2>3 DEF k
<1>13. Rewritten(q, pg, a, x)
  BY <1>3, <1>11, <1>12 DEF Rewritten, last
<1> QED
  BY <1>7, <1>10, <1>13

\* t is u after the words x were written from a on to page i of f.
Wrote(u, t, f, i, a, x) ==
    /\ t \in StateType /\ t.disk = u.disk /\ t.nfree = u.nfree
    /\ t.count = u.count /\ t.out = u.out
    /\ t.size = [u.size EXCEPT ![f] = IF @ >= a + Len(x) - 1 THEN @ ELSE a + Len(x) - 1]
    /\ \A g \in Files \ {f} : t.page[g] = u.page[g]
    /\ Len(t.page[f]) = Len(u.page[f])
    /\ t.page[f][i] = Written(u.page[f][i], a, x)
    /\ \A k \in 1..Len(u.page[f]) : k # i => t.page[f][k] = u.page[f][k]
    /\ t.exited <=> \/ a > u.size[f] + 1
                    \/ \E j, k \in 1..Len(u.page[f]) :
                           j # k /\ Start(u.page[f][j], u.page[f][k])

LEMMA WriteToIs ==
  ASSUME ConfigOK, NEW u \in StateType, NEW f \in Files, NEW i \in 1..Len(u.page[f]),
         NEW a \in Nat \ {0}, NEW x \in Seq(Word)
  PROVE  Wrote(u, WriteTo(u, f, i, a, x), f, i, a, x)
<1> DEFINE pages == u.page[f]
           q == Written(pages[i], a, x)
           last == a + Len(x) - 1
           z == IF u.size[f] >= last THEN u.size[f] ELSE last
           ex == \/ a > u.size[f] + 1
                 \/ \E j, k \in DOMAIN pages : j # k /\ Start(pages[j], pages[k])
           Z == [u.size EXCEPT ![f] = z]
           pgs == [pages EXCEPT ![i] = q]
           G == [u.page EXCEPT ![f] = pgs]
           t == [u EXCEPT !.page = G, !.size = Z, !.exited = ex]
<1>1. u.size \in [Files -> Nat] /\ u.page \in [Files -> Seq(PageType)]
  BY DEF StateType
<1>2. pages \in Seq(PageType) /\ pages[i] \in PageType
  BY <1>1
<1>3. last \in Nat /\ u.size[f] \in Nat
  BY <1>1
<1>4. q \in PageType
  BY <1>2, WrittenIs
<1>5. Max({u.size[f], last}) = z /\ z \in Nat
  BY <1>3, MaxOfTwo
<1>6. WriteTo(u, f, i, a, x) = t
  <2> DEFINE M == Max({u.size[f], last})
  <2>1. WriteTo(u, f, i, a, x) =
          [u EXCEPT !.page[f][i] = q, !.size[f] = M, !.exited = ex]
    BY DEF WriteTo
  <2>2. M = z
    BY <1>5
  <2> HIDE DEF M, ex, z, q
  <2> QED
    BY <2>1, <2>2
<1>7. pgs \in Seq(PageType) /\ Len(pgs) = Len(pages) /\ pgs[i] = q
      /\ \A k \in 1..Len(pages) : k # i => pgs[k] = pages[k]
  <2> HIDE DEF pages, q
  <2>1. i \in 1..Len(pages)
    BY DEF pages
  <2> QED
    BY <2>1, <1>2, <1>4, ReplacedIs
<1> HIDE DEF pgs
<1>8. G \in [Files -> Seq(PageType)] /\ G[f] = pgs /\ \A g \in Files \ {f} : G[g] = u.page[g]
  BY <1>1, <1>7
<1>9. Z \in [Files -> Nat]
  BY <1>1, <1>5
<1>10. ex \in BOOLEAN
  OBVIOUS
<1>11. ex <=> \/ a > u.size[f] + 1
              \/ \E j, k \in 1..Len(u.page[f]) :
                     j # k /\ Start(u.page[f][j], u.page[f][k])
  <2>1. DOMAIN pages = 1..Len(pages)
    BY <1>2
  <2> QED
    BY <2>1
<1>12. Z = [u.size EXCEPT ![f] = IF @ >= a + Len(x) - 1 THEN @ ELSE a + Len(x) - 1]
  OBVIOUS
<1> HIDE DEF G, Z, ex
<1>13. t \in StateType
  BY <1>8, <1>9, <1>10 DEF StateType
<1>14. /\ t.disk = u.disk /\ t.nfree = u.nfree /\ t.count = u.count /\ t.out = u.out
       /\ t.size = Z /\ t.page = G /\ t.exited = ex
  BY DEF StateType
<1> HIDE DEF t
<1>15. Wrote(u, t, f, i, a, x)
  <2>1. /\ \A g \in Files \ {f} : t.page[g] = u.page[g]
        /\ Len(t.page[f]) = Len(u.page[f])
        /\ t.page[f][i] = Written(u.page[f][i], a, x)
        /\ \A k \in 1..Len(u.page[f]) : k # i => t.page[f][k] = u.page[f][k]
    BY <1>7, <1>8, <1>14
  <2>2. t.exited <=> \/ a > u.size[f] + 1
                     \/ \E j, k \in 1..Len(u.page[f]) :
                            j # k /\ Start(u.page[f][j], u.page[f][k])
    BY <1>11, <1>14
  <2>3. t.size = [u.size EXCEPT ![f] = IF @ >= a + Len(x) - 1 THEN @ ELSE a + Len(x) - 1]
    BY <1>12, <1>14
  <2> QED
    BY <1>13, <1>14, <2>1, <2>2, <2>3 DEF Wrote
<1> QED
  BY <1>6, <1>15

\* A piece of n words at a in the page that starts at b and ended at e, of a file of z
\* words, p words a page.
LEMMA PieceEnds ==
  ASSUME NEW p \in Nat \ {0}, NEW b \in Nat \ {0}, NEW a \in Nat, NEW n \in Nat \ {0},
         NEW z \in Nat, NEW e \in Nat, NEW last, last = a + n - 1,
         NEW y, y = IF z >= last THEN z ELSE last,
         NEW d, d = IF e >= last THEN e ELSE last,
         b <= a, a + n <= b + p, a <= z + 1,
         \/ e <= z /\ e <= b + p - 1 /\ (e = z \/ e = b + p - 1)
         \/ e = 0 /\ a = b /\ (n = p \/ a + n > z)
  PROVE  /\ last \in Nat /\ y \in Nat /\ d \in Nat
         /\ b <= y /\ d <= y /\ d <= b + p - 1 /\ (d = y \/ d = b + p - 1)
         /\ z <= y /\ (y = z \/ (d = y /\ b <= z + 1)) /\ last <= d /\ e <= d
         /\ \A j \in Nat : b <= j /\ j <= d /\ ~(a <= j /\ j <= last) => j <= e
OBVIOUS

\* Page i of u is one that w shows, or a new one that the n words at a are to fill.
Takes(u, w, f, i, a, n) ==
    LET q == u.page[f][i]
    IN  /\ IsStart(q.wa0) /\ q.wa0 <= a /\ a + n <= q.wa0 + P
        /\ \/ PageShows(u, w, f, q)
           \/ q.walast = 0 /\ a = q.wa0 /\ (n = P \/ a + n > u.size[f])

\* The words of f with x from a on.
With(w, f, a, x) == [w EXCEPT ![f] = Store!Put(w[f], a, x)]

LEMMA WithIs ==
  ASSUME NEW w \in AllFiles, NEW f \in Files, NEW a \in Nat \ {0}, NEW x \in Seq(Word),
         a <= Len(w[f]) + 1
  PROVE  /\ With(w, f, a, x) \in AllFiles
         /\ With(w, f, a, x)[f] = Store!Put(w[f], a, x)
         /\ \A g \in Files \ {f} : With(w, f, a, x)[g] = w[g]
<1> DEFINE y == Store!Put(w[f], a, x)
<1>1. w[f] \in Seq(Word)
  BY DEF AllFiles
<1>2. y \in Seq(Word)
  BY <1>1, PutIs DEF IsPut
<1> HIDE DEF y
<1>3. With(w, f, a, x) = [w EXCEPT ![f] = y]
  BY DEF With, y
<1> QED
  BY <1>2, <1>3 DEF AllFiles, y

LEMMA WrittenShows ==
  ASSUME ConfigOK, NEW u \in StateType, NEW w \in AllFiles, NEW f \in Files, Paged(f),
         u.size[f] = Len(w[f]),
         NEW i \in 1..Len(u.page[f]), NEW a \in Nat \ {0}, NEW x \in Seq(Word), x # <<>>,
         Takes(u, w, f, i, a, Len(x)), a <= u.size[f] + 1,
         NEW t, Wrote(u, t, f, i, a, x)
  PROVE  /\ PageShows(t, With(w, f, a, x), f, t.page[f][i])
         /\ Extends(u, t, f, t.page[f][i])
         /\ t.size[f] = Len(With(w, f, a, x)[f])
         /\ u.page[f][i].walast <= t.page[f][i].walast
         /\ u.page[f][i].wa0 = t.page[f][i].wa0
         /\ \A j \in 1..Len(With(w, f, a, x)[f]) :
                \/ In(t.page[f][i], j)
                \/ j <= Len(w[f]) /\ With(w, f, a, x)[f][j] = w[f][j]
<1> DEFINE q == u.page[f][i]
           r == t.page[f][i]
           s == w[f]
           v == With(w, f, a, x)[f]
           n == Len(x)
           p == P
           b == q.wa0
           e == q.walast
           z == u.size[f]
           last == a + n - 1
           y == IF z >= last THEN z ELSE last
           d == IF e >= last THEN e ELSE last
<1>1. q \in PageType /\ s \in Seq(Word) /\ u.size \in [Files -> Nat]
  <2>1. u.page[f] \in Seq(PageType)
    BY DEF StateType
  <2> QED
    BY <2>1 DEF StateType, AllFiles
<1>2. p \in Nat \ {0} /\ IsStart(b) /\ b \in Nat \ {0}
  BY StartNat DEF Takes, ConfigOK, P, Paged
<1>3. n \in Nat \ {0} /\ z \in Nat /\ e \in Nat /\ z = Len(s) /\ a <= z + 1
  <2>1. n \in Nat \ {0}
    OBVIOUS
  <2>2. z \in Nat /\ e \in Nat
    BY <1>1 DEF PageType
  <2> QED
    BY <2>1, <2>2
<1>4. b <= a /\ a + n <= b + p
  BY DEF Takes
<1>5. \/ PageShows(u, w, f, q) /\ e <= z /\ e <= b + p - 1 /\ (e = z \/ e = b + p - 1)
      \/ e = 0 /\ a = b /\ (n = p \/ a + n > z)
  BY DEF Takes, PageShows
<1>6. v = Store!Put(s, a, x)
  BY <1>1, <1>3, WithIs
<1>7. r = Written(q, a, x) /\ t.size[f] = y /\ t.disk = u.disk
  BY <1>1 DEF Wrote
<1>10. last = a + n - 1 /\ y = (IF z >= last THEN z ELSE last)
       /\ d = (IF e >= last THEN e ELSE last)
  OBVIOUS
<1> HIDE DEF last
<1>19. last = a + Len(x) - 1
  BY <1>10
<1> HIDE DEF q, r, s, v, n, p, b, e, z, y, d
<1>8. /\ v \in Seq(Word) /\ Len(v) = IF last > Len(s) THEN last ELSE Len(s)
      /\ \A j \in 1..Len(v) : IF a <= j /\ j <= last THEN v[j] = x[j - a + 1]
                              ELSE j <= Len(s) /\ v[j] = s[j]
  <2> DEFINE put == Store!Put(s, a, x)
  <2>1. IsPut(put, s, a, x)
    BY <1>1, <1>3, PutIs
  <2>2. v = put
    BY <1>6
  <2> HIDE DEF put
  <2> QED
    BY <2>1, <2>2, <1>19 DEF IsPut
<1>9. Rewritten(r, q, a, x)
  BY <1>1, <1>7, WrittenIs
<1>20. /\ r.wa0 = b /\ r.touch_flag /\ r.walast = d
       /\ \A j \in Nat : b <= j /\ j <= b + p - 1 =>
              r.adr[j - b] = IF a <= j /\ j <= last THEN x[j - a + 1] ELSE q.adr[j - b]
  BY <1>9 DEF Rewritten, b, d, e, p, last, n
<1>11. /\ last \in Nat /\ y \in Nat /\ d \in Nat
       /\ b <= y /\ d <= y /\ d <= b + p - 1 /\ (d = y \/ d = b + p - 1)
       /\ z <= y /\ (y = z \/ (d = y /\ b <= z + 1)) /\ last <= d /\ e <= d
       /\ \A j \in Nat : b <= j /\ j <= d /\ ~(a <= j /\ j <= last) => j <= e
  BY SMTT(40), <1>2, <1>3, <1>4, <1>5, <1>10, PieceEnds
<1>12. Len(v) = y
  BY <1>3, <1>8, <1>10, <1>11
<1>13. ASSUME NEW j \in Nat, b <= j, j <= d PROVE r.adr[j - b] = v[j]
  <2>1. j - b \in 0..(p - 1) /\ (j - b) + b = j /\ j \in 1..Len(v)
    BY <1>2, <1>11, <1>12, <1>13
  <2>2. r.adr[j - b] = IF a <= j /\ j <= last THEN x[j - a + 1] ELSE q.adr[j - b]
    BY <1>2, <1>11, <1>13, <1>20
  <2>3. CASE a <= j /\ j <= last
    BY <2>1, <2>2, <2>3, <1>8
  <2>4. CASE ~(a <= j /\ j <= last)
    <3>1. j <= e
      BY <2>4, <1>11, <1>13
    <3>2. PageShows(u, w, f, q)
      BY <3>1, <1>2, <1>5, <1>13
    <3>3. q.adr[j - q.wa0] = w[f][j]
      BY <3>1, <3>2, <1>13 DEF PageShows, In, b, e
    <3> QED
      BY <3>3, <2>1, <2>2, <2>4, <1>8 DEF b, s
  <2> QED
    BY <2>3, <2>4
<1>14. PageShows(t, With(w, f, a, x), f, r)
  <2>1. ASSUME NEW j \in Nat, In(r, j) PROVE r.adr[j - r.wa0] = With(w, f, a, x)[f][j]
    BY <2>1, <1>20, <1>13 DEF In, v
  <2>2. t.size[f] = y
    BY <1>7
  <2> QED
    BY <2>1, <2>2, <1>2, <1>20, <1>11 DEF PageShows, p
<1>15. Extends(u, t, f, r)
  BY <1>7, <1>20, <1>11 DEF Extends, z
<1>16. ASSUME NEW j \in 1..Len(v) PROVE In(r, j) \/ (j <= Len(s) /\ v[j] = s[j])
  <2>1. CASE a <= j /\ j <= last
    BY <2>1, <1>2, <1>4, <1>20, <1>11 DEF In
  <2>2. CASE ~(a <= j /\ j <= last)
    BY <2>2, <1>8
  <2> QED
    BY <2>1, <2>2
<1>17. t.size[f] = Len(v) /\ e <= r.walast /\ b = r.wa0
  BY <1>7, <1>20, <1>11, <1>12
<1> QED
  BY <1>14, <1>15, <1>16, <1>17 DEF q, r, s, v, e, b

\* t is s with the words x written from a on.
Stores(s, t, w, f, a, x) == Sound(t, With(w, f, a, x)) /\ ~t.exited /\ t.out = s.out

\* The page the piece is written to is one of s, or a new one.
LEMMA WriteIntoPage ==
  ASSUME ConfigOK, NEW s, NEW w, Sound(s, w), NEW f \in Files, Paged(f),
         NEW u \in StateType, Counted(u), u.size = s.size, u.out = s.out,
         NEW i \in 1..Len(u.page[f]), Places(s, u, f, i),
         NEW a \in Nat \ {0}, NEW x \in Seq(Word), x # <<>>,
         Takes(u, w, f, i, a, Len(x)), a <= s.size[f] + 1
  PROVE  Stores(s, WriteTo(u, f, i, a, x), w, f, a, x)
<1> DEFINE t == WriteTo(u, f, i, a, x)
           v == With(w, f, a, x)
<1>1. s \in StateType /\ w \in AllFiles /\ Shows(s, w)
  BY DEF Sound
<1>2. Wrote(u, t, f, i, a, x)
  BY WriteToIs
<1>3. FileShows(s, w, f) /\ s.size[f] = Len(w[f]) /\ s.size[f] \in Nat
  BY <1>1 DEF Shows, ShowsAt, Paged, StateType
<1>4. v \in AllFiles /\ \A g \in Files \ {f} : v[g] = w[g]
  BY <1>1, <1>3, WithIs
<1> HIDE DEF t
<1>5. /\ PageShows(t, v, f, t.page[f][i])
      /\ Extends(u, t, f, t.page[f][i])
      /\ t.size[f] = Len(v[f])
      /\ u.page[f][i].walast <= t.page[f][i].walast
      /\ u.page[f][i].wa0 = t.page[f][i].wa0
      /\ \A j \in 1..Len(v[f]) : \/ In(t.page[f][i], j)
                                 \/ j <= Len(w[f]) /\ v[f][j] = w[f][j]
  BY <1>1, <1>2, <1>3, WrittenShows
<1> HIDE DEF v
<1>6. /\ t \in StateType /\ t.disk = u.disk /\ t.nfree = u.nfree
      /\ t.count = u.count /\ t.out = u.out
      /\ \A g \in Files \ {f} : t.page[g] = u.page[g] /\ t.size[g] = u.size[g]
      /\ Len(t.page[f]) = Len(u.page[f])
      /\ \A k \in 1..Len(u.page[f]) : k # i => t.page[f][k] = u.page[f][k]
  BY <1>2 DEF Wrote, StateType
<1>7. Places(s, t, f, i)
  <2>1. /\ t.disk = s.disk
        /\ \A g \in Files \ {f} : t.page[g] = s.page[g] /\ t.size[g] = s.size[g]
    BY <1>6 DEF Places
  <2>2. \A j \in 1..Len(t.page[f]) : j # i =>
            j \in 1..Len(s.page[f]) /\ t.page[f][j] = s.page[f][j]
    BY <1>6 DEF Places
  <2>3. ASSUME NEW j \in 1..Len(s.page[f])
        PROVE  /\ j \in 1..Len(t.page[f])
               /\ j # i => s.page[f][j].wa0 # t.page[f][i].wa0
               /\ j = i => s.page[f][j].walast <= t.page[f][i].walast
                           /\ s.page[f][j].wa0 = t.page[f][i].wa0
    <3>1. /\ j \in 1..Len(u.page[f])
          /\ j # i => s.page[f][j].wa0 # u.page[f][i].wa0
          /\ j = i => s.page[f][j].walast <= u.page[f][i].walast
                      /\ s.page[f][j].wa0 = u.page[f][i].wa0
      BY DEF Places
    <3>2. j = i => s.page[f][j].walast <= t.page[f][i].walast
      <4>1. s.page[f] \in Seq(PageType) /\ u.page[f] \in Seq(PageType)
            /\ t.page[f] \in Seq(PageType)
        BY <1>1, <1>6 DEF StateType
      <4>2. s.page[f][j] \in PageType /\ u.page[f][i] \in PageType /\ t.page[f][i] \in PageType
        BY <4>1, <1>6
      <4>3. s.page[f][j].walast \in Nat /\ u.page[f][i].walast \in Nat
            /\ t.page[f][i].walast \in Nat
        BY <4>2 DEF PageType
      <4> DEFINE c0 == s.page[f][j].walast
                 c1 == u.page[f][i].walast
                 c2 == t.page[f][i].walast
      <4>4. c0 \in Nat /\ c1 \in Nat /\ c2 \in Nat /\ (j = i => c0 <= c1) /\ c1 <= c2
        BY <4>3, <3>1, <1>5
      <4> HIDE DEF c0, c1, c2
      <4>5. j = i => c0 <= c2
        BY <4>4
      <4> QED
        BY <4>5 DEF c0, c2
    <3> QED
      BY <3>1, <3>2, <1>5, <1>6
  <2> QED
    BY <2>1, <2>2, <2>3 DEF Places
<1>8. Extends(s, t, f, t.page[f][i])
  BY <1>5 DEF Extends
<1>9. Shows(t, v)
  BY <1>1, <1>4, <1>5, <1>6, <1>7, <1>8, Placed
<1>10. Counted(t)
  <2>1. \A g \in Files : Len(t.page[g]) = Len(u.page[g])
    BY <1>6
  <2>2. Pages(t) = Pages(u)
    <3>1. t \in StateType
      BY <1>6
    <3>2. \A y : y \in Pages(t) <=> \E g \in Files : \E k \in 1..Len(t.page[g]) : y = <<g, k>>
      BY <3>1, InPages, Zenon
    <3>3. \A y : y \in Pages(u) <=> \E g \in Files : \E k \in 1..Len(u.page[g]) : y = <<g, k>>
      BY InPages, Zenon
    <3>4. \A y : y \in Pages(t) <=> y \in Pages(u)
      BY <3>2, <3>3, <2>1
    <3> QED
      BY <3>4
  <2> QED
    BY <2>1, <2>2, <1>6 DEF Counted
<1>11. ~t.exited
  <2>1. ASSUME NEW j \in 1..Len(u.page[f]), j # i
        PROVE  /\ j \in 1..Len(s.page[f]) /\ u.page[f][j] = s.page[f][j]
               /\ IsStart(u.page[f][j].wa0) /\ u.page[f][j].wa0 # u.page[f][i].wa0
    <3>1. j \in 1..Len(s.page[f]) /\ u.page[f][j] = s.page[f][j]
      BY <2>1 DEF Places
    <3>2. s.page[f][j].wa0 # u.page[f][i].wa0
      BY <3>1, <2>1 DEF Places
    <3>3. IsStart(s.page[f][j].wa0)
      BY <3>1, <1>3 DEF FileShows, PageShows
    <3> QED
      BY <3>1, <3>2, <3>3
  <2>2. IsStart(u.page[f][i].wa0)
    BY DEF Takes
  <2>3. \A j \in 1..Len(u.page[f]) : IsStart(u.page[f][j].wa0)
    BY <2>1, <2>2
  <2>4. \A j, k \in 1..Len(u.page[f]) : j # k => u.page[f][j].wa0 # u.page[f][k].wa0
    BY <2>1, <1>3 DEF FileShows
  <2>5. ASSUME NEW j \in 1..Len(u.page[f]), NEW k \in 1..Len(u.page[f]), j # k
        PROVE  ~Start(u.page[f][j], u.page[f][k])
    <3> DEFINE c == u.page[f][j].wa0
               d == u.page[f][k].wa0
    <3>1. IsStart(c) /\ IsStart(d) /\ c # d /\ P \in Nat \ {0}
      BY <2>3, <2>4, <2>5 DEF Paged, ConfigOK, P
    <3>2. Start(u.page[f][j], u.page[f][k]) => c >= d /\ c <= d + P - 1
      BY DEF Start
    <3> HIDE DEF c, d
    <3>3. c + P <= d \/ d + P <= c
      BY <3>1, StartsApart
    <3>4. c \in Nat /\ d \in Nat
      BY <3>1, StartNat
    <3> QED
      BY <3>1, <3>2, <3>3, <3>4
  <2>6. ~(a > u.size[f] + 1)
    BY <1>3
  <2> QED
    BY <2>5, <2>6, <1>2 DEF Wrote
<1>12. Stores(s, t, w, f, a, x)
  BY <1>4, <1>6, <1>9, <1>10, <1>11 DEF Stores, Sound, v
<1> QED
  BY <1>12 DEF t

\* The n words at a are in one page.
InPage(a, n) ==
    /\ a \in Nat \ {0} /\ n \in Nat \ {0}
    /\ IsStart(PageStart(a)) /\ PageStart(a) <= a /\ a + n <= PageStart(a) + P

LEMMA SoundStarts ==
  ASSUME NEW st, NEW w, Sound(st, w), NEW f \in Files, Paged(f)
  PROVE  /\ st \in StateType /\ w \in AllFiles /\ Counted(st)
         /\ FileShows(st, w, f) /\ st.size[f] = Len(w[f]) /\ st.size[f] \in Nat
         /\ \A i \in 1..Len(st.page[f]) : IsStart(st.page[f][i].wa0)
<1>1. st \in StateType /\ w \in AllFiles /\ Counted(st)
  BY DEF Sound
<1>2. FileShows(st, w, f) /\ st.size[f] = Len(w[f])
  BY DEF Sound, Shows, ShowsAt, Paged
<1>3. st.size[f] \in Nat
  BY <1>1 DEF StateType
<1>4. \A i \in 1..Len(st.page[f]) : IsStart(st.page[f][i].wa0)
  BY <1>2 DEF FileShows, PageShows
<1> QED
  BY <1>1, <1>2, <1>3, <1>4

\* The page that PageOf finds.
LEMMA PageFound ==
  ASSUME ConfigOK, P > 0, NEW st \in StateType, NEW f \in Files, NEW a, NEW n, InPage(a, n),
         \A i \in 1..Len(st.page[f]) : IsStart(st.page[f][i].wa0)
  PROVE  \/ PageOf(st, f, a, n) = 0 /\ Absent(st, f, PageStart(a))
         \/ /\ PageOf(st, f, a, n) \in 1..Len(st.page[f]) /\ PageOf(st, f, a, n) > 0
            /\ st.page[f][PageOf(st, f, a, n)].wa0 = PageStart(a)
            /\ HasPage(st, f, PageStart(a))
<1> DEFINE s == PageStart(a)
<1>1. P \in Nat \ {0} /\ a \in Nat /\ n \in Nat \ {0} /\ IsStart(s) /\ s <= a /\ a + n <= s + P
  BY DEF InPage, ConfigOK, P
<1> HIDE DEF s
<1>2. \/ /\ PageOf(st, f, a, n) = 0
         /\ \A i \in 1..Len(st.page[f]) : st.page[f][i].wa0 # s
      \/ /\ PageOf(st, f, a, n) \in 1..Len(st.page[f])
         /\ st.page[f][PageOf(st, f, a, n)].wa0 = s
  BY <1>1, PageOfIs
<1>3. Len(st.page[f]) \in Nat
  <2>1. st.page[f] \in Seq(PageType)
    BY DEF StateType
  <2> QED
    BY <2>1
<1> DEFINE i == PageOf(st, f, a, n)
<1>4. i = PageOf(st, f, a, n)
  OBVIOUS
<1> HIDE DEF i
<1>5. \/ i = 0 /\ Absent(st, f, s)
      \/ /\ i \in 1..Len(st.page[f]) /\ i > 0
         /\ st.page[f][i].wa0 = s /\ HasPage(st, f, s)
  BY <1>2, <1>3, <1>4 DEF Absent, HasPage
<1> QED
  BY <1>4, <1>5 DEF s

\* The page is in memory.
LEMMA StoredIs ==
  ASSUME ConfigOK, NEW s, NEW w, Sound(s, w), ~s.exited, NEW f \in Files, Paged(f),
         NEW a, NEW x \in Seq(Word), InPage(a, Len(x)), a <= s.size[f] + 1,
         HasPage(s, f, PageStart(a))
  PROVE  Stores(s, Stored(s, f, a, x), w, f, a, x)
<1> DEFINE i == PageOf(s, f, a, Len(x))
<1>1. /\ s \in StateType /\ w \in AllFiles /\ Counted(s) /\ FileShows(s, w, f)
      /\ \A j \in 1..Len(s.page[f]) : IsStart(s.page[f][j].wa0)
  BY SoundStarts
<1>2. ~Absent(s, f, PageStart(a))
  BY DEF HasPage, Absent
<1>3. i \in 1..Len(s.page[f]) /\ s.page[f][i].wa0 = PageStart(a)
  BY <1>1, <1>2, PageFound DEF Paged
<1>4. Stored(s, f, a, x) = WriteTo(s, f, i, a, x)
  BY DEF Stored
<1> HIDE DEF i
<1>5. Places(s, s, f, i)
  <2>1. s.page[f] \in Seq(PageType)
    BY <1>1 DEF StateType
  <2>2. s.page[f][i] \in PageType
    BY <2>1, <1>3
  <2>3. s.page[f][i].walast <= s.page[f][i].walast
    BY SMTT(40), <2>2 DEF PageType
  <2> QED
    BY <2>3, <1>1, <1>3 DEF Places, FileShows
<1>6. Takes(s, w, f, i, a, Len(x))
  <2>1. PageShows(s, w, f, s.page[f][i])
    BY <1>1, <1>3 DEF FileShows
  <2> QED
    BY <2>1, <1>3 DEF Takes, InPage, PageShows
<1>7. a \in Nat \ {0} /\ x # <<>>
  BY DEF InPage
<1>8. Stores(s, WriteTo(s, f, i, a, x), w, f, a, x)
  BY <1>1, <1>3, <1>5, <1>6, <1>7, WriteIntoPage
<1> QED
  BY <1>4, <1>8

LEMMA PresentNat ==
  ASSUME NEW st \in StateType, NEW f \in Files, NEW s \in Nat, NEW n \in Int
  PROVE  Present(st, f, s, n) \in Nat
<1> DEFINE d == Len(st.disk[f]) + 1 - s
           m == IF n <= d THEN n ELSE d
           k == IF 0 >= m THEN 0 ELSE m
<1>1. st.disk[f] \in Seq(Word)
  BY DEF StateType
<1>2. d \in Int
  BY <1>1
<1>3. Min({n, d}) = m
  BY <1>2, MinOfTwo
<1>4. m \in Int
  BY <1>2
<1>5. Present(st, f, s, n) = Max({0, m})
  BY <1>3 DEF Present
<1> HIDE DEF m
<1>6. Max({0, m}) = k
  BY <1>4, MaxOfTwo
<1>7. k \in Nat
  BY <1>4
<1> HIDE DEF k
<1> QED
  BY <1>5, <1>6, <1>7

\* A new page for a piece that covers it, or that starts it and reaches the end of the file.
LEMMA NewPageStored ==
  ASSUME ConfigOK, NEW st, NEW w, Sound(st, w), ~st.exited, NEW f \in Files, Paged(f),
         NEW a, NEW x \in Seq(Word), InPage(a, Len(x)), a <= st.size[f] + 1,
         a = PageStart(a), Len(x) = P \/ a + Len(x) > st.size[f], Absent(st, f, a),
         NEW most \in Int
  PROVE  Stores(st, Stored(Bring(st, f, a, FALSE, most), f, a, x), w, f, a, x)
<1> DEFINE r == Ready(st, f)
           u == Bring(st, f, a, FALSE, most)
           got == Present(Taken(r, f), f, a, most)
           pg == FilledPage(r, f, NewPage, a, FALSE, got)
           n == Len(x)
           i == PageOf(u, f, a, n)
<1>1. Sound(r, w) /\ Relieved(st, r) /\ r.nfree > 0 /\ Len(r.page[f]) < config.nb
  BY ReadyIs
<1>2. a \in Nat \ {0} /\ IsStart(a) /\ n \in Nat \ {0} /\ a + n <= a + P /\ P \in Nat \ {0}
  BY DEF InPage, ConfigOK, P, Paged
<1>3. /\ r \in StateType /\ w \in AllFiles /\ Counted(r)
      /\ \A j \in 1..Len(r.page[f]) : IsStart(r.page[f][j].wa0)
  BY <1>1, SoundStarts
<1>4. r.size = st.size /\ r.out = st.out /\ r.exited = st.exited /\ Absent(r, f, a)
  BY <1>1 DEF Relieved, Absent
<1>5. u = Brought(Taken(r, f), f, a, FALSE, most)
  BY DEF Bring, get_new_page, Ready
<1> HIDE DEF r, u
<1>6. Taken(r, f) \in StateType /\ Taken(r, f).exited = r.exited
  BY <1>1, <1>3, TakenIs
<1>7. got \in Nat
  BY <1>2, <1>6, PresentNat
<1>8. u = Fill(Taken(r, f), f, a, FALSE, got)
  BY <1>4, <1>5, <1>6 DEF Brought
<1> HIDE DEF got, n
<1>9. Added(r, Fill(Taken(r, f), f, a, FALSE, got), f, pg)
  BY <1>1, <1>2, <1>3, <1>7, FillIs
<1>10. pg.wa0 = a /\ pg.walast = 0
  <2> DEFINE q == NewPage
             y == [q EXCEPT !.wa0 = a, !.access_count = 1]
  <2>1. pg = y
    BY DEF FilledPage
  <2>2. q \in PageType /\ q.walast = 0
    BY WaAssumption DEF NewPage, PageType, Word
  <2> HIDE DEF q, pg
  <2>3. y.wa0 = a /\ y.walast = q.walast
    BY <2>2 DEF PageType
  <2> QED
    BY <2>1, <2>2, <2>3
<1> HIDE DEF pg
<1>11. Added(r, u, f, pg)
  BY <1>8, <1>9
<1>12. PICK k \in 1..Len(u.page[f]) : u.page[f][k] = pg /\ Places(r, u, f, k)
  BY <1>3, <1>4, <1>10, <1>11, AddedPlaces
<1>13. u \in StateType /\ u.size = r.size /\ u.out = r.out /\ u.exited = r.exited /\ Counted(u)
  <2>1. Counted(u)
    BY <1>1, <1>3, <1>11, AddedCounted
  <2> QED
    BY <2>1, <1>11 DEF Added
<1>14. \A j \in 1..Len(u.page[f]) : j # k => u.page[f][j].wa0 # a /\ IsStart(u.page[f][j].wa0)
  <2> TAKE j \in 1..Len(u.page[f])
  <2> SUFFICES ASSUME j # k PROVE u.page[f][j].wa0 # a /\ IsStart(u.page[f][j].wa0)
    OBVIOUS
  <2>1. j \in 1..Len(r.page[f]) /\ u.page[f][j] = r.page[f][j]
    BY <1>12 DEF Places
  <2> QED
    BY <2>1, <1>3, <1>4 DEF Absent
<1>15. \A j \in 1..Len(u.page[f]) : IsStart(u.page[f][j].wa0)
  BY <1>2, <1>10, <1>12, <1>14
<1>16. i \in 1..Len(u.page[f]) /\ i = k
  <2>1. InPage(a, n)
    BY DEF n
  <2>2. ~Absent(u, f, PageStart(a))
    BY <1>10, <1>12 DEF Absent
  <2>3. i \in 1..Len(u.page[f]) /\ u.page[f][i].wa0 = PageStart(a)
    BY <2>1, <2>2, <1>13, <1>15, PageFound DEF Paged
  <2> HIDE DEF i
  <2> QED
    BY <2>3, <1>14
<1>17. Stored(u, f, a, x) = WriteTo(u, f, i, a, x)
  BY <1>4, <1>13 DEF Stored, n
<1> HIDE DEF i
<1>18. Takes(u, w, f, k, a, Len(x))
  <2> DEFINE z == u.size[f]
             p == P
  <2>1. n = p \/ a + n > z
    BY <1>4, <1>13 DEF n
  <2>2. a + n <= a + p
    BY <1>2
  <2>3. a <= a
    BY <1>2
  <2> QED
    BY <2>1, <2>2, <2>3, <1>2, <1>10, <1>12 DEF Takes, n
<1>19. x # <<>> /\ a <= r.size[f] + 1
  BY <1>2, <1>4 DEF n
<1>20. Stores(r, WriteTo(u, f, k, a, x), w, f, a, x)
  BY <1>1, <1>2, <1>12, <1>13, <1>18, <1>19, WriteIntoPage
<1>21. Stores(st, Stored(u, f, a, x), w, f, a, x)
  BY <1>4, <1>16, <1>17, <1>20 DEF Stores
<1> QED
  BY <1>21 DEF u

LEMMA wa_page_writeIs ==
  ASSUME ConfigOK, NEW st, NEW w, Sound(st, w), ~st.exited, NEW f \in Files, Paged(f),
         NEW a, NEW x \in Seq(Word), InPage(a, Len(x)), a <= st.size[f] + 1,
         a + Len(x) = PageStart(a) + P \/ a + Len(x) # st.size[f]
  PROVE  Stores(st, wa_page_write(st, f, a, x), w, f, a, x)
<1> DEFINE s == process_decay(st)
           n == Len(x)
           b == PageStart(a)
           p == P
           most == Required(s, f, b)
           u == Page(s, f, a, n)
<1>1. s \in StateType /\ Alike(st, s) /\ s.exited = st.exited /\ s.out = st.out
  BY DecayIs DEF Sound
<1>2. Sound(s, w)
  BY <1>1, AlikeSound
<1>3. s.size = st.size
  BY <1>1 DEF Alike
<1>4. wa_page_write(st, f, a, x) = Stored(u, f, a, x)
  BY DEF wa_page_write
<1> HIDE DEF s
<1>5. /\ a \in Nat \ {0} /\ n \in Nat \ {0} /\ IsStart(b) /\ b <= a /\ a + n <= b + p
      /\ p \in Nat \ {0} /\ b \in Nat \ {0}
  BY StartNat DEF InPage, ConfigOK, P, Paged
<1>6. s.size[f] \in Nat /\ \A i \in 1..Len(s.page[f]) : IsStart(s.page[f][i].wa0)
  BY <1>2, SoundStarts
<1>7. most \in Int
  BY <1>5, <1>6 DEF Required
<1>8. u = IF PageOf(s, f, a, n) > 0 THEN s ELSE Bring(s, f, a, NeedsRead(s, f, a, n), most)
  BY DEF Page, InMemory
<1>9. NeedsRead(s, f, a, n) <=> a > b \/ (a + n # b + p /\ a + n < s.size[f])
  BY DEF NeedsRead
<1>10. \/ PageOf(s, f, a, n) = 0 /\ Absent(s, f, b)
       \/ PageOf(s, f, a, n) > 0 /\ HasPage(s, f, b)
  BY <1>1, <1>6, PageFound DEF Paged
<1>11. Stores(s, Stored(u, f, a, x), w, f, a, x)
  <2>1. CASE PageOf(s, f, a, n) > 0 /\ HasPage(s, f, b)
    <3>1. u = s
      BY <2>1, <1>8
    <3>2. Stores(s, Stored(s, f, a, x), w, f, a, x)
      BY <2>1, <1>1, <1>2, <1>3, StoredIs
    <3> QED
      BY <3>1, <3>2
  <2>2. CASE PageOf(s, f, a, n) = 0 /\ Absent(s, f, b) /\ NeedsRead(s, f, a, n)
    <3>1. u = Bring(s, f, a, TRUE, most)
      BY <2>2, <1>8, <1>9
    <3>2. b <= s.size[f]
      <4> DEFINE z == s.size[f]
      <4>1. a > b \/ (a + n # b + p /\ a + n < z)
        BY <2>2, <1>9
      <4>2. a <= z + 1 /\ z \in Nat
        BY <1>3, <1>6
      <4> HIDE DEF z, n, b, p
      <4>3. b <= z
        BY <4>1, <4>2, <1>5
      <4> QED
        BY <4>3 DEF z
    <3>3. ReadIn(s, Bring(s, f, a, TRUE, most), w, f, PageStart(a))
      BY <2>2, <3>2, <1>1, <1>2, <1>5, BringIs
    <3> HIDE DEF u
    <3>4. ReadIn(s, u, w, f, b)
      BY <3>1, <3>3
    <3>5. Sound(u, w) /\ ~u.exited /\ u.size = s.size /\ u.out = s.out /\ HasPage(u, f, b)
      BY <3>4 DEF ReadIn
    <3>6. Stores(u, Stored(u, f, a, x), w, f, a, x)
      BY <3>5, <1>3, StoredIs
    <3> QED
      BY <3>5, <3>6 DEF Stores
  <2>3. CASE PageOf(s, f, a, n) = 0 /\ Absent(s, f, b) /\ ~NeedsRead(s, f, a, n)
    <3>5. NeedsRead(s, f, a, n) = FALSE
      <4>1. NeedsRead(s, f, a, n) \in BOOLEAN
        BY DEF NeedsRead
      <4> QED
        BY <4>1, <2>3
    <3>1. u = Bring(s, f, a, FALSE, most)
      <4>1. ~(PageOf(s, f, a, n) > 0)
        BY <2>3
      <4> HIDE DEF u, n, most
      <4>2. u = Bring(s, f, a, NeedsRead(s, f, a, n), most)
        BY <4>1, <1>8
      <4> QED
        BY <4>2, <3>5, Zenon
    <3>2. a = b /\ (n = p \/ a + n > s.size[f])
      <4> DEFINE z == s.size[f]
      <4>1. ~(a > b) /\ ~(a + n # b + p /\ a + n < z)
        BY <2>3, <1>9
      <4>2. a + n = b + p \/ a + n # z
        BY <1>3
      <4>3. z \in Nat
        BY <1>6
      <4> HIDE DEF z, n, b, p
      <4>4. a = b /\ (n = p \/ a + n > z)
        BY <4>1, <4>2, <4>3, <1>5
      <4> QED
        BY <4>4 DEF z
    <3>3. a = PageStart(a) /\ Absent(s, f, a) /\ (Len(x) = P \/ a + Len(x) > s.size[f])
      BY <3>2, <2>3
    <3> HIDE DEF u, most, b, n, p
    <3>4. Stores(s, Stored(Bring(s, f, a, FALSE, most), f, a, x), w, f, a, x)
      BY <3>3, <1>1, <1>2, <1>3, <1>7, NewPageStored
    <3> QED
      BY <3>1, <3>4
  <2> QED
    BY <2>1, <2>2, <2>3, <1>10
<1> HIDE DEF u
<1> QED
  BY <1>1, <1>4, <1>11 DEF Stores

-----------------------------------------------------------------------------
(* A piece is read.                                                        *)

\* The words a piece of n words at a adds to those read before; with one page, the
\* process goes on.
Gets(s, t, w, f, a, n) ==
    /\ Sound(t, w) /\ (config.nb = 1 => ~t.exited)
    /\ t.out = s.out \o SubSeq(w[f], a, a + n - 1)

LEMMA ReadFromIs ==
  ASSUME ConfigOK, NEW s, NEW w, Sound(s, w), NEW f \in Files, Paged(f),
         NEW i \in 1..Len(s.page[f]), NEW a \in Nat \ {0}, NEW n \in Nat \ {0},
         s.page[f][i].wa0 <= a, a + n <= s.page[f][i].wa0 + P, a + n - 1 <= s.size[f]
  PROVE  Gets(s, ReadFrom(s, f, i, a, n), w, f, a, n)
<1> DEFINE pages == s.page[f]
           pg == pages[i]
           b == pg.wa0
           c == pg.access_count + AgeRead
           q == [pg EXCEPT !.access_count = c]
           pgs == [pages EXCEPT ![i] = q]
           ex == \E j, k \in DOMAIN pages : j # k /\ Start(pages[j], pages[i])
           e(k) == pg.adr[a - b + k - 1]
           got == [k \in 1..n |-> e(k)]
           out == s.out \o got
           u == [s EXCEPT !.page[f] = pgs]
           t == [u EXCEPT !.exited = ex, !.out = out]
           sub == SubSeq(w[f], a, a + n - 1)
<1>1. /\ s \in StateType /\ w \in AllFiles /\ Counted(s) /\ FileShows(s, w, f)
      /\ s.size[f] = Len(w[f]) /\ s.size[f] \in Nat
  BY SoundStarts
<1>2. pages \in Seq(PageType) /\ w[f] \in Seq(Word)
  BY <1>1 DEF StateType, AllFiles
<1>3. pg \in PageType
  BY <1>2
<1>4. c \in Nat /\ b \in Nat /\ pg.walast \in Nat
  <2>1. pg.access_count \in Nat /\ AgeRead \in Nat
    BY <1>3, WaAssumption DEF PageType
  <2>2. b \in Nat /\ pg.walast \in Nat
    BY <1>3 DEF PageType
  <2>3. pg.access_count + AgeRead \in Nat
    BY <2>1
  <2> QED
    BY <2>2, <2>3
<1>5. PageShows(s, w, f, pg)
  BY <1>1 DEF FileShows
<1>6. ReadFrom(s, f, i, a, n) = t
  BY DEF ReadFrom
<1>7. ASSUME NEW k \in 1..n PROVE e(k) = w[f][a + k - 1] /\ e(k) \in Word
  <2> DEFINE j == a + k - 1
             z == s.size[f]
             l == pg.walast
             p == P
  <2>1. j \in Nat /\ j <= z /\ b <= j /\ j <= b + p - 1
    <3>1. a + n - 1 <= z /\ z \in Nat /\ b <= a /\ a + n <= b + p /\ p \in Nat /\ b \in Nat
      BY <1>4, <1>1 DEF ConfigOK, P
    <3>2. j = a + k - 1
      OBVIOUS
    <3> HIDE DEF j, z, b, p
    <3> QED
      BY <3>1, <3>2
  <2>2. l = z \/ l = b + p - 1
    BY <1>5 DEF PageShows
  <2>3. j <= l
    <3> HIDE DEF j, z, l, p, b
    <3> QED
      BY <2>1, <2>2
  <2>4. pg.adr[j - b] = w[f][j]
    BY <2>1, <2>3, <1>5 DEF PageShows, In
  <2>5. j - b = a - b + k - 1
    BY <1>4
  <2>6. j \in 1..Len(w[f])
    BY <2>1, <1>1
  <2>7. w[f][j] \in Word
    BY <2>6, <1>2
  <2> QED
    BY <2>4, <2>5, <2>7
<1>8. sub = [k \in 1..n |-> w[f][a + k - 1]]
  <2> DEFINE m == Len(w[f])
             v == w[f]
             W == Word
             y == [k \in 1..n |-> v[a + k - 1]]
  <2>1. m \in Nat /\ a + n - 1 <= m /\ v \in Seq(W) /\ m = Len(v)
    BY <1>1, <1>2
  <2> HIDE DEF v, m, W
  <2>2. SubSeq(v, a, a + n - 1) = y
    BY <2>1
  <2> QED
    BY <2>2 DEF v
<1>9. got = sub
  <2> HIDE DEF e
  <2> QED
    BY <1>7, <1>8
<1>10. got \in Seq(Word)
  <2> DEFINE W == Word
  <2>1. \A k \in 1..n : e(k) \in W
    BY <1>7
  <2> HIDE DEF W, e
  <2>2. got \in Seq(W)
    BY <2>1
  <2> QED
    BY <2>2 DEF W
<1>11. out \in Seq(Word) /\ s.out \in Seq(Word)
  <2> HIDE DEF got
  <2> QED
    BY <1>1, <1>10 DEF StateType
<1>12. out = s.out \o sub
  BY <1>9
<1>13. q \in PageType /\ PageAlike(pg, q)
  BY <1>3, <1>4 DEF PageType, PageAlike
<1>14. config.nb = 1 => ~ex
  <2> SUFFICES ASSUME config.nb = 1, NEW j \in DOMAIN pages, NEW k \in DOMAIN pages, j # k
               PROVE  FALSE
    OBVIOUS
  <2>1. DOMAIN pages = 1..Len(pages) /\ Len(pages) \in Nat
    BY <1>2
  <2>2. Len(pages) <= 1
    BY <1>1 DEF Counted
  <2> QED
    BY <2>1, <2>2
<1>15. ex \in BOOLEAN
  OBVIOUS
<1> HIDE DEF e, got, out, ex, q, c
<1>16. pgs \in Seq(PageType) /\ Len(pgs) = Len(pages) /\ pgs[i] = q
       /\ \A k \in 1..Len(pages) : k # i => pgs[k] = pages[k]
  <2> HIDE DEF pages
  <2>1. i \in 1..Len(pages)
    BY DEF pages
  <2> QED
    BY <2>1, <1>2, <1>13, ReplacedIs
<1> HIDE DEF pgs
<1>17. /\ u \in StateType /\ u.disk = s.disk /\ u.size = s.size /\ u.nfree = s.nfree
       /\ u.count = s.count /\ u.page[f] = pgs
       /\ \A g \in Files \ {f} : u.page[g] = s.page[g]
  BY <1>1, <1>16, PageChanged
<1> HIDE DEF u
<1>18. /\ t \in StateType /\ t.disk = u.disk /\ t.size = u.size /\ t.nfree = u.nfree
       /\ t.count = u.count /\ t.page = u.page /\ t.exited = ex /\ t.out = out
  BY <1>11, <1>15, <1>17 DEF StateType
<1> HIDE DEF t
<1>19. Alike(s, t)
  <2>1. t.disk = s.disk /\ t.size = s.size /\ t.nfree = s.nfree /\ t.count = s.count
        /\ t.page[f] = pgs /\ \A g \in Files \ {f} : t.page[g] = s.page[g]
    BY <1>17, <1>18
  <2>2. \A g \in Files : Len(t.page[g]) = Len(s.page[g])
    BY <2>1, <1>16
  <2>3. ASSUME NEW g \in Files, NEW k \in 1..Len(s.page[g])
        PROVE  PageAlike(s.page[g][k], t.page[g][k])
    <3>1. CASE g = f /\ k = i
      BY <3>1, <2>1, <1>13, <1>16
    <3>2. CASE ~(g = f /\ k = i)
      <4>1. t.page[g][k] = s.page[g][k]
        BY <3>2, <2>1, <1>16
      <4> QED
        BY <4>1 DEF PageAlike
    <3> QED
      BY <3>1, <3>2
  <2> QED
    BY <2>1, <2>2, <2>3 DEF Alike
<1>20. Sound(t, w)
  BY <1>18, <1>19, AlikeSound
<1>21. Gets(s, t, w, f, a, n)
  BY <1>12, <1>14, <1>18, <1>20 DEF Gets
<1> QED
  BY <1>6, <1>21

LEMMA wa_page_readIs ==
  ASSUME ConfigOK, NEW st, NEW w, Sound(st, w), ~st.exited, NEW f \in Files, Paged(f),
         NEW a, NEW n, InPage(a, n), a + n - 1 <= st.size[f]
  PROVE  Gets(st, wa_page_read(st, f, a, n), w, f, a, n)
<1> DEFINE s == process_decay(st)
           b == PageStart(a)
           p == P
           u == InMemory(s, f, a, n, TRUE, P)
           i == PageOf(u, f, a, n)
<1>1. s \in StateType /\ Alike(st, s) /\ s.exited = st.exited /\ s.out = st.out
  BY DecayIs DEF Sound
<1>2. Sound(s, w)
  BY <1>1, AlikeSound
<1>3. s.size = st.size
  BY <1>1 DEF Alike
<1>4. wa_page_read(st, f, a, n) = Served(u, f, a, n)
  BY DEF wa_page_read
<1> HIDE DEF s
<1>5. /\ a \in Nat \ {0} /\ n \in Nat \ {0} /\ IsStart(b) /\ b <= a /\ a + n <= b + p
      /\ p \in Nat \ {0} /\ b \in Nat \ {0}
  BY StartNat DEF InPage, ConfigOK, P, Paged
<1>6. s.size[f] \in Nat /\ \A j \in 1..Len(s.page[f]) : IsStart(s.page[f][j].wa0)
  BY <1>2, SoundStarts
<1>7. \/ PageOf(s, f, a, n) = 0 /\ Absent(s, f, b)
      \/ PageOf(s, f, a, n) > 0 /\ HasPage(s, f, b)
  BY <1>1, <1>6, PageFound DEF Paged
<1>8. Sound(u, w) /\ ~u.exited /\ u.size = s.size /\ u.out = s.out /\ HasPage(u, f, b)
  <2>1. CASE PageOf(s, f, a, n) > 0 /\ HasPage(s, f, b)
    <3>1. u = s
      BY <2>1 DEF InMemory
    <3> QED
      BY <3>1, <2>1, <1>1, <1>2
  <2>2. CASE PageOf(s, f, a, n) = 0 /\ Absent(s, f, b)
    <3>1. u = Bring(s, f, a, TRUE, P)
      BY <2>2 DEF InMemory
    <3>2. b <= s.size[f]
      <4> DEFINE z == s.size[f]
      <4>1. a + n - 1 <= z /\ z \in Nat
        BY <1>3, <1>6
      <4> HIDE DEF z, b, p
      <4>2. b <= z
        BY <4>1, <1>5
      <4> QED
        BY <4>2 DEF z
    <3>3. ReadIn(s, Bring(s, f, a, TRUE, P), w, f, PageStart(a))
      BY <2>2, <3>2, <1>1, <1>2, <1>5, BringIs
    <3> QED
      BY <3>1, <3>3 DEF ReadIn
  <2> QED
    BY <2>1, <2>2, <1>7
<1> HIDE DEF u
<1>9. u \in StateType /\ \A j \in 1..Len(u.page[f]) : IsStart(u.page[f][j].wa0)
  BY <1>8, SoundStarts
<1>10. ~Absent(u, f, b)
  BY <1>8 DEF HasPage, Absent
<1>11. i \in 1..Len(u.page[f]) /\ u.page[f][i].wa0 = b
  BY <1>9, <1>10, PageFound DEF Paged
<1>12. Served(u, f, a, n) = ReadFrom(u, f, i, a, n)
  BY <1>8 DEF Served
<1> HIDE DEF i
<1>13. a + n - 1 <= u.size[f]
  BY <1>3, <1>8
<1>14. u.page[f][i].wa0 <= a /\ a + n <= u.page[f][i].wa0 + P
  BY <1>5, <1>11
<1>15. Gets(u, ReadFrom(u, f, i, a, n), w, f, a, n)
  BY <1>5, <1>8, <1>11, <1>13, <1>14, ReadFromIs
<1> QED
  BY <1>1, <1>4, <1>8, <1>12, <1>15 DEF Gets

-----------------------------------------------------------------------------
(* A request is cut into pieces.                                           *)

\* The pieces ps are each in a page, follow each other from a on and are n words together;
\* all but the last end their page.
Pieced(ps, a, n) ==
    /\ Len(ps) \in Nat \ {0}
    /\ \A k \in 1..Len(ps) : /\ InPage(ps[k].from, ps[k].len)
                             /\ a <= ps[k].from /\ ps[k].from + ps[k].len <= a + n
                             /\ \/ ps[k].from + ps[k].len = PageStart(ps[k].from) + P
                                \/ k = Len(ps)
    /\ ps[1].from = a
    /\ ps[Len(ps)].from + ps[Len(ps)].len = a + n
    /\ \A k \in 1..(Len(ps) - 1) : ps[k + 1].from = ps[k].from + ps[k].len

\* The words from..to are those of a..z in page q + k - 1, pages being p words; there
\* are c pages from q on.
Cut(p, a, z, q, c, k, from, to) ==
    /\ from \in Nat \ {0} /\ to \in Nat /\ a <= from /\ from <= to /\ to <= z
    /\ (q + k - 1) * p + 1 <= from /\ to <= (q + k - 1) * p + p
    /\ k = 1 => from = a
    /\ k # 1 => from = (q + k - 1) * p + 1
    /\ k = c => to = z
    /\ k # c => to = (q + k) * p

LEMMA CutAt ==
  ASSUME NEW p \in Nat \ {0}, NEW a \in Nat \ {0}, NEW z \in Nat, a <= z,
         NEW q \in Nat, q = (a - 1) \div p, NEW c, c = (z - 1) \div p - q + 1,
         NEW k \in 1..c,
         NEW from, from = (IF a >= (q + k - 1) * p + 1 THEN a ELSE (q + k - 1) * p + 1),
         NEW to, to = (IF z <= (q + k) * p THEN z ELSE (q + k) * p)
  PROVE  Cut(p, a, z, q, c, k, from, to)
<1> DEFINE l == (z - 1) \div p
           m == q + k - 1
<1>1. /\ l \in Nat /\ q * p <= a - 1 /\ a - 1 < q * p + p
      /\ l * p <= z - 1 /\ z - 1 < l * p + p
  OBVIOUS
<1>2. q <= l
  <2> SUFFICES ASSUME q > l PROVE FALSE
    BY <1>1
  <2>1. q >= l + 1
    BY <1>1
  <2>2. q * p >= (l + 1) * p
    BY <2>1, <1>1
  <2>3. (l + 1) * p = l * p + p
    BY <1>1
  <2> HIDE DEF l
  <2> QED
    BY <2>2, <2>3, <1>1
<1>3. c = l - q + 1 /\ c \in Nat
  BY <1>1, <1>2
<1>4. m \in Nat /\ q <= m /\ m <= l /\ (k = 1 <=> m = q) /\ (k = c <=> m = l) /\ q + k = m + 1
  <2> HIDE DEF l
  <2> QED
    BY <1>1, <1>3
<1>5. (m + 1) * p = m * p + p /\ m * p \in Nat /\ q * p \in Nat /\ l * p \in Nat
  BY <1>1, <1>4
<1>6. q * p <= m * p /\ m * p <= l * p
  BY <1>1, <1>4
<1>7. m # q => q * p + p <= m * p
  <2> SUFFICES ASSUME m # q PROVE q * p + p <= m * p
    OBVIOUS
  <2>1. q + 1 <= m
    BY <1>4
  <2>2. (q + 1) * p <= m * p
    BY <2>1, <1>4
  <2>3. (q + 1) * p = q * p + p
    OBVIOUS
  <2> QED
    BY <2>2, <2>3
<1>8. m # l => m * p + p <= l * p
  <2> SUFFICES ASSUME m # l PROVE m * p + p <= l * p
    OBVIOUS
  <2>1. m + 1 <= l
    BY <1>1, <1>4
  <2>2. (m + 1) * p <= l * p
    BY <2>1, <1>1, <1>4
  <2> QED
    BY <2>2, <1>5
<1>9. /\ from = (IF a >= m * p + 1 THEN a ELSE m * p + 1)
      /\ to = (IF z <= m * p + p THEN z ELSE m * p + p)
      /\ (q + k - 1) * p = m * p /\ (q + k) * p = m * p + p
  BY <1>4, <1>5
<1> DEFINE mp == m * p
           qp == q * p
           lp == l * p
<1>10. /\ mp \in Nat /\ qp \in Nat /\ lp \in Nat /\ qp <= mp /\ mp <= lp
       /\ (m # q => qp + p <= mp) /\ (m # l => mp + p <= lp) /\ (m = q => mp = qp)
       /\ (m = l => mp = lp)
       /\ qp <= a - 1 /\ a - 1 < qp + p /\ lp <= z - 1 /\ z - 1 < lp + p
       /\ from = (IF a >= mp + 1 THEN a ELSE mp + 1)
       /\ to = (IF z <= mp + p THEN z ELSE mp + p)
       /\ (q + k - 1) * p = mp /\ (q + k) * p = mp + p
       /\ (k = 1 <=> m = q) /\ (k = c <=> m = l)
  BY <1>1, <1>4, <1>5, <1>6, <1>7, <1>8, <1>9
<1> HIDE DEF mp, qp, lp, m, l
<1>11. /\ from \in Nat \ {0} /\ to \in Nat /\ a <= from /\ from <= to /\ to <= z
       /\ mp + 1 <= from /\ to <= mp + p
       /\ k = 1 => from = a
       /\ k # 1 => from = mp + 1
       /\ k = c => to = z
       /\ k # c => to = mp + p
  BY <1>10
<1> QED
  BY <1>10, <1>11 DEF Cut

\* A page of odd address: the words from one on are in it up to its end.
LEMMA InPageIs ==
  ASSUME ConfigOK, P > 0, NEW m \in Nat, NEW from \in Nat \ {0}, NEW to \in Nat,
         from % 2 = 1, from <= to, m * P + 1 <= from, to <= m * P + P
  PROVE  InPage(from, to - from + 1) /\ PageStart(from) = m * P + 1
<1> DEFINE s == PageStart(from)
           t == m * P + 1
           p == P
<1>1. /\ IsStart(s) /\ s <= from /\ from + 1 <= s + p /\ s \in Nat \ {0}
  BY PageStartIs
<1>2. p \in Nat \ {0} /\ t \in Nat
  BY DEF ConfigOK, P
<1>3. IsStart(t)
  BY DEF IsStart
<1>4. t <= from /\ to <= t + p - 1
  <2> DEFINE mp == m * P
  <2>1. mp \in Nat /\ mp + 1 <= from /\ to <= mp + p /\ t = mp + 1
    BY <1>2
  <2> HIDE DEF mp, t, p
  <2> QED
    BY <2>1, <1>2
<1> HIDE DEF s, t
<1>5. s # t => s + p <= t \/ t + p <= s
  BY <1>1, <1>2, <1>3, StartsApart
<1> HIDE DEF p
<1>6. s = t
  BY <1>1, <1>2, <1>4, <1>5
<1>7. to - from + 1 \in Nat \ {0} /\ from + (to - from + 1) <= s + p
  BY <1>2, <1>4, <1>6
<1>8. InPage(from, to - from + 1)
  BY <1>1, <1>7 DEF InPage, s, p
<1> QED
  BY <1>6, <1>8 DEF s, t

\* The multiples of an even number are even.
LEMMA EvenMultiple ==
  ASSUME NEW p \in Nat, p % 2 = 0, NEW m \in Nat
  PROVE  (m * p + 1) % 2 = 1
<1> DEFINE h == p \div 2
<1>1. h \in Nat /\ p = 2 * h
  OBVIOUS
<1> HIDE DEF h
<1>2. m * p = 2 * (m * h) /\ m * h \in Nat
  BY <1>1
<1> DEFINE x == m * h
<1>3. x \in Nat /\ m * p + 1 = 2 * x + 1
  BY <1>2
<1> HIDE DEF x
<1> QED
  BY <1>3

LEMMA PiecesAre ==
  ASSUME ConfigOK, P > 0, NEW a \in Nat, a % 2 = 1, NEW n \in Nat \ {0}
  PROVE  Pieced(Pieces(a, n), a, n)
<1> DEFINE p == P
           q == (a - 1) \div p
           z == a + n - 1
           c == (z - 1) \div p - q + 1
           from(k) == IF a >= (q + k - 1) * p + 1 THEN a ELSE (q + k - 1) * p + 1
           to(k) == IF z <= (q + k) * p THEN z ELSE (q + k) * p
           ps == Pieces(a, n)
<1>1. p \in Nat \ {0} /\ p % 2 = 0 /\ a \in Nat \ {0} /\ z \in Nat /\ a <= z /\ q \in Nat
  BY DEF ConfigOK, P
<1>2. c \in Nat \ {0}
  <2> DEFINE l == (z - 1) \div p
  <2>1. l \in Nat /\ z - 1 >= l * p /\ z - 1 < l * p + p /\ q * p <= a - 1 /\ a - 1 < q * p + p
    BY <1>1
  <2>2. q <= l
    <3> SUFFICES ASSUME q >= l + 1 PROVE FALSE
      BY <1>1, <2>1
    <3>1. q * p >= (l + 1) * p
      BY <1>1, <2>1
    <3>2. (l + 1) * p = l * p + p
      BY <1>1, <2>1
    <3> HIDE DEF l, q, z, p
    <3> QED
      BY <3>1, <3>2, <2>1, <1>1
  <2>3. c = l - q + 1
    OBVIOUS
  <2> HIDE DEF l, q, c
  <2> QED
    BY <1>1, <2>1, <2>2, <2>3
<1>3. ASSUME NEW k \in 1..c
      PROVE  /\ from(k) \in Nat \ {0} /\ to(k) \in Nat /\ a <= from(k) /\ from(k) <= to(k)
             /\ to(k) <= z
             /\ (q + k - 1) * p + 1 <= from(k) /\ to(k) <= (q + k - 1) * p + p
             /\ k = 1 => from(k) = a
             /\ k # 1 => from(k) = (q + k - 1) * p + 1
             /\ k = c => to(k) = z
             /\ k # c => to(k) = (q + k) * p
  <2> DEFINE x == from(k)
             y == to(k)
  <2>1. /\ q = (a - 1) \div p /\ c = (z - 1) \div p - q + 1
        /\ x = (IF a >= (q + k - 1) * p + 1 THEN a ELSE (q + k - 1) * p + 1)
        /\ y = (IF z <= (q + k) * p THEN z ELSE (q + k) * p)
    OBVIOUS
  <2> HIDE DEF x, y, p, q, c, z
  <2>2. /\ x \in Nat \ {0} /\ y \in Nat /\ a <= x /\ x <= y
        /\ y <= z
        /\ (q + k - 1) * p + 1 <= x /\ y <= (q + k - 1) * p + p
        /\ k = 1 => x = a
        /\ k # 1 => x = (q + k - 1) * p + 1
        /\ k = c => y = z
        /\ k # c => y = (q + k) * p
    <3>1. Cut(p, a, z, q, c, k, x, y)
      BY <1>1, <1>3, <2>1, CutAt
    <3> QED
      BY <3>1 DEF Cut
  <2> QED
    BY <2>2 DEF x, y
<1>4. /\ Len(ps) = c
      /\ \A k \in 1..c : ps[k].from = from(k) /\ ps[k].len = to(k) - from(k) + 1
  <2> DEFINE e(k) == LET fr == Max({a, (q + k - 1) * p + 1})
                         t == Min({a + n - 1, (q + k) * p})
                     IN  [from |-> fr, len |-> t - fr + 1]
             g(k) == [from |-> from(k), len |-> to(k) - from(k) + 1]
  <2>1. ps = [k \in 1..c |-> e(k)]
    <3>1. ps = [k \in 1..((a + n - 2) \div p - q + 1) |-> e(k)]
      BY DEF Pieces
    <3>2. a + n - 2 = z - 1
      BY <1>1
    <3>3. (a + n - 2) \div p - q + 1 = c
      BY <3>2
    <3> HIDE DEF e, c
    <3> QED
      BY <3>1, <3>3
  <2>2. ASSUME NEW k \in 1..c PROVE e(k) = g(k)
    <3>1. (q + k - 1) * p + 1 \in Int /\ (q + k) * p \in Int
      <4> HIDE DEF q, p, c
      <4>1. c \in Nat /\ k \in Nat
        BY <1>2
      <4> QED
        BY <4>1, <1>1
    <3>2. Max({a, (q + k - 1) * p + 1}) = from(k)
      BY <3>1, MaxOfTwo
    <3>3. Min({z, (q + k) * p}) = to(k)
      <4> HIDE DEF z, q, p
      <4> QED
        BY <1>1, <3>1, MinOfTwo
    <3>4. e(k) = LET fr == Max({a, (q + k - 1) * p + 1})
                     t == Min({z, (q + k) * p})
                 IN  [from |-> fr, len |-> t - fr + 1]
      OBVIOUS
    <3> HIDE DEF z, q, p, from, to, e
    <3> QED
      BY <3>2, <3>3, <3>4
  <2>3. ps = [k \in 1..c |-> g(k)]
    <3> HIDE DEF e, g, c
    <3> QED
      BY <2>1, <2>2
  <2> HIDE DEF g, c, ps
  <2>4. Len(ps) = c /\ \A k \in 1..c : ps[k] = g(k)
    BY <2>3, <1>2
  <2> QED
    BY <2>4 DEF g
<1>5. \A k \in 1..c : from(k) % 2 = 1 /\ q + k - 1 \in Nat
  <2> TAKE k \in 1..c
  <2>1. q + k - 1 \in Nat
    <3> HIDE DEF q, c
    <3>1. k \in Nat \ {0}
      BY <1>2
    <3> QED
      BY <3>1, <1>1
  <2>2. from(k) = a \/ from(k) = (q + k - 1) * p + 1
    OBVIOUS
  <2> HIDE DEF from, q, p
  <2>3. ((q + k - 1) * p + 1) % 2 = 1
    BY <1>1, <2>1, EvenMultiple
  <2> QED
    BY <2>1, <2>2, <2>3
<1> HIDE DEF q, c, from, to, ps, z
<1>6. ASSUME NEW k \in 1..c
      PROVE  /\ InPage(ps[k].from, ps[k].len)
             /\ a <= ps[k].from /\ ps[k].from + ps[k].len <= a + n
             /\ \/ ps[k].from + ps[k].len = PageStart(ps[k].from) + P
                \/ k = Len(ps)
             /\ ps[k].from + ps[k].len = to(k) + 1
  <2> DEFINE x == from(k)
             y == to(k)
             m == q + k - 1
             mp == m * p
  <2>1. /\ x \in Nat \ {0} /\ y \in Nat /\ a <= x /\ x <= y /\ y <= z
        /\ mp + 1 <= x /\ y <= mp + p /\ (k # c => y = (q + k) * p)
    BY <1>3
  <2>2. m \in Nat /\ x % 2 = 1 /\ ps[k].from = x /\ ps[k].len = y - x + 1 /\ Len(ps) = c
    BY <1>4, <1>5
  <2>3. (q + k) * p = mp + p /\ mp \in Nat
    <3>1. q + k = m + 1
      BY <1>1, <1>2
    <3>2. (m + 1) * p = m * p + p
      BY <1>1, <2>2
    <3> HIDE DEF m
    <3> QED
      BY <3>1, <3>2, <1>1, <2>2
  <2>9. mp = m * P
    OBVIOUS
  <2> HIDE DEF x, y, m, mp, p
  <2>8. mp + 1 <= x /\ y <= mp + p /\ (k # c => y = mp + p)
    BY <2>1, <2>3
  <2>4. InPage(x, y - x + 1) /\ PageStart(x) = mp + 1
    <3>1. m * P + 1 <= x /\ y <= m * P + P
      BY <2>8, <2>9 DEF p
    <3>2. InPage(x, y - x + 1) /\ PageStart(x) = m * P + 1
      BY <3>1, <2>1, <2>2, InPageIs
    <3> QED
      BY <3>2, <2>9
  <2>5. x + (y - x + 1) = y + 1
    BY <2>1
  <2>6. y + 1 <= a + n
    BY <2>1, <1>1 DEF z
  <2>7. k # c => y + 1 = PageStart(x) + P
    <3>1. p \in Nat /\ mp \in Nat /\ p = P
      BY <2>3, <1>1 DEF p
    <3> QED
      BY <3>1, <2>4, <2>8
  <2> QED
    BY <2>1, <2>2, <2>4, <2>5, <2>6, <2>7 DEF y
<1>7. ps[1].from = a
  <2>1. 1 \in 1..c
    BY <1>2
  <2> QED
    BY <2>1, <1>3, <1>4
<1>8. ps[c].from + ps[c].len = a + n
  <2>1. c \in 1..c
    BY <1>2
  <2>2. to(c) = z
    BY <2>1, <1>3
  <2>3. ps[c].from + ps[c].len = to(c) + 1
    BY <2>1, <1>6
  <2> QED
    BY <2>2, <2>3 DEF z
<1>9. ASSUME NEW k \in 1..(c - 1) PROVE ps[k + 1].from = ps[k].from + ps[k].len
  <2>1. k \in 1..c /\ k + 1 \in 1..c /\ k # c /\ k + 1 # 1 /\ k \in Nat
    BY <1>2
  <2>2. from(k + 1) = (q + (k + 1) - 1) * p + 1
    BY <2>1, <1>3
  <2>3. to(k) = (q + k) * p
    BY <2>1, <1>3
  <2>4. q + (k + 1) - 1 = q + k
    BY <2>1, <1>1
  <2>5. from(k + 1) = to(k) + 1
    BY <2>2, <2>3, <2>4
  <2> QED
    BY <2>1, <2>5, <1>4, <1>6
<1> QED
  BY <1>2, <1>4, <1>6, <1>7, <1>8, <1>9 DEF Pieced, ps

-----------------------------------------------------------------------------
(* A request is written, piece by piece.                                   *)

LEMMA SameWords ==
  ASSUME NEW s \in Seq(Word), NEW t \in Seq(Word), Len(s) = Len(t),
         \A i \in 1..Len(s) : s[i] = t[i]
  PROVE  s = t
OBVIOUS

LEMMA FirstWords ==
  ASSUME NEW x \in Seq(Word), NEW d \in 0..Len(x), NEW e \in d..Len(x)
  PROVE  /\ SubSeq(x, d + 1, e) \in Seq(Word) /\ Len(SubSeq(x, d + 1, e)) = e - d
         /\ \A i \in 1..(e - d) : SubSeq(x, d + 1, e)[i] = x[d + i]
<1> DEFINE W == Word
<1>1. x \in Seq(W)
  OBVIOUS
<1> HIDE DEF W
<1>2. /\ SubSeq(x, d + 1, e) \in Seq(W) /\ Len(SubSeq(x, d + 1, e)) = e - d
      /\ \A i \in 1..(e - d) : SubSeq(x, d + 1, e)[i] = x[d + i]
  BY <1>1
<1> QED
  BY <1>2 DEF W

\* Words written in two requests, one after the other.
LEMMA PutTwice ==
  ASSUME NEW s \in Seq(Word), NEW a \in Nat \ {0}, NEW x \in Seq(Word), a <= Len(s) + 1,
         NEW d \in 0..Len(x), NEW e \in d..Len(x)
  PROVE  Store!Put(Store!Put(s, a, SubSeq(x, 1, d)), a + d, SubSeq(x, d + 1, e))
             = Store!Put(s, a, SubSeq(x, 1, e))
<1> DEFINE x1 == SubSeq(x, 1, d)
           x2 == SubSeq(x, d + 1, e)
           x3 == SubSeq(x, 1, e)
           s1 == Store!Put(s, a, x1)
           s2 == Store!Put(s1, a + d, x2)
           s3 == Store!Put(s, a, x3)
           n == Len(s)
<1>1. d \in Nat /\ e \in Nat /\ d <= e /\ e <= Len(x) /\ Len(x) \in Nat /\ n \in Nat /\ a <= n + 1
  OBVIOUS
<1>2. x1 \in Seq(Word) /\ Len(x1) = d /\ \A i \in 1..d : x1[i] = x[i]
  <2>1. 0 \in 0..Len(x) /\ d \in 0..Len(x)
    BY <1>1
  <2>2. /\ SubSeq(x, 0 + 1, d) \in Seq(Word) /\ Len(SubSeq(x, 0 + 1, d)) = d - 0
        /\ \A i \in 1..(d - 0) : SubSeq(x, 0 + 1, d)[i] = x[0 + i]
    BY <2>1, FirstWords
  <2> QED
    BY <2>2, <1>1
<1>3. x2 \in Seq(Word) /\ Len(x2) = e - d /\ \A i \in 1..(e - d) : x2[i] = x[d + i]
  BY FirstWords
<1>4. x3 \in Seq(Word) /\ Len(x3) = e /\ \A i \in 1..e : x3[i] = x[i]
  <2>1. 0 \in 0..Len(x) /\ e \in 0..Len(x)
    BY <1>1
  <2>2. /\ SubSeq(x, 0 + 1, e) \in Seq(Word) /\ Len(SubSeq(x, 0 + 1, e)) = e - 0
        /\ \A i \in 1..(e - 0) : SubSeq(x, 0 + 1, e)[i] = x[0 + i]
    BY <2>1, FirstWords
  <2> QED
    BY <2>2, <1>1
<1> HIDE DEF x1, x2, x3
<1>13. IsPut(s1, s, a, x1)
  BY <1>1, <1>2, PutIs
<1>14. IsPut(s3, s, a, x3)
  BY <1>1, <1>4, PutIs
<1> HIDE DEF s1, s3
<1>5. /\ s1 \in Seq(Word)
      /\ Len(s1) = IF a + d - 1 > n THEN a + d - 1 ELSE n
      /\ \A i \in 1..Len(s1) : IF a <= i /\ i <= a + d - 1 THEN s1[i] = x1[i - a + 1]
                               ELSE i <= n /\ s1[i] = s[i]
  BY <1>2, <1>13 DEF IsPut
<1>6. /\ s3 \in Seq(Word)
      /\ Len(s3) = IF a + e - 1 > n THEN a + e - 1 ELSE n
      /\ \A i \in 1..Len(s3) : IF a <= i /\ i <= a + e - 1 THEN s3[i] = x3[i - a + 1]
                               ELSE i <= n /\ s3[i] = s[i]
  BY <1>4, <1>14 DEF IsPut
<1> DEFINE m == Len(s1)
           b == a + d
<1>7. m \in Nat /\ b \in Nat \ {0} /\ b <= m + 1 /\ m = IF b - 1 > n THEN b - 1 ELSE n
  <2> HIDE DEF n
  <2> QED
    BY <1>1, <1>5
<1>15. IsPut(s2, s1, b, x2)
  BY <1>3, <1>5, <1>7, PutIs
<1> HIDE DEF s2
<1>8. /\ s2 \in Seq(Word)
      /\ Len(s2) = IF b + (e - d) - 1 > m THEN b + (e - d) - 1 ELSE m
      /\ \A i \in 1..Len(s2) : IF b <= i /\ i <= b + (e - d) - 1 THEN s2[i] = x2[i - b + 1]
                               ELSE i <= m /\ s2[i] = s1[i]
  BY <1>3, <1>15 DEF IsPut
<1> HIDE DEF n, m
<1>9. b + (e - d) - 1 = a + e - 1 /\ b = a + d
  BY <1>1
<1> HIDE DEF b
<1>16. e - d \in Nat /\ b \in Nat
  BY <1>1, <1>7
<1>10. Len(s2) = Len(s3)
  <2>1. Len(s2) = IF a + e - 1 > m THEN a + e - 1 ELSE m
    BY <1>8, <1>9
  <2>2. m = IF a + d - 1 > n THEN a + d - 1 ELSE n
    BY <1>7, <1>9
  <2> QED
    BY SMTT(40), <2>1, <2>2, <1>1, <1>6
<1>11. ASSUME NEW i \in 1..Len(s2) PROVE s2[i] = s3[i]
  <2>1. i \in Nat /\ i \in 1..Len(s3)
    BY <1>8, <1>10
  <2>2. CASE b <= i /\ i <= a + e - 1
    <3>1. s2[i] = x2[i - b + 1] /\ s3[i] = x3[i - a + 1]
      BY <2>1, <2>2, <1>1, <1>6, <1>8, <1>9
    <3>2. i - b + 1 \in 1..(e - d) /\ i - a + 1 \in 1..e /\ d + (i - b + 1) = i - a + 1
      BY <2>1, <2>2, <1>1, <1>9
    <3> QED
      BY <3>1, <3>2, <1>3, <1>4
  <2>3. CASE ~(b <= i /\ i <= a + e - 1)
    <3>1. s2[i] = s1[i] /\ i <= m
      BY <2>1, <2>3, <1>8, <1>9
    <3>2. i \in 1..Len(s1)
      BY <3>1, <2>1, <1>7 DEF m
    <3>3. CASE a <= i /\ i <= a + d - 1
      <4>1. s1[i] = x1[i - a + 1] /\ s3[i] = x3[i - a + 1]
        BY <3>2, <3>3, <2>1, <1>1, <1>5, <1>6
      <4>2. i - a + 1 \in 1..d /\ i - a + 1 \in 1..e
        BY <3>3, <2>1, <1>1
      <4> QED
        BY <3>1, <4>1, <4>2, <1>2, <1>4
    <3>4. CASE ~(a <= i /\ i <= a + d - 1)
      <4>1. s1[i] = s[i]
        BY <3>2, <3>4, <1>5
      <4>2. ~(a <= i /\ i <= a + e - 1)
        BY <2>1, <2>3, <3>4, <1>1, <1>9
      <4>3. s3[i] = s[i]
        BY <2>1, <4>2, <1>6
      <4> QED
        BY <3>1, <4>1, <4>3
    <3> QED
      BY <3>3, <3>4
  <2> QED
    BY <2>2, <2>3
<1>12. s2 = s3
  BY <1>6, <1>8, <1>10, <1>11, SameWords
<1> QED
  BY <1>12, <1>9 DEF s2, s3, s1, x1, x2, x3, b

LEMMA PutNone ==
  ASSUME NEW s \in Seq(Word), NEW a \in Nat \ {0}, a <= Len(s) + 1
  PROVE  Store!Put(s, a, <<>>) = s
<1> DEFINE t == Store!Put(s, a, <<>>)
<1> DEFINE none == <<>>
<1>6. none \in Seq(Word) /\ Len(none) = 0
  OBVIOUS
<1> HIDE DEF none
<1>2. IsPut(t, s, a, none)
  <2>1. IsPut(Store!Put(s, a, none), s, a, none)
    BY <1>6, PutIs
  <2> QED
    BY <2>1 DEF none
<1> HIDE DEF t
<1>3. Len(t) = Len(s) /\ t \in Seq(Word)
  BY <1>6, <1>2 DEF IsPut
<1>4. \A i \in 1..Len(t) : t[i] = s[i]
  BY <1>6, <1>2, <1>3 DEF IsPut
<1>5. t = s
  BY <1>3, <1>4, SameWords
<1> QED
  BY <1>5 DEF t

LEMMA WithTwice ==
  ASSUME NEW w \in AllFiles, NEW f \in Files, NEW a \in Nat \ {0}, NEW x \in Seq(Word),
         a <= Len(w[f]) + 1, NEW d \in 0..Len(x), NEW e \in d..Len(x)
  PROVE  With(With(w, f, a, SubSeq(x, 1, d)), f, a + d, SubSeq(x, d + 1, e))
             = With(w, f, a, SubSeq(x, 1, e))
<1> DEFINE x1 == SubSeq(x, 1, d)
           w1 == With(w, f, a, x1)
<1>1. w[f] \in Seq(Word)
  BY DEF AllFiles
<1>2. x1 \in Seq(Word)
  <2>1. d \in Nat /\ Len(x) \in Nat /\ d <= Len(x)
    OBVIOUS
  <2>2. 0 \in 0..Len(x) /\ d \in 0..Len(x)
    BY <2>1
  <2>3. SubSeq(x, 0 + 1, d) \in Seq(Word)
    BY <2>2, FirstWords
  <2> QED
    BY <2>3
<1> HIDE DEF x1
<1>3. w1 \in AllFiles /\ w1[f] = Store!Put(w[f], a, x1)
  BY <1>2, WithIs
<1>4. Store!Put(w1[f], a + d, SubSeq(x, d + 1, e)) = Store!Put(w[f], a, SubSeq(x, 1, e))
  <2>1. Store!Put(Store!Put(w[f], a, SubSeq(x, 1, d)), a + d, SubSeq(x, d + 1, e))
            = Store!Put(w[f], a, SubSeq(x, 1, e))
    BY <1>1, PutTwice
  <2> QED
    BY <2>1, <1>3 DEF x1
<1>5. With(w1, f, a + d, SubSeq(x, d + 1, e))
          = [w1 EXCEPT ![f] = Store!Put(w[f], a, SubSeq(x, 1, e))]
  BY <1>4 DEF With
<1> DEFINE y == Store!Put(w[f], a, SubSeq(x, 1, e))
           y1 == Store!Put(w[f], a, x1)
<1>6. w1 = [w EXCEPT ![f] = y1]
  BY DEF With
<1> HIDE DEF w1, y, y1
<1>7. [w1 EXCEPT ![f] = y] = [w EXCEPT ![f] = y]
  BY <1>6 DEF AllFiles
<1> QED
  BY <1>5, <1>7 DEF With, w1, x1, y

LEMMA WithNone ==
  ASSUME NEW w \in AllFiles, NEW f \in Files, NEW a \in Nat \ {0}, a <= Len(w[f]) + 1
  PROVE  With(w, f, a, <<>>) = w
<1>1. w[f] \in Seq(Word)
  BY DEF AllFiles
<1>2. Store!Put(w[f], a, <<>>) = w[f]
  BY <1>1, PutNone
<1>3. [w EXCEPT ![f] = w[f]] = w
  BY DEF AllFiles
<1> QED
  BY <1>2, <1>3 DEF With

\* The step a loop of the model makes, and the states it goes through.
Moved(kind, s, f, a, x, ps, k) ==
    IF kind = "write" THEN WritePiece(s, f, a, x, ps[k])
    ELSE IF kind = "read" THEN ReadPiece(s, f, ps[k])
    ELSE scrap_page(s, {f})

IsRun(kind, st, f, a, x, ps, run, m) ==
    run = [k \in 0..m |-> IF k = 0 THEN st ELSE Moved(kind, run[k - 1], f, a, x, ps, k)]

LEMMA RunExists ==
  ASSUME NEW kind, NEW st, NEW f, NEW a, NEW x, NEW ps, NEW n \in Nat
  PROVE  \E run : IsRun(kind, st, f, a, x, ps, run, n)
<1> DEFINE Good == {m \in 0..n : \E run : IsRun(kind, st, f, a, x, ps, run, m)}
           Bad == (0..n) \ Good
<1>1. n \in Nat
  OBVIOUS
<1>2. 0 \in Good
  <2> DEFINE run == [k \in 0..0 |-> st]
  <2>1. IsRun(kind, st, f, a, x, ps, run, 0)
    BY DEF IsRun
  <2> HIDE DEF run
  <2> QED
    BY <2>1, <1>1
<1>3. ASSUME NEW m \in Good, m + 1 \in 0..n PROVE m + 1 \in Good
  <2>1. PICK old : IsRun(kind, st, f, a, x, ps, old, m)
    BY <1>3
  <2>2. m \in Nat
    BY <1>1
  <2> DEFINE last == Moved(kind, old[m], f, a, x, ps, m + 1)
             run == [k \in 0..(m + 1) |-> IF k = m + 1 THEN last ELSE old[k]]
  <2>3. \A k \in 0..m : old[k] = IF k = 0 THEN st ELSE Moved(kind, old[k - 1], f, a, x, ps, k)
    BY <2>1 DEF IsRun
  <2>4. \A k \in 0..(m + 1) :
            run[k] = IF k = 0 THEN st ELSE Moved(kind, run[k - 1], f, a, x, ps, k)
    <3> TAKE k \in 0..(m + 1)
    <3>1. CASE k = m + 1
      <4>1. k - 1 = m /\ m \in 0..(m + 1) /\ m # m + 1 /\ k # 0
        BY <3>1, <2>2
      <4>2. run[k] = last /\ run[k - 1] = old[m]
        BY <3>1, <4>1
      <4> QED
        BY <3>1, <4>1, <4>2
    <3>2. CASE k # m + 1
      <4>1. k \in 0..m /\ (k # 0 => k - 1 \in 0..(m + 1) /\ k - 1 # m + 1)
        BY <3>2, <2>2
      <4>2. run[k] = old[k] /\ (k # 0 => run[k - 1] = old[k - 1])
        BY <3>2, <4>1
      <4> QED
        BY <4>1, <4>2, <2>3
    <3> QED
      BY <3>1, <3>2
  <2>5. IsRun(kind, st, f, a, x, ps, run, m + 1)
    <3>1. DOMAIN run = 0..(m + 1) /\ run = [k \in DOMAIN run |-> run[k]]
      OBVIOUS
    <3> HIDE DEF run
    <3> QED
      BY <3>1, <2>4 DEF IsRun
  <2> HIDE DEF run
  <2> QED
    BY <2>5, <1>3
<1>4. Bad = {}
  <2> SUFFICES ASSUME Bad # {} PROVE FALSE
    OBVIOUS
  <2>1. Bad \subseteq Nat
    BY <1>1
  <2> HIDE DEF Good
  <2>2. PICK b \in Bad : \A y \in Bad : b <= y
    <3> HIDE DEF Bad
    <3> QED
      BY <2>1, LeastNat
  <2>3. b # 0 /\ b \in Nat /\ b <= n
    BY <1>1, <1>2
  <2>4. b - 1 \in 0..n /\ b - 1 + 1 = b /\ ~(b <= b - 1)
    BY <1>1, <2>3
  <2>5. b - 1 \in Good
    BY <2>2, <2>4
  <2>6. b \in Good
    BY <1>3, <2>2, <2>4, <2>5
  <2> QED
    BY <2>6
<1>5. \E run : IsRun(kind, st, f, a, x, ps, run, n)
  <2>1. n \in Good
    BY <1>1, <1>4
  <2> QED
    BY <2>1
<1> QED
  BY <1>5

LEMMA WriteRun ==
  ASSUME NEW st, NEW f, NEW a, NEW x, NEW ps, Len(ps) \in Nat
  PROVE  \E run : /\ run[0] = st
                  /\ \A k \in 1..Len(ps) : run[k] = WritePiece(run[k - 1], f, a, x, ps[k])
                  /\ WritePieces(st, f, a, x, ps) = run[Len(ps)]
<1> DEFINE n == Len(ps)
           c == CHOOSE run : IsRun("write", st, f, a, x, ps, run, n)
<1>1. n \in Nat
  OBVIOUS
<1>2. IsRun("write", st, f, a, x, ps, c, n)
  <2>1. \E run : IsRun("write", st, f, a, x, ps, run, n)
    BY <1>1, RunExists
  <2> HIDE DEF n
  <2> QED
    BY <2>1
<1>3. WritePieces(st, f, a, x, ps) = c[n]
  BY DEF WritePieces, IsRun, Moved
<1> HIDE DEF c
<1>4. \A k \in 0..n : c[k] = IF k = 0 THEN st ELSE Moved("write", c[k - 1], f, a, x, ps, k)
  BY <1>2 DEF IsRun
<1>5. c[0] = st
  BY <1>1, <1>4
<1>6. \A k \in 1..n : c[k] = WritePiece(c[k - 1], f, a, x, ps[k])
  BY <1>1, <1>4 DEF Moved
<1> QED
  BY <1>3, <1>5, <1>6

LEMMA ReadRun ==
  ASSUME NEW st, NEW f, NEW ps, Len(ps) \in Nat
  PROVE  \E run : /\ run[0] = st
                  /\ \A k \in 1..Len(ps) : run[k] = ReadPiece(run[k - 1], f, ps[k])
                  /\ ReadPieces(st, f, ps) = run[Len(ps)]
<1> DEFINE n == Len(ps)
           c == CHOOSE run : IsRun("read", st, f, 0, <<>>, ps, run, n)
<1>1. n \in Nat
  OBVIOUS
<1>2. IsRun("read", st, f, 0, <<>>, ps, c, n)
  <2>1. \E run : IsRun("read", st, f, 0, <<>>, ps, run, n)
    BY <1>1, RunExists
  <2> HIDE DEF n
  <2> QED
    BY <2>1
<1>3. ReadPieces(st, f, ps) = c[n]
  BY DEF ReadPieces, IsRun, Moved
<1> HIDE DEF c
<1>4. \A k \in 0..n : c[k] = IF k = 0 THEN st ELSE Moved("read", c[k - 1], f, 0, <<>>, ps, k)
  BY <1>2 DEF IsRun
<1>5. c[0] = st
  BY <1>1, <1>4
<1>6. \A k \in 1..n : c[k] = ReadPiece(c[k - 1], f, ps[k])
  BY <1>1, <1>4 DEF Moved
<1> QED
  BY <1>3, <1>5, <1>6

LEMMA FlushRun ==
  ASSUME NEW st, NEW f, Len(st.page[f]) \in Nat
  PROVE  \E run : /\ run[0] = st
                  /\ \A k \in 1..Len(st.page[f]) : run[k] = scrap_page(run[k - 1], {f})
                  /\ wa_pages_flush(st, f) = run[Len(st.page[f])]
<1> DEFINE n == Len(st.page[f])
           c == CHOOSE run : IsRun("flush", st, f, 0, <<>>, <<>>, run, n)
<1>1. n \in Nat
  OBVIOUS
<1>2. IsRun("flush", st, f, 0, <<>>, <<>>, c, n)
  <2>1. \E run : IsRun("flush", st, f, 0, <<>>, <<>>, run, n)
    BY <1>1, RunExists
  <2> HIDE DEF n
  <2> QED
    BY <2>1
<1>3. wa_pages_flush(st, f) = c[n]
  BY DEF wa_pages_flush, IsRun, Moved
<1> HIDE DEF c
<1>4. \A k \in 0..n : c[k] = IF k = 0 THEN st ELSE Moved("flush", c[k - 1], f, 0, <<>>, <<>>, k)
  BY <1>2 DEF IsRun
<1>5. c[0] = st
  BY <1>1, <1>4
<1>6. \A k \in 1..n : c[k] = scrap_page(c[k - 1], {f})
  <2>1. \A k : Moved("flush", c[k - 1], f, 0, <<>>, <<>>, k) = scrap_page(c[k - 1], {f})
    BY DEF Moved
  <2> HIDE DEF n
  <2>2. \A k \in 1..n : k \in 0..n /\ k # 0
    BY <1>1
  <2> QED
    BY <2>1, <2>2, <1>4
<1> QED
  BY <1>3, <1>5, <1>6

\* The words of the pieces before piece k + 1.
Before(ps, a, k) == IF k = 0 THEN 0 ELSE ps[k].from + ps[k].len - a

\* Piece k + 1 starts where the first k end.
Follows(ps, a, n, k) ==
    /\ k \in Nat /\ k + 1 \in 1..Len(ps)
    /\ Before(ps, a, k) \in 0..n /\ Before(ps, a, k + 1) \in 0..n
    /\ ps[k + 1].from = a + Before(ps, a, k)
    /\ Before(ps, a, k + 1) = Before(ps, a, k) + ps[k + 1].len
    /\ ps[k + 1].from \in Nat \ {0} /\ ps[k + 1].len \in Nat \ {0}

LEMMA BeforeIs ==
  ASSUME NEW ps, NEW a \in Nat \ {0}, NEW n \in Nat \ {0}, Pieced(ps, a, n),
         NEW k \in 0..(Len(ps) - 1)
  PROVE  Follows(ps, a, n, k)
<1> DEFINE p == ps[k]
           q == ps[k + 1]
<1>1. k \in Nat /\ k + 1 \in 1..Len(ps) /\ (k # 0 => k \in 1..(Len(ps) - 1) /\ k \in 1..Len(ps))
  BY DEF Pieced
<1>2. /\ q.from \in Nat \ {0} /\ q.len \in Nat \ {0} /\ q.from + q.len <= a + n /\ a <= q.from
  BY <1>1 DEF Pieced, InPage
<1>3. k # 0 => /\ p.from \in Nat \ {0} /\ p.len \in Nat \ {0}
               /\ p.from + p.len <= a + n /\ a <= p.from /\ q.from = p.from + p.len
  BY <1>1 DEF Pieced, InPage
<1>4. k = 0 => q.from = a
  BY DEF Pieced
<1>5. /\ Before(ps, a, k) = IF k = 0 THEN 0 ELSE p.from + p.len - a
      /\ Before(ps, a, k + 1) = q.from + q.len - a
  BY <1>1 DEF Before
<1> HIDE DEF p, q
<1>6. /\ Before(ps, a, k) \in 0..n /\ q.from = a + Before(ps, a, k)
  <2>1. CASE k = 0
    BY <2>1, <1>2, <1>4, <1>5
  <2>2. CASE k # 0
    BY SMTT(40), <2>2, <1>2, <1>3, <1>5
  <2> QED
    BY <2>1, <2>2
<1>7. Before(ps, a, k + 1) \in 0..n /\ Before(ps, a, k + 1) = Before(ps, a, k) + q.len
  BY <1>2, <1>5, <1>6
<1> QED
  BY <1>1, <1>2, <1>6, <1>7 DEF q, Follows

LEMMA BeforeLast ==
  ASSUME NEW ps, NEW a \in Nat \ {0}, NEW n \in Nat \ {0}, Pieced(ps, a, n)
  PROVE  Before(ps, a, Len(ps)) = n
<1> DEFINE m == Len(ps)
           from == ps[m].from
           len == ps[m].len
<1>1. m # 0 /\ from + len = a + n /\ from \in Nat /\ len \in Nat
  <2>1. m \in 1..m /\ from + len = a + n
    BY DEF Pieced
  <2>2. InPage(from, len)
    BY <2>1 DEF Pieced
  <2> QED
    BY <2>1, <2>2 DEF InPage
<1>2. Before(ps, a, m) = from + len - a
  BY <1>1 DEF Before
<1> HIDE DEF from, len
<1> QED
  BY <1>1, <1>2

LEMMA WritePiecesIs ==
  ASSUME ConfigOK, NEW st, NEW w, Sound(st, w), ~st.exited, NEW f \in Files, Paged(f),
         NEW a \in Nat \ {0}, a % 2 = 1, NEW x \in Seq(Word), x # <<>>,
         a <= st.size[f] + 1, a + Len(x) # st.size[f]
  PROVE  Stores(st, WritePieces(st, f, a, x, Pieces(a, Len(x))), w, f, a, x)
<1> DEFINE n == Len(x)
           ps == Pieces(a, n)
           m == Len(ps)
           D(k) == Before(ps, a, k)
<1>1. n \in Nat \ {0}
  OBVIOUS
<1>2. Pieced(ps, a, n)
  BY <1>1, PiecesAre DEF Paged
<1> HIDE DEF ps
<1>3. m \in Nat \ {0}
  BY <1>2 DEF Pieced
<1>4. st \in StateType /\ w \in AllFiles /\ st.size[f] = Len(w[f]) /\ st.size[f] \in Nat
  BY SoundStarts
<1>5. PICK run : /\ run[0] = st
                 /\ \A k \in 1..m : run[k] = WritePiece(run[k - 1], f, a, x, ps[k])
                 /\ WritePieces(st, f, a, x, ps) = run[m]
  BY <1>3, WriteRun
<1> DEFINE Q(k) == Stores(st, run[k], w, f, a, SubSeq(x, 1, D(k)))
           Bad == {k \in 0..m : ~Q(k)}
<1>6. Q(0)
  <2>1. D(0) = 0
    BY DEF Before
  <2>2. SubSeq(x, 1, 0) = <<>>
    OBVIOUS
  <2>3. With(w, f, a, <<>>) = w
    BY <1>4, WithNone
  <2>4. Stores(st, st, w, f, a, <<>>)
    BY <2>3 DEF Stores
  <2> QED
    BY <2>1, <2>2, <2>4, <1>5
<1>7. ASSUME NEW k \in 0..(m - 1), Q(k) PROVE Q(k + 1)
  <2> DEFINE s == run[k]
             t == run[k + 1]
             p == ps[k + 1]
             d == D(k)
             e == D(k + 1)
             x1 == SubSeq(x, 1, d)
             v == With(w, f, a, x1)
             y == SubSeq(x, d + 1, e)
  <2>1. /\ k \in Nat /\ k + 1 \in 1..m /\ d \in 0..n /\ e \in 0..n
        /\ p.from = a + d /\ e = d + p.len
        /\ p.from \in Nat \ {0} /\ p.len \in Nat \ {0}
    <3>1. Follows(ps, a, n, k)
      BY <1>1, <1>2, BeforeIs
    <3> QED
      BY <3>1 DEF Follows
  <2>2. Sound(s, v) /\ ~s.exited /\ s.out = st.out
    BY <1>7 DEF Stores
  <2>3. t = WritePiece(s, f, a, x, p)
    <3>1. k + 1 - 1 = k
      BY <2>1
    <3> QED
      BY <3>1, <2>1, <1>5
  <2> HIDE DEF s, t, d, e
  <2>4. e \in d..n /\ d \in Nat /\ e \in Nat
    BY <2>1
  <2>5. x1 \in Seq(Word) /\ Len(x1) = d
    <3>1. 0 \in 0..Len(x) /\ d \in 0..Len(x)
      BY <2>1
    <3>2. SubSeq(x, 0 + 1, d) \in Seq(Word) /\ Len(SubSeq(x, 0 + 1, d)) = d - 0
      BY <3>1, FirstWords
    <3> QED
      BY <3>2, <2>4
  <2>6. y \in Seq(Word) /\ Len(y) = e - d
    BY <2>1, <2>4, FirstWords
  <2>7. t = wa_page_write(s, f, p.from, y)
    <3>1. p.from - a + 1 = d + 1 /\ p.from - a + p.len = e
      BY <2>1, <2>4
    <3> QED
      BY <3>1, <2>2, <2>3 DEF WritePiece
  <2> HIDE DEF x1, y, p
  <2>8. v \in AllFiles /\ v[f] = Store!Put(w[f], a, x1) /\ w[f] \in Seq(Word)
    <3>1. w[f] \in Seq(Word)
      BY <1>4 DEF AllFiles
    <3> QED
      BY <3>1, <1>4, <2>5, WithIs
  <2>9. IsPut(v[f], w[f], a, x1)
    BY <2>5, <2>8, <1>4, PutIs
  <2> HIDE DEF v
  <2> DEFINE z == Len(w[f])
             l == Len(v[f])
  <2>10. l = (IF a + d - 1 > z THEN a + d - 1 ELSE z) /\ z \in Nat /\ l \in Nat
         /\ a <= z + 1 /\ a + n # z
    BY <2>5, <2>9, <1>4 DEF IsPut
  <2>11. s.size[f] = l
    BY <2>2, SoundStarts
  <2> HIDE DEF z, l
  <2>12. Len(y) = p.len
    BY SMTT(40), <2>1, <2>4, <2>6
  <2>13. InPage(p.from, Len(y)) /\ (\/ p.from + p.len = PageStart(p.from) + P
                                    \/ p.from + p.len = a + n /\ p.len # 0)
    BY <2>1, <2>12, <1>2 DEF Pieced, p
  <2>14. p.from <= s.size[f] + 1
    BY SMTT(40), <2>1, <2>4, <2>10, <2>11
  <2>15. p.from + Len(y) = PageStart(p.from) + P \/ p.from + Len(y) # s.size[f]
    <3>1. p.from + p.len = a + n /\ p.len # 0 => p.from + p.len # l
      <4> HIDE DEF n
      <4> QED
        BY <2>1, <2>4, <2>10, <1>1
    <3> QED
      BY <3>1, <2>11, <2>12, <2>13
  <2>16. Stores(s, t, v, f, p.from, y)
    BY <2>2, <2>6, <2>7, <2>13, <2>14, <2>15, wa_page_writeIs
  <2>17. With(v, f, p.from, y) = With(w, f, a, SubSeq(x, 1, e))
    <3>1. With(With(w, f, a, SubSeq(x, 1, d)), f, a + d, SubSeq(x, d + 1, e))
              = With(w, f, a, SubSeq(x, 1, e))
      BY ZenonT(40), <2>1, <2>4, <1>4, WithTwice
    <3> QED
      BY <3>1, <2>1 DEF v, x1, y
  <2>18. Stores(st, t, w, f, a, SubSeq(x, 1, e))
    BY <2>2, <2>16, <2>17 DEF Stores
  <2> QED
    BY <2>18 DEF t, e
<1> HIDE DEF Q
<1>8. Bad = {}
  <2> SUFFICES ASSUME Bad # {} PROVE FALSE
    OBVIOUS
  <2>1. Bad \subseteq Nat
    BY <1>3
  <2>2. PICK b \in Bad : \A y \in Bad : b <= y
    <3> HIDE DEF Bad
    <3> QED
      BY <2>1, LeastNat
  <2>3. b # 0 /\ b \in Nat /\ b <= m
    BY <1>3, <1>6
  <2>4. b - 1 \in 0..(m - 1) /\ b - 1 \in 0..m /\ b - 1 + 1 = b /\ ~(b <= b - 1)
    BY <1>3, <2>3
  <2>5. Q(b - 1)
    BY <2>2, <2>4
  <2>6. Q(b)
    BY <1>7, <2>4, <2>5
  <2> QED
    BY <2>6
<1>9. Q(m)
  BY <1>3, <1>8
<1>10. D(m) = n /\ SubSeq(x, 1, n) = x
  <2>1. D(m) = n
    BY <1>1, <1>2, BeforeLast
  <2>2. SubSeq(x, 1, n) = x
    <3> DEFINE W == Word
               y == SubSeq(x, 1, n)
    <3>1. x \in Seq(W)
      OBVIOUS
    <3> HIDE DEF W
    <3>2. y \in Seq(W) /\ Len(y) = n /\ \A i \in 1..n : y[i] = x[i]
      BY <3>1
    <3> HIDE DEF y
    <3>3. y = x
      BY <3>1, <3>2
    <3> QED
      BY <3>3 DEF y
  <2> QED
    BY <2>1, <2>2
<1>11. Stores(st, run[m], w, f, a, x)
  BY <1>9, <1>10 DEF Q
<1> QED
  BY <1>5, <1>11 DEF ps
\* The words that the first k pieces of a request read.
ReadSoFar(s, t, w, f, a, d) ==
    /\ Sound(t, w) /\ (config.nb = 1 => ~t.exited)
    /\ ~t.exited => t.out = s.out \o SubSeq(w[f], a, a + d - 1)

\* Words read in two requests, one after the other.
Joined(o, s, a, d, l) ==
    (o \o SubSeq(s, a, a + d - 1)) \o SubSeq(s, a + d, a + d + l - 1)
        = o \o SubSeq(s, a, a + (d + l) - 1)

LEMMA ConcatIs ==
  ASSUME NEW T, NEW s \in Seq(T), NEW t \in Seq(T)
  PROVE  /\ s \o t \in Seq(T) /\ Len(s \o t) = Len(s) + Len(t)
         /\ \A i \in 1..(Len(s) + Len(t)) :
                (s \o t)[i] = IF i <= Len(s) THEN s[i] ELSE t[i - Len(s)]
OBVIOUS

LEMMA AppendWords ==
  ASSUME NEW o \in Seq(Word), NEW s \in Seq(Word), NEW a \in Nat \ {0}, NEW d \in Nat,
         NEW l \in Nat, a + d + l - 1 <= Len(s)
  PROVE  Joined(o, s, a, d, l)
<1> DEFINE W == Word
           x == SubSeq(s, a, a + d - 1)
           y == SubSeq(s, a + d, a + d + l - 1)
           z == SubSeq(s, a, a + (d + l) - 1)
<1>1. s \in Seq(W) /\ o \in Seq(W)
  OBVIOUS
<1> HIDE DEF W
<1>2. x \in Seq(W) /\ Len(x) = d /\ \A i \in 1..d : x[i] = s[a + i - 1]
  BY <1>1
<1>3. y \in Seq(W) /\ Len(y) = l /\ \A i \in 1..l : y[i] = s[a + d + i - 1]
  BY <1>1
<1>4. z \in Seq(W) /\ Len(z) = d + l /\ \A i \in 1..(d + l) : z[i] = s[a + i - 1]
  BY <1>1
<1> HIDE DEF x, y, z
<1> DEFINE c == o \o x
           u == c \o y
           v == o \o z
           h == Len(o)
<1>5. h \in Nat
  BY <1>1
<1>6. c \in Seq(W) /\ Len(c) = h + d
      /\ \A i \in 1..(h + d) : c[i] = IF i <= h THEN o[i] ELSE x[i - h]
  BY <1>1, <1>2, ConcatIs
<1>7. v \in Seq(W) /\ Len(v) = h + (d + l)
      /\ \A i \in 1..(h + (d + l)) : v[i] = IF i <= h THEN o[i] ELSE z[i - h]
  <2>1. /\ v \in Seq(W) /\ Len(v) = Len(o) + Len(z)
        /\ \A i \in 1..(Len(o) + Len(z)) : v[i] = IF i <= Len(o) THEN o[i] ELSE z[i - Len(o)]
    BY <1>1, <1>4, ConcatIs
  <2> HIDE DEF v
  <2> QED
    BY <2>1, <1>4
<1> HIDE DEF c, h
<1>8. u \in Seq(W) /\ Len(u) = (h + d) + l
      /\ \A i \in 1..((h + d) + l) : u[i] = IF i <= h + d THEN c[i] ELSE y[i - (h + d)]
  <2>1. /\ u \in Seq(W) /\ Len(u) = Len(c) + Len(y)
        /\ \A i \in 1..(Len(c) + Len(y)) : u[i] = IF i <= Len(c) THEN c[i] ELSE y[i - Len(c)]
    BY <1>3, <1>6, ConcatIs
  <2> HIDE DEF u
  <2> QED
    BY <2>1, <1>3, <1>6
<1> HIDE DEF u, v
<1> DEFINE k == h + (d + l)
<1>9. k \in Nat /\ k = (h + d) + l
  BY <1>5
<1> HIDE DEF k
<1>10. ASSUME NEW i \in 1..k PROVE u[i] = v[i]
  <2>0. i \in Nat /\ i >= 1 /\ i <= k
    BY <1>9
  <2>1. CASE i <= h
    BY <2>0, <2>1, <1>5, <1>6, <1>7, <1>8, <1>9 DEF k
  <2>2. CASE i > h /\ i <= h + d
    <3>1. i - h \in 1..d /\ i - h \in 1..(d + l) /\ i \in 1..(h + d)
      BY <2>0, <2>2, <1>5
    <3>2. u[i] = c[i] /\ c[i] = x[i - h] /\ v[i] = z[i - h]
      BY <2>0, <2>2, <3>1, <1>5, <1>6, <1>7, <1>8, <1>9 DEF k
    <3> QED
      BY <3>1, <3>2, <1>2, <1>4
  <2>3. CASE i > h + d
    <3>1. i - (h + d) \in 1..l /\ i - h \in 1..(d + l)
      BY <2>0, <2>3, <1>5, <1>9
    <3>2. u[i] = y[i - (h + d)]
      <4>1. i \in 1..((h + d) + l) /\ ~(i <= h + d)
        BY <2>0, <2>3, <1>5, <1>9
      <4> QED
        BY <4>1, <1>8
    <3>3. v[i] = z[i - h]
      BY <2>0, <2>3, <1>5, <1>7, <1>9 DEF k
    <3>4. y[i - (h + d)] = s[a + d + (i - (h + d)) - 1]
      BY <3>1, <1>3
    <3>5. z[i - h] = s[a + (i - h) - 1]
      BY <3>1, <1>4
    <3>6. a + d + (i - (h + d)) - 1 = a + (i - h) - 1
      BY <2>0, <1>5
    <3> QED
      BY <3>2, <3>3, <3>4, <3>5, <3>6
  <2> QED
    BY <2>0, <2>1, <2>2, <2>3, <1>5
<1>11. Len(u) = k /\ Len(v) = k
  BY <1>7, <1>8, <1>9 DEF k
<1>12. u = v
  BY <1>7, <1>8, <1>10, <1>11
<1> QED
  BY <1>12 DEF c, u, v, x, y, z, Joined

LEMMA ReadPiecesIs ==
  ASSUME ConfigOK, NEW st, NEW w, Sound(st, w), ~st.exited, NEW f \in Files, Paged(f),
         NEW a \in Nat \ {0}, a % 2 = 1, NEW n \in Nat \ {0}, a + n - 1 <= st.size[f]
  PROVE  ReadSoFar(st, ReadPieces(st, f, Pieces(a, n)), w, f, a, n)
<1> DEFINE ps == Pieces(a, n)
           m == Len(ps)
           D(k) == Before(ps, a, k)
<1>1. n \in Nat \ {0}
  OBVIOUS
<1>2. Pieced(ps, a, n)
  BY PiecesAre DEF Paged
<1> HIDE DEF ps
<1>3. m \in Nat \ {0}
  BY <1>2 DEF Pieced
<1>4. st \in StateType /\ w \in AllFiles /\ st.size[f] = Len(w[f]) /\ st.size[f] \in Nat
  BY SoundStarts
<1>5. PICK run : /\ run[0] = st
                 /\ \A k \in 1..m : run[k] = ReadPiece(run[k - 1], f, ps[k])
                 /\ ReadPieces(st, f, ps) = run[m]
  BY <1>3, ReadRun
<1>12. w[f] \in Seq(Word) /\ st.out \in Seq(Word)
  BY <1>4 DEF AllFiles, StateType
<1> DEFINE Q(k) == ReadSoFar(st, run[k], w, f, a, D(k))
           Bad == {k \in 0..m : ~Q(k)}
<1>6. Q(0)
  <2>1. D(0) = 0
    BY DEF Before
  <2>2. st.out \o SubSeq(w[f], a, a + 0 - 1) = st.out
    <3> DEFINE W == Word
               o == st.out
               s == w[f]
    <3>1. o \in Seq(W) /\ s \in Seq(W)
      BY <1>12
    <3> HIDE DEF W, o, s
    <3>2. SubSeq(s, a, a + 0 - 1) = <<>>
      BY <3>1
    <3>3. o \o <<>> = o
      BY <3>1
    <3> QED
      BY <3>2, <3>3 DEF o, s
  <2> QED
    BY <2>1, <2>2, <1>5 DEF ReadSoFar
<1>7. ASSUME NEW k \in 0..(m - 1), Q(k) PROVE Q(k + 1)
  <2> DEFINE s == run[k]
             t == run[k + 1]
             p == ps[k + 1]
             d == D(k)
             e == D(k + 1)
  <2>1. /\ k \in Nat /\ k + 1 \in 1..m /\ d \in 0..n /\ e \in 0..n
        /\ p.from = a + d /\ e = d + p.len
        /\ p.from \in Nat \ {0} /\ p.len \in Nat \ {0}
    <3>1. Follows(ps, a, n, k)
      BY <1>1, <1>2, BeforeIs
    <3> QED
      BY <3>1 DEF Follows
  <2>2. Sound(s, w) /\ (config.nb = 1 => ~s.exited)
        /\ (~s.exited => s.out = st.out \o SubSeq(w[f], a, a + d - 1))
    BY <1>7 DEF ReadSoFar
  <2>3. t = ReadPiece(s, f, p)
    <3>1. k + 1 - 1 = k
      BY <2>1
    <3> QED
      BY <3>1, <2>1, <1>5
  <2>4. InPage(p.from, p.len)
    BY <2>1, <1>2 DEF Pieced
  <2> DEFINE b == p.from
             l == p.len
  <2>5. b = a + d /\ e = d + l /\ b \in Nat \ {0} /\ l \in Nat \ {0} /\ InPage(b, l)
        /\ d \in Nat /\ e \in Nat /\ e <= n
    BY <2>1, <2>4
  <2>6. t = IF s.exited THEN s ELSE wa_page_read(s, f, b, l)
    BY <2>3 DEF ReadPiece
  <2> HIDE DEF s, t, d, e, b, l
  <2>7. CASE s.exited
    <3>1. t = s
      BY <2>6, <2>7
    <3>2. ReadSoFar(st, t, w, f, a, e)
      BY <2>2, <2>7, <3>1 DEF ReadSoFar
    <3> QED
      BY <3>2 DEF t, e
  <2>8. CASE ~s.exited
    <3>1. t = wa_page_read(s, f, b, l)
      BY <2>6, <2>8
    <3>2. b + l - 1 <= s.size[f]
      <4>1. s.size[f] = Len(w[f])
        BY <2>2, SoundStarts
      <4>2. st.size[f] = s.size[f]
        BY <4>1, <1>4
      <4> QED
        BY <4>2, <2>5, <1>4
    <3>3. Gets(s, t, w, f, b, l)
      BY <2>2, <2>5, <2>8, <3>1, <3>2, wa_page_readIs
    <3>4. Sound(t, w) /\ (config.nb = 1 => ~t.exited)
          /\ t.out = (st.out \o SubSeq(w[f], a, a + d - 1)) \o SubSeq(w[f], b, b + l - 1)
      BY <2>2, <2>8, <3>3 DEF Gets
    <3>5. (st.out \o SubSeq(w[f], a, a + d - 1)) \o SubSeq(w[f], a + d, a + d + l - 1)
              = st.out \o SubSeq(w[f], a, a + (d + l) - 1)
      <4>1. a + d + l - 1 <= Len(w[f])
        BY <2>5, <1>4
      <4> DEFINE o == st.out
                 z == w[f]
      <4>2. o \in Seq(Word) /\ z \in Seq(Word) /\ a + d + l - 1 <= Len(z) /\ d \in Nat /\ l \in Nat
        BY <4>1, <2>5, <1>12
      <4> HIDE DEF o, z
      <4>3. Joined(o, z, a, d, l)
        BY <4>2, AppendWords
      <4> QED
        BY <4>3 DEF o, z, Joined
    <3>6. t.out = st.out \o SubSeq(w[f], a, a + e - 1)
      BY <3>4, <3>5, <2>5
    <3>7. ReadSoFar(st, t, w, f, a, e)
      BY <3>4, <3>6 DEF ReadSoFar
    <3> QED
      BY <3>7 DEF t, e
  <2> QED
    BY <2>7, <2>8
<1> HIDE DEF Q
<1>8. Bad = {}
  <2> SUFFICES ASSUME Bad # {} PROVE FALSE
    OBVIOUS
  <2>1. Bad \subseteq Nat
    BY <1>3
  <2>2. PICK b \in Bad : \A y \in Bad : b <= y
    <3> HIDE DEF Bad
    <3> QED
      BY <2>1, LeastNat
  <2>3. b # 0 /\ b \in Nat /\ b <= m
    BY <1>3, <1>6
  <2>4. b - 1 \in 0..(m - 1) /\ b - 1 \in 0..m /\ b - 1 + 1 = b /\ ~(b <= b - 1)
    BY <1>3, <2>3
  <2>5. Q(b - 1)
    BY <2>2, <2>4
  <2>6. Q(b)
    BY <1>7, <2>4, <2>5
  <2> QED
    BY <2>6
<1>9. Q(m)
  BY <1>3, <1>8
<1>10. D(m) = n
  BY <1>2, BeforeLast
<1>11. ReadSoFar(st, run[m], w, f, a, n)
  BY <1>9, <1>10 DEF Q
<1> QED
  BY <1>5, <1>11 DEF ps
\* Closing writes every page out.
LEMMA wa_pages_flushIs ==
  ASSUME ConfigOK, NEW st, NEW w, Sound(st, w), NEW f \in Files
  PROVE  /\ Sound(wa_pages_flush(st, f), w) /\ Relieved(st, wa_pages_flush(st, f))
         /\ wa_pages_flush(st, f).page[f] = <<>>
<1> DEFINE n == Len(st.page[f])
<1>1. st \in StateType
  BY DEF Sound
<1>2. n \in Nat
  <2>1. st.page[f] \in Seq(PageType)
    BY <1>1 DEF StateType
  <2> QED
    BY <2>1
<1>3. PICK run : /\ run[0] = st
                 /\ \A k \in 1..n : run[k] = scrap_page(run[k - 1], {f})
                 /\ wa_pages_flush(st, f) = run[n]
  BY <1>2, FlushRun
<1> DEFINE Q(k) == /\ Sound(run[k], w) /\ Relieved(st, run[k])
                   /\ Len(run[k].page[f]) = n - k
           Bad == {k \in 0..n : ~Q(k)}
<1>4. Q(0)
  <2>1. Relieved(st, st)
    BY <1>1, RelievedSame
  <2> QED
    BY <2>1, <1>2, <1>3
<1> HIDE DEF n
<1>5. ASSUME NEW k \in 0..(n - 1), Q(k) PROVE Q(k + 1)
  <2> DEFINE s == run[k]
             t == run[k + 1]
  <2>1. k \in Nat /\ k + 1 \in 1..n /\ k + 1 - 1 = k /\ n - k > 0
    BY <1>2
  <2>2. t = scrap_page(s, {f})
    BY <2>1, <1>3
  <2>3. Sound(s, w) /\ Relieved(st, s) /\ Len(s.page[f]) = n - k
    BY <1>5
  <2> HIDE DEF s, t
  <2>4. s \in StateType
    BY <2>3 DEF Sound
  <2>5. s.page[f] # <<>>
    <3>1. s.page[f] \in Seq(PageType)
      BY <2>4 DEF StateType
    <3>2. Len(s.page[f]) # 0
      BY <2>1, <2>3, <1>2
    <3> QED
      BY <3>1, <3>2
  <2>6. f \in {f} /\ {f} \subseteq Files
    OBVIOUS
  <2>7. /\ Sound(t, w) /\ Relieved(s, t)
        /\ \E g \in {f} : Len(t.page[g]) = Len(s.page[g]) - 1
    BY <2>2, <2>3, <2>5, <2>6, scrap_pageIs
  <2>8. t \in StateType
    BY <2>7 DEF Sound
  <2>9. Relieved(st, t)
    BY <2>3, <2>4, <2>7, <2>8, <1>1, RelievedTwice
  <2>10. Len(t.page[f]) = n - (k + 1)
    <3>1. Len(t.page[f]) = Len(s.page[f]) - 1
      BY <2>7
    <3> QED
      BY <3>1, <2>1, <2>3, <1>2
  <2> QED
    BY <2>7, <2>9, <2>10 DEF t
<1> HIDE DEF Q
<1>6. Bad = {}
  <2> SUFFICES ASSUME Bad # {} PROVE FALSE
    OBVIOUS
  <2>1. Bad \subseteq Nat
    BY <1>2
  <2>2. PICK b \in Bad : \A y \in Bad : b <= y
    <3> HIDE DEF Bad
    <3> QED
      BY <2>1, LeastNat
  <2>3. b # 0 /\ b \in Nat /\ b <= n
    BY <1>2, <1>4
  <2>4. b - 1 \in 0..(n - 1) /\ b - 1 \in 0..n /\ b - 1 + 1 = b /\ ~(b <= b - 1)
    BY <1>2, <2>3
  <2>5. Q(b - 1)
    BY <2>2, <2>4
  <2>6. Q(b)
    BY <1>5, <2>4, <2>5
  <2> QED
    BY <2>6
<1>7. Sound(run[n], w) /\ Relieved(st, run[n]) /\ Len(run[n].page[f]) = n - n
  <2>1. Q(n)
    BY <1>2, <1>6
  <2> QED
    BY <2>1 DEF Q
<1>8. run[n].page[f] = <<>>
  <2>1. run[n] \in StateType
    BY <1>7 DEF Sound
  <2>2. run[n].page[f] \in Seq(PageType)
    BY <2>1 DEF StateType
  <2>3. Len(run[n].page[f]) = 0
    BY <1>2, <1>7
  <2> QED
    BY <2>2, <2>3
<1> QED
  BY <1>3, <1>7, <1>8

-----------------------------------------------------------------------------
(* Requests: without pages, at the end of a file, and cut at its end.       *)

\* Without pages, write(2) puts the words where the call says.
LEMMA OverlayIsPut ==
  ASSUME NEW s \in Seq(Word), NEW a \in Nat \ {0}, NEW x \in Seq(Word), a <= Len(s) + 1
  PROVE  Overlay(s, a, x) = Store!Put(s, a, x)
<1> DEFINE y == Overlay(s, a, x)
           z == Store!Put(s, a, x)
           l == Len(s)
           n == Len(x)
<1>1. l \in Nat /\ n \in Nat /\ a <= l + 1
  OBVIOUS
<1>2. /\ y \in Seq(Word) /\ Len(y) = IF l >= a + n - 1 THEN l ELSE a + n - 1
      /\ \A i \in 1..Len(y) : y[i] = IF a <= i /\ i <= a + n - 1 THEN x[i - a + 1]
                                     ELSE IF i <= l THEN s[i] ELSE 0
  BY OverlayIs
<1>3. IsPut(z, s, a, x)
  BY PutIs
<1> HIDE DEF y, z
<1>4. /\ z \in Seq(Word) /\ Len(z) = IF a + n - 1 > l THEN a + n - 1 ELSE l
      /\ \A i \in 1..Len(z) : IF a <= i /\ i <= a + n - 1 THEN z[i] = x[i - a + 1]
                              ELSE i <= l /\ z[i] = s[i]
  BY <1>3 DEF IsPut
<1> HIDE DEF l, n
<1>5. Len(y) = Len(z)
  BY <1>1, <1>2, <1>4
<1>6. \A i \in 1..Len(y) : y[i] = z[i]
  BY <1>2, <1>4, <1>5
<1>7. y = z
  BY <1>2, <1>4, <1>5, <1>6, SameWords
<1> QED
  BY <1>7 DEF y, z

\* A file that is written on disk, with no page.
DiskOnly(s, t, f, words, size) ==
    /\ t \in StateType /\ t.page = s.page /\ t.nfree = s.nfree /\ t.count = s.count
    /\ t.exited = s.exited /\ t.out = s.out
    /\ t.disk[f] = words /\ t.size[f] = size
    /\ \A g \in Files \ {f} : t.disk[g] = s.disk[g] /\ t.size[g] = s.size[g]

LEMMA DiskOnlyIs ==
  ASSUME NEW s \in StateType, NEW f \in Files, NEW words \in Seq(Word), NEW size \in Nat
  PROVE  DiskOnly(s, [s EXCEPT !.disk[f] = words, !.size[f] = size], f, words, size)
<1> DEFINE t == [s EXCEPT !.disk[f] = words, !.size[f] = size]
           d == [s.disk EXCEPT ![f] = words]
           z == [s.size EXCEPT ![f] = size]
<1>1. d \in [Files -> Seq(Word)] /\ d[f] = words /\ \A g \in Files \ {f} : d[g] = s.disk[g]
  BY DEF StateType
<1>2. z \in [Files -> Nat] /\ z[f] = size /\ \A g \in Files \ {f} : z[g] = s.size[g]
  BY DEF StateType
<1>3. t = [[s EXCEPT !.disk = d] EXCEPT !.size = z]
  BY DEF StateType
<1> HIDE DEF d, z
<1>4. t.disk = d /\ t.size = z /\ t.page = s.page /\ t.nfree = s.nfree /\ t.count = s.count
      /\ t.exited = s.exited /\ t.out = s.out /\ t \in StateType
  BY <1>1, <1>2, <1>3 DEF StateType
<1> HIDE DEF t
<1>5. DiskOnly(s, t, f, words, size)
  BY <1>1, <1>2, <1>4 DEF DiskOnly
<1> QED
  BY <1>5 DEF t

LEMMA OtherFile ==
  ASSUME NEW s, NEW t, NEW w, NEW v, NEW g, ShowsAt(s, w, g),
         t.page[g] = s.page[g], t.disk[g] = s.disk[g], t.size[g] = s.size[g], v[g] = w[g]
  PROVE  ShowsAt(t, v, g)
BY DEF ShowsAt, FileShows, Plain, PageShows, Held, OnDisk

LEMMA CountedSame ==
  ASSUME NEW s, Counted(s), NEW t, t.page = s.page, t.nfree = s.nfree, t.count = s.count
  PROVE  Counted(t)
BY DEF Counted, Pages

\* qqcwawr without pages.
DiskWritten(st, f, a, x) ==
    [st EXCEPT !.disk[f] = Overlay(@, a, x), !.size[f] = Max({@, a + Len(x) - 1})]

LEMMA WriteOnDisk ==
  ASSUME ConfigOK, NEW st, NEW w, Sound(st, w), ~st.exited, NEW f \in Files, InUse(f), P = 0,
         NEW a \in Nat \ {0}, NEW x \in Seq(Word), a <= st.size[f] + 1
  PROVE  Stores(st, DiskWritten(st, f, a, x), w, f, a, x)
<1> DEFINE y == Overlay(st.disk[f], a, x)
           l == st.size[f]
           n == Len(x)
           z == Max({l, a + n - 1})
           t == [st EXCEPT !.disk[f] = y, !.size[f] = z]
           v == With(w, f, a, x)
<1>1. st \in StateType /\ w \in AllFiles /\ Shows(st, w) /\ Counted(st)
  BY DEF Sound
<1>2. st.page[f] = <<>> /\ w[f] = st.disk[f] /\ l = Len(w[f]) /\ w[f] \in Seq(Word)
  <2>1. ShowsAt(st, w, f) /\ w[f] \in Seq(Word)
    BY <1>1 DEF Shows, AllFiles
  <2>2. ~Paged(f)
    BY DEF Paged
  <2> QED
    BY <2>1, <2>2 DEF ShowsAt, Plain
<1>3. y = Store!Put(w[f], a, x)
  BY <1>2, OverlayIsPut
<1>4. IsPut(y, w[f], a, x)
  BY <1>2, <1>3, PutIs
<1>5. l \in Nat /\ n \in Nat /\ z = (IF l >= a + n - 1 THEN l ELSE a + n - 1) /\ z \in Nat
  <2>1. l \in Nat /\ n \in Nat
    BY <1>1 DEF StateType
  <2>2. a + n - 1 \in Int
    BY <2>1
  <2>3. Max({l, a + n - 1}) = IF l >= a + n - 1 THEN l ELSE a + n - 1
    BY <2>1, <2>2, MaxOfTwo
  <2> QED
    BY <2>1, <2>2, <2>3
<1>6. y \in Seq(Word) /\ Len(y) = z
  <2>1. y \in Seq(Word) /\ Len(y) = IF a + n - 1 > l THEN a + n - 1 ELSE l
    BY <1>2, <1>4 DEF IsPut
  <2> HIDE DEF y, l, n, z
  <2> QED
    BY <2>1, <1>5
<1>7. v \in AllFiles /\ v[f] = y /\ \A g \in Files \ {f} : v[g] = w[g]
  BY <1>1, <1>2, <1>3, WithIs
<1> HIDE DEF y, z, v
<1>8. DiskOnly(st, t, f, y, z)
  BY <1>1, <1>5, <1>6, DiskOnlyIs
<1> HIDE DEF t
<1>9. ASSUME NEW g \in Files PROVE ShowsAt(t, v, g)
  <2>1. CASE g = f
    <3>1. Plain(t, v, f) /\ t.size[f] = Len(v[f])
      BY <1>2, <1>6, <1>7, <1>8 DEF Plain, DiskOnly
    <3> QED
      BY <3>1, <2>1 DEF ShowsAt, Paged
  <2>2. CASE g # f
    <3>1. ShowsAt(st, w, g)
      BY <1>1 DEF Shows
    <3>2. /\ t.page[g] = st.page[g] /\ t.disk[g] = st.disk[g] /\ t.size[g] = st.size[g]
          /\ v[g] = w[g]
      BY <2>2, <1>7, <1>8 DEF DiskOnly
    <3> QED
      BY <3>1, <3>2, OtherFile
  <2> QED
    BY <2>1, <2>2
<1>10. Counted(t)
  BY <1>1, <1>8, CountedSame DEF DiskOnly
<1>11. Sound(t, v)
  BY <1>7, <1>8, <1>9, <1>10 DEF Sound, Shows, DiskOnly
<1>12. Stores(st, t, w, f, a, x)
  BY <1>8, <1>11 DEF Stores, DiskOnly, v
<1> QED
  BY <1>12 DEF t, y, z, l, n, DiskWritten

LEMMA qqcwawrIs ==
  ASSUME ConfigOK, NEW st, NEW w, Sound(st, w), ~st.exited, NEW f \in Files, InUse(f),
         NEW a \in Nat \ {0}, a % 2 = 1, NEW x \in Seq(Word), x # <<>>,
         a <= st.size[f] + 1, a + Len(x) # st.size[f]
  PROVE  Stores(st, qqcwawr(st, f, a, x), w, f, a, x)
<1>1. CASE P = 0
  <2>1. qqcwawr(st, f, a, x) = DiskWritten(st, f, a, x)
    BY <1>1 DEF qqcwawr, DiskWritten
  <2> QED
    BY <2>1, <1>1, WriteOnDisk
<1>2. CASE P # 0
  <2>1. qqcwawr(st, f, a, x) = WritePieces(st, f, a, x, Pieces(a, Len(x)))
    BY <1>2 DEF qqcwawr
  <2>2. Paged(f)
    BY <1>2 DEF Paged, ConfigOK, P
  <2>3. Stores(st, WritePieces(st, f, a, x, Pieces(a, Len(x))), w, f, a, x)
    BY <2>2, WritePiecesIs
  <2> QED
    BY <2>1, <2>3
<1> QED
  BY <1>1, <1>2

LEMMA qqcwardIs ==
  ASSUME ConfigOK, NEW st, NEW w, Sound(st, w), ~st.exited, st.out = <<>>,
         NEW f \in Files, InUse(f),
         NEW a \in Nat \ {0}, a % 2 = 1, NEW n \in Nat \ {0}, a + n - 1 <= st.size[f]
  PROVE  ReadSoFar(st, qqcward(st, f, a, n), w, f, a, n)
<1>1. CASE P = 0
  <2> DEFINE x == SubSeq(st.disk[f], a, a + n - 1)
             t == [st EXCEPT !.out = x]
  <2>1. qqcward(st, f, a, n) = t
    BY <1>1 DEF qqcward
  <2>2. st \in StateType /\ w \in AllFiles /\ Shows(st, w) /\ Counted(st)
    BY DEF Sound
  <2>3. w[f] = st.disk[f] /\ st.size[f] = Len(w[f]) /\ w[f] \in Seq(Word)
    <3>1. ShowsAt(st, w, f) /\ w[f] \in Seq(Word)
      BY <2>2 DEF Shows, AllFiles
    <3>2. ~Paged(f)
      BY <1>1 DEF Paged
    <3> QED
      BY <3>1, <3>2 DEF ShowsAt, Plain
  <2>4. x \in Seq(Word)
    <3> DEFINE W == Word
               s == st.disk[f]
    <3>1. s \in Seq(W) /\ a + n - 1 <= Len(s)
      BY <2>3
    <3> HIDE DEF W, s
    <3>2. SubSeq(s, a, a + n - 1) \in Seq(W)
      BY <3>1
    <3> QED
      BY <3>2 DEF W, s
  <2>5. x = st.out \o SubSeq(w[f], a, a + n - 1)
    <3>1. x = SubSeq(w[f], a, a + n - 1)
      BY <2>3
    <3> DEFINE W == Word
    <3>2. x \in Seq(W)
      BY <2>4
    <3> HIDE DEF x, W
    <3>3. <<>> \o x = x
      BY <3>2
    <3> QED
      BY <3>1, <3>3
  <2> HIDE DEF x
  <2>6. /\ t \in StateType /\ t.page = st.page /\ t.disk = st.disk /\ t.size = st.size
        /\ t.nfree = st.nfree /\ t.count = st.count /\ t.exited = st.exited /\ t.out = x
    BY <2>2, <2>4 DEF StateType
  <2> HIDE DEF t
  <2>7. Shows(t, w) /\ Counted(t)
    BY <2>2, <2>6, SameShows, CountedSame
  <2>8. Sound(t, w) /\ ~t.exited /\ t.out = st.out \o SubSeq(w[f], a, a + n - 1)
    BY <2>2, <2>5, <2>6, <2>7 DEF Sound
  <2>9. ReadSoFar(st, t, w, f, a, n)
    BY <2>8 DEF ReadSoFar
  <2> QED
    BY <2>1, <2>9
<1>2. CASE P # 0
  <2>1. qqcward(st, f, a, n) = ReadPieces(st, f, Pieces(a, n))
    BY <1>2 DEF qqcward
  <2>2. Paged(f)
    BY <1>2 DEF Paged, ConfigOK, P
  <2>3. ReadSoFar(st, ReadPieces(st, f, Pieces(a, n)), w, f, a, n)
    BY <2>2, ReadPiecesIs
  <2> QED
    BY <2>1, <2>3
<1> QED
  BY <1>1, <1>2

\* What Put makes of a file, a hole or not.
PutAt(s, a, x, i) == IF a <= i /\ i <= a + Len(x) - 1 THEN x[i - a + 1]
                     ELSE IF i <= Len(s) THEN s[i] ELSE Junk

LEMMA PutAny ==
  ASSUME NEW s \in Seq(Word), NEW a \in Nat \ {0}, NEW x \in Seq(Word)
  PROVE  /\ Store!Put(s, a, x) \in Seq(Word)
         /\ Len(Store!Put(s, a, x)) = IF a + Len(x) - 1 > Len(s) THEN a + Len(x) - 1 ELSE Len(s)
         /\ \A i \in 1..Len(Store!Put(s, a, x)) : Store!Put(s, a, x)[i] = PutAt(s, a, x, i)
<1> DEFINE W == Word
           m == IF a + Len(x) - 1 > Len(s) THEN a + Len(x) - 1 ELSE Len(s)
           e(i) == IF i \in a..(a + Len(x) - 1) THEN x[i - a + 1]
                   ELSE IF i <= Len(s) THEN s[i] ELSE Junk
           y == [i \in 1..m |-> e(i)]
<1>1. m \in Nat
  OBVIOUS
<1>2. Store!Put(s, a, x) = y
  BY DEF Store!Put
<1>3. s \in Seq(W) /\ x \in Seq(W) /\ Junk \in W
  BY DEF Word
<1> HIDE DEF W
<1>4. \A i \in 1..m : e(i) \in W
  BY <1>3
<1>5. \A i \in 1..m : e(i) = PutAt(s, a, x, i)
  BY DEF PutAt
<1> HIDE DEF m, e
<1>6. y \in Seq(W) /\ Len(y) = m
  BY <1>1, <1>4
<1>7. \A i \in 1..m : y[i] = e(i)
  OBVIOUS
<1> HIDE DEF y
<1> QED
  BY <1>2, <1>5, <1>6, <1>7 DEF m, W

\* A hole filled up to the word that the request starts with leaves what the request
\* would leave.
NoHole(s, a, x, h) ==
    /\ Store!Put(Store!Put(s, Len(s) + 1, h), a, x) = Store!Put(s, a, x)
    /\ Len(Store!Put(s, Len(s) + 1, h)) = a

LEMMA HoleIs ==
  ASSUME NEW s \in Seq(Word), NEW a \in Nat \ {0}, a > Len(s) + 1,
         NEW x \in Seq(Word), x # <<>>, NEW h \in Seq(Word), Len(h) = a - Len(s),
         \A i \in 1..Len(h) : h[i] = Junk
  PROVE  NoHole(s, a, x, h)
<1> DEFINE l == Len(s)
           n == Len(x)
           k == Len(h)
           r == Store!Put(s, l + 1, h)
           u == Store!Put(r, a, x)
           z == Store!Put(s, a, x)
<1>1. l \in Nat /\ n \in Nat \ {0} /\ k = a - l /\ a > l + 1 /\ k \in Nat /\ l + 1 \in Nat \ {0}
  OBVIOUS
<1>2. /\ r \in Seq(Word) /\ Len(r) = IF l + 1 + k - 1 > l THEN l + 1 + k - 1 ELSE l
      /\ \A i \in 1..Len(r) : r[i] = PutAt(s, l + 1, h, i)
  BY <1>1, PutAny
<1> HIDE DEF r
<1>3. Len(r) = a
  <2> HIDE DEF l, k
  <2> QED
    BY <1>1, <1>2
<1>4. /\ u \in Seq(Word) /\ Len(u) = IF a + n - 1 > Len(r) THEN a + n - 1 ELSE Len(r)
      /\ \A i \in 1..Len(u) : u[i] = PutAt(r, a, x, i)
  BY <1>2, PutAny
<1>5. /\ z \in Seq(Word) /\ Len(z) = IF a + n - 1 > l THEN a + n - 1 ELSE l
      /\ \A i \in 1..Len(z) : z[i] = PutAt(s, a, x, i)
  BY PutAny
<1> HIDE DEF u, z
<1>6. Len(u) = a + n - 1 /\ Len(z) = a + n - 1
  <2> HIDE DEF l, n, k
  <2> QED
    BY <1>1, <1>3, <1>4, <1>5
<1>7. ASSUME NEW i \in 1..(a + n - 1) PROVE u[i] = z[i]
  <2>1. u[i] = PutAt(r, a, x, i) /\ z[i] = PutAt(s, a, x, i) /\ i \in Nat /\ i >= 1
    BY <1>1, <1>4, <1>5, <1>6
  <2>2. CASE a <= i /\ i <= a + n - 1
    BY <2>1, <2>2 DEF PutAt
  <2>3. CASE ~(a <= i /\ i <= a + n - 1)
    <3>1. i < a /\ i \in 1..a
      BY <2>1, <2>3, <1>1
    <3>2. u[i] = r[i] /\ r[i] = PutAt(s, l + 1, h, i)
      BY <2>1, <2>3, <3>1, <1>2, <1>3 DEF PutAt
    <3>3. z[i] = IF i <= l THEN s[i] ELSE Junk
      BY <2>1, <2>3 DEF PutAt
    <3>4. CASE i <= l
      BY <3>2, <3>3, <3>4, <2>1, <1>1 DEF PutAt
    <3>5. CASE i > l
      <4>1. i - (l + 1) + 1 \in 1..k /\ l + 1 <= i /\ i <= l + 1 + k - 1
        BY <3>1, <3>5, <2>1, <1>1
      <4>2. r[i] = Junk
        BY <3>2, <4>1 DEF PutAt
      <4>3. ~(i <= l)
        BY <3>5, <2>1, <1>1
      <4> QED
        BY <3>2, <3>3, <4>2, <4>3
    <3> QED
      BY <3>4, <3>5, <2>1, <1>1
  <2> QED
    BY <2>2, <2>3
<1>8. u = z
  BY <1>4, <1>5, <1>6, <1>7, SameWords
<1> QED
  BY <1>3, <1>8 DEF u, z, r, NoHole

LEMMA SameWord ==
  ASSUME NEW d \in Nat \ {0}, NEW v \in Word
  PROVE  /\ [i \in 1..d |-> v] \in Seq(Word) /\ Len([i \in 1..d |-> v]) = d
         /\ [i \in 1..d |-> v] # <<>>
         /\ \A k \in 1..Len([i \in 1..d |-> v]) : [i \in 1..d |-> v][k] = v
OBVIOUS

LEMMA StateIs ==
  ASSUME NEW w, Sound(State, w)
  PROVE  /\ ~State.exited /\ State.out = <<>> /\ State.size = file_size
         /\ State.page = page /\ State.disk = disk
         /\ State.nfree = nfree /\ State.count = global_count
BY DEF State

LEMMA c_wawrit2Is ==
  ASSUME ConfigOK, NEW w, Sound(State, w), NEW f \in Files, InUse(f), file_size[f] % 2 = 0,
         NEW a \in Nat \ {0}, a % 2 = 1, NEW x \in Seq(Word), x # <<>>, Len(x) % 2 = 0,
         a <= file_size[f] + WaHole
  PROVE  Stores(State, c_wawrit2(f, a, x), w, f, a, x)
<1> DEFINE l == file_size[f]
           n == Len(x)
           s == HoleFilled(f, a)
<1>1. ~State.exited /\ State.size = file_size /\ State \in StateType /\ w \in AllFiles
  BY StateIs DEF Sound
<1>2. l \in Nat /\ n \in Nat \ {0} /\ WaHole \in Nat /\ l = Len(w[f]) /\ w[f] \in Seq(Word)
  <2>1. ShowsAt(State, w, f)
    BY DEF Sound, Shows
  <2>2. State.size[f] = Len(w[f])
    BY <2>1 DEF ShowsAt
  <2>3. State.size[f] \in Nat /\ w[f] \in Seq(Word)
    BY <1>1 DEF StateType, AllFiles
  <2> QED
    BY SMTT(40), <2>2, <2>3, <1>1, WaAssumption
<1>3. c_wawrit2(f, a, x) = Request(s, f, a, x)
  <2>1. ~(a > l + WaHole)
    BY <1>2
  <2> QED
    BY <2>1 DEF c_wawrit2
<1>4. CASE a <= l + 1
  <2>1. s = State
    <3>1. ~(a > l + 1)
      BY <1>2, <1>4
    <3> QED
      BY <3>1 DEF HoleFilled
  <2>2. a + n # l
    <3> HIDE DEF n, l
    <3>1. a \in Nat /\ n \in Nat /\ l \in Nat /\ a % 2 = 1 /\ n % 2 = 0 /\ l % 2 = 0
      BY <1>2 DEF n, l
    <3> QED
      BY <3>1
  <2>3. Stores(State, qqcwawr(State, f, a, x), w, f, a, x)
    BY <1>1, <1>4, <2>2, qqcwawrIs
  <2>4. c_wawrit2(f, a, x) = qqcwawr(State, f, a, x)
    BY <1>1, <1>3, <2>1 DEF Request
  <2> QED
    BY <2>3, <2>4
<1>5. CASE a > l + 1
  <2> DEFINE h == [i \in 1..(a - l) |-> Junk]
             b == l + 1
             v == With(w, f, b, h)
  <2>1. s = qqcwawr(State, f, b, h)
    BY <1>5 DEF HoleFilled
  <2>2. /\ h \in Seq(Word) /\ Len(h) = a - l /\ h # <<>> /\ \A i \in 1..Len(h) : h[i] = Junk
    <3> DEFINE d == a - l
    <3>1. d \in Nat \ {0} /\ Junk \in Word
      BY <1>2, <1>5 DEF Word
    <3> HIDE DEF d
    <3>2. [i \in 1..d |-> Junk] \in Seq(Word) /\ Len([i \in 1..d |-> Junk]) = d
          /\ [i \in 1..d |-> Junk] # <<>>
          /\ \A k \in 1..Len([i \in 1..d |-> Junk]) : [i \in 1..d |-> Junk][k] = Junk
      BY <3>1, SameWord
    <3> QED
      BY <3>2 DEF d
  <2> HIDE DEF h
  <2>3. b \in Nat \ {0} /\ b % 2 = 1 /\ b <= State.size[f] + 1 /\ b + Len(h) # State.size[f]
    <3>1. l % 2 = 0 /\ State.size[f] = l /\ l \in Nat /\ a > l + 1 /\ a \in Nat
      BY <1>1, <1>2, <1>5
    <3> HIDE DEF l
    <3>2. b + (a - l) = a + 1 /\ a + 1 # l /\ b \in Nat \ {0} /\ b <= l + 1
      BY <3>1
    <3>3. b % 2 = 1
      BY <3>1
    <3>4. Len(h) = a - l
      BY <2>2 DEF l
    <3> QED
      BY <3>1, <3>2, <3>3, <3>4
  <2> HIDE DEF b
  <2>4. Stores(State, s, w, f, b, h)
    BY <2>1, <2>2, <2>3, <1>1, qqcwawrIs
  <2>5. Sound(s, v) /\ ~s.exited /\ s.out = State.out
    BY <2>4 DEF Stores
  <2>6. v \in AllFiles /\ v[f] = Store!Put(w[f], b, h)
    <3>1. b <= Len(w[f]) + 1
      BY <2>3, <1>1, <1>2
    <3> QED
      BY <2>2, <2>3, <3>1, <1>1, WithIs
  <2>7. Store!Put(v[f], a, x) = Store!Put(w[f], a, x) /\ Len(v[f]) = a
    <3>1. a > Len(w[f]) + 1 /\ Len(h) = a - Len(w[f]) /\ b = Len(w[f]) + 1
      BY <1>2, <1>5, <2>2 DEF b
    <3>2. NoHole(w[f], a, x, h)
      BY <2>2, <3>1, <1>2, HoleIs
    <3> QED
      BY <2>6, <3>1, <3>2 DEF NoHole
  <2>8. s.size[f] = a
    <3>1. ShowsAt(s, v, f)
      BY <2>5 DEF Sound, Shows
    <3> QED
      BY <3>1, <2>7 DEF ShowsAt
  <2>9. Stores(s, qqcwawr(s, f, a, x), v, f, a, x)
    <3>1. a <= s.size[f] + 1 /\ a + Len(x) # s.size[f]
      BY <2>8, <1>2
    <3> QED
      BY <3>1, <2>5, qqcwawrIs
  <2>10. With(v, f, a, x) = With(w, f, a, x)
    <3> DEFINE y == Store!Put(w[f], a, x)
               z == Store!Put(w[f], b, h)
    <3>1. With(v, f, a, x) = [v EXCEPT ![f] = y] /\ v = [w EXCEPT ![f] = z]
          /\ With(w, f, a, x) = [w EXCEPT ![f] = y]
      BY <2>7 DEF With
    <3> HIDE DEF y, z, v
    <3>2. [[w EXCEPT ![f] = z] EXCEPT ![f] = y] = [w EXCEPT ![f] = y]
      BY <1>1 DEF AllFiles
    <3> QED
      BY <3>1, <3>2
  <2>11. c_wawrit2(f, a, x) = qqcwawr(s, f, a, x)
    BY <1>3, <2>5 DEF Request
  <2>12. Stores(State, qqcwawr(s, f, a, x), w, f, a, x)
    BY <2>5, <2>9, <2>10 DEF Stores
  <2> QED
    BY <2>11, <2>12
<1> QED
  BY <1>2, <1>4, <1>5

\* What a read of n words at a leaves: the words that are there, or the process has ended.
Answers(t, w, f, a, n) ==
    /\ Sound(t, w) /\ (config.nb = 1 => ~t.exited)
    /\ ~t.exited => t.out = Store!Get(w[f], a, n)

LEMMA GetIs ==
  ASSUME NEW s \in Seq(Word), NEW a \in Nat \ {0}, NEW n \in Nat \ {0}
  PROVE  /\ a > Len(s) => Store!Get(s, a, n) = <<>>
         /\ a + n - 1 > Len(s) => Store!Get(s, a, n) = SubSeq(s, a, Len(s))
         /\ a + n - 1 <= Len(s) => Store!Get(s, a, n) = SubSeq(s, a, a + n - 1)
<1>1. Len(s) \in Nat
  OBVIOUS
<1>2. /\ a + n - 1 > Len(s) => Store!Get(s, a, n) = SubSeq(s, a, Len(s))
      /\ a + n - 1 <= Len(s) => Store!Get(s, a, n) = SubSeq(s, a, a + n - 1)
  <2> DEFINE l == Len(s)
             e == a + n - 1
             x == Store!Get(s, a, n)
             m == IF e > l THEN l ELSE e
  <2>1. x = SubSeq(s, a, m)
    BY DEF Store!Get
  <2>2. l \in Nat /\ e \in Nat
    BY <1>1
  <2> HIDE DEF l, e, x
  <2>3. (e > l => m = l) /\ (e <= l => m = e)
    BY <2>2
  <2> HIDE DEF m
  <2>4. (e > l => x = SubSeq(s, a, l)) /\ (e <= l => x = SubSeq(s, a, e))
    BY <2>1, <2>3
  <2> QED
    BY <2>4 DEF l, e, x
<1>3. a > Len(s) => a + n - 1 > Len(s) /\ SubSeq(s, a, Len(s)) = <<>>
  <2> DEFINE W == Word
  <2>1. s \in Seq(W)
    OBVIOUS
  <2> HIDE DEF W
  <2> QED
    BY <1>1, <2>1
<1> QED
  BY <1>2, <1>3

LEMMA c_waread2Is ==
  ASSUME ConfigOK, NEW w, Sound(State, w), NEW f \in Files, InUse(f), file_size[f] % 2 = 0,
         NEW a \in Nat \ {0}, a % 2 = 1, NEW n \in Nat \ {0}
  PROVE  Answers(c_waread2(f, a, n), w, f, a, n)
<1> DEFINE l == file_size[f]
           len == IF a + n - 1 > l THEN l + 1 - a ELSE n
           t == c_waread2(f, a, n)
<1>1. /\ ~State.exited /\ State.out = <<>> /\ State.size = file_size
      /\ State \in StateType /\ w \in AllFiles
  BY StateIs DEF Sound
<1>2. l \in Nat /\ l = Len(w[f]) /\ w[f] \in Seq(Word) /\ l % 2 = 0
  <2>1. ShowsAt(State, w, f)
    BY DEF Sound, Shows
  <2>2. State.size[f] = Len(w[f])
    BY <2>1 DEF ShowsAt
  <2>3. State.size[f] \in Nat /\ w[f] \in Seq(Word)
    BY <1>1 DEF StateType, AllFiles
  <2> QED
    BY <2>2, <2>3, <1>1
<1>3. t = IF a > l + 2 \/ l = 0 \/ len = 0 THEN State ELSE qqcward(State, f, a, len)
  BY DEF c_waread2
<1> HIDE DEF t
<1>4. CASE a > l
  <2>1. a > l + 2 \/ l = 0 \/ len = 0
    <3> DEFINE m == l
    <3>1. m \in Nat /\ m % 2 = 0 /\ a > m /\ a \in Nat /\ a % 2 = 1
      BY <1>2, <1>4
    <3>2. a = m + 1 => len = 0
      BY <3>1
    <3>3. ~(a > m + 2) => a = m + 1
      <4> HIDE DEF m
      <4> QED
        BY <3>1
    <3> QED
      BY <3>1, <3>2, <3>3
  <2>2. t = State
    BY <2>1, <1>3
  <2>3. Store!Get(w[f], a, n) = <<>>
    BY <1>2, <1>4, GetIs
  <2> QED
    BY <2>2, <2>3, <1>1 DEF Answers, t
<1>5. CASE a <= l
  <2>1. len \in Nat \ {0} /\ a + len - 1 <= l /\ ~(a > l + 2) /\ l # 0
        /\ a + len - 1 = IF a + n - 1 > l THEN l ELSE a + n - 1
    <3> HIDE DEF l
    <3> QED
      BY <1>2, <1>5
  <2>2. t = qqcward(State, f, a, len)
    BY <2>1, <1>3
  <2>3. Store!Get(w[f], a, n) = SubSeq(w[f], a, a + len - 1)
    <3>1. a + n - 1 > Len(w[f]) \/ a + n - 1 <= Len(w[f])
      BY <1>2
    <3>2. CASE a + n - 1 > l
      <4>1. a + len - 1 = l
        BY <3>2, <2>1
      <4> HIDE DEF len
      <4> QED
        BY ZenonT(40), <3>2, <4>1, <1>2, GetIs
    <3>3. CASE a + n - 1 <= l
      <4>1. a + len - 1 = a + n - 1
        BY <3>3, <2>1, <1>2
      <4> HIDE DEF len
      <4> QED
        BY <3>3, <4>1, <1>2, GetIs
    <3> QED
      BY <3>1, <3>2, <3>3, <1>2
  <2> HIDE DEF len
  <2>4. ReadSoFar(State, t, w, f, a, len)
    <3>1. a + len - 1 <= State.size[f]
      BY <2>1, <1>1
    <3> QED
      BY <3>1, <2>1, <2>2, <1>1, qqcwardIs
  <2>5. <<>> \o SubSeq(w[f], a, a + len - 1) = SubSeq(w[f], a, a + len - 1)
    <3> DEFINE W == Word
               s == w[f]
               e == a + len - 1
    <3>1. s \in Seq(W) /\ e <= Len(s) /\ a \in Nat \ {0} /\ e \in Nat
      BY <1>2, <2>1
    <3> HIDE DEF W, s, e
    <3>2. SubSeq(s, a, e) \in Seq(W)
      BY <3>1
    <3> DEFINE x == SubSeq(s, a, e)
    <3> HIDE DEF x
    <3>3. x \in Seq(W) => <<>> \o x = x
      OBVIOUS
    <3> QED
      BY <3>2, <3>3 DEF x, s, e
  <2>6. ~t.exited => t.out = Store!Get(w[f], a, n)
    BY <2>3, <2>4, <2>5, <1>1 DEF ReadSoFar
  <2> QED
    BY <2>4, <2>6 DEF ReadSoFar, Answers, t
<1> QED
  BY <1>2, <1>4, <1>5

-----------------------------------------------------------------------------
(* The words a user sees, and what a step leaves.                           *)

\* The words a user of the file sees are those the state shows.
LEMMA WordsIs ==
  ASSUME NEW w, Sound(State, w), NEW f \in Files
  PROVE  Words(f) = w[f]
<1> DEFINE size == IF open_flag[f] /\ f \notin config.streams THEN file_size[f] ELSE Len(disk[f])
           held(i) == \E k \in DOMAIN page[f] : i \in page[f][k].wa0..page[f][k].walast
           k0(i) == CHOOSE k \in DOMAIN page[f] : i \in page[f][k].wa0..page[f][k].walast
           e(i) == IF held(i) THEN page[f][k0(i)].adr[i - page[f][k0(i)].wa0] ELSE disk[f][i]
<1>1. /\ State.page = page /\ State.disk = disk /\ State.size = file_size
      /\ State \in StateType /\ w \in AllFiles /\ ShowsAt(State, w, f)
  BY StateIs DEF Sound, Shows
<1>2. w[f] \in Seq(Word) /\ page[f] \in Seq(PageType) /\ disk[f] \in Seq(Word)
  BY <1>1 DEF AllFiles, StateType
<1>3. DOMAIN page[f] = 1..Len(page[f])
  BY <1>2
<1>4. Words(f) = [i \in 1..size |-> e(i)]
  BY DEF Words
<1>5. size = Len(w[f])
  BY <1>1 DEF ShowsAt, InUse, Plain, Paged
<1>6. ASSUME NEW i \in 1..Len(w[f]) PROVE e(i) = w[f][i]
  <2>1. CASE Paged(f)
    <3>1. FileShows(State, w, f)
      BY <1>1, <2>1 DEF ShowsAt
    <3>2. ASSUME NEW k \in 1..Len(page[f]), i \in page[f][k].wa0..page[f][k].walast
          PROVE  page[f][k].adr[i - page[f][k].wa0] = w[f][i]
      <4>1. PageShows(State, w, f, page[f][k])
        BY <3>1, <1>1 DEF FileShows
      <4>2. page[f][k] \in PageType
        BY <1>2
      <4>3. i \in Nat /\ page[f][k].wa0 <= i /\ i <= page[f][k].walast
        BY <3>2, <4>2 DEF PageType
      <4>4. In(page[f][k], i)
        BY <4>3 DEF In
      <4> QED
        BY <4>1, <4>3, <4>4 DEF PageShows
    <3>3. CASE held(i)
      <4>1. k0(i) \in 1..Len(page[f]) /\ i \in page[f][k0(i)].wa0..page[f][k0(i)].walast
        BY <3>3, <1>3
      <4> HIDE DEF k0
      <4>2. page[f][k0(i)].adr[i - page[f][k0(i)].wa0] = w[f][i]
        BY <3>2, <4>1
      <4> QED
        BY <3>3, <4>2
    <3>4. CASE ~held(i)
      <4>1. ~Held(State, f, i)
        <5> SUFFICES ASSUME Held(State, f, i) PROVE FALSE
          OBVIOUS
        <5>1. PICK k \in 1..Len(page[f]) : In(page[f][k], i)
          BY <1>1 DEF Held
        <5>2. page[f][k] \in PageType
          BY <1>2
        <5>3. i \in page[f][k].wa0..page[f][k].walast
          BY <5>1, <5>2 DEF In, PageType
        <5> QED
          BY <5>3, <3>4, <1>3
      <4>2. disk[f][i] = w[f][i]
        BY <4>1, <3>1, <1>1 DEF FileShows, OnDisk
      <4> HIDE DEF held
      <4> QED
        BY <3>4, <4>2
    <3> QED
      BY <3>3, <3>4
  <2>2. CASE ~Paged(f)
    <3>1. page[f] = <<>> /\ w[f] = disk[f]
      BY <1>1, <2>2 DEF ShowsAt, Plain
    <3>2. ~held(i)
      BY <3>1, <1>3
    <3> HIDE DEF held
    <3> QED
      BY <3>1, <3>2
  <2> QED
    BY <2>1, <2>2
<1> HIDE DEF e, size
<1>7. Words(f) = [i \in 1..Len(w[f]) |-> w[f][i]]
  BY <1>4, <1>5, <1>6
<1> QED
  BY <1>2, <1>7

LEMMA AllWordsIs ==
  ASSUME NEW w, Sound(State, w)
  PROVE  AllWords = w
<1>1. \A f \in Files : Words(f) = w[f]
  BY WordsIs
<1>2. w \in AllFiles
  BY DEF Sound
<1> QED
  BY <1>1, <1>2 DEF AllWords, AllFiles

-----------------------------------------------------------------------------
(* Steps.                                                                  *)

\* The variables after a step are those of state t.
Becomes(t) ==
    /\ disk' = t.disk /\ file_size' = t.size /\ page' = t.page /\ nfree' = t.nfree
    /\ global_count' = t.count

LEMMA ConfigKept ==
  ASSUME config' = config
  PROVE  /\ P' = P /\ PageType' = PageType /\ StateType' = StateType /\ AllFiles' = AllFiles
         /\ (ConfigOK => ConfigOK')
BY DEF P, PageType, StateType, AllFiles, ConfigOK, Word

LEMMA StateAfter ==
  ASSUME NEW t, t \in StateType, Becomes(t)
  PROVE  /\ State' \in StateType /\ State'.disk = t.disk /\ State'.size = t.size
         /\ State'.page = t.page /\ State'.nfree = t.nfree /\ State'.count = t.count
BY DEF State, StateType, Becomes

LEMMA ShowsAfter ==
  ASSUME config' = config, NEW g, open_flag'[g] = open_flag[g],
         NEW t, t \in StateType, Becomes(t), NEW v, ShowsAt(t, v, g)
  PROVE  ShowsAt(State, v, g)'
<1>1. P' = P /\ config' = config
  BY DEF P
<1>2. (Paged(g) <=> Paged(g)') /\ (InUse(g) <=> InUse(g)')
  BY <1>1 DEF Paged, InUse
<1>3. /\ State'.disk = t.disk /\ State'.size = t.size /\ State'.page = t.page
  BY StateAfter
<1>4. FileShows(t, v, g) => FileShows(State, v, g)'
  <2>1. ASSUME NEW j PROVE OnDisk(t, v, g, j) => OnDisk(State, v, g, j)'
    BY <1>3 DEF OnDisk
  <2>2. ASSUME NEW j PROVE Held(t, g, j) => Held(State, g, j)'
    BY <1>3 DEF Held, In
  <2>3. ASSUME NEW pg, PageShows(t, v, g, pg) PROVE PageShows(State, v, g, pg)'
    <3>1. IsStart(pg.wa0)'
      BY <1>1, <2>3 DEF PageShows, IsStart
    <3>2. /\ pg.wa0 <= State'.size[g] /\ pg.walast <= State'.size[g]
          /\ pg.walast <= pg.wa0 + P' - 1
          /\ pg.walast = State'.size[g] \/ pg.walast = pg.wa0 + P' - 1
      BY <1>1, <1>3, <2>3 DEF PageShows
    <3>3. \A j \in Nat : In(pg, j) =>
              /\ pg.adr[j - pg.wa0] = v[g][j]
              /\ pg.touch_flag \/ OnDisk(State, v, g, j)'
      BY <2>1, <2>3 DEF PageShows
    <3> QED
      BY <3>1, <3>2, <3>3 DEF PageShows
  <2>4. ASSUME FileShows(t, v, g) PROVE FileShows(State, v, g)'
    <3>1. Len(State'.disk[g]) <= State'.size[g]
      BY <1>3, <2>4 DEF FileShows
    <3>2. ASSUME NEW i \in 1..Len(State'.page[g]) PROVE PageShows(State, v, g, t.page[g][i])'
      BY <1>3, <2>3, <2>4, <3>2 DEF FileShows
    <3>3. \A i, j \in 1..Len(State'.page[g]) : i # j => State'.page[g][i].wa0 # State'.page[g][j].wa0
      BY <1>3, <2>4 DEF FileShows
    <3>4. \A j \in 1..Len(v[g]) : Held(State, g, j)' \/ OnDisk(State, v, g, j)'
      BY <2>1, <2>2, <2>4 DEF FileShows
    <3>5. \A i \in 1..Len(State'.page[g]) : PageShows(State, v, g, State.page[g][i])'
      <4> TAKE i \in 1..Len(State'.page[g])
      <4>1. PageShows(State, v, g, t.page[g][i])'
        BY <3>2
      <4>2. State'.page[g][i] = t.page[g][i]
        BY <1>3
      <4> QED
        BY <4>1, <4>2 DEF PageShows, OnDisk, In, IsStart
    <3> QED
      BY <3>1, <3>3, <3>4, <3>5 DEF FileShows
  <2> QED
    BY <2>4
<1>5. Plain(t, v, g) => Plain(State, v, g)'
  BY <1>3 DEF Plain
<1> QED
  BY <1>2, <1>3, <1>4, <1>5 DEF ShowsAt

LEMMA CountedAfter ==
  ASSUME config' = config, NEW t, t \in StateType, Becomes(t), Counted(t)
  PROVE  Counted(State)'
<1>1. /\ State'.page = t.page /\ State'.nfree = t.nfree /\ State'.count = t.count
  BY StateAfter
<1> QED
  BY <1>1 DEF Counted, Pages

LEMMA SoundAfter ==
  ASSUME config' = config, open_flag' = open_flag, NEW t, Becomes(t), NEW v, Sound(t, v)
  PROVE  Sound(State, v)'
<1>1. t \in StateType /\ v \in AllFiles /\ Counted(t) /\ \A g \in Files : ShowsAt(t, v, g)
  BY DEF Sound, Shows
<1>2. \A g \in Files : ShowsAt(State, v, g)'
  BY <1>1, ShowsAfter
<1>3. Counted(State)'
  BY <1>1, CountedAfter
<1>4. State' \in StateType' /\ v \in AllFiles'
  BY <1>1, StateAfter, ConfigKept
<1> QED
  BY <1>2, <1>3, <1>4 DEF Sound, Shows

(***************************************************************************)
(* The invariant.                                                          *)
(***************************************************************************)
CacheInv ==
    /\ ConfigOK
    /\ exited \in BOOLEAN /\ (config.nb = 1 => exited = FALSE)
    /\ open_flag \in [Files -> BOOLEAN] /\ pos \in [Files -> Nat]
    /\ Sound(State, AllWords)
    /\ \A f \in Files \ config.streams : Len(AllWords[f]) % 2 = 0
    /\ \A f \in config.streams : pos[f] <= Len(AllWords[f])

LEMMA AllWordsAre == \A w : Sound(State, w) => AllWords = w
BY AllWordsIs

LEMMA AllWordsAfter == (\A w : Sound(State, w) => AllWords = w)'
BY AllWordsAre, PTL

LEMMA Kept ==
  ASSUME CacheInv, config' = config, open_flag' \in [Files -> BOOLEAN],
         pos' \in [Files -> Nat], exited' \in BOOLEAN, config.nb = 1 => exited' = FALSE,
         NEW v, Sound(State, v)',
         \A f \in Files \ config.streams : Len(v[f]) % 2 = 0,
         \A f \in config.streams : pos'[f] <= Len(v[f])
  PROVE  CacheInv' /\ AllWords' = v
<1>1. AllWords' = v
  BY AllWordsAfter
<1>2. ConfigOK'
  BY ConfigKept DEF CacheInv
<1>3. Sound(State, AllWords)'
  BY <1>1
<1> QED
  BY <1>1, <1>2, <1>3 DEF CacheInv

LEMMA StateKept ==
  ASSUME UNCHANGED <<config, disk, file_size, page, nfree, global_count, open_flag>>, CacheInv
  PROVE  Sound(State, AllWords)' /\ AllWords' = AllWords
<1>1. PICK t : t = State
  OBVIOUS
<1>2. PICK v : v = AllWords
  OBVIOUS
<1>3. Sound(t, v)
  BY <1>1, <1>2 DEF CacheInv
<1>4. Becomes(t)
  BY <1>1 DEF Becomes, State
<1>5. Sound(State, v)'
  BY <1>3, <1>4, SoundAfter
<1>6. AllWords' = v
  BY <1>5, AllWordsAfter
<1> QED
  BY <1>2, <1>5, <1>6

\* The process ends: nothing else changes.
LEMMA Ended ==
  ASSUME CacheInv, ~exited, config.nb # 1, exited' = TRUE,
         UNCHANGED <<config, disk, file_size, page, nfree, global_count, open_flag, pos, answer>>
  PROVE  CacheInv' /\ Store!End
<1>1. Sound(State, AllWords)' /\ AllWords' = AllWords
  BY StateKept
<1>2. ConfigOK'
  BY ConfigKept DEF CacheInv
<1>3. CacheInv'
  BY <1>1, <1>2 DEF CacheInv
<1> QED
  BY <1>1, <1>3 DEF Store!End

LEMMA InUseIs ==
  ASSUME CacheInv, NEW f \in Files, InUse(f)
  PROVE  file_size[f] \in Nat /\ file_size[f] % 2 = 0 /\ file_size[f] = Len(AllWords[f])
<1>1. ShowsAt(State, AllWords, f) /\ State.size = file_size
  BY StateIs DEF CacheInv, Sound, Shows
<1>2. file_size[f] = Len(AllWords[f])
  BY <1>1 DEF ShowsAt
<1>3. Len(AllWords[f]) % 2 = 0
  BY DEF CacheInv, InUse
<1>4. file_size \in [Files -> Nat]
  BY <1>1 DEF CacheInv, Sound, StateType
<1> QED
  BY <1>2, <1>3, <1>4

\* Any call that writes.
LEMMA WriteCall ==
  ASSUME CacheInv, ~exited, NEW f \in Files, InUse(f), NEW a \in Nat \ {0}, a % 2 = 1,
         NEW x \in Seq(Word), x # <<>>, Len(x) % 2 = 0, a <= file_size[f] + WaHole,
         Assign(c_wawrit2(f, a, x)), answer' = IF exited' THEN answer ELSE <<>>,
         UNCHANGED <<config, open_flag, pos>>
  PROVE  CacheInv' /\ Store!Write(f, a, x)
<1>1. PICK w : w = AllWords
  OBVIOUS
<1>2. PICK t : t = c_wawrit2(f, a, x)
  OBVIOUS
<1>3. ConfigOK /\ Sound(State, w)
  BY <1>1 DEF CacheInv
<1>4. Stores(State, t, w, f, a, x)
  BY <1>2, <1>3, InUseIs, c_wawrit2Is
<1> DEFINE v == With(w, f, a, x)
<1>5. Sound(t, v) /\ ~t.exited
  BY <1>4 DEF Stores
<1>6. Becomes(t) /\ exited' = exited
  BY <1>2, <1>5 DEF Assign, Becomes
<1>7. exited = FALSE /\ exited' = FALSE
  BY <1>6 DEF CacheInv
<1>8. answer' = <<>>
  BY <1>7
<1>9. w \in AllFiles /\ w[f] \in Seq(Word)
  BY <1>3 DEF Sound, AllFiles
<1>10. v[f] = Store!Put(w[f], a, x) /\ \A g \in Files \ {f} : v[g] = w[g]
  BY <1>9 DEF With, AllFiles
<1>11. Len(v[f]) % 2 = 0
  <2> DEFINE n == Len(x)
             l == Len(w[f])
             k == Len(v[f])
  <2>1. n \in Nat /\ n % 2 = 0 /\ l \in Nat /\ l % 2 = 0
    <3>1. Len(AllWords[f]) % 2 = 0
      BY DEF CacheInv, InUse
    <3>2. l % 2 = 0
      BY <3>1, <1>1
    <3>3. l \in Nat
      BY <1>9
    <3>4. n \in Nat /\ n % 2 = 0
      OBVIOUS
    <3> QED
      BY <3>2, <3>3, <3>4
  <2>2. k = IF a + n - 1 > l THEN a + n - 1 ELSE l
    BY <1>9, <1>10, PutAny
  <2> HIDE DEF n, l, k
  <2>3. k % 2 = 0
    BY <2>1, <2>2
  <2> QED
    BY <2>3 DEF k
<1> HIDE DEF v
<1>12. Sound(State, v)'
  BY <1>5, <1>6, SoundAfter
<1>13. \A g \in Files \ config.streams : Len(v[g]) % 2 = 0
  BY <1>1, <1>10, <1>11 DEF CacheInv
<1>14. \A g \in config.streams : pos'[g] <= Len(v[g])
  <2>1. f \notin config.streams /\ config.streams \subseteq Files
    BY <1>3 DEF InUse, ConfigOK
  <2> QED
    BY <2>1, <1>1, <1>10 DEF CacheInv
<1>15. open_flag' \in [Files -> BOOLEAN] /\ pos' \in [Files -> Nat]
  BY DEF CacheInv
<1>16. CacheInv' /\ AllWords' = v
  BY <1>7, <1>12, <1>13, <1>14, <1>15, Kept
<1>17. Store!Write(f, a, x)
  <2>1. open_flag[f]
    BY DEF InUse
  <2>2. AllWords'[f] = Store!Put(AllWords[f], a, x)
        /\ \A g \in Files \ {f} : AllWords'[g] = AllWords[g]
    BY <1>1, <1>10, <1>16
  <2> QED
    BY <2>1, <2>2, <1>6, <1>8 DEF Store!Write
<1> QED
  BY <1>16, <1>17

\* Any call that reads.
LEMMA ReadCall ==
  ASSUME CacheInv, ~exited, NEW f \in Files, InUse(f), NEW a \in Nat \ {0}, a % 2 = 1,
         NEW n \in Nat \ {0}, Assign(c_waread2(f, a, n)),
         answer' = IF c_waread2(f, a, n).exited THEN answer ELSE c_waread2(f, a, n).out,
         UNCHANGED <<config, open_flag, pos>>
  PROVE  CacheInv' /\ (Store!Read(f, a, n) \/ Store!End)
<1>1. PICK w : w = AllWords
  OBVIOUS
<1>2. PICK t : t = c_waread2(f, a, n)
  OBVIOUS
<1>3. ConfigOK /\ Sound(State, w)
  BY <1>1 DEF CacheInv
<1>4. Answers(t, w, f, a, n)
  BY <1>2, <1>3, InUseIs, c_waread2Is
<1>5. CASE t.exited
  <2>1. config.nb # 1
    BY <1>4, <1>5 DEF Answers
  <2>2. exited' = TRUE /\ UNCHANGED <<disk, file_size, page, nfree, global_count>>
    BY <1>2, <1>5 DEF Assign
  <2>3. answer' = answer
    BY <1>2, <1>5
  <2> QED
    BY <2>1, <2>2, <2>3, Ended
<1>6. CASE ~t.exited
  <2>1. Becomes(t) /\ exited' = exited
    BY <1>2, <1>6 DEF Assign, Becomes
  <2>2. answer' = Store!Get(w[f], a, n)
    BY <1>2, <1>4, <1>6 DEF Answers
  <2>3. Sound(t, w)
    BY <1>4 DEF Answers
  <2>4. Sound(State, w)'
    BY <2>1, <2>3, SoundAfter
  <2>5. exited = FALSE /\ exited' = FALSE /\ open_flag' \in [Files -> BOOLEAN]
        /\ pos' \in [Files -> Nat]
    BY <2>1 DEF CacheInv
  <2>6. /\ \A g \in Files \ config.streams : Len(w[g]) % 2 = 0
        /\ \A g \in config.streams : pos'[g] <= Len(w[g])
    BY <1>1 DEF CacheInv
  <2>7. CacheInv' /\ AllWords' = w
    BY <2>4, <2>5, <2>6, Kept
  <2>8. Store!Read(f, a, n)
    <3>1. open_flag[f]
      BY DEF InUse
    <3>2. AllWords' = AllWords
      BY <1>1, <2>7
    <3>3. answer' = Store!Get(AllWords[f], a, n)
      BY <1>1, <2>2
    <3> QED
      BY <3>1, <3>2, <3>3, <2>1 DEF Store!Read
  <2> QED
    BY <2>7, <2>8
<1> QED
  BY <1>5, <1>6

\* The words that Write, Writda and SqPutw write.
LEMMA RepeatedWord ==
  ASSUME NEW n \in Lengths \cup {BlkSize}, NEW v \in Values
  PROVE  /\ [i \in 1..n |-> v] \in Seq(Word) /\ [i \in 1..n |-> v] # <<>>
         /\ Len([i \in 1..n |-> v]) = n /\ Len([i \in 1..n |-> v]) % 2 = 0
         /\ n \in Nat \ {0}
<1>1. n \in Nat \ {0} /\ n % 2 = 0
  BY EvenAssumption
<1>2. v \in Word
  BY DEF Word
<1>3. [i \in 1..n |-> v] \in Seq(Word) /\ [i \in 1..n |-> v] # <<>>
      /\ Len([i \in 1..n |-> v]) = n
  BY <1>1, <1>2, SameWord
<1> QED
  BY <1>1, <1>3

\* Addresses and blocks start at odd words.
LEMMA OddStart ==
  ASSUME NEW f \in Files
  PROVE  \A a \in Addresses(f) \cup {BlockStart(b) : b \in Blocks} : a \in Nat \ {0} /\ a % 2 = 1
<1>1. \A a \in Addresses(f) : a \in Nat \ {0} /\ a % 2 = 1
  <2>1. MaxWords[f] \in Nat
    BY WaAssumption
  <2> QED
    BY <2>1 DEF Addresses
<1>2. ASSUME NEW b \in Blocks PROVE BlockStart(b) \in Nat \ {0} /\ BlockStart(b) % 2 = 1
  <2> DEFINE k == b - 1
             p == BlkSize
  <2>1. k \in Nat /\ p \in Nat /\ p % 2 = 0
    BY WaAssumption, EvenAssumption
  <2>2. BlockStart(b) = k * p + 1
    BY DEF BlockStart
  <2> HIDE DEF k, p
  <2>3. (k * p + 1) % 2 = 1
    BY <2>1, EvenMultiple
  <2>4. k * p + 1 \in Nat \ {0}
    BY <2>1
  <2> QED
    BY <2>2, <2>3, <2>4
<1> QED
  BY <1>1, <1>2

\* What a step of the code is for the store of words.
Step == \/ Store!End
        \/ \E f \in Files : Store!Connect(f) \/ Answered(f)
        \/ UNCHANGED <<answer, open_flag, exited>> /\ UNCHANGED AllWords

LEMMA WriteStep ==
  ASSUME CacheInv, ~exited, NEW f \in Files, NEW a \in Addresses(f), NEW n \in Lengths,
         NEW v \in Values, Write(f, a, n, v)
  PROVE  CacheInv' /\ Step
<1> DEFINE x == [i \in 1..n |-> v]
<1>1. x \in Seq(Word) /\ x # <<>> /\ Len(x) % 2 = 0
  BY RepeatedWord
<1>2. a \in Nat \ {0} /\ a % 2 = 1
  BY OddStart
<1>3. /\ InUse(f) /\ f \notin config.streams /\ a <= file_size[f] + WaHole
      /\ Assign(c_wawrit2(f, a, x))
      /\ answer' = (IF exited' THEN answer ELSE <<>>) /\ UNCHANGED <<config, open_flag, pos>>
  BY DEF Write, InUse
<1> HIDE DEF x
<1>4. CacheInv' /\ Store!Write(f, a, x)
  BY <1>1, <1>2, <1>3, WriteCall
<1>5. Answered(f)
  BY <1>3, <1>4 DEF Answered, x
<1> QED
  BY <1>4, <1>5 DEF Step

LEMMA WritdaStep ==
  ASSUME CacheInv, ~exited, NEW f \in Files, NEW b \in Blocks, NEW v \in Values,
         Writda(f, b, v)
  PROVE  CacheInv' /\ Step
<1> DEFINE x == [i \in 1..BlkSize |-> v]
           a == BlockStart(b)
<1>1. x \in Seq(Word) /\ x # <<>> /\ Len(x) % 2 = 0
  BY RepeatedWord
<1>2. a \in Nat \ {0} /\ a % 2 = 1
  BY OddStart
<1>3. /\ InUse(f) /\ f \notin config.streams /\ a <= file_size[f] + WaHole
      /\ Assign(c_wawrit2(f, a, x))
      /\ answer' = (IF exited' THEN answer ELSE <<>>) /\ UNCHANGED <<config, open_flag, pos>>
  BY DEF Writda, InUse
<1>6. a \in Addresses(f) \cup {BlockStart(c) : c \in Blocks}
      /\ BlkSize \in Lengths \cup {BlkSize}
  OBVIOUS
<1> HIDE DEF x, a
<1>4. CacheInv' /\ Store!Write(f, a, x)
  BY <1>1, <1>2, <1>3, WriteCall
<1>5. Answered(f)
  BY <1>3, <1>4, <1>6 DEF Answered, x
<1> QED
  BY <1>4, <1>5 DEF Step

LEMMA ReadStep ==
  ASSUME CacheInv, ~exited, NEW f \in Files, NEW a \in Addresses(f), NEW n \in Lengths,
         Read(f, a, n)
  PROVE  CacheInv' /\ Step
<1>1. a \in Nat \ {0} /\ a % 2 = 1 /\ n \in Nat \ {0}
  BY OddStart, EvenAssumption
<1>2. /\ InUse(f) /\ f \notin config.streams /\ Assign(c_waread2(f, a, n))
      /\ answer' = (IF c_waread2(f, a, n).exited THEN answer ELSE c_waread2(f, a, n).out)
      /\ UNCHANGED <<config, open_flag, pos>>
  BY DEF Read, InUse
<1>3. CacheInv' /\ (Store!Read(f, a, n) \/ Store!End)
  BY <1>1, <1>2, ReadCall
<1>4. Store!Read(f, a, n) => Answered(f)
  BY <1>2 DEF Answered
<1> QED
  BY <1>3, <1>4 DEF Step

LEMMA ReaddaStep ==
  ASSUME CacheInv, ~exited, NEW f \in Files, NEW b \in Blocks, Readda(f, b)
  PROVE  CacheInv' /\ Step
<1> DEFINE a == BlockStart(b)
           n == BlkSize
<1>1. a \in Nat \ {0} /\ a % 2 = 1 /\ n \in Nat \ {0}
  BY OddStart, EvenAssumption
<1>2. /\ InUse(f) /\ f \notin config.streams /\ Assign(c_waread2(f, a, n))
      /\ answer' = (IF c_waread2(f, a, n).exited THEN answer ELSE c_waread2(f, a, n).out)
      /\ UNCHANGED <<config, open_flag, pos>>
  BY DEF Readda, InUse
<1>5. a \in Addresses(f) \cup {BlockStart(c) : c \in Blocks} /\ n \in Lengths \cup {BlkSize}
  OBVIOUS
<1> HIDE DEF a, n
<1>3. CacheInv' /\ (Store!Read(f, a, n) \/ Store!End)
  BY <1>1, <1>2, ReadCall
<1>4. Store!Read(f, a, n) => Answered(f)
  BY <1>2, <1>5 DEF Answered
<1> QED
  BY <1>3, <1>4 DEF Step

LEMMA ChecdaStep ==
  ASSUME CacheInv, ~exited, NEW f \in Files, Checda(f)
  PROVE  CacheInv' /\ Step
<1>1. UNCHANGED <<config, disk, file_size, open_flag, page, nfree, global_count, pos, answer,
                  exited>>
  BY DEF Checda
<1>2. Sound(State, AllWords)' /\ AllWords' = AllWords
  BY <1>1, StateKept
<1>3. ConfigOK'
  BY <1>1, ConfigKept DEF CacheInv
<1> QED
  BY <1>1, <1>2, <1>3 DEF CacheInv, Step

\* A file that no page is kept for.
LEMMA PlainIs ==
  ASSUME CacheInv, NEW f \in Files, ~Paged(f)
  PROVE  page[f] = <<>> /\ AllWords[f] = disk[f] /\ disk[f] \in Seq(Word)
<1>1. ShowsAt(State, AllWords, f) /\ State.page = page /\ State.disk = disk
      /\ State \in StateType
  BY StateIs DEF CacheInv, Sound, Shows
<1>2. Plain(State, AllWords, f)
  BY <1>1 DEF ShowsAt
<1> QED
  BY <1>1, <1>2 DEF Plain, StateType

LEMMA StreamIs ==
  ASSUME CacheInv, NEW f \in Files, f \in config.streams
  PROVE  /\ page[f] = <<>> /\ AllWords[f] = disk[f] /\ disk[f] \in Seq(Word)
         /\ pos[f] \in Nat /\ pos[f] <= Len(disk[f])
<1>1. ~Paged(f)
  BY DEF Paged, InUse
<1>2. page[f] = <<>> /\ AllWords[f] = disk[f] /\ disk[f] \in Seq(Word)
  BY <1>1, PlainIs
<1>3. pos[f] \in Nat /\ pos[f] <= Len(AllWords[f])
  BY DEF CacheInv
<1> QED
  BY <1>2, <1>3

LEMMA SqMoveStep ==
  ASSUME CacheInv, ~exited, NEW f \in Files, NEW eoi \in BOOLEAN, SqMove(f, eoi)
  PROVE  CacheInv' /\ Step
<1>1. UNCHANGED <<config, disk, file_size, open_flag, page, nfree, global_count, dastat,
                  answer, exited>> /\ f \in config.streams
      /\ pos' = [pos EXCEPT ![f] = IF eoi THEN Len(disk[f]) ELSE 0]
  BY DEF SqMove
<1>2. Sound(State, AllWords)' /\ AllWords' = AllWords
  BY <1>1, StateKept
<1>3. ConfigOK'
  BY <1>1, ConfigKept DEF CacheInv
<1>4. AllWords[f] = disk[f] /\ disk[f] \in Seq(Word)
  BY <1>1, StreamIs
<1>5. pos' \in [Files -> Nat] /\ \A g \in config.streams : pos'[g] <= Len(AllWords[g])
  <2>1. Len(disk[f]) \in Nat
    BY <1>4
  <2>2. pos \in [Files -> Nat] /\ config.streams \subseteq Files
    BY DEF CacheInv, ConfigOK
  <2>3. pos' \in [Files -> Nat]
    BY <2>1, <2>2, <1>1
  <2>4. pos'[f] <= Len(AllWords[f])
    BY <2>1, <2>2, <1>1, <1>4
  <2>5. \A g \in config.streams \ {f} : pos'[g] = pos[g]
    BY <2>2, <1>1
  <2> QED
    BY <2>3, <2>4, <2>5 DEF CacheInv
<1> QED
  BY <1>1, <1>2, <1>3, <1>5 DEF CacheInv, Step

LEMMA SqGetwStep ==
  ASSUME CacheInv, ~exited, NEW f \in Files, NEW n \in Lengths, SqGetw(f, n)
  PROVE  CacheInv' /\ Step
<1> DEFINE l == Len(disk[f])
           p == pos[f]
           q == Max({p, Min({p + n, l})})
<1>1. UNCHANGED <<config, disk, file_size, open_flag, page, nfree, global_count, dastat, exited>>
      /\ open_flag[f] /\ f \in config.streams /\ pos' = [pos EXCEPT ![f] = q]
      /\ answer' = IF p + n <= l THEN SubSeq(disk[f], p + 1, p + n) ELSE <<>>
  BY DEF SqGetw, CacheInv
<1>2. Sound(State, AllWords)' /\ AllWords' = AllWords
  BY <1>1, StateKept
<1>3. ConfigOK'
  BY <1>1, ConfigKept DEF CacheInv
<1>4. AllWords[f] = disk[f] /\ disk[f] \in Seq(Word) /\ p \in Nat /\ p <= l /\ l \in Nat
      /\ n \in Nat \ {0}
  BY <1>1, StreamIs, EvenAssumption
<1>5. q \in Nat /\ q <= l
  <2> DEFINE m == Min({p + n, l})
  <2>1. m = IF p + n <= l THEN p + n ELSE l
    <3> HIDE DEF l, p
    <3>1. l \in Int /\ p + n \in Int
      BY <1>4 DEF l, p
    <3> QED
      BY <3>1, MinOfTwo
  <2>2. m \in Nat /\ m <= l
    BY <2>1, <1>4
  <2>4. q = Max({p, m})
    OBVIOUS
  <2> HIDE DEF m
  <2>3. q = IF p >= m THEN p ELSE m
    <3> HIDE DEF p
    <3>1. p \in Int /\ m \in Int
      BY <2>2, <1>4 DEF p
    <3> QED
      BY <2>4, <3>1, MaxOfTwo
  <2> QED
    BY <2>2, <2>3, <1>4
<1>6. pos' \in [Files -> Nat] /\ \A g \in config.streams : pos'[g] <= Len(AllWords[g])
  <2> HIDE DEF q
  <2>2. pos \in [Files -> Nat] /\ config.streams \subseteq Files
    BY DEF CacheInv, ConfigOK
  <2>3. pos' \in [Files -> Nat] /\ pos'[f] = q
    BY <2>2, <1>1, <1>5
  <2>4. pos'[f] <= Len(AllWords[f])
    BY <2>3, <1>4, <1>5
  <2>5. \A g \in config.streams \ {f} : pos'[g] = pos[g]
    BY <2>2, <1>1
  <2> QED
    BY <2>3, <2>4, <2>5 DEF CacheInv
<1>7. CacheInv'
  BY <1>1, <1>2, <1>3, <1>6 DEF CacheInv
<1>8. Store!ReadAll(f, p + 1, n)
  <2>1. p + 1 + n - 1 = p + n
    BY <1>4
  <2>2. answer' = IF p + 1 + n - 1 <= Len(AllWords[f])
                  THEN SubSeq(AllWords[f], p + 1, p + 1 + n - 1) ELSE <<>>
    BY <2>1, <1>1, <1>4
  <2> QED
    BY <2>2, <1>1, <1>2 DEF Store!ReadAll
<1>9. Answered(f)
  BY <1>1, <1>8 DEF Answered
<1> QED
  BY <1>7, <1>9 DEF Step

LEMMA SqPutwStep ==
  ASSUME CacheInv, ~exited, NEW f \in Files, NEW n \in Lengths, NEW v \in Values,
         SqPutw(f, n, v)
  PROVE  CacheInv' /\ Step
<1> DEFINE x == [i \in 1..n |-> v]
           p == pos[f]
           y == Overlay(disk[f], p + 1, x)
<1>1. /\ UNCHANGED <<config, file_size, open_flag, page, nfree, global_count, dastat, exited>>
      /\ open_flag[f] /\ f \in config.streams /\ answer' = <<>>
      /\ disk' = [disk EXCEPT ![f] = y] /\ pos' = [pos EXCEPT ![f] = @ + n]
  BY DEF SqPutw
<1>2. x \in Seq(Word) /\ Len(x) = n /\ n \in Nat \ {0} /\ x # <<>>
  BY RepeatedWord
<1>3. AllWords[f] = disk[f] /\ disk[f] \in Seq(Word) /\ p \in Nat /\ p <= Len(disk[f])
      /\ page[f] = <<>>
  BY <1>1, StreamIs
<1>4. p + 1 \in Nat \ {0} /\ p + 1 <= Len(disk[f]) + 1
  BY <1>3
<1>5. PICK w : w = AllWords
  OBVIOUS
<1>6. PICK b : b = p + 1
  OBVIOUS
<1> DEFINE u == With(w, f, b, x)
<1>7. PICK t : t = [State EXCEPT !.disk[f] = y, !.size[f] = file_size[f]]
  OBVIOUS
<1> HIDE DEF x
<1>8. y \in Seq(Word) /\ y = Store!Put(AllWords[f], b, x)
  BY <1>2, <1>3, <1>4, <1>6, OverlayIsPut, OverlayIs
<1>9. Sound(State, w) /\ w \in AllFiles /\ State \in StateType /\ State.size = file_size
      /\ State.disk = disk /\ State.page = page /\ State.nfree = nfree
      /\ State.count = global_count
  BY <1>5, StateIs DEF CacheInv, Sound
<1>10. DiskOnly(State, t, f, y, file_size[f])
  <2>1. file_size[f] \in Nat
    BY <1>9 DEF StateType
  <2> HIDE DEF y
  <2> QED
    BY <2>1, <1>7, <1>8, <1>9, DiskOnlyIs
<1>11. u[f] = y /\ (\A g \in Files \ {f} : u[g] = w[g]) /\ u \in AllFiles
  <2>1. w[f] = AllWords[f]
    BY <1>5
  <2>2. u = [w EXCEPT ![f] = y]
    BY <2>1, <1>8 DEF With
  <2> HIDE DEF u, y
  <2>3. y \in Seq(Word)
    BY <1>8
  <2> QED
    BY <2>2, <2>3, <1>9 DEF AllFiles
<1> HIDE DEF y, u
<1>12. Becomes(t)
  <2>1. t.disk = disk'
    <3>1. t.disk \in [Files -> Seq(Word)] /\ disk \in [Files -> Seq(Word)]
      BY <1>9, <1>10 DEF DiskOnly, StateType
    <3>2. t.disk[f] = y /\ \A g \in Files \ {f} : t.disk[g] = disk[g]
      BY <1>9, <1>10 DEF DiskOnly
    <3> QED
      BY <3>1, <3>2, <1>1
  <2>2. t.size = file_size
    <3>1. t.size \in [Files -> Nat] /\ file_size \in [Files -> Nat]
      BY <1>9, <1>10 DEF DiskOnly, StateType
    <3>2. \A g \in Files : t.size[g] = file_size[g]
      BY <1>9, <1>10 DEF DiskOnly
    <3> QED
      BY <3>1, <3>2
  <2> QED
    BY <2>1, <2>2, <1>1, <1>9, <1>10 DEF DiskOnly, Becomes
<1>13. Sound(t, u)
  <2>1. ASSUME NEW g \in Files PROVE ShowsAt(t, u, g)
    <3>1. CASE g = f
      <4>1. Plain(t, u, f) /\ ~Paged(f) /\ ~InUse(f)
        BY <1>1, <1>3, <1>9, <1>10, <1>11 DEF Plain, DiskOnly, Paged, InUse
      <4> QED
        BY <4>1, <3>1 DEF ShowsAt
    <3>2. CASE g # f
      <4>1. ShowsAt(State, w, g)
        BY <1>9 DEF Sound, Shows
      <4>2. /\ t.page[g] = State.page[g] /\ t.disk[g] = State.disk[g]
            /\ t.size[g] = State.size[g] /\ u[g] = w[g]
        BY <3>2, <1>10, <1>11 DEF DiskOnly
      <4> QED
        BY <4>1, <4>2, OtherFile
    <3> QED
      BY <3>1, <3>2
  <2>2. Counted(t)
    <3>1. Counted(State)
      BY <1>9 DEF Sound
    <3> QED
      BY <3>1, <1>10, CountedSame DEF DiskOnly
  <2> QED
    BY <2>1, <2>2, <1>10, <1>11 DEF Sound, Shows, DiskOnly
<1>14. Sound(State, u)'
  BY <1>1, <1>12, <1>13, SoundAfter
<1>15. pos' \in [Files -> Nat] /\ \A g \in config.streams : pos'[g] <= Len(u[g])
  <2>1. pos \in [Files -> Nat] /\ config.streams \subseteq Files
    BY DEF CacheInv, ConfigOK
  <2>2. pos' \in [Files -> Nat] /\ pos'[f] = p + n
    BY <2>1, <1>1, <1>2, <1>3
  <2>3. p + n <= Len(u[f])
    <3>1. Len(Store!Put(AllWords[f], b, x)) >= b + Len(x) - 1
      <4> DEFINE l == Len(AllWords[f])
                 e == b + Len(x) - 1
      <4>1. l \in Nat /\ e \in Nat
        BY <1>2, <1>3, <1>4, <1>6
      <4>2. Len(Store!Put(AllWords[f], b, x)) = IF e > l THEN e ELSE l
        BY ZenonT(40), <1>2, <1>3, <1>4, <1>6, PutAny
      <4> QED
        BY <4>1, <4>2
    <3>2. b + Len(x) - 1 = p + n
      BY <1>2, <1>3, <1>6
    <3>3. Len(u[f]) = Len(Store!Put(AllWords[f], b, x)) /\ Len(u[f]) \in Nat
      BY <1>8, <1>11
    <3> QED
      BY <3>1, <3>2, <3>3, <1>2, <1>3
  <2>4. \A g \in config.streams \ {f} : pos'[g] = pos[g] /\ u[g] = AllWords[g]
    BY <2>1, <1>1, <1>5, <1>11
  <2> QED
    BY <2>2, <2>3, <2>4 DEF CacheInv
<1>16. \A g \in Files \ config.streams : Len(u[g]) % 2 = 0
  BY <1>1, <1>5, <1>11 DEF CacheInv
<1>17. CacheInv' /\ AllWords' = u
  <2>1. exited' \in BOOLEAN /\ (config.nb = 1 => exited' = FALSE)
        /\ open_flag' \in [Files -> BOOLEAN] /\ CacheInv
    BY <1>1 DEF CacheInv
  <2> QED
    BY <2>1, <1>1, <1>14, <1>15, <1>16, Kept
<1>18. Store!Write(f, pos[f] + 1, x)
  <2>1. AllWords'[f] = Store!Put(AllWords[f], pos[f] + 1, x)
        /\ \A g \in Files \ {f} : AllWords'[g] = AllWords[g]
    BY <1>5, <1>6, <1>8, <1>11, <1>17
  <2> QED
    BY <2>1, <1>1 DEF Store!Write
<1>19. Answered(f)
  BY <1>1, <1>18 DEF Answered, x
<1> QED
  BY <1>17, <1>19 DEF Step

\* qqcopen: the file has no page yet.
LEMMA OpenStep ==
  ASSUME CacheInv, ~exited, NEW f \in Files, Open(f)
  PROVE  CacheInv' /\ Step
<1>1. /\ open_flag[f] = FALSE /\ open_flag' = [open_flag EXCEPT ![f] = TRUE]
      /\ file_size' = [file_size EXCEPT ![f] = Len(disk[f])]
      /\ page' = [page EXCEPT ![f] = <<>>]
      /\ pos' = [pos EXCEPT ![f] = 0]
      /\ UNCHANGED <<config, disk, nfree, global_count, dastat, answer, exited>>
  BY DEF Open, CacheInv
<1>2. ~Paged(f)
  BY <1>1 DEF Paged, InUse
<1>3. page[f] = <<>> /\ AllWords[f] = disk[f] /\ disk[f] \in Seq(Word)
  BY <1>2, PlainIs
<1>4. PICK w : w = AllWords
  OBVIOUS
<1>5. PICK t : t = [State EXCEPT !.size = file_size']
  OBVIOUS
<1>6. /\ Sound(State, w) /\ w \in AllFiles /\ State \in StateType /\ State.size = file_size
      /\ State.disk = disk /\ State.page = page /\ State.nfree = nfree
      /\ State.count = global_count /\ Counted(State)
  BY <1>4, StateIs DEF CacheInv, Sound
<1>7. /\ file_size' \in [Files -> Nat] /\ file_size'[f] = Len(disk[f])
      /\ \A g \in Files \ {f} : file_size'[g] = file_size[g]
  <2>1. file_size \in [Files -> Nat] /\ Len(disk[f]) \in Nat
    BY <1>3, <1>6 DEF StateType
  <2> QED
    BY <2>1, <1>1
<1>8. page' = page
  <2>1. page \in [Files -> Seq(PageType)]
    BY <1>6 DEF StateType
  <2> QED
    BY <2>1, <1>1, <1>3
<1>9. /\ t \in StateType /\ t.size = file_size' /\ t.disk = disk /\ t.page = page
      /\ t.nfree = nfree /\ t.count = global_count
  BY <1>5, <1>6, <1>7 DEF StateType
<1>10. Becomes(t)
  BY <1>1, <1>8, <1>9 DEF Becomes
<1>11. ASSUME NEW g \in Files, g # f PROVE ShowsAt(State, w, g)'
  <2>1. ShowsAt(State, w, g)
    BY <1>6 DEF Sound, Shows
  <2>2. t.page[g] = State.page[g] /\ t.disk[g] = State.disk[g] /\ t.size[g] = State.size[g]
    BY <1>6, <1>7, <1>9, <1>11
  <2>3. ShowsAt(t, w, g)
    BY <2>1, <2>2, OtherFile
  <2>4. open_flag'[g] = open_flag[g]
    BY <1>1, <1>11 DEF CacheInv
  <2> QED
    BY <2>3, <2>4, <1>1, <1>9, <1>10, ShowsAfter
<1>12. ShowsAt(State, w, f)'
  <2>1. /\ State'.page[f] = <<>> /\ State'.disk[f] = disk[f] /\ w[f] = disk[f]
        /\ State'.size[f] = Len(disk[f])
    BY <1>1, <1>3, <1>4, <1>7, <1>8, <1>9, <1>10, StateAfter
  <2>2. Plain(State, w, f)'
    BY <2>1 DEF Plain
  <2>3. FileShows(State, w, f)'
    <3>1. Len(disk[f]) \in Nat /\ Len(State'.page[f]) = 0
      BY <1>3, <2>1
    <3>2. \A j \in 1..Len(w[f]) : OnDisk(State, w, f, j)'
      BY <2>1, <3>1 DEF OnDisk
    <3>3. 1..Len(State'.page[f]) = {}
      BY <3>1
    <3> QED
      BY <2>1, <3>1, <3>2, <3>3 DEF FileShows
  <2> QED
    BY <2>1, <2>2, <2>3 DEF ShowsAt
<1>13. Sound(State, w)'
  <2>1. Counted(State)'
    <3>1. Counted(t)
      BY <1>6, <1>9, CountedSame
    <3> QED
      BY <3>1, <1>1, <1>9, <1>10, CountedAfter
  <2>2. State' \in StateType' /\ w \in AllFiles'
    BY <1>1, <1>6, <1>9, <1>10, StateAfter, ConfigKept
  <2>3. \A g \in Files : ShowsAt(State, w, g)'
    BY <1>11, <1>12
  <2> QED
    BY <2>1, <2>2, <2>3 DEF Sound, Shows
<1>14. /\ open_flag' \in [Files -> BOOLEAN] /\ open_flag'[f] = TRUE
       /\ \A g \in Files \ {f} : open_flag'[g] = open_flag[g]
       /\ pos' \in [Files -> Nat] /\ pos'[f] = 0 /\ \A g \in Files \ {f} : pos'[g] = pos[g]
  BY <1>1 DEF CacheInv
<1>15. /\ \A g \in Files \ config.streams : Len(w[g]) % 2 = 0
       /\ \A g \in config.streams : pos'[g] <= Len(w[g])
  <2>1. config.streams \subseteq Files /\ Len(w[f]) \in Nat
    BY <1>6 DEF CacheInv, ConfigOK, AllFiles
  <2>2. \A g \in Files \ config.streams : Len(w[g]) % 2 = 0
    BY <1>4 DEF CacheInv
  <2>3. ASSUME NEW g \in config.streams, g # f PROVE pos'[g] <= Len(w[g])
    <3>1. pos'[g] = pos[g] /\ pos[g] <= Len(AllWords[g])
      BY <2>1, <2>3, <1>14 DEF CacheInv
    <3> QED
      BY <3>1, <1>4
  <2>4. pos'[f] <= Len(w[f])
    BY <2>1, <1>14
  <2> QED
    BY <2>2, <2>3, <2>4
<1>16. exited' \in BOOLEAN /\ (config.nb = 1 => exited' = FALSE) /\ config' = config
  BY <1>1 DEF CacheInv
<1>17. CacheInv' /\ AllWords' = w
  BY <1>13, <1>14, <1>15, <1>16, Kept
<1>18. Store!Connect(f)
  BY <1>1, <1>4, <1>14, <1>17 DEF Store!Connect
<1> QED
  BY <1>17, <1>18 DEF Step

\* qqcclos: what the pages held is on disk.
LEMMA CloseStep ==
  ASSUME CacheInv, ~exited, NEW f \in Files, Close(f)
  PROVE  CacheInv' /\ Step
<1>1. PICK w : w = AllWords
  OBVIOUS
<1>2. /\ Sound(State, w) /\ w \in AllFiles /\ State \in StateType /\ State.size = file_size
      /\ ~State.exited /\ ConfigOK
  BY <1>1, StateIs DEF CacheInv, Sound
<1>3. PICK s : s = wa_pages_flush(State, f)
  OBVIOUS
<1>4. Sound(s, w) /\ Relieved(State, s) /\ s.page[f] = <<>>
  BY <1>2, <1>3, wa_pages_flushIs
<1>5. s \in StateType /\ Counted(s) /\ ~s.exited /\ s.size = file_size
  BY <1>2, <1>4 DEF Sound, Relieved
<1> DEFINE z == IF P = 0 THEN s.size[f] ELSE 0
<1>6. PICK t : t = [s EXCEPT !.size = [s.size EXCEPT ![f] = z]]
  OBVIOUS
<1>7. [wa_pages_flush(State, f) EXCEPT !.size[f] = IF P = 0 THEN @ ELSE 0] = t
  BY <1>3, <1>6
<1>8. /\ open_flag[f] /\ open_flag' = [open_flag EXCEPT ![f] = FALSE] /\ Assign(t)
      /\ pos' = [pos EXCEPT ![f] = 0] /\ UNCHANGED <<config, dastat, answer>>
  BY <1>7 DEF Close
<1>9. /\ t \in StateType /\ t.disk = s.disk /\ t.page = s.page /\ t.nfree = s.nfree
      /\ t.count = s.count /\ ~t.exited
      /\ \A g \in Files \ {f} : t.size[g] = s.size[g]
  <2>1. z \in Nat /\ s.size \in [Files -> Nat]
    BY <1>5 DEF StateType
  <2> HIDE DEF z
  <2> DEFINE y == [s.size EXCEPT ![f] = z]
  <2>2. y \in [Files -> Nat] /\ \A g \in Files \ {f} : y[g] = s.size[g]
    BY <2>1
  <2>3. t = [s EXCEPT !.size = y]
    BY <1>6
  <2> HIDE DEF y
  <2>4. t \in StateType /\ t.size = y /\ t.disk = s.disk /\ t.page = s.page
        /\ t.nfree = s.nfree /\ t.count = s.count /\ t.exited = s.exited
    BY <2>2, <2>3, <1>5 DEF StateType
  <2> QED
    BY <2>2, <2>4, <1>5
<1>10. Becomes(t) /\ exited' = exited
  BY <1>8, <1>9 DEF Assign, Becomes
<1>11. /\ open_flag' \in [Files -> BOOLEAN] /\ open_flag'[f] = FALSE /\ open_flag[f] = TRUE
       /\ \A g \in Files \ {f} : open_flag'[g] = open_flag[g]
       /\ pos' \in [Files -> Nat] /\ pos'[f] = 0 /\ \A g \in Files \ {f} : pos'[g] = pos[g]
  BY <1>8 DEF CacheInv
<1>12. ASSUME NEW g \in Files, g # f PROVE ShowsAt(State, w, g)'
  <2>1. ShowsAt(s, w, g)
    BY <1>4 DEF Sound, Shows
  <2>2. t.page[g] = s.page[g] /\ t.disk[g] = s.disk[g] /\ t.size[g] = s.size[g]
    BY <1>9, <1>12
  <2>3. ShowsAt(t, w, g)
    BY <2>1, <2>2, OtherFile
  <2>4. open_flag'[g] = open_flag[g]
    BY <1>11, <1>12
  <2> QED
    BY <2>3, <2>4, <1>8, <1>9, <1>10, ShowsAfter
<1>13. w[f] = s.disk[f]
  <2>1. ShowsAt(s, w, f) /\ w[f] \in Seq(Word) /\ s.disk[f] \in Seq(Word)
    BY <1>2, <1>4, <1>5 DEF Sound, Shows, AllFiles, StateType
  <2>2. CASE ~Paged(f)
    BY <2>1, <2>2 DEF ShowsAt, Plain
  <2>3. CASE Paged(f)
    <3>1. FileShows(s, w, f) /\ s.size[f] = Len(w[f])
      BY <2>1, <2>3 DEF ShowsAt, Paged
    <3> DEFINE l == Len(w[f])
               d == Len(s.disk[f])
    <3>2. l \in Nat /\ d \in Nat /\ d <= l
      BY <2>1, <3>1 DEF FileShows
    <3>3. \A j \in 1..l : ~Held(s, f, j)
      <4>1. Len(s.page[f]) = 0
        BY <1>4
      <4> QED
        BY <4>1 DEF Held
    <3>4. \A j \in 1..l : OnDisk(s, w, f, j)
      BY <3>1, <3>3 DEF FileShows
    <3>5. \A j \in 1..l : j <= d /\ s.disk[f][j] = w[f][j]
      BY <3>4 DEF OnDisk
    <3> HIDE DEF l, d
    <3>6. l = d
      <4>1. l # 0 => l \in 1..l
        BY <3>2
      <4> QED
        BY <4>1, <3>2, <3>5
    <3>7. \A j \in 1..l : s.disk[f][j] = w[f][j]
      BY <3>5
    <3> QED
      BY <2>1, <3>6, <3>7, SameWords DEF l, d
  <2> QED
    BY <2>2, <2>3
<1>14. ShowsAt(State, w, f)'
  <2>1. State'.page[f] = <<>> /\ State'.disk[f] = w[f]
    BY <1>4, <1>9, <1>10, <1>13, StateAfter
  <2>2. Plain(State, w, f)'
    BY <2>1 DEF Plain
  <2>3. ~InUse(f)'
    BY <1>11 DEF InUse
  <2>4. ~Paged(f)'
    BY <2>3 DEF Paged
  <2> QED
    BY <2>2, <2>3, <2>4 DEF ShowsAt
<1>15. Sound(State, w)'
  <2>1. Counted(State)'
    <3>1. Counted(t)
      BY <1>5, <1>9, CountedSame
    <3> QED
      BY <3>1, <1>8, <1>9, <1>10, CountedAfter
  <2>2. State' \in StateType' /\ w \in AllFiles'
    BY <1>2, <1>8, <1>9, <1>10, StateAfter, ConfigKept
  <2>3. \A g \in Files : ShowsAt(State, w, g)'
    BY <1>12, <1>14
  <2> QED
    BY <2>1, <2>2, <2>3 DEF Sound, Shows
<1>16. /\ \A g \in Files \ config.streams : Len(w[g]) % 2 = 0
       /\ \A g \in config.streams : pos'[g] <= Len(w[g])
  <2>1. config.streams \subseteq Files /\ Len(w[f]) \in Nat
    BY <1>2 DEF ConfigOK, AllFiles
  <2>2. \A g \in Files \ config.streams : Len(w[g]) % 2 = 0
    BY <1>1 DEF CacheInv
  <2>3. ASSUME NEW g \in config.streams, g # f PROVE pos'[g] <= Len(w[g])
    <3>1. pos'[g] = pos[g] /\ pos[g] <= Len(AllWords[g])
      BY <2>1, <2>3, <1>11 DEF CacheInv
    <3> QED
      BY <3>1, <1>1
  <2>4. pos'[f] <= Len(w[f])
    BY <2>1, <1>11
  <2> QED
    BY <2>2, <2>3, <2>4
<1>17. exited' \in BOOLEAN /\ (config.nb = 1 => exited' = FALSE) /\ config' = config
  BY <1>8, <1>10 DEF CacheInv
<1>18. CacheInv' /\ AllWords' = w
  BY <1>11, <1>15, <1>16, <1>17, Kept
<1>19. Store!Connect(f)
  BY <1>1, <1>8, <1>10, <1>11, <1>18 DEF Store!Connect
<1> QED
  BY <1>18, <1>19 DEF Step

LEMMA PageConfigIs ==
  ASSUME NEW x \in Settings, config = PageConfig(x)
  PROVE  ConfigOK
<1> DEFINE one == IF Len(x.env) \in 1..4 THEN x.env[1] ELSE 0
           two == IF Len(x.env) \in 2..4 THEN x.env[2] ELSE 1
           three == IF Len(x.env) \in 3..4 THEN x.env[3] ELSE 0
           nb == Min({two, MaxPages})
           limit == IF three = 0 THEN nb * MaxWaFiles ELSE three
<1>1. config = [size |-> one, nb |-> nb, limit |-> limit, streams |-> x.streams]
  BY DEF PageConfig
<1>2. x.env \in Seq(Nat) /\ x.streams \subseteq Files /\ (Len(x.env) \in 2..4 => x.env[2] > 0)
  BY WaAssumption
<1>3. MaxPages \in Nat \ {0} /\ MaxWaFiles \in Nat \ {0}
  BY WaAssumption
<1>4. one \in Nat /\ one % 2 = 0
  BY <1>2, EvenAssumption
<1>5. two \in Nat \ {0} /\ three \in Nat
  BY <1>2
<1> HIDE DEF one, two, three
<1>6. nb = IF two <= MaxPages THEN two ELSE MaxPages
  BY <1>3, <1>5, MinOfTwo
<1>7. nb \in 1..MaxPages
  BY <1>3, <1>5, <1>6
<1> HIDE DEF nb
<1>8. limit \in Nat \ {0}
  <2>1. nb * MaxWaFiles \in Nat \ {0}
    BY <1>3, <1>7
  <2> QED
    BY <2>1, <1>5
<1> HIDE DEF limit
<1> QED
  BY <1>1, <1>2, <1>4, <1>7, <1>8 DEF ConfigOK

LEMMA InitIs == Init => CacheInv
<1> SUFFICES ASSUME Init PROVE CacheInv
  OBVIOUS
<1> USE DEF Init
<1> DEFINE w == [f \in Files |-> <<>>]
<1>1. ConfigOK
  <2>1. PICK x \in Settings : config = PageConfig(x)
    OBVIOUS
  <2> QED
    BY <2>1, PageConfigIs
<1>2. State = [disk |-> w, size |-> [f \in Files |-> 0], page |-> w, nfree |-> 0,
               count |-> 0, exited |-> FALSE, out |-> <<>>]
  BY DEF State
<1>3. State \in StateType /\ w \in AllFiles
  BY <1>2 DEF StateType, AllFiles
<1>4. ASSUME NEW f \in Files PROVE ShowsAt(State, w, f)
  BY <1>2 DEF ShowsAt, Plain, Paged, InUse
<1>5. Counted(State)
  <2>1. Pages(State) = {}
    BY <1>2, <1>3, InPages
  <2>2. IsFiniteSet({}) /\ Cardinality({}) = 0
    BY FS_EmptySet
  <2>3. config.limit \in Nat /\ config.nb \in Nat
    BY <1>1 DEF ConfigOK
  <2> QED
    BY <2>1, <2>2, <2>3, <1>2 DEF Counted
<1>6. Sound(State, w)
  BY <1>3, <1>4, <1>5 DEF Sound, Shows
<1>7. AllWords = w
  BY <1>6, AllWordsIs
<1>8. \A f \in Files : Len(w[f]) = 0
  OBVIOUS
<1> HIDE DEF w
<1>9. \A f \in Files : Len(AllWords[f]) = 0
  BY <1>7, <1>8
<1>10. \A f \in Files : Len(AllWords[f]) % 2 = 0 /\ pos[f] <= Len(AllWords[f])
  <2> TAKE f \in Files
  <2>1. Len(AllWords[f]) = 0 /\ pos[f] = 0
    BY <1>9
  <2>2. 0 % 2 = 0
    OBVIOUS
  <2> QED
    BY <2>1, <2>2
<1> QED
  BY <1>1, <1>6, <1>7, <1>10 DEF CacheInv, ConfigOK

LEMMA NextIs ==
  ASSUME CacheInv, [Next]_vars
  PROVE  CacheInv' /\ (Step \/ UNCHANGED vars)
<1>1. CASE UNCHANGED vars
  <2>1. UNCHANGED <<config, disk, file_size, page, nfree, global_count, open_flag>>
        /\ UNCHANGED <<pos, exited>>
    BY <1>1 DEF vars
  <2>2. Sound(State, AllWords)' /\ AllWords' = AllWords
    BY <2>1, StateKept
  <2>3. ConfigOK'
    BY <2>1, ConfigKept DEF CacheInv
  <2> QED
    BY <1>1, <2>1, <2>2, <2>3 DEF CacheInv
<1>2. CASE Next
  <2>1. ~exited
    BY <1>2 DEF Next
  <2>2. PICK f \in Files :
            \/ Open(f) \/ Close(f) \/ Checda(f)
            \/ \E a \in Addresses(f), n \in Lengths :
                   Read(f, a, n) \/ \E v \in Values : Write(f, a, n, v)
            \/ \E b \in Blocks : Readda(f, b) \/ \E v \in Values : Writda(f, b, v)
            \/ \E n \in Lengths : SqGetw(f, n) \/ \E v \in Values : SqPutw(f, n, v)
            \/ \E eoi \in BOOLEAN : SqMove(f, eoi)
    BY <1>2 DEF Next
  <2>3. CASE Open(f)
    BY <2>1, <2>3, OpenStep
  <2>4. CASE Close(f)
    BY <2>1, <2>4, CloseStep
  <2>5. CASE Checda(f)
    BY <2>1, <2>5, ChecdaStep
  <2>6. CASE \E a \in Addresses(f), n \in Lengths :
                 Read(f, a, n) \/ \E v \in Values : Write(f, a, n, v)
    BY <2>1, <2>6, ReadStep, WriteStep
  <2>7. CASE \E b \in Blocks : Readda(f, b) \/ \E v \in Values : Writda(f, b, v)
    BY <2>1, <2>7, ReaddaStep, WritdaStep
  <2>8. CASE \E n \in Lengths : SqGetw(f, n) \/ \E v \in Values : SqPutw(f, n, v)
    BY <2>1, <2>8, SqGetwStep, SqPutwStep
  <2>9. CASE \E eoi \in BOOLEAN : SqMove(f, eoi)
    BY <2>1, <2>9, SqMoveStep
  <2> QED
    BY <2>2, <2>3, <2>4, <2>5, <2>6, <2>7, <2>8, <2>9
<1> QED
  BY <1>1, <1>2

-----------------------------------------------------------------------------
(* The theorems.                                                           *)

\* The invariant holds in every state (all the calls of c_baseio.c).
THEOREM CacheIsSound == Spec => []CacheInv
<1>1. Init => CacheInv
  BY InitIs
<1>2. CacheInv /\ [Next]_vars => CacheInv'
  BY NextIs
<1> QED
  BY <1>1, <1>2, PTL DEF Spec

LEMMA SoundTypes == CacheInv => TypeOK
<1> SUFFICES ASSUME CacheInv PROVE TypeOK
  OBVIOUS
<1>1. /\ State \in StateType /\ Counted(State) /\ Shows(State, AllWords) /\ ConfigOK
      /\ State.page = page /\ State.disk = disk /\ State.size = file_size
      /\ State.nfree = nfree /\ State.count = global_count
  BY StateIs DEF CacheInv, Sound
<1>2. config.limit \in Nat \ {0} /\ config.nb \in 1..MaxPages
  BY <1>1 DEF ConfigOK
<1>3. ASSUME NEW f \in Files
      PROVE  /\ \A i \in DOMAIN disk[f] : disk[f][i] \in Word
             /\ Len(page[f]) <= config.nb
             /\ \A i \in DOMAIN page[f] :
                    /\ page[f][i].wa0 >= 1 /\ page[f][i].walast <= page[f][i].wa0 + P - 1
                    /\ page[f][i].adr \in [0..(P - 1) -> Word]
  <2>1. disk[f] \in Seq(Word) /\ page[f] \in Seq(PageType)
    BY <1>1 DEF StateType
  <2>2. \A i \in DOMAIN disk[f] : disk[f][i] \in Word
    <3> DEFINE W == Word
    <3>1. disk[f] \in Seq(W)
      BY <2>1
    <3> HIDE DEF W
    <3>2. \A i \in DOMAIN disk[f] : disk[f][i] \in W
      BY <3>1
    <3> QED
      BY <3>2 DEF W
  <2>3. Len(page[f]) <= config.nb
    BY <1>1 DEF Counted
  <2>4. ASSUME NEW i \in DOMAIN page[f]
        PROVE  /\ page[f][i].wa0 >= 1 /\ page[f][i].walast <= page[f][i].wa0 + P - 1
               /\ page[f][i].adr \in [0..(P - 1) -> Word]
    <3>1. i \in 1..Len(page[f]) /\ page[f][i] \in PageType /\ page[f] # <<>>
      BY <2>1
    <3>2. FileShows(State, AllWords, f)
      <4>1. ShowsAt(State, AllWords, f)
        BY <1>1 DEF Shows
      <4> QED
        BY <4>1, <3>1, <1>1 DEF ShowsAt, Plain
    <3>3. PageShows(State, AllWords, f, page[f][i])
      BY <3>1, <3>2, <1>1 DEF FileShows
    <3>4. P \in Nat /\ IsStart(page[f][i].wa0)
      BY <3>3, <1>1 DEF ConfigOK, P, PageShows
    <3>5. page[f][i].wa0 \in Nat \ {0}
      BY <3>4, StartNat
    <3> QED
      BY <3>1, <3>3, <3>5 DEF PageShows, PageType
  <2> QED
    BY <2>2, <2>3, <2>4
<1>4. file_size \in [Files -> Nat] /\ open_flag \in [Files -> BOOLEAN] /\ exited \in BOOLEAN
  BY <1>1 DEF StateType, CacheInv
<1>5. nfree \in 0..config.limit /\ global_count \in 0..config.limit
  <2>1. Cardinality(Pages(State)) \in Nat
    BY <1>1, FS_CardinalityType DEF Counted
  <2>2. /\ nfree \in Nat /\ global_count \in Nat /\ global_count <= config.limit
        /\ global_count = nfree + Cardinality(Pages(State))
    BY <1>1 DEF Counted, StateType
  <2> QED
    BY <2>1, <2>2, <1>2
<1> QED
  BY <1>2, <1>3, <1>4, <1>5 DEF TypeOK

\* Every variable keeps its type, a page its place and no more than WA_PAGE_SIZE words, a
\* file no more than WA_PAGE_NB pages (get_new_page, wa_page_read, wa_page_write).
THEOREM CacheTypes == Spec => []TypeOK
BY CacheIsSound, SoundTypes, PTL

\* Scrapping, closing and failing lose no buffer: those that were allocated are those of
\* the pages in use and the free ones (get_new_page, scrap_page, wa_pages_flush).
THEOREM CacheKeepsBuffers == Spec => []BuffersAreKept
<1>1. CacheInv => BuffersAreKept
  <2> SUFFICES ASSUME CacheInv PROVE BuffersAreKept
    OBVIOUS
  <2>1. Counted(State) /\ State.page = page /\ State.nfree = nfree /\ State.count = global_count
    BY StateIs DEF CacheInv, Sound
  <2> QED
    BY <2>1 DEF Counted, Pages, BuffersAreKept
<1> QED
  BY <1>1, CacheIsSound, PTL

\* With one page a file the library never ends the process, whatever was scrapped for
\* whichever file: the words a page needs are on disk when it is read in, and no two pages
\* overlap (wa_page_read, wa_page_write, scrap_page, get_new_page).
THEOREM OnePageNeverExits == Spec => []NeverExits
<1>1. CacheInv => NeverExits
  BY DEF CacheInv, NeverExits
<1> QED
  BY <1>1, CacheIsSound, PTL

\* The page cache implements the store of words: a read answers the words that were written
\* last, closing a file leaves them on disk, and scrapping a page changes no file
\* (c_waread2, c_wawrit2, qqcopen, qqcclos, the direct-access calls and the streams).
THEOREM CacheImplementsStore == Spec => Store!Init /\ Refines
<1>1. Init => Store!Init
  <2> SUFFICES ASSUME Init PROVE Store!Init
    OBVIOUS
  <2>1. \A f \in Files : page[f] = <<>> /\ disk[f] = <<>> /\ open_flag[f] = FALSE
    BY DEF Init
  <2>2. ASSUME NEW f \in Files PROVE Words(f) = <<>>
    <3>1. Sound(State, AllWords) /\ State.disk = disk /\ ~Paged(f)
      BY <2>1, InitIs, StateIs DEF CacheInv, Paged, InUse
    <3>2. AllWords[f] = disk[f]
      BY <3>1, <2>1, InitIs, PlainIs
    <3> QED
      BY <3>2, <2>1 DEF AllWords
  <2>3. AllWords \in [Files -> Seq(Nat)]
    <3>1. AllWords = [f \in Files |-> <<>>]
      BY <2>2 DEF AllWords
    <3>2. <<>> \in Seq(Nat)
      OBVIOUS
    <3> HIDE DEF AllWords
    <3> QED
      BY <3>1, <3>2
  <2> QED
    BY <2>3 DEF Init, Store!Init
<1>2. CacheInv /\ [Next]_vars =>
          [\/ Store!End
           \/ \E f \in Files : Store!Connect(f) \/ Answered(f)
           \/ UNCHANGED <<answer, open_flag, exited>> /\ UNCHANGED AllWords]_vars
  BY NextIs DEF Step
<1> QED
  BY <1>1, <1>2, CacheIsSound, PTL DEF Spec, Refines
=============================================================================
