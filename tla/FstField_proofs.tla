--------------------------- MODULE FstField_proofs ---------------------------
(***************************************************************************)
(* Theorems about FstField: the searches with and without filters find the *)
(* same records, a rewrite takes the place of a record like its own, and   *)
(* what was written is read, for every set of units, calls, keys,          *)
(* remappings, codes and bounds.  The first invariant, FieldInv, is about  *)
(* the directory; the second, DataInv, about the data behind it.           *)
(***************************************************************************)
EXTENDS FstField, Extremes, FiniteSetTheorems

-----------------------------------------------------------------------------
(* What the files and the filters hold.                                    *)

\* A record that can be found has the keys of a valid call.
HasKeys(rec) == {"live", "key"} \subseteq DOMAIN rec /\ rec.key \in [Ips -> Nat]

\* A record that can be written is one of them that is not deleted.
CanBeWritten(rec) == HasKeys(rec) /\ rec.live = TRUE

\* The files are sequences, whatever the records are made of.
FilesTyped == \E S : records \in [Units -> Seq(S)]

RecordsHaveKeys ==
    \A u \in Units : \A h \in DOMAIN records[u] :
        /\ "live" \in DOMAIN records[u][h] /\ records[u][h].live \in BOOLEAN
        /\ records[u][h].live => CanBeWritten(records[u][h])

\* The filters hold 0 and the mark of a code that does not exist (ConvertIp).
FiltersHoldNoCode == ips_tab \in [Ips -> Seq({0, -9999})]

ImageHasKeys == image = NoImage \/ CanBeWritten(image)

FieldInv == FilesTyped /\ RecordsHaveKeys /\ FiltersHoldNoCode /\ ImageHasKeys

LEMMA RecordNumbers ==
  ASSUME FilesTyped, NEW u \in Units
  PROVE  DOMAIN records[u] \subseteq Nat \ {0} /\ DOMAIN records[u] = 1..Len(records[u])
         /\ Len(records[u]) \in Nat
<1>1. PICK S : records \in [Units -> Seq(S)]
  BY DEF FilesTyped
<1>2. records[u] \in Seq(S)
  BY <1>1
<1> QED
  BY <1>2

-----------------------------------------------------------------------------
(* Searches.                                                               *)

LEMMA InfxFinds ==
  ASSUME FieldInv, NEW u \in Units, NEW key
  PROVE  \/ Found(u, key) = {} /\ Infx(u, key) = -1
         \/ Infx(u, key) \in Found(u, key) /\ \A h \in Found(u, key) : Infx(u, key) <= h
<1>1. Found(u, key) \subseteq Nat
  BY RecordNumbers DEF FieldInv, Found
<1> QED
  BY <1>1, LeastIs DEF Infx

\* A record that is found has the keys that were asked for, filtered or not.
LEMMA FoundHasKeys ==
  ASSUME FieldInv, Nested, NEW u \in Units, NEW key \in [Ips -> Nat \cup {-1}],
         AskedFor(key), NEW h \in Found(u, key)
  PROVE  /\ h \in DOMAIN records[u] /\ Live(u, h) /\ CanBeWritten(records[u][h])
         /\ \A i \in Ips : key[i] = -1 \/ records[u][h].key[i] = key[i]
         /\ \A i \in Ips : Filtered(i) => key[i] = ips_tab[i][1] /\ key[i] \in ToSet(ips_tab[i])
<1> DEFINE rec == records[u][h]
<1>1. h \in DOMAIN records[u] /\ Live(u, h) /\ Matches(key, rec) /\ ~NoMatch(key, rec)
  BY DEF Found
<1>2. CanBeWritten(rec) /\ rec.key \in [Ips -> Nat]
  BY <1>1 DEF FieldInv, RecordsHaveKeys, Live, CanBeWritten, HasKeys
<1> HIDE DEF rec
<1>3. ASSUME NEW i \in Ips, Filtered(i) PROVE IpIsEqual(key[i], rec.key[i], i)
  <2>1. \A j \in Ips : Filtered(j) => key[j] >= 0
    BY DEF AskedFor
  <2>2. 1 \in Ips /\ 2 \in Ips /\ 3 \in Ips /\ i \in {1, 2, 3}
    BY DEF Ips
  <2>3. CASE i = 1
    BY <1>1, <1>3, <2>1, <2>2, <2>3 DEF NoMatch
  <2>4. CASE i = 2
    BY <1>1, <1>3, <2>1, <2>2, <2>4 DEF NoMatch, Nested
  <2>5. CASE i = 3
    BY <1>1, <1>3, <2>1, <2>2, <2>5 DEF NoMatch, Nested
  <2> QED
    BY <2>2, <2>3, <2>4, <2>5
<1>4. ASSUME NEW i \in Ips, Filtered(i)
      PROVE  key[i] = ips_tab[i][1] /\ key[i] = 0 /\ rec.key[i] = 0 /\ 0 \in ToSet(ips_tab[i])
  <2>1. key[i] = ips_tab[i][1] /\ rec.key[i] \in ToSet(ips_tab[i])
    BY <1>3, <1>4 DEF IpIsEqual
  <2>2. ips_tab[i] \in Seq({0, -9999}) /\ ips_tab[i] # <<>>
    BY <1>4 DEF FieldInv, FiltersHoldNoCode, Filtered
  <2>3. ToSet(ips_tab[i]) \subseteq {0, -9999} /\ ips_tab[i][1] \in {0, -9999}
    BY <2>2 DEF ToSet
  <2>4. key[i] >= 0 /\ rec.key[i] \in Nat
    BY <1>2, <1>4 DEF AskedFor
  <2> QED
    BY <2>1, <2>3, <2>4
<1>5. \A i \in Ips : key[i] = -1 \/ rec.key[i] = key[i]
  BY <1>1, <1>4 DEF Matches
<1> QED
  BY <1>1, <1>2, <1>4, <1>5 DEF rec

\* Once the filters select a record they select all those with the keys asked for.
LEMMA FoundIsAll ==
  ASSUME FieldInv, Nested, NEW u \in Units, NEW key \in [Ips -> Nat \cup {-1}],
         AskedFor(key), Found(u, key) # {}
  PROVE  Found(u, key) = Unfiltered(u, key)
<1>1. PICK g \in Found(u, key) : TRUE
  OBVIOUS
<1>2. \A i \in Ips : Filtered(i) => key[i] = ips_tab[i][1] /\ key[i] \in ToSet(ips_tab[i])
  BY <1>1, FoundHasKeys
<1>3. ASSUME NEW h \in Found(u, key) PROVE h \in Unfiltered(u, key)
  <2>1. /\ h \in DOMAIN records[u] /\ Live(u, h)
        /\ \A i \in Ips : key[i] = -1 \/ records[u][h].key[i] = key[i]
    BY FoundHasKeys
  <2> QED
    BY <2>1 DEF Unfiltered
<1>4. ASSUME NEW h \in Unfiltered(u, key) PROVE h \in Found(u, key)
  <2>1. /\ h \in DOMAIN records[u] /\ Live(u, h)
        /\ \A i \in Ips : key[i] = -1 \/ records[u][h].key[i] = key[i]
    BY DEF Unfiltered
  <2>2. Matches(key, records[u][h])
    BY <2>1 DEF Matches
  <2>3. ASSUME NEW i \in Ips, Filtered(i) PROVE IpIsEqual(key[i], records[u][h].key[i], i)
    <3>1. key[i] # -1
      BY <2>3 DEF AskedFor
    <3> QED
      BY <1>2, <2>1, <2>3, <3>1 DEF IpIsEqual
  <2>4. ~NoMatch(key, records[u][h])
    BY <2>3 DEF NoMatch, Ips
  <2> QED
    BY <2>1, <2>2, <2>4 DEF Found
<1> QED
  BY <1>3, <1>4

LEMMA InlAgrees ==
  ASSUME FieldInv, Nested, NEW u \in Units, NEW key \in [Ips -> Nat \cup {-1}], AskedFor(key)
  PROVE  Inl(u, key) \in {{}, Unfiltered(u, key)}
<1> DEFINE f == Infx(u, key)
<1>1. CASE Found(u, key) = {}
  BY <1>1 DEF Infx, Inl
<1>2. CASE Found(u, key) # {}
  <2>1. f \in Found(u, key) /\ \A h \in Found(u, key) : f <= h
    BY <1>2, InfxFinds
  <2>2. Found(u, key) = Unfiltered(u, key)
    BY <1>2, FoundIsAll
  <2>3. /\ f \in DOMAIN records[u] /\ Live(u, f)
        /\ \A i \in Ips : key[i] = -1 \/ records[u][f].key[i] = key[i]
    BY <2>1, FoundHasKeys
  <2>4. f \in Nat \ {0} /\ DOMAIN records[u] \subseteq Nat
    BY <2>3, RecordNumbers DEF FieldInv
  <2>5. \A i \in Ips : Filtered(i) => key[i] # -1
    BY DEF AskedFor
  <2> HIDE DEF f
  <2>6. ASSUME NEW h \in DOMAIN records[u], Live(u, h)
        PROVE  (\A i \in Ips : \/ key[i] = -1 /\ ~Filtered(i)
                               \/ records[u][h].key[i] = records[u][f].key[i])
               <=> \A i \in Ips : key[i] \in {-1, records[u][h].key[i]}
    BY <2>3, <2>5
  <2>7. Unfiltered(u, key) = {f} \cup
          {h \in DOMAIN records[u] :
              /\ h > f /\ Live(u, h)
              /\ \A i \in Ips : \/ key[i] = -1 /\ ~Filtered(i)
                                \/ records[u][h].key[i] = records[u][f].key[i]}
    <3>1. f \in Unfiltered(u, key)
      BY <2>1, <2>2
    <3>2. \A h \in Unfiltered(u, key) : h = f \/ h > f
      BY <2>1, <2>2, <2>4 DEF Unfiltered
    <3> QED
      BY <2>6, <3>1, <3>2 DEF Unfiltered
  <2>8. f # -1
    BY <2>4
  <2> QED
    BY <2>7, <2>8 DEF Inl, Behind, f
<1> QED
  BY <1>1, <1>2

-----------------------------------------------------------------------------
(* Writing.                                                                *)

\* What c_xdfput does to the files: the record takes the place of the old one, or
\* comes at the end and the old one goes.
Puts(u, old, rec) ==
    /\ FilesTyped' /\ \A v \in Units \ {u} : records'[v] = records[v]
    /\ Len(records'[u]) \in {Len(records[u]), Len(records[u]) + 1}
    /\ DOMAIN records'[u] = 1..Len(records'[u])
    /\ Len(records'[u]) > Len(records[u]) => records'[u][Len(records'[u])] = rec
    /\ \A h \in DOMAIN records[u] :
          \/ records'[u][h] = records[u][h]
          \/ h = old /\ records'[u][h] = rec
          \/ h = old /\ records'[u][h] = Deleted /\ Len(records'[u]) > Len(records[u])

LEMMA PutPuts ==
  ASSUME FieldInv, NEW u \in Units, NEW old \in {-1} \cup DOMAIN records[u], NEW rec,
         records' = Put(u, old, rec)
  PROVE  Puts(u, old, rec)
<1>1. PICK S : records \in [Units -> Seq(S)]
  BY DEF FieldInv, FilesTyped
<1> DEFINE T == S \cup {rec, Deleted}
           s == records[u]
           gone == [s EXCEPT ![old] = Deleted]
<1>2. records \in [Units -> Seq(T)] /\ rec \in T /\ Deleted \in T
  <2>1. \A v \in Units : records[v] \in Seq(T)
    BY <1>1
  <2> QED
    BY <1>1, <2>1
<1> HIDE DEF T
<1>3. s \in Seq(T) /\ Len(s) \in Nat /\ DOMAIN s = 1..Len(s)
  BY <1>2
<1> HIDE DEF s
<1>4. CASE old > 0 /\ records' = [records EXCEPT ![u][old] = rec]
  <2> DEFINE t == [s EXCEPT ![old] = rec]
  <2>1. records' = [records EXCEPT ![u] = t] /\ old \in 1..Len(s)
    BY <1>3, <1>4 DEF s
  <2>2. t \in Seq(T) /\ Len(t) = Len(s) /\ DOMAIN t = 1..Len(s)
        /\ \A h \in 1..Len(s) : t[h] = IF h = old THEN rec ELSE s[h]
    BY <1>2, <1>3, <2>1
  <2> HIDE DEF t
  <2>3. records' \in [Units -> Seq(T)] /\ records'[u] = t
        /\ \A v \in Units \ {u} : records'[v] = records[v]
    BY <1>2, <2>1, <2>2
  <2> QED
    BY <1>3, <2>2, <2>3 DEF Puts, FilesTyped, s
<1>5. CASE old > 0 /\ records' = [records EXCEPT ![u] = Append(gone, rec)]
  <2> DEFINE t == Append(gone, rec)
  <2>1. old \in 1..Len(s)
    BY <1>3, <1>5 DEF s
  <2>2. gone \in Seq(T) /\ Len(gone) = Len(s)
        /\ \A h \in 1..Len(s) : gone[h] = IF h = old THEN Deleted ELSE s[h]
    BY <1>2, <1>3, <2>1
  <2> HIDE DEF gone
  <2>3. t \in Seq(T) /\ Len(t) = Len(s) + 1 /\ DOMAIN t = 1..Len(t)
        /\ t[Len(s) + 1] = rec /\ \A h \in 1..Len(s) : t[h] = gone[h]
    BY <1>2, <1>3, <2>2
  <2> HIDE DEF t
  <2>4. records' \in [Units -> Seq(T)] /\ records'[u] = t
        /\ \A v \in Units \ {u} : records'[v] = records[v]
    BY <1>2, <1>5, <2>3 DEF t
  <2> QED
    <3>1. Len(t) > Len(s) /\ Len(t) \in {Len(s), Len(s) + 1} /\ t[Len(t)] = rec
      BY <1>3, <2>3
    <3>2. \A h \in DOMAIN s : t[h] = s[h] \/ (h = old /\ t[h] = Deleted)
      BY <1>3, <2>2, <2>3
    <3>3. records[u] = s /\ records'[u] = t /\ DOMAIN t = 1..Len(t)
      BY <2>3, <2>4 DEF s
    <3>4. FilesTyped'
      BY <2>4 DEF FilesTyped
    <3> QED
      BY <2>4, <3>1, <3>2, <3>3, <3>4 DEF Puts
<1>6. CASE records' = [records EXCEPT ![u] = Append(s, rec)]
  <2> DEFINE t == Append(s, rec)
  <2>1. t \in Seq(T) /\ Len(t) = Len(s) + 1 /\ DOMAIN t = 1..Len(t)
        /\ t[Len(s) + 1] = rec /\ \A h \in 1..Len(s) : t[h] = s[h]
    BY <1>2, <1>3
  <2> HIDE DEF t
  <2>2. records' \in [Units -> Seq(T)] /\ records'[u] = t
        /\ \A v \in Units \ {u} : records'[v] = records[v]
    BY <1>2, <1>6, <2>1 DEF t
  <2> QED
    BY <1>3, <2>1, <2>2 DEF Puts, FilesTyped, s
<1>7. \/ old > 0 /\ records' = [records EXCEPT ![u][old] = rec]
      \/ old > 0 /\ records' = [records EXCEPT ![u] = Append(gone, rec)]
      \/ records' = [records EXCEPT ![u] = Append(s, rec)]
  BY <1>2 DEF Put, s
<1> QED
  BY <1>4, <1>5, <1>6, <1>7

LEMMA PutKeepsKeys ==
  ASSUME FieldInv, NEW u \in Units, NEW old \in {-1} \cup DOMAIN records[u], NEW rec,
         CanBeWritten(rec), records' = Put(u, old, rec)
  PROVE  FilesTyped' /\ RecordsHaveKeys'
<1>1. Puts(u, old, rec)
  BY PutPuts
<1>2. DOMAIN records[u] = 1..Len(records[u]) /\ Len(records[u]) \in Nat
  BY RecordNumbers DEF FieldInv
<1>3. "live" \in DOMAIN Deleted /\ Deleted.live = FALSE
  BY DEF Deleted
<1>4. ASSUME NEW v \in Units, NEW h \in DOMAIN records'[v]
      PROVE  /\ "live" \in DOMAIN records'[v][h] /\ records'[v][h].live \in BOOLEAN
             /\ records'[v][h].live => CanBeWritten(records'[v][h])
  <2>1. \/ h \in DOMAIN records[v] /\ records'[v][h] = records[v][h]
        \/ records'[v][h] = rec \/ records'[v][h] = Deleted
    <3>1. CASE v # u
      BY <1>1, <3>1 DEF Puts
    <3>2. CASE v = u /\ h \in 1..Len(records[u])
      BY <1>1, <1>2, <3>2 DEF Puts
    <3>3. CASE v = u /\ h \notin 1..Len(records[u])
      <4>1. h = Len(records'[u]) /\ Len(records'[u]) > Len(records[u])
        BY <1>1, <1>2, <3>3 DEF Puts
      <4> QED
        BY <1>1, <3>3, <4>1 DEF Puts
    <3> QED
      BY <1>2, <3>1, <3>2, <3>3
  <2> QED
    BY <1>3, <2>1 DEF FieldInv, RecordsHaveKeys, CanBeWritten, HasKeys
<1> QED
  BY <1>1, <1>4 DEF Puts, RecordsHaveKeys

\* What RewriteKeepsOthers says of a record.
StaysOrMoves(u, h) ==
    (Live(u, h) /\ records'[u][h] # records[u][h]) =>
        LET now == records'[u]
        IN  \/ now[h].live /\ Alike(now[h].key, records[u][h].key)
            \/ Len(now) = Len(records[u]) /\ FstEff
            \/ Len(now) > Len(records[u]) /\ Alike(Last(now).key, records[u][h].key)

LEMMA PutKeepsOthers ==
  ASSUME FieldInv, NEW u \in Units, NEW old \in {-1} \cup DOMAIN records[u], NEW rec,
         CanBeWritten(rec), records' = Put(u, old, rec),
         old # -1 => Alike(rec.key, records[u][old].key)
  PROVE  \A v \in Units : \A h \in DOMAIN records[v] : StaysOrMoves(v, h)
<1>1. Puts(u, old, rec)
  BY PutPuts
<1> SUFFICES ASSUME NEW v \in Units, NEW h \in DOMAIN records[v],
                    records'[v][h] # records[v][h]
             PROVE  \/ records'[v][h].live /\ Alike(records'[v][h].key, records[v][h].key)
                    \/ /\ Len(records'[v]) > Len(records[v])
                       /\ Alike(Last(records'[v]).key, records[v][h].key)
  BY DEF StaysOrMoves
<1>2. v = u /\ h = old
  BY <1>1 DEF Puts
<1>3. h # -1
  BY RecordNumbers DEF FieldInv
<1> QED
  BY <1>1, <1>2, <1>3 DEF Puts, Last, CanBeWritten

\* The record a rewrite replaces has the ips of the new one, but for the overlooked ones.
LEMMA ReplacedIsAlike ==
  ASSUME FieldInv, NEW u \in Units, NEW key \in [Ips -> Nat], NEW rewrit
  PROVE  /\ Replaced(u, key, rewrit) \in {-1} \cup DOMAIN records[u]
         /\ Replaced(u, key, rewrit) # -1 =>
                Alike(key, records[u][Replaced(u, key, rewrit)].key)
<1>1. Found(u, key) \subseteq DOMAIN records[u]
  BY DEF Found
<1>2. Replaced(u, key, rewrit) = -1 \/ Replaced(u, key, rewrit) \in Found(u, key)
  BY InfxFinds DEF Replaced
<1>3. ASSUME NEW h \in Found(u, key) PROVE Alike(key, records[u][h].key)
  <2> DEFINE rec == records[u][h]
  <2>1. Live(u, h) /\ Matches(key, rec) /\ ~NoMatch(key, rec)
    BY DEF Found
  <2>2. rec.key \in [Ips -> Nat]
    BY <2>1 DEF FieldInv, RecordsHaveKeys, Live, CanBeWritten, HasKeys
  <2> HIDE DEF rec
  <2>3. \A i \in Ips : key[i] # -1 /\ key[i] >= 0
    OBVIOUS
  <2>4. ASSUME NEW i \in Ips, Filtered(i), ~Overlooked(i) PROVE IpIsEqual(key[i], rec.key[i], i)
    <3>1. 1 \in Ips /\ 2 \in Ips /\ 3 \in Ips /\ i \in {1, 2, 3}
      BY DEF Ips
    <3>2. \A j \in 1 .. i - 1 : Filtered(j)
      BY <2>4 DEF Overlooked
    <3>3. (i = 2 => Filtered(1)) /\ (i = 3 => Filtered(1) /\ Filtered(2))
      BY <3>1, <3>2
    <3>4. CASE i = 1
      BY <2>1, <2>3, <2>4, <3>1, <3>4 DEF NoMatch
    <3>5. CASE i = 2
      BY <2>1, <2>3, <2>4, <3>1, <3>3, <3>5 DEF NoMatch
    <3>6. CASE i = 3
      BY <2>1, <2>3, <2>4, <3>1, <3>3, <3>6 DEF NoMatch
    <3> QED
      BY <3>1, <3>4, <3>5, <3>6
  <2>5. ASSUME NEW i \in Ips, Filtered(i), ~Overlooked(i) PROVE key[i] = rec.key[i]
    <3>1. key[i] = ips_tab[i][1] /\ rec.key[i] \in ToSet(ips_tab[i])
      BY <2>4, <2>5 DEF IpIsEqual
    <3>2. ips_tab[i] \in Seq({0, -9999}) /\ ips_tab[i] # <<>>
      BY <2>5 DEF FieldInv, FiltersHoldNoCode, Filtered
    <3>3. ToSet(ips_tab[i]) \subseteq {0, -9999} /\ ips_tab[i][1] \in {0, -9999}
      BY <3>2 DEF ToSet
    <3>4. key[i] \in Nat /\ rec.key[i] \in Nat
      BY <2>2
    <3> QED
      BY <3>1, <3>3, <3>4
  <2>6. \A i \in Ips : Overlooked(i) \/ key[i] = rec.key[i]
    BY <2>1, <2>3, <2>5 DEF Matches
  <2> QED
    BY <2>6 DEF Alike, rec
<1> QED
  BY <1>1, <1>2, <1>3

-----------------------------------------------------------------------------
(* The steps.                                                              *)

LEMMA DataChanged ==
  ASSUME NEW rec, NEW x, NEW y, CanBeWritten(rec)
  PROVE  /\ CanBeWritten([rec EXCEPT !.data = x]) /\ CanBeWritten([rec EXCEPT !.from = x])
         /\ CanBeWritten([rec EXCEPT !.data = x, !.from = y])
         /\ [rec EXCEPT !.data = x].key = rec.key
BY DEF CanBeWritten, HasKeys

LEMMA ImageKeepsKeys ==
  ASSUME NEW rec, CanBeWritten(rec), NEW copy \in ImagesOf(rec)
  PROVE  CanBeWritten(copy)
<1> DEFINE exact == [rec EXCEPT !.data = Image(rec)]
           spoiled == [exact EXCEPT !.data.elems = Noisy(@), !.from.whole = FALSE]
<1>1. CanBeWritten(exact)
  BY DataChanged
<1>2. CanBeWritten(spoiled)
  <2> HIDE DEF exact
  <2> QED
    BY <1>1 DEF CanBeWritten, HasKeys
<1>3. copy \in {exact, spoiled}
  BY Zenon DEF ImagesOf
<1> QED
  BY <1>1, <1>2, <1>3

\* What the steps do to the filters.
LEMMA FiltersLonger ==
  ASSUME FieldInv, NEW i \in Ips, NEW values \in Seq({0, -9999}), values # <<>>,
         AddIps(i, values)
  PROVE  FiltersHoldNoCode' /\ UNCHANGED <<records, image>>
<1> DEFINE longer == ips_tab[i] \o values
           n == Min({MaxIpvals, Len(longer)})
<1>1. ips_tab \in [Ips -> Seq({0, -9999})]
  BY DEF FieldInv, FiltersHoldNoCode
<1>2. longer \in Seq({0, -9999}) /\ Len(longer) \in Nat
  BY <1>1
<1> HIDE DEF longer
<1>3. n \in 0..Len(longer)
  BY <1>2, FieldAssumption, LeastOfTwo
<1>4. ips_tab' = [ips_tab EXCEPT ![i] = SubSeq(longer, 1, n)] /\ UNCHANGED <<records, image>>
  BY DEF AddIps, longer
<1> HIDE DEF n
<1>5. SubSeq(longer, 1, n) \in Seq({0, -9999})
  BY <1>2, <1>3
<1> QED
  BY <1>1, <1>4, <1>5 DEF FiltersHoldNoCode

LEMMA NoFilters == NoIps \in [Ips -> Seq({0, -9999})]
BY DEF NoIps

\* c_fstecr puts a record with the keys it was given, or none.
LEMMA FstEcrPuts ==
  ASSUME FstEcr
  PROVE  /\ UNCHANGED image /\ ips_tab' \in {NoIps, ips_tab}
         /\ \/ UNCHANGED records
            \/ \E u \in Units, w \in Writes : \E rec :
                  /\ w.valid /\ rec.live = TRUE /\ rec.key = w.key
                  /\ {"live", "key"} \subseteq DOMAIN rec
                  /\ records' = Put(u, Replaced(u, w.key, w.rewrit), rec)
<1>1. \A w, stored, nw, from :
        LET rec == Record(w, stored, nw, from)
        IN  rec.live = TRUE /\ rec.key = w.key /\ {"live", "key"} \subseteq DOMAIN rec
  BY DEF Record
<1>2. PICK u \in Units, w \in Writes :
        /\ UNCHANGED image /\ ips_tab' \in {NoIps, ips_tab} /\ w.valid
        /\ \/ UNCHANGED records
           \/ \E st, nw, from :
                records' = Put(u, Replaced(u, w.key, w.rewrit), Record(w, st, nw, from))
  BY ZenonT(120) DEF FstEcr
<1> QED
  BY <1>1, <1>2

LEMMA FstEcrImagePuts ==
  ASSUME FieldInv, FstEcrImage
  PROVE  /\ UNCHANGED image /\ ips_tab' \in {NoIps, ips_tab}
         /\ \E u \in Units, rewrit \in BOOLEAN : \E rec :
               /\ CanBeWritten(rec) /\ rec.key = image.key /\ image.key \in [Ips -> Nat]
               /\ records' = Put(u, Replaced(u, image.key, rewrit), rec)
<1>1. CanBeWritten(image)
  BY DEF FstEcrImage, FieldInv, ImageHasKeys
<1> DEFINE s == Settled([datyp |-> image.datyp, npak |-> -image.nbits], TRUE, remap_table)
           flag == IF HasMissing(image.datyp) THEN 64 ELSE 0
           nw == IF s.datyp > 128 THEN image.nw
                 ELSE Nw(s.datyp, image.ni * image.nj * image.nk, s.nbits)
           copy == [image EXCEPT !.datyp = s.datyp + flag, !.nbits = s.nbits, !.nw = nw]
           rec == [copy EXCEPT !.data = Image(copy)]
<1>2. /\ UNCHANGED image /\ ips_tab' \in {NoIps, ips_tab}
      /\ \E u \in Units, rewrit \in BOOLEAN :
            records' = Put(u, Replaced(u, image.key, rewrit), rec)
  BY DEF FstEcrImage
<1> HIDE DEF s, flag, nw
<1>3. CanBeWritten(copy) /\ copy.key = image.key
  BY <1>1 DEF CanBeWritten, HasKeys
<1> HIDE DEF copy
<1>4. CanBeWritten(rec) /\ rec.key = image.key
  BY <1>3 DEF CanBeWritten, HasKeys
<1> HIDE DEF rec
<1>5. image.key \in [Ips -> Nat]
  BY <1>1 DEF CanBeWritten, HasKeys
<1> QED
  BY <1>2, <1>4, <1>5

\* The record that is read is not a deleted one.
LEMMA ReadKeepsKeys ==
  ASSUME FieldInv, NEW u \in Units, NEW h \in DOMAIN records[u], Live(u, h), Luk(u, h)
  PROVE  ImageHasKeys' /\ UNCHANGED records
<1>1. CanBeWritten(records[u][h])
  BY DEF FieldInv, RecordsHaveKeys, Live
<1>2. (image' \in ImagesOf(records[u][h]) \/ UNCHANGED image) /\ UNCHANGED records
  BY Zenon DEF Luk
<1>3. CASE image' \in ImagesOf(records[u][h])
  <2>1. CanBeWritten(image')
    BY <1>1, <1>3, ImageKeepsKeys
  <2> QED
    BY <1>2, <2>1 DEF ImageHasKeys, CanBeWritten, HasKeys
<1>4. CASE UNCHANGED image
  BY <1>2, <1>4 DEF FieldInv, ImageHasKeys, CanBeWritten, HasKeys
<1> QED
  BY <1>2, <1>3, <1>4

\* The records that c_fstecr and c_fstinf find are not deleted.
LEMMA FoundIsLive ==
  ASSUME FieldInv, NEW u \in Units, NEW key
  PROVE  /\ Infx(u, key) # -1 => Infx(u, key) \in DOMAIN records[u] /\ Live(u, Infx(u, key))
         /\ Unfiltered(u, key) # {} => LET h == Min(Unfiltered(u, key))
                                       IN  h \in DOMAIN records[u] /\ Live(u, h)
<1>1. Infx(u, key) # -1 => Infx(u, key) \in Found(u, key)
  BY InfxFinds
<1>2. Unfiltered(u, key) \subseteq Nat
  BY RecordNumbers DEF FieldInv, Unfiltered
<1>3. Unfiltered(u, key) # {} => Min(Unfiltered(u, key)) \in Unfiltered(u, key)
  BY <1>2, LeastIs, Zenon
<1> QED
  BY <1>1, <1>3 DEF Found, Unfiltered

\* A step that writes no record.
Writeless == FiltersHoldNoCode' /\ ImageHasKeys' /\ UNCHANGED records

LEMMA SettingsStep ==
  ASSUME FieldInv, FstDataLength \/ FstOpl \/ FstEnvVar \/ MissingStep
  PROVE  Writeless
<1>1. UNCHANGED <<ips_tab, records>> /\ (UNCHANGED image \/ image' = NoImage)
  BY DEF FstDataLength, FstOpl, FstEnvVar, MissingStep
<1> QED
  BY <1>1 DEF Writeless, FieldInv, FiltersHoldNoCode, ImageHasKeys, CanBeWritten, HasKeys

LEMMA FiltersStep ==
  ASSUME FieldInv, IpVal \/ IpAll \/ FstResetIpFlags \/ FstInf
  PROVE  Writeless
<1>1. CASE UNCHANGED <<records, image>> /\ FiltersHoldNoCode'
  BY <1>1 DEF Writeless, FieldInv, ImageHasKeys, CanBeWritten, HasKeys
<1>2. CASE IpVal
  <2>1. PICK i \in Ips : AddIps(i, <<0>>)
    BY <1>2 DEF IpVal
  <2> DEFINE values == <<0>>
  <2>2. values \in Seq({0, -9999}) /\ values # <<>>
    OBVIOUS
  <2>3. AddIps(i, values)
    BY <2>1
  <2> HIDE DEF values
  <2>4. FiltersHoldNoCode' /\ UNCHANGED <<records, image>>
    BY <2>2, <2>3, FiltersLonger
  <2> QED
    BY <1>1, <2>4
<1>3. CASE IpAll
  <2>1. PICK i \in Ips, old \in {0, -9999} : AddIps(i, <<0, old>>)
    BY <1>3 DEF IpAll
  <2> DEFINE values == <<0, old>>
  <2>2. values \in Seq({0, -9999}) /\ values # <<>>
    OBVIOUS
  <2>3. AddIps(i, values)
    BY <2>1
  <2> HIDE DEF values
  <2>4. FiltersHoldNoCode' /\ UNCHANGED <<records, image>>
    BY <2>2, <2>3, FiltersLonger
  <2> QED
    BY <1>1, <2>4
<1>4. CASE FstResetIpFlags \/ FstInf
  <2>1. UNCHANGED <<records, image>> /\ ips_tab' \in {NoIps, ips_tab}
    BY <1>4 DEF FstResetIpFlags, FstInf, IpsAfter
  <2> QED
    BY <1>1, <2>1, NoFilters DEF FieldInv, FiltersHoldNoCode
<1> QED
  BY <1>2, <1>3, <1>4

LEMMA ReadingStep ==
  ASSUME FieldInv, FstLuk \/ FstLir \/ FstLic
  PROVE  Writeless
<1>1. ASSUME NEW u \in Units, ips_tab' \in {NoIps, ips_tab},
             \/ NothingRead
             \/ \E h \in DOMAIN records[u] : Live(u, h) /\ Luk(u, h)
      PROVE  Writeless
  <2>1. FiltersHoldNoCode'
    BY <1>1, NoFilters DEF FieldInv, FiltersHoldNoCode
  <2>2. CASE NothingRead
    BY <2>1, <2>2 DEF NothingRead, Writeless, FieldInv, ImageHasKeys, CanBeWritten, HasKeys
  <2>3. CASE \E h \in DOMAIN records[u] : Live(u, h) /\ Luk(u, h)
    BY <2>1, <2>3, ReadKeepsKeys DEF Writeless
  <2> QED
    BY <1>1, <2>2, <2>3
<1>2. CASE FstLuk
  BY <1>1, <1>2 DEF FstLuk
<1>3. CASE FstLir
  <2>1. PICK u \in Units, key \in Searches :
          /\ ips_tab' \in {NoIps, ips_tab}
          /\ IF Infx(u, key) = -1 THEN NothingRead ELSE Luk(u, Infx(u, key))
    BY <1>3 DEF FstLir, IpsAfter
  <2> QED
    BY <1>1, <2>1, FoundIsLive
<1>4. CASE FstLic
  <2>1. PICK u \in Units, key \in Searches :
          /\ ips_tab' \in {NoIps, ips_tab}
          /\ \/ NothingRead
             \/ Unfiltered(u, key) # {} /\ Luk(u, Min(Unfiltered(u, key)))
    BY <1>4, Zenon DEF FstLic, IpsAfter
  <2>2. Unfiltered(u, key) # {} =>
          /\ Min(Unfiltered(u, key)) \in DOMAIN records[u]
          /\ Live(u, Min(Unfiltered(u, key)))
    BY FoundIsLive
  <2> QED
    BY <1>1, <2>1, <2>2
<1> QED
  BY <1>2, <1>3, <1>4

\* The steps that write keep the keys, and the others as RewriteKeepsOthers says.
EachStaysOrMoves == \A u \in Units : \A h \in DOMAIN records[u] : StaysOrMoves(u, h)

LEMMA FstEcrStep ==
  ASSUME FieldInv, FstEcr
  PROVE  FieldInv' /\ EachStaysOrMoves
<1>1. UNCHANGED image /\ FiltersHoldNoCode'
  BY FstEcrPuts, NoFilters DEF FieldInv, FiltersHoldNoCode
<1>2. ImageHasKeys'
  BY <1>1 DEF FieldInv, ImageHasKeys, CanBeWritten, HasKeys
<1>3. CASE UNCHANGED records
  <2>1. FilesTyped' /\ RecordsHaveKeys'
    BY <1>3 DEF FieldInv, FilesTyped, RecordsHaveKeys
  <2> QED
    BY <1>1, <1>2, <1>3, <2>1 DEF FieldInv, EachStaysOrMoves, StaysOrMoves
<1>4. CASE \E u \in Units, w \in Writes : \E rec :
             /\ w.valid /\ rec.live = TRUE /\ rec.key = w.key
             /\ {"live", "key"} \subseteq DOMAIN rec
             /\ records' = Put(u, Replaced(u, w.key, w.rewrit), rec)
  <2>0. PICK u \in Units, w \in Writes : \E rec :
             /\ w.valid /\ rec.live = TRUE /\ rec.key = w.key
             /\ {"live", "key"} \subseteq DOMAIN rec
             /\ records' = Put(u, Replaced(u, w.key, w.rewrit), rec)
    BY <1>4
  <2>1. PICK rec :
             /\ w.valid /\ rec.live = TRUE /\ rec.key = w.key
             /\ {"live", "key"} \subseteq DOMAIN rec
             /\ records' = Put(u, Replaced(u, w.key, w.rewrit), rec)
    BY <2>0
  <2>2. w.key \in [Ips -> Nat]
    BY <2>1, FieldAssumption DEF ValidCall
  <2>3. CanBeWritten(rec)
    BY <2>1, <2>2 DEF CanBeWritten, HasKeys
  <2>4. PICK old \in {-1} \cup DOMAIN records[u] :
          /\ old = Replaced(u, w.key, w.rewrit)
          /\ old # -1 => Alike(rec.key, records[u][old].key)
    BY <2>1, <2>2, ReplacedIsAlike
  <2>5. FilesTyped' /\ RecordsHaveKeys'
    BY <2>1, <2>3, <2>4, PutKeepsKeys
  <2>6. EachStaysOrMoves
    BY <2>1, <2>3, <2>4, PutKeepsOthers DEF EachStaysOrMoves
  <2> QED
    BY <1>1, <1>2, <2>5, <2>6 DEF FieldInv
<1> QED
  BY <1>3, <1>4, FstEcrPuts

LEMMA FstEcrImageStep ==
  ASSUME FieldInv, FstEcrImage
  PROVE  FieldInv' /\ EachStaysOrMoves
<1>1. UNCHANGED image /\ FiltersHoldNoCode'
  BY FstEcrImagePuts, NoFilters DEF FieldInv, FiltersHoldNoCode
<1>2. ImageHasKeys'
  BY <1>1 DEF FieldInv, ImageHasKeys, CanBeWritten, HasKeys
<1>0. PICK u \in Units, rewrit \in BOOLEAN : \E rec :
        /\ CanBeWritten(rec) /\ rec.key = image.key /\ image.key \in [Ips -> Nat]
        /\ records' = Put(u, Replaced(u, image.key, rewrit), rec)
  BY FstEcrImagePuts
<1>3. PICK rec :
        /\ CanBeWritten(rec) /\ rec.key = image.key /\ image.key \in [Ips -> Nat]
        /\ records' = Put(u, Replaced(u, image.key, rewrit), rec)
  BY <1>0
<1>4. PICK old \in {-1} \cup DOMAIN records[u] :
        /\ old = Replaced(u, image.key, rewrit)
        /\ old # -1 => Alike(rec.key, records[u][old].key)
  BY <1>3, ReplacedIsAlike
<1>5. FilesTyped' /\ RecordsHaveKeys'
  BY <1>3, <1>4, PutKeepsKeys
<1>6. EachStaysOrMoves
  BY <1>3, <1>4, PutKeepsOthers DEF EachStaysOrMoves
<1> QED
  BY <1>1, <1>2, <1>5, <1>6 DEF FieldInv

LEMMA FstEffStep ==
  ASSUME FieldInv, FstEff
  PROVE  FieldInv' /\ EachStaysOrMoves
<1>0. PICK u \in Units : \E h \in DOMAIN records[u] :
        records' = [records EXCEPT ![u][h] = Deleted] /\ UNCHANGED <<ips_tab, image>>
  BY DEF FstEff
<1>1. PICK h \in DOMAIN records[u] :
        records' = [records EXCEPT ![u][h] = Deleted] /\ UNCHANGED <<ips_tab, image>>
  BY <1>0
<1>2. PICK S : records \in [Units -> Seq(S)]
  BY DEF FieldInv, FilesTyped
<1> DEFINE T == S \cup {Deleted}
           t == [records[u] EXCEPT ![h] = Deleted]
<1>3. records[u] \in Seq(S) /\ DOMAIN records[u] = 1..Len(records[u])
  BY <1>2
<1>4. t \in Seq(T) /\ Len(t) = Len(records[u]) /\ DOMAIN t = DOMAIN records[u]
      /\ t[h] = Deleted /\ \A x \in DOMAIN records[u] \ {h} : t[x] = records[u][x]
  BY <1>3
<1>5. records' = [records EXCEPT ![u] = t]
  BY <1>1
<1>6. \A v \in Units : records[v] \in Seq(T)
  BY <1>2
<1> HIDE DEF t, T
<1>7. records' \in [Units -> Seq(T)] /\ records'[u] = t
      /\ \A v \in Units \ {u} : records'[v] = records[v]
  BY <1>2, <1>4, <1>5, <1>6
<1>8. RecordsHaveKeys'
  <2>1. "live" \in DOMAIN Deleted /\ Deleted.live = FALSE
    BY DEF Deleted
  <2>2. ASSUME NEW v \in Units, NEW x \in DOMAIN records'[v]
        PROVE  x \in DOMAIN records[v] /\ records'[v][x] \in {records[v][x], Deleted}
    BY <1>4, <1>7
  <2>3. \A v \in Units : \A x \in DOMAIN records'[v] :
          /\ "live" \in DOMAIN records'[v][x] /\ records'[v][x].live \in BOOLEAN
          /\ records'[v][x].live => CanBeWritten(records'[v][x])
    BY <2>1, <2>2 DEF FieldInv, RecordsHaveKeys
  <2> QED
    BY <2>3 DEF RecordsHaveKeys
<1>9. \A v \in Units : Len(records'[v]) = Len(records[v])
  BY <1>4, <1>7
<1>10. EachStaysOrMoves
  BY <1>9 DEF EachStaysOrMoves, StaysOrMoves
<1>11. FilesTyped' /\ FiltersHoldNoCode' /\ ImageHasKeys'
  BY <1>1, <1>7 DEF FieldInv, FilesTyped, FiltersHoldNoCode, ImageHasKeys, CanBeWritten, HasKeys
<1> QED
  BY <1>8, <1>10, <1>11 DEF FieldInv

LEMMA WritelessStep ==
  ASSUME FieldInv, Writeless
  PROVE  FieldInv' /\ EachStaysOrMoves
BY DEF Writeless, FieldInv, FilesTyped, RecordsHaveKeys, CanBeWritten, HasKeys,
       EachStaysOrMoves, StaysOrMoves

LEMMA FieldStep ==
  ASSUME FieldInv, [Next]_vars
  PROVE  FieldInv' /\ EachStaysOrMoves
<1>1. CASE UNCHANGED vars
  <2>1. UNCHANGED <<records, ips_tab, image>>
    BY <1>1 DEF vars
  <2>2. Writeless
    BY <2>1 DEF Writeless, FieldInv, FiltersHoldNoCode, ImageHasKeys, CanBeWritten, HasKeys
  <2> QED
    BY <2>2, WritelessStep
<1>2. CASE FstEcrRefused
  <2>1. UNCHANGED vars
    BY <1>2, Zenon DEF FstEcrRefused
  <2> QED
    BY <1>1, <2>1
<1>3. CASE Next
  BY <1>2, <1>3, SettingsStep, FiltersStep, ReadingStep, WritelessStep, FstEcrStep,
     FstEcrImageStep, FstEffStep DEF Next
<1> QED
  BY <1>1, <1>3

LEMMA FieldInit == Init => FieldInv
<1> SUFFICES ASSUME Init PROVE FieldInv
  OBVIOUS
<1>1. records \in [Units -> Seq({})] /\ \A u \in Units : DOMAIN records[u] = {}
  BY DEF Init
<1> QED
  BY <1>1, NoFilters DEF Init, FieldInv, FilesTyped, RecordsHaveKeys, FiltersHoldNoCode,
                         ImageHasKeys

\* The inductive invariant of the fields holds in every state (c_fstecr, c_fstluk,
\* c_fsteff, the filters).
THEOREM FieldCorrect == Spec => []FieldInv
BY FieldInit, FieldStep, PTL DEF Spec

\* With filters that are nested and asked for the searches find nothing or what they find
\* without (c_fstinfx, c_fstinl),
\* so that the second search of c_fstlic reads the record the first one checked.
THEOREM SearchesFindTheSame == Spec => []SearchesAgree
<1>1. FieldInv => SearchesAgree
  <2> SUFFICES ASSUME FieldInv, NEW u \in Units, NEW key \in Searches, Nested, AskedFor(key)
               PROVE  Inl(u, key) \in {{}, Unfiltered(u, key)}
    BY DEF SearchesAgree
  <2>1. key \in [Ips -> Nat \cup {-1}]
    BY FieldAssumption
  <2> QED
    BY <2>1, InlAgrees
<1> QED
  BY <1>1, FieldCorrect, PTL

\* Whatever filters were left, a rewrite takes the place of a record with the ips of the new
\* one, but for those whose filter nobody looks at (c_fstecr, c_fstinfx, xdf_no_match).
THEOREM RewritesReplaceTheirOwn == Spec => RewriteKeepsOthers
<1>1. FieldInv /\ [Next]_vars => [EachStaysOrMoves]_vars
  BY FieldStep
<1> QED
  BY <1>1, FieldCorrect, PTL DEF Spec, RewriteKeepsOthers, EachStaysOrMoves, StaysOrMoves

-----------------------------------------------------------------------------
(* What a record holds.                                                    *)

\* A byte has a bit, a word four bytes.
LEMMA WordIs == Byte \in Nat \ {0} /\ Word = 4 * Byte /\ Word \in Nat \ {0}
BY CodesAssumption DEF Word

StoredTypes == 0..8 \cup {129, 130, 133, 134}
Flagged     == {t + 64 : t \in StoredTypes}

\* The missing value flag comes and goes without touching the type (fstd98.c: is_missing).
LEMMA TypesKeepTheirBase ==
  ASSUME NEW t \in StoredTypes
  PROVE  /\ BaseDatyp(t) = t /\ BaseDatyp(t + 64) = t
         /\ ~ HasMissing(t) /\ (HasMissing(t + 64) <=> t # 8)
         /\ (t + 64) % 64 = t % 64 /\ (t % 64) % 16 = t % 16
<1>1. CASE t \in 0..7
  BY <1>1 DEF BaseDatyp, HasMissing
<1>2. CASE t \in {8, 129, 130, 133, 134}
  BY <1>2 DEF BaseDatyp, HasMissing
<1> QED
  BY <1>1, <1>2 DEF StoredTypes

\* An element of a record is a number, or what bits read the wrong way give.
Element == Int \cup {Noise}
Forms   == {"raw", "real", "armn_real", "tokens", "armn16", "chars", "signed", "float16",
            "armn_float16", "ieee32", "zeros"}
Data    == [form : Forms, bits : Nat, at : {0, 1}, elems : Seq(Element)]
Origin  == [elem : {1, 2, 4, 8}, kind : Kinds \cup {"none"}, code : Int \cup {NotSet},
            whole : BOOLEAN, field : Seq(Int)]

FieldRecord ==
    [live : {TRUE}, key : [Ips -> Nat], ni : Nat \ {0}, nj : Nat \ {0}, nk : Nat \ {0},
     datyp : StoredTypes \cup Flagged, nbits : 1 .. 2 * Word, data : Data, nw : Nat \ {0},
     from : Origin]

\* No compression, and no new packer, of more than 16 bits (c_fstecr).
Narrow(rec) == BaseDatyp(rec.datyp) \in {6, 129, 130, 134} => rec.nbits <= 2 * Byte

\* As many elements as the record says, of the size it says.
Sized(rec) ==
    /\ Len(rec.data.elems) = rec.ni * rec.nj * rec.nk
    /\ rec.from.whole => Len(rec.from.field) = Len(rec.data.elems)

\* Elements that the words of the record do not hold are noise.
Within(data, words) ==
    \A i \in DOMAIN data.elems :
        data.elems[i] = Noise \/ (data.at * Word) + (i * data.bits) <= words * Word

\* The data of a base type have the form that c_fstecr gives them, from the first word.
Has(rec, type, form, bits) ==
    BaseDatyp(rec.datyp) = type => rec.data.form = form /\ rec.data.bits = bits /\ rec.data.at = 0

Shaped(rec) ==
    /\ Has(rec, 0, "raw", rec.data.bits)
    /\ Has(rec, 1, "real", rec.nbits)
    /\ Has(rec, 129, "armn_real", rec.data.bits)
    /\ BaseDatyp(rec.datyp) = 2 => rec.data.form = "tokens" /\ rec.data.bits = rec.nbits
    /\ Has(rec, 130, "armn16", rec.nbits)
    /\ Has(rec, 3, "chars", Byte)
    /\ Has(rec, 4, "signed", rec.nbits)
    /\ Has(rec, 6, "float16", rec.nbits)
    /\ Has(rec, 134, "armn_float16", rec.nbits)
    /\ Has(rec, 133, "ieee32", rec.nbits)
    /\ Has(rec, 7, "tokens", Byte)
    /\ BaseDatyp(rec.datyp) = 0 =>
          Within(rec.data, CeilDiv(rec.ni * rec.nj * rec.nk * rec.nbits, Word))
    /\ BaseDatyp(rec.datyp) = 3 => Within(rec.data, CeilDiv(rec.ni * rec.nj * Byte, Word))
    /\ BaseDatyp(rec.datyp) = 8 => rec.data.elems = Noisy(rec.data.elems)

\* What became of the missing values: one number above the others stands for them.
MarkedBy(plug, field, code) ==
    [i \in DOMAIN field |-> IF field[i] = code THEN plug ELSE field[i]]

Marked(rec) ==
    LET field == rec.from.field
        code  == rec.from.code
        marked(plug) ==
            /\ rec.data.elems = MarkedBy(plug, field, code)
            /\ \A i \in DOMAIN field : field[i] # code => plug > field[i]
    IN  IF rec.from.kind = "none" THEN ~ HasMissing(rec.datyp) /\ rec.data.elems = field
        ELSE /\ rec.from.elem = KindLength(rec.from.kind) /\ rec.from.kind # "float"
             /\ \E i \in DOMAIN field : field[i] = code
             /\ \E plug \in Int : marked(plug)

\* A record that c_fstecr wrote, or a copy of one.
Good(rec) ==
    /\ rec \in FieldRecord
    /\ Narrow(rec) /\ Sized(rec) /\ Shaped(rec)
    /\ rec.from.whole /\ ~ Misread(rec) => Marked(rec)

\* Rounding up.
LEMMA CeilDivIs ==
  ASSUME NEW a \in Nat, NEW b \in Nat \ {0}
  PROVE  /\ CeilDiv(a, b) \in Nat /\ a <= CeilDiv(a, b) * b
         /\ a > 0 => CeilDiv(a, b) > 0
<1> DEFINE c == a + b
           q == (c - 1) \div b
           r == (c - 1) % b
<1>1. c - 1 \in Nat /\ CeilDiv(a, b) = q
  BY DEF CeilDiv
<1>2. q \in Nat /\ r \in 0..(b - 1) /\ c - 1 = q * b + r
  BY <1>1
<1>3. q * b \in Nat
  BY <1>2
<1>4. a <= q * b
  BY <1>2, <1>3
<1> QED
  BY <1>1, <1>2, <1>4

LEMMA CeilDivLeast ==
  ASSUME NEW a \in Nat, NEW b \in Nat \ {0}, NEW q \in Nat, a <= q * b
  PROVE  CeilDiv(a, b) <= q
<1> DEFINE c == a + b
           p == (c - 1) \div b
           r == (c - 1) % b
<1>1. c - 1 \in Nat /\ CeilDiv(a, b) = p
  BY DEF CeilDiv
<1>2. p \in Nat /\ r \in 0..(b - 1) /\ c - 1 = p * b + r
  BY <1>1
<1>3. p * b <= c - 1 /\ c - 1 < (q + 1) * b
  <2>1. (q + 1) * b = q * b + b /\ q * b \in Nat
    OBVIOUS
  <2> QED
    BY <1>2, <2>1
<1>4. CASE p >= q + 1
  <2>1. p * b >= (q + 1) * b
    BY <1>2, <1>4
  <2> QED
    BY <1>1, <1>3, <2>1
<1> QED
  BY <1>1, <1>2, <1>4

\* Data cut off at a number of words have their form, and are the same if they fit.
LEMMA KeptIs ==
  ASSUME NEW data \in Data, NEW words
  PROVE  LET kept == Kept(data, words)
         IN  /\ kept \in Data /\ kept.form = data.form /\ kept.bits = data.bits
             /\ kept.at = data.at /\ Len(kept.elems) = Len(data.elems)
             /\ DOMAIN kept.elems = DOMAIN data.elems
             /\ \A i \in DOMAIN data.elems : kept.elems[i] \in {data.elems[i], Noise}
             /\ Within(kept, words)
             /\ Within(data, words) => kept = data
<1> DEFINE holds(i) == (data.at * Word) + (i * data.bits) <= words * Word
           elems == [i \in DOMAIN data.elems |-> IF holds(i) THEN data.elems[i] ELSE Noise]
           kept == Kept(data, words)
<1>1. kept = [data EXCEPT !.elems = elems]
  BY DEF Kept
<1>2. data.elems \in Seq(Element) /\ DOMAIN data.elems = 1..Len(data.elems)
      /\ Len(data.elems) \in Nat
  BY DEF Data
<1>3. elems \in Seq(Element) /\ Len(elems) = Len(data.elems) /\ DOMAIN elems = DOMAIN data.elems
  BY <1>2 DEF Element
<1>4. \A i \in DOMAIN data.elems : elems[i] = IF holds(i) THEN data.elems[i] ELSE Noise
  OBVIOUS
<1> HIDE DEF elems, kept
<1>5. kept \in Data /\ kept.form = data.form /\ kept.bits = data.bits /\ kept.at = data.at
      /\ kept.elems = elems
  BY <1>1, <1>3 DEF Data
<1>6. Within(kept, words)
  BY <1>3, <1>4, <1>5 DEF Within
<1>7. ASSUME Within(data, words) PROVE kept = data
  <2>1. \A i \in DOMAIN data.elems : elems[i] = data.elems[i]
    BY <1>4, <1>7 DEF Within
  <2>2. elems = data.elems
    BY <1>2, <1>3, <2>1
  <2> QED
    BY <1>1, <2>2 DEF Data
<1> QED
  BY <1>3, <1>4, <1>5, <1>6, <1>7 DEF kept

LEMMA ElementsFit ==
  ASSUME NEW n \in Nat, NEW bits \in Nat
  PROVE  \A i \in 1..n : (0 * Word) + (i * bits) <= CeilDiv(n * bits, Word) * Word
<1> SUFFICES ASSUME NEW i \in 1..n
             PROVE  (0 * Word) + (i * bits) <= CeilDiv(n * bits, Word) * Word
  OBVIOUS
<1>1. n * bits \in Nat /\ i * bits \in Nat /\ i * bits <= n * bits
  OBVIOUS
<1>2. Word \in Nat \ {0}
  BY WordIs
<1>3. n * bits <= CeilDiv(n * bits, Word) * Word /\ CeilDiv(n * bits, Word) * Word \in Nat
  BY <1>1, <1>2, CeilDivIs
<1>4. (0 * Word) + (i * bits) = i * bits
  BY <1>1, <1>2
<1> QED
  BY <1>1, <1>3, <1>4

LEMMA RecordHas ==
  ASSUME NEW rec, rec \in FieldRecord
  PROVE  /\ rec.data \in Data /\ rec.data.elems \in Seq(Element) /\ rec.from \in Origin
         /\ rec.data.bits \in Nat /\ rec.data.at \in {0, 1}
         /\ rec.nbits \in 1 .. 2 * Word /\ rec.nbits \in Nat
         /\ rec.ni * rec.nj * rec.nk \in Nat \ {0} /\ rec.ni * rec.nj \in Nat \ {0}
         /\ rec.datyp \in StoredTypes \cup Flagged
         /\ BaseDatyp(rec.datyp) \in StoredTypes
         /\ rec.datyp \in {BaseDatyp(rec.datyp), BaseDatyp(rec.datyp) + 64}
         /\ rec.datyp % 64 = BaseDatyp(rec.datyp) % 64
         /\ rec.datyp >= 128 <=> BaseDatyp(rec.datyp) >= 128
<1>1. rec.data \in Data /\ rec.from \in Origin /\ rec.nbits \in 1 .. 2 * Word
      /\ rec.datyp \in StoredTypes \cup Flagged
  BY DEF FieldRecord
<1>2. rec.data.elems \in Seq(Element) /\ rec.data.bits \in Nat /\ rec.data.at \in {0, 1}
  BY <1>1 DEF Data
<1>3. rec.ni * rec.nj \in Nat \ {0} /\ rec.ni * rec.nj * rec.nk \in Nat \ {0}
  <2>1. \A a, b \in Nat \ {0} : a * b \in Nat \ {0}
    OBVIOUS
  <2>2. rec.ni \in Nat \ {0} /\ rec.nj \in Nat \ {0} /\ rec.nk \in Nat \ {0}
    BY DEF FieldRecord
  <2> QED
    BY <2>1, <2>2
<1>4. PICK t \in StoredTypes : rec.datyp \in {t, t + 64}
  BY <1>1 DEF Flagged
<1>5. BaseDatyp(rec.datyp) = t /\ rec.datyp % 64 = t % 64
  BY <1>4, TypesKeepTheirBase
<1>6. t + 64 >= 128 <=> t >= 128
  BY DEF StoredTypes
<1>7. Word \in Nat
  BY WordIs
<1> QED
  BY <1>1, <1>2, <1>3, <1>4, <1>5, <1>6, <1>7

\* The words that are copied in image mode hold all the elements.
LEMMA ImageIsData ==
  ASSUME NEW rec, rec \in FieldRecord, Shaped(rec), Sized(rec), ~ Misread(rec)
  PROVE  Image(rec) = rec.data
<1> DEFINE data == rec.data
           base == BaseDatyp(rec.datyp)
           n == rec.ni * rec.nj * rec.nk
<1>0. /\ data \in Data /\ base \in StoredTypes /\ rec.datyp % 64 = base % 64
      /\ rec.datyp >= 128 <=> base >= 128
      /\ n \in Nat /\ rec.nbits \in Nat /\ Len(data.elems) = n /\ data.bits \in Nat
  BY RecordHas DEF Sized
<1>1. CASE rec.datyp >= 128 \/ data.form \in {"real", "float16"}
  BY <1>1 DEF Image
<1>2. CASE ~ (rec.datyp >= 128 \/ data.form \in {"real", "float16"})
  <2>1. SUFFICES Within(data, ImageWords(rec))
    BY <1>0, <1>2, <2>1, KeptIs DEF Image
  <2>2. DOMAIN data.elems = 1..n
    BY <1>0 DEF Data
  <2>3. base \in {0, 2, 3, 4, 7, 8}
    <3>1. base # 5
      BY DEF Misread
    <3>2. base # 1 /\ base # 6
      BY <1>2 DEF Shaped, Has
    <3>3. base \in 0..8
      BY <1>0, <1>2 DEF StoredTypes
    <3> QED
      BY <3>1, <3>2, <3>3
  <2>4. ImageWords(rec) = IF base = 3 THEN CeilDiv(rec.ni * rec.nj * Byte, Word)
                                      ELSE CeilDiv(n * rec.nbits, Word)
    BY <1>0, <2>3 DEF ImageWords
  <2>5. CASE base = 0
    BY <2>4, <2>5 DEF Shaped
  <2>6. CASE base = 3
    BY <2>4, <2>6 DEF Shaped
  <2>7. CASE base \in {2, 4}
    <3>1. data.at = 0 /\ data.bits = rec.nbits
      BY <1>0, <2>7 DEF Shaped, Has, Misread, Data
    <3>2. \A i \in 1..n : (0 * Word) + (i * rec.nbits) <= CeilDiv(n * rec.nbits, Word) * Word
      BY <1>0, ElementsFit
    <3> QED
      BY <2>2, <2>4, <2>7, <3>1, <3>2 DEF Within
  <2>8. CASE base = 7
    <3>1. data.at = 0 /\ data.bits = Byte /\ Byte <= rec.nbits
      BY <1>0, <2>8, WordIs DEF Shaped, Has, Misread
    <3>2. \A i \in 1..n : (0 * Word) + (i * rec.nbits) <= CeilDiv(n * rec.nbits, Word) * Word
      BY <1>0, ElementsFit
    <3>3. \A i \in 1..n : i * Byte <= i * rec.nbits /\ i * Byte \in Nat /\ i * rec.nbits \in Nat
      BY <1>0, <3>1, WordIs
    <3>4. 0 * Word = 0 /\ CeilDiv(n * rec.nbits, Word) * Word \in Nat
      <4>1. n * rec.nbits \in Nat
        BY <1>0
      <4> QED
        BY <4>1, WordIs, CeilDivIs
    <3>5. \A i \in 1..n : (0 * Word) + (i * Byte) <= CeilDiv(n * rec.nbits, Word) * Word
      BY <3>2, <3>3, <3>4
    <3> QED
      BY <2>2, <2>4, <2>8, <3>1, <3>5 DEF Within
  <2>9. CASE base = 8
    <3>1. data.elems = Noisy(data.elems)
      BY <2>9 DEF Shaped
    <3> QED
      BY <3>1 DEF Within, Noisy
  <2> QED
    BY <2>3, <2>5, <2>6, <2>7, <2>8, <2>9
<1> QED
  BY <1>1, <1>2

\* A record is taken for the form it has.
LEMMA UnpackedIsData ==
  ASSUME NEW rec, rec \in FieldRecord, Shaped(rec), Narrow(rec), ~ Misread(rec)
  PROVE  Unpacked(rec, rec.from.elem) = rec.data.elems
<1> DEFINE data == rec.data
           base == BaseDatyp(rec.datyp)
           taken == Taken(rec, rec.from.elem)
<1>0. base \in StoredTypes /\ data \in Data
  BY RecordHas
<1>1. CASE base = 8
  BY <1>1 DEF Shaped, Unpacked
<1>2. CASE base # 8
  <2>1. base # 5
    BY DEF Misread
  <2>2. /\ taken.form = data.form /\ taken.bits = data.bits /\ taken.at = data.at
        /\ taken = [form |-> taken.form, bits |-> taken.bits, at |-> taken.at]
    <3>1. CASE base \in {0, 1, 3, 4, 6, 7}
      BY <3>1 DEF Shaped, Has, Taken
    <3>2. CASE base = 2
      <4>1. data.at = 0 /\ (rec.from.elem = 1 => data.bits = Byte)
        BY <1>0, <3>2 DEF Misread, Data
      <4>2. data.form = "tokens" /\ data.bits = rec.nbits
        BY <3>2 DEF Shaped
      <4> QED
        BY <3>2, <4>1, <4>2 DEF Taken
    <3>3. CASE base \in {129, 130, 133, 134}
      BY <3>3 DEF Shaped, Has, Taken, Misread
    <3> QED
      BY <1>0, <1>2, <2>1, <3>1, <3>2, <3>3 DEF StoredTypes
  <2> QED
    BY <2>2 DEF Unpacked
<1> QED
  BY <1>1, <1>2

LEMMA SequenceIs ==
  ASSUME NEW S, NEW s \in Seq(S)
  PROVE  [i \in DOMAIN s |-> s[i]] = s
OBVIOUS

\* Decoding finds the number that stands for the missing elements, the largest.
LEMMA MarkIsLargest ==
  ASSUME NEW field \in Seq(Int), NEW code, NEW plug \in Int, plug # code,
         NEW elems, DOMAIN elems = DOMAIN field,
         \A i \in DOMAIN field : elems[i] = IF field[i] = code THEN plug ELSE field[i],
         \E i \in DOMAIN field : field[i] = code,
         \A j \in DOMAIN field : field[j] # code => plug > field[j]
  PROVE  Anal(elems, code).max = plug
<1> DEFINE present == ToSet(elems) \ {code}
<1>1. DOMAIN elems = DOMAIN field /\ \A j \in DOMAIN field : field[j] \in Int
  OBVIOUS
<1>2. \E i \in DOMAIN elems : elems[i] = plug
  OBVIOUS
<1>3. plug \in present
  BY <1>1, <1>2 DEF ToSet
<1>4. \A x \in present : x \in Int /\ x <= plug
  <2> SUFFICES ASSUME NEW j \in DOMAIN field, elems[j] # code
               PROVE  elems[j] \in Int /\ elems[j] <= plug
    BY <1>1 DEF ToSet
  <2> QED
    BY <1>1
<1>a. present \subseteq Int
  BY <1>4
<1> HIDE DEF present
<1>5. Max(present) = plug
  BY <1>3, <1>4, <1>a, GreatestIn
<1> QED
  BY <1>3, <1>5 DEF Anal, present

\* A record with a mark decodes to the field it was written from.
LEMMA MarkedComesBack ==
  ASSUME NEW rec, Good(rec), rec.from.whole, ~ Misread(rec), HasMissing(rec.datyp),
         DecodedAsEncoded(rec), rec.from.field[1] # rec.from.code, ~ CodeAsMark(rec)
  PROVE  ReadBack(rec, rec.from.elem) = rec.from.field
<1> DEFINE field == rec.from.field
           code == rec.from.code
           kind == rec.from.kind
           elem == rec.from.elem
           elems == rec.data.elems
           base == BaseDatyp(rec.datyp)
           used == IF base % 16 = 5 /\ rec.nbits = 8 * Byte THEN 8 ELSE elem
<1>1. rec \in FieldRecord /\ base \in StoredTypes /\ rec.from \in Origin
  BY RecordHas DEF Good
<1>2. Unpacked(rec, elem) = elems
  BY <1>1, UnpackedIsData DEF Good
<1>3. /\ kind # "none" /\ elem = KindLength(kind) /\ kind # "float"
      /\ \E i \in DOMAIN field : field[i] = code
      /\ \E plug \in Int :
            /\ elems = MarkedBy(plug, field, code)
            /\ \A i \in DOMAIN field : field[i] # code => plug > field[i]
  BY DEF Good, Marked
<1>4. /\ MissingValueUsed = 1 /\ KindsOf(base % 16, elem) = {kind} /\ Codes[kind] = code
      /\ decoder[kind] = "default"
  BY DEF DecodedAsEncoded
<1>5. used = elem
  <2>1. CASE base % 16 = 5
    <3>1. RealKind(elem) = kind
      BY <1>4, <2>1 DEF KindsOf
    <3> QED
      BY <1>3, <3>1 DEF RealKind
  <2>2. CASE base % 16 # 5
    BY <2>2
  <2> QED
    BY <2>1, <2>2
<1>6. (base % 64) % 16 = base % 16
  BY <1>1, TypesKeepTheirBase
<1>7. ReadBack(rec, elem) = Decode(kind, elems)
  <2>1. ReadBack(rec, elem) = DecodeMissingValue(elems, base % 64, used)
    BY <1>2 DEF ReadBack
  <2>2. KindsOf((base % 64) % 16, used) = {kind}
    BY <1>4, <1>5, <1>6
  <2>3. (CHOOSE k \in {kind} : TRUE) = kind
    OBVIOUS
  <2> HIDE DEF used, base
  <2> QED
    BY <1>4, <2>1, <2>2, <2>3 DEF DecodeMissingValue
<1>8. PICK plug \in Int :
        /\ elems = MarkedBy(plug, field, code)
        /\ \A i \in DOMAIN field : field[i] # code => plug > field[i]
  BY <1>3
<1>9. PICK i \in DOMAIN field : field[i] = code
  BY <1>3
<1>10. field \in Seq(Int) /\ DOMAIN field = 1..Len(field) /\ Len(field) \in Nat
  BY <1>1 DEF Origin
<1>11. /\ 1 \in DOMAIN field /\ DOMAIN elems = DOMAIN field
        /\ \A j \in DOMAIN field : elems[j] = IF field[j] = code THEN plug ELSE field[j]
  BY <1>8, <1>9, <1>10 DEF MarkedBy
<1>12. plug # code
  <2> SUFFICES ASSUME plug = code PROVE FALSE
    OBVIOUS
  <2>1. elems[i] = code /\ field[1] # code
    BY <1>8, <1>9 DEF MarkedBy
  <2> QED
    BY <1>9, <1>11, <2>1 DEF CodeAsMark
<1>13. Anal(elems, code).max = plug
  <2> HIDE DEF elems, field, code
  <2>1. field \in Seq(Int) /\ \E j \in DOMAIN field : field[j] = code
    BY <1>9, <1>10
  <2> QED
    BY <1>8, <1>11, <1>12, <2>1, MarkIsLargest
<1>14. Decode(kind, elems) =
          [j \in DOMAIN elems |-> IF j > 1 /\ elems[j] = plug THEN code ELSE elems[j]]
  BY <1>4, <1>13 DEF Decode
<1>15. ASSUME NEW j \in DOMAIN field
       PROVE  (IF j > 1 /\ elems[j] = plug THEN code ELSE elems[j]) = field[j]
  <2>1. CASE field[j] = code
    <3>1. j # 1 /\ j \in Nat /\ j >= 1
      BY <1>10, <2>1
    <3>2. elems[j] = plug
      BY <1>8, <2>1 DEF MarkedBy
    <3> QED
      BY <2>1, <3>1, <3>2
  <2>2. CASE field[j] # code
    <3>1. elems[j] = field[j] /\ plug > field[j] /\ field[j] \in Int
      BY <1>8, <1>10, <2>2 DEF MarkedBy
    <3> QED
      BY <3>1
  <2> QED
    BY <2>1, <2>2
<1>16. [j \in DOMAIN elems |-> IF j > 1 /\ elems[j] = plug THEN code ELSE elems[j]]
        = [j \in DOMAIN field |-> field[j]]
  BY <1>11, <1>15
<1>17. [j \in DOMAIN field |-> field[j]] = field
  BY <1>10, SequenceIs
<1> QED
  BY <1>7, <1>14, <1>16, <1>17

\* Any record that c_fstecr wrote, read with the elements' length it was written with.
LEMMA GoodComesBack ==
  ASSUME NEW rec, Good(rec), rec.from.whole, ~ Misread(rec), ~ FlagLost(rec),
         DecodedAsEncoded(rec),
         HasMissing(rec.datyp) => rec.from.field[1] # rec.from.code /\ ~ CodeAsMark(rec)
  PROVE  ReadBack(rec, rec.from.elem) = rec.from.field
<1>1. CASE HasMissing(rec.datyp)
  BY <1>1, MarkedComesBack
<1>2. CASE ~ HasMissing(rec.datyp)
  <2>1. Unpacked(rec, rec.from.elem) = rec.data.elems
    BY UnpackedIsData DEF Good
  <2>2. rec.data.elems = rec.from.field
    BY <1>2 DEF Good, Marked, FlagLost
  <2> QED
    BY <1>2, <2>1, <2>2 DEF ReadBack
<1> QED
  BY <1>1, <1>2

-----------------------------------------------------------------------------
(* Copies.                                                                 *)

\* What image mode hands over is what c_fstecr wrote, decoded or not.
LEMMA ImageOfGood ==
  ASSUME NEW rec, Good(rec)
  PROVE  Good([rec EXCEPT !.data = Image(rec)])
<1> DEFINE new == [rec EXCEPT !.data = Image(rec)]
<1>1. rec \in FieldRecord /\ rec.data \in Data
  BY RecordHas DEF Good
<1>2. CASE Image(rec) = rec.data
  <2>1. new = rec
    BY <1>1, <1>2 DEF FieldRecord
  <2> QED
    BY <2>1
<1>3. CASE Image(rec) # rec.data
  <2>1. Image(rec) = Kept(rec.data, ImageWords(rec))
    BY <1>3 DEF Image
  <2> DEFINE data == Image(rec)
  <2>2. /\ data \in Data /\ data.form = rec.data.form /\ data.bits = rec.data.bits
        /\ data.at = rec.data.at /\ Len(data.elems) = Len(rec.data.elems)
        /\ DOMAIN data.elems = DOMAIN rec.data.elems
        /\ \A i \in DOMAIN rec.data.elems : data.elems[i] \in {rec.data.elems[i], Noise}
    BY <1>1, <2>1, KeptIs
  <2>3. Misread(rec)
    BY <1>3, ImageIsData DEF Good
  <2> HIDE DEF data
  <2>4. new = [rec EXCEPT !.data = data]
    BY DEF data
  <2> HIDE DEF new
  <2>5. /\ new \in FieldRecord /\ new.data = data /\ new.datyp = rec.datyp
        /\ new.nbits = rec.nbits /\ new.from = rec.from
        /\ new.ni = rec.ni /\ new.nj = rec.nj /\ new.nk = rec.nk
    BY <1>1, <2>2, <2>4 DEF FieldRecord
  <2>6. Narrow(new) /\ Sized(new)
    BY <2>2, <2>5 DEF Good, Narrow, Sized
  <2>7. \A words : Within(rec.data, words) => Within(data, words)
    BY <2>2 DEF Within
  <2>8. rec.data.elems = Noisy(rec.data.elems) => data.elems = Noisy(data.elems)
    <3> SUFFICES ASSUME rec.data.elems = Noisy(rec.data.elems)
                 PROVE  data.elems = Noisy(data.elems)
      OBVIOUS
    <3>1. \A i \in DOMAIN data.elems : data.elems[i] = Noise
      BY <2>2 DEF Noisy
    <3>2. data.elems \in Seq(Element)
      BY <2>2 DEF Data
    <3> QED
      BY <3>1, <3>2 DEF Noisy
  <2>9. Shaped(new)
    <3>1. \A type, form, bits : Has(rec, type, form, bits) => Has(new, type, form, bits)
      BY <2>2, <2>5 DEF Has
    <3>2. Shaped(rec)
      BY DEF Good
    <3> QED
      BY <2>2, <2>5, <2>7, <2>8, <3>1, <3>2 DEF Shaped
  <2>10. Misread(new)
    BY <2>2, <2>3, <2>5 DEF Misread
  <2> QED
    BY <2>5, <2>6, <2>9, <2>10 DEF Good, new
<1> QED
  BY <1>2, <1>3

LEMMA SpoiledIsGood ==
  ASSUME NEW rec, Good(rec)
  PROVE  Good([rec EXCEPT !.data.elems = Noisy(@), !.from.whole = FALSE])
<1> DEFINE new == [rec EXCEPT !.data.elems = Noisy(@), !.from.whole = FALSE]
           data == [rec.data EXCEPT !.elems = Noisy(@)]
           from == [rec.from EXCEPT !.whole = FALSE]
<1>1. rec \in FieldRecord /\ rec.data \in Data /\ rec.from \in Origin
      /\ rec.data.elems \in Seq(Element)
  BY RecordHas DEF Good
<1>2. Noisy(rec.data.elems) \in Seq(Element) /\ Len(Noisy(rec.data.elems)) = Len(rec.data.elems)
      /\ \A i \in DOMAIN Noisy(rec.data.elems) : Noisy(rec.data.elems)[i] = Noise
  BY <1>1 DEF Noisy, Element
<1>3. /\ data \in Data /\ data.form = rec.data.form /\ data.bits = rec.data.bits
      /\ data.at = rec.data.at /\ data.elems = Noisy(rec.data.elems)
  BY <1>1, <1>2 DEF Data
<1>4. from \in Origin /\ from.whole = FALSE
  BY <1>1 DEF Origin
<1>5. new = [rec EXCEPT !.data = data, !.from = from]
  BY <1>1 DEF FieldRecord
<1> HIDE DEF new, data, from
<1>6. /\ new \in FieldRecord /\ new.data = data /\ new.datyp = rec.datyp
      /\ new.nbits = rec.nbits /\ new.from = from
      /\ new.ni = rec.ni /\ new.nj = rec.nj /\ new.nk = rec.nk
  BY <1>1, <1>3, <1>4, <1>5 DEF FieldRecord
<1>7. Narrow(new) /\ Sized(new)
  BY <1>2, <1>3, <1>4, <1>6 DEF Good, Narrow, Sized
<1>8. \A words : Within(data, words)
  BY <1>2, <1>3 DEF Within
<1>9. data.elems = Noisy(data.elems)
  BY <1>1, <1>2, <1>3 DEF Noisy
<1>10. Shaped(new)
  <2>1. \A type, form, bits : Has(rec, type, form, bits) => Has(new, type, form, bits)
    BY <1>3, <1>6 DEF Has
  <2>2. Shaped(rec)
    BY DEF Good
  <2> QED
    BY <1>3, <1>6, <1>8, <1>9, <2>1, <2>2 DEF Shaped
<1> QED
  BY <1>4, <1>6, <1>7, <1>10 DEF Good, new

LEMMA ImagesOfGood ==
  ASSUME NEW rec, Good(rec), NEW new \in ImagesOf(rec)
  PROVE  Good(new)
<1> DEFINE exact == [rec EXCEPT !.data = Image(rec)]
<1>1. Good(exact)
  BY ImageOfGood
<1>2. Good([exact EXCEPT !.data.elems = Noisy(@), !.from.whole = FALSE])
  BY <1>1, SpoiledIsGood
<1> QED
  BY <1>1, <1>2 DEF ImagesOf

\* No record is empty.
LEMMA NwIs ==
  ASSUME NEW datyp, NEW n \in Nat \ {0}, NEW nbits \in Nat \ {0}
  PROVE  Nw(datyp, n, nbits) \in Nat \ {0}
<1> DEFINE units(bits) == CeilDiv(bits, 2 * Word)
           most == Max({nbits, 2 * Byte})
<1>1. Word \in Nat \ {0} /\ Byte \in Nat \ {0}
  BY WordIs
<1>2. ASSUME NEW bits \in Nat \ {0} PROVE units(bits) \in Nat \ {0}
  <2>1. 2 * Word \in Nat \ {0} /\ bits \in Nat /\ bits > 0
    BY <1>1
  <2>2. CeilDiv(bits, 2 * Word) \in Nat /\ CeilDiv(bits, 2 * Word) > 0
    BY <2>1, CeilDivIs
  <2> QED
    BY <2>2
<1>3. most \in Nat \ {0}
  BY <1>1, GreatestOfTwo
<1>4. /\ n * nbits \in Nat \ {0} /\ n * most \in Nat \ {0}
      /\ (3 + CeilDiv(n, 2)) * Word \in Nat \ {0} /\ (4 + CeilDiv(n, 2)) * Word \in Nat \ {0}
  <2> HIDE DEF most
  <2>1. \A a, b \in Nat \ {0} : a * b \in Nat \ {0}
    OBVIOUS
  <2>2. CeilDiv(n, 2) \in Nat
    BY CeilDivIs
  <2> QED
    BY <1>1, <1>3, <2>1, <2>2
<1> HIDE DEF units, most
<1>5. /\ (n * most) + (5 * Word) \in Nat \ {0} /\ (n * most) + Word \in Nat \ {0}
      /\ (n * nbits) + (15 * Byte) \in Nat \ {0}
  BY <1>1, <1>4
<1>6. \A bits \in Nat \ {0} : 2 * units(bits) \in Nat \ {0}
  BY <1>2
<1> QED
  BY <1>2, <1>4, <1>5, <1>6 DEF Nw, units, most

\* c_fstecr in image mode keeps the type and the number of bits; type 133 of more bits than
\* a word becomes 5.
LEMMA SettledImage ==
  ASSUME NEW rec, Good(rec), NEW table
  PROVE  LET s == Settled([datyp |-> rec.datyp, npak |-> -rec.nbits], TRUE, table)
         IN  s.nbits = rec.nbits /\ s.datyp \in {BaseDatyp(rec.datyp), 5}
<1> DEFINE call == [datyp |-> rec.datyp, npak |-> -rec.nbits]
           base == BaseDatyp(rec.datyp)
           nbits == rec.nbits
           c == Converted(call, TRUE)
<1>1. /\ base \in StoredTypes /\ nbits \in 1 .. 2 * Word /\ nbits \in Nat
      /\ Word \in Nat \ {0} /\ Byte \in Nat \ {0}
  BY RecordHas, WordIs DEF Good
<1>2. NbitsAsked(call.npak) = nbits /\ call.npak \notin {0, 1}
  BY <1>1 DEF NbitsAsked
<1>3. c.nbits = nbits /\ c.datyp \in {base, 5}
  <2>1. BaseDatyp(call.datyp) = base /\ base # 801
    BY <1>1 DEF StoredTypes
  <2> QED
    BY <1>2, <2>1 DEF Converted
<1>4. ASSUME NEW d \in {base, 5}
      PROVE  Limited(d, nbits).nbits = nbits /\ Limited(d, nbits).datyp = d
  <2>1. d \in {6, 129, 130, 134} => nbits <= 2 * Byte
    BY DEF Good, Narrow
  <2>2. d \in 0..8 => d % 128 = d
    OBVIOUS
  <2>3. d \in StoredTypes
    BY <1>1 DEF StoredTypes
  <2> HIDE DEF base, nbits
  <2>4. (IF nbits > 2 * Byte /\ d # 133 THEN d % 128 ELSE d) = d
    BY <1>1, <2>1, <2>2, <2>3 DEF StoredTypes
  <2>5. ~ (d = 6 /\ nbits > 3 * Byte) /\ ~ (d = 6 /\ nbits \in (2 * Byte) + 1 .. 3 * Byte)
    BY <1>1, <2>1
  <2> QED
    BY <2>4, <2>5 DEF Limited
<1> HIDE DEF c, call, nbits
<1> QED
  BY <1>2, <1>3, <1>4 DEF Settled, c, call, nbits

\* A copy of what c_fstecr wrote is as good as the record.
LEMMA CopyIsGood ==
  ASSUME NEW rec, Good(rec), NEW nw \in Nat \ {0}, NEW datyp, datyp \in {BaseDatyp(rec.datyp), 5}
  PROVE  LET copy == [rec EXCEPT !.datyp = datyp + (IF HasMissing(@) THEN 64 ELSE 0),
                                 !.nbits = rec.nbits, !.nw = nw]
         IN  Good([copy EXCEPT !.data = Image(copy)])
<1> DEFINE flag == IF HasMissing(rec.datyp) THEN 64 ELSE 0
           base == BaseDatyp(rec.datyp)
           new == datyp + flag
           copy == [rec EXCEPT !.datyp = datyp + (IF HasMissing(@) THEN 64 ELSE 0),
                               !.nbits = rec.nbits, !.nw = nw]
<1>1. rec \in FieldRecord /\ base \in StoredTypes /\ rec.datyp \in {base, base + 64}
  BY RecordHas DEF Good
<1>2. datyp \in StoredTypes
  BY <1>1 DEF StoredTypes
<1>3. /\ new \in StoredTypes \cup Flagged /\ BaseDatyp(new) = datyp
      /\ datyp # 8 => (HasMissing(new) <=> HasMissing(rec.datyp))
      /\ datyp = 8 => ~HasMissing(new)
  <2>0. datyp + 64 \in Flagged
    BY <1>2 DEF Flagged
  <2>1. CASE HasMissing(rec.datyp)
    <3>1. new = datyp + 64
      BY <2>1
    <3> QED
      BY <1>2, <2>0, <2>1, <3>1, TypesKeepTheirBase
  <2>2. CASE ~ HasMissing(rec.datyp)
    <3>1. new = datyp
      BY <1>2, <2>2 DEF StoredTypes
    <3> QED
      BY <1>2, <2>2, <3>1, TypesKeepTheirBase
  <2> QED
    BY <2>1, <2>2
<1>4. copy = [rec EXCEPT !.datyp = new, !.nbits = rec.nbits, !.nw = nw]
  BY <1>1 DEF FieldRecord
<1> HIDE DEF new, copy
<1>5. /\ copy \in FieldRecord /\ copy.data = rec.data /\ copy.datyp = new
      /\ copy.nbits = rec.nbits /\ copy.from = rec.from
      /\ copy.ni = rec.ni /\ copy.nj = rec.nj /\ copy.nk = rec.nk
  BY <1>1, <1>3, <1>4 DEF FieldRecord
<1>6. Narrow(copy) /\ Sized(copy)
  BY <1>3, <1>5 DEF Good, Narrow, Sized
<1>7. Shaped(copy)
  <2>0. Shaped(rec)
    BY DEF Good
  <2>1. CASE datyp = base
    <3>1. \A type, form, bits : Has(rec, type, form, bits) => Has(copy, type, form, bits)
      BY <1>3, <1>5, <2>1 DEF Has
    <3> QED
      BY <1>3, <1>5, <2>0, <2>1, <3>1 DEF Shaped
  <2>2. CASE datyp = 5
    BY <1>3, <1>5, <2>2 DEF Shaped, Has
  <2> QED
    BY <2>1, <2>2
<1>8. ASSUME copy.from.whole, ~ Misread(copy) PROVE Marked(copy)
  <2>1. datyp = base
    BY <1>3, <1>5, <1>8 DEF Misread
  <2>2. ~ Misread(rec)
    BY <1>3, <1>5, <1>8, <2>1 DEF Misread
  <2>3. Marked(rec)
    BY <1>5, <1>8, <2>2 DEF Good
  <2>4. HasMissing(copy.datyp) => HasMissing(rec.datyp)
    BY <1>3, <1>5
  <2> QED
    BY <1>5, <2>3, <2>4 DEF Marked
<1>9. Good(copy)
  BY <1>5, <1>6, <1>7, <1>8 DEF Good
<1> QED
  BY <1>9, ImageOfGood DEF copy

-----------------------------------------------------------------------------
(* Encoding.                                                               *)

LEMMA PowersAreNumbers == \A n \in Nat : 2^n \in Int
BY SMT

\* Fields of floats are not encoded, but decoded: the others have one kind.
LEMMA EncodedKindsAre ==
  ASSUME NEW datatype, NEW nbits, NEW len
  PROVE  \/ EncodedKinds(datatype, nbits, len) = {}
         \/ \E k \in Kinds \ {"float"} : EncodedKinds(datatype, nbits, len) = {k}
<1> DEFINE type == datatype % 16
           l == IF type = 5 /\ nbits = 8 * Byte THEN 8 ELSE len
<1>1. EncodedKinds(datatype, nbits, len) \in {{}, KindsOf(type, l)}
  BY DEF EncodedKinds
<1>2. CASE type \in {1, 5, 6}
  <2>1. EncodedKinds(datatype, nbits, len) = {} \/ l = 8
    BY <1>2 DEF EncodedKinds
  <2>2. l = 8 => KindsOf(type, l) = {"double"}
    BY <1>2 DEF KindsOf, RealKind
  <2> QED
    BY <1>1, <2>1, <2>2 DEF Kinds, Reals
<1>3. CASE type \notin {1, 5, 6}
  <2>1. KindsOf(type, l) = {} \/ \E k \in Kinds \ {"float"} : KindsOf(type, l) = {k}
    BY <1>3 DEF KindsOf, SignedKind, UnsignedKind, Kinds, Reals, Signeds, Unsigneds
  <2> QED
    BY <1>1, <2>1
<1> QED
  BY <1>2, <1>3

\* The range of a field is between two numbers, missing or not.
LEMMA AnalIs ==
  ASSUME NEW field \in Seq(Int), NEW code \in Int
  PROVE  LET a == Anal(field, code)
         IN  /\ a.max \in Int /\ a.min \in Int /\ a.missing \in Nat
             /\ a.missing = 0 <=> \A i \in DOMAIN field : field[i] # code
<1> DEFINE present == ToSet(field) \ {code}
           gone == {i \in DOMAIN field : field[i] = code}
           a == Anal(field, code)
<1>1. field \in [1..Len(field) -> Int] /\ Len(field) \in Nat /\ DOMAIN field = 1..Len(field)
  OBVIOUS
<1>2. present \subseteq Int /\ \A x \in present : \E i \in 1..Len(field) : field[i] = x
  BY <1>1 DEF ToSet
<1>3. present # {} => Max(present) \in Int /\ Min(present) \in Int
  <2> HIDE DEF present
  <2> QED
    BY <1>1, <1>2, ExtremesOfSequence
<1>4. Cardinality(gone) \in Nat /\ (Cardinality(gone) = 0 <=> gone = {})
  <2>1. IsFiniteSet(1..Len(field))
    BY <1>1, FS_Interval
  <2>2. IsFiniteSet(gone)
    BY <1>1, <2>1, FS_Subset
  <2> HIDE DEF gone
  <2> QED
    BY <2>2, FS_CardinalityType, FS_EmptySet
<1>5. /\ a.missing = Cardinality(gone)
      /\ a.max = IF present = {} THEN code ELSE Max(present)
      /\ a.min = IF present = {} THEN code ELSE Min(present)
  BY DEF Anal
<1> HIDE DEF present, a
<1>6. a.max \in Int /\ a.min \in Int
  BY <1>3, <1>5
<1>7. gone = {} <=> \A i \in DOMAIN field : field[i] # code
  OBVIOUS
<1> HIDE DEF gone
<1> QED
  BY <1>4, <1>5, <1>6, <1>7 DEF a

LEMMA PlugsAreNumbers ==
  ASSUME NEW kind \in Kinds, NEW nbits \in Nat \ {0}, NEW a, a.max \in Int, a.min \in Int
  PROVE  /\ kind \in Reals => RealPlug(a, nbits) \in Int
         /\ kind \in Signeds => SignedPlug(kind, a, nbits) \in Int
         /\ kind \in Unsigneds => UnsignedPlug(kind, a, nbits) \in Int
<1>1. RealPlug(a, nbits) \in Int
  <2> DEFINE factor == IF nbits > 8 THEN 10 ELSE Thousandths[nbits + 1]
             plug == a.max + (((a.max - a.min) * factor) \div 1000)
  <2>1. factor \in Int
    <3>1. \A i \in 1..9 : Thousandths[i] \in Int
      BY DEF Thousandths
    <3>2. CASE nbits > 8
      BY <3>2
    <3>3. CASE nbits <= 8
      <4>1. nbits + 1 \in 1..9
        BY <3>3
      <4> QED
        BY <3>1, <4>1
    <3> QED
      BY <3>2, <3>3
  <2> HIDE DEF factor
  <2>2. plug \in Int
    <3>1. (a.max - a.min) * factor \in Int
      BY <2>1
    <3> QED
      BY <3>1
  <2> HIDE DEF plug
  <2> QED
    BY <2>2 DEF RealPlug, plug, factor
<1>2. ASSUME kind \in Signeds \cup Unsigneds PROVE Bits(kind) \in Nat \ {0}
  BY <1>2, WordIs DEF Bits, Signeds, Unsigneds
<1>3. ASSUME kind \in Signeds \cup Unsigneds PROVE Min({nbits, Bits(kind)}) \in Nat \ {0}
  BY <1>2, <1>3, LeastOfTwo
<1>4. ASSUME kind \in Signeds PROVE SignedPlug(kind, a, nbits) \in Int
  <2> DEFINE m == Min({nbits, Bits(kind)})
  <2>1. m - 1 \in Nat
    BY <1>3, <1>4
  <2> HIDE DEF m
  <2>2. 2^(m - 1) \in Int
    BY <2>1, PowersAreNumbers
  <2> QED
    BY <2>2 DEF SignedPlug, m
<1>5. ASSUME kind \in Unsigneds PROVE UnsignedPlug(kind, a, nbits) \in Int
  <2> DEFINE m == Min({nbits, Bits(kind)})
  <2>1. m \in Nat
    BY <1>3, <1>5
  <2> HIDE DEF m
  <2>2. 2^m \in Int
    BY <2>1, PowersAreNumbers
  <2> QED
    BY <2>2 DEF UnsignedPlug, m
<1> QED
  BY <1>1, <1>4, <1>5

\* A number stands for the missing elements; the others stay.
LEMMA EncodeMarks ==
  ASSUME NEW kind \in Kinds, NEW field \in Seq(Int), NEW nbits \in Nat \ {0}, Codes[kind] \in Int
  PROVE  LET enc == Encode(kind, field, nbits)
             code == Codes[kind]
         IN  /\ enc.missing \in Nat
             /\ enc.missing = 0 <=> \A i \in DOMAIN field : field[i] # code
             /\ \E plug \in Int :
                   enc.field = MarkedBy(plug, field, code)
<1> DEFINE code == Codes[kind]
           a == Anal(field, code)
           p == CASE kind \in Reals     -> RealPlug(a, nbits)
                  [] kind \in Signeds   -> SignedPlug(kind, a, nbits)
                  [] kind \in Unsigneds -> UnsignedPlug(kind, a, nbits)
           enc == Encode(kind, field, nbits)
           marked(plug) == MarkedBy(plug, field, code)
<1>1. /\ a.max \in Int /\ a.min \in Int /\ a.missing \in Nat
      /\ a.missing = 0 <=> \A i \in DOMAIN field : field[i] # code
  BY AnalIs
<1>2. p \in Int
  <2> HIDE DEF a
  <2>1. kind \in Reals \/ kind \in Signeds \/ kind \in Unsigneds
    BY DEF Kinds
  <2>2. /\ kind \in Reals => RealPlug(a, nbits) \in Int
        /\ kind \in Signeds => SignedPlug(kind, a, nbits) \in Int
        /\ kind \in Unsigneds => UnsignedPlug(kind, a, nbits) \in Int
    BY <1>1, PlugsAreNumbers
  <2> QED
    BY <2>1, <2>2
<1>3. enc = [missing |-> a.missing, field |-> IF encoder[kind] = "user" THEN field ELSE marked(p)]
  BY DEF Encode, MarkedBy
<1>4. marked(code) = field
  <2>1. \A i \in DOMAIN field : (IF field[i] = code THEN code ELSE field[i]) = field[i]
    OBVIOUS
  <2>2. marked(code) = [i \in DOMAIN field |-> field[i]]
    BY <2>1 DEF MarkedBy
  <2> QED
    BY <2>2, SequenceIs
<1> HIDE DEF a, p, enc
<1>5. enc.missing = a.missing /\ enc.field \in {field, marked(p)}
  BY <1>3
<1>6. enc.field \in {marked(code), marked(p)}
  BY <1>4, <1>5
<1>7. \E plug \in Int : enc.field = marked(plug)
  BY <1>2, <1>6
<1> QED
  BY <1>1, <1>5, <1>7 DEF enc

\* The codes for missing values are numbers, whoever set them.
CodesTyped == missing_val \in [Kinds -> Int]

LEMMA CodesAre == ASSUME CodesTyped PROVE Codes \in [Kinds -> Int]
BY CodesAssumption DEF Codes, CodesTyped

LEMMA MarkedIsSequence ==
  ASSUME NEW field \in Seq(Int), NEW code, NEW plug \in Int
  PROVE  LET elems == MarkedBy(plug, field, code)
         IN  elems \in Seq(Int) /\ Len(elems) = Len(field)
BY DEF MarkedBy

\* What c_fstecr encodes: the field itself, or one with a mark.
LEMMA EncodedIs ==
  ASSUME CodesTyped, NEW w, ValidCall(w), NEW s, s.nbits \in Nat \ {0}
  PROVE  LET enc == Encoded(w, s)
             kinds == EncodedKinds(s.in_datyp, s.nbits, length)
             kind == CHOOSE k \in kinds : TRUE
         IN  /\ enc.missing \in Nat
             /\ enc.field \in Seq(Int) /\ Len(enc.field) = Len(w.field)
             /\ enc.missing = 0 => enc.field = w.field
             /\ enc.missing > 0 =>
                  /\ kind \in Kinds \ {"float"} /\ w.elem = KindLength(kind)
                  /\ Codes[kind] \in Int
                  /\ \E i \in DOMAIN w.field : w.field[i] = Codes[kind]
                  /\ \E plug \in Int :
                        enc.field = MarkedBy(plug, w.field, Codes[kind])
<1> DEFINE enc == Encoded(w, s)
           kinds == EncodedKinds(s.in_datyp, s.nbits, length)
           kind == CHOOSE k \in kinds : TRUE
           none == [missing |-> 0, field |-> w.field]
           marked(plug) == MarkedBy(plug, w.field, Codes[kind])
<1>1. w.field \in Seq(Int)
  <2>1. Int \ {Noise} \subseteq Int
    OBVIOUS
  <2> QED
    BY <2>1 DEF ValidCall
<1>2. \/ enc = none
      \/ /\ kinds # {} /\ enc = Encode(kind, w.field, s.nbits)
         /\ \A k \in kinds : KindLength(k) = w.elem
  BY DEF Encoded, EncodeMissingValue
<1>3. CASE enc = none
  BY <1>1, <1>3
<1>4. CASE /\ kinds # {} /\ enc = Encode(kind, w.field, s.nbits)
           /\ \A k \in kinds : KindLength(k) = w.elem
  <2>1. kind \in kinds /\ kind \in Kinds \ {"float"}
    <3>1. PICK k \in Kinds \ {"float"} : kinds = {k}
      BY <1>4, EncodedKindsAre
    <3> HIDE DEF kinds
    <3> QED
      BY <3>1
  <2> HIDE DEF kind, enc, kinds
  <2>2. KindLength(kind) = w.elem /\ Codes[kind] \in Int
    BY <1>4, <2>1, CodesAre
  <2>3. /\ enc.missing \in Nat
        /\ enc.missing = 0 <=> \A i \in DOMAIN w.field : w.field[i] # Codes[kind]
        /\ \E plug \in Int : enc.field = marked(plug)
    <3> DEFINE e == Encode(kind, w.field, s.nbits)
               code == Codes[kind]
    <3>1. /\ e.missing \in Nat
          /\ e.missing = 0 <=> \A i \in DOMAIN w.field : w.field[i] # code
          /\ \E plug \in Int : e.field = MarkedBy(plug, w.field, code)
      <4>1. kind \in Kinds
        BY <2>1
      <4> HIDE DEF e
      <4> QED
        BY <1>1, <2>2, <4>1, EncodeMarks DEF e
    <3> HIDE DEF e
    <3>2. enc = e
      BY <1>4 DEF e
    <3> QED
      BY <3>1, <3>2
  <2>4. PICK plug \in Int : enc.field = marked(plug)
    BY <2>3
  <2>5. marked(plug) \in Seq(Int) /\ Len(marked(plug)) = Len(w.field)
    BY <1>1, MarkedIsSequence
  <2>6. ASSUME enc.missing = 0 PROVE enc.field = w.field
    <3>1. \A i \in DOMAIN w.field : (IF w.field[i] = Codes[kind] THEN plug ELSE w.field[i]) = w.field[i]
      BY <2>3, <2>6
    <3>2. marked(plug) = [i \in DOMAIN w.field |-> w.field[i]]
      BY <3>1 DEF MarkedBy
    <3> QED
      BY <1>1, <2>4, <3>2, SequenceIs
  <2>7. enc.missing > 0 => \E i \in DOMAIN w.field : w.field[i] = Codes[kind]
    BY <2>3
  <2> HIDE DEF marked
  <2>8. enc.field \in Seq(Int) /\ Len(enc.field) = Len(w.field)
    BY <2>4, <2>5
  <2> QED
    BY <2>1, <2>2, <2>3, <2>6, <2>7, <2>8 DEF enc, kind, kinds, marked
<1> QED
  BY <1>2, <1>3, <1>4

\* What the record says of the application's field.
LEMMA FromIs ==
  ASSUME CodesTyped, NEW w, ValidCall(w), NEW s, s.nbits \in Nat \ {0},
         NEW st, NEW rec, rec.data = st.data, rec.from = From(w, s, Encoded(w, s), st),
         Encoded(w, s).missing = 0 => ~ HasMissing(rec.datyp)
  PROVE  /\ rec.from \in Origin
         /\ rec.from.whole => Len(rec.from.field) = Len(w.field) /\ Marked(rec)
<1> DEFINE enc == Encoded(w, s)
           kinds == EncodedKinds(s.in_datyp, s.nbits, length)
           kind == CHOOSE k \in kinds : TRUE
           from == From(w, s, enc, st)
           missing == enc.missing > 0
           field == w.field
           marked(plug) == MarkedBy(plug, field, Codes[kind])
<1>1. /\ enc.missing \in Nat
      /\ enc.missing = 0 => enc.field = field
      /\ missing =>
            /\ kind \in Kinds \ {"float"} /\ w.elem = KindLength(kind) /\ Codes[kind] \in Int
            /\ \E i \in DOMAIN field : field[i] = Codes[kind]
            /\ \E plug \in Int : enc.field = marked(plug)
  BY EncodedIs
<1>2. field \in Seq(Int) /\ w.elem \in {1, 2, 4, 8}
  <2>1. Int \ {Noise} \subseteq Int
    OBVIOUS
  <2> QED
    BY <2>1 DEF ValidCall
<1>3. /\ from.elem = w.elem /\ from.kind = IF missing THEN kind ELSE "none"
      /\ from.code = IF missing THEN Codes[kind] ELSE NotSet
      /\ from.whole \in BOOLEAN /\ from.field = IF from.whole THEN field ELSE <<>>
      /\ from.whole => st.data.elems = enc.field
      /\ from.whole /\ missing => \A i, j \in DOMAIN field :
            field[i] = Codes[kind] /\ field[j] # Codes[kind] => enc.field[i] > enc.field[j]
      /\ from = [elem |-> from.elem, kind |-> from.kind, code |-> from.code,
                 whole |-> from.whole, field |-> from.field]
  <2> DEFINE code == IF missing THEN Codes[kind] ELSE NotSet
             above == \A i, j \in DOMAIN field :
                         field[i] = code /\ field[j] # code => enc.field[i] > enc.field[j]
             whole == st.data.elems = enc.field /\ (missing => above)
  <2>1. from = [elem |-> w.elem, kind |-> IF missing THEN kind ELSE "none", code |-> code,
                whole |-> whole, field |-> IF whole THEN field ELSE <<>>]
    BY DEF From
  <2>2. whole \in BOOLEAN /\ (whole => st.data.elems = enc.field) /\ (whole /\ missing => above)
    OBVIOUS
  <2> HIDE DEF whole, above, kind, enc, missing, from
  <2>3. from.whole = whole /\ from.code = code
    BY <2>1
  <2>4. above /\ missing => \A i, j \in DOMAIN field :
            field[i] = Codes[kind] /\ field[j] # Codes[kind] => enc.field[i] > enc.field[j]
    BY DEF above
  <2> QED
    BY <2>1, <2>2, <2>3, <2>4
<1> HIDE DEF kind, enc, kinds, from, missing
<1>4. from \in Origin
  <2>1. from.field \in Seq(Int) /\ from.kind \in Kinds \cup {"none"} /\ from.code \in Int \cup {NotSet}
    BY <1>1, <1>2, <1>3
  <2> QED
    BY <1>2, <1>3, <2>1 DEF Origin
<1>5. rec.from = from
  BY DEF from, enc
<1>6. ASSUME from.whole PROVE Marked(rec)
  <2>1. rec.data.elems = enc.field /\ rec.from.field = field
    BY <1>3, <1>5, <1>6
  <2>2. CASE ~ missing
    <3>1. enc.missing = 0
      BY <1>1, <2>2 DEF missing
    <3>2. rec.from.kind = "none"
      BY <1>3, <1>5, <2>2
    <3> QED
      BY <1>1, <2>1, <3>1, <3>2 DEF Marked, enc
  <2>3. CASE missing
    <3>1. /\ rec.from.kind = kind /\ rec.from.code = Codes[kind] /\ rec.from.elem = w.elem
          /\ kind # "none"
      <4>1. "none" \notin Kinds
        BY DEF Kinds, Reals, Signeds, Unsigneds
      <4> QED
        BY <1>1, <1>3, <1>5, <2>3, <4>1
    <3>2. PICK plug \in Int : enc.field = marked(plug)
      BY <1>1, <2>3
    <3>3. PICK i \in DOMAIN field : field[i] = Codes[kind]
      BY <1>1, <2>3
    <3>4. ASSUME NEW j \in DOMAIN field, field[j] # Codes[kind] PROVE plug > field[j]
      <4>1. enc.field[i] > enc.field[j]
        BY <1>3, <1>6, <2>3, <3>3, <3>4
      <4>2. enc.field[i] = plug /\ enc.field[j] = field[j]
        BY <3>2, <3>3, <3>4 DEF MarkedBy
      <4> QED
        BY <4>1, <4>2
    <3> QED
      BY <1>1, <2>1, <2>3, <3>1, <3>2, <3>3, <3>4 DEF Marked
  <2> QED
    BY <2>2, <2>3
<1> QED
  BY <1>3, <1>4, <1>5, <1>6

-----------------------------------------------------------------------------
(* The switch over the data types.                                         *)

\* c_fstecr does not pack more than NBITS_MAX bits, or none.
LEMMA NbitsAskedIs ==
  ASSUME NEW npak \in Int, NbitsAsked(npak) <= 2 * Word
  PROVE  NbitsAsked(npak) \in 1 .. 2 * Word
<1>1. Word \in Nat \ {0}
  BY WordIs
<1>2. CASE npak = 0
  BY <1>1, <1>2 DEF NbitsAsked
<1>3. CASE npak < 0
  BY <1>1, <1>3 DEF NbitsAsked
<1>4. CASE npak > 0
  <2> DEFINE d == Word \div npak
  <2>1. d \in Nat
    BY <1>1, <1>4
  <2> HIDE DEF d
  <2>2. Max({1, d}) \in Nat \ {0}
    BY <2>1, GreatestOfTwo
  <2>3. NbitsAsked(npak) = Max({1, d})
    BY <1>4 DEF NbitsAsked, d
  <2> QED
    BY <1>1, <2>2, <2>3
<1> QED
  BY <1>2, <1>3, <1>4

LEMMA LimitedIs ==
  ASSUME NEW datyp \in Nat, NEW nbits \in 1 .. 2 * Word
  PROVE  LET s == Limited(datyp, nbits)
         IN  /\ s.nbits \in 1 .. 2 * Word
             /\ s.datyp \in {6, 129, 130, 134} => s.nbits <= 2 * Byte
<1> DEFINE d == IF nbits > 2 * Byte /\ datyp # 133 THEN datyp % 128 ELSE datyp
           s == Limited(datyp, nbits)
<1>1. Word \in Nat \ {0} /\ Byte \in Nat \ {0} /\ Word = 4 * Byte /\ nbits \in Nat
  BY WordIs
<1>2. d \in Nat /\ (nbits > 2 * Byte => d = 133 \/ d < 128)
  BY <1>1
<1> HIDE DEF d
<1>3. CASE d = 6 /\ nbits > 3 * Byte
  <2>1. s = [datyp |-> 5, nbits |-> Word]
    BY <1>1, <1>3 DEF Limited, d
  <2> QED
    BY <1>1, <2>1
<1>4. CASE d = 6 /\ nbits \in (2 * Byte) + 1 .. 3 * Byte
  <2>0. ~ (nbits > 3 * Byte)
    BY <1>1, <1>4
  <2>1. s = [datyp |-> 1, nbits |-> nbits]
    BY <1>4, <2>0 DEF Limited, d
  <2> QED
    BY <1>1, <2>1
<1>5. CASE ~ (d = 6 /\ nbits > 3 * Byte) /\ ~ (d = 6 /\ nbits \in (2 * Byte) + 1 .. 3 * Byte)
  <2>1. s = [datyp |-> d, nbits |-> nbits]
    BY <1>5 DEF Limited, d
  <2>2. d \in {6, 129, 130, 134} => nbits <= 2 * Byte
    BY <1>1, <1>2, <1>5
  <2> QED
    BY <2>1, <2>2
<1> QED
  BY <1>3, <1>4, <1>5

\* ... whatever DATATYPE_REMAP holds.
LEMMA SettledIs ==
  ASSUME NEW w \in Writes, w.valid, NEW table \in Remaps \cup {<<>>}
  PROVE  LET s == Settled(w, FALSE, table)
         IN  /\ s.nbits \in 1 .. 2 * Word
             /\ s.datyp \in {6, 129, 130, 134} => s.nbits <= 2 * Byte
<1> DEFINE c == Converted(w, FALSE)
           kept == IF w.npak \in {0, 1} THEN 0 ELSE c.datyp
           d == Remapped(kept, table)
           s == Settled(w, FALSE, table)
<1>1. w.npak \in Int /\ NbitsAsked(w.npak) <= 2 * Word /\ Word \in Nat \ {0}
  BY FieldAssumption, WordIs DEF ValidCall
<1>2. c.nbits \in 1 .. 2 * Word
  <2>1. NbitsAsked(w.npak) \in 1 .. 2 * Word /\ Word \in 1 .. 2 * Word
    BY <1>1, NbitsAskedIs
  <2>2. c.nbits \in {Word, NbitsAsked(w.npak)}
    BY DEF Converted
  <2> QED
    BY <2>1, <2>2
<1>3. d \in Nat
  <2> HIDE DEF c
  <2>1. kept \in {0, c.datyp}
    OBVIOUS
  <2> QED
    BY <2>1, RemapAssumption DEF c
<1>4. s.nbits = Limited(d, c.nbits).nbits /\ s.datyp = Limited(d, c.nbits).datyp
  BY DEF Settled
<1> HIDE DEF c, d, s
<1> QED
  BY <1>2, <1>3, <1>4, LimitedIs DEF s

\* The forms of the packers.
LEMMA CodedIsData ==
  ASSUME NEW form \in Forms, NEW elems \in Seq(Element), NEW bits \in Nat
  PROVE  /\ Coded(form, elems, bits) \in Data /\ Coded(form, elems, bits).form = form
         /\ Coded(form, elems, bits).bits = bits /\ Coded(form, elems, bits).at = 0
         /\ Coded(form, elems, bits).elems = elems
BY DEF Coded, Data

LEMMA NoiseIsElements ==
  ASSUME NEW elems \in Seq(Element)
  PROVE  /\ Noisy(elems) \in Seq(Element) /\ Len(Noisy(elems)) = Len(elems)
         /\ Noisy(Noisy(elems)) = Noisy(elems)
BY DEF Noisy, Element

LEMMA FirstLevelIsElements ==
  ASSUME NEW call, NEW elems \in Seq(Element)
  PROVE  FirstLevel(call, elems) \in Seq(Element) /\ Len(FirstLevel(call, elems)) = Len(elems)
BY DEF FirstLevel, Element

LEMMA TokensIsData ==
  ASSUME NEW elems \in Seq(Element), NEW bits \in Nat, NEW at \in {0, 1}
  PROVE  LET data == Tokens(elems, bits, at)
         IN  /\ data \in Data /\ data.form = "tokens" /\ data.bits = bits /\ data.at = at
             /\ Len(data.elems) = Len(elems)
<1> DEFINE new == [i \in DOMAIN elems |-> IF elems[i] \in 0 .. (2^bits - 1) THEN elems[i]
                                                                          ELSE Noise]
<1>1. new \in Seq(Element) /\ Len(new) = Len(elems)
  BY DEF Element
<1>2. Tokens(elems, bits, at) = [form |-> "tokens", bits |-> bits, at |-> at, elems |-> new]
  BY DEF Tokens
<1> HIDE DEF new
<1> QED
  BY <1>1, <1>2 DEF Data, Forms

LEMMA SignedIsData ==
  ASSUME NEW elems \in Seq(Element), NEW bits \in Nat
  PROVE  LET data == Signed(elems, bits)
         IN  /\ data \in Data /\ data.form = "signed" /\ data.bits = bits /\ data.at = 0
             /\ Len(data.elems) = Len(elems)
<1> DEFINE new == [i \in DOMAIN elems |->
                    IF elems[i] \in -(2^(bits - 1)) .. (2^(bits - 1) - 1) THEN elems[i] ELSE Noise]
<1>1. new \in Seq(Element) /\ Len(new) = Len(elems)
  BY DEF Element
<1>2. Signed(elems, bits) = [form |-> "signed", bits |-> bits, at |-> 0, elems |-> new]
  BY DEF Signed
<1> HIDE DEF new
<1> QED
  BY <1>1, <1>2 DEF Data, Forms

\* What the switch leaves: a type with or without the flag, and data of its form.
Storable(st, w, n, type, flag) ==
    /\ type \in StoredTypes /\ st.datyp \in {type, type + flag}
    /\ st.nbits \in 1 .. 2 * Word /\ (type \in {6, 129, 130, 134} => st.nbits <= 2 * Byte)
    /\ st.data \in Data /\ Len(st.data.elems) = n

\* The record of a call has the data and the shape of the call.
StoredAs(rec, st, w, type) ==
    /\ rec \in FieldRecord /\ Narrow(rec)
    /\ Len(rec.data.elems) = rec.ni * rec.nj * rec.nk
    /\ BaseDatyp(rec.datyp) = type
    /\ rec.nbits = st.nbits /\ rec.ni = w.ni /\ rec.nj = w.nj /\ rec.nk = w.nk

\* The record of such data.
LEMMA StorableIsGood ==
  ASSUME NEW w, ValidCall(w), NEW nw \in Nat \ {0}, NEW from \in Origin, NEW flag \in {0, 64},
         NEW st, NEW type, Storable(st, w, w.ni * w.nj * w.nk, type, flag)
  PROVE  StoredAs(Record(w, st, nw, from), st, w, type)
<1> DEFINE rec == Record(w, st, nw, from)
<1>1. rec = [live |-> TRUE, key |-> w.key, ni |-> w.ni, nj |-> w.nj, nk |-> w.nk,
             datyp |-> st.datyp, nbits |-> st.nbits, data |-> st.data, nw |-> nw, from |-> from]
  BY DEF Record
<1>2. /\ type \in StoredTypes /\ st.datyp \in {type, type + flag}
      /\ st.nbits \in 1 .. 2 * Word
      /\ type \in {6, 129, 130, 134} => st.nbits <= 2 * Byte
      /\ st.data \in Data /\ Len(st.data.elems) = w.ni * w.nj * w.nk
  BY DEF Storable
<1>3. /\ st.datyp \in StoredTypes \cup Flagged /\ BaseDatyp(st.datyp) = type
      /\ flag = 0 => ~ HasMissing(st.datyp)
  <2>1. type \in StoredTypes
    BY <1>2
  <2>2. type + 64 \in Flagged
    BY <2>1 DEF Flagged
  <2>3. type + 0 = type
    BY <2>1 DEF StoredTypes
  <2>4. st.datyp = type \/ (st.datyp = type + 64 /\ flag = 64)
    BY <1>2, <2>3
  <2> QED
    BY <2>1, <2>2, <2>4, TypesKeepTheirBase
<1>4. /\ w.key \in [Ips -> Nat] /\ w.ni \in Nat \ {0} /\ w.nj \in Nat \ {0} /\ w.nk \in Nat \ {0}
  BY DEF ValidCall
<1> HIDE DEF rec
<1>5. rec \in FieldRecord
  BY <1>1, <1>2, <1>3, <1>4 DEF FieldRecord
<1> QED
  BY <1>1, <1>2, <1>3, <1>5 DEF Narrow, StoredAs, rec

\* The data have the form of their type.
ShapedAs(type, st, w) ==
    \A rec : /\ BaseDatyp(rec.datyp) = type /\ rec.data = st.data /\ rec.nbits = st.nbits
             /\ rec.ni = w.ni /\ rec.nj = w.nj /\ rec.nk = w.nk
             => Shaped(rec)

Switched(st, w, flag) ==
    \E type \in StoredTypes : Storable(st, w, w.ni * w.nj * w.nk, type, flag) /\ ShapedAs(type, st, w)

\* The cases of the switch, one by one.
LEMMA RawIs ==
  ASSUME NEW w, ValidCall(w), NEW elems \in Seq(Element), Len(elems) = w.ni * w.nj * w.nk,
         NEW nbits \in 1 .. 2 * Word, NEW flag \in {0, 64}, NEW datyp \in {0, 128}
  PROVE  Switched(Raw(elems, w.elem, nbits, flag, datyp), w, flag)
<1> DEFINE st == Raw(elems, w.elem, nbits, flag, datyp)
           coded == Coded("raw", elems, w.elem * Byte)
           words == CeilDiv(Len(elems) * nbits, Word)
<1>1. w.elem * Byte \in Nat
  <2>1. w.elem \in {1, 2, 4, 8}
    BY DEF ValidCall
  <2>2. Byte \in Nat
    BY WordIs
  <2> QED
    BY <2>1, <2>2
<1>2. coded \in Data /\ coded.form = "raw" /\ coded.at = 0 /\ coded.elems = elems
  <2> DEFINE bits == w.elem * Byte
  <2>1. "raw" \in Forms /\ bits \in Nat
    BY <1>1 DEF Forms
  <2> HIDE DEF bits
  <2>2. Coded("raw", elems, bits) \in Data
    BY <2>1, CodedIsData
  <2>3. Coded("raw", elems, bits) = [form |-> "raw", bits |-> bits, at |-> 0, elems |-> elems]
    BY DEF Coded
  <2> QED
    BY <2>2, <2>3 DEF bits
<1>3. /\ Kept(coded, words) \in Data /\ Kept(coded, words).form = "raw"
      /\ Kept(coded, words).at = 0 /\ Len(Kept(coded, words).elems) = Len(elems)
      /\ Within(Kept(coded, words), words)
  <2> HIDE DEF coded, words
  <2> QED
    BY <1>2, KeptIs
<1>4. st.datyp = (IF datyp = 128 THEN 0 ELSE flag) /\ st.nbits = nbits /\ st.data = Kept(coded, words)
  BY DEF Raw, Plain
<1> HIDE DEF st, coded
<1>5. Storable(st, w, w.ni * w.nj * w.nk, 0, flag)
  BY <1>3, <1>4 DEF Storable, StoredTypes
<1>6. ShapedAs(0, st, w)
  BY <1>3, <1>4 DEF ShapedAs, Shaped, Has
<1> QED
  BY <1>5, <1>6 DEF Switched, Storable, st

LEMMA FloatingPointIs ==
  ASSUME NEW w, ValidCall(w), NEW elems \in Seq(Element), Len(elems) = w.ni * w.nj * w.nk,
         NEW nbits \in 1 .. 2 * Word, NEW flag \in {0, 64}, NEW datyp \in {1, 129}, NEW ok \in BOOLEAN,
         datyp = 129 => nbits <= 2 * Byte
  PROVE  Switched(FloatingPoint(elems, FirstLevel(w, elems), nbits, flag, datyp, ok), w, flag)
<1> DEFINE first == FirstLevel(w, elems)
           st == FloatingPoint(elems, first, nbits, flag, datyp, ok)
<1>1. /\ nbits \in Nat /\ 2 * Byte \in Nat
      /\ first \in Seq(Element) /\ Len(first) = Len(elems)
  BY WordIs, FirstLevelIsElements
<1>a. st = CASE datyp = 1 -> Plain(1 + flag, nbits, Coded("real", elems, nbits))
             [] datyp = 129 /\ ok ->
                  Compressed(129 + flag, nbits, Coded("armn_real", first, 2 * Byte))
             [] datyp = 129 /\ ~ ok -> Plain(1, nbits, Coded("real", elems, nbits))
  BY DEF FloatingPoint
<1> HIDE DEF first, st
<1>2. CASE datyp = 129 /\ ok
  <2> DEFINE shorts == 2 * Byte
             data == Coded("armn_real", first, shorts)
  <2>0. st = Compressed(129 + flag, nbits, data)
    <3>1. datyp # 1 /\ datyp = 129 /\ ok
      BY <1>2
    <3> QED
      BY <1>a, <3>1, Zenon
  <2>b. shorts \in Nat
    BY <1>1
  <2> HIDE DEF shorts
  <2>f. "armn_real" \in Forms
    BY DEF Forms
  <2>e. data \in Data
    BY <1>1, <2>b, <2>f, CodedIsData
  <2>d. data \in Data /\ data.form = "armn_real" /\ data.at = 0 /\ data.elems = first
    BY <2>e DEF Coded
  <2> HIDE DEF data
  <2>1. st.datyp = 129 + flag /\ st.nbits = nbits /\ st.data = data
    BY <2>0 DEF Compressed, Plain
  <2>2. st.data \in Data /\ st.data.form = "armn_real" /\ st.data.at = 0 /\ st.data.elems = first
    BY <2>d, <2>1
  <2>3. Storable(st, w, w.ni * w.nj * w.nk, 129, flag)
    BY <1>1, <1>2, <2>1, <2>2 DEF Storable, StoredTypes
  <2>4. ShapedAs(129, st, w)
    <3> SUFFICES ASSUME NEW rec, BaseDatyp(rec.datyp) = 129, rec.data = st.data
                 PROVE  Shaped(rec)
      BY DEF ShapedAs
    <3>1. Has(rec, 129, "armn_real", rec.data.bits)
      BY <2>2 DEF Has
    <3> QED
      BY <3>1 DEF Shaped, Has
  <2> QED
    BY <2>3, <2>4 DEF Switched, Storable, st, first
<1>3. CASE ~ (datyp = 129 /\ ok)
  <2> DEFINE data == Coded("real", elems, nbits)
  <2>0. st \in {Plain(1 + flag, nbits, data), Plain(1, nbits, data)}
    BY <1>3, <1>a
  <2>f. "real" \in Forms
    BY DEF Forms
  <2>d. data \in Data /\ data.form = "real" /\ data.at = 0 /\ data.elems = elems /\ data.bits = nbits
    BY <1>1, <2>f, CodedIsData
  <2> HIDE DEF data
  <2>1. st.datyp \in {1, 1 + flag} /\ st.nbits = nbits /\ st.data = data
    BY <2>0 DEF Plain
  <2>2. st.data \in Data /\ st.data.form = "real" /\ st.data.at = 0 /\ st.data.elems = elems
        /\ st.data.bits = nbits
    BY <2>d, <2>1
  <2>3. Storable(st, w, w.ni * w.nj * w.nk, 1, flag)
    BY <1>1, <2>1, <2>2 DEF Storable, StoredTypes
  <2>4. ShapedAs(1, st, w)
    BY <2>1, <2>2 DEF ShapedAs, Shaped, Has
  <2> QED
    BY <2>3, <2>4 DEF Switched, Storable, st, first
<1> QED
  BY <1>2, <1>3

LEMMA UnsignedIntegerIs ==
  ASSUME NEW w, ValidCall(w), NEW elems \in Seq(Element), Len(elems) = w.ni * w.nj * w.nk,
         NEW nbits \in 1 .. 2 * Word, NEW flag \in {0, 64}, NEW datyp \in {2, 130}, NEW ok \in BOOLEAN,
         datyp = 130 => nbits <= 2 * Byte, NEW len
  PROVE  Switched(UnsignedInteger(elems, FirstLevel(w, elems), len, nbits, flag, datyp, ok), w, flag)
<1> DEFINE first == FirstLevel(w, elems)
           st == UnsignedInteger(elems, first, len, nbits, flag, datyp, ok)
           bits == CASE len = 1 -> Min({Byte, nbits})
                     [] len = 2 -> Min({2 * Byte, nbits})
                     [] OTHER -> nbits
           small == IF len = 1 THEN Min({Byte - 1, bits}) ELSE bits
           seen == IF len \in {1, 2} THEN Noisy(elems) ELSE elems
<1>1. /\ nbits \in Nat \ {0} /\ Byte \in Nat \ {0} /\ first \in Seq(Element) /\ Len(first) = Len(elems)
  BY WordIs, FirstLevelIsElements
<1>2. bits \in 1..nbits
  <2>1. Min({Byte, nbits}) \in 1..nbits /\ Min({2 * Byte, nbits}) \in 1..nbits
    BY <1>1, LeastOfTwo
  <2> QED
    BY <1>1, <2>1
<1>3. small \in Nat
  <2> HIDE DEF bits
  <2>1. bits \in Nat /\ Byte - 1 \in Nat
    BY <1>1, <1>2
  <2>2. Min({Byte - 1, bits}) \in Nat
    BY <2>1, LeastOfTwo
  <2> QED
    BY <2>1, <2>2
<1>4. seen \in Seq(Element) /\ Len(seen) = Len(elems)
  BY NoiseIsElements
<1>5. st = CASE datyp = 2 -> Plain(2 + flag, bits, Tokens(elems, bits, 0))
             [] datyp = 130 /\ ok ->
                  Compressed(130 + flag, bits, Coded("armn16", Tokens(first, small, 1).elems, bits))
             [] datyp = 130 /\ ~ ok -> Plain(2, bits, Tokens(seen, bits, 1))
  BY DEF UnsignedInteger
<1> HIDE DEF first, st, bits, small, seen
<1>6. bits \in Nat /\ bits \in 1 .. 2 * Word
  BY <1>1, <1>2, WordIs
<1>7. CASE datyp = 130 /\ ok
  <2> DEFINE tokens == Tokens(first, small, 1)
  <2>1. tokens \in Data /\ tokens.elems \in Seq(Element) /\ Len(tokens.elems) = Len(elems)
    BY <1>1, <1>3, TokensIsData DEF Data
  <2> HIDE DEF tokens
  <2> DEFINE data == Coded("armn16", tokens.elems, bits)
  <2>0. st = Compressed(130 + flag, bits, data)
    BY <1>5, <1>7 DEF tokens
  <2>f. "armn16" \in Forms
    BY DEF Forms
  <2>d. /\ data \in Data /\ data.form = "armn16" /\ data.at = 0 /\ data.bits = bits
        /\ data.elems = tokens.elems
    BY <1>6, <2>1, <2>f, CodedIsData
  <2> HIDE DEF data
  <2>2. st.datyp = 130 + flag /\ st.nbits = bits /\ st.data = data
    BY <2>0 DEF Compressed, Plain
  <2>3. /\ st.data \in Data /\ st.data.form = "armn16" /\ st.data.at = 0 /\ st.data.bits = bits
        /\ st.data.elems = tokens.elems
    BY <2>d, <2>2
  <2>4. bits <= 2 * Byte
    BY <1>1, <1>2, <1>7
  <2>5. Storable(st, w, w.ni * w.nj * w.nk, 130, flag)
    BY <1>6, <2>1, <2>2, <2>3, <2>4 DEF Storable, StoredTypes
  <2>6. ShapedAs(130, st, w)
    BY <2>2, <2>3 DEF ShapedAs, Shaped, Has
  <2> QED
    BY <2>5, <2>6 DEF Switched, Storable, st, first
<1>8. CASE ~ (datyp = 130 /\ ok)
  <2>1. PICK e \in Seq(Element), at \in {0, 1} :
          /\ Len(e) = Len(elems)
          /\ st.datyp \in {2, 2 + flag} /\ st.nbits = bits /\ st.data = Tokens(e, bits, at)
    <3>1. CASE datyp = 2
      BY <1>5, <3>1 DEF Plain
    <3>2. CASE datyp = 130
      BY <1>4, <1>5, <1>8, <3>2 DEF Plain
    <3> QED
      BY <3>1, <3>2
  <2>2. /\ st.data \in Data /\ st.data.form = "tokens" /\ st.data.bits = bits
        /\ Len(st.data.elems) = Len(elems)
    BY <1>6, <2>1, TokensIsData
  <2>3. Storable(st, w, w.ni * w.nj * w.nk, 2, flag)
    BY <1>6, <2>1, <2>2 DEF Storable, StoredTypes
  <2>4. ShapedAs(2, st, w)
    BY <2>1, <2>2 DEF ShapedAs, Shaped, Has
  <2> QED
    BY <2>3, <2>4 DEF Switched, Storable, st, first
<1> QED
  BY <1>7, <1>8

\* A string of one level fills as many words as its bits.
LEMMA WordsOfCharacters ==
  ASSUME NEW n \in Nat \ {0}
  PROVE  /\ CeilDiv(n, 4) \in Nat /\ CeilDiv(n * Byte, Word) \in Nat
         /\ CeilDiv(n, 4) <= CeilDiv(n * Byte, Word)
<1> DEFINE q == CeilDiv(n * Byte, Word)
<1>1. Byte \in Nat \ {0} /\ Word = 4 * Byte /\ Word \in Nat \ {0}
  BY WordIs
<1>2. n * Byte \in Nat
  BY <1>1
<1>3. q \in Nat /\ n * Byte <= q * Word
  BY <1>1, <1>2, CeilDivIs
<1> HIDE DEF q
<1>4. n <= q * 4
  <2>1. q * Word = (q * 4) * Byte
    BY <1>1, <1>3
  <2>2. q * 4 \in Nat
    BY <1>3
  <2>3. ASSUME NEW m \in Nat, n * Byte <= m * Byte PROVE n <= m
    <3>1. CASE n >= m + 1
      <4>1. n * Byte >= (m + 1) * Byte /\ (m + 1) * Byte = m * Byte + Byte /\ m * Byte \in Nat
        BY <1>1, <3>1
      <4> QED
        BY <1>1, <1>2, <2>3, <4>1
    <3> QED
      BY <3>1
  <2> QED
    BY <1>3, <2>1, <2>2, <2>3
<1>5. CeilDiv(n, 4) <= q
  BY <1>3, <1>4, CeilDivLeast
<1>6. CeilDiv(n, 4) \in Nat
  BY CeilDivIs
<1> QED
  BY <1>3, <1>5, <1>6 DEF q

LEMMA WithinMore ==
  ASSUME NEW data \in Data, NEW few \in Nat, NEW many \in Nat, few <= many, Within(data, few)
  PROVE  Within(data, many)
<1>1. Word \in Nat /\ few * Word \in Nat /\ many * Word \in Nat
  BY WordIs
<1>2. few * Word <= many * Word
  BY WordIs
<1>3. ASSUME NEW i \in DOMAIN data.elems
      PROVE  (data.at * Word) + (i * data.bits) \in Int
  <2>1. i \in Nat /\ data.bits \in Nat /\ data.at \in Nat
    BY DEF Data
  <2> QED
    BY <1>1, <2>1
<1> QED
  BY <1>1, <1>2, <1>3 DEF Within

LEMMA CharacterIs ==
  ASSUME NEW w, ValidCall(w), NEW elems \in Seq(Element), Len(elems) = w.ni * w.nj * w.nk,
         NEW nbits \in 1 .. 2 * Word, NEW flag \in {0, 64}, NEW datyp \in {3, 131}
  PROVE  Switched(Character(elems, w, nbits, flag, datyp), w, flag)
<1> DEFINE st == Character(elems, w, nbits, flag, datyp)
           size == w.ni * w.nj
           most == 2 * Nw(datyp, Len(elems), nbits)
           words == Min({CeilDiv(size, 4), most})
           coded == Coded("chars", elems, Byte)
           data == Kept(coded, words)
           room == CeilDiv(size * Byte, Word)
<1>1. /\ w.ni \in Nat \ {0} /\ w.nj \in Nat \ {0} /\ w.nk \in Nat \ {0}
      /\ Byte \in Nat \ {0} /\ Word = 4 * Byte
  BY WordIs DEF ValidCall
<1>2. size \in Nat \ {0}
  BY <1>1
<1>3. most \in Nat
  <2>1. Len(elems) \in Nat \ {0}
    <3>1. size * w.nk \in Nat \ {0}
      BY <1>1, <1>2
    <3> QED
      BY <3>1
  <2>2. nbits \in Nat \ {0}
    BY WordIs
  <2>3. Nw(datyp, Len(elems), nbits) \in Nat
    BY <2>1, <2>2, NwIs
  <2> QED
    BY <2>3
<1>4. st.datyp = (IF datyp = 131 THEN 3 ELSE 3 + flag) /\ st.nbits = Byte /\ st.data = data
  BY DEF Character, Plain
<1>5. CeilDiv(size, 4) \in Nat /\ room \in Nat /\ CeilDiv(size, 4) <= room
  <2> HIDE DEF size
  <2> QED
    BY <1>2, WordsOfCharacters
<1> HIDE DEF st, most, size
<1>6. words \in Nat /\ words <= room
  <2> DEFINE a == CeilDiv(size, 4)
  <2> HIDE DEF a, room
  <2>1. Min({a, most}) \in Nat /\ Min({a, most}) <= a
    BY <1>3, <1>5, LeastOfTwo DEF a
  <2> QED
    BY <1>5, <2>1 DEF a
<1> HIDE DEF words
<1>7. coded \in Data /\ coded.form = "chars" /\ coded.at = 0 /\ coded.bits = Byte /\ coded.elems = elems
  <2>f. "chars" \in Forms
    BY DEF Forms
  <2> QED
    BY <1>1, <2>f, CodedIsData
<1> HIDE DEF coded
<1>8. /\ data \in Data /\ data.form = "chars" /\ data.at = 0 /\ data.bits = Byte
      /\ Len(data.elems) = Len(elems) /\ Within(data, words)
  BY <1>7, KeptIs
<1> HIDE DEF data
<1>9. Within(data, room)
  <2> HIDE DEF room
  <2> QED
    BY <1>5, <1>6, <1>8, WithinMore
<1>10. Storable(st, w, w.ni * w.nj * w.nk, 3, flag)
  <2>1. st.datyp \in {3, 3 + flag} /\ st.nbits \in 1 .. 2 * Word
    BY <1>1, <1>4
  <2> QED
    BY <1>4, <1>8, <2>1 DEF Storable, StoredTypes
<1>11. ShapedAs(3, st, w)
  <2> SUFFICES ASSUME NEW rec, BaseDatyp(rec.datyp) = 3, rec.data = st.data,
                      rec.ni = w.ni, rec.nj = w.nj
               PROVE  Shaped(rec)
    BY DEF ShapedAs
  <2>1. Has(rec, 3, "chars", Byte)
    BY <1>4, <1>8 DEF Has
  <2>2. Within(rec.data, CeilDiv(rec.ni * rec.nj * Byte, Word))
    BY <1>4, <1>9 DEF room, size
  <2> QED
    BY <2>1, <2>2 DEF Shaped, Has
<1> QED
  BY <1>10, <1>11 DEF Switched, Storable, st

LEMMA SignedIntegerIs ==
  ASSUME NEW w, ValidCall(w), NEW elems \in Seq(Element), Len(elems) = w.ni * w.nj * w.nk,
         NEW nbits \in 1 .. 2 * Word, NEW flag \in {0, 64}
  PROVE  Switched(SignedInteger(elems, nbits, flag), w, flag)
<1> DEFINE st == SignedInteger(elems, nbits, flag)
           data == Signed(elems, nbits)
<1>1. nbits \in Nat
  BY WordIs
<1>2. st.datyp = 4 + flag /\ st.nbits = nbits /\ st.data = data
  BY DEF SignedInteger, Plain
<1>3. /\ data \in Data /\ data.form = "signed" /\ data.bits = nbits /\ data.at = 0
      /\ Len(data.elems) = Len(elems)
  BY <1>1, SignedIsData
<1> HIDE DEF st, data
<1>4. Storable(st, w, w.ni * w.nj * w.nk, 4, flag)
  BY <1>2, <1>3 DEF Storable, StoredTypes
<1>5. ShapedAs(4, st, w)
  BY <1>2, <1>3 DEF ShapedAs, Shaped, Has
<1> QED
  BY <1>4, <1>5 DEF Switched, Storable, st

\* A form other than strings, with the bits of the record.
Fits(type, nbits) == type \in {6, 129, 130, 134} => nbits <= 2 * Byte

\* A form that keeps all elements.
LEMMA PackedIs ==
  ASSUME NEW w, NEW e \in Seq(Element), Len(e) = w.ni * w.nj * w.nk,
         NEW nbits \in 1 .. 2 * Word, NEW flag \in {0, 64},
         NEW form, form \in Forms, NEW type \in StoredTypes,
         NEW st, st.datyp \in {type, type + flag}, st.nbits = nbits,
         st.data = Coded(form, e, nbits),
         Fits(type, nbits)
  PROVE  /\ Storable(st, w, w.ni * w.nj * w.nk, type, flag)
         /\ \A rec : rec.data = st.data /\ rec.nbits = st.nbits => Has(rec, type, form, rec.nbits)
<1>1. nbits \in Nat
  BY WordIs
<1>2. st.data \in Data
  BY <1>1, CodedIsData
<1>3. st.data = [form |-> form, bits |-> nbits, at |-> 0, elems |-> e]
  BY DEF Coded
<1>4. st.data.form = form /\ st.data.bits = nbits /\ st.data.at = 0 /\ st.data.elems = e
  BY <1>3
<1>5. Storable(st, w, w.ni * w.nj * w.nk, type, flag)
  BY <1>2, <1>4 DEF Storable, Fits
<1> QED
  BY <1>4, <1>5 DEF Has

LEMMA IeeeIs ==
  ASSUME NEW w, ValidCall(w), NEW elems \in Seq(Element), Len(elems) = w.ni * w.nj * w.nk,
         NEW nbits \in 1 .. 2 * Word, NEW flag \in {0, 64}, NEW datyp \in {5, 8, 133, 136},
         NEW ok \in BOOLEAN
  PROVE  Switched(Ieee(elems, FirstLevel(w, elems), nbits, flag, datyp, ok), w, flag)
<1> DEFINE first == FirstLevel(w, elems)
           noise == Noisy(elems)
           st == Ieee(elems, first, nbits, flag, datyp, ok)
           packed == Coded("ieee32", first, nbits)
           zeros == Coded("zeros", noise, nbits)
<1>1. /\ first \in Seq(Element) /\ Len(first) = Len(elems)
      /\ noise \in Seq(Element) /\ Len(noise) = Len(elems) /\ Noisy(noise) = noise
  BY FirstLevelIsElements, NoiseIsElements
<1>2. "ieee32" \in Forms /\ "zeros" \in Forms
  BY DEF Forms
<1>3. st = CASE datyp = 133 /\ ok -> Compressed(133 + flag, nbits, packed)
             [] datyp = 133 /\ ~ ok -> Plain(5, nbits, zeros)
             [] datyp = 136 -> Plain(8, nbits, zeros)
             [] OTHER -> Plain(datyp + flag, nbits, zeros)
  BY DEF Ieee
<1> HIDE DEF st, first, noise
<1>4. CASE datyp = 133 /\ ok
  <2> HIDE DEF packed, zeros
  <2>1. st = Compressed(133 + flag, nbits, packed)
    BY <1>3, <1>4
  <2>2. st.datyp = 133 + flag /\ st.nbits = nbits /\ st.data = packed
    BY <2>1 DEF Compressed, Plain
  <2>3. /\ Storable(st, w, w.ni * w.nj * w.nk, 133, flag)
        /\ \A rec : rec.data = st.data /\ rec.nbits = st.nbits => Has(rec, 133, "ieee32", rec.nbits)
    <3>1. 133 \in StoredTypes /\ Fits(133, nbits)
      BY DEF StoredTypes, Fits
    <3> QED
      BY <1>1, <1>2, <2>2, <3>1, PackedIs DEF packed
  <2>4. ShapedAs(133, st, w)
    <3> SUFFICES ASSUME NEW rec, BaseDatyp(rec.datyp) = 133, rec.data = st.data, rec.nbits = st.nbits
                 PROVE  Shaped(rec)
      BY DEF ShapedAs
    <3>1. Has(rec, 133, "ieee32", rec.nbits)
      BY <2>3
    <3> QED
      BY <3>1 DEF Shaped, Has
  <2> QED
    BY <2>3, <2>4 DEF Switched, Storable, st, first
<1>5. CASE ~ (datyp = 133 /\ ok)
  <2> DEFINE type == IF datyp = 133 THEN 5 ELSE IF datyp = 136 THEN 8 ELSE datyp
  <2> HIDE DEF packed, zeros
  <2>1. st \in {Plain(type, nbits, zeros), Plain(type + flag, nbits, zeros)}
    BY <1>3, <1>5
  <2>2. type \in {5, 8}
    OBVIOUS
  <2> HIDE DEF type
  <2>3. st.datyp \in {type, type + flag} /\ st.nbits = nbits /\ st.data = zeros
    BY <2>1 DEF Plain
  <2>4. Storable(st, w, w.ni * w.nj * w.nk, type, flag)
    <3>1. type \in StoredTypes /\ Fits(type, nbits)
      BY <2>2 DEF StoredTypes, Fits
    <3> QED
      BY <1>1, <1>2, <2>3, <3>1, PackedIs DEF zeros
  <2>5. st.data.elems = Noisy(st.data.elems)
    <3>1. zeros.elems = noise
      BY DEF zeros, Coded
    <3> QED
      BY <1>1, <2>3, <3>1
  <2>6. ShapedAs(type, st, w)
    <3> SUFFICES ASSUME NEW rec, BaseDatyp(rec.datyp) \in {5, 8}, rec.data = st.data
                 PROVE  Shaped(rec)
      BY <2>2 DEF ShapedAs
    <3> QED
      BY <2>5 DEF Shaped, Has
  <2> QED
    BY <2>4, <2>6 DEF Switched, Storable, st, first
<1> QED
  BY <1>4, <1>5

LEMMA NewPackerIs ==
  ASSUME NEW w, ValidCall(w), NEW elems \in Seq(Element), Len(elems) = w.ni * w.nj * w.nk,
         NEW nbits \in 1 .. 2 * Word, NEW flag \in {0, 64}, NEW datyp \in {6, 134},
         NEW ok \in BOOLEAN, Fits(datyp, nbits)
  PROVE  Switched(NewPacker(elems, FirstLevel(w, elems), nbits, flag, datyp, ok), w, flag)
<1> DEFINE first == FirstLevel(w, elems)
           st == NewPacker(elems, first, nbits, flag, datyp, ok)
           packed == Coded("armn_float16", first, nbits)
           floats == Coded("float16", elems, nbits)
<1>1. first \in Seq(Element) /\ Len(first) = Len(elems)
  BY FirstLevelIsElements
<1>2. "float16" \in Forms /\ "armn_float16" \in Forms /\ 6 \in StoredTypes /\ 134 \in StoredTypes
  BY DEF Forms, StoredTypes
<1>3. st = CASE datyp = 6 -> Plain(6 + flag, nbits, floats)
             [] datyp = 134 /\ ok -> Compressed(134 + flag, nbits, packed)
             [] datyp = 134 /\ ~ ok -> Plain(6, nbits, floats)
  BY DEF NewPacker
<1> HIDE DEF st, first, packed, floats
<1>4. CASE datyp = 134 /\ ok
  <2>1. st = Compressed(134 + flag, nbits, packed)
    BY <1>3, <1>4
  <2>2. st.datyp = 134 + flag /\ st.nbits = nbits /\ st.data = packed
    BY <2>1 DEF Compressed, Plain
  <2>3. /\ Storable(st, w, w.ni * w.nj * w.nk, 134, flag)
        /\ \A rec : rec.data = st.data /\ rec.nbits = st.nbits
                      => Has(rec, 134, "armn_float16", rec.nbits)
    <3>1. Len(first) = w.ni * w.nj * w.nk
      BY <1>1
    <3>2. Fits(134, nbits)
      BY <1>4
    <3>3. st.datyp \in {134, 134 + flag} /\ st.data = Coded("armn_float16", first, nbits)
      BY <2>2 DEF packed
    <3> QED
      BY <1>1, <1>2, <2>2, <3>1, <3>2, <3>3, PackedIs
  <2>4. ShapedAs(134, st, w)
    <3> SUFFICES ASSUME NEW rec, BaseDatyp(rec.datyp) = 134, rec.data = st.data, rec.nbits = st.nbits
                 PROVE  Shaped(rec)
      BY DEF ShapedAs
    <3>1. Has(rec, 134, "armn_float16", rec.nbits)
      BY <2>3
    <3> QED
      BY <3>1 DEF Shaped, Has
  <2> QED
    BY <1>2, <2>3, <2>4 DEF Switched, st, first
<1>5. CASE ~ (datyp = 134 /\ ok)
  <2>1. st \in {Plain(6, nbits, floats), Plain(6 + flag, nbits, floats)}
    BY <1>3, <1>5
  <2>2. st.datyp \in {6, 6 + flag} /\ st.nbits = nbits /\ st.data = floats
    BY <2>1 DEF Plain
  <2>3. /\ Storable(st, w, w.ni * w.nj * w.nk, 6, flag)
        /\ \A rec : rec.data = st.data /\ rec.nbits = st.nbits => Has(rec, 6, "float16", rec.nbits)
    <3>1. Fits(6, nbits)
      BY DEF Fits
    <3>2. st.data = Coded("float16", elems, nbits)
      BY <2>2 DEF floats
    <3> QED
      BY <1>2, <2>2, <3>1, <3>2, PackedIs
  <2>4. ShapedAs(6, st, w)
    <3> SUFFICES ASSUME NEW rec, BaseDatyp(rec.datyp) = 6, rec.data = st.data, rec.nbits = st.nbits
                 PROVE  Shaped(rec)
      BY DEF ShapedAs
    <3>1. Has(rec, 6, "float16", rec.nbits)
      BY <2>3
    <3> QED
      BY <3>1 DEF Shaped, Has
  <2> QED
    BY <1>2, <2>3, <2>4 DEF Switched, st, first
<1> QED
  BY <1>4, <1>5

LEMMA CharacterStringIs ==
  ASSUME NEW w, ValidCall(w), NEW elems \in Seq(Element), Len(elems) = w.ni * w.nj * w.nk,
         NEW nbits \in 1 .. 2 * Word, NEW flag \in {0, 64}, NEW datyp \in {7, 135}
  PROVE  Switched(CharacterString(elems, nbits, flag, datyp), w, flag)
<1> DEFINE st == CharacterString(elems, nbits, flag, datyp)
           tokens == Tokens(elems, Byte, 0)
           words == 2 * Nw(datyp, Len(elems), nbits)
           data == Kept(tokens, words)
<1>1. Byte \in Nat
  BY WordIs
<1>2. st.datyp \in {7, 7 + flag} /\ st.nbits = nbits /\ st.data = data
  BY DEF CharacterString, Plain
<1>3. /\ tokens \in Data /\ tokens.form = "tokens" /\ tokens.bits = Byte /\ tokens.at = 0
      /\ Len(tokens.elems) = Len(elems)
  BY <1>1, TokensIsData
<1> HIDE DEF st, tokens, words
<1>4. /\ data \in Data /\ data.form = "tokens" /\ data.at = 0 /\ data.bits = Byte
      /\ Len(data.elems) = Len(elems)
  BY <1>3, KeptIs
<1> HIDE DEF data
<1>5. Storable(st, w, w.ni * w.nj * w.nk, 7, flag)
  BY <1>2, <1>4 DEF Storable, StoredTypes
<1>6. ShapedAs(7, st, w)
  <2> SUFFICES ASSUME NEW rec, BaseDatyp(rec.datyp) = 7, rec.data = st.data
               PROVE  Shaped(rec)
    BY DEF ShapedAs
  <2>1. Has(rec, 7, "tokens", Byte)
    BY <1>2, <1>4 DEF Has
  <2> QED
    BY <2>1 DEF Shaped, Has
<1> QED
  BY <1>5, <1>6 DEF Switched, Storable, st

\* The switch over the data types.
LEMMA StoredIsSwitched ==
  ASSUME NEW w, ValidCall(w), NEW elems \in Seq(Element), Len(elems) = w.ni * w.nj * w.nk,
         NEW s, s.nbits \in 1 .. 2 * Word, s.datyp \in {6, 129, 130, 134} => s.nbits <= 2 * Byte,
         NEW len, NEW flag \in {0, 64}, NEW ok \in BOOLEAN, NEW st \in Stored(w, s, len, elems, flag, ok)
  PROVE  Switched(st, w, flag)
<1> DEFINE first == FirstLevel(w, elems)
           type == s.datyp
           nbits == s.nbits
<1>1. \/ type \in {0, 128} /\ st = Raw(elems, w.elem, nbits, flag, type)
      \/ type \in {1, 129} /\ st = FloatingPoint(elems, first, nbits, flag, type, ok)
      \/ type \in {2, 130} /\ st = UnsignedInteger(elems, first, len, nbits, flag, type, ok)
      \/ type \in {3, 131} /\ st = Character(elems, w, nbits, flag, type)
      \/ type \in {4, 132} /\ st = SignedInteger(elems, nbits, flag)
      \/ type \in {5, 8, 133, 136} /\ st = Ieee(elems, first, nbits, flag, type, ok)
      \/ type \in {6, 134} /\ st = NewPacker(elems, first, nbits, flag, type, ok)
      \/ type \in {7, 135} /\ st = CharacterString(elems, nbits, flag, type)
  BY DEF Stored
<1>2. nbits \in 1 .. 2 * Word /\ (type \in {6, 129, 130, 134} => nbits <= 2 * Byte)
  OBVIOUS
<1> HIDE DEF type, nbits
<1>3. CASE type \in {0, 128} /\ st = Raw(elems, w.elem, nbits, flag, type)
  BY <1>2, <1>3, RawIs
<1>4. CASE type \in {1, 129} /\ st = FloatingPoint(elems, first, nbits, flag, type, ok)
  <2>1. type = 129 => nbits <= 2 * Byte
    BY <1>2
  <2> QED
    BY <1>2, <1>4, <2>1, FloatingPointIs
<1>5. CASE type \in {2, 130} /\ st = UnsignedInteger(elems, first, len, nbits, flag, type, ok)
  <2>1. type = 130 => nbits <= 2 * Byte
    BY <1>2
  <2> QED
    BY <1>2, <1>5, <2>1, UnsignedIntegerIs
<1>6. CASE type \in {3, 131} /\ st = Character(elems, w, nbits, flag, type)
  BY <1>2, <1>6, CharacterIs
<1>7. CASE type \in {4, 132} /\ st = SignedInteger(elems, nbits, flag)
  BY <1>2, <1>7, SignedIntegerIs
<1>8. CASE type \in {5, 8, 133, 136} /\ st = Ieee(elems, first, nbits, flag, type, ok)
  BY <1>2, <1>8, IeeeIs
<1>9. CASE type \in {6, 134} /\ st = NewPacker(elems, first, nbits, flag, type, ok)
  <2>1. Fits(type, nbits)
    BY <1>2 DEF Fits
  <2> QED
    BY <1>2, <1>9, <2>1, NewPackerIs
<1>10. CASE type \in {7, 135} /\ st = CharacterString(elems, nbits, flag, type)
  BY <1>2, <1>10, CharacterStringIs
<1> QED
  BY <1>1, <1>3, <1>4, <1>5, <1>6, <1>7, <1>8, <1>9, <1>10

-----------------------------------------------------------------------------
(* What c_fstecr writes.                                                   *)

\* The names that FstEcr gives its steps.
SettledFor(w) == Settled(w, FALSE, remap_table)
EncodedFor(w) == Encoded(w, SettledFor(w))
SeenFor(w) ==
    LET s   == SettledFor(w)
        enc == EncodedFor(w)
    IN  IF AssumedLength(s.in_datyp, s.datyp, length) = w.elem \/ s.datyp % 128 = 0
        THEN enc.field ELSE Noisy(enc.field)
FlagFor(w) == IF EncodedFor(w).missing > 0 THEN 64 ELSE 0
StoredFor(w) == UNION {Stored(w, SettledFor(w), length, SeenFor(w), FlagFor(w), ok) :
                          ok \in {FALSE, MaySucceed(w, SettledFor(w).datyp)}}
WordsFor(w, st) == IF st.compressed THEN CompressedWords
                   ELSE {Nw(SettledFor(w).datyp, w.ni * w.nj * w.nk, SettledFor(w).nbits)}
NewRecord(w, st, nw) == Record(w, st, nw, From(w, SettledFor(w), EncodedFor(w), st))

LEMMA SizeIs ==
  ASSUME NEW ni \in Nat \ {0}, NEW nj \in Nat \ {0}, NEW nk \in Nat \ {0}
  PROVE  ni * nj * nk \in Nat \ {0}
<1>1. ni * nj \in Nat \ {0}
  OBVIOUS
<1> DEFINE p == ni * nj
<1> HIDE DEF p
<1>2. p * nk \in Nat \ {0}
  BY <1>1 DEF p
<1> QED
  BY <1>2 DEF p

LEMMA WordsAre ==
  ASSUME remap_table \in Remaps \cup {<<>>}, NEW w \in Writes, w.valid, NEW st,
         NEW nw \in WordsFor(w, st)
  PROVE  nw \in Nat \ {0}
<1> DEFINE s == SettledFor(w)
           n == w.ni * w.nj * w.nk
<1>1. s.nbits \in 1 .. 2 * Word
  BY SettledIs DEF SettledFor
<1>2. s.nbits \in Nat \ {0}
  BY <1>1, WordIs
<1>3. n \in Nat \ {0}
  BY FieldAssumption, SizeIs DEF ValidCall
<1>4. nw \in CompressedWords \/ nw = Nw(s.datyp, n, s.nbits)
  BY DEF WordsFor
<1> HIDE DEF s, n
<1>5. Nw(s.datyp, n, s.nbits) \in Nat \ {0}
  BY <1>2, <1>3, NwIs
<1> QED
  BY <1>4, <1>5, FormsAssumption

\* c_fstecr writes a good record.
LEMMA WrittenIsGood ==
  ASSUME CodesTyped, remap_table \in Remaps \cup {<<>>}, NEW w \in Writes, w.valid,
         NEW st \in StoredFor(w), NEW nw \in WordsFor(w, st)
  PROVE  Good(NewRecord(w, st, nw))
<1> DEFINE s == SettledFor(w)
           enc == EncodedFor(w)
           seen == SeenFor(w)
           flag == FlagFor(w)
           from == From(w, s, enc, st)
           rec == Record(w, st, nw, from)
           n == w.ni * w.nj * w.nk
<1>1. ValidCall(w)
  BY FieldAssumption
<1>2. s.nbits \in 1 .. 2 * Word /\ (s.datyp \in {6, 129, 130, 134} => s.nbits <= 2 * Byte)
  BY ZenonT(40), SettledIs DEF SettledFor
<1>3. s.nbits \in Nat \ {0}
  BY <1>2, WordIs
<1>4. /\ enc.missing \in Nat
      /\ enc.field \in Seq(Int) /\ Len(enc.field) = Len(w.field)
  BY <1>1, <1>3, EncodedIs DEF EncodedFor
<1>5. seen \in Seq(Element) /\ Len(seen) = n
  <2>1. Len(w.field) = n
    BY <1>1 DEF ValidCall
  <2>2. enc.field \in Seq(Element)
    BY <1>4 DEF Element
  <2>3. seen \in {enc.field, Noisy(enc.field)}
    BY DEF SeenFor
  <2> HIDE DEF enc, seen
  <2>4. Noisy(enc.field) \in Seq(Element) /\ Len(Noisy(enc.field)) = Len(enc.field)
    BY <2>2, NoiseIsElements
  <2> QED
    BY <1>4, <2>1, <2>2, <2>3, <2>4
<1>6. flag \in {0, 64} /\ (enc.missing = 0 => flag = 0)
  BY <1>4 DEF FlagFor
<1>7. PICK ok \in BOOLEAN : st \in Stored(w, s, length, seen, flag, ok)
  <2>1. MaySucceed(w, s.datyp) \in BOOLEAN
    BY DEF MaySucceed
  <2> QED
    BY <2>1 DEF StoredFor
<1> HIDE DEF s, enc, seen, flag, from
<1>8. Switched(st, w, flag)
  BY SMTT(30), <1>1, <1>2, <1>5, <1>6, <1>7, StoredIsSwitched
<1>9. PICK type \in StoredTypes : Storable(st, w, n, type, flag) /\ ShapedAs(type, st, w)
  BY <1>8 DEF Switched
<1>10. enc.missing = 0 => ~ HasMissing(rec.datyp)
  <2>1. rec.datyp = st.datyp
    BY DEF Record
  <2>2. enc.missing = 0 => st.datyp = type
    <3>1. type \in Nat
      BY DEF StoredTypes
    <3> QED
      BY <1>6, <1>9, <3>1 DEF Storable
  <2>3. ~ HasMissing(type)
    BY TypesKeepTheirBase
  <2> QED
    BY <2>1, <2>2, <2>3
<1>11. rec.data = st.data /\ rec.from = from
  BY DEF Record
<1> HIDE DEF rec, n
<1>12. from \in Origin /\ (from.whole => Len(from.field) = Len(w.field) /\ Marked(rec))
  <2>1. rec.from = From(w, s, Encoded(w, s), st) /\ enc = Encoded(w, s)
    BY <1>11 DEF from, enc, EncodedFor, s
  <2> QED
    BY <1>1, <1>3, <1>10, <1>11, <2>1, FromIs
<1>13. nw \in Nat \ {0}
  BY WordsAre
<1>14. /\ rec \in FieldRecord /\ Narrow(rec)
       /\ Len(rec.data.elems) = rec.ni * rec.nj * rec.nk
       /\ BaseDatyp(rec.datyp) = type
       /\ rec.nbits = st.nbits /\ rec.ni = w.ni /\ rec.nj = w.nj /\ rec.nk = w.nk
  <2>1. Storable(st, w, w.ni * w.nj * w.nk, type, flag)
    BY <1>9 DEF n
  <2>2. from \in Origin /\ flag \in {0, 64}
    BY <1>6, <1>12
  <2>3. StoredAs(Record(w, st, nw, from), st, w, type)
    BY <1>1, <1>13, <2>1, <2>2, StorableIsGood
  <2> QED
    BY <2>3 DEF rec, StoredAs
<1>15. Shaped(rec)
  BY <1>9, <1>11, <1>14 DEF ShapedAs
<1>16. Sized(rec)
  <2>1. Len(w.field) = w.ni * w.nj * w.nk
    BY <1>1 DEF ValidCall
  <2> QED
    BY <1>11, <1>12, <1>14, <2>1 DEF Sized
<1>17. Good(rec)
  BY <1>11, <1>12, <1>14, <1>15, <1>16 DEF Good
<1> QED
  BY <1>17 DEF rec, from, s, enc, NewRecord

\* The copy that c_fstecr makes in image mode.
CopyOf(rec) ==
    LET s    == Settled([datyp |-> rec.datyp, npak |-> -rec.nbits], TRUE, remap_table)
        nw   == IF s.datyp > 128 THEN rec.nw
                ELSE Nw(s.datyp, rec.ni * rec.nj * rec.nk, s.nbits)
        copy == [rec EXCEPT !.datyp = s.datyp + (IF HasMissing(@) THEN 64 ELSE 0),
                            !.nbits = s.nbits, !.nw = nw]
    IN  [copy EXCEPT !.data = Image(copy)]

LEMMA CopyOfGood ==
  ASSUME NEW rec, Good(rec)
  PROVE  Good(CopyOf(rec))
<1> DEFINE s == Settled([datyp |-> rec.datyp, npak |-> -rec.nbits], TRUE, remap_table)
           nw == IF s.datyp > 128 THEN rec.nw
                 ELSE Nw(s.datyp, rec.ni * rec.nj * rec.nk, s.nbits)
           copy == [rec EXCEPT !.datyp = s.datyp + (IF HasMissing(@) THEN 64 ELSE 0),
                               !.nbits = rec.nbits, !.nw = nw]
<1>1. s.nbits = rec.nbits /\ s.datyp \in {BaseDatyp(rec.datyp), 5}
  BY SettledImage
<1>2. CopyOf(rec) = [copy EXCEPT !.data = Image(copy)]
  BY <1>1, Zenon DEF CopyOf
<1> DEFINE datyp == s.datyp
<1>3. nw \in Nat \ {0}
  <2>1. /\ rec.nbits \in Nat \ {0} /\ rec.nw \in Nat \ {0}
        /\ rec.ni \in Nat \ {0} /\ rec.nj \in Nat \ {0} /\ rec.nk \in Nat \ {0}
    BY WordIs DEF Good, FieldRecord
  <2> DEFINE n == rec.ni * rec.nj * rec.nk
  <2>2. n \in Nat \ {0}
    BY <2>1, SizeIs
  <2> HIDE DEF n, s
  <2>3. Nw(s.datyp, n, s.nbits) \in Nat \ {0}
    BY <1>1, <2>1, <2>2, NwIs
  <2> QED
    BY <2>1, <2>3 DEF n
<1> HIDE DEF s, nw
<1>4. Good([copy EXCEPT !.data = Image(copy)])
  BY ZenonT(40), <1>1, <1>3, CopyIsGood
<1> QED
  BY <1>2, <1>4

-----------------------------------------------------------------------------
(* The invariant of the data.                                              *)

SettingsTyped ==
    /\ MissingTypeOK /\ CodesTyped
    /\ length \in {1, 2, 4, 8}
    /\ image_mode_copy \in BOOLEAN
    /\ remap_table \in Remaps \cup {<<>>}

FiltersFit == \A i \in Ips : ips_tab[i] \in SeqOf({0, -9999}, MaxIpvals)

\* Deleted records apart, what the files hold is what c_fstecr wrote, and so is the image.
RecordsGood == \A u \in Units :
    /\ Len(records[u]) <= MaxRecords
    /\ \A h \in DOMAIN records[u] : Live(u, h) => Good(records[u][h])
ImageGood == image = NoImage \/ Good(image)

DataInv == SettingsTyped /\ FiltersFit /\ RecordsGood /\ ImageGood

LEMMA SequencesOf ==
  ASSUME NEW S, NEW n \in Nat, NEW s \in Seq(S), Len(s) <= n
  PROVE  s \in SeqOf(S, n)
<1>1. s \in [1..Len(s) -> S] /\ Len(s) \in 0..n
  OBVIOUS
<1> QED
  BY <1>1, Zenon DEF SeqOf

\* The codes are numbers after the environment is read.
LEMMA EncodingKeepsTypes ==
  ASSUME SettingsTyped, NEW called,
         AfterEncoding(called), UNCHANGED <<encoder, decoder, image_mode_copy, remap_table>>,
         length' \in {4, length}
  PROVE  SettingsTyped'
<1>1. plugmode' \in {-1, 0, 1} /\ missing_val' \in {missing_val, Codes}
  BY DEF AfterEncoding, ReadEnvironment, MissingValueUsed, SettingsTyped, MissingTypeOK
<1>2. Codes \in {missing_val, Environment} /\ Codes \in [Kinds -> Int]
  BY CodesAre DEF Codes, SettingsTyped
<1> QED
  BY <1>1, <1>2 DEF SettingsTyped, MissingTypeOK, CodesTyped

LEMMA MissingStepKeepsTypes ==
  ASSUME SettingsTyped, MissingStep
  PROVE  SettingsTyped'
<1>1. UNCHANGED <<length, image_mode_copy, remap_table>>
  BY DEF MissingStep, settingVars
<1>2. MissingNext
  BY DEF MissingStep
<1>3. CASE GetMissingValueFlags
  <2>1. plugmode' \in {-1, 0, 1} /\ missing_val' = Codes /\ UNCHANGED <<encoder, decoder>>
    BY <1>3 DEF GetMissingValueFlags, ReadEnvironment, MissingValueUsed, SettingsTyped, MissingTypeOK
  <2>2. Codes \in {missing_val, Environment} /\ Codes \in [Kinds -> Int]
    BY CodesAre DEF Codes, SettingsTyped
  <2> QED
    BY <1>1, <2>1, <2>2 DEF SettingsTyped, MissingTypeOK, CodesTyped
<1>4. CASE ForceMissingValueUsage
  BY <1>1, <1>4 DEF ForceMissingValueUsage, SettingsTyped, MissingTypeOK, CodesTyped
<1>5. CASE SetMissingValueFlags
  BY <1>1, <1>5, CodesAssumption DEF SetMissingValueFlags, SettingsTyped, MissingTypeOK, CodesTyped
<1>6. CASE RestoreMissingValueMapping
  BY <1>1, <1>6 DEF RestoreMissingValueMapping, SettingsTyped, MissingTypeOK, CodesTyped
<1>7. CASE SetMissingValueMapping
  <2>1. PICK m \in Mappings :
          LET kinds     == KindsOf(m.datatype, m.length)
              processor == CASE m.mode < 0 -> "default" [] m.mode = 11 -> "null" [] OTHER -> "user"
              mapped(f) == [k \in Kinds |-> IF k \in kinds THEN processor ELSE f[k]]
          IN  /\ decoder' = IF m.mode \in {1, -1, 11, -11} THEN mapped(decoder) ELSE decoder
              /\ encoder' = IF m.mode \in {2, -2} THEN mapped(encoder) ELSE encoder
              /\ UNCHANGED <<plugmode, missing_val>>
    BY <1>7 DEF SetMissingValueMapping
  <2> DEFINE kinds == KindsOf(m.datatype, m.length)
             processor == CASE m.mode < 0 -> "default" [] m.mode = 11 -> "null" [] OTHER -> "user"
             mapped(f) == [k \in Kinds |-> IF k \in kinds THEN processor ELSE f[k]]
  <2> HIDE DEF kinds
  <2>2. decoder' = decoder \/ decoder' = mapped(decoder)
    BY <2>1 DEF kinds
  <2>3. encoder' = encoder \/ (encoder' = mapped(encoder) /\ m.mode \in {2, -2})
    BY <2>1 DEF kinds
  <2>4. processor \in {"default", "user", "null"} /\ (m.mode \in {2, -2} => processor \in {"default", "user"})
    <3>1. CASE m.mode \in {2, -2}
      BY <3>1
    <3>2. CASE m.mode \notin {2, -2}
      BY <3>2
    <3> QED
      BY <3>1, <3>2
  <2> HIDE DEF processor
  <2>5. decoder' \in [Kinds -> {"default", "user", "null"}]
    BY <2>2, <2>4 DEF SettingsTyped, MissingTypeOK
  <2>6. encoder' \in [Kinds -> {"default", "user"}]
    BY <2>3, <2>4 DEF SettingsTyped, MissingTypeOK
  <2> QED
    BY <1>1, <2>1, <2>5, <2>6 DEF SettingsTyped, MissingTypeOK, CodesTyped
<1> QED
  BY <1>2, <1>3, <1>4, <1>5, <1>6, <1>7 DEF MissingNext

\* What is put is what c_fstecr wrote.
LEMMA PutKeepsGood ==
  ASSUME FieldInv, RecordsGood, NEW u \in Units, NEW old \in {-1} \cup DOMAIN records[u],
         NEW rec, Good(rec), records' = Put(u, old, rec), Len(records'[u]) <= MaxRecords
  PROVE  RecordsGood'
<1>1. Puts(u, old, rec)
  BY PutPuts
<1>2. ASSUME NEW h \in DOMAIN records'[u], Live(u, h)' PROVE Good(records'[u][h])
  <2>1. DOMAIN records[u] = 1..Len(records[u]) /\ Len(records[u]) \in Nat
    BY RecordNumbers DEF FieldInv
  <2>2. DOMAIN records'[u] = 1..Len(records'[u])
        /\ Len(records'[u]) \in {Len(records[u]), Len(records[u]) + 1}
    BY <1>1 DEF Puts
  <2>3. CASE h \in DOMAIN records[u]
    <3>1. records'[u][h] \in {records[u][h], rec, Deleted}
      BY <1>1, <2>3 DEF Puts
    <3>2. records'[u][h] # Deleted
      BY <1>2 DEF Live, Deleted
    <3>3. CASE records'[u][h] = records[u][h]
      <4>1. Live(u, h)
        BY <1>2, <2>3, <3>3 DEF Live
      <4> QED
        BY <2>3, <3>3, <4>1 DEF RecordsGood
    <3> QED
      BY <3>1, <3>2, <3>3
  <2>4. CASE h \notin DOMAIN records[u]
    <3>1. h = Len(records'[u]) /\ Len(records'[u]) > Len(records[u])
      BY <1>2, <2>1, <2>2, <2>4
    <3> QED
      BY <1>1, <3>1 DEF Puts
  <2> QED
    BY <2>3, <2>4
<1>3. ASSUME NEW v \in Units \ {u} PROVE records'[v] = records[v]
  BY <1>1 DEF Puts
<1>4. ASSUME NEW v \in Units
      PROVE  /\ Len(records'[v]) <= MaxRecords
             /\ \A h \in DOMAIN records'[v] : Live(v, h)' => Good(records'[v][h])
  <2>1. CASE v = u
    BY <1>2, <2>1
  <2>2. CASE v # u
    <3>1. records'[v] = records[v]
      BY <1>3, <2>2
    <3> QED
      BY <3>1 DEF RecordsGood, Live
  <2> QED
    BY <2>1, <2>2
<1> QED
  BY <1>4 DEF RecordsGood

\* AddIps stops at Max_Ipvals values.
LEMMA FiltersStillFit ==
  ASSUME FieldInv, NEW i \in Ips, NEW values \in Seq({0, -9999}), FiltersFit, AddIps(i, values)
  PROVE  FiltersFit' /\ UNCHANGED <<settingVars, records, image, missingVars>>
<1> DEFINE longer == ips_tab[i] \o values
           n == Min({MaxIpvals, Len(longer)})
<1>1. ips_tab \in [Ips -> Seq({0, -9999})] /\ MaxIpvals \in Nat
  BY FieldAssumption DEF FieldInv, FiltersHoldNoCode
<1>2. longer \in Seq({0, -9999}) /\ Len(longer) \in Nat
  BY <1>1
<1> HIDE DEF longer
<1>3. n \in 0..Len(longer) /\ n <= MaxIpvals
  <2> DEFINE l == Len(longer)
  <2>1. l \in Nat /\ MaxIpvals \in Nat
    BY <1>1, <1>2
  <2> HIDE DEF l
  <2>2. Min({MaxIpvals, l}) \in 0..l /\ Min({MaxIpvals, l}) <= MaxIpvals
    BY <2>1, LeastOfTwo
  <2> QED
    BY <2>2 DEF l
<1>4. /\ ips_tab' = [ips_tab EXCEPT ![i] = SubSeq(longer, 1, n)]
      /\ UNCHANGED <<settingVars, records, image, missingVars>>
  BY DEF AddIps, longer
<1> HIDE DEF n
<1>5. SubSeq(longer, 1, n) \in Seq({0, -9999}) /\ Len(SubSeq(longer, 1, n)) = n
  BY <1>2, <1>3
<1>6. SubSeq(longer, 1, n) \in SeqOf({0, -9999}, MaxIpvals)
  <2> DEFINE S == {0, -9999}
             s == SubSeq(longer, 1, n)
  <2>1. s \in Seq(S) /\ Len(s) <= MaxIpvals /\ MaxIpvals \in Nat
    BY <1>1, <1>3, <1>5
  <2> HIDE DEF S, s
  <2>2. s \in SeqOf(S, MaxIpvals)
    BY <2>1, SequencesOf
  <2> QED
    BY <2>2 DEF S, s
<1> QED
  BY <1>1, <1>4, <1>6 DEF FiltersFit

LEMMA NoFiltersFit == \A i \in Ips : NoIps[i] \in SeqOf({0, -9999}, MaxIpvals)
<1> DEFINE S == {0, -9999}
           s == <<>>
<1>1. s \in Seq(S) /\ Len(s) <= MaxIpvals /\ MaxIpvals \in Nat
  BY FieldAssumption
<1> HIDE DEF S, s
<1>2. s \in SeqOf(S, MaxIpvals)
  BY <1>1, SequencesOf
<1> QED
  BY <1>2 DEF NoIps, S, s

LEMMA FiltersStay ==
  ASSUME FiltersFit, ips_tab' \in {NoIps, ips_tab}
  PROVE  FiltersFit'
BY NoFiltersFit DEF FiltersFit

LEMMA RecordsStay ==
  ASSUME RecordsGood, UNCHANGED records
  PROVE  RecordsGood'
BY DEF RecordsGood, Live

LEMMA TypesStay ==
  ASSUME SettingsTyped, UNCHANGED <<settingVars, missingVars>>
  PROVE  SettingsTyped'
BY DEF SettingsTyped, settingVars, missingVars, MissingTypeOK, CodesTyped

LEMMA ImageStays ==
  ASSUME ImageGood, UNCHANGED image \/ image' = NoImage
  PROVE  ImageGood'
BY DEF ImageGood

LEMMA SettingsKeepData ==
  ASSUME FieldInv, DataInv, FstDataLength \/ FstOpl \/ FstEnvVar \/ MissingStep
  PROVE  DataInv'
<1>1. UNCHANGED <<ips_tab, records>> /\ (UNCHANGED image \/ image' = NoImage)
  BY DEF FstDataLength, FstOpl, FstEnvVar, MissingStep
<1>2. FiltersFit' /\ RecordsGood' /\ ImageGood'
  BY <1>1, FiltersStay, RecordsStay, ImageStays DEF DataInv
<1>3. SettingsTyped'
  <2>1. CASE FstDataLength
    BY <2>1 DEF FstDataLength, DataInv, SettingsTyped, missingVars, MissingTypeOK, CodesTyped
  <2>2. CASE FstOpl
    BY <2>2 DEF FstOpl, DataInv, SettingsTyped, missingVars, MissingTypeOK, CodesTyped
  <2>3. CASE FstEnvVar
    BY <2>3 DEF FstEnvVar, DataInv, SettingsTyped, missingVars, MissingTypeOK, CodesTyped
  <2>4. CASE MissingStep
    BY <2>4, MissingStepKeepsTypes DEF DataInv
  <2> QED
    BY <2>1, <2>2, <2>3, <2>4
<1> QED
  BY <1>2, <1>3 DEF DataInv

LEMMA FiltersKeepData ==
  ASSUME FieldInv, DataInv, IpVal \/ IpAll \/ FstResetIpFlags \/ FstInf
  PROVE  DataInv'
<1>1. CASE FiltersFit' /\ UNCHANGED <<settingVars, records, image, missingVars>>
  <2>1. UNCHANGED <<settingVars, missingVars>> /\ UNCHANGED records /\ UNCHANGED image
    BY <1>1
  <2> QED
    BY <1>1, <2>1, TypesStay, RecordsStay, ImageStays DEF DataInv
<1>2. CASE IpVal
  <2>1. PICK i \in Ips : AddIps(i, <<0>>)
    BY <1>2 DEF IpVal
  <2> DEFINE values == <<0>>
  <2>2. values \in Seq({0, -9999})
    OBVIOUS
  <2>3. AddIps(i, values)
    BY <2>1
  <2> HIDE DEF values
  <2>4. FiltersFit' /\ UNCHANGED <<settingVars, records, image, missingVars>>
    BY <2>2, <2>3, FiltersStillFit DEF DataInv
  <2> QED
    BY <1>1, <2>4
<1>3. CASE IpAll
  <2>1. PICK i \in Ips, old \in {0, -9999} : AddIps(i, <<0, old>>)
    BY <1>3 DEF IpAll
  <2> DEFINE values == <<0, old>>
  <2>2. values \in Seq({0, -9999})
    OBVIOUS
  <2>3. AddIps(i, values)
    BY <2>1
  <2> HIDE DEF values
  <2>4. FiltersFit' /\ UNCHANGED <<settingVars, records, image, missingVars>>
    BY <2>2, <2>3, FiltersStillFit DEF DataInv
  <2> QED
    BY <1>1, <2>4
<1>4. CASE FstResetIpFlags \/ FstInf
  <2>1. UNCHANGED <<settingVars, records, image, missingVars>> /\ ips_tab' \in {NoIps, ips_tab}
    BY <1>4 DEF FstResetIpFlags, FstInf, IpsAfter
  <2> QED
    BY <1>1, <2>1, FiltersStay DEF DataInv
<1> QED
  BY <1>2, <1>3, <1>4

\* Reading spoils nothing but the image.
LEMMA LukKeepsData ==
  ASSUME FieldInv, DataInv, NEW u \in Units, NEW h \in DOMAIN records[u], Live(u, h), Luk(u, h),
         ips_tab' \in {NoIps, ips_tab}
  PROVE  DataInv'
<1>1. Good(records[u][h])
  BY DEF DataInv, RecordsGood
<1>2. /\ image' \in ImagesOf(records[u][h]) \/ UNCHANGED image
      /\ AfterEncoding(HasMissing(records[u][h].datyp))
      /\ length' = 4 /\ UNCHANGED <<image_mode_copy, remap_table, records, encoder, decoder>>
  BY Zenon DEF Luk
<1>3. ImageGood'
  <2>1. CASE image' \in ImagesOf(records[u][h])
    BY <1>1, <2>1, ImagesOfGood DEF ImageGood
  <2>2. CASE UNCHANGED image
    BY <2>2, ImageStays DEF DataInv
  <2> QED
    BY <1>2, <2>1, <2>2
<1>4. SettingsTyped'
  BY <1>2, EncodingKeepsTypes DEF DataInv
<1>5. RecordsGood' /\ FiltersFit'
  BY <1>2, RecordsStay, FiltersStay DEF DataInv
<1> QED
  BY <1>3, <1>4, <1>5 DEF DataInv

LEMMA ReadingKeepsData ==
  ASSUME FieldInv, DataInv, FstLuk \/ FstLir \/ FstLic
  PROVE  DataInv'
<1>1. ASSUME NEW u \in Units, ips_tab' \in {NoIps, ips_tab},
             \/ NothingRead
             \/ \E h \in DOMAIN records[u] : Live(u, h) /\ Luk(u, h)
      PROVE  DataInv'
  <2>1. CASE NothingRead
    <3>1. UNCHANGED <<settingVars, missingVars>> /\ UNCHANGED records /\ UNCHANGED image
      BY <2>1 DEF NothingRead
    <3> QED
      BY <1>1, <3>1, TypesStay, RecordsStay, ImageStays, FiltersStay DEF DataInv
  <2>2. CASE \E h \in DOMAIN records[u] : Live(u, h) /\ Luk(u, h)
    BY <1>1, <2>2, LukKeepsData
  <2> QED
    BY <1>1, <2>1, <2>2
<1>2. CASE FstLuk
  <2>1. PICK u \in Units : UNCHANGED ips_tab /\ \E h \in DOMAIN records[u] : Live(u, h) /\ Luk(u, h)
    BY <1>2 DEF FstLuk
  <2> QED
    BY <1>1, <2>1
<1>3. CASE FstLir
  <2>1. PICK u \in Units, key \in Searches :
          /\ ips_tab' \in {NoIps, ips_tab}
          /\ IF Infx(u, key) = -1 THEN NothingRead ELSE Luk(u, Infx(u, key))
    BY <1>3 DEF FstLir, IpsAfter
  <2> QED
    BY <1>1, <2>1, FoundIsLive
<1>4. CASE FstLic
  <2>1. PICK u \in Units, key \in Searches :
          /\ ips_tab' \in {NoIps, ips_tab}
          /\ \/ NothingRead
             \/ Unfiltered(u, key) # {} /\ Luk(u, Min(Unfiltered(u, key)))
    BY <1>4, Zenon DEF FstLic, IpsAfter
  <2>2. Unfiltered(u, key) # {} =>
          /\ Min(Unfiltered(u, key)) \in DOMAIN records[u]
          /\ Live(u, Min(Unfiltered(u, key)))
    BY FoundIsLive
  <2> QED
    BY <1>1, <2>1, <2>2
<1> QED
  BY <1>2, <1>3, <1>4

LEMMA ReplacedIs ==
  ASSUME FieldInv, NEW u \in Units, NEW key, NEW rewrit
  PROVE  Replaced(u, key, rewrit) \in {-1} \cup DOMAIN records[u]
BY FoundIsLive DEF Replaced

LEMMA FstEcrKeepsData ==
  ASSUME FieldInv, DataInv, FstEcr
  PROVE  DataInv'
<1>1. PICK u \in Units, w \in Writes :
        /\ w.valid /\ ips_tab' \in {NoIps, ips_tab} /\ AfterEncoding(HasMissing(w.datyp))
        /\ UNCHANGED <<image_mode_copy, remap_table, image, encoder, decoder>>
        /\ \/ UNCHANGED <<length, records>>
           \/ \E st \in StoredFor(w) : \E nw \in WordsFor(w, st) :
                /\ records' = Put(u, Replaced(u, w.key, w.rewrit), NewRecord(w, st, nw))
                /\ Len(records'[u]) <= MaxRecords
                /\ length' = 4
  BY ZenonT(120) DEF FstEcr, StoredFor, WordsFor, NewRecord, SettledFor, EncodedFor, SeenFor, FlagFor
<1>2. length' \in {4, length}
  BY <1>1
<1>3. SettingsTyped'
  BY <1>1, <1>2, EncodingKeepsTypes DEF DataInv
<1>4. FiltersFit' /\ ImageGood'
  BY <1>1, FiltersStay, ImageStays DEF DataInv
<1>5. RecordsGood'
  <2>1. CASE UNCHANGED <<length, records>>
    BY <2>1, RecordsStay DEF DataInv
  <2>2. CASE \E st \in StoredFor(w) : \E nw \in WordsFor(w, st) :
                /\ records' = Put(u, Replaced(u, w.key, w.rewrit), NewRecord(w, st, nw))
                /\ Len(records'[u]) <= MaxRecords
    <3>1. PICK st \in StoredFor(w) : \E nw \in WordsFor(w, st) :
            /\ records' = Put(u, Replaced(u, w.key, w.rewrit), NewRecord(w, st, nw))
            /\ Len(records'[u]) <= MaxRecords
      BY <2>2
    <3>2. PICK nw \in WordsFor(w, st) :
            /\ records' = Put(u, Replaced(u, w.key, w.rewrit), NewRecord(w, st, nw))
            /\ Len(records'[u]) <= MaxRecords
      BY <3>1
    <3>3. Good(NewRecord(w, st, nw))
      BY <1>1, WrittenIsGood DEF DataInv, SettingsTyped
    <3>4. Replaced(u, w.key, w.rewrit) \in {-1} \cup DOMAIN records[u]
      BY ReplacedIs
    <3> QED
      BY <3>2, <3>3, <3>4, PutKeepsGood DEF DataInv
  <2> QED
    BY <1>1, <2>1, <2>2
<1> QED
  BY <1>3, <1>4, <1>5 DEF DataInv

LEMMA FstEcrImageKeepsData ==
  ASSUME FieldInv, DataInv, FstEcrImage
  PROVE  DataInv'
<1>1. Good(image)
  BY DEF FstEcrImage, DataInv, ImageGood
<1>2. PICK u \in Units, rewrit \in BOOLEAN :
        /\ ips_tab' \in {NoIps, ips_tab} /\ length' = 4
        /\ UNCHANGED <<image_mode_copy, remap_table, image, missingVars>>
        /\ records' = Put(u, Replaced(u, image.key, rewrit), CopyOf(image))
        /\ Len(records'[u]) <= MaxRecords
  BY ZenonT(40) DEF FstEcrImage, CopyOf
<1>3. SettingsTyped'
  BY <1>2 DEF DataInv, SettingsTyped, missingVars, MissingTypeOK, CodesTyped
<1>4. FiltersFit' /\ ImageGood'
  BY <1>2, FiltersStay, ImageStays DEF DataInv
<1>5. RecordsGood'
  <2>1. Good(CopyOf(image))
    BY <1>1, CopyOfGood
  <2>2. Replaced(u, image.key, rewrit) \in {-1} \cup DOMAIN records[u]
    BY ReplacedIs
  <2> QED
    BY <1>2, <2>1, <2>2, PutKeepsGood DEF DataInv
<1> QED
  BY <1>3, <1>4, <1>5 DEF DataInv

LEMMA FstEffKeepsData ==
  ASSUME FieldInv, DataInv, FstEff
  PROVE  DataInv'
<1>1. PICK u \in Units : \E h \in DOMAIN records[u] :
        /\ records' = [records EXCEPT ![u][h] = Deleted]
        /\ UNCHANGED <<settingVars, missingVars>> /\ UNCHANGED ips_tab /\ UNCHANGED image
  BY DEF FstEff
<1>2. PICK h \in DOMAIN records[u] : records' = [records EXCEPT ![u][h] = Deleted]
  BY <1>1
<1> DEFINE t == [records[u] EXCEPT ![h] = Deleted]
<1>3. PICK S : records \in [Units -> Seq(S)]
  BY DEF FieldInv, FilesTyped
<1>4. records[u] \in Seq(S)
  BY <1>3
<1>5. /\ Len(t) = Len(records[u]) /\ DOMAIN t = DOMAIN records[u]
      /\ t[h] = Deleted /\ \A x \in DOMAIN records[u] \ {h} : t[x] = records[u][x]
  BY <1>4
<1>6. records' = [records EXCEPT ![u] = t]
  BY <1>2
<1> HIDE DEF t
<1>7. records'[u] = t /\ \A v \in Units \ {u} : records'[v] = records[v]
  BY <1>3, <1>6
<1>8. ASSUME NEW v \in Units
      PROVE  /\ Len(records'[v]) <= MaxRecords
             /\ \A x \in DOMAIN records'[v] : Live(v, x)' => Good(records'[v][x])
  <2>1. CASE v = u
    <3>1. Len(records'[u]) <= MaxRecords
      BY <1>5, <1>7 DEF DataInv, RecordsGood
    <3>2. ASSUME NEW x \in DOMAIN records'[u], Live(u, x)' PROVE Good(records'[u][x])
      <4>1. x \in DOMAIN records[u] /\ records'[u][x] = t[x]
        BY <1>5, <1>7, <3>2
      <4>2. x # h
        BY <1>5, <3>2, <4>1 DEF Live, Deleted
      <4>3. records'[u][x] = records[u][x] /\ Live(u, x)
        BY <1>5, <3>2, <4>1, <4>2 DEF Live
      <4> QED
        BY <4>1, <4>3 DEF DataInv, RecordsGood
    <3> QED
      BY <2>1, <3>1, <3>2
  <2>2. CASE v # u
    <3>1. records'[v] = records[v]
      BY <1>7, <2>2
    <3> QED
      BY <3>1 DEF DataInv, RecordsGood, Live
  <2> QED
    BY <2>1, <2>2
<1>9. SettingsTyped' /\ FiltersFit' /\ ImageGood'
  BY <1>1, TypesStay, FiltersStay, ImageStays DEF DataInv
<1> QED
  BY <1>8, <1>9 DEF DataInv, RecordsGood

\* Every step keeps what is in the files good.
LEMMA DataStep ==
  ASSUME FieldInv, DataInv, [Next]_vars
  PROVE  DataInv'
<1>1. CASE UNCHANGED vars
  <2>1. /\ UNCHANGED <<settingVars, missingVars>> /\ UNCHANGED ips_tab /\ UNCHANGED records
        /\ UNCHANGED image
    BY <1>1 DEF vars
  <2> QED
    BY <2>1, TypesStay, FiltersStay, RecordsStay, ImageStays DEF DataInv
<1>2. CASE FstEcrRefused
  <2>1. UNCHANGED vars
    BY <1>2, Zenon DEF FstEcrRefused
  <2> QED
    BY <1>1, <2>1
<1>3. CASE Next
  BY <1>2, <1>3, SettingsKeepData, FiltersKeepData, ReadingKeepsData, FstEcrKeepsData,
     FstEcrImageKeepsData, FstEffKeepsData DEF Next
<1> QED
  BY <1>1, <1>3

LEMMA DataInit == Init => DataInv
<1> SUFFICES ASSUME Init PROVE DataInv
  OBVIOUS
<1>1. SettingsTyped
  BY CodesAssumption DEF Init, MissingInit, SettingsTyped, MissingTypeOK, CodesTyped
<1>2. FiltersFit
  BY NoFiltersFit DEF Init, FiltersFit
<1>3. RecordsGood
  BY FieldAssumption DEF Init, RecordsGood, Live
<1>4. ImageGood
  BY DEF Init, ImageGood
<1> QED
  BY <1>1, <1>2, <1>3, <1>4 DEF DataInv

\* The inductive invariant of the data holds in every state: what is in the files is what
\* c_fstecr wrote or copied, of the type, the bits and the form it says.
THEOREM DataCorrect == Spec => []DataInv
BY DataInit, DataStep, FieldCorrect, PTL DEF Spec

LEMMA GoodIsOK ==
  ASSUME NEW rec, Good(rec)
  PROVE  RecordOK(rec)
BY DEF Good, FieldRecord, Data, Sized, RecordOK

\* Every record has the elements, the bits and a length it says (c_fstecr), no file more than
\* its records, no filter more than its values, and every setting is one of those there are.
THEOREM FieldsAreTyped == Spec => []TypeOK
<1>1. DataInv => TypeOK
  BY GoodIsOK DEF DataInv, SettingsTyped, FiltersFit, RecordsGood, ImageGood, TypeOK
<1> QED
  BY <1>1, DataCorrect, PTL

\* c_fstluk hands over what c_fstecr was given, whatever became of the data type on the way
\* and however often the record was copied in image mode, but for the cases that
\* FieldsComeBack names.
THEOREM WhatIsWrittenIsRead == Spec => []FieldsComeBack
<1>1. DataInv => FieldsComeBack
  BY GoodComesBack DEF DataInv, RecordsGood, FieldsComeBack
<1> QED
  BY <1>1, DataCorrect, PTL
=============================================================================
