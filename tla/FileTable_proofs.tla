--------------------------- MODULE FileTable_proofs ---------------------------
(***************************************************************************)
(* Theorems about FileTable: the unit table, the table of word-addressable *)
(* files, the table of XDF files and the handles lead to the same file,    *)
(* for every size of the tables, set of names, types, descriptors and      *)
(* records.  Those about handles suppose what FileTable says of SeqTyped   *)
(* and LowIndices.                                                         *)
(***************************************************************************)
EXTENDS FileTable, Extremes

-----------------------------------------------------------------------------
(* The first of a set of numbers.                                          *)

LEMMA FirstIs ==
  ASSUME NEW S, S \subseteq Nat
  PROVE  \/ S = {} /\ First(S) = -1
         \/ First(S) \in S /\ \A x \in S : First(S) <= x
<1>1. CASE S = {}
  BY <1>1 DEF First
<1>2. CASE S # {}
  BY <1>2, LeastIs DEF First
<1> QED
  BY <1>1, <1>2

LEMMA FirstOfOne ==
  ASSUME NEW S, S \subseteq Nat, NEW m \in S, \A x \in S : x = m
  PROVE  First(S) = m
BY FirstIs

(* Packing an index above and below a multiple: what the remainder gives back. *)

LEMMA Unpacked ==
  ASSUME NEW M \in Nat \ {0}, NEW i \in 0..(M - 1), NEW a \in Nat
  PROVE  (i + M * a) % M = i
<1> DEFINE x == i + M * a
             q == x \div M
             r == x % M
<1>1. x \in Nat
  <2>1. M * a \in Nat
    OBVIOUS
  <2> QED
    BY <2>1
<1>2. q \in Int /\ r \in 0..(M - 1)
  BY <1>1
<1>3. x = M * q + r
  BY <1>1
<1> HIDE DEF q, r
<1>4. M * (q - a) = i - r
  BY <1>1, <1>2, <1>3
<1>5. ~(q > a)
  <2> SUFFICES ASSUME q > a PROVE FALSE
    OBVIOUS
  <2>1. M * (q - a) >= M
    BY <1>2
  <2> QED
    BY <1>2, <1>4, <2>1
<1>6. ~(q < a)
  <2> SUFFICES ASSUME q < a PROVE FALSE
    OBVIOUS
  <2>1. M * (q - a) <= 0 - M
    BY <1>2
  <2> QED
    BY <1>2, <1>4, <2>1
<1>7. q = a
  BY <1>2, <1>5, <1>6
<1>8. r = i
  BY <1>2, <1>4, <1>7
<1> QED
  BY <1>8 DEF r

-----------------------------------------------------------------------------
(* What the tables hold, and looking a unit up in them.                    *)

EntrySet == [iun : {0} \cup Bottom..Top, name : NameSet, fd : {-1} \cup Fds,
             open_flag : BOOLEAN, rnd : BOOLEAN, wa : BOOLEAN,
             seq : BOOLEAN, read_only : BOOLEAN]
\* The offset of a slot no member had is that of a plain file.
SlotSet == {s \in [file_desc : {-1} \cup Fds, offset : {-2, 0, 1}, pages : NameSet,
                   member : BOOLEAN] : ~s.member => s.offset = 0}
XdfSet == [iun : {-1, 1234567} \cup Bottom..Top, header : BOOLEAN, xdf_seq : BOOLEAN]

TablesTyped ==
    /\ FGFDT \in [Entries -> EntrySet]
    /\ wafile \in [Slots -> SlotSet]
    /\ file_table \in [Indexes -> XdfSet]
    /\ STDSEQ_opened \in BOOLEAN
    /\ fds \in [Fds -> Files \cup {Closed}]
    /\ disk \in [Files -> Contents]

HandlesTyped ==
    \A h \in handles : /\ DOMAIN h = {"bits", "iun"}
                       /\ h.bits \in Nat /\ h.iun \in Bottom..Top

\* A unit has one entry.
EntriesAreUnique ==
    \A e, x \in Entries : FGFDT[e].iun # 0 /\ FGFDT[x].iun = FGFDT[e].iun => x = e

\* The slot s, of the slots w, was taken with the descriptor fd for the file or the member
\* of this name.
Serves(w, s, fd, name) ==
    /\ w[s].file_desc = fd /\ w[s].pages = name
    /\ name.sub # NoSub => w[s].offset = filepos(name)

\* A descriptor an entry keeps is open on the file of the entry, has a slot taken for
\* the entry and belongs to no other one, whether the entry is marked open or not: a
\* member that is not found leaves its descriptor in an entry that is not.
EntriesLead ==
    \A e \in Entries : FGFDT[e].fd # -1 =>
        /\ FGFDT[e].iun # 0
        /\ FGFDT[e].name.file \in Files /\ fds[FGFDT[e].fd] = FGFDT[e].name.file
        /\ \E s \in Slots : Serves(wafile, s, FGFDT[e].fd, FGFDT[e].name)
        /\ \A x \in Entries : FGFDT[x].fd = FGFDT[e].fd => x = e

\* A unit has one index.
IndexesAreUnique ==
    \A i, j \in Indexes :
        file_table[i].iun # -1 /\ file_table[j].iun = file_table[i].iun => j = i

\* The unit of an open XDF file is connected and holds a descriptor.
FilesAreOpen ==
    \A i \in Indexes : file_table[i].header =>
        /\ file_table[i].iun \in Bottom..Top
        /\ \E e \in Entries : /\ FGFDT[e].iun = file_table[i].iun
                              /\ FGFDT[e].open_flag /\ FGFDT[e].fd # -1

TablesInv ==
    TablesTyped /\ EntriesAreUnique /\ EntriesLead /\ IndexesAreUnique /\ FilesAreOpen

LEMMA UnitsPositive == Bottom..Top \subseteq Nat \ {0} /\ 0 \notin Bottom..Top
BY TableAssumption

LEMMA TablesAreNat ==
  /\ Entries \subseteq Nat /\ Slots \subseteq Nat /\ Indexes \subseteq Nat
  /\ Fds \subseteq Nat \ {0}
  /\ \A x \in Nat \cup Fds \cup Entries \cup Slots \cup Indexes : ~(x < 0) /\ x # -1
BY TableAssumption DEF Entries, Slots, Indexes

LEMMA EntryFound ==
  ASSUME NEW u
  PROVE  \/ /\ find_file_entry(u) = -1
            /\ \A e \in Entries : FGFDT[e].iun # u
         \/ find_file_entry(u) \in Entries /\ FGFDT[find_file_entry(u)].iun = u
<1> DEFINE S == {e \in Entries : FGFDT[e].iun = u}
<1>1. S \subseteq Nat
  BY TablesAreNat
<1>2. find_file_entry(u) = First(S)
  BY DEF find_file_entry
<1>3. (S = {} /\ First(S) = -1) \/ First(S) \in S
  BY <1>1, FirstIs
<1> QED
  BY <1>2, <1>3

LEMMA EntryIs ==
  ASSUME EntriesAreUnique, NEW e \in Entries, FGFDT[e].iun # 0
  PROVE  find_file_entry(FGFDT[e].iun) = e
<1>1. find_file_entry(FGFDT[e].iun) \in Entries
  BY EntryFound
<1> QED
  BY <1>1, EntryFound DEF EntriesAreUnique

LEMMA IndexFound ==
  ASSUME NEW u
  PROVE  \/ /\ file_index(u) = -1
            /\ \A i \in Indexes : file_table[i].iun # u
         \/ file_index(u) \in Indexes /\ file_table[file_index(u)].iun = u
<1> DEFINE S == {i \in Indexes : file_table[i].iun = u}
<1>1. S \subseteq Nat
  BY TablesAreNat
<1>2. file_index(u) = First(S)
  BY DEF file_index
<1>3. (S = {} /\ First(S) = -1) \/ First(S) \in S
  BY <1>1, FirstIs
<1> QED
  BY <1>2, <1>3

LEMMA IndexIs ==
  ASSUME IndexesAreUnique, NEW i \in Indexes, file_table[i].iun # -1
  PROVE  file_index(file_table[i].iun) = i
<1>1. file_index(file_table[i].iun) \in Indexes
  BY IndexFound
<1> QED
  BY <1>1, IndexFound DEF IndexesAreUnique

LEMMA FreeIndexFound ==
  \/ get_free_index = -1
  \/ /\ get_free_index \in Indexes /\ file_table[get_free_index].iun = -1
     /\ STDSEQ_opened => get_free_index < SeqFiles
<1> DEFINE S == {i \in Indexes : file_table[i].iun = -1 /\ (STDSEQ_opened => i < SeqFiles)}
<1>1. S \subseteq Nat
  BY TablesAreNat
<1>2. get_free_index = First(S)
  BY DEF get_free_index
<1>3. (S = {} /\ First(S) = -1) \/ First(S) \in S
  BY <1>1, FirstIs
<1> QED
  BY <1>2, <1>3

LEMMA SlotFound ==
  ASSUME NEW d, NEW w
  PROVE  \/ SlotOf(d, w) = -1 /\ \A x \in Slots : w[x].file_desc # d
         \/ SlotOf(d, w) \in Slots /\ w[SlotOf(d, w)].file_desc = d
<1> DEFINE S == {x \in Slots : w[x].file_desc = d}
<1>1. S \subseteq Nat
  BY TablesAreNat
<1>2. (S = {} /\ First(S) = -1) \/ First(S) \in S
  BY <1>1, FirstIs
<1>3. SlotOf(d, w) = First(S)
  BY DEF SlotOf
<1> QED
  BY <1>2, <1>3

LEMMA DescriptorFound ==
  LET d == First({x \in Fds : fds[x] = Closed})
  IN  d = -1 \/ (d \in Fds /\ fds[d] = Closed)
<1> DEFINE S == {x \in Fds : fds[x] = Closed}
<1>1. S \subseteq Nat
  BY TablesAreNat
<1>2. (S = {} /\ First(S) = -1) \/ First(S) \in S
  BY <1>1, FirstIs
<1> QED
  BY <1>2

LEMMA UnitGiven ==
  ASSUME NEW asked \in Units \cup {0}, NEW type, Chosen(asked, type) > 0
  PROVE  Chosen(asked, type) \in Bottom..Top
<1> DEFINE start == IF type \cap {"FTN", "D77"} # {} THEN FtnTop ELSE Top
           free == {u \in Bottom..start : \A e \in Entries : FGFDT[e].iun # u}
<1>1. CASE asked # 0
  BY <1>1, TableAssumption DEF Chosen
<1>2. CASE asked = 0 /\ free = {}
  <2>1. Chosen(asked, type) = -1
    BY <1>2 DEF Chosen, c_qqqfscr
  <2> QED
    BY <2>1
<1>3. CASE asked = 0 /\ free # {}
  <2>1. Chosen(asked, type) = Max(free)
    BY <1>3 DEF Chosen, c_qqqfscr
  <2>2. free \subseteq 0..Top /\ free \subseteq Bottom..Top /\ Top \in Nat
    BY TableAssumption
  <2> HIDE DEF free
  <2>3. Max(free) \in free
    BY <1>3, <2>2, GreatestIs
  <2> QED
    BY <2>1, <2>2, <2>3
<1> QED
  BY <1>1, <1>2, <1>3

-----------------------------------------------------------------------------
(* A step works on the entry and on the index of one unit.                 *)

\* What the descriptors f and the slots w owe to an entry with a descriptor fd and
\* this name, the entry e of the table.
FdLeads(fd, name, e, w, f) ==
    fd # -1 => /\ name.file \in Files /\ f[fd] = name.file
               /\ \E s \in Slots : Serves(w, s, fd, name)
               /\ \A x \in Entries \ {e} : FGFDT[x].fd # fd

\* The descriptors and the slots of the other entries are what they were.
Keeps(e, w, f) ==
    /\ w \in [Slots -> SlotSet] /\ f \in [Fds -> Files \cup {Closed}]
    /\ \A x \in Entries \ {e} : FGFDT[x].fd # -1 =>
          /\ f[FGFDT[x].fd] = fds[FGFDT[x].fd]
          /\ \A s \in Slots : FGFDT[x].fd \in {wafile[s].file_desc, w[s].file_desc} =>
                w[s] = wafile[s]

\* The entry e, free or that of the unit u, becomes n.
EntryStep(e, n, u) ==
    /\ FGFDT' = [FGFDT EXCEPT ![e] = n]
    /\ FGFDT[e].iun \in {0, u} /\ n.iun \in {0, u} /\ (n.fd # -1 => n.iun # 0)
    /\ \A x \in Entries \ {e} : FGFDT[x].iun # u
    /\ FdLeads(n.fd, n.name, e, wafile', fds')
    /\ Keeps(e, wafile', fds')

\* The index i, free or that of the unit u, becomes z.
IndexStep(i, z, u) ==
    /\ file_table' = [file_table EXCEPT ![i] = z]
    /\ file_table[i].iun \in {-1, u} /\ z.iun \in {-1, u} /\ (z.header => z.iun # -1)
    /\ \A j \in Indexes \ {i} : file_table[j].iun # u

\* The entry of the unit u leads to a file, after the step.
Connected(u) ==
    \E e \in Entries : FGFDT[e].iun = u /\ FGFDT[e].open_flag /\ FGFDT[e].fd # -1

UnitStep(u) ==
    /\ \/ \E e \in Entries, n \in EntrySet : EntryStep(e, n, u)
       \/ UNCHANGED <<FGFDT, wafile, fds>>
    /\ \/ \E i \in Indexes, z \in XdfSet : IndexStep(i, z, u)
       \/ UNCHANGED file_table
    /\ (\E i \in Indexes : file_table'[i].header /\ file_table'[i].iun = u) => Connected(u)'
    /\ STDSEQ_opened' \in BOOLEAN /\ disk' \in [Files -> Contents]

LEMMA UnitStepEntries ==
  ASSUME TablesInv, NEW u \in Bottom..Top, UnitStep(u)
  PROVE  /\ FGFDT' \in [Entries -> EntrySet] /\ wafile' \in [Slots -> SlotSet]
         /\ fds' \in [Fds -> Files \cup {Closed}]
         /\ EntriesAreUnique' /\ EntriesLead'
<1>0. u # 0
  BY UnitsPositive
<1>1. CASE UNCHANGED <<FGFDT, wafile, fds>>
  BY <1>1 DEF TablesInv, TablesTyped, EntriesAreUnique, EntriesLead
<1>2. CASE \E e \in Entries, n \in EntrySet : EntryStep(e, n, u)
  <2>1. PICK e \in Entries, n \in EntrySet : EntryStep(e, n, u)
    BY <1>2
  <2>2. FGFDT \in [Entries -> EntrySet] /\ FGFDT' = [FGFDT EXCEPT ![e] = n]
    BY <2>1 DEF TablesInv, TablesTyped, EntryStep
  <2>3. FGFDT' \in [Entries -> EntrySet] /\ FGFDT'[e] = n
        /\ \A x \in Entries \ {e} : FGFDT'[x] = FGFDT[x]
    BY <2>2
  <2>4. wafile' \in [Slots -> SlotSet] /\ fds' \in [Fds -> Files \cup {Closed}]
    BY <2>1 DEF EntryStep, Keeps
  <2>5. EntriesAreUnique'
    BY <1>0, <2>1, <2>3 DEF EntryStep, TablesInv, EntriesAreUnique
  <2>6. ASSUME NEW x \in Entries, FGFDT'[x].fd # -1
        PROVE  /\ FGFDT'[x].iun # 0 /\ FGFDT'[x].name.file \in Files
               /\ fds'[FGFDT'[x].fd] = FGFDT'[x].name.file
               /\ \E s \in Slots : Serves(wafile', s, FGFDT'[x].fd, FGFDT'[x].name)
               /\ \A y \in Entries : FGFDT'[y].fd = FGFDT'[x].fd => y = x
    <3>1. CASE x = e
      BY <2>1, <2>3, <2>6, <3>1 DEF EntryStep, FdLeads
    <3>2. CASE x # e
      <4>1. FGFDT'[x] = FGFDT[x] /\ FGFDT[x].fd # -1
        BY <2>3, <2>6, <3>2
      <4>2. PICK s \in Slots : Serves(wafile, s, FGFDT[x].fd, FGFDT[x].name)
        BY <4>1 DEF TablesInv, EntriesLead
      <4>3. wafile'[s] = wafile[s] /\ fds'[FGFDT[x].fd] = fds[FGFDT[x].fd]
        BY <2>1, <3>2, <4>1, <4>2 DEF EntryStep, Keeps, Serves
      <4>4. Serves(wafile', s, FGFDT'[x].fd, FGFDT'[x].name)
        BY <4>1, <4>2, <4>3 DEF Serves
      <4> QED
        BY <2>1, <2>3, <3>2, <4>1, <4>3, <4>4
           DEF EntryStep, FdLeads, TablesInv, EntriesLead
    <3> QED
      BY <3>1, <3>2
  <2>7. EntriesLead'
    BY <2>6 DEF EntriesLead
  <2> QED
    BY <2>3, <2>4, <2>5, <2>7
<1> QED
  BY <1>1, <1>2 DEF UnitStep

LEMMA OthersStayConnected ==
  ASSUME TablesInv, NEW u \in Bottom..Top, UnitStep(u),
         NEW v \in Bottom..Top, v # u, Connected(v)
  PROVE  Connected(v)'
<1>0. v # 0
  BY UnitsPositive
<1>1. PICK x \in Entries : FGFDT[x].iun = v /\ FGFDT[x].open_flag /\ FGFDT[x].fd # -1
  BY DEF Connected
<1>2. FGFDT'[x] = FGFDT[x]
  BY <1>0, <1>1 DEF UnitStep, EntryStep, TablesInv, TablesTyped
<1> QED
  BY <1>1, <1>2 DEF Connected

LEMMA UnitStepIndexes ==
  ASSUME TablesInv, NEW u \in Bottom..Top, UnitStep(u)
  PROVE  file_table' \in [Indexes -> XdfSet] /\ IndexesAreUnique' /\ FilesAreOpen'
<1>0. u # -1 /\ file_table \in [Indexes -> XdfSet]
  BY UnitsPositive DEF TablesInv, TablesTyped
<1>1. /\ file_table' \in [Indexes -> XdfSet] /\ IndexesAreUnique'
      /\ \A i \in Indexes : file_table'[i].header =>
            file_table'[i].iun = u \/ file_table'[i] = file_table[i]
  <2>1. CASE UNCHANGED file_table
    BY <1>0, <2>1 DEF TablesInv, IndexesAreUnique
  <2>2. CASE \E i \in Indexes, z \in XdfSet : IndexStep(i, z, u)
    <3>1. PICK i \in Indexes, z \in XdfSet : IndexStep(i, z, u)
      BY <2>2
    <3>2. file_table' \in [Indexes -> XdfSet] /\ file_table'[i] = z
          /\ \A j \in Indexes \ {i} : file_table'[j] = file_table[j]
      BY <1>0, <3>1 DEF IndexStep
    <3>3. IndexesAreUnique'
      BY <1>0, <3>1, <3>2 DEF IndexStep, TablesInv, IndexesAreUnique
    <3> QED
      BY <3>1, <3>2, <3>3 DEF IndexStep
  <2> QED
    BY <2>1, <2>2 DEF UnitStep
<1>2. ASSUME NEW i \in Indexes, file_table'[i].header
      PROVE  \E v \in Bottom..Top : file_table'[i].iun = v /\ Connected(v)'
  <2>1. CASE file_table'[i].iun = u
    BY <1>2, <2>1 DEF UnitStep
  <2>2. CASE file_table'[i].iun # u
    <3>1. file_table'[i] = file_table[i]
      BY <1>1, <1>2, <2>2
    <3>2. file_table[i].iun \in Bottom..Top /\ Connected(file_table[i].iun)
      BY <1>2, <3>1 DEF TablesInv, FilesAreOpen, Connected
    <3>3. PICK v \in Bottom..Top : v = file_table[i].iun
      BY <3>2
    <3>4. Connected(v)'
      BY <2>2, <3>1, <3>2, <3>3, OthersStayConnected
    <3> QED
      BY <3>1, <3>3, <3>4
  <2> QED
    BY <2>1, <2>2
<1>3. FilesAreOpen'
  BY <1>2 DEF FilesAreOpen, Connected
<1> QED
  BY <1>1, <1>3

\* What is reached with a descriptor depends on it and on the slots that have it.
LEMMA ReachedAlike ==
  ASSUME NEW en, NEW w, NEW f, NEW v, NEW g,
         en.fd \in Fds =>
            /\ g[en.fd] = f[en.fd]
            /\ \A s \in Slots : en.fd \in {w[s].file_desc, v[s].file_desc} => v[s] = w[s]
  PROVE  ReachedBy(en, v, g) = ReachedBy(en, w, f)
<1> DEFINE S(x) == {s \in Slots : x[s].file_desc = en.fd}
<1>1. CASE en.fd \notin Fds
  BY <1>1 DEF ReachedBy
<1>2. CASE en.fd \in Fds
  <2>1. S(v) = S(w)
    BY <1>2
  <2>2. SlotOf(en.fd, v) = First(S(w)) /\ SlotOf(en.fd, w) = First(S(w))
    BY <2>1 DEF SlotOf
  <2>3. S(w) \subseteq Nat
    BY TablesAreNat
  <2>4. First(S(w)) = -1 \/ (First(S(w)) \in S(w) /\ ~(First(S(w)) < 0))
    BY <2>3, FirstIs
  <2> DEFINE i == First(S(w))
  <2>5. i < 0 \/ (g[en.fd] = f[en.fd] /\ v[i] = w[i])
    BY <1>2, <2>4
  <2> HIDE DEF S, i
  <2> QED
    BY <1>2, <2>2, <2>5 DEF ReachedBy, i
<1> QED
  BY <1>1, <1>2

LEMMA OthersStayPut ==
  ASSUME TablesInv, NEW u \in Bottom..Top, UnitStep(u), NEW v \in Bottom..Top, v # u
  PROVE  Reaches(v)' = Reaches(v) /\ file_index(v)' = file_index(v)
<1>0. v # 0 /\ v # -1
  BY UnitsPositive
<1>1. file_index(v)' = file_index(v)
  <2>1. \A i \in Indexes : file_table'[i].iun = v <=> file_table[i].iun = v
    BY <1>0 DEF UnitStep, IndexStep, TablesInv, TablesTyped
  <2>2. {i \in Indexes : file_table'[i].iun = v} = {i \in Indexes : file_table[i].iun = v}
    BY <2>1
  <2> QED
    BY <2>2 DEF file_index
<1>2. \A e \in Entries : /\ FGFDT'[e].iun = v <=> FGFDT[e].iun = v
                         /\ FGFDT[e].iun = v => FGFDT'[e] = FGFDT[e]
  BY <1>0 DEF UnitStep, EntryStep, TablesInv, TablesTyped
<1>3. find_file_entry(v)' = find_file_entry(v)
  <2>1. {e \in Entries : FGFDT'[e].iun = v} = {e \in Entries : FGFDT[e].iun = v}
    BY <1>2
  <2> QED
    BY <2>1 DEF find_file_entry
<1>4. CASE find_file_entry(v) = -1
  BY <1>1, <1>3, <1>4 DEF Reaches
<1>5. CASE find_file_entry(v) \in Entries /\ FGFDT[find_file_entry(v)].iun = v
  <2>1. PICK e \in Entries : e = find_file_entry(v)
    BY <1>5
  <2>2. ~(e < 0) /\ FGFDT'[e] = FGFDT[e]
    BY <1>2, <1>5, <2>1, TablesAreNat
  <2>3. /\ Reaches(v) = ReachedBy(FGFDT[e], wafile, fds)
        /\ Reaches(v)' = ReachedBy(FGFDT[e], wafile', fds')
    BY <1>3, <2>1, <2>2 DEF Reaches
  <2>4. FGFDT[e].fd \in Fds =>
            /\ fds'[FGFDT[e].fd] = fds[FGFDT[e].fd]
            /\ \A s \in Slots : FGFDT[e].fd \in {wafile[s].file_desc, wafile'[s].file_desc} =>
                  wafile'[s] = wafile[s]
    <3>1. CASE UNCHANGED <<FGFDT, wafile, fds>>
      BY <3>1
    <3>2. CASE \E x \in Entries, n \in EntrySet : EntryStep(x, n, u)
      <4>1. PICK x \in Entries, n \in EntrySet : EntryStep(x, n, u)
        BY <3>2
      <4>2. x # e
        BY <1>0, <1>5, <2>1, <4>1 DEF EntryStep
      <4> QED
        BY <2>1, <4>1, <4>2, TablesAreNat DEF EntryStep, Keeps
    <3> QED
      BY <3>1, <3>2 DEF UnitStep
  <2> QED
    BY <1>1, <2>3, <2>4, ReachedAlike
<1> QED
  BY <1>1, <1>4, <1>5, EntryFound

-----------------------------------------------------------------------------
(* qqcopen and qqcclos.                                                    *)

\* What qqcopen leaves of the entry en, the entry e of the table.
Opens(e, en, o) ==
    /\ o.entry \in EntrySet /\ o.disk \in [Files -> Contents]
    /\ o.entry.iun = en.iun /\ o.entry.name = en.name
    /\ o.ier = -1 \/ (o.ier \in Fds /\ o.entry.fd = o.ier /\ o.entry.open_flag)
    /\ FdLeads(o.entry.fd, en.name, e, o.wafile, o.fds)
    /\ Keeps(e, o.wafile, o.fds)

LEMMA OpensAFile ==
  ASSUME TablesInv, NEW e \in Entries, NEW en \in EntrySet, en.name \in Names
  PROVE  Opens(e, en, qqcopen(en))
<1> DEFINE ind == First({s \in Slots : wafile[s].file_desc = -1})
           fd == First({d \in Fds : fds[d] = Closed})
           file == en.name.file
           create == en.name.sub = NoSub /\ ~existe(file)
           lost == [ier |-> -1, entry |-> [en EXCEPT !.fd = -1], wafile |-> wafile,
                    fds |-> fds, disk |-> disk]
           open == [en EXCEPT !.fd = fd, !.open_flag = TRUE, !.wa = TRUE, !.rnd = TRUE,
                              !.read_only = @ /\ ~create]
           slot == [file_desc |-> fd, pages |-> en.name,
                    member |-> wafile[ind].member \/ en.name.sub # NoSub,
                    offset |-> IF en.name.sub = NoSub THEN wafile[ind].offset
                               ELSE filepos(en.name)]
           slots == [wafile EXCEPT ![ind] =
                        [file_desc |-> fd, pages |-> en.name,
                         member |-> @.member \/ en.name.sub # NoSub,
                         offset |-> IF en.name.sub = NoSub THEN @.offset
                                    ELSE filepos(en.name)]]
           taken == [fds EXCEPT ![fd] = file]
           made == IF create THEN [disk EXCEPT ![file] = "empty"] ELSE disk
           opened == [ier |-> fd, entry |-> open, wafile |-> slots, fds |-> taken,
                      disk |-> made]
           missing == [opened EXCEPT !.ier = -1, !.entry = [en EXCEPT !.fd = fd]]
<1>0. /\ file \in Files /\ -1 \notin Fds /\ Closed \notin Files
      /\ wafile \in [Slots -> SlotSet] /\ fds \in [Fds -> Files \cup {Closed}]
      /\ disk \in [Files -> Contents]
  BY TableAssumption DEF TablesInv, TablesTyped
<1>1. qqcopen(en) = IF ind < 0 \/ fd < 0 \/ (en.name.sub # NoSub /\ ~existe(file)) THEN lost
                    ELSE IF en.name.sub # NoSub /\ filepos(en.name) <= 0 THEN missing
                    ELSE opened
  BY DEF qqcopen
<1>2. Opens(e, en, lost)
  <2>1. Keeps(e, wafile, fds)
    BY <1>0 DEF Keeps, TablesInv, EntriesLead
  <2>2. [en EXCEPT !.fd = -1] \in EntrySet
    BY DEF EntrySet
  <2> QED
    BY <1>0, <2>1, <2>2 DEF Opens, FdLeads, EntrySet
<1>3. ASSUME ~(ind < 0), ~(fd < 0)
      PROVE  Opens(e, en, opened) /\ Opens(e, en, missing)
  <2>1. /\ ind \in Slots /\ wafile[ind].file_desc = -1
        /\ fd \in Fds /\ fds[fd] = Closed /\ fd # -1
    <3>1. ind \in Slots /\ wafile[ind].file_desc = -1
      <4>1. ind = SlotOf(-1, wafile)
        BY DEF SlotOf
      <4> HIDE DEF ind
      <4> QED
        BY <1>3, <4>1, SlotFound
    <3>2. fd \in Fds /\ fds[fd] = Closed
      BY <1>3, DescriptorFound
    <3> QED
      BY <3>1, <3>2, <1>0
  <2> HIDE DEF ind, fd
  <2>2. open \in EntrySet /\ [en EXCEPT !.fd = fd] \in EntrySet
    BY <2>1 DEF EntrySet
  <2>3. /\ slots \in [Slots -> SlotSet] /\ Serves(slots, ind, fd, en.name)
        /\ slots[ind].file_desc = fd
        /\ \A s \in Slots \ {ind} : slots[s] = wafile[s]
    <3>1. wafile[ind] \in SlotSet /\ en.name \in NameSet /\ filepos(en.name) \in {-2, 0, 1}
      BY <1>0, <2>1 DEF NameSet, filepos
    <3>2. slot \in SlotSet /\ slot.file_desc = fd /\ slot.pages = en.name
          /\ (en.name.sub # NoSub => slot.offset = filepos(en.name))
      BY <2>1, <3>1 DEF SlotSet
    <3>3. slots = [wafile EXCEPT ![ind] = slot]
      OBVIOUS
    <3> HIDE DEF slot, slots
    <3> QED
      BY <1>0, <2>1, <3>2, <3>3 DEF Serves
  <2>4. /\ taken \in [Fds -> Files \cup {Closed}] /\ taken[fd] = file
        /\ \A d \in Fds \ {fd} : taken[d] = fds[d]
    BY <1>0, <2>1
  <2>5. made \in [Files -> Contents]
    BY <1>0 DEF Contents
  <2>6. \A x \in Entries : FGFDT[x].fd # fd
    BY <1>0, <2>1 DEF TablesInv, EntriesLead
  <2> HIDE DEF slots, taken, made
  <2>7. FdLeads(fd, en.name, e, slots, taken)
    BY <1>0, <2>1, <2>3, <2>4, <2>6 DEF FdLeads
  <2>8. Keeps(e, slots, taken)
    <3>1. ASSUME NEW x \in Entries \ {e}, FGFDT[x].fd # -1
          PROVE  /\ taken[FGFDT[x].fd] = fds[FGFDT[x].fd]
                 /\ \A s \in Slots :
                       FGFDT[x].fd \in {wafile[s].file_desc, slots[s].file_desc} =>
                          slots[s] = wafile[s]
      <4>1. FGFDT[x].fd \in Fds \ {fd}
        BY <2>6, <3>1 DEF TablesInv, TablesTyped, EntrySet
      <4>2. FGFDT[x].fd \notin {wafile[ind].file_desc, slots[ind].file_desc}
        BY <2>1, <2>3, <3>1, <4>1
      <4> QED
        BY <2>3, <2>4, <4>1, <4>2
    <3> QED
      BY <2>3, <2>4, <3>1 DEF Keeps
  <2>9. Opens(e, en, opened)
    BY <2>1, <2>2, <2>5, <2>7, <2>8 DEF Opens, EntrySet
  <2>10. Opens(e, en, missing)
    BY <2>1, <2>2, <2>5, <2>7, <2>8 DEF Opens, EntrySet
  <2> QED
    BY <2>9, <2>10
<1> HIDE DEF ind, fd, lost, opened, missing
<1> QED
  BY <1>1, <1>2, <1>3

LEMMA FreedIs ==
  ASSUME NEW w \in [Slots -> SlotSet], NEW s \in Slots
  PROVE  /\ Freed(w, s) \in [Slots -> SlotSet] /\ Freed(w, s)[s].file_desc = -1
         /\ \A x \in Slots \ {s} : Freed(w, s)[x] = w[x]
<1> DEFINE slot == [w[s] EXCEPT !.file_desc = -1, !.pages = NoName]
<1>1. w[s] \in SlotSet
  OBVIOUS
<1>2. slot \in SlotSet /\ slot.file_desc = -1
  BY <1>1 DEF SlotSet, NameSet
<1>3. Freed(w, s) = [w EXCEPT ![s] = slot]
  BY <1>1 DEF Freed, SlotSet
<1> HIDE DEF slot
<1> QED
  BY <1>2, <1>3

LEMMA ClosesItsSlot ==
  ASSUME TablesInv, NEW e \in Entries, QqcClos(e)
  PROVE  Keeps(e, wafile', fds')
<1> DEFINE s == SlotOf(FGFDT[e].fd, wafile)
<1>0. -1 \notin Fds /\ wafile \in [Slots -> SlotSet] /\ fds \in [Fds -> Files \cup {Closed}]
  BY TableAssumption DEF TablesInv, TablesTyped
<1>1. /\ s >= 0 /\ wafile' = Freed(wafile, s)
      /\ fds' = [d \in Fds |-> IF d = FGFDT[e].fd THEN Closed ELSE fds[d]]
  BY DEF QqcClos
<1>2. s \in Slots /\ wafile[s].file_desc = FGFDT[e].fd
  BY <1>1, SlotFound
<1> HIDE DEF s
<1>3. /\ wafile' \in [Slots -> SlotSet] /\ wafile'[s].file_desc = -1
      /\ \A x \in Slots \ {s} : wafile'[x] = wafile[x]
  BY <1>0, <1>1, <1>2, FreedIs
<1>4. fds' \in [Fds -> Files \cup {Closed}]
  BY <1>0, <1>1
<1>5. ASSUME NEW x \in Entries \ {e}, FGFDT[x].fd # -1
      PROVE  /\ fds'[FGFDT[x].fd] = fds[FGFDT[x].fd]
             /\ \A y \in Slots : FGFDT[x].fd \in {wafile[y].file_desc, wafile'[y].file_desc} =>
                   wafile'[y] = wafile[y]
  <2>1. FGFDT[x].fd \in Fds /\ FGFDT[x].fd # FGFDT[e].fd
    BY <1>5 DEF TablesInv, TablesTyped, EntrySet, EntriesLead
  <2>2. FGFDT[x].fd \notin {wafile[s].file_desc, wafile'[s].file_desc}
    BY <1>2, <1>3, <1>5, <2>1
  <2> QED
    BY <1>1, <1>3, <2>1, <2>2
<1> QED
  BY <1>3, <1>4, <1>5 DEF Keeps

-----------------------------------------------------------------------------
(* One lemma per action: each is a step of one unit.                       *)

LEMMA FnomStep ==
  ASSUME TablesInv, NEW asked \in Units \cup {0}, NEW name \in Names, NEW type,
         Fnom(asked, name, type)
  PROVE  \E u \in Bottom..Top : UnitStep(u)
<1> DEFINE u == Chosen(asked, type)
           e == First({x \in Entries : FGFDT[x].iun = 0})
           en == FnomEntry(u, name, type)
           o == qqcopen(en)
<1>1. /\ u > 0 /\ find_file_entry(u) < 0 /\ e >= 0
      /\ UNCHANGED <<file_table, STDSEQ_opened, handles>>
  BY DEF Fnom
<1>2. u \in Bottom..Top
  BY <1>1, UnitGiven
<1>3. e \in Entries /\ FGFDT[e].iun = 0
  <2>1. e = find_file_entry(0)
    BY DEF find_file_entry
  <2> QED
    BY <1>1, <2>1, EntryFound
<1>4. \A x \in Entries : FGFDT[x].iun # u
  BY <1>1, EntryFound, TablesAreNat
<1>5. /\ en \in EntrySet /\ en.iun = u /\ en.fd = -1 /\ en.name = name
      /\ [en EXCEPT !.name = NoName] \in EntrySet
      /\ [en EXCEPT !.open_flag = TRUE] \in EntrySet
  <2> DEFINE seq == "SEQ" \in type
             rnd == \/ "D77" \in type
                    \/ /\ type \cap {"STREAM", "STD", "BURP", "RND", "WA"} # {}
                       /\ type \cap {"FTN", "UNF"} = {}
             ro == ("R/O" \in type /\ "R/W" \notin type) \/ name.sub # NoSub
             n == [iun |-> u, name |-> name, fd |-> -1, open_flag |-> FALSE, rnd |-> rnd,
                   wa |-> FALSE, seq |-> seq, read_only |-> ro]
  <2>1. seq \in BOOLEAN /\ rnd \in BOOLEAN /\ ro \in BOOLEAN
    OBVIOUS
  <2>2. en = [EmptyEntry EXCEPT !.iun = u, !.name = name, !.seq = seq, !.rnd = rnd,
                                !.read_only = ro]
    BY Zenon DEF FnomEntry
  <2> HIDE DEF seq, rnd, ro
  <2>5. en = n
    BY <2>1, <2>2 DEF EmptyEntry
  <2>3. n \in EntrySet
    BY <1>2, <2>1 DEF EntrySet, NameSet
  <2>4. /\ [n EXCEPT !.name = NoName] \in EntrySet
        /\ [n EXCEPT !.open_flag = TRUE] \in EntrySet
    BY <2>3 DEF EntrySet, NameSet
  <2> HIDE DEF u, e, en
  <2> QED
    BY <2>5, <2>3, <2>4
<1> HIDE DEF u, e, en
<1>6. Opens(e, en, o)
  BY <1>3, <1>5, OpensAFile
<1> HIDE DEF o
<1>7. FGFDT \in [Entries -> EntrySet] /\ FGFDT[e].fd = -1
  BY <1>3 DEF TablesInv, TablesTyped, EntriesLead
<1>8. disk' \in [Files -> Contents]
      /\ (\/ \E n \in EntrySet : EntryStep(e, n, u)
          \/ UNCHANGED <<FGFDT, wafile, fds>>)
  <2>1. CASE FGFDT' = FGFDT /\ UNCHANGED <<wafile, fds, disk>>
    BY <2>1 DEF TablesInv, TablesTyped
  <2>2. Keeps(e, wafile, fds) /\ disk \in [Files -> Contents]
    BY DEF Keeps, TablesInv, TablesTyped, EntriesLead
  <2>3. ASSUME NEW n \in EntrySet, n.iun = u, n.fd = -1, FGFDT' = [FGFDT EXCEPT ![e] = n],
               UNCHANGED <<wafile, fds, disk>>
        PROVE  EntryStep(e, n, u) /\ disk' \in [Files -> Contents]
    BY <1>3, <1>4, <1>5, <2>2, <2>3 DEF EntryStep, FdLeads
  <2>4. CASE FGFDT' = [FGFDT EXCEPT ![e] = [en EXCEPT !.name = NoName]]
             /\ UNCHANGED <<wafile, fds, disk>>
    <3>1. [en EXCEPT !.name = NoName].iun = u /\ [en EXCEPT !.name = NoName].fd = -1
      BY <1>5 DEF EntrySet
    <3> QED
      BY <1>5, <2>3, <2>4, <3>1
  <2>5. CASE FGFDT' = [FGFDT EXCEPT ![e] = [en EXCEPT !.open_flag = TRUE]]
             /\ UNCHANGED <<wafile, fds, disk>>
    <3>1. [en EXCEPT !.open_flag = TRUE].iun = u /\ [en EXCEPT !.open_flag = TRUE].fd = -1
      BY <1>5 DEF EntrySet
    <3> QED
      BY <1>5, <2>3, <2>5, <3>1
  <2>6. CASE FGFDT' = FGFDT /\ wafile' = o.wafile /\ fds' = o.fds /\ disk' = o.disk
    <3>1. FGFDT' = [FGFDT EXCEPT ![e] = FGFDT[e]] /\ FGFDT[e] \in EntrySet
      BY <1>3, <1>7, <2>6
    <3>2. Keeps(e, wafile', fds') /\ disk' \in [Files -> Contents]
      BY <1>6, <2>6 DEF Opens
    <3> QED
      BY <1>3, <1>4, <1>7, <3>1, <3>2 DEF EntryStep, FdLeads
  <2>7. CASE /\ FGFDT' = [FGFDT EXCEPT ![e] = [o.entry EXCEPT !.wa = FALSE]]
             /\ wafile' = o.wafile /\ fds' = o.fds /\ disk' = o.disk
    <3> DEFINE n == [o.entry EXCEPT !.wa = FALSE]
    <3>1. n \in EntrySet /\ n.iun = u /\ n.fd = o.entry.fd /\ n.name = name
      BY <1>5, <1>6 DEF Opens, EntrySet
    <3>2. /\ Keeps(e, wafile', fds') /\ disk' \in [Files -> Contents]
          /\ FdLeads(n.fd, n.name, e, wafile', fds')
      BY <1>5, <1>6, <2>7, <3>1 DEF Opens
    <3> HIDE DEF n
    <3>3. FGFDT' = [FGFDT EXCEPT ![e] = n]
      BY <2>7 DEF n
    <3> QED
      BY <1>1, <1>3, <1>4, <3>1, <3>2, <3>3 DEF EntryStep
  <2>8. \/ FGFDT' = [FGFDT EXCEPT ![e] = [en EXCEPT !.name = NoName]]
           /\ UNCHANGED <<wafile, fds, disk>>
        \/ FGFDT' = FGFDT /\ UNCHANGED <<wafile, fds, disk>>
        \/ FGFDT' = FGFDT /\ wafile' = o.wafile /\ fds' = o.fds /\ disk' = o.disk
        \/ /\ FGFDT' = [FGFDT EXCEPT ![e] = [o.entry EXCEPT !.wa = FALSE]]
           /\ wafile' = o.wafile /\ fds' = o.fds /\ disk' = o.disk
        \/ FGFDT' = [FGFDT EXCEPT ![e] = [en EXCEPT !.open_flag = TRUE]]
           /\ UNCHANGED <<wafile, fds, disk>>
    BY Zenon DEF Fnom, u, e, en, o
  <2> QED
    BY <2>1, <2>4, <2>5, <2>6, <2>7, <2>8
<1>9. \A i \in Indexes : ~(file_table'[i].header /\ file_table'[i].iun = u)
  BY <1>1, <1>4 DEF TablesInv, FilesAreOpen
<1>10. STDSEQ_opened' \in BOOLEAN
  BY <1>1 DEF TablesInv, TablesTyped
<1>11. UnitStep(u)
  BY <1>1, <1>3, <1>8, <1>9, <1>10 DEF UnitStep
<1> QED
  BY <1>2, <1>11

\* The entry of a unit is its only one.
LEMMA OtherEntries ==
  ASSUME TablesInv, NEW u \in Bottom..Top, find_file_entry(u) >= 0
  PROVE  /\ find_file_entry(u) \in Entries /\ FGFDT[find_file_entry(u)].iun = u
         /\ FGFDT[find_file_entry(u)] \in EntrySet
         /\ \A x \in Entries \ {find_file_entry(u)} : FGFDT[x].iun # u
BY EntryFound, UnitsPositive DEF TablesInv, TablesTyped, EntriesAreUnique

\* A unit with no XDF file keeps none when its entry changes.
LEMMA NoFileOfUnit ==
  ASSUME TablesInv, NEW u \in Bottom..Top, UNCHANGED file_table,
         \/ file_index(u) < 0
         \/ ~file_table[file_index(u)].header
         \/ find_file_entry(u) >= 0 /\ ~FGFDT[find_file_entry(u)].open_flag
  PROVE  ~\E i \in Indexes : file_table'[i].header /\ file_table'[i].iun = u
<1> SUFFICES ASSUME NEW i \in Indexes, file_table[i].header, file_table[i].iun = u
             PROVE  FALSE
  OBVIOUS
<1>1. u # -1 /\ u # 0
  BY UnitsPositive
<1>2. file_index(u) = i
  BY <1>1, IndexIs DEF TablesInv
<1>3. PICK e \in Entries : FGFDT[e].iun = u /\ FGFDT[e].open_flag
  BY DEF TablesInv, FilesAreOpen
<1>4. find_file_entry(u) = e
  BY <1>1, <1>3, EntryIs DEF TablesInv
<1> QED
  BY <1>2, <1>3, <1>4, TablesAreNat

LEMMA FclosStep ==
  ASSUME TablesInv, NEW u \in Bottom..Top, Fclos(u)
  PROVE  UnitStep(u)
<1> DEFINE e == find_file_entry(u)
<1>1. /\ e >= 0 /\ (file_index(u) >= 0 => ~file_table[file_index(u)].header)
      /\ fds' = [d \in Fds |-> IF FGFDT[e].open_flag /\ d = FGFDT[e].fd
                               THEN Closed ELSE fds[d]]
      /\ FGFDT' = [FGFDT EXCEPT ![e] = EmptyEntry]
      /\ UNCHANGED <<wafile, file_table, STDSEQ_opened, disk, handles>>
  BY DEF Fclos
<1>2. /\ e \in Entries /\ FGFDT[e].iun = u
      /\ \A x \in Entries \ {e} : FGFDT[x].iun # u
  BY <1>1, OtherEntries
<1>3. EmptyEntry \in EntrySet /\ EmptyEntry.iun = 0 /\ EmptyEntry.fd = -1
  BY DEF EmptyEntry, EntrySet, NameSet
<1> HIDE DEF e
<1>4. Keeps(e, wafile', fds')
  <2>1. wafile' \in [Slots -> SlotSet] /\ fds' \in [Fds -> Files \cup {Closed}]
    BY <1>1 DEF TablesInv, TablesTyped
  <2>2. ASSUME NEW x \in Entries \ {e}, FGFDT[x].fd # -1
        PROVE  /\ fds'[FGFDT[x].fd] = fds[FGFDT[x].fd]
               /\ wafile' = wafile
    <3>1. FGFDT[x].fd \in Fds /\ FGFDT[x].fd # FGFDT[e].fd
      BY <1>2, <2>2 DEF TablesInv, TablesTyped, EntrySet, EntriesLead
    <3> QED
      BY <1>1, <3>1
  <2> QED
    BY <2>1, <2>2 DEF Keeps
<1>5. EntryStep(e, EmptyEntry, u)
  BY <1>1, <1>2, <1>3, <1>4 DEF EntryStep, FdLeads
<1>6. ~\E i \in Indexes : file_table'[i].header /\ file_table'[i].iun = u
  <2>1. file_index(u) < 0 \/ ~file_table[file_index(u)].header
    <3>1. file_index(u) = -1 \/ file_index(u) \in Nat
      BY IndexFound, TablesAreNat
    <3> QED
      BY <1>1, <3>1
  <2> QED
    BY <1>1, <2>1, NoFileOfUnit
<1> QED
  BY <1>1, <1>2, <1>3, <1>5, <1>6 DEF UnitStep, TablesInv, TablesTyped

\* A file that was not open is opened.
LEMMA OpenedEntry ==
  ASSUME TablesInv, NEW u \in Bottom..Top, NEW e \in Entries, FGFDT[e].iun = u,
         \A x \in Entries \ {e} : FGFDT[x].iun # u, FGFDT[e].name # NoName,
         NEW o, o = qqcopen(FGFDT[e]),
         FGFDT' = [FGFDT EXCEPT ![e] = o.entry], wafile' = o.wafile, fds' = o.fds
  PROVE  EntryStep(e, o.entry, u)
<1>1. FGFDT[e] \in EntrySet /\ FGFDT[e].name \in Names
  BY DEF TablesInv, TablesTyped, EntrySet, NameSet
<1>2. Opens(e, FGFDT[e], o)
  BY <1>1, OpensAFile
<1> QED
  BY <1>2, UnitsPositive DEF Opens, EntryStep

LEMMA WaOpenStep ==
  ASSUME TablesInv, NEW u \in Bottom..Top, WaOpen(u)
  PROVE  UnitStep(u)
<1> DEFINE e == find_file_entry(u)
           o == qqcopen(FGFDT[e])
<1>1. /\ e >= 0 /\ FGFDT[e].name # NoName /\ UNCHANGED <<file_table, STDSEQ_opened, handles>>
      /\ IF FGFDT[e].open_flag
         THEN /\ FGFDT' = [FGFDT EXCEPT ![e].wa = TRUE]
              /\ UNCHANGED <<wafile, fds, disk>>
         ELSE /\ FGFDT' = [FGFDT EXCEPT ![e] = o.entry]
              /\ wafile' = o.wafile /\ fds' = o.fds /\ disk' = o.disk
  BY DEF WaOpen
<1>2. /\ e \in Entries /\ FGFDT[e].iun = u /\ FGFDT[e] \in EntrySet
      /\ \A x \in Entries \ {e} : FGFDT[x].iun # u
  BY <1>1, OtherEntries
<1>3. FGFDT[e].name \in Names
  BY <1>1, <1>2 DEF EntrySet, NameSet
<1>4. Opens(e, FGFDT[e], o)
  BY <1>2, <1>3, OpensAFile
<1>5. CASE FGFDT[e].open_flag
  <2> DEFINE n == [FGFDT[e] EXCEPT !.wa = TRUE]
  <2>1. /\ FGFDT' = [FGFDT EXCEPT ![e] = n] /\ n \in EntrySet
        /\ n.iun = u /\ n.fd = FGFDT[e].fd /\ n.name = FGFDT[e].name
        /\ n.open_flag = FGFDT[e].open_flag
    BY <1>1, <1>2, <1>5 DEF EntrySet
  <2> HIDE DEF n
  <2>2. Keeps(e, wafile', fds') /\ FdLeads(n.fd, n.name, e, wafile', fds')
    BY <1>1, <1>2, <1>5, <2>1 DEF Keeps, FdLeads, TablesInv, TablesTyped, EntriesLead
  <2>3. EntryStep(e, n, u)
    BY <1>2, <2>1, <2>2, UnitsPositive DEF EntryStep
  <2>4. ASSUME NEW i \in Indexes, file_table'[i].header, file_table'[i].iun = u
        PROVE  Connected(u)'
    <3>1. PICK x \in Entries : FGFDT[x].iun = u /\ FGFDT[x].open_flag /\ FGFDT[x].fd # -1
      BY <1>1, <2>4 DEF TablesInv, FilesAreOpen
    <3>2. x = e
      BY <1>2, <3>1
    <3>3. FGFDT'[e] = n
      BY <1>2, <2>1 DEF TablesInv, TablesTyped
    <3> QED
      BY <1>2, <2>1, <3>1, <3>2, <3>3 DEF Connected
  <2> QED
    BY <1>1, <1>2, <1>5, <2>1, <2>3, <2>4 DEF UnitStep, TablesInv, TablesTyped
<1>6. CASE ~FGFDT[e].open_flag
  <2>1. EntryStep(e, o.entry, u)
    BY <1>1, <1>2, <1>6, OpenedEntry
  <2>2. ~\E i \in Indexes : file_table'[i].header /\ file_table'[i].iun = u
    BY <1>1, <1>6, NoFileOfUnit
  <2>3. o.entry \in EntrySet /\ disk' \in [Files -> Contents]
    BY <1>1, <1>4, <1>6 DEF Opens
  <2> HIDE DEF e, o
  <2> QED
    BY <1>1, <1>2, <2>1, <2>2, <2>3 DEF UnitStep, TablesInv, TablesTyped
<1> QED
  BY <1>5, <1>6

\* What c_waclos2 and c_xdfcls do to the entry of a unit.
Closing(e) ==
    /\ QqcClos(e)
    /\ FGFDT' = [FGFDT EXCEPT ![e].fd = -1, ![e].open_flag = FALSE, ![e].wa = FALSE]

LEMMA ClosedEntry ==
  ASSUME TablesInv, NEW u \in Bottom..Top, NEW e \in Entries, FGFDT[e].iun = u,
         \A x \in Entries \ {e} : FGFDT[x].iun # u, Closing(e)
  PROVE  \E n \in EntrySet : EntryStep(e, n, u)
<1> DEFINE n == [FGFDT[e] EXCEPT !.fd = -1, !.open_flag = FALSE, !.wa = FALSE]
<1>1. FGFDT \in [Entries -> EntrySet]
  BY DEF TablesInv, TablesTyped
<1>2. FGFDT' = [FGFDT EXCEPT ![e] = n]
  BY <1>1 DEF Closing, EntrySet
<1>3. n \in EntrySet /\ n.iun = u /\ n.fd = -1
  BY <1>1 DEF EntrySet
<1>4. Keeps(e, wafile', fds')
  BY ClosesItsSlot DEF Closing
<1> HIDE DEF n
<1>5. EntryStep(e, n, u)
  BY <1>2, <1>3, <1>4 DEF EntryStep, FdLeads
<1> QED
  BY <1>3, <1>5

LEMMA WaCloseStep ==
  ASSUME TablesInv, NEW u \in Bottom..Top, WaClose(u)
  PROVE  UnitStep(u)
<1> DEFINE e == find_file_entry(u)
<1>1. /\ e >= 0 /\ file_index(u) < 0 /\ Closing(e)
      /\ UNCHANGED <<file_table, STDSEQ_opened, disk, handles>>
  BY DEF WaClose, Closing
<1>2. /\ e \in Entries /\ FGFDT[e].iun = u
      /\ \A x \in Entries \ {e} : FGFDT[x].iun # u
  BY <1>1, OtherEntries
<1> HIDE DEF e
<1>3. \E n \in EntrySet : EntryStep(e, n, u)
  BY <1>1, <1>2, ClosedEntry
<1>4. ~\E i \in Indexes : file_table'[i].header /\ file_table'[i].iun = u
  BY <1>1, NoFileOfUnit
<1> QED
  BY <1>1, <1>2, <1>3, <1>4 DEF UnitStep, TablesInv, TablesTyped

LEMMA WaSizeStep ==
  ASSUME TablesInv, NEW u \in Bottom..Top, WaSize(u)
  PROVE  UnitStep(u)
<1> DEFINE e == find_file_entry(u)
           o == qqcopen(FGFDT[e])
           n == [FGFDT[e] EXCEPT !.fd = -1, !.read_only = o.entry.read_only]
<1>1. /\ e >= 0 /\ ~FGFDT[e].open_flag /\ FGFDT[e].name # NoName
      /\ FGFDT' = [FGFDT EXCEPT ![e].fd = -1, ![e].read_only = o.entry.read_only]
      /\ wafile' = IF o.entry.fd = -1 THEN wafile
                   ELSE Freed(o.wafile, SlotOf(o.entry.fd, o.wafile))
      /\ disk' = o.disk
      /\ UNCHANGED <<file_table, STDSEQ_opened, fds, handles>>
  BY DEF WaSize
<1>2. /\ e \in Entries /\ FGFDT[e].iun = u /\ FGFDT[e] \in EntrySet
      /\ \A x \in Entries \ {e} : FGFDT[x].iun # u
  BY <1>1, OtherEntries
<1>3. FGFDT[e].name \in Names
  BY <1>1, <1>2 DEF EntrySet, NameSet
<1>4. Opens(e, FGFDT[e], o)
  BY <1>2, <1>3, OpensAFile
<1>5. ~\E i \in Indexes : file_table'[i].header /\ file_table'[i].iun = u
  BY <1>1, NoFileOfUnit
<1> HIDE DEF e, o
<1>6. n \in EntrySet /\ n.iun = u /\ n.fd = -1 /\ disk' \in [Files -> Contents]
  BY <1>1, <1>2, <1>4 DEF Opens, EntrySet
<1>7. FGFDT' = [FGFDT EXCEPT ![e] = n]
  BY <1>1, <1>2 DEF TablesInv, TablesTyped, EntrySet
<1>8. ASSUME o.entry.fd = -1 PROVE Keeps(e, wafile', fds')
  BY <1>1, <1>8 DEF Keeps, TablesInv, TablesTyped, EntriesLead
<1>9. ASSUME o.entry.fd # -1 PROVE Keeps(e, wafile', fds')
  <2> DEFINE s == SlotOf(o.entry.fd, o.wafile)
  <2>1. /\ o.wafile \in [Slots -> SlotSet] /\ s \in Slots
        /\ o.wafile[s].file_desc = o.entry.fd
        /\ \A x \in Entries \ {e} : FGFDT[x].fd # o.entry.fd
    BY <1>4, <1>9, SlotFound DEF Opens, Keeps, FdLeads, Serves
  <2> HIDE DEF s
  <2>2. /\ wafile' \in [Slots -> SlotSet] /\ wafile'[s].file_desc = -1
        /\ \A x \in Slots \ {s} : wafile'[x] = o.wafile[x]
    BY <1>1, <1>9, <2>1, FreedIs DEF s
  <2>3. ASSUME NEW x \in Entries \ {e}, FGFDT[x].fd # -1, NEW y \in Slots,
               FGFDT[x].fd \in {wafile[y].file_desc, wafile'[y].file_desc}
        PROVE  wafile'[y] = wafile[y]
    <3>1. FGFDT[x].fd \in {wafile[y].file_desc, o.wafile[y].file_desc}
      BY <2>2, <2>3
    <3>2. o.wafile[y] = wafile[y]
      BY <1>4, <2>3, <3>1 DEF Opens, Keeps
    <3>3. y # s
      BY <2>1, <2>3, <3>1, <3>2
    <3> QED
      BY <2>2, <3>2, <3>3
  <2> QED
    BY <1>1, <2>2, <2>3 DEF Keeps, TablesInv, TablesTyped
<1>11. Keeps(e, wafile', fds')
  BY <1>8, <1>9
<1> HIDE DEF n
<1>10. EntryStep(e, n, u)
  BY <1>2, <1>6, <1>7, <1>11 DEF EntryStep, FdLeads
<1> QED
  BY <1>1, <1>2, <1>5, <1>6, <1>10 DEF UnitStep, TablesInv, TablesTyped

LEMMA XdfCloseStep ==
  ASSUME TablesInv, NEW u \in Bottom..Top, XdfClose(u)
  PROVE  UnitStep(u)
<1> DEFINE i == file_index(u)
           e == find_file_entry(u)
<1>1. /\ i >= 0 /\ e >= 0 /\ Closing(e)
      /\ file_table' = [file_table EXCEPT ![i] = FreeXdf]
      /\ UNCHANGED <<STDSEQ_opened, disk>>
  BY DEF XdfClose, Closing
<1>2. /\ e \in Entries /\ FGFDT[e].iun = u
      /\ \A x \in Entries \ {e} : FGFDT[x].iun # u
  BY <1>1, OtherEntries
<1>3. i \in Indexes /\ file_table[i].iun = u
  BY <1>1, IndexFound
<1> HIDE DEF e, i
<1>4. \E n \in EntrySet : EntryStep(e, n, u)
  BY <1>1, <1>2, ClosedEntry
<1>5. FreeXdf \in XdfSet /\ FreeXdf.iun = -1 /\ ~FreeXdf.header
  BY DEF FreeXdf, XdfSet
<1>6. \A j \in Indexes \ {i} : file_table[j].iun # u
  BY <1>3, UnitsPositive DEF TablesInv, IndexesAreUnique
<1>7. IndexStep(i, FreeXdf, u)
  BY <1>1, <1>3, <1>5, <1>6 DEF IndexStep
<1>8. ~\E j \in Indexes : file_table'[j].header /\ file_table'[j].iun = u
  BY <1>1, <1>3, <1>5, <1>6 DEF TablesInv, TablesTyped
<1> QED
  BY <1>1, <1>2, <1>3, <1>4, <1>5, <1>7, <1>8 DEF UnitStep, TablesInv, TablesTyped

LEMMA EntryMade ==
  ASSUME NEW u \in Bottom..Top, NEW content, NEW seq \in BOOLEAN
  PROVE  /\ [iun |-> u, header |-> TRUE, xdf_seq |-> seq] \in XdfSet
         /\ FromHeader(u, content, seq) \in XdfSet
         /\ FromHeader(u, content, seq).iun = u
<1>1. FreeXdf \in XdfSet
  BY DEF FreeXdf, XdfSet
<1>2. [FreeXdf EXCEPT !.iun = u] \in XdfSet /\ [FreeXdf EXCEPT !.iun = u].iun = u
  BY <1>1 DEF XdfSet
<1>3. (seq \/ content = "seq") \in BOOLEAN
  OBVIOUS
<1>4. [iun |-> u, header |-> TRUE, xdf_seq |-> seq \/ content = "seq"] \in XdfSet
      /\ [iun |-> u, header |-> TRUE, xdf_seq |-> seq] \in XdfSet
  BY <1>3 DEF XdfSet
<1> QED
  BY <1>2, <1>4 DEF FromHeader

LEMMA XdfOpenIs ==
  ASSUME TablesInv, NEW u \in Bottom..Top, NEW create \in BOOLEAN, XdfOpen(u, create)
  PROVE  /\ file_index(u) < 0 /\ get_free_index >= 0 /\ UNCHANGED handles
         /\ STDSEQ_opened' \in BOOLEAN /\ disk' \in [Files -> Contents]
         /\ \/ XdfLeaving(u)
            \/ /\ find_file_entry(u) >= 0 /\ FGFDT[find_file_entry(u)].name # NoName
               /\ \E z \in XdfSet : z.iun = u /\ XdfOpening(u, create, z)
<1> DEFINE e == find_file_entry(u)
           en == FGFDT[e]
           file == en.name.file
           created(content) == [disk EXCEPT ![file] = content]
<1>1. /\ file_index(u) < 0 /\ get_free_index >= 0 /\ UNCHANGED handles
      /\ e >= 0 => en.name # NoName
  BY Zenon DEF XdfOpen
<1>2. IF e < 0 \/ ~en.rnd
      THEN XdfLeaving(u) /\ UNCHANGED STDSEQ_opened
      ELSE /\ STDSEQ_opened' = (STDSEQ_opened \/ en.seq)
           /\ \/ XdfLeaving(u)
              \/ /\ XdfOpening(u, create, [iun |-> u, header |-> TRUE, xdf_seq |-> en.seq])
                 /\ \E content \in HeaderWritten(e) : disk' = created(content)
              \/ /\ \E content \in HeaderRead(e) :
                       XdfOpening(u, create, FromHeader(u, content, en.seq))
                 /\ UNCHANGED disk
  BY Zenon DEF XdfOpen
<1>3. /\ STDSEQ_opened \in BOOLEAN /\ disk \in [Files -> Contents]
      /\ \A content \in HeaderWritten(e) : created(content) \in [Files -> Contents]
  <2>1. disk \in [Files -> Contents] /\ HeaderWritten(e) \subseteq Contents
    BY DEF TablesInv, TablesTyped, HeaderWritten, Anything, Contents
  <2> QED
    BY <2>1 DEF TablesInv, TablesTyped
<1>4. CASE e < 0 \/ ~en.rnd
  BY <1>1, <1>2, <1>3, <1>4 DEF XdfLeaving
<1>5. CASE ~(e < 0 \/ ~en.rnd)
  <2>1. e \in Entries /\ e >= 0
    <3>1. e = -1 \/ e \in Entries
      BY EntryFound
    <3>2. ~(e < 0)
      BY <1>5, Zenon
    <3>3. \A x \in Entries : x >= 0
      BY TablesAreNat
    <3> HIDE DEF e
    <3> QED
      BY <3>1, <3>2, <3>3
  <2>2. en.seq \in BOOLEAN
    BY <2>1 DEF TablesInv, TablesTyped, EntrySet
  <2>3. /\ [iun |-> u, header |-> TRUE, xdf_seq |-> en.seq] \in XdfSet
        /\ \A content : /\ FromHeader(u, content, en.seq) \in XdfSet
                        /\ FromHeader(u, content, en.seq).iun = u
    BY <2>2, EntryMade
  <2>4. STDSEQ_opened' \in BOOLEAN
    BY <1>2, <1>3, <1>5, <2>2
  <2> HIDE DEF e, created, file
  <2>5. CASE XdfLeaving(u)
    BY <1>1, <1>3, <2>1, <2>4, <2>5 DEF XdfLeaving
  <2>6. CASE /\ XdfOpening(u, create, [iun |-> u, header |-> TRUE, xdf_seq |-> en.seq])
             /\ \E content \in HeaderWritten(e) : disk' = created(content)
    BY <1>1, <1>3, <2>1, <2>3, <2>4, <2>6 DEF e
  <2>7. CASE /\ \E content \in HeaderRead(e) :
                  XdfOpening(u, create, FromHeader(u, content, en.seq))
             /\ UNCHANGED disk
    BY <1>1, <1>3, <2>1, <2>3, <2>4, <2>7 DEF e
  <2> QED
    BY <1>2, <1>5, <2>5, <2>6, <2>7
<1> QED
  BY <1>4, <1>5

LEMMA XdfOpenStep ==
  ASSUME TablesInv, NEW u \in Bottom..Top, NEW create \in BOOLEAN, XdfOpen(u, create)
  PROVE  UnitStep(u)
<1> DEFINE i == get_free_index
           e == find_file_entry(u)
           o == qqcopen(FGFDT[e])
<1>1. /\ file_index(u) < 0 /\ i >= 0
      /\ STDSEQ_opened' \in BOOLEAN /\ disk' \in [Files -> Contents]
  BY XdfOpenIs
<1>2. /\ i \in Indexes /\ file_table[i].iun = -1 /\ file_table[i] \in XdfSet
      /\ ~file_table[i].header
  <2>1. i \in Indexes /\ file_table[i].iun = -1
    BY <1>1, FreeIndexFound
  <2> QED
    BY <2>1, UnitsPositive DEF TablesInv, TablesTyped, FilesAreOpen
<1>3. \A j \in Indexes : file_table[j].iun # u
  BY <1>1, IndexFound, TablesAreNat
<1>4. file_table \in [Indexes -> XdfSet] /\ u # -1
  BY UnitsPositive DEF TablesInv, TablesTyped
<1>5. CASE XdfLeaving(u)
  <2> DEFINE z == [file_table[i] EXCEPT !.iun = u]
  <2>1. file_table' = [file_table EXCEPT ![i] = z] /\ UNCHANGED <<FGFDT, wafile, fds>>
    BY <1>2, <1>4, <1>5 DEF XdfLeaving, XdfSet
  <2>2. z \in XdfSet /\ z.iun = u /\ ~z.header
    BY <1>2 DEF XdfSet
  <2> HIDE DEF z, i
  <2>3. IndexStep(i, z, u)
    BY <1>2, <1>3, <1>4, <2>1, <2>2 DEF IndexStep
  <2>4. ~\E j \in Indexes : file_table'[j].header /\ file_table'[j].iun = u
    BY <1>2, <1>3, <1>4, <2>1, <2>2
  <2> QED
    BY <1>1, <1>2, <2>1, <2>2, <2>3, <2>4 DEF UnitStep
<1>6. ASSUME NEW z \in XdfSet, z.iun = u, XdfOpening(u, create, z),
             e >= 0, FGFDT[e].name # NoName
      PROVE  UnitStep(u)
  <2>1. IndexStep(i, z, u)
    BY <1>2, <1>3, <1>4, <1>6 DEF IndexStep, XdfOpening
  <2>2. e >= 0 /\ FGFDT[e].name # NoName
    BY <1>6
  <2>3. /\ e \in Entries /\ FGFDT[e].iun = u /\ FGFDT[e] \in EntrySet
        /\ \A x \in Entries \ {e} : FGFDT[x].iun # u
    BY <2>2, OtherEntries
  <2>4. FGFDT[e].name \in Names
    BY <2>2, <2>3 DEF EntrySet, NameSet
  <2>5. CASE FGFDT[e].open_flag
    <3> DEFINE n == [FGFDT[e] EXCEPT !.wa = FGFDT[e].wa \/ create]
    <3>1. /\ FGFDT[e].fd > 0 /\ FGFDT' = [FGFDT EXCEPT ![e].wa = FGFDT[e].wa \/ create]
          /\ UNCHANGED <<wafile, fds>>
      BY <1>6, <2>5 DEF XdfOpening
    <3>2. /\ FGFDT' = [FGFDT EXCEPT ![e] = n] /\ n \in EntrySet
          /\ n.iun = u /\ n.fd = FGFDT[e].fd /\ n.name = FGFDT[e].name
          /\ n.open_flag = FGFDT[e].open_flag
      BY <2>3, <3>1 DEF EntrySet
    <3> HIDE DEF n, e
    <3>3. Keeps(e, wafile', fds') /\ FdLeads(n.fd, n.name, e, wafile', fds')
      BY <2>3, <3>1, <3>2 DEF Keeps, FdLeads, TablesInv, TablesTyped, EntriesLead
    <3>4. EntryStep(e, n, u)
      BY <2>3, <3>2, <3>3, UnitsPositive DEF EntryStep
    <3>5. FGFDT'[e] = n /\ n.fd # -1
      BY <2>3, <3>1, <3>2 DEF TablesInv, TablesTyped
    <3>6. Connected(u)'
      BY <2>3, <2>5, <3>2, <3>5 DEF Connected
    <3> QED
      BY <1>1, <1>2, <2>1, <2>3, <3>2, <3>4, <3>6 DEF UnitStep
  <2>6. CASE ~FGFDT[e].open_flag
    <3>1. /\ o.ier > 0 /\ FGFDT' = [FGFDT EXCEPT ![e] = o.entry]
          /\ wafile' = o.wafile /\ fds' = o.fds
      BY <1>6, <2>6 DEF XdfOpening
    <3>2. Opens(e, FGFDT[e], o)
      BY <2>3, <2>4, OpensAFile
    <3>3. EntryStep(e, o.entry, u)
      BY <2>2, <2>3, <3>1, OpenedEntry
    <3> HIDE DEF e, o
    <3>4. /\ o.entry \in EntrySet /\ o.entry.iun = u
          /\ o.entry.open_flag /\ o.entry.fd # -1
      <4>1. o.ier # -1
        BY <3>1
      <4> QED
        BY <2>3, <3>2, <4>1, TablesAreNat DEF Opens
    <3>5. FGFDT'[e] = o.entry
      BY <2>3, <3>1 DEF TablesInv, TablesTyped
    <3>6. Connected(u)'
      BY <2>3, <3>4, <3>5 DEF Connected
    <3> QED
      BY <1>1, <1>2, <2>1, <2>3, <3>3, <3>4, <3>6 DEF UnitStep
  <2> QED
    BY <2>5, <2>6
<1> QED
  BY <1>5, <1>6, XdfOpenIs

LEMMA FindStep ==
  ASSUME TablesInv, NEW u \in Bottom..Top, NEW a \in Addresses, Find(u, a)
  PROVE  UnitStep(u)
<1>1. UNCHANGED <<FGFDT, wafile, file_table, STDSEQ_opened, fds, disk>>
  BY DEF Find
<1>2. ASSUME NEW i \in Indexes, file_table'[i].header, file_table'[i].iun = u
      PROVE  Connected(u)'
  BY <1>1, <1>2 DEF TablesInv, FilesAreOpen, Connected
<1> QED
  BY <1>1, <1>2 DEF UnitStep, TablesInv, TablesTyped

-----------------------------------------------------------------------------
(* The invariant of the tables.                                            *)

LEMMA StepIsOfAUnit ==
  ASSUME TablesInv, Next
  PROVE  \E u \in Bottom..Top : UnitStep(u)
<1>0. Units \subseteq Bottom..Top
  BY TableAssumption
<1>1. CASE \E asked \in Units \cup {0}, name \in Names : \E type \in Types[name] :
              Fnom(asked, name, type)
  BY <1>1, FnomStep
<1>2. ASSUME NEW u \in Bottom..Top,
             Fclos(u) \/ WaOpen(u) \/ WaClose(u) \/ WaSize(u) \/ XdfClose(u)
      PROVE  UnitStep(u)
  BY <1>2, FclosStep, WaOpenStep, WaCloseStep, WaSizeStep, XdfCloseStep
<1>3. ASSUME NEW u \in Units, FstOuv(u) \/ \E create \in BOOLEAN : XdfOpen(u, create)
      PROVE  UnitStep(u)
  <2>1. u \in Bottom..Top
    BY <1>0
  <2> QED
    BY <1>3, <2>1, XdfOpenStep DEF FstOuv
<1>4. CASE \E u \in Bottom..Top, a \in Addresses : Find(u, a)
  BY <1>4, FindStep
<1> QED
  BY <1>0, <1>1, <1>2, <1>3, <1>4 DEF Next

LEMMA TablesInit == Init => TablesInv
<1> SUFFICES ASSUME Init PROVE TablesInv
  OBVIOUS
<1>1. \A e \in Entries : FGFDT[e] = EmptyEntry
  BY DEF Init
<1>2. EmptyEntry \in EntrySet /\ EmptyEntry.iun = 0 /\ EmptyEntry.fd = -1
  BY DEF EmptyEntry, EntrySet, NameSet
<1>3. EntriesAreUnique /\ EntriesLead
  BY <1>1, <1>2 DEF EntriesAreUnique, EntriesLead
<1>4. \A i \in Indexes : file_table[i] = IF i = 0 THEN ReservedXdf ELSE FreeXdf
  BY DEF Init
<1>5. ReservedXdf \in XdfSet /\ FreeXdf \in XdfSet /\ FreeXdf.iun = -1
      /\ ~ReservedXdf.header /\ ~FreeXdf.header
  BY DEF ReservedXdf, FreeXdf, XdfSet
<1>6. IndexesAreUnique /\ FilesAreOpen
  BY <1>4, <1>5 DEF IndexesAreUnique, FilesAreOpen
<1>7. FGFDT \in [Entries -> EntrySet] /\ file_table \in [Indexes -> XdfSet]
  BY <1>2, <1>5 DEF Init
<1>8. wafile \in [Slots -> SlotSet] /\ fds \in [Fds -> Files \cup {Closed}]
      /\ disk \in [Files -> Contents] /\ STDSEQ_opened \in BOOLEAN
  BY TableAssumption DEF Init, SlotSet, NameSet
<1> QED
  BY <1>3, <1>6, <1>7, <1>8 DEF TablesInv, TablesTyped

LEMMA TablesStep ==
  ASSUME TablesInv, [Next]_vars
  PROVE  TablesInv'
<1>1. CASE Next
  <2>1. PICK u \in Bottom..Top : UnitStep(u)
    BY <1>1, StepIsOfAUnit
  <2>2. STDSEQ_opened' \in BOOLEAN /\ disk' \in [Files -> Contents]
    BY <2>1 DEF UnitStep
  <2> QED
    BY <2>1, <2>2, UnitStepEntries, UnitStepIndexes DEF TablesInv, TablesTyped
<1>2. CASE UNCHANGED vars
  BY <1>2 DEF vars, TablesInv, TablesTyped, EntriesAreUnique, EntriesLead,
              IndexesAreUnique, FilesAreOpen
<1> QED
  BY <1>1, <1>2

\* The inductive invariant of the tables holds in every state (c_fnom, c_fclos,
\* c_waopen2, c_waclos2, c_wasize, c_xdfopn, c_xdfcls, c_fstouv).
THEOREM TablesCorrect == Spec => []TablesInv
BY TablesInit, TablesStep, PTL DEF Spec

LEMMA HandlesStayTyped ==
  ASSUME TablesInv, HandlesTyped, [Next]_vars
  PROVE  HandlesTyped'
<1>1. CASE handles' \subseteq handles
  BY <1>1 DEF HandlesTyped
<1>2. ASSUME NEW u \in Bottom..Top, NEW a \in Addresses, Find(u, a)
      PROVE  HandlesTyped'
  <2>1. file_index(u) \in Nat /\ a \in Nat
    <3>1. file_index(u) = -1 \/ file_index(u) \in Nat
      BY IndexFound, TablesAreNat
    <3>2. file_index(u) >= 0 /\ Addresses \subseteq Nat
      BY <1>2, TableAssumption DEF Find
    <3> QED
      BY <3>1, <3>2
  <2>2. MaxXdfFiles \in Nat \ {0} /\ SeqFiles \in Nat \ {0}
    BY TableAssumption
  <2>3. PICK bits : handles' = handles \cup {[iun |-> u, bits |-> bits]}
                    /\ bits \in {MAKE_SEQ_HANDLE(a, file_index(u)),
                                 MAKE_RND_HANDLE(a, file_index(u))}
    BY <1>2 DEF Find
  <2>4. bits \in Nat
    <3>1. file_index(u) % MaxXdfFiles \in Nat /\ SeqFiles * a \in Nat /\ MaxXdfFiles * a \in Nat
      BY <2>1, <2>2
    <3> QED
      BY <2>1, <2>3, <3>1 DEF MAKE_SEQ_HANDLE, MAKE_RND_HANDLE
  <2> QED
    BY <2>3, <2>4 DEF HandlesTyped
<1>3. CASE Next
  <2>1. \/ handles' \subseteq handles
        \/ \E u \in Bottom..Top, a \in Addresses : Find(u, a)
    BY <1>3, ZenonT(40) DEF Next, Fnom, Fclos, WaOpen, WaClose, WaSize, XdfClose, FstOuv, XdfOpen
  <2> QED
    BY <1>1, <1>2, <2>1
<1>4. CASE UNCHANGED vars
  BY <1>1, <1>4 DEF vars
<1> QED
  BY <1>3, <1>4

\* The tables and the handles hold what their types say, in every state.
THEOREM TableTypeCorrect == Spec => []TypeOK
<1>1. Init => HandlesTyped
  BY DEF Init, HandlesTyped
<1>2. TablesInv /\ HandlesTyped => TypeOK
  BY DEF TablesInv, TablesTyped, EntrySet, SlotSet, XdfSet, HandlesTyped, TypeOK
<1>3. TablesInv /\ HandlesTyped /\ [Next]_vars => HandlesTyped'
  BY HandlesStayTyped
<1> QED
  BY <1>1, <1>2, <1>3, TablesCorrect, PTL DEF Spec

\* An open entry with a descriptor leads its unit to its own file, and through a slot of its
\* own when no other one has the descriptor.
LEMMA EntryReaches ==
  ASSUME TablesInv, NEW e \in Entries, FGFDT[e].fd # -1
  PROVE  /\ Reaches(FGFDT[e].iun).file = FGFDT[e].name.file /\ FGFDT[e].name.file \in Files
         /\ ~Shared(FGFDT[e].fd) /\ ~WasMember(FGFDT[e]) =>
              Reaches(FGFDT[e].iun) = Own(FGFDT[e].name)
<1> DEFINE d == FGFDT[e].fd
           name == FGFDT[e].name
           i == SlotOf(d, wafile)
<1>1. /\ FGFDT[e].iun # 0 /\ name.file \in Files /\ fds[d] = name.file
      /\ \E s \in Slots : Serves(wafile, s, d, name)
  BY DEF TablesInv, EntriesLead
<1>2. find_file_entry(FGFDT[e].iun) = e
  BY <1>1, EntryIs DEF TablesInv
<1>3. d \in Fds /\ ~(e < 0)
  BY TablesAreNat DEF TablesInv, TablesTyped, EntrySet
<1>4. i \in Slots /\ wafile[i].file_desc = d /\ ~(i < 0)
  BY <1>1, SlotFound, TablesAreNat DEF Serves
<1>5. Reaches(FGFDT[e].iun) =
        [file |-> fds[d], offset |-> wafile[i].offset, pages |-> wafile[i].pages]
  BY <1>2, <1>3, <1>4 DEF Reaches, ReachedBy
<1>6. ASSUME ~Shared(d), ~WasMember(FGFDT[e])
      PROVE  [file |-> fds[d], offset |-> wafile[i].offset, pages |-> wafile[i].pages]
                = Own(name)
  <2>1. Serves(wafile, i, d, name)
    BY <1>1, <1>4, <1>6 DEF Shared, Serves
  <2>2. name.sub = NoSub => ~wafile[i].member
    BY <1>6 DEF WasMember
  <2>3. wafile[i] \in SlotSet
    BY <1>4 DEF TablesInv, TablesTyped
  <2>4. name.sub = NoSub => wafile[i].offset = 0
    BY <2>2, <2>3 DEF SlotSet
  <2> QED
    BY <1>1, <2>1, <2>4 DEF Own, Serves
<1> HIDE DEF d, name, i
<1>7. Reaches(FGFDT[e].iun).file = name.file
  BY <1>1, <1>5
<1> QED
  BY <1>1, <1>5, <1>6, <1>7 DEF d, name

\* An open word-addressable unit has a descriptor of its file, and reads and writes it at its
\* own place and through pages of its own where its slot is the only one with the descriptor
\* and served no member before, in every state (c_waopen2, qqcclos, c_fclos, c_wasize).
THEOREM UnitsCorrect == Spec => []UnitsReachTheirFiles
<1>1. TablesInv => UnitsReachTheirFiles
  BY EntryReaches DEF UnitsReachTheirFiles
<1> QED
  BY <1>1, TablesCorrect, PTL

\* An XDF file that is open is found under its unit, which reaches an open file, in
\* every state (c_xdfopn, c_xdfcls, file_index).
THEOREM XdfFilesCorrect == Spec => []XdfFilesAreConnected
<1>1. ASSUME TablesInv, NEW i \in Indexes, file_table[i].header
      PROVE  file_index(file_table[i].iun) = i /\ Reaches(file_table[i].iun).file # Closed
  <2>1. PICK e \in Entries : FGFDT[e].iun = file_table[i].iun /\ FGFDT[e].fd # -1
    BY <1>1 DEF TablesInv, FilesAreOpen
  <2>2. file_table[i].iun \in Bottom..Top
    BY <1>1 DEF TablesInv, FilesAreOpen
  <2>3. file_table[i].iun # -1
    BY <2>2, UnitsPositive
  <2>4. file_index(file_table[i].iun) = i
    BY <1>1, <2>3, IndexIs DEF TablesInv
  <2>5. Closed \notin Files
    BY TableAssumption
  <2> QED
    BY <1>1, <2>1, <2>4, <2>5, EntryReaches
<1>2. TablesInv => XdfFilesAreConnected
  BY <1>1 DEF XdfFilesAreConnected
<1> QED
  BY <1>2, TablesCorrect, PTL

\* What UnitsAreIndependent says of a step.
OthersAreLeftAlone ==
    \A u \in Bottom..Top : Reaches(u)' # Reaches(u) \/ file_index(u)' # file_index(u) =>
        \A v \in (Bottom..Top) \ {u} :
            Reaches(v)' = Reaches(v) /\ file_index(v)' = file_index(v)

\* A step changes what (file, offset, pages) at most one unit reaches, and leaves the XDF
\* index of every other unit alone (c_fnom, c_fclos, qqcopen, qqcclos, c_xdfopn, c_xdfcls).
THEOREM UnitsKeepApart == Spec => UnitsAreIndependent
<1>1. TablesInv /\ Next => OthersAreLeftAlone
  <2> SUFFICES ASSUME TablesInv, Next PROVE OthersAreLeftAlone
    OBVIOUS
  <2>1. PICK w \in Bottom..Top : UnitStep(w)
    BY StepIsOfAUnit
  <2>2. \A v \in Bottom..Top : v # w =>
            Reaches(v)' = Reaches(v) /\ file_index(v)' = file_index(v)
    BY <2>1, OthersStayPut
  <2> QED
    BY <2>2 DEF OthersAreLeftAlone
<1>2. TablesInv /\ [Next]_vars => [OthersAreLeftAlone]_vars
  BY <1>1
<1> QED
  BY <1>2, TablesCorrect, PTL DEF Spec, UnitsAreIndependent, OthersAreLeftAlone

-----------------------------------------------------------------------------
(* The handles.                                                            *)

\* Once a sequential file was opened the indexes of the open files fit a sequential
\* handle, and no sequential file was opened before.
IndexesFit ==
    \A i \in Indexes : file_table[i].header =>
        /\ STDSEQ_opened => i < SeqFiles
        /\ file_table[i].xdf_seq => STDSEQ_opened

\* A handle is for an open file, and its remainder by either size of the index is
\* that of the index of the file.
HandlesLead ==
    \A h \in handles : \E i \in Indexes :
        /\ file_table[i].header /\ file_table[i].iun = h.iun
        /\ h.bits % SeqFiles = i % SeqFiles
        /\ ~STDSEQ_opened => h.bits % MaxXdfFiles = i

HandlesInv == TablesInv /\ IndexesFit /\ HandlesLead

LEMMA SizesAre ==
  /\ MaxXdfFiles \in Nat \ {0} /\ SeqFiles \in Nat \ {0}
  /\ MaxXdfFiles % SeqFiles = 0 /\ SeqFiles <= MaxXdfFiles
  /\ Indexes = 0..(MaxXdfFiles - 1) /\ Addresses \subseteq Nat
BY TableAssumption DEF Indexes

LEMMA SmallRemainder ==
  ASSUME NEW M \in Nat \ {0}, NEW i \in 0..(M - 1)
  PROVE  i % M = i
<1>1. (i + M * 0) % M = i
  BY Unpacked
<1>2. i + M * 0 = i
  OBVIOUS
<1> QED
  BY <1>1, <1>2

LEMMA UnpackedBelow ==
  ASSUME NEW i \in Indexes, NEW a \in Nat
  PROVE  (i + MaxXdfFiles * a) % SeqFiles = i % SeqFiles
<1> DEFINE M == MaxXdfFiles
           S == SeqFiles
           k == M \div S
           p == i % S
           q == i \div S
<1>0. M \in Nat \ {0} /\ S \in Nat \ {0} /\ M % S = 0 /\ i \in 0..(M - 1)
  BY SizesAre
<1> HIDE DEF M, S
<1>1. k \in Nat /\ M = S * k
  BY <1>0
<1>2. p \in 0..(S - 1) /\ q \in Nat /\ i = S * q + p
  BY <1>0
<1> HIDE DEF k, p, q
<1>3. M * a = S * (k * a) /\ k * a \in Nat
  BY <1>0, <1>1
<1>4. q + k * a \in Nat /\ i + M * a = p + S * (q + k * a)
  BY <1>0, <1>1, <1>2, <1>3
<1>5. (p + S * (q + k * a)) % S = p
  BY <1>0, <1>2, <1>4, Unpacked
<1> QED
  BY <1>4, <1>5 DEF p, M, S

LEMMA HandleFound ==
  ASSUME HandlesInv, NEW u \in Bottom..Top, NEW a \in Addresses, Find(u, a)
  PROVE  HandlesInv'
<1> DEFINE i == file_index(u)
           bits == IF file_table[i].xdf_seq THEN MAKE_SEQ_HANDLE(a, i)
                   ELSE MAKE_RND_HANDLE(a, i)
           h == [iun |-> u, bits |-> bits]
<1>1. /\ i >= 0 /\ file_table[i].header /\ handles' = handles \cup {h}
      /\ UNCHANGED <<FGFDT, wafile, file_table, STDSEQ_opened, fds, disk>>
  BY DEF Find
<1>2. i \in Indexes /\ file_table[i].iun = u /\ i \in 0..(MaxXdfFiles - 1) /\ a \in Nat
  BY <1>1, IndexFound, SizesAre
<1>3. bits % SeqFiles = i % SeqFiles /\ (~STDSEQ_opened => bits % MaxXdfFiles = i)
  <2> HIDE DEF i
  <2>1. CASE file_table[i].xdf_seq
    <3>1. STDSEQ_opened /\ i < SeqFiles
      BY <1>1, <1>2, <2>1 DEF HandlesInv, IndexesFit
    <3>2. i \in 0..(SeqFiles - 1)
      BY <1>2, <3>1, SizesAre
    <3>3. (i + SeqFiles * a) % SeqFiles = i /\ i % SeqFiles = i
      BY <1>2, <3>2, SizesAre, Unpacked, SmallRemainder
    <3>4. bits = i + SeqFiles * a
      BY <2>1 DEF MAKE_SEQ_HANDLE
    <3> HIDE DEF bits
    <3> QED
      BY <3>1, <3>3, <3>4
  <2>2. CASE ~file_table[i].xdf_seq
    <3>1. i % MaxXdfFiles = i
      BY <1>2, SizesAre, SmallRemainder
    <3>2. (i + MaxXdfFiles * a) % MaxXdfFiles = i
      BY <1>2, SizesAre, Unpacked
    <3>3. (i + MaxXdfFiles * a) % SeqFiles = i % SeqFiles
      BY <1>2, UnpackedBelow
    <3>4. bits = i + MaxXdfFiles * a
      BY <2>2, <3>1 DEF MAKE_RND_HANDLE
    <3> HIDE DEF bits
    <3> QED
      BY <3>2, <3>3, <3>4
  <2> QED
    BY <2>1, <2>2
<1>4. IndexesFit'
  BY <1>1 DEF HandlesInv, IndexesFit
<1>5. ASSUME NEW g \in handles'
      PROVE  \E j \in Indexes : /\ file_table'[j].header /\ file_table'[j].iun = g.iun
                                /\ g.bits % SeqFiles = j % SeqFiles
                                /\ ~STDSEQ_opened' => g.bits % MaxXdfFiles = j
  <2>1. CASE g \in handles
    BY <1>1, <2>1 DEF HandlesInv, HandlesLead
  <2>2. CASE g = h
    <3>1. g.iun = u /\ g.bits = bits
      BY <2>2
    <3> HIDE DEF i, bits, h
    <3> QED
      BY <1>1, <1>2, <1>3, <3>1
  <2> QED
    BY <1>1, <1>5, <2>1, <2>2
<1>6. TablesInv'
  BY <1>1 DEF HandlesInv, TablesInv, TablesTyped, EntriesAreUnique, EntriesLead,
              IndexesAreUnique, FilesAreOpen
<1> HIDE DEF i, bits, h
<1> QED
  BY <1>4, <1>5, <1>6 DEF HandlesInv, HandlesLead

LEMMA HandlesVoided ==
  ASSUME HandlesInv, NEW u \in Bottom..Top, XdfClose(u)
  PROVE  IndexesFit' /\ HandlesLead'
<1> DEFINE i == file_index(u)
<1>1. /\ i >= 0 /\ file_table' = [file_table EXCEPT ![i] = FreeXdf]
      /\ handles' = {h \in handles : h.iun # u} /\ UNCHANGED STDSEQ_opened
  BY DEF XdfClose
<1>2. i \in Indexes /\ file_table[i].iun = u
  BY <1>1, IndexFound
<1> HIDE DEF i
<1>3. /\ file_table'[i] = FreeXdf /\ ~FreeXdf.header
      /\ \A j \in Indexes \ {i} : file_table'[j] = file_table[j]
  BY <1>1, <1>2 DEF HandlesInv, TablesInv, TablesTyped, FreeXdf
<1>4. IndexesFit'
  BY <1>1, <1>3 DEF HandlesInv, IndexesFit
<1>5. HandlesLead'
  BY <1>1, <1>2, <1>3 DEF HandlesInv, HandlesLead
<1> QED
  BY <1>4, <1>5

\* c_xdfopn gives a free index, and sequential files have low ones.
LEMMA HandlesKept ==
  ASSUME SeqTyped, LowIndices, HandlesInv, NEW u \in Bottom..Top, NEW create \in BOOLEAN,
         XdfOpen(u, create)
  PROVE  IndexesFit' /\ HandlesLead'
<1> DEFINE i == get_free_index
           e == find_file_entry(u)
           en == FGFDT[e]
           file == en.name.file
           seq == en.seq
<1>1. /\ i >= 0 /\ UNCHANGED handles
      /\ LowIndices /\ e >= 0 /\ (seq \/ disk[file] = "seq") =>
             \A x \in Indexes : x = i \/ file_table[x].header => x < SeqFiles
  BY Zenon DEF XdfOpen
<1>2. \/ UNCHANGED STDSEQ_opened /\ XdfLeaving(u)
      \/ /\ e >= 0 /\ STDSEQ_opened' = (STDSEQ_opened \/ seq)
         /\ \/ XdfLeaving(u)
            \/ XdfOpening(u, create, [iun |-> u, header |-> TRUE, xdf_seq |-> seq])
            \/ \E content :
                  /\ SeqTyped /\ content = "seq" => seq
                  /\ XdfOpening(u, create, FromHeader(u, content, seq))
  <2>1. IF e < 0 \/ ~en.rnd
        THEN XdfLeaving(u) /\ UNCHANGED STDSEQ_opened
        ELSE /\ STDSEQ_opened' = (STDSEQ_opened \/ seq)
             /\ \/ XdfLeaving(u)
                \/ XdfOpening(u, create, [iun |-> u, header |-> TRUE, xdf_seq |-> seq])
                \/ \E content :
                      /\ SeqTyped /\ content = "seq" => seq
                      /\ XdfOpening(u, create, FromHeader(u, content, seq))
    BY Zenon DEF XdfOpen
  <2>2. e < 0 \/ e >= 0
    <3>1. e = -1 \/ e \in Nat
      BY EntryFound, TablesAreNat
    <3> HIDE DEF e
    <3> QED
      BY <3>1
  <2> HIDE DEF e, en, file, seq
  <2> QED
    BY <2>1, <2>2, Zenon
<1>3. i \in Indexes /\ file_table[i].iun = -1 /\ (STDSEQ_opened => i < SeqFiles)
  BY <1>1, FreeIndexFound, TablesAreNat
<1>4. ~file_table[i].header
  BY <1>3, UnitsPositive DEF HandlesInv, TablesInv, FilesAreOpen
<1> HIDE DEF e, en, file, seq, i
<1>5. ASSUME STDSEQ_opened'
      PROVE  \A x \in Indexes : x = i \/ file_table[x].header => x < SeqFiles
  <2>1. CASE STDSEQ_opened
    BY <1>3, <2>1 DEF HandlesInv, IndexesFit
  <2>2. CASE e >= 0 /\ seq
    BY <1>1, <2>2
  <2> QED
    BY <1>2, <1>5, <2>1, <2>2
<1>6. STDSEQ_opened => STDSEQ_opened'
  BY <1>2
<1>7. PICK z : /\ file_table' = [file_table EXCEPT ![i] = z]
               /\ z.header /\ z.xdf_seq => STDSEQ_opened'
  <2>1. CASE XdfLeaving(u)
    <3> DEFINE y == [file_table[i] EXCEPT !.iun = u]
    <3>1. file_table' = [file_table EXCEPT ![i] = y]
      BY <1>3, <2>1 DEF XdfLeaving, HandlesInv, TablesInv, TablesTyped, i
    <3>2. ~y.header
      BY <1>3, <1>4 DEF HandlesInv, TablesInv, TablesTyped, XdfSet
    <3> QED
      BY <3>1, <3>2
  <2>2. CASE /\ e >= 0 /\ STDSEQ_opened' = (STDSEQ_opened \/ seq)
             /\ XdfOpening(u, create, [iun |-> u, header |-> TRUE, xdf_seq |-> seq])
    <3> DEFINE y == [iun |-> u, header |-> TRUE, xdf_seq |-> seq]
    <3>1. file_table' = [file_table EXCEPT ![i] = y]
      BY <2>2 DEF XdfOpening, i
    <3>2. y.xdf_seq => STDSEQ_opened'
      BY <2>2
    <3> QED
      BY <3>1, <3>2
  <2>3. ASSUME e >= 0, STDSEQ_opened' = (STDSEQ_opened \/ seq), NEW content,
               SeqTyped /\ content = "seq" => seq,
               XdfOpening(u, create, FromHeader(u, content, seq))
        PROVE  \E z : /\ file_table' = [file_table EXCEPT ![i] = z]
                      /\ z.header /\ z.xdf_seq => STDSEQ_opened'
    <3>1. file_table' = [file_table EXCEPT ![i] = FromHeader(u, content, seq)]
      BY <2>3 DEF XdfOpening, i
    <3>2. LET y == FromHeader(u, content, seq)
          IN  y.header /\ y.xdf_seq => STDSEQ_opened'
      <4>1. CASE content \in {"other", "busy"}
        <5>1. ~FromHeader(u, content, seq).header
          BY <4>1 DEF FromHeader, FreeXdf
        <5> QED
          BY <5>1
      <4>2. CASE content \notin {"other", "busy"}
        <5> DEFINE b == seq \/ content = "seq"
        <5>1. FromHeader(u, content, seq) = [iun |-> u, header |-> TRUE, xdf_seq |-> b]
          BY <4>2 DEF FromHeader
        <5>2. b => STDSEQ_opened'
          BY <2>3
        <5> HIDE DEF b
        <5> QED
          BY <5>1, <5>2
      <4> QED
        BY <4>1, <4>2
    <3> QED
      BY <3>1, <3>2
  <2> QED
    BY <1>2, <2>1, <2>2, <2>3
<1>8. file_table'[i] = z /\ \A j \in Indexes \ {i} : file_table'[j] = file_table[j]
  BY <1>3, <1>7 DEF HandlesInv, TablesInv, TablesTyped
<1>9. IndexesFit'
  BY <1>3, <1>5, <1>6, <1>7, <1>8 DEF HandlesInv, IndexesFit
<1>10. HandlesLead'
  BY <1>1, <1>3, <1>4, <1>6, <1>8 DEF HandlesInv, HandlesLead
<1> QED
  BY <1>9, <1>10

LEMMA HandlesStep ==
  ASSUME SeqTyped, LowIndices, HandlesInv, [Next]_vars
  PROVE  HandlesInv'
<1>1. TablesInv'
  BY TablesStep DEF HandlesInv
<1>2. ASSUME UNCHANGED <<file_table, STDSEQ_opened, handles>> PROVE IndexesFit' /\ HandlesLead'
  BY <1>2 DEF HandlesInv, IndexesFit, HandlesLead
<1>3. CASE Next
  <2>1. \/ UNCHANGED <<file_table, STDSEQ_opened, handles>>
        \/ \E u \in Bottom..Top : XdfClose(u)
        \/ \E u \in Units, create \in BOOLEAN : XdfOpen(u, create)
        \/ \E u \in Bottom..Top, a \in Addresses : Find(u, a)
    <3>1. ASSUME NEW asked, NEW name, NEW type, Fnom(asked, name, type)
          PROVE  UNCHANGED <<file_table, STDSEQ_opened, handles>>
      BY <3>1, Zenon DEF Fnom
    <3>2. ASSUME NEW u, Fclos(u) \/ WaOpen(u) \/ WaClose(u) \/ WaSize(u)
          PROVE  UNCHANGED <<file_table, STDSEQ_opened, handles>>
      BY <3>2 DEF Fclos, WaOpen, WaClose, WaSize
    <3> QED
      BY <1>3, <3>1, <3>2 DEF Next, FstOuv
  <2>2. Units \subseteq Bottom..Top
    BY TableAssumption
  <2> QED
    BY <1>1, <1>2, <2>1, <2>2, HandlesVoided, HandlesKept, HandleFound DEF HandlesInv
<1>4. CASE UNCHANGED vars
  BY <1>1, <1>2, <1>4 DEF vars, HandlesInv
<1> QED
  BY <1>3, <1>4

\* As long as the file of a handle is open the index taken out of the handle is that
\* of the file (INDEX_FROM_HANDLE), when a sequential file is connected as one and the
\* first is opened while every open file has a low index.
THEOREM HandlesCorrect ==
  ASSUME SeqTyped, LowIndices
  PROVE  Spec => []HandlesNameTheirFiles
<1>1. Init => HandlesInv
  <2> SUFFICES ASSUME Init PROVE IndexesFit /\ HandlesLead
    BY TablesInit DEF HandlesInv
  <2>1. \A i \in Indexes : ~file_table[i].header
    BY DEF Init, ReservedXdf, FreeXdf
  <2> QED
    BY <2>1 DEF Init, IndexesFit, HandlesLead
<1>2. HandlesInv /\ [Next]_vars => HandlesInv'
  BY HandlesStep
<1>3. HandlesInv => HandlesNameTheirFiles
  <2> SUFFICES ASSUME HandlesInv, NEW h \in handles
               PROVE  INDEX_FROM_HANDLE(h.bits) = file_index(h.iun)
    BY DEF HandlesNameTheirFiles
  <2>1. PICK i \in Indexes : /\ file_table[i].header /\ file_table[i].iun = h.iun
                             /\ h.bits % SeqFiles = i % SeqFiles
                             /\ ~STDSEQ_opened => h.bits % MaxXdfFiles = i
    BY DEF HandlesInv, HandlesLead
  <2>2. file_index(h.iun) = i
    BY <2>1, IndexIs, UnitsPositive DEF HandlesInv, TablesInv, FilesAreOpen
  <2>3. STDSEQ_opened => i % SeqFiles = i
    <3> SUFFICES ASSUME STDSEQ_opened PROVE i % SeqFiles = i
      OBVIOUS
    <3>1. i \in 0..(SeqFiles - 1)
      BY <2>1, SizesAre DEF HandlesInv, IndexesFit
    <3> QED
      BY <3>1, SizesAre, SmallRemainder
  <2> QED
    BY <2>1, <2>2, <2>3 DEF INDEX_FROM_HANDLE
<1> QED
  BY <1>1, <1>2, <1>3, PTL DEF Spec
=============================================================================
