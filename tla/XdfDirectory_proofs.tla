-------------------------- MODULE XdfDirectory_proofs --------------------------
(***************************************************************************)
(* The directory of a random XDF file, in memory and on disk: theorems     *)
(* about XdfRandom, for every page size, number of pages, length of        *)
(* records and bound, through appends, rewrites, new pages, deletions,     *)
(* edits, checkpoints, closes and crashes.                                 *)
(*                                                                         *)
(* They suppose that the application does not close a file that it was     *)
(* refused: that call clears the writer's flag on disk (LockHolds), and a  *)
(* torn directory may then be opened for writing.                          *)
(***************************************************************************)
EXTENDS XdfRandom_proofs, FiniteSetTheorems

NeverClosesRefused == "closeRefused" \notin Calls

ForWriting == st = "open" /\ header.rwflg # RDMODE
ForReading == st = "open" /\ header.rwflg = RDMODE

-----------------------------------------------------------------------------
(* A directory: a header hd, the pages pg and their entries en.            *)

PageIn(hd, p)       == p < hd.nbd
EntryIn(hd, pg, h)  == h[1] < hd.nbd /\ h[2] < pg[h[1]].nent
PageHas(pg, p, a)   == a \in Extent(pg[p].addr, PageLen)
EntryHas(en, h, a)  == a \in Extent(en[h].addr, en[h].lng)

\* Pages and records claim every unit up to fsiz, each once.
Covers(hd, pg, en) ==
  \A a \in Addr :
    a \in HeaderLen + 1 .. hd.fsiz
    <=> \/ \E p \in Page : PageIn(hd, p) /\ PageHas(pg, p, a)
        \/ \E h \in Handle : EntryIn(hd, pg, h) /\ EntryHas(en, h, a)

Disjoint(hd, pg, en) ==
  \A a \in Addr :
    /\ \A p, q \in Page :
         PageIn(hd, p) /\ PageHas(pg, p, a) /\ PageIn(hd, q) /\ PageHas(pg, q, a) => p = q
    /\ \A g, h \in Handle :
         EntryIn(hd, pg, g) /\ EntryHas(en, g, a) /\ EntryIn(hd, pg, h) /\ EntryHas(en, h, a)
           => g = h
    /\ \A p \in Page, h \in Handle :
         ~(PageIn(hd, p) /\ PageHas(pg, p, a) /\ EntryIn(hd, pg, h) /\ EntryHas(en, h, a))

\* What it describes is in the file, and has keys.
Within(hd, pg, en) ==
  /\ \A p \in Page : PageIn(hd, p) => pg[p].addr >= 1 /\ pg[p].addr + PageLen - 1 <= hd.fsiz
  /\ \A h \in Handle : EntryIn(hd, pg, h) =>
       /\ en[h].addr >= 1 /\ en[h].addr + en[h].lng - 1 <= hd.fsiz
       /\ en[h].lng \in Lens /\ en[h].key \in Keys

Chained(hd, pg) ==
  \A p \in Page :
    /\ p < hd.nbd - 1 => pg[p].nent = EntriesPerPage /\ pg[p].nxt_addr = pg[p + 1].addr
    /\ p = hd.nbd - 1 => pg[p].nxt_addr = 0

Counted(hd, pg, en) ==
  /\ hd.nrec = Cardinality({h \in Handle : EntryIn(hd, pg, h) /\ en[h].idtyp = LIVE})
  /\ hd.nxtn = Cardinality({h \in Handle : EntryIn(hd, pg, h)})
  /\ hd.nrwr <= hd.neff

Consistent(hd, pg, en) ==
  /\ Covers(hd, pg, en) /\ Disjoint(hd, pg, en) /\ Within(hd, pg, en)
  /\ Chained(hd, pg) /\ Counted(hd, pg, en)

-----------------------------------------------------------------------------
(* The invariant.                                                          *)

\* The data of an entry are one value.
Whole(e) == \E v \in Values : \A a \in Body(e) : store[a] = v

\* Page p is on disk as it is in memory, but for the keys; or with them.
SamePlaces(p) ==
  /\ dpage[p].nent = page[p].nent /\ dpage[p].addr = page[p].addr
  /\ dpage[p].nxt_addr = page[p].nxt_addr
  /\ \A h \in Handle : h[1] = p =>
       /\ dentry[h].idtyp = entry[h].idtyp
       /\ dentry[h].addr = entry[h].addr /\ dentry[h].lng = entry[h].lng
Synced(p) == SamePlaces(p) /\ \A h \in Handle : h[1] = p => dentry[h] = entry[h]

\* c_xdfcls has nothing to write of page p, or has written it.
Settled(p) == ~page[p].modified \/ ~modified \/ p < flush.at

\* Page p on disk is an earlier state of the page in memory.
Earlier(p) ==
  /\ dpage[p].addr = page[p].addr /\ dpage[p].nent <= page[p].nent
  /\ \A h \in Handle : h[1] = p /\ h[2] < dpage[p].nent =>
       /\ dentry[h].addr = entry[h].addr /\ dentry[h].lng = entry[h].lng
       /\ dentry[h].key \in Keys

\* What memory holds of a file open for writing is in the file: the data of every record, also
\* of deleted ones, and its header until c_xdfcls writes over it.
MemoryStored ==
  /\ \A p \in Page : p < npages => store[page[p].addr] = "dir"
  /\ \A h \in Handle : Used(h) =>
       /\ Whole(entry[h])
       /\ entry[h].idtyp \in {LIVE, 254} => HeaderKept(entry[h])

\* A page that the header on disk does not count, or that no chain leads to, is empty there.
DiskBehind ==
  /\ dheader.nbd <= npages
  /\ flush.at # -1 => dheader = header
  /\ \A p \in Page : p < npages =>
       /\ Earlier(p)
       /\ p >= dheader.nbd => dpage[p].nent = 0
       /\ ~Reached(p) => dpage[p].nent = 0
       /\ Settled(p) => Synced(p)

WritingInv == ForWriting =>
  Consistent(header, page, entry) /\ MemoryStored /\ DiskBehind

\* A file open for reading shows the pages that the chain on disk leads to; of what it has
\* in memory only keys may differ.
ReadingInv == ForReading =>
  /\ dheader.nbd = npages
  /\ \A p \in Page : p < npages =>
       /\ Reached(p) => SamePlaces(p)
       /\ ~Reached(p) => page[p].nent = 0 /\ ~page[p].modified
       /\ Reached(p) /\ Settled(p) => Synced(p)
  /\ \A h \in Handle : Used(h) => entry[h].key \in Keys

\* The pages and the entries that opening the file would read.
DiskPage(p)  == p < dheader.nbd /\ Reached(p)
DiskEntry(h) == DiskPage(h[1]) /\ h[2] < dpage[h[1]].nent

DiskSafe ==
  /\ \A p \in Page : DiskPage(p) =>
       /\ dpage[p].addr >= 1 /\ dpage[p].addr + PageLen - 1 <= MaxAddr
       /\ store[dpage[p].addr] = "dir"
  /\ \A h \in Handle : DiskEntry(h) =>
       /\ dentry[h].addr >= 1 /\ dentry[h].addr + dentry[h].lng - 1 <= MaxAddr
       /\ dentry[h].lng \in Lens /\ dentry[h].key \in Keys
       /\ Whole(dentry[h])
  /\ \A p \in Page, h \in Handle, a \in Addr :
       DiskPage(p) /\ DiskEntry(h) => ~(PageHas(dpage, p, a) /\ EntryHas(dentry, h, a))

\* Deletions and marks reach the disk as they are after the write of their page.
DiskMarks ==
  /\ \A h \in Handle : h[2] < dpage[h[1]].nent => dentry[h].idtyp # 254
  /\ \A p \in Page : ~dpage[p].modified

\* A header without the writer's flag stands before a directory that is consistent, and whose
\* records have their own headers.
HeadersKept ==
  \A h \in Handle :
    EntryIn(dheader, dpage, h) /\ dentry[h].idtyp = LIVE => HeaderKept(dentry[h])
CleanDisk == dheader.rwflg = RDMODE /\ dheader.nbd # 0 =>
               Consistent(dheader, dpage, dentry) /\ HeadersKept

DiskInv == DiskMarks /\ DiskSafe /\ CleanDisk

NotOpenInv == st # "open" => flush = NoFlush /\ npages = 0

DirectoryInv == TypeInv /\ NotOpenInv /\ WritingInv /\ ReadingInv /\ DiskInv

-----------------------------------------------------------------------------
(* Directories that describe the same places.                              *)

\* Two directories with as many pages and entries at the same places.
SamePages(hd, pg, pg2) ==
  \A p \in Page : PageIn(hd, p) =>
    /\ pg2[p].nent = pg[p].nent /\ pg2[p].addr = pg[p].addr /\ pg2[p].nxt_addr = pg[p].nxt_addr
SameEntries(hd, pg, en, en2) ==
  \A h \in Handle : EntryIn(hd, pg, h) =>
    en2[h].addr = en[h].addr /\ en2[h].lng = en[h].lng /\ en2[h].key \in Keys
SameLive(hd, pg, en, en2) ==
  \A h \in Handle : EntryIn(hd, pg, h) => (en2[h].idtyp = LIVE <=> en[h].idtyp = LIVE)

LEMMA EntriesAgree ==
  ASSUME NEW hd, NEW pg, NEW hd2, NEW pg2, hd2.nbd = hd.nbd, SamePages(hd, pg, pg2)
  PROVE  /\ \A p \in Page : PageIn(hd2, p) <=> PageIn(hd, p)
         /\ \A h \in Handle : EntryIn(hd2, pg2, h) <=> EntryIn(hd, pg, h)
         /\ \A p \in Page, a \in Addr : PageIn(hd, p) => (PageHas(pg2, p, a) <=> PageHas(pg, p, a))
<1>1. \A h \in Handle : h[1] \in Page
  BY DEF Handle
<1> QED
  BY <1>1 DEF SamePages, PageIn, EntryIn, PageHas

\* They tile the file alike.
LEMMA PlacesAgree ==
  ASSUME NEW hd \in HeaderSet, NEW pg, NEW en, NEW hd2, NEW pg2, NEW en2,
         hd2.nbd = hd.nbd, hd2.fsiz = hd.fsiz,
         SamePages(hd, pg, pg2), SameEntries(hd, pg, en, en2),
         Covers(hd, pg, en), Disjoint(hd, pg, en), Within(hd, pg, en), Chained(hd, pg)
  PROVE  /\ Covers(hd2, pg2, en2) /\ Disjoint(hd2, pg2, en2) /\ Within(hd2, pg2, en2)
         /\ Chained(hd2, pg2)
<1>1. /\ \A p \in Page : PageIn(hd2, p) <=> PageIn(hd, p)
      /\ \A h \in Handle : EntryIn(hd2, pg2, h) <=> EntryIn(hd, pg, h)
      /\ \A p \in Page, a \in Addr : PageIn(hd, p) => (PageHas(pg2, p, a) <=> PageHas(pg, p, a))
  BY EntriesAgree
<1>2. \A h \in Handle, a \in Addr :
        EntryIn(hd, pg, h) => (EntryHas(en2, h, a) <=> EntryHas(en, h, a))
  BY DEF SameEntries, EntryHas
<1>3. Covers(hd2, pg2, en2)
  BY <1>1, <1>2 DEF Covers
<1>4. Disjoint(hd2, pg2, en2)
  BY <1>1, <1>2 DEF Disjoint
<1>5. Within(hd2, pg2, en2)
  BY <1>1 DEF Within, SamePages, SameEntries
<1>6. Chained(hd2, pg2)
  <2> SUFFICES ASSUME NEW p \in Page
               PROVE  /\ p < hd.nbd - 1 => /\ pg2[p].nent = EntriesPerPage
                                           /\ pg2[p].nxt_addr = pg2[p + 1].addr
                      /\ p = hd.nbd - 1 => pg2[p].nxt_addr = 0
    BY DEF Chained
  <2>1. hd.nbd \in 0 .. MaxDirPages
    BY DEF HeaderSet
  <2>2. p < hd.nbd - 1 => p + 1 \in Page /\ PageIn(hd, p) /\ PageIn(hd, p + 1)
    BY <2>1, SizesAssumption DEF Page, PageIn
  <2>3. p = hd.nbd - 1 => PageIn(hd, p)
    BY <2>1 DEF Page, PageIn
  <2> QED
    BY <2>2, <2>3 DEF Chained, SamePages
<1> QED
  BY <1>3, <1>4, <1>5, <1>6

\* They count alike.
LEMMA CountsAgree ==
  ASSUME NEW hd, NEW pg, NEW en, NEW hd2, NEW pg2, NEW en2,
         hd2.nbd = hd.nbd, SamePages(hd, pg, pg2), SameLive(hd, pg, en, en2),
         hd2.nrec = hd.nrec, hd2.nxtn = hd.nxtn, hd2.nrwr <= hd2.neff,
         Counted(hd, pg, en)
  PROVE  Counted(hd2, pg2, en2)
<1>1. \A h \in Handle : EntryIn(hd2, pg2, h) <=> EntryIn(hd, pg, h)
  BY EntriesAgree
<1>2. {h \in Handle : EntryIn(hd2, pg2, h)} = {h \in Handle : EntryIn(hd, pg, h)}
  BY <1>1
<1>3. {h \in Handle : EntryIn(hd2, pg2, h) /\ en2[h].idtyp = LIVE}
      = {h \in Handle : EntryIn(hd, pg, h) /\ en[h].idtyp = LIVE}
  BY <1>1 DEF SameLive
<1> QED
  BY <1>2, <1>3 DEF Counted

-----------------------------------------------------------------------------
(* What an open file knows of the disk.                                    *)

LEMMA Fields ==
  ASSUME TypeInv
  PROVE  /\ \A h \in Handle :
              /\ h[1] \in Page /\ h[2] \in Rec
              /\ entry[h] \in EntrySet /\ dentry[h] \in EntrySet
              /\ entry[h].addr \in 0 .. MaxAddr /\ dentry[h].addr \in 0 .. MaxAddr
              /\ entry[h].lng \in Nat /\ dentry[h].lng \in Nat
         /\ \A p \in Page :
              /\ page[p] \in PageSet /\ dpage[p] \in PageSet
              /\ page[p].nent \in 0 .. EntriesPerPage /\ dpage[p].nent \in 0 .. EntriesPerPage
              /\ page[p].addr \in 0 .. MaxAddr + 1 /\ dpage[p].addr \in 0 .. MaxAddr + 1
<1>1. /\ entry \in [Handle -> EntrySet] /\ dentry \in [Handle -> EntrySet]
      /\ page \in [Page -> PageSet] /\ dpage \in [Page -> PageSet]
  BY DEF TypeInv, TypeOK
<1>2. \A e \in EntrySet : e.addr \in 0 .. MaxAddr /\ e.lng \in Nat
  <2>1. Lens \cup {0} \subseteq Nat
    BY SizesAssumption
  <2> QED
    BY <2>1 DEF EntrySet
<1>3. \A g \in PageSet : g.nent \in 0 .. EntriesPerPage /\ g.addr \in 0 .. MaxAddr + 1
  BY DEF PageSet
<1> QED
  BY <1>1, <1>2, <1>3 DEF Handle

\* The header of an open file counts its pages, so that Used is EntryIn.
LEMMA OpenIn ==
  ASSUME TypeInv, st = "open"
  PROVE  /\ \A p : PageIn(header, p) <=> p < npages
         /\ \A h : EntryIn(header, page, h) <=> Used(h)
         /\ npages \in 1 .. MaxDirPages /\ header.nbd = npages
         /\ header \in HeaderSet /\ header.fsiz \in 0 .. MaxAddr
         /\ Last \in Page
BY SizesAssumption
   DEF TypeInv, TypeOK, PagesCounted, PageIn, EntryIn, Used, HeaderSet, Last, Page

\* On a whole chain every page is reached.
LEMMA ChainReaches ==
  ASSUME NEW hd \in HeaderSet, Chained(hd, dpage), NEW p \in Page, PageIn(hd, p)
  PROVE  Reached(p)
BY DEF Chained, PageIn, Reached, Page, HeaderSet

\* What a file open for writing left on disk is safe: it is an earlier state of a directory
\* that tiles the file.
LEMMA WritingSafe == TypeInv /\ ForWriting /\ WritingInv => DiskSafe
<1> SUFFICES ASSUME TypeInv, ForWriting, WritingInv PROVE DiskSafe
  OBVIOUS
<1>1. Consistent(header, page, entry) /\ MemoryStored /\ DiskBehind
  BY DEF WritingInv
<1>2. st = "open" /\ page \in [Page -> PageSet] /\ dpage \in [Page -> PageSet]
  BY DEF ForWriting, TypeInv, TypeOK
<1>3. /\ \A p : PageIn(header, p) <=> p < npages
      /\ \A h : EntryIn(header, page, h) <=> Used(h)
      /\ npages \in 1 .. MaxDirPages /\ header.nbd = npages
      /\ header.fsiz \in 0 .. MaxAddr
  BY <1>2, OpenIn
<1>4. dheader.nbd <= npages /\ dheader.nbd \in 0 .. MaxDirPages
  BY <1>1 DEF DiskBehind, TypeInv, TypeOK, HeaderSet
<1>5. \A p \in Page : DiskPage(p) => p < npages /\ Earlier(p)
  BY <1>1, <1>3, <1>4 DEF DiskPage, DiskBehind, Page
<1>6. \A h \in Handle : DiskEntry(h) => /\ Used(h) /\ h[1] < npages /\ Earlier(h[1])
                                        /\ h[2] < dpage[h[1]].nent
  <2> TAKE h \in Handle
  <2> HAVE DiskEntry(h)
  <2>1. h[1] \in Page /\ h[2] \in Int
    BY DEF Handle, Rec
  <2>2. h[1] < npages /\ Earlier(h[1]) /\ h[2] < dpage[h[1]].nent
    BY <1>5, <2>1 DEF DiskEntry
  <2>3. page[h[1]].nent \in Int /\ dpage[h[1]].nent \in Int
    BY <1>2, <2>1 DEF PageSet
  <2> QED
    BY <2>1, <2>2, <2>3 DEF Used, Earlier
<1>7. \A p \in Page : DiskPage(p) =>
        /\ dpage[p].addr >= 1 /\ dpage[p].addr + PageLen - 1 <= MaxAddr
        /\ store[dpage[p].addr] = "dir"
  <2> TAKE p \in Page
  <2> HAVE DiskPage(p)
  <2>1. p < npages /\ dpage[p].addr = page[p].addr
    BY <1>5 DEF Earlier
  <2>2. page[p].addr >= 1 /\ page[p].addr + PageLen - 1 <= header.fsiz
    BY <1>1, <1>3, <2>1 DEF Consistent, Within
  <2>3. page[p].addr \in Int
    BY <1>2 DEF PageSet
  <2> QED
    BY <1>1, <1>3, <2>1, <2>2, <2>3, SizesAssumption DEF MemoryStored
<1>8. \A h \in Handle : DiskEntry(h) =>
        /\ dentry[h].addr >= 1 /\ dentry[h].addr + dentry[h].lng - 1 <= MaxAddr
        /\ dentry[h].lng \in Lens /\ dentry[h].key \in Keys
        /\ Whole(dentry[h])
  <2> TAKE h \in Handle
  <2> HAVE DiskEntry(h)
  <2>1. /\ Used(h)
        /\ dentry[h].addr = entry[h].addr /\ dentry[h].lng = entry[h].lng
        /\ dentry[h].key \in Keys
    BY <1>6 DEF Earlier
  <2>2. /\ entry[h].addr >= 1 /\ entry[h].addr + entry[h].lng - 1 <= header.fsiz
        /\ entry[h].lng \in Lens
    BY <1>1, <1>3, <2>1 DEF Consistent, Within
  <2>3. entry[h].addr \in Int /\ entry[h].lng \in Int
    BY Fields
  <2>4. Whole(dentry[h])
    BY <1>1, <2>1 DEF MemoryStored, Whole, Body
  <2> QED
    BY <1>3, <2>1, <2>2, <2>3, <2>4, SizesAssumption
<1>9. \A p \in Page, h \in Handle, a \in Addr :
        DiskPage(p) /\ DiskEntry(h) => ~(PageHas(dpage, p, a) /\ EntryHas(dentry, h, a))
  <2> TAKE p \in Page, h \in Handle, a \in Addr
  <2> HAVE DiskPage(p) /\ DiskEntry(h)
  <2>1. p < npages /\ dpage[p].addr = page[p].addr
    BY <1>5 DEF Earlier
  <2>2. Used(h) /\ dentry[h].addr = entry[h].addr /\ dentry[h].lng = entry[h].lng
    BY <1>6 DEF Earlier
  <2>3. Disjoint(header, page, entry)
    BY <1>1 DEF Consistent
  <2> QED
    BY <1>3, <2>1, <2>2, <2>3 DEF Disjoint, PageHas, EntryHas
<1> QED
  BY <1>7, <1>8, <1>9 DEF DiskSafe

LEMMA WritingSafeNext == TypeInv' /\ ForWriting' /\ WritingInv' => DiskSafe'
BY WritingSafe, PTL

\* A step into, or of, a file open for writing keeps the invariant when it keeps these parts.
LEMMA WritingStep ==
  ASSUME TypeInv', ForWriting', Consistent(header, page, entry)', MemoryStored', DiskBehind',
         DiskMarks', CleanDisk'
  PROVE  DirectoryInv'
<1>1. WritingInv'
  BY DEF WritingInv
<1>2. DiskSafe'
  BY <1>1, WritingSafeNext
<1>3. NotOpenInv' /\ ReadingInv'
  BY DEF ForWriting, NotOpenInv, ReadingInv, ForReading
<1> QED
  BY <1>1, <1>2, <1>3 DEF DirectoryInv, DiskInv

\* A step that leaves the disk alone keeps what is known of the disk alone.
LEMMA DiskFrame ==
  ASSUME DiskInv, UNCHANGED <<dpage, dentry, store>>,
         dheader' = dheader \/ (dheader'.nbd = dheader.nbd /\ CleanDisk')
  PROVE  DiskInv'
<1>1. DiskMarks'
  BY DEF DiskInv, DiskMarks
<1>2. DiskSafe'
  BY DEF DiskInv, DiskSafe, DiskPage, DiskEntry, Reached, Whole
<1>3. CleanDisk'
  BY DEF DiskInv, CleanDisk, HeadersKept, HeaderKept
<1> QED
  BY <1>1, <1>2, <1>3 DEF DiskInv

\* Nor does a step that writes data over data.
LEMMA CleanFrame ==
  ASSUME TypeInv, CleanDisk, UNCHANGED <<dheader, dpage, dentry>>,
         \A a \in Addr : store[a] \in Values => store'[a] \in Values
  PROVE  CleanDisk'
<1> SUFFICES ASSUME Consistent(dheader, dpage, dentry), HeadersKept,
                    NEW h \in Handle, EntryIn(dheader, dpage, h), dentry[h].idtyp = LIVE
             PROVE  store'[dentry[h].addr] \in Values
  BY DEF CleanDisk, HeadersKept, HeaderKept
<1>1. /\ dentry[h].addr >= 1 /\ dentry[h].addr + dentry[h].lng - 1 <= dheader.fsiz
      /\ dentry[h].lng \in Lens
  BY DEF Consistent, Within
<1>2. dheader.fsiz \in 0 .. MaxAddr /\ dentry[h].addr \in 0 .. MaxAddr
  BY Fields DEF TypeInv, TypeOK, HeaderSet
<1>3. dentry[h].addr \in Addr
  BY <1>1, <1>2 DEF Addr
<1> QED
  BY <1>3 DEF HeadersKept, HeaderKept

-----------------------------------------------------------------------------
(* Steps of a file open for writing that put nothing at the end.           *)

LEMMA WritingFacts ==
  ASSUME DirectoryInv, ForWriting
  PROVE  /\ TypeInv /\ st = "open" /\ DiskMarks /\ DiskSafe /\ CleanDisk
         /\ Covers(header, page, entry) /\ Disjoint(header, page, entry)
         /\ Within(header, page, entry) /\ Chained(header, page)
         /\ Counted(header, page, entry)
         /\ MemoryStored /\ DiskBehind
BY DEF DirectoryInv, ForWriting, WritingInv, Consistent, DiskInv

\* What an open would read is in memory, at the same place.
LEMMA SavedAreUsed ==
  ASSUME DirectoryInv, ForWriting
  PROVE  /\ \A p \in Page : DiskPage(p) => p < npages /\ dpage[p].addr = page[p].addr
         /\ \A h \in Handle : DiskEntry(h) => Used(h) /\ dentry[h].addr = entry[h].addr
<1>1. TypeInv /\ DiskBehind /\ st = "open"
  BY WritingFacts
<1>2. npages \in Int /\ dheader.nbd \in Int /\ dheader.nbd <= npages
  BY <1>1, OpenIn DEF TypeInv, TypeOK, HeaderSet, DiskBehind
<1>3. \A p \in Page : DiskPage(p) => p < npages /\ Earlier(p)
  BY <1>1, <1>2 DEF DiskPage, DiskBehind, Page
<1>4. ASSUME NEW h \in Handle, DiskEntry(h)
      PROVE  Used(h) /\ dentry[h].addr = entry[h].addr
  <2>1. /\ h[1] \in Page /\ h[2] \in Int
        /\ page[h[1]].nent \in Int /\ dpage[h[1]].nent \in Int
    BY <1>1, Fields DEF Handle, Rec
  <2>2. h[1] < npages /\ Earlier(h[1]) /\ h[2] < dpage[h[1]].nent
    BY <1>3, <1>4, <2>1 DEF DiskEntry
  <2> QED
    BY <2>1, <2>2 DEF Used, Earlier
<1> QED
  BY <1>3, <1>4 DEF Earlier

\* Outside c_xdfcls: entries change in place and their pages are marked.
LEMMA InPlaceStep ==
  ASSUME DirectoryInv, ForWriting, flush.at = -1, TypeInv',
         UNCHANGED <<st, npages, flush, dheader, dpage, dentry>>,
         header'.rwflg = header.rwflg, header'.nbd = header.nbd, header'.fsiz = header.fsiz,
         Counted(header, page, entry)', MemoryStored',
         SamePages(header, page, page'),
         \A h \in Handle : Used(h) =>
           /\ entry'[h].addr = entry[h].addr /\ entry'[h].lng = entry[h].lng
           /\ entry'[h].key \in Keys,
         \A a \in Addr : store[a] \in Values => store'[a] \in Values,
         \A p \in Page : p < npages /\ (~page'[p].modified \/ ~modified') =>
           /\ ~page[p].modified \/ ~modified
           /\ \A h \in Handle : h[1] = p => entry'[h] = entry[h]
  PROVE  DirectoryInv'
<1>1. /\ TypeInv /\ st = "open" /\ DiskMarks /\ DiskSafe /\ CleanDisk
      /\ Covers(header, page, entry) /\ Disjoint(header, page, entry)
      /\ Within(header, page, entry) /\ Chained(header, page)
      /\ Counted(header, page, entry)
      /\ MemoryStored /\ DiskBehind
  BY WritingFacts
<1>2. /\ \A p : PageIn(header, p) <=> p < npages
      /\ \A h : EntryIn(header, page, h) <=> Used(h)
      /\ header \in HeaderSet
  BY <1>1, OpenIn
<1>3. SameEntries(header, page, entry, entry')
  BY <1>2 DEF SameEntries
<1>4. Consistent(header, page, entry)'
  BY <1>1, <1>2, <1>3, PlacesAgree DEF Consistent
<1>5. ForWriting' /\ DiskMarks' /\ CleanDisk'
  BY <1>1, CleanFrame DEF ForWriting, DiskMarks
<1>6. DiskBehind'
  <2>1. dheader'.nbd <= npages' /\ flush'.at = -1
    BY <1>1 DEF DiskBehind
  <2> SUFFICES ASSUME NEW p \in Page, p < npages
               PROVE  /\ Earlier(p)'
                      /\ p >= dheader.nbd => dpage[p].nent = 0
                      /\ ~Reached(p)' => dpage[p].nent = 0
                      /\ Settled(p)' => Synced(p)'
    BY <2>1 DEF DiskBehind
  <2>2. /\ Earlier(p)
        /\ Settled(p) => Synced(p)
        /\ p >= dheader.nbd => dpage[p].nent = 0
        /\ ~Reached(p) => dpage[p].nent = 0
    BY <1>1 DEF DiskBehind
  <2>3. page'[p].nent = page[p].nent /\ page'[p].addr = page[p].addr
        /\ page'[p].nxt_addr = page[p].nxt_addr
    BY <1>2 DEF SamePages
  <2>4. \A h \in Handle : h[1] = p /\ h[2] < dpage[p].nent => Used(h)
    <3>1. dpage[p].nent \in 0 .. EntriesPerPage /\ page[p].nent \in 0 .. EntriesPerPage
      BY <1>1, Fields
    <3>2. dpage[p].nent <= page[p].nent
      BY <2>2 DEF Earlier
    <3> QED
      BY <3>1, <3>2, SizesAssumption DEF Used, Handle, Rec
  <2>5. Earlier(p)'
    <3>1. \A h \in Handle : h[1] = p /\ h[2] < dpage[p].nent =>
            /\ dentry[h].addr = entry'[h].addr /\ dentry[h].lng = entry'[h].lng
            /\ dentry[h].key \in Keys
      BY <2>2, <2>4 DEF Earlier
    <3>2. dpage[p].addr = page'[p].addr /\ dpage[p].nent <= page'[p].nent
      BY <2>2, <2>3 DEF Earlier
    <3> QED
      BY <3>1, <3>2 DEF Earlier
  <2>6. Reached(p)' <=> Reached(p)
    BY DEF Reached
  <2>7. ASSUME Settled(p)' PROVE Synced(p)'
    <3>1. ~page'[p].modified \/ ~modified'
      BY <2>1, <2>7, SizesAssumption DEF Settled, Page
    <3>2. Settled(p) /\ \A h \in Handle : h[1] = p => entry'[h] = entry[h]
      BY <3>1 DEF Settled
    <3>3. SamePlaces(p) /\ \A h \in Handle : h[1] = p => dentry[h] = entry'[h]
      BY <2>2, <3>2 DEF Synced
    <3>4. SamePlaces(p)'
      BY <2>3, <3>2, <3>3 DEF SamePlaces
    <3> QED
      BY <3>3, <3>4 DEF Synced
  <2> QED
    BY <2>2, <2>5, <2>6, <2>7
<1> QED
  BY <1>4, <1>5, <1>6, WritingStep

\* The data of an entry stay when the store does.
LEMMA StoredFrame ==
  ASSUME TypeInv, st = "open", MemoryStored, UNCHANGED <<npages, store>>,
         SamePages(header, page, page'),
         \A h \in Handle : Used(h) =>
           /\ entry'[h].addr = entry[h].addr /\ entry'[h].lng = entry[h].lng
           /\ entry'[h].idtyp \in {LIVE, 254} => entry[h].idtyp \in {LIVE, 254}
  PROVE  MemoryStored'
<1>1. \A p : PageIn(header, p) <=> p < npages
  BY OpenIn
<1>2. \A h \in Handle : Used(h)' <=> Used(h)
  BY <1>1, Fields DEF Used, SamePages
<1>3. \A p \in Page : p < npages => page'[p].addr = page[p].addr
  BY <1>1 DEF SamePages
<1> QED
  BY <1>2, <1>3 DEF MemoryStored, Whole, Body, HeaderKept

\* Touched marks a page and keeps the rest of it.
LEMMA TouchedPage ==
  ASSUME TypeInv, NEW p \in Page, page' = Touched(p)
  PROVE  /\ SamePages(header, page, page')
         /\ \A q \in Page : ~page'[q].modified => q # p /\ page'[q] = page[q]
<1>1. page \in [Page -> PageSet]
  BY DEF TypeInv, TypeOK
<1>2. page'[p] = [page[p] EXCEPT !.modified = TRUE] /\ \A q \in Page : q # p => page'[q] = page[q]
  BY <1>1 DEF Touched
<1>3. page[p] \in PageSet
  BY <1>1
<1> QED
  BY <1>2, <1>3 DEF SamePages, PageSet

LEMMA HandlesFinite == IsFiniteSet(Handle)
<1>1. IsFiniteSet(Page) /\ IsFiniteSet(Rec)
  BY FS_Interval, SizesAssumption DEF Page, Rec
<1> QED
  BY <1>1, FS_Product DEF Handle

\* What the directory names lies in the file.
LEMMA NamedInFile ==
  ASSUME TypeInv, st = "open", Within(header, page, entry)
  PROVE  /\ \A p \in Page : p < npages =>
              /\ page[p].addr \in Extent(page[p].addr, PageLen)
              /\ \A a \in Extent(page[p].addr, PageLen) : a \in Addr /\ a <= header.fsiz
         /\ \A h \in Handle : Used(h) =>
              /\ entry[h].addr \in Extent(entry[h].addr, entry[h].lng)
              /\ \A a \in Extent(entry[h].addr, entry[h].lng) : a \in Addr /\ a <= header.fsiz
              /\ \A a \in Body(entry[h]) : a \in Extent(entry[h].addr, entry[h].lng)
              /\ entry[h].addr \notin Body(entry[h])
<1>1. /\ \A p : PageIn(header, p) <=> p < npages
      /\ \A h : EntryIn(header, page, h) <=> Used(h)
      /\ header.fsiz \in 0 .. MaxAddr
  BY OpenIn
<1>2. ASSUME NEW p \in Page, p < npages
      PROVE  /\ page[p].addr \in Extent(page[p].addr, PageLen)
             /\ \A a \in Extent(page[p].addr, PageLen) : a \in Addr /\ a <= header.fsiz
  <2>1. page[p].addr >= 1 /\ page[p].addr + PageLen - 1 <= header.fsiz
    BY <1>1, <1>2 DEF Within
  <2>2. page[p].addr \in 0 .. MaxAddr + 1
    BY Fields
  <2> QED
    BY <1>1, <2>1, <2>2, SizesAssumption DEF Extent, Addr
<1>3. ASSUME NEW h \in Handle, Used(h)
      PROVE  /\ entry[h].addr \in Extent(entry[h].addr, entry[h].lng)
             /\ \A a \in Extent(entry[h].addr, entry[h].lng) : a \in Addr /\ a <= header.fsiz
             /\ \A a \in Body(entry[h]) : a \in Extent(entry[h].addr, entry[h].lng)
             /\ entry[h].addr \notin Body(entry[h])
  <2>1. entry[h].addr >= 1 /\ entry[h].addr + entry[h].lng - 1 <= header.fsiz
        /\ entry[h].lng \in Lens
    BY <1>1, <1>3 DEF Within
  <2>2. entry[h].addr \in 0 .. MaxAddr /\ entry[h].lng \in Nat \ {0}
    BY <2>1, Fields, SizesAssumption
  <2> QED
    BY <1>1, <2>1, <2>2, SizesAssumption DEF Extent, Addr, Body
<1> QED
  BY <1>2, <1>3

LEMMA EditDirKeeps ==
  ASSUME DirectoryInv, TypeInv', ForWriting,
         NEW h \in Handle, NEW k \in Keys, EditDir(h, k)
  PROVE  DirectoryInv'
<1>1. /\ TypeInv /\ st = "open" /\ Counted(header, page, entry) /\ MemoryStored
  BY WritingFacts
<1>2. /\ entry' = [entry EXCEPT ![h].key = k] /\ page' = Touched(h[1])
      /\ modified' = TRUE /\ flush.at = -1 /\ Used(h)
      /\ UNCHANGED <<st, header, npages, pos, flush, dheader, dpage, dentry, store>>
  BY DEF EditDir, Ready, disk
<1>3. /\ h[1] \in Page /\ entry \in [Handle -> EntrySet]
      /\ \A g \in Handle : entry[g] \in EntrySet /\ g[1] \in Page
  BY <1>1, Fields DEF TypeInv, TypeOK
<1>4. /\ SamePages(header, page, page')
      /\ \A q \in Page : ~page'[q].modified => q # h[1] /\ page'[q] = page[q]
  BY <1>1, <1>2, <1>3, TouchedPage
<1>5. \A g \in Handle : /\ entry'[g].addr = entry[g].addr /\ entry'[g].lng = entry[g].lng
                        /\ entry'[g].idtyp = entry[g].idtyp
                        /\ g = h => entry'[g].key = k
                        /\ g # h => entry'[g] = entry[g]
  BY <1>2, <1>3 DEF EntrySet
<1>6. Counted(header, page, entry)'
  <2>1. SameLive(header, page, entry, entry')
    BY <1>5 DEF SameLive
  <2>2. header.nrwr <= header.neff
    BY <1>1 DEF Counted
  <2> QED
    BY <1>1, <1>2, <1>4, <2>1, <2>2, CountsAgree
<1>7. MemoryStored'
  BY <1>1, <1>2, <1>4, <1>5, StoredFrame
<1>8. \A g \in Handle : Used(g) => entry[g].key \in Keys
  BY <1>1, OpenIn, WritingFacts DEF Within
<1>9. \A g \in Handle : Used(g) =>
        /\ entry'[g].addr = entry[g].addr /\ entry'[g].lng = entry[g].lng
        /\ entry'[g].key \in Keys
  BY <1>5, <1>8
<1>10. \A p \in Page : p < npages /\ (~page'[p].modified \/ ~modified') =>
         /\ ~page[p].modified \/ ~modified
         /\ \A g \in Handle : g[1] = p => entry'[g] = entry[g]
  BY <1>2, <1>4, <1>5
<1> QED
  BY <1>2, <1>4, <1>6, <1>7, <1>9, <1>10, InPlaceStep

LEMMA DeleteKeeps ==
  ASSUME DirectoryInv, TypeInv', NEW h \in Handle, Delete(h)
  PROVE  DirectoryInv'
<1>0. ForWriting
  BY DEF Delete, Writable, Ready, ForWriting
<1>1. /\ TypeInv /\ st = "open" /\ Counted(header, page, entry) /\ MemoryStored
  BY <1>0, WritingFacts
<1>2. /\ entry' = [entry EXCEPT ![h].idtyp = 254] /\ page' = Touched(h[1])
      /\ modified' = TRUE /\ flush.at = -1 /\ Live(h)
      /\ header' = [header EXCEPT !.neff = @ + 1, !.nrec = @ - 1]
      /\ UNCHANGED <<st, npages, pos, flush, dheader, dpage, dentry, store>>
  BY DEF Delete, Writable, Ready, disk
<1>3. /\ h[1] \in Page /\ entry \in [Handle -> EntrySet] /\ header \in HeaderSet
      /\ \A g \in Handle : entry[g] \in EntrySet /\ g[1] \in Page
  BY <1>1, Fields DEF TypeInv, TypeOK
<1>4. /\ SamePages(header, page, page')
      /\ \A q \in Page : ~page'[q].modified => q # h[1] /\ page'[q] = page[q]
  BY <1>1, <1>2, <1>3, TouchedPage
<1>5. \A g \in Handle : /\ entry'[g].addr = entry[g].addr /\ entry'[g].lng = entry[g].lng
                        /\ entry'[g].key = entry[g].key
                        /\ g = h => entry'[g].idtyp = 254 /\ entry[g].idtyp = LIVE
                        /\ g # h => entry'[g] = entry[g]
  BY <1>2, <1>3 DEF EntrySet, Live
<1>6. /\ header'.rwflg = header.rwflg /\ header'.nbd = header.nbd /\ header'.fsiz = header.fsiz
      /\ header'.nrec = header.nrec - 1 /\ header'.nxtn = header.nxtn
      /\ header'.nrwr = header.nrwr /\ header'.neff = header.neff + 1
  BY <1>2, <1>3 DEF HeaderSet
<1>7. Counted(header, page, entry)'
  <2> DEFINE U == {g \in Handle : EntryIn(header, page, g)}
             L == {g \in Handle : EntryIn(header, page, g) /\ entry[g].idtyp = LIVE}
  <2>1. \A g \in Handle : EntryIn(header', page', g) <=> EntryIn(header, page, g)
    BY <1>4, <1>6, EntriesAgree
  <2>2. {g \in Handle : EntryIn(header', page', g)} = U
    BY <2>1
  <2>3. {g \in Handle : EntryIn(header', page', g) /\ entry'[g].idtyp = LIVE} = L \ {h}
    BY <1>5, <2>1 DEF LIVE
  <2>4. h \in L
    BY <1>1, <1>2, OpenIn DEF Live
  <2>5. IsFiniteSet(L)
    BY HandlesFinite, FS_Subset
  <2>6. Cardinality(L \ {h}) = Cardinality(L) - 1
    BY <2>4, <2>5, FS_RemoveElement
  <2>7. header.nrwr <= header.neff /\ header.nrwr \in Int /\ header.neff \in Int
    BY <1>1, <1>3 DEF Counted, HeaderSet
  <2>8. header.nrec = Cardinality(L) /\ header.nxtn = Cardinality(U)
    BY <1>1 DEF Counted
  <2>9. header'.nrwr <= header'.neff
    BY <1>6, <2>7
  <2> QED
    BY <1>6, <2>2, <2>3, <2>6, <2>8, <2>9 DEF Counted
<1>8. \A g \in Handle : Used(g) =>
        /\ entry'[g].addr = entry[g].addr /\ entry'[g].lng = entry[g].lng
        /\ entry'[g].key \in Keys
        /\ entry'[g].idtyp \in {LIVE, 254} <=> entry[g].idtyp \in {LIVE, 254}
  <2>1. \A g \in Handle : Used(g) => entry[g].key \in Keys
    BY <1>0, <1>1, OpenIn, WritingFacts DEF Within
  <2> QED
    BY <1>5, <2>1
<1>9. MemoryStored'
  BY <1>1, <1>2, <1>4, <1>8, StoredFrame
<1>10. \A p \in Page : p < npages /\ (~page'[p].modified \/ ~modified') =>
         /\ ~page[p].modified \/ ~modified
         /\ \A g \in Handle : g[1] = p => entry'[g] = entry[g]
  BY <1>2, <1>4, <1>5
<1> QED
  BY <1>0, <1>2, <1>4, <1>6, <1>7, <1>8, <1>9, <1>10, InPlaceStep

LEMMA DirFullKeeps ==
  ASSUME DirectoryInv, TypeInv', NEW h, DirFull(h)
  PROVE  DirectoryInv'
<1>0. ForWriting
  BY DEF DirFull, Writable, Ready, ForWriting
<1>1. /\ TypeInv /\ st = "open" /\ Counted(header, page, entry) /\ MemoryStored /\ Last \in Page
  BY <1>0, WritingFacts, OpenIn
<1>2. /\ page' = Touched(Last) /\ flush.at = -1
      /\ UNCHANGED <<st, header, npages, entry, modified, flush, dheader, dpage, dentry, store>>
  BY DEF DirFull, Writable, Ready, disk
<1>4. /\ SamePages(header, page, page')
      /\ \A q \in Page : ~page'[q].modified => q # Last /\ page'[q] = page[q]
  BY <1>1, <1>2, TouchedPage
<1>5. Counted(header, page, entry)'
  <2>1. SameLive(header, page, entry, entry) /\ header.nrwr <= header.neff
    BY <1>1 DEF SameLive, Counted
  <2>2. Counted(header, page', entry)
    BY <1>1, <1>4, <2>1, CountsAgree
  <2> QED
    BY <1>2, <2>2
<1>6. MemoryStored'
  BY <1>1, <1>2, <1>4, StoredFrame
<1>7. \A g \in Handle : Used(g) => entry[g].key \in Keys
  BY <1>0, <1>1, OpenIn, WritingFacts DEF Within
<1> QED
  BY <1>0, <1>2, <1>4, <1>5, <1>6, <1>7, InPlaceStep

\* Steps that change none of the variables that the invariant speaks of.
LEMMA Unchanged ==
  ASSUME DirectoryInv, TypeInv',
         UNCHANGED <<st, header, npages, page, entry, modified, flush, dheader, dpage, dentry, store>>
  PROVE  DirectoryInv'
<1>1. NotOpenInv' /\ ReadingInv' /\ WritingInv'
  BY DEF DirectoryInv, NotOpenInv, ReadingInv, WritingInv, ForReading, ForWriting, Consistent,
         MemoryStored, DiskBehind, Covers, Disjoint, Within, Chained, Counted, PageIn, EntryIn,
         PageHas, EntryHas, Used, Whole, Body, HeaderKept, SamePlaces, Synced, Settled, Earlier,
         Reached
<1>2. DiskInv'
  BY DiskFrame DEF DirectoryInv
<1> QED
  BY <1>1, <1>2 DEF DirectoryInv

LEMMA InPlaceKeeps ==
  ASSUME DirectoryInv, TypeInv', ForWriting, flush.at = -1, UNCHANGED <<st, flush, dheader>>,
         NEW h \in Handle, NEW k \in Keys, NEW v \in Values, Live(h), RewriteInPlace(h, k, v)
  PROVE  DirectoryInv'
<1>1. /\ TypeInv /\ st = "open" /\ Counted(header, page, entry) /\ MemoryStored
      /\ Disjoint(header, page, entry) /\ Within(header, page, entry)
  BY WritingFacts
<1>2. /\ entry' = [entry EXCEPT ![h].key = k] /\ page' = Touched(h[1])
      /\ modified' = TRUE /\ Used(h) /\ entry[h].idtyp = LIVE
      /\ header' = [header EXCEPT !.neff = @ + 1, !.nrwr = @ + 1]
      /\ store' = [a \in Addr |-> IF a \in Extent(entry[h].addr, entry[h].lng) THEN v ELSE store[a]]
      /\ UNCHANGED <<npages, dpage, dentry>>
  BY DEF RewriteInPlace, Live
<1>3. /\ h[1] \in Page /\ entry \in [Handle -> EntrySet] /\ header \in HeaderSet
      /\ \A g \in Handle : entry[g] \in EntrySet /\ g[1] \in Page
  BY <1>1, Fields DEF TypeInv, TypeOK
<1>4. /\ SamePages(header, page, page')
      /\ \A q \in Page : ~page'[q].modified => q # h[1] /\ page'[q] = page[q]
  BY <1>1, <1>2, <1>3, TouchedPage
<1>5. \A g \in Handle : /\ entry'[g].addr = entry[g].addr /\ entry'[g].lng = entry[g].lng
                        /\ entry'[g].idtyp = entry[g].idtyp
                        /\ g = h => entry'[g].key = k
                        /\ g # h => entry'[g] = entry[g]
  BY <1>2, <1>3 DEF EntrySet
<1>6. /\ header'.rwflg = header.rwflg /\ header'.nbd = header.nbd /\ header'.fsiz = header.fsiz
      /\ header'.nrec = header.nrec /\ header'.nxtn = header.nxtn
      /\ header'.nrwr = header.nrwr + 1 /\ header'.neff = header.neff + 1
  BY <1>2, <1>3 DEF HeaderSet
<1>7. Counted(header, page, entry)'
  <2>1. SameLive(header, page, entry, entry')
    BY <1>5 DEF SameLive
  <2>2. header.nrwr <= header.neff /\ header.nrwr \in Int /\ header.neff \in Int
    BY <1>1, <1>3 DEF Counted, HeaderSet
  <2>3. header'.nrwr <= header'.neff
    BY <1>6, <2>2
  <2> QED
    BY <1>1, <1>4, <1>6, <2>1, <2>3, CountsAgree
<1>8. \A g \in Handle : Used(g) => entry[g].key \in Keys
  BY <1>1, OpenIn DEF Within
<1>9. \A g \in Handle : Used(g) =>
        /\ entry'[g].addr = entry[g].addr /\ entry'[g].lng = entry[g].lng
        /\ entry'[g].key \in Keys
  BY <1>5, <1>8
<1>10. \A p \in Page : p < npages /\ (~page'[p].modified \/ ~modified') =>
         /\ ~page[p].modified \/ ~modified
         /\ \A g \in Handle : g[1] = p => entry'[g] = entry[g]
  BY <1>2, <1>4, <1>5
<1>11. MemoryStored'
  <2>1. /\ \A p : PageIn(header, p) <=> p < npages
        /\ \A g : EntryIn(header, page, g) <=> Used(g)
    BY <1>1, OpenIn
  <2>2. ASSUME NEW p \in Page, p < npages PROVE store'[page'[p].addr] = "dir"
    <3>1. page'[p].addr = page[p].addr /\ store[page[p].addr] = "dir"
      BY <1>1, <1>4, <2>1, <2>2 DEF SamePages, MemoryStored
    <3>2. page[p].addr \in Addr /\ page[p].addr \in Extent(page[p].addr, PageLen)
      BY <1>1, <2>2, NamedInFile
    <3>3. page[p].addr \notin Extent(entry[h].addr, entry[h].lng)
      BY <1>1, <1>2, <2>1, <2>2, <3>2 DEF Disjoint, PageHas, EntryHas
    <3> QED
      BY <1>2, <3>1, <3>2, <3>3
  <2>3. ASSUME NEW g \in Handle, Used(g)
        PROVE  /\ \E w \in Values : \A a \in Body(entry[g]) : store'[a] = w
               /\ entry[g].idtyp \in {LIVE, 254} => store'[entry[g].addr] \in Values
    <3>1. /\ entry[g].addr \in Extent(entry[g].addr, entry[g].lng)
          /\ \A a \in Extent(entry[g].addr, entry[g].lng) : a \in Addr
          /\ \A a \in Body(entry[g]) : a \in Extent(entry[g].addr, entry[g].lng)
      BY <1>1, <2>3, NamedInFile
    <3>2. CASE g = h
      BY <1>2, <3>1, <3>2
    <3>3. CASE g # h
      <4>1. \A a \in Extent(entry[g].addr, entry[g].lng) :
              a \notin Extent(entry[h].addr, entry[h].lng)
        BY <1>1, <1>2, <2>1, <2>3, <3>1, <3>3 DEF Disjoint, EntryHas
      <4>2. PICK w \in Values : \A a \in Body(entry[g]) : store[a] = w
        BY <1>1, <2>3 DEF MemoryStored, Whole
      <4>3. entry[g].idtyp \in {LIVE, 254} => store[entry[g].addr] \in Values
        BY <1>1, <2>3 DEF MemoryStored, HeaderKept
      <4>4. \A a \in Extent(entry[g].addr, entry[g].lng) : store'[a] = store[a]
        BY <1>2, <3>1, <4>1
      <4> QED
        BY <3>1, <4>2, <4>3, <4>4
    <3> QED
      BY <3>2, <3>3
  <2>4. \A g \in Handle : Used(g)' <=> Used(g)
    BY <1>1, <1>2, <1>4, <2>1, Fields DEF Used, SamePages
  <2>5. \A g \in Handle : Body(entry[g])' = Body(entry[g])
    BY <1>5 DEF Body
  <2> QED
    BY <1>2, <1>5, <2>2, <2>3, <2>4, <2>5 DEF MemoryStored, Whole, HeaderKept
<1>12. \A a \in Addr : store[a] \in Values => store'[a] \in Values
  BY <1>2
<1> QED
  BY <1>2, <1>4, <1>6, <1>7, <1>9, <1>10, <1>11, <1>12, InPlaceStep

\* The first write of c_xdfcls.
LEMMA FlushHeaderKeeps ==
  ASSUME DirectoryInv, TypeInv', ForWriting, NEW c \in BOOLEAN, FlushHeader(c)
  PROVE  DirectoryInv'
<1>1. /\ TypeInv /\ st = "open" /\ DiskMarks
      /\ Consistent(header, page, entry) /\ MemoryStored /\ DiskBehind
  BY WritingFacts DEF Consistent
<1>2. /\ header.rwflg # RDMODE /\ dheader' = header
      /\ flush.at = -1
      /\ flush' = [at |-> IF modified THEN 0 ELSE header.nbd, checkpoint |-> c]
      /\ UNCHANGED <<st, header, npages, page, entry, modified, pos, dpage, dentry, store>>
  BY DEF FlushHeader, HeaderFlushed, ForWriting
<1>3. header.nbd = npages /\ npages \in 1 .. MaxDirPages
  BY <1>1, OpenIn
<1>4. ForWriting' /\ DiskMarks' /\ CleanDisk'
  BY <1>1, <1>2 DEF ForWriting, DiskMarks, CleanDisk, HeadersKept, HeaderKept
<1>5. Consistent(header, page, entry)'
  BY <1>1, <1>2
<1>6. MemoryStored'
  BY <1>1, <1>2 DEF MemoryStored, Used, Whole, HeaderKept
<1>7. DiskBehind'
  <2> SUFFICES ASSUME NEW p \in Page, p < npages
               PROVE  /\ Earlier(p)'
                      /\ p >= header.nbd => dpage[p].nent = 0
                      /\ ~Reached(p)' => dpage[p].nent = 0
                      /\ Settled(p)' => Synced(p)'
    BY <1>2, <1>3 DEF DiskBehind
  <2>1. /\ Earlier(p)
        /\ ~Reached(p) => dpage[p].nent = 0
        /\ Settled(p) => Synced(p)
    BY <1>1 DEF DiskBehind
  <2>2. Earlier(p)' /\ (Synced(p)' <=> Synced(p)) /\ (Reached(p)' <=> Reached(p))
    BY <1>2, <2>1 DEF Earlier, Synced, SamePlaces, Reached
  <2>3. Settled(p)' => Settled(p)
    BY <1>2, <1>3 DEF Settled, Page
  <2> QED
    BY <1>3, <2>1, <2>2, <2>3 DEF Page
<1> QED
  BY <1>4, <1>5, <1>6, <1>7, WritingStep

\* Behind the last page c_xdfcls has written every page.
LEMMA AllSettled ==
  ASSUME DirectoryInv, ForWriting, flush.at # -1, flush.at = header.nbd
  PROVE  dheader = header /\ \A p \in Page : p < npages => Synced(p)
BY WritingFacts, OpenIn DEF DiskBehind, Settled

LEMMA EndCheckpointKeeps ==
  ASSUME DirectoryInv, TypeInv', ForWriting, EndCheckpoint
  PROVE  DirectoryInv'
<1>1. /\ TypeInv /\ st = "open" /\ DiskMarks /\ CleanDisk
      /\ Consistent(header, page, entry) /\ MemoryStored /\ DiskBehind
  BY WritingFacts DEF Consistent
<1>2. /\ flush.at # -1 /\ flush.at = header.nbd
      /\ flush' = NoFlush
      /\ UNCHANGED <<st, header, npages, page, entry, dheader, dpage, dentry, store>>
  BY DEF EndCheckpoint, disk
<1>3. \A p \in Page : p < npages => Synced(p)
  BY <1>2, AllSettled
<1>4. ForWriting' /\ DiskMarks' /\ CleanDisk'
  BY <1>1, <1>2 DEF ForWriting, DiskMarks, CleanDisk, HeadersKept, HeaderKept
<1>5. Consistent(header, page, entry)'
  BY <1>1, <1>2
<1>6. MemoryStored'
  BY <1>1, <1>2 DEF MemoryStored, Used, Whole, HeaderKept
<1>7. DiskBehind'
  <2> SUFFICES ASSUME NEW p \in Page, p < npages
               PROVE  /\ Earlier(p)'
                      /\ p >= dheader.nbd => dpage[p].nent = 0
                      /\ ~Reached(p)' => dpage[p].nent = 0
                      /\ Synced(p)'
    BY <1>1, <1>2 DEF DiskBehind, NoFlush
  <2>1. /\ Earlier(p) /\ Synced(p)
        /\ p >= dheader.nbd => dpage[p].nent = 0
        /\ ~Reached(p) => dpage[p].nent = 0
    BY <1>1, <1>3 DEF DiskBehind
  <2> QED
    BY <1>2, <2>1 DEF Earlier, Synced, SamePlaces, Reached
<1> QED
  BY <1>4, <1>5, <1>6, <1>7, WritingStep

\* The last write of c_xdfcls clears the writer's flag before a directory that is all written.
LEMMA EndCloseKeeps ==
  ASSUME DirectoryInv, TypeInv', EndClose, ForWriting
  PROVE  DirectoryInv'
<1>1. /\ TypeInv /\ st = "open" /\ DiskMarks /\ DiskSafe /\ CleanDisk
      /\ Covers(header, page, entry) /\ Disjoint(header, page, entry)
      /\ Within(header, page, entry) /\ Chained(header, page)
      /\ Counted(header, page, entry) /\ MemoryStored
  BY WritingFacts
<1>2. /\ flush.at # -1 /\ flush.at = header.nbd
      /\ dheader' = [header EXCEPT !.rwflg = 0]
      /\ st' = "closed" /\ flush' = NoFlush /\ npages' = 0
      /\ UNCHANGED <<dpage, dentry, store>>
  BY DEF EndClose, ForWriting, ResetMemory
<1>3. dheader = header /\ \A p \in Page : p < npages => Synced(p)
  BY <1>2, AllSettled
<1>4. /\ \A p : PageIn(header, p) <=> p < npages
      /\ \A h : EntryIn(header, page, h) <=> Used(h)
      /\ header \in HeaderSet
  BY <1>1, OpenIn
<1>5. /\ dheader'.nbd = header.nbd /\ dheader'.fsiz = header.fsiz /\ dheader'.nrec = header.nrec
      /\ dheader'.nxtn = header.nxtn /\ dheader'.nrwr = header.nrwr
      /\ dheader'.neff = header.neff
  BY <1>2, <1>4 DEF HeaderSet
<1>6. SamePages(header, page, dpage)
  BY <1>3, <1>4 DEF SamePages, Synced, SamePlaces
<1>7. \A h \in Handle : Used(h) => dentry[h] = entry[h]
  BY <1>1, <1>3, Fields DEF Used, Synced
<1>8. SameEntries(header, page, entry, dentry) /\ SameLive(header, page, entry, dentry)
  BY <1>1, <1>4, <1>7 DEF SameEntries, SameLive, Within
<1>9. Consistent(dheader', dpage, dentry)
  <2>1. /\ Covers(dheader', dpage, dentry) /\ Disjoint(dheader', dpage, dentry)
        /\ Within(dheader', dpage, dentry) /\ Chained(dheader', dpage)
    BY <1>1, <1>4, <1>5, <1>6, <1>8, PlacesAgree
  <2>2. dheader'.nrwr <= dheader'.neff
    BY <1>1, <1>5 DEF Counted
  <2>3. Counted(dheader', dpage, dentry)
    BY <1>1, <1>5, <1>6, <1>8, <2>2, CountsAgree
  <2> QED
    BY <2>1, <2>3 DEF Consistent
<1>13. HeadersKept'
  <2> SUFFICES ASSUME NEW h \in Handle, EntryIn(dheader', dpage, h), dentry[h].idtyp = LIVE
               PROVE  store[dentry[h].addr] \in Values
    BY <1>2 DEF HeadersKept, HeaderKept
  <2>1. Used(h) /\ dentry[h] = entry[h]
    BY <1>4, <1>5, <1>6, <1>7, EntriesAgree
  <2> QED
    BY <1>1, <2>1 DEF MemoryStored, HeaderKept
<1>10. CleanDisk'
  BY <1>2, <1>9, <1>13 DEF CleanDisk
<1>11. DiskInv'
  BY <1>1, <1>2, <1>3, <1>5, <1>10, DiskFrame DEF DiskInv
<1>12. NotOpenInv' /\ WritingInv' /\ ReadingInv'
  BY <1>2 DEF NotOpenInv, WritingInv, ReadingInv, ForWriting, ForReading
<1> QED
  BY <1>11, <1>12 DEF DirectoryInv

\* The write of c_xdfcls over the header of a record that was deleted.
RecordIsErased(h) ==
  /\ h \in Handle /\ h[1] = flush.at /\ Used(h) /\ entry[h].idtyp = 254
  /\ entry' = [entry EXCEPT ![h].idtyp = 255]
  /\ store' = [store EXCEPT ![entry[h].addr] = "hole"]

LEMMA ErasedFacts ==
  ASSUME DirectoryInv, ForWriting, FlushRecord
  PROVE  \E h \in Handle :
           /\ RecordIsErased(h) /\ entry[h].addr \in Addr
           /\ \A g \in Handle : /\ g # h => entry'[g] = entry[g]
                              /\ entry'[g].addr = entry[g].addr /\ entry'[g].lng = entry[g].lng
                              /\ entry'[g].key = entry[g].key
           /\ entry'[h].idtyp = 255
           /\ \A a \in Addr : a # entry[h].addr => store'[a] = store[a]
           /\ \A p \in Page : p < npages => entry[h].addr \notin Extent(page[p].addr, PageLen)
           /\ \A g \in Handle : Used(g) =>
                /\ entry[h].addr \notin Body(entry[g])
                /\ g # h => entry[h].addr \notin Extent(entry[g].addr, entry[g].lng)
<1>1. /\ TypeInv /\ st = "open"
      /\ Disjoint(header, page, entry) /\ Within(header, page, entry)
      /\ entry \in [Handle -> EntrySet] /\ store \in [Addr -> Values \cup {"hole", "dir"}]
      /\ flush \in [at : -1 .. MaxDirPages, checkpoint : BOOLEAN]
  BY WritingFacts DEF TypeInv, TypeOK
<1>2. /\ \A p : PageIn(header, p) <=> p < npages
      /\ \A h : EntryIn(header, page, h) <=> Used(h)
      /\ header.nbd = npages
  BY <1>1, OpenIn
<1>3. PICK h \in Gone(flush.at) :
        /\ entry' = [entry EXCEPT ![h].idtyp = 255]
        /\ store' = [store EXCEPT ![entry[h].addr] = "hole"]
  BY DEF FlushRecord
<1>4. /\ h \in Handle /\ h[1] = flush.at /\ Used(h) /\ entry[h].idtyp = 254
      /\ entry[h] \in EntrySet
  BY <1>1, <1>2, <1>3 DEF Gone, Used, FlushRecord, InPage
<1>5. entry[h].addr \in Addr /\ EntryHas(entry, h, entry[h].addr)
  BY <1>1, <1>4, NamedInFile DEF EntryHas
<1>6. /\ \A g \in Handle : g # h => entry'[g] = entry[g]
      /\ entry'[h] = [entry[h] EXCEPT !.idtyp = 255]
      /\ \A a \in Addr : a # entry[h].addr => store'[a] = store[a]
  BY <1>1, <1>3, <1>4, <1>5
<1>7. \A g \in Handle : /\ entry'[g].addr = entry[g].addr /\ entry'[g].lng = entry[g].lng
                       /\ entry'[g].key = entry[g].key
  BY <1>4, <1>6 DEF EntrySet
<1>8. entry'[h].idtyp = 255
  BY <1>4, <1>6 DEF EntrySet
<1>9. \A p \in Page : p < npages => entry[h].addr \notin Extent(page[p].addr, PageLen)
  BY <1>1, <1>2, <1>4, <1>5 DEF Disjoint, PageHas
<1>10. \A g \in Handle : Used(g) =>
         /\ entry[h].addr \notin Body(entry[g])
         /\ g # h => entry[h].addr \notin Extent(entry[g].addr, entry[g].lng)
  <2> TAKE g \in Handle
  <2> HAVE Used(g)
  <2>1. g # h => entry[h].addr \notin Extent(entry[g].addr, entry[g].lng)
    BY <1>1, <1>2, <1>4, <1>5 DEF Disjoint, EntryHas
  <2>2. \A a \in Body(entry[g]) : a \in Extent(entry[g].addr, entry[g].lng)
    BY <1>1, NamedInFile
  <2>3. entry[h].addr \notin Body(entry[h])
    BY <1>1, <1>4, NamedInFile
  <2> QED
    BY <2>1, <2>2, <2>3
<1>11. RecordIsErased(h)
  BY <1>3, <1>4 DEF RecordIsErased
<1>12. \A g \in Handle : /\ g # h => entry'[g] = entry[g]
                        /\ entry'[g].addr = entry[g].addr /\ entry'[g].lng = entry[g].lng
                        /\ entry'[g].key = entry[g].key
  BY <1>6, <1>7
<1>13. h \in Handle
  BY <1>4
<1> WITNESS h \in Handle
<1> QED
  BY <1>5, <1>6, <1>8, <1>9, <1>10, <1>11, <1>12

LEMMA FlushRecordKeeps ==
  ASSUME DirectoryInv, TypeInv', ForWriting, FlushRecord
  PROVE  DirectoryInv'
<1>1. /\ TypeInv /\ st = "open" /\ DiskMarks
      /\ Covers(header, page, entry) /\ Disjoint(header, page, entry)
      /\ Within(header, page, entry) /\ Chained(header, page)
      /\ Counted(header, page, entry)
      /\ MemoryStored /\ DiskBehind
  BY WritingFacts
<1>2. /\ UNCHANGED <<st, header, npages, page, modified, flush, dheader, dpage, dentry>>
      /\ flush.at # -1 /\ flush.at < header.nbd
  BY DEF FlushRecord, InPage
<1>3. /\ \A h : EntryIn(header, page, h) <=> Used(h)
      /\ header \in HeaderSet /\ header.nbd = npages
  BY <1>1, OpenIn
<1>4. PICK h \in Handle :
        /\ RecordIsErased(h)
        /\ \A g \in Handle : /\ g # h => entry'[g] = entry[g]
                           /\ entry'[g].addr = entry[g].addr /\ entry'[g].lng = entry[g].lng
                           /\ entry'[g].key = entry[g].key
        /\ entry'[h].idtyp = 255
        /\ \A a \in Addr : a # entry[h].addr => store'[a] = store[a]
        /\ \A p \in Page : p < npages => entry[h].addr \notin Extent(page[p].addr, PageLen)
        /\ \A g \in Handle : Used(g) =>
             /\ entry[h].addr \notin Body(entry[g])
             /\ g # h => entry[h].addr \notin Extent(entry[g].addr, entry[g].lng)
  BY ErasedFacts
<1>5. h[1] = flush.at /\ h[1] \in Page /\ Used(h) /\ entry[h].idtyp = 254
  BY <1>4 DEF RecordIsErased, Handle
<1>6. \A g \in Handle : Used(g)' <=> Used(g)
  BY <1>2 DEF Used
<1>7. Consistent(header, page, entry)'
  <2>1. SamePages(header, page, page)
    BY DEF SamePages
  <2>2. SameEntries(header, page, entry, entry') /\ SameLive(header, page, entry, entry')
    BY <1>1, <1>4, <1>5 DEF SameEntries, SameLive, Within, LIVE
  <2>3. /\ Covers(header, page, entry') /\ Disjoint(header, page, entry')
        /\ Within(header, page, entry') /\ Chained(header, page)
    BY <1>1, <1>3, <2>1, <2>2, PlacesAgree
  <2>4. header.nrwr <= header.neff
    BY <1>1 DEF Counted
  <2>5. Counted(header, page, entry')
    BY <1>1, <2>1, <2>2, <2>4, CountsAgree
  <2> QED
    BY <1>2, <2>3, <2>5 DEF Consistent
<1>8. MemoryStored'
  <2>1. ASSUME NEW p \in Page, p < npages PROVE store'[page[p].addr] = "dir"
    <3>1. /\ store[page[p].addr] = "dir" /\ page[p].addr \in Extent(page[p].addr, PageLen)
          /\ page[p].addr \in Addr
      BY <1>1, <2>1, NamedInFile DEF MemoryStored
    <3> QED
      BY <1>4, <2>1, <3>1
  <2>2. ASSUME NEW g \in Handle, Used(g)
        PROVE  /\ \E v \in Values : \A a \in Body(entry'[g]) : store'[a] = v
               /\ entry'[g].idtyp \in {LIVE, 254} => store'[entry'[g].addr] \in Values
    <3>1. PICK v \in Values : \A a \in Body(entry[g]) : store[a] = v
      BY <1>1, <2>2 DEF MemoryStored, Whole
    <3>2. \A a \in Body(entry'[g]) : a \in Body(entry[g]) /\ a # entry[h].addr
      BY <1>4, <2>2 DEF Body
    <3>3. \A a \in Body(entry'[g]) : store'[a] = v
      BY <1>1, <1>4, <2>2, <3>1, <3>2, NamedInFile
    <3>4. ASSUME entry'[g].idtyp \in {LIVE, 254} PROVE store'[entry'[g].addr] \in Values
      <4>1. g # h
        BY <1>4, <3>4 DEF LIVE
      <4>2. entry[g].idtyp \in {LIVE, 254} /\ entry'[g].addr = entry[g].addr
        BY <1>4, <3>4, <4>1
      <4>3. store[entry[g].addr] \in Values
        BY <1>1, <2>2, <4>2 DEF MemoryStored, HeaderKept
      <4>4. entry[g].addr # entry[h].addr
        BY <1>1, <1>4, <2>2, <4>1, NamedInFile
      <4>5. entry[g].addr \in Addr
        BY <1>1, <2>2, NamedInFile
      <4> QED
        BY <1>4, <4>2, <4>3, <4>4, <4>5
    <3> QED
      BY <3>3, <3>4
  <2> QED
    BY <1>2, <1>6, <2>1, <2>2 DEF MemoryStored, Whole, HeaderKept
<1>9. DiskBehind'
  <2>1. /\ dheader.nbd <= npages /\ dheader = header
        /\ \A p \in Page : p < npages =>
             /\ Earlier(p)
             /\ p >= dheader.nbd => dpage[p].nent = 0
             /\ ~Reached(p) => dpage[p].nent = 0
             /\ Settled(p) => Synced(p)
    BY <1>1, <1>2 DEF DiskBehind
  <2>2. ASSUME NEW p \in Page, p < npages, Settled(p) PROVE Synced(p)'
    <3>1. Synced(p)
      BY <2>1, <2>2
    <3>2. p # h[1]
      <4> SUFFICES ASSUME p = h[1] PROVE FALSE
        OBVIOUS
      <4>1. dentry[h].idtyp = 254 /\ h[2] < dpage[h[1]].nent
        BY <1>5, <3>1 DEF Synced, SamePlaces, Used
      <4> QED
        BY <1>1, <4>1 DEF DiskMarks
    <3>3. \A g \in Handle : g[1] = p => entry'[g] = entry[g]
      BY <1>4, <3>2
    <3> QED
      BY <1>2, <3>1, <3>3 DEF Synced, SamePlaces
  <2>3. \A p \in Page : (Settled(p)' => Settled(p)) /\ (Reached(p)' <=> Reached(p))
    BY <1>2 DEF Settled, Reached
  <2>4. \A p \in Page : Earlier(p) => Earlier(p)'
    BY <1>2, <1>4 DEF Earlier
  <2>5. dheader' = dheader /\ header' = header /\ npages' = npages /\ dpage' = dpage
    BY <1>2
  <2> QED
    BY <2>1, <2>2, <2>3, <2>4, <2>5 DEF DiskBehind
<1>10. DiskMarks' /\ ForWriting'
  BY <1>1, <1>2 DEF DiskMarks, ForWriting
<1>11. CleanDisk'
  BY <1>1, <1>2 DEF DiskBehind, CleanDisk, ForWriting
<1> QED
  BY <1>7, <1>8, <1>9, <1>10, <1>11, WritingStep

\* The write of a page by c_xdfcls, of a file open for writing.
LEMMA WritePageKeeps ==
  ASSUME DirectoryInv, TypeInv', ForWriting, FlushPage, page[flush.at].modified
  PROVE  DirectoryInv'
<1>1. /\ TypeInv /\ st = "open" /\ DiskMarks
      /\ Covers(header, page, entry) /\ Disjoint(header, page, entry)
      /\ Within(header, page, entry) /\ Chained(header, page)
      /\ Counted(header, page, entry)
      /\ MemoryStored /\ DiskBehind
  BY WritingFacts
<1>3. /\ \A p : PageIn(header, p) <=> p < npages
      /\ \A h : EntryIn(header, page, h) <=> Used(h)
      /\ header \in HeaderSet /\ header.nbd = npages /\ npages \in 1 .. MaxDirPages
  BY <1>1, OpenIn
<1>4. /\ page \in [Page -> PageSet] /\ dpage \in [Page -> PageSet]
      /\ entry \in [Handle -> EntrySet] /\ flush \in [at : -1 .. MaxDirPages, checkpoint : BOOLEAN]
  BY <1>1 DEF TypeInv, TypeOK
<1>z. PICK z \in Page : z = flush.at
  <2>1. flush.at \in -1 .. MaxDirPages /\ flush.at # -1 /\ flush.at < npages
    BY <1>3, <1>4 DEF FlushPage, InPage
  <2> QED
    BY <1>3, <2>1, SizesAssumption DEF Page
<1>2. /\ Gone(z) = {}
      /\ page' = [page EXCEPT ![z].modified = FALSE]
      /\ dentry' = [h \in Handle |-> IF h[1] = z THEN entry[h] ELSE dentry[h]]
      /\ dpage' = [dpage EXCEPT ![z] = [page[z] EXCEPT !.modified = FALSE]]
      /\ store' = StoreFlushed(z)
      /\ flush.at # -1 /\ z < header.nbd
      /\ flush' = [flush EXCEPT !.at = @ + 1]
      /\ UNCHANGED <<st, header, npages, entry, modified, pos, dheader>>
  BY <1>z DEF FlushPage, InPage, WritePage
<1>5. z < npages /\ page[z] \in PageSet
  BY <1>2, <1>3, <1>4
<1>6. flush'.at = z + 1
  BY <1>2, <1>4, <1>z
\* what the page and its entries become
<1>7. /\ page'[z] = [page[z] EXCEPT !.modified = FALSE] /\ dpage'[z] = page'[z]
      /\ \A q \in Page : q # z => page'[q] = page[q] /\ dpage'[q] = dpage[q]
  BY <1>2, <1>4, <1>5
<1>8. /\ page'[z].nent = page[z].nent /\ page'[z].addr = page[z].addr
      /\ page'[z].nxt_addr = page[z].nxt_addr /\ ~page'[z].modified
  BY <1>5, <1>7 DEF PageSet
<1>9. SamePages(header, page, page')
  BY <1>7, <1>8 DEF SamePages
<1>10. \A h \in Handle :
         /\ h[1] = z /\ Used(h) => entry[h].idtyp # 254
         /\ h[1] = z => dentry'[h] = entry[h]
         /\ h[1] # z => dentry'[h] = dentry[h]
  BY <1>2, <1>5 DEF Gone, Used
<1>12. \A h \in Handle : Used(h)' <=> Used(h)
  BY <1>1, <1>2, <1>3, <1>9, Fields DEF Used, SamePages
<1>13. Consistent(header, page, entry)'
  <2>1. SameEntries(header, page, entry, entry) /\ SameLive(header, page, entry, entry)
    BY <1>1 DEF SameEntries, SameLive, Within
  <2>2. /\ Covers(header, page', entry) /\ Disjoint(header, page', entry)
        /\ Within(header, page', entry) /\ Chained(header, page')
    BY <1>1, <1>3, <1>9, <2>1, PlacesAgree
  <2>3. header.nrwr <= header.neff
    BY <1>1 DEF Counted
  <2>4. Counted(header, page', entry)
    BY <1>1, <1>9, <2>1, <2>3, CountsAgree
  <2> QED
    BY <1>2, <2>2, <2>4 DEF Consistent
<1>14. \A a \in Addr : store'[a] = IF a \in Extent(page[z].addr, PageLen) THEN "dir" ELSE store[a]
  BY <1>2 DEF StoreFlushed
<1>15. MemoryStored'
  <2>1. ASSUME NEW p \in Page, p < npages PROVE store'[page'[p].addr] = "dir"
    <3>1. page'[p].addr = page[p].addr /\ store[page[p].addr] = "dir"
      BY <1>1, <1>3, <1>9, <2>1 DEF SamePages, MemoryStored
    <3>2. page[p].addr \in Addr
      BY <1>1, <2>1, NamedInFile
    <3> QED
      BY <1>14, <3>1, <3>2
  <2>2. ASSUME NEW g \in Handle, Used(g)
        PROVE  Whole(entry[g])' /\ (entry[g].idtyp \in {LIVE, 254} => HeaderKept(entry[g])')
    <3>1. /\ entry[g].addr \in Extent(entry[g].addr, entry[g].lng)
          /\ \A a \in Body(entry[g]) : a \in Extent(entry[g].addr, entry[g].lng)
      BY <1>1, <2>2, NamedInFile
    <3>2. ASSUME NEW a \in Extent(entry[g].addr, entry[g].lng)
          PROVE  store'[a] = store[a]
      <4>1. a \in Addr
        BY <1>1, <2>2, NamedInFile
      <4>2. a \notin Extent(page[z].addr, PageLen)
        BY <1>1, <1>3, <1>5, <2>2, <4>1 DEF Disjoint, PageHas, EntryHas
      <4> QED
        BY <1>14, <4>1, <4>2
    <3>3. Whole(entry[g]) /\ (entry[g].idtyp \in {LIVE, 254} => HeaderKept(entry[g]))
      BY <1>1, <2>2 DEF MemoryStored
    <3> QED
      BY <1>2, <3>1, <3>2, <3>3 DEF Whole, HeaderKept
  <2> QED
    BY <1>2, <1>12, <2>1, <2>2 DEF MemoryStored
<1>16. DiskBehind'
  <2>1. /\ dheader = header /\ \A q \in Page : q < npages =>
             /\ Earlier(q)
             /\ ~Reached(q) => dpage[q].nent = 0
             /\ Settled(q) => Synced(q)
    BY <1>1, <1>2 DEF DiskBehind
  <2> SUFFICES ASSUME NEW q \in Page, q < npages
               PROVE  /\ Earlier(q)'
                      /\ ~Reached(q)' => dpage'[q].nent = 0
                      /\ Settled(q)' => Synced(q)'
    BY <1>2, <1>3, <2>1 DEF DiskBehind, Page
  <2>2. dpage'[z].addr = dpage[z].addr
    BY <1>5, <1>7, <1>8, <2>1 DEF Earlier
  <2>3. \A p \in Page : dpage'[p].addr = dpage[p].addr
    BY <1>7, <2>2
  <2>4. \A p \in Page : p < npages - 1 => page[p].nxt_addr = dpage[p + 1].addr
    <3> TAKE p \in Page
    <3> HAVE p < npages - 1
    <3>1. p + 1 \in Page /\ p + 1 < npages
      BY <1>3, SizesAssumption DEF Page
    <3> QED
      BY <1>1, <1>3, <2>1, <3>1 DEF Chained, Earlier
  <2>5. \A p \in Page : p < z => dpage[p].nxt_addr = dpage[p + 1].addr
    <3> TAKE p \in Page
    <3> HAVE p < z
    <3>1. p < npages - 1 /\ p < npages
      BY <1>3, <1>5 DEF Page
    <3>2. Settled(p)
      BY <1>z DEF Settled
    <3> QED
      BY <2>1, <2>4, <3>1, <3>2 DEF Synced, SamePlaces
  <2>6. Reached(z)'
    <3> SUFFICES ASSUME NEW p \in Page, p < z PROVE dpage'[p].nxt_addr = dpage'[p + 1].addr
      BY DEF Reached
    <3>1. p + 1 \in Page /\ p # z
      BY SizesAssumption DEF Page
    <3> QED
      BY <1>7, <2>3, <2>5, <3>1
  <2>7. Reached(q) => Reached(q)'
    <3> SUFFICES ASSUME Reached(q), NEW p \in Page, p < q
                 PROVE  dpage'[p].nxt_addr = dpage'[p + 1].addr
      BY DEF Reached
    <3>1. p + 1 \in Page /\ p < npages - 1
      BY <1>3, SizesAssumption DEF Page
    <3>2. CASE p = z
      BY <1>7, <1>8, <2>3, <2>4, <3>1, <3>2
    <3>3. CASE p # z
      BY <1>7, <2>3, <3>1, <3>3 DEF Reached
    <3> QED
      BY <3>2, <3>3
  <2>8. ~Reached(q)' => dpage'[q].nent = 0
    BY <1>7, <2>1, <2>6, <2>7
  <2>9. CASE q = z
    <3>1. Synced(q)'
      BY ZenonT(40), <1>2, <1>7, <1>10, <2>9 DEF Synced, SamePlaces
    <3>2. Earlier(q)'
      <4>1. \A h \in Handle : h[1] = z /\ h[2] < dpage'[z].nent =>
              /\ dentry'[h].addr = entry'[h].addr /\ dentry'[h].lng = entry'[h].lng
              /\ dentry'[h].idtyp = entry'[h].idtyp
              /\ dentry'[h].key \in Keys
        <5> TAKE h \in Handle
        <5> HAVE h[1] = z /\ h[2] < dpage'[z].nent
        <5>3. dpage'[z].nent = page[z].nent
          BY <1>7, <1>8
        <5>4. dentry'[h] = entry'[h]
          BY <1>2, <1>10
        <5>1. Used(h) /\ dentry'[h] = entry'[h]
          BY <1>5, <5>3, <5>4 DEF Used
        <5>2. entry[h].key \in Keys
          BY <1>1, <1>3, <5>1 DEF Within
        <5> QED
          BY <1>2, <5>1, <5>2
      <4>2. dpage'[z].addr = page'[z].addr /\ dpage'[z].nent <= page'[z].nent
        BY <1>1, <1>5, <1>7, <1>8, Fields
      <4> QED
        BY <2>9, <4>1, <4>2 DEF Earlier
    <3> QED
      BY <2>8, <3>1, <3>2
  <2>10. CASE q # z
    <3>1. page'[q] = page[q] /\ dpage'[q] = dpage[q]
          /\ \A h \in Handle : h[1] = q => entry'[h] = entry[h] /\ dentry'[h] = dentry[h]
      BY <1>2, <1>7, <1>10, <2>10
    <3>2. Earlier(q)'
      BY <2>1, <3>1 DEF Earlier
    <3>3. Settled(q)' => Settled(q)
      BY <1>2, <1>z, <1>6, <2>10, <3>1, SizesAssumption DEF Settled, Page
    <3>4. Synced(q) => Synced(q)'
      BY <3>1 DEF Synced, SamePlaces
    <3> QED
      BY <2>1, <2>8, <3>2, <3>3, <3>4
  <2> QED
    BY <2>9, <2>10
<1>17. DiskMarks'
  <2>1. \A h \in Handle : h[2] < dpage'[h[1]].nent => dentry'[h].idtyp # 254
    <3> TAKE h \in Handle
    <3>1. CASE h[1] = z
      <4> HAVE h[2] < dpage'[h[1]].nent
      <4>1. dpage'[z].nent = page[z].nent
        BY <1>7, <1>8
      <4>2. dentry'[h] = entry[h]
        BY <1>10, <3>1
      <4>3. Used(h)
        BY <1>5, <3>1, <4>1 DEF Used
      <4> QED
        BY <1>10, <3>1, <4>2, <4>3
    <3>2. CASE h[1] # z
      <4>1. dpage'[h[1]] = dpage[h[1]] /\ dentry'[h] = dentry[h]
        BY <1>7, <1>10, <3>2 DEF Handle
      <4> QED
        BY <1>1, <4>1 DEF DiskMarks
    <3> QED
      BY <3>1, <3>2
  <2>2. \A p \in Page : ~dpage'[p].modified
    BY ZenonT(40), <1>1, <1>7, <1>8 DEF DiskMarks
  <2> QED
    BY <2>1, <2>2 DEF DiskMarks
<1>18. ForWriting' /\ CleanDisk'
  <2>1. dheader = header
    BY <1>1, <1>2 DEF DiskBehind
  <2> QED
    BY <1>2, <2>1 DEF ForWriting, CleanDisk
<1> QED
  BY <1>13, <1>15, <1>16, <1>17, <1>18, WritingStep

\* c_xdfcls passes a page that was not modified.
LEMMA PassPageKeeps ==
  ASSUME DirectoryInv, TypeInv', ForWriting, FlushPage, ~page[flush.at].modified
  PROVE  DirectoryInv'
<1>1. /\ TypeInv /\ st = "open" /\ DiskMarks /\ CleanDisk
      /\ Consistent(header, page, entry) /\ MemoryStored /\ DiskBehind
  BY WritingFacts DEF Consistent
<1>2. /\ flush.at # -1 /\ flush' = [flush EXCEPT !.at = @ + 1]
      /\ UNCHANGED <<st, header, npages, page, entry, modified, dheader, dpage, dentry, store>>
  BY DEF FlushPage, InPage
<1>3. flush'.at = flush.at + 1 /\ flush.at \in Int
  BY <1>1, <1>2 DEF TypeInv, TypeOK
<1>4. ForWriting' /\ DiskMarks' /\ CleanDisk'
  BY <1>1, <1>2 DEF ForWriting, DiskMarks, CleanDisk, HeadersKept, HeaderKept
<1>5. Consistent(header, page, entry)'
  BY <1>1, <1>2
<1>6. MemoryStored'
  BY <1>1, <1>2 DEF MemoryStored, Used, Whole, HeaderKept
<1>7. DiskBehind'
  <2>1. \A p \in Page : Settled(p)' => Settled(p)
    BY <1>2, <1>3 DEF Settled, Page
  <2>2. \A p \in Page : /\ Earlier(p)' <=> Earlier(p)
                        /\ Reached(p)' <=> Reached(p)
                        /\ Synced(p)' <=> Synced(p)
    BY <1>2 DEF Earlier, Reached, Synced, SamePlaces
  <2> QED
    BY <1>1, <1>2, <2>1, <2>2 DEF DiskBehind
<1> QED
  BY <1>4, <1>5, <1>6, <1>7, WritingStep

-----------------------------------------------------------------------------
(* Files that are created and opened.                                      *)

LEMMA CreateKeeps ==
  ASSUME DirectoryInv, TypeInv', Create
  PROVE  DirectoryInv'
<1>1. TypeInv /\ flush = NoFlush /\ DiskMarks
  BY DEF DirectoryInv, NotOpenInv, DiskInv, Create
<1>2. /\ page \in [Page -> PageSet] /\ dpage \in [Page -> PageSet] /\ 0 \in Page
      /\ HeaderLen + PageLen <= MaxAddr
  BY <1>1, SizesAssumption DEF TypeInv, TypeOK, Page, Create
<1>3. /\ header' = [NoHeader EXCEPT !.rwflg = CREATE, !.fsiz = HeaderLen + PageLen, !.nbd = 1]
      /\ dheader' = EmptyHeader
      /\ page' = [page EXCEPT ![0] = [NewPage(HeaderLen + 1) EXCEPT !.modified = TRUE]]
      /\ dpage' = [dpage EXCEPT ![0] = NewPage(HeaderLen + 1)]
      /\ st' = "open" /\ npages' = 1 /\ modified' = TRUE
      /\ store' = [a \in Addr |-> IF a \in Extent(HeaderLen + 1, PageLen) THEN "dir" ELSE store[a]]
      /\ UNCHANGED <<entry, flush, dentry>>
  BY DEF Create
<1>4. /\ header'.rwflg = CREATE /\ header'.fsiz = HeaderLen + PageLen /\ header'.nbd = 1
      /\ header'.nrec = 0 /\ header'.nxtn = 0 /\ header'.nrwr = 0 /\ header'.neff = 0
      /\ dheader'.nbd = 0
  BY <1>3 DEF NoHeader, EmptyHeader
<1>5. /\ page'[0].nent = 0 /\ page'[0].addr = HeaderLen + 1 /\ page'[0].nxt_addr = 0
      /\ page'[0].modified
      /\ dpage'[0].nent = 0 /\ dpage'[0].addr = HeaderLen + 1 /\ ~dpage'[0].modified
      /\ \A p \in Page : p # 0 => dpage'[p] = dpage[p]
  BY <1>2, <1>3 DEF NewPage
<1>6. \A p \in Page : (p < 1 <=> p = 0) /\ p # 0 - 1
  BY SizesAssumption DEF Page
<1>7. \A h \in Handle : h[1] < 1 => h[1] = 0 /\ ~(h[2] < 0)
  BY SizesAssumption DEF Handle, Page, Rec
<1>8. \A h \in Handle : ~EntryIn(header', page', h) /\ ~Used(h)'
  BY <1>3, <1>4, <1>5, <1>7 DEF EntryIn, Used
<1>9. Consistent(header, page, entry)'
  <2>1. \A p \in Page : PageIn(header', p) <=> p = 0
    BY <1>4, <1>6 DEF PageIn
  <2>2. \A a \in Addr : PageHas(page', 0, a) <=> a \in HeaderLen + 1 .. header'.fsiz
    BY <1>4, <1>5, SizesAssumption DEF PageHas, Extent
  <2>3. Covers(header', page', entry')
    BY <1>2, <1>8, <2>1, <2>2 DEF Covers
  <2>4. Disjoint(header', page', entry')
    BY <1>8, <2>1 DEF Disjoint
  <2>5. Within(header', page', entry')
    BY <1>4, <1>5, <1>8, <2>1, SizesAssumption DEF Within
  <2>6. Chained(header', page')
    <3> SUFFICES ASSUME NEW p \in Page
                 PROVE  ~(p < 0) /\ (p = 0 => page'[p].nxt_addr = 0)
      BY <1>4 DEF Chained
    <3> QED
      BY <1>5, SizesAssumption DEF Page
  <2>7. Counted(header', page', entry')
    <3>1. {h \in Handle : EntryIn(header', page', h)} = {}
      BY <1>8
    <3>2. {h \in Handle : EntryIn(header', page', h) /\ entry'[h].idtyp = LIVE} = {}
      BY <1>8
    <3> QED
      BY <1>4, <3>1, <3>2, FS_EmptySet DEF Counted
  <2> QED
    BY <2>3, <2>4, <2>5, <2>6, <2>7 DEF Consistent
<1>10. MemoryStored'
  <2>1. HeaderLen + 1 \in Addr /\ HeaderLen + 1 \in Extent(HeaderLen + 1, PageLen)
    BY <1>2, SizesAssumption DEF Addr, Extent
  <2>2. store'[HeaderLen + 1] = "dir"
    BY <1>3, <2>1
  <2> QED
    BY <1>3, <1>5, <1>6, <1>8, <2>2 DEF MemoryStored
<1>11. DiskBehind'
  <2>1. flush'.at = -1
    BY <1>1, <1>3 DEF NoFlush
  <2>2. ~Settled(0)'
    BY <1>3, <1>5, <2>1 DEF Settled
  <2>3. Earlier(0)'
    BY <1>5, <1>7 DEF Earlier
  <2> QED
    BY <1>3, <1>4, <1>5, <1>6, <2>1, <2>2, <2>3 DEF DiskBehind
<1>12. DiskMarks'
  <2>1. \A h \in Handle : h[2] < dpage'[h[1]].nent => dentry'[h].idtyp # 254
    <3> TAKE h \in Handle
    <3>1. h[1] \in Page /\ ~(h[2] < 0)
      BY SizesAssumption DEF Handle, Rec
    <3> QED
      BY <1>1, <1>3, <1>5, <3>1 DEF DiskMarks
  <2> QED
    BY <1>1, <1>5, <2>1 DEF DiskMarks
<1>13. ForWriting' /\ CleanDisk'
  BY <1>3, <1>4 DEF ForWriting, CleanDisk, CREATE, RDMODE
<1> QED
  BY <1>9, <1>10, <1>11, <1>12, <1>13, WritingStep

\* Opening for writing: the directory on disk is consistent, and its chain reaches all of it.
LEMMA OpenWritingKeeps ==
  ASSUME DirectoryInv, TypeInv', NEW m \in Modes, OpenFile(m), m # RDMODE
  PROVE  DirectoryInv'
<1>1. /\ TypeInv /\ flush = NoFlush /\ DiskMarks /\ DiskSafe /\ CleanDisk
      /\ dheader \in HeaderSet
  BY DEF DirectoryInv, NotOpenInv, DiskInv, OpenFile, TypeInv, TypeOK
<1>2. /\ dheader.rwflg = RDMODE /\ dheader.nbd # 0
      /\ st' = "open" /\ header' = [dheader EXCEPT !.rwflg = m] /\ npages' = dheader.nbd
      /\ page' = PagesRead /\ entry' = EntriesRead
      /\ UNCHANGED <<modified, flush, dheader, dpage, dentry, store>>
  BY DEF OpenFile, disk
<1>3. /\ Covers(dheader, dpage, dentry) /\ Disjoint(dheader, dpage, dentry)
      /\ Within(dheader, dpage, dentry) /\ Chained(dheader, dpage)
      /\ Counted(dheader, dpage, dentry) /\ HeadersKept
  BY <1>1, <1>2 DEF CleanDisk, Consistent
<1>4. /\ header'.rwflg = m /\ header'.nbd = dheader.nbd /\ header'.fsiz = dheader.fsiz
      /\ header'.nrec = dheader.nrec /\ header'.nxtn = dheader.nxtn
      /\ header'.nrwr = dheader.nrwr /\ header'.neff = dheader.neff
  BY <1>1, <1>2 DEF HeaderSet
<1>5. \A p \in Page : p < dheader.nbd => Reached(p)
  BY <1>1, <1>3, ChainReaches DEF PageIn
<1>6. \A p \in Page : p < dheader.nbd => page'[p] = dpage[p]
  <2> TAKE p \in Page
  <2> HAVE p < dheader.nbd
  <2>1. ~(p >= dheader.nbd)
    BY <1>1 DEF HeaderSet, Page
  <2> QED
    BY <1>2, <1>5, <2>1 DEF PagesRead
<1>7. \A h \in Handle : h[1] < dheader.nbd => entry'[h] = dentry[h]
  BY <1>2, <1>5 DEF EntriesRead, Handle
<1>8. /\ SamePages(dheader, dpage, page')
      /\ SameEntries(dheader, dpage, dentry, entry')
      /\ SameLive(dheader, dpage, dentry, entry')
  BY <1>3, <1>6, <1>7 DEF SamePages, SameEntries, SameLive, PageIn, EntryIn, Within
<1>9. Consistent(header, page, entry)'
  <2>1. /\ Covers(header', page', entry') /\ Disjoint(header', page', entry')
        /\ Within(header', page', entry') /\ Chained(header', page')
    BY <1>1, <1>3, <1>4, <1>8, PlacesAgree
  <2>2. header'.nrwr <= header'.neff
    BY <1>3, <1>4 DEF Counted
  <2>3. Counted(header', page', entry')
    BY <1>3, <1>4, <1>8, <2>2, CountsAgree
  <2> QED
    BY <2>1, <2>3 DEF Consistent
<1>10. \A h \in Handle : Used(h)' <=> DiskEntry(h)
  BY <1>2, <1>5, <1>6 DEF Used, DiskEntry, DiskPage, Handle
<1>11. MemoryStored'
  <2>1. \A p \in Page : p < npages' => store'[page'[p].addr] = "dir"
    BY <1>1, <1>2, <1>5, <1>6 DEF DiskSafe, DiskPage
  <2>2. ASSUME NEW h \in Handle, Used(h)'
        PROVE  Whole(entry[h])' /\ (entry'[h].idtyp \in {LIVE, 254} => HeaderKept(entry[h])')
    <3>1. DiskEntry(h) /\ entry'[h] = dentry[h] /\ h[2] < dpage[h[1]].nent
      BY <1>7, <1>10, <2>2 DEF DiskEntry, DiskPage
    <3>2. entry'[h].idtyp \in {LIVE, 254} => HeaderKept(dentry[h])
      BY <1>1, <1>3, <3>1 DEF DiskMarks, DiskEntry, DiskPage, HeadersKept, EntryIn
    <3>3. Whole(dentry[h])
      BY <1>1, <3>1 DEF DiskSafe
    <3> QED
      BY <1>2, <3>1, <3>2, <3>3 DEF Whole, HeaderKept
  <2> QED
    BY <2>1, <2>2 DEF MemoryStored
<1>12. DiskBehind'
  <2>1. flush'.at = -1 /\ dheader'.nbd <= npages'
    BY <1>1, <1>2 DEF NoFlush, HeaderSet
  <2> SUFFICES ASSUME NEW p \in Page, p < dheader.nbd
               PROVE  Earlier(p)' /\ ~(p >= dheader.nbd) /\ Reached(p)' /\ Synced(p)'
    BY <1>2, <2>1 DEF DiskBehind
  <2>2. ~(p >= dheader.nbd)
    BY <1>1 DEF HeaderSet, Page
  <2>3. Reached(p)'
    BY <1>2, <1>5 DEF Reached
  <2>4. page'[p] = dpage'[p] /\ \A h \in Handle : h[1] = p => entry'[h] = dentry'[h]
    BY <1>2, <1>6, <1>7
  <2>5. Synced(p)'
    BY <2>4 DEF Synced, SamePlaces
  <2>6. Earlier(p)'
    <3>1. \A h \in Handle : h[1] = p /\ h[2] < dpage'[p].nent => dentry'[h].key \in Keys
      BY <1>2, <1>3 DEF Within, EntryIn
    <3>2. dpage'[p].nent <= page'[p].nent
      BY <1>1, <1>2, <2>4, Fields
    <3> QED
      BY <2>4, <3>1, <3>2 DEF Earlier
  <2> QED
    BY <2>2, <2>3, <2>5, <2>6
<1>13. ForWriting' /\ DiskMarks' /\ CleanDisk'
  BY <1>1, <1>2, <1>4 DEF ForWriting, DiskMarks, CleanDisk, HeadersKept, HeaderKept
<1> QED
  BY <1>9, <1>11, <1>12, <1>13, WritingStep

LEMMA OpenReadingKeeps ==
  ASSUME DirectoryInv, TypeInv', NEW m \in Modes, OpenFile(m), m = RDMODE
  PROVE  DirectoryInv'
<1>1. /\ TypeInv /\ flush = NoFlush /\ DiskInv /\ DiskMarks /\ DiskSafe
      /\ dheader \in HeaderSet
  BY DEF DirectoryInv, NotOpenInv, DiskInv, OpenFile, TypeInv, TypeOK
<1>2. /\ st' = "open" /\ header' = [dheader EXCEPT !.rwflg = m] /\ npages' = dheader.nbd
      /\ page' = PagesRead /\ entry' = EntriesRead
      /\ UNCHANGED <<modified, flush, dheader, dpage, dentry, store>>
  BY DEF OpenFile, disk
<1>3. ForReading'
  BY <1>1, <1>2 DEF ForReading, HeaderSet
<1>4. DiskInv'
  BY <1>1, <1>2, DiskFrame
<1>5. ASSUME NEW p \in Page, p < dheader.nbd
      PROVE  /\ Reached(p)' <=> Reached(p)
             /\ Reached(p) => page'[p] = dpage[p]
             /\ ~Reached(p) => page'[p].nent = 0 /\ ~page'[p].modified
  <2>1. ~(p >= dheader.nbd)
    BY <1>1, <1>5 DEF HeaderSet, Page
  <2> QED
    BY <1>2, <2>1 DEF PagesRead, NewPage, Reached
<1>6. \A h \in Handle : h[1] < dheader.nbd /\ Reached(h[1]) => entry'[h] = dentry[h]
  BY <1>2 DEF EntriesRead
<1>7. ASSUME NEW p \in Page, p < dheader.nbd, Reached(p) PROVE Synced(p)'
  BY <1>2, <1>5, <1>6, <1>7 DEF Synced, SamePlaces
<1>8. ASSUME NEW h \in Handle, Used(h)' PROVE entry'[h].key \in Keys
  <2>1. h[1] \in Page /\ h[1] < dheader.nbd /\ h[2] < page'[h[1]].nent /\ ~(h[2] < 0)
    BY <1>2, <1>8, SizesAssumption DEF Used, Handle, Rec
  <2>2. Reached(h[1])
    BY <1>5, <2>1
  <2>3. DiskEntry(h)
    BY <1>5, <2>1, <2>2 DEF DiskEntry, DiskPage
  <2> QED
    BY <1>1, <1>6, <2>1, <2>2, <2>3 DEF DiskSafe
<1>9. ReadingInv'
  BY <1>2, <1>5, <1>7, <1>8 DEF ReadingInv, Synced
<1>10. NotOpenInv' /\ WritingInv'
  BY <1>2, <1>3 DEF NotOpenInv, WritingInv, ForWriting, ForReading
<1> QED
  BY <1>4, <1>9, <1>10 DEF DirectoryInv

\* An open that is refused, and the death of the process, leave the disk alone.
LEMMA ClosedKeeps ==
  ASSUME DirectoryInv, TypeInv', Crash \/ \E m \in Modes : OpenRefused(m)
  PROVE  DirectoryInv'
<1>1. DiskInv'
  <2>1. UNCHANGED <<dheader, dpage, dentry, store>>
    BY DEF Crash, OpenRefused, disk
  <2> QED
    BY <2>1, DiskFrame DEF DirectoryInv
<1>2. st' # "open" /\ flush' = NoFlush /\ npages' = 0
  BY DEF Crash, ResetMemory, OpenRefused, DirectoryInv, NotOpenInv
<1> QED
  BY <1>1, <1>2 DEF DirectoryInv, NotOpenInv, WritingInv, ReadingInv, ForWriting, ForReading

-----------------------------------------------------------------------------
(* Steps of a file open for reading: only keys can change.                 *)

LEMMA ReadingFacts ==
  ASSUME DirectoryInv, ForReading
  PROVE  /\ TypeInv /\ st = "open" /\ DiskInv /\ DiskMarks /\ DiskSafe /\ CleanDisk
         /\ dheader.nbd = npages /\ npages \in 1 .. MaxDirPages
         /\ dheader \in HeaderSet /\ header.nbd = npages
         /\ \A p \in Page : p < npages =>
              /\ Reached(p) => SamePlaces(p)
              /\ ~Reached(p) => page[p].nent = 0 /\ ~page[p].modified
              /\ Reached(p) /\ Settled(p) => Synced(p)
         /\ \A h \in Handle : Used(h) => entry[h].key \in Keys
BY OpenIn DEF DirectoryInv, ForReading, ReadingInv, DiskInv, TypeInv, TypeOK

\* In a file open for reading, a record is on disk at its place.
LEMMA ReadingRecord ==
  ASSUME DirectoryInv, ForReading, NEW h \in Handle
  PROVE  /\ DiskEntry(h) <=> Used(h)
         /\ Used(h) => Reached(h[1]) /\ entry[h].idtyp # 254
<1>1. /\ TypeInv /\ DiskMarks /\ dheader.nbd = npages
      /\ \A p \in Page : p < npages =>
           /\ Reached(p) => SamePlaces(p)
           /\ ~Reached(p) => page[p].nent = 0 /\ ~page[p].modified
  BY ReadingFacts
<1>2. h[1] \in Page /\ ~(h[2] < 0)
  BY SizesAssumption DEF Handle, Rec
<1>3. Used(h) => Reached(h[1])
  BY <1>1, <1>2 DEF Used
<1>4. DiskEntry(h) <=> Used(h)
  BY <1>1, <1>2, <1>3 DEF DiskEntry, DiskPage, Used, SamePlaces
<1>5. Used(h) => entry[h].idtyp # 254
  BY <1>1, <1>2, <1>3, <1>4 DEF DiskEntry, DiskMarks, SamePlaces, Used
<1> QED
  BY <1>3, <1>4, <1>5

\* Of a file open for reading it has nothing to erase.
LEMMA FlushRecordReading ==
  ASSUME DirectoryInv, ForReading, FlushRecord
  PROVE  FALSE
<1>1. TypeInv /\ header.nbd = npages
  BY ReadingFacts
<1>2. PICK h \in Gone(flush.at) : TRUE
  BY DEF FlushRecord
<1>3. h \in Handle /\ Used(h) /\ entry[h].idtyp = 254
  BY <1>1, <1>2 DEF FlushRecord, InPage, Gone, Used
<1> QED
  BY <1>3, ReadingRecord

LEMMA ReadingStep ==
  ASSUME TypeInv', ForReading', ReadingInv', DiskInv'
  PROVE  DirectoryInv'
BY DEF DirectoryInv, ForReading, NotOpenInv, WritingInv, ForWriting

LEMMA EditReadingKeeps ==
  ASSUME DirectoryInv, TypeInv', ForReading,
         NEW h \in Handle, NEW k \in Keys, EditDir(h, k)
  PROVE  DirectoryInv'
<1>1. /\ TypeInv /\ st = "open" /\ DiskInv /\ dheader.nbd = npages
      /\ \A p \in Page : p < npages =>
           /\ Reached(p) => SamePlaces(p)
           /\ ~Reached(p) => page[p].nent = 0 /\ ~page[p].modified
           /\ Reached(p) /\ Settled(p) => Synced(p)
      /\ \A g \in Handle : Used(g) => entry[g].key \in Keys
  BY ReadingFacts
<1>2. /\ entry' = [entry EXCEPT ![h].key = k] /\ page' = Touched(h[1])
      /\ modified' = TRUE /\ flush.at = -1 /\ Used(h)
      /\ UNCHANGED <<st, header, npages, pos, flush, dheader, dpage, dentry, store>>
  BY DEF EditDir, Ready, disk
<1>3. /\ h[1] \in Page /\ entry \in [Handle -> EntrySet]
      /\ \A g \in Handle : entry[g] \in EntrySet /\ g[1] \in Page
  BY <1>1, Fields DEF TypeInv, TypeOK
<1>4. /\ SamePages(header, page, page')
      /\ \A q \in Page : ~page'[q].modified => q # h[1] /\ page'[q] = page[q]
      /\ \A p : PageIn(header, p) <=> p < npages
  BY <1>1, <1>2, <1>3, TouchedPage, OpenIn
<1>5. \A g \in Handle : /\ entry'[g].addr = entry[g].addr /\ entry'[g].lng = entry[g].lng
                        /\ entry'[g].idtyp = entry[g].idtyp
                        /\ g = h => entry'[g].key = k
                        /\ g # h => entry'[g] = entry[g]
  BY <1>2, <1>3 DEF EntrySet
<1>6. Reached(h[1])
  BY ReadingRecord, <1>2
<1>7. \A q \in Page : q # h[1] => page'[q] = page[q]
  BY <1>1, <1>2 DEF Touched, TypeInv, TypeOK
<1>8. ASSUME NEW p \in Page, p < npages
      PROVE  /\ Reached(p)' => SamePlaces(p)'
             /\ ~Reached(p)' => page'[p].nent = 0 /\ ~page'[p].modified
             /\ Reached(p)' /\ Settled(p)' => Synced(p)'
  <2>1. Reached(p)' <=> Reached(p)
    BY <1>2 DEF Reached
  <2>2. /\ Reached(p) => SamePlaces(p)
        /\ ~Reached(p) => page[p].nent = 0 /\ ~page[p].modified
        /\ Reached(p) /\ Settled(p) => Synced(p)
    BY <1>1, <1>8
  <2>3. page'[p].nent = page[p].nent /\ page'[p].addr = page[p].addr
        /\ page'[p].nxt_addr = page[p].nxt_addr
    BY <1>4, <1>8 DEF SamePages
  <2>4. SamePlaces(p) => SamePlaces(p)'
    BY <1>2, <1>5, <2>3 DEF SamePlaces
  <2>5. ASSUME Reached(p), Settled(p)' PROVE Synced(p)'
    <3>1. ~page'[p].modified
      BY <1>2, <2>5, SizesAssumption DEF Settled, Page
    <3>2. p # h[1] /\ Settled(p)
      BY <1>4, <3>1 DEF Settled
    <3>3. \A g \in Handle : g[1] = p => entry'[g] = entry[g]
      BY <1>5, <3>2
    <3> QED
      BY <1>2, <2>2, <2>4, <2>5, <3>2, <3>3 DEF Synced
  <2> QED
    BY <1>6, <1>7, <2>1, <2>2, <2>4, <2>5
<1>9. \A g \in Handle : Used(g)' => entry'[g].key \in Keys
  <2>1. \A g \in Handle : Used(g)' <=> Used(g)
    BY <1>2, <1>3, <1>4 DEF Used, SamePages
  <2> QED
    BY <1>1, <1>5, <2>1
<1>10. ForReading' /\ DiskInv'
  BY <1>1, <1>2, DiskFrame DEF ForReading
<1>11. ReadingInv'
  BY <1>1, <1>2, <1>8, <1>9 DEF ReadingInv
<1> QED
  BY <1>10, <1>11, ReadingStep

\* c_xdfcls on a file open for reading: its first and its last step, and the pages it passes.
LEMMA PassReadingKeeps ==
  ASSUME DirectoryInv, TypeInv', ForReading,
         \/ \E c \in BOOLEAN : FlushHeader(c)
         \/ FlushPage /\ ~page[flush.at].modified
         \/ EndCheckpoint
  PROVE  DirectoryInv'
<1>1. /\ TypeInv /\ DiskInv /\ dheader.nbd = npages /\ header.nbd = npages
      /\ npages \in 1 .. MaxDirPages
      /\ \A p \in Page : p < npages =>
           /\ Reached(p) => SamePlaces(p)
           /\ ~Reached(p) => page[p].nent = 0 /\ ~page[p].modified
           /\ Reached(p) /\ Settled(p) => Synced(p)
      /\ \A g \in Handle : Used(g) => entry[g].key \in Keys
  BY ReadingFacts
<1>2. UNCHANGED <<st, header, npages, page, entry, dheader, dpage, dentry, store>>
  BY DEF ForReading, FlushHeader, HeaderFlushed, FlushPage, EndCheckpoint, disk
<1>3. \A p \in Page : p < npages /\ Settled(p)' => Settled(p)
  <2> TAKE p \in Page
  <2> HAVE p < npages /\ Settled(p)'
  <2>1. flush \in [at : -1 .. MaxDirPages, checkpoint : BOOLEAN]
    BY <1>1 DEF TypeInv, TypeOK
  <2>2. CASE \E c \in BOOLEAN : FlushHeader(c)
    <3>1. flush'.at = (IF modified THEN 0 ELSE header.nbd) /\ modified' = modified
      BY <2>2 DEF FlushHeader
    <3> QED
      BY <1>2, <3>1, SizesAssumption DEF Settled, Page
  <2>3. CASE FlushPage /\ ~page[flush.at].modified
    <3>1. flush'.at = flush.at + 1 /\ modified' = modified
      BY <2>1, <2>3 DEF FlushPage
    <3>2. p # flush.at => (p < flush.at <=> p < flush'.at)
      BY <2>1, <3>1, SizesAssumption DEF Page
    <3> QED
      BY <1>2, <2>3, <3>1, <3>2 DEF Settled
  <2>4. CASE EndCheckpoint
    BY <1>1, <2>4 DEF EndCheckpoint, Settled
  <2> QED
    BY <2>2, <2>3, <2>4
<1>4. \A p \in Page : /\ Reached(p)' <=> Reached(p)
                      /\ SamePlaces(p)' <=> SamePlaces(p)
                      /\ Synced(p)' <=> Synced(p)
  BY <1>2 DEF Reached, Synced, SamePlaces
<1>5. \A h \in Handle : Used(h)' <=> Used(h)
  BY <1>2 DEF Used
<1>6. ReadingInv'
  BY <1>1, <1>2, <1>3, <1>4, <1>5 DEF ReadingInv
<1>7. ForReading' /\ DiskInv'
  BY <1>1, <1>2, DiskFrame DEF ForReading
<1> QED
  BY <1>6, <1>7, ReadingStep

LEMMA CloseReadingKeeps ==
  ASSUME DirectoryInv, TypeInv', ForReading, EndClose
  PROVE  DirectoryInv'
<1>1. /\ st' = "closed" /\ flush' = NoFlush /\ npages' = 0
      /\ UNCHANGED <<dheader, dpage, dentry, store>>
  BY DEF EndClose, ForReading, ResetMemory
<1>2. DiskInv'
  BY <1>1, ReadingFacts, DiskFrame
<1> QED
  BY <1>1, <1>2 DEF DirectoryInv, NotOpenInv, WritingInv, ReadingInv, ForWriting, ForReading

\* The write of a page whose keys were edited, of a file open for reading.
LEMMA WriteReadingKeeps ==
  ASSUME DirectoryInv, TypeInv', ForReading, FlushPage, page[flush.at].modified
  PROVE  DirectoryInv'
<1>1. /\ TypeInv /\ DiskMarks /\ DiskSafe /\ CleanDisk
      /\ dheader.nbd = npages /\ header.nbd = npages /\ dheader \in HeaderSet
      /\ npages \in 1 .. MaxDirPages
      /\ \A p \in Page : p < npages =>
           /\ Reached(p) => SamePlaces(p)
           /\ ~Reached(p) => page[p].nent = 0 /\ ~page[p].modified
           /\ Reached(p) /\ Settled(p) => Synced(p)
      /\ \A g \in Handle : Used(g) => entry[g].key \in Keys
  BY ReadingFacts
<1>2. /\ page \in [Page -> PageSet] /\ dpage \in [Page -> PageSet]
      /\ entry \in [Handle -> EntrySet] /\ flush \in [at : -1 .. MaxDirPages, checkpoint : BOOLEAN]
  BY <1>1 DEF TypeInv, TypeOK
<1>3. PICK z \in Page : z = flush.at
  <2>1. flush.at \in -1 .. MaxDirPages /\ flush.at # -1 /\ flush.at < npages
    BY <1>1, <1>2 DEF FlushPage, InPage
  <2> QED
    BY <1>1, <2>1, SizesAssumption DEF Page
<1>4. /\ page' = [page EXCEPT ![z].modified = FALSE]
      /\ dentry' = [h \in Handle |-> IF h[1] = z THEN entry[h] ELSE dentry[h]]
      /\ dpage' = [dpage EXCEPT ![z] = [page[z] EXCEPT !.modified = FALSE]]
      /\ store' = StoreFlushed(z)
      /\ z < npages /\ page[z].modified
      /\ flush' = [flush EXCEPT !.at = @ + 1]
      /\ UNCHANGED <<st, header, npages, entry, modified, pos, dheader>>
  BY <1>1, <1>3 DEF FlushPage, WritePage, InPage
<1>5. flush'.at = z + 1 /\ page[z] \in PageSet
  BY <1>2, <1>3, <1>4
<1>6. Reached(z) /\ SamePlaces(z)
  BY <1>1, <1>4
<1>8. \A h \in Handle : /\ entry'[h] = entry[h]
                        /\ h[1] = z => dentry'[h] = entry[h]
                        /\ h[1] # z => dentry'[h] = dentry[h]
  BY <1>4
<1>9. /\ page'[z] = [page[z] EXCEPT !.modified = FALSE] /\ dpage'[z] = page'[z]
      /\ \A q \in Page : q # z => page'[q] = page[q] /\ dpage'[q] = dpage[q]
  BY <1>2, <1>4
<1>10. /\ page'[z].nent = page[z].nent /\ page'[z].addr = page[z].addr
       /\ page'[z].nxt_addr = page[z].nxt_addr /\ ~page'[z].modified
  BY <1>5, <1>9 DEF PageSet
<1>11. \A p \in Page : /\ dpage'[p].nent = dpage[p].nent /\ dpage'[p].addr = dpage[p].addr
                       /\ dpage'[p].nxt_addr = dpage[p].nxt_addr /\ ~dpage'[p].modified
  <2> TAKE p \in Page
  <2>1. CASE p = z
    BY <1>6, <1>9, <1>10, <2>1 DEF SamePlaces
  <2>2. CASE p # z
    BY <1>1, <1>9, <2>2 DEF DiskMarks
  <2> QED
    BY <2>1, <2>2
<1>12. \A p \in Page : (Reached(p)' <=> Reached(p)) /\ (DiskPage(p)' <=> DiskPage(p))
  <2> TAKE p \in Page
  <2>1. \A q \in Page : q < p => q + 1 \in Page
    BY SizesAssumption DEF Page
  <2>2. Reached(p)' <=> Reached(p)
    BY <1>11, <2>1 DEF Reached
  <2> QED
    BY <1>4, <2>2 DEF DiskPage
<1>13. \A h \in Handle : DiskEntry(h)' <=> DiskEntry(h)
  BY <1>11, <1>12 DEF DiskEntry, Handle
<1>14. \A h \in Handle : /\ dentry'[h].addr = dentry[h].addr /\ dentry'[h].lng = dentry[h].lng
                         /\ dentry'[h].idtyp = dentry[h].idtyp
  <2> TAKE h \in Handle
  <2>1. CASE h[1] = z
    BY <1>6, <1>8, <2>1 DEF SamePlaces
  <2>2. CASE h[1] # z
    BY <1>8, <2>2
  <2> QED
    BY <2>1, <2>2
<1>15. \A h \in Handle : DiskEntry(h) => dentry'[h].key \in Keys
  <2> TAKE h \in Handle
  <2> HAVE DiskEntry(h)
  <2>1. CASE h[1] = z
    BY <1>1, <1>8, <2>1, ReadingRecord
  <2>2. CASE h[1] # z
    BY <1>1, <1>8, <2>2 DEF DiskSafe
  <2> QED
    BY <2>1, <2>2
<1>16. \A a \in Addr : store'[a] = IF a \in Extent(dpage[z].addr, PageLen) THEN "dir" ELSE store[a]
  BY <1>4, <1>6 DEF StoreFlushed, SamePlaces
<1>17. DiskPage(z)
  BY <1>1, <1>4, <1>6 DEF DiskPage
<1>18. DiskMarks'
  <2>1. \A h \in Handle : h[1] \in Page
    BY DEF Handle
  <2> QED
    BY <1>1, <1>11, <1>14, <2>1 DEF DiskMarks
<1>w. ASSUME NEW h \in Handle, DiskEntry(h)
      PROVE  /\ \E v \in Values : \A a \in Body(dentry[h]) : store'[a] = v
             /\ HeaderKept(dentry[h]) => store'[dentry[h].addr] \in Values
  <2>1. PICK v \in Values : \A a \in Body(dentry[h]) : store[a] = v
    BY <1>1, <1>w DEF DiskSafe, Whole
  <2>2. /\ \A a \in Extent(dentry[h].addr, dentry[h].lng) : a \in Addr
        /\ \A a \in Body(dentry[h]) : a \in Extent(dentry[h].addr, dentry[h].lng)
        /\ dentry[h].addr \in Extent(dentry[h].addr, dentry[h].lng)
    <3>1. /\ dentry[h].addr >= 1 /\ dentry[h].addr + dentry[h].lng - 1 <= MaxAddr
          /\ dentry[h].lng \in Nat \ {0}
      BY <1>1, <1>w, SizesAssumption DEF DiskSafe
    <3>2. dentry[h].addr \in 0 .. MaxAddr
      BY <1>1, Fields
    <3> QED
      BY <3>1, <3>2, SizesAssumption DEF Extent, Addr, Body
  <2>3. \A a \in Extent(dentry[h].addr, dentry[h].lng) : a \notin Extent(dpage[z].addr, PageLen)
    BY <1>1, <1>17, <1>w, <2>2 DEF DiskSafe, PageHas, EntryHas
  <2>4. \A a \in Extent(dentry[h].addr, dentry[h].lng) : store'[a] = store[a]
    BY <1>16, <2>2, <2>3
  <2> QED
    BY <2>1, <2>2, <2>4 DEF HeaderKept
<1>19. DiskSafe'
  <2>1. ASSUME NEW p \in Page, DiskPage(p)
        PROVE  /\ dpage[p].addr >= 1 /\ dpage[p].addr + PageLen - 1 <= MaxAddr
               /\ store'[dpage[p].addr] = "dir"
    <3>1. /\ dpage[p].addr >= 1 /\ dpage[p].addr + PageLen - 1 <= MaxAddr
          /\ store[dpage[p].addr] = "dir"
      BY <1>1, <2>1 DEF DiskSafe
    <3>2. dpage[p].addr \in 0 .. MaxAddr + 1
      BY <1>1, Fields
    <3>3. dpage[p].addr \in Addr
      BY <3>1, <3>2, SizesAssumption DEF Addr
    <3> QED
      BY <1>16, <3>1, <3>3
  <2>3. \A p \in Page, a \in Addr : PageHas(dpage', p, a) <=> PageHas(dpage, p, a)
    BY <1>11 DEF PageHas
  <2>4. \A h \in Handle, a \in Addr : EntryHas(dentry', h, a) <=> EntryHas(dentry, h, a)
    BY <1>14 DEF EntryHas
  <2>5. \A p \in Page : DiskPage(p)' =>
          /\ dpage'[p].addr >= 1 /\ dpage'[p].addr + PageLen - 1 <= MaxAddr
          /\ store'[dpage'[p].addr] = "dir"
    BY <1>11, <1>12, <2>1
  <2>6. \A h \in Handle : DiskEntry(h)' =>
          /\ dentry'[h].addr >= 1 /\ dentry'[h].addr + dentry'[h].lng - 1 <= MaxAddr
          /\ dentry'[h].lng \in Lens /\ dentry'[h].key \in Keys
    BY <1>1, <1>13, <1>14, <1>15 DEF DiskSafe
  <2>7. \A h \in Handle : DiskEntry(h)' => Whole(dentry[h])'
    BY <1>13, <1>14, <1>w DEF Whole, Body
  <2>8. \A p \in Page, h \in Handle, a \in Addr :
          DiskPage(p)' /\ DiskEntry(h)' => ~(PageHas(dpage', p, a) /\ EntryHas(dentry', h, a))
    BY <1>1, <1>12, <1>13, <2>3, <2>4 DEF DiskSafe
  <2> QED
    BY <2>5, <2>6, <2>7, <2>8 DEF DiskSafe
<1>20. CleanDisk'
  <2> SUFFICES ASSUME dheader.rwflg = RDMODE, dheader.nbd # 0
               PROVE  Consistent(dheader, dpage', dentry') /\ HeadersKept'
    BY <1>4 DEF CleanDisk
  <2>1. /\ Covers(dheader, dpage, dentry) /\ Disjoint(dheader, dpage, dentry)
        /\ Within(dheader, dpage, dentry) /\ Chained(dheader, dpage)
        /\ Counted(dheader, dpage, dentry) /\ HeadersKept
    BY <1>1 DEF CleanDisk, Consistent
  <2>2. SamePages(dheader, dpage, dpage')
    BY <1>11 DEF SamePages
  <2>3. \A h \in Handle : EntryIn(dheader, dpage, h) => DiskEntry(h)
    <3>1. \A p \in Page : p < dheader.nbd => Reached(p)
      BY <1>1, <2>1, ChainReaches DEF PageIn
    <3> QED
      BY <3>1 DEF EntryIn, DiskEntry, DiskPage, Handle
  <2>4. SameEntries(dheader, dpage, dentry, dentry') /\ SameLive(dheader, dpage, dentry, dentry')
    BY <1>14, <1>15, <2>3 DEF SameEntries, SameLive
  <2>5. /\ Covers(dheader, dpage', dentry') /\ Disjoint(dheader, dpage', dentry')
        /\ Within(dheader, dpage', dentry') /\ Chained(dheader, dpage')
    BY <1>1, <2>1, <2>2, <2>4, PlacesAgree
  <2>6. dheader.nrwr <= dheader.neff
    BY <2>1 DEF Counted
  <2>7. Counted(dheader, dpage', dentry')
    BY <2>1, <2>2, <2>4, <2>6, CountsAgree
  <2>8. HeadersKept'
    <3> SUFFICES ASSUME NEW h \in Handle, EntryIn(dheader, dpage', h), dentry'[h].idtyp = LIVE
                 PROVE  store'[dentry'[h].addr] \in Values
      BY <1>4 DEF HeadersKept, HeaderKept
    <3>1. EntryIn(dheader, dpage, h)
      BY <2>2, EntriesAgree
    <3>2. DiskEntry(h) /\ HeaderKept(dentry[h])
      BY <1>14, <2>1, <2>3, <3>1 DEF HeadersKept
    <3>3. store'[dentry[h].addr] \in Values
      BY <3>2, <1>w
    <3> QED
      BY <1>14, <3>3
  <2> QED
    BY <2>5, <2>7, <2>8 DEF Consistent
<1>21. ReadingInv'
  <2>1. ASSUME NEW p \in Page, p < npages
        PROVE  /\ Reached(p)' => SamePlaces(p)'
               /\ ~Reached(p)' => page'[p].nent = 0 /\ ~page'[p].modified
               /\ Reached(p)' /\ Settled(p)' => Synced(p)'
    <3>1. CASE p = z
      <4>1. Synced(p)'
        BY <1>8, <1>9, <3>1 DEF Synced, SamePlaces
      <4> QED
        BY <1>6, <1>12, <3>1, <4>1 DEF Synced
    <3>2. CASE p # z
      <4>1. page'[p] = page[p] /\ dpage'[p] = dpage[p]
            /\ \A h \in Handle : h[1] = p => entry'[h] = entry[h] /\ dentry'[h] = dentry[h]
        BY <1>8, <1>9, <3>2
      <4>2. Settled(p)' => Settled(p)
        BY <1>3, <1>4, <1>5, <3>2, <4>1, SizesAssumption DEF Settled, Page
      <4>3. (SamePlaces(p) => SamePlaces(p)') /\ (Synced(p) => Synced(p)')
        BY <4>1 DEF Synced, SamePlaces
      <4> QED
        BY <1>1, <1>12, <2>1, <4>1, <4>2, <4>3
    <3> QED
      BY <3>1, <3>2
  <2>2. \A h \in Handle : Used(h)' <=> Used(h)
    BY <1>4, <1>9, <1>10 DEF Used, Handle
  <2> QED
    BY <1>1, <1>4, <1>8, <2>1, <2>2 DEF ReadingInv
<1>22. ForReading' /\ DiskInv'
  BY <1>4, <1>18, <1>19, <1>20 DEF ForReading, DiskInv
<1> QED
  BY <1>21, <1>22, ReadingStep

-----------------------------------------------------------------------------
(* A record at the end of the file.                                        *)

\* What PutAtEnd does to the directory: the new entry, the counters, each page and each entry.
HandleIsNew(old) ==
  /\ NewHandle \in Handle /\ ~Used(NewHandle) /\ Last \in Page /\ old # NewHandle
  /\ NewHandle[1] = (IF PageFull THEN npages ELSE Last)
  /\ PageFull => npages \in Page /\ NewHandle[2] = 0 /\ page[Last].nent = EntriesPerPage
  /\ ~PageFull => NewHandle[2] = page[Last].nent

HeaderIsPut(old, l) ==
  /\ npages' = (IF PageFull THEN npages + 1 ELSE npages)
  /\ header'.nbd = npages' /\ header'.rwflg = header.rwflg
  /\ header'.fsiz = WriteAddr + l - 1
  /\ header'.nrec = (IF old = NoHandle THEN header.nrec + 1 ELSE header.nrec)
  /\ header'.nxtn = header.nxtn + 1 /\ header'.nrwr <= header'.neff

PagesArePut(old) ==
  /\ \A p \in Page : p < npages =>
       /\ page'[p].addr = page[p].addr
       /\ page'[p].nent = (IF p = NewHandle[1] THEN page[p].nent + 1 ELSE page[p].nent)
       /\ page'[p].nxt_addr = (IF p = Last /\ PageFull THEN header.fsiz + 1
                               ELSE page[p].nxt_addr)
       /\ ~page'[p].modified => page'[p] = page[p] /\ p # NewHandle[1] /\ p # old[1]
  /\ PageFull =>
       /\ page'[npages].addr = header.fsiz + 1 /\ page'[npages].nent = 1
       /\ page'[npages].nxt_addr = 0 /\ page'[npages].modified

EntriesArePut(old, k, l) ==
  /\ entry'[NewHandle] = [idtyp |-> LIVE, key |-> k, addr |-> WriteAddr, lng |-> l]
  /\ \A h \in Handle : h # NewHandle =>
       /\ entry'[h].addr = entry[h].addr /\ entry'[h].lng = entry[h].lng
       /\ entry'[h].key = entry[h].key
       /\ h = old => entry'[h].idtyp = 254 /\ entry[h].idtyp = LIVE /\ Used(h)
       /\ h # old => entry'[h] = entry[h]
  /\ \A h \in Handle : Used(h)' <=> Used(h) \/ h = NewHandle

LEMMA PutFacts ==
  ASSUME DirectoryInv, TypeInv', ForWriting,
         NEW old \in Handle \cup {NoHandle}, NEW k \in Keys, NEW l \in Lens, NEW v \in Values,
         old # NoHandle => Live(old), PutAtEnd(old, k, l, v)
  PROVE  HandleIsNew(old) /\ HeaderIsPut(old, l) /\ PagesArePut(old) /\ EntriesArePut(old, k, l)
<1>1. TypeInv /\ st = "open" /\ Counted(header, page, entry)
  BY WritingFacts
<1>2. /\ PageFull => npages < MaxDirPages
      /\ entry' = EntriesPut(old, k, l) /\ page' = PagesPut(old)
      /\ npages' = NewHandle[1] + 1 /\ header' = HeaderPut(old, l)
  BY DEF PutAtEnd
<1>3. NewHandle \in Handle /\ ~Used(NewHandle) /\ Last \in Page
  BY <1>1, <1>2, NewHandleType
<1>4. npages \in 1 .. MaxDirPages /\ header.nbd = npages /\ header \in HeaderSet
  BY <1>1, OpenIn
<1>5. old # NewHandle /\ (old # NoHandle => Used(old) /\ entry[old].idtyp = LIVE /\ old \in Handle)
  <2>1. NewHandle # NoHandle
    BY <1>3, SizesAssumption DEF Handle, Page, NoHandle
  <2> QED
    BY <1>3, <2>1 DEF Live
<1>6. /\ NewHandle[1] = (IF PageFull THEN npages ELSE Last)
      /\ PageFull => npages \in Page /\ NewHandle[2] = 0 /\ page[Last].nent = EntriesPerPage
      /\ ~PageFull => NewHandle[2] = page[Last].nent
  <2>1. NewHandle[1] = (IF PageFull THEN npages ELSE Last)
    BY DEF NewHandle
  <2>2. page[Last].nent \in 0 .. EntriesPerPage
    BY <1>1, <1>3, Fields
  <2>3. PageFull => page[Last].nent = EntriesPerPage
    BY <2>2, SizesAssumption DEF PageFull
  <2>4. PageFull => npages \in Page
    BY <1>2, <1>4, SizesAssumption DEF Page
  <2> QED
    BY <2>1, <2>3, <2>4 DEF NewHandle
<1>7. npages' = (IF PageFull THEN npages + 1 ELSE npages)
  BY <1>2, <1>4, <1>6 DEF Last
<1>8. /\ header'.nbd = npages' /\ header'.rwflg = header.rwflg
      /\ header'.fsiz = WriteAddr + l - 1
      /\ header'.nrec = (IF old = NoHandle THEN header.nrec + 1 ELSE header.nrec)
      /\ header'.nxtn = header.nxtn + 1 /\ header'.nrwr <= header'.neff
  <2>1. header.nrwr <= header.neff /\ header.nrwr \in Int /\ header.neff \in Int
    BY <1>1, <1>4 DEF Counted, HeaderSet
  <2> QED
    BY <1>2, <1>4, <1>7, <2>1 DEF HeaderPut
<1>9. ASSUME NEW p \in Page, p < npages
      PROVE  /\ page'[p].addr = page[p].addr
             /\ page'[p].nent = (IF p = NewHandle[1] THEN page[p].nent + 1 ELSE page[p].nent)
             /\ page'[p].nxt_addr = (IF p = Last /\ PageFull THEN header.fsiz + 1
                                     ELSE page[p].nxt_addr)
             /\ ~page'[p].modified => page'[p] = page[p] /\ p # NewHandle[1] /\ p # old[1]
  <2>1. page[p] \in PageSet
    BY <1>1, Fields
  <2>2. CASE p = NewHandle[1]
    <3>1. ~PageFull /\ p = Last /\ NewHandle[2] = page[p].nent
      BY <1>4, <1>6, <1>9, <2>2
    <3>2. page'[p] = [nent |-> NewHandle[2] + 1, addr |-> page[p].addr,
                      nxt_addr |-> page[p].nxt_addr, modified |-> TRUE]
      BY <1>2, <2>2, <3>1 DEF PagesPut
    <3> QED
      BY <2>2, <3>1, <3>2
  <2>3. CASE p # NewHandle[1] /\ p = Last
    <3>1. PageFull
      BY <1>6, <2>3
    <3>2. page'[p] = [page[p] EXCEPT !.nxt_addr = header.fsiz + 1, !.modified = TRUE]
      BY <1>2, <2>3 DEF PagesPut
    <3> QED
      BY <2>1, <2>3, <3>1, <3>2 DEF PageSet
  <2>4. CASE p # NewHandle[1] /\ p # Last
    <3>1. page'[p] = (IF p = old[1] THEN [page[p] EXCEPT !.modified = TRUE] ELSE page[p])
      BY <1>2, <2>4 DEF PagesPut
    <3>2. CASE p = old[1]
      BY <2>1, <2>4, <3>1, <3>2 DEF PageSet
    <3>3. CASE p # old[1]
      BY <2>4, <3>1, <3>3
    <3> QED
      BY <3>2, <3>3
  <2> QED
    BY <2>2, <2>3, <2>4
<1>10. ASSUME PageFull
       PROVE  /\ page'[npages].addr = header.fsiz + 1 /\ page'[npages].nent = 1
              /\ page'[npages].nxt_addr = 0 /\ page'[npages].modified
  <2>1. npages \in Page /\ npages = NewHandle[1] /\ NewHandle[2] = 0
    BY <1>6, <1>10
  <2>2. page'[npages] = [nent |-> NewHandle[2] + 1, addr |-> header.fsiz + 1,
                         nxt_addr |-> 0, modified |-> TRUE]
    BY <1>2, <1>10, <2>1 DEF PagesPut
  <2> QED
    BY <2>1, <2>2
<1>11. entry'[NewHandle] = [idtyp |-> LIVE, key |-> k, addr |-> WriteAddr, lng |-> l]
  BY <1>2, <1>3 DEF EntriesPut
<1>12. ASSUME NEW h \in Handle, h # NewHandle
       PROVE  /\ entry'[h].addr = entry[h].addr /\ entry'[h].lng = entry[h].lng
              /\ entry'[h].key = entry[h].key
              /\ h = old => entry'[h].idtyp = 254 /\ entry[h].idtyp = LIVE /\ Used(h)
              /\ h # old => entry'[h] = entry[h]
  <2>1. entry[h] \in EntrySet
    BY <1>1, Fields
  <2>2. CASE h = old
    <3>1. entry'[h] = [entry[h] EXCEPT !.idtyp = 254] /\ h # NoHandle
      BY <1>2, <1>12, <2>2, SizesAssumption DEF EntriesPut, NoHandle, Handle, Page
    <3> QED
      BY <1>5, <2>1, <2>2, <3>1 DEF EntrySet
  <2>3. CASE h # old
    BY <1>2, <1>12, <2>3 DEF EntriesPut
  <2> QED
    BY <2>2, <2>3
<1>13. ASSUME NEW h \in Handle PROVE Used(h)' <=> Used(h) \/ h = NewHandle
  <2>1. h[1] \in Page /\ h[2] \in Rec /\ h = <<h[1], h[2]>> /\ NewHandle = <<NewHandle[1], NewHandle[2]>>
    BY <1>3 DEF Handle
  <2>2. h[1] \in Int /\ h[2] \in Int /\ h[2] >= 0
    BY <2>1, SizesAssumption DEF Page, Rec
  <2>3. CASE h[1] < npages
    <3>1. page'[h[1]].nent = (IF h[1] = NewHandle[1] THEN page[h[1]].nent + 1 ELSE page[h[1]].nent)
          /\ h[1] < npages' /\ page[h[1]].nent \in 0 .. EntriesPerPage
      BY <1>1, <1>4, <1>7, <1>9, <2>1, <2>2, <2>3, Fields
    <3>2. h[1] = NewHandle[1] => NewHandle[2] = page[h[1]].nent
      BY <1>4, <1>6, <2>3
    <3> QED
      BY <2>1, <2>2, <2>3, <3>1, <3>2, SizesAssumption DEF Used
  <2>4. CASE ~(h[1] < npages)
    <3>1. ~Used(h)
      BY <2>4 DEF Used
    <3>2. h = NewHandle => Used(h)'
      BY <1>4, <1>6, <1>7, <1>10, <2>4 DEF Used, Last
    <3>3. Used(h)' => h[1] = npages /\ PageFull /\ h[2] < 1
      BY <1>4, <1>7, <1>10, <2>2, <2>4 DEF Used
    <3>4. Used(h)' => h = NewHandle
      BY <1>6, <2>1, <2>2, <3>3
    <3> QED
      BY <3>1, <3>2, <3>4
  <2> QED
    BY <2>3, <2>4
<1>14. HandleIsNew(old) /\ HeaderIsPut(old, l)
  BY <1>3, <1>5, <1>6, <1>7, <1>8 DEF HandleIsNew, HeaderIsPut
<1>15. PagesArePut(old)
  BY <1>9, <1>10 DEF PagesArePut
<1>16. EntriesArePut(old, k, l)
  BY <1>11, <1>12, <1>13 DEF EntriesArePut
<1> QED
  BY <1>14, <1>15, <1>16

\* The new page and the new record lie behind fsiz, side by side, up to the new fsiz.
SpaceIsPut(l) ==
  /\ HeaderLen < header.fsiz /\ header.fsiz \in Nat /\ WriteAddr \in Nat /\ l \in Nat \ {0}
  /\ WriteAddr = (IF PageFull THEN header.fsiz + PageLen + 1 ELSE header.fsiz + 1)
  /\ header'.fsiz = WriteAddr + l - 1 /\ header'.fsiz <= MaxAddr

PlacesArePut ==
  /\ \A p \in Page : PageIn(header', p) <=> p < npages \/ (PageFull /\ p = npages)
  /\ \A h \in Handle : EntryIn(header', page', h) <=> Used(h) \/ h = NewHandle
  /\ \A p \in Page, a \in Addr : p < npages =>
       /\ PageHas(page', p, a) <=> PageHas(page, p, a)
       /\ PageHas(page, p, a) => a <= header.fsiz
  /\ \A a \in Addr : PageFull =>
       (PageHas(page', npages, a) <=> header.fsiz < a /\ a < WriteAddr)
  /\ \A h \in Handle, a \in Addr : Used(h) =>
       /\ EntryHas(entry', h, a) <=> EntryHas(entry, h, a)
       /\ EntryHas(entry, h, a) => a <= header.fsiz
  /\ \A a \in Addr : EntryHas(entry', NewHandle, a) <=> WriteAddr <= a /\ a <= header'.fsiz

LEMMA PutPlaces ==
  ASSUME DirectoryInv, TypeInv', ForWriting,
         NEW old \in Handle \cup {NoHandle}, NEW k \in Keys, NEW l \in Lens, NEW v \in Values,
         old # NoHandle => Live(old), PutAtEnd(old, k, l, v)
  PROVE  SpaceIsPut(l) /\ PlacesArePut
<1>p. HandleIsNew(old) /\ HeaderIsPut(old, l) /\ PagesArePut(old) /\ EntriesArePut(old, k, l)
  BY PutFacts
<1>1. /\ TypeInv /\ st = "open" /\ Covers(header, page, entry) /\ Within(header, page, entry)
  BY WritingFacts
<1>2. /\ \A p : PageIn(header, p) <=> p < npages
      /\ npages \in 1 .. MaxDirPages /\ header.nbd = npages /\ header.fsiz \in 0 .. MaxAddr
  BY <1>1, OpenIn
<1>3. /\ NewHandle \in Handle /\ ~Used(NewHandle)
      /\ npages' = (IF PageFull THEN npages + 1 ELSE npages)
      /\ header'.nbd = npages' /\ header'.fsiz = WriteAddr + l - 1
      /\ \A p \in Page : p < npages => page'[p].addr = page[p].addr
      /\ PageFull => page'[npages].addr = header.fsiz + 1
      /\ entry'[NewHandle] = [idtyp |-> LIVE, key |-> k, addr |-> WriteAddr, lng |-> l]
      /\ \A h \in Handle : h # NewHandle =>
           entry'[h].addr = entry[h].addr /\ entry'[h].lng = entry[h].lng
      /\ \A h \in Handle : Used(h)' <=> Used(h) \/ h = NewHandle
  BY <1>p DEF HandleIsNew, HeaderIsPut, PagesArePut, EntriesArePut
<1>4. l \in Nat \ {0} /\ WriteAddr + l - 1 <= MaxAddr
  BY SizesAssumption DEF PutAtEnd
<1>5. /\ WriteAddr = (IF PageFull THEN header.fsiz + PageLen + 1 ELSE header.fsiz + 1)
      /\ WriteAddr \in Nat
  BY <1>2, SizesAssumption DEF WriteAddr
<1>6. \A p \in Page : PageIn(header', p) <=> p < npages \/ (PageFull /\ p = npages)
  <2> TAKE p \in Page
  <2>1. p \in Int
    BY DEF Page
  <2>2. PageIn(header', p) <=> p < npages'
    BY <1>3 DEF PageIn
  <2>3. CASE PageFull
    <3>1. npages' = npages + 1
      BY <1>3, <2>3
    <3> QED
      BY <1>2, <2>1, <2>2, <2>3, <3>1
  <2>4. CASE ~PageFull
    BY <1>3, <2>2, <2>4
  <2> QED
    BY <2>3, <2>4
<1>7. \A h \in Handle : EntryIn(header', page', h) <=> Used(h) \/ h = NewHandle
  BY <1>3 DEF EntryIn, Used
<1>8. \A p \in Page, a \in Addr : p < npages =>
        /\ PageHas(page', p, a) <=> PageHas(page, p, a)
        /\ PageHas(page, p, a) => a <= header.fsiz
  BY <1>1, <1>3, NamedInFile DEF PageHas
<1>9. \A a \in Addr : PageFull =>
        (PageHas(page', npages, a) <=> header.fsiz < a /\ a < WriteAddr)
  BY <1>2, <1>3, <1>5, SizesAssumption DEF PageHas, Extent, Addr
<1>10. \A h \in Handle, a \in Addr : Used(h) =>
         /\ EntryHas(entry', h, a) <=> EntryHas(entry, h, a)
         /\ EntryHas(entry, h, a) => a <= header.fsiz
  BY <1>1, <1>3, NamedInFile DEF EntryHas
<1>11. \A a \in Addr : EntryHas(entry', NewHandle, a) <=> WriteAddr <= a /\ a <= header'.fsiz
  BY <1>3, <1>4, <1>5 DEF EntryHas, Extent, Addr
<1>12. HeaderLen < header.fsiz
  <2>1. 0 \in Page /\ 0 < npages
    BY <1>2, SizesAssumption DEF Page
  <2>2. page[0].addr \in Addr /\ PageHas(page, 0, page[0].addr)
    BY <1>1, <2>1, NamedInFile DEF PageHas
  <2>3. page[0].addr \in HeaderLen + 1 .. header.fsiz
    BY <1>1, <1>2, <2>1, <2>2 DEF Covers
  <2> QED
    BY <1>2, <2>3, SizesAssumption
<1>13. SpaceIsPut(l)
  BY <1>2, <1>3, <1>4, <1>5, <1>12 DEF SpaceIsPut
<1> QED
  BY <1>6, <1>7, <1>8, <1>9, <1>10, <1>11, <1>13 DEF PlacesArePut

LEMMA PutTiles ==
  ASSUME DirectoryInv, TypeInv', ForWriting,
         NEW old \in Handle \cup {NoHandle}, NEW k \in Keys, NEW l \in Lens, NEW v \in Values,
         old # NoHandle => Live(old), PutAtEnd(old, k, l, v)
  PROVE  /\ Covers(header, page, entry)' /\ Disjoint(header, page, entry)'
         /\ Within(header, page, entry)'
<1> DEFINE F == header.fsiz
           F1 == header'.fsiz
           N == NewHandle
<1>p. HandleIsNew(old) /\ HeaderIsPut(old, l) /\ PagesArePut(old) /\ EntriesArePut(old, k, l)
  BY PutFacts
<1>1. /\ TypeInv /\ st = "open"
      /\ Covers(header, page, entry) /\ Disjoint(header, page, entry)
      /\ Within(header, page, entry)
  BY WritingFacts
<1>2. /\ \A p : PageIn(header, p) <=> p < npages
      /\ \A h : EntryIn(header, page, h) <=> Used(h)
  BY <1>1, OpenIn
<1>3. N \in Handle /\ ~Used(N) /\ (PageFull => npages \in Page)
  BY <1>p DEF HandleIsNew, HeaderIsPut, PagesArePut, EntriesArePut
<1>4. /\ \A p \in Page : PageIn(header', p) <=> p < npages \/ (PageFull /\ p = npages)
      /\ \A h \in Handle : EntryIn(header', page', h) <=> Used(h) \/ h = N
      /\ \A p \in Page, a \in Addr : p < npages =>
           /\ PageHas(page', p, a) <=> PageHas(page, p, a)
           /\ PageHas(page, p, a) => a <= F
      /\ \A a \in Addr : PageFull => (PageHas(page', npages, a) <=> F < a /\ a < WriteAddr)
      /\ \A h \in Handle, a \in Addr : Used(h) =>
           /\ EntryHas(entry', h, a) <=> EntryHas(entry, h, a)
           /\ EntryHas(entry, h, a) => a <= F
      /\ \A a \in Addr : EntryHas(entry', N, a) <=> WriteAddr <= a /\ a <= F1
  BY PutPlaces DEF PlacesArePut
<1>5. /\ HeaderLen < F /\ F \in Nat /\ WriteAddr \in Nat /\ l \in Nat \ {0}
      /\ WriteAddr = (IF PageFull THEN F + PageLen + 1 ELSE F + 1)
      /\ F1 = WriteAddr + l - 1 /\ F1 <= MaxAddr
  BY PutPlaces DEF SpaceIsPut
<1>a. F < WriteAddr /\ F1 \in Nat /\ WriteAddr <= F1 /\ F < F1
  BY <1>5, SizesAssumption
<1>6. Covers(header', page', entry')
  <2> SUFFICES ASSUME NEW a \in Addr
               PROVE  a \in HeaderLen + 1 .. F1
                      <=> \/ \E p \in Page : PageIn(header', p) /\ PageHas(page', p, a)
                          \/ \E h \in Handle : EntryIn(header', page', h) /\ EntryHas(entry', h, a)
    BY DEF Covers
  <2>0. a \in Nat
    BY DEF Addr
  <2>1. CASE a <= F
    <3>1. (\E p \in Page : PageIn(header', p) /\ PageHas(page', p, a))
          <=> \E p \in Page : PageIn(header, p) /\ PageHas(page, p, a)
      <4>1. \A p \in Page : p = npages /\ PageFull => ~PageHas(page', p, a)
        BY <1>4, <1>5, <2>0, <2>1
      <4>2. \A p \in Page : PageIn(header', p) /\ PageHas(page', p, a)
                            <=> PageIn(header, p) /\ PageHas(page, p, a)
        <5> TAKE p \in Page
        <5>1. CASE p < npages
          BY <1>2, <1>4, <5>1
        <5>2. CASE ~(p < npages)
          BY <1>2, <1>4, <4>1, <5>2
        <5> QED
          BY <5>1, <5>2
      <4> QED
        BY <4>2
    <3>2. (\E h \in Handle : EntryIn(header', page', h) /\ EntryHas(entry', h, a))
          <=> \E h \in Handle : EntryIn(header, page, h) /\ EntryHas(entry, h, a)
      BY <1>2, <1>3, <1>4, <1>a, <1>5, <2>0, <2>1
    <3>3. a \in HeaderLen + 1 .. F1 <=> a \in HeaderLen + 1 .. F
      BY <1>5, <1>a, <2>0, <2>1, SizesAssumption
    <3> QED
      BY <1>1, <3>1, <3>2, <3>3 DEF Covers
  <2>2. CASE F < a /\ a < WriteAddr
    <3>1. PageFull
      BY <1>5, <2>0, <2>2
    <3>2. PageIn(header', npages) /\ PageHas(page', npages, a) /\ npages \in Page
      BY <1>3, <1>4, <2>2, <3>1
    <3> QED
      BY <1>5, <1>a, <2>0, <2>2, <3>2, SizesAssumption
  <2>3. CASE WriteAddr <= a /\ a <= F1
    <3>1. EntryIn(header', page', N) /\ EntryHas(entry', N, a)
      BY <1>3, <1>4, <2>3
    <3> QED
      BY <1>3, <1>5, <1>a, <2>0, <2>3, <3>1, SizesAssumption
  <2>4. CASE F1 < a
    <3>1. ~(a <= F) /\ ~(a < WriteAddr)
      BY <1>5, <1>a, <2>0, <2>4
    <3>2. \A p \in Page : PageIn(header', p) => ~PageHas(page', p, a)
      BY <1>4, <3>1
    <3>3. \A h \in Handle : EntryIn(header', page', h) => ~EntryHas(entry', h, a)
      BY <1>4, <1>a, <2>0, <2>4, <3>1
    <3> QED
      BY <1>a, <2>0, <2>4, <3>2, <3>3, SizesAssumption
  <2> QED
    BY <1>5, <1>a, <2>0, <2>1, <2>2, <2>3, <2>4
<1>7. Disjoint(header', page', entry')
  <2> SUFFICES ASSUME NEW a \in Addr
               PROVE  /\ \A p, q \in Page :
                           PageIn(header', p) /\ PageHas(page', p, a)
                           /\ PageIn(header', q) /\ PageHas(page', q, a) => p = q
                      /\ \A g, h \in Handle :
                           EntryIn(header', page', g) /\ EntryHas(entry', g, a)
                           /\ EntryIn(header', page', h) /\ EntryHas(entry', h, a) => g = h
                      /\ \A p \in Page, h \in Handle :
                           ~(/\ PageIn(header', p) /\ PageHas(page', p, a)
                             /\ EntryIn(header', page', h) /\ EntryHas(entry', h, a))
    BY DEF Disjoint
  <2>0. a \in Nat
    BY DEF Addr
  <2>1. \A p \in Page : PageIn(header', p) /\ PageHas(page', p, a) =>
          \/ PageIn(header, p) /\ PageHas(page, p, a) /\ a <= F
          \/ p = npages /\ F < a /\ a < WriteAddr
    BY <1>2, <1>4
  <2>2. \A h \in Handle : EntryIn(header', page', h) /\ EntryHas(entry', h, a) =>
          \/ EntryIn(header, page, h) /\ EntryHas(entry, h, a) /\ a <= F
          \/ h = N /\ WriteAddr <= a
    BY <1>2, <1>4
  <2>3. ~(a <= F /\ F < a) /\ ~(a < WriteAddr /\ WriteAddr <= a) /\ ~(a <= F /\ WriteAddr <= a)
    BY <1>5, <1>a, <2>0
  <2>4. /\ \A p, q \in Page :
             PageIn(header, p) /\ PageHas(page, p, a) /\ PageIn(header, q) /\ PageHas(page, q, a)
               => p = q
        /\ \A g, h \in Handle :
             EntryIn(header, page, g) /\ EntryHas(entry, g, a)
             /\ EntryIn(header, page, h) /\ EntryHas(entry, h, a) => g = h
        /\ \A p \in Page, h \in Handle :
             ~(/\ PageIn(header, p) /\ PageHas(page, p, a)
               /\ EntryIn(header, page, h) /\ EntryHas(entry, h, a))
    BY <1>1 DEF Disjoint
  <2>5. \A p, q \in Page :
          PageIn(header', p) /\ PageHas(page', p, a)
          /\ PageIn(header', q) /\ PageHas(page', q, a) => p = q
    BY <2>1, <2>3, <2>4
  <2>6. \A g, h \in Handle :
          EntryIn(header', page', g) /\ EntryHas(entry', g, a)
          /\ EntryIn(header', page', h) /\ EntryHas(entry', h, a) => g = h
    BY <2>2, <2>3, <2>4
  <2>7. \A p \in Page, h \in Handle :
          ~(/\ PageIn(header', p) /\ PageHas(page', p, a)
            /\ EntryIn(header', page', h) /\ EntryHas(entry', h, a))
    BY <2>1, <2>2, <2>3, <2>4
  <2> QED
    BY <2>5, <2>6, <2>7
<1>8. Within(header', page', entry')
  <2>1. ASSUME NEW p \in Page, PageIn(header', p)
        PROVE  page'[p].addr >= 1 /\ page'[p].addr + PageLen - 1 <= F1
    <3>1. CASE p < npages
      <4>1. page'[p].addr = page[p].addr /\ page[p].addr \in 0 .. MaxAddr + 1
        <5>1. page[p].addr \in 0 .. MaxAddr + 1
          BY <1>1, Fields
        <5>2. page'[p].addr = page[p].addr
          BY <3>1, <1>p DEF HandleIsNew, HeaderIsPut, PagesArePut, EntriesArePut
        <5> QED
          BY <5>1, <5>2
      <4>2. page[p].addr >= 1 /\ page[p].addr + PageLen - 1 <= F
        BY <1>1, <1>2, <3>1 DEF Within
      <4> QED
        BY <1>5, <1>a, <4>1, <4>2, SizesAssumption
    <3>2. CASE PageFull /\ p = npages
      <4>1. page'[p].addr = F + 1
        BY <3>2, <1>p DEF HandleIsNew, HeaderIsPut, PagesArePut, EntriesArePut
      <4> QED
        BY <1>5, <1>a, <3>2, <4>1, SizesAssumption
    <3> QED
      BY <1>4, <2>1, <3>1, <3>2
  <2>2. ASSUME NEW h \in Handle, EntryIn(header', page', h)
        PROVE  /\ entry'[h].addr >= 1 /\ entry'[h].addr + entry'[h].lng - 1 <= F1
               /\ entry'[h].lng \in Lens /\ entry'[h].key \in Keys
    <3>1. CASE h = N
      <4>1. entry'[N] = [idtyp |-> LIVE, key |-> k, addr |-> WriteAddr, lng |-> l]
        BY <1>p DEF HandleIsNew, HeaderIsPut, PagesArePut, EntriesArePut
      <4> QED
        BY <1>5, <1>a, <3>1, <4>1
    <3>2. CASE h # N
      <4>1. /\ entry'[h].addr = entry[h].addr /\ entry'[h].lng = entry[h].lng
            /\ entry'[h].key = entry[h].key
        BY <3>2, <1>p DEF HandleIsNew, HeaderIsPut, PagesArePut, EntriesArePut
      <4>2. EntryIn(header, page, h)
        BY <1>2, <1>4, <2>2, <3>2
      <4>3. /\ entry[h].addr >= 1 /\ entry[h].addr + entry[h].lng - 1 <= F
            /\ entry[h].lng \in Lens /\ entry[h].key \in Keys
        BY <1>1, <4>2 DEF Within
      <4>4. entry[h].addr \in 0 .. MaxAddr /\ entry[h].lng \in Nat
        BY <1>1, Fields
      <4> QED
        BY <1>5, <1>a, <4>1, <4>3, <4>4
    <3> QED
      BY <3>1, <3>2
  <2> QED
    BY <2>1, <2>2 DEF Within
<1> QED
  BY <1>6, <1>7, <1>8

LEMMA PutChains ==
  ASSUME DirectoryInv, TypeInv', ForWriting,
         NEW old \in Handle \cup {NoHandle}, NEW k \in Keys, NEW l \in Lens, NEW v \in Values,
         old # NoHandle => Live(old), PutAtEnd(old, k, l, v)
  PROVE  Chained(header, page)'
<1>p. HandleIsNew(old) /\ HeaderIsPut(old, l) /\ PagesArePut(old) /\ EntriesArePut(old, k, l)
  BY PutFacts
<1>1. TypeInv /\ st = "open" /\ Chained(header, page)
  BY WritingFacts
<1>2. npages \in 1 .. MaxDirPages /\ header.nbd = npages
  BY <1>1, OpenIn
<1>3. /\ NewHandle[1] = (IF PageFull THEN npages ELSE Last)
      /\ PageFull => npages \in Page /\ NewHandle[2] = 0 /\ page[Last].nent = EntriesPerPage
      /\ npages' = (IF PageFull THEN npages + 1 ELSE npages)
      /\ header'.nbd = npages'
      /\ \A p \in Page : p < npages =>
           /\ page'[p].addr = page[p].addr
           /\ page'[p].nent = (IF p = NewHandle[1] THEN page[p].nent + 1 ELSE page[p].nent)
           /\ page'[p].nxt_addr = (IF p = Last /\ PageFull THEN header.fsiz + 1
                                   ELSE page[p].nxt_addr)
      /\ PageFull => page'[npages].addr = header.fsiz + 1 /\ page'[npages].nxt_addr = 0
  BY <1>p DEF HandleIsNew, HeaderIsPut, PagesArePut, EntriesArePut
<1> SUFFICES ASSUME NEW p \in Page
             PROVE  /\ p < npages' - 1 => /\ page'[p].nent = EntriesPerPage
                                          /\ page'[p].nxt_addr = page'[p + 1].addr
                    /\ p = npages' - 1 => page'[p].nxt_addr = 0
  BY <1>3 DEF Chained
<1>4. p \in Nat
  BY DEF Page
<1>5. CASE PageFull
  <2>1. npages' = npages + 1 /\ NewHandle[1] = npages
    BY <1>3, <1>5
  <2>2. CASE p = npages
    BY <1>2, <1>3, <1>5, <2>1, <2>2
  <2>3. CASE p = Last
    <3>1. p < npages /\ p # npages /\ p + 1 = npages /\ p < npages' - 1
      BY <1>2, <2>1, <2>3 DEF Last
    <3> QED
      BY <1>2, <1>3, <1>4, <1>5, <2>1, <2>3, <3>1
  <2>4. CASE p < Last
    <3>1. /\ p < npages - 1 /\ p < npages /\ p + 1 < npages /\ p # npages /\ p # Last
          /\ p + 1 \in Page /\ p # npages' - 1
      BY <1>2, <1>4, <2>1, <2>4, SizesAssumption DEF Last, Page
    <3> QED
      BY <1>1, <1>2, <1>3, <2>1, <3>1 DEF Chained
  <2>5. CASE p > npages
    BY <1>2, <1>4, <2>1, <2>5
  <2> QED
    BY <1>2, <1>4, <2>2, <2>3, <2>4, <2>5 DEF Last
<1>6. CASE ~PageFull
  <2>1. npages' = npages /\ NewHandle[1] = Last
    BY <1>3, <1>6
  <2>2. CASE p = npages - 1
    <3>1. p < npages /\ ~(p < npages' - 1)
      BY <1>2, <2>1, <2>2
    <3> QED
      BY <1>1, <1>2, <1>3, <1>6, <2>2, <3>1 DEF Chained
  <2>3. CASE p < npages - 1
    <3>1. p < npages /\ p + 1 < npages /\ p # Last /\ p + 1 \in Page /\ p # npages' - 1
      BY <1>2, <1>4, <2>1, <2>3, SizesAssumption DEF Last, Page
    <3> QED
      BY <1>1, <1>2, <1>3, <2>1, <2>3, <3>1 DEF Chained
  <2>4. CASE p > npages - 1
    BY <1>2, <1>4, <2>1, <2>4
  <2> QED
    BY <1>2, <1>4, <2>2, <2>3, <2>4
<1> QED
  BY <1>5, <1>6

LEMMA PutCounts ==
  ASSUME DirectoryInv, TypeInv', ForWriting,
         NEW old \in Handle \cup {NoHandle}, NEW k \in Keys, NEW l \in Lens, NEW v \in Values,
         old # NoHandle => Live(old), PutAtEnd(old, k, l, v)
  PROVE  Counted(header, page, entry)'
<1> DEFINE U == {h \in Handle : EntryIn(header, page, h)}
           L == {h \in Handle : EntryIn(header, page, h) /\ entry[h].idtyp = LIVE}
           U1 == {h \in Handle : EntryIn(header', page', h)}
           L1 == {h \in Handle : EntryIn(header', page', h) /\ entry'[h].idtyp = LIVE}
           N == NewHandle
<1>p. HandleIsNew(old) /\ HeaderIsPut(old, l) /\ PagesArePut(old) /\ EntriesArePut(old, k, l)
  BY PutFacts
<1>1. TypeInv /\ st = "open" /\ Counted(header, page, entry)
  BY WritingFacts
<1>2. \A h : EntryIn(header, page, h) <=> Used(h)
  BY <1>1, OpenIn
<1>3. /\ N \in Handle /\ ~Used(N) /\ old # N
      /\ header'.nrec = (IF old = NoHandle THEN header.nrec + 1 ELSE header.nrec)
      /\ header'.nxtn = header.nxtn + 1 /\ header'.nrwr <= header'.neff
      /\ entry'[N].idtyp = LIVE
      /\ \A h \in Handle : h # N =>
           /\ h = old => entry'[h].idtyp = 254 /\ entry[h].idtyp = LIVE /\ Used(h)
           /\ h # old => entry'[h] = entry[h]
  BY <1>p DEF HandleIsNew, HeaderIsPut, PagesArePut, EntriesArePut
<1>4. \A h \in Handle : EntryIn(header', page', h) <=> Used(h) \/ h = N
  BY PutPlaces DEF PlacesArePut
<1>5. IsFiniteSet(U) /\ IsFiniteSet(L) /\ IsFiniteSet(L \ {old})
  BY HandlesFinite, FS_Subset
<1>6. U1 = U \cup {N} /\ N \notin U /\ N \notin L \ {old}
  BY <1>2, <1>3, <1>4
<1>7. L1 = (L \ {old}) \cup {N}
  BY <1>2, <1>3, <1>4 DEF LIVE
<1>8. Cardinality(U1) = Cardinality(U) + 1
  BY <1>5, <1>6, FS_AddElement
<1>9. Cardinality(L1) = Cardinality(L \ {old}) + 1
  BY <1>5, <1>6, <1>7, FS_AddElement
<1>10. CASE old = NoHandle
  <2>1. L \ {old} = L
    BY <1>10, SizesAssumption DEF NoHandle, Handle, Page
  <2> QED
    BY <1>1, <1>3, <1>8, <1>9, <1>10, <2>1 DEF Counted
<1>11. CASE old # NoHandle
  <2>1. old \in L
    BY <1>2, <1>11 DEF Live
  <2>2. Cardinality(L \ {old}) = Cardinality(L) - 1
    BY <1>5, <2>1, FS_RemoveElement
  <2>3. Cardinality(L) \in Nat
    BY <1>5, FS_CardinalityType
  <2> QED
    BY <1>1, <1>3, <1>8, <1>9, <1>11, <2>2, <2>3 DEF Counted
<1> QED
  BY <1>10, <1>11

LEMMA PutStored ==
  ASSUME DirectoryInv, TypeInv', ForWriting,
         NEW old \in Handle \cup {NoHandle}, NEW k \in Keys, NEW l \in Lens, NEW v \in Values,
         old # NoHandle => Live(old), PutAtEnd(old, k, l, v)
  PROVE  MemoryStored'
<1>p. HandleIsNew(old) /\ HeaderIsPut(old, l) /\ PagesArePut(old) /\ EntriesArePut(old, k, l)
  BY PutFacts
<1>s. SpaceIsPut(l)
  BY PutPlaces
<1>1. TypeInv /\ st = "open" /\ Within(header, page, entry) /\ MemoryStored
  BY WritingFacts
<1>2. npages \in 1 .. MaxDirPages
  BY <1>1, OpenIn
<1>3. \A a \in Addr :
        store'[a] = IF a \in Extent(WriteAddr, l) THEN v
                    ELSE IF PageFull /\ a \in Extent(header.fsiz + 1, PageLen) THEN "dir"
                    ELSE store[a]
  BY DEF PutAtEnd, StorePut
<1>4. \A a \in Addr : a <= header.fsiz => store'[a] = store[a]
  <2> TAKE a \in Addr
  <2> HAVE a <= header.fsiz
  <2>1. a \notin Extent(WriteAddr, l) /\ (PageFull => a \notin Extent(header.fsiz + 1, PageLen))
    BY <1>s, SizesAssumption DEF SpaceIsPut, Extent, Addr
  <2> QED
    BY <1>3, <2>1
<1>5. \A a \in Extent(WriteAddr, l) : store'[a] = v
  <2>1. \A a \in Extent(WriteAddr, l) : a \in Addr
    BY <1>s, SizesAssumption DEF SpaceIsPut, Extent, Addr
  <2> QED
    BY <1>3, <2>1
<1>6. PageFull => store'[header.fsiz + 1] = "dir"
  <2> HAVE PageFull
  <2>1. /\ header.fsiz + 1 \in Addr /\ header.fsiz + 1 \in Extent(header.fsiz + 1, PageLen)
        /\ header.fsiz + 1 \notin Extent(WriteAddr, l)
    BY <1>s, SizesAssumption DEF SpaceIsPut, Extent, Addr
  <2> QED
    BY <1>3, <2>1
<1>7. ASSUME NEW p \in Page, p < npages' PROVE store'[page'[p].addr] = "dir"
  <2>1. CASE p < npages
    <3>1. page'[p].addr = page[p].addr /\ store[page[p].addr] = "dir"
      BY <1>1, <1>p, <2>1 DEF PagesArePut, MemoryStored
    <3>2. page[p].addr \in Addr /\ page[p].addr <= header.fsiz
      BY <1>1, <2>1, NamedInFile
    <3> QED
      BY <1>4, <3>1, <3>2
  <2>2. CASE ~(p < npages)
    <3>1. PageFull /\ npages' = npages + 1
      BY <1>7, <1>p, <2>2 DEF HeaderIsPut
    <3>2. p = npages
      BY <1>2, <1>7, <2>2, <3>1 DEF Page
    <3> QED
      BY <1>6, <1>p, <3>1, <3>2 DEF PagesArePut
  <2> QED
    BY <2>1, <2>2
<1>8. ASSUME NEW h \in Handle, Used(h)'
      PROVE  /\ \E w \in Values : \A a \in Body(entry'[h]) : store'[a] = w
             /\ entry'[h].idtyp \in {LIVE, 254} => store'[entry'[h].addr] \in Values
  <2>1. CASE h = NewHandle
    <3>1. entry'[h].addr = WriteAddr /\ entry'[h].lng = l
      BY <1>p, <2>1 DEF EntriesArePut
    <3>2. WriteAddr \in Extent(WriteAddr, l)
          /\ \A a \in Body(entry'[h]) : a \in Extent(WriteAddr, l)
      BY <1>s, <3>1 DEF SpaceIsPut, Extent, Body
    <3> QED
      BY <1>5, <3>1, <3>2
  <2>2. CASE h # NewHandle
    <3>1. /\ Used(h) /\ (entry'[h].idtyp \in {LIVE, 254} => entry[h].idtyp \in {LIVE, 254})
          /\ entry'[h].addr = entry[h].addr /\ entry'[h].lng = entry[h].lng
      BY <1>8, <1>p, <2>2 DEF EntriesArePut
    <3>2. /\ \A a \in Extent(entry[h].addr, entry[h].lng) : a \in Addr /\ a <= header.fsiz
          /\ entry[h].addr \in Extent(entry[h].addr, entry[h].lng)
          /\ \A a \in Body(entry[h]) : a \in Extent(entry[h].addr, entry[h].lng)
      BY <1>1, <3>1, NamedInFile
    <3>3. PICK w \in Values : \A a \in Body(entry[h]) : store[a] = w
      BY <1>1, <3>1 DEF MemoryStored, Whole
    <3>4. entry[h].idtyp \in {LIVE, 254} => store[entry[h].addr] \in Values
      BY <1>1, <3>1 DEF MemoryStored, HeaderKept
    <3>5. \A a \in Body(entry'[h]) : a \in Body(entry[h])
      BY <3>1 DEF Body
    <3> QED
      BY <1>4, <3>1, <3>2, <3>3, <3>4, <3>5
  <2> QED
    BY <2>1, <2>2
<1> QED
  BY <1>7, <1>8 DEF MemoryStored, Whole, HeaderKept

\* On disk only the new page changes: it is empty there, and the header does not count it.
LEMMA PutDisk ==
  ASSUME DirectoryInv, TypeInv', ForWriting, UNCHANGED dheader,
         NEW old \in Handle \cup {NoHandle}, NEW k \in Keys, NEW l \in Lens, NEW v \in Values,
         old # NoHandle => Live(old), PutAtEnd(old, k, l, v)
  PROVE  /\ dheader.nbd <= npages
         /\ \A p \in Page : p # npages \/ ~PageFull => dpage'[p] = dpage[p]
         /\ \A h \in Handle : h[1] # npages \/ ~PageFull => dentry'[h] = dentry[h]
         /\ PageFull => /\ dpage'[npages].nent = 0 /\ dpage'[npages].addr = header.fsiz + 1
                        /\ ~dpage'[npages].modified
         /\ DiskMarks' /\ CleanDisk'
<1>p. HandleIsNew(old)
  BY PutFacts
<1>1. /\ TypeInv /\ st = "open" /\ DiskMarks /\ CleanDisk /\ DiskBehind
  BY WritingFacts
<1>2. dpage \in [Page -> PageSet] /\ dheader \in HeaderSet /\ dheader.nbd <= npages
  BY <1>1 DEF TypeInv, TypeOK, DiskBehind
<1>3. /\ dpage' = IF PageFull THEN [dpage EXCEPT ![npages] = NewPage(header.fsiz + 1)] ELSE dpage
      /\ dentry' = IF PageFull
                   THEN [h \in Handle |-> IF h[1] = npages THEN EmptyEntry ELSE dentry[h]]
                   ELSE dentry
  BY DEF PutAtEnd
<1>4. \A p \in Page : p # npages \/ ~PageFull => dpage'[p] = dpage[p]
  BY <1>2, <1>3
<1>5. \A h \in Handle : h[1] # npages \/ ~PageFull => dentry'[h] = dentry[h]
  BY <1>3
<1>6. PageFull => /\ dpage'[npages].nent = 0 /\ dpage'[npages].addr = header.fsiz + 1
                  /\ ~dpage'[npages].modified
  BY <1>2, <1>3, <1>p DEF HandleIsNew, NewPage
<1>7. DiskMarks'
  <2>1. ASSUME NEW h \in Handle, h[2] < dpage'[h[1]].nent PROVE dentry'[h].idtyp # 254
    <3>1. h[1] \in Page /\ ~(h[2] < 0)
      BY SizesAssumption DEF Handle, Rec
    <3>2. h[1] # npages \/ ~PageFull
      BY <1>6, <2>1, <3>1
    <3> QED
      BY <1>1, <1>4, <1>5, <2>1, <3>1, <3>2 DEF DiskMarks
  <2>2. \A p \in Page : ~dpage'[p].modified
    BY <1>1, <1>4, <1>6 DEF DiskMarks
  <2> QED
    BY <2>1, <2>2 DEF DiskMarks
<1>8. CleanDisk'
  <2> SUFFICES ASSUME dheader.rwflg = RDMODE, dheader.nbd # 0
               PROVE  Consistent(dheader, dpage', dentry') /\ HeadersKept'
    BY DEF CleanDisk
  <2>1. /\ Covers(dheader, dpage, dentry) /\ Disjoint(dheader, dpage, dentry)
        /\ Within(dheader, dpage, dentry) /\ Chained(dheader, dpage)
        /\ Counted(dheader, dpage, dentry) /\ HeadersKept
    BY <1>1 DEF CleanDisk, Consistent
  <2>2. \A p \in Page : PageIn(dheader, p) => p # npages
    <3>1. dheader.nbd \in Int /\ npages \in Int
      BY <1>1, <1>2 DEF TypeInv, TypeOK, HeaderSet
    <3> QED
      BY <1>2, <3>1 DEF PageIn, Page
  <2>3. SamePages(dheader, dpage, dpage')
    BY <1>4, <2>2 DEF SamePages
  <2>4. \A h \in Handle : EntryIn(dheader, dpage, h) => dentry'[h] = dentry[h]
    BY <1>5, <2>2 DEF EntryIn, PageIn, Handle
  <2>5. SameEntries(dheader, dpage, dentry, dentry') /\ SameLive(dheader, dpage, dentry, dentry')
    BY <2>1, <2>4 DEF SameEntries, SameLive, Within
  <2>6. /\ Covers(dheader, dpage', dentry') /\ Disjoint(dheader, dpage', dentry')
        /\ Within(dheader, dpage', dentry') /\ Chained(dheader, dpage')
    BY <1>2, <2>1, <2>3, <2>5, PlacesAgree
  <2>7. dheader.nrwr <= dheader.neff
    BY <2>1 DEF Counted
  <2>8. Counted(dheader, dpage', dentry')
    BY <2>1, <2>3, <2>5, <2>7, CountsAgree
  <2>9. HeadersKept'
    <3> SUFFICES ASSUME NEW h \in Handle, EntryIn(dheader, dpage', h), dentry'[h].idtyp = LIVE
                 PROVE  store'[dentry'[h].addr] \in Values
      BY DEF HeadersKept, HeaderKept
    <3>1. EntryIn(dheader, dpage, h)
      BY <2>3, EntriesAgree
    <3>2. dentry'[h] = dentry[h] /\ HeaderKept(dentry[h])
      BY <2>1, <2>4, <3>1 DEF HeadersKept
    <3>3. DiskEntry(h)
      BY <1>2, <2>1, <3>1, ChainReaches DEF EntryIn, DiskEntry, DiskPage, PageIn, Handle
    <3>4. Used(h) /\ dentry[h].addr = entry[h].addr
      BY <3>3, SavedAreUsed
    <3>5. entry[h].addr \in Addr /\ entry[h].addr <= header.fsiz
      BY <1>1, <3>4, WritingFacts, NamedInFile
    <3>s. SpaceIsPut(l)
      BY PutPlaces
    <3>6. /\ entry[h].addr \notin Extent(WriteAddr, l)
          /\ PageFull => entry[h].addr \notin Extent(header.fsiz + 1, PageLen)
      BY <3>5, <3>s, SizesAssumption DEF SpaceIsPut, Extent, Addr
    <3>7. store'[entry[h].addr] = store[entry[h].addr]
      BY <3>5, <3>6 DEF PutAtEnd, StorePut
    <3> QED
      BY <3>2, <3>4, <3>7 DEF HeaderKept
  <2> QED
    BY <2>6, <2>8, <2>9 DEF Consistent
<1> QED
  BY <1>2, <1>4, <1>5, <1>6, <1>7, <1>8

LEMMA PutBehind ==
  ASSUME DirectoryInv, TypeInv', ForWriting, flush.at = -1, UNCHANGED <<flush, dheader>>,
         NEW old \in Handle \cup {NoHandle}, NEW k \in Keys, NEW l \in Lens, NEW v \in Values,
         old # NoHandle => Live(old), PutAtEnd(old, k, l, v)
  PROVE  DiskBehind'
<1>p. HandleIsNew(old) /\ HeaderIsPut(old, l) /\ PagesArePut(old) /\ EntriesArePut(old, k, l)
  BY PutFacts
<1>1. /\ TypeInv /\ st = "open" /\ DiskBehind
  BY WritingFacts
<1>2. /\ dheader.nbd <= npages
      /\ \A p \in Page : p # npages \/ ~PageFull => dpage'[p] = dpage[p]
      /\ \A h \in Handle : h[1] # npages \/ ~PageFull => dentry'[h] = dentry[h]
      /\ PageFull => /\ dpage'[npages].nent = 0 /\ dpage'[npages].addr = header.fsiz + 1
                     /\ ~dpage'[npages].modified
  BY PutDisk
<1>3. npages \in 1 .. MaxDirPages /\ dheader.nbd \in Int
  BY <1>1, OpenIn DEF TypeInv, TypeOK, HeaderSet
<1>4. npages' = (IF PageFull THEN npages + 1 ELSE npages) /\ modified' = TRUE /\ flush'.at = -1
  BY <1>p DEF HeaderIsPut, PutAtEnd
<1>5. ASSUME NEW p \in Page, p < npages
      PROVE  /\ Earlier(p)'
             /\ p >= dheader.nbd => dpage'[p].nent = 0
             /\ ~Reached(p)' => dpage'[p].nent = 0
             /\ Settled(p)' => Synced(p)'
  <2>1. /\ Earlier(p)
        /\ p >= dheader.nbd => dpage[p].nent = 0
        /\ ~Reached(p) => dpage[p].nent = 0
        /\ Settled(p) => Synced(p)
    BY <1>1, <1>5 DEF DiskBehind
  <2>2. /\ dpage'[p] = dpage[p] /\ p # npages
        /\ \A h \in Handle : h[1] = p => dentry'[h] = dentry[h]
    BY <1>2, <1>3, <1>5
  <2>3. /\ page'[p].addr = page[p].addr
        /\ page'[p].nent = (IF p = NewHandle[1] THEN page[p].nent + 1 ELSE page[p].nent)
        /\ ~page'[p].modified => page'[p] = page[p] /\ p # NewHandle[1] /\ p # old[1]
    BY <1>5, <1>p DEF PagesArePut
  <2>4. dpage[p].nent \in 0 .. EntriesPerPage /\ page[p].nent \in 0 .. EntriesPerPage
        /\ dpage[p].nent <= page[p].nent
    <3>1. dpage[p].nent \in 0 .. EntriesPerPage /\ page[p].nent \in 0 .. EntriesPerPage
      BY <1>1, Fields
    <3> QED
      BY <2>1, <3>1 DEF Earlier
  <2>5. Earlier(p)'
    <3>1. ASSUME NEW h \in Handle, h[1] = p, h[2] < dpage[p].nent
          PROVE  /\ dentry'[h].addr = entry'[h].addr /\ dentry'[h].lng = entry'[h].lng
                 /\ dentry'[h].key \in Keys
      <4>1. /\ dentry[h].addr = entry[h].addr /\ dentry[h].lng = entry[h].lng
            /\ dentry[h].key \in Keys /\ dentry'[h] = dentry[h]
        BY <2>1, <2>2, <3>1 DEF Earlier
      <4>2. Used(h)
        BY <1>5, <2>4, <3>1, SizesAssumption DEF Used, Handle, Rec
      <4>3. h # NewHandle
        BY <1>p, <4>2 DEF HandleIsNew
      <4>4. entry'[h].addr = entry[h].addr /\ entry'[h].lng = entry[h].lng
        BY <1>p, <4>3 DEF EntriesArePut
      <4> QED
        BY <4>1, <4>4
    <3>2. dpage'[p].addr = page'[p].addr /\ dpage'[p].nent <= page'[p].nent
      BY <2>1, <2>2, <2>3, <2>4, SizesAssumption DEF Earlier
    <3> QED
      BY <2>2, <3>1, <3>2 DEF Earlier
  <2>6. Reached(p)' <=> Reached(p)
    <3>1. \A q \in Page : q < p => q # npages /\ q + 1 \in Page /\ q + 1 # npages
      BY <1>3, <1>5, SizesAssumption DEF Page
    <3> QED
      BY <1>2, <3>1 DEF Reached
  <2>7. ASSUME Settled(p)' PROVE Synced(p)'
    <3>1. ~page'[p].modified
      BY <1>4, <2>7, SizesAssumption DEF Settled, Page
    <3>2. page'[p] = page[p] /\ p # NewHandle[1] /\ p # old[1]
      BY <2>3, <3>1
    <3>3. Synced(p)
      BY <2>1, <3>1, <3>2 DEF Settled
    <3>4. \A h \in Handle : h[1] = p => entry'[h] = entry[h] /\ dentry'[h] = dentry[h]
      BY <1>p, <2>2, <3>2 DEF EntriesArePut
    <3> QED
      BY <2>2, <3>2, <3>3, <3>4 DEF Synced, SamePlaces
  <2> QED
    BY <2>1, <2>2, <2>5, <2>6, <2>7
<1>6. ASSUME NEW p \in Page, p < npages', ~(p < npages)
      PROVE  /\ Earlier(p)' /\ dpage'[p].nent = 0 /\ ~Settled(p)'
  <2>1. PageFull /\ p = npages
    BY <1>3, <1>4, <1>6 DEF Page
  <2>2. page'[p].addr = header.fsiz + 1 /\ page'[p].nent = 1 /\ page'[p].modified
    BY <1>p, <2>1 DEF PagesArePut
  <2>3. \A h \in Handle : ~(h[2] < 0)
    BY SizesAssumption DEF Handle, Rec
  <2>4. Earlier(p)'
    BY <1>2, <2>1, <2>2, <2>3 DEF Earlier
  <2>5. ~Settled(p)'
    BY <1>4, <2>2, SizesAssumption DEF Settled, Page
  <2> QED
    BY <1>2, <2>1, <2>4, <2>5
<1>7. dheader'.nbd <= npages'
  BY <1>2, <1>3, <1>4
<1> QED
  BY <1>4, <1>5, <1>6, <1>7 DEF DiskBehind

LEMMA PutAtEndInv ==
  ASSUME DirectoryInv, TypeInv', ForWriting, flush.at = -1, UNCHANGED <<st, flush, dheader>>,
         NEW old \in Handle \cup {NoHandle}, NEW k \in Keys, NEW l \in Lens, NEW v \in Values,
         old # NoHandle => Live(old), PutAtEnd(old, k, l, v)
  PROVE  DirectoryInv'
<1>1. Consistent(header, page, entry)'
  BY PutTiles, PutChains, PutCounts DEF Consistent
<1>2. DiskMarks' /\ CleanDisk'
  BY PutDisk
<1>3. ForWriting'
  BY PutFacts DEF ForWriting, HeaderIsPut
<1> QED
  BY <1>1, <1>2, <1>3, PutStored, PutBehind, WritingStep

-----------------------------------------------------------------------------
(* The invariant holds.                                                    *)

LEMMA DirectoryInit == Init => DirectoryInv
<1> SUFFICES ASSUME Init PROVE DirectoryInv
  OBVIOUS
<1>1. /\ st = "closed" /\ flush = NoFlush /\ npages = 0 /\ dheader.nbd = 0
      /\ dpage = [p \in Page |-> NoPage] /\ dentry = [h \in Handle |-> EmptyEntry]
  BY DEF Init, NoHeader
<1>2. DiskMarks
  BY <1>1 DEF DiskMarks, NoPage, NewPage, EmptyEntry
<1>3. \A p \in Page : ~DiskPage(p)
  BY <1>1, SizesAssumption DEF DiskPage, Page
<1>4. \A h \in Handle : ~DiskEntry(h)
  BY <1>3 DEF DiskEntry, Handle
<1>5. DiskSafe
  BY <1>3, <1>4 DEF DiskSafe
<1>6. CleanDisk
  BY <1>1 DEF CleanDisk
<1>7. NotOpenInv /\ WritingInv /\ ReadingInv
  BY <1>1 DEF NotOpenInv, WritingInv, ReadingInv, ForWriting, ForReading
<1> QED
  BY <1>2, <1>5, <1>6, <1>7, InitTypes DEF DirectoryInv, DiskInv

LEMMA PutKeeps == DirectoryInv /\ TypeInv' /\ Put => DirectoryInv'
<1> SUFFICES ASSUME DirectoryInv, TypeInv', Put PROVE DirectoryInv'
  OBVIOUS
<1>1. ASSUME NEW k \in Keys, NEW l \in Lens, NEW v \in Values, Append(k, l, v)
      PROVE  DirectoryInv'
  <2>1. ForWriting /\ flush.at = -1 /\ UNCHANGED <<st, flush, dheader>>
        /\ PutAtEnd(NoHandle, k, l, v)
    BY <1>1 DEF Append, Writable, Ready, ForWriting
  <2> QED
    BY <2>1, PutAtEndInv
<1>2. ASSUME NEW h \in Handle, NEW k \in Keys, NEW l \in Lens, NEW v \in Values,
             NEW toend \in BOOLEAN, Rewrite(h, k, l, v, toend)
      PROVE  DirectoryInv'
  <2>1. ForWriting /\ flush.at = -1 /\ UNCHANGED <<st, flush, dheader>> /\ Live(h)
    BY <1>2 DEF Rewrite, Writable, Ready, ForWriting
  <2>2. CASE PutAtEnd(h, k, l, v)
    BY <2>1, <2>2, PutAtEndInv
  <2>3. CASE RewriteInPlace(h, k, v)
    BY <2>1, <2>3, InPlaceKeeps
  <2> QED
    BY <1>2, <2>2, <2>3 DEF Rewrite
<1>3. ASSUME NEW h \in Handle, RewriteRejected(h) PROVE DirectoryInv'
  BY <1>3, Unchanged DEF RewriteRejected, disk
<1>4. ASSUME NEW h, DirFull(h) PROVE DirectoryInv'
  BY <1>4, DirFullKeeps
<1> QED
  BY <1>1, <1>2, <1>3, <1>4 DEF Put

LEMMA FlushKeeps ==
  ASSUME NeverClosesRefused
  PROVE  DirectoryInv /\ TypeInv' /\ Flush => DirectoryInv'
<1> SUFFICES ASSUME DirectoryInv, TypeInv', Flush PROVE DirectoryInv'
  OBVIOUS
<1>1. st = "open"
  <2>1. flush.at # -1 => st = "open"
    BY DEF DirectoryInv, NotOpenInv, NoFlush
  <2> QED
    BY <2>1 DEF Flush, FlushHeader, FlushRecord, FlushPage, InPage, EndCheckpoint, EndClose,
                NeverClosesRefused
<1>2. CASE ForWriting
  BY <1>2, FlushHeaderKeeps, FlushRecordKeeps, WritePageKeeps, PassPageKeeps,
     EndCheckpointKeeps, EndCloseKeeps DEF Flush
<1>3. CASE ForReading
  BY <1>3, PassReadingKeeps, FlushRecordReading, WriteReadingKeeps, CloseReadingKeeps DEF Flush
<1> QED
  BY <1>1, <1>2, <1>3 DEF ForWriting, ForReading

\* Every step of the specification keeps the directory.
LEMMA DirectoryStep ==
  ASSUME NeverClosesRefused
  PROVE  DirectoryInv /\ [Next]_vars => DirectoryInv'
<1> SUFFICES ASSUME DirectoryInv, [Next]_vars PROVE DirectoryInv'
  OBVIOUS
<1>0. TypeInv'
  BY TypeStep DEF DirectoryInv
<1>1. CASE Create
  BY <1>0, <1>1, CreateKeeps
<1>2. ASSUME NEW m \in Modes, OpenFile(m) PROVE DirectoryInv'
  BY <1>0, <1>2, OpenWritingKeeps, OpenReadingKeeps
<1>3. CASE Crash \/ \E m \in Modes : OpenRefused(m)
  BY <1>0, <1>3, ClosedKeeps
<1>4. CASE Put
  BY <1>0, <1>4, PutKeeps
<1>5. ASSUME NEW h \in Handle, Delete(h) PROVE DirectoryInv'
  BY <1>0, <1>5, DeleteKeeps
<1>6. ASSUME NEW h \in Handle, NEW k \in Keys, EditDir(h, k) PROVE DirectoryInv'
  <2>1. ForWriting \/ ForReading
    BY <1>6 DEF EditDir, Ready, ForWriting, ForReading
  <2> QED
    BY <1>0, <1>6, <2>1, EditDirKeeps, EditReadingKeeps
<1>7. CASE Flush
  BY <1>0, <1>7, FlushKeeps
<1>8. CASE UNCHANGED vars
  BY <1>0, <1>8, Unchanged DEF vars
<1> QED
  BY <1>1, <1>2, <1>3, <1>4, <1>5, <1>6, <1>7, <1>8 DEF Next

\* The directory in memory and the one on disk stay consistent through every sequence of
\* calls and of crashes.
THEOREM DirectoryCorrect ==
  ASSUME NeverClosesRefused
  PROVE  Spec => []DirectoryInv
<1>1. DirectoryInv /\ [Next]_vars => DirectoryInv'
  BY DirectoryStep
<1> QED
  BY <1>1, DirectoryInit, PTL DEF Spec

-----------------------------------------------------------------------------
(* What follows from it.                                                   *)

LEMMA InvTiles == DirectoryInv => SpaceIsTiled
<1> SUFFICES ASSUME DirectoryInv, st = "open", header.rwflg # RDMODE, NEW a \in Addr
             PROVE  /\ a \in HeaderLen + 1 .. header.fsiz <=> Claims(a) # {}
                    /\ \A x, y \in Claims(a) : x = y
  BY DEF SpaceIsTiled
<1>1. ForWriting
  BY DEF ForWriting
<1>2. TypeInv /\ Covers(header, page, entry) /\ Disjoint(header, page, entry)
  BY <1>1, WritingFacts
<1>3. /\ \A p : PageIn(header, p) <=> p < npages
      /\ \A h : EntryIn(header, page, h) <=> Used(h)
  BY <1>2, OpenIn
<1>4. \A x : x \in Claims(a) <=>
        \/ \E p \in Page : PageIn(header, p) /\ PageHas(page, p, a) /\ x = <<p, -1>>
        \/ x \in Handle /\ EntryIn(header, page, x) /\ EntryHas(entry, x, a)
  BY <1>3 DEF Claims, PageHas, EntryHas
<1>5. a \in HeaderLen + 1 .. header.fsiz <=> Claims(a) # {}
  <2>1. Claims(a) # {} <=> \/ \E p \in Page : PageIn(header, p) /\ PageHas(page, p, a)
                           \/ \E h \in Handle : EntryIn(header, page, h) /\ EntryHas(entry, h, a)
    BY <1>4
  <2> QED
    BY <1>2, <2>1 DEF Covers
<1>6. ASSUME NEW x \in Claims(a), NEW y \in Claims(a) PROVE x = y
  BY <1>2, <1>4 DEF Disjoint
<1> QED
  BY <1>5, <1>6

\* No record is ever put over a directory page or another record, and no space is lost.
THEOREM SpaceTiled ==
  ASSUME NeverClosesRefused
  PROVE  Spec => []SpaceIsTiled
<1>1. Spec => []DirectoryInv
  BY DirectoryCorrect
<1> QED
  BY <1>1, InvTiles, PTL

LEMMA InvCounts == DirectoryInv => CountersAgree
<1> SUFFICES ASSUME DirectoryInv, st = "open", header.rwflg # RDMODE PROVE CountersAgree
  BY DEF CountersAgree
<1>1. ForWriting
  BY DEF ForWriting
<1>2. TypeInv /\ Chained(header, page) /\ Counted(header, page, entry)
  BY <1>1, WritingFacts
<1>3. /\ \A h : EntryIn(header, page, h) <=> Used(h)
      /\ header.nbd = npages /\ npages \in 1 .. MaxDirPages /\ Last \in Page
  BY <1>2, OpenIn
<1>4. {h \in Handle : Live(h)} = {h \in Handle : EntryIn(header, page, h) /\ entry[h].idtyp = LIVE}
  BY <1>3 DEF Live
<1>5. {h \in Handle : Used(h)} = {h \in Handle : EntryIn(header, page, h)}
  BY <1>3
<1>6. /\ \A p \in Page : p < Last => /\ page[p].nent = EntriesPerPage
                                    /\ page[p].nxt_addr = page[p + 1].addr
      /\ page[Last].nxt_addr = 0
  BY <1>2, <1>3 DEF Chained, Last
<1>7. /\ header.nrec = Cardinality({h \in Handle : Live(h)})
      /\ header.nxtn = Cardinality({h \in Handle : Used(h)})
      /\ header.nrwr <= header.neff
  BY <1>2, <1>4, <1>5 DEF Counted
<1> QED
  BY <1>3, <1>6, <1>7 DEF CountersAgree

\* The counters that the header carries from session to session agree with the directory,
\* and its pages form one chain.
THEOREM CountersCorrect ==
  ASSUME NeverClosesRefused
  PROVE  Spec => []CountersAgree
<1>1. Spec => []DirectoryInv
  BY DirectoryCorrect
<1> QED
  BY <1>1, InvCounts, PTL

\* What an open would read is whole.
LEMMA SavedData ==
  ASSUME DirectoryInv, NEW h \in Saved
  PROVE  DiskEntry(h) /\ h \in Handle /\ Data(dentry[h]) \in Values
<1>1. DiskEntry(h) /\ dentry[h].idtyp = LIVE /\ h \in Handle /\ TypeInv /\ DiskSafe
  BY DEF Saved, DiskEntry, DiskPage, DirectoryInv, DiskInv
<1>2. /\ dentry[h].addr >= 1 /\ dentry[h].lng \in Nat \ {0} /\ Whole(dentry[h])
      /\ dentry[h].addr \in 0 .. MaxAddr
  BY <1>1, Fields, SizesAssumption DEF DiskSafe
<1>3. dentry[h].lng \in Lens
  BY <1>1 DEF DiskSafe
<1>4. dentry[h].addr + 1 \in Body(dentry[h])
  BY <1>2, <1>3, SizesAssumption DEF Body
<1> QED
  BY <1>1, <1>2, <1>4 DEF Whole, Data

\* If its header does not say that a writer has it, its records have their headers.
LEMMA SavedHeaders ==
  ASSUME DirectoryInv, NEW h \in Saved, dheader.rwflg = RDMODE
  PROVE  HeaderKept(dentry[h])
<1>1. /\ h \in Handle /\ h[1] \in Page /\ h[1] < dheader.nbd /\ h[2] < dpage[h[1]].nent
      /\ dentry[h].idtyp = LIVE
  BY DEF Saved, Handle
<1>2. dheader.nbd # 0
  BY <1>1 DEF Page
<1> QED
  BY <1>1, <1>2 DEF DirectoryInv, DiskInv, CleanDisk, HeadersKept, EntryIn

LEMMA InvIntact == DirectoryInv => SavedIsIntact
BY SavedData, SavedHeaders DEF SavedIsIntact, DirectoryInv, DiskInv, DiskSafe, DiskPage

\* At every moment, between the writes of a close and after a crash too, an open of the file
\* would find directory pages that are directory pages and records whose data are whole; and
\* their own headers, unless the file has a writer's mark.
THEOREM SavedIntact ==
  ASSUME NeverClosesRefused
  PROVE  Spec => []SavedIsIntact
<1>1. Spec => []DirectoryInv
  BY DirectoryCorrect
<1> QED
  BY <1>1, InvIntact, PTL

\* Behind the last page of c_xdfcls the disk shows what memory shows.
LEMMA AllSaved ==
  ASSUME DirectoryInv, flush.at # -1, flush.at = header.nbd
  PROVE  /\ dheader.nbd = header.nbd
         /\ \A h \in Handle : (h \in Saved <=> Live(h)) /\ (Live(h) => dentry[h] = entry[h])
<1>0. TypeInv /\ NotOpenInv
  BY DEF DirectoryInv
<1>1. st = "open"
  BY <1>0 DEF NotOpenInv, NoFlush
<1>2. header.nbd = npages /\ npages \in 1 .. MaxDirPages
  BY <1>0, <1>1, OpenIn
<1>4. /\ dheader.nbd = npages
      /\ \A p \in Page : p < npages => (Reached(p) => Synced(p))
      /\ \A p \in Page : p < npages => (~Reached(p) => page[p].nent = 0)
  <2>1. CASE ForWriting
    <3>1. dheader = header /\ \A p \in Page : p < npages => Synced(p)
      BY <2>1, AllSettled
    <3>2. \A p \in Page : p < npages => (~Reached(p) => page[p].nent = 0)
      BY <2>1, <3>1, WritingFacts DEF DiskBehind, Synced, SamePlaces
    <3> QED
      BY <1>2, <3>1, <3>2
  <2>2. CASE ForReading
    BY <1>2, <2>2, ReadingFacts DEF Settled
  <2> QED
    BY <1>1, <2>1, <2>2 DEF ForWriting, ForReading
<1>5. ASSUME NEW h \in Handle
      PROVE  /\ h \in Saved <=> Live(h)
             /\ Live(h) => dentry[h] = entry[h]
  <2>1. h[1] \in Page /\ ~(h[2] < 0)
    BY SizesAssumption DEF Handle, Rec
  <2>2. Live(h) => Reached(h[1]) /\ h[1] < npages
    BY <1>4, <2>1 DEF Live, Used
  <2>3. Reached(h[1]) /\ h[1] < npages =>
          dentry[h] = entry[h] /\ dpage[h[1]].nent = page[h[1]].nent
    BY <1>4, <2>1 DEF Synced, SamePlaces
  <2> QED
    BY <1>4, <2>2, <2>3 DEF Saved, Live, Used
<1> QED
  BY <1>2, <1>4, <1>5

LEMMA InvSaves == DirectoryInv => CheckpointSaves
<1> SUFFICES ASSUME DirectoryInv, flush.checkpoint, flush.at = header.nbd PROVE CheckpointSaves
  BY DEF CheckpointSaves
<1>1. flush.at # -1
  BY DEF DirectoryInv, TypeInv, TypeOK, HeaderSet
<1> QED
  BY <1>1, AllSaved DEF CheckpointSaves, Saved

\* When c_xdfcls has written its last page, the file on disk shows what the open file shows.
THEOREM CheckpointCorrect ==
  ASSUME NeverClosesRefused
  PROVE  Spec => []CheckpointSaves
<1>1. Spec => []DirectoryInv
  BY DirectoryCorrect
<1> QED
  BY <1>1, InvSaves, PTL
-----------------------------------------------------------------------------
(***************************************************************************)
(* XdfRandom implements XdfCatalog: what the application sees of a random  *)
(* file, its directory pages, addresses, headers and crashes left out, is  *)
(* a catalogue of records, for every value of the constants.               *)
(***************************************************************************)
\* What the catalogue shows and has saved under handle h.
CatAt(h) == IF Live(h) THEN AsRecord(entry[h]) ELSE NoRecord
SavAt(h) == IF h \in Saved THEN AsRecord(dentry[h]) ELSE NoRecord

SameCat   == \A h \in Handle : CatAt(h)' = CatAt(h)
SameSaved == \A h \in Handle : SavAt(h)' = SavAt(h)

-----------------------------------------------------------------------------
(* Steps of the catalogue, handle by handle.                               *)

CatalogStep == [Catalog!Next]_(Catalog!vars)

-----------------------------------------------------------------------------
(* Steps of the catalogue, handle by handle.                               *)

LEMMA Stutters ==
  ASSUME st' = st, SameCat, SameSaved
  PROVE  CatalogStep
BY DEF SameCat, SameSaved, CatAt, SavAt, CatalogStep, Catalog!vars

LEMMA AsInit ==
  ASSUME st = "closed", \A h \in Handle : CatAt(h) = NoRecord /\ SavAt(h) = NoRecord
  PROVE  Catalog!Init
BY DEF CatAt, SavAt, NoRecord, Catalog!Init, Catalog!Empty, Catalog!None

LEMMA AsCreate ==
  ASSUME st = "closed", st' = "open", \A h \in Handle : SavAt(h) = NoRecord,
         SameCat, SameSaved
  PROVE  CatalogStep
<1>1. Catalog!Create
  BY DEF SameCat, SameSaved, CatAt, SavAt, NoRecord, Catalog!Create, Catalog!Empty, Catalog!None
<1> QED
  BY <1>1 DEF CatalogStep, Catalog!Next

LEMMA AsOpen ==
  ASSUME st = "closed", st' = "open", \A h \in Handle : CatAt(h)' = SavAt(h), SameSaved
  PROVE  CatalogStep
<1>1. Catalog!Open
  BY DEF SameSaved, CatAt, SavAt, Catalog!Open
<1> QED
  BY <1>1 DEF CatalogStep, Catalog!Next

LEMMA AsRefuse ==
  ASSUME st = "closed", st' = "refused", SameCat, SameSaved
  PROVE  CatalogStep
<1>1. Catalog!Refuse
  BY DEF SameCat, SameSaved, CatAt, SavAt, Catalog!Refuse
<1> QED
  BY <1>1 DEF CatalogStep, Catalog!Next

LEMMA AsAppend ==
  ASSUME NEW h \in Handle, st = "open", st' = "open",
         CatAt(h) = NoRecord, CatAt(h)' \in Catalog!Record,
         \A g \in Handle : g # h => CatAt(g)' = CatAt(g), SameSaved
  PROVE  CatalogStep
<1>1. Catalog!Append(h)
  BY DEF SameSaved, CatAt, SavAt, NoRecord, Catalog!Append, Catalog!Only, Catalog!None
<1> QED
  BY <1>1 DEF CatalogStep, Catalog!Next

LEMMA AsRewriteToEnd ==
  ASSUME NEW h \in Handle, NEW old \in Handle, st = "open", st' = "open",
         CatAt(old) # NoRecord, CatAt(old)' = NoRecord,
         CatAt(h) = NoRecord, CatAt(h)' \in Catalog!Record,
         \A g \in Handle : g # h /\ g # old => CatAt(g)' = CatAt(g), SameSaved
  PROVE  CatalogStep
<1>1. Catalog!RewriteToEnd(old, h)
  BY DEF SameSaved, CatAt, SavAt, NoRecord, Catalog!RewriteToEnd, Catalog!Only, Catalog!None
<1> QED
  BY <1>1 DEF CatalogStep, Catalog!Next

LEMMA AsDelete ==
  ASSUME NEW h \in Handle, st = "open", st' = "open",
         CatAt(h) # NoRecord, CatAt(h)' = NoRecord,
         \A g \in Handle : g # h => CatAt(g)' = CatAt(g), SameSaved
  PROVE  CatalogStep
<1>1. Catalog!Delete(h)
  BY DEF SameSaved, CatAt, SavAt, NoRecord, Catalog!Delete, Catalog!Only, Catalog!None
<1> QED
  BY <1>1 DEF CatalogStep, Catalog!Next

LEMMA AsEdit ==
  ASSUME NEW h \in Handle, NEW k \in Keys, st = "open", st' = "open",
         CatAt(h) # NoRecord, CatAt(h)' = [CatAt(h) EXCEPT !.key = k],
         \A g \in Handle : g # h => CatAt(g)' = CatAt(g), SameSaved
  PROVE  CatalogStep
<1>1. Catalog!Edit(h)
  BY DEF SameSaved, CatAt, SavAt, NoRecord, Catalog!Edit, Catalog!Only, Catalog!None
<1> QED
  BY <1>1 DEF CatalogStep, Catalog!Next

LEMMA AsRewriteInPlace ==
  ASSUME NEW h \in Handle, st = "open", st' = "open",
         CatAt(h) # NoRecord, CatAt(h)' \in Catalog!Record, CatAt(h)'.lng = CatAt(h).lng,
         \A g \in Handle : g # h => CatAt(g)' = CatAt(g) /\ SavAt(g)' = SavAt(g),
         IF SavAt(h) = NoRecord THEN SavAt(h)' = NoRecord
         ELSE SavAt(h)' = [SavAt(h) EXCEPT !.data = CatAt(h)'.data]
  PROVE  CatalogStep
<1>1. /\ Catalog!RewriteInPlace(h)
  <2>1. st = "open" /\ st' = "open"
    OBVIOUS
  <2> QED
    BY <2>1 DEF CatAt, SavAt, NoRecord, Catalog!RewriteInPlace, Catalog!Only, Catalog!None
<1> QED
  BY <1>1 DEF CatalogStep, Catalog!Next

LEMMA AsSavePart ==
  ASSUME st = "open", st' = "open", SameCat,
         \A h \in Handle : SavAt(h)' \in {SavAt(h), CatAt(h)}
  PROVE  CatalogStep
<1>1. Catalog!SavePart
  BY DEF SameCat, CatAt, SavAt, Catalog!SavePart
<1> QED
  BY <1>1 DEF CatalogStep, Catalog!Next

LEMMA AsClose ==
  ASSUME st = "open", st' = "closed", \A h \in Handle : SavAt(h) = CatAt(h),
         \A h \in Handle : CatAt(h)' = NoRecord, SameSaved
  PROVE  CatalogStep
<1>1. Catalog!Close
  BY DEF SameSaved, CatAt, SavAt, NoRecord, Catalog!Close, Catalog!Empty, Catalog!None
<1> QED
  BY <1>1 DEF CatalogStep, Catalog!Next

LEMMA AsCrash ==
  ASSUME st # "closed", st' = "closed", \A h \in Handle : CatAt(h)' = NoRecord, SameSaved
  PROVE  CatalogStep
<1>1. Catalog!Crash
  BY DEF SameSaved, CatAt, SavAt, NoRecord, Catalog!Crash, Catalog!Empty, Catalog!None
<1> QED
  BY <1>1 DEF CatalogStep, Catalog!Next

-----------------------------------------------------------------------------
(* The records that memory and the disk show.                              *)

\* The data of an entry in a file that holds s.
DataIn(s, e) == IF \A a \in Body(e) : s[a] = s[e.addr + 1]
                THEN s[e.addr + 1] ELSE "torn"

\* An entry of a record: a place, and room for its header and its data.
Sized(e) == e.addr \in Nat /\ e.lng \in Lens

LEMMA SizedBody ==
  ASSUME NEW e, Sized(e)
  PROVE  /\ e.addr \in Extent(e.addr, e.lng) /\ e.addr + 1 \in Body(e)
         /\ \A a \in Body(e) : a \in Extent(e.addr, e.lng)
<1>1. e.lng \in Nat \ {0, 1}
  BY SizesAssumption DEF Sized
<1> QED
  BY <1>1 DEF Sized, Extent, Body

LEMMA DataOfStore == /\ \A e : Data(e) = DataIn(store, e)
                     /\ \A h : Data(entry[h])' = DataIn(store', entry'[h])
                     /\ \A h : Data(dentry[h])' = DataIn(store', dentry'[h])
BY DEF Data, DataIn, Body

\* An entry at the same place, in a file that holds the same data there, has the same data.
LEMMA DataFrame ==
  ASSUME NEW s, NEW t, NEW e, NEW f, f.addr = e.addr, f.lng = e.lng,
         Sized(e), \A a \in Body(e) : t[a] = s[a]
  PROVE  DataIn(t, f) = DataIn(s, e)
<1>1. /\ \A a : a \in Body(f) <=> a \in Body(e)
      /\ f.addr + 1 = e.addr + 1
  BY DEF Body
<1>2. t[e.addr + 1] = s[e.addr + 1] /\ \A a \in Body(e) : t[a] = s[a]
  BY SizedBody
<1> QED
  BY <1>1, <1>2 DEF DataIn

LEMMA RecordForm ==
  ASSUME NEW k \in Keys, NEW l \in Lens, NEW v \in Values
  PROVE  /\ [key |-> k, lng |-> l, data |-> v] \in Catalog!Record
         /\ [key |-> k, lng |-> l, data |-> v] # NoRecord
BY MarksAssumption DEF Catalog!Record, NoRecord

\* What an open file shows is in its extent, which holds one value.
LEMMA LiveRecord ==
  ASSUME DirectoryInv, NEW h \in Handle, Live(h)
  PROVE  /\ st = "open" /\ Used(h)
         /\ Sized(entry[h])
         /\ \A a \in Extent(entry[h].addr, entry[h].lng) : a \in Addr
         /\ entry[h].key \in Keys /\ entry[h].lng \in Lens /\ Whole(entry[h])
<1>1. TypeInv /\ st = "open" /\ Used(h) /\ entry[h].idtyp = LIVE
  <2>1. h[1] \in Page /\ (st # "open" => npages = 0)
    BY DEF Handle, DirectoryInv, NotOpenInv
  <2>2. ~(h[1] < 0)
    BY <2>1 DEF Page
  <2> QED
    BY <2>1, <2>2 DEF DirectoryInv, Live, Used
<1>2. /\ entry[h].addr >= 1 /\ entry[h].addr + entry[h].lng - 1 <= MaxAddr
      /\ entry[h].key \in Keys /\ entry[h].lng \in Lens /\ Whole(entry[h])
  <2>1. CASE ForWriting
    <3>1. Within(header, page, entry) /\ MemoryStored
      BY <2>1, WritingFacts
    <3>2. EntryIn(header, page, h) /\ header.fsiz \in 0 .. MaxAddr
      BY <1>1, OpenIn
    <3>3. entry[h].addr \in Int /\ entry[h].lng \in Int
      BY <1>1, Fields
    <3>4. /\ entry[h].addr >= 1 /\ entry[h].addr + entry[h].lng - 1 <= header.fsiz
          /\ entry[h].key \in Keys /\ entry[h].lng \in Lens
      BY <3>1, <3>2 DEF Within
    <3>5. Whole(entry[h])
      BY <1>1, <3>1 DEF MemoryStored
    <3> QED
      BY <3>2, <3>3, <3>4, <3>5, SizesAssumption
  <2>2. CASE ForReading
    <3>1. DiskEntry(h) /\ Reached(h[1]) /\ h[1] < npages /\ h[1] \in Page
      BY <1>1, <2>2, ReadingRecord DEF Used, Handle
    <3>2. SamePlaces(h[1]) /\ DiskSafe /\ entry[h].key \in Keys
      BY <1>1, <2>2, <3>1, ReadingFacts
    <3>3. dentry[h].addr = entry[h].addr /\ dentry[h].lng = entry[h].lng /\ dentry[h].idtyp = LIVE
      BY <1>1, <3>2 DEF SamePlaces
    <3> QED
      BY <3>1, <3>2, <3>3 DEF DiskSafe, Whole, Body
  <2> QED
    BY <1>1, <2>1, <2>2 DEF ForWriting, ForReading
<1>3. entry[h].addr \in Int /\ entry[h].lng \in Nat \ {0}
  BY <1>1, <1>2, Fields, SizesAssumption
<1>4. Sized(entry[h])
  BY <1>2, <1>3 DEF Sized
<1>5. \A a \in Extent(entry[h].addr, entry[h].lng) : a \in Addr
  BY <1>2, <1>3, SizesAssumption DEF Extent, Addr
<1> QED
  BY <1>1, <1>2, <1>4, <1>5

\* The open file shows records, and nothing else; the saved ones likewise.
Shown ==
  \A h \in Handle :
    /\ Live(h) => CatAt(h) \in Catalog!Record /\ CatAt(h) # NoRecord
    /\ ~Live(h) => CatAt(h) = NoRecord
    /\ h \in Saved => SavAt(h) \in Catalog!Record /\ SavAt(h) # NoRecord
    /\ h \notin Saved => SavAt(h) = NoRecord

LEMMA ShownRecords == DirectoryInv => Shown
<1> SUFFICES ASSUME DirectoryInv, NEW h \in Handle
             PROVE  /\ Live(h) => CatAt(h) \in Catalog!Record /\ CatAt(h) # NoRecord
                    /\ h \in Saved => SavAt(h) \in Catalog!Record /\ SavAt(h) # NoRecord
  BY DEF Shown, CatAt, SavAt
<1>1. ASSUME Live(h) PROVE CatAt(h) \in Catalog!Record /\ CatAt(h) # NoRecord
  <2>1. /\ Sized(entry[h])
        /\ entry[h].key \in Keys /\ entry[h].lng \in Lens /\ Whole(entry[h])
    BY <1>1, LiveRecord
  <2>2. Data(entry[h]) \in Values
    BY <2>1, SizedBody DEF Whole, Data
  <2> QED
    BY <1>1, <2>1, <2>2, RecordForm DEF CatAt, AsRecord
<1>2. ASSUME h \in Saved PROVE SavAt(h) \in Catalog!Record /\ SavAt(h) # NoRecord
  <2>1. DiskEntry(h) /\ Data(dentry[h]) \in Values /\ DiskSafe
    BY <1>2, SavedData DEF DirectoryInv, DiskInv
  <2>2. dentry[h].lng \in Lens /\ dentry[h].key \in Keys
    BY <2>1 DEF DiskSafe
  <2> QED
    BY <1>2, <2>1, <2>2, RecordForm DEF SavAt, AsRecord
<1> QED
  BY <1>1, <1>2

LEMMA ShownNext == DirectoryInv' => Shown'
BY ShownRecords, PTL

\* What is saved lies, while the file is open, where memory knows a record.
LEMMA SavedPlace ==
  ASSUME DirectoryInv, st = "open", NEW h \in Saved
  PROVE  /\ h \in Handle /\ Used(h)
         /\ dentry[h].addr = entry[h].addr /\ dentry[h].lng = entry[h].lng
         /\ Sized(dentry[h])
<1>1. /\ h \in Handle /\ DiskEntry(h) /\ DiskPage(h[1]) /\ h[2] < dpage[h[1]].nent
      /\ dentry[h].idtyp = LIVE /\ h[1] \in Page /\ h[2] \in Int
  BY SavedData DEF Saved, Handle, Rec, DiskEntry
<1>2. Sized(dentry[h])
  <2>1. dentry[h].lng \in Lens /\ dentry[h].addr \in 0 .. MaxAddr
    BY <1>1, Fields DEF DirectoryInv, DiskInv, DiskSafe
  <2> QED
    BY <2>1 DEF Sized
<1>3. CASE ForWriting
  <2>0. DiskBehind /\ TypeInv /\ h[1] \in Int
    BY <1>1, <1>3, WritingFacts DEF Page
  <2>1. DiskBehind /\ TypeInv /\ npages \in Int /\ dheader.nbd \in Int /\ h[1] \in Int
    BY <2>0 DEF TypeInv, TypeOK, HeaderSet
  <2>2. h[1] < npages /\ Earlier(h[1])
    BY <1>1, <2>1 DEF DiskBehind, DiskPage
  <2>3. dpage[h[1]].nent \in Int /\ page[h[1]].nent \in Int
    BY <1>1, <2>1, Fields
  <2> QED
    BY <1>1, <1>2, <2>2, <2>3 DEF Earlier, Used
<1>4. CASE ForReading
  <2>1. Used(h) /\ Reached(h[1]) /\ h[1] < npages
    BY <1>1, <1>4, ReadingRecord DEF Used
  <2>2. SamePlaces(h[1])
    BY <1>1, <1>4, <2>1, ReadingFacts
  <2> QED
    BY <1>1, <1>2, <2>1, <2>2 DEF SamePlaces
<1> QED
  BY <1>3, <1>4 DEF ForWriting, ForReading

-----------------------------------------------------------------------------
(* What a step leaves.                                                     *)

\* A record that keeps its entry, or its place, in a file that keeps its data.
LEMMA CatFrame ==
  ASSUME DirectoryInv, NEW h \in Handle, Live(h)' <=> Live(h),
         Live(h) => /\ entry'[h] = entry[h]
                    /\ \A a \in Extent(entry[h].addr, entry[h].lng) : store'[a] = store[a]
  PROVE  CatAt(h)' = CatAt(h)
<1>1. CASE Live(h)
  <2>1. Sized(entry[h])
    BY <1>1, LiveRecord
  <2>2. DataIn(store', entry'[h]) = DataIn(store, entry[h])
    BY <1>1, <2>1, SizedBody, DataFrame
  <2>3. Data(entry[h])' = Data(entry[h])
    BY <2>2, DataOfStore
  <2> QED
    BY <1>1, <2>3 DEF CatAt, AsRecord
<1>2. CASE ~Live(h)
  BY <1>2 DEF CatAt, NoRecord
<1> QED
  BY <1>1, <1>2

LEMMA SavFrame ==
  ASSUME DirectoryInv, NEW h \in Handle, (h \in Saved)' <=> h \in Saved,
         h \in Saved => /\ dentry'[h] = dentry[h]
                        /\ Sized(dentry[h])
                        /\ \A a \in Extent(dentry[h].addr, dentry[h].lng) : store'[a] = store[a]
  PROVE  SavAt(h)' = SavAt(h)
<1>1. CASE h \in Saved
  <2>1. DataIn(store', dentry'[h]) = DataIn(store, dentry[h])
    BY <1>1, SizedBody, DataFrame
  <2>2. Data(dentry[h])' = Data(dentry[h])
    BY <2>1, DataOfStore
  <2> QED
    BY <1>1, <2>2 DEF SavAt, AsRecord
<1>2. CASE h \notin Saved
  BY <1>2 DEF SavAt, NoRecord
<1> QED
  BY <1>1, <1>2

\* The disk, but for the rest of its header.
LEMMA SavedFrame ==
  ASSUME dheader'.nbd = dheader.nbd, UNCHANGED <<dpage, dentry, store>>
  PROVE  SameSaved
BY DEF SameSaved, SavAt, Saved, Reached, AsRecord, Data, Body

LEMMA CatalogFrame ==
  ASSUME UNCHANGED <<npages, store, entry>>, \A p \in Page : page'[p].nent = page[p].nent
  PROVE  SameCat
<1>1. \A h \in Handle : Live(h)' <=> Live(h)
  BY DEF Live, Used, Handle
<1> QED
  BY <1>1 DEF SameCat, CatAt, AsRecord, Data, Body

LEMMA NothingOpen ==
  ASSUME npages' = 0 
  PROVE  \A h \in Handle : CatAt(h)' = NoRecord
<1>1. \A h \in Handle : ~(h[1] < 0)
  BY DEF Handle, Page
<1> QED
  BY <1>1 DEF CatAt, Live, Used, NoRecord

-----------------------------------------------------------------------------
(* Open, create, crash.                                                    *)

LEMMA NoFileNothingSaved ==
  ASSUME dheader.nbd = 0
  PROVE  \A h \in Handle : SavAt(h) = NoRecord
<1>1. \A h \in Handle : ~(h[1] < 0)
  BY DEF Handle, Page
<1> QED
  BY <1>1 DEF SavAt, Saved

LEMMA InitImplements == Init => Catalog!Init
<1> SUFFICES ASSUME Init PROVE Catalog!Init
  OBVIOUS
<1>1. st = "closed" /\ npages = 0 /\ dheader.nbd = 0
  BY DEF Init, NoHeader
<1>2. \A h \in Handle : SavAt(h) = NoRecord
  BY <1>1, NoFileNothingSaved
<1>3. \A h \in Handle : ~(h[1] < 0)
  BY DEF Handle, Page
<1>4. \A h \in Handle : CatAt(h) = NoRecord
  BY <1>1, <1>3 DEF CatAt, Live, Used
<1> QED
  BY <1>1, <1>2, <1>4, AsInit

LEMMA CreateImplements ==
  ASSUME DirectoryInv, Create
  PROVE  CatalogStep
<1>1. /\ st = "closed" /\ st' = "open" /\ dheader.nbd = 0 /\ dheader'.nbd = 0
      /\ npages = 0 /\ npages' = 1 /\ page'[0].nent = 0
  <2>1. 0 \in Page /\ page \in [Page -> PageSet]
    BY SizesAssumption DEF Page, DirectoryInv, TypeInv, TypeOK
  <2> QED
    BY <2>1 DEF Create, FileExists, NoHeader, EmptyHeader, DirectoryInv, NotOpenInv, NewPage
<1>2. \A h \in Handle : SavAt(h) = NoRecord
  BY <1>1, NoFileNothingSaved
<1>3. \A h \in Handle : SavAt(h)' = NoRecord
  <2>1. \A h \in Handle : ~(h[1] < 0)
    BY DEF Handle, Page
  <2> QED
    BY <1>1, <2>1 DEF SavAt, Saved, NoRecord
<1>4. \A h \in Handle : CatAt(h) = NoRecord /\ CatAt(h)' = NoRecord
  <2> TAKE h \in Handle
  <2>1. h[1] \in Page /\ h[2] \in Rec
    BY DEF Handle
  <2>2. ~(h[1] < 0) /\ ~(h[2] < 0) /\ (h[1] < 1 => h[1] = 0)
    BY <2>1 DEF Page, Rec
  <2>3. ~Live(h) /\ ~Live(h)'
    BY <1>1, <2>2 DEF Live, Used
  <2> QED
    BY <2>3 DEF CatAt, NoRecord
<1> QED
  BY <1>1, <1>2, <1>3, <1>4, AsCreate DEF SameCat, SameSaved

LEMMA OpenImplements ==
  ASSUME DirectoryInv, NEW m \in Modes, OpenFile(m)
  PROVE  CatalogStep
<1>1. /\ st = "closed" /\ st' = "open" /\ UNCHANGED disk
      /\ npages' = dheader.nbd /\ page' = PagesRead /\ entry' = EntriesRead
  BY DEF OpenFile
<1>2. SameSaved
  BY <1>1, SavedFrame DEF disk
<1>3. ASSUME NEW h \in Handle PROVE CatAt(h)' = SavAt(h)
  <2>1. h[1] \in Page /\ ~(h[2] < 0)
    BY DEF Handle, Rec
  <2>2. h[1] < dheader.nbd => /\ Reached(h[1]) => page'[h[1]] = dpage[h[1]]
                                                  /\ entry'[h] = dentry[h]
                              /\ ~Reached(h[1]) => page'[h[1]].nent = 0
    <3>1. dheader.nbd \in Int /\ h[1] \in Int
      <4>1. dheader \in HeaderSet
        BY DEF DirectoryInv, TypeInv, TypeOK
      <4> QED
        BY <2>1, <4>1 DEF HeaderSet, Page
    <3>2. h[1] < dheader.nbd => ~(h[1] >= dheader.nbd)
      BY <3>1
    <3> QED
      BY <1>1, <2>1, <3>2 DEF PagesRead, EntriesRead, NewPage
  <2>3. Live(h)' <=> h \in Saved
    BY <1>1, <2>1, <2>2 DEF Live, Used, Saved
  <2>4. h \in Saved => Data(entry[h])' = Data(dentry[h]) /\ entry'[h] = dentry[h]
    BY <1>1, <2>2 DEF Saved, Data, disk
  <2> QED
    BY <2>3, <2>4 DEF CatAt, SavAt, AsRecord, NoRecord
<1> QED
  BY <1>1, <1>2, <1>3, AsOpen

LEMMA RefusedImplements ==
  ASSUME DirectoryInv, NEW m \in Modes, OpenRefused(m)
  PROVE  CatalogStep
<1>1. /\ st = "closed" /\ st' = "refused"
      /\ UNCHANGED <<npages, page, entry, dheader, dpage, dentry, store>>
  BY DEF OpenRefused, disk
<1> QED
  BY <1>1, SavedFrame, CatalogFrame, AsRefuse

LEMMA CrashImplements ==
  ASSUME DirectoryInv, Crash
  PROVE  CatalogStep
<1>1. /\ st # "closed" /\ st' = "closed" /\ npages' = 0
      /\ UNCHANGED <<dheader, dpage, dentry, store>>
  BY DEF Crash, ResetMemory, disk
<1> QED
  BY <1>1, SavedFrame, NothingOpen, AsCrash

-----------------------------------------------------------------------------
(* c_xdfput at the end of the file.                                        *)

LEMMA PutStoreFrame ==
  ASSUME DirectoryInv, TypeInv', ForWriting,
         NEW old \in Handle \cup {NoHandle}, NEW k \in Keys, NEW l \in Lens, NEW v \in Values,
         old # NoHandle => Live(old), PutAtEnd(old, k, l, v)
  PROVE  /\ \A a \in Addr : a <= header.fsiz => store'[a] = store[a]
         /\ \A h \in Handle : Used(h) =>
              \A a \in Extent(entry[h].addr, entry[h].lng) : store'[a] = store[a]
<1>1. SpaceIsPut(l) /\ TypeInv /\ st = "open" /\ Within(header, page, entry)
  BY PutPlaces, WritingFacts
<1>2. store' = StorePut(l, v)
  BY DEF PutAtEnd
<1>3. ASSUME NEW a \in Addr, a <= header.fsiz PROVE store'[a] = store[a]
  <2>1. a \in Int /\ header.fsiz \in Int /\ l \in Int /\ PageLen \in Int
    BY <1>1, SizesAssumption DEF Addr, SpaceIsPut
  <2>2. a \notin Extent(WriteAddr, l) /\ a \notin Extent(header.fsiz + 1, PageLen)
    BY <1>1, <1>3, <2>1, SizesAssumption DEF Extent, SpaceIsPut
  <2> QED
    BY <1>2, <1>3, <2>2 DEF StorePut
<1> QED
  BY <1>1, <1>3, NamedInFile

LEMMA PutSaved ==
  ASSUME DirectoryInv, TypeInv', ForWriting, UNCHANGED dheader,
         NEW old \in Handle \cup {NoHandle}, NEW k \in Keys, NEW l \in Lens, NEW v \in Values,
         old # NoHandle => Live(old), PutAtEnd(old, k, l, v)
  PROVE  SameSaved
<1>1. /\ dheader.nbd <= npages
      /\ \A p \in Page : p # npages \/ ~PageFull => dpage'[p] = dpage[p]
      /\ \A h \in Handle : h[1] # npages \/ ~PageFull => dentry'[h] = dentry[h]
  BY PutDisk
<1>2. \A h \in Handle : Used(h) =>
        \A a \in Extent(entry[h].addr, entry[h].lng) : store'[a] = store[a]
  BY PutStoreFrame
<1>3. npages \in Int /\ dheader.nbd \in Int
  <2>1. dheader \in HeaderSet /\ npages \in 0 .. MaxDirPages
    BY DEF DirectoryInv, TypeInv, TypeOK
  <2> QED
    BY <2>1 DEF HeaderSet
<1>4. \A p \in Page : p < dheader.nbd => dpage'[p] = dpage[p] /\ p \in Int /\ p < npages
  BY <1>1, <1>3 DEF Page
<1>5. \A h \in Handle : h[1] < dheader.nbd => dentry'[h] = dentry[h]
  BY <1>1, <1>4 DEF Handle
<1>6. ASSUME NEW p \in Page, p < dheader.nbd PROVE Reached(p)' <=> Reached(p)
  <2>1. \A q \in Page : q < p => /\ q + 1 \in Page /\ dpage'[q] = dpage[q]
                                 /\ dpage'[q + 1] = dpage[q + 1]
    <3> TAKE q \in Page
    <3> HAVE q < p
    <3>1. q + 1 \in Page /\ q + 1 < dheader.nbd /\ q < dheader.nbd
      BY <1>3, <1>6, SizesAssumption DEF Page
    <3> QED
      BY <1>4, <3>1
  <2> QED
    BY <2>1 DEF Reached
<1>7. ASSUME NEW h \in Handle PROVE SavAt(h)' = SavAt(h)
  <2>1. h[1] \in Page
    BY DEF Handle
  <2>2. (h \in Saved)' <=> h \in Saved
    BY <1>4, <1>5, <1>6, <2>1 DEF Saved
  <2>3. h \in Saved => /\ dentry'[h] = dentry[h] /\ Used(h)
                       /\ dentry[h].addr = entry[h].addr /\ dentry[h].lng = entry[h].lng
                       /\ Sized(dentry[h])
    BY <1>5, SavedPlace DEF Saved, ForWriting
  <2> QED
    BY <1>2, <2>2, <2>3, SavFrame
<1> QED
  BY <1>7 DEF SameSaved

\* The new record appears, the old one goes, the others stay.
LEMMA PutShows ==
  ASSUME DirectoryInv, TypeInv', ForWriting,
         NEW old \in Handle \cup {NoHandle}, NEW k \in Keys, NEW l \in Lens, NEW v \in Values,
         old # NoHandle => Live(old), PutAtEnd(old, k, l, v)
  PROVE  \E new \in Handle :
           /\ ~Live(new) /\ Live(new)' /\ new # old
           /\ old # NoHandle => ~Live(old)'
           /\ \A g \in Handle : g # new /\ g # old => CatAt(g)' = CatAt(g)
<1>1. HandleIsNew(old) /\ PagesArePut(old) /\ EntriesArePut(old, k, l)
  BY PutFacts
<1>2. PICK new \in Handle : new = NewHandle
  BY <1>1 DEF HandleIsNew
<1>3. ~Live(new) /\ Live(new)' /\ new # old
  <2>1. ~Used(new) /\ Used(new)' /\ entry'[new].idtyp = LIVE /\ new # old
    BY <1>1, <1>2 DEF HandleIsNew, EntriesArePut
  <2> QED
    BY <2>1 DEF Live
<1>4. old # NoHandle => ~Live(old)'
  BY <1>1, <1>2, <1>3 DEF EntriesArePut, Live, LIVE
<1>5. ASSUME NEW g \in Handle, g # new, g # old
      PROVE  CatAt(g)' = CatAt(g)
  <2>1. entry'[g] = entry[g] /\ (Used(g)' <=> Used(g))
    BY <1>1, <1>2, <1>5 DEF EntriesArePut
  <2>2. Live(g)' <=> Live(g)
    BY <2>1 DEF Live
  <2>3. Used(g) => \A a \in Extent(entry[g].addr, entry[g].lng) : store'[a] = store[a]
    BY PutStoreFrame
  <2> QED
    BY <2>1, <2>2, <2>3, CatFrame DEF Live
<1> QED
  BY <1>3, <1>4, <1>5

LEMMA AppendImplements ==
  ASSUME DirectoryInv, DirectoryInv', NEW k \in Keys, NEW l \in Lens, NEW v \in Values,
         Append(k, l, v)
  PROVE  CatalogStep
<1>1. /\ ForWriting /\ PutAtEnd(NoHandle, k, l, v) /\ UNCHANGED <<st, flush, dheader>>
      /\ TypeInv' /\ NoHandle \in Handle \cup {NoHandle}
  BY DEF Append, Writable, Ready, ForWriting, DirectoryInv
<1>2. PICK h \in Handle :
        /\ ~Live(h) /\ Live(h)'
        /\ \A g \in Handle : g # h /\ g # NoHandle => CatAt(g)' = CatAt(g)
  BY <1>1, PutShows
<1>3. \A g \in Handle : g # NoHandle
  BY SizesAssumption DEF NoHandle, Handle, Page
<1>4. SameSaved
  BY <1>1, PutSaved
<1>5. CatAt(h) = NoRecord
  BY <1>2 DEF CatAt
<1>6. CatAt(h)' \in Catalog!Record
  BY <1>2, ShownNext DEF Shown
<1> QED
  BY <1>1, <1>2, <1>3, <1>4, <1>5, <1>6, AsAppend DEF ForWriting

LEMMA ToEndImplements ==
  ASSUME DirectoryInv, DirectoryInv', ForWriting, UNCHANGED <<st, flush, dheader>>,
         NEW old \in Handle, NEW k \in Keys, NEW l \in Lens, NEW v \in Values,
         Live(old), PutAtEnd(old, k, l, v)
  PROVE  CatalogStep
<1>1. TypeInv' /\ old \in Handle \cup {NoHandle} /\ old # NoHandle
  BY SizesAssumption DEF DirectoryInv, NoHandle, Handle, Page
<1>2. PICK h \in Handle :
        /\ ~Live(h) /\ Live(h)' /\ ~Live(old)'
        /\ \A g \in Handle : g # h /\ g # old => CatAt(g)' = CatAt(g)
  BY <1>1, PutShows
<1>3. SameSaved
  BY <1>1, PutSaved
<1>4. CatAt(h) = NoRecord /\ CatAt(old)' = NoRecord
  BY <1>2 DEF CatAt, NoRecord
<1>5. CatAt(old) # NoRecord
  BY ShownRecords DEF Shown
<1>6. CatAt(h)' \in Catalog!Record
  BY <1>2, ShownNext DEF Shown
<1> QED
  BY <1>2, <1>3, <1>4, <1>5, <1>6, AsRewriteToEnd DEF ForWriting

-----------------------------------------------------------------------------
(* c_xdfput in place.                                                      *)

LEMMA InPlaceFacts ==
  ASSUME DirectoryInv, ForWriting,
         NEW h \in Handle, NEW k \in Keys, NEW v \in Values, Live(h), RewriteInPlace(h, k, v)
  PROVE  /\ \A g \in Handle : Live(g)' <=> Live(g)
         /\ \A g \in Handle : g # h => entry'[g] = entry[g]
         /\ entry'[h].key = k /\ entry'[h].lng = entry[h].lng /\ entry'[h].addr = entry[h].addr
         /\ \A g \in Handle : Used(g) /\ g # h =>
              \A a \in Extent(entry[g].addr, entry[g].lng) : store'[a] = store[a]
         /\ \A a \in Extent(entry[h].addr, entry[h].lng) : store'[a] = v
<1>1. /\ TypeInv /\ st = "open" /\ Disjoint(header, page, entry) /\ Within(header, page, entry)
      /\ entry \in [Handle -> EntrySet] /\ entry[h] \in EntrySet /\ h[1] \in Page
      /\ npages' = npages
  BY WritingFacts, Fields DEF TypeInv, TypeOK, RewriteInPlace
<1>2. /\ \A g \in Handle : g # h => entry'[g] = entry[g]
      /\ entry'[h] = [entry[h] EXCEPT !.key = k]
  BY <1>1 DEF RewriteInPlace
<1>3. entry'[h].key = k /\ entry'[h].lng = entry[h].lng /\ entry'[h].addr = entry[h].addr
      /\ entry'[h].idtyp = entry[h].idtyp
  BY <1>1, <1>2 DEF EntrySet
<1>4. \A p \in Page : page'[p].nent = page[p].nent
  <2>1. page \in [Page -> PageSet] /\ page' = [page EXCEPT ![h[1]].modified = TRUE]
    BY <1>1 DEF TypeInv, TypeOK, RewriteInPlace, Touched
  <2> QED
    BY <1>1, <2>1 DEF PageSet
<1>5. \A g \in Handle : Live(g)' <=> Live(g)
  <2> TAKE g \in Handle
  <2>1. entry'[g].idtyp = entry[g].idtyp /\ g[1] \in Page
    BY <1>2, <1>3 DEF Handle
  <2> QED
    BY <1>1, <1>4, <2>1 DEF Live, Used
<1>6. ASSUME NEW g \in Handle, Used(g), g # h
      PROVE  \A a \in Extent(entry[g].addr, entry[g].lng) : store'[a] = store[a]
  <2> TAKE a \in Extent(entry[g].addr, entry[g].lng)
  <2>1. a \in Addr
    BY <1>1, <1>6, NamedInFile
  <2>2. EntryIn(header, page, g) /\ EntryIn(header, page, h)
    BY <1>1, <1>6, OpenIn DEF Live
  <2>3. a \notin Extent(entry[h].addr, entry[h].lng)
    BY <1>1, <1>6, <2>1, <2>2 DEF Disjoint, EntryHas
  <2> QED
    BY <2>1, <2>3 DEF RewriteInPlace
<1>7. \A a \in Extent(entry[h].addr, entry[h].lng) : store'[a] = v
  <2>1. \A a \in Extent(entry[h].addr, entry[h].lng) : a \in Addr
    BY LiveRecord
  <2> QED
    BY <2>1 DEF RewriteInPlace
<1> QED
  BY <1>2, <1>3, <1>5, <1>6, <1>7

LEMMA InPlaceImplements ==
  ASSUME DirectoryInv, DirectoryInv', ForWriting, UNCHANGED <<st, flush, dheader>>,
         NEW h \in Handle, NEW k \in Keys, NEW v \in Values, Live(h), RewriteInPlace(h, k, v)
  PROVE  CatalogStep
<1>1. /\ \A g \in Handle : Live(g)' <=> Live(g)
      /\ \A g \in Handle : g # h => entry'[g] = entry[g]
      /\ entry'[h].key = k /\ entry'[h].lng = entry[h].lng /\ entry'[h].addr = entry[h].addr
      /\ \A g \in Handle : Used(g) /\ g # h =>
           \A a \in Extent(entry[g].addr, entry[g].lng) : store'[a] = store[a]
      /\ \A a \in Extent(entry[h].addr, entry[h].lng) : store'[a] = v
  BY InPlaceFacts
<1>2. /\ st = "open" /\ st' = "open" /\ UNCHANGED <<dheader, dpage, dentry>>
      /\ Sized(entry[h])
  BY LiveRecord DEF ForWriting, RewriteInPlace
<1>3. \A g : (g \in Saved)' <=> g \in Saved
  BY <1>2 DEF Saved, Reached
<1>4. Data(entry[h])' = v
  <2>1. \A a \in Body(entry[h]) : store'[a] = v
    BY <1>1, <1>2, SizedBody
  <2>2. store'[entry[h].addr + 1] = v
    BY <1>2, <2>1, SizedBody
  <2> QED
    BY <1>1, <2>1, <2>2 DEF Data, Body
<1>5. CatAt(h)' = [key |-> k, lng |-> entry[h].lng, data |-> v]
  BY <1>1, <1>4 DEF CatAt, AsRecord
<1>6. CatAt(h) # NoRecord /\ CatAt(h).lng = entry[h].lng
  BY ShownRecords DEF Shown, CatAt, AsRecord
<1>7. CatAt(h)' \in Catalog!Record
  BY <1>1, ShownNext DEF Shown
<1>8. ASSUME NEW g \in Handle, g # h
      PROVE  CatAt(g)' = CatAt(g) /\ SavAt(g)' = SavAt(g)
  <2>1. CatAt(g)' = CatAt(g)
    BY <1>1, <1>8, CatFrame DEF Live
  <2>2. g \in Saved => /\ Used(g) /\ dentry[g].addr = entry[g].addr
                       /\ dentry[g].lng = entry[g].lng
                       /\ Sized(dentry[g])
    BY <1>2, SavedPlace
  <2>3. SavAt(g)' = SavAt(g)
    BY <1>1, <1>2, <1>3, <1>8, <2>2, SavFrame
  <2> QED
    BY <2>1, <2>3
<1>9. IF SavAt(h) = NoRecord THEN SavAt(h)' = NoRecord
      ELSE SavAt(h)' = [SavAt(h) EXCEPT !.data = CatAt(h)'.data]
  <2>1. CASE h \in Saved
    <3>1. SavAt(h) # NoRecord
      BY <2>1, ShownRecords DEF Shown
    <3>2. dentry[h].addr = entry[h].addr /\ dentry[h].lng = entry[h].lng
      BY <1>2, <2>1, SavedPlace
    <3>3. Data(dentry[h])' = v
      <4>1. Data(dentry[h])' = Data(entry[h])'
        BY <1>1, <1>2, <3>2 DEF Data, Body
      <4> QED
        BY <1>4, <4>1
    <3>4. SavAt(h) = [key |-> dentry[h].key, lng |-> dentry[h].lng, data |-> Data(dentry[h])]
      BY <2>1 DEF SavAt, AsRecord
    <3>5. SavAt(h)' = [key |-> dentry[h].key, lng |-> dentry[h].lng, data |-> v]
      BY <1>2, <1>3, <2>1, <3>3 DEF SavAt, AsRecord
    <3> QED
      BY <1>5, <3>1, <3>4, <3>5
  <2>2. CASE h \notin Saved
    BY <1>3, <2>2 DEF SavAt, NoRecord
  <2> QED
    BY <2>1, <2>2
<1> QED
  BY <1>2, <1>5, <1>6, <1>7, <1>8, <1>9, AsRewriteInPlace

-----------------------------------------------------------------------------
(* c_xdfput refused, c_xdfdel and c_fst_edit_dir.                          *)

LEMMA TouchedKeeps ==
  ASSUME TypeInv, NEW p \in Page, page' = Touched(p)
  PROVE  \A q \in Page : page'[q].nent = page[q].nent
<1>1. page \in [Page -> PageSet]
  BY DEF TypeInv, TypeOK
<1> QED
  BY <1>1 DEF Touched, PageSet

LEMMA RejectedImplements ==
  ASSUME DirectoryInv, NEW h, RewriteRejected(h) \/ DirFull(h)
  PROVE  CatalogStep
<1>1. st = "open" /\ TypeInv /\ UNCHANGED <<st, npages, entry, dheader, dpage, dentry, store>>
  BY DEF RewriteRejected, DirFull, Writable, Ready, disk, DirectoryInv
<1>2. \A p \in Page : page'[p].nent = page[p].nent
  <2>1. CASE DirFull(h)
    <3>1. page' = Touched(Last) /\ Last \in Page
      BY <1>1, <2>1, OpenIn DEF DirFull
    <3> QED
      BY <1>1, <3>1, TouchedKeeps
  <2> QED
    BY <2>1 DEF RewriteRejected
<1>3. SameSaved /\ SameCat
  BY <1>1, <1>2, SavedFrame, CatalogFrame
<1> QED
  BY <1>1, <1>3, Stutters

LEMMA DeleteImplements ==
  ASSUME DirectoryInv, NEW h \in Handle, Delete(h)
  PROVE  CatalogStep
<1>1. /\ st = "open" /\ st' = "open" /\ Live(h) /\ TypeInv /\ page' = Touched(h[1])
      /\ UNCHANGED <<npages, dheader, dpage, dentry, store>> /\ h[1] \in Page
  BY DEF Delete, Writable, Ready, disk, Handle, DirectoryInv
<1>2. /\ entry \in [Handle -> EntrySet]
      /\ entry' = [entry EXCEPT ![h].idtyp = 254]
  BY <1>1 DEF Delete, TypeInv, TypeOK
<1>3. \A g \in Handle : g # h => entry'[g] = entry[g]
  BY <1>2
<1>4. entry'[h].idtyp = 254
  BY <1>2 DEF EntrySet
<1>5. CatAt(h)' = NoRecord
  BY <1>4 DEF CatAt, Live, LIVE, NoRecord
<1>6. CatAt(h) # NoRecord
  BY <1>1, ShownRecords DEF Shown
<1>7. ASSUME NEW g \in Handle, g # h PROVE CatAt(g)' = CatAt(g)
  <2>1. page'[g[1]].nent = page[g[1]].nent
    BY <1>1, TouchedKeeps DEF Handle
  <2>2. Live(g)' <=> Live(g)
    BY <1>1, <1>3, <1>7, <2>1 DEF Live, Used
  <2> QED
    BY <1>1, <1>3, <1>7, <2>2, CatFrame
<1>8. SameSaved
  BY <1>1, SavedFrame
<1> QED
  BY <1>1, <1>5, <1>6, <1>7, <1>8, AsDelete

LEMMA EditImplements ==
  ASSUME DirectoryInv, NEW h \in Handle, NEW k \in Keys, EditDir(h, k)
  PROVE  CatalogStep
<1>1. /\ st = "open" /\ st' = "open" /\ TypeInv /\ page' = Touched(h[1])
      /\ UNCHANGED <<npages, dheader, dpage, dentry, store>> /\ h[1] \in Page
  BY DEF EditDir, Ready, disk, Handle, DirectoryInv
<1>2. entry \in [Handle -> EntrySet] /\ entry' = [entry EXCEPT ![h].key = k]
  BY <1>1 DEF EditDir, TypeInv, TypeOK
<1>3. \A g \in Handle : g # h => entry'[g] = entry[g]
  BY <1>2
<1>4. /\ entry'[h].key = k /\ entry'[h].idtyp = entry[h].idtyp
      /\ entry'[h].addr = entry[h].addr /\ entry'[h].lng = entry[h].lng
  BY <1>2 DEF EntrySet
<1>5. \A g \in Handle : Live(g)' <=> Live(g)
  <2> TAKE g \in Handle
  <2>1. page'[g[1]].nent = page[g[1]].nent /\ entry'[g].idtyp = entry[g].idtyp
    BY <1>1, <1>3, <1>4, TouchedKeeps DEF Handle
  <2> QED
    BY <1>1, <2>1 DEF Live, Used
<1>6. \A g \in Handle : g # h => CatAt(g)' = CatAt(g)
  BY <1>1, <1>3, <1>5, CatFrame
<1>7. SameSaved
  BY <1>1, SavedFrame
<1>8. CASE Live(h)
  <2>1. CatAt(h) # NoRecord
    BY <1>8, ShownRecords DEF Shown
  <2>2. Data(entry[h])' = Data(entry[h])
    BY <1>1, <1>4 DEF Data, Body
  <2>3. CatAt(h)' = [CatAt(h) EXCEPT !.key = k]
    BY <1>4, <1>5, <1>8, <2>2 DEF CatAt, AsRecord
  <2> QED
    BY <1>1, <1>6, <1>7, <2>1, <2>3, AsEdit
<1>9. CASE ~Live(h)
  <2>1. CatAt(h)' = CatAt(h)
    BY <1>5, <1>9 DEF CatAt, NoRecord
  <2>2. SameCat
    BY <1>6, <2>1 DEF SameCat
  <2> QED
    BY <1>1, <1>7, <2>2, Stutters
<1> QED
  BY <1>8, <1>9

-----------------------------------------------------------------------------
(* c_xdfcls writes a page.                                                 *)

LEMMA NumberedPage ==
  ASSUME DirectoryInv, FlushPage
  PROVE  /\ TypeInv /\ st = "open" /\ (ForWriting \/ ForReading)
         /\ header.nbd = npages /\ npages \in 1 .. MaxDirPages
         /\ \E z \in Page : z = flush.at /\ z < npages
<1>1. TypeInv /\ flush.at # -1 /\ flush.at < header.nbd
      /\ flush \in [at : -1 .. MaxDirPages, checkpoint : BOOLEAN]
  BY DEF DirectoryInv, TypeInv, TypeOK, FlushPage, InPage
<1>2. st = "open"
  BY <1>1 DEF DirectoryInv, NotOpenInv, NoFlush
<1>3. header.nbd = npages /\ npages \in 1 .. MaxDirPages
  BY <1>1, <1>2, OpenIn
<1>4. flush.at \in -1 .. MaxDirPages
  BY <1>1
<1>5. flush.at \in Page /\ flush.at < npages
  BY <1>1, <1>3, <1>4, SizesAssumption DEF Page
<1> QED
  BY <1>1, <1>2, <1>3, <1>5 DEF ForWriting, ForReading

\* What the write of page z changes.
PageIsWritten(z) ==
  /\ UNCHANGED <<st, npages, entry, dheader>> /\ store' = StoreFlushed(z)
  /\ \A p \in Page : page'[p].nent = page[p].nent
  /\ dpage'[z].nent = page[z].nent /\ dpage'[z].addr = page[z].addr
  /\ dpage'[z].nxt_addr = page[z].nxt_addr
  /\ \A p \in Page : p # z => dpage'[p] = dpage[p]
  /\ \A h \in Handle :
       /\ h[1] = z => dentry'[h] = entry[h]
       /\ h[1] # z => dentry'[h] = dentry[h]
       /\ Live(h)' <=> Live(h)

LEMMA WriteFacts ==
  ASSUME DirectoryInv, FlushPage, NEW z \in Page, z = flush.at, page[z].modified
  PROVE  PageIsWritten(z)
<1>1. TypeInv /\ header.nbd = npages /\ z < npages
  BY NumberedPage
<1>2. /\ page \in [Page -> PageSet] /\ dpage \in [Page -> PageSet] /\ page[z] \in PageSet
      /\ \A h \in Handle : entry[h] \in EntrySet /\ h[1] \in Page
  BY <1>1 DEF TypeInv, TypeOK, Handle
<1>3. /\ page' = [page EXCEPT ![z].modified = FALSE]
      /\ dentry' = [h \in Handle |-> IF h[1] = z THEN entry[h] ELSE dentry[h]]
      /\ dpage' = [dpage EXCEPT ![z] = [page[z] EXCEPT !.modified = FALSE]]
      /\ store' = StoreFlushed(z)
      /\ UNCHANGED <<st, npages, entry, dheader>>
  BY DEF FlushPage, WritePage
<1>4. \A p \in Page : page'[p].nent = page[p].nent
  BY <1>2, <1>3 DEF PageSet
<1>5. /\ dpage'[z].nent = page[z].nent /\ dpage'[z].addr = page[z].addr
      /\ dpage'[z].nxt_addr = page[z].nxt_addr
      /\ \A p \in Page : p # z => dpage'[p] = dpage[p]
  BY <1>2, <1>3 DEF PageSet
<1>6. \A h \in Handle :
        /\ h[1] = z => dentry'[h] = entry[h]
        /\ h[1] # z => dentry'[h] = dentry[h]
        /\ Live(h)' <=> Live(h)
  BY <1>2, <1>3, <1>4 DEF Live, Used
<1> QED
  BY <1>3, <1>4, <1>5, <1>6 DEF PageIsWritten

\* The write hits no record.
LEMMA WriteSpares ==
  ASSUME DirectoryInv, FlushPage, NEW z \in Page, z = flush.at, page[z].modified,
         NEW h \in Handle, Used(h), NEW a \in Addr, EntryHas(entry, h, a)
  PROVE  store'[a] = store[a]
<1>1. TypeInv /\ st = "open" /\ z < npages /\ (ForWriting \/ ForReading)
  BY NumberedPage
<1>2. PageIsWritten(z)
  BY WriteFacts
<1>3. ~PageHas(page, z, a)
  <2>1. CASE ForWriting
    <3>1. Disjoint(header, page, entry)
      BY <2>1, WritingFacts
    <3>2. PageIn(header, z) /\ EntryIn(header, page, h)
      BY <1>1, OpenIn
    <3> QED
      BY <3>1, <3>2 DEF Disjoint
  <2>2. CASE ForReading
    <3>1. /\ \A p \in Page : p < npages =>
               /\ Reached(p) => SamePlaces(p)
               /\ ~Reached(p) => ~page[p].modified
          /\ DiskSafe /\ dheader.nbd = npages
      BY <2>2, ReadingFacts
    <3>2. DiskEntry(h) /\ Reached(h[1]) /\ h[1] < npages /\ h[1] \in Page
      BY <2>2, ReadingRecord DEF Used, Handle
    <3>3. DiskPage(z) /\ SamePlaces(z) /\ SamePlaces(h[1])
      BY <1>1, <3>1, <3>2 DEF DiskPage
    <3>4. PageHas(page, z, a) => PageHas(dpage, z, a)
      BY <3>3 DEF PageHas, SamePlaces
    <3>5. EntryHas(dentry, h, a)
      BY <3>3 DEF EntryHas, SamePlaces
    <3> QED
      BY <3>1, <3>2, <3>3, <3>4, <3>5 DEF DiskSafe
  <2> QED
    BY <1>1, <2>1, <2>2
<1> QED
  BY <1>2, <1>3 DEF PageIsWritten, StoreFlushed, PageHas

\* A page comes on the chain only while it is empty on disk, and stays on it.
LEMMA WriteReaches ==
  ASSUME DirectoryInv, FlushPage, NEW z \in Page, z = flush.at, page[z].modified,
         NEW p \in Page, p < dheader.nbd
  PROVE  /\ Reached(p) => Reached(p)'
         /\ Reached(p)' /\ ~Reached(p) => p # z /\ dpage[p].nent = 0
<1>1. /\ TypeInv /\ st = "open" /\ z < npages /\ (ForWriting \/ ForReading)
      /\ header.nbd = npages /\ npages \in 1 .. MaxDirPages
  BY NumberedPage
<1>2. PageIsWritten(z)
  BY WriteFacts
<1>3. CASE ForWriting
  <2>1. Chained(header, page) /\ DiskBehind
    BY <1>3, WritingFacts
  <2>2. p < npages
    <3>1. dheader.nbd \in Int /\ npages \in Int /\ p \in Int /\ dheader.nbd <= npages
      BY <1>1, <2>1 DEF TypeInv, TypeOK, HeaderSet, DiskBehind, Page
    <3> QED
      BY <3>1
  <2>3. \A q \in Page : q < npages => dpage[q].addr = page[q].addr
    BY <2>1 DEF DiskBehind, Earlier
  <2>4. \A q \in Page : dpage'[q].addr = dpage[q].addr
    BY <1>1, <1>2, <2>3 DEF PageIsWritten
  <2>5. \A q \in Page : q < p => q + 1 \in Page /\ q + 1 < npages /\ q < npages - 1
    BY <1>1, <2>2, SizesAssumption DEF Page
  <2>6. z < p => dpage'[z].nxt_addr = dpage[z + 1].addr
    BY <1>1, <1>2, <2>1, <2>3, <2>5 DEF PageIsWritten, Chained
  <2>7. Reached(p) => Reached(p)'
    BY <1>2, <2>4, <2>5, <2>6 DEF Reached, PageIsWritten
  <2>8. p = z => (Reached(p)' => Reached(p))
    <3>1. \A q \in Page : q < z => q # z
      BY DEF Page
    <3> QED
      BY <1>2, <2>4, <2>5, <3>1 DEF Reached, PageIsWritten
  <2> QED
    BY <2>1, <2>2, <2>7, <2>8 DEF DiskBehind
<1>4. CASE ForReading
  <2>1. SamePlaces(z)
    BY <1>1, <1>4, ReadingFacts
  <2>2. \A q \in Page : /\ dpage'[q].addr = dpage[q].addr /\ dpage'[q].nxt_addr = dpage[q].nxt_addr
    BY <1>2, <2>1 DEF PageIsWritten, SamePlaces
  <2>3. \A q \in Page : q < p => q + 1 \in Page
    BY SizesAssumption DEF Page
  <2> QED
    BY <2>2, <2>3 DEF Reached
<1> QED
  BY <1>1, <1>3, <1>4

LEMMA WriteImplements ==
  ASSUME DirectoryInv, FlushPage, page[flush.at].modified
  PROVE  CatalogStep
<1>1. PICK z \in Page : z = flush.at
  BY NumberedPage
<1>2. TypeInv /\ st = "open" /\ page[z].modified /\ z < npages
  BY <1>1, NumberedPage
<1>3. PageIsWritten(z)
  BY <1>1, <1>2, WriteFacts
<1>4. ASSUME NEW h \in Handle, Used(h),
             \A a \in Extent(entry[h].addr, entry[h].lng) : a \in Addr
      PROVE  \A a \in Extent(entry[h].addr, entry[h].lng) : store'[a] = store[a]
  BY <1>1, <1>2, <1>4, WriteSpares DEF EntryHas
<1>6. ASSUME NEW h \in Handle PROVE CatAt(h)' = CatAt(h)
  <2>1. Live(h) => \A a \in Extent(entry[h].addr, entry[h].lng) : store'[a] = store[a]
    BY <1>4, LiveRecord
  <2> QED
    BY <1>3, <2>1, CatFrame DEF PageIsWritten
<1>7. ASSUME NEW h \in Handle, h[1] = z
      PROVE  SavAt(h)' \in {SavAt(h), CatAt(h)}
  <2>1. dheader' = dheader /\ dpage'[z].nent = page[z].nent /\ dentry'[h] = entry[h]
        /\ entry'[h] = entry[h]
    BY <1>3, <1>7 DEF PageIsWritten
  <2>2. CASE z < dheader.nbd /\ Reached(z)
    <3>1. Reached(z)'
      BY <1>1, <1>2, <2>2, WriteReaches
    <3>2. Live(h) <=> h[2] < page[z].nent /\ entry[h].idtyp = LIVE
      BY <1>2, <1>7 DEF Live, Used
    <3>3. (h \in Saved)' <=> Live(h)
      BY <1>7, <2>1, <2>2, <3>1, <3>2 DEF Saved
    <3>4. Live(h) => AsRecord(dentry[h])' = AsRecord(entry[h])
      <4>1. Live(h) => CatAt(h)' = AsRecord(entry[h])
        BY <1>6 DEF CatAt
      <4>2. Live(h) => CatAt(h)' = AsRecord(entry[h])'
        BY <1>3 DEF CatAt, PageIsWritten
      <4>3. AsRecord(dentry[h])' = AsRecord(entry[h])'
        BY <2>1 DEF AsRecord, Data, Body
      <4> QED
        BY <4>1, <4>2, <4>3
    <3> QED
      BY <3>3, <3>4 DEF SavAt, CatAt, NoRecord
  <2>3. CASE ~(z < dheader.nbd /\ Reached(z))
    <3>1. ~(z < dheader.nbd /\ Reached(z)')
      BY <1>1, <1>2, <2>3, WriteReaches
    <3>2. h \notin Saved /\ ~(h \in Saved)'
      BY <1>7, <2>1, <2>3, <3>1 DEF Saved
    <3> QED
      BY <3>2 DEF SavAt, NoRecord
  <2> QED
    BY <2>2, <2>3
<1>8. ASSUME NEW h \in Handle, h[1] # z
      PROVE  SavAt(h)' = SavAt(h)
  <2>1. /\ dheader' = dheader /\ dpage'[h[1]] = dpage[h[1]] /\ dentry'[h] = dentry[h]
        /\ h[1] \in Page /\ ~(h[2] < 0)
    BY <1>3, <1>8 DEF PageIsWritten, Handle, Rec
  <2>2. h[1] < dheader.nbd =>
          /\ Reached(h[1]) => Reached(h[1])'
          /\ Reached(h[1])' /\ ~Reached(h[1]) => dpage[h[1]].nent = 0
    BY <1>1, <1>2, <2>1, WriteReaches
  <2>3. (h \in Saved)' <=> h \in Saved
    BY <2>1, <2>2 DEF Saved
  <2>4. CASE h \in Saved
    <3>1. /\ Used(h)
          /\ dentry[h].addr = entry[h].addr /\ dentry[h].lng = entry[h].lng
          /\ Sized(dentry[h])
      BY <1>2, <2>4, SavedPlace
    <3>2. \A a \in Extent(dentry[h].addr, dentry[h].lng) : a \in Addr
      <4>1. /\ dentry[h].addr >= 1 /\ dentry[h].addr + dentry[h].lng - 1 <= MaxAddr
        BY <2>4, SavedData DEF DirectoryInv, DiskInv, DiskSafe
      <4>2. dentry[h].addr \in Int /\ dentry[h].lng \in Int
        BY <1>2, Fields
      <4> QED
        BY <4>1, <4>2, SizesAssumption DEF Extent, Addr
    <3>3. \A a \in Extent(dentry[h].addr, dentry[h].lng) : store'[a] = store[a]
      BY <1>4, <3>1, <3>2
    <3> QED
      BY <2>1, <2>3, <3>1, <3>3, SavFrame
  <2>5. CASE h \notin Saved
    BY <2>3, <2>5, SavFrame
  <2> QED
    BY <2>4, <2>5
<1>9. SameCat /\ \A h \in Handle : SavAt(h)' \in {SavAt(h), CatAt(h)}
  BY <1>6, <1>7, <1>8 DEF SameCat
<1> QED
  BY <1>2, <1>3, <1>9, AsSavePart DEF PageIsWritten

-----------------------------------------------------------------------------
(* The rest of c_xdfcls.                                                   *)

LEMMA FlushHeaderImplements ==
  ASSUME DirectoryInv, st = "open", NEW c \in BOOLEAN, FlushHeader(c)
  PROVE  CatalogStep
<1>1. /\ UNCHANGED <<st, npages, page, entry, dpage, dentry, store>>
      /\ dheader' = (IF header.rwflg # RDMODE THEN header ELSE dheader)
      /\ TypeInv
  BY DEF FlushHeader, HeaderFlushed, DirectoryInv
<1>2. SameCat
  BY <1>1, CatalogFrame
<1>3. SameSaved
  <2>1. CASE header.rwflg = RDMODE
    BY <1>1, <2>1, SavedFrame
  <2>2. CASE header.rwflg # RDMODE
    <3>1. ForWriting /\ dheader' = header /\ header.nbd = npages
      BY <1>1, <2>2, OpenIn DEF ForWriting
    <3>2. DiskBehind
      BY <3>1, WritingFacts
    <3>3. \A p \in Page : p < dheader.nbd => p < npages
      <4>1. dheader \in HeaderSet /\ npages \in 0 .. MaxDirPages
        BY <1>1 DEF TypeInv, TypeOK
      <4>2. dheader.nbd \in Int /\ npages \in Int /\ dheader.nbd <= npages
        BY <3>2, <4>1 DEF HeaderSet, DiskBehind
      <4> QED
        BY <4>2 DEF Page
    <3>4. \A p \in Page : p < npages /\ ~(p < dheader.nbd) => dpage[p].nent = 0
      <4>1. dheader \in HeaderSet
        BY <1>1 DEF TypeInv, TypeOK
      <4>2. \A p \in Page : ~(p < dheader.nbd) => p >= dheader.nbd
        BY <4>1 DEF HeaderSet, Page
      <4> QED
        BY <3>2, <4>2 DEF DiskBehind
    <3>5. ASSUME NEW h \in Handle PROVE SavAt(h)' = SavAt(h)
      <4>1. h[1] \in Page /\ ~(h[2] < 0)
        BY DEF Handle, Rec
      <4>2. Reached(h[1])' <=> Reached(h[1])
        BY <1>1 DEF Reached
      <4>3. (h \in Saved)' <=> h \in Saved
        BY <1>1, <3>1, <3>3, <3>4, <4>1, <4>2 DEF Saved
      <4> QED
        BY <1>1, <4>3 DEF SavAt, AsRecord, Data, Body, NoRecord
    <3> QED
      BY <3>5 DEF SameSaved
  <2> QED
    BY <2>1, <2>2
<1> QED
  BY <1>1, <1>2, <1>3, Stutters

LEMMA PassImplements ==
  ASSUME (FlushPage /\ ~page[flush.at].modified) \/ EndCheckpoint
  PROVE  CatalogStep
<1>1. UNCHANGED <<st, npages, page, entry, dheader, dpage, dentry, store>>
  BY DEF FlushPage, EndCheckpoint, disk
<1> QED
  BY <1>1, SavedFrame, CatalogFrame, Stutters

\* The data of a record remain when its header goes.
LEMMA EraseImplements ==
  ASSUME DirectoryInv, FlushRecord
  PROVE  CatalogStep
<1>1. /\ UNCHANGED <<st, header, npages, page, dheader, dpage, dentry>>
      /\ flush.at # -1
  BY DEF FlushRecord, InPage
<1>2. st = "open" /\ ForWriting
  <2>1. st = "open"
    BY <1>1 DEF DirectoryInv, NotOpenInv, NoFlush
  <2> QED
    BY <2>1, FlushRecordReading DEF ForWriting, ForReading
<1>3. PICK h \in Handle :
        /\ entry[h].idtyp = 254 /\ entry'[h].idtyp = 255
        /\ \A g \in Handle : g # h => entry'[g] = entry[g]
        /\ \A a \in Addr : a # entry[h].addr => store'[a] = store[a]
        /\ \A g \in Handle : Used(g) => entry[h].addr \notin Body(entry[g])
  BY <1>2, ErasedFacts DEF RecordIsErased
<1>4. \A g \in Handle : Used(g) => \A a \in Body(entry[g]) : store'[a] = store[a]
  <2>1. TypeInv /\ Within(header, page, entry)
    BY <1>2, WritingFacts
  <2> QED
    BY <1>2, <1>3, <2>1, NamedInFile
<1>5. ASSUME NEW g \in Handle PROVE CatAt(g)' = CatAt(g)
  <2>1. Live(g)' <=> Live(g)
    BY <1>1, <1>3 DEF Live, Used, LIVE
  <2>2. CASE Live(g)
    <3>1. Sized(entry[g]) /\ Used(g) /\ entry'[g] = entry[g]
      BY <1>3, <2>2, LiveRecord DEF Live, LIVE
    <3>2. DataIn(store', entry'[g]) = DataIn(store, entry[g])
      BY <1>4, <3>1, DataFrame
    <3>3. Data(entry[g])' = Data(entry[g])
      BY <3>2, DataOfStore
    <3> QED
      BY <2>1, <2>2, <3>1, <3>3 DEF CatAt, AsRecord
  <2>3. CASE ~Live(g)
    BY <2>1, <2>3 DEF CatAt, NoRecord
  <2> QED
    BY <2>2, <2>3
<1>6. ASSUME NEW g \in Handle PROVE SavAt(g)' = SavAt(g)
  <2>1. (g \in Saved)' <=> g \in Saved
    BY <1>1 DEF Saved, Reached
  <2>2. CASE g \in Saved
    <3>1. /\ Sized(dentry[g]) /\ Used(g)
          /\ dentry[g].addr = entry[g].addr /\ dentry[g].lng = entry[g].lng
      BY <1>2, <2>2, SavedPlace
    <3>2. \A a \in Body(dentry[g]) : store'[a] = store[a]
      BY <1>4, <3>1 DEF Body
    <3>3. DataIn(store', dentry'[g]) = DataIn(store, dentry[g])
      BY <1>1, <3>1, <3>2, DataFrame
    <3>4. Data(dentry[g])' = Data(dentry[g])
      BY <3>3, DataOfStore
    <3> QED
      BY <1>1, <2>1, <2>2, <3>4 DEF SavAt, AsRecord
  <2>3. CASE g \notin Saved
    BY <2>1, <2>3 DEF SavAt, NoRecord
  <2> QED
    BY <2>2, <2>3
<1> QED
  BY <1>1, <1>5, <1>6, Stutters DEF SameCat, SameSaved

LEMMA CloseImplements ==
  ASSUME DirectoryInv, EndClose
  PROVE  CatalogStep
<1>1. /\ flush.at # -1 /\ flush.at = header.nbd /\ st' = "closed" /\ npages' = 0
      /\ dheader' = (IF header.rwflg # RDMODE THEN [header EXCEPT !.rwflg = 0] ELSE dheader)
      /\ UNCHANGED <<dpage, dentry, store>>
  BY DEF EndClose, ResetMemory
<1>2. st = "open" /\ header \in HeaderSet
  BY <1>1 DEF DirectoryInv, NotOpenInv, NoFlush, TypeInv, TypeOK
<1>3. /\ dheader.nbd = header.nbd
      /\ \A h \in Handle : (h \in Saved <=> Live(h)) /\ (Live(h) => dentry[h] = entry[h])
  BY <1>1, AllSaved
<1>4. \A h \in Handle : SavAt(h) = CatAt(h)
  BY <1>3 DEF SavAt, CatAt
<1>5. dheader'.nbd = dheader.nbd
  BY <1>1, <1>2, <1>3 DEF HeaderSet
<1>6. SameSaved /\ \A h \in Handle : CatAt(h)' = NoRecord
  BY <1>1, <1>5, SavedFrame, NothingOpen
<1> QED
  BY <1>1, <1>2, <1>4, <1>6, AsClose

LEMMA FlushImplements ==
  ASSUME NeverClosesRefused, DirectoryInv, Flush
  PROVE  CatalogStep
<1>1. ASSUME NEW c \in BOOLEAN, FlushHeader(c) PROVE CatalogStep
  <2>1. st = "open"
    BY <1>1 DEF FlushHeader, NeverClosesRefused
  <2> QED
    BY <1>1, <2>1, FlushHeaderImplements
<1>2. CASE FlushPage
  BY <1>2, WriteImplements, PassImplements
<1>3. CASE EndCheckpoint
  BY <1>3, PassImplements
<1>4. CASE EndClose
  BY <1>4, CloseImplements
<1>5. CASE FlushRecord
  BY <1>5, EraseImplements
<1> QED
  BY <1>1, <1>2, <1>3, <1>4, <1>5 DEF Flush

-----------------------------------------------------------------------------
(* Every step.                                                             *)

LEMMA PutImplements ==
  ASSUME DirectoryInv, DirectoryInv', Put
  PROVE  CatalogStep
<1>1. ASSUME NEW k \in Keys, NEW l \in Lens, NEW v \in Values, Append(k, l, v)
      PROVE  CatalogStep
  BY <1>1, AppendImplements
<1>2. ASSUME NEW h \in Handle, NEW k \in Keys, NEW l \in Lens, NEW v \in Values,
             NEW toend \in BOOLEAN, Rewrite(h, k, l, v, toend)
      PROVE  CatalogStep
  <2>1. /\ ForWriting /\ Live(h) /\ UNCHANGED <<st, flush, dheader>>
        /\ PutAtEnd(h, k, l, v) \/ RewriteInPlace(h, k, v)
    BY <1>2 DEF Rewrite, Writable, Ready, ForWriting
  <2> QED
    BY <2>1, ToEndImplements, InPlaceImplements
<1>3. ASSUME NEW h, RewriteRejected(h) \/ DirFull(h) PROVE CatalogStep
  BY <1>3, RejectedImplements
<1> QED
  BY <1>1, <1>2, <1>3 DEF Put

LEMMA StepImplements ==
  ASSUME NeverClosesRefused
  PROVE  DirectoryInv /\ DirectoryInv' /\ [Next]_vars => [Catalog!Next]_(Catalog!vars)
<1> SUFFICES ASSUME DirectoryInv, DirectoryInv', [Next]_vars PROVE CatalogStep
  BY DEF CatalogStep
<1>1. CASE Create
  BY <1>1, CreateImplements
<1>2. ASSUME NEW m \in Modes, OpenFile(m) \/ OpenRefused(m) PROVE CatalogStep
  BY <1>2, OpenImplements, RefusedImplements
<1>3. CASE Put
  BY <1>3, PutImplements
<1>4. ASSUME NEW h \in Handle, Delete(h) PROVE CatalogStep
  BY <1>4, DeleteImplements
<1>5. ASSUME NEW h \in Handle, NEW k \in Keys, EditDir(h, k) PROVE CatalogStep
  BY <1>5, EditImplements
<1>6. CASE Flush
  BY <1>6, FlushImplements
<1>7. CASE Crash
  BY <1>7, CrashImplements
<1>8. CASE UNCHANGED vars
  <2>1. UNCHANGED <<st, npages, page, entry, dheader, dpage, dentry, store>>
    BY <1>8 DEF vars
  <2> QED
    BY <2>1, SavedFrame, CatalogFrame, Stutters
<1> QED
  BY <1>1, <1>2, <1>3, <1>4, <1>5, <1>6, <1>7, <1>8 DEF Next

\* A random file is a catalogue: each call, each disk write of a close or of a checkpoint and
\* each crash does to the records that the application can see what one operation of the
\* catalogue does, or nothing.
THEOREM RandomImplementsCatalog ==
  ASSUME NeverClosesRefused
  PROVE  Spec => Refines
<1>1. Spec => []DirectoryInv
  BY DirectoryCorrect
<1>2. DirectoryInv /\ DirectoryInv' /\ [Next]_vars => [Catalog!Next]_(Catalog!vars)
  BY StepImplements
<1>3. Init => Catalog!Init
  BY InitImplements
<1> QED
  BY <1>1, <1>2, <1>3, PTL DEF Spec, Refines, Catalog!Spec
=============================================================================
