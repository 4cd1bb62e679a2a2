-------------------------- MODULE XdfRandom_proofs --------------------------
(***************************************************************************)
(* Theorems about XdfRandom, for every page size, number of pages, length  *)
(* of records, set of calls and bound.                                     *)
(***************************************************************************)
EXTENDS XdfRandom, TLAPS

\* What type correctness needs: an open file has a directory page, and the header counts
\* the pages in memory, so that the last page and the page after it are in Page.
PagesCounted == st = "open" => npages >= 1 /\ header.nbd = npages

TypeInv == TypeOK /\ PagesCounted

LEMMA NewHandleType ==
  ASSUME TypeInv, st = "open", PageFull => npages < MaxDirPages
  PROVE  /\ NewHandle \in Handle
         /\ Last \in Page
         /\ ~Used(NewHandle)
         /\ WriteAddr \in Nat \ {0}
<1>1. Last \in Page /\ npages \in Nat
  BY SizesAssumption DEF TypeInv, TypeOK, PagesCounted, Last, Page
<1>2. page[Last] \in PageSet /\ header \in HeaderSet
  BY <1>1 DEF TypeInv, TypeOK
<1>3. page[Last].nent \in 0 .. EntriesPerPage /\ header.fsiz \in Nat
  BY <1>2 DEF PageSet, HeaderSet
<1>4. CASE PageFull
  <2>1. npages \in Page /\ 0 \in Rec
    BY <1>1, <1>4, SizesAssumption DEF Page, Rec
  <2>2. NewHandle = <<npages, 0>> /\ WriteAddr = header.fsiz + 1 + PageLen
    BY <1>4 DEF NewHandle, WriteAddr
  <2> QED
    BY <1>1, <1>3, <2>1, <2>2, SizesAssumption DEF Handle, Used
<1>5. CASE ~PageFull
  <2>1. page[Last].nent \in Rec
    BY <1>3, <1>5, SizesAssumption DEF PageFull, Rec
  <2>2. NewHandle = <<Last, page[Last].nent>> /\ WriteAddr = header.fsiz + 1
    BY <1>3, <1>5 DEF NewHandle, WriteAddr
  <2> QED
    BY <1>1, <1>3, <2>1, <2>2, SizesAssumption DEF Handle, Used
<1> QED
  BY <1>4, <1>5

\* The parts of c_xdfput at the end of the file keep their types.
LEMMA PutTypes ==
  ASSUME TypeInv, st = "open",
         NEW old \in Handle \cup {NoHandle}, NEW k \in Keys, NEW l \in Lens,
         old # NoHandle => header.nrwr < MaxRewrites,
         PageFull => npages < MaxDirPages,
         WriteAddr + l - 1 <= MaxAddr
  PROVE  /\ EntriesPut(old, k, l) \in [Handle -> EntrySet]
         /\ PagesPut(old) \in [Page -> PageSet]
         /\ HeaderPut(old, l) \in HeaderSet
         /\ HeaderPut(old, l).nbd = NewHandle[1] + 1
         /\ NewHandle[1] + 1 \in 1 .. MaxDirPages
         /\ header.fsiz + 1 \in Addr
<1>1. /\ NewHandle \in Handle /\ Last \in Page /\ WriteAddr \in Nat \ {0}
      /\ l \in Nat \ {0}
  BY NewHandleType, SizesAssumption
<1>2. /\ NewHandle[1] \in Page /\ NewHandle[2] \in Rec
      /\ npages \in 1 .. MaxDirPages /\ header.nbd = npages /\ header \in HeaderSet
  BY <1>1, SizesAssumption DEF Handle, TypeInv, TypeOK, PagesCounted
<1>3. WriteAddr + l - 1 \in 1 .. MaxAddr /\ WriteAddr \in 1 .. MaxAddr
  BY <1>1, SizesAssumption
<1>4. header.fsiz \in Nat /\ header.fsiz + 1 \in Addr
  BY <1>1, <1>2, <1>3, SizesAssumption DEF WriteAddr, HeaderSet, Addr
<1>5. NewHandle[1] + 1 = IF PageFull THEN npages + 1 ELSE npages
  BY <1>2 DEF NewHandle, Last
<1>6. NewHandle[1] + 1 \in 1 .. MaxDirPages
  BY <1>2, SizesAssumption DEF Page
<1>7. EntriesPut(old, k, l) \in [Handle -> EntrySet]
  <2>1. [idtyp |-> LIVE, key |-> k, addr |-> WriteAddr, lng |-> l] \in EntrySet
    BY <1>3 DEF EntrySet
  <2>2. entry \in [Handle -> EntrySet]
    BY DEF TypeInv, TypeOK
  <2>3. \A e \in EntrySet : [e EXCEPT !.idtyp = 254] \in EntrySet
    BY DEF EntrySet, DeletedIdtyps
  <2> QED
    BY <2>1, <2>2, <2>3 DEF EntriesPut
<1>8. PagesPut(old) \in [Page -> PageSet]
  <2>1. page \in [Page -> PageSet]
    BY DEF TypeInv, TypeOK
  <2>2. NewHandle[2] + 1 \in 0 .. EntriesPerPage
    BY <1>2, SizesAssumption DEF Rec
  <2>3. header.fsiz + 1 \in 0 .. MaxAddr
    BY <1>4 DEF Addr
  <2>4. \A g \in PageSet : /\ [g EXCEPT !.modified = TRUE] \in PageSet
                          /\ [g EXCEPT !.nxt_addr = header.fsiz + 1, !.modified = TRUE] \in PageSet
                          /\ g.addr \in 0 .. MaxAddr + 1 /\ g.nxt_addr \in 0 .. MaxAddr
    BY <2>3 DEF PageSet
  <2>5. \A n \in 0 .. EntriesPerPage, x \in 0 .. MaxAddr + 1, y \in 0 .. MaxAddr :
          [nent |-> n, addr |-> x, nxt_addr |-> y, modified |-> TRUE] \in PageSet
    BY DEF PageSet
  <2>6. \A p \in Page : PagesPut(old)[p] \in PageSet
    <3> TAKE p \in Page
    <3>1. page[p] \in PageSet
      BY <2>1
    <3>2. CASE p = NewHandle[1]
      <4> DEFINE x == IF PageFull THEN header.fsiz + 1 ELSE page[p].addr
                 y == IF PageFull THEN 0 ELSE page[p].nxt_addr
      <4>1. x \in 0 .. MaxAddr + 1 /\ y \in 0 .. MaxAddr
        <5>1. page[p].addr \in 0 .. MaxAddr + 1 /\ page[p].nxt_addr \in 0 .. MaxAddr
          BY <2>4, <3>1
        <5>2. header.fsiz + 1 \in 0 .. MaxAddr + 1 /\ 0 \in 0 .. MaxAddr
          BY <2>3, SizesAssumption
        <5> QED
          BY <5>1, <5>2
      <4>2. PagesPut(old)[p] = [nent |-> NewHandle[2] + 1, addr |-> x, nxt_addr |-> y,
                                modified |-> TRUE]
        BY <3>2 DEF PagesPut
      <4> QED
        BY <2>2, <2>5, <4>1, <4>2
    <3>3. CASE p # NewHandle[1]
      BY <2>4, <3>1, <3>3 DEF PagesPut
    <3> QED
      BY <3>2, <3>3
  <2> QED
    BY <2>6 DEF PagesPut
<1>9. HeaderPut(old, l) \in HeaderSet /\ HeaderPut(old, l).nbd = NewHandle[1] + 1
  <2> DEFINE H == HeaderPut(old, l)
  <2>1. /\ header.nbd \in 0 .. MaxDirPages /\ header.nxtn \in Nat /\ header.nrec \in Int
        /\ header.neff \in Nat /\ header.nrwr \in 0 .. MaxRewrites
        /\ header.rwflg \in RDMODE .. APPEND
    BY <1>2 DEF HeaderSet
  <2>4. H.nbd = NewHandle[1] + 1
    BY <1>2, <1>5 DEF HeaderPut
  <2>5. H.nbd \in 0 .. MaxDirPages /\ H.fsiz \in 0 .. MaxAddr
    BY <1>3, <1>6, <2>4 DEF HeaderPut
  <2>6. /\ H.nrec \in Int /\ H.nxtn \in Nat /\ H.neff \in Nat
        /\ H.nrwr \in 0 .. MaxRewrites /\ H.rwflg \in RDMODE .. APPEND
    BY <2>1, SizesAssumption DEF HeaderPut
  <2>7. H \in HeaderSet
    BY <2>5, <2>6 DEF HeaderPut, HeaderSet
  <2> QED
    BY <2>4, <2>7
<1> QED
  BY <1>4, <1>6, <1>7, <1>8, <1>9

-----------------------------------------------------------------------------
(* Type correctness *)

LEMMA EmptyTypes ==
  /\ EmptyEntry \in EntrySet /\ NoHeader \in HeaderSet /\ NoPos \in PosSet
  /\ NoFlush \in [at : -1 .. MaxDirPages, checkpoint : BOOLEAN]
  /\ \A a \in 0 .. MaxAddr + 1 : NewPage(a) \in PageSet
  /\ NoPage \in PageSet
<1> USE SizesAssumption
<1>1. EmptyEntry \in EntrySet /\ NoHeader \in HeaderSet
  BY DEF EmptyEntry, EntrySet, NoHeader, HeaderSet, RDMODE, APPEND
<1>2. NoPos \in PosSet /\ NoFlush \in [at : -1 .. MaxDirPages, checkpoint : BOOLEAN]
  BY DEF NoPos, PosSet, NoFlush, Rec
<1>3. \A a \in 0 .. MaxAddr + 1 : NewPage(a) \in PageSet
  BY DEF NewPage, PageSet
<1> QED
  BY <1>1, <1>2, <1>3 DEF NoPage

LEMMA InitTypes == Init => TypeInv
<1> SUFFICES ASSUME Init PROVE TypeInv
  OBVIOUS
<1> USE SizesAssumption
<1>1. /\ header \in HeaderSet /\ page \in [Page -> PageSet] /\ entry \in [Handle -> EntrySet]
      /\ pos \in PosSet /\ flush \in [at : -1 .. MaxDirPages, checkpoint : BOOLEAN]
  BY EmptyTypes DEF Init
<1>3. st = "closed" /\ npages \in 0 .. MaxDirPages /\ modified = FALSE
  BY DEF Init
<1>2. /\ dheader \in HeaderSet /\ dpage \in [Page -> PageSet]
      /\ dentry \in [Handle -> EntrySet] /\ store \in [Addr -> Values \cup {"hole", "dir"}]
  BY EmptyTypes DEF Init
<1> QED
  BY <1>1, <1>2, <1>3 DEF TypeInv, TypeOK, PagesCounted

LEMMA CreateTypes == TypeInv /\ Create => TypeInv'
<1> SUFFICES ASSUME TypeInv, Create PROVE TypeInv'
  OBVIOUS
<1> USE SizesAssumption
<1>1. 0 \in Page
  BY DEF Page
<1>2. /\ [NoHeader EXCEPT !.rwflg = CREATE, !.fsiz = HeaderLen + PageLen, !.nbd = 1] \in HeaderSet
      /\ [NoHeader EXCEPT !.fsiz = HeaderLen] \in HeaderSet
  <2>1. HeaderLen + PageLen \in 0 .. MaxAddr /\ HeaderLen \in 0 .. MaxAddr
        /\ 1 \in 0 .. MaxDirPages
    BY DEF Create
  <2>2. CREATE \in RDMODE .. APPEND
    BY DEF RDMODE, CREATE, APPEND
  <2>3. \A H \in HeaderSet, f \in 0 .. MaxAddr, w \in RDMODE .. APPEND, n \in 0 .. MaxDirPages :
          /\ [H EXCEPT !.rwflg = w] \in HeaderSet
          /\ [H EXCEPT !.fsiz = f] \in HeaderSet
          /\ [H EXCEPT !.rwflg = w, !.fsiz = f, !.nbd = n] \in HeaderSet
    BY DEF HeaderSet
  <2> QED
    BY <2>1, <2>2, <2>3, EmptyTypes
<1>3. /\ [NewPage(HeaderLen + 1) EXCEPT !.modified = TRUE] \in PageSet
      /\ NewPage(HeaderLen + 1) \in PageSet
  <2>1. NewPage(HeaderLen + 1) \in PageSet
    BY EmptyTypes DEF Create
  <2> QED
    BY <2>1 DEF PageSet
<1>4. header' \in HeaderSet /\ dheader' \in HeaderSet /\ header'.nbd = 1
  BY <1>2 DEF Create, NoHeader, EmptyHeader
<1>5. page' \in [Page -> PageSet] /\ dpage' \in [Page -> PageSet]
  BY <1>1, <1>3 DEF Create, TypeInv, TypeOK
<1>6. store' \in [Addr -> Values \cup {"hole", "dir"}]
  BY DEF Create, TypeInv, TypeOK
<1>7. npages' = 1 /\ st' = "open" /\ modified' = TRUE
      /\ UNCHANGED <<entry, pos, flush, dentry>>
  BY DEF Create
<1> QED
  BY <1>4, <1>5, <1>6, <1>7 DEF TypeInv, TypeOK, PagesCounted

LEMMA OpenTypes ==
  ASSUME TypeInv, NEW m \in Modes, OpenFile(m) \/ OpenRefused(m)
  PROVE  TypeInv'
<1> USE SizesAssumption
<1>1. /\ dheader \in HeaderSet /\ dpage \in [Page -> PageSet]
      /\ dentry \in [Handle -> EntrySet]
  BY DEF TypeInv, TypeOK
<1>2. [dheader EXCEPT !.rwflg = m] \in HeaderSet /\ [dheader EXCEPT !.rwflg = m].nbd = dheader.nbd
  BY <1>1 DEF HeaderSet, RDMODE, WMODE, RWMODE, APPEND
<1>3. CASE OpenFile(m)
  <2>1. header' \in HeaderSet /\ header'.nbd = npages' /\ npages' \in 1 .. MaxDirPages
    BY <1>1, <1>2, <1>3 DEF OpenFile, HeaderSet
  <2>2. dheader.fsiz + 1 \in 0 .. MaxAddr + 1
    BY <1>1 DEF HeaderSet
  <2>3. NoPage \in PageSet /\ NewPage(dheader.fsiz + 1) \in PageSet
    BY <2>2, EmptyTypes
  <2>4. PagesRead \in [Page -> PageSet]
    BY <1>1, <2>3 DEF PagesRead
  <2>6. EntriesRead \in [Handle -> EntrySet]
    BY <1>1, EmptyTypes DEF EntriesRead
  <2> QED
    BY <1>3, <2>1, <2>4, <2>6 DEF OpenFile, TypeInv, TypeOK, PagesCounted, disk
<1>4. CASE OpenRefused(m)
  BY <1>1, <1>2, <1>4 DEF OpenRefused, TypeInv, TypeOK, PagesCounted, disk
<1> QED
  BY <1>3, <1>4

LEMMA PutAtEndTypes ==
  ASSUME TypeInv, st = "open", UNCHANGED <<st, flush, dheader>>,
         NEW old \in Handle \cup {NoHandle}, NEW k \in Keys, NEW l \in Lens, NEW v \in Values,
         old # NoHandle => header.nrwr < MaxRewrites,
         PutAtEnd(old, k, l, v)
  PROVE  TypeInv'
<1>1. /\ PageFull => npages < MaxDirPages
      /\ WriteAddr + l - 1 <= MaxAddr
  BY DEF PutAtEnd
<1>2. /\ EntriesPut(old, k, l) \in [Handle -> EntrySet]
      /\ PagesPut(old) \in [Page -> PageSet]
      /\ HeaderPut(old, l) \in HeaderSet
      /\ HeaderPut(old, l).nbd = NewHandle[1] + 1
      /\ NewHandle[1] + 1 \in 1 .. MaxDirPages
      /\ header.fsiz + 1 \in Addr
  BY <1>1, PutTypes
<1>3. /\ entry' \in [Handle -> EntrySet] /\ page' \in [Page -> PageSet]
      /\ header' \in HeaderSet /\ header'.nbd = npages' /\ npages' \in 1 .. MaxDirPages
      /\ modified' = TRUE
  BY <1>2 DEF PutAtEnd
<1>4. store' \in [Addr -> Values \cup {"hole", "dir"}]
  BY DEF PutAtEnd, StorePut, TypeInv, TypeOK
<1>5. dpage' \in [Page -> PageSet]
  <2>1. NewPage(header.fsiz + 1) \in PageSet
    BY <1>2, EmptyTypes, SizesAssumption DEF Addr
  <2> QED
    BY <2>1 DEF PutAtEnd, TypeInv, TypeOK
<1>6. dentry' \in [Handle -> EntrySet]
  BY EmptyTypes DEF PutAtEnd, TypeInv, TypeOK
<1>7. pos' \in PosSet
  <2>1. NewHandle[1] \in Page /\ NewHandle[2] \in Rec /\ Last \in Page
    BY <1>1, NewHandleType DEF Handle
  <2>2. pos' = [pos EXCEPT !.dirpage = NewHandle[1], !.epage = NewHandle[1],
                           !.erec = NewHandle[2], !.pageno = Last]
    BY DEF PutAtEnd
  <2>3. Last \in Int /\ pos \in PosSet
    BY <2>1 DEF Page, TypeInv, TypeOK
  <2> QED
    BY <2>1, <2>2, <2>3 DEF PosSet
<1> QED
  BY <1>3, <1>4, <1>5, <1>6, <1>7 DEF TypeInv, TypeOK, PagesCounted

\* The actions that change records of the directory one field at a time.
LEMMA FieldTypes ==
  /\ \A e \in EntrySet, k \in Keys : [e EXCEPT !.key = k] \in EntrySet
  /\ \A e \in EntrySet : [e EXCEPT !.idtyp = 254] \in EntrySet
  /\ \A e \in EntrySet : [e EXCEPT !.idtyp = 255] \in EntrySet
  /\ \A g \in PageSet, b \in BOOLEAN : [g EXCEPT !.modified = b] \in PageSet
  /\ \A q \in PosSet, p \in Page, r \in Rec, n \in Page :
       /\ [q EXCEPT !.dirpage = p] \in PosSet
       /\ [q EXCEPT !.dirpage = p, !.epage = p, !.erec = r] \in PosSet
       /\ [q EXCEPT !.dirpage = n, !.pageno = n] \in PosSet
       /\ [q EXCEPT !.dirpage = n, !.pageno = n, !.epage = p, !.erec = r] \in PosSet
<1>1. \A e \in EntrySet, k \in Keys : [e EXCEPT !.key = k] \in EntrySet
  BY DEF EntrySet, DeletedIdtyps
<1>5. \A e \in EntrySet : [e EXCEPT !.idtyp = 254] \in EntrySet
  BY DEF EntrySet, DeletedIdtyps
<1>6. \A e \in EntrySet : [e EXCEPT !.idtyp = 255] \in EntrySet
  BY DEF EntrySet, DeletedIdtyps
<1>2. \A g \in PageSet, b \in BOOLEAN : [g EXCEPT !.modified = b] \in PageSet
  BY DEF PageSet
<1>3. \A q \in PosSet, p \in Page, r \in Rec :
        /\ [q EXCEPT !.dirpage = p] \in PosSet
        /\ [q EXCEPT !.epage = p] \in PosSet
        /\ [q EXCEPT !.erec = r] \in PosSet
        /\ [q EXCEPT !.dirpage = p, !.epage = p, !.erec = r] \in PosSet
  BY DEF PosSet
<1>4. \A q \in PosSet, p \in Page, r \in Rec, n \in Page :
        /\ [q EXCEPT !.dirpage = n, !.pageno = n] \in PosSet
        /\ [q EXCEPT !.dirpage = n, !.pageno = n, !.epage = p, !.erec = r] \in PosSet
  <2> TAKE q \in PosSet, p \in Page, r \in Rec, n \in Page
  <2>1. n \in Int
    BY DEF Page
  <2>2. [q EXCEPT !.dirpage = n, !.pageno = n] \in PosSet
    BY <2>1 DEF PosSet
  <2>3. [q EXCEPT !.dirpage = n, !.pageno = n, !.epage = p, !.erec = r] \in PosSet
    BY <2>1 DEF PosSet
  <2> QED
    BY <2>2, <2>3
<1> QED
  BY <1>1, <1>2, <1>3, <1>4, <1>5, <1>6

\* One field of one directory entry, or the flag of one page, is assigned.
LEMMA UpdateTypes ==
  ASSUME TypeInv, NEW h \in Handle, NEW p \in Page, NEW k \in Keys
  PROVE  /\ [entry EXCEPT ![h].key = k] \in [Handle -> EntrySet]
         /\ [entry EXCEPT ![h].idtyp = 254] \in [Handle -> EntrySet]
         /\ [page EXCEPT ![p].modified = TRUE] \in [Page -> PageSet]
         /\ [page EXCEPT ![p].modified = FALSE] \in [Page -> PageSet]
<1>1. entry \in [Handle -> EntrySet] /\ page \in [Page -> PageSet]
  BY DEF TypeInv, TypeOK
<1>2. \A e \in EntrySet : [entry EXCEPT ![h] = e] \in [Handle -> EntrySet]
  BY <1>1
<1>3. \A g \in PageSet : [page EXCEPT ![p] = g] \in [Page -> PageSet]
  BY <1>1
<1>4. [entry[h] EXCEPT !.key = k] \in EntrySet /\ [entry[h] EXCEPT !.idtyp = 254] \in EntrySet
  <2>1. entry[h] \in EntrySet
    BY <1>1
  <2>2. [entry[h] EXCEPT !.idtyp = 254] \in EntrySet
    BY <2>1 DEF EntrySet, DeletedIdtyps
  <2>3. [entry[h] EXCEPT !.key = k] \in EntrySet
    BY <2>1 DEF EntrySet, DeletedIdtyps
  <2> QED
    BY <2>2, <2>3
<1>5. /\ [page[p] EXCEPT !.modified = TRUE] \in PageSet
      /\ [page[p] EXCEPT !.modified = FALSE] \in PageSet
  BY <1>1, FieldTypes
<1>6. /\ [entry EXCEPT ![h].key = k] \in [Handle -> EntrySet]
      /\ [entry EXCEPT ![h].idtyp = 254] \in [Handle -> EntrySet]
  BY <1>2, <1>4
<1>7. /\ [page EXCEPT ![p].modified = TRUE] \in [Page -> PageSet]
      /\ [page EXCEPT ![p].modified = FALSE] \in [Page -> PageSet]
  BY <1>3, <1>5
<1> QED
  BY <1>6, <1>7

\* init_file leaves an entry of the file table that has its type.
LEMMA ResetTypes ==
  ASSUME ResetMemory, st' = "closed", TypeInv, dheader' \in HeaderSet,
         UNCHANGED <<dpage, dentry, store>>
  PROVE  TypeInv'
<1>1. header' \in HeaderSet /\ pos' \in PosSet
  BY EmptyTypes DEF ResetMemory
<1>2. flush' \in [at : -1 .. MaxDirPages, checkpoint : BOOLEAN]
  BY EmptyTypes DEF ResetMemory
<1>3. page' \in [Page -> PageSet] /\ entry' \in [Handle -> EntrySet]
  BY EmptyTypes DEF ResetMemory
<1>4. npages' \in 0 .. MaxDirPages /\ modified' = FALSE
  BY SizesAssumption DEF ResetMemory
<1> QED
  BY <1>1, <1>2, <1>3, <1>4 DEF TypeInv, TypeOK, PagesCounted

LEMMA RewriteInPlaceTypes ==
  ASSUME TypeInv, st = "open", UNCHANGED <<st, flush, dheader>>, header.nrwr < MaxRewrites,
         NEW h \in Handle, NEW k \in Keys, NEW v \in Values,
         RewriteInPlace(h, k, v)
  PROVE  TypeInv'
<1>1. h[1] \in Page /\ h[2] \in Rec
  BY DEF Handle
<1>2. entry' \in [Handle -> EntrySet] /\ page' \in [Page -> PageSet] /\ pos' \in PosSet
  <2>1. entry' \in [Handle -> EntrySet] /\ page' \in [Page -> PageSet]
    BY <1>1, UpdateTypes DEF RewriteInPlace, Touched
  <2>2. pos' = [pos EXCEPT !.dirpage = h[1], !.epage = h[1], !.erec = h[2]] /\ pos \in PosSet
    BY DEF RewriteInPlace, TypeInv, TypeOK
  <2> QED
    BY <1>1, <2>1, <2>2, FieldTypes
<1>3. header' \in HeaderSet /\ header'.nbd = header.nbd
  <2>1. header \in HeaderSet /\ header' = [header EXCEPT !.neff = @ + 1, !.nrwr = @ + 1]
    BY DEF RewriteInPlace, TypeInv, TypeOK
  <2>2. header.neff + 1 \in Nat /\ header.nrwr + 1 \in 0 .. MaxRewrites
    BY <2>1, SizesAssumption DEF HeaderSet
  <2>3. \A x \in Nat, y \in 0 .. MaxRewrites : [header EXCEPT !.neff = x, !.nrwr = y] \in HeaderSet
    BY <2>1 DEF HeaderSet
  <2> QED
    BY <2>1, <2>2, <2>3 DEF HeaderSet
<1>4. store' \in [Addr -> Values \cup {"hole", "dir"}]
  BY DEF RewriteInPlace, TypeInv, TypeOK
<1>5. modified' = TRUE /\ UNCHANGED <<npages, dpage, dentry>>
  BY DEF RewriteInPlace
<1> QED
  BY <1>2, <1>3, <1>4, <1>5 DEF TypeInv, TypeOK, PagesCounted

LEMMA AppendTypes ==
  ASSUME TypeInv, NEW k \in Keys, NEW l \in Lens, NEW v \in Values, Append(k, l, v)
  PROVE  TypeInv'
BY PutAtEndTypes DEF Append, Writable, Ready

LEMMA RewriteTypes ==
  ASSUME TypeInv, NEW h \in Handle, NEW k \in Keys, NEW l \in Lens, NEW v \in Values,
         NEW toend \in BOOLEAN, Rewrite(h, k, l, v, toend)
  PROVE  TypeInv'
<1>1. st = "open" /\ header.nrwr < MaxRewrites /\ UNCHANGED <<st, flush, dheader>>
  BY DEF Rewrite, Writable, Ready
<1>2. CASE PutAtEnd(h, k, l, v)
  BY <1>1, <1>2, PutAtEndTypes
<1>3. CASE RewriteInPlace(h, k, v)
  BY <1>1, <1>3, RewriteInPlaceTypes
<1> QED
  BY <1>2, <1>3 DEF Rewrite

LEMMA RefusedPutTypes ==
  ASSUME TypeInv, NEW h \in Handle \cup {NoHandle},
         (h \in Handle /\ RewriteRejected(h)) \/ DirFull(h)
  PROVE  TypeInv'
<1>1. CASE h \in Handle /\ RewriteRejected(h)
  <2>1. h[1] \in Page /\ h[2] \in Rec
    BY <1>1 DEF Handle
  <2>2. pos' \in PosSet
    BY <1>1, <2>1, FieldTypes DEF RewriteRejected, TypeInv, TypeOK
  <2>3. UNCHANGED <<st, header, npages, page, entry, modified, flush, dheader, dpage, dentry, store>>
    BY <1>1 DEF RewriteRejected, disk
  <2> QED
    BY <2>2, <2>3 DEF TypeInv, TypeOK, PagesCounted
<1>2. CASE DirFull(h)
  <2>1. Last \in Page
    BY <1>2, SizesAssumption
    DEF DirFull, Writable, Ready, TypeInv, TypeOK, PagesCounted, Last, Page
  <2>2. pos' \in PosSet
    <3>a. pos \in PosSet
      BY DEF TypeInv, TypeOK
    <3>1. CASE h = NoHandle
      <4>1. pos' = [pos EXCEPT !.dirpage = Last, !.pageno = Last]
        BY <1>2, <3>1 DEF DirFull
      <4>2. 0 \in Rec
        BY SizesAssumption DEF Rec
      <4> QED
        BY <2>1, <3>a, <4>1, <4>2, FieldTypes
    <3>2. CASE h # NoHandle
      <4>1. h[1] \in Page /\ h[2] \in Rec
        BY <3>2 DEF Handle
      <4>2. pos' = [pos EXCEPT !.dirpage = Last, !.pageno = Last, !.epage = h[1], !.erec = h[2]]
        BY <1>2, <3>2 DEF DirFull
      <4> QED
        BY <2>1, <3>a, <4>1, <4>2, FieldTypes
    <3> QED
      BY <3>1, <3>2
  <2>3. page' \in [Page -> PageSet]
    <3>1. page \in [Page -> PageSet] /\ [page[Last] EXCEPT !.modified = TRUE] \in PageSet
      BY <2>1, FieldTypes DEF TypeInv, TypeOK
    <3>2. page' = [page EXCEPT ![Last].modified = TRUE]
      BY <1>2 DEF DirFull, Touched
    <3> QED
      BY <2>1, <3>1, <3>2
  <2>4. UNCHANGED <<st, header, npages, entry, modified, flush, dheader, dpage, dentry, store>>
    BY <1>2 DEF DirFull, disk
  <2> QED
    BY <2>2, <2>3, <2>4 DEF TypeInv, TypeOK, PagesCounted
<1> QED
  BY <1>1, <1>2

LEMMA DeleteTypes ==
  ASSUME TypeInv, NEW h \in Handle, Delete(h)
  PROVE  TypeInv'
<1>1. h[1] \in Page
  BY DEF Handle
<1>2. entry' \in [Handle -> EntrySet] /\ page' \in [Page -> PageSet]
  <2>1. /\ entry' = [entry EXCEPT ![h].idtyp = 254]
        /\ page' = [page EXCEPT ![h[1]].modified = TRUE]
    BY DEF Delete, Touched
  <2>2. entry \in [Handle -> EntrySet]
    BY DEF TypeInv, TypeOK
  <2>6. entry[h] \in EntrySet
    BY <2>2
  <2>7. [entry[h] EXCEPT !.idtyp = 254] \in EntrySet
    BY <2>6 DEF EntrySet, DeletedIdtyps
  <2>3. page \in [Page -> PageSet] /\ [page[h[1]] EXCEPT !.modified = TRUE] \in PageSet
    BY <1>1, FieldTypes DEF TypeInv, TypeOK
  <2>4. entry' \in [Handle -> EntrySet]
    BY <2>1, <2>2, <2>7
  <2>5. page' \in [Page -> PageSet]
    BY <1>1, <2>1, <2>3
  <2> QED
    BY <2>4, <2>5
<1>3. header' \in HeaderSet /\ header'.nbd = header.nbd
  <2>1. header \in HeaderSet /\ header' = [header EXCEPT !.neff = @ + 1, !.nrec = @ - 1]
    BY DEF Delete, TypeInv, TypeOK
  <2>2. header.neff + 1 \in Nat /\ header.nrec - 1 \in Int
    BY <2>1 DEF HeaderSet
  <2>3. \A x \in Nat, y \in Int : [header EXCEPT !.neff = x, !.nrec = y] \in HeaderSet
    BY <2>1 DEF HeaderSet
  <2> QED
    BY <2>1, <2>2, <2>3 DEF HeaderSet
<1>4. modified' = TRUE /\ UNCHANGED <<st, npages, pos, flush, dheader, dpage, dentry, store>>
  BY DEF Delete, disk
<1> QED
  BY <1>2, <1>3, <1>4 DEF TypeInv, TypeOK, PagesCounted

LEMMA EditTypes ==
  ASSUME TypeInv, NEW h \in Handle, NEW k \in Keys, EditDir(h, k)
  PROVE  TypeInv'
<1>1. h[1] \in Page
  BY DEF Handle
<1>2. entry' \in [Handle -> EntrySet] /\ page' \in [Page -> PageSet]
  BY <1>1, UpdateTypes DEF EditDir, Touched
<1>3. modified' = TRUE
      /\ UNCHANGED <<st, header, npages, pos, flush, dheader, dpage, dentry, store>>
  BY DEF EditDir, disk
<1> QED
  BY <1>2, <1>3 DEF TypeInv, TypeOK, PagesCounted

LEMMA FlushTypes == TypeInv /\ Flush => TypeInv'
<1> SUFFICES ASSUME TypeInv, Flush PROVE TypeInv'
  OBVIOUS
<1>a. header \in HeaderSet /\ header.nbd \in 0 .. MaxDirPages
      /\ flush \in [at : -1 .. MaxDirPages, checkpoint : BOOLEAN]
  BY DEF TypeInv, TypeOK, HeaderSet
<1>1. ASSUME NEW c \in BOOLEAN, FlushHeader(c) PROVE TypeInv'
  <2>3. dheader' \in HeaderSet
    BY <1>a, <1>1 DEF FlushHeader, HeaderFlushed, TypeInv, TypeOK
  <2>4. \A n \in 0 .. MaxDirPages : [at |-> n, checkpoint |-> c] \in
            [at : -1 .. MaxDirPages, checkpoint : BOOLEAN]
    BY <1>1, SizesAssumption
  <2>5. (IF modified THEN 0 ELSE header.nbd) \in 0 .. MaxDirPages
    BY <1>a, SizesAssumption
  <2>6. flush' = [at |-> IF modified THEN 0 ELSE header.nbd, checkpoint |-> c]
    BY <1>1 DEF FlushHeader
  <2>1. flush' \in [at : -1 .. MaxDirPages, checkpoint : BOOLEAN] /\ dheader' \in HeaderSet
    BY <2>3, <2>4, <2>5, <2>6
  <2>2. UNCHANGED <<st, header, npages, page, entry, modified, pos, dpage, dentry, store>>
    BY <1>1 DEF FlushHeader
  <2> QED
    BY <2>1, <2>2 DEF TypeInv, TypeOK, PagesCounted
<1>5. CASE FlushRecord
  <2>1. entry \in [Handle -> EntrySet] /\ store \in [Addr -> Values \cup {"hole", "dir"}]
    BY DEF TypeInv, TypeOK
  <2>2. \A e \in EntrySet : [e EXCEPT !.idtyp = 255] \in EntrySet
    BY FieldTypes
  <2>3. PICK h \in Handle : /\ entry' = [entry EXCEPT ![h].idtyp = 255]
                            /\ store' = [store EXCEPT ![entry[h].addr] = "hole"]
    BY <1>5 DEF FlushRecord, Gone
  <2>4. entry' \in [Handle -> EntrySet]
    <3>1. entry' = [entry EXCEPT ![h] = [entry[h] EXCEPT !.idtyp = 255]]
      BY <2>3
    <3>2. [entry[h] EXCEPT !.idtyp = 255] \in EntrySet
      BY <2>1, <2>2
    <3> QED
      BY <2>1, <3>1, <3>2
  <2>5. store' \in [Addr -> Values \cup {"hole", "dir"}]
    BY <2>1, <2>3
  <2>6. UNCHANGED <<st, header, npages, page, modified, pos, flush, dheader, dpage, dentry>>
    BY <1>5 DEF FlushRecord
  <2> QED
    BY <2>4, <2>5, <2>6 DEF TypeInv, TypeOK, PagesCounted
<1>2. CASE FlushPage
  <2>1. flush.at \in Page
    BY <1>a, <1>2, SizesAssumption DEF FlushPage, InPage, Page
  <2>2. flush' \in [at : -1 .. MaxDirPages, checkpoint : BOOLEAN]
    <3>1. flush.at + 1 \in -1 .. MaxDirPages
      BY <1>a, <2>1, SizesAssumption DEF Page
    <3>2. flush' = [flush EXCEPT !.at = flush.at + 1]
      BY <1>2 DEF FlushPage
    <3> QED
      BY <1>a, <3>1, <3>2
  <2>a. /\ entry \in [Handle -> EntrySet] /\ dentry \in [Handle -> EntrySet]
        /\ page \in [Page -> PageSet] /\ dpage \in [Page -> PageSet]
    BY DEF TypeInv, TypeOK
  <2>b. [page[flush.at] EXCEPT !.modified = FALSE] \in PageSet
    BY <2>1, <2>a, FieldTypes
  <2>4. /\ dentry' \in [Handle -> EntrySet]
        /\ page' \in [Page -> PageSet] /\ dpage' \in [Page -> PageSet]
    <3>1. CASE page[flush.at].modified
      <4>1. WritePage(flush.at)
        BY <1>2, <3>1 DEF FlushPage
      <4>2. dentry' \in [Handle -> EntrySet]
        BY <2>a, <4>1 DEF WritePage
      <4>3. dpage' \in [Page -> PageSet]
        BY <2>1, <2>a, <2>b, <4>1 DEF WritePage
      <4>4. page' \in [Page -> PageSet]
        BY <2>1, <2>a, <2>b, <4>1 DEF WritePage
      <4> QED
        BY <4>2, <4>3, <4>4
    <3>2. CASE ~page[flush.at].modified
      BY <1>2, <2>a, <3>2 DEF FlushPage
    <3> QED
      BY <3>1, <3>2
  <2>5. store' \in [Addr -> Values \cup {"hole", "dir"}]
    BY <1>2 DEF FlushPage, WritePage, StoreFlushed, TypeInv, TypeOK
  <2>6. UNCHANGED <<st, header, npages, entry, modified, pos, dheader>>
    BY <1>2 DEF FlushPage
  <2> QED
    BY <2>2, <2>4, <2>5, <2>6 DEF TypeInv, TypeOK, PagesCounted
<1>3. CASE EndCheckpoint
  BY <1>3, EmptyTypes DEF EndCheckpoint, disk, TypeInv, TypeOK, PagesCounted
<1>4. CASE EndClose
  <2>1. dheader' \in HeaderSet
    BY <1>a, <1>4 DEF EndClose, HeaderSet, RDMODE, APPEND, TypeInv, TypeOK
  <2> QED
    BY <1>4, <2>1, ResetTypes DEF EndClose
<1> QED
  BY <1>1, <1>2, <1>3, <1>4, <1>5 DEF Flush

LEMMA TypeStep == TypeInv /\ [Next]_vars => TypeInv'
<1> SUFFICES ASSUME TypeInv, [Next]_vars PROVE TypeInv'
  OBVIOUS
<1>1. CASE Create
  BY <1>1, CreateTypes
<1>2. ASSUME NEW m \in Modes, OpenFile(m) \/ OpenRefused(m) PROVE TypeInv'
  BY <1>2, OpenTypes
<1>3. CASE Put
  BY <1>3, AppendTypes, RewriteTypes, RefusedPutTypes DEF Put
<1>4. ASSUME NEW h \in Handle, Delete(h) PROVE TypeInv'
  BY <1>4, DeleteTypes
<1>5. ASSUME NEW h \in Handle, NEW k \in Keys, EditDir(h, k) PROVE TypeInv'
  BY <1>5, EditTypes
<1>6. CASE Flush
  BY <1>6, FlushTypes
<1>7. CASE Crash
  BY <1>7, ResetTypes DEF Crash, disk, TypeInv, TypeOK
<1>8. CASE UNCHANGED vars
  BY <1>8 DEF vars, TypeInv, TypeOK, PagesCounted
<1> QED
  BY <1>1, <1>2, <1>3, <1>4, <1>5, <1>6, <1>7, <1>8 DEF Next

\* Every variable of XdfRandom keeps its type; in particular no call of c_xdfput, c_xdfopn
\* or c_xdfcls goes past the directory pages or the entries of a page.
THEOREM TypeCorrect == Spec => []TypeOK
<1>1. TypeInv => TypeOK
  BY DEF TypeInv
<1> QED
  BY <1>1, InitTypes, TypeStep, PTL DEF Spec

-----------------------------------------------------------------------------
(* Handles *)

\* What HandleIsStable says of one step of an open file.
HandlesKept ==
  st = "open" /\ st' = "open" =>
    \A h \in Handle : Used(h) =>
      /\ Used(h)'
      /\ entry'[h].addr = entry[h].addr /\ entry'[h].lng = entry[h].lng
      /\ ~Live(h) => ~Live(h)'

\* A step that keeps the number of pages and of entries keeps every used handle used; one
\* that, in each used entry, leaves the place, the length and a deletion alone keeps it.
LEMMA KeptByFrame ==
  ASSUME TypeInv, npages' = npages,
         \A p \in Page : page'[p].nent = page[p].nent,
         \A h \in Handle : /\ entry'[h].addr = entry[h].addr
                           /\ entry'[h].lng = entry[h].lng
                           /\ entry'[h].idtyp = LIVE => entry[h].idtyp = LIVE
  PROVE  HandlesKept
<1>1. \A h \in Handle : h[1] \in Page
  BY DEF Handle
<1>2. \A h \in Handle : Used(h)' <=> Used(h)
  BY <1>1 DEF Used
<1> QED
  BY <1>2 DEF HandlesKept, Live

LEMMA PutAtEndKeeps ==
  ASSUME TypeInv, st = "open",
         NEW old \in Handle \cup {NoHandle}, NEW k \in Keys, NEW l \in Lens, NEW v \in Values,
         PutAtEnd(old, k, l, v)
  PROVE  HandlesKept
<1> SUFFICES ASSUME NEW h \in Handle, Used(h)
             PROVE  /\ Used(h)'
                    /\ entry'[h].addr = entry[h].addr /\ entry'[h].lng = entry[h].lng
                    /\ ~Live(h) => ~Live(h)'
  BY DEF HandlesKept
<1>1. PageFull => npages < MaxDirPages
  BY DEF PutAtEnd
<1>2. ~Used(NewHandle) /\ Last \in Page /\ NewHandle \in Handle
  BY <1>1, NewHandleType
<1>3. h # NewHandle
  BY <1>2
<1>4. entry \in [Handle -> EntrySet] /\ page \in [Page -> PageSet] /\ npages \in 0 .. MaxDirPages
  BY DEF TypeInv, TypeOK
<1>5. entry'[h] = IF h = old THEN [entry[h] EXCEPT !.idtyp = 254] ELSE entry[h]
  BY <1>3 DEF PutAtEnd, EntriesPut
<1>6. entry[h] \in EntrySet
  BY <1>4
<1>7. /\ entry'[h].addr = entry[h].addr /\ entry'[h].lng = entry[h].lng
      /\ entry'[h].idtyp = LIVE => entry[h].idtyp = LIVE
  <2>1. CASE h = old
    <3>1. entry'[h] = [entry[h] EXCEPT !.idtyp = 254]
      BY <1>5, <2>1
    <3> QED
      BY <1>6, <3>1 DEF EntrySet, LIVE
  <2>2. CASE h # old
    BY <1>5, <2>2
  <2> QED
    BY <2>1, <2>2
<1>8. h[1] \in Page /\ h[2] \in Rec /\ h[1] < npages /\ h[2] < page[h[1]].nent
  BY DEF Handle, Used
<1>9. npages' = NewHandle[1] + 1 /\ NewHandle[1] + 1 >= npages
  <2>1. NewHandle[1] = IF PageFull THEN npages ELSE Last
    BY DEF NewHandle
  <2> QED
    BY <1>4, <2>1, SizesAssumption DEF PutAtEnd, Last
<1>10. h[2] < page'[h[1]].nent
  <2>1. page'[h[1]] = PagesPut(old)[h[1]]
    BY DEF PutAtEnd
  <2>2. page[h[1]] \in PageSet
    BY <1>4, <1>8
  <2>3. CASE h[1] = NewHandle[1]
    <3>1. page'[h[1]].nent = NewHandle[2] + 1
      <4>1. PagesPut(old)[NewHandle[1]] =
              [nent |-> NewHandle[2] + 1,
               addr |-> IF PageFull THEN header.fsiz + 1 ELSE page[NewHandle[1]].addr,
               nxt_addr |-> IF PageFull THEN 0 ELSE page[NewHandle[1]].nxt_addr,
               modified |-> TRUE]
        BY <1>8, <2>3 DEF PagesPut
      <4> QED
        BY <2>1, <2>3, <4>1
    <3>2. ~PageFull
      BY <1>4, <1>8, <2>3 DEF NewHandle
    <3>3. NewHandle[2] = page[h[1]].nent
      BY <2>3, <3>2 DEF NewHandle
    <3>4. page[h[1]].nent \in Int
      BY <2>2 DEF PageSet
    <3> QED
      BY <1>8, <3>1, <3>3, <3>4 DEF Rec
  <2>4. CASE h[1] # NewHandle[1]
    <3>1. \/ page'[h[1]] = [page[h[1]] EXCEPT !.nxt_addr = header.fsiz + 1, !.modified = TRUE]
          \/ page'[h[1]] = [page[h[1]] EXCEPT !.modified = TRUE]
          \/ page'[h[1]] = page[h[1]]
      BY <1>8, <2>1, <2>4 DEF PagesPut
    <3>2. page'[h[1]].nent = page[h[1]].nent
      BY <2>2, <3>1 DEF PageSet
    <3> QED
      BY <1>8, <3>2
  <2> QED
    BY <2>3, <2>4
<1>11. Used(h)'
  <2>1. npages' \in Int
    BY <1>9, <1>2, SizesAssumption DEF Handle, Page
  <2> QED
    BY <1>4, <1>8, <1>9, <1>10, <2>1 DEF Used, Page
<1> QED
  BY <1>7, <1>11 DEF Live

LEMMA KeptStep == TypeInv /\ [Next]_vars => HandlesKept
<1> SUFFICES ASSUME TypeInv, [Next]_vars, st = "open", st' = "open" PROVE HandlesKept
  BY DEF HandlesKept
<1>a. entry \in [Handle -> EntrySet] /\ page \in [Page -> PageSet]
  BY DEF TypeInv, TypeOK
<1>b. \A p \in Page : page[p] \in PageSet
  BY <1>a
<1>c. \A h \in Handle : h[1] \in Page /\ entry[h] \in EntrySet
  BY <1>a DEF Handle
<1>1. ASSUME NEW k \in Keys, NEW l \in Lens, NEW v \in Values, Append(k, l, v)
      PROVE  HandlesKept
  BY <1>1, PutAtEndKeeps DEF Append
<1>2. ASSUME NEW h \in Handle, NEW k \in Keys, NEW l \in Lens, NEW v \in Values,
             NEW toend \in BOOLEAN, Rewrite(h, k, l, v, toend)
      PROVE  HandlesKept
  <2>1. CASE PutAtEnd(h, k, l, v)
    BY <2>1, PutAtEndKeeps
  <2>2. CASE RewriteInPlace(h, k, v)
    <3>1. /\ entry' = [entry EXCEPT ![h].key = k]
          /\ page' = [page EXCEPT ![h[1]].modified = TRUE]
          /\ npages' = npages
      BY <2>2 DEF RewriteInPlace, Touched
    <3>2. \A p \in Page : page'[p].nent = page[p].nent
      BY <1>a, <1>b, <3>1 DEF PageSet
    <3>3. \A g \in Handle : /\ entry'[g].addr = entry[g].addr /\ entry'[g].lng = entry[g].lng
                            /\ entry'[g].idtyp = entry[g].idtyp
      BY <1>a, <1>c, <3>1 DEF EntrySet
    <3> QED
      BY <3>1, <3>2, <3>3, KeptByFrame
  <2> QED
    BY <1>2, <2>1, <2>2 DEF Rewrite
<1>3. ASSUME NEW h \in Handle, RewriteRejected(h) PROVE HandlesKept
  BY <1>3, KeptByFrame DEF RewriteRejected
<1>4. ASSUME NEW h, DirFull(h) PROVE HandlesKept
  <2>1. page' = [page EXCEPT ![Last].modified = TRUE] /\ entry' = entry /\ npages' = npages
    BY <1>4 DEF DirFull, Touched
  <2>2. \A p \in Page : page'[p].nent = page[p].nent
    BY <1>a, <1>b, <2>1 DEF PageSet
  <2> QED
    BY <2>1, <2>2, KeptByFrame
<1>5. ASSUME NEW h \in Handle, Delete(h) PROVE HandlesKept
  <2>1. /\ entry' = [entry EXCEPT ![h].idtyp = 254]
        /\ page' = [page EXCEPT ![h[1]].modified = TRUE]
        /\ npages' = npages
    BY <1>5 DEF Delete, Touched
  <2>2. \A p \in Page : page'[p].nent = page[p].nent
    BY <1>a, <1>b, <2>1 DEF PageSet
  <2>3. \A g \in Handle : /\ entry'[g].addr = entry[g].addr /\ entry'[g].lng = entry[g].lng
                          /\ entry'[g].idtyp = LIVE => entry[g].idtyp = LIVE
    BY <1>a, <1>c, <2>1 DEF EntrySet, LIVE
  <2> QED
    BY <2>1, <2>2, <2>3, KeptByFrame
<1>6. ASSUME NEW h \in Handle, NEW k \in Keys, EditDir(h, k) PROVE HandlesKept
  <2>1. /\ entry' = [entry EXCEPT ![h].key = k]
        /\ page' = [page EXCEPT ![h[1]].modified = TRUE]
        /\ npages' = npages
    BY <1>6 DEF EditDir, Touched
  <2>2. \A p \in Page : page'[p].nent = page[p].nent
    BY <1>a, <1>b, <2>1 DEF PageSet
  <2>3. \A g \in Handle : /\ entry'[g].addr = entry[g].addr /\ entry'[g].lng = entry[g].lng
                          /\ entry'[g].idtyp = entry[g].idtyp
    BY <1>a, <1>c, <2>1 DEF EntrySet
  <2> QED
    BY <2>1, <2>2, <2>3, KeptByFrame
<1>7. CASE FlushPage
  <2>1. npages' = npages
    BY <1>7 DEF FlushPage
  <2>2. CASE page[flush.at].modified
    <3>1. entry' = entry /\ page' = [page EXCEPT ![flush.at].modified = FALSE]
      BY <1>7, <2>2 DEF FlushPage, WritePage
    <3>2. \A p \in Page : page'[p].nent = page[p].nent
      BY <1>a, <1>b, <3>1 DEF PageSet
    <3> QED
      BY <2>1, <3>1, <3>2, KeptByFrame
  <2>3. CASE ~page[flush.at].modified
    BY <1>7, <2>1, <2>3, KeptByFrame DEF FlushPage
  <2> QED
    BY <2>2, <2>3
<1>12. CASE FlushRecord
  <2>1. PICK h \in Handle : entry' = [entry EXCEPT ![h].idtyp = 255]
    BY <1>12 DEF FlushRecord, Gone
  <2>2. \A g \in Handle : /\ entry'[g].addr = entry[g].addr /\ entry'[g].lng = entry[g].lng
                          /\ entry'[g].idtyp = LIVE => entry[g].idtyp = LIVE
    BY <1>a, <1>c, <2>1 DEF EntrySet, LIVE
  <2>3. npages' = npages /\ page' = page
    BY <1>12 DEF FlushRecord
  <2> QED
    BY <2>2, <2>3, KeptByFrame
<1>8. ASSUME NEW c \in BOOLEAN, FlushHeader(c) PROVE HandlesKept
  BY <1>8, KeptByFrame DEF FlushHeader
<1>9. CASE EndCheckpoint
  BY <1>9, KeptByFrame DEF EndCheckpoint
<1>10. ~Create /\ ~EndClose /\ ~Crash /\ \A m \in Modes : ~OpenFile(m) /\ ~OpenRefused(m)
  BY DEF Create, EndClose, Crash, OpenFile, OpenRefused
<1>11. CASE UNCHANGED vars
  BY <1>11, KeptByFrame DEF vars
<1> QED
  BY <1>1, <1>2, <1>3, <1>4, <1>5, <1>6, <1>7, <1>8, <1>9, <1>10, <1>11, <1>12
  DEF Next, Put, Flush

\* While a file stays open a handle designates one record: appends, rewrites, new
\* directory pages and checkpoints never move a record that has a handle, shrink a page or
\* bring a deleted record back.
THEOREM HandlesStable == Spec => HandleIsStable
<1>1. TypeInv /\ [Next]_vars
      => [st = "open" /\ st' = "open" =>
            \A h \in Handle : Used(h) =>
              /\ Used(h)'
              /\ entry'[h].addr = entry[h].addr /\ entry'[h].lng = entry[h].lng
              /\ ~Live(h) => ~Live(h)']_vars
  BY KeptStep DEF HandlesKept
<1> QED
  BY <1>1, InitTypes, TypeStep, PTL DEF Spec, HandleIsStable
=============================================================================
