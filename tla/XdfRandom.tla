----------------------------- MODULE XdfRandom -----------------------------
(***************************************************************************)
(* One random-access XDF file (xdf98Light.c), as one process sees it: the  *)
(* file table entry in memory, the file on disk, and the calls c_xdfopn,   *)
(* c_xdfput, c_xdfdel, c_fst_edit_dir, c_fstckp and c_xdfcls.  The unit is *)
(* one that fnom connected for reading and writing.  The searches are in   *)
(* XdfSearch, which extends this module; the position where a search goes  *)
(* on is here, because the writes move it.                                 *)
(*                                                                         *)
(* A record is identified by its handle, the pair <<page, record>> of the  *)
(* directory entry that describes it.  Addresses and lengths count 64-bit  *)
(* units, from 1; the first unit of a record is a header of its own, with  *)
(* idtyp and length.  c_xdfcls is split at its disk writes, so that the    *)
(* process may die between any two of them; every other call touches only  *)
(* places on disk that the directory on disk does not name (or, for a      *)
(* rewrite in place, one extent) and is one step.                          *)
(***************************************************************************)
EXTENDS Integers, FiniteSets

CONSTANTS
  Keys,            \* primary keys of a record (name, date, levels...)
  Values,          \* what the data of a record may be
  Lens,            \* lengths of records: their header and at least a unit of data
  EntriesPerPage,  \* ENTRIES_PER_PAGE
  MaxDirPages,     \* MAX_DIR_PAGES
  HeaderLen,       \* length of the file header
  PageLen,         \* length of a directory page
  Modes,           \* the modes in which the application opens an existing file
  Calls,           \* the calls the application makes
  MaxAddr,         \* bound: the size of the disk
  MaxRewrites      \* bound: rewrites counted by one file header

\* qstdir.h: values of rwflg
RDMODE == 0
WMODE  == 1
CREATE == 2
RWMODE == 3
APPEND == 4

ASSUME SizesAssumption ==
  /\ EntriesPerPage \in Nat \ {0}
  /\ MaxDirPages \in Nat \ {0}
  /\ HeaderLen \in Nat \ {0}
  /\ PageLen \in Nat \ {0}
  /\ Lens \subseteq Nat \ {0, 1}
  /\ MaxAddr \in Nat
  /\ MaxRewrites \in Nat
  /\ Modes \subseteq {RDMODE, WMODE, RWMODE, APPEND}

ASSUME MarksAssumption ==
  /\ "hole" \notin Values /\ "dir" \notin Values
  /\ "none" \notin Keys

Page   == 0 .. MaxDirPages - 1
Rec    == 0 .. EntriesPerPage - 1
Handle == Page \X Rec
Addr   == 1 .. MaxAddr
NoHandle == <<-1, -1>>

LIVE == 1                          \* idtyp of a valid record
DeletedIdtyps == {254, 255}        \* deleted, before and after it was flushed

EmptyEntry == [idtyp |-> 0, key |-> "none", addr |-> 0, lng |-> 0]
NewPage(a) == [nent |-> 0, addr |-> a, nxt_addr |-> 0, modified |-> FALSE]
NoPage     == NewPage(0)
NoHeader   == [rwflg |-> 0, nrec |-> 0, nxtn |-> 0, nrwr |-> 0, neff |-> 0,
               fsiz |-> 0, nbd |-> 0]
NoPos      == [dirpage |-> -1, epage |-> -1, erec |-> -1, pageno |-> -1, record |-> 0]
NoFlush    == [at |-> -1, checkpoint |-> FALSE]

VARIABLES
  st,        \* "closed", "open", or "refused": in the table although the open failed
  header,    \* f->header
  npages,    \* f->npages
  page,      \* f->dir_page[]: nent, addr, nxt_addr and the modified flag
  entry,     \* the directory entries of all pages
  modified,  \* f->modified
  pos,       \* f->cur_dir_page, cur_entry (epage, erec), cur_pageno, page_record
  flush,     \* progress of c_xdfcls: the page it has come to, -1 outside the call
  dheader,   \* the header on disk; NoHeader while there is no file
  dpage,     \* the directory pages on disk
  dentry,    \* their entries
  store      \* what each 64-bit unit of the file holds: a record's data (its header goes
             \* with them), "dir", or "hole", which is also a header that was overwritten

memory == <<st, header, npages, page, entry, modified, pos, flush>>
disk   == <<dheader, dpage, dentry, store>>
vars   == <<st, header, npages, page, entry, modified, pos, flush,
            dheader, dpage, dentry, store>>

FileExists == dheader # NoHeader

Extent(a, l) == a .. a + l - 1
Used(h) == h[1] < npages /\ h[2] < page[h[1]].nent
Live(h) == Used(h) /\ entry[h].idtyp = LIVE

\* The directory once page p is marked for the next c_xdfcls.
UnmarkedMutant(p) == page                      \* mutant: the mark is forgotten
Touched(p) == [page EXCEPT ![p].modified = TRUE]

\* The file is open and no c_xdfcls is in progress.
Ready == st = "open" /\ flush.at = -1

\* c_xdfput and c_xdfdel: rwflg other than RDMODE
UncheckedMutant == Ready                       \* mutant: the mode is not tested
Writable == Ready /\ header.rwflg # RDMODE

Last == npages - 1
FullLateMutant == page[Last].nent > EntriesPerPage   \* mutant: one record too many
PageFull == page[Last].nent >= EntriesPerPage

\* The directory entry and the address that a record put at the end receives.  Mutants:
\* the entry of a deleted record is used again; the address is taken before add_dir_page.
ReuseMutant ==
  IF \E h \in Handle : Used(h) /\ entry[h].idtyp = 255
  THEN CHOOSE h \in Handle : Used(h) /\ entry[h].idtyp = 255
  ELSE <<Last, page[Last].nent>>
NewHandle == IF PageFull THEN <<npages, 0>> ELSE <<Last, page[Last].nent>>
StaleAddrMutant == header.fsiz + 1
WriteAddr == header.fsiz + 1 + (IF PageFull THEN PageLen ELSE 0)

\* What init_file leaves in the file table entry.
ResetMemory ==
  /\ header' = NoHeader
  /\ npages' = 0
  /\ page' = [p \in Page |-> NoPage]
  /\ entry' = [h \in Handle |-> EmptyEntry]
  /\ modified' = FALSE
  /\ pos' = NoPos
  /\ flush' = NoFlush

Init ==
  /\ st = "closed"
  /\ header = NoHeader
  /\ npages = 0
  /\ page = [p \in Page |-> NoPage]
  /\ entry = [h \in Handle |-> EmptyEntry]
  /\ modified = FALSE
  /\ pos = NoPos
  /\ flush = NoFlush
  /\ dheader = NoHeader
  /\ dpage = [p \in Page |-> NoPage]
  /\ dentry = [h \in Handle |-> EmptyEntry]
  /\ store = [a \in Addr |-> "hole"]

-----------------------------------------------------------------------------
(* c_xdfopn *)

\* create_new_xdf: the header of an empty file.
EmptyHeader == [NoHeader EXCEPT !.fsiz = HeaderLen]

\* CREATE: create_new_xdf writes the header without directory pages, add_dir_page
\* writes the first page; the header on disk is not written again before c_xdfcls.
Create ==
  /\ "create" \in Calls
  /\ st = "closed" /\ ~FileExists
  /\ HeaderLen + PageLen <= MaxAddr
  /\ st' = "open"
  /\ header' = [NoHeader EXCEPT !.rwflg = CREATE, !.fsiz = HeaderLen + PageLen, !.nbd = 1]
  /\ npages' = 1
  /\ page' = [page EXCEPT ![0] = [NewPage(HeaderLen + 1) EXCEPT !.modified = TRUE]]
  /\ modified' = TRUE
  /\ dheader' = EmptyHeader
  /\ dpage' = [dpage EXCEPT ![0] = NewPage(HeaderLen + 1)]
  /\ store' = [a \in Addr |-> IF a \in Extent(HeaderLen + 1, PageLen) THEN "dir" ELSE store[a]]
  /\ UNCHANGED <<entry, pos, flush, dentry>>

\* Page p is on the chain of nxt_addr that starts behind the header.  Past a page whose
\* nxt_addr is 0 the next read is at address -1 and fails: the page stays as
\* add_dir_page made it, empty, and c_xdfopn goes on.
Reached(p) == \A q \in Page : q < p => dpage[q].nxt_addr = dpage[q + 1].addr

\* Mutant: the loop over the pages ends one page early.
PagesReadMutant ==
  [p \in Page |-> IF p >= dheader.nbd - 1 THEN NoPage ELSE dpage[p]]
PagesRead ==
  [p \in Page |-> IF p >= dheader.nbd THEN NoPage
                 ELSE IF Reached(p) THEN dpage[p]
                 ELSE NewPage(dheader.fsiz + 1)]

EntriesRead ==
  [h \in Handle |-> IF h[1] < dheader.nbd /\ Reached(h[1]) THEN dentry[h] ELSE EmptyEntry]

\* The file is opened: the header, then its nbd directory pages.
OpenFile(m) ==
  /\ "open" \in Calls
  /\ st = "closed" /\ FileExists
  /\ m # RDMODE => dheader.rwflg = RDMODE
  /\ dheader.nbd # 0
  /\ st' = "open"
  /\ header' = [dheader EXCEPT !.rwflg = m]
  /\ npages' = dheader.nbd
  /\ page' = PagesRead
  /\ entry' = EntriesRead
  /\ UNCHANGED <<modified, pos, flush, disk>>

\* ERR_STILL_OPN (the flag on disk says a writer has the file) and ERR_BAD_DIR (no
\* directory page): the entry of the file table stays taken, with the header read.
OpenRefused(m) ==
  /\ "open" \in Calls
  /\ st = "closed" /\ FileExists
  /\ st' = "refused"
  /\ \/ /\ m # RDMODE /\ dheader.rwflg # RDMODE
        /\ header' = dheader
     \/ /\ m # RDMODE => dheader.rwflg = RDMODE
        /\ dheader.nbd = 0
        /\ header' = [dheader EXCEPT !.rwflg = m]
  /\ UNCHANGED <<npages, page, entry, modified, pos, flush, disk>>

-----------------------------------------------------------------------------
(* c_xdfput *)

\* The directory, the header and the file after a record went to the end of the file, into
\* a new directory entry; a full last page first gets a successor (add_dir_page).  "old" is
\* the record it replaces, if any.
EntriesPut(old, k, l) ==
  [h \in Handle |->
     IF h = NewHandle THEN [idtyp |-> LIVE, key |-> k, addr |-> WriteAddr, lng |-> l]
     ELSE IF h = old THEN [entry[h] EXCEPT !.idtyp = 254]
     ELSE entry[h]]

PagesPut(old) ==
  [p \in Page |->
     IF p = NewHandle[1]
     THEN [nent |-> NewHandle[2] + 1,
           addr |-> IF PageFull THEN header.fsiz + 1 ELSE page[p].addr,
           nxt_addr |-> IF PageFull THEN 0 ELSE page[p].nxt_addr,
           modified |-> TRUE]
     ELSE IF p = Last THEN [page[p] EXCEPT !.nxt_addr = header.fsiz + 1, !.modified = TRUE]
     ELSE IF p = old[1] THEN [page[p] EXCEPT !.modified = TRUE]
     ELSE page[p]]

HeaderPut(old, l) ==
  [rwflg |-> header.rwflg,
   nrec  |-> IF old = NoHandle THEN header.nrec + 1 ELSE header.nrec,
   nxtn  |-> header.nxtn + 1,
   nrwr  |-> IF old = NoHandle THEN header.nrwr ELSE header.nrwr + 1,
   neff  |-> IF old = NoHandle THEN header.neff ELSE header.neff + 1,
   fsiz  |-> WriteAddr + l - 1,
   nbd   |-> IF PageFull THEN header.nbd + 1 ELSE header.nbd]

StorePut(l, v) ==
  [a \in Addr |-> IF a \in Extent(WriteAddr, l) THEN v
                 ELSE IF PageFull /\ a \in Extent(header.fsiz + 1, PageLen) THEN "dir"
                 ELSE store[a]]

\* cur_pageno is set before add_dir_page and not after it.
PutAtEnd(old, k, l, v) ==
  /\ PageFull => npages < MaxDirPages
  /\ WriteAddr + l - 1 <= MaxAddr
  /\ entry' = EntriesPut(old, k, l)
  /\ page' = PagesPut(old)
  /\ npages' = NewHandle[1] + 1
  /\ header' = HeaderPut(old, l)
  /\ modified' = TRUE
  /\ pos' = [pos EXCEPT !.dirpage = NewHandle[1], !.epage = NewHandle[1],
                        !.erec = NewHandle[2], !.pageno = Last]
  /\ store' = StorePut(l, v)
  /\ dpage' = IF PageFull
              THEN [dpage EXCEPT ![npages] = NewPage(header.fsiz + 1)]
              ELSE dpage
  /\ dentry' = IF PageFull
               THEN [h \in Handle |-> IF h[1] = npages THEN EmptyEntry ELSE dentry[h]]
               ELSE dentry

\* handle = 0: a new record
Append(k, l, v) ==
  /\ "append" \in Calls
  /\ Writable
  /\ PutAtEnd(NoHandle, k, l, v)
  /\ UNCHANGED <<st, flush, dheader>>

\* The same length at the same address: the entry is deleted by c_xdfdel and filled again.
RewriteInPlace(h, k, v) ==
  /\ entry' = [entry EXCEPT ![h].key = k]
  /\ page' = Touched(h[1])
  /\ header' = [header EXCEPT !.neff = @ + 1, !.nrwr = @ + 1]
  /\ modified' = TRUE
  /\ pos' = [pos EXCEPT !.dirpage = h[1], !.epage = h[1], !.erec = h[2]]
  /\ store' = [a \in Addr |-> IF a \in Extent(entry[h].addr, entry[h].lng) THEN v ELSE store[a]]
  /\ UNCHANGED <<npages, dpage, dentry>>

\* handle # 0: rewrite record h; a negative handle asks for the end of the file, and a
\* different length forces it.
Rewrite(h, k, l, v, toend) ==
  /\ "rewrite" \in Calls
  /\ Writable /\ header.rwflg # APPEND
  /\ Live(h)
  /\ header.nrwr < MaxRewrites
  /\ \/ (toend \/ l # entry[h].lng) /\ PutAtEnd(h, k, l, v)
     \/ ~toend /\ l = entry[h].lng /\ RewriteInPlace(h, k, v)
  /\ UNCHANGED <<st, flush, dheader>>

\* ERR_DELETED and ERR_BAD_HNDL: the position has already moved.  A record number equal
\* to nent passes the test of the code and reads a directory entry that was never filled;
\* the handles of the model are those of records, and this one is not among them.
RewriteRejected(h) ==
  /\ "rewrite" \in Calls
  /\ Writable /\ header.rwflg # APPEND
  /\ h[1] < npages /\ ~Live(h) /\ h[2] # page[h[1]].nent
  /\ pos' = IF h[2] > page[h[1]].nent
            THEN [pos EXCEPT !.dirpage = h[1]]
            ELSE [pos EXCEPT !.dirpage = h[1], !.epage = h[1], !.erec = h[2]]
  /\ UNCHANGED <<st, header, npages, page, entry, modified, flush, disk>>

\* ERR_DIR_FULL, for a new record or for a rewrite of h at the end.
DirFull(h) ==
  /\ "append" \in Calls \/ h # NoHandle
  /\ "rewrite" \in Calls \/ h = NoHandle
  /\ Writable
  /\ h # NoHandle => header.rwflg # APPEND /\ Live(h)
  /\ PageFull /\ npages >= MaxDirPages
  /\ page' = Touched(Last)
  /\ pos' = IF h = NoHandle
            THEN [pos EXCEPT !.dirpage = Last, !.pageno = Last]
            ELSE [pos EXCEPT !.dirpage = Last, !.pageno = Last, !.epage = h[1], !.erec = h[2]]
  /\ UNCHANGED <<st, header, npages, entry, modified, flush, disk>>

-----------------------------------------------------------------------------
(* c_xdfdel, c_fst_edit_dir *)

Delete(h) ==
  /\ "delete" \in Calls
  /\ Writable /\ header.rwflg # APPEND
  /\ Live(h)
  /\ entry' = [entry EXCEPT ![h].idtyp = 254]
  /\ page' = Touched(h[1])
  /\ header' = [header EXCEPT !.neff = @ + 1, !.nrec = @ - 1]
  /\ modified' = TRUE
  /\ UNCHANGED <<st, npages, pos, flush, disk>>

\* The keys of a directory entry are replaced, whatever the mode of the file.
EditDir(h, k) ==
  /\ "edit" \in Calls
  /\ Ready
  /\ Used(h)
  /\ entry' = [entry EXCEPT ![h].key = k]
  /\ page' = Touched(h[1])
  /\ modified' = TRUE
  /\ UNCHANGED <<st, header, npages, pos, flush, disk>>

-----------------------------------------------------------------------------
(* c_xdfcls, and c_fstckp which calls it with xdf_checkpoint set *)

\* The first disk write is the header, with rwflg still set.
UnflaggedMutant ==                              \* mutant: with rwflg cleared
  IF header.rwflg # RDMODE THEN [header EXCEPT !.rwflg = RDMODE] ELSE dheader
HeaderFlushed == IF header.rwflg # RDMODE THEN header ELSE dheader

FlushHeader(checkpoint) ==
  /\ IF checkpoint THEN "checkpoint" \in Calls ELSE "close" \in Calls
  /\ \/ st = "open"
     \/ st = "refused" /\ "closeRefused" \in Calls /\ ~checkpoint
  /\ flush.at = -1
  /\ dheader' = HeaderFlushed
  /\ flush' = [at |-> IF modified THEN 0 ELSE header.nbd, checkpoint |-> checkpoint]
  /\ UNCHANGED <<st, header, npages, page, entry, modified, pos, dpage, dentry, store>>

\* Then each page that was modified.  First idtyp 254 becomes 255 in each of its entries, one
\* after the other, and is written over the record's own header: one write for each.
Gone(p) == {h \in Handle : h[1] = p /\ h[2] < page[p].nent /\ entry[h].idtyp = 254}
InPage  == flush.at # -1 /\ flush.at < header.nbd

FlushRecord ==
  /\ InPage /\ page[flush.at].modified
  /\ \E h \in Gone(flush.at) :
       /\ \A g \in Gone(flush.at) : h[2] <= g[2]
       /\ entry' = [entry EXCEPT ![h].idtyp = 255]
       /\ store' = [store EXCEPT ![entry[h].addr] = "hole"]
  /\ UNCHANGED <<st, header, npages, page, modified, pos, flush, dheader, dpage, dentry>>

\* Then the page itself.
StoreFlushed(p) ==
  [a \in Addr |-> IF a \in Extent(page[p].addr, PageLen) THEN "dir" ELSE store[a]]

WritePage(p) ==
  /\ Gone(p) = {}
  /\ page' = [page EXCEPT ![p].modified = FALSE]
  /\ dentry' = [h \in Handle |-> IF h[1] = p THEN entry[h] ELSE dentry[h]]
  /\ dpage' = [dpage EXCEPT ![p] = [page[p] EXCEPT !.modified = FALSE]]
  /\ store' = StoreFlushed(p)

FlushPage ==
  /\ InPage
  /\ IF page[flush.at].modified THEN WritePage(flush.at)
     ELSE UNCHANGED <<page, dentry, dpage, store>>
  /\ flush' = [flush EXCEPT !.at = @ + 1]
  /\ UNCHANGED <<st, header, npages, entry, modified, pos, dheader>>

\* A checkpoint ends here.
EndCheckpoint ==
  /\ flush.at # -1 /\ flush.at = header.nbd
  /\ flush.checkpoint
  /\ modified' = FALSE
  /\ flush' = NoFlush
  /\ UNCHANGED <<st, header, npages, page, entry, pos, disk>>

\* A close writes the header again, with rwflg cleared, and frees the entry.
EndClose ==
  /\ flush.at # -1 /\ flush.at = header.nbd
  /\ ~flush.checkpoint
  /\ dheader' = IF header.rwflg # RDMODE THEN [header EXCEPT !.rwflg = 0] ELSE dheader
  /\ st' = "closed"
  /\ ResetMemory
  /\ UNCHANGED <<dpage, dentry, store>>

\* The process dies.  What it wrote stays.
Crash ==
  /\ "crash" \in Calls
  /\ st # "closed"
  /\ st' = "closed"
  /\ ResetMemory
  /\ UNCHANGED disk

-----------------------------------------------------------------------------
Put ==
  \/ \E k \in Keys, l \in Lens, v \in Values : Append(k, l, v)
  \/ \E h \in Handle, k \in Keys, l \in Lens, v \in Values, toend \in BOOLEAN :
       Rewrite(h, k, l, v, toend)
  \/ \E h \in Handle : RewriteRejected(h)
  \/ \E h \in Handle \cup {NoHandle} : DirFull(h)

Flush ==
  \/ \E c \in BOOLEAN : FlushHeader(c)
  \/ FlushRecord
  \/ FlushPage
  \/ EndCheckpoint
  \/ EndClose

Next ==
  \/ Create
  \/ \E m \in Modes : OpenFile(m) \/ OpenRefused(m)
  \/ Put
  \/ \E h \in Handle : Delete(h)
  \/ \E h \in Handle, k \in Keys : EditDir(h, k)
  \/ Flush
  \/ Crash

Spec == Init /\ [][Next]_vars

-----------------------------------------------------------------------------
(* Properties *)

EntrySet == [idtyp : {0, LIVE} \cup DeletedIdtyps, key : Keys \cup {"none"},
             addr : 0 .. MaxAddr, lng : Lens \cup {0}]
PageSet   == [nent : 0 .. EntriesPerPage, addr : 0 .. MaxAddr + 1, nxt_addr : 0 .. MaxAddr,
              modified : BOOLEAN]
HeaderSet == [rwflg : RDMODE .. APPEND, nrec : Int, nxtn : Nat, nrwr : 0 .. MaxRewrites,
              neff : Nat, fsiz : 0 .. MaxAddr, nbd : 0 .. MaxDirPages]
PosSet    == [dirpage : Page \cup {-1}, epage : Page \cup {-1},
              erec : Rec \cup {-1, EntriesPerPage}, pageno : Int,
              record : Rec \cup {EntriesPerPage}]

\* Every variable has its type.
TypeOK ==
  /\ st \in {"closed", "open", "refused"}
  /\ header \in HeaderSet
  /\ npages \in 0 .. MaxDirPages
  /\ page \in [Page -> PageSet]
  /\ entry \in [Handle -> EntrySet]
  /\ modified \in BOOLEAN
  /\ pos \in PosSet
  /\ flush \in [at : -1 .. MaxDirPages, checkpoint : BOOLEAN]
  /\ dheader \in HeaderSet
  /\ dpage \in [Page -> PageSet]
  /\ dentry \in [Handle -> EntrySet]
  /\ store \in [Addr -> Values \cup {"hole", "dir"}]

\* A file open for writing: its header, its directory pages and its records (deleted ones
\* too) tile the file up to fsiz.  No record is ever put over a page or another record,
\* and no space is lost, through appends, rewrites, new pages, closes and crashes.
Claims(a) == {<<p, -1>> : p \in {q \in Page : q < npages /\ a \in Extent(page[q].addr, PageLen)}}
             \cup {h \in Handle : Used(h) /\ a \in Extent(entry[h].addr, entry[h].lng)}
SpaceIsTiled ==
  st = "open" /\ header.rwflg # RDMODE =>
    \A a \in Addr : /\ a \in HeaderLen + 1 .. header.fsiz <=> Claims(a) # {}
                    /\ \A x, y \in Claims(a) : x = y

\* A file open for writing: the counters that the header carries from session to session
\* agree with the directory (nrec: valid records, nxtn: records ever put at the end; each
\* rewrite erases one record), and the pages form one chain, all full but the last.
CountersAgree ==
  st = "open" /\ header.rwflg # RDMODE =>
    /\ header.nrec = Cardinality({h \in Handle : Live(h)})
    /\ header.nxtn = Cardinality({h \in Handle : Used(h)})
    /\ header.nrwr <= header.neff
    /\ header.nbd = npages
    /\ \A p \in Page : p < Last => /\ page[p].nent = EntriesPerPage
                                   /\ page[p].nxt_addr = page[p + 1].addr
    /\ page[Last].nxt_addr = 0

\* The records that an open of the file would show now, and the data they hold.
Saved == {h \in Handle : /\ h[1] < dheader.nbd /\ Reached(h[1])
                        /\ h[2] < dpage[h[1]].nent /\ dentry[h].idtyp = LIVE}

\* The data of a record are behind its header.  c_xdfget2 finds them by the directory entry
\* and does not look at the header.
Body(e) == e.addr + 1 .. e.addr + e.lng - 1
Data(e) == IF \A a \in Body(e) : store[a] = store[e.addr + 1]
           THEN store[e.addr + 1] ELSE "torn"
HeaderKept(e) == store[e.addr] \in Values

\* At every moment, also between the writes of c_xdfcls and after a crash, the directory
\* that an open would read names only pages that hold a directory and records that hold
\* whole data: what was saved is never written over by what is not saved yet.  The headers
\* of records deleted since go before the page that still names them is written; but then
\* the file has a writer's mark.
SavedIsIntact ==
  /\ \A p \in Page : p < dheader.nbd /\ Reached(p) => store[dpage[p].addr] = "dir"
  /\ \A h \in Saved : /\ Data(dentry[h]) \in Values
                       /\ dheader.rwflg = RDMODE => HeaderKept(dentry[h])

\* When a checkpoint has written its last page, the file on disk shows what the open file
\* shows.
CheckpointSaves ==
  flush.checkpoint /\ flush.at = header.nbd =>
    /\ Saved = {h \in Handle : Live(h)}
    /\ \A h \in Saved : dentry[h] = entry[h]

\* While a file stays open a handle designates one record: its place and length do not
\* change, and a deleted record does not come back.
HandleIsStable ==
  [][st = "open" /\ st' = "open" =>
       \A h \in Handle : Used(h) =>
         /\ Used(h)'
         /\ entry'[h].addr = entry[h].addr /\ entry'[h].lng = entry[h].lng
         /\ ~Live(h) => ~Live(h)']_vars

\* A process that was refused the file because its header says that a writer has it
\* (rwflg) leaves the flag as it is.
LockHolds ==
  [][st = "refused" /\ dheader.nbd # 0 => dheader'.rwflg = dheader.rwflg]_vars

\* c_xdfopn reads as many directory pages as the header counts.
PagesAllRead ==
  [][st = "closed" /\ st' = "open" /\ FileExists =>
       \A p \in Page : p < dheader.nbd => Reached(p)]_vars

\* The file implements the catalogue of XdfCatalog.
AsRecord(e) == [key |-> e.key, lng |-> e.lng, data |-> Data(e)]
NoRecord == [key |-> "none", lng |-> 0, data |-> "none"]
Catalog == INSTANCE XdfCatalog WITH
  cat   <- [h \in Handle |-> IF Live(h) THEN AsRecord(entry[h]) ELSE NoRecord],
  saved <- [h \in Handle |-> IF h \in Saved THEN AsRecord(dentry[h]) ELSE NoRecord]
Refines == Catalog!Spec

=============================================================================
