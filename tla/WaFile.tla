------------------------------- MODULE WaFile -------------------------------
(***************************************************************************)
(* Word-addressable files (c_baseio.c): the pages of memory that WA_CONFIG *)
(* puts between the calls and the disk, the direct-access calls and the    *)
(* byte streams on top of the same descriptors.                            *)
(*                                                                         *)
(* A request is cut at the multiples of WA_PAGE_SIZE (qqcwawr, qqcward);   *)
(* each piece is served from the one page that holds it, read in when it   *)
(* is not there, in a buffer of the file, or taken from any file when      *)
(* WA_PAGE_LIMIT is reached (get_new_page, scrap_page).  A page that was   *)
(* written to reaches the disk when it is scrapped or its file is closed.  *)
(*                                                                         *)
(* Requests start at odd addresses and have even lengths, as those of the  *)
(* XDF layer, which counts in units of two words, have: a piece at a       *)
(* multiple of the page size is copied from one word before its page, and  *)
(* a write that ends one word before the end of the file loses that word.  *)
(* Nothing is written further than WA_HOLE after the end of a file.  A      *)
(* write(2) is never short: it would be retried from the first word.       *)
(* Streams are files of their own.  Which slot a file has is FileTable's.  *)
(***************************************************************************)
EXTENDS Naturals, Integers, Sequences, FiniteSets, SequencesExt

CONSTANTS
    Files,       \* the slots of the open files, 1..n; the order scrap_page looks in
    MaxWords,    \* bound: the longest file, [Files -> Nat]
    Lengths,     \* bound: the lengths of the requests
    Values,      \* the words the application writes
    Junk,        \* a word nobody wrote: what a buffer or the stack happened to hold
    Settings,    \* WA_CONFIG, a sequence of numbers; and the files connected as streams
    MaxPages,    \* MAXPAGES
    MaxWaFiles,  \* MAXWAFILES
    AgeRead, AgeWrite,  \* 256 and 512
    BlkSize,     \* blkSize, the block of the direct-access calls
    Blocks,      \* bound: the blocks they name
    MaxPending,  \* bound: the entries of dastat in use at once
    WaHole       \* WA_HOLE

ASSUME WaAssumption ==
    /\ Files = 1..Cardinality(Files) /\ IsFiniteSet(Files)
    /\ MaxWords \in [Files -> Nat]
    /\ Values \subseteq Nat \ {0} /\ Junk \in Nat \ (Values \cup {0})
    /\ \A x \in Settings : /\ x.env \in Seq(Nat)
                           /\ Len(x.env) \in 2..4 => x.env[2] > 0
                           /\ x.streams \subseteq Files
    /\ {MaxPages, MaxWaFiles} \subseteq Nat \ {0}
    /\ {AgeRead, AgeWrite, WaHole, MaxPending} \subseteq Nat /\ Blocks \subseteq Nat \ {0}

\* Whole units of two words, in whole blocks; WA_CONFIG gives the size of a page in
\* units of 1024 words.
ASSUME EvenAssumption ==
    /\ \A n \in Lengths \cup {BlkSize} : n \in Nat \ {0} /\ n % 2 = 0
    /\ \A x \in Settings : Len(x.env) \in 1..4 => x.env[1] % 2 = 0

VARIABLES
    config,        \* WA_PAGE_SIZE, WA_PAGE_NB, WA_PAGE_LIMIT; the STREAM attributes
    disk,          \* external: the words each file has on disk
    file_size,     \* file_size and eff_file_size of an open file
    open_flag,
    page,          \* the pages in use of each file; its length is nb_page_in_use
    nfree,         \* the buffers in free_list
    global_count,  \* the buffers that were allocated
    dastat,        \* the direct-access units with a request to be checked
    pos,           \* external: the position of each descriptor, for streams
    answer,        \* the words the last read returned
    exited         \* the library called exit

vars == <<config, disk, file_size, open_flag, page, nfree, global_count, dastat, pos,
          answer, exited>>

\* The part of the state a piece of a request works on, and the words read so far.
State == [disk |-> disk, size |-> file_size, page |-> page, nfree |-> nfree,
          count |-> global_count, exited |-> FALSE, out |-> <<>>]

P == config.size
Addresses(f) == {a \in 1..MaxWords[f] : a % 2 = 1}
Word == Values \cup {0, Junk}

\* The numbers qqcopen reads from WA_CONFIG at the first open, size, nb and limit: nb
\* is 1 and size 0 where it says nothing.
PageConfig(x) ==
    LET given(i, otherwise) == IF Len(x.env) \in i..4 THEN x.env[i] ELSE otherwise
        nb == Min({given(2, 1), MaxPages})
        limit == given(3, 0)
    IN  [size |-> given(1, 0), nb |-> nb,
         limit |-> IF limit = 0 THEN nb * MaxWaFiles ELSE limit, streams |-> x.streams]

\* What write(2) makes of a file: it fills what it skips with zeros.
Overlay(s, a, w) ==
    [i \in 1..Max({Len(s), a + Len(w) - 1}) |->
        IF i \in a..(a + Len(w) - 1) THEN w[i - a + 1]
        ELSE IF i <= Len(s) THEN s[i] ELSE 0]
-----------------------------------------------------------------------------
decay(age) == age - (age \div 4)

\* A sequence from the start: TLC forgets what EXCEPT changes in a function it has not
\* evaluated yet when it makes a sequence of it.
Decayed(pages) ==
    SubSeq([i \in 1..Len(pages) |-> [pages[i] EXCEPT !.access_count = decay(@)]],
           1, Len(pages))

\* Every page of every file is older at each piece of a request.
process_decay(st) == [st EXCEPT !.page = [f \in Files |-> Decayed(st.page[f])]]

\* The page of one of these files that was used least, the first of them.
LeastUseful(st, files) ==
    LET all == UNION {{<<f, i>> : i \in DOMAIN st.page[f]} : f \in files}
        age(x) == st.page[x[1]][x[2]].access_count
    IN  CHOOSE x \in all : \A y \in all :
            \/ age(x) < age(y)
            \/ age(x) = age(y) /\ (x[1] < y[1] \/ (x[1] = y[1] /\ x[2] <= y[2]))

\* The page is written out if it was written to, and its buffer is free.
Scrapped(st, f, i) ==
    LET pg == st.page[f][i]
        out == [k \in 1..(pg.walast - pg.wa0 + 1) |-> pg.adr[k - 1]]
    IN  [st EXCEPT !.disk[f] = IF pg.touch_flag THEN Overlay(@, pg.wa0, out) ELSE @,
                   !.page[f] = RemoveAt(@, i),
                   !.nfree = @ + 1]

scrap_page(st, files) ==
    IF \A f \in files : st.page[f] = <<>> THEN [st EXCEPT !.exited = TRUE]
    ELSE LET x == LeastUseful(st, files) IN Scrapped(st, x[1], x[2])

wa_pages_flush(st, f) ==
    LET run[k \in 0..Len(st.page[f])] == IF k = 0 THEN st ELSE scrap_page(run[k - 1], {f})
    IN  run[Len(st.page[f])]

NewPage == [wa0 |-> 0, walast |-> 0, access_count |-> 0, touch_flag |-> FALSE,
            adr |-> [i \in 0..(P - 1) |-> Junk]]

\* get_new_page: a full file gives one of its pages up; a buffer is allocated as long as
\* the limit allows, or taken from any file.
WithRoom(st, f) == IF Len(st.page[f]) >= config.nb THEN scrap_page(st, {f}) ELSE st
Allocated(st) == IF st.nfree = 0 /\ st.count < config.limit
                 THEN [st EXCEPT !.count = @ + 1, !.nfree = 1] ELSE st
WithBuffer(st) == IF st.nfree = 0 THEN scrap_page(st, Files) ELSE st
Taken(st, f) == [st EXCEPT !.nfree = @ - 1, !.page[f] = Append(@, NewPage)]

\* The buffer is taken without leaving the free list.
BufferStaysMutant(st, f) ==
    [Allocated(WithRoom(st, f)) EXCEPT !.page[f] = Append(@, NewPage)]

get_new_page(st, f) == Taken(WithBuffer(Allocated(WithRoom(st, f))), f)

Holds(pg, a, n) == a >= pg.wa0 /\ a + n <= pg.wa0 + P

\* The page that holds the words, 0 when none does.
PageOf(st, f, a, n) ==
    LET hits == {i \in DOMAIN st.page[f] : Holds(st.page[f][i], a, n)}
    IN  IF hits = {} THEN 0 ELSE Min(hits)

\* The first word of a new page.
PageStart(a) == Max({a - (a % P) + 1, 1})

\* The words of the page that has to be there, and those read(2) finds, at most n.
\* The page is asked for in full at the end of a file that is shorter.
WholePageMutant(st, f, wa0) == P

Required(st, f, wa0) == IF P + wa0 > st.size[f] THEN st.size[f] + 1 - wa0 ELSE P
Present(st, f, wa0, n) == Max({0, Min({n, Len(st.disk[f]) + 1 - wa0})})

Filled(words, wa0, got) ==
    [k \in 0..(P - 1) |-> IF k < got THEN words[wa0 + k] ELSE 0]

\* What the last page of f becomes: one that starts at wa0, filled by read(2) when need is set.
Fill(st, f, wa0, need, got) ==
    [st EXCEPT !.page[f][Len(st.page[f])] =
        IF need THEN [@ EXCEPT !.wa0 = wa0, !.access_count = 1, !.walast = wa0 + got - 1,
                               !.adr = Filled(st.disk[f], wa0, got)]
        ELSE [@ EXCEPT !.wa0 = wa0, !.access_count = 1]]

\* A new page for the piece at a; too few words end the process.
Brought(new, f, wa0, need, most) ==
    LET got == Present(new, f, wa0, most)
    IN  IF new.exited \/ (need /\ got < Required(new, f, wa0))
        THEN [new EXCEPT !.exited = TRUE]
        ELSE Fill(new, f, wa0, need, got)

Bring(st, f, a, need, most) == Brought(get_new_page(st, f), f, PageStart(a), need, most)

\* The page of f that holds the piece.
InMemory(st, f, a, n, need, most) ==
    IF PageOf(st, f, a, n) > 0 THEN st ELSE Bring(st, f, a, need, most)

Start(pg, other) == pg.wa0 >= other.wa0 /\ pg.wa0 <= other.wa0 + P - 1

(***************************************************************************)
(* wa_page_read.  The words are added to out.  The test for overlapping    *)
(* pages compares each page with the page just read, that page included,   *)
(* as soon as there are two of them.                                       *)
(***************************************************************************)
ReadFrom(st, f, i, a, n) ==
    LET pages == st.page[f]
    IN  [st EXCEPT !.page[f][i].access_count = @ + AgeRead,
                   !.exited = \E j, k \in DOMAIN pages : j # k /\ Start(pages[j], pages[i]),
                   !.out = @ \o [k \in 1..n |-> pages[i].adr[a - pages[i].wa0 + k - 1]]]

Served(st, f, a, n) == IF st.exited THEN st ELSE ReadFrom(st, f, PageOf(st, f, a, n), a, n)

wa_page_read(st, f, a, n) ==
    Served(InMemory(process_decay(st), f, a, n, TRUE, P), f, a, n)

\* A page written to from its start is never read in.
NeedMutant(st, f, a, n) == a > PageStart(a)

\* The words have to be read in first: they neither cover the page, nor start it and
\* reach the end of the file.
NeedsRead(st, f, a, n) ==
    \/ a > PageStart(a)
    \/ a + n # PageStart(a) + P /\ a + n < st.size[f]

\* The words in their page.
Written(pg, a, w) ==
    LET last == a + Len(w) - 1
        adr == [k \in 0..(P - 1) |-> IF k + pg.wa0 \in a..last THEN w[k + pg.wa0 - a + 1]
                                     ELSE pg.adr[k]]
    IN  [pg EXCEPT !.adr = adr, !.access_count = @ + AgeWrite, !.touch_flag = TRUE,
                   !.walast = Max({@, last})]

\* wa_page_write.  A piece further than one word behind the end of the file ends the process.
WriteTo(st, f, i, a, w) ==
    LET pages == st.page[f]
    IN  [st EXCEPT !.page[f][i] = Written(pages[i], a, w),
                   !.size[f] = Max({@, a + Len(w) - 1}),
                   !.exited = \/ a > st.size[f] + 1
                              \/ \E j, k \in DOMAIN pages : j # k /\ Start(pages[j], pages[k])]

Stored(st, f, a, w) == IF st.exited THEN st
                       ELSE WriteTo(st, f, PageOf(st, f, a, Len(w)), a, w)

Page(st, f, a, n) ==
    InMemory(st, f, a, n, NeedsRead(st, f, a, n), Required(st, f, PageStart(a)))

wa_page_write(st, f, a, w) == Stored(Page(process_decay(st), f, a, Len(w)), f, a, w)
-----------------------------------------------------------------------------
\* The pieces of a request of n words at a, by page number from the start of the file.
Pieces(a, n) ==
    LET first == (a - 1) \div P
        count == (a + n - 2) \div P - first + 1
    IN  [k \in 1..count |->
            LET from == Max({a, (first + k - 1) * P + 1})
                to == Min({a + n - 1, (first + k) * P})
            IN  [from |-> from, len |-> to - from + 1]]

WritePiece(st, f, a, w, p) ==
    IF st.exited THEN st
    ELSE wa_page_write(st, f, p.from, SubSeq(w, p.from - a + 1, p.from - a + p.len))

ReadPiece(st, f, p) == IF st.exited THEN st ELSE wa_page_read(st, f, p.from, p.len)

WritePieces(st, f, a, w, pieces) ==
    LET run[k \in 0..Len(pieces)] ==
            IF k = 0 THEN st ELSE WritePiece(run[k - 1], f, a, w, pieces[k])
    IN  run[Len(pieces)]

ReadPieces(st, f, pieces) ==
    LET run[k \in 0..Len(pieces)] ==
            IF k = 0 THEN st ELSE ReadPiece(run[k - 1], f, pieces[k])
    IN  run[Len(pieces)]

qqcwawr(st, f, a, w) ==
    IF P = 0
    THEN [st EXCEPT !.disk[f] = Overlay(@, a, w), !.size[f] = Max({@, a + Len(w) - 1})]
    ELSE WritePieces(st, f, a, w, Pieces(a, Len(w)))

qqcward(st, f, a, n) ==
    IF P = 0 THEN [st EXCEPT !.out = SubSeq(st.disk[f], a, a + n - 1)]
    ELSE ReadPieces(st, f, Pieces(a, n))

\* The state after a call: nothing is left to say of it when the process has ended.
Assign(st) ==
    IF st.exited
    THEN exited' = TRUE /\ UNCHANGED <<disk, file_size, page, nfree, global_count>>
    ELSE /\ disk' = st.disk /\ file_size' = st.size /\ page' = st.page
         /\ nfree' = st.nfree /\ global_count' = st.count
         /\ UNCHANGED exited

\* c_wawrit2: a hole after the end of the file is filled from the stack, and one
\* word more, which the request then covers.
HoleFilled(f, a) ==
    IF a > file_size[f] + 1
    THEN qqcwawr(State, f, file_size[f] + 1, [i \in 1..(a - file_size[f]) |-> Junk])
    ELSE State

Request(st, f, a, w) == IF st.exited THEN st ELSE qqcwawr(st, f, a, w)

c_wawrit2(f, a, w) ==
    IF a > file_size[f] + WaHole THEN [State EXCEPT !.exited = TRUE]
    ELSE Request(HoleFilled(f, a), f, a, w)

\* c_waread2 cuts the request at the end of the file.
c_waread2(f, a, n) ==
    LET len == IF a + n - 1 > file_size[f] THEN file_size[f] + 1 - a ELSE n
    IN  IF a > file_size[f] + 2 \/ file_size[f] = 0 \/ len = 0
        THEN State
        ELSE qqcward(State, f, a, len)
-----------------------------------------------------------------------------
TypeOK ==
    /\ config.limit \in Nat \ {0} /\ config.nb \in 1..MaxPages
    /\ \A f \in Files :
        /\ \A i \in DOMAIN disk[f] : disk[f][i] \in Word
        /\ Len(page[f]) <= config.nb
        /\ \A i \in DOMAIN page[f] :
               /\ page[f][i].wa0 >= 1 /\ page[f][i].walast <= page[f][i].wa0 + P - 1
               /\ page[f][i].adr \in [0..(P - 1) -> Word]
    /\ file_size \in [Files -> Nat] /\ open_flag \in [Files -> BOOLEAN]
    /\ nfree \in 0..config.limit /\ global_count \in 0..config.limit
    /\ exited \in BOOLEAN

Init ==
    /\ config \in {PageConfig(x) : x \in Settings}
    /\ disk = [f \in Files |-> <<>>]
    /\ file_size = [f \in Files |-> 0]
    /\ open_flag = [f \in Files |-> FALSE]
    /\ page = [f \in Files |-> <<>>]
    /\ nfree = 0 /\ global_count = 0
    /\ dastat = <<>>
    /\ pos = [f \in Files |-> 0]
    /\ answer = <<>>
    /\ exited = FALSE

\* qqcopen, once the slot is taken
Open(f) ==
    /\ ~open_flag[f]
    /\ open_flag' = [open_flag EXCEPT ![f] = TRUE]
    /\ file_size' = [file_size EXCEPT ![f] = Len(disk[f])]
    /\ page' = [page EXCEPT ![f] = <<>>]
    /\ pos' = [pos EXCEPT ![f] = 0]
    /\ UNCHANGED <<config, disk, nfree, global_count, dastat, answer, exited>>

\* qqcclos writes the pages out.
Close(f) ==
    /\ open_flag[f]
    /\ open_flag' = [open_flag EXCEPT ![f] = FALSE]
    /\ Assign([wa_pages_flush(State, f) EXCEPT !.size[f] = IF P = 0 THEN @ ELSE 0])
    /\ pos' = [pos EXCEPT ![f] = 0]
    /\ UNCHANGED <<config, dastat, answer>>

Write(f, a, n, v) ==
    /\ open_flag[f] /\ f \notin config.streams /\ a + n - 1 <= MaxWords[f]
    /\ a <= file_size[f] + WaHole
    /\ Assign(c_wawrit2(f, a, [i \in 1..n |-> v]))
    /\ answer' = IF exited' THEN answer ELSE <<>>
    /\ UNCHANGED <<config, open_flag, dastat, pos>>

Read(f, a, n) ==
    /\ open_flag[f] /\ f \notin config.streams
    /\ LET st == c_waread2(f, a, n)
       IN  Assign(st) /\ answer' = IF st.exited THEN answer ELSE st.out
    /\ UNCHANGED <<config, open_flag, dastat, pos>>
-----------------------------------------------------------------------------
\* The table has room (a full one is read and written one entry past its end).
Pending(f) == \E i \in DOMAIN dastat : dastat[i] = f

\* The first word of a block.
BlockStart(b) == (b - 1) * BlkSize + 1

\* c_writda: a block is written, and the unit is busy until it is checked.
Writda(f, b, v) ==
    LET a == BlockStart(b)
    IN  /\ open_flag[f] /\ f \notin config.streams /\ a + BlkSize - 1 <= MaxWords[f]
        /\ a <= file_size[f] + WaHole
        /\ ~Pending(f) /\ Len(dastat) < MaxPending /\ dastat' = Append(dastat, f)
        /\ Assign(c_wawrit2(f, a, [i \in 1..BlkSize |-> v]))
        /\ answer' = IF exited' THEN answer ELSE <<>>
        /\ UNCHANGED <<config, open_flag, pos>>

\* c_readda
Readda(f, b) ==
    LET st == c_waread2(f, BlockStart(b), BlkSize)
    IN  /\ open_flag[f] /\ f \notin config.streams
        /\ ~Pending(f) /\ Len(dastat) < MaxPending /\ dastat' = Append(dastat, f)
        /\ Assign(st) /\ answer' = IF st.exited THEN answer ELSE st.out
        /\ UNCHANGED <<config, open_flag, pos>>

\* c_checda
Checda(f) ==
    /\ Pending(f)
    /\ dastat' = SelectSeq(dastat, LAMBDA x : x # f)
    /\ UNCHANGED <<config, disk, file_size, open_flag, page, nfree, global_count, pos,
                   answer, exited>>
-----------------------------------------------------------------------------
\* c_sqputw writes at the position of the descriptor and moves it.
SqPutw(f, n, v) ==
    /\ open_flag[f] /\ f \in config.streams /\ pos[f] + n <= MaxWords[f]
    /\ disk' = [disk EXCEPT ![f] = Overlay(@, pos[f] + 1, [i \in 1..n |-> v])]
    /\ pos' = [pos EXCEPT ![f] = @ + n]
    /\ answer' = <<>>
    /\ UNCHANGED <<config, file_size, open_flag, page, nfree, global_count, dastat, exited>>

\* c_sqgetw: the end of the file is reached before n words: nothing is answered, but
\* the position has moved.
SqGetw(f, n) ==
    /\ open_flag[f] /\ f \in config.streams
    /\ pos' = [pos EXCEPT ![f] = Max({@, Min({@ + n, Len(disk[f])})})]
    /\ answer' = IF pos[f] + n <= Len(disk[f]) THEN SubSeq(disk[f], pos[f] + 1, pos[f] + n)
                 ELSE <<>>
    /\ UNCHANGED <<config, disk, file_size, open_flag, page, nfree, global_count, dastat,
                   exited>>

\* c_sqrew, c_sqeoi
SqMove(f, eoi) ==
    /\ open_flag[f] /\ f \in config.streams
    /\ pos' = [pos EXCEPT ![f] = IF eoi THEN Len(disk[f]) ELSE 0]
    /\ UNCHANGED <<config, disk, file_size, open_flag, page, nfree, global_count, dastat,
                   answer, exited>>

Next ==
    /\ ~exited
    /\ \E f \in Files :
        \/ Open(f) \/ Close(f) \/ Checda(f)
        \/ \E a \in Addresses(f), n \in Lengths :
               Read(f, a, n) \/ \E v \in Values : Write(f, a, n, v)
        \/ \E b \in Blocks : Readda(f, b) \/ \E v \in Values : Writda(f, b, v)
        \/ \E n \in Lengths : SqGetw(f, n) \/ \E v \in Values : SqPutw(f, n, v)
        \/ \E eoi \in BOOLEAN : SqMove(f, eoi)

Spec == Init /\ [][Next]_vars
-----------------------------------------------------------------------------
\* The words of a file as its user sees them: those of a page before those on disk.
Words(f) ==
    LET size == IF open_flag[f] /\ f \notin config.streams THEN file_size[f] ELSE Len(disk[f])
    IN  [i \in 1..size |->
            IF \E k \in DOMAIN page[f] : i \in page[f][k].wa0..page[f][k].walast
            THEN LET k == CHOOSE k \in DOMAIN page[f] :
                              i \in page[f][k].wa0..page[f][k].walast
                 IN  page[f][k].adr[i - page[f][k].wa0]
            ELSE disk[f][i]]

AllWords == [f \in Files |-> Words(f)]

Store == INSTANCE WordStore WITH words <- AllWords, open <- open_flag, ended <- exited

\* A stream is read and written at its position, another file where the call says.
Answered(f) ==
    IF f \in config.streams
    THEN \E n \in Lengths : \/ Store!ReadAll(f, pos[f] + 1, n)
                            \/ \E v \in Values : Store!Write(f, pos[f] + 1, [i \in 1..n |-> v])
    ELSE \E a \in Addresses(f) \cup {BlockStart(b) : b \in Blocks},
            n \in Lengths \cup {BlkSize} :
            \/ Store!Read(f, a, n)
            \/ \E v \in Values : Store!Write(f, a, [i \in 1..n |-> v])

\* Every call of the code is a step of the store of words, or none: a read answers
\* the words last written, whichever pages were scrapped for whichever file since,
\* and closing a file leaves on disk what was written to it.
Refines ==
    [][\/ Store!End
       \/ \E f \in Files : Store!Connect(f) \/ Answered(f)
       \/ UNCHANGED <<answer, open_flag, exited>> /\ UNCHANGED AllWords]_vars

\* With one page a file, the library never ends the process: the words a new page needs
\* are on disk whenever file_size says they exist, though pages of the file, or of another
\* one that took its buffer, may have been written to and scrapped in any order, and no two
\* pages overlap (wa_page_read, wa_page_write, scrap_page, get_new_page).
NeverExits == config.nb = 1 => ~exited

\* The buffers that were allocated are those of the pages in use and the free ones:
\* scrapping, closing and failing lose none (get_new_page, scrap_page).
BuffersAreKept ==
    global_count = nfree + Cardinality(UNION {{<<f, i>> : i \in DOMAIN page[f]} : f \in Files})
=============================================================================
