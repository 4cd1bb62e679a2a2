------------------------------ MODULE FileTable ------------------------------
(***************************************************************************)
(* The tables that lead from a unit number or a record handle to a file.   *)
(*                                                                         *)
(*   unit --FGFDT--> name, descriptor --wafile--> slot (offset, pages)     *)
(*   unit --file_table--> index <--handle                                  *)
(*                                                                         *)
(* c_baseio.c keeps the master table FGFDT (c_fnom, c_fclos) and the table *)
(* wafile of word-addressable files (qqcopen, qqcclos), which is searched  *)
(* by descriptor; xdf98Light.c keeps file_table (c_xdfopn, c_xdfcls),      *)
(* whose index is packed into every handle.  The operating system's        *)
(* descriptors and directory are external: fds and disk.                   *)
(*                                                                         *)
(* The application gives a unit an XDF file that has a header, or asks for *)
(* a new one (an empty file and a member of an archive leave c_xdfopn with *)
(* an uninitialized header), does not fill FGFDT or file_table (both are   *)
(* then indexed outside their bounds), gives a unit c_fnom refused to      *)
(* c_fclos only, closes the XDF file of a unit before its connection, and, *)
(* with LowIndices, opens its first sequential file while every open file  *)
(* has an index that fits a sequential handle.  With SeqTyped it connects  *)
(* a sequential file with a type that says SEQ, and with OwnHeaders it     *)
(* opens an XDF file only where the unit reaches its file (ReachesOwn).    *)
(***************************************************************************)
EXTENDS Naturals, Integers, FiniteSets, FiniteSetsExt

CONSTANTS
    Names,        \* what c_fnom is given: [file, sub], sub = NoSub for a plain file
    NoSub,
    Files,        \* the file names
    Members,      \* the members each archive holds: [Files -> SUBSET subnames]
    Types,        \* the attribute lists c_fnom is given with a name, sets of words
    Units,        \* the units the application asks for
    FtnTop, Top, Bottom,  \* c_qqqfscr looks down from 99 (Fortran) or 999, to 11
    MaxFiles,     \* MAXFILES
    MaxWaFiles,   \* MAXWAFILES
    MaxXdfFiles,  \* MAX_XDF_FILES
    SeqFiles,     \* 128: the indexes that fit a sequential handle
    Fds,          \* the descriptors of the process, above the standard ones
    Addresses,    \* the records of a file: what a handle holds above the index
    Disks,        \* what the files hold at first
    BadNames,     \* names c_fnom refuses after taking an entry
    SeqTyped, LowIndices, OwnHeaders

Absent == "absent"
Contents == {Absent, "empty", "rnd", "seq", "busy", "other"}
Closed == "closed"            \* what a descriptor that is not open is open on

ASSUME TableAssumption ==
    /\ {MaxFiles, MaxWaFiles, MaxXdfFiles, SeqFiles} \subseteq Nat \ {0}
    /\ SeqFiles <= MaxXdfFiles /\ MaxXdfFiles % SeqFiles = 0  \* powers of two: 1024, 128
    /\ Fds \subseteq Nat \ {0} /\ IsFiniteSet(Fds)
    /\ {Bottom, FtnTop, Top} \subseteq Nat \ {0} /\ Bottom <= FtnTop /\ FtnTop <= Top
    /\ Units \subseteq Bottom..Top
    /\ \A name \in Names : name.file \in Files
    /\ Closed \notin Files
    /\ Addresses \subseteq Nat
    /\ Disks \subseteq [Files -> Contents \ {"empty"}]
    /\ SeqTyped \in BOOLEAN /\ LowIndices \in BOOLEAN /\ OwnHeaders \in BOOLEAN

VARIABLES
    FGFDT,          \* the master file table
    wafile,         \* the word-addressable files, by slot; pages: the name qqcopen took
                    \* the slot for, whose words its pages hold, until qqcclos empties
                    \* them; member: it took the slot for a member once (history)
    file_table,     \* the XDF files, by index
    STDSEQ_opened,  \* a sequential file was opened once
    fds,            \* external: the file each descriptor is open on
    disk,           \* external: what each file holds
    handles         \* the handles the application holds

vars == <<FGFDT, wafile, file_table, STDSEQ_opened, fds, disk, handles>>

NoName == [file |-> "none", sub |-> NoSub]
Entries == 0..(MaxFiles - 1)
Slots == 0..(MaxWaFiles - 1)
Indexes == 0..(MaxXdfFiles - 1)

\* The lowest element of S, or a negative number when there is none.
First(S) == IF S = {} THEN -1 ELSE Min(S)
-----------------------------------------------------------------------------
\* reset_file_entry
EmptyEntry == [iun |-> 0, name |-> NoName, fd |-> -1, open_flag |-> FALSE, rnd |-> FALSE,
               wa |-> FALSE, seq |-> FALSE, read_only |-> FALSE]

find_file_entry(u) == First({e \in Entries : FGFDT[e].iun = u})

\* The attributes c_fnom draws from the type, each word overriding those before it.
FnomEntry(u, name, type) ==
    [EmptyEntry EXCEPT
       !.iun = u, !.name = name, !.seq = "SEQ" \in type,
       !.rnd = \/ "D77" \in type
               \/ /\ type \cap {"STREAM", "STD", "BURP", "RND", "WA"} # {}
                  /\ type \cap {"FTN", "UNF"} = {},
       !.read_only = ("R/O" \in type /\ "R/W" \notin type) \/ name.sub # NoSub]

\* The file must exist already; so must one that is only read, or an archive.
MustExist(name, type) == type \cap {"OLD", "R/O"} # {} \/ name.sub # NoSub

\* Whether c_fnom opens the file at once: c_waopen2 is called for it.
OpensAtOnce(type) ==
    \/ type \cap {"STREAM", "STD", "BURP"} # {}
    \/ type \cap {"RND", "WA"} # {} /\ type \cap {"FTN", "UNF", "D77"} = {}

existe(file) == disk[file] # Absent

\* The search starts one above the highest unit.
AboveTopMutant(type) ==
    LET start == IF type \cap {"FTN", "D77"} # {} THEN FtnTop ELSE Top
        free == {u \in Bottom..(start + 1) : \A e \in Entries : FGFDT[e].iun # u}
    IN  IF free = {} THEN -1 ELSE Max(free)

\* c_qqqfscr: the highest unit no entry has.
c_qqqfscr(type) ==
    LET start == IF type \cap {"FTN", "D77"} # {} THEN FtnTop ELSE Top
        free == {u \in Bottom..start : \A e \in Entries : FGFDT[e].iun # u}
    IN  IF free = {} THEN -1 ELSE Max(free)

\* filepos looks for the member from the start of the archive, and answers with
\* the end of the archive: a positive position once the member is found.
filepos(name) == IF name.sub \in Members[name.file] THEN 1 ELSE -2

(***************************************************************************)
(* What qqcopen does to the entry en of a file that is not open: the entry *)
(* and its outcome, the slots, the descriptors and the disk.  It takes the *)
(* first free slot, whose pages it empties, and, from the system, the      *)
(* lowest free descriptor.  A member that is not found leaves slot and     *)
(* descriptor taken; the offset of a slot is set for a member only.        *)
(***************************************************************************)
qqcopen(en) ==
    LET ind == First({s \in Slots : wafile[s].file_desc = -1})
        fd == First({d \in Fds : fds[d] = Closed})
        file == en.name.file
        create == en.name.sub = NoSub /\ ~existe(file)
        lost == [ier |-> -1, entry |-> [en EXCEPT !.fd = -1], wafile |-> wafile,
                 fds |-> fds, disk |-> disk]
        opened == [ier |-> fd,
                   entry |-> [en EXCEPT !.fd = fd, !.open_flag = TRUE, !.wa = TRUE,
                                        !.rnd = TRUE,
                                        !.read_only = @ /\ ~create],
                   wafile |-> [wafile EXCEPT ![ind] =
                                  [file_desc |-> fd, pages |-> en.name,
                                   member |-> @.member \/ en.name.sub # NoSub,
                                   offset |-> IF en.name.sub = NoSub THEN @.offset
                                              ELSE filepos(en.name)]],
                   fds |-> [fds EXCEPT ![fd] = file],
                   disk |-> IF create THEN [disk EXCEPT ![file] = "empty"] ELSE disk]
    IN  IF ind < 0 \/ fd < 0 \/ (en.name.sub # NoSub /\ ~existe(file))
        THEN lost
        ELSE IF en.name.sub # NoSub /\ filepos(en.name) <= 0
        THEN [opened EXCEPT !.ier = -1, !.entry = [en EXCEPT !.fd = fd]]
        ELSE opened

\* What an entry reads and writes, in a table of slots and one of descriptors: the file of
\* its descriptor, behind the offset and through the pages of the first slot that has this
\* descriptor (qqcward, qqcwawr).
SlotOf(d, slots) == First({s \in Slots : slots[s].file_desc = d})
Nowhere == [file |-> Closed, offset |-> 0, pages |-> NoName]
ReachedBy(en, slots, descriptors) ==
    LET s == SlotOf(en.fd, slots)
    IN  IF en.fd \notin Fds \/ s < 0 THEN Nowhere
        ELSE [file |-> descriptors[en.fd], offset |-> slots[s].offset,
              pages |-> slots[s].pages]

\* What it should reach: its file from the start, or its member where filepos found it.
Own(name) == [file |-> name.file, pages |-> name,
              offset |-> IF name.sub = NoSub THEN 0 ELSE filepos(name)]

\* What qqcclos does to slot s.
Freed(slots, s) == [slots EXCEPT ![s].file_desc = -1, ![s].pages = NoName]

\* The first slot in use is given back, not the one with the descriptor.
WrongSlotMutant(e) ==
    LET s == First({x \in Slots : wafile[x].file_desc # -1})
    IN  /\ s >= 0
        /\ fds' = [d \in Fds |-> IF d = wafile[s].file_desc THEN Closed ELSE fds[d]]
        /\ wafile' = Freed(wafile, s)

\* qqcclos: the slot is the first one with the descriptor of the entry.
QqcClos(e) ==
    LET s == SlotOf(FGFDT[e].fd, wafile)
    IN  /\ s >= 0
        /\ wafile' = Freed(wafile, s)
        /\ fds' = [d \in Fds |-> IF d = FGFDT[e].fd THEN Closed ELSE fds[d]]
-----------------------------------------------------------------------------
\* file_index: the index of the unit, in the order of the table.
file_index(u) == First({i \in Indexes : file_table[i].iun = u})

\* init_file: what c_xdfcls leaves; a null entry of the table is one as well.
FreeXdf == [iun |-> -1, header |-> FALSE, xdf_seq |-> FALSE]

\* init_package gives index 0 to a unit that does not exist.
ReservedXdf == [iun |-> 1234567, header |-> FALSE, xdf_seq |-> FALSE]

\* The limit of sequential handles is forgotten.
NoLimitMutant == First({i \in Indexes : file_table[i].iun = -1})

get_free_index ==
    First({i \in Indexes : /\ file_table[i].iun = -1
                           /\ STDSEQ_opened => i < SeqFiles})

MAKE_RND_HANDLE(record, i) == (i % MaxXdfFiles) + MaxXdfFiles * record
MAKE_SEQ_HANDLE(address, i) == i + SeqFiles * address
INDEX_FROM_HANDLE(h) == h % (IF STDSEQ_opened THEN SeqFiles ELSE MaxXdfFiles)
-----------------------------------------------------------------------------
NameSet == Names \cup {NoName}

TypeOK ==
    /\ FGFDT \in [Entries -> [iun : {0} \cup Bottom..Top, name : NameSet, fd : {-1} \cup Fds,
                              open_flag : BOOLEAN, rnd : BOOLEAN, wa : BOOLEAN,
                              seq : BOOLEAN, read_only : BOOLEAN]]
    /\ wafile \in [Slots -> [file_desc : {-1} \cup Fds, offset : {-2, 0, 1},
                           pages : NameSet, member : BOOLEAN]]
    /\ file_table \in [Indexes -> [iun : {-1, 1234567} \cup Bottom..Top,
                                   header : BOOLEAN, xdf_seq : BOOLEAN]]
    /\ STDSEQ_opened \in BOOLEAN
    /\ fds \in [Fds -> Files \cup {Closed}]
    /\ disk \in [Files -> Contents]
    /\ \A h \in handles : /\ DOMAIN h = {"bits", "iun"}
                          /\ h.bits \in Nat /\ h.iun \in Bottom..Top

Init ==
    /\ FGFDT = [e \in Entries |-> EmptyEntry]
    /\ wafile = [s \in Slots |-> [file_desc |-> -1, offset |-> 0, pages |-> NoName,
                                  member |-> FALSE]]
    /\ file_table = [i \in Indexes |-> IF i = 0 THEN ReservedXdf ELSE FreeXdf]
    /\ STDSEQ_opened = FALSE
    /\ fds = [d \in Fds |-> Closed]
    /\ disk \in Disks
    /\ handles = {}
-----------------------------------------------------------------------------
\* The unit fnom_ works on, and gives back when it was asked for none.
Chosen(asked, type) == IF asked = 0 THEN c_qqqfscr(type) ELSE asked

\* c_fnom takes the first free entry; what its tests do to it.
Fnom(asked, name, type) ==
    LET u == Chosen(asked, type)
        e == First({x \in Entries : FGFDT[x].iun = 0})
        en == FnomEntry(u, name, type)
        opened == qqcopen(en)
        \* c_fclos after a failure: the entry is free again.
        Refuse == FGFDT' = FGFDT
    IN  /\ u > 0 /\ find_file_entry(u) < 0 /\ e >= 0
        /\ UNCHANGED <<file_table, STDSEQ_opened, handles>>
        /\ CASE name \in BadNames ->
                  /\ FGFDT' = [FGFDT EXCEPT ![e] = [en EXCEPT !.name = NoName]]
                  /\ UNCHANGED <<wafile, fds, disk>>
             [] name \notin BadNames /\ MustExist(name, type) /\ ~existe(name.file) ->
                  Refuse /\ UNCHANGED <<wafile, fds, disk>>
             [] OTHER ->
                  IF OpensAtOnce(type) /\ en.rnd
                  THEN /\ IF opened.ier < 0 THEN Refuse
                          ELSE FGFDT' = [FGFDT EXCEPT ![e] =
                                            [opened.entry EXCEPT !.wa = FALSE]]
                       /\ wafile' = opened.wafile /\ fds' = opened.fds
                       /\ disk' = opened.disk
                  ELSE \* c_waopen2 answers -1 when rnd is off; a Fortran file is
                       \* marked open with no descriptor
                       /\ IF OpensAtOnce(type) THEN Refuse
                          ELSE FGFDT' = [FGFDT EXCEPT ![e] = [en EXCEPT !.open_flag = TRUE]]
                       /\ UNCHANGED <<wafile, fds, disk>>

\* c_fclos closes the descriptor; the slot keeps it.
Fclos(u) ==
    LET e == find_file_entry(u)
    IN  /\ e >= 0 /\ (file_index(u) >= 0 => ~file_table[file_index(u)].header)
        /\ fds' = [d \in Fds |-> IF FGFDT[e].open_flag /\ d = FGFDT[e].fd
                                 THEN Closed ELSE fds[d]]
        /\ FGFDT' = [FGFDT EXCEPT ![e] = EmptyEntry]
        /\ UNCHANGED <<wafile, file_table, STDSEQ_opened, disk, handles>>

\* c_waopen2 of a connected unit: opened again after c_waclos2, or marked wa.
WaOpen(u) ==
    LET e == find_file_entry(u)
        opened == qqcopen(FGFDT[e])
    IN  /\ e >= 0 /\ FGFDT[e].rnd /\ FGFDT[e].name # NoName
        /\ UNCHANGED <<file_table, STDSEQ_opened, handles>>
        /\ IF FGFDT[e].open_flag
           THEN /\ FGFDT' = [FGFDT EXCEPT ![e].wa = TRUE]
                /\ UNCHANGED <<wafile, fds, disk>>
           ELSE /\ FGFDT' = [FGFDT EXCEPT ![e] = opened.entry]
                /\ wafile' = opened.wafile /\ fds' = opened.fds /\ disk' = opened.disk

\* The entry keeps its descriptor and stays open.
StillOpenMutant(u) ==
    LET e == find_file_entry(u)
    IN  /\ e >= 0 /\ FGFDT[e].open_flag /\ file_index(u) < 0
        /\ QqcClos(e)
        /\ FGFDT' = [FGFDT EXCEPT ![e].wa = FALSE]
        /\ UNCHANGED <<file_table, STDSEQ_opened, disk, handles>>

\* c_waclos2
WaClose(u) ==
    LET e == find_file_entry(u)
    IN  /\ e >= 0 /\ FGFDT[e].open_flag /\ file_index(u) < 0
        /\ QqcClos(e)
        /\ FGFDT' = [FGFDT EXCEPT ![e].fd = -1, ![e].open_flag = FALSE, ![e].wa = FALSE]
        /\ UNCHANGED <<file_table, STDSEQ_opened, disk, handles>>

\* c_wasize opens a closed unit and closes it again: the file may now exist, the slot taken
\* may have the offset of a member, and it stays taken if qqcclos finds another one with the
\* descriptor before it.
WaSize(u) ==
    LET e == find_file_entry(u)
        opened == qqcopen(FGFDT[e])
    IN  /\ e >= 0 /\ ~FGFDT[e].open_flag /\ FGFDT[e].name # NoName
        /\ FGFDT' = [FGFDT EXCEPT ![e].fd = -1, ![e].read_only = opened.entry.read_only]
        /\ wafile' = IF opened.entry.fd = -1 THEN wafile
                     ELSE Freed(opened.wafile, SlotOf(opened.entry.fd, opened.wafile))
        /\ disk' = opened.disk
        /\ UNCHANGED <<file_table, STDSEQ_opened, fds, handles>>
-----------------------------------------------------------------------------
\* The entry of the unit u once the header of its file was read: one that is not that of
\* an XDF file, or says that a writer has it, leaves the entry without a file.
FromHeader(u, content, seq) ==
    IF content \in {"other", "busy"} THEN [FreeXdf EXCEPT !.iun = u]
    ELSE [iun |-> u, header |-> TRUE, xdf_seq |-> seq \/ content = "seq"]

\* An error of c_xdfopn after get_free_index leaves the unit in the table, without a
\* header.
XdfLeaving(u) ==
    /\ file_table' = [file_table EXCEPT ![get_free_index].iun = u]
    /\ UNCHANGED <<FGFDT, wafile, fds, disk>>

\* Whether the unit of entry e reaches what it should once c_xdfopn opened its file.
ReachesOwn(e) ==
    LET opened == qqcopen(FGFDT[e])
    IN  Own(FGFDT[e].name) = IF FGFDT[e].open_flag THEN ReachedBy(FGFDT[e], wafile, fds)
                             ELSE ReachedBy(opened.entry, opened.wafile, opened.fds)

\* The header that c_xdfopn reads is that of the file, and the one it writes goes there; at
\* another place it reads anything, and anything may then be where the header should be.
Anything == {"rnd", "seq", "other"}
HeaderRead(e) == IF ReachesOwn(e) THEN {disk[FGFDT[e].name.file]} ELSE Anything
HeaderWritten(e) == IF ~ReachesOwn(e) THEN Anything
                    ELSE IF FGFDT[e].seq THEN {"seq"} ELSE {"rnd"}

\* c_xdfopn opens the file of the unit, which then has the entry xdf: c_waopen ends the
\* process when it cannot open.
XdfOpening(u, create, xdf) ==
    LET e == find_file_entry(u)
        opened == qqcopen(FGFDT[e])
    IN  /\ FGFDT[e].open_flag => FGFDT[e].fd > 0
        /\ ~FGFDT[e].open_flag => opened.ier > 0
        /\ IF FGFDT[e].open_flag
           THEN /\ FGFDT' = [FGFDT EXCEPT ![e].wa = FGFDT[e].wa \/ create]
                /\ UNCHANGED <<wafile, fds>>
           ELSE /\ FGFDT' = [FGFDT EXCEPT ![e] = opened.entry]
                /\ wafile' = opened.wafile /\ fds' = opened.fds
        /\ file_table' = [file_table EXCEPT ![get_free_index] = xdf]

\* c_xdfopn of a new file, or of the file the unit is connected to.
XdfOpen(u, create) ==
    LET i == get_free_index
        e == find_file_entry(u)
        en == FGFDT[e]
        file == en.name.file
    IN  /\ file_index(u) < 0 /\ i >= 0 /\ (e >= 0 => en.name.sub = NoSub /\ en.name # NoName)
        /\ OwnHeaders /\ e >= 0 /\ en.rnd => ReachesOwn(e)
        /\ LowIndices /\ e >= 0 /\ (en.seq \/ disk[file] = "seq") =>
               \A x \in Indexes : x = i \/ file_table[x].header => x < SeqFiles
        /\ UNCHANGED handles
        /\ IF e < 0 \/ ~en.rnd
           THEN XdfLeaving(u) /\ UNCHANGED STDSEQ_opened
           ELSE /\ STDSEQ_opened' = (STDSEQ_opened \/ en.seq)
                /\ IF en.seq /\ i >= SeqFiles THEN XdfLeaving(u)
                   ELSE IF create
                   THEN /\ ~en.read_only
                        /\ XdfOpening(u, create, [iun |-> u, header |-> TRUE,
                                                  xdf_seq |-> en.seq])
                        /\ \E content \in HeaderWritten(e) :
                             disk' = [disk EXCEPT ![file] = content]
                   ELSE /\ disk[file] \notin {"empty", Absent}
                        /\ \E content \in HeaderRead(e) :
                             /\ SeqTyped /\ content = "seq" => en.seq
                             /\ XdfOpening(u, create, FromHeader(u, content, en.seq))
                        /\ UNCHANGED disk

\* c_fstouv never creates a file (c_wkoffit is disabled), and leaves before c_xdfopn
\* when the unit is not connected.
FstOuv(u) == find_file_entry(u) >= 0 /\ XdfOpen(u, FALSE)

\* The file is closed, but its entry in the table is not freed.
NotFreedMutant(u) ==
    LET i == file_index(u)
        e == find_file_entry(u)
    IN  /\ i >= 0 /\ file_table[i].header /\ e >= 0
        /\ QqcClos(e)
        /\ FGFDT' = [FGFDT EXCEPT ![e].fd = -1, ![e].open_flag = FALSE, ![e].wa = FALSE]
        /\ UNCHANGED <<file_table, STDSEQ_opened, disk, handles>>

\* c_xdfcls; init_file frees the entry.  The handles of the file are void.
XdfClose(u) ==
    LET i == file_index(u)
        e == find_file_entry(u)
    IN  /\ i >= 0 /\ file_table[i].header /\ e >= 0
        /\ QqcClos(e)
        /\ FGFDT' = [FGFDT EXCEPT ![e].fd = -1, ![e].open_flag = FALSE, ![e].wa = FALSE]
        /\ file_table' = [file_table EXCEPT ![i] = FreeXdf]
        /\ handles' = {h \in handles : h.iun # u}
        /\ UNCHANGED <<STDSEQ_opened, disk>>

\* A search finds a record of the file and makes its handle.
Find(u, a) ==
    LET i == file_index(u)
    IN  /\ i >= 0 /\ file_table[i].header
        /\ handles' = handles \cup
             {[iun |-> u,
               bits |-> IF file_table[i].xdf_seq THEN MAKE_SEQ_HANDLE(a, i)
                        ELSE MAKE_RND_HANDLE(a, i)]}
        /\ UNCHANGED <<FGFDT, wafile, file_table, STDSEQ_opened, fds, disk>>

Next ==
    \/ \E asked \in Units \cup {0}, name \in Names : \E type \in Types[name] :
         Fnom(asked, name, type)
    \/ \E u \in Bottom..Top : Fclos(u) \/ WaOpen(u) \/ WaClose(u) \/ WaSize(u) \/ XdfClose(u)
    \/ \E u \in Units : FstOuv(u) \/ \E create \in BOOLEAN : XdfOpen(u, create)
    \/ \E u \in Bottom..Top, a \in Addresses : Find(u, a)

Spec == Init /\ [][Next]_vars
-----------------------------------------------------------------------------
\* What a unit reads and writes.
Reaches(u) == LET e == find_file_entry(u)
              IN  IF e < 0 THEN Nowhere ELSE ReachedBy(FGFDT[e], wafile, fds)

\* c_fclos closed descriptor d and left a slot that has it: another file opened with the same
\* descriptor then has two.
Shared(d) == \E s, t \in Slots : s # t /\ wafile[s].file_desc = d /\ wafile[t].file_desc = d

\* The slot of the plain file en was that of a member of an archive once, and qqcopen does
\* not reset its offset.
WasMember(en) == en.name.sub = NoSub /\ wafile[SlotOf(en.fd, wafile)].member

\* An open word-addressable unit has a descriptor of the file it was connected to, and, in a
\* slot that c_fclos or a member did not spoil, reads and writes this file from its start, or
\* the member of the archive from where filepos found it, through pages of its own: whatever
\* units were opened, closed, measured or disconnected since, and however descriptors and
\* slots were given out again (c_waopen2, qqcclos, c_fclos, c_wasize).
UnitsReachTheirFiles ==
    \A e \in Entries : FGFDT[e].open_flag /\ FGFDT[e].fd # -1 =>
        /\ Reaches(FGFDT[e].iun).file = FGFDT[e].name.file
        /\ ~Shared(FGFDT[e].fd) /\ ~WasMember(FGFDT[e]) =>
             Reaches(FGFDT[e].iun) = Own(FGFDT[e].name)

\* An XDF file that was opened and not closed is found under its unit, its unit is
\* connected and reaches an open file: no call on another unit takes it away.
XdfFilesAreConnected ==
    \A i \in Indexes : file_table[i].header =>
        /\ file_index(file_table[i].iun) = i
        /\ Reaches(file_table[i].iun).file # Closed

\* The index taken out of a handle is the index of the file the handle is for, as
\* long as that file is open: c_xdfget2, c_xdfdel and the other calls that are
\* given a handle act on that file.
HandlesNameTheirFiles ==
    \A h \in handles : INDEX_FROM_HANDLE(h.bits) = file_index(h.iun)

\* A step changes what at most one unit reaches (file, offset, pages), and leaves the XDF index
\* of every other unit alone: units do not disturb each other.
UnitsAreIndependent ==
    [][\A u \in Bottom..Top : Reaches(u)' # Reaches(u) \/ file_index(u)' # file_index(u) =>
         \A v \in (Bottom..Top) \ {u} :
             Reaches(v)' = Reaches(v) /\ file_index(v)' = file_index(v)]_vars
=============================================================================
