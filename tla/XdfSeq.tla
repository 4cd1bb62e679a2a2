------------------------------- MODULE XdfSeq -------------------------------
(***************************************************************************)
(* A sequential XDF file: c_xdfopn, c_xdfput, c_xdfdel, next_match and     *)
(* c_xdfget2 (xdf98Light.c) on such a file, and the calls of fstd98.c that *)
(* move on it: fstrwd, fstskp, fstapp, fstweo, fsteof.                     *)
(*                                                                         *)
(* Addresses count units of 64 bits from 0.  A record takes its length and *)
(* two units of postfix, a mark one unit, and the mark EOF ends the tape.  *)
(* A write overwrites its own units only; what stood behind it stays on    *)
(* disk until a close cuts the file, and only a close after c_xdfput or    *)
(* c_xdfdel does.  The model follows the headers of the tape and not such  *)
(* old words: a call that reads them as a header is lost, and nothing is   *)
(* said of what follows until the file is closed.  Each operation first    *)
(* finds the file by its unit and checks that it is open and sequential    *)
(* (Ready).  The search keys of a record and its data are one key.         *)
(***************************************************************************)
EXTENDS Integers, Sequences, FiniteSets, TLC

CONSTANTS
  Keys,
  Lens,         \* lengths of the records written
  Levels,       \* levels of the marks fstweo writes, 1..14
  HeaderLen,    \* length of the file header
  Width,        \* units that a search reads at a header (primary_len)
  MaxAddr,      \* bound: the tape does not grow past this address
  MaxItems,     \* bound: nor does it hold more records and marks
  Cap,          \* the address field of a handle holds 0..Cap-1 (2^22 in the source)
  Factor,       \* growth of the clusters (4 in the source)
  Modes,        \* modes in which an existing file is opened
  LateMarks,    \* marks are also written past address Cap
  Crashes       \* the process may die, while it writes too

ASSUME SeqAssumption ==
  /\ Width \in Nat \ {0, 1, 2} /\ HeaderLen \in Nat /\ HeaderLen >= Width
  /\ Lens \subseteq Nat /\ (\A n \in Lens : n >= Width) /\ MaxAddr \in Nat
  /\ MaxItems \in Nat
  /\ Levels \subseteq 1..14 /\ Factor \in Nat \ {0, 1}
  /\ Cap \in Nat \ {0} /\ Cap % Factor = 0 /\ HeaderLen < Cap
  /\ MaxAddr < Cap * (Factor * Factor * Factor)   \* 2 GB; handles hold no address beyond
  /\ Modes \subseteq {"RDMODE", "RWMODE", "APPEND"}
  /\ LateMarks \in BOOLEAN /\ Crashes \in BOOLEAN
  /\ "none" \notin Keys

VARIABLES
  st,        \* "none" (no file), "closed" or "open"
  mode,      \* header->rwflg
  tape,      \* the header at each address; "none": none that belongs to the tape
  size,      \* FGFDT.file_size: where a close cuts the file
  eff,       \* FGFDT.eff_file_size: where reading ends
  disk,      \* the length of the file on disk
  modified,  \* f->modified
  cur,       \* f->cur_addr
  bof,       \* f->seq_bof
  head,      \* f->head_keys: the header read last by a search or fstapp
  validpos,  \* f->valid_pos
  ret        \* what the last call returned; for a search also its keys and the record
             \* after which it began, if not at the position

lengths == <<size, eff, disk, modified>>
seqVars == <<st, mode, tape, size, eff, disk, modified, cur, bof, head, validpos, ret>>

EOF  == 15
Addr == 0..MaxAddr

Cell == [what : {"none", "head", "rec", "dead", "post", "mark"}, len : Nat,
         key : Keys \cup {"none"}, n : Nat]

Blank == [what |-> "none", len |-> 0, key |-> "none", n |-> 0]
FileHead == [Blank EXCEPT !.what = "head", !.len = HeaderLen]
Rec(n, k) == [Blank EXCEPT !.what = "rec", !.len = n, !.key = k]
Post(a) == [Blank EXCEPT !.what = "post", !.len = 2, !.n = a]
Mark(l) == [Blank EXCEPT !.what = "mark", !.len = 1, !.n = l]

At(a) == IF a \in Addr THEN tape[a] ELSE Blank

NoRet    == [code |-> "none", handle |-> [cluster |-> 0, addr |-> 0], n |-> 0,
             for |-> {}, after |-> -1]
NoHeader == [at |-> 0, cell |-> Blank]

-----------------------------------------------------------------------------
(* Clusters and handles *)

Size(c)  == <<1, Factor, Factor * Factor, Factor * Factor * Factor>>[c + 1]
Start(c) == IF c = 0 THEN 0 ELSE Cap * Size(c - 1)

\* The cluster size for an address: 1, 4, 16 or 64 units, from 32, 128 and 512 MB on.
ClusterOf(a) == CHOOSE c \in 0..3 : a >= Start(c) /\ \A d \in c+1..3 : a < Start(d)

\* Mutant: the cluster of the record's own address.
StartClusterMutant(a, n) ==
  ((a + n + 2 + Size(ClusterOf(a)) - 1) \div Size(ClusterOf(a))) * Size(ClusterOf(a)) - a - 2
\* The length that c_xdfput gives a record of n units at address a: with its postfix it
\* ends on a multiple of the cluster size of its end.
PutLen(a, n) ==
  LET s == Size(ClusterOf(a + n + 2))
  IN  ((a + n + 2 + s - 1) \div s) * s - a - 2

HandleOf(a) == LET c == ClusterOf(a) IN [cluster |-> c, addr |-> (a \div Size(c)) % Cap]
AddressOf(h) == h.addr * Size(h.cluster)

-----------------------------------------------------------------------------
(* Walking the tape *)

IsLesserMark(c) == c.what = "mark" /\ c.n # EOF
IsRecord(c) == c.what \in {"rec", "dead"}

\* What is read at an address is no header of the tape.
OldWords(a) == At(a).what = "none" /\ a < eff

\* next_match passes a record and its postfix, or the file header.  Mutant: the postfix
\* of a record is not skipped.
NoPostfixMutant(c) == c.len
Step(c) == IF IsRecord(c) THEN c.len + 2 ELSE c.len

\* idtyp 255 of a deleted record is not below 112: it ends a walk as a mark does.  Mutant:
\* it is passed, as the later test for idtyp > 127 means it to be.
PassDeadMutant(c) == c.what = "mark"
Halts(c) == c.what \in {"dead", "mark"}

\* next_match: where a walk from an address ends, for records with a key of K, and the
\* address of the header it read last (-1: none).  It ends where Width units cannot be
\* read, and nothing is read past the end of the file.  A walk that reads words which
\* are no header of the tape is lost.
Walk(K, from) ==
  LET w[a \in Nat] ==
        LET c    == At(a)
            full == a + Width <= eff
            End(to, last) == [found |-> FALSE, lost |-> OldWords(a), cur |-> to, last |-> last]
        IN  CASE c.what = "none" -> End(a, -1)
              [] Halts(c) -> End(IF IsLesserMark(c) THEN a + 1 ELSE a, a)
              [] c.what \notin {"none", "mark", "dead"} /\ ~full -> End(a, a)
              [] c.what = "rec" /\ full /\ c.key \in K ->
                   [found |-> TRUE, lost |-> FALSE, cur |-> a + Step(c), last |-> a]
              [] OTHER -> LET r == w[a + Step(c)]
                          IN  IF r.last = -1 THEN [r EXCEPT !.last = a] ELSE r
  IN  w[from]

\* c_fstapp: the same walk by lengths alone, to the next mark; it needs one unit.
AppendWalk(from) ==
  LET w[a \in Nat] ==
        LET End(last) == [cur |-> a, last |-> last, lost |-> OldWords(a)]
        IN  CASE At(a).what = "none" -> End(-1)
              [] At(a).what = "mark" -> End(a)
              [] OTHER -> LET r == w[a + At(a).len]
                          IN  IF r.last = -1 THEN [r EXCEPT !.last = a] ELSE r
  IN  w[from]

\* The addresses of the records and marks of the whole tape, in order.
Places ==
  LET w[a \in Nat] ==
        LET c == At(a)
        IN  CASE IsRecord(c) -> <<a>> \o w[a + c.len + 2]
              [] c.what = "mark" /\ c.n # EOF -> <<a>> \o w[a + 1]
              [] c.what = "mark" /\ c.n = EOF -> <<a>>
              [] OTHER -> <<>>
  IN  w[HeaderLen]

\* The number of them before an address.
Passed(a) == Cardinality({b \in Addr : b < a /\ tape[b].what \in {"rec", "dead", "mark"}})

Records == LET P == Places IN {P[i] : i \in {i \in 1..Len(P) : IsRecord(tape[P[i]])}}

\* Every header of the tape ends at an address or before it.
Within(a) == \A b \in Addr : tape[b].what # "none" => b + tape[b].len <= a

Closed == \E a \in Addr : tape[a].what = "mark" /\ tape[a].n = EOF

-----------------------------------------------------------------------------
(* Opening and closing *)

Init ==
  /\ st = "none" /\ mode = "RDMODE"
  /\ tape = [a \in Addr |-> Blank]
  /\ size = 0 /\ eff = 0 /\ disk = 0 /\ modified = FALSE
  /\ cur = 0 /\ bof = 0
  /\ head = NoHeader /\ validpos = FALSE
  /\ ret = NoRet

\* init_file sets seq_bof to the beginning of the file; the branch of c_xdfopn that
\* creates a file does not set it again.  c_waopen2 takes both sizes from the file.
Opened(m, p, b) ==
  /\ st' = "open" /\ mode' = m
  /\ cur' = p /\ bof' = b
  /\ size' = disk' /\ eff' = disk'
  /\ ret' = NoRet
  /\ UNCHANGED <<head, validpos>>

Create ==
  /\ st = "none"
  /\ disk' = HeaderLen /\ modified' = TRUE
  /\ Opened("CREATE", HeaderLen, 0)
  /\ tape' = [tape EXCEPT ![0] = FileHead]

\* The directory count of a sequential file is 0: the records begin behind the header.
Open(m) ==
  /\ st = "closed"
  /\ disk' = disk
  /\ Opened(m, HeaderLen, HeaderLen)
  /\ UNCHANGED <<tape, modified>>

\* init_file, or the end of the process.
Forgotten ==
  /\ st' = "closed" /\ mode' = "RDMODE"
  /\ cur' = 0 /\ bof' = 0
  /\ size' = 0 /\ eff' = 0 /\ modified' = FALSE
  /\ head' = NoHeader /\ validpos' = FALSE
  /\ ret' = NoRet

\* c_xdfcls cuts the file only if it was modified; c_fstweo does not say so.
Leave ==
  /\ st = "open" /\ Forgotten
  /\ disk' = IF modified THEN size ELSE disk
  /\ UNCHANGED tape

Crash == Crashes /\ st = "open" /\ Forgotten /\ UNCHANGED <<tape, disk>>

-----------------------------------------------------------------------------
(* Writing.  A caller that has created a file and rewinds it would write over *)
(* the header (seq_bof is 1, not the end of the header), and one whose last   *)
(* search ended on a postfix or past the end would write there: left out.     *)

Ready == st = "open" /\ ret.code # "lost"

\* The position is behind the file header, a mark, or a record with its postfix.
Attached ==
  \/ cur = HeaderLen
  \/ \E a \in Addr : /\ tape[a].what = "post" \/ IsLesserMark(tape[a])
                     /\ cur = a + tape[a].len

Writing == Ready /\ Attached /\ Passed(cur) < MaxItems   \* bound
InMemory == UNCHANGED <<st, mode, bof, head, validpos>>

Cells(f, from) == [a \in Addr |-> IF a < from THEN tape[a]
                                  ELSE IF a \in DOMAIN f THEN f[a] ELSE Blank]

\* qqcwawr: a write that ends at an address, past file_size, sets both sizes to its end.
Grown(end) ==
  /\ disk' = IF end > disk THEN end ELSE disk
  /\ eff' = IF end > size THEN end ELSE eff

\* c_xdfput: the record, its postfix and the mark EOF, in three writes.
Put(n, k) ==
  LET l == PutLen(cur, n)
      p == cur + l
  IN  /\ Writing /\ mode # "RDMODE"
      /\ p + 2 <= MaxAddr                    \* bound
      /\ tape' = Cells([a \in {cur, p, p + 2} |-> IF a = cur THEN Rec(l, k)
                                           ELSE IF a = p THEN Post(cur) ELSE Mark(EOF)], cur)
      /\ cur' = p + 2
      /\ Grown(p + 3) /\ size' = p + 3 /\ modified' = TRUE
      /\ ret' = NoRet
      /\ InMemory

\* The process dies after d of them.
TornPut(n, k, d) ==
  LET l == PutLen(cur, n)
      p == cur + l
      end == IF d = 1 THEN p ELSE p + 2
  IN  /\ Crashes /\ Writing /\ mode # "RDMODE"
      /\ p + 2 <= MaxAddr
      /\ tape' = Cells([a \in IF d = 1 THEN {cur} ELSE {cur, p} |->
                           IF a = cur THEN Rec(l, k) ELSE Post(cur)], cur)
      /\ disk' = IF end > disk THEN end ELSE disk
      /\ Forgotten

\* c_fstweo, whatever the mode.
Weo(l) ==
  LET p == IF l < EOF THEN cur + 1 ELSE cur
  IN  /\ Writing /\ p <= MaxAddr
      /\ LateMarks \/ l = EOF \/ cur < Cap
      /\ tape' = Cells([a \in cur..p |-> IF a = cur THEN Mark(l) ELSE Mark(EOF)], cur)
      /\ cur' = p
      /\ Grown(p + 1) /\ size' = (IF p + 1 > size THEN p + 1 ELSE size)
      /\ ret' = NoRet
      /\ UNCHANGED modified
      /\ InMemory

TornWeo(l) ==
  /\ Crashes /\ Writing /\ cur + 1 <= MaxAddr
  /\ LateMarks \/ cur < Cap
  /\ tape' = Cells([a \in {cur} |-> Mark(l)], cur)
  /\ disk' = IF cur + 1 > disk THEN cur + 1 ELSE disk
  /\ Forgotten

\* c_xdfdel of a handle: the header of the record says so on disk; f->head_keys does not.
Delete(h) ==
  LET a == AddressOf(h)
  IN  /\ Ready
      /\ IF mode \notin {"RDMODE", "APPEND"} /\ At(a).what = "rec"
         THEN tape' = [tape EXCEPT ![a].what = "dead"] /\ modified' = TRUE
         ELSE UNCHANGED <<tape, modified>>
      /\ ret' = NoRet
      /\ UNCHANGED <<cur, size, eff, disk>>
      /\ InMemory

-----------------------------------------------------------------------------
(* Moving *)

\* The caller keeps the handle found last.
StillFound == IF ret.code = "found" THEN [NoRet EXCEPT !.code = "found", !.handle = ret.handle]
              ELSE NoRet

Moved(p) ==
  /\ cur' = p
  /\ ret' = StillFound
  /\ UNCHANGED <<st, mode, tape, bof, head, lengths>>

\* A call has read old words as a header or a postfix.
GoesAstray ==
  /\ Ready
  /\ ret' = [NoRet EXCEPT !.code = "lost"]
  /\ UNCHANGED <<st, mode, tape, cur, bof, head, validpos, lengths>>

Rewind == Ready /\ Moved(bof) /\ validpos' = FALSE

\* c_fstskp by one record, forward: a mark or the end of the file stops it, a record must
\* have a postfix.  Where none was written, what the stack holds may pass for one.
SkipForward ==
  LET c == At(cur)
      p == IF c.what \in {"none", "mark"} THEN cur ELSE cur + c.len
  IN  \/ /\ Ready /\ ~OldWords(p) /\ UNCHANGED validpos
         /\ \/ At(p).what # "post" /\ Moved(p)
            \/ p # cur /\ At(p).what \in {"post", "none"} /\ Moved(p + 2)
      \/ OldWords(p) /\ GoesAstray

\* Backward: the postfix before the position leads to its record.
SkipBack ==
  \/ /\ Ready /\ UNCHANGED validpos
     /\ Moved(IF cur - 2 > bof /\ At(cur - 2).what = "post" THEN At(cur - 2).n ELSE cur)
  \/ cur - 2 > bof /\ Within(cur - 2) /\ GoesAstray

HeaderAt(a) == [at |-> a, cell |-> At(a)]

\* A read of nothing leaves the header read before it.  Mutant: there is always one.
LastReadMutant(a) == a
LastRead(a) == IF a = -1 THEN head.at ELSE a

\* c_fstapp: to the next mark.
App ==
  LET w == AppendWalk(cur)
  IN  \/ /\ Ready /\ ~w.lost
         /\ cur' = w.cur
         /\ ret' = StillFound
         /\ head' = IF At(w.cur).what = "mark" THEN HeaderAt(w.cur)
                    ELSE [at |-> LastRead(w.last), cell |-> Mark(EOF)]
         /\ UNCHANGED <<st, mode, tape, bof, validpos, lengths>>
      \/ w.lost /\ GoesAstray

-----------------------------------------------------------------------------
(* Searching and reading *)

\* c_fsteof of the header read last.
EofLevel(c) == IF c.what = "mark" THEN c.n ELSE 0

\* c_xdfloc2 from an address.  fstsui gives the keys of the last search again.  A search
\* that reads nothing takes the header read before for the one at the position: a mark
\* is passed again.
Locate(from, K, after) ==
  LET w == Walk(K, from)
      h == IF w.last = -1 THEN head ELSE HeaderAt(w.last)
      r == [NoRet EXCEPT !.for = K, !.after = after]
  IN  \/ /\ Ready /\ ~w.lost
         /\ cur' = (IF w.last = -1 /\ IsLesserMark(head.cell) THEN w.cur + 1 ELSE w.cur)
         /\ cur' <= MaxAddr + 1                 \* bound
         /\ head' = h /\ validpos' = w.found
         /\ ret' = IF w.found THEN [r EXCEPT !.code = "found", !.handle = HandleOf(w.last)]
                   ELSE [r EXCEPT !.code = "end", !.n = EofLevel(h.cell)]
         /\ UNCHANGED <<st, mode, tape, bof, lengths>>
      \/ w.lost /\ GoesAstray

\* fstinf and fstsui search from the position (handle -1), fstinfx from a record: past its data, at
\* the postfix, which next_match passes as it passes the file header.
FindNext(K) == Locate(cur, K, -1)
FindAfter(h, K) == Locate(AddressOf(h) + At(AddressOf(h)).len, K, AddressOf(h))

\* c_xdfget2 and c_xdfprm of the handle found last: its header must still be the one read
\* last.  The handle is not used after a write (NoRet): the header may be stale then.
Read ==
  LET a == AddressOf(ret.handle)
  IN  /\ Ready /\ ret.code = "found"
      /\ ret' = IF ~validpos \/ a # head.at \/ head.cell.what \in {"none", "dead"}
                THEN NoRet
                ELSE [ret EXCEPT !.code = "read", !.for = {At(head.at).key}, !.after = -1]
      /\ UNCHANGED <<st, mode, tape, cur, bof, head, validpos, lengths>>

Targets == {{k} : k \in Keys}
Handles == {HandleOf(a) : a \in Records}

Next ==
  \/ Create \/ Leave \/ Crash \/ Rewind \/ SkipForward \/ SkipBack \/ App \/ Read
  \/ \E m \in Modes : Open(m)
  \/ \E n \in Lens, k \in Keys :
       Put(n, k) \/ \E d \in 1..2 : TornPut(n, k, d)
  \/ \E l \in Levels \cup {EOF} : Weo(l)
  \/ \E l \in Levels : TornWeo(l)
  \/ \E K \in Targets : FindNext(K)
  \/ \E h \in Handles : Delete(h) \/ \E K \in Targets : FindAfter(h, K)

Spec == Init /\ [][Next]_seqVars

-----------------------------------------------------------------------------
(* Properties *)

\* Every variable has its type.
TypeOK ==
  /\ st \in {"none", "closed", "open"}
  /\ mode \in {"CREATE", "RDMODE", "RWMODE", "APPEND"}
  /\ \A a \in Addr : tape[a] \in Cell
  /\ size \in Nat /\ eff \in Nat /\ disk \in Nat /\ modified \in BOOLEAN
  /\ cur \in Nat /\ bof \in {0, HeaderLen}
  /\ head.at \in Nat /\ head.cell \in Cell
  /\ validpos \in BOOLEAN
  /\ ret.code \in {"none", "found", "end", "read", "lost"}

\* Every record has the address that its handle gives back, whatever its
\* cluster: the padding of c_xdfput and the shifts of the handles agree.
HandlesResolve == \A a \in Records : AddressOf(HandleOf(a)) = a

\* The position is where a record, a mark or the end of the tape begins, on the postfix of
\* the last record, or past the end of a tape that was never closed: no sequence of
\* searches, skips, writes and crashes leaves it inside a record, where data would be read
\* as a header.
OnBoundary ==
  LET P == Places
  IN  \/ cur \in {0, HeaderLen}
      \/ \E i \in 1..Len(P) :
           cur \in {P[i], P[i] + tape[P[i]].len + (IF IsRecord(tape[P[i]]) THEN 2 ELSE 0)}
      \/ At(cur).what = "post" /\ \A a \in Records : a < cur
      \/ ~Closed /\ cur >= disk

\* The tape that a reader of the file sees.
Items == LET P == Places
         IN  [i \in 1..Len(P) |-> [what |-> tape[P[i]].what, key |-> tape[P[i]].key,
                level |-> IF tape[P[i]].what = "mark" THEN tape[P[i]].n ELSE 0]]
Position == Passed(cur)
Answer == [code |-> ret.code, for |-> ret.for,
           after |-> IF ret.after = -1 THEN -1 ELSE Passed(ret.after + 1),
           n |-> IF ret.code \in {"found", "read"}
                 THEN Passed(AddressOf(ret.handle) + 1) ELSE ret.n]

\* The tape has no end mark, and there are words in the file behind its last item.
Frayed == st # "none" /\ ~Closed /\ Within(disk - 1)

Tape == INSTANCE SeqTape WITH
  items <- Items, at <- Position, open <- st = "open", answer <- Answer,
  frayed <- Frayed, short <- At(cur).what = "post"

\* A sequential file is the tape of SeqTape: every call does to the records, the marks and
\* the position what it does there, and answers what the tape answers.
Refines == Tape!Spec
=============================================================================
