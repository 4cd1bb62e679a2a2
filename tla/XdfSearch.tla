----------------------------- MODULE XdfSearch -----------------------------
(***************************************************************************)
(* Searching a random XDF file: c_xdfloc2 and next_match (xdf98Light.c) as *)
(* fstinf, fstinfx and fstsui call them, beside the writes of XdfRandom.   *)
(*                                                                         *)
(* The application scans the file: it begins a search, then asks for the   *)
(* next record until it gets none, either with fstsui (the search goes on  *)
(* from the position the library keeps) or with fstinfx (it goes on after  *)
(* the record last found).  "scan" records what a scan has returned and    *)
(* what it must return; it is not part of the program.                     *)
(***************************************************************************)
EXTENDS XdfRandom

CONSTANT ScanAcrossWrites   \* fstsui is also called after a write moved the position

ASSUME SearchAssumption ==
  /\ ScanAcrossWrites \in BOOLEAN
  /\ "any" \notin Keys

VARIABLES
  target,  \* f->target and cur_mask: a key, "any", or "none" if not valid_target
  ret,     \* what the last c_xdfloc2 returned; "none" after any other call
  scan     \* the scan of the application (see ScanSet)

searchVars == <<vars, target, ret, scan>>

NoRet      == [code |-> "none", handle |-> NoHandle]
Failed(c)  == [code |-> c, handle |-> NoHandle]
\* Mutant: the handle has page_record, which already counts the record found.
FoundNextMutant(n, r) == [code |-> "found", handle |-> <<n, r + 1>>]
Found(n, r) == [code |-> "found", handle |-> <<n, r>>]

Targets == Keys \cup {"any"}

\* on: more is expected; settled: no write moved the position since the last search;
\* must: the records that matched at the beginning and ever since; seen: those returned.
NoScan  == [on |-> FALSE, settled |-> FALSE, must |-> {}, seen |-> {}, last |-> NoHandle]

SearchInit ==
  /\ Init
  /\ target = "none"
  /\ ret = NoRet
  /\ scan = NoScan

-----------------------------------------------------------------------------
(* next_match *)

\* next_match needs cur_entry to be entry number page_record of cur_dir_page.
ValidPos(p) == p.dirpage # -1 /\ p.epage = p.dirpage /\ p.erec = p.record

Matches(t, h) == Used(h) /\ entry[h].idtyp < 127 /\ t \in {"any", entry[h].key}

\* The records from position p on that match.  Mutants: the entry at the position is
\* skipped; the next page is not searched.
SkipOneMutant(p, t) == {h \in Handle : /\ Matches(t, h)
                                       /\ \/ h[1] = p.dirpage /\ h[2] > p.record
                                          \/ h[1] > p.dirpage}
OnePageMutant(p, t) == {h \in Handle : Matches(t, h) /\ h[1] = p.dirpage /\ h[2] >= p.record}
Ahead(p, t) == {h \in Handle : /\ Matches(t, h)
                               /\ \/ h[1] = p.dirpage /\ h[2] >= p.record
                                  \/ h[1] > p.dirpage}

Before(g, h) == g[1] < h[1] \/ (g[1] = h[1] /\ g[2] < h[2])
FirstOf(H) == CHOOSE h \in H : \A g \in H \ {h} : Before(h, g)

\* The position after entry h, on page number n.  Mutant: the position stays on the entry.
PosAtMutant(h, n) ==
  [dirpage |-> h[1], epage |-> h[1], erec |-> h[2], pageno |-> n, record |-> h[2]]
PosAfter(h, n) ==
  [dirpage |-> h[1], epage |-> h[1], erec |-> h[2] + 1, pageno |-> n, record |-> h[2] + 1]

\* The position and the answer of next_match from position p with search target t.
\* cur_pageno counts the pages crossed from wherever it stood.
NextMatch(p, t) ==
  IF ~ValidPos(p) THEN [pos |-> p, ret |-> Failed("ERR_NO_POS")]
  ELSE IF Ahead(p, t) = {}
  THEN [pos |-> [dirpage |-> -1, epage |-> Last,
                 erec |-> IF p.dirpage = Last /\ p.record > page[Last].nent
                          THEN p.record ELSE page[Last].nent,
                 pageno |-> p.pageno + (Last - p.dirpage), record |-> 0],
        ret |-> Failed("ERR_NOT_FOUND")]
  ELSE LET h == FirstOf(Ahead(p, t))
           n == p.pageno + (h[1] - p.dirpage)
       IN  [pos |-> PosAfter(h, n), ret |-> Found(n, h[2])]

-----------------------------------------------------------------------------
(* c_xdfloc2.  t = "none" keeps the target (nprim = 0). *)

NewTarget(t) == IF t = "none" THEN target ELSE t

Return(p, r) == pos' = p /\ ret' = r
InMemoryOnly == UNCHANGED <<st, header, npages, page, entry, modified, flush, disk>>

\* handle = 0 (from = NoHandle) or a record's handle: the search begins at the first
\* record, or after that record.  A page number past the last page is refused, unless it
\* is cur_pageno: then dir_page[] gives NULL.
LocateFrom(from, t) ==
  LET p  == IF from = NoHandle THEN 0 ELSE from[1]
      r  == IF from = NoHandle THEN 0 ELSE from[2] + 1
      at == [dirpage |-> IF p < npages THEN p ELSE -1, epage |-> p, erec |-> r,
             pageno |-> p, record |-> r]
  IN  /\ Ready
      /\ target' = NewTarget(t)
      /\ IF p >= npages /\ p # pos.pageno
         THEN Return([pos EXCEPT !.epage = -1, !.erec = -1], Failed("ERR_BAD_PAGENO"))
         ELSE IF target' = "none"
         THEN Return(at, Failed("ERR_NO_TARGET"))
         ELSE Return(NextMatch(at, target').pos, NextMatch(at, target').ret)
      /\ InMemoryOnly

\* handle = -1: the search goes on from the current position, with the same target.
LocateNext ==
  /\ Ready
  /\ pos.pageno <= MaxDirPages     \* bound: a page number that crept past the directory
  /\ IF pos.epage = -1 \/ pos.pageno = -1
     THEN Return(pos, Failed("ERR_NO_POS"))
     ELSE IF target = "none"
     THEN Return(pos, Failed("ERR_NO_TARGET"))
     ELSE Return(NextMatch(pos, target).pos, NextMatch(pos, target).ret)
  /\ UNCHANGED target
  /\ InMemoryOnly

-----------------------------------------------------------------------------
(* The application *)

\* It goes on while a search returns a key.
Answered(must, seen) ==
  LET found == ret'.code = "found"
  IN  scan' = [on |-> found, settled |-> TRUE, must |-> must,
               seen |-> IF found THEN seen \cup {ret'.handle} ELSE seen,
               last |-> ret'.handle]

\* fstinf: from the beginning of the file.
Begin(t) ==
  /\ ~scan.on
  /\ LocateFrom(NoHandle, t)
  /\ Answered({h \in Handle : Matches(t, h)}, {})

\* fstsui
Sui ==
  /\ scan.on
  /\ scan.settled \/ ScanAcrossWrites
  /\ LocateNext
  /\ Answered(scan.must, scan.seen)

\* fstinfx with the record last found and the same criteria.
Infx ==
  /\ scan.on
  /\ scan.last \in Handle
  /\ LocateFrom(scan.last, target)
  /\ Answered(scan.must, scan.seen)

\* A single search, after any record, that belongs to no scan.
Probe(h, t) ==
  /\ LocateFrom(h, t)
  /\ scan' = NoScan

\* A step of XdfRandom.  init_file forgets the target.
FileStep ==
  /\ Next
  /\ ret' = NoRet
  /\ target' = IF st' = "open" THEN target ELSE "none"
  /\ scan' = IF st' = "open" /\ scan.on
             THEN [scan EXCEPT !.settled = @ /\ pos' = pos,
                               !.must = {h \in @ : Matches(target, h)'}]
             ELSE NoScan

SearchNext ==
  \/ FileStep
  \/ \E t \in Targets : Begin(t)
  \/ Sui
  \/ Infx
  \/ \E h \in Handle, t \in Targets \cup {"none"} : Probe(h, t)

\* The application goes on with a scan until it gets no key (the loop of the Swift tests).
\* Nothing else is fair: the application need not call anything.
SearchSpec == SearchInit /\ [][SearchNext]_searchVars /\ WF_searchVars(Sui \/ Infx)

-----------------------------------------------------------------------------
(* Properties *)

ScanSet == [on : BOOLEAN, settled : BOOLEAN, must : SUBSET Handle,
            seen : SUBSET (Int \X Int), last : Int \X Int]

\* Every variable has its type.
SearchTypeOK ==
  /\ TypeOK
  /\ target \in Targets \cup {"none"}
  /\ ret.code \in {"none", "found", "ERR_NOT_FOUND", "ERR_NO_POS", "ERR_NO_TARGET",
                   "ERR_BAD_PAGENO"}
  /\ ret.handle \in Int \X Int
  /\ scan \in ScanSet

\* The handle that c_xdfloc2 returns designates a record that matches the search.
FoundMatches == ret.code = "found" => Matches(target, ret.handle)

\* A search from the beginning or from a record of the file finds the first record after
\* it that matches, and none only when there is none, wherever the writes and the searches
\* before it left the position.
Following(h, t) == {g \in Handle : Matches(t, g) /\ Before(h, g)}
ProbeIsExact ==
  [][scan' = NoScan /\ ret'.code # "none" =>
       \A h \in Handle \cup {NoHandle}, t \in Targets : h[1] < npages /\ Probe(h, t) =>
         IF Following(h, t) = {}
         THEN ret'.code = "ERR_NOT_FOUND"
         ELSE /\ ret'.code = "found"
              /\ ret'.handle \in Following(h, t)
              /\ \A g \in Following(h, t) : ~Before(g, ret'.handle)]_searchVars

\* A scan ends because nothing is left: it has returned every record that matched when it
\* began and ever since, whatever was deleted, edited, written or rewritten meanwhile.
ScanIsComplete ==
  [][scan.on /\ ~scan'.on /\ scan'.settled =>
       ret'.code = "ERR_NOT_FOUND" /\ scan.must \subseteq scan.seen]_searchVars

\* A scan returns no record twice.
ScanDoesNotRepeat ==
  [][scan.on /\ scan'.on /\ ret'.code = "found" => ret'.handle \notin scan.seen]_searchVars

\* The same with fstsui called after writes: a scan that is told that nothing matches any
\* more has returned every record that matched when it began and ever since.
NothingSkipped ==
  [][scan.on /\ scan'.settled /\ ret'.code = "ERR_NOT_FOUND" =>
       scan.must \subseteq scan.seen]_searchVars

\* Every scan ends: the loop "while key > 0" of an application terminates.
ScanEnds == scan.on ~> ~scan.on

=============================================================================
