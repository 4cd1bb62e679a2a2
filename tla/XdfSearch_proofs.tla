--------------------------- MODULE XdfSearch_proofs ---------------------------
(***************************************************************************)
(* Theorems about XdfSearch: what the searches of a random XDF file return *)
(* beside the writes, for every page size, number of pages, set of keys    *)
(* and bound.  Those about what a search finds suppose that fstsui is not  *)
(* called once a write moved the position: MCSearchAcrossWrites shows what *)
(* is lost otherwise.                                                      *)
(***************************************************************************)
EXTENDS XdfSearch, XdfRandom_proofs, Extremes

OnlySettledSearches == ~ScanAcrossWrites

-----------------------------------------------------------------------------
(* The first of a set of handles.                                          *)

LEMMA FirstExists ==
  ASSUME NEW H, H \subseteq Handle, H # {}
  PROVE  FirstOf(H) \in H /\ \A g \in H : g = FirstOf(H) \/ Before(FirstOf(H), g)
<1>1. \A h \in H : h[1] \in Nat /\ h[2] \in Nat /\ h = <<h[1], h[2]>>
  BY DEF Handle, Page, Rec
<1>2. PICK m \in {h[1] : h \in H} : \A x \in {h[1] : h \in H} : m <= x
  <2>1. {h[1] : h \in H} \subseteq Nat /\ {h[1] : h \in H} # {}
    BY <1>1
  <2> QED
    BY <2>1, LeastNat
<1>3. PICK n \in {h[2] : h \in {g \in H : g[1] = m}} :
        \A x \in {h[2] : h \in {g \in H : g[1] = m}} : n <= x
  <2>1. {h[2] : h \in {g \in H : g[1] = m}} \subseteq Nat
    BY <1>1
  <2>2. {h[2] : h \in {g \in H : g[1] = m}} # {}
    BY <1>2
  <2> QED
    BY <2>1, <2>2, LeastNat
<1>4. PICK h \in H : h[1] = m /\ h[2] = n
  BY <1>3
<1>5. ASSUME NEW g \in H, g # h PROVE Before(h, g)
  <2>1. m <= g[1] /\ (g[1] = m => n <= g[2])
    BY <1>2, <1>3
  <2>2. h[1] # g[1] \/ h[2] # g[2]
    BY <1>1, <1>5
  <2> QED
    BY <1>1, <1>4, <2>1, <2>2 DEF Before
<1>6. \E f \in H : \A g \in H \ {f} : Before(f, g)
  BY <1>5
<1>7. FirstOf(H) \in H /\ \A g \in H \ {FirstOf(H)} : Before(FirstOf(H), g)
  BY <1>6 DEF FirstOf
<1> QED
  BY <1>7

-----------------------------------------------------------------------------
(* Types.                                                                  *)

LEMMA PosTypes ==
  /\ \A h \in Handle, n \in Int : PosAfter(h, n) \in PosSet
  /\ \A p \in PosSet : /\ p.dirpage \in Page \cup {-1} /\ p.epage \in Page \cup {-1}
                       /\ p.erec \in Rec \cup {-1, EntriesPerPage} /\ p.pageno \in Int
                       /\ p.record \in Rec \cup {EntriesPerPage}
                       /\ [p EXCEPT !.epage = -1, !.erec = -1] \in PosSet
<1>1. \A r \in Rec : r + 1 \in Rec \cup {EntriesPerPage}
  BY SizesAssumption DEF Rec
<1> QED
  BY <1>1 DEF PosAfter, PosSet, Handle

\* The outcomes of next_match.
NoPosition(p, t)  == ~ValidPos(p) /\ NextMatch(p, t) = [pos |-> p, ret |-> Failed("ERR_NO_POS")]
NothingAhead(p, t) ==
  /\ ValidPos(p) /\ Ahead(p, t) = {}
  /\ NextMatch(p, t).ret = Failed("ERR_NOT_FOUND") /\ NextMatch(p, t).pos \in PosSet
FirstAhead(p, t, h) ==
  /\ ValidPos(p) /\ h \in Ahead(p, t) /\ \A g \in Ahead(p, t) : g = h \/ Before(h, g)
  /\ NextMatch(p, t).ret = Found(p.pageno + (h[1] - p.dirpage), h[2])
  /\ NextMatch(p, t).pos = PosAfter(h, p.pageno + (h[1] - p.dirpage))

LEMMA NextMatchOutcome ==
  ASSUME TypeInv, st = "open", NEW p \in PosSet, NEW t
  PROVE  \/ NoPosition(p, t) \/ NothingAhead(p, t)
         \/ \E h \in Handle : FirstAhead(p, t, h)
<1>1. CASE ~ValidPos(p)
  BY <1>1 DEF NextMatch, NoPosition
<1>2. CASE ValidPos(p) /\ Ahead(p, t) = {}
  <2>1. Last \in Page /\ page[Last].nent \in Rec \cup {EntriesPerPage}
    <3>1. Last \in Page /\ page \in [Page -> PageSet]
      BY SizesAssumption DEF TypeInv, TypeOK, PagesCounted, Last, Page
    <3> QED
      BY <3>1, SizesAssumption DEF PageSet, Rec
  <2>2. p.record \in Rec \cup {EntriesPerPage} /\ p.pageno \in Int /\ p.dirpage \in Int
    <3>1. \A q \in Page \cup {-1} : q \in Int
      BY DEF Page
    <3> QED
      BY <3>1 DEF PosSet
  <2>3. p.pageno + (Last - p.dirpage) \in Int /\ 0 \in Rec /\ Last \in Int
    BY <2>1, <2>2, SizesAssumption DEF Page, Rec
  <2> DEFINE r == IF p.dirpage = Last /\ p.record > page[Last].nent
                  THEN p.record ELSE page[Last].nent
  <2>4. r \in Rec \cup {EntriesPerPage}
    BY <2>1, <2>2
  <2>5. NextMatch(p, t) = [pos |-> [dirpage |-> -1, epage |-> Last, erec |-> r,
                                    pageno |-> p.pageno + (Last - p.dirpage), record |-> 0],
                           ret |-> Failed("ERR_NOT_FOUND")]
    BY <1>2 DEF NextMatch
  <2> HIDE DEF r
  <2>6. NextMatch(p, t).pos \in PosSet
    BY <2>1, <2>3, <2>4, <2>5 DEF PosSet
  <2> QED
    BY <1>2, <2>5, <2>6 DEF NothingAhead
<1>3. CASE ValidPos(p) /\ Ahead(p, t) # {}
  <2>1. Ahead(p, t) \subseteq Handle
    BY DEF Ahead
  <2>2. PICK h \in Ahead(p, t) : h = FirstOf(Ahead(p, t))
                                 /\ \A g \in Ahead(p, t) : g = h \/ Before(h, g)
    BY <1>3, <2>1, FirstExists
  <2>3. NextMatch(p, t) = [pos |-> PosAfter(h, p.pageno + (h[1] - p.dirpage)),
                           ret |-> Found(p.pageno + (h[1] - p.dirpage), h[2])]
    BY <1>3, <2>2 DEF NextMatch
  <2>4. FirstAhead(p, t, h)
    BY <1>3, <2>2, <2>3 DEF FirstAhead
  <2> QED
    BY <2>1, <2>4
<1> QED
  BY <1>1, <1>2, <1>3

\* What a search returned: the record h, or an error.
Returned(h) == ret' = [code |-> "found", handle |-> h]
Refused(c)  == ret' = Failed(c)
Codes == {"ERR_NOT_FOUND", "ERR_NO_POS", "ERR_NO_TARGET", "ERR_BAD_PAGENO"}

\* The answer of a search for the records after "from" that match t.
Answer(from, t) ==
  \/ Following(from, t) = {} /\ Refused("ERR_NOT_FOUND")
  \/ \E h \in Following(from, t) :
       /\ \A g \in Following(from, t) : g = h \/ Before(h, g)
       /\ Returned(h) /\ pos' = PosAfter(h, h[1])

\* The position of a search that begins after "from".
StartAt(from, p) ==
  /\ p.dirpage = from[1] /\ p.epage = from[1] /\ p.pageno = from[1]
  /\ p.erec = from[2] + 1 /\ p.record = from[2] + 1

LEMMA FollowingAhead ==
  ASSUME NEW from \in Handle, NEW p, StartAt(from, p), NEW t
  PROVE  ValidPos(p) /\ Ahead(p, t) = Following(from, t)
<1>1. from[1] \in Nat /\ from[2] \in Nat
  BY DEF Handle, Page, Rec
<1>2. ValidPos(p)
  BY <1>1 DEF ValidPos, StartAt
<1>3. ASSUME NEW h \in Handle
      PROVE  (h[1] = p.dirpage /\ h[2] >= p.record) \/ h[1] > p.dirpage <=> Before(from, h)
  <2>1. h[1] \in Nat /\ h[2] \in Nat
    BY DEF Handle, Page, Rec
  <2> QED
    BY <1>1, <2>1 DEF Before, StartAt
<1> QED
  BY <1>2, <1>3 DEF Ahead, Following

\* Every record follows NoHandle.
LEMMA AllAhead ==
  ASSUME NEW p, p.dirpage = 0, p.epage = 0, p.erec = 0, p.record = 0, NEW t
  PROVE  ValidPos(p) /\ Ahead(p, t) = Following(NoHandle, t)
<1>1. \A h \in Handle : h[1] \in Nat /\ h[2] \in Nat
  BY DEF Handle, Page, Rec
<1> QED
  BY <1>1 DEF ValidPos, Ahead, Following, Before, NoHandle

\* A search from a valid position answers from the records ahead of it.
LEMMA MatchAnswers ==
  ASSUME TypeInv, st = "open", NEW p \in PosSet, NEW t, NEW from,
         ValidPos(p), Ahead(p, t) = Following(from, t), p.pageno = p.dirpage,
         pos' = NextMatch(p, t).pos, ret' = NextMatch(p, t).ret
  PROVE  Answer(from, t) /\ pos' \in PosSet
<1>1. NothingAhead(p, t) \/ \E h \in Handle : FirstAhead(p, t, h)
  BY NextMatchOutcome DEF NoPosition
<1>2. CASE NothingAhead(p, t)
  BY <1>2 DEF NothingAhead, Answer, Refused
<1>3. ASSUME NEW h \in Handle, FirstAhead(p, t, h)
      PROVE  Answer(from, t) /\ pos' \in PosSet
  <2>1. h = <<h[1], h[2]>> /\ h[1] \in Int
    BY DEF Handle, Page
  <2>2. p.dirpage \in Int
    <3>1. \A q \in Page \cup {-1} : q \in Int
      BY DEF Page
    <3> QED
      BY <3>1 DEF PosSet
  <2>3. p.pageno + (h[1] - p.dirpage) = h[1]
    BY <2>1, <2>2
  <2>4. Returned(h)
    BY <1>3, <2>1, <2>3 DEF FirstAhead, Found, Returned
  <2>5. pos' = PosAfter(h, h[1]) /\ pos' \in PosSet
    <3>1. pos' = PosAfter(h, p.pageno + (h[1] - p.dirpage))
      BY <1>3 DEF FirstAhead
    <3>2. pos' = PosAfter(h, h[1])
      BY <2>3, <3>1
    <3> QED
      BY <2>1, <3>2, PosTypes
  <2>6. h \in Following(from, t) /\ \A g \in Following(from, t) : g = h \/ Before(h, g)
    BY <1>3 DEF FirstAhead
  <2> QED
    BY <2>4, <2>5, <2>6 DEF Answer
<1> QED
  BY <1>1, <1>2, <1>3

\* What c_xdfloc2 returns when it begins at a place of the directory.
LEMMA LocateAnswers ==
  ASSUME TypeInv, NEW from \in Handle \cup {NoHandle}, NEW t, LocateFrom(from, t),
         from[1] < npages, target' # "none"
  PROVE  Answer(from, target') /\ pos' \in PosSet
<1> DEFINE p == IF from = NoHandle THEN 0 ELSE from[1]
           r == IF from = NoHandle THEN 0 ELSE from[2] + 1
           at == [dirpage |-> IF p < npages THEN p ELSE -1, epage |-> p, erec |-> r,
                  pageno |-> p, record |-> r]
<1>1. st = "open" /\ npages \in 1 .. MaxDirPages
  BY SizesAssumption DEF LocateFrom, Ready, TypeInv, TypeOK, PagesCounted
<1>2. p \in Page /\ r \in Rec \cup {EntriesPerPage} /\ p < npages /\ p \in Int
  BY <1>1, SizesAssumption DEF Handle, Page, Rec, NoHandle
<1>3. at.dirpage = p /\ at.epage = p /\ at.erec = r /\ at.pageno = p /\ at.record = r
  BY <1>2
<1>4. at \in PosSet
  BY <1>2, <1>3 DEF PosSet
<1>5. pos' = NextMatch(at, target').pos /\ ret' = NextMatch(at, target').ret
  <2>1. ~(p >= npages)
    BY <1>1, <1>2
  <2> QED
    BY <1>2, <2>1 DEF LocateFrom, Return
<1>6. ValidPos(at) /\ Ahead(at, target') = Following(from, target')
  <2>1. CASE from = NoHandle
    BY <1>3, <2>1, AllAhead
  <2>2. CASE from # NoHandle
    <3>1. StartAt(from, at)
      BY <1>3, <2>2 DEF StartAt
    <3> QED
      BY <2>2, <3>1, FollowingAhead
  <2> QED
    BY <2>1, <2>2
<1> HIDE DEF at
<1> QED
  BY <1>1, <1>3, <1>4, <1>5, <1>6, MatchAnswers

\* c_xdfloc2 with a handle that designates no place of the directory, or without a target.
LEMMA LocateRefused ==
  ASSUME TypeInv, NEW from \in Handle \cup {NoHandle}, NEW t, LocateFrom(from, t),
         ~(from[1] < npages) \/ target' = "none"
  PROVE  pos' \in PosSet /\ \E c \in Codes : Refused(c)
<1> DEFINE p == IF from = NoHandle THEN 0 ELSE from[1]
           r == IF from = NoHandle THEN 0 ELSE from[2] + 1
           at == [dirpage |-> IF p < npages THEN p ELSE -1, epage |-> p, erec |-> r,
                  pageno |-> p, record |-> r]
<1>1. pos \in PosSet /\ st = "open" /\ npages \in 1 .. MaxDirPages
  BY SizesAssumption DEF LocateFrom, Ready, TypeInv, TypeOK, PagesCounted
<1>2. p \in Page /\ p \in Int /\ r \in Rec \cup {EntriesPerPage}
  BY SizesAssumption DEF Handle, Page, Rec
<1>3. at \in PosSet
  BY <1>2 DEF PosSet
<1>4. CASE p >= npages /\ p # pos.pageno
  <2>1. pos' = [pos EXCEPT !.epage = -1, !.erec = -1] /\ Refused("ERR_BAD_PAGENO")
    BY <1>4 DEF LocateFrom, Return, Refused
  <2> QED
    BY <1>1, <2>1, PosTypes DEF Codes
<1>5. CASE ~(p >= npages /\ p # pos.pageno) /\ target' = "none"
  <2>1. pos' = at /\ Refused("ERR_NO_TARGET")
    BY <1>5 DEF LocateFrom, Return, Refused
  <2> QED
    BY <1>3, <2>1 DEF Codes
<1>6. CASE ~(p >= npages /\ p # pos.pageno) /\ target' # "none"
  <2>1. ~(from[1] < npages)
    BY <1>6
  <2>2. from # NoHandle
    BY <1>1, <2>1 DEF NoHandle
  <2>3. ~(p < npages)
    BY <2>1, <2>2
  <2>4. at.dirpage = -1
    BY <2>3
  <2>5. pos' = NextMatch(at, target').pos /\ ret' = NextMatch(at, target').ret
    BY <1>6 DEF LocateFrom, Return
  <2> HIDE DEF at
  <2>6. ~ValidPos(at)
    BY <2>4 DEF ValidPos
  <2>7. pos' = at /\ Refused("ERR_NO_POS")
    BY <2>5, <2>6 DEF NextMatch, Refused
  <2> QED
    BY <1>3, <2>7 DEF Codes
<1> QED
  BY <1>4, <1>5, <1>6

\* What c_xdfloc2 returns when it goes on from where it is.
LEMMA NextReturns ==
  ASSUME TypeInv, LocateNext
  PROVE  pos' \in PosSet /\ \/ \E c \in Codes : Refused(c)
                            \/ \E h \in Handle, n \in Int : ret' = Found(n, h[2])
<1>1. pos \in PosSet /\ st = "open"
  BY DEF LocateNext, Ready, TypeInv, TypeOK
<1>2. CASE pos.epage = -1 \/ pos.pageno = -1 \/ target = "none"
  BY <1>1, <1>2 DEF LocateNext, Return, Refused, Codes
<1>3. CASE ~(pos.epage = -1 \/ pos.pageno = -1 \/ target = "none")
  <2>1. pos' = NextMatch(pos, target).pos /\ ret' = NextMatch(pos, target).ret
    BY <1>3 DEF LocateNext, Return
  <2>2. \/ NoPosition(pos, target) \/ NothingAhead(pos, target)
        \/ \E h \in Handle : FirstAhead(pos, target, h)
    BY <1>1, NextMatchOutcome
  <2>3. CASE NoPosition(pos, target) \/ NothingAhead(pos, target)
    BY <1>1, <2>1, <2>3 DEF NoPosition, NothingAhead, Refused, Codes
  <2>4. ASSUME NEW h \in Handle, FirstAhead(pos, target, h)
        PROVE  pos' \in PosSet /\ \E n \in Int : ret' = Found(n, h[2])
    <3>1. h[1] \in Int /\ pos.pageno \in Int /\ pos.dirpage \in Int
      <4>1. \A q \in Page \cup {-1} : q \in Int
        BY DEF Page
      <4> QED
        BY <1>1, <4>1 DEF PosSet, Handle
    <3>2. pos.pageno + (h[1] - pos.dirpage) \in Int
      BY <3>1
    <3> QED
      BY <2>1, <2>4, <3>2, PosTypes DEF FirstAhead
  <2> QED
    BY <2>2, <2>3, <2>4
<1> QED
  BY <1>2, <1>3

\* Right after record h, it answers from the records after h.
LEMMA NextAnswers ==
  ASSUME TypeInv, NEW h \in Handle, pos = PosAfter(h, h[1]), target # "none", LocateNext
  PROVE  Answer(h, target)
<1>1. st = "open" /\ pos \in PosSet
  BY DEF LocateNext, Ready, TypeInv, TypeOK
<1>2. StartAt(h, pos) /\ pos.epage # -1 /\ pos.pageno # -1
  BY DEF PosAfter, StartAt, Handle, Page
<1>3. ValidPos(pos) /\ Ahead(pos, target) = Following(h, target)
  BY <1>2, FollowingAhead
<1>4. pos' = NextMatch(pos, target).pos /\ ret' = NextMatch(pos, target).ret
  BY <1>2 DEF LocateNext, Return
<1> QED
  BY <1>1, <1>2, <1>3, <1>4, MatchAnswers DEF StartAt

-----------------------------------------------------------------------------
(* Type correctness.                                                       *)

RetTyped == /\ ret.code \in {"none", "found"} \cup Codes
            /\ ret.handle \in Int \X Int
SearchTyped == target \in Targets \cup {"none"} /\ RetTyped /\ scan \in ScanSet

SearchTypeInv == TypeInv /\ SearchTyped

LEMMA LocateTyped ==
  ASSUME TypeInv, NEW from \in Handle \cup {NoHandle}, NEW t, LocateFrom(from, t)
  PROVE  pos' \in PosSet /\ RetTyped'
<1>1. ASSUME NEW h \in Handle, Returned(h) PROVE RetTyped'
  BY <1>1 DEF Returned, RetTyped, Handle, Page, Rec
<1>2. ASSUME NEW c \in Codes, Refused(c) PROVE RetTyped'
  BY <1>2 DEF Refused, RetTyped, Failed, NoHandle
<1>3. CASE from[1] < npages /\ target' # "none"
  <2>1. Answer(from, target') /\ pos' \in PosSet
    BY <1>3, LocateAnswers
  <2>2. "ERR_NOT_FOUND" \in Codes /\ \A h \in Following(from, target') : h \in Handle
    BY DEF Codes, Following
  <2> QED
    BY <1>1, <1>2, <2>1, <2>2 DEF Answer
<1>4. CASE ~(from[1] < npages /\ target' # "none")
  BY <1>2, <1>4, LocateRefused
<1> QED
  BY <1>3, <1>4

LEMMA NextTyped ==
  ASSUME TypeInv, LocateNext
  PROVE  pos' \in PosSet /\ RetTyped'
<1>1. pos' \in PosSet /\ \/ \E c \in Codes : Refused(c)
                         \/ \E h \in Handle, n \in Int : ret' = Found(n, h[2])
  BY NextReturns
<1>2. \A h \in Handle : h[2] \in Int
  BY DEF Handle, Rec
<1> QED
  BY <1>1, <1>2 DEF Refused, RetTyped, Failed, NoHandle, Found

\* A search moves the position and nothing else of the file.
LEMMA InMemoryTypes ==
  ASSUME TypeInv, InMemoryOnly, pos' \in PosSet
  PROVE  TypeInv'
BY DEF TypeInv, TypeOK, PagesCounted, InMemoryOnly, disk

LEMMA AnsweredTyped ==
  ASSUME RetTyped', NEW must \in SUBSET Handle, NEW seen \in SUBSET (Int \X Int),
         Answered(must, seen)
  PROVE  scan' \in ScanSet
BY DEF RetTyped, Answered, ScanSet

LEMMA NewTargets ==
  ASSUME target \in Targets \cup {"none"}, NEW t \in Targets \cup {"none"},
         target' = NewTarget(t)
  PROVE  target' \in Targets \cup {"none"}
BY DEF NewTarget

LEMMA NoScanTyped == NoScan \in ScanSet /\ NoRet.code = "none" /\ NoRet.handle \in Int \X Int
BY DEF NoScan, ScanSet, NoRet, NoHandle

LEMMA SearchStepTyped ==
  ASSUME SearchTypeInv, [SearchNext]_searchVars
  PROVE  SearchTypeInv'
<1>1. TypeInv /\ target \in Targets \cup {"none"} /\ RetTyped /\ scan \in ScanSet
  BY DEF SearchTypeInv, SearchTyped
<1>2. scan.must \in SUBSET Handle /\ scan.seen \in SUBSET (Int \X Int)
  BY <1>1 DEF ScanSet
<1>3. CASE FileStep
  <2>1. TypeInv'
    BY <1>1, <1>3, TypeStep DEF FileStep
  <2>2. target' \in Targets \cup {"none"} /\ RetTyped'
    BY <1>1, <1>3, NoScanTyped DEF FileStep, RetTyped
  <2>3. scan' \in ScanSet
    <3>1. CASE st' = "open" /\ scan.on
      <4>1. scan' = [scan EXCEPT !.settled = @ /\ pos' = pos,
                                 !.must = {h \in @ : Matches(target, h)'}]
        BY <1>3, <3>1 DEF FileStep
      <4>2. {h \in scan.must : Matches(target, h)'} \in SUBSET Handle
        BY <1>2
      <4>3. (scan.settled /\ pos' = pos) \in BOOLEAN
        OBVIOUS
      <4> QED
        BY <1>1, <4>1, <4>2, <4>3 DEF ScanSet
    <3>2. CASE ~(st' = "open" /\ scan.on)
      BY <1>3, <3>2, NoScanTyped DEF FileStep
    <3> QED
      BY <3>1, <3>2
  <2> QED
    BY <2>1, <2>2, <2>3 DEF SearchTypeInv, SearchTyped
<1>4. ASSUME NEW from \in Handle \cup {NoHandle}, NEW t \in Targets \cup {"none"},
             LocateFrom(from, t), RetTyped' => scan' \in ScanSet
      PROVE  SearchTypeInv'
  <2>1. pos' \in PosSet /\ RetTyped'
    BY <1>1, <1>4, LocateTyped
  <2>2. InMemoryOnly /\ target' = NewTarget(t)
    BY <1>4 DEF LocateFrom
  <2> QED
    BY <1>1, <1>4, <2>1, <2>2, InMemoryTypes, NewTargets DEF SearchTypeInv, SearchTyped
<1>5. ASSUME NEW t \in Targets, Begin(t) PROVE SearchTypeInv'
  <2>1. {h \in Handle : Matches(t, h)} \in SUBSET Handle /\ {} \in SUBSET (Int \X Int)
    OBVIOUS
  <2>2. RetTyped' => scan' \in ScanSet
    BY <1>5, <2>1, AnsweredTyped DEF Begin
  <2> QED
    BY <1>4, <1>5, <2>2 DEF Begin
<1>6. CASE Sui
  <2>1. pos' \in PosSet /\ RetTyped' /\ InMemoryOnly /\ target' = target
    BY <1>1, <1>6, NextTyped DEF Sui, LocateNext
  <2>2. scan' \in ScanSet
    BY <1>2, <1>6, <2>1, AnsweredTyped DEF Sui
  <2> QED
    BY <1>1, <2>1, <2>2, InMemoryTypes DEF SearchTypeInv, SearchTyped
<1>7. CASE Infx
  <2>1. RetTyped' => scan' \in ScanSet
    BY <1>2, <1>7, AnsweredTyped DEF Infx
  <2> QED
    BY <1>1, <1>4, <1>7, <2>1 DEF Infx
<1>8. ASSUME NEW h \in Handle, NEW t \in Targets \cup {"none"}, Probe(h, t)
      PROVE  SearchTypeInv'
  BY <1>4, <1>8, NoScanTyped DEF Probe
<1>9. CASE UNCHANGED searchVars
  BY <1>1, <1>9 DEF searchVars, vars, SearchTypeInv, SearchTyped, RetTyped, TypeInv, TypeOK,
                    PagesCounted
<1> QED
  BY <1>3, <1>5, <1>6, <1>7, <1>8, <1>9 DEF SearchNext

LEMMA SearchInitTyped == SearchInit => SearchTypeInv
BY InitTypes, NoScanTyped DEF SearchInit, SearchTypeInv, SearchTyped, RetTyped

LEMMA SearchInvTypes == SearchTypeInv => SearchTypeOK
BY DEF SearchTypeInv, SearchTyped, RetTyped, Codes, SearchTypeOK, TypeInv

\* The searches keep every variable in its type, wherever the position was left, also by
\* an fstsui after a write.
THEOREM SearchTypeCorrect == SearchSpec => []SearchTypeOK
<1>1. SearchTypeInv /\ [SearchNext]_searchVars => SearchTypeInv'
  BY SearchStepTyped
<1> QED
  BY <1>1, SearchInitTyped, SearchInvTypes, PTL DEF SearchSpec

-----------------------------------------------------------------------------
(* What a scan knows.                                                      *)

\* The record that a search returned matches.
FoundInv == ret.code = "found" => ret.handle \in Handle /\ Matches(target, ret.handle)

\* A scan is at its last record: what it has returned is not after that record, and what it
\* has yet to return is.  Unless a write moved it, the position is just after the record.
ScanInv == scan.on =>
  /\ st = "open" /\ target \in Targets
  /\ scan.last \in Handle /\ Used(scan.last)
  /\ scan.settled => pos = PosAfter(scan.last, scan.last[1])
  /\ \A h \in scan.must : Matches(target, h) /\ (h \in scan.seen \/ Before(scan.last, h))
  /\ \A h \in scan.seen : h \in Handle /\ ~Before(scan.last, h)

SearchInv == SearchTypeInv /\ FoundInv /\ ScanInv

LEMMA MatchesFrame ==
  ASSUME UNCHANGED <<npages, page, entry>>
  PROVE  /\ \A t, h : Matches(t, h)' <=> Matches(t, h)
         /\ \A h : Used(h)' <=> Used(h)
BY DEF Matches, Used

LEMMA AnswerFound ==
  ASSUME NEW from, NEW t, Answer(from, t), target' = t, UNCHANGED <<npages, page, entry>>
  PROVE  FoundInv'
<1>1. ASSUME NEW h \in Following(from, t), Returned(h) PROVE FoundInv'
  <2>1. h \in Handle /\ Matches(t, h) /\ ret'.handle = h
    BY <1>1 DEF Following, Returned
  <2>2. Matches(t, h)'
    BY <2>1, MatchesFrame
  <2> QED
    BY <2>1, <2>2 DEF FoundInv, Matches, Used
<1>2. Refused("ERR_NOT_FOUND") => FoundInv'
  BY DEF Refused, Failed, FoundInv
<1> QED
  BY <1>1, <1>2 DEF Answer

LEMMA RefusedFound ==
  ASSUME NEW c \in Codes, Refused(c)
  PROVE  FoundInv'
BY DEF Refused, Failed, FoundInv, Codes

\* An answer from the last record takes the scan on.
LEMMA AnswerScans ==
  ASSUME NEW from, NEW t \in Targets, Answer(from, t), target' = t, st' = "open",
         UNCHANGED <<npages, page, entry>>,
         NEW must, NEW seen, Answered(must, seen),
         \A h \in must : Matches(t, h) /\ h \in Handle /\ (h \in seen \/ Before(from, h)),
         \A h \in seen : h \in Handle /\ ~Before(from, h),
         from[1] \in Int, from[2] \in Int
  PROVE  ScanInv'
<1> SUFFICES ASSUME scan'.on PROVE ScanInv'
  BY DEF ScanInv
<1>1. scan' = [on |-> TRUE, settled |-> TRUE, must |-> must, seen |-> seen \cup {ret'.handle},
               last |-> ret'.handle] /\ ret'.code = "found"
  BY DEF Answered
<1>2. PICK h \in Following(from, t) :
        /\ \A g \in Following(from, t) : g = h \/ Before(h, g)
        /\ Returned(h) /\ pos' = PosAfter(h, h[1])
  BY <1>1 DEF Answer, Refused, Failed
<1>3. /\ scan'.on /\ scan'.settled /\ scan'.must = must /\ scan'.seen = seen \cup {h}
      /\ scan'.last = h
  BY <1>1, <1>2 DEF Returned
<1>4. h \in Handle /\ Matches(t, h) /\ Before(from, h) /\ Used(h)
  BY <1>2 DEF Following, Matches
<1>5. \A g \in Handle : g[1] \in Int /\ g[2] \in Int
  BY DEF Handle, Page, Rec
<1>6. ASSUME NEW g \in must PROVE Matches(t, g)' /\ (g \in seen \cup {h} \/ Before(h, g))
  <2>1. g \in Handle /\ Matches(t, g) /\ (g \in seen \/ Before(from, g))
    OBVIOUS
  <2>2. Matches(t, g)'
    BY <2>1, MatchesFrame
  <2>3. g \in seen \cup {h} \/ Before(h, g)
    BY <1>2, <2>1 DEF Following
  <2> QED
    BY <2>2, <2>3
<1>7. ASSUME NEW g \in seen \cup {h} PROVE g \in Handle /\ ~Before(h, g)
  <2>1. g \in Handle /\ (g = h \/ ~Before(from, g))
    BY <1>4
  <2> QED
    BY <1>4, <1>5, <2>1 DEF Before
<1>8. Used(h)'
  BY <1>4, MatchesFrame
<1> QED
  BY <1>2, <1>3, <1>4, <1>6, <1>7, <1>8 DEF ScanInv, Matches, Used

\* The target and the place that a search of a scan answers from.
LEMMA SuiAnswers ==
  ASSUME OnlySettledSearches, SearchInv, Sui
  PROVE  /\ Answer(scan.last, target) /\ target' = target /\ target \in Targets
         /\ st' = "open" /\ UNCHANGED <<npages, page, entry>>
         /\ Answered(scan.must, scan.seen)
<1>1. /\ scan.on /\ scan.settled /\ LocateNext /\ Answered(scan.must, scan.seen)
  BY DEF Sui, OnlySettledSearches
<1>2. /\ scan.last \in Handle /\ pos = PosAfter(scan.last, scan.last[1])
      /\ target \in Targets /\ target # "none" /\ TypeInv
  BY <1>1, MarksAssumption DEF SearchInv, ScanInv, SearchTypeInv, Targets
<1>3. /\ target' = target /\ st' = "open" /\ UNCHANGED <<npages, page, entry>>
  BY <1>1 DEF LocateNext, InMemoryOnly, Ready
<1> QED
  BY <1>1, <1>2, <1>3, NextAnswers

LEMMA LocatedAnswers ==
  ASSUME TypeInv, NEW from \in Handle \cup {NoHandle}, NEW t \in Targets,
         LocateFrom(from, t), from[1] < npages
  PROVE  /\ Answer(from, t) /\ target' = t
         /\ st' = "open" /\ UNCHANGED <<npages, page, entry>>
<1>1. t # "none"
  BY MarksAssumption DEF Targets
<1>2. target' = t /\ st' = "open" /\ UNCHANGED <<npages, page, entry>>
  BY <1>1 DEF LocateFrom, NewTarget, InMemoryOnly, Ready
<1> QED
  BY <1>1, <1>2, LocateAnswers

LEMMA InfxAnswers ==
  ASSUME SearchInv, Infx
  PROVE  /\ Answer(scan.last, target) /\ target' = target /\ target \in Targets
         /\ st' = "open" /\ UNCHANGED <<npages, page, entry>>
         /\ Answered(scan.must, scan.seen)
<1>1. /\ scan.last \in Handle /\ scan.last[1] < npages /\ target \in Targets /\ TypeInv
  BY DEF Infx, SearchInv, ScanInv, SearchTypeInv, Used
<1> QED
  BY <1>1, LocatedAnswers DEF Infx

LEMMA BeginAnswers ==
  ASSUME SearchInv, NEW t \in Targets, Begin(t)
  PROVE  /\ Answer(NoHandle, t) /\ target' = t
         /\ st' = "open" /\ UNCHANGED <<npages, page, entry>>
         /\ Answered({h \in Handle : Matches(t, h)}, {})
<1>1. TypeInv /\ st = "open"
  BY DEF SearchInv, SearchTypeInv, Begin, LocateFrom, Ready
<1>2. NoHandle[1] < npages
  BY <1>1 DEF NoHandle, TypeInv, PagesCounted, TypeOK
<1> QED
  BY <1>1, <1>2, LocatedAnswers DEF Begin

\* A write leaves the records that a scan has returned in their places.
LEMMA FileStepScans ==
  ASSUME SearchInv, FileStep
  PROVE  FoundInv' /\ ScanInv'
<1>1. FoundInv'
  BY DEF FileStep, NoRet, FoundInv
<1>2. ASSUME scan'.on PROVE ScanInv'
  <2>1. st' = "open" /\ scan.on /\ target' = target /\ scan \in ScanSet
    BY <1>2 DEF FileStep, NoScan, SearchInv, SearchTypeInv, SearchTyped
  <2>2. /\ scan'.settled = (scan.settled /\ pos' = pos)
        /\ scan'.must = {h \in scan.must : Matches(target, h)'}
        /\ scan'.seen = scan.seen /\ scan'.last = scan.last
    BY <2>1 DEF FileStep, ScanSet
  <2>3. /\ st = "open" /\ target \in Targets /\ scan.last \in Handle /\ Used(scan.last)
        /\ scan.settled => pos = PosAfter(scan.last, scan.last[1])
        /\ \A h \in scan.must : h \in scan.seen \/ Before(scan.last, h)
        /\ \A h \in scan.seen : h \in Handle /\ ~Before(scan.last, h)
    BY <2>1 DEF SearchInv, ScanInv
  <2>4. HandlesKept
    BY KeptStep DEF FileStep, SearchInv, SearchTypeInv
  <2>5. PICK l \in Handle : l = scan.last
    BY <2>3
  <2>6. Used(l)'
    BY <2>1, <2>3, <2>4, <2>5 DEF HandlesKept
  <2>7. Used(scan.last)'
    BY <2>2, <2>5, <2>6 DEF Used
  <2>8. \A h \in scan'.must : Matches(target, h)'
    BY <2>2
  <2> QED
    BY <2>1, <2>2, <2>3, <2>7, <2>8 DEF ScanInv
<1> QED
  BY <1>1, <1>2 DEF ScanInv

LEMMA SearchStep ==
  ASSUME OnlySettledSearches
  PROVE  SearchInv /\ [SearchNext]_searchVars => SearchInv'
<1> SUFFICES ASSUME SearchInv, [SearchNext]_searchVars PROVE SearchInv'
  OBVIOUS
<1>0. SearchTypeInv'
  BY SearchStepTyped DEF SearchInv
<1>1. CASE FileStep
  BY <1>0, <1>1, FileStepScans DEF SearchInv
<1>2. \A h \in Handle \cup {NoHandle} : h[1] \in Int /\ h[2] \in Int
  BY DEF Handle, Page, Rec, NoHandle
<1>3. ASSUME NEW t \in Targets, Begin(t) PROVE SearchInv'
  <2>1. /\ Answer(NoHandle, t) /\ target' = t
        /\ st' = "open" /\ UNCHANGED <<npages, page, entry>>
        /\ Answered({h \in Handle : Matches(t, h)}, {})
    BY <1>3, BeginAnswers
  <2>2. \A h \in Handle : Before(NoHandle, h)
    BY DEF Before, NoHandle, Handle, Page
  <2>3. FoundInv'
    BY <2>1, AnswerFound
  <2>4. ScanInv'
    BY <1>2, <2>1, <2>2, AnswerScans
  <2> QED
    BY <1>0, <2>3, <2>4 DEF SearchInv
<1>4. CASE Sui \/ Infx
  <2>1. /\ Answer(scan.last, target) /\ target' = target /\ target \in Targets
        /\ st' = "open" /\ UNCHANGED <<npages, page, entry>>
        /\ Answered(scan.must, scan.seen)
    BY <1>4, SuiAnswers, InfxAnswers
  <2>2. scan.on /\ scan \in ScanSet
    BY <1>4 DEF Sui, Infx, SearchInv, SearchTypeInv, SearchTyped
  <2>3. /\ scan.last \in Handle
        /\ \A h \in scan.must : Matches(target, h) /\ h \in Handle
                                /\ (h \in scan.seen \/ Before(scan.last, h))
        /\ \A h \in scan.seen : h \in Handle /\ ~Before(scan.last, h)
    BY <2>2 DEF SearchInv, ScanInv, ScanSet
  <2>4. FoundInv'
    BY <2>1, AnswerFound
  <2>5. ScanInv'
    BY <1>2, <2>1, <2>3, AnswerScans
  <2> QED
    BY <1>0, <2>4, <2>5 DEF SearchInv
<1>5. ASSUME NEW h \in Handle, NEW t \in Targets \cup {"none"}, Probe(h, t)
      PROVE  SearchInv'
  <2>1. LocateFrom(h, t) /\ scan' = NoScan /\ TypeInv
    BY <1>5 DEF Probe, SearchInv, SearchTypeInv
  <2>2. ScanInv'
    BY <2>1 DEF NoScan, ScanInv
  <2>3. FoundInv'
    <3>1. CASE h[1] < npages /\ target' # "none"
      <4>1. Answer(h, target') /\ UNCHANGED <<npages, page, entry>>
        BY <2>1, <3>1, LocateAnswers DEF LocateFrom, InMemoryOnly
      <4> QED
        BY <4>1, AnswerFound
    <3>2. CASE ~(h[1] < npages /\ target' # "none")
      BY <2>1, <3>2, LocateRefused, RefusedFound
    <3> QED
      BY <3>1, <3>2
  <2> QED
    BY <1>0, <2>2, <2>3 DEF SearchInv
<1>6. CASE UNCHANGED searchVars
  BY <1>0, <1>6 DEF searchVars, vars, SearchInv, FoundInv, ScanInv, Matches, Used
<1> QED
  BY <1>1, <1>3, <1>4, <1>5, <1>6 DEF SearchNext

LEMMA SearchInvInit == SearchInit => SearchInv
BY SearchInitTyped DEF SearchInit, SearchInv, FoundInv, ScanInv, NoRet, NoScan

LEMMA SearchInvAlways ==
  ASSUME OnlySettledSearches
  PROVE  SearchSpec => []SearchInv
<1>1. SearchInv /\ [SearchNext]_searchVars => SearchInv'
  BY SearchStep
<1> QED
  BY <1>1, SearchInvInit, PTL DEF SearchSpec

-----------------------------------------------------------------------------
(* What the searches promise.                                              *)

LEMMA SearchInvFound == SearchInv => FoundMatches
BY DEF SearchInv, FoundInv, FoundMatches

\* Every handle that c_xdfloc2 returns is that of a record that matches the search, however
\* searches, scans and writes alternate.
THEOREM FoundCorrect ==
  ASSUME OnlySettledSearches
  PROVE  SearchSpec => []FoundMatches
<1>1. SearchSpec => []SearchInv
  BY SearchInvAlways
<1> QED
  BY <1>1, SearchInvFound, PTL

ProbesExact ==
  scan' = NoScan /\ ret'.code # "none" =>
    \A h \in Handle \cup {NoHandle}, t \in Targets : h[1] < npages /\ Probe(h, t) =>
      IF Following(h, t) = {}
      THEN ret'.code = "ERR_NOT_FOUND"
      ELSE /\ ret'.code = "found"
           /\ ret'.handle \in Following(h, t)
           /\ \A g \in Following(h, t) : ~Before(g, ret'.handle)

LEMMA ProbeStep == SearchTypeInv => ProbesExact
<1> SUFFICES ASSUME SearchTypeInv, NEW h \in Handle \cup {NoHandle}, NEW t \in Targets,
                    h[1] < npages, Probe(h, t)
             PROVE  IF Following(h, t) = {}
                    THEN ret'.code = "ERR_NOT_FOUND"
                    ELSE /\ ret'.code = "found"
                         /\ ret'.handle \in Following(h, t)
                         /\ \A g \in Following(h, t) : ~Before(g, ret'.handle)
  BY DEF ProbesExact
<1>1. Answer(h, t)
  BY LocatedAnswers DEF Probe, SearchTypeInv
<1>2. CASE Following(h, t) = {}
  BY <1>1, <1>2 DEF Answer, Refused, Failed
<1>3. CASE Following(h, t) # {}
  <2>1. PICK f \in Following(h, t) :
          (\A g \in Following(h, t) : g = f \/ Before(f, g)) /\ Returned(f)
    BY <1>1, <1>3 DEF Answer
  <2>2. ret'.code = "found" /\ ret'.handle = f
    BY <2>1 DEF Returned
  <2>3. \A g \in Following(h, t) : g[1] \in Int /\ g[2] \in Int
    BY DEF Following, Handle, Page, Rec
  <2>4. \A g \in Following(h, t) : ~Before(g, f)
    BY <2>1, <2>3 DEF Before
  <2> QED
    BY <1>3, <2>1, <2>2, <2>4
<1> QED
  BY <1>2, <1>3

\* A search that begins at a record of the directory, or before the first, returns the first
\* record after it that matches, and fails only if there is none, whatever the calls before
\* left in the position.
THEOREM ProbesCorrect == SearchSpec => ProbeIsExact
<1>1. SearchTypeInv /\ [SearchNext]_searchVars => SearchTypeInv'
  BY SearchStepTyped
<1> QED
  BY <1>1, SearchInitTyped, ProbeStep, PTL DEF SearchSpec, ProbeIsExact, ProbesExact

ScanComplete ==
  scan.on /\ ~scan'.on /\ scan'.settled =>
    ret'.code = "ERR_NOT_FOUND" /\ scan.must \subseteq scan.seen
NoRepeat == scan.on /\ scan'.on /\ ret'.code = "found" => ret'.handle \notin scan.seen

LEMMA ScanStep ==
  ASSUME OnlySettledSearches
  PROVE  SearchInv /\ SearchNext => ScanComplete /\ NoRepeat
<1> SUFFICES ASSUME SearchInv, SearchNext, scan.on
             PROVE  /\ ~scan'.on /\ scan'.settled =>
                         ret'.code = "ERR_NOT_FOUND" /\ scan.must \subseteq scan.seen
                    /\ scan'.on /\ ret'.code = "found" => ret'.handle \notin scan.seen
  BY DEF ScanComplete, NoRepeat
<1>1. CASE FileStep
  <2>1. ret'.code # "found" /\ (scan' = NoScan \/ scan'.on)
    <3>1. scan \in ScanSet
      BY DEF SearchInv, SearchTypeInv, SearchTyped
    <3> QED
      BY <1>1, <3>1 DEF FileStep, NoRet, ScanSet
  <2> QED
    BY <2>1 DEF NoScan
<1>2. CASE Sui \/ Infx
  <2>1. Answer(scan.last, target) /\ Answered(scan.must, scan.seen)
    BY <1>2, SuiAnswers, InfxAnswers
  <2>2. /\ \A h \in scan.must : Matches(target, h) /\ (h \in scan.seen \/ Before(scan.last, h))
        /\ \A h \in scan.seen : h \in Handle /\ ~Before(scan.last, h)
        /\ \A h \in scan.must : h \in Handle
    BY DEF SearchInv, ScanInv, SearchTypeInv, SearchTyped, ScanSet
  <2>3. CASE Following(scan.last, target) = {} /\ Refused("ERR_NOT_FOUND")
    <3>1. ret'.code = "ERR_NOT_FOUND"
      BY <2>3 DEF Refused, Failed
    <3>2. scan.must \subseteq scan.seen
      BY <2>2, <2>3 DEF Following
    <3> QED
      BY <3>1, <3>2
  <2>4. ASSUME NEW h \in Following(scan.last, target), Returned(h)
        PROVE  scan'.on /\ ret'.handle \notin scan.seen
    BY <2>1, <2>2, <2>4 DEF Following, Returned, Answered
  <2> QED
    BY <2>1, <2>3, <2>4 DEF Answer
<1>3. ASSUME NEW t \in Targets, Begin(t) PROVE FALSE
  BY <1>3 DEF Begin
<1>4. ASSUME NEW h \in Handle, NEW t \in Targets \cup {"none"}, Probe(h, t)
      PROVE  scan' = NoScan
  BY <1>4 DEF Probe
<1> QED
  BY <1>1, <1>2, <1>3, <1>4 DEF SearchNext, NoScan

\* A scan ends when it has returned every record that matched when it began and ever since.
THEOREM ScansComplete ==
  ASSUME OnlySettledSearches
  PROVE  SearchSpec => ScanIsComplete
<1>1. SearchSpec => []SearchInv
  BY SearchInvAlways
<1>2. SearchInv /\ SearchNext => ScanComplete
  BY ScanStep
<1> QED
  BY <1>1, <1>2, PTL DEF SearchSpec, ScanIsComplete, ScanComplete

\* A scan returns no record twice, whatever is written while it goes on.
THEOREM ScansDoNotRepeat ==
  ASSUME OnlySettledSearches
  PROVE  SearchSpec => ScanDoesNotRepeat
<1>1. SearchSpec => []SearchInv
  BY SearchInvAlways
<1>2. SearchInv /\ SearchNext => NoRepeat
  BY ScanStep
<1> QED
  BY <1>1, <1>2, PTL DEF SearchSpec, ScanDoesNotRepeat, NoRepeat
=============================================================================
