------------------------------ MODULE SeqTape ------------------------------
(***************************************************************************)
(* What a sequential standard file promises: a tape of records and of end- *)
(* of-file marks with one position.  Writing cuts the tape behind what is  *)
(* written; a search goes forward and stops at a mark, and at a deleted    *)
(* record too.  Two things it does not promise.  A search that begins      *)
(* behind a record followed by marks only may fall short and leave the     *)
(* position where it began.  And a tape without the end mark, left by a    *)
(* process that died, may be frayed: words stand behind it that any call   *)
(* may read as if they belonged to it, and is lost.                        *)
(***************************************************************************)
EXTENDS Integers, Sequences

CONSTANTS
  Keys,
  Levels

VARIABLES
  items,   \* the tape; the mark EOF, if it is there, is the last item
  at,      \* the number of items before the position
  open,    \* a process has the file open
  answer,  \* what the last search or read returned: the number of the item or the level of
           \* the mark, the keys searched for or read, the item after which it began
  frayed,  \* there are words behind the last item
  short    \* the last search fell short

tapeVars == <<items, at, open, answer, frayed, short>>

EOF == 15

Item == [what : {"rec", "dead", "mark"}, key : Keys \cup {"none"}, level : Levels \cup {0, EOF}]
EofMark == [what |-> "mark", key |-> "none", level |-> EOF]

Nothing == [code |-> "none", n |-> 0, for |-> {}, after |-> -1]

\* The record found stays found while only the position moves.
Held == answer' = IF answer.code = "found"
                  THEN [Nothing EXCEPT !.code = "found", !.n = answer.n] ELSE Nothing

Kept == SubSeq(items, 1, at)

Init ==
  /\ items = <<>> /\ at = 0 /\ open = FALSE /\ answer = Nothing
  /\ ~frayed /\ ~short

HasEnd == \E i \in 1..Len(items) : items[i] = EofMark

\* The file is created or opened: the position is before the first item.
Open ==
  /\ ~open /\ open' = TRUE
  /\ at' = 0 /\ answer' = Nothing
  /\ UNCHANGED <<items, frayed>>

\* The file is closed, or the process dies.
Leave ==
  /\ open /\ open' = FALSE
  /\ at' = 0 /\ answer' = Nothing
  /\ UNCHANGED items
  /\ frayed' => frayed

\* A record or a mark is written at the position; the tape ends behind it.
Write ==
  /\ open /\ UNCHANGED open /\ answer' = Nothing
  /\ at' = at + 1 /\ ~frayed'
  /\ LET new == items'
     IN  new[at'] \in Item /\ new = Kept \o <<new[at'], EofMark>>

\* The process dies while it writes: the tape has the item, and no end behind it, but
\* maybe what stood there before.
TornWrite ==
  /\ open /\ ~open' /\ answer' = Nothing
  /\ at' = 0 /\ frayed' \in BOOLEAN
  /\ LET new == items'
     IN  new # <<>> /\ new[Len(new)] \in Item /\ new = Append(Kept, new[Len(new)])

\* The end of file is written at the position.
Cut ==
  /\ open /\ UNCHANGED open /\ answer' = Nothing
  /\ UNCHANGED at /\ ~frayed'
  /\ items' = Append(Kept, EofMark)

Delete ==
  LET tape == items
  IN  /\ open /\ answer' = Nothing /\ UNCHANGED <<at, open, frayed>>
      /\ \E i \in 1..Len(tape) : /\ tape[i].what = "rec"
                                 /\ items' = [tape EXCEPT ![i].what = "dead"]

\* The position moves over records, not over marks.
Move ==
  LET tape == items
  IN  /\ open /\ Held
      /\ \E p \in 0..Len(tape) :
           /\ at' = p
           /\ \A i \in 1..Len(tape) :
                (at < i /\ i <= p) \/ (p < i /\ i <= at) => tape[i].what # "mark"
      /\ UNCHANGED <<items, open, frayed>>

Rewind ==
  /\ open /\ at' = 0 /\ Held
  /\ UNCHANGED <<items, open, frayed>>

\* A search from the position or after a record.  It passes records that do not match,
\* and stops at the first item that is a matching record, a mark or a deleted record.
Search ==
  LET tape  == items
      from  == IF answer'.after = -1 THEN at ELSE answer'.after
      Stops == {i \in from + 1 .. Len(tape) :
                  tape[i].what # "rec" \/ tape[i].key \in answer'.for}
      stop  == CHOOSE i \in Stops : \A j \in Stops : i <= j
      Answer(c, n) == answer'.code = c /\ answer'.n = n
  IN  /\ open /\ ~short' /\ UNCHANGED <<open, frayed>>
      /\ IF Stops = {}
         THEN answer'.code = "end" /\ at' = Len(tape)
         ELSE CASE tape[stop].what = "rec"  -> Answer("found", stop) /\ at' = stop
                [] tape[stop].what = "mark" ->
                     /\ Answer("end", tape[stop].level)
                     /\ at' = IF tape[stop] = EofMark THEN stop - 1 ELSE stop
                [] tape[stop].what = "dead" -> Answer("end", 0) /\ at' = stop - 1
      /\ UNCHANGED items

\* The search stays where it began, and answers that it met no mark.
FallShort ==
  LET tape == items
      from == IF answer'.after = -1 THEN at ELSE answer'.after
  IN  /\ open /\ short' /\ (answer'.after = -1 => short)
      /\ from \in 1..Len(tape) /\ tape[from].what # "mark"
      /\ \A i \in from + 1 .. Len(tape) : tape[i].what = "mark"
      /\ answer'.code = "end" /\ answer'.n = 0 /\ at' = from
      /\ UNCHANGED <<items, open, frayed>>

\* A call reads what stands behind a frayed tape, or goes back from behind a tape without
\* an end.
Stray ==
  /\ open /\ answer' = [Nothing EXCEPT !.code = "lost"]
  /\ frayed \/ (at = Len(items) /\ ~HasEnd)
  /\ UNCHANGED <<items, at, open, frayed>>

\* The record found last is read.
Read ==
  /\ open /\ answer.code = "found"
  /\ answer' = [Nothing EXCEPT !.code = "read", !.n = answer.n,
                                !.for = {items[answer.n].key}]
  /\ UNCHANGED <<items, at, open, frayed>>

\* A call that was refused.
Refused ==
  /\ answer' = Nothing
  /\ UNCHANGED <<items, at, open, frayed>>

\* A call that is lost is the last one before the file is closed.
Call ==
  \/ answer'.code \in {"found", "end"} /\ Search
  \/ answer'.code = "read" /\ Read
  \/ Write \/ TornWrite \/ Cut \/ Delete \/ Rewind \/ Move \/ Stray \/ Refused

Next ==
  \/ FallShort /\ answer.code # "lost"
  \/ (short' => short) /\ (Open \/ Leave \/ (answer.code # "lost" /\ Call))

Spec == Init /\ [][Next]_tapeVars
=============================================================================
