------------------------------ MODULE WordStore ------------------------------
(***************************************************************************)
(* What the word-addressable files of c_baseio.c promise: each file is a   *)
(* sequence of words; a write replaces words or extends the file, a read   *)
(* answers the words that are there, and nothing else changes a file.      *)
(* Whether words are in memory or on disk cannot be told.                  *)
(***************************************************************************)
EXTENDS Naturals, Sequences

CONSTANTS Files, Junk  \* Junk: the words of a hole, which nobody wrote

VARIABLES words, open, answer, ended

vars == <<words, open, answer, ended>>

\* The file s with the words w from address a on.
Put(s, a, w) ==
    [i \in 1..(IF a + Len(w) - 1 > Len(s) THEN a + Len(w) - 1 ELSE Len(s)) |->
        IF i \in a..(a + Len(w) - 1) THEN w[i - a + 1]
        ELSE IF i <= Len(s) THEN s[i] ELSE Junk]

\* The words of s from address a on, n of them or as many as there are.
Get(s, a, n) == SubSeq(s, a, IF a + n - 1 > Len(s) THEN Len(s) ELSE a + n - 1)

Init ==
    /\ words \in [Files -> Seq(Nat)]
    /\ open = [f \in Files |-> FALSE]
    /\ answer = <<>>
    /\ ended = FALSE

Connect(f) ==
    /\ open'[f] = ~open[f] /\ \A g \in Files \ {f} : open'[g] = open[g]
    /\ UNCHANGED <<words, answer, ended>>

Write(f, a, w) ==
    /\ open[f] /\ answer' = <<>>
    /\ words'[f] = Put(words[f], a, w)
    /\ \A g \in Files \ {f} : words'[g] = words[g]
    /\ UNCHANGED <<open, ended>>

Read(f, a, n) ==
    /\ open[f] /\ answer' = Get(words[f], a, n)
    /\ UNCHANGED <<words, open, ended>>

\* A stream answers all the words that are asked for, or none.
ReadAll(f, a, n) ==
    /\ open[f]
    /\ answer' = IF a + n - 1 <= Len(words[f]) THEN SubSeq(words[f], a, a + n - 1) ELSE <<>>
    /\ UNCHANGED <<words, open, ended>>

\* The library may end the process, and does so when a call cannot be served.
End ==
    /\ ended' /\ ~ended
    /\ UNCHANGED <<words, open, answer>>
=============================================================================
