---------------------------- MODULE MCFileTable ----------------------------
(***************************************************************************)
(* Small instance of FileTable: a random file, a sequential one and an     *)
(* archive with a member that is found and one that is not, a name that is *)
(* refused, six indexes of which three fit a sequential handle: a handle   *)
(* of another file made before the first sequential file is opened stays   *)
(* in use after it.                                                        *)
(***************************************************************************)
EXTENDS FileTable, TLC
CONSTANTS NoMember
MCFiles == {"a", "b", "c"}
MCNames == {[file |-> "a", sub |-> NoMember], [file |-> "b", sub |-> NoMember],
            [file |-> "c", sub |-> "in"], [file |-> "c", sub |-> "out"], [file |-> "a", sub |-> "/"]}
MCBadNames == {[file |-> "a", sub |-> "/"]}
MCMembers == [f \in MCFiles |-> IF f = "c" THEN {"in"} ELSE {}]
MCDisks == {[a |-> x, b |-> "seq", c |-> "other"] : x \in {"absent", "busy"}}
MCTypes == [n \in MCNames |-> CASE n.file = "b" -> {{"STD", "SEQ", "R/O"}}
                                  [] n = [file |-> "a", sub |-> NoMember] ->
                                       {{"STD", "RND"}, {"STD", "SEQ", "R/O"}}
                                  [] OTHER -> {{"STD", "RND"}}]

\* States that differ in the flag wa of an entry or the attributes of one whose name was
\* refused, which no action reads, in the order of the entries, which none depends on, or in
\* the names of the units, are one.
Renamings == {[u \in {-1, 1234567} \cup 0..(Top + 1) |-> IF u \in Units THEN p[u] ELSE u] :
                 p \in Permutations(Units)}
Seen(en, r) == IF en.name = NoName THEN [EmptyEntry EXCEPT !.iun = r[en.iun]]
               ELSE [en EXCEPT !.iun = r[@], !.wa = FALSE]
Renamed(r) ==
  <<{Seen(FGFDT[e], r) : e \in Entries}, wafile,
    [i \in Indexes |-> [file_table[i] EXCEPT !.iun = r[@]]], STDSEQ_opened, fds, disk,
    {[h EXCEPT !.iun = r[@]] : h \in handles}>>
MCView == {Renamed(r) : r \in Renamings}
=============================================================================
