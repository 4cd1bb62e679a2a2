----------------------------- MODULE MCFstField ----------------------------
(* Bytes of 3 bits, so that a short has 6, an integer 12 and 24 bits is    *)
(* nbits = 64.  One file to write to and a unit that is not open.          *)
EXTENDS FstField

MCDefaults == [k \in Kinds |->
    CASE k \in Reals -> -900 [] k = "int" -> -2048 [] k = "short" -> -32 [] k = "byte" -> -4
      [] k = "uint" -> 4095 [] k = "ushort" -> 63 [] k = "ubyte" -> 7]
MCEnvironment == [MCDefaults EXCEPT !["ubyte"] = 6]
MCSettable == {[MCDefaults EXCEPT !["int"] = 9, !["ubyte"] = 2]}
MCMappings == {[mode |-> 2, datatype |-> 2, length |-> 1]}
MCStatus   == [u \in Units |-> IF u = 10 THEN "writable" ELSE "not open"]
MCRemaps   == {<<>>, <<<<129, 134>>, <<2, 130>>>>}
MCSearches == {<<0, -1, -1>>, <<0, 1, 0>>}

Call(key, elem, field, datyp, npak, rewrit) ==
    [key |-> key, ni |-> Len(field), nj |-> 1, nk |-> 1, elem |-> elem, field |-> field,
     datyp |-> datyp, npak |-> npak, rewrit |-> rewrit, valid |-> TRUE]

\* 2 x 2, and as many levels as there are elements for.
Grid(call) == [call EXCEPT !.ni = 2, !.nj = 2, !.nk = Len(call.field) \div 4]

\* Unsigned bytes, signed integers and compressed doubles, each with a missing one; compressed
\* real numbers of two levels, a transparent field; a type that does not exist and an
\* argument out of its range.
MCWrites == {
    Grid(Call(<<0, 0, 0>>, 1, <<2, 6, 1, 3>>, 66, -3, FALSE)),
    Call(<<0, 1, 0>>, 4, <<-3, -2048, 9>>, 132 + 64, -5, TRUE),
    Grid(Call(<<0, 0, 0>>, 8, <<3, 5, -900, 4>>, 129 + 64, -6, FALSE)),
    Grid(Call(<<0, 0, 0>>, 4, <<4, 1, 1, 7, 2, 8, 1, 3>>, 133, -10, TRUE)),
    Call(<<1, 0, 1>>, 2, <<3, 1>>, 2, 1, TRUE),
    Call(<<0, 0, 0>>, 4, <<1>>, 9, -5, TRUE),
    [Call(<<0, 0, 0>>, 4, <<1>>, 1, -5, TRUE) EXCEPT !.valid = FALSE]}
=============================================================================
