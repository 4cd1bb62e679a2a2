------------------------------ MODULE MCPacking -----------------------------
(* Words of 16 bits, shorts of 8, characters of 4: two calls one behind    *)
(* the other, from the start of a word and from within one, or a field.    *)
EXTENDS Packing

MCArrays == {<<0, 0>>, <<5, 3>>, <<65535, 6, 32770>>, <<100, 110, 97>>, <<90, 32965>>}
MCSizes  == {Auto, 1, 3, 16}
MCStarts == {0, 3}

Grid(ni, nj, nbits, f(_, _)) ==
    [ni |-> ni, nj |-> nj, nk |-> 1, nbits |-> nbits,
     elems |-> [k \in 1 .. ni * nj |-> f((k - 1) % ni, (k - 1) \div ni)]]

\* Slopes and flat fields; a field that needs the wide container; noise that does not
\* compress; odd numbers of elements; sides and sizes below the limits.
MCFields == {
    Grid(6, 6, 8, LAMBDA i, j : (3 * i) + j),
    Grid(6, 6, 8, LAMBDA i, j : IF i = j /\ i \in {1, 2} THEN 255 ELSE 0),
    Grid(6, 6, 8, LAMBDA i, j : IF i = 3 /\ j = 3 THEN 127 ELSE 0),
    Grid(5, 5, 8, LAMBDA i, j : IF (i + j) % 2 = 0 THEN 255 ELSE 0),
    Grid(5, 5, 3, LAMBDA i, j : (i + (2 * j)) % 3),
    Grid(7, 3, 8, LAMBDA i, j : 200 + i),
    Grid(7, 3, 8, LAMBDA i, j : IF i < 5 THEN 9 * (i + j) ELSE 4),
    Grid(7, 3, 7, LAMBDA i, j : IF i = 5 THEN 127 * (j % 2) ELSE 1),
    Grid(2, 2, 8, LAMBDA i, j : 255 * ((i + j) % 2)),
    Grid(2, 2, 2, LAMBDA i, j : i + j),
    Grid(4, 1, 2, LAMBDA i, j : i)}

Reals(ni, nj, nbits, f(_)) ==
    [ni |-> ni, nj |-> nj, nk |-> 1, nbits |-> nbits,
     elems |-> [k \in 0 .. (ni * nj) - 1 |-> f(k)]]

\* 2048 is a unit of the exponent.  Flat and negative; a long run of signs; exponents that
\* differ; numbers whose streams are longer than they are; exponents that are.
MCReals == {
    Reals(6, 7, 16, LAMBDA k : 32768 + 6144 + (17 * k)),
    Reals(6, 7, 11, LAMBDA k : 6144 + (17 * k)),
    Reals(6, 7, 16, LAMBDA k : IF k < 41 THEN 5 + k ELSE 32768),
    Reals(6, 7, 12, LAMBDA k : ((k \div 5) % 2) * 32768 + ((k \div 20) * 2048) + k),
    Reals(6, 7, 8, LAMBDA k : (k % 3) * 16384),
    Reals(6, 7, 16, LAMBDA k : (k * 12347) % 4096),
    Reals(6, 7, 16, LAMBDA k : (k * k * 12347) % 65536),
    Reals(6, 7, 16, LAMBDA k : ((k % 3) * 16384) + ((k * 1237) % 2048)),
    Reals(3, 7, 16, LAMBDA k : k)}

\* The exponents 12 to 14: a slope, a step from 0, numbers of both signs, one size of which
\* the last token is rounded up; one number only.
Floats(ni, nj, nbits, f(_)) == [Reals(ni, nj, nbits, f) EXCEPT !.elems =
                                    [i \in 1 .. ni * nj |-> f(i - 1)]]
MCFloats == {
    Floats(6, 6, 8, LAMBDA k : (13 * 2048) + (57 * k)),
    Floats(6, 6, 5, LAMBDA k : IF k < 20 THEN 0 ELSE (12 * 2048) + 2047),
    Floats(5, 5, 8, LAMBDA k : ((k % 2) * 32768) + ((12 + (k % 3)) * 2048) + (81 * k)),
    Floats(7, 3, 7, LAMBDA k : (13 * 2048) + (2047 - k)),
    Floats(5, 4, 4, LAMBDA k : IF k % 2 = 0 THEN (12 * 2048) + (97 * k) ELSE 20480 - (k * 512)),
    Floats(2, 2, 8, LAMBDA k : 32768 + (14 * 2048) + 1)}

MCJunk == {0, 255}
=============================================================================
