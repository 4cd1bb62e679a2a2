---------------------------- MODULE ArmnCompress ----------------------------
(***************************************************************************)
(* armn_compress (c_zfstlib.c): a field of ni x nj tokens of at most nbits *)
(* bits, one in a short, becomes a stream of tokens of as many bits as the *)
(* values of a tile need: above the smallest one (MINIMUM), or away from   *)
(* what the three neighbours before predict (PARALLELOGRAM).               *)
(*                                                                         *)
(* A field is a function on 0 .. ni*nj - 1, row after row.  The first word *)
(* of a stream, the structure _fstzip, is kept as a record; SAMPLE, which  *)
(* ends the process, is left out.  fastlog and log give the number of bits *)
(* of an integer, BitsIn.  Where the code says 16, 15, 17, 4 and 5 bits,   *)
(* ShortSize and what follows from it is meant.                            *)
(***************************************************************************)
EXTENDS BitPacking

CONSTANTS
    MinSide,      \* 16: no predictor for a field with a shorter side
    FewBits       \* 4: nor for tokens of no more bits than that

Raw    == ShortSize - 1       \* nbits_needed of a tile that is stored as it is
Narrow == BitsIn(Raw)         \* nbits_req_container
Wide   == Narrow + 1

CeilDiv(a, b) == (a + b - 1) \div b

-----------------------------------------------------------------------------
(* Tiles of a field, and tokens of a stream.                               *)

FTN2C(i, j, ni) == (ni * (j - 1)) + i - 1

\* The tile at i, j: as far as the field goes.
Tile(i, j, ni, nj, istep) ==
    LET width  == Min({istep, ni - i + 1})
        height == Min({istep, nj - j + 1})
    IN  [c \in 1 .. width * height |-> FTN2C(i + ((c - 1) % width), j + ((c - 1) \div width), ni)]

Tiles(first, ni, nj, istep) ==
    LET columns == CeilDiv(ni - first + 1, istep)
        rows    == CeilDiv(nj - first + 1, istep)
    IN  [t \in 1 .. columns * rows |->
            Tile(first + (istep * ((t - 1) % columns)), first + (istep * ((t - 1) \div columns)),
                 ni, nj, istep)]

Values(fld, tile) == [c \in DOMAIN tile |-> fld[tile[c]]]

\* fld with the values of a tile.
WithTile(fld, tile, values) ==
    [k \in ToSet(tile) |-> values[CHOOSE c \in DOMAIN tile : tile[c] = k]] @@ fld

Sized(values, bits) == [v \in DOMAIN values |-> [token |-> values[v], bits |-> bits]]

StuffAll(p, tokens) == FoldLeft(LAMBDA q, t : Stuff(q, t.token, t.bits), p, tokens)

\* A stream behind a number of words, in memory for more words than are asked for.
Stream(n, words) == PackAt([i \in 0 .. (2 * n) + 4 |-> 0], words * WordSize)

\* Two whole words push the last tokens out.
PushMutant(p) == Stuff(Stuff(p, 0, WordSize), 0, WordSize)

\* Two zeros push the last tokens out: p.slot words are written.
Push(p) == Stuff(Stuff(p, 0, ShortSize), 0, ShortSize)

-----------------------------------------------------------------------------
(* MINIMUM: tiles of 5 x 5, from the smallest value on.                    *)

NbitsNeeded(n) == IF BitsIn(n) = ShortSize THEN Raw ELSE BitsIn(n)

MinimumTokens(values, low, need, nbits) ==
    Sized(<<need>>, Narrow) \o
    CASE need = 0   -> Sized(<<low>>, nbits)
      [] need = Raw -> Sized(values, ShortSize)
      [] OTHER      -> Sized(<<low>>, nbits) \o
                       Sized([v \in DOMAIN values |-> values[v] - low], need)

MinimumTile(p, values, nbits) ==
    StuffAll(p, MinimumTokens(values, Smallest(values),
                              NbitsNeeded(Largest(values) - Smallest(values)), nbits))

packTokensMinimum(fld, ni, nj, nbits, istep) ==
    Push(FoldLeft(LAMBDA p, tile : MinimumTile(p, Values(fld, tile), nbits),
                  Stream(ni * nj, 1), Tiles(1, ni, nj, istep)))

ReadMinimum(z, r, need, count, nbits) ==
    CASE need = 0 ->
            LET low == ExtractAll(z, r, 1, nbits)
            IN  [at |-> low.at, tokens |-> [c \in 1..count |-> low.tokens[1]]]
      [] need = Raw -> ExtractAll(z, r, count, ShortSize)
      [] OTHER ->
            LET low  == ExtractAll(z, r, 1, nbits)
                rest == ExtractAll(z, low.at, count, need)
            IN  [at |-> rest.at, tokens |-> [c \in 1..count |-> rest.tokens[c] + low.tokens[1]]]

unpackTokensMinimum(z, ni, nj, nbits, istep) ==
    LET step(s, tile) ==
            LET need == ExtractAll(z, s.at, 1, Narrow)
                read == ReadMinimum(z, need.at, need.tokens[1], Len(tile), nbits)
            IN  [at |-> read.at, fld |-> WithTile(s.fld, tile, read.tokens)]
    IN  FoldLeft(step, [at |-> ExtractAt(z, WordSize), fld |-> <<>>],
                 Tiles(1, ni, nj, istep)).fld

-----------------------------------------------------------------------------
(* PARALLELOGRAM: the first row and the first column as they are, the      *)
(* others as their distance from the value predicted, in tiles of 3 x 3.   *)
(* code has the bits of an element, those of nbits_needed, whether an      *)
(* element is a short, for which 16 bits are written as 15, and the words  *)
(* that the tokens may take.                                               *)

Inside(k, ni)  == k >= ni /\ k % ni > 0
Edges(ni, nj)  == [i \in 1..ni |-> FTN2C(i, 1, ni)] \o [j \in 1..nj - 1 |-> FTN2C(1, j + 1, ni)]
Predicted(f, k, ni) == (f[k - ni] + f[k - 1]) - f[k - 1 - ni]

Differences(fld, ni, nj) ==
    [k \in 0 .. (ni * nj) - 1 |-> IF Inside(k, ni) THEN fld[k] - Predicted(fld, k, ni) ELSE 0]

\* A distance may have one bit more than a short, and its size then needs five bits.
Container(fld, ni, nj, nbits) ==
    LET d == Differences(fld, ni, nj)
    IN  IF nbits >= Raw /\ \E k \in DOMAIN d : d[k] >= 2^ShortSize \/ -d[k] >= 2^ShortSize
        THEN Wide ELSE Narrow

SizeOf(n, code)     == IF code.short THEN NbitsNeeded(n) ELSE BitsIn(n)
TokenBits(need, code) == IF code.short /\ need = Raw THEN ShortSize + 1 ELSE need + 1

DifferenceTile(p, values, need, code) ==
    StuffAll(p, Sized(<<need>>, code.container) \o
        (IF need = 0 THEN <<>>
         ELSE Sized([v \in DOMAIN values |-> values[v] % 2^TokenBits(need, code)],
                    TokenBits(need, code))))

\* Nine elements of a tile more must fit; only c_armn_compress32 has a limit.
NoLimit == Words
HasRoom(code, need, slot) ==
    code.remaining_space >= slot + 1 + ((need + (9 * code.nbits)) \div WordSize)

\* Tiles are written as long as there is room.
packTokensParallelogram(fld, ni, nj, code, words) ==
    LET d     == Differences(fld, ni, nj)
        edges == Sized(<<code.container>>, 3) \o Sized(Values(fld, Edges(ni, nj)), code.nbits)
        tile(s, need, values) ==
            LET p == DifferenceTile(s.p, values, need, code)
            IN  [p |-> p, ok |-> need = 0 \/ HasRoom(code, need, p.slot)]
        step(s, cells) ==
            IF s.ok THEN tile(s, SizeOf(AbsMax(Values(d, cells)), code), Values(d, cells)) ELSE s
        last == FoldLeft(step, [p |-> StuffAll(Stream(ni * nj, words), edges), ok |-> TRUE],
                         Tiles(2, ni, nj, 3))
    IN  [ok |-> last.ok, z |-> Push(last.p)]

SignExtended(t, bits) == IF t >= 2^(bits - 1) THEN t - 2^bits ELSE t

ReadDifferences(z, r, need, count, code) ==
    IF need = 0 THEN [at |-> r, tokens |-> [c \in 1..count |-> 0]]
    ELSE LET read == ExtractAll(z, r, count, TokenBits(need, code))
         IN  [at |-> read.at,
              tokens |-> [c \in 1..count |-> SignExtended(read.tokens[c], TokenBits(need, code))]]

\* A value is added to its prediction in an element of so many bits.
Summed(edges, tmp, ni, nj, bits) ==
    FoldLeft(LAMBDA f, k : [k2 \in {k} |-> IF Inside(k, ni) THEN (tmp[k] + Predicted(f, k, ni)) % 2^bits
                                                           ELSE edges[k]] @@ f,
             <<>>, [k \in 1 .. ni * nj |-> k - 1])

unpackTokensParallelogram(z, ni, nj, nbits, words, short, bits) ==
    LET container == ExtractAll(z, ExtractAt(z, words * WordSize), 1, 3)
        edges     == ExtractAll(z, container.at, ni + nj - 1, nbits)
        code      == [nbits |-> nbits, container |-> container.tokens[1], short |-> short]
        step(s, tile) ==
            LET need == ExtractAll(z, s.at, 1, code.container)
                read == ReadDifferences(z, need.at, need.tokens[1], Len(tile), code)
            IN  [at |-> read.at, tmp |-> WithTile(s.tmp, tile, read.tokens)]
        tmp == FoldLeft(step, [at |-> edges.at, tmp |-> <<>>], Tiles(2, ni, nj, 3)).tmp
    IN  Summed(WithTile(<<>>, Edges(ni, nj), edges.tokens), tmp, ni, nj, bits)

-----------------------------------------------------------------------------
(* armn_compress: a field of shorts two to a word, in the order of memory  *)
(* on a little-endian machine.                                             *)

Half == 2^ShortSize
SwapHalves(w) == (w \div Half) + ((w % Half) * Half)
ShortOf(words, k) == IF k % 2 = 0 THEN words[k \div 2] % Half ELSE words[k \div 2] \div Half

\* Tokens packed from the top of a word down are swapped into the order of memory.
Swapped(words, n, swapStream) ==
    [i \in DOMAIN words |-> IF swapStream /\ i < (1 + n) \div 2 THEN SwapHalves(words[i])
                                                               ELSE words[i]]

NotCompressed == [predictor |-> "none", words |-> 0, nbits |-> 0]

ByMinimum(f, level) == level = 0 \/ f.ni < MinSide \/ f.nj < MinSide \/ f.nbits <= FewBits

\* The stream: c_fstzip with the predictor of the field.
Zipped(fld, f, level) ==
    IF ByMinimum(f, level) THEN packTokensMinimum(fld, f.ni, f.nj, f.nbits, 5)
    ELSE packTokensParallelogram(fld, f.ni, f.nj,
            [nbits |-> f.nbits, container |-> Container(fld, f.ni, f.nj, f.nbits),
             short |-> TRUE, remaining_space |-> NoLimit], 1).z

Refused(f) == f.nbits > ShortSize \/ f.ni = 1 \/ f.nj = 1

\* One level is compressed, and its bytes are compared with those of all nk levels.
Larger(z, f) == 1 + (4 * z.slot) >= 1 + (2 * f.ni * f.nj * f.nk)

Shorts(words, f) == [k \in 0 .. (f.ni * f.nj) - 1 |-> ShortOf(words, k)]

Unzipped(z, f, header) ==
    IF header.predictor = "minimum" THEN unpackTokensMinimum(z, f.ni, f.nj, header.nbits, 5)
    ELSE unpackTokensParallelogram(z, f.ni, f.nj, header.nbits, 1, TRUE, ShortSize)

\* (1 + ni*nj/2) words are copied, the shorts behind the field as malloc left them.
Unpacked16(words, fld, n, junk) ==
    LET at(k) == IF k < n THEN fld[k] % Half ELSE junk
    IN  [i \in DOMAIN words |-> IF i <= n \div 2 THEN at(2 * i) + (at((2 * i) + 1) * Half)
                                                ELSE words[i]]

\* c_armn_compress_setlevel; -1 is never set, and stands for BEST.
SetLevelTo(v) == IF v = 1 THEN 1 ELSE 0
=============================================================================
