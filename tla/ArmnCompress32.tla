--------------------------- MODULE ArmnCompress32 ---------------------------
(***************************************************************************)
(* c_armn_compress32 (armn_compress_32.c): a field of IEEE real numbers is *)
(* three streams, of the signs in runs, of the exponents and of as many    *)
(* bits of the mantissas as are asked for.                                 *)
(*                                                                         *)
(* A real number is a word: a sign, ExponentBits, the mantissa.  A stream  *)
(* is a record of its parts: the lengths by which the reader skips from    *)
(* one to the next are left out, and the words they take are counted.      *)
(***************************************************************************)
EXTENDS ArmnCompress

CONSTANTS
    ExponentBits,     \* 8
    Sequence,         \* 7: signs behind a bit SEQUENCE
    CountBits         \* 6: bits of a count behind a bit COUNT and the sign

ASSUME PartsAssumption ==
    /\ ExponentBits \in 1 .. WordSize - 2
    /\ CountBits = Sequence - 1 /\ Sequence > 3

MantissaBits == (WordSize - 1) - ExponentBits

Sign(x)     == x \div 2^(WordSize - 1)
Exponent(x) == (x \div 2^MantissaBits) % 2^ExponentBits
Mantissa(x) == x % 2^MantissaBits

\* Bytes of a stream, and its words when its length is a multiple of four.
Bytes(z)       == 1 + (4 * z.slot)
WordsPadded(z) == z.slot + 1

-----------------------------------------------------------------------------
(* pack1bitRLE: the shortest runs go into a SEQUENCE, a longer run is one  *)
(* COUNT or several, and a repeated COUNT of 255 takes eight bits.         *)

Longest  == 2^CountBits - 2                  \* 62
Repeated == 2^(CountBits + 2) - 1            \* 255, 0xFF
RunLength(signs, p) ==
    CHOOSE c \in 1 .. Len(signs) - p :
        /\ \A q \in p + 1 .. p + c : signs[q] = signs[p + 1]
        /\ p + c = Len(signs) \/ signs[p + c + 1] # signs[p + 1]

Count(value, count) ==
    <<[token |-> 1, bits |-> 1], [token |-> value, bits |-> 1],
      [token |-> count, bits |-> CountBits]>>

\* The count is not cut.
LongCountMutant(signs, p, repeat) ==
    LET left == RunLength(signs, p)
    IN  CASE left <= Sequence ->
               LET last == Min({p + Sequence, Len(signs)})
               IN  [tokens |-> Sized(<<0>> \o SubSeq(signs, p + 1, last), 1), to |-> last]
          [] left > 2^(CountBits + 2) /\ repeat ->
               [tokens |-> <<[token |-> Repeated, bits |-> CountBits + 2]>>, to |-> p + Repeated]
          [] OTHER ->
               LET count == Min({left, Longest + 1})
               IN  [tokens |-> Count(signs[p + 1], count), to |-> p + count]

\* The tokens for the signs from p on, and where the next ones start.
NextRun(signs, p, repeat) ==
    LET left == RunLength(signs, p)
    IN  CASE left <= Sequence ->
               LET last == Min({p + Sequence, Len(signs)})
               IN  [tokens |-> Sized(<<0>> \o SubSeq(signs, p + 1, last), 1), to |-> last]
          [] left > 2^(CountBits + 2) /\ repeat ->
               [tokens |-> <<[token |-> Repeated, bits |-> CountBits + 2]>>, to |-> p + Repeated]
          [] OTHER ->
               LET count == Min({left, Longest})
               IN  [tokens |-> Count(signs[p + 1], count), to |-> p + count]

\* repeat: a COUNT of the same run was written, and it was the longest.
pack1bitRLE(signs) ==
    LET next(s, p, r) == [z |-> StuffAll(s.z, r.tokens), at |-> r.to,
                          repeat |-> r.to - p \in {Longest, Repeated}
                                     /\ RunLength(signs, p) > r.to - p]
        step(s, i) == IF s.at >= Len(signs) THEN s
                      ELSE next(s, s.at, NextRun(signs, s.at, s.repeat))
    IN  Push(FoldLeft(step, [z |-> Stream(Len(signs), 0), at |-> 0, repeat |-> FALSE], signs).z)

ReadRun(z, r, missing, last) ==
    LET type  == ExtractAll(z, r, 1, 1)
        value == ExtractAll(z, type.at, 1, 1)
        count == ExtractAll(z, value.at, 1, CountBits)
        few   == ExtractAll(z, type.at, Min({Sequence, missing}), 1)
    IN  IF type.tokens = <<0>> THEN [at |-> few.at, signs |-> few.tokens, last |-> last]
        ELSE IF count.tokens = <<Longest + 1>>
        THEN [at |-> count.at, signs |-> [i \in 1..Repeated |-> last], last |-> last]
        ELSE [at |-> count.at, signs |-> [i \in 1 .. count.tokens[1] |-> value.tokens[1]],
              last |-> value.tokens[1]]

unpack1bitRLE(z, npts) ==
    LET add(s, r) == [at |-> r.at, signs |-> s.signs \o r.signs, last |-> r.last]
        step(s, i) == IF Len(s.signs) >= npts THEN s
                      ELSE add(s, ReadRun(z, s.at, npts - Len(s.signs), s.last))
    IN  FoldLeft(step, [at |-> ExtractAt(z, 0), signs |-> <<>>, last |-> 1],
                 [i \in 1..npts |-> i]).signs

-----------------------------------------------------------------------------
(* c_armn_compress32.                                                      *)

compact_mask_char(signs) ==
    [w \in 0 .. Len(signs) \div WordSize |->
        FoldLeft(LAMBDA m, i : m + (signs[i] * 2^((i - 1) % WordSize)), 0,
                 [b \in 1 .. Min({WordSize, Len(signs) - (w * WordSize)}) |-> (w * WordSize) + b])]

\* Nothing but the sign when all are the same; a mask of bits when the runs take more
\* than two bits a sign, which the reader takes for runs (DIFF_SIGNE_STREAM).
Signs(signs) ==
    IF Cardinality(ToSet(signs)) = 1 THEN [code |-> "same", sign |-> signs[1], words |-> 0]
    ELSE LET z == pack1bitRLE(signs)
         IN  IF Bytes(z) > (2 * Len(signs)) \div (WordSize \div 4)
             THEN [code |-> "mask", z |-> compact_mask_char(signs), words |-> 1]
             ELSE [code |-> "packed", z |-> z.packed, words |-> 1 + WordsPadded(z)]

\* The exponents above the smallest, and the bits of the largest of them.
Exponents(fld, ni, nj) ==
    LET e    == [k \in DOMAIN fld |-> Exponent(fld[k])]
        low  == Smallest([i \in 1 .. ni * nj |-> e[i - 1]])
        need == BitsIn(Largest([i \in 1 .. ni * nj |-> e[i - 1]]) - low)
        code == [nbits |-> need, container |-> BitsIn(ExponentBits + 2), short |-> FALSE,
                 remaining_space |-> NoLimit]
        p    == packTokensParallelogram([k \in DOMAIN e |-> e[k] - low], ni, nj, code, 0)
    IN  IF need = 0 THEN [ok |-> TRUE, base |-> low, nbits |-> 0, words |-> 0]
        ELSE [ok |-> Bytes(p.z) <= ni * nj, base |-> low, nbits |-> need, z |-> p.z.packed,
              words |-> 1 + WordsPadded(p.z)]

\* The first bits of the mantissas.
Mantissas(fld, nbits) == [k \in DOMAIN fld |-> Mantissa(fld[k]) \div 2^(MantissaBits - nbits)]

Assembled(s, e, p, nbits) ==
    [predictor |-> "parallelogram32", nbits |-> nbits, signs |-> s, exponents |-> e,
     mantissas |-> p.z.packed, words |-> 2 + s.words + e.words + 1 + WordsPadded(p.z)]

WithMantissas(f, s, e, nbits) ==
    LET space == ((f.ni * f.nj * f.nbits) \div WordSize) - (2 + s.words + e.words + 1)
        code  == [nbits |-> nbits, container |-> BitsIn(MantissaBits + 2), short |-> FALSE,
                  remaining_space |-> space]
        p     == packTokensParallelogram(Mantissas(f.elems, nbits), f.ni, f.nj, code, 0)
    IN  IF p.ok THEN Assembled(s, e, p, nbits) ELSE NotCompressed

c_armn_compress32(f) ==
    LET e == Exponents(f.elems, f.ni, f.nj)
        s == Signs([i \in 1 .. f.ni * f.nj |-> Sign(f.elems[i - 1])])
    IN  IF f.ni < MinSide \/ f.nj < MinSide \/ ~ e.ok THEN NotCompressed
        ELSE WithMantissas(f, s, e, f.nbits - (1 + ExponentBits))

\* A number from its parts: the bits of the mantissa that were not written are zero.
Real(sign, exponent, mantissa, nbits) ==
    (sign * 2^(WordSize - 1)) + (exponent * 2^MantissaBits) + (mantissa * 2^(MantissaBits - nbits))

c_armn_uncompress32(stream, ni, nj) ==
    LET n     == ni * nj
        signs == IF stream.signs.code = "same" THEN [i \in 1..n |-> stream.signs.sign]
                 ELSE unpack1bitRLE(stream.signs.z, n)
        above == IF stream.exponents.nbits = 0 THEN [k \in 0 .. n - 1 |-> 0]
                 ELSE unpackTokensParallelogram(stream.exponents.z, ni, nj,
                          stream.exponents.nbits, 0, FALSE, ExponentBits)
        mantissas == unpackTokensParallelogram(stream.mantissas, ni, nj, stream.nbits, 0, FALSE,
                          WordSize)
    IN  [k \in 0 .. n - 1 |->
            Real(signs[k + 1], above[k] + stream.exponents.base, mantissas[k], stream.nbits)]
=============================================================================
