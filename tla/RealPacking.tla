---------------------------- MODULE RealPacking -----------------------------
(***************************************************************************)
(* Real numbers packed as integers: compact_float.c, for any number of     *)
(* bits, and float_packer.c, for tokens in shorts of at most so many bits. *)
(*                                                                         *)
(* A real number is a word, as in ArmnCompress32: neither an infinity nor  *)
(* none at all.  Its value is an integer, in units in which every number   *)
(* is one, and what is computed in doubles is exact.  compact_double       *)
(* differs in the type of its elements; their minimum, of which the header *)
(* keeps 24 bits, and the token for a missing value, which no caller asks  *)
(* for, are left out, as is the factor 1.0000000000001.                    *)
(***************************************************************************)
EXTENDS ArmnCompress32

Number(x) == Exponent(x) < 2^ExponentBits - 1

\* The mantissa with its hidden bit.
Significand(x) == 2^MantissaBits + Mantissa(x)

Negated(x, n) == IF Sign(x) = 1 THEN -n ELSE n

\* Numbers without a hidden bit are taken for 0.
ValueOf(x) == IF Exponent(x) = 0 THEN 0 ELSE Negated(x, Significand(x) * 2^Exponent(x))

BitsOf(n) == CHOOSE b \in 0 .. MantissaBits + 2^ExponentBits + 1 :
                n < 2^b /\ \A c \in 0 .. b - 1 : n >= 2^c

-----------------------------------------------------------------------------
(* compact_float: a token is the distance from the smallest value, in      *)
(* steps of the power of two above the largest of them over 2^size.        *)

\* The header, and EffectivePackedTokenSize, which is not in it.
FloatHeader(values, size, tokenSize) ==
    [min |-> Smallest(values), range |-> BitsOf(Largest(values) - Smallest(values)),
     size |-> size, bits |-> tokenSize]

Steps(n, h) == IF h.range >= h.size THEN n \div 2^(h.range - h.size)
                                    ELSE n * 2^(h.size - h.range)

FloatTokens(values, h) == [i \in DOMAIN values |-> Steps(values[i] - h.min, h)]

\* Tokens are taken to have the size in the header, whatever they were packed with.
UnpackFloat(words, off_set, count, h) ==
    LET tokens == ExtractAll(words, ExtractAt(words, off_set), count, h.size).tokens
        value(t) == IF h.range >= h.size THEN t * 2^(h.range - h.size)
                                         ELSE t \div 2^(h.size - h.range)
    IN  [i \in 1..count |-> value(tokens[i]) + h.min]

\* What a number may lose: less than a step.
FloatStep(h) == IF h.range > h.size THEN 2^(h.range - h.size) ELSE 1

-----------------------------------------------------------------------------
(* float_packer: mantissas, brought to the largest exponent, from the      *)
(* smallest of them on and rounded to nbits bits.                          *)

Aligned(x, maxExp) == Negated(x, Significand(x) \div 2^(maxExp - Exponent(x)))

\* The largest and the smallest number: the first when there are several.
Greatest(source) == source[CHOOSE i \in DOMAIN source :
                        \A j \in DOMAIN source : ValueOf(source[i]) >= ValueOf(source[j])]
Least(source)    == source[CHOOSE i \in DOMAIN source :
                        \A j \in DOMAIN source : ValueOf(source[i]) <= ValueOf(source[j])]

\* How far the mantissas go, for so many bits.
Shift2(maximum, nbits) ==
    CHOOSE s \in 0 .. MantissaBits + 2 :
        /\ maximum \div 2^s <= 2^nbits - 1
        /\ \A r \in 0 .. s - 1 : maximum \div 2^r > 2^nbits - 1

PackerHeader(source, nbits) ==
    LET fmax    == Greatest(source)
        fmin    == Least(source)
        maxExp  == Max({Exponent(fmax), Exponent(fmin)})
        end(x)  == IF Exponent(x) < 1 THEN 0 ELSE Aligned(x, maxExp)
    IN  [min |-> end(fmin), maxExp |-> maxExp, nbits |-> nbits,
         shift |-> Shift2(end(fmax) - end(fmin), nbits)]

PackerTokens(source, h) ==
    [i \in DOMAIN source |->
        Min({2^h.nbits - 1,
             ((Aligned(source[i], h.maxExp) - h.min) + (2^h.shift \div 2)) \div 2^h.shift})]

\* A mantissa of more bits is the largest one; its hidden bit may be missing.
UnpackToken(token, h) ==
    LET mantis == (token * 2^h.shift) + h.min
        most   == 2^(MantissaBits + 1) - 1
    IN  IF h.maxExp = 0 THEN 0
        ELSE Max({-most, Min({most, mantis})}) * 2^h.maxExp

\* What a number may lose: less than a step of a token, and of a mantissa.
PackerStep(h) == (2^h.shift + 1) * 2^h.maxExp
=============================================================================
