----------------------------- MODULE BitPacking -----------------------------
(***************************************************************************)
(* Arrays of integers packed into words: the macros of bitPacking.h and    *)
(* compact_integer.c.  A token of "bits" bits follows the one before it,   *)
(* across the words, from bit off_set of the packed array on.              *)
(*                                                                         *)
(* With a header a token is x - min, shifted right until it fits; without  *)
(* one it is x itself, to which half the range is added when it is signed. *)
(* A size of -1 asks for the smallest one.                                 *)
(*                                                                         *)
(* A word is a natural number below 2^WordSize, a pointer into the packed  *)
(* array an index of it.  Tokens are no wider than a word (the branches    *)
(* with inSignificantBit > 0 are left out) and stride is 1.  The parts     *)
(* that the code joins with | do not overlap, and are added.               *)
(***************************************************************************)
EXTENDS Integers, Sequences, SequencesExt

CONSTANTS
    WordSize,     \* wordSize: 32, a power of 2
    ShortSize,    \* the bits of a short
    CharSize      \* the bits of a char

ASSUME SizesAssumption ==
    /\ WordSize \in Nat \ {0} /\ WordSize % 2 = 0
    /\ ShortSize \in 1..WordSize /\ CharSize \in 1..ShortSize

Auto   == -1      \* autodetection of the bit length
Words  == 2^WordSize

\* Shifts of a word.  C leaves a count outside 0..WordSize-1 undefined; the processor's
\* shift takes it modulo WordSize.
Left(w, k)  == (w % 2^(WordSize - (k % WordSize))) * 2^(k % WordSize)
Right(w, k) == w \div 2^(k % WordSize)

Signed(w)   == IF w < Words \div 2 THEN w ELSE w - Words
BitsIn(n)   == CHOOSE b \in 0..WordSize : n < 2^b /\ \A c \in 0..b-1 : n >= 2^c
Largest(s)  == CHOOSE x \in ToSet(s) : \A y \in ToSet(s) : x >= y
Smallest(s) == CHOOSE x \in ToSet(s) : \A y \in ToSet(s) : x <= y
AbsMax(s)   == IF -Smallest(s) > Largest(s) THEN -Smallest(s) ELSE Largest(s)

-----------------------------------------------------------------------------
(* Writing tokens: p is the packed array, the slot of its next word, the   *)
(* bits gathered for it and the room they leave.                           *)

Stuff(p, token, bits) ==
    IF p.space >= bits
    THEN [p EXCEPT !.last = (Left(p.last, bits) + token) % Words, !.space = p.space - bits]
    ELSE [packed |-> [p.packed EXCEPT ![p.slot] =
                        (Left(p.last, p.space) + Right(token, bits - p.space)) % Words],
          slot |-> p.slot + 1, last |-> token, space |-> WordSize - (bits - p.space)]

\* What the first lines of Pack leave: the bits before off_set are gathered already.
PackAt(packed, off_set) ==
    LET space == WordSize - (off_set % WordSize)
        slot  == off_set \div WordSize
    IN  [packed |-> packed, slot |-> slot, space |-> space,
         last |-> IF space = WordSize THEN 0 ELSE Right(packed[slot], space)]

\* The token for x, before it is masked: how it is made is in h.
Token(x, h) == IF h.header THEN Right((x - h.min) % Words, h.shift)
                           ELSE (x + h.positiveMask) % Words

\* Tokens of a whole word that start on a word are stored as they are.
Pack32Bit(p, array, h) ==
    [i \in DOMAIN p.packed |->
        IF i \in p.slot .. p.slot + Len(array) - 1 THEN Token(array[i - p.slot + 1], h)
                                                   ELSE p.packed[i]]

PackBit(p, array, h) ==
    FoldLeft(LAMBDA q, x : Stuff(q, Token(x, h) % (h.cleanupMask + 1), h.bits), p, array)

\* What follows the last token is cleared.
NothingAfterMutant(p) ==
    IF p.space < WordSize THEN [p.packed EXCEPT ![p.slot] = Left(p.last, p.space)] ELSE p.packed

\* The last word keeps the bits that follow the last token.
Squeeze(p) ==
    IF p.space < WordSize
    THEN [p.packed EXCEPT ![p.slot] = (Left(p.last, p.space) + (@ % 2^p.space)) % Words]
    ELSE p.packed

Pack(packed, off_set, array, h) ==
    LET p == PackAt(packed, off_set)
    IN  IF p.space = WordSize /\ h.bits = WordSize
        THEN Pack32Bit(p, array, h)
        ELSE Squeeze(PackBit(p, array, h))

-----------------------------------------------------------------------------
(* Reading tokens: r is the slot of the word being read, what is left of   *)
(* it at the top of a word, and the number of bits left.                   *)

NextWord(packed, r) == [slot |-> r.slot + 1, word |-> packed[r.slot + 1], left |-> WordSize]

\* A token that ends with the word is taken for one that goes on in the next.
LastTokenMutant(packed, r, bits) ==
    LET high == Right(r.word, WordSize - bits)
        rest == bits - r.left
        next == packed[r.slot + 1]
        s    == IF r.left > bits
                THEN [r EXCEPT !.word = Left(@, bits), !.left = @ - bits]
                ELSE [slot |-> r.slot + 1, word |-> Left(next, rest), left |-> WordSize - rest]
    IN  [token |-> IF r.left > bits THEN high ELSE high + Right(next, WordSize - rest),
         at    |-> IF s.left = 0 THEN NextWord(packed, s) ELSE s]

Extract(packed, r, bits) ==
    LET high == Right(r.word, WordSize - bits)
        rest == bits - r.left                      \* bits of the token in the next word
        next == packed[r.slot + 1]
        s    == IF r.left >= bits
                THEN [r EXCEPT !.word = Left(@, bits), !.left = @ - bits]
                ELSE [slot |-> r.slot + 1, word |-> Left(next, rest), left |-> WordSize - rest]
    IN  [token |-> IF r.left >= bits THEN high ELSE high + Right(next, WordSize - rest),
         at    |-> IF s.left = 0 THEN NextWord(packed, s) ELSE s]

\* Where the token at bit off_set starts, and count tokens from there on.
ExtractAt(packed, off_set) ==
    [slot |-> off_set \div WordSize, left |-> WordSize - (off_set % WordSize),
     word |-> Left(packed[off_set \div WordSize], off_set % WordSize)]

ExtractAll(packed, at, count, bits) ==
    LET step(a, i) == LET e == Extract(packed, a.at, bits)
                      IN  [at |-> e.at, tokens |-> Append(a.tokens, e.token)]
    IN  FoldLeft(step, [at |-> at, tokens |-> <<>>], [i \in 1..count |-> i])

Unpack(packed, off_set, count, h) ==
    LET value(t) == IF h.header THEN (Left(t, h.shift) + h.min) % Words
                                ELSE (t - h.positiveMask) % Words
        tokens == ExtractAll(packed, ExtractAt(packed, off_set), count, h.bits).tokens
    IN  [i \in 1..count |-> value(tokens[i])]

-----------------------------------------------------------------------------
(* compact_integer, compact_short, compact_char.                           *)

\* The header: the range of the array, and the shift that makes it fit.
FindMinMax(array) == [min |-> Smallest(array), max |-> Largest(array)]

ConstructHeader(array, size) ==
    LET m        == FindMinMax(array)
        required == BitsIn((m.max - m.min) % Words)
    IN  [bits  |-> IF size = Auto THEN required ELSE size,
         shift |-> IF size # Auto /\ required > size THEN required - size ELSE 0,
         min |-> m.min, max |-> m.max, count |-> Len(array)]

\* The packer's settings.  With a header, cleanupMask is left as it was computed from
\* the size that was asked for.
CleanupMask(size) == Right(Words - 1, WordSize - size)
NoHeader(bits, positiveMask) ==
    [header |-> FALSE, bits |-> bits, shift |-> 0, min |-> 0,
     positiveMask |-> positiveMask, cleanupMask |-> CleanupMask(bits)]
WithHeader(hd, size) ==
    [header |-> TRUE, bits |-> hd.bits, shift |-> hd.shift, min |-> hd.min,
     positiveMask |-> 0, cleanupMask |-> CleanupMask(size)]
SignMask(bits) == Left(1, bits - 1)

\* The sign is not counted, or always is.
NoSignBitMutant(array, size, signed, header) ==
    IF header THEN WithHeader(ConstructHeader(array, size), size)
    ELSE LET bits == CASE size # Auto -> size
                       [] size = Auto /\ signed -> BitsIn(AbsMax(array))
                       [] OTHER -> BitsIn(Largest(array))
         IN  NoHeader(bits, IF signed THEN SignMask(bits) ELSE 0)

SignAlwaysMutant(array, size, signed, header) ==
    IF header THEN WithHeader(ConstructHeader(array, size), size)
    ELSE LET bits == IF size # Auto THEN size ELSE BitsIn(AbsMax(array)) + 1
         IN  NoHeader(bits, IF signed THEN SignMask(bits) ELSE 0)

\* opCode 1 (unsigned) and 3 (signed), with or without a header.
PackInfoInteger(array, size, signed, header) ==
    IF header THEN WithHeader(ConstructHeader(array, size), size)
    ELSE LET bits == CASE size # Auto -> size
                       [] size = Auto /\ signed -> BitsIn(AbsMax(array)) + 1
                       [] OTHER -> BitsIn(Largest(array))
         IN  NoHeader(bits, IF signed THEN SignMask(bits) ELSE 0)

\* opCode 2 and 4: what the header says, or the size the caller gives.
UnpackInteger(packed, off_set, count, h, signed) ==
    LET words == Unpack(packed, off_set, count, h)
    IN  IF signed THEN [i \in 1..count |-> Signed(words[i])] ELSE words

\* opCode 5 and 9: unsigned, no header.
PackInfoShort(array, size) ==
    NoHeader(IF size = Auto THEN BitsIn(Largest(array)) ELSE size, 0)
PackInfoChar(array, size) ==
    NoHeader(IF size = Auto THEN BitsIn(Largest(array)) ELSE size, 0)

\* opCode 6 and 10: the words are stored into narrower elements.
UnpackShort(packed, off_set, count, h) ==
    [i \in 1..count |-> Unpack(packed, off_set, count, h)[i] % 2^ShortSize]
UnpackChar(packed, off_set, count, h) ==
    [i \in 1..count |-> Unpack(packed, off_set, count, h)[i] % 2^CharSize]
=============================================================================
