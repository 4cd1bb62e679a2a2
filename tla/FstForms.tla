------------------------------ MODULE FstForms ------------------------------
(***************************************************************************)
(* The data types of a field (fstd98.c): what c_fstecr makes of the type   *)
(* and the number of bits it is asked for, in which form it stores the     *)
(* elements, and which form c_fstluk takes a stored record for.            *)
(*                                                                         *)
(* Stored data are [form, bits, at, elems]: the packer's form, the bits of *)
(* an element, the word it starts at.  Unpacked as anything else they are  *)
(* Noise, as elements are that were taken for elements of another length   *)
(* or that do not fit.  Packing.tla is about the bits of the integers and  *)
(* the streams of the compressors.  Of the packers of real numbers, the    *)
(* elements come back.                                                     *)
(*                                                                         *)
(* Sizes are counted in bytes of Byte bits: nbits > 16 in the code reads   *)
(* nbits > 2 * Byte here.  The use_old_signed_pack_unpack_code is compiled *)
(* in, ieeepak_ is commented out.                                          *)
(***************************************************************************)
EXTENDS FstMissing

CONSTANTS
    Noise,             \* what bits read the wrong way give
    MinSide,           \* 16: c_armn_compress32 refuses a field with a shorter side
    CompressedWords    \* the lengths a compressed record may have, 64 bits each

\* A record that is compressed has at least the word of its length.
ASSUME FormsAssumption == CompressedWords \subseteq Nat \ {0}

Word == 4 * Byte       \* FTN_Bitmot, bitmot

CeilDiv(a, b) == (a + b - 1) \div b
Noisy(elems)  == [i \in DOMAIN elems |-> Noise]

\* The first words of data, for as many elements as they hold.
Kept(data, words) ==
    [data EXCEPT !.elems = [i \in DOMAIN @ |->
        IF (data.at * Word) + (i * data.bits) <= words * Word THEN @[i] ELSE Noise]]

-----------------------------------------------------------------------------
(* Writing.                                                                *)

\* The type without the missing value flag; complex fields have no flags.
BaseDatyp(datyp) ==
    LET base == IF (datyp \div 64) % 2 = 1 THEN datyp - 64 ELSE datyp
    IN  IF base % 16 = 8 THEN 8 ELSE base

HasMissing(datyp) == (datyp \div 64) % 2 = 1 /\ BaseDatyp(datyp) # 8

NbitsAsked(npak) ==
    CASE npak = 0 -> Word
      [] npak < 0 -> -npak
      [] npak > 0 -> Max({1, Word \div npak})

\* 133 has no more than a word; a real number of a word is written as IEEE.
Converted(call, image) ==
    LET base  == BaseDatyp(call.datyp)
        nbits == NbitsAsked(call.npak)
        ieee  == call.datyp = 133 /\ nbits > Word
        e32   == base = 1 /\ nbits \in {Word - 1, Word} /\ ~ image
    IN  [in_datyp |-> IF ieee THEN 5 ELSE base,
         datyp    |-> CASE ieee \/ e32 -> 5 [] base = 801 -> 1 [] OTHER -> base,
         nbits    |-> IF e32 THEN Word ELSE nbits]

Remapped(datyp, table) ==
    FoldLeft(LAMBDA d, pair : IF d = pair[1] THEN pair[2] ELSE d, datyp, table)

\* No compression of more than 16 bits, no new packer for more than 16.
Limited(datyp, nbits) ==
    LET d == IF nbits > 2 * Byte /\ datyp # 133 THEN datyp % 128 ELSE datyp
    IN  CASE d = 6 /\ nbits > 3 * Byte -> [datyp |-> 5, nbits |-> Word]
          [] d = 6 /\ nbits \in (2 * Byte) + 1 .. 3 * Byte -> [datyp |-> 1, nbits |-> nbits]
          [] OTHER -> [datyp |-> d, nbits |-> nbits]

\* The type and the number of bits the switch is entered with, and the type that the
\* missing values are encoded for.
Settled(call, image, table) ==
    LET c    == Converted(call, image)
        kept == IF call.npak \in {0, 1} THEN 0 ELSE c.datyp
        s    == Limited(IF image THEN kept ELSE Remapped(kept, table), c.nbits)
    IN  [in_datyp |-> c.in_datyp, datyp |-> s.datyp, nbits |-> s.nbits]

\* The length of a record that is not compressed, 64 bits each.
Nw(datyp, n, nbits) ==
    LET units(bits) == CeilDiv(bits, 2 * Word)
    IN  CASE datyp = 6   -> units((3 + CeilDiv(n, 2)) * Word)
          [] datyp = 134 -> units((4 + CeilDiv(n, 2)) * Word)
          [] datyp = 8   -> 2 * units(n * nbits)
          [] datyp = 129 -> units((n * Max({nbits, 2 * Byte})) + (5 * Word))
          [] datyp = 130 -> units((n * Max({nbits, 2 * Byte})) + Word)
          [] OTHER       -> units((n * nbits) + (15 * Byte))

\* The elements' length that the packer of a type assumes, given c_fst_data_length's.
AssumedLength(in_datyp, datyp, length) ==
    LET type == datyp % 128
    IN  CASE datyp = 133 \/ type = 6 -> 4
          [] type = 1 -> IF length = 8 \/ in_datyp = 801 THEN 8 ELSE 4
          [] type \in {2, 4} -> IF length = 8 THEN 4 ELSE length
          [] type \in {3, 7} -> 1
          [] OTHER -> length

Tokens(elems, bits, at) ==
    [form |-> "tokens", bits |-> bits, at |-> at,
     elems |-> [i \in DOMAIN elems |-> IF elems[i] \in 0 .. (2^bits - 1) THEN elems[i]
                                                                       ELSE Noise]]
Signed(elems, bits) ==
    [form |-> "signed", bits |-> bits, at |-> 0,
     elems |-> [i \in DOMAIN elems |->
        IF elems[i] \in -(2^(bits - 1)) .. (2^(bits - 1) - 1) THEN elems[i] ELSE Noise]]
Coded(form, elems, bits) == [form |-> form, bits |-> bits, at |-> 0, elems |-> elems]

\* The compressors are given one level, whatever nk is, and refuse some fields; any other
\* may be larger compressed.
FirstLevel(call, elems) ==
    [i \in DOMAIN elems |-> IF i <= call.ni * call.nj THEN elems[i] ELSE Noise]
MaySucceed(call, datyp) ==
    IF datyp = 133 THEN call.ni >= MinSide /\ call.nj >= MinSide ELSE call.ni > 1 /\ call.nj > 1

Plain(d, nbits, data) == [datyp |-> d, nbits |-> nbits, data |-> data, compressed |-> FALSE]
Compressed(d, nbits, data) == [Plain(d, nbits, data) EXCEPT !.compressed = TRUE]

\* In the cases below elems are the elements the packer sees, first those the compressor
\* does, flag is 64 for a field with missing values, and ok says whether compressing
\* succeeds.
Raw(elems, bytes, nbits, flag, datyp) ==
    Plain(IF datyp = 128 THEN 0 ELSE flag, nbits,
          Kept(Coded("raw", elems, bytes * Byte), CeilDiv(Len(elems) * nbits, Word)))

\* The entry keeps its type when the compression fails.
KeepsTypeMutant(elems, first, nbits, flag, datyp, ok) ==
    IF datyp = 129 /\ ok THEN Compressed(129 + flag, nbits, Coded("armn_real", first, 2 * Byte))
                         ELSE Plain(datyp + flag, nbits, Coded("real", elems, nbits))

\* What is compressed is packed in shorts, nbits + 64 * Max(16, nbits).
FloatingPoint(elems, first, nbits, flag, datyp, ok) ==
    CASE datyp = 1 -> Plain(1 + flag, nbits, Coded("real", elems, nbits))
      [] datyp = 129 /\ ok -> Compressed(129 + flag, nbits, Coded("armn_real", first, 2 * Byte))
      [] datyp = 129 /\ ~ ok -> Plain(1, nbits, Coded("real", elems, nbits))

\* A byte is sign extended to 16 bits; what could not be compressed stays in word 1.
UnsignedInteger(elems, first, length, nbits, flag, datyp, ok) ==
    LET bits  == CASE length = 1 -> Min({Byte, nbits})
                   [] length = 2 -> Min({2 * Byte, nbits})
                   [] OTHER -> nbits
        small == IF length = 1 THEN Min({Byte - 1, bits}) ELSE bits
    IN  CASE datyp = 2 -> Plain(2 + flag, bits, Tokens(elems, bits, 0))
          [] datyp = 130 /\ ok ->
               Compressed(130 + flag, bits, Coded("armn16", Tokens(first, small, 1).elems, bits))
          [] datyp = 130 /\ ~ ok ->
               Plain(2, bits, Tokens(IF length \in {1, 2} THEN Noisy(elems) ELSE elems, bits, 1))

\* Four characters in a word, of one level.  The record has the length it has for as many
\* elements of nbits bits.
Character(elems, call, nbits, flag, datyp) ==
    LET words == Min({CeilDiv(call.ni * call.nj, 4), 2 * Nw(datyp, Len(elems), nbits)})
    IN  Plain(IF datyp = 131 THEN 3 ELSE 3 + flag, Byte, Kept(Coded("chars", elems, Byte), words))

SignedInteger(elems, nbits, flag) == Plain(4 + flag, nbits, Signed(elems, nbits))

\* Only what is compressed is written.
Ieee(elems, first, nbits, flag, datyp, ok) ==
    CASE datyp = 133 /\ ok -> Compressed(133 + flag, nbits, Coded("ieee32", first, nbits))
      [] datyp = 133 /\ ~ ok -> Plain(5, nbits, Coded("zeros", Noisy(elems), nbits))
      [] datyp = 136 -> Plain(8, nbits, Coded("zeros", Noisy(elems), nbits))
      [] OTHER -> Plain(datyp + flag, nbits, Coded("zeros", Noisy(elems), nbits))

NewPacker(elems, first, nbits, flag, datyp, ok) ==
    CASE datyp = 6 -> Plain(6 + flag, nbits, Coded("float16", elems, nbits))
      [] datyp = 134 /\ ok -> Compressed(134 + flag, nbits, Coded("armn_float16", first, nbits))
      [] datyp = 134 /\ ~ ok -> Plain(6, nbits, Coded("float16", elems, nbits))

CharacterString(elems, nbits, flag, datyp) ==
    Plain(IF datyp = 135 THEN 7 ELSE 7 + flag, nbits,
          Kept(Tokens(elems, Byte, 0), 2 * Nw(datyp, Len(elems), nbits)))

\* The switch over the data types; no record for a type it has no case for.
Stored(call, s, length, elems, flag, ok) ==
    LET first == FirstLevel(call, elems)
    IN  CASE s.datyp \in {0, 128} -> {Raw(elems, call.elem, s.nbits, flag, s.datyp)}
          [] s.datyp \in {1, 129} -> {FloatingPoint(elems, first, s.nbits, flag, s.datyp, ok)}
          [] s.datyp \in {2, 130} ->
               {UnsignedInteger(elems, first, length, s.nbits, flag, s.datyp, ok)}
          [] s.datyp \in {3, 131} -> {Character(elems, call, s.nbits, flag, s.datyp)}
          [] s.datyp \in {4, 132} -> {SignedInteger(elems, s.nbits, flag)}
          [] s.datyp \in {5, 8, 133, 136} -> {Ieee(elems, first, s.nbits, flag, s.datyp, ok)}
          [] s.datyp \in {6, 134} -> {NewPacker(elems, first, s.nbits, flag, s.datyp, ok)}
          [] s.datyp \in {7, 135} -> {CharacterString(elems, s.nbits, flag, s.datyp)}
          [] OTHER -> {}

-----------------------------------------------------------------------------
(* Reading.                                                                *)

\* The form c_fstluk takes a record for: [form, bits, at].  compact_float and compact_double
\* unpack the number of bits in their header, nbits.
Taken(rec, length) ==
    LET datyp == BaseDatyp(rec.datyp)
        as(form, bits, at) == [form |-> form, bits |-> bits, at |-> at]
    IN  CASE datyp = 0   -> as("raw", rec.data.bits, 0)
          [] datyp = 1   -> as("real", rec.nbits, 0)
          [] datyp = 129 -> as("armn_real", rec.nbits, 0)
          [] datyp = 2   -> as("tokens", IF length = 1 THEN Byte ELSE rec.nbits, 0)
          [] datyp = 130 -> as("armn16", rec.nbits, 0)
          [] datyp = 3   -> as("chars", Byte, 0)
          [] datyp = 4   -> as("signed", rec.nbits, 0)
          [] datyp = 6   -> as("float16", rec.nbits, 0)
          [] datyp = 134 -> as("armn_float16", rec.nbits, 0)
          [] datyp = 133 -> as("ieee32", rec.nbits, 0)
          [] datyp = 7   -> as("tokens", Byte, 0)
          [] OTHER       -> as("not_read", 0, 0)

\* The elements c_fstluk unpacks before it decodes the missing values.
Unpacked(rec, length) ==
    IF [form |-> rec.data.form, bits |-> rec.data.bits, at |-> rec.data.at]
            = Taken(rec, length)
    THEN rec.data.elems ELSE Noisy(rec.data.elems)

\* The words that are copied in image mode.
ImageWords(rec) ==
    LET n == rec.ni * rec.nj * rec.nk
    IN  CASE rec.datyp % 64 = 1 -> CeilDiv((n * rec.nbits) + (15 * Byte), Word)
          [] rec.datyp % 64 = 3 -> CeilDiv(rec.ni * rec.nj * Byte, Word)
          [] OTHER -> CeilDiv(n * rec.nbits, Word)

\* What image mode hands over from a record to the application, or back.
Image(rec) ==
    IF rec.datyp >= 128 \/ rec.data.form \in {"real", "float16"} THEN rec.data
    ELSE Kept(rec.data, ImageWords(rec))
=============================================================================
