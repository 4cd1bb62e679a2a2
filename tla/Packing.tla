------------------------------ MODULE Packing -------------------------------
(***************************************************************************)
(* A packed array that several calls share: each packs an array of         *)
(* integers, shorts, characters or real numbers behind the last one, where *)
(* the last one ended, or again over one packed before with the same       *)
(* settings.                                                               *)
(*                                                                         *)
(* An array asked for with autodetection needs less than a whole word:     *)
(* with a header cleanupMask is computed from the size -1, which leaves    *)
(* its top bit out (compact_integer.c:413), and without one abs(INT_MIN)   *)
(* is negative, or the sign bit makes the size 33.  A header goes with     *)
(* compact_integer only: compact_short and compact_char record a minimum   *)
(* in it that they neither subtract nor add.                               *)
(*                                                                         *)
(* Or one field, packed alone, is compressed in place, written to a file,  *)
(* read back into another buffer and uncompressed there: armn_compress as  *)
(* c_fstecr and c_fstluk call it.  Real numbers go through it in shorts,   *)
(* or have a stream of their own: c_armn_compress32.                       *)
(***************************************************************************)
EXTENDS RealPacking

CONSTANTS
    Arrays,       \* the arrays, as words: taken modulo the width of their elements
    Sizes,        \* the sizes asked for
    Starts,       \* bits of the packed array in use before the first call
    PackedWords,  \* its length
    MaxCalls,
    Fields,       \* fields to compress: [ni, nj, nk, nbits, elems]
    RealFields,   \* fields of real numbers to compress as such, nbits for one of them
    FloatFields,  \* fields of real numbers to pack in shorts, with nbits for one of them
    Junk          \* what memory nobody wrote may hold in a short

\* float_packer cannot tell 0 from the smallest numbers, and is not given those.
ASSUME CallsAssumption ==
    /\ Sizes \subseteq {Auto} \cup 1..WordSize
    /\ \A f \in FloatFields :
        /\ f.nbits \in 1..ShortSize
        /\ \A i \in DOMAIN f.elems : Number(f.elems[i])
        /\ \E i \in DOMAIN f.elems : Exponent(f.elems[i]) > MantissaBits

VARIABLES
    packed,       \* the packed array
    segments,     \* what was packed: where, how, and the array that was given
    free,         \* the bit at which the next call packs
    field,        \* the field packed alone
    stream,       \* the header of the stream it is compressed to
    level,        \* fstcompression_level
    reals         \* a field of real numbers: what was given, the packer's header, the stream,
                  \* what was read

vars == <<packed, segments, free, field, stream, level, reals>>

NoField == [ni |-> 0, nj |-> 0, nk |-> 0, nbits |-> 0, elems |-> <<>>]
NoReals == [given |-> NoField, packer |-> "none", header |-> <<>>,
            stream |-> NotCompressed, read |-> <<>>]

Kinds   == [type : {"integer"}, signed : BOOLEAN, header : BOOLEAN]
           \cup [type : {"short", "char"}, signed : {FALSE}, header : {FALSE}]
           \cup [type : {"real"}, signed : {TRUE}, header : {TRUE}]

Width(kind) == CASE kind.type \in {"integer", "real"} -> WordSize
                 [] kind.type = "short"   -> ShortSize
                 [] kind.type = "char"    -> CharSize

\* The elements of an array, as the type of the call has them.
Elements(array, kind) ==
    [i \in DOMAIN array |-> CASE kind.type = "real" -> ValueOf(array[i])
                             [] kind.type # "real" /\ kind.signed -> Signed(array[i])
                             [] OTHER -> array[i] % 2^Width(kind)]

PackInfo(array, size, kind) ==
    CASE kind.type = "integer" -> PackInfoInteger(array, size, kind.signed, kind.header)
      [] kind.type = "short"   -> PackInfoShort(array, size)
      [] kind.type = "char"    -> PackInfoChar(array, size)
      [] kind.type = "real"    -> FloatHeader(array, size, size)

Packed(words, off_set, array, h, kind) ==
    IF kind.type = "real" THEN Pack(words, off_set, FloatTokens(array, h), NoHeader(h.bits, 0))
                          ELSE Pack(words, off_set, array, h)

Unpacked(s) ==
    CASE s.kind.type = "integer" -> UnpackInteger(packed, s.at, Len(s.given), s.how, s.kind.signed)
      [] s.kind.type = "short"   -> UnpackShort(packed, s.at, Len(s.given), s.how)
      [] s.kind.type = "char"    -> UnpackChar(packed, s.at, Len(s.given), s.how)
      [] s.kind.type = "real"    -> UnpackFloat(packed, s.at, Len(s.given), s.how)
      [] s.kind.type = "memory"  -> [i \in DOMAIN s.given |-> ShortOf(packed, i - 1)]

Fits(array, size, kind) ==
    LET elements == Elements(array, kind)
    IN  IF kind.type = "real" THEN size # Auto /\ \A i \in DOMAIN array : Number(array[i])
        ELSE size = Auto =>
            IF kind.header THEN BitsIn(Largest(elements) - Smallest(elements)) < WordSize
            ELSE kind.signed => /\ AbsMax(elements) < Words \div 2
                                /\ BitsIn(AbsMax(elements)) < WordSize

\* The first word holds arbitrary bits: the packer leaves those it does not own.
Init ==
    /\ packed = [i \in 0..PackedWords - 1 |-> ((Words - 1) \div 3) * (1 + (i % 2))]
    /\ segments = <<>>
    /\ free \in Starts
    /\ field = NoField
    /\ stream = NotCompressed
    /\ level = -1
    /\ reals = NoReals

\* An array behind the others.
PackBehind ==
    \E array \in Arrays, size \in Sizes, kind \in Kinds :
        LET elements == Elements(array, kind)
            h == PackInfo(elements, size, kind)
        IN  /\ field = NoField /\ reals = NoReals
            /\ Len(segments) < MaxCalls
            /\ Fits(array, size, kind)
            /\ free + h.bits * Len(array) < (PackedWords - 1) * WordSize
            /\ packed' = Packed(packed, free, elements, h, kind)
            /\ segments' = Append(segments,
                    [kind |-> kind, asked |-> size, how |-> h, at |-> free, given |-> elements])
            /\ free' = free + h.bits * Len(array)
            /\ UNCHANGED <<field, stream, level, reals>>

\* Another array of as many tokens of the same size over one that was packed.
PackOver ==
    \E i \in DOMAIN segments, array \in Arrays :
        LET s == segments[i]
            elements == Elements(array, s.kind)
            h == PackInfo(elements, s.asked, s.kind)
        IN  /\ Len(array) = Len(s.given)
            /\ Fits(array, s.asked, s.kind)
            /\ h.bits = s.how.bits
            /\ packed' = Packed(packed, s.at, elements, h, s.kind)
            /\ segments' = [segments EXCEPT ![i].how = h, ![i].given = elements]
            /\ UNCHANGED <<free, field, stream, level, reals>>

-----------------------------------------------------------------------------
(* A field alone: c_fstecr and c_fstluk.                                   *)

\* The field's elements in shorts, packed by a packer of real numbers from the top of a
\* word down, or as integers are copied, in the order of memory.
InMemory(words, elems) ==
    LET half(w, k) == IF k \in DOMAIN elems THEN elems[k]
                      ELSE IF k % 2 = 1 THEN w % Half ELSE w \div Half
    IN  [i \in DOMAIN words |-> half(words[i], (2 * i) + 1) + (half(words[i], (2 * i) + 2) * Half)]

Packing(f, type) ==
    LET h == PackInfoShort(f.elems, ShortSize)
    IN  /\ segments = <<>> /\ free = 0 /\ field = NoField /\ reals = NoReals
        /\ packed' = IF type = "short" THEN Pack(packed, 0, f.elems, h)
                                       ELSE InMemory(packed, f.elems)
        /\ segments' = <<[kind |-> [type |-> type, signed |-> FALSE, header |-> FALSE],
                          asked |-> ShortSize, how |-> h, at |-> 0, given |-> f.elems]>>
        /\ free' = ShortSize * Len(f.elems)
        /\ field' = f
        /\ UNCHANGED <<stream, level>>

PackField ==
    /\ \E f \in Fields, type \in {"short", "memory"} : Packing(f, type)
    /\ UNCHANGED reals

\* Data types 129 and 134: real numbers of nbits bits in shorts.
PackReals ==
    \E f \in FloatFields, packer \in {"compact_float", "float_packer"} :
        LET values == [i \in DOMAIN f.elems |-> ValueOf(f.elems[i])]
            header == IF packer = "compact_float" THEN FloatHeader(values, f.nbits, ShortSize)
                                                  ELSE PackerHeader(f.elems, f.nbits)
            tokens == IF packer = "compact_float" THEN FloatTokens(values, header)
                                                  ELSE PackerTokens(f.elems, header)
        IN  /\ Packing([f EXCEPT !.elems = tokens], "short")
            /\ reals' = [reals EXCEPT !.given = f, !.packer = packer, !.header = header]

\* c_armn_compress_setlevel, which c_fstopc and c_fstopi call for TURBOCOMP; the level is
\* read when a field is compressed only.
SetLevel ==
    /\ field # NoField /\ stream = NotCompressed
    /\ \E v \in 0..2 : level' = SetLevelTo(v)
    /\ UNCHANGED <<packed, segments, free, field, stream, reals>>

\* c_armn_compress_setswap(0) goes before and (1) behind every call for integers.
swapStream == segments[1].kind.type = "short"

InOrder(words) == Swapped(words, field.ni * field.nj, swapStream)
StreamOf(words) == Zipped(Shorts(words, field), field, level)

KeepOriginal(z) ==
    /\ Larger(z, field)
    /\ packed' = InOrder(InOrder(packed))
    /\ UNCHANGED stream

\* The file holds the words of the stream, the buffer it is read into anything behind.
KeepStream(z) ==
    /\ ~ Larger(z, field)
    /\ \E junk \in Junk :
         packed' = [i \in DOMAIN packed |-> IF i < z.slot THEN z.packed[i] ELSE junk * (1 + Half)]
    /\ stream' = [predictor |-> IF ByMinimum(field, level) THEN "minimum" ELSE "parallelogram",
                  words |-> z.slot, nbits |-> field.nbits]

CompressField ==
    /\ field # NoField /\ stream = NotCompressed
    /\ ~ Refused(field)
    /\ LET z == StreamOf(InOrder(packed)) IN KeepOriginal(z) \/ KeepStream(z)
    /\ UNCHANGED <<segments, free, field, level, reals>>

UncompressField ==
    /\ stream # NotCompressed
    /\ \E junk \in Junk :
         packed' = InOrder(Unpacked16(packed, Unzipped(packed, field, stream),
                                      field.ni * field.nj, junk))
    /\ stream' = NotCompressed
    /\ UNCHANGED <<segments, free, field, level, reals>>

\* What c_armn_compress32 returns is kept, or written as uncompressed when it fails.
CompressReals ==
    \E f \in RealFields :
        /\ segments = <<>> /\ reals.stream = NotCompressed
        /\ reals' = [NoReals EXCEPT !.given = f, !.stream = c_armn_compress32(f)]
        /\ UNCHANGED <<packed, segments, free, field, stream, level>>

UncompressReals ==
    /\ reals.stream # NotCompressed
    /\ reals' = [reals EXCEPT !.stream = NotCompressed,
            !.read = c_armn_uncompress32(reals.stream, reals.given.ni, reals.given.nj)]
    /\ UNCHANGED <<packed, segments, free, field, stream, level>>

Next == \/ PackBehind \/ PackOver
        \/ PackField \/ PackReals \/ SetLevel \/ CompressField \/ UncompressField
        \/ CompressReals \/ UncompressReals

Spec == Init /\ [][Next]_vars

-----------------------------------------------------------------------------
TypeOK ==
    /\ packed \in [0..PackedWords - 1 -> 0..Words - 1]
    /\ free \in 0..PackedWords * WordSize
    /\ Len(segments) <= MaxCalls
    /\ \A i \in DOMAIN segments : segments[i].how.bits \in 0..WordSize
    /\ reals.packer = "none" => field \in Fields \cup {NoField}
    /\ stream.predictor \in {"none", "minimum", "parallelogram"}
    /\ level \in -1..1
    /\ reals.given \in RealFields \cup FloatFields \cup {NoField}

\* x modulo 2^bits, in the range of a signed token of that size when it is signed.
Wrapped(x, bits, signed) ==
    LET half == IF signed THEN 2^(bits - 1) ELSE 0 IN ((x + half) % 2^bits) - half

\* What unpacking a token may return for x: with a header, x up to the bits shifted out;
\* without, x modulo the size.
Kept(x, h, signed) ==
    IF h.header THEN (((x - h.min) \div 2^h.shift) * 2^h.shift) + h.min
                ELSE Wrapped(x, h.bits, signed)

\* Unpacking any array packed so far, with the settings its packing returned, gives the
\* array back as far as its tokens hold it, whatever was packed before, behind or over
\* its neighbours (stuff, extract, and the bits Pack keeps in its first and last words),
\* and after armn_compress has compressed and uncompressed it, or has refused to.
ArraysComeBack ==
    stream = NotCompressed =>
    \A i \in DOMAIN segments :
        LET s == segments[i]
        IN  s.how.bits > 0 /\ s.kind.type # "real" =>
                Unpacked(s) = [j \in DOMAIN s.given |-> Kept(s.given[j], s.how, s.kind.signed)]

\* A size found by autodetection loses nothing.
AutodetectionKeepsAll ==
    \A i \in DOMAIN segments :
        LET s == segments[i]
        IN  s.asked = Auto /\ s.how.bits > 0 => Unpacked(s) = s.given

\* No call of a packer changes a bit of the packed array outside the tokens it writes.
InTokens == \A i \in DOMAIN segments : segments[i].kind.type # "memory"
BitOf(p, b) == (p[b \div WordSize] \div 2^((WordSize - 1) - (b % WordSize))) % 2
OtherBitsAreKept ==
    [][stream' = stream /\ InTokens' =>
       \A w \in DOMAIN packed : packed'[w] # packed[w] =>
         \A b \in w * WordSize .. ((w + 1) * WordSize) - 1 :
           BitOf(packed', b) # BitOf(packed, b) =>
             \E i \in DOMAIN segments' :
                /\ i \in DOMAIN segments => segments'[i] # segments[i]
                /\ b \in segments'[i].at ..
                         segments'[i].at + segments'[i].how.bits * Len(segments'[i].given) - 1]_vars

\* No predictor writes more words than armn_compress allocates for its stream, which is
\* compared with the field only when it is complete (c_zfstlib.c:88).
StreamsFit ==
    field # NoField /\ stream = NotCompressed /\ ~ Refused(field) =>
        StreamOf(InOrder(packed)).slot <= field.ni * field.nj * field.nk

Near(x, y, step) == x - y < step /\ y - x < step

\* What the unpacker of a field of real numbers makes of its tokens.
RealsRead ==
    LET tokens == Unpacked(segments[1])
    IN  IF reals.packer = "compact_float"
        THEN UnpackFloat(packed, 0, Len(reals.given.elems), reals.header)
        ELSE [i \in DOMAIN tokens |-> UnpackToken(tokens[i], reals.header)]

PrecisionOf(packer, h) == IF packer = "compact_float" THEN FloatStep(h) ELSE PackerStep(h)

\* Fields compressed with fewer bits than a short has, which compact_float does not read.
Misread == reals.packer = "compact_float" /\ reals.header.size # reals.header.bits

\* Real numbers that c_armn_compress32 compressed come back with their signs, their
\* exponents and the bits of their mantissas that were asked for.
StreamsOfRealsComeBack ==
    reals.read # <<>> =>
        LET cut == 2^(WordSize - reals.given.nbits)
        IN  reals.read = [k \in DOMAIN reals.given.elems |->
                             (reals.given.elems[k] \div cut) * cut]

\* Real numbers packed as integers come back no farther from what was given than the
\* packer's step.
PackedRealsComeBack ==
    /\ \A i \in DOMAIN segments :
        LET s == segments[i]
        IN  s.kind.type = "real" =>
              \A j \in DOMAIN s.given : Near(Unpacked(s)[j], s.given[j], FloatStep(s.how))
    /\ reals.packer # "none" /\ stream = NotCompressed /\ ~ Misread =>
          \A j \in DOMAIN reals.given.elems :
            Near(RealsRead[j], ValueOf(reals.given.elems[j]),
                 PrecisionOf(reals.packer, reals.header))

\* Real numbers come back as far as the bits they were given hold them, in every form in
\* which c_fstecr writes them and c_fstluk reads them.
RealsComeBack == StreamsOfRealsComeBack /\ PackedRealsComeBack
=============================================================================
