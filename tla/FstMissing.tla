----------------------------- MODULE FstMissing -----------------------------
(***************************************************************************)
(* Missing values (fst_missing.c): before a field is packed the elements   *)
(* that hold the code for "missing" get a value above all the others;      *)
(* after it is unpacked the largest value becomes the code again.          *)
(*                                                                         *)
(* The code differs from one kind of element to the next and comes from    *)
(* MISSING_VALUE_FLAGS, read when it is first needed, or from the          *)
(* application, which may also replace the encoder or the decoder of a     *)
(* kind.  An integer has 1, 2 or 4 bytes of Byte bits.  Real numbers are   *)
(* multiples of a unit, and a fraction of a unit is rounded away.          *)
(*                                                                         *)
(* The plugin library of MISSING_VALUE_PLUGINS is not loaded (DlOpen is    *)
(* commented out): set_plugin_missing_value_flags stays NULL.              *)
(***************************************************************************)
EXTENDS Integers, Sequences, SequencesExt, FiniteSets, FiniteSetsExt

CONSTANTS
    Byte,          \* the bits of a byte: 8
    Defaults,      \* the codes the library starts with, by kind
    Environment,   \* those of MISSING_VALUE_FLAGS, or NotSet
    NotSet,
    Settable,      \* those the application may set
    Mappings       \* the calls of SetMissingValueMapping: [mode, datatype, length]

Reals     == {"float", "double"}
Signeds   == {"int", "short", "byte"}
Unsigneds == {"uint", "ushort", "ubyte"}
Kinds     == Reals \cup Signeds \cup Unsigneds

\* A code is a number of its kind.
ASSUME CodesAssumption ==
    /\ Byte \in Nat \ {0}
    /\ \A codes \in {Defaults} \cup Settable : codes \in [Kinds -> Int]
    /\ Environment # NotSet => Environment \in [Kinds -> Int]

VARIABLES
    plugmode,      \* -1 not initialized, 1 active, 0 not active
    missing_val,   \* the code of each kind
    encoder,       \* the function each kind is encoded by: "default" or "user"
    decoder        \* ... and decoded by: "default", "user" or "null"

missingVars == <<plugmode, missing_val, encoder, decoder>>

Bits(kind) == CASE kind \in {"byte", "ubyte"}   -> Byte
                [] kind \in {"short", "ushort"} -> 2 * Byte
                [] kind \in {"int", "uint"}     -> 4 * Byte
KindLength(kind) == CASE kind \in {"byte", "ubyte"} -> 1 [] kind \in {"short", "ushort"} -> 2
                      [] kind = "double" -> 8 [] OTHER -> 4

MissingInit ==
    /\ plugmode = -1
    /\ missing_val = Defaults
    /\ encoder = [k \in Kinds |-> "default"]
    /\ decoder = [k \in Kinds |-> "default"]

-----------------------------------------------------------------------------
(* The mode and the codes.                                                 *)

\* What missing_value_used returns.
MissingValueUsed ==
    IF plugmode = -1 THEN (IF Environment = NotSet THEN 0 ELSE 1) ELSE plugmode

\* What it changes: the environment is read once.
Codes == IF plugmode = -1 /\ Environment # NotSet THEN Environment ELSE missing_val

ReadEnvironment ==
    /\ plugmode' = MissingValueUsed
    /\ missing_val' = Codes

\* The codes as they are before the environment is read, if it is read now.
GetMissingValueFlags ==
    /\ ReadEnvironment
    /\ UNCHANGED <<encoder, decoder>>

\* With the mode set by force the environment is never read.
ForceMissingValueUsage ==
    \E enable \in {0, 1} :
        /\ plugmode' = enable
        /\ UNCHANGED <<missing_val, encoder, decoder>>

SetMissingValueFlags ==
    \E c \in Settable :
        /\ missing_val' = c
        /\ plugmode' = 1
        /\ UNCHANGED <<encoder, decoder>>

-----------------------------------------------------------------------------
(* The functions in use.                                                   *)

\* The kind of element that a base data type and an element length name.
RealKind(length)     == IF length = 8 THEN "double" ELSE "float"
SignedKind(length)   == CASE length = 2 -> "short" [] length = 1 -> "byte" [] OTHER -> "int"
UnsignedKind(length) == CASE length = 2 -> "ushort" [] length = 1 -> "ubyte" [] OTHER -> "uint"

KindsOf(type, length) ==
    CASE type \in {1, 5, 6} -> {RealKind(length)}
      [] type = 4 -> {SignedKind(length)}
      [] type = 2 -> {UnsignedKind(length)}
      [] OTHER -> {}

RestoreMissingValueMapping ==
    /\ encoder' = [k \in Kinds |-> "default"]
    /\ decoder' = [k \in Kinds |-> "default"]
    /\ UNCHANGED <<plugmode, missing_val>>

\* mode: 1 replaces a decoder, 2 an encoder, 11 deactivates a decoder; negative, the
\* original comes back.
SetMissingValueMapping ==
    \E m \in Mappings :
        LET kinds     == KindsOf(m.datatype, m.length)
            processor == CASE m.mode < 0 -> "default" [] m.mode = 11 -> "null" [] OTHER -> "user"
            mapped(f) == [k \in Kinds |-> IF k \in kinds THEN processor ELSE f[k]]
        IN  /\ decoder' = IF m.mode \in {1, -1, 11, -11} THEN mapped(decoder) ELSE decoder
            /\ encoder' = IF m.mode \in {2, -2} THEN mapped(encoder) ELSE encoder
            /\ UNCHANGED <<plugmode, missing_val>>

MissingNext ==
    \/ GetMissingValueFlags
    \/ ForceMissingValueUsage
    \/ SetMissingValueFlags
    \/ RestoreMissingValueMapping
    \/ SetMissingValueMapping

-----------------------------------------------------------------------------
(* Encoding and decoding; each calls missing_value_used first.             *)

\* The number of missing elements, and the range of the others; of a field that is all
\* missing, the code.
Anal(field, code) ==
    LET present == ToSet(field) \ {code}
    IN  [missing |-> Cardinality({i \in DOMAIN field : field[i] = code}),
         max |-> IF present = {} THEN code ELSE Max(present),
         min |-> IF present = {} THEN code ELSE Min(present)]

\* 1% of the range above the largest value, or more when there are few bits.
Thousandths == <<2000, 1100, 550, 280, 140, 70, 35, 17, 10>>

RealPlug(a, nbits) ==
    LET factor == IF nbits > 8 THEN 10 ELSE Thousandths[nbits + 1]
        plug   == a.max + (((a.max - a.min) * factor) \div 1000)
    IN  IF plug # a.max THEN plug ELSE IF a.max = 0 THEN 1 ELSE a.max * 2

\* The largest positive value of nbits bits, or the next above the largest of the field.
\* It is found by shifting 1s to the right: those of a short or a byte are signed.
SignedPlug(kind, a, nbits) ==
    LET plug == IF kind = "int" THEN 2^(Min({nbits, Bits(kind)}) - 1) - 1 ELSE -1
    IN  IF plug > a.max THEN a.max + 1 ELSE plug

UnsignedPlug(kind, a, nbits) ==
    LET plug == 2^Min({nbits, Bits(kind)}) - 1
    IN  IF plug > a.max THEN a.max + 1 ELSE plug

\* What an application's own encoder does is external: it counts, and changes nothing.
Encode(kind, field, nbits) ==
    LET code == Codes[kind]
        a    == Anal(field, code)
        plug == CASE kind \in Reals     -> RealPlug(a, nbits)
                  [] kind \in Signeds   -> SignedPlug(kind, a, nbits)
                  [] kind \in Unsigneds -> UnsignedPlug(kind, a, nbits)
    IN  [missing |-> a.missing,
         field |-> IF encoder[kind] = "user" THEN field
                   ELSE [i \in DOMAIN field |-> IF field[i] = code THEN plug ELSE field[i]]]

\* The loop starts at the second element.
Decode(kind, field) ==
    LET max == Anal(field, Codes[kind]).max
    IN  IF decoder[kind] # "default" THEN field
        ELSE [i \in DOMAIN field |-> IF i > 1 /\ field[i] = max THEN Codes[kind]
                                                                ELSE field[i]]

\* Real fields are encoded when they are double: the call for the others follows a return.
EncodedKinds(datatype, nbits, length) ==
    LET type == datatype % 16
    IN  IF type \in {1, 5, 6} /\ length # 8 /\ ~ (type = 5 /\ nbits = 8 * Byte) THEN {}
        ELSE KindsOf(type, IF type = 5 /\ nbits = 8 * Byte THEN 8 ELSE length)

EncodeMissingValue(field, datatype, nbits, length) ==
    LET kinds == EncodedKinds(datatype, nbits, length)
    IN  IF MissingValueUsed = 0 \/ kinds = {} THEN [missing |-> 0, field |-> field]
        ELSE Encode(CHOOSE k \in kinds : TRUE, field, nbits)

DecodeMissingValue(field, datatype, length) ==
    LET kinds == KindsOf(datatype % 16, length)
    IN  IF MissingValueUsed = 0 \/ kinds = {} THEN field
        ELSE Decode(CHOOSE k \in kinds : TRUE, field)

MissingTypeOK ==
    /\ plugmode \in {-1, 0, 1}
    /\ missing_val \in {Defaults, Environment} \cup Settable
    /\ encoder \in [Kinds -> {"default", "user"}]
    /\ decoder \in [Kinds -> {"default", "user", "null"}]
=============================================================================
