------------------------------ MODULE FstField ------------------------------
(***************************************************************************)
(* Writing and reading fields (fstd98.c): c_fstecr and c_fstluk, the       *)
(* searches that lead to them, and the settings that outlive a call: the   *)
(* length of the elements, image mode, the remapping of data types, the    *)
(* missing values and the filters on ip1, ip2 and ip3.                     *)
(*                                                                         *)
(* The file below is what XdfCatalog promises, seen as a sequence of       *)
(* records in the order of the directory; XdfSearch is about c_xdfloc2,    *)
(* FstForms about the data of a record.  Names, labels and dates are left  *)
(* out: keys are <<ip1, ip2, ip3>>.                                        *)
(*                                                                         *)
(* ConvertIp is commented out: c_ipN_all and c_ipN_val enter 0, or -9999   *)
(* for an old code that does not exist.                                    *)
(***************************************************************************)
EXTENDS FstForms

CONSTANTS
    Units,        \* unit numbers
    Status,       \* what they are: [Units -> {"writable", "read only", "not open"}]
    Writes,       \* calls of c_fstecr: [key, ni, nj, nk, elem, field, datyp, npak, rewrit, valid]
    Searches,     \* the keys that are searched for; -1 stands for any value
    Remaps,       \* what DATATYPE_REMAP may hold: sequences of pairs
    MaxIpvals,    \* Max_Ipvals
    MaxRecords,   \* bound on the records of a file
    MaxSettings   \* bound on the settings, other than the codes for missing values, that are
                  \* off their defaults at a time

VARIABLES
    length,           \* xdf_byte, xdf_short, xdf_double: 1, 2, 8, or 4 when none is set
    image_mode_copy,
    remap_table,
    ips_tab,          \* the filters; ipNs_flag is set when its table is not empty
    records,          \* of each unit, in the order of the directory
    image             \* what the application last read in image mode

settingVars == <<length, image_mode_copy, remap_table>>
vars == <<settingVars, ips_tab, records, image, missingVars>>

Ips     == 1..3

\* What c_fstecr validates, of an application whose field has as many elements as it says.
\* Noise is not a value of it.
ValidCall(w) ==
    /\ w.key \in [Ips -> Nat]
    /\ {w.ni, w.nj, w.nk} \subseteq Nat \ {0}
    /\ w.elem \in {1, 2, 4, 8}
    /\ w.field \in Seq(Int \ {Noise}) /\ Len(w.field) = w.ni * w.nj * w.nk
    /\ w.datyp \in Nat /\ w.npak \in Int /\ NbitsAsked(w.npak) <= 2 * Word   \* NBITS_MAX

\* -1 asks for any value.
ASSUME FieldAssumption ==
    /\ MaxIpvals \in Nat \ {0} /\ MaxRecords \in Nat
    /\ \A w \in Writes : w.valid => ValidCall(w)
    /\ Searches \subseteq [Ips -> Nat \cup {-1}]

\* A data type is a number, whatever DATATYPE_REMAP makes of it.
ASSUME RemapAssumption ==
    \A w \in Writes, table \in Remaps \cup {<<>>} :
        w.valid => \A datyp \in {0, Converted(w, FALSE).datyp} : Remapped(datyp, table) \in Nat

NoIps   == [i \in Ips |-> <<>>]
NoImage == [datyp |-> -1]

Init ==
    /\ MissingInit
    /\ length = 4
    /\ image_mode_copy = FALSE
    /\ remap_table = <<>>
    /\ ips_tab = NoIps
    /\ records = [u \in Units |-> <<>>]
    /\ image = NoImage

\* The bound MaxSettings.
Settings == <<length, image_mode_copy, remap_table, ips_tab, <<encoder, decoder>>>>
Standard == LET default == [k \in Kinds |-> "default"]
            IN  <<4, FALSE, <<>>, NoIps, <<default, default>>>>
Changed  == Cardinality({i \in DOMAIN Settings : Settings[i] # Standard[i]})
Bounded  == Changed' <= MaxSettings

-----------------------------------------------------------------------------
(* Settings.                                                               *)

\* Any other length than 1, 2 or 8 counts as 4.
FstDataLength ==
    \E l \in {1, 2, 4, 8} :
        /\ length' = l
        /\ UNCHANGED <<image_mode_copy, remap_table, ips_tab, records, image, missingVars>>
        /\ Bounded

\* c_fstopl("IMAGE", ...).  What was read in the other mode is of no more use.
FstOpl ==
    \E on \in BOOLEAN :
        /\ image_mode_copy' = on
        /\ image' = NoImage
        /\ UNCHANGED <<length, remap_table, ips_tab, records, missingVars>>
        /\ Bounded

\* c_fst_env_var("DATATYPE_REMAP", ...), one call for each number of the table.
FstEnvVar ==
    \E table \in Remaps :
        /\ remap_table' = table
        /\ UNCHANGED <<length, image_mode_copy, ips_tab, records, image, missingVars>>
        /\ Bounded

MissingStep ==
    /\ MissingNext
    /\ UNCHANGED <<settingVars, ips_tab, records, image>>
    /\ Bounded

\* A full table is not noticed.
FullTableMutant(i, values) ==
    /\ ips_tab' = [ips_tab EXCEPT ![i] = @ \o values]
    /\ UNCHANGED <<settingVars, records, image, missingVars>>
    /\ Len(ips_tab[i]) <= MaxIpvals /\ Bounded

\* Values are added to a filter.  The application stops when it is told the table is full.
AddIps(i, values) ==
    /\ Len(ips_tab[i]) < MaxIpvals
    /\ LET longer == ips_tab[i] \o values
       IN  ips_tab' = [ips_tab EXCEPT ![i] = SubSeq(longer, 1, Min({MaxIpvals, Len(longer)}))]
    /\ UNCHANGED <<settingVars, records, image, missingVars>>
    /\ Bounded

IpVal == \E i \in Ips : AddIps(i, <<0>>)
IpAll == \E i \in Ips, old \in {0, -9999} : AddIps(i, <<0, old>>)

FstResetIpFlags ==
    /\ ips_tab' = NoIps
    /\ UNCHANGED <<settingVars, records, image, missingVars>>

-----------------------------------------------------------------------------
(* Searches.  A search with filters uses them up, unless the unit is not   *)
(* open.                                                                   *)

Filtered(i) == ips_tab[i] # <<>>
Live(u, h)  == h \in DOMAIN records[u] /\ records[u][h].live
IpsAfter(u) == IF Status[u] = "not open" THEN ips_tab ELSE NoIps

\* A filter is only used when the value asked for is the first of its table.  (The code
\* also compares other codings of a level, which 0 and -9999 never meet.)
IpIsEqual(target, ip, i) == target = ips_tab[i][1] /\ ip \in ToSet(ips_tab[i])

\* The outcome of the inner tests replaces that of the outer ones.
InnermostMutant(key, rec) ==
    /\ \A i \in Ips : Filtered(i) /\ key[i] >= 0
    /\ ~ IpIsEqual(key[3], rec.key[3], 3)

\* The filter on ip2 is looked at when the one on ip1 is in use, the one on ip3 when the
\* one on ip2 is.
NoMatch(key, rec) ==
    LET in_use(i) == Filtered(i) /\ key[i] >= 0
        fails(i)  == ~ IpIsEqual(key[i], rec.key[i], i)
    IN  /\ in_use(1)
        /\ \/ fails(1)
           \/ in_use(2) /\ fails(2)
           \/ in_use(2) /\ in_use(3) /\ fails(3)

\* What c_xdfloc2 is asked for: a filtered ip is masked out.
Matches(key, rec) == \A i \in Ips : key[i] = -1 \/ Filtered(i) \/ rec.key[i] = key[i]

Found(u, key) == {h \in DOMAIN records[u] :
                    /\ Live(u, h)
                    /\ Matches(key, records[u][h])
                    /\ ~ NoMatch(key, records[u][h])}

\* c_fstinf: c_fstinfx from the beginning of the file, the first record found, or -1.
Infx(u, key) == IF Found(u, key) = {} THEN -1 ELSE Min(Found(u, key))

\* The masks of c_fstsui stay as the search with filters has set them.
MasksLeftMutant(u, key) ==
    {h \in DOMAIN records[u] : h > Infx(u, key) /\ Live(u, h) /\ Matches(key, records[u][h])}

\* c_fstinl: the first record found, and those c_fstsui finds behind it.  After a search
\* with a filter c_fstsui looks for the values of the record found.
Behind(u, key) ==
    LET rec == records[u][Infx(u, key)]
    IN  {h \in DOMAIN records[u] :
            /\ h > Infx(u, key) /\ Live(u, h)
            /\ \A i \in Ips : \/ key[i] = -1 /\ ~ Filtered(i)
                              \/ records[u][h].key[i] = rec.key[i]}

Inl(u, key) == IF Infx(u, key) = -1 THEN {} ELSE {Infx(u, key)} \cup Behind(u, key)

\* c_fstinf and c_fstinl.
FstInf ==
    \E u \in Units :
        /\ ips_tab' = IpsAfter(u)
        /\ UNCHANGED <<settingVars, records, image, missingVars>>

-----------------------------------------------------------------------------
(* Writing.                                                                *)

Deleted == [live |-> FALSE]

\* c_xdfput: in the place of the old record when it is as long, or else at the end.
Put(u, old, rec) ==
    CASE old > 0 /\ records[u][old].nw = rec.nw -> [records EXCEPT ![u][old] = rec]
      [] old > 0 /\ records[u][old].nw # rec.nw ->
            [records EXCEPT ![u] = Append([@ EXCEPT ![old] = Deleted], rec)]
      [] OTHER -> [records EXCEPT ![u] = Append(@, rec)]

\* The record that is written over.
Replaced(u, key, rewrit) == IF rewrit THEN Infx(u, key) ELSE -1

AfterEncoding(called) ==
    IF called THEN ReadEnvironment ELSE UNCHANGED <<plugmode, missing_val>>

\* The field with its missing values encoded, and how many there were.  Elements that are
\* taken for elements of another length are assumed to hold no code.
Encoded(w, s) ==
    LET kinds  == EncodedKinds(s.in_datyp, s.nbits, length)
        agrees == \A k \in kinds : KindLength(k) = w.elem
    IN  IF HasMissing(w.datyp) /\ agrees
        THEN EncodeMissingValue(w.field, s.in_datyp, s.nbits, length)
        ELSE [missing |-> 0, field |-> w.field]

\* What the application wrote, and whether all of it is in the record: no element was
\* lost, and what stands for a missing one is above the others.
From(w, s, enc, stored) ==
    LET kinds == EncodedKinds(s.in_datyp, s.nbits, length)
        kind  == CHOOSE k \in kinds : TRUE
        code  == IF enc.missing > 0 THEN Codes[kind] ELSE NotSet
        above == \A i, j \in DOMAIN w.field :
                    w.field[i] = code /\ w.field[j] # code => enc.field[i] > enc.field[j]
        whole == stored.data.elems = enc.field /\ (enc.missing > 0 => above)
    IN  [elem |-> w.elem, kind |-> IF enc.missing > 0 THEN kind ELSE "none", code |-> code,
         whole |-> whole, field |-> IF whole THEN w.field ELSE <<>>]

Record(w, stored, nw, from) ==
    [live |-> TRUE, key |-> w.key, ni |-> w.ni, nj |-> w.nj, nk |-> w.nk,
     datyp |-> stored.datyp, nbits |-> stored.nbits, data |-> stored.data, nw |-> nw,
     from |-> from]

\* A unit that may not be written to, or an argument out of its range.
FstEcrRefused ==
    /\ {w \in Writes : ~ w.valid} # {} \/ {u \in Units : Status[u] # "writable"} # {}
    /\ UNCHANGED vars

\* With no case for the data type the search has been made and the length stays set.
FstEcr ==
    /\ ~ image_mode_copy
    /\ \E u \in Units, w \in Writes :
        LET s      == Settled(w, FALSE, remap_table)
            enc    == Encoded(w, s)
            seen   == IF AssumedLength(s.in_datyp, s.datyp, length) = w.elem \/ s.datyp % 128 = 0
                      THEN enc.field ELSE Noisy(enc.field)
            flag   == IF enc.missing > 0 THEN 64 ELSE 0
            stored == UNION {Stored(w, s, length, seen, flag, ok) : ok \in {FALSE, MaySucceed(w, s.datyp)}}
            old    == Replaced(u, w.key, w.rewrit)
        IN  /\ Status[u] = "writable" /\ w.valid
            /\ ips_tab' = IF w.rewrit THEN NoIps ELSE ips_tab
            /\ AfterEncoding(HasMissing(w.datyp))
            /\ \/ /\ stored = {}
                  /\ UNCHANGED <<length, records>>
               \/ \E st \in stored :
                  \E nw \in IF st.compressed THEN CompressedWords
                            ELSE {Nw(s.datyp, w.ni * w.nj * w.nk, s.nbits)} :
                    /\ records' = Put(u, old, Record(w, st, nw, From(w, s, enc, st)))
                    /\ Len(records'[u]) <= MaxRecords
                    /\ length' = 4
            /\ UNCHANGED <<image_mode_copy, remap_table, image, encoder, decoder>>

\* In image mode the application writes what it read in image mode, as it is.
FstEcrImage ==
    /\ image_mode_copy /\ image # NoImage
    /\ \E u \in Units, rewrit \in BOOLEAN :
        LET call == [datyp |-> image.datyp, npak |-> -image.nbits]
            s    == Settled(call, TRUE, remap_table)
            nw   == IF s.datyp > 128 THEN image.nw
                    ELSE Nw(s.datyp, image.ni * image.nj * image.nk, s.nbits)
            copy == [image EXCEPT !.datyp = s.datyp + (IF HasMissing(@) THEN 64 ELSE 0),
                                  !.nbits = s.nbits, !.nw = nw]
        IN  /\ Status[u] = "writable"
            /\ ips_tab' = IF rewrit THEN NoIps ELSE ips_tab
            /\ records' = Put(u, Replaced(u, image.key, rewrit),
                              [copy EXCEPT !.data = Image(copy)])
            /\ Len(records'[u]) <= MaxRecords
            /\ length' = 4
            /\ UNCHANGED <<image_mode_copy, remap_table, image, missingVars>>

FstEff ==
    \E u \in Units : \E h \in DOMAIN records[u] :
        /\ Status[u] = "writable" /\ Live(u, h)
        /\ records' = [records EXCEPT ![u][h] = Deleted]
        /\ UNCHANGED <<settingVars, ips_tab, image, missingVars>>

-----------------------------------------------------------------------------
(* Reading.                                                                *)

\* The elements c_fstluk hands over when their length is set to len.
ReadBack(rec, len) ==
    LET elems == Unpacked(rec, len)
        datyp == BaseDatyp(rec.datyp)
        used  == IF datyp % 16 = 5 /\ rec.nbits = 8 * Byte THEN 8 ELSE len
    IN  IF HasMissing(rec.datyp) THEN DecodeMissingValue(elems, datyp % 64, used) ELSE elems

\* Missing values are decoded in image mode as well: packed words are taken for elements,
\* and the largest behind the first, if any, are changed.
ImagesOf(rec) ==
    LET datyp   == BaseDatyp(rec.datyp)
        kinds   == KindsOf(datyp % 16, length)
        decoded == HasMissing(rec.datyp) /\ MissingValueUsed = 1
                    /\ \E k \in kinds : decoder[k] = "default"
        exact   == [rec EXCEPT !.data = Image(rec)]
        spoiled == [exact EXCEPT !.data.elems = Noisy(@), !.from.whole = FALSE]
    IN  IF decoded THEN {exact, spoiled} ELSE {exact}

\* c_fstluk; a deleted record is refused.
Luk(u, h) ==
    /\ IF image_mode_copy THEN image' \in ImagesOf(records[u][h]) ELSE UNCHANGED image
    /\ AfterEncoding(HasMissing(records[u][h].datyp))
    /\ length' = 4
    /\ UNCHANGED <<image_mode_copy, remap_table, records, encoder, decoder>>

FstLuk ==
    \E u \in Units : \E h \in DOMAIN records[u] :
        /\ Live(u, h)
        /\ Luk(u, h)
        /\ UNCHANGED ips_tab

NothingRead == UNCHANGED <<settingVars, records, image, missingVars>>

FstLir ==
    \E u \in Units, key \in Searches :
        /\ ips_tab' = IpsAfter(u)
        /\ IF Infx(u, key) = -1 THEN NothingRead ELSE Luk(u, Infx(u, key))

\* c_fstlic searches, compares the grid with what the application gave, and searches again
\* with c_fstlir: without the filters.
Unfiltered(u, key) == {h \in DOMAIN records[u] : Live(u, h) /\
                        \A i \in Ips : key[i] \in {-1, records[u][h].key[i]}}
FstLic ==
    \E u \in Units, key \in Searches, same_grid \in BOOLEAN :
        /\ ips_tab' = IpsAfter(u)
        /\ IF Infx(u, key) = -1 \/ ~ same_grid \/ Unfiltered(u, key) = {} THEN NothingRead
           ELSE Luk(u, Min(Unfiltered(u, key)))

Next ==
    \/ FstDataLength \/ FstOpl \/ FstEnvVar \/ MissingStep
    \/ IpVal \/ IpAll \/ FstResetIpFlags
    \/ FstInf \/ FstLuk \/ FstLir \/ FstLic
    \/ FstEcrRefused \/ FstEcr \/ FstEcrImage \/ FstEff

Spec == Init /\ [][Next]_vars

-----------------------------------------------------------------------------
(* Properties.                                                             *)

RecordOK(rec) ==
    /\ rec.nw \in Nat \ {0}
    /\ rec.nbits \in 1 .. 2 * Word
    /\ rec.data.at \in {0, 1}
    /\ Len(rec.data.elems) = rec.ni * rec.nj * rec.nk
    /\ rec.from.whole => Len(rec.from.field) = Len(rec.data.elems)

TypeOK ==
    /\ MissingTypeOK
    /\ length \in {1, 2, 4, 8}
    /\ image_mode_copy \in BOOLEAN
    /\ remap_table \in Remaps \cup {<<>>}
    /\ \A i \in Ips : ips_tab[i] \in SeqOf({0, -9999}, MaxIpvals)
    /\ \A u \in Units : /\ Len(records[u]) <= MaxRecords
                        /\ \A h \in DOMAIN records[u] : Live(u, h) => RecordOK(records[u][h])
    /\ image = NoImage \/ RecordOK(image)

\* Where the code does not read what it wrote: integers that could not be compressed stay
\* behind the word of their length, bytes are read with all their bits, and compressed real
\* numbers with fewer than the 16 they are packed in.  Strings are copied with the number of
\* bits asked for.  Type 5, which a copy of type 133 may get, is not read.
Misread(rec) ==
    \/ BaseDatyp(rec.datyp) = 2 /\ rec.data.at = 1
    \/ BaseDatyp(rec.datyp) = 2 /\ rec.from.elem = 1 /\ rec.data.bits # Byte
    \/ BaseDatyp(rec.datyp) = 129 /\ rec.data.bits # rec.nbits
    \/ BaseDatyp(rec.datyp) = 7 /\ rec.nbits < Byte
    \/ BaseDatyp(rec.datyp) = 5

\* The missing values are decoded as they were encoded: in active mode, for the same kind
\* of elements, with the same code, by the functions of the library.
DecodedAsEncoded(rec) ==
    HasMissing(rec.datyp) =>
        /\ MissingValueUsed = 1
        /\ KindsOf(BaseDatyp(rec.datyp) % 16, rec.from.elem) = {rec.from.kind}
        /\ Codes[rec.from.kind] = rec.from.code
        /\ encoder[rec.from.kind] = "default" /\ decoder[rec.from.kind] = "default"

\* A field with missing values whose compression fails gets a type without their flag.
FlagLost(rec) == rec.from.kind # "none" /\ ~ HasMissing(rec.datyp)

\* What stands for a missing element is the code itself, one more than the largest of the
\* others, and reading ignores it: the largest of them comes back as missing.
CodeAsMark(rec) ==
    \E i, j \in DOMAIN rec.from.field :
        /\ rec.from.field[i] = rec.from.code /\ rec.data.elems[i] = rec.from.code
        /\ rec.from.field[j] # rec.from.code

\* c_fstecr writes what c_fstluk reads: whatever the data type was turned into on the way,
\* by 0 or 1 as npak, by the number of bits, by DATATYPE_REMAP or because the compression
\* failed, and whether or not the record was copied in image mode, the elements come back,
\* missing ones as missing (the first element apart, MissingComeBack).
FieldsComeBack ==
    \A u \in Units : \A h \in DOMAIN records[u] :
        LET rec == records[u][h]
        IN  (Live(u, h) /\ rec.from.whole
                /\ ~ Misread(rec) /\ ~ FlagLost(rec) /\ DecodedAsEncoded(rec)
                /\ (HasMissing(rec.datyp) =>
                        rec.from.field[1] # rec.from.code /\ ~ CodeAsMark(rec)))
            => ReadBack(rec, rec.from.elem) = rec.from.field

\* DecodeMissingValue replaces "all occurrences of the largest value", so that every
\* missing element comes back as missing.
MissingComeBack ==
    \A u \in Units : \A h \in DOMAIN records[u] :
        LET rec == records[u][h]
        IN  (Live(u, h) /\ rec.from.whole /\ ~ Misread(rec) /\ DecodedAsEncoded(rec)
                /\ HasMissing(rec.datyp))
            => \A i \in DOMAIN rec.from.field :
                  rec.from.field[i] = rec.from.code
                    => ReadBack(rec, rec.from.elem)[i] = rec.from.code

\* Filters that are all looked at: one on ip2 with one on ip1, one on ip3 with one on ip2,
\* and a value is asked for.
Nested        == (Filtered(3) => Filtered(2)) /\ (Filtered(2) => Filtered(1))
AskedFor(key) == \A i \in Ips : Filtered(i) => key[i] >= 0

\* With filters that are nested and asked for, c_fstinf and c_fstinl find nothing or exactly the
\* records a search without filters finds, so that the second search of c_fstlic reads the record the first checked.
SearchesAgree ==
    \A u \in Units, key \in Searches :
        Nested /\ AskedFor(key) => Inl(u, key) \in {{}, Unfiltered(u, key)}

\* A filter nobody looks at, although it masks its ip out: that on ip2 or on ip3 while one
\* before it is not in use.
Overlooked(i)  == Filtered(i) /\ \E j \in 1 .. i - 1 : ~ Filtered(j)
Alike(key, ips) == \A i \in Ips : Overlooked(i) \/ key[i] = ips[i]

\* Whatever filters were left from before, a rewrite takes the place of a record whose ips
\* are those of the new one, but for an ip whose filter is overlooked: there it writes over
\* a record with any value of it, and nothing else is lost.  No other record changes or goes,
\* except by c_fsteff.
RewriteKeepsOthers ==
    [][\A u \in Units : \A h \in DOMAIN records[u] :
         (Live(u, h) /\ records'[u][h] # records[u][h]) =>
            LET now == records'[u]
            IN  \/ now[h].live /\ Alike(now[h].key, records[u][h].key)
                \/ Len(now) = Len(records[u]) /\ FstEff
                \/ Len(now) > Len(records[u]) /\ Alike(Last(now).key, records[u][h].key)]_vars
=============================================================================
