# A verification project for SwiftFSTD

SwiftFSTD packages the C library that reads and writes RPN standard files
("FSTD"): files of gridded meteorological records found by keys. This directory
holds TLA+ models of that library, the TLC configurations that check them, and
TLAPS proofs. Paths below are under `src/Sources/CFSTD/` unless said otherwise.
`PROJECT.json` lists the components, the runs, the mutants, the hazards, the
theorems, and for every definition the lines it models.

Contents: 1 inventory, 2 modules, 3 what is checked, 4 what is proved, 5 what
the checks found, 6 what is not modelled, 7 plan.

## 1. Inventory

The program is sequential: no threads, no signals, no callbacks. What makes it
hard is state that outlives a call: global tables, positions kept between
searches, directory pages in memory that differ from those on disk, and files
that other processes (or a crash) leave in any state between two writes.

    SwiftFSTD.swift, tests
          |
    fstd98.c        fst*: fields, parameters, ip filters, counts, options
          |
    xdf98Light.c    c_xdf*: directory pages, records, searches, links
          |                 \
    c_baseio.c      units, word-addressable files, page cache      codecs

### Components

**Random XDF directory** (`xdf98Light.c`, `qstdir.h`). State: one entry of
`file_table` per open file: `header` (rwflg, nrec, nxtn, nrwr, neff, fsiz, nbd,
...), `dir_page[]` with `npages`, the `modified` flags of the file and of each
page, the position (`cur_dir_page`, `cur_entry`, `cur_pageno`, `page_record`);
on disk the header, the chain of directory pages and the records. Operations:
`c_xdfopn`, `c_xdfput`, `c_xdfdel`, `c_xdfcls`, `c_fst_edit_dir_plus`,
`c_fstckp`. Hard: the writes of a close are several, and the header comes first;
a page fills and a new one is put in front of the record; a rewrite goes in
place or to the end; `idtyp` 254 becomes 255 when a page is written; error
returns leave state behind. Correct when: space is never used twice nor lost,
the counters follow the directory, handles are stable, what is saved stays
readable whatever happens later, and a checkpoint or a close saves everything.

**Search** (`xdf98Light.c`: `c_xdfloc2`, `next_match`; `fstd98.c`: `c_fstinf`,
`c_fstinfx`, `c_fstsui`). State: the position above, `target`, `cur_mask`,
`valid_target`. The position is shared with the writes, which move it. Correct
when a search returns the first match behind its starting point, a scan misses
and repeats nothing, and it ends.

**Sequential XDF files** (same files). Records one behind the other with a
header each; handles carry a clustered address; end-of-file marks of levels
1-15. Operations: the sequential parts of `next_match`, `c_xdfput`, `c_xdfdel`,
`c_xdfcls`; `c_fstweo`, `c_fsteof`, `c_fstskp`, `c_fstrwd`, `c_fstapp`. Hard: an
write overwrites its own words only, and what stood behind stays in the file until a
close cuts it, if it does; the address in a handle is rounded to a cluster. Correct when
a record put is found by its handle and the position stays between records.

**Linked files** (`c_xdflnk`, `c_xdfunl`). The page chains of several files are
joined, and page numbers in handles run over all of them. Hard: every operation
that follows a handle walks the links by itself. Correct when an operation on a
linked file has the effect it has on the file itself.

**Record retrieval** (`c_xdfget2`, `c_xdfprm`, `c_fstluk`, `c_fstprm`). They
read the state above. Correct when a handle gives the record it was made for.

**Tables of files** (`file_table` with `get_free_index`, `file_index`;
`FGFDT` with `c_fnom`, `c_fclos`; the word-addressable file slots with
`c_waopen2`, `c_waclos2`, `qqcopen`; direct-access files). Four tables that
refer to one another by unit number, index and descriptor. Hard: an error return
half-way, a slot freed in one table and not in the next, a table that is full.
Correct when a unit always reaches the file it was connected to, at its own place and
through its own pages.

**Page cache** (`c_baseio.c`: `wa_page_read`, `wa_page_write`, `get_new_page`,
`scrap_page`, `process_decay`, `wa_pages_flush`). Correct when reads give what
was last written, whatever was evicted in between.

**FST field layer** (`fstd98.c`): translation of parameters to keys, packing of
the data, counts, options, the ip filters (`ip_is_equal`, `c_ip1_all` ...), which
are global tables of a fixed size with flags that outlive a search.

**Codecs** (`compact_*.c`, `float_packer.c`, `c_zfstlib.c`,
`armn_compress_32.c`, `fst_missing.c`): functions on arrays, but for the level of
the compressor, the order of its halves and the codes for missing values, which
outlive a call. Hard: branches at the edge of a word and of a field, values that
need one bit more than others, buffers written before their size is known, a field
that does not compress and is to be left as it was. Correct when unpacking gives
back the integers packed (exactly) or the reals (to the width).

**Others**: byte swapping, logging, Fortran entry points, the Swift target and
its test (`src/Tests/SwiftFSTDTests/SwiftFSTDTests.swift`), which opens one file
and lists it with the loop "while key > 0": that loop is the client of the
search model.

The package is not built as the code expects: `Package.swift` defines
neither `XDF_OWNER` nor `Little_Endian`. Without `XDF_OWNER` the tables
`stdfkeys` and `xdf_stride` stay zero, so that `c_fstecr` would divide by zero
(`fstd98.c:916`), and `c_fstouv` reaches its CREATE branch for remote units only
(`fstd98.c:2855`). The models are of the code with its tables filled, and
create files through `c_xdfopn`, which is public.

## 2. Modules

| module | what it is |
|---|---|
| `XdfRandom` | one random file: memory, disk, every call that changes it, crashes |
| `XdfCatalog` | what it promises: a catalogue of records that is open and saved |
| `XdfSearch` | extends `XdfRandom` with `c_xdfloc2` and an application that scans |
| `XdfRandom_proofs`, `XdfDirectory_proofs` | theorems about `XdfRandom`: types and handles; the directory in memory and on disk, and that it implements `XdfCatalog` |
| `XdfSearch_proofs`, `XdfSeq_proofs`, `FileTable_proofs`, `FstField_proofs`, `WaFile_proofs` | theorems about these modules |
| `Extremes` | lemmas on `Min` and `Max` that the proofs share |
| `XdfSeq` | one sequential file: records, marks, the position, handles, crashes |
| `SeqTape` | what it promises: a tape of records and marks |
| `FileTable` | `FGFDT`, the word-addressable slots, `file_table`, descriptors, handles |
| `WaFile` | word-addressable files, their page cache, direct access, streams |
| `WordStore` | what they promise: each file is a sequence of words |
| `BitPacking` | the macros of `bitPacking.h` and `compact_integer.c`, as operators |
| `ArmnCompress` | extends it with the streams of `c_zfstlib.c`: tiles, predictors, both ways |
| `ArmnCompress32` | extends it with those of `armn_compress_32.c`: signs, exponents, mantissas |
| `RealPacking` | extends it with the tokens of `compact_float.c` and `float_packer.c` |
| `Packing` | extends it with calls that share one packed array, or compress one field |
| `FstMissing` | missing values: mode, codes, mappings, encoders and decoders |
| `FstForms` | extends it with the data types: what a field is stored as and taken for |
| `FstField` | extends it with `c_fstecr`, `c_fstluk`, searches, filters, settings |
| `MC...` | instances for TLC: small sets, symmetry, one view |

The layers meet where one module's abstract specification is the ground another
stands on: `FstField` sees a file as `XdfCatalog` promises it, the records in the
order of the directory, and a search as `XdfSearch` checks it; `XdfRandom` and
`XdfSeq` write words as `WordStore` promises; `FstForms` takes integers to be
packed as `Packing` checks. They are not composed in one state space: each pair
interacts through calls that the upper one waits for.

`FstForms` also takes compressions to succeed or fail; `Packing` checks what they do
to the bits. The shapes of fields that they refuse (`MaySucceed`), and the levels
behind the first, which they lose (`FirstLevel`), are the same in both.

### State and code

**XdfRandom.** `st` says whether the file is in `file_table` ("open"), or there
although `c_xdfopn` returned an error ("refused"). `header`, `npages`, `page`,
`entry`, `modified`, `pos` are the file table entry; the entries of all directory
pages are one function over handles, `<<page, record>>`. `dheader`, `dpage`,
`dentry` are what the disk has of them, and `store` says of every 64-bit unit of
the file what it holds: "dir", "hole", or the data of a record. The first unit of a record
is a header of its own, with idtyp and length, which the write of a directory page first
overwrites in each record deleted since ("hole"). `flush` is the program counter of
`c_xdfcls`: the page it has come to; which record headers of that page are done is in `entry`.

Lengths are in 64-bit units, and the header and a page have lengths of their own
(`HeaderLen`, `PageLen`). Primary keys are one value, data another; the data of a record are
whole when all its units behind the header hold the same value, and its header stands
when the first unit does. What is abstracted: the bits of
the header and the directory, checksums, auxiliary keys, statistics of the
header that nothing reads (xtra), and the byte order.

`pos` has both the page that `cur_entry` points into (`epage`, `erec`) and
`cur_dir_page` (`dirpage`), because the code sets them apart and `next_match`
compares them.

**XdfSeq.** `tape` says what header of the tape begins at each unit of the file: that of
the file, a record, live or deleted, with its length, its postfix, or a mark with its level.
`cur`, `bof`, `head` and `validpos` are `cur_addr`, `seq_bof`, `head_keys` and `valid_pos` of
the file table entry; `size` and `eff` are `file_size` and `eff_file_size` of its entry in
`FGFDT`, where a close cuts the file and where reading ends; `disk` is the length of the file
on disk and `modified` is `f->modified`. `ret` is what the last call told the application.

A write overwrites its own units only. What stood behind them stays on disk up to `disk`:
the interiors of old records, their headers and postfixes. `tape` follows the headers of the
tape that was written last and not these words. As long as there is an end mark no call comes to them;
after a crash in the middle of the tape calls do, and so may a step back from behind a tape without an
end. A call that takes such words for a header or a postfix is `GoesAstray`: it answers
"lost", nothing is said of where it leads, and the next thing that happens is a close or a crash.

**FileTable.** `FGFDT`, `wafile` and `file_table` have the fields that lead from
one to the next; a slot of `wafile` also has its offset, the name whose words its pages
hold (`pages`), and a history variable (`member`). What a unit reaches (`Reaches`) is a file,
an offset and pages: those of the first slot with its descriptor, which is the one that
`qqcward` and `qqcwawr` use; `fds` and `disk` are the operating system's: which file a
descriptor is open on, and whether a file is absent, random, sequential, another
kind, or marked as in use by a writer. `handles` are those the application
holds, as the numbers the macros of `qstdir.h` make, from index and address.

**WaFile.** `page[f]` is the list of pages of a file with first and last word,
use count, dirty flag and buffer; `nfree` and `global_count` are the buffers;
`config` is what `WA_CONFIG` said at the first open. A request is a run over its pieces
(`WritePieces`, `ReadPieces`), each of which takes a record of this part of the state (`State`)
to the next; `Assign` makes the last one the state after the call. `dastat` is the table of
direct-access requests, `pos` the position of a descriptor, for streams.

**Packing.** `packed` is the array of words, `segments` what was packed into it,
with the settings the packing returned, and `free` the next bit. `field` is a field
packed alone, `stream` the header of the stream that stands in `packed` instead of it,
`level` is `fstcompression_level`, and `reals` is what became of a field of real
numbers: what was given, the header of its packer, the stream of
`c_armn_compress32`, what was read. A stream of tokens is an array of words, bit by
bit; the headers of streams are records. A real number is a word of a sign, an
exponent and a mantissa; its value is an integer, in units of the smallest.

**FstMissing, FstForms, FstField.** `plugmode`, `missing_val`, `encoder` and
`decoder` are the static variables of `fst_missing.c`. `length` stands for
`xdf_byte`, `xdf_short` and `xdf_double`; `image_mode_copy`, `remap_table` and
`ips_tab` are the other variables that outlive a call. A record has its
parameters, its data as `[form, bits, at, elems]` (which packer, how many bits,
from which word on, the elements) and, as a history variable, what the
application gave (`from`). Unpacking data as another form, with another number
of bits or from another word gives `Noise`, which is no element.

### Actions and code

| action | code |
|---|---|
| `Create` | `c_xdfopn` CREATE: header on disk without pages, first page |
| `OpenFile`, `OpenRefused` | `c_xdfopn` of a file that exists: chain of pages; ERR_STILL_OPN, ERR_BAD_DIR |
| `Append` | `c_xdfput` with handle 0, `add_dir_page` included |
| `Rewrite` | `c_xdfput` with a handle: in place (`RewriteInPlace`), or to the end (`PutAtEnd`) with the deletion of the old record |
| `RewriteRejected`, `DirFull` | its error returns that leave a changed position or page behind |
| `Delete`, `EditDir` | `c_xdfdel`, `c_fst_edit_dir_plus` |
| `FlushHeader`, `FlushRecord`, `FlushPage`, `EndCheckpoint`, `EndClose` | `c_xdfcls` and `c_fstckp`, one step per disk write: the header of the file, the header of each deleted record of a page, the page |
| `Crash` | the process dies; `memory` is lost, `disk` stays |
| `Begin`, `Sui`, `Infx`, `Probe` | `c_fstinf`, `c_fstsui`, `c_fstinfx`, and a single `c_xdfloc2` |
| `XdfSeq`: `Put`, `TornPut` | `c_xdfput`: record, postfix, end mark; the process dies after one or two of them |
| `Weo`, `TornWeo` | `c_fstweo` of a mark or of the end of the file |
| `FindNext`, `FindAfter`, `Read` | `c_fstinf` and `c_fstsui`, `c_fstinfx`, `c_xdfget2` |
| `Rewind`, `SkipForward`, `SkipBack`, `App`, `Delete` | `c_fstrwd`, `c_fstskp`, `c_fstapp`, `c_xdfdel` |
| `Leave`, `Crash`, `GoesAstray` | `c_xdfcls` with its truncation; the process dies between calls; a call reads old words as a header |
| `FileTable`: `Fnom`, `Fclos` | `c_fnom` with its error returns, `c_fclos` |
| `WaOpen`, `WaClose`, `WaSize` | `c_waopen2`, `c_waclos2`, `c_wasize` |
| `XdfOpen`, `FstOuv`, `XdfClose`, `Find` | `c_xdfopn`, `c_fstouv`, `c_xdfcls`, any call that makes a handle |
| `WaFile`: `Open`, `Close` | `qqcopen`, `qqcclos` with `wa_pages_flush` |
| `Write`, `Read` | `c_wawrit2`, `c_waread2`, cut into pieces, each through `wa_page_write` or `wa_page_read` |
| `Writda`, `Readda`, `Checda`; `SqPutw`, `SqGetw`, `SqMove` | `c_writda`, `c_readda`, `c_checda`; `c_sqputw`, `c_sqgetw`, `c_sqrew`, `c_sqeoi` |
| `PackBehind`, `PackOver` | a call of `compact_integer`, `compact_short`, `compact_char` or `compact_float` |
| `PackField`, `PackReals` | a field in shorts, before it is compressed: `compact_short`, a copy of memory, `compact_float`, `c_float_packer` |
| `SetLevel`, `CompressField`, `UncompressField` | TURBOCOMP, `armn_compress` as `c_fstecr` and `c_fstluk` call it |
| `CompressReals`, `UncompressReals` | `c_armn_compress32`, `c_armn_uncompress32` |
| `FstEcr`, `FstEcrImage`, `FstEcrRefused` | `c_fstecr`; in image mode; its refusals |
| `FstLuk`, `FstLir`, `FstLic`, `FstInf`, `FstEff` | `c_fstluk`, `c_fstlir`, `c_fstlic`, `c_fstinf` and `c_fstinl`, `c_fsteff` |
| `FstDataLength`, `FstOpl`, `FstEnvVar`, `IpVal`, `IpAll`, `FstResetIpFlags`, `MissingStep` | the calls that set what outlives them |

Error returns that change nothing (a put on a file opened READ, a delete of a
deleted record) are not actions: they would be stuttering steps.

`c_xdfcls` is split at its disk writes because the order of those writes is what
a crash exposes, and so are the writes of a record to a sequential file, whose
end is only found by walking it. The other calls write to disk too, but only
where no directory on disk points, or one extent of a record that is rewritten in
place; they are one step each. Writes are taken to reach the disk in the order of
the calls: the code has no sync, and buffering below it is not modelled.

`scan` in `XdfSearch` is a history variable: what the current scan has returned
(`seen`), what it must return (`must`: the records that match now and have since
it began), and whether the position was left alone by writes (`settled`).

## 3. What is checked

Eight runs that pass, four that show a violation (section 5). Every property
that passes has a mutant of a definition of the code that breaks it; the mutants
stand next to their targets in the modules.

| run | question |
|---|---|
| `random_file` | is one file consistent in memory and on disk through every sequence of calls, closes and crashes? |
| `random_refines` | is every call and every disk write a step of the catalogue? |
| `search` | are searches exact and scans complete, in between writes? |
| `sequential` | is a sequential file a tape, and does its position stay between records? |
| `tables` | does every unit and every handle lead to its own file, whatever was opened and closed? |
| `cache` | are words read as they were written, whatever pages were given up in between? |
| `packing` | do packed arrays come back, side by side and over one another, compressed or not? |
| `fields` | does `c_fstluk` read what `c_fstecr` wrote, and do filters find the same records? |

**random_file.** `SpaceIsTiled`: in a file open for writing, every unit up to
`fsiz` belongs to exactly one page or record. `CountersAgree`: nrec, nxtn, nrwr,
nbd and the links of the pages agree with the directory, also in a file that was
saved, or half saved, and opened again. `SavedIsIntact`: at every moment the
directory that an open would read names only directory pages and records whose data are
whole. Their own headers stand too, unless the file has a writer's mark: `c_xdfcls`
overwrites the headers of the records deleted since before it writes the page that still
names them (`xdf98Light.c:607`, `:621`). After a crash in between such a record
is in the directory without a header; its data are read as before, since `c_xdfget2` and
`c_fstluk` find them by the directory entry alone.
`CheckpointSaves`: when the last page of a checkpoint is written, the disk shows
what the open file shows. `HandleIsStable`: while the file is open a handle
keeps its place and a deleted record stays deleted.

`CountersAgree` and `SpaceIsTiled` speak of files open for writing: a file
opened READ after a torn close has the header of one moment and the pages of
another, and a file open for writing does not, because rwflg on disk refuses
it; that a crash never leads past that refusal is part of what the run shows.

**random_refines.** `XdfCatalog` has a catalogue of records that the open file
shows, one that an open would show, and twelve actions: a new record gets an
unused handle; a rewrite replaces the data at once, on disk too, or moves the
record; saving goes record by record (`SavePart`); `Close` is only possible when
everything is saved; a crash loses what was not. The refinement mapping takes
`cat` from the directory in memory and `saved` from the directory on disk as an
open would read it, both with the data in `store`. This run includes
directory edits on files opened READ, whose pages `c_xdfcls` writes without the
header.

**search.** `FoundMatches`, and `ProbeIsExact`: a search from the beginning or
from a record returns the first match behind it, or none only if there is none,
wherever earlier searches and writes left the position. `ScanIsComplete`,
`ScanDoesNotRepeat`, `ScanEnds`: a scan that the application continues until it
gets no key, with fstsui and fstinfx mixed, and with fstinfx across appends,
deletions, edits and rewrites, returns every record that matched all along,
none twice, and ends.

**sequential.** `HandlesResolve`: the address in a handle, cut to the cluster of
the place where the record starts, is the record's own address, in every cluster
and across their limits. `OnBoundary`: the position is where a record, a mark or the end of
the tape begins, after any searches, skips, writes and crashes, or on the postfix of the last
record, or past the end of a file that was never closed; otherwise the
next call would take data for a header. `Refines`: every call does to records,
marks and position, and answers, what `SeqTape` says: a write cuts the tape, a
search stops at the first match, mark or deleted record, a read gives the record
found last. What the code does not keep of a tape is part of the abstract
specification. A deleted record stops a search (`next_match` takes idtyp 255 for
an end). A search behind a record that only marks follow may fall short (`FallShort`), since
near the end of the file `next_match` cannot read a whole header at the postfix. A tape that a
crash left without its end mark is `frayed` while old words stand behind its last
item, and any call may be lost in them (`Stray`).

**tables.** `UnitsReachTheirFiles`: an open word-addressable unit has a descriptor
of the file it was connected to; and it reads and writes that file from its start, or the
member of an archive where `filepos` found it, through pages of its own. The
second part leaves out, by name, what `c_fclos` and members of archives spoil: two slots with one
descriptor (`Shared`), and a slot that served a member before (`WasMember`; section 5). `XdfFilesAreConnected`: an XDF
file that is open is found under its unit and that unit reaches an open file.
`HandlesNameTheirFiles`: the index that is taken out of a handle is the one of
its file, also after the first sequential file has changed the number of bits
that hold it. `UnitsAreIndependent`: a call changes the file, the offset or the pages that
at most one unit reaches.

**cache.** `Refines`: every call is a step of `WordStore`: a read answers the
words last written, and a close leaves them on disk, whichever page of whichever
file lost its buffer in between. A request goes to the address it names; on a stream it goes to the
position of the descriptor (`Answered`) and answers all the words asked for or none (`ReadAll`). `NeverExits`: with one page a file the library
never ends the process: no page is asked for that the disk cannot fill, and no
two pages overlap. `BuffersAreKept`: every buffer that was allocated is in a page
or free.

**packing.** `ArraysComeBack`: unpacking returns each array, up to the bits its
tokens do not hold, whatever was packed next to it or over it, and a field that was
compressed and uncompressed, or refused, comes back too: with both predictors, at
every level, in both orders of halves. `RealsComeBack`: real numbers packed as
integers come back within a step of their packer, through compression too, and
those of `c_armn_compress32` with their sign, exponent and the bits that were asked
for. `StreamsFit`: no stream is longer than the memory that `armn_compress` takes
for it, which it compares with the field only when the stream is complete.
`AutodetectionKeepsAll`: a size that the packer found itself loses nothing.
`OtherBitsAreKept`: no bit outside the tokens of a call of a packer changes, the rest of the
first and of the last word included.

**fields.** `FieldsComeBack`: whatever became of the data type on the way (npak 0
or 1, the limits on the number of bits, DATATYPE_REMAP, a compression that
failed, a copy in image mode), what was stored whole is read back, missing
values as missing. `SearchesAgree`: a search with filters finds nothing or what a
search without them finds. `RewriteKeepsOthers`: whatever filters are left, a write with rewrit
replaces one record at most, and that one has the ips of the new one, but for an ip whose filter
is masked and never looked at (`Overlooked`): a lone filter on ip2 or on ip3 lets a
record with another ip2 or ip3 be overwritten, and nothing else. The other two exclude, each
by a definition with a name, what section 5 lists as known: `Misread`, `DecodedAsEncoded`, the
first element of a field, `CodeAsMark`, `FlagLost`; `Nested`, `AskedFor`.

### Bounds

Two directory pages of two entries (`random_file`, `search`) or of one
(`random_refines`) give a full page, a second page and a full directory within
three or five records; lengths 2 and 3, the header of a record and one or two units of
data, give rewrites that fit and that do not; ten units hold header, two pages and three
records, eight units two. `MaxAddr` bounds the puts through the size of the file. `MaxRewrites` bounds nrwr, which would
otherwise count forever. The modes are READ, R-W and APPEND (WRITE behaves as
R-W in everything modelled). `random_file` has one key, since only a value that
two records share or not matters to it; `random_refines` has two keys and edits.
Keys and values are symmetric in these two runs, whose properties are safety
properties. `search` has one length and one value, which no search looks at, no
close and no crash, which end every scan, and `pos.pageno` is bounded in
`LocateNext`: cur_pageno can creep beyond the directory when searches that find
nothing are repeated.

`sequential`: up to three records and marks on a tape of 22 units (`MaxItems`, `MaxAddr`),
where clusters grow from 1 to 2 units at address 8, so that records lie before, across and
behind the limit; the source has four sizes from 32 MB on. A record has four units of header and
data, as many as a search reads at once (`Width`), and so has the header of the file: the end
mark and a postfix are too few, so that searches meet the end of the file in every way. Two keys, symmetric (76 195 states).

`tables`: three units; two entries, slots and descriptors, so that every one is given
out again to another file; six indexes, three of which fit a sequential handle. Index 0 is
reserved, so that a random file and a sequential one are open together and a handle of
index 1 or 2 that was made before `STDSEQ_opened` is set is used after it. One
random or absent or busy file, one sequential one, an archive with a member that is found and one that
is not, and a name that `c_fnom` refuses. The view takes states that differ in the names of
the units for one, besides what no action reads (137 778 states; the longest run, three
minutes).

`cache`: two files of six and two words and a page of four words or none; the
limit of one buffer makes the files take it from each other. `MaxPages` is 1 in
this instance: with more, the library exits as soon as a file has two pages
(section 5). The view leaves out `answer`, which no action reads (19 592
states). The use counts are bounded by the decay.

`packing`: words of 16 bits, shorts of 8, characters of 4; sizes of one bit, of
three, of a word and autodetection; arrays start at bit 0 or 3; two calls of
`PackBehind`, and `PackOver` any number of times. Eleven fields of up to 6 x 6
elements give every kind of tile (none, narrow, raw, wide), tiles cut at the
edge, odd numbers of elements, noise that does not compress and sides and sizes
below the limits, which are scaled down with the words (`MinSide` 4 for 16, `FewBits`
2 for 4). Nine fields of real numbers with 4 bits of exponent give runs of signs
above every limit of the counts (`Sequence` 4 for 7, `CountBits` 3 for 6), flat and
spread exponents, and streams that are too long; six more are packed as shorts
(30 996 states). `PackedWords` bounds the array, `MaxCalls` the calls.

`fields`: bytes of 3 bits, which makes a short 6, an integer 12 and the limit of
16 bits of the code 6; calls of `c_fstecr` for unsigned bytes, signed integers
and doubles with missing values, the doubles compressed, a compressed field of
2 x 2 elements on two levels, a transparent field, a type that does not exist
and a refused argument. DATATYPE_REMAP turns unsigned integers and doubles into
other compressed types (130 and 134). `MaxRecords` is 2 and
`MaxSettings` lets one setting at a time be off its default, together with any
code for missing values (58 314 states). `MaxIpvals` is 1: a second value of a
filter is 0 again, or -9999, which no record has.

Deadlock is checked in all passing runs: in each of them some call is always
possible, until, in `cache`, the library has ended the process; that does not
happen there.

### Fairness

`SearchSpec` has `WF(Sui \/ Infx)`: an application that is in a scan goes on with
it, as the loop of the Swift test does. No call of the library waits for
anything, so that nothing else needs fairness, and no other call is assumed to
happen. The scan ends for two reasons that the run confirms together: every step
moves the position forward, and records are added behind it only until the
directory is full. The other modules have no property of this kind: their calls
return, and nothing has to happen between them.

## 4. What is proved

TLC checks the instances of section 3; the theorems hold for every value of the
constants that the assumptions of the modules allow. Each names the property of
a run where there is one. `PROJECT.json` lists them.

| theorem | states | supposes |
|---|---|---|
| `TypeCorrect`, `HandlesStable` (`XdfRandom_proofs`) | `[]TypeOK`, `HandleIsStable` | |
| `DirectoryCorrect` (`XdfDirectory_proofs`) | `[]DirectoryInv` | `NeverClosesRefused` |
| `SpaceTiled`, `CountersCorrect`, `SavedIntact`, `CheckpointCorrect` | `[]SpaceIsTiled`, `[]CountersAgree`, `[]SavedIsIntact`, `[]CheckpointSaves` | `NeverClosesRefused` |
| `RandomImplementsCatalog` | `Refines` | `NeverClosesRefused` |
| `SearchTypeCorrect`, `ProbesCorrect` (`XdfSearch_proofs`) | `[]SearchTypeOK`, `ProbeIsExact` | |
| `FoundCorrect`, `ScansComplete`, `ScansDoNotRepeat` | `[]FoundMatches`, `ScanIsComplete`, `ScanDoesNotRepeat` | `OnlySettledSearches` |
| `TypeCorrect` (`XdfSeq_proofs`) | `[]TypeOK` | |
| `HandlesGiveBack`, `PositionIsOnBoundary` | `[]HandlesResolve`, `[]OnBoundary` | `~LateMarks` |
| `ImplementsTape` | `Refines` | `~LateMarks` |
| `TablesCorrect` (`FileTable_proofs`) | `[]TablesInv` | |
| `TableTypeCorrect`, `UnitsCorrect`, `XdfFilesCorrect`, `UnitsKeepApart` | `[]TypeOK`, `[]UnitsReachTheirFiles`, `[]XdfFilesAreConnected`, `UnitsAreIndependent` | |
| `HandlesCorrect` | `[]HandlesNameTheirFiles` | `SeqTyped`, `LowIndices` |
| `FieldCorrect` (`FstField_proofs`) | `[]FieldInv` | |
| `SearchesFindTheSame`, `RewritesReplaceTheirOwn` | `[]SearchesAgree`, `RewriteKeepsOthers` | |
| `DataCorrect` | `[]DataInv` | |
| `FieldsAreTyped`, `WhatIsWrittenIsRead` | `[]TypeOK`, `[]FieldsComeBack` | |
| `CacheIsSound` (`WaFile_proofs`) | `[]CacheInv` | |
| `CacheTypes`, `CacheKeepsBuffers`, `OnePageNeverExits` | `[]TypeOK`, `[]BuffersAreKept`, `[]NeverExits` | |
| `CacheImplementsStore` | `Store!Init`, `Refines` | |

### What they suppose

`NeverClosesRefused` says that the application does not close a file that
`c_xdfopn` refused. Without it the theorems are false, not only unproved: that
close clears the writer's mark on disk (`LockHolds`, section 5), and a
directory that a crash left half written then opens for writing.
`OnlySettledSearches` says that `fstsui` is not called after a write, where
`NothingSkipped` (section 5) is false. `SeqTyped` and `LowIndices` are the restrictions of
`FileTable` in section 6, `~LateMarks` that of `XdfSeq`: behind a mark past the first cluster
a record's address is no multiple of its cluster's size, and its handle does not give it
back. All of them are what the passing runs assume too.

The named assumptions of the modules, which TLC evaluates in every run:
`SizesAssumption` and `MarksAssumption` (positive sizes, records of a header and at least a
unit of data, modes of a file among the four, marks that are no keys or values); `TableAssumption` (tables are not empty, 1024 is a
multiple of 128, descriptors are above the standard ones, units are in the
range that `c_qqqfscr` gives, addresses are numbers); `SeqAssumption` (the limit of the first
cluster is a multiple of the growth of the clusters and lies behind the header; the tape ends
where handles end, at 2 GB in the source; a search reads more than a postfix and no more
than a record without its postfix or the header of the file has); `FieldAssumption` (a filter's table
has room for a value; what `c_fstecr` accepts, `ValidCall`, has ip1, ip2, ip3 of at least 0, at
least one element in each direction and at most `NBITS_MAX` bits, 64, which `VALID`
tests at `fstd98.c:903-915`, and the application's field has as many elements as it says; a search
asks for such an ip or for -1); `RemapAssumption` (DATATYPE_REMAP makes types out of the types
it is asked about: `Remapped` is a fold over the table); `CodesAssumption` (a byte has a bit, and
there is a number for every kind of missing value, in the code, from the environment or from
`set_missing_value_flags`); `FormsAssumption` (a compressed stream has a word at least); `WaAssumption` (files are
1 to n in the order in which `scrap_page` looks at them, `WA_PAGE_NB` is positive where
`WA_CONFIG` gives it, `MAXPAGES` and `MAXWAFILES` are positive, nobody writes the word that marks a
hole, blocks are counted from 1); `EvenAssumption` (requests, blocks and pages are even numbers of
words: XDF counts in units of two words, `WA_CONFIG` in units of 1024; section 6 says what
becomes of other requests).

### The arguments

**Types of a random file.** `TypeOK` is not inductive: `FlushPage` and
`FlushHeader` use `header.nbd` as the number of pages, which the type alone
lets exceed what there is. `TypeInv` adds `PagesCounted`: in an open file the header
counts the pages in memory, at least one. `HandlesStable` follows: most
calls leave `entry` and `page` alone (`KeptByFrame`) or change one entry; for a put at
the end (`PutAtEndKeeps`) the new entry was not in use before.

**The directory.** `DirectoryInv` has five parts; TLC checked it on `random_file` and
`random_refines` before it was proved.
`Consistent` says of any header, pages and entries that they cover the file, are
disjoint, chained and counted. It is stated of three operators' arguments because it must
hold of the directory in memory (`WritingInv`) and of the one on disk when no writer's
mark is on it (`CleanDisk`): opening a file for writing turns the second into the
first. `DiskBehind` relates the two while a file is being written: a page on disk
is an `Earlier` state of the page in memory, empty if the header on disk does not
count it or no chain leads to it, and equal if the flush has passed it or has nothing to write
(`Settled`, `Synced`). Without it neither the end of a close nor a crash between its
writes can be argued. `ReadingInv` is the same of a file opened READ, which may show a
torn directory. `DiskSafe` is the part of `SavedIsIntact` about data, in a form that a rewrite in
place preserves. The headers of the records need a part of their own, since they go before the
page does: in memory (`MemoryStored`) every entry that is live, or deleted with 254, has its header
on disk, and so has every live entry of a saved directory without a writer's mark (`HeadersKept`,
in `CleanDisk`). When a close clears the mark all pages are `Synced`, and the first gives the
second. `RandomImplementsCatalog` needs no further invariant: a call maps to the action of the
catalogue with its name, the write of a page that was modified to `SavePart`, the end of a close to
`Close`, and the other steps of a flush, those of `FlushRecord` among them, to a stutter: no data
change, and a record with 255 in memory is as deleted as one with 254.

**Searches.** `ProbesCorrect` is about one call in any state of the right types: a search
begun at the beginning or at a record does not depend on the position. `ScanInv` is what a scan needs:
as long as it is settled, the position is just behind the record returned last; what it must
return yet lies behind that record and what it has returned does not.

**Sequential files.** Two facts carry `HandlesResolve`. `PutLenIs` is arithmetic: c_xdfput takes
the cluster from the end of the record without the padding, and the padded end is a multiple of
that cluster's size in the same cluster, or the first address of the next one, which is a
multiple of the next size. `TapeInv` is about the cells: every record and mark begins where
another ends (`Boundary`) and none inside another, a postfix leads to its record, and no header of
the tape follows a record that was cut off, or the mark EOF. So boundaries are all there is
to resolve, and a write, which happens on a boundary, makes one more. `Sizes` relates the tape to the
file: it ends before `disk` and before the place where a close would cut; a tape without an end mark that
is open has its size from the disk. Without it a close could cut a record, and a
search could stop short of one. `Positioned` says that the position is 0, or a place where a
record may begin or where a file without an end mark ends (`Stand`), or on the last postfix (`LastPost`);
it needs handles to resolve, because `fstinfx` goes to the address in one. `FoundStands` says that the
record found last is still on the tape, which `Read` relies on. `Walk`, `AppendWalk` and `Places`
are recursive functions: that a function with their equation exists is `Recursion` (the greatest address from
which on there is none would have one before it), and what they give follows by the same argument (`NoneLast`:
a set of addresses that has none without one behind it is empty), without induction over sequences.
For a search that is `Outcome`: it stops at the first item it should, or finds none, or falls short on the
last postfix, or is lost, and then the tape is `Frayed`.

`ImplementsTape` needs no more than this invariant. A list of a set in ascending order is
the only one (`OneList`), so `Places` is known by its set of addresses alone and a write is known
by what it does to that set; and what `Passed` counts below an address is the
number of the last item of the list below it (`Splits`, `SplitsCount`), so that the position of
`SeqTape` follows from the addresses that a walk passes (`AroundItem`). A put maps to `Write`, one
that dies to `TornWrite`, the mark EOF to `Cut`, skips and `fstapp` to `Move`,
and a search to `Search`: it begins at the same item (`LocateStep`) and the address at which
the walk stops is that of the least item at which `SeqTape` stops. A search that falls short maps to
`FallShort`, and a call that is lost to `Stray`.

**Tables.** `TablesInv`: a unit has one entry and one index; a descriptor that an entry keeps is
open on the file of the entry, has a slot, and belongs to no other entry; the unit of an XDF file
has an open entry with a descriptor. The second part speaks of entries that are not
marked open too, because a member of an archive that is not found leaves its descriptor
in such an entry. Some slot serves the entry (`Serves`: its descriptor, its pages, the offset
of its member), but it need not be the one that is used: `c_fclos` leaves slots behind
with descriptors that are closed, and the first slot with the descriptor may be an old one, with
another offset and other pages. So the invariant gives the file in every state, and the
place and the pages where the slot is the only one with the descriptor (not `Shared`); the
offset of a plain file also asks that its slot was never a member's (not `WasMember`), as
nothing sets it back. `UnitsKeepApart` holds with offsets and pages all the same: a call that takes or
frees a slot changes what is reached through one descriptor, and only one unit has it.
`HandlesInv` keeps two remainders of a handle, by 1024 and by 128, since the call that
opens the first sequential file changes which of them is used.

**Fields.** `FieldInv` says that records that are not deleted have the keys of valid calls, that
filters hold 0 or -9999, and that an image in memory could be written. A filtered
search then asks for 0, the one code a record can have, and cannot tell apart what the
search without filters finds, when filters are nested. A rewrite puts the record where `Infx` found one
(`ReplacedIsAlike`), for any filters: an ip that is not masked is compared by the search, one whose
filter is looked at by `ip_is_equal`, where 0 is the only value both can have; what is left is
`Overlooked`. It says nothing of the data.

`DataInv` does: every record that is not deleted, and the image in memory, is `Good`, so that
it also holds of a copy in image mode, and of a copy of that copy. The property is in
`Marked`: in a record that was stored whole and is not `Misread`, each element is the
field's, or, where one is missing, a number that is the same for all of them and above every
other (a field for which there is none is not whole: section 5). Above, because the decoder takes the largest element for it: with a number that only
differs the field would not come back. The other parts are what `Marked` needs to survive.
`Shaped` ties the type to the form of the data and to the bits of its tokens, by which the
readers choose. `Within` says that an element is noise unless the words of the record hold
it; a copy in image mode takes just these words (`ImageWords`), and so loses nothing.
`Narrow` bounds the bits of compressed types: `Limited` then leaves those of the copy alone.
`Sized` gives records and fields one length.

A write makes a record `Good` case by case through the switch on the type (`WrittenIsGood`,
`StoredIsSwitched`); what image mode reads of a `Good` record is `Good` (`ImagesOfGood`), and so
is what a write makes of that (`CopyOfGood`); and `GoodComesBack` concludes that `ReadBack` gives
the field, for missing values by `MarkedComesBack`. TLC does not evaluate `DataInv`, which
asks for a number in `Int`; it checks `TypeOK` and `FieldsComeBack`, which follow from it.

**Page cache.** `CacheInv` says that there are words w of the files, those of `WordStore`, that
memory and disk show together (`Shows`). Each page begins at a multiple of the page size, ends with
the file or with the page, and holds the words of w; no two pages of a file begin at the same
word; a page that was not written to repeats the disk; and a word that no page holds is on
disk. Each part is there because one of the functions needs it: `scrap_page` writes only
pages that were written to, so the others must be on disk already (`ScrappedIs`);
`wa_page_read` takes a new page from the disk alone and ends the process when it finds too few
words, so what no page holds must be there; the tests for overlapping pages find none in a
write because pages begin apart. `Counted` has the buffers, and how many pages a file may have.
That files have even lengths keeps a write from ending one word before the end, where
`NeedsRead` would not read that word in; and a stream's position stays in its file.

A request is cut at multiples of the page size: `PiecesAre` says that the pieces follow
one another, each within one page, and cover it. What a run over them leaves
(`WritePiecesIs`, `ReadPiecesIs`), and a run over the pages of a file in `wa_pages_flush`, is argued
by the least piece after which it would be false; the runs are recursive functions, which
exist by the same argument as in `XdfSeq`. A write behind the end is two writes, the hole and the request,
and one `Write` of the store (`HoleIs`). As w is unique (`AllWordsIs`), every call is a step from
`AllWords` to `AllWords'`. A read may end the process (`Store!End`) only in a file that may have
two pages, by the fault of section 5, and a write never does: that is `OnePageNeverExits`.

### What is only model-checked

- Liveness (`ScanEnds`) under the fairness of section 3: the provers have no rules for it.
- `packing`: the calls of `Packing` are folds over bits, tokens and tiles, and what a fold
  computes for every input takes induction over data.
- `RemapAssumption`, on the tables of the instance: what a fold gives for every table takes
  the same induction.
- The runs that end in a violation (section 5), which no theorem contradicts: each breaks a hypothesis
  above or a definition that a property excludes by name.

## 5. What the checks found

Each is a run that TLC ends with a counterexample. The first three were replayed
on the compiled code; the fourth is one loop, `for (i = 1; ...`, in eight copies.

- `search_across_writes` refutes `NothingSkipped`. `c_xdfput` moves
  `cur_entry` to the entry it adds but leaves `page_record`; when the two agree by
  chance (`page_record` is 0 after a search that found nothing, and the new entry
  is the first of its page) a later `fstsui` goes on behind records it never
  returned and reports the end. Otherwise the same call gets ERR_NO_POS. Hence
  `ScanAcrossWrites = FALSE` in `search`.
- `refused_then_closed` refutes `LockHolds`. `c_xdfopn` refuses a file whose
  header says that a writer has it, but leaves the unit in the file table; closing
  the unit then clears the writer's mark on disk.
- `short_directory` refutes `PagesAllRead`. The test for a chain of pages that is
  shorter than nbd can never hold (`xdf98Light.c:1641`), so that a file whose
  close was cut short opens for reading with empty pages.
- `first_missing` refutes `MissingComeBack`. The decoders of `fst_missing.c` start
  at the second element: a field whose first element is missing comes back with
  a number there (`fst_missing.c:749`).

Other places where the code does not do what its comments or its callers
expect, met while modelling. The models have the code's behaviour; a property
that would otherwise be false excludes it by name.

- Single precision fields are never encoded for missing values: the call follows
  a `return` (`fst_missing.c:1508`).
- A field that is negative and constant gets the same value for "missing"
  when it is encoded as double (`fst_missing.c:909-912`).
- What stands for a missing element should be greater than every value of the field
  (`fst_missing.c:142-144`). In an integer field it is one more than the largest of the others, if
  the bits allow it, which may be the code itself: with 255 for unsigned bytes and a largest of 254 the
  encoder leaves 255 where it is, the decoder passes over elements that are the code when it
  looks for the largest, and every 254 comes back as missing (`CodeAsMark`). The proof of
  `WhatIsWrittenIsRead` found this; the compiled code does it.
- Types 3 and 7 are packed with 8 bits (`fstd98.c:1262`, `1371`) in a record whose length is
  computed from the bits asked for (`fstd98.c:1005`): an image copy of type 7 takes
  too few words when fewer are asked for. An image copy of type 133 with more bits than a
  word gets type 5, which is not read (both `Misread`).
- `GetMissingValueFlags` gives the codes before it reads the environment.
- An integer field whose compression fails is recorded as uncompressed, but its
  tokens stay behind the word of the length (`fstd98.c:1222`; `Misread`). Unsigned
  bytes are read with 8 bits whatever they were packed with (`fstd98.c:2335`).
- A field with missing values whose compression fails is recorded with a type
  without the flag 64 (`fstd98.c:1183`, `1222`, `1320`, `1346`), so that its
  missing values come back as numbers (`FlagLost`).
- Fields of types 5 and 8 are not written, since the call of `ieeepak` is commented
  out (`fstd98.c:1321`), and a field of characters is as long as one level
  (`fstd98.c:1262`).
- `xdf_short`, `xdf_byte` and `xdf_double` stay set after the error returns of
  `c_fstecr` (`fstd98.c:1376`): the next field is taken for elements of that length.
- A filter on ip2 alone, or on ip3 alone, is masked out of the search and never
  looked at (`fstd98.c:1772`, `1825-1845`; `Nested`). The record that
  `c_fstecr` rewrites is found by such a search too (`fstd98.c:1101`): it writes over a record with
  another ip2 or ip3. `RewriteKeepsOthers` says that nothing worse happens.
- A filter is not looked at either when -1 is asked for (`AskedFor`), and
  `c_fstinl` then returns only records like the first.
- `c_fstlic` searches a second time when the filters are gone (`fstd98.c:2022`).
- In image mode the missing values of a record are decoded in its packed words
  (`fstd98.c:2466-2470`): a copy may be spoiled.
- `c_ipN_all` writes into its table before it tests that there is room
  (`fstd98.c:3458`); the model's application stops when it is told.
- With a header and autodetection `cleanupMask` is computed from -1
  (`compact_integer.c:413`): the top bit of a whole word is lost.
- A field of type 129 with fewer than 16 bits comes back wrong: its tokens are packed in
  16 bits each, and the size in the header, which is the one asked for, replaces
  that on reading (`compact_float.c:359`; `Misread` in `Packing` and `FstField`). The
  compiled code does the same.
- The compressors handle `ni * nj` elements: of a field with several levels only the
  first is kept (`c_zfstlib.c:103`, `armn_compress_32.c:104`), although its size is
  compared with that of all (`c_zfstlib.c:63`).
- `armn_compress_setswap_`, the Fortran name of `c_armn_compress_setswap`, sets the
  level instead (`c_zfstlib.c:1336`).
- A mask of signs would be read as runs, and its words are counted as bytes
  (`armn_compress_32.c:178-182`); the runs are never so long that it is made. The length
  of the mantissas is written as that of the signs (line 244), and not read. Nine
  bits or fewer leave the mantissas none (line 91), and the shifts are then undefined. The refusals
  do not free what was allocated (lines 204-207).
- `float_packer_1` gives 0 a hidden bit (`float_packer.c:190`), so that it cannot tell
  it from the smallest numbers; `CallsAssumption` asks for a larger one in the field.
- `wa_page_read` compares every page of a file with the page it has just read, itself
  included, and exits when they overlap (`c_baseio.c:2086`): with `WA_PAGE_NB` above 1 a
  read in a file with two pages ends the process.
- `c_fclos` closes a descriptor that its slot keeps (`c_baseio.c:638-658`). `qqcopen` records the
  descriptor anew, in the first free slot, but `qqcward` and `qqcwawr` use the first slot that has
  it: the next file that gets the descriptor may be read and written at the offset of the old slot and
  through its pages (`Shared`).
- `qqcopen` sets the offset of a slot for a member of an archive only (`c_baseio.c:1927`), and nothing
  resets it: a plain file that gets the slot afterwards is read behind that offset (`WasMember`).
- `filepos`, once it has found the member, goes to the end of the archive and returns that
  position (`c_baseio.c:1848`): a member that is found is read from behind the end of the archive.
- When `c_xdfcls` writes a page, it overwrites the headers of the records deleted since
  first (`xdf98Light.c:607`): a crash before the page is written leaves records in the directory
  without a header. Readers do not look at it (`xdf98Light.c:1844-1906`, `fstd98.c:2240-2246`); and
  the file has a writer's mark.
- A sequential file is cut at a close only if `f->modified` is set (`xdf98Light.c:596-631`), which
  `c_fstweo` does not do (`fstd98.c:3381-3394`): what stood behind the mark stays in the file. A
  crash after the first write of a record or a mark in the middle of the tape makes these words readable (`Stray`).
- `fstinfx` after the last record begins at its postfix, where too few words are left for `next_match` to
  read, and leaves the position there (`FallShort`): a write that followed would replace the postfix.
- A search past the end of a sequential file takes the header read before for the one at the position
  (`xdf98Light.c:183-190`): if that was a mark, each search moves on by one unit, and a write
  that followed would leave a hole (`c_baseio.c:945-951`).

## 6. What is not modelled, and why

Parts of the system:

- Linked files (`c_xdflnk`, `c_xdfunl` and the loops over links in every call that
  takes a handle). They need `XdfRandom` with a file for every page.
  `PROJECT.json` lists the faults seen on reading (`xdf98Light.c:433`, `:646`, `:1065`).
- The 1989 format (`c_xdfopn` converts its directory), general key files,
  `c_xdfcheck` (reads one header), and opening one file on two units, or in two
  processes.
- Of the packers of real numbers: tokens for missing values, sizes above a word,
  `compact_double` (as `compact_float`, with a minimum cut to 24 bits), the factor
  1.0000000000001 and the rounding of floats, for which the models have
  integers. Of the compressors: SAMPLE, which ends the process, and the functions
  that nothing calls (`pack_stream_*`, `calcule_entropie`).
- Fortran entry points, byte swapping, logging, printing (`c_fstvoi`), remote files
  and the directories that `c_fnom` searches.

Restrictions of the parts modelled:

- `XdfRandom`: a unit that is connected read-only (the code then skips the disk
  writes); handles that no call returned (the test `record_number > nent`,
  `xdf98Light.c:836` and three other places, lets the number nent through);
  `c_fstckp` of a refused file.
- `XdfSeq`: a put over the header after a file was created and rewound (seq_bof is
  then not the end of the header), and writes where a search that ended on a postfix or
  past the end of the file left the position (`Attached`: a write is behind the header, a mark, or a
  record with its postfix); what follows a call that read old words (it may loop on a length of zero),
  where only that it can happen is modelled; data of a record that look like a postfix to
  a step back; `c_fstckp`, which cuts the file as a close does and leaves it open; a handle used after a
  write, whose header in memory is stale; marks behind the addresses of the first
  cluster (`LateMarks = FALSE`): a mark has one unit and records behind it are
  no longer on multiples of the cluster.
- `FileTable`: the application does not fill `FGFDT` or `file_table`, whose full
  tables the code indexes out of bounds; it opens an XDF file only on a unit that reaches its file
  at its own place (`OwnHeaders`; elsewhere the header read may be anything. This bounds the
  run; the theorems hold without it); it connects a sequential file with
  a type that says so (`SeqTyped`); it opens its first sequential file while all
  open files have small indexes (`LowIndices`), without which the handles of the
  others lose their meaning (`xdf98Light.c:1529`).
- `WaFile`: requests start at odd words and have even lengths, as those of the
  XDF layer. Others meet two faults: a piece at a multiple of the page size is
  copied from the word before its page, and a write that ends one word before the
  end of the file loses that word.
- `Packing`: autodetection where less than a whole word is needed; no header
  with shorts and characters; stride 1; tokens up to a word.
- `FstField`: names, labels, dates, and the strings of the keys; `c_fstouv`, whose
  effects are in `FileTable` and `XdfRandom`; counts.
- Widths of counters: nrec, fsiz and nxtadr have 32 bits and more than a file
  reaches before its 1024 pages of 256 entries are full.
- A real disk's failures: short writes and errors of `write`, which the code does
  not test or ends the process on.

## 7. Plan

1. `XdfLink`: two random files and their links over the operators of `XdfRandom`;
   `c_xdfget2` and `c_xdfprm` through page numbers; two writers of one file.
2. Two pages a file in `WaFile` once the overlap test of `c_baseio.c:2086` allows them:
   the module has them, only the instance does not.

Theorems, after those of section 4: for `BitPacking`, what one step of `Stuff` and
`Extract` does to a token; for `ArmnCompress32` that a number is its sign, exponent and mantissa.
