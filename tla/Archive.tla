------------------------------ MODULE Archive -------------------------------
(***************************************************************************)
(* Archives on the scratch device: the ustar headers of                    *)
(* pintos/src/lib/ustar.c, and `append' and `extract' of filesys/fsutil.c. *)
(* A header is the bytes of its fields; the fields that always hold the    *)
(* same bytes are two constants, the fields that vary have the lengths     *)
(* given here.  A string is a sequence of character codes without the NUL, *)
(* a sector a header, data or zeros.  A file is its name and its bytes,    *)
(* and, as fsutil_append meets it, the byte behind the buffer malloc gave. *)
(***************************************************************************)
EXTENDS Integers, SequencesExt, FiniteSetsExt

CONSTANTS
  NameLen,       \* sizeof h->name, 100 in the code
  OctalLen,      \* sizeof of the octal fields size and chksum, 12 and 8
  LongBits,      \* width of an unsigned long int, 32
  SectorSize,    \* BLOCK_SECTOR_SIZE, 512
  ScratchSize,   \* sectors of the scratch device
  NAME_MAX,      \* the longest name filesys_create takes
  NoFile

Slash == 47
DotCh == 46
Space == 32
Fixed == <<117, 48>>    \* magic and version, which ustar_parse_header compares
Rest == <<114, 0>>      \* the owner, for the fields it ignores, and prefix[0]
REGULAR == 48
DIRECTORY == 53
EOF == -1

Sum(s) == FoldLeft(LAMBDA x, y : x + y, 0, s)

Zeros(n) == [i \in 1 .. n |-> 0]

\* strlcpy into a field of n bytes that was zero.
Padded(s, n) == [i \in 1 .. n |-> IF i <= Len(s) THEN s[i] ELSE 0]

\* snprintf "%0<n-1>o" of a number that fits.
OctalField(value, n) ==
  [i \in 1 .. n |-> IF i = n THEN 0 ELSE 48 + ((value \div 8^(n - 1 - i)) % 8)]

-----------------------------------------------------------------------------
(* ustar.c *)

\* As if the field itself were all spaces.
calculate_chksum(h) ==
  Sum(h.name) + Sum(h.size) + OctalLen * Space + h.typeflag + Sum(h.fixed)
    + Sum(h.rest)

StartsWith(s, t) == Len(t) <= Len(s) /\ SubSeq(s, 1, Len(t)) = t

AfterSlash(s) == SubSeq(s, SelectInSeq(s, LAMBDA c : c = Slash) + 1, Len(s))

RECURSIVE strip_antisocial_prefixes(_)
strip_antisocial_prefixes(s) ==
  IF \E t \in {<<Slash>>, <<DotCh, Slash>>, <<DotCh, DotCh, Slash>>} : StartsWith(s, t)
    THEN strip_antisocial_prefixes(AfterSlash(s))
  ELSE IF s \in {<<>>, <<DotCh, DotCh>>} THEN <<DotCh>>
  ELSE s

\* NoFile for a name that is too long.
ustar_make_header(file_name, type, size) ==
  LET name == strip_antisocial_prefixes(file_name)
      h == [name |-> Padded(name, NameLen), size |-> OctalField(size, OctalLen),
            chksum |-> Zeros(OctalLen), typeflag |-> type, fixed |-> Fixed,
            rest |-> Rest]
  IN  IF Len(name) > NameLen - 1 THEN NoFile
      ELSE [h EXCEPT !.chksum = OctalField(calculate_chksum(h), OctalLen)]

RECURSIVE OctalFrom(_, _, _)
OctalFrom(s, ofs, value) ==
  IF ofs > Len(s) THEN NoFile
  ELSE IF s[ofs] \in 48 .. 55
    THEN IF value > (2^LongBits - 1) \div 8 THEN NoFile
         ELSE OctalFrom(s, ofs + 1, (s[ofs] - 48 + value * 8) % 2^LongBits)
  ELSE IF s[ofs] \in {Space, 0} /\ ofs > 1 THEN value
  ELSE NoFile

\* The value of the field, NoFile if it is malformed.
parse_octal_field(s) == OctalFrom(s, 1, 0)

is_all_zeros(h) ==
  \A b \in Range(h.name) \cup Range(h.size) \cup Range(h.chksum) \cup {h.typeflag}
             \cup Range(h.fixed) \cup Range(h.rest) : b = 0

ZeroHeader ==
  [name |-> Zeros(NameLen), size |-> Zeros(OctalLen), chksum |-> Zeros(OctalLen),
   typeflag |-> 0, fixed |-> Zeros(Len(Fixed)), rest |-> Zeros(Len(Rest))]

TextOf(s) == SubSeq(s, 1, SelectInSeq(s, LAMBDA c : c = 0) - 1)

Eof == [type |-> EOF, name |-> <<>>, size |-> 0]

\* The conditions under which ustar_parse_header returns an error.
Refused(h) ==
  \/ h.fixed # Fixed
  \/ parse_octal_field(h.chksum) = NoFile
  \/ parse_octal_field(h.chksum) # calculate_chksum(h)
  \/ h.name[NameLen] # 0 \/ h.rest[2] # 0
  \/ h.typeflag \notin {REGULAR, DIRECTORY}
  \/ /\ h.typeflag = REGULAR
     /\ \/ parse_octal_field(h.size) = NoFile
        \/ parse_octal_field(h.size) > 2^(LongBits - 1) - 1

\* What is stored through the pointers, NoFile for an error.
ustar_parse_header(h) ==
  IF is_all_zeros(h) THEN Eof
  ELSE IF Refused(h) THEN NoFile
  ELSE [type |-> h.typeflag, name |-> strip_antisocial_prefixes(TextOf(h.name)),
        size |-> IF h.typeflag = REGULAR THEN parse_octal_field(h.size) ELSE 0]

-----------------------------------------------------------------------------
(* fsutil.c.  The device is a function from sectors; panic is the PANIC.    *)

Chunk(data, at) == Padded(SubSeq(data, at, Len(data)), SectorSize)

\* block_write, which panics past the end of the device.
block_write(d, sector, what) ==
  IF d.panic \/ sector >= ScratchSize THEN [d EXCEPT !.panic = TRUE]
  ELSE [d EXCEPT !.sectors[sector] = what]

RECURSIVE CopyOut(_, _, _)
CopyOut(d, data, at) ==
  IF at > Len(data) \/ d.panic THEN d
  ELSE CopyOut([block_write(d, d.sector, Chunk(data, at)) EXCEPT !.sector = @ + 1],
               data, at + SectorSize)

\* A seeded fault: no marker behind the last file.
EndMarker_missing(d, stray) == d

\* Both writes of the end-of-archive marker go to the same sector.  The second is
\* of buffer + 1: its last byte, of the padding, is the one behind the buffer.
EndMarker(d, stray) ==
  block_write(block_write(d, d.sector, ZeroHeader), d.sector,
              [ZeroHeader EXCEPT !.rest[1] = stray])

\* d has the device, the static variable sector and panic.
AppendedWith(h, d, file) ==
  IF h = NoFile THEN [d EXCEPT !.panic = TRUE]
  ELSE EndMarker(CopyOut([block_write(d, d.sector, h) EXCEPT !.sector = @ + 1],
                         file.data, 1), file.stray)

fsutil_append(d, file) ==
  AppendedWith(ustar_make_header(file.name, REGULAR, Len(file.data)), d, file)

\* The bytes of a file of the given size from a sector on.
DataAt(sectors, sector, size) ==
  [i \in 1 .. size |-> sectors[sector + (i - 1) \div SectorSize][((i - 1) % SectorSize) + 1]]

SectorsFor(size) == (size + SectorSize - 1) \div SectorSize

\* Where data is read as a header, it is not one: its magic differs.
HeaderAt(d) ==
  IF DOMAIN d.sectors[d.sector] = DOMAIN ZeroHeader
    THEN ustar_parse_header(d.sectors[d.sector])
  ELSE NoFile

\* filesys_create fails in file system v, which has the files `names` and room
\* for as many more as `room` says.
CreateFails(v, name) == Len(name) > NAME_MAX \/ name \in v.names \/ v.room = 0

Created(v, name) == [names |-> v.names \cup {name}, room |-> v.room - 1]

Panicked(d, files) == [d |-> [d EXCEPT !.panic = TRUE], files |-> files]

\* The loop of fsutil_extract: the files it has finished, in order.  A file that
\* was created is found by filesys_open and has room for its bytes.
RECURSIVE ExtractFrom(_, _, _)
ExtractFrom(d, v, files) ==
  LET h == HeaderAt(d)
      next == d.sector + 1 + SectorsFor(h.size)
  IN  IF d.sector >= ScratchSize THEN Panicked(d, files)
      ELSE IF h = NoFile THEN Panicked(d, files)
      ELSE IF h.type = EOF THEN [d |-> [d EXCEPT !.sector = @ + 1], files |-> files]
      ELSE IF h.type = DIRECTORY THEN ExtractFrom([d EXCEPT !.sector = @ + 1], v, files)
      ELSE IF CreateFails(v, h.name) \/ next > ScratchSize THEN Panicked(d, files)
      ELSE ExtractFrom([d EXCEPT !.sector = next], Created(v, h.name),
                       Append(files, [name |-> h.name,
                                      data |-> DataAt(d.sectors, d.sector + 1, h.size)]))

\* The first two sectors are erased behind a successful extraction.
Erased(e) ==
  IF e.d.panic THEN e
  ELSE [e EXCEPT !.d = block_write(block_write(@, 0, ZeroHeader), 1, ZeroHeader)]

fsutil_extract(d, v) == Erased(ExtractFrom(d, v, <<>>))

-----------------------------------------------------------------------------
(* Properties. *)

Antisocial(s) ==
  \/ s \in {<<>>, <<DotCh, DotCh>>}
  \/ \E t \in {<<Slash>>, <<DotCh, Slash>>, <<DotCh, DotCh, Slash>>} : StartsWith(s, t)

(* A header that ustar_make_header composes is one ustar_parse_header       *)
(* accepts, with the type, the size and the name it was given, except that  *)
(* the name has lost every prefix that leads out of the directory.          *)
HeadersParseBack(name, type, size) ==
  \A h \in {ustar_make_header(name, type, size)} \ {NoFile} :
    \A p \in {ustar_parse_header(h)} :
      /\ p # NoFile
      /\ p.type = type
      /\ p.size = (IF type = REGULAR THEN size ELSE 0)
      /\ ~Antisocial(p.name)
      /\ ~Antisocial(name) => p.name = name

Damaged(h, field, i, b) ==
  IF field = "typeflag" THEN [h EXCEPT !.typeflag = b] ELSE [h EXCEPT ![field][i] = b]

(* One damaged byte in a header is noticed, or changes nothing that the     *)
(* extraction uses: the checksum covers every field, and no change of the   *)
(* checksum's own digits yields the same sum.                               *)
DamageDetected(name, type, size, b) ==
  \A h \in {ustar_make_header(name, type, size)} \ {NoFile} :
    \A field \in DOMAIN h : \A i \in IF field = "typeflag" THEN {1} ELSE DOMAIN h[field] :
      ustar_parse_header(Damaged(h, field, i, b)) \in {NoFile, ustar_parse_header(h)}

Device(old) ==
  [sectors |-> [s \in 0 .. ScratchSize - 1 |-> old], sector |-> 0, panic |-> FALSE]

Rebooted(d) == [d EXCEPT !.sector = 0, !.panic = FALSE]

\* The files as they should come out.
Archived(files) ==
  [i \in DOMAIN files |->
     [name |-> strip_antisocial_prefixes(files[i].name), data |-> files[i].data]]

\* How many of them can be made, one after the other.
Extractable(v, out) ==
  Max({n \in 0 .. Min({Len(out), v.room}) :
         \A i \in 1 .. n : /\ Len(out[i].name) <= NAME_MAX
                           /\ out[i].name \notin v.names \cup {out[j].name : j \in 1 .. i - 1}})

(* Whatever the scratch device held, the files appended to it one after the *)
(* other, unless it is too small, come out of an extraction after the next  *)
(* boot with their bytes, in order, and nothing else does, up to the first  *)
(* that the file system cannot take.  The extraction panics if there is     *)
(* such a file, or if the byte behind the buffer of the last append was not *)
(* zero, and leaves the archive as it is; the strays of earlier appends are *)
(* overwritten.  Otherwise the archive is gone: an extraction in a later    *)
(* boot finds no file.                                                      *)
ArchiveReadsBack(old, files, v) ==
  \A d \in {FoldLeft(fsutil_append, Device(old), files)} :
    ~d.panic =>
      \E first \in {fsutil_extract(Rebooted(d), v)}, out \in {Archived(files)} :
        /\ first.files = SubSeq(out, 1, Extractable(v, out))
        /\ first.d.panic = (Extractable(v, out) < Len(out) \/ Last(files).stray # 0)
        /\ first.d.panic => first.d.sectors = d.sectors
        /\ ~first.d.panic =>
             \E again \in {fsutil_extract(Rebooted(first.d), v)} :
               ~again.d.panic /\ again.files = <<>>
=============================================================================
