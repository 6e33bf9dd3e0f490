------------------------------- MODULE Bitmap -------------------------------
(***************************************************************************)
(* The bit arrays of pintos/src/lib/kernel/bitmap.c, on which the free map *)
(* of the file system and the used maps of the page pools are built.  A    *)
(* bitmap of n bits is a function from 0 .. n - 1 to BOOLEAN; the words    *)
(* the bits are packed into are left out.  The ASSERTs of the C functions  *)
(* are the operators' domains: an index past the end is an error to TLC.   *)
(***************************************************************************)
EXTENDS Integers, FiniteSets, FiniteSetsExt

BITMAP_ERROR == -1

bitmap_create(bit_cnt) == [i \in 0 .. bit_cnt - 1 |-> FALSE]

bitmap_size(b) == Cardinality(DOMAIN b)

bitmap_mark(b, idx) == [b EXCEPT ![idx] = TRUE]

bitmap_reset(b, idx) == [b EXCEPT ![idx] = FALSE]

bitmap_set(b, idx, value) ==
  IF value THEN bitmap_mark(b, idx) ELSE bitmap_reset(b, idx)

Run(start, cnt) == start .. start + cnt - 1

bitmap_set_multiple(b, start, cnt, value) ==
  [i \in DOMAIN b |-> IF i \in Run(start, cnt) THEN value ELSE b[i]]

bitmap_count(b, start, cnt, value) ==
  Cardinality({i \in Run(start, cnt) : b[i] = value})

bitmap_contains(b, start, cnt, value) ==
  \E i \in Run(start, cnt) : b[i] = value

bitmap_all(b, start, cnt) == ~bitmap_contains(b, start, cnt, FALSE)

\* The start of the first run of cnt bits equal to value, or BITMAP_ERROR.
bitmap_scan(b, start, cnt, value) ==
  LET starts == {i \in start .. bitmap_size(b) - cnt :
                   ~bitmap_contains(b, i, cnt, ~value)}
  IN  IF starts # {} THEN Min(starts) ELSE BITMAP_ERROR

\* The bitmap after bitmap_scan_and_flip; the index it returns is bitmap_scan.
bitmap_flip_found(b, start, cnt, value) ==
  LET idx == bitmap_scan(b, start, cnt, value)
  IN  IF idx = BITMAP_ERROR THEN b ELSE bitmap_set_multiple(b, idx, cnt, ~value)
=============================================================================
