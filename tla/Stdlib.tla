------------------------------- MODULE Stdlib -------------------------------
(***************************************************************************)
(* The algorithms of pintos/src/lib/stdlib.c, arithmetic.c and stdio.c.  An *)
(* array is a sequence, its elements compared as integers.  The words of   *)
(* arithmetic.c are W bits wide (32 in the code) and its long longs 2 * W; *)
(* an int has IntBits bits.                                                *)
(***************************************************************************)
EXTENDS FixedPoint, SequencesExt, FiniteSetsExt

CONSTANTS
  W,            \* width of a word in arithmetic.c
  IntBits,      \* width of an int in atoi and format_integer
  BUFSIZE,      \* sizeof buf in format_integer, 64 in the code
  NotFound

Unsigned(x, bits) == x % 2^bits

Signed(x, bits) == ((x + 2^(bits - 1)) % 2^bits) - 2^(bits - 1)

-----------------------------------------------------------------------------
(* stdlib.c: heap sort and binary search. *)

do_swap(a, i, j) == [a EXCEPT ![i] = a[j], ![j] = a[i]]

RECURSIVE heapify(_, _, _)

heapify(a, i, cnt) ==
  LET left == 2 * i
      right == 2 * i + 1
      max1 == IF left <= cnt /\ a[left] > a[i] THEN left ELSE i
      max == IF right <= cnt /\ a[right] > a[max1] THEN right ELSE max1
  IN  IF max = i THEN a ELSE heapify(do_swap(a, i, max), max, cnt)

BuildHeap(a) ==
  FoldLeft(LAMBDA x, k : heapify(x, k, Len(x)), a,
           [k \in 1 .. Len(a) \div 2 |-> Len(a) \div 2 + 1 - k])

sort(a) ==
  FoldLeft(LAMBDA x, k : heapify(do_swap(x, 1, k), 1, k - 1), BuildHeap(a),
           [k \in 1 .. Len(a) - 1 |-> Len(a) + 1 - k])

RECURSIVE SearchBetween(_, _, _, _)

\* The loop of binary_search on the elements first + 1 .. last.
SearchBetween(key, a, first, last) ==
  LET middle == first + (last - first) \div 2
      x == a[middle + 1]
  IN  IF first >= last THEN NotFound
      ELSE IF key < x THEN SearchBetween(key, a, first, middle)
      ELSE IF key > x THEN SearchBetween(key, a, middle + 1, last)
      ELSE middle + 1

binary_search(key, a) == SearchBetween(key, a, 0, Len(a))

(* Whatever the array holds, sort leaves its elements in ascending order,   *)
(* and binary_search then finds a key exactly when it is there.             *)
SortedAndFound(a) ==
  LET b == sort(a)
  IN  /\ \A i \in 1 .. Len(b) - 1 : b[i] <= b[i + 1]
      /\ \A x \in Range(a) \cup Range(b) :
           Cardinality({i \in DOMAIN a : a[i] = x}) = Cardinality({i \in DOMAIN b : b[i] = x})
      /\ \A key \in {x + d : x \in Range(b) \cup {0}, d \in {-1, 0, 1}} :
           LET r == binary_search(key, b)
           IN  IF key \in Range(b) THEN r # NotFound /\ b[r] = key ELSE r = NotFound

-----------------------------------------------------------------------------
(* arithmetic.c: long long division from the word-sized divl. *)

\* divl traps, here NotFound, when the quotient does not fit in a word.
divl(n, d) == IF n \div d >= 2^W THEN NotFound ELSE n \div d

RECURSIVE nlzFrom(_, _)

\* One step of nlz per power of two below W.
nlzFrom(x, half) ==
  IF half = 0 THEN 0
  ELSE IF x < 2^(W - half) THEN half + nlzFrom(x * 2^half, half \div 2)
  ELSE nlzFrom(x, half \div 2)

nlz(x) == nlzFrom(x, W \div 2)

udiv64(n, d) ==
  LET b == 2^W
      s == nlz(d \div b)
      q == divl(n \div 2, Unsigned(d * 2^s, 2 * W) \div b) \div 2^(W - 1 - s)
  IN  IF d < b THEN divl(b * ((n \div b) % d) + (n % b), d) + b * ((n \div b) \div d)
      ELSE IF n < d THEN 0
      ELSE IF Unsigned(n - (q - 1) * d, 2 * W) < d THEN q - 1 ELSE q

\* The remainder is returned in a word.
umod64(n, d) == Unsigned(n - d * udiv64(n, d), W)

sdiv64(n, d) ==
  LET q == udiv64(IF n >= 0 THEN n ELSE Unsigned(-n, 2 * W),
                  IF d >= 0 THEN d ELSE Unsigned(-d, 2 * W))
  IN  Signed(IF (n < 0) = (d < 0) THEN q ELSE -q, 2 * W)

smod64(n, d) == Signed(n - d * sdiv64(n, d), W)

(* Division of two long longs never traps in divl and is exact, signed and  *)
(* unsigned, but for the one signed quotient that no long long can hold.    *)
(* A remainder is exact when it fits in the word it is returned in.         *)
DivisionExact(n, d) ==
  LET sn == Signed(n, 2 * W)
      sd == Signed(d, 2 * W)
      r == sn - sd * Quot(sn, sd)
  IN  d # 0 =>
        /\ udiv64(n, d) = n \div d
        /\ n % d < 2^W => umod64(n, d) = n % d
        /\ sdiv64(sn, sd) = Signed(Quot(sn, sd), 2 * W)
        /\ r \in -(2^(W - 1)) .. 2^(W - 1) - 1 => smod64(sn, sd) = r

-----------------------------------------------------------------------------
(* stdio.c: conversions.  Characters are their codes.                       *)

Flags == {"-", "+", " ", "#", "0", "'"}

Digit(d) == IF d < 10 THEN 48 + d ELSE 97 + d - 10

Zero == Digit(0)

Blank == 32

Plus == 43

Comma == 44

Minus == 45

LetterX == 120

Dup(ch, cnt) == [i \in 1 .. cnt |-> ch]

AtLeast0(n) == IF n > 0 THEN n ELSE 0

\* parse_conversion: what the flags, width and precision come to.
parse_conversion(flags, width, precision) ==
  LET plain == (flags \ (IF "-" \in flags THEN {"0"} ELSE {}))
                 \ (IF "+" \in flags THEN {" "} ELSE {})
      left == plain \cup (IF width < 0 THEN {"-"} ELSE {})
  IN  [flags |-> IF precision >= 0 THEN left \ {"0"} ELSE left,
       width |-> IF width < 0 THEN -width ELSE width,
       precision |-> IF precision < 0 THEN -1 ELSE precision]

RECURSIVE DigitsFrom(_, _, _, _)

\* The digits of value, least significant first, with the group separators.
DigitsFrom(value, base, group, cnt) ==
  IF value = 0 THEN <<>>
  ELSE (IF group > 0 /\ cnt > 0 /\ cnt % group = 0 THEN <<Comma>> ELSE <<>>)
         \o <<Digit(value % base)>> \o DigitsFrom(value \div base, base, group, cnt + 1)

GroupOf(base) == IF base = 16 THEN 4 ELSE 3

SignOf(c, is_signed, negative) ==
  IF ~is_signed THEN <<>>
  ELSE IF negative THEN <<Minus>>
  ELSE IF "+" \in c.flags THEN <<Plus>>
  ELSE IF " " \in c.flags THEN <<Blank>> ELSE <<>>

Prefix(value, base, c) ==
  IF "#" \in c.flags /\ value > 0 /\ base = 16 THEN <<Zero, LetterX>> ELSE <<>>

\* The contents of buf, up to cp.
Buffered(value, base, c) ==
  LET digits == DigitsFrom(value, base, IF "'" \in c.flags THEN GroupOf(base) ELSE 0, 0)
      precision == IF c.precision < 0 THEN 1 ELSE c.precision
      padded == digits \o Dup(Zero, AtLeast0(Min({precision, BUFSIZE - 1}) - Len(digits)))
  IN  IF "#" \in c.flags /\ base = 8 /\ (padded = <<>> \/ Last(padded) # Zero)
        THEN padded \o <<Zero>> ELSE padded

\* A seeded fault: the sign takes no room.
PadCount_unsigned(sign, x, buf, c) == AtLeast0(c.width - Len(buf) - Len(x))

PadCount(sign, x, buf, c) == AtLeast0(c.width - Len(buf) - Len(x) - Len(sign))

\* The field in output order; buf holds the digits in reverse.
Assembled(sign, x, buf, c) ==
  LET pad == PadCount(sign, x, buf, c)
  IN  (IF {"-", "0"} \cap c.flags = {} THEN Dup(Blank, pad) ELSE <<>>)
        \o sign \o x
        \o (IF "0" \in c.flags THEN Dup(Zero, pad) ELSE <<>>)
        \o Reverse(buf)
        \o (IF "-" \in c.flags THEN Dup(Blank, pad) ELSE <<>>)

format_integer(value, is_signed, negative, base, c) ==
  Assembled(SignOf(c, is_signed, negative), Prefix(value, base, c), Buffered(value, base, c), c)

format_string(s, c) ==
  LET pad == Dup(Blank, AtLeast0(c.width - Len(s)))
  IN  IF "-" \in c.flags THEN s \o pad ELSE pad \o s

\* One conversion of __vprintf; the precision of %s bounds what strnlen takes.
Converted(kind, arg, c) ==
  CASE kind = "d" -> format_integer(IF arg < 0 THEN -arg ELSE arg, TRUE, arg < 0, 10, c)
    [] kind = "o" -> format_integer(Unsigned(arg, IntBits), FALSE, FALSE, 8, c)
    [] kind = "u" -> format_integer(Unsigned(arg, IntBits), FALSE, FALSE, 10, c)
    [] kind = "x" -> format_integer(Unsigned(arg, IntBits), FALSE, FALSE, 16, c)
    [] kind = "p" -> format_integer(Unsigned(arg, IntBits), FALSE, FALSE, 16,
                                    [c EXCEPT !.flags = {"#"}])
    [] kind = "s" -> format_string(IF c.precision < 0 THEN arg
                                   ELSE SubSeq(arg, 1, Min({c.precision, Len(arg)})), c)

\* Every character is counted; those below max_length are stored.
vsnprintf_helper(aux, ch) ==
  [aux EXCEPT !.length = @ + 1,
              !.stored = IF aux.length < aux.max_length THEN Append(@, ch) ELSE @]

\* What is stored of the output, terminator included, and the result.
vsnprintf(out, buf_size) ==
  LET aux == FoldLeft(vsnprintf_helper,
               [stored |-> <<>>, length |-> 0,
                max_length |-> IF buf_size > 0 THEN buf_size - 1 ELSE 0], out)
  IN  [stored |-> IF buf_size > 0 THEN Append(aux.stored, 0) ELSE aux.stored,
       ret |-> aux.length]

-----------------------------------------------------------------------------
(* stdlib.c: atoi. *)

IsDigit(ch) == ch \in 48 .. 57

RECURSIVE Parsed(_, _)

Parsed(s, value) ==
  IF s = <<>> \/ ~IsDigit(Head(s)) THEN value
  ELSE Parsed(Tail(s), Signed(value * 10 - (Head(s) - Zero), IntBits))

RECURSIVE SkipBlanks(_)

SkipBlanks(s) == IF s # <<>> /\ Head(s) = Blank THEN SkipBlanks(Tail(s)) ELSE s

atoi(str) ==
  LET s == SkipBlanks(str)
      signed == s # <<>> /\ Head(s) \in {Plus, Minus}
      value == Parsed(IF signed THEN Tail(s) ELSE s, 0)
  IN  IF signed /\ Head(s) = Minus THEN value ELSE Signed(-value, IntBits)

(* Every int, the most negative one included, survives printing with %d and *)
(* reading back with atoi, whatever the flags, the width and the precision, *)
(* as long as the digits are not grouped.                                   *)
PrintsParseBack(value, c) ==
  "'" \notin c.flags => atoi(Converted("d", value, c)) = value

(* A conversion fills its field exactly: the output is as long as the       *)
(* larger of the width and the length it would have without one.  The one   *)
(* exception is a negative width argument with the 0 flag, which sets - too *)
(* late to cancel 0, so that the field is padded on both sides.             *)
FieldsFilled(value, c) ==
  {"-", "0"} \subseteq c.flags \/
  \A kind \in {"d", "o", "u", "x", "p"} :
    Len(Converted(kind, value, c))
      = Max({c.width, Len(Converted(kind, value, [c EXCEPT !.width = 0]))})

(* format_integer never runs past its buffer, whatever the precision, and   *)
(* vsnprintf past the caller's: it stores as much of the output as fits     *)
(* before a terminator, and returns the length of all of it.                *)
PrintsInBounds(value, c, buf_size) ==
  /\ \A base \in {8, 10, 16} : Len(Buffered(Unsigned(value, IntBits), base, c)) <= BUFSIZE
  /\ LET out == Converted("d", value, c)
         r == vsnprintf(out, buf_size)
     IN  /\ r.ret = Len(out)
         /\ Len(r.stored) = Min({buf_size, Len(out) + 1})
         /\ r.stored # <<>> => Last(r.stored) = 0 /\ IsPrefix(Front(r.stored), out)
=============================================================================
