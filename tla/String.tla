------------------------------- MODULE String -------------------------------
(***************************************************************************)
(* pintos/src/lib/string.c.  Memory is a function from addresses to bytes, *)
(* a pointer an address, a string the bytes up to the next NUL.  A search  *)
(* loop is a recursion on its pointer; a copying loop is a fold in the     *)
(* loop's own order, so that overlapping blocks behave as in the code.     *)
(***************************************************************************)
EXTENDS Integers, SequencesExt, FiniteSetsExt

CONSTANT NullPtr

NUL == 0

-----------------------------------------------------------------------------
(* Copying. *)

CopyIn(m, dst, src, order) ==
  FoldLeft(LAMBDA a, i : [a EXCEPT ![dst + i] = a[src + i]], m, order)

Upwards(size) == [i \in 1 .. size |-> i - 1]

Downwards(size) == [i \in 1 .. size |-> size - i]

memcpy(m, dst, src, size) == CopyIn(m, dst, src, Upwards(size))

\* The result is dst after the loop: the end of the block after an ascending
\* one, its beginning after a descending one.
memmove(m, dst, src, size) ==
  IF dst < src THEN [mem |-> CopyIn(m, dst, src, Upwards(size)), ret |-> dst + size]
  ELSE [mem |-> CopyIn(m, dst, src, Downwards(size)), ret |-> dst]

-----------------------------------------------------------------------------
(* Lengths, comparisons and searches. *)

RECURSIVE strlen(_, _)
strlen(m, p) == IF m[p] = NUL THEN 0 ELSE 1 + strlen(m, p + 1)

RECURSIVE strnlen(_, _, _)
strnlen(m, p, maxlen) ==
  IF m[p] = NUL \/ maxlen = 0 THEN 0 ELSE 1 + strnlen(m, p + 1, maxlen - 1)

RECURSIVE memcmp(_, _, _, _)
memcmp(m, a, b, size) ==
  IF size = 0 THEN 0
  ELSE IF m[a] # m[b] THEN IF m[a] > m[b] THEN 1 ELSE -1
  ELSE memcmp(m, a + 1, b + 1, size - 1)

RECURSIVE strcmp(_, _, _)
strcmp(m, a, b) ==
  IF m[a] # NUL /\ m[a] = m[b] THEN strcmp(m, a + 1, b + 1)
  ELSE IF m[a] < m[b] THEN -1
  ELSE IF m[a] > m[b] THEN 1 ELSE 0

RECURSIVE memchr(_, _, _, _)
memchr(m, p, ch, size) ==
  IF size = 0 THEN NullPtr ELSE IF m[p] = ch THEN p ELSE memchr(m, p + 1, ch, size - 1)

\* The terminator is found as well.
RECURSIVE strchr(_, _, _)
strchr(m, p, c) ==
  IF m[p] = c THEN p ELSE IF m[p] = NUL THEN NullPtr ELSE strchr(m, p + 1, c)

InString(m, c, set) == strchr(m, set, c) # NullPtr

RECURSIVE strcspn(_, _, _)
strcspn(m, p, stop) ==
  IF m[p] = NUL \/ InString(m, m[p], stop) THEN 0 ELSE 1 + strcspn(m, p + 1, stop)

RECURSIVE strpbrk(_, _, _)
strpbrk(m, p, stop) ==
  IF m[p] = NUL THEN NullPtr
  ELSE IF InString(m, m[p], stop) THEN p ELSE strpbrk(m, p + 1, stop)

RECURSIVE LastSeen(_, _, _, _)
LastSeen(m, p, c, seen) ==
  IF m[p] = NUL THEN seen ELSE LastSeen(m, p + 1, c, IF m[p] = c THEN p ELSE seen)

strrchr(m, p, c) == LastSeen(m, p, c, NullPtr)

RECURSIVE strspn(_, _, _)
strspn(m, p, skip) ==
  IF m[p] = NUL \/ ~InString(m, m[p], skip) THEN 0 ELSE 1 + strspn(m, p + 1, skip)

\* Needle is looked for at places up to, and with, last.
RECURSIVE FoundFrom(_, _, _, _, _)
FoundFrom(m, p, last, needle, n) ==
  IF p > last THEN NullPtr
  ELSE IF memcmp(m, p, needle, n) = 0 THEN p ELSE FoundFrom(m, p + 1, last, needle, n)

strstr(m, hay, needle) ==
  LET h == strlen(m, hay)
      n == strlen(m, needle)
  IN  IF h >= n THEN FoundFrom(m, hay, hay + h - n, needle, n) ELSE NullPtr

-----------------------------------------------------------------------------
(* strtok_r: the token (or NullPtr), the memory after it and *save_ptr. *)

RECURSIVE SkipDelimiters(_, _, _)
SkipDelimiters(m, s, delimiters) ==
  IF InString(m, m[s], delimiters) /\ m[s] # NUL THEN SkipDelimiters(m, s + 1, delimiters)
  ELSE s

RECURSIVE SkipToken(_, _, _)
SkipToken(m, s, delimiters) ==
  IF InString(m, m[s], delimiters) THEN s ELSE SkipToken(m, s + 1, delimiters)

strtok_r(m, s, delimiters) ==
  LET token == SkipDelimiters(m, s, delimiters)
      end == SkipToken(m, token, delimiters)
  IN  IF m[token] = NUL THEN [token |-> NullPtr, mem |-> m, save |-> token]
      ELSE IF m[end] = NUL THEN [token |-> token, mem |-> m, save |-> end]
      ELSE [token |-> token, mem |-> [m EXCEPT ![end] = NUL], save |-> end + 1]

-----------------------------------------------------------------------------
(* Bounded copies: the memory after the call and the result. *)

strlcpy(m, dst, src, size) ==
  LET n == strlen(m, src)
      cnt == Min({size - 1, n})
  IN  [ret |-> n,
       mem |-> IF size = 0 THEN m
               ELSE [memcpy(m, dst, src, cnt) EXCEPT ![dst + cnt] = NUL]]

strlcat(m, dst, src, size) ==
  LET n == strlen(m, src)
      d == strlen(m, dst)
      cnt == Min({size - d - 1, n})
  IN  [ret |-> n + d,
       mem |-> IF size = 0 \/ d >= size THEN m
               ELSE [memcpy(m, dst + d, src, cnt) EXCEPT ![dst + d + cnt] = NUL]]

-----------------------------------------------------------------------------
(* Properties, over a block of memory and pointers into it. *)

Text(m, p) == [i \in 1 .. strlen(m, p) |-> m[p + i - 1]]

Changed(m, n) == {a \in DOMAIN m : m[a] # n[a]}

(* memmove copies the bytes that were there before the call, however the   *)
(* two blocks overlap, and changes nothing else.                            *)
MovesOverlapping(m, dst, src, size) ==
  LET n == memmove(m, dst, src, size).mem
  IN  \A a \in DOMAIN m :
        n[a] = IF a \in dst .. dst + size - 1 THEN m[src + a - dst] ELSE m[a]

RECURSIVE TokensFrom(_, _, _)

\* The tokens of the loop in strtok_r's comment.
TokensFrom(m, s, delimiters) ==
  LET r == strtok_r(m, s, delimiters)
  IN  IF r.token = NullPtr THEN <<>>
      ELSE <<[at |-> r.token, text |-> Text(r.mem, r.token)]>>
             \o TokensFrom(r.mem, r.save, delimiters)

\* The maximal stretches of a string without a delimiter, in order.
Stretches(m, p, D) ==
  LET end == p + strlen(m, p)
      in(a) == a \in p .. end - 1 /\ m[a] \notin D
      starts == {a \in p .. end - 1 : in(a) /\ ~in(a - 1)}
      stop(a) == Min({b \in a .. end : ~in(b)})
  IN  [i \in 1 .. Cardinality(starts) |->
         LET a == CHOOSE x \in starts : Cardinality({y \in starts : y < x}) = i - 1
         IN  [at |-> a, text |-> [k \in 1 .. stop(a) - a |-> m[a + k - 1]]]]

(* Called again and again on its own saved pointer, strtok_r returns the    *)
(* stretches of the original string between delimiters, each of them whole, *)
(* non-empty, in order and once, although every call writes into the string.*)
TokensAreStretches(m, p, delimiters) ==
  TokensFrom(m, p, delimiters)
    = Stretches(m, p, {m[delimiters + k] : k \in 0 .. strlen(m, delimiters) - 1})

(* strlcpy and strlcat leave a terminated prefix of what was to be written, *)
(* write nothing past dst + size - 1, and return the length that would have *)
(* been needed.                                                             *)
CopiesBounded(m, dst, src, size) ==
  LET c == strlcpy(m, dst, src, size)
      t == strlcat(m, dst, src, size)
      both == Text(m, dst) \o Text(m, src)
  IN  /\ Changed(m, c.mem) \subseteq dst .. dst + size - 1
      /\ Changed(m, t.mem) \subseteq dst .. dst + size - 1
      /\ c.ret = Len(Text(m, src)) /\ t.ret = Len(both)
      /\ size > 0 => Text(c.mem, dst) = SubSeq(Text(m, src), 1, Min({size - 1, c.ret}))
      /\ strlen(m, dst) < size => Text(t.mem, dst) = SubSeq(both, 1, Min({size - 1, t.ret}))

First(S) == IF S = {} THEN NullPtr ELSE Min(S)

(* strstr, strpbrk, strcspn and strspn agree with what a scan of every      *)
(* position finds: the first occurrence of the needle, and the split of the *)
(* string at the first character inside or outside the set.                 *)
SearchesAgree(m, hay, needle) ==
  LET h == Text(m, hay)
      n == Text(m, needle)
      at == {k \in 0 .. Len(h) : k + Len(n) <= Len(h) /\ SubSeq(h, k + 1, k + Len(n)) = n}
      stop == strcspn(m, hay, needle)
      skip == strspn(m, hay, needle)
  IN  /\ strstr(m, hay, needle) = (IF at = {} THEN NullPtr ELSE hay + Min(at))
      /\ \A i \in 1 .. Len(h) : i <= stop => ~Contains(n, h[i])
      /\ \A i \in 1 .. Len(h) : i <= skip => Contains(n, h[i])
      /\ strpbrk(m, hay, needle) = (IF stop = Len(h) THEN NullPtr ELSE hay + stop)
      /\ Len(h) > 0 => stop = 0 \/ skip = 0
      /\ \A c \in Range(h) \cup Range(n) :
           LET where == {hay + i - 1 : i \in {j \in DOMAIN h : h[j] = c}}
           IN  /\ memchr(m, hay, c, Len(h)) = First(where)
               /\ strchr(m, hay, c) = First(where)
               /\ strrchr(m, hay, c) = IF where = {} THEN NullPtr ELSE Max(where)

(* strcmp is the order of the dictionary: the sign of the first difference, *)
(* a proper prefix before its extensions, zero for equal strings only.      *)
OrderOfStrings(m, a, b) ==
  LET s == Text(m, a)
      t == Text(m, b)
      differ == {i \in DOMAIN s \cap DOMAIN t : s[i] # t[i]}
  IN  strcmp(m, a, b) = IF differ # {} THEN (IF s[Min(differ)] < t[Min(differ)] THEN -1 ELSE 1)
                        ELSE IF Len(s) < Len(t) THEN -1
                        ELSE IF Len(s) > Len(t) THEN 1 ELSE 0
=============================================================================
