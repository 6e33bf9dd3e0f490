-------------------------------- MODULE Hash --------------------------------
(***************************************************************************)
(* The chained hash tables of pintos/src/lib/kernel/hash.c.  An element is *)
(* named by its place in memory; two elements with the same key are equal  *)
(* to find_elem.  A bucket is the sequence of the elements on its list.    *)
(* The malloc in rehash may fail.                                          *)
(***************************************************************************)
EXTENDS Bitwise, SequencesExt, FiniteSetsExt

CONSTANTS
  HashElems,               \* elements
  KeyOf,                   \* the key of an element
  HashOf,                  \* the hash function, on keys
  MIN_BUCKETS,             \* 4 in hash.c
  BEST_ELEMS_PER_BUCKET,   \* 2 in hash.c
  NONE

VARIABLES
  buckets,     \* the lists, for 0 .. bucket_cnt - 1
  bucket_cnt,
  elem_cnt,
  members      \* the elements that were put in and not taken out (history)

hashVars == <<buckets, bucket_cnt, elem_cnt, members>>

Table == [buckets |-> buckets, bucket_cnt |-> bucket_cnt, elem_cnt |-> elem_cnt]

EmptyBuckets(n) == [i \in 0 .. n - 1 |-> <<>>]

hash_init ==
  /\ buckets = EmptyBuckets(MIN_BUCKETS)
  /\ bucket_cnt = MIN_BUCKETS
  /\ elem_cnt = 0
  /\ members = {}

BucketIndex(h, e) == HashOf[KeyOf[e]] & (h.bucket_cnt - 1)

\* The equal element find_elem finds in the bucket of e, or NONE.
find_elem(h, e) ==
  LET bucket == h.buckets[BucketIndex(h, e)]
      i == SelectInSeq(bucket, LAMBDA x : KeyOf[x] = KeyOf[e])
  IN  IF i = 0 THEN NONE ELSE bucket[i]

insert_elem(h, e) ==
  [h EXCEPT !.elem_cnt = @ + 1, !.buckets[BucketIndex(h, e)] = <<e>> \o @]

\* A seeded fault: the count is not taken down.
remove_elem_uncounted(h, e) ==
  [h EXCEPT !.buckets[BucketIndex(h, e)] = Remove(@, e)]

remove_elem(h, e) ==
  [h EXCEPT !.elem_cnt = @ - 1, !.buckets[BucketIndex(h, e)] = Remove(@, e)]

turn_off_least_1bit(x) == x & (x - 1)

is_power_of_2(x) == x # 0 /\ turn_off_least_1bit(x) = 0

RECURSIVE PowerBelow(_)
PowerBelow(n) == IF is_power_of_2(n) THEN n ELSE PowerBelow(turn_off_least_1bit(n))

\* The elements go to the new buckets in the order of the old ones, each to
\* the front.
Moved(h, n) ==
  LET all == FoldLeft(LAMBDA s, i : s \o h.buckets[i - 1], <<>>,
                      [i \in 1 .. h.bucket_cnt |-> i])
      empty == [h EXCEPT !.buckets = EmptyBuckets(n), !.bucket_cnt = n]
      move(t, e) == [t EXCEPT !.buckets[BucketIndex(t, e)] = <<e>> \o @]
  IN  FoldLeft(move, empty, all)

\* mem says whether the malloc of the new buckets succeeds.
rehash(h, mem) ==
  LET best == h.elem_cnt \div BEST_ELEMS_PER_BUCKET
      n == PowerBelow(IF best < MIN_BUCKETS THEN MIN_BUCKETS ELSE best)
  IN  IF n = h.bucket_cnt \/ ~mem THEN h ELSE Moved(h, n)

SetTable(h) ==
  /\ buckets' = h.buckets
  /\ bucket_cnt' = h.bucket_cnt
  /\ elem_cnt' = h.elem_cnt

-----------------------------------------------------------------------------
(* The calls; e is not in the table, as callers must see to. *)

hash_insert(e, mem) ==
  LET old == find_elem(Table, e)
  IN  /\ e \notin members
      /\ SetTable(rehash(IF old = NONE THEN insert_elem(Table, e) ELSE Table, mem))
      /\ members' = IF old = NONE THEN members \cup {e} ELSE members

hash_replace(e, mem) ==
  LET old == find_elem(Table, e)
      rest == IF old = NONE THEN Table ELSE remove_elem(Table, old)
  IN  /\ e \notin members
      /\ SetTable(rehash(insert_elem(rest, e), mem))
      /\ members' = (members \ {old}) \cup {e}

\* hash_delete of an element equal to e.
hash_delete(e, mem) ==
  LET found == find_elem(Table, e)
  IN  /\ SetTable(IF found = NONE THEN Table
                  ELSE rehash(remove_elem(Table, found), mem))
      /\ members' = members \ {found}

hash_clear ==
  /\ buckets' = EmptyBuckets(bucket_cnt)
  /\ elem_cnt' = 0
  /\ members' = {}
  /\ UNCHANGED bucket_cnt

HashNext ==
  \/ \E e \in HashElems, mem \in BOOLEAN :
       hash_insert(e, mem) \/ hash_replace(e, mem) \/ hash_delete(e, mem)
  \/ hash_clear

-----------------------------------------------------------------------------
(* Iteration: hash_first, then hash_next until it returns NULL. *)

\* Where hash_next goes from position i of bucket b: on to the next bucket that
\* is not empty if the list ends here.
RECURSIVE hash_next(_, _)
hash_next(b, i) ==
  IF i + 1 <= Len(buckets[b]) THEN <<b, i + 1>>
  ELSE IF b + 1 >= bucket_cnt THEN NONE
  ELSE hash_next(b + 1, 0)

RECURSIVE Visited(_)
Visited(at) ==
  IF at = NONE THEN <<>>
  ELSE <<buckets[at[1]][at[2]]>> \o Visited(hash_next(at[1], at[2]))

hash_apply_order == Visited(hash_next(0, 0))

(* The table holds exactly the elements that were put in and not replaced   *)
(* or deleted: hash_find finds every one of them under its key and nothing  *)
(* else, an iteration passes each of them once, and elem_cnt counts them,   *)
(* whichever rehash failed for lack of memory.                              *)
HashIsSet ==
  /\ elem_cnt = Cardinality(members)
  /\ is_power_of_2(bucket_cnt)
  /\ ToSet(hash_apply_order) = members
  /\ Len(hash_apply_order) = Cardinality(members)
  /\ \A e \in HashElems :
       find_elem(Table, e) =
         IF \E m \in members : KeyOf[m] = KeyOf[e]
           THEN CHOOSE m \in members : KeyOf[m] = KeyOf[e]
           ELSE NONE

(* When memory is not short the table does not outgrow its elements nor     *)
(* crowd them: a rehash that could allocate leaves at most twice the best   *)
(* number of elements per bucket and at most the smallest table or one      *)
(* bucket for the best number of elements.                                  *)
RehashFits ==
  LET h == rehash(Table, TRUE)
  IN  /\ h.elem_cnt < 2 * BEST_ELEMS_PER_BUCKET * h.bucket_cnt
      /\ h.bucket_cnt = MIN_BUCKETS \/ h.bucket_cnt * BEST_ELEMS_PER_BUCKET <= h.elem_cnt
=============================================================================
