-------------------------------- MODULE List --------------------------------
(***************************************************************************)
(* The doubly linked lists of pintos/src/lib/kernel/list.c, pointer by     *)
(* pointer: every list has a head and a tail node, and each operation      *)
(* rewrites the next and prev members that its C code assigns, in that     *)
(* order.  The lists are those of one thread: callers keep others out by a *)
(* lock or by disabling interrupts.                                        *)
(***************************************************************************)
EXTENDS Integers, Sequences, FiniteSets, TLC

CONSTANTS
  Elems,      \* elements
  Lists,      \* lists
  Key,        \* what the `less' functions compare
  MaxListed,  \* bound on the elements on all lists together
  NULL

VARIABLES
  links,      \* the members next and prev of every node
  call        \* the operation that has been done and its arguments, <<>> after (history)

listVars == <<links, call>>

list_head(l) == <<"head", l>>
list_tail(l) == <<"tail", l>>

Nodes == Elems \cup {list_head(l) : l \in Lists} \cup {list_tail(l) : l \in Lists}

less(a, b) == Key[a] < Key[b]

-----------------------------------------------------------------------------
(* The operations, on a record h of links. *)

list_init(h, l) ==
  [h EXCEPT !.prev[list_head(l)] = NULL, !.next[list_head(l)] = list_tail(l),
            !.prev[list_tail(l)] = list_head(l), !.next[list_tail(l)] = NULL]

list_begin(h, l) == h.next[list_head(l)]

list_empty(h, l) == list_begin(h, l) = list_tail(l)

list_insert(h, before, elem) ==
  LET h1 == [h EXCEPT !.prev[elem] = h.prev[before], !.next[elem] = before]
      h2 == [h1 EXCEPT !.next[h1.prev[before]] = elem]
  IN  [h2 EXCEPT !.prev[before] = elem]

list_remove(h, elem) ==
  LET h1 == [h EXCEPT !.next[h.prev[elem]] = h.next[elem]]
  IN  [h1 EXCEPT !.prev[h1.next[elem]] = h1.prev[elem]]

\* last is exclusive.
list_splice(h, before, first, last) ==
  LET end == h.prev[last]
      h1 == [h EXCEPT !.next[h.prev[first]] = h.next[end]]
      h2 == [h1 EXCEPT !.prev[h1.next[end]] = h1.prev[first]]
      h3 == [h2 EXCEPT !.prev[first] = h2.prev[before], !.next[end] = before]
      h4 == [h3 EXCEPT !.next[h3.prev[before]] = first]
  IN  IF first = last THEN h ELSE [h4 EXCEPT !.prev[before] = end]

list_push_front(h, l, elem) == list_insert(h, list_begin(h, l), elem)

list_push_back(h, l, elem) == list_insert(h, list_tail(l), elem)

\* The loop of list_reverse: swaps the members of every element from e on.
RECURSIVE SwapFrom(_, _, _)
SwapFrom(h, l, e) ==
  IF e = list_tail(l) THEN h
  ELSE LET h1 == [h EXCEPT !.next[e] = h.prev[e], !.prev[e] = h.next[e]]
       IN  SwapFrom(h1, l, h1.prev[e])

list_reverse(h, l) ==
  LET h1 == SwapFrom(h, l, list_begin(h, l))
      front == h1.next[list_head(l)]
      back == h1.prev[list_tail(l)]
      h2 == [h1 EXCEPT !.next[list_head(l)] = back, !.prev[list_tail(l)] = front]
  IN  IF list_empty(h, l) THEN h
      ELSE [h2 EXCEPT !.prev[back] = h2.next[front], !.next[front] = h2.prev[back]]

RECURSIVE find_end_of_run(_, _, _)
find_end_of_run(h, a, b) ==
  LET n == h.next[a]
  IN  IF n = b THEN n
      ELSE IF less(n, h.prev[n]) THEN n
      ELSE find_end_of_run(h, n, b)

RECURSIVE inplace_merge(_, _, _, _)
inplace_merge(h, a0, a1b0, b1) ==
  IF a0 = a1b0 \/ a1b0 = b1 THEN h
  ELSE IF ~less(a1b0, a0) THEN inplace_merge(h, h.next[a0], a1b0, b1)
  ELSE LET n == h.next[a1b0]
       IN  inplace_merge(list_splice(h, a0, a1b0, n), a0, n, b1)

\* A pass of list_sort from a0 on: the links and the number of runs output.
RECURSIVE MergePass(_, _, _, _)
MergePass(h, l, a0, runs) ==
  IF a0 = list_tail(l) THEN [links |-> h, runs |-> runs]
  ELSE LET a1b0 == find_end_of_run(h, a0, list_tail(l))
           b1 == find_end_of_run(h, a1b0, list_tail(l))
       IN  IF a1b0 = list_tail(l) THEN [links |-> h, runs |-> runs + 1]
           ELSE MergePass(inplace_merge(h, a0, a1b0, b1), l, b1, runs + 1)

\* A seeded fault: runs are merged once.
list_sort_once(h, l) == MergePass(h, l, list_begin(h, l), 0).links

RECURSIVE list_sort(_, _)
list_sort(h, l) ==
  LET pass == MergePass(h, l, list_begin(h, l), 0)
  IN  IF pass.runs > 1 THEN list_sort(pass.links, l) ELSE pass.links

\* The element that list_insert_ordered inserts before.
RECURSIVE FirstGreater(_, _, _, _)
FirstGreater(h, l, elem, e) ==
  IF e = list_tail(l) THEN e
  ELSE IF less(elem, e) THEN e
  ELSE FirstGreater(h, l, elem, h.next[e])

list_insert_ordered(h, l, elem) ==
  list_insert(h, FirstGreater(h, l, elem, list_begin(h, l)), elem)

RECURSIVE UniqueFrom(_, _, _, _)
UniqueFrom(h, l, dup, e) ==
  LET n == h.next[e]
  IN  IF n = list_tail(l) THEN h
      ELSE IF ~less(e, n) /\ ~less(n, e)
             THEN UniqueFrom(list_push_back(list_remove(h, n), dup, n), l, dup, e)
      ELSE UniqueFrom(h, l, dup, n)

list_unique(h, l, dup) ==
  IF list_empty(h, l) THEN h ELSE UniqueFrom(h, l, dup, list_begin(h, l))

\* list_max (max is TRUE) and list_min from element e on.
RECURSIVE BestFrom(_, _, _, _, _)
BestFrom(h, l, best, e, max) ==
  IF e = list_tail(l) THEN best
  ELSE LET better == IF max THEN less(best, e) ELSE less(e, best)
       IN  BestFrom(h, l, IF better THEN e ELSE best, h.next[e], max)

Best(h, l, max) ==
  IF list_empty(h, l) THEN list_tail(l)
  ELSE BestFrom(h, l, list_begin(h, l), h.next[list_begin(h, l)], max)

list_max(h, l) == Best(h, l, TRUE)

list_min(h, l) == Best(h, l, FALSE)

-----------------------------------------------------------------------------
(* A program that uses the lists. *)

\* The nodes after e up to the tail of l; <<NULL>> if that is not reached.
RECURSIVE From(_, _, _, _)
From(h, l, e, fuel) ==
  IF e = list_tail(l) THEN <<>>
  ELSE IF fuel = 0 \/ e \notin Elems THEN <<NULL>>
  ELSE <<e>> \o From(h, l, h.next[e], fuel - 1)

Elements(h, l) == From(h, l, list_begin(h, l), 2 * Cardinality(Elems))

On(l) == {Elements(links, l)[i] : i \in DOMAIN Elements(links, l)}

Listed == UNION {On(l) : l \in Lists}

MayPush(e) == e \in Elems \ Listed /\ Cardinality(Listed) < MaxListed

Unlinked == [next |-> [n \in Nodes |-> NULL], prev |-> [n \in Nodes |-> NULL]]

RECURSIVE InitAll(_, _)
InitAll(h, S) ==
  IF S = {} THEN h
  ELSE LET l == CHOOSE x \in S : TRUE IN InitAll(list_init(h, l), S \ {l})

ListInit == links = InitAll(Unlinked, Lists) /\ call = <<>>

Done(h, what) == links' = h /\ call' = what

Push(l, e) ==
  /\ MayPush(e)
  /\ \/ Done(list_push_front(links, l, e), <<"push_front", l, e>>)
     \/ Done(list_push_back(links, l, e), <<"push_back", l, e>>)
     \/ \E b \in On(l) : Done(list_insert(links, b, e), <<"insert", l, b, e>>)

Ascending(l) ==
  \A i \in 1 .. Len(Elements(links, l)) - 1 :
    ~less(Elements(links, l)[i + 1], Elements(links, l)[i])

PushOrdered(l, e) ==
  /\ MayPush(e)
  /\ Ascending(l)
  /\ Done(list_insert_ordered(links, l, e), <<"insert_ordered", l, e>>)

\* The links of an element that has been removed are never followed, and are
\* forgotten.
Dropped(h, e) == [h EXCEPT !.next[e] = NULL, !.prev[e] = NULL]

\* list_remove, list_pop_front and list_pop_back.
Pop(l) ==
  \E e \in On(l) : Done(Dropped(list_remove(links, e), e), <<"remove", l, e>>)

Splice(l, m) ==
  LET s == Elements(links, m)
  IN  \E i \in DOMAIN s : \E j \in i .. Len(s) :
        \E before \in (On(l) \cup {list_tail(l)}) \ {s[k] : k \in i .. j} :
          Done(list_splice(links, before, s[i], links.next[s[j]]),
               <<"splice", l, IF before = list_tail(l) THEN NULL ELSE before, m, i, j>>)

Call(l) ==
  /\ call = <<>>
  /\ \/ \E e \in Elems : Push(l, e) \/ PushOrdered(l, e)
     \/ Pop(l)
     \/ \E m \in Lists : Splice(l, m)
     \/ Done(list_reverse(links, l), <<"reverse", l>>)
     \/ Done(list_sort(links, l), <<"sort", l>>)
     \/ \E dup \in Lists \ {l} : Done(list_unique(links, l, dup), <<"unique", l, dup>>)

Return == call # <<>> /\ Done(links, <<>>)

ListNext == (\E l \in Lists : Call(l)) \/ Return

-----------------------------------------------------------------------------
(* Properties. *)

AsSequences == INSTANCE ListSpec WITH seqs <- [l \in Lists |-> Elements(links, l)]

(* The pointers implement sequences: each insertion, removal, splice,       *)
(* reversal and list_unique does to the chain of next pointers what that    *)
(* call should do to a sequence, and the merge sort is a stable sort.       *)
ListsAreSequences == AsSequences!Spec

(* Read backwards along prev a list is the same list, no element is on two  *)
(* lists, and list_max and list_min find the earliest extreme element.      *)
LinksConsistent ==
  /\ \A l \in Lists :
       LET s == Elements(links, l)
       IN  /\ NULL \notin On(l)
           /\ links.next[list_tail(l)] = NULL /\ links.prev[list_head(l)] = NULL
           /\ \A i \in DOMAIN s :
                links.prev[s[i]] = IF i = 1 THEN list_head(l) ELSE s[i - 1]
           /\ links.prev[list_tail(l)] = IF s = <<>> THEN list_head(l) ELSE s[Len(s)]
           /\ s # <<>> =>
                LET maxima == {i \in DOMAIN s : \A j \in DOMAIN s : Key[s[j]] <= Key[s[i]]}
                    minima == {i \in DOMAIN s : \A j \in DOMAIN s : Key[s[j]] >= Key[s[i]]}
                IN  /\ \E i \in maxima : s[i] = list_max(links, l) /\ \A j \in maxima : i <= j
                    /\ \E i \in minima : s[i] = list_min(links, l) /\ \A j \in minima : i <= j
  /\ \A l, m \in Lists : l # m => On(l) \cap On(m) = {}
=============================================================================
