------------------------------ MODULE ListSpec ------------------------------
(***************************************************************************)
(* What list.c promises: a list is a sequence of elements, and an element  *)
(* is on one list at most.                                                 *)
(***************************************************************************)
EXTENDS Integers, SequencesExt

CONSTANTS Elems, Lists, Key, NULL

VARIABLES
  seqs,     \* the elements of each list, in order
  call      \* the operation that has been done and its arguments, <<>> after

Before(a, b) == Key[a] < Key[b]

OnNone(e) == \A l \in Lists : e \notin ToSet(seqs[l])

Sorted(s) == \A i, j \in DOMAIN s : i < j => ~Before(s[j], s[i])

Place(s, e) == SelectInSeq(s, LAMBDA x : x = e)

\* The sorted sequence with the elements of s in which equal keys keep their
\* order.
StableSort(s) ==
  CHOOSE t \in SetToSeqs(ToSet(s)) :
    /\ Sorted(t)
    /\ \A i, j \in DOMAIN t :
         i < j /\ Key[t[i]] = Key[t[j]] => Place(s, t[i]) < Place(s, t[j])

SpecInit == seqs = [l \in Lists |-> <<>>] /\ call = <<>>

Becomes(l, s, what) == call' = what /\ seqs' = [seqs EXCEPT ![l] = s]

Insert(l, e) ==
  /\ OnNone(e)
  /\ \/ Becomes(l, <<e>> \o seqs[l], <<"push_front", l, e>>)
     \/ Becomes(l, Append(seqs[l], e), <<"push_back", l, e>>)
     \/ \E b \in ToSet(seqs[l]) :
          Becomes(l, InsertAt(seqs[l], Place(seqs[l], b), e), <<"insert", l, b, e>>)

\* Before the first greater element.
InsertOrdered(l, e) ==
  LET i == SelectInSeq(seqs[l], LAMBDA x : Before(e, x))
  IN  /\ OnNone(e)
      /\ Becomes(l, IF i = 0 THEN Append(seqs[l], e) ELSE InsertAt(seqs[l], i, e),
                 <<"insert_ordered", l, e>>)

Take(l) ==
  \E e \in ToSet(seqs[l]) :
    Becomes(l, RemoveAt(seqs[l], Place(seqs[l], e)), <<"remove", l, e>>)

\* Elements i .. j of list m go to list l, before an element or to the end.
Splice(m, l) ==
  \E i \in 1 .. Len(seqs[m]) : \E j \in i .. Len(seqs[m]) :
    LET run == SubSeq(seqs[m], i, j)
        rest == SubSeq(seqs[m], 1, i - 1) \o SubSeq(seqs[m], j + 1, Len(seqs[m]))
        target == IF l = m THEN rest ELSE seqs[l]
    IN  \E before \in ToSet(target) \cup {NULL} :
          LET k == IF before = NULL THEN Len(target) ELSE Place(target, before) - 1
          IN  /\ call' = <<"splice", l, before, m, i, j>>
              /\ seqs' = [x \in Lists |->
                            IF x = l THEN SubSeq(target, 1, k) \o run
                                            \o SubSeq(target, k + 1, Len(target))
                            ELSE IF x = m THEN rest
                            ELSE seqs[x]]

\* The elements of l after one with the same key go to the end of list dup.
Unique(l, dup) ==
  LET s == seqs[l]
      First(i) == i = 1 \/ Key[s[i]] # Key[s[i - 1]]
      Pick(keep) == SelectSeq([i \in DOMAIN s |-> i], LAMBDA i : First(i) = keep)
      Picked(idx) == [k \in DOMAIN idx |-> s[idx[k]]]
  IN  /\ call' = <<"unique", l, dup>>
      /\ seqs' = [x \in Lists |->
                    IF x = l THEN Picked(Pick(TRUE))
                    ELSE IF x = dup THEN seqs[dup] \o Picked(Pick(FALSE))
                    ELSE seqs[x]]

Operation(l) ==
  \/ \E e \in Elems : Insert(l, e) \/ InsertOrdered(l, e)
  \/ Take(l)
  \/ \E m \in Lists : Splice(m, l)
  \/ Becomes(l, Reverse(seqs[l]), <<"reverse", l>>)
  \/ Becomes(l, StableSort(seqs[l]), <<"sort", l>>)
  \/ \E dup \in Lists \ {l} : Unique(l, dup)

Return == call' = <<>> /\ UNCHANGED seqs

SpecNext == (call = <<>> /\ \E l \in Lists : Operation(l)) \/ Return

Spec == SpecInit /\ [][SpecNext]_<<seqs, call>>
=============================================================================
