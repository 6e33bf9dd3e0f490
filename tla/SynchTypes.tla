----------------------------- MODULE SynchTypes -----------------------------
(***************************************************************************)
(* The foundations of the proofs about module Synch: facts about the list  *)
(* operations of pintos/src/lib/kernel/list.c, as the models use them on   *)
(* sequences (insertion in front of an element, removal of an element,     *)
(* push_back and pop_front); what the scheduler of thread.c preserves (the *)
(* run queue stays consistent and in the order of priorities, and no other *)
(* thread's status changes); the inductive invariant; that the semaphore   *)
(* operations keep the types; and, without locks, that nobody but a thread *)
(* about to yield runs while a thread of higher priority is ready.         *)
(***************************************************************************)
EXTENDS Synch, SequenceTheorems, TLAPS

(* The elements of a list are those at its positions. *)
LEMMA RangeSeq ==
  ASSUME NEW S, NEW q \in Seq(S)
  PROVE  \A e : e \in Range(q) <=> \E i \in 1..Len(q) : q[i] = e
BY DEF Range

(* list_insert puts x at position k and moves what was there one up. *)
LEMMA InsertAtSeq ==
  ASSUME NEW S, NEW q \in Seq(S), NEW x \in S, NEW k \in 1..(Len(q) + 1)
  PROVE  /\ list_insert(q, k, x) \in Seq(S)
         /\ Len(list_insert(q, k, x)) = Len(q) + 1
         /\ \A i \in 1..(Len(q) + 1) :
              list_insert(q, k, x)[i] =
                IF i < k THEN q[i] ELSE IF i = k THEN x ELSE q[i - 1]
<1> DEFINE a == SubSeq(q, 1, k - 1)
           b == SubSeq(q, k, Len(q))
           c == a \o <<x>>
<1>1. /\ a \in Seq(S) /\ Len(a) = k - 1
      /\ \A i \in 1..(k - 1) : a[i] = q[i]
  OBVIOUS
<1>2. /\ b \in Seq(S) /\ Len(b) = Len(q) - k + 1
      /\ \A i \in 1..(Len(q) - k + 1) : b[i] = q[k + i - 1]
  OBVIOUS
<1>3. /\ <<x>> \in Seq(S) /\ Len(<<x>>) = 1 /\ <<x>>[1] = x
  OBVIOUS
<1> HIDE DEF a, b
<1>4. /\ c \in Seq(S) /\ Len(c) = Len(a) + Len(<<x>>)
      /\ \A i \in 1..(Len(a) + Len(<<x>>)) :
           c[i] = IF i <= Len(a) THEN a[i] ELSE <<x>>[i - Len(a)]
  BY <1>1, <1>3, ConcatProperties
<1> HIDE DEF c
<1>5. Len(c) = k /\ \A i \in 1..k : c[i] = IF i < k THEN q[i] ELSE x
  BY <1>1, <1>3, <1>4
<1>6. /\ c \o b \in Seq(S) /\ Len(c \o b) = Len(c) + Len(b)
      /\ \A i \in 1..(Len(c) + Len(b)) :
           (c \o b)[i] = IF i <= Len(c) THEN c[i] ELSE b[i - Len(c)]
  <2>1. b \in Seq(S) /\ c \in Seq(S)
    BY <1>2, <1>4
  <2>2. QED
    BY <2>1, ConcatProperties
<1>7. /\ Len(c \o b) = Len(q) + 1
      /\ \A i \in 1..(Len(q) + 1) :
           (c \o b)[i] = IF i < k THEN q[i] ELSE IF i = k THEN x ELSE q[i - 1]
  BY <1>2, <1>5, <1>6
<1>8. QED
  BY <1>6, <1>7 DEF list_insert, a, b, c

(* list_remove takes out position k and moves what is behind it one down. *)
LEMMA RemoveAtSeq ==
  ASSUME NEW S, NEW q \in Seq(S), NEW k \in 1..Len(q)
  PROVE  /\ list_remove(q, k) \in Seq(S)
         /\ Len(list_remove(q, k)) = Len(q) - 1
         /\ \A i \in 1..(Len(q) - 1) :
              list_remove(q, k)[i] = IF i < k THEN q[i] ELSE q[i + 1]
<1> DEFINE a == SubSeq(q, 1, k - 1)
           b == SubSeq(q, k + 1, Len(q))
<1>1. /\ a \in Seq(S) /\ Len(a) = k - 1
      /\ \A i \in 1..(k - 1) : a[i] = q[i]
  OBVIOUS
<1>2. /\ b \in Seq(S) /\ Len(b) = Len(q) - k
      /\ \A i \in 1..(Len(q) - k) : b[i] = q[k + i]
  OBVIOUS
<1> HIDE DEF a, b
<1>3. /\ a \o b \in Seq(S) /\ Len(a \o b) = Len(a) + Len(b)
      /\ \A i \in 1..(Len(a) + Len(b)) :
           (a \o b)[i] = IF i <= Len(a) THEN a[i] ELSE b[i - Len(a)]
  BY <1>1, <1>2, ConcatProperties
<1>4. /\ Len(a \o b) = Len(q) - 1
      /\ \A i \in 1..(Len(q) - 1) : (a \o b)[i] = IF i < k THEN q[i] ELSE q[i + 1]
  BY <1>1, <1>2, <1>3
<1>5. QED
  BY <1>3, <1>4 DEF list_remove, a, b

(* An insertion adds exactly its argument. *)
LEMMA InsertAtContains ==
  ASSUME NEW S, NEW q \in Seq(S), NEW x \in S, NEW k \in 1..(Len(q) + 1),
         NEW e
  PROVE  e \in Range(list_insert(q, k, x)) <=> (e = x \/ e \in Range(q))
<1> DEFINE r == list_insert(q, k, x)
<1>1. /\ r \in Seq(S) /\ Len(r) = Len(q) + 1 /\ Len(q) \in Nat
      /\ \A i \in 1..(Len(q) + 1) :
           r[i] = IF i < k THEN q[i] ELSE IF i = k THEN x ELSE q[i - 1]
  BY InsertAtSeq
<1> HIDE DEF r
<1>2. ASSUME NEW i \in 1..Len(r), r[i] = e
      PROVE  e = x \/ \E j \in 1..Len(q) : q[j] = e
  <2>1. CASE i < k
    BY <1>1, <1>2, <2>1
  <2>2. CASE i = k
    BY <1>1, <1>2, <2>2
  <2>3. CASE i > k
    <3>1. i - 1 \in 1..Len(q) /\ q[i - 1] = e
      BY <1>1, <1>2, <2>3
    <3>2. QED
      BY <3>1
  <2>4. QED
    BY <1>1, <2>1, <2>2, <2>3
<1>3. ASSUME NEW j \in 1..Len(q), q[j] = e
      PROVE  \E i \in 1..Len(r) : r[i] = e
  <2>1. CASE j < k
    BY <1>1, <1>3, <2>1
  <2>2. CASE j >= k
    <3>1. j + 1 \in 1..Len(r) /\ r[j + 1] = e
      BY <1>1, <1>3, <2>2
    <3>2. QED
      BY <3>1
  <2>3. QED
    BY <1>1, <2>1, <2>2
<1>4. k \in 1..Len(r) /\ r[k] = x
  BY <1>1
<1>5. QED
  BY <1>2, <1>3, <1>4 DEF Range, r

(* An insertion of a new element keeps the elements distinct. *)
LEMMA InsertAtInjective ==
  ASSUME NEW S, NEW q \in Seq(S), NEW x \in S, NEW k \in 1..(Len(q) + 1)
  PROVE  IsInjective(q) /\ x \notin Range(q) => IsInjective(list_insert(q, k, x))
<1> DEFINE r == list_insert(q, k, x)
<1>1. /\ r \in Seq(S) /\ Len(r) = Len(q) + 1 /\ Len(q) \in Nat
      /\ \A i \in 1..(Len(q) + 1) :
           r[i] = IF i < k THEN q[i] ELSE IF i = k THEN x ELSE q[i - 1]
  BY InsertAtSeq
<1> HAVE IsInjective(q) /\ x \notin Range(q)
<1>2. \A i \in 1..Len(q) : q[i] # x
  BY DEF Range
<1>3. \A i, j \in 1..Len(q) : q[i] = q[j] => i = j
  BY DEF IsInjective
<1> HIDE DEF r
<1>4. ASSUME NEW i \in 1..Len(r), NEW j \in 1..Len(r), r[i] = r[j]
      PROVE  i = j
  <2>1. CASE i = k
    <3>1. j < k => j \in 1..Len(q) /\ r[j] = q[j]
      BY <1>1
    <3>2. j > k => j - 1 \in 1..Len(q) /\ r[j] = q[j - 1]
      BY <1>1
    <3>3. QED
      BY <1>1, <1>2, <1>4, <2>1, <3>1, <3>2
  <2>2. CASE j = k
    <3>1. i < k => i \in 1..Len(q) /\ r[i] = q[i]
      BY <1>1
    <3>2. i > k => i - 1 \in 1..Len(q) /\ r[i] = q[i - 1]
      BY <1>1
    <3>3. QED
      BY <1>1, <1>2, <1>4, <2>2, <3>1, <3>2
  <2>3. CASE i # k /\ j # k
    <3> DEFINE a == IF i < k THEN i ELSE i - 1
               b == IF j < k THEN j ELSE j - 1
    <3>1. a \in 1..Len(q) /\ r[i] = q[a]
      BY <1>1, <2>3
    <3>2. b \in 1..Len(q) /\ r[j] = q[b]
      BY <1>1, <2>3
    <3>3. a = b
      BY <3>1, <3>2, <1>3, <1>4
    <3>4. QED
      BY <1>1, <2>3, <3>3
  <2>4. QED
    BY <2>1, <2>2, <2>3
<1>5. QED
  BY <1>1, <1>4 DEF IsInjective, r

(* A removal from distinct elements takes out exactly the one removed. *)
LEMMA RemoveAtDistinct ==
  ASSUME NEW S, NEW q \in Seq(S), NEW k \in 1..Len(q), IsInjective(q)
  PROVE  /\ IsInjective(list_remove(q, k))
         /\ \A e : e \in Range(list_remove(q, k)) <=> (e \in Range(q) /\ e # q[k])
<1> DEFINE r == list_remove(q, k)
<1>1. /\ r \in Seq(S) /\ Len(r) = Len(q) - 1 /\ Len(q) \in Nat
      /\ \A i \in 1..(Len(q) - 1) : r[i] = IF i < k THEN q[i] ELSE q[i + 1]
  BY RemoveAtSeq
<1>2. \A i, j \in 1..Len(q) : q[i] = q[j] => i = j
  BY DEF IsInjective
<1> HIDE DEF r
<1>3. ASSUME NEW i \in 1..Len(r)
      PROVE  \E a \in 1..Len(q) : /\ a # k /\ r[i] = q[a]
                                  /\ a = IF i < k THEN i ELSE i + 1
  BY <1>1
<1>4. ASSUME NEW i \in 1..Len(r), NEW j \in 1..Len(r), r[i] = r[j]
      PROVE  i = j
  <2>1. PICK a \in 1..Len(q) : r[i] = q[a] /\ a = IF i < k THEN i ELSE i + 1
    BY <1>3
  <2>2. PICK b \in 1..Len(q) : r[j] = q[b] /\ b = IF j < k THEN j ELSE j + 1
    BY <1>3
  <2>3. a = b
    BY <1>2, <1>4, <2>1, <2>2
  <2>4. QED
    BY <1>1, <2>1, <2>2, <2>3
<1>5. ASSUME NEW a \in 1..Len(q), a # k
      PROVE  \E i \in 1..Len(r) : r[i] = q[a]
  <2>1. CASE a < k
    BY <1>1, <2>1
  <2>2. CASE a > k
    <3>1. a - 1 \in 1..Len(r) /\ r[a - 1] = q[a]
      BY <1>1, <2>2
    <3>2. QED
      BY <3>1
  <2>3. QED
    BY <1>5, <2>1, <2>2
<1>6. ASSUME NEW e
      PROVE  e \in Range(r) <=> (e \in Range(q) /\ e # q[k])
  <2>1. (\E i \in 1..Len(r) : r[i] = e) => \E a \in 1..Len(q) : a # k /\ q[a] = e
    BY <1>3
  <2>2. (\E a \in 1..Len(q) : a # k /\ q[a] = e) => e # q[k]
    BY <1>2
  <2>3. /\ e \in Range(r) <=> \E i \in 1..Len(r) : r[i] = e
        /\ e \in Range(q) <=> \E i \in 1..Len(q) : q[i] = e
    BY <1>1, RangeSeq
  <2>4. QED
    BY ONLY <1>5, <2>1, <2>2, <2>3
<1>7. QED
  BY <1>1, <1>4, <1>6 DEF IsInjective, r

(* list_pop_front. *)
LEMMA TailDistinct ==
  ASSUME NEW S, NEW q \in Seq(S), q # <<>>, IsInjective(q)
  PROVE  /\ Tail(q) \in Seq(S) /\ Len(Tail(q)) = Len(q) - 1
         /\ Head(q) \in S
         /\ IsInjective(Tail(q))
         /\ \A e : e \in Range(Tail(q)) <=> (e \in Range(q) /\ e # Head(q))
<1> DEFINE r == Tail(q)
<1>1. /\ r \in Seq(S) /\ Len(r) = Len(q) - 1 /\ Len(q) \in Nat \ {0}
      /\ Head(q) \in S /\ Head(q) = q[1]
      /\ \A i \in 1..(Len(q) - 1) : r[i] = q[i + 1]
  OBVIOUS
<1>2. \A i, j \in 1..Len(q) : q[i] = q[j] => i = j
  BY DEF IsInjective
<1> HIDE DEF r
<1>3. ASSUME NEW i \in 1..Len(r)
      PROVE  \E a \in 1..Len(q) : a # 1 /\ r[i] = q[a] /\ a = i + 1
  BY <1>1
<1>4. ASSUME NEW i \in 1..Len(r), NEW j \in 1..Len(r), r[i] = r[j]
      PROVE  i = j
  <2>1. PICK a \in 1..Len(q) : r[i] = q[a] /\ a = i + 1
    BY <1>3
  <2>2. PICK b \in 1..Len(q) : r[j] = q[b] /\ b = j + 1
    BY <1>3
  <2>3. a = b
    BY <1>2, <1>4, <2>1, <2>2
  <2>4. QED
    BY <1>1, <2>1, <2>2, <2>3
<1>5. ASSUME NEW a \in 1..Len(q), a # 1
      PROVE  \E i \in 1..Len(r) : r[i] = q[a]
  <2>1. a - 1 \in 1..Len(r) /\ r[a - 1] = q[a]
    BY <1>1, <1>5
  <2>2. QED
    BY <2>1
<1>6. ASSUME NEW e
      PROVE  e \in Range(r) <=> (e \in Range(q) /\ e # Head(q))
  <2>1. (\E i \in 1..Len(r) : r[i] = e) => \E a \in 1..Len(q) : a # 1 /\ q[a] = e
    BY <1>3
  <2>2. (\E a \in 1..Len(q) : a # 1 /\ q[a] = e) => e # q[1]
    BY <1>1, <1>2
  <2>3. /\ e \in Range(r) <=> \E i \in 1..Len(r) : r[i] = e
        /\ e \in Range(q) <=> \E i \in 1..Len(q) : q[i] = e
    BY <1>1, RangeSeq
  <2>4. Head(q) = q[1]
    BY <1>1
  <2>5. QED
    BY ONLY <1>5, <2>1, <2>2, <2>3, <2>4
<1>7. QED
  BY <1>1, <1>4, <1>6 DEF IsInjective, r

(* list_push_back of an element that is not in the list. *)
LEMMA AppendDistinct ==
  ASSUME NEW S, NEW q \in Seq(S), NEW x \in S, IsInjective(q), x \notin Range(q)
  PROVE  /\ Append(q, x) \in Seq(S) /\ Len(Append(q, x)) = Len(q) + 1
         /\ IsInjective(Append(q, x))
         /\ \A e : e \in Range(Append(q, x)) <=> (e \in Range(q) \/ e = x)
<1> DEFINE r == Append(q, x)
<1>1. /\ r \in Seq(S) /\ Len(r) = Len(q) + 1 /\ Len(q) \in Nat
      /\ \A i \in 1..Len(q) : r[i] = q[i]
      /\ r[Len(q) + 1] = x
  OBVIOUS
<1>2. \A i, j \in 1..Len(q) : q[i] = q[j] => i = j
  BY DEF IsInjective
<1>3. \A i \in 1..Len(q) : q[i] # x
  BY DEF Range
<1> HIDE DEF r
<1>4. \A i, j \in 1..Len(r) : r[i] = r[j] => i = j
  BY <1>1, <1>2, <1>3
<1>5. ASSUME NEW e
      PROVE  e \in Range(r) <=> (e \in Range(q) \/ e = x)
  <2>1. (\E i \in 1..Len(r) : r[i] = e) => e = x \/ \E i \in 1..Len(q) : q[i] = e
    BY <1>1
  <2>2. (\E i \in 1..Len(q) : q[i] = e) => \E i \in 1..Len(r) : r[i] = e
    BY <1>1
  <2>3. Len(q) + 1 \in 1..Len(r)
    BY <1>1
  <2>4. QED
    BY <1>1, <2>1, <2>2, <2>3 DEF Range
<1>6. QED
  BY <1>1, <1>4, <1>5 DEF IsInjective, r

(* A truncated list. *)
LEMMA PrefixSeq ==
  ASSUME NEW S, NEW q \in Seq(S), NEW m \in Int, m <= Len(q)
  PROVE  SubSeq(q, 1, m) \in Seq(S)
<1>1. \A i \in 1..m : q[i] \in S
  OBVIOUS
<1>2. QED
  BY <1>1, SubSeqProperties

-----------------------------------------------------------------------------
SchedType ==
  /\ cur \in AllThreads
  /\ status \in [AllThreads -> Statuses]
  /\ ready_list \in Seq(Threads)

SchedOK == SchedType /\ RunQueue

(* schedule: when q holds exactly the threads that will be ready, the next
   state is consistent; a thread outside q other than the running one keeps
   its status. *)
LEMMA ScheduleKeeps ==
  ASSUME SchedOK, NEW q \in Seq(Threads), NEW n, n = Len(q), IsInjective(q),
         NEW st \in {"READY", "BLOCKED", "DYING"},
         \A t \in Threads :
           t \in Range(q) <=> IF t = cur THEN st = "READY" ELSE status[t] = "READY",
         schedule(q, n, st)
  PROVE  /\ SchedOK'
         /\ cur \in Threads /\ st # "READY" => status'[cur] = st
         /\ \A t \in Threads :
              t # cur /\ status[t] \notin {"READY", "RUNNING"} => status'[t] = status[t]
<1> DEFINE next == IF q = <<>> THEN Idle ELSE Head(q)
<1>1. /\ cur \in AllThreads
      /\ status \in [AllThreads -> Statuses]
      /\ \A t \in AllThreads : status[t] = "RUNNING" <=> t = cur
  BY DEF SchedOK, SchedType, RunQueue
<1>2. /\ cur' = next
      /\ ready_list' = IF q = <<>> THEN q ELSE Tail(q)
      /\ ready_threads' = IF q = <<>> THEN n ELSE n - 1
      /\ status' = [status EXCEPT ![cur] = st, ![next] = "RUNNING"]
  BY DEF schedule
<1>3. /\ Idle \notin Threads
      /\ AllThreads = Threads \cup {Idle}
      /\ Statuses = {"RUNNING", "READY", "BLOCKED", "DYING"}
  BY ThreadAssumption DEF AllThreads, Statuses
<1>4. /\ next \in AllThreads
      /\ ready_list' \in Seq(Threads)
      /\ IsInjective(ready_list')
      /\ ready_threads' = Len(ready_list')
      /\ \A e : e \in Range(ready_list') <=> (e \in Range(q) /\ e # next)
  <2>1. CASE q = <<>>
    <3>1. \A e : e \notin Range(q)
      BY <2>1 DEF Range
    <3>2. QED
      BY <1>2, <1>3, <2>1, <3>1
  <2>2. CASE q # <<>>
    <3>1. /\ Tail(q) \in Seq(Threads) /\ Len(Tail(q)) = Len(q) - 1
          /\ Head(q) \in Threads
          /\ IsInjective(Tail(q))
          /\ \A e : e \in Range(Tail(q)) <=> (e \in Range(q) /\ e # Head(q))
      BY <2>2, TailDistinct
    <3>2. QED
      BY <1>2, <1>3, <2>2, <3>1
  <2>3. QED
    BY <2>1, <2>2
<1>5. next \in Threads => next \in Range(q)
  <2>1. CASE q = <<>>
    BY <1>3, <2>1
  <2>2. CASE q # <<>>
    <3>1. Len(q) \in Nat \ {0} /\ Head(q) = q[1]
      BY <2>2
    <3>2. QED
      BY <2>2, <3>1 DEF Range
  <2>3. QED
    BY <2>1, <2>2
<1> HIDE DEF next
<1>6. /\ status' \in [AllThreads -> Statuses]
      /\ \A t \in AllThreads :
           status'[t] = IF t = next THEN "RUNNING" ELSE IF t = cur THEN st ELSE status[t]
  BY <1>1, <1>2, <1>3, <1>4
<1>7. \A t \in AllThreads : status'[t] = "RUNNING" <=> t = next
  BY <1>1, <1>6
<1>8. ASSUME NEW t \in Threads
      PROVE  status'[t] = "READY" <=> t \in Range(ready_list')
  BY <1>1, <1>3, <1>4, <1>6
<1>9. SchedOK'
  BY <1>2, <1>4, <1>6, <1>7, <1>8 DEF SchedOK, SchedType, RunQueue
<1>10. cur \in Threads /\ st # "READY" => status'[cur] = st
  BY <1>1, <1>5, <1>6
<1>11. ASSUME NEW t \in Threads, t # cur, status[t] \notin {"READY", "RUNNING"}
       PROVE  status'[t] = status[t]
  BY <1>3, <1>5, <1>6, <1>11
<1>12. QED
  BY <1>9, <1>10, <1>11

(* thread_block *)
LEMMA BlockKeeps ==
  ASSUME SchedOK, thread_block
  PROVE  /\ SchedOK'
         /\ cur \in Threads => status'[cur] = "BLOCKED"
         /\ \A t \in Threads :
              t # cur /\ status[t] \notin {"READY", "RUNNING"} => status'[t] = status[t]
<1>1. /\ cur \in AllThreads /\ ready_list \in Seq(Threads)
      /\ IsInjective(ready_list) /\ ready_threads = Len(ready_list)
      /\ \A t \in AllThreads : status[t] = "RUNNING" <=> t = cur
      /\ \A t \in Threads : status[t] = "READY" <=> t \in Range(ready_list)
  BY DEF SchedOK, SchedType, RunQueue
<1>2. \A t \in Threads : t \in Range(ready_list) <=>
        IF t = cur THEN "BLOCKED" = "READY" ELSE status[t] = "READY"
  BY <1>1 DEF AllThreads
<1>3. schedule(ready_list, ready_threads, "BLOCKED")
  BY DEF thread_block
<1>4. QED
  BY <1>1, <1>2, <1>3, ScheduleKeeps

(* thread_exit *)
LEMMA ExitKeeps ==
  ASSUME SchedOK, thread_exit
  PROVE  /\ SchedOK'
         /\ cur \in Threads => status'[cur] = "DYING"
         /\ \A t \in Threads :
              t # cur /\ status[t] \notin {"READY", "RUNNING"} => status'[t] = status[t]
<1>1. /\ cur \in AllThreads /\ ready_list \in Seq(Threads)
      /\ IsInjective(ready_list) /\ ready_threads = Len(ready_list)
      /\ \A t \in AllThreads : status[t] = "RUNNING" <=> t = cur
      /\ \A t \in Threads : status[t] = "READY" <=> t \in Range(ready_list)
  BY DEF SchedOK, SchedType, RunQueue
<1>2. \A t \in Threads : t \in Range(ready_list) <=>
        IF t = cur THEN "DYING" = "READY" ELSE status[t] = "READY"
  BY <1>1 DEF AllThreads
<1>3. schedule(ready_list, ready_threads, "DYING")
  BY DEF thread_exit
<1>4. QED
  BY <1>1, <1>2, <1>3, ScheduleKeeps

(* thread_yield *)
LEMMA YieldKeeps ==
  ASSUME SchedOK, thread_yield
  PROVE  /\ SchedOK'
         /\ \A t \in Threads :
              t # cur /\ status[t] \notin {"READY", "RUNNING"} => status'[t] = status[t]
<1>1. /\ cur \in AllThreads /\ ready_list \in Seq(Threads)
      /\ IsInjective(ready_list) /\ ready_threads = Len(ready_list)
      /\ \A t \in AllThreads : status[t] = "RUNNING" <=> t = cur
      /\ \A t \in Threads : status[t] = "READY" <=> t \in Range(ready_list)
  BY DEF SchedOK, SchedType, RunQueue
<1>2. CASE cur = Idle /\ schedule(ready_list, ready_threads, "READY")
  <2>1. \A t \in Threads : t \in Range(ready_list) <=>
          IF t = cur THEN "READY" = "READY" ELSE status[t] = "READY"
    BY <1>1, <1>2, ThreadAssumption
  <2>2. QED
    BY <1>1, <1>2, <2>1, ScheduleKeeps
<1>3. ASSUME cur # Idle, NEW k \in 1..(Len(ready_list) + 1),
             schedule(list_insert(ready_list, k, cur), ready_threads + 1, "READY")
      PROVE  /\ SchedOK'
             /\ \A t \in Threads :
                  t # cur /\ status[t] \notin {"READY", "RUNNING"}
                    => status'[t] = status[t]
  <2> DEFINE q == list_insert(ready_list, k, cur)
  <2>1. cur \in Threads /\ cur \notin Range(ready_list)
    BY <1>1, <1>3 DEF AllThreads
  <2>2. q \in Seq(Threads) /\ Len(q) = Len(ready_list) + 1
    BY <1>1, <2>1, InsertAtSeq
  <2>3. IsInjective(q)
    BY <1>1, <2>1, InsertAtInjective
  <2>4. \A e : e \in Range(q) <=> (e = cur \/ e \in Range(ready_list))
    BY <1>1, <2>1, InsertAtContains
  <2>5. schedule(q, ready_threads + 1, "READY")
    BY <1>3
  <2> HIDE DEF q
  <2>6. \A t \in Threads : t \in Range(q) <=>
          IF t = cur THEN "READY" = "READY" ELSE status[t] = "READY"
    BY <1>1, <2>4
  <2>7. QED
    BY <1>1, <2>2, <2>3, <2>5, <2>6, ScheduleKeeps
<1>4. QED
  BY <1>2, <1>3 DEF thread_yield

(* thread_unblock of a blocked thread changes that thread's status only. *)
LEMMA UnblockKeeps ==
  ASSUME SchedOK, NEW t \in Threads, status[t] = "BLOCKED", thread_unblock(t)
  PROVE  /\ SchedOK'
         /\ cur' = cur
         /\ \A u \in Threads : u # t => status'[u] = status[u]
<1>1. /\ cur \in AllThreads /\ ready_list \in Seq(Threads)
      /\ status \in [AllThreads -> Statuses]
      /\ IsInjective(ready_list) /\ ready_threads = Len(ready_list)
      /\ \A u \in AllThreads : status[u] = "RUNNING" <=> u = cur
      /\ \A u \in Threads : status[u] = "READY" <=> u \in Range(ready_list)
  BY DEF SchedOK, SchedType, RunQueue
<1>2. PICK k \in 1..(Len(ready_list) + 1) :
        /\ ready_list' = list_insert(ready_list, k, t)
        /\ ready_threads' = ready_threads + 1
        /\ status' = [status EXCEPT ![t] = "READY"]
        /\ UNCHANGED cur
  BY DEF thread_unblock
<1>3. ready_list' \in Seq(Threads) /\ Len(ready_list') = Len(ready_list) + 1
  BY <1>1, <1>2, InsertAtSeq
<1>4. t \notin Range(ready_list)
  BY <1>1
<1>5. IsInjective(ready_list')
  BY <1>1, <1>2, <1>4, InsertAtInjective
<1>6. \A e : e \in Range(ready_list') <=> (e = t \/ e \in Range(ready_list))
  BY <1>1, <1>2, InsertAtContains
<1>7. /\ status' \in [AllThreads -> Statuses]
      /\ \A u \in AllThreads : status'[u] = IF u = t THEN "READY" ELSE status[u]
  BY <1>1, <1>2 DEF AllThreads, Statuses
<1>8. \A u \in AllThreads : status'[u] = "RUNNING" <=> u = cur
  BY <1>1, <1>7 DEF AllThreads
<1>9. \A u \in Threads : status'[u] = "READY" <=> u \in Range(ready_list')
  BY <1>1, <1>6, <1>7 DEF AllThreads
<1>10. QED
  BY <1>1, <1>2, <1>3, <1>5, <1>7, <1>8, <1>9
  DEF SchedOK, SchedType, RunQueue, AllThreads

(* The run queue in the order of priorities, and priorities at most p. *)
Sorted(q) == \A i, j \in 1..Len(q) : i <= j => priority[q[j]] <= priority[q[i]]

AtMost(q, p) == \A k \in 1..Len(q) : priority[q[k]] <= p

LEMMA InsertSorted ==
  ASSUME priority \in [AllThreads -> Int], NEW q \in Seq(Threads), NEW x \in Threads, Sorted(q),
         NEW k \in 1..(Len(q) + 1),
         \A j \in 1..(k - 1) : priority[x] <= priority[q[j]],
         k <= Len(q) => priority[q[k]] <= priority[x]
  PROVE  Sorted(list_insert(q, k, x))
<1> DEFINE r == list_insert(q, k, x)
<1>1. /\ r \in Seq(Threads) /\ Len(r) = Len(q) + 1 /\ Len(q) \in Nat
      /\ \A i \in 1..(Len(q) + 1) :
           r[i] = IF i < k THEN q[i] ELSE IF i = k THEN x ELSE q[i - 1]
  BY InsertAtSeq
<1>2. \A i \in 1..Len(q) : q[i] \in Threads /\ priority[q[i]] \in Int
  BY DEF AllThreads
<1>3. priority[x] \in Int
  BY DEF AllThreads
<1> HIDE DEF r
<1>4. \A i \in 1..Len(q) : /\ i < k => priority[x] <= priority[q[i]]
                           /\ i >= k => priority[q[i]] <= priority[x]
  BY <1>1, <1>2, <1>3 DEF Sorted
<1>5. ASSUME NEW i \in 1..Len(r), NEW j \in 1..Len(r), i <= j
      PROVE  priority[r[j]] <= priority[r[i]]
  <2>1. CASE j < k
    <3>1. r[i] = q[i] /\ r[j] = q[j] /\ i \in 1..Len(q) /\ j \in 1..Len(q)
      BY <1>1, <1>5, <2>1
    <3>2. QED
      BY <1>5, <3>1 DEF Sorted
  <2>2. CASE i < k /\ j = k
    <3>1. r[i] = q[i] /\ r[j] = x /\ i \in 1..Len(q)
      BY <1>1, <1>5, <2>2
    <3>2. QED
      BY <1>4, <2>2, <3>1
  <2>3. CASE i < k /\ j > k
    <3>1. r[i] = q[i] /\ r[j] = q[j - 1] /\ i \in 1..Len(q) /\ j - 1 \in 1..Len(q) /\ i <= j - 1
      BY <1>1, <1>5, <2>3
    <3>2. QED
      BY <3>1 DEF Sorted
  <2>4. CASE i = k /\ j = k
    BY <1>1, <1>3, <2>4
  <2>5. CASE i = k /\ j > k
    <3>1. r[i] = x /\ r[j] = q[j - 1] /\ j - 1 \in 1..Len(q) /\ j - 1 >= k
      BY <1>1, <1>5, <2>5
    <3>2. QED
      BY <1>4, <3>1
  <2>6. CASE i > k
    <3>1. /\ r[i] = q[i - 1] /\ r[j] = q[j - 1]
          /\ i - 1 \in 1..Len(q) /\ j - 1 \in 1..Len(q) /\ i - 1 <= j - 1
      BY <1>1, <1>5, <2>6
    <3>2. QED
      BY <3>1 DEF Sorted
  <2>7. QED
    BY <1>1, <1>5, <2>1, <2>2, <2>3, <2>4, <2>5, <2>6
<1>6. QED
  BY <1>5 DEF Sorted, r

(* Whoever is dispatched is not behind any thread that stays on the queue. *)
Dispatched ==
  /\ Sorted(ready_list)'
  /\ cur' \in Threads => AtMost(ready_list, priority[cur])'

LEMMA ScheduleSorted ==
  ASSUME Idle \notin Threads, NEW q \in Seq(Threads), Sorted(q), NEW n, NEW st, schedule(q, n, st),
         UNCHANGED priority
  PROVE  Dispatched
<1>1. CASE q = <<>>
  BY <1>1 DEF schedule, Dispatched, Sorted, AtMost
<1>2. CASE q # <<>>
  <2> DEFINE r == Tail(q)
  <2>1. /\ Len(r) = Len(q) - 1 /\ Len(q) \in Nat \ {0} /\ Head(q) = q[1]
        /\ \A i \in 1..Len(r) : r[i] = q[i + 1]
    BY <1>2
  <2>2. ready_list' = r /\ cur' = q[1]
    BY <1>2, <2>1 DEF schedule
  <2> HIDE DEF r
  <2>3. \A i, j \in 1..Len(r) : i <= j => priority[r[j]] <= priority[r[i]]
    BY <2>1 DEF Sorted
  <2>4. \A k \in 1..Len(r) : priority[r[k]] <= priority[q[1]]
    BY <2>1 DEF Sorted
  <2>5. QED
    BY <2>2, <2>3, <2>4 DEF Dispatched, Sorted, AtMost
<1>3. QED
  BY <1>1, <1>2

LEMMA SwitchSorted ==
  ASSUME SchedType, priority \in [AllThreads -> Int], Sorted(ready_list), UNCHANGED priority,
         thread_block \/ thread_exit \/ thread_yield
  PROVE  Dispatched
<1>1. ready_list \in Seq(Threads) /\ Idle \notin Threads
  BY ThreadAssumption DEF SchedType
<1>2. CASE thread_block \/ thread_exit
  BY <1>1, <1>2, ScheduleSorted DEF thread_block, thread_exit
<1>3. CASE cur = Idle /\ schedule(ready_list, ready_threads, "READY")
  BY <1>1, <1>3, ScheduleSorted
<1>4. ASSUME NEW k \in 1..(Len(ready_list) + 1), cur # Idle, IsYieldPoint(k),
             schedule(list_insert(ready_list, k, cur), ready_threads + 1, "READY")
      PROVE  Dispatched
  <2> DEFINE q == list_insert(ready_list, k, cur)
  <2>1. cur \in Threads
    BY <1>4 DEF SchedType, AllThreads
  <2>2. q \in Seq(Threads)
    BY <1>1, <2>1, InsertAtSeq
  <2>3. /\ \A j \in 1..(k - 1) : priority[cur] <= priority[ready_list[j]]
        /\ k <= Len(ready_list) => priority[ready_list[k]] <= priority[cur]
    <3>1. k <= Len(ready_list) => priority[ready_list[k]] \in Int /\ priority[cur] \in Int
      BY <1>1, <2>1 DEF AllThreads
    <3>2. QED
      BY <1>4, <3>1 DEF IsYieldPoint
  <2>4. Sorted(q)
    BY <1>1, <2>1, <2>3, InsertSorted
  <2> HIDE DEF q
  <2>5. QED
    BY <1>1, <1>4, <2>2, <2>4, ScheduleSorted DEF q
<1>5. QED
  BY <1>2, <1>3, <1>4 DEF thread_yield

LEMMA UnblockSorted ==
  ASSUME SchedType, priority \in [AllThreads -> Int], Sorted(ready_list), UNCHANGED priority,
         NEW t \in Threads, thread_unblock(t)
  PROVE  /\ Sorted(ready_list)' /\ cur' = cur
         /\ \A k \in 1..Len(ready_list') :
              ready_list'[k] = t \/ \E j \in 1..Len(ready_list) : ready_list'[k] = ready_list[j]
<1>1. ready_list \in Seq(Threads)
  BY DEF SchedType
<1>2. PICK k \in 1..(Len(ready_list) + 1) :
        IsUnblockPoint(t, k) /\ ready_list' = list_insert(ready_list, k, t) /\ cur' = cur
  BY DEF thread_unblock
<1> DEFINE r == list_insert(ready_list, k, t)
<1>3. /\ \A j \in 1..(k - 1) : priority[t] <= priority[ready_list[j]]
      /\ k <= Len(ready_list) => priority[ready_list[k]] <= priority[t]
  <2>1. \A j \in 1..Len(ready_list) : priority[ready_list[j]] \in Int /\ priority[t] \in Int
    BY <1>1 DEF AllThreads
  <2>2. QED
    BY <1>1, <1>2, <2>1 DEF IsUnblockPoint
<1>4. Sorted(r)
  BY <1>1, <1>3, InsertSorted
<1>5. /\ Len(r) = Len(ready_list) + 1 /\ Len(ready_list) \in Nat
      /\ \A i \in 1..(Len(ready_list) + 1) :
           r[i] = IF i < k THEN ready_list[i] ELSE IF i = k THEN t ELSE ready_list[i - 1]
  BY <1>1, InsertAtSeq
<1> HIDE DEF r
<1>6. ASSUME NEW i \in 1..Len(r)
      PROVE  r[i] = t \/ \E j \in 1..Len(ready_list) : r[i] = ready_list[j]
  <2>1. \/ i \in 1..Len(ready_list) /\ r[i] = ready_list[i]
        \/ r[i] = t
        \/ i - 1 \in 1..Len(ready_list) /\ r[i] = ready_list[i - 1]
    BY <1>5
  <2>2. QED
    BY <2>1
<1>7. QED
  BY <1>2, <1>4, <1>6 DEF Sorted, r

-----------------------------------------------------------------------------

LockPoints == {"acq_donate", "acq_append", "acq_update", "acq_down",
               "acq_holder", "acq_clear", "try_holder",
               "rel_trim", "rel_update", "rel_clear", "rel_up"}

HolderPoints == {"acq_clear", "rel_trim", "rel_update", "rel_clear"}

OwnerPoints == {"acq_holder", "try_holder", "rel_up"}

(* What the point a thread has reached says of its lock: between taking the
   semaphore and setting holder, and between clearing holder and giving the
   semaphore back, nobody is recorded as the holder. *)
PointAt(t) ==
  /\ pc[t] \in LockPoints => obj[t] \in Locks
  /\ pc[t] = "down" => obj[t] \in Objects
  /\ pc[t] \in HolderPoints => holder[obj[t]] = t
  /\ pc[t] \in OwnerPoints => holder[obj[t]] = NULL

PointOK == \A t \in Threads : PointAt(t)

(* The inductive invariant. *)
IInv == TypeOK /\ QueueDiscipline /\ MutualExclusion /\ PointOK

(* The part of TypeOK that is not about the scheduler. *)
LocalType ==
  /\ priority \in [AllThreads -> Int]
  /\ nativePriority \in [AllThreads -> Int]
  /\ donors \in [Threads -> Seq(Donations)]
  /\ donees \in [Threads -> Donations]
  /\ value \in [Objects -> Nat]
  /\ waiters \in [Objects -> Seq(Threads)]
  /\ holder \in [Locks -> Threads \cup {NULL}]
  /\ panicked \in BOOLEAN
  /\ pc \in [Threads -> Points]
  /\ obj \in [Threads -> Objects \cup {NULL}]
  /\ ptr \in [Threads -> Threads \cup {NULL}]
  /\ mark \in [Threads -> Int]
  /\ hasWaiter \in [Threads -> BOOLEAN]

(* TypeOK is the scheduler's types and LocalType. *)
LEMMA TypeSplit ==
  ASSUME RunQueue, ready_list \in Seq(Threads)
  PROVE  TypeOK <=> SchedType /\ LocalType
<1>1. ready_threads \in Int
  BY DEF RunQueue
<1>2. QED
  BY <1>1 DEF TypeOK, SchedType, LocalType

(* The semaphore part of sema_down keeps the types. *)
LEMMA DownType ==
  ASSUME LocalType, cur \in Threads, NEW s \in Objects, down(s)
  PROVE  /\ value' \in [Objects -> Nat]
         /\ waiters' \in [Objects -> Seq(Threads)]
         /\ pc' \in [Threads -> Points]
         /\ obj' \in [Threads -> Objects \cup {NULL}]
<1>1. value \in [Objects -> Nat] /\ waiters \in [Objects -> Seq(Threads)]
  BY DEF LocalType
<1>2. pc \in [Threads -> Points] /\ obj \in [Threads -> Objects \cup {NULL}]
  BY DEF LocalType
<1>3. CASE /\ value[s] > 0
           /\ value' = [value EXCEPT ![s] = @ - 1]
           /\ Goto(AfterDown(s))
           /\ obj' = [obj EXCEPT ![cur] = IF s \in Locks THEN s ELSE NULL]
           /\ UNCHANGED waiters
  BY <1>1, <1>2, <1>3 DEF Goto, AfterDown, Points
<1>4. CASE /\ value[s] = 0
           /\ waiters' = [waiters EXCEPT ![s] = Append(@, cur)]
           /\ Goto("down")
           /\ obj' = [obj EXCEPT ![cur] = s]
           /\ UNCHANGED value
  BY <1>1, <1>2, <1>4 DEF Goto, Points
<1>5. QED
  BY <1>3, <1>4 DEF down

(* The semaphore part of sema_up keeps the types. *)
LEMMA UpType ==
  ASSUME LocalType, NEW s \in Objects, NEW top, up(s, top)
  PROVE  /\ value' \in [Objects -> Nat]
         /\ waiters' \in [Objects -> Seq(Threads)]
<1>1. value \in [Objects -> Nat] /\ waiters \in [Objects -> Seq(Threads)]
  BY DEF LocalType
<1>2. value' \in [Objects -> Nat]
  <2>1. value' = [value EXCEPT ![s] = @ + 1]
    BY DEF up
  <2>2. QED
    BY <1>1, <2>1
<1>3. CASE UNCHANGED waiters
  BY <1>1, <1>2, <1>3
<1>4. ASSUME NEW k \in DOMAIN waiters[s],
             waiters' = [waiters EXCEPT ![s] = list_remove(@, k)]
      PROVE  waiters' \in [Objects -> Seq(Threads)]
  <2>1. waiters[s] \in Seq(Threads) /\ k \in 1..Len(waiters[s])
    BY <1>1, <1>4
  <2>2. list_remove(waiters[s], k) \in Seq(Threads)
    BY <2>1, RemoveAtSeq
  <2>3. QED
    BY <1>1, <1>4, <2>2
<1>5. QED
  BY <1>2, <1>3, <1>4 DEF up

(* highestPriority is an integer. *)
LEMMA TopsInt ==
  ASSUME LocalType, NEW s \in Objects, NEW top \in Tops(s)
  PROVE  top \in Int
<1>1. PRI_MIN - 1 \in Int
  BY SynchAssumption
<1>2. ASSUME NEW k \in DOMAIN waiters[s]
      PROVE  priority[waiters[s][k]] \in Int
  <2>1. waiters[s] \in Seq(Threads)
    BY DEF LocalType
  <2>2. waiters[s][k] \in Threads
    BY <1>2, <2>1
  <2>3. QED
    BY <2>2 DEF LocalType, AllThreads
<1>3. QED
  BY <1>1, <1>2 DEF Tops

(* The semaphore operations keep the types. *)
LEMMA SemaType ==
  ASSUME LocalType, cur \in AllThreads, PointOK, SemaStep
  PROVE  LocalType'
<1> USE DEF LocalType
<1>1. Semas \subseteq Objects /\ IntrSemas \subseteq Semas /\ Locks \subseteq Objects
  BY SynchAssumption DEF Objects
<1>2. ASSUME NEW s \in Semas, sema_down(s)
      PROVE  LocalType'
  <2>1. /\ cur \in Threads /\ down(s)
        /\ UNCHANGED <<priority, donationVars, holder, panicked, ptr, mark, hasWaiter>>
    BY <1>2 DEF sema_down, At
  <2>2. QED
    BY <1>1, <2>1, DownType DEF donationVars
<1>3. ASSUME NEW s \in Semas, sema_try_down(s)
      PROVE  LocalType'
  BY <1>1, <1>3 DEF sema_try_down, donationVars, localVars
<1>4. ASSUME NEW s \in Semas, sema_up(s)
      PROVE  LocalType'
  <2>1. PICK top \in Tops(s) : up(s, top) /\ mark' = [mark EXCEPT ![cur] = top]
    BY <1>4 DEF sema_up
  <2>2. top \in Int
    BY <1>1, TopsInt
  <2>3. value' \in [Objects -> Nat] /\ waiters' \in [Objects -> Seq(Threads)]
    BY <1>1, <2>1, UpType
  <2>4. /\ cur \in Threads
        /\ pc' = [pc EXCEPT ![cur] = "up_yield"]
        /\ obj' = [obj EXCEPT ![cur] = s]
        /\ UNCHANGED <<priority, donationVars, holder, panicked, ptr, hasWaiter>>
    BY <1>4 DEF sema_up, At, Goto
  <2>5. QED
    BY <1>1, <2>1, <2>2, <2>3, <2>4 DEF donationVars, Points
<1>5. CASE sema_down_resume
  <2>1. cur \in Threads /\ obj[cur] \in Objects
    BY <1>5 DEF sema_down_resume, At, PointOK, PointAt
  <2>2. UNCHANGED <<priority, donationVars, waiters, holder, panicked,
                    ptr, mark, hasWaiter>>
    BY <1>5 DEF sema_down_resume
  <2>3. CASE UNCHANGED <<value, pc, obj>>
    BY <2>2, <2>3 DEF donationVars
  <2>4. CASE /\ value[obj[cur]] > 0
             /\ value' = [value EXCEPT ![obj[cur]] = @ - 1]
             /\ Goto(AfterDown(obj[cur]))
             /\ obj' = [obj EXCEPT ![cur] =
                          IF obj[cur] \in Locks THEN obj[cur] ELSE NULL]
    BY <2>1, <2>2, <2>4 DEF donationVars, Goto, AfterDown, Points
  <2>5. QED
    BY <1>5, <2>3, <2>4 DEF sema_down_resume
<1>6. CASE sema_up_yield
  <2>1. cur \in Threads
        /\ UNCHANGED <<priority, donationVars, semaVars, holder, panicked>>
    BY <1>6 DEF sema_up_yield, At
  <2>2. CASE Goto("rel_yield") /\ UNCHANGED localVars
    BY <2>1, <2>2 DEF Goto, Points, localVars, donationVars, semaVars
  <2>3. CASE Return
    BY <2>1, <2>3 DEF Return, Goto, Points, donationVars, semaVars
  <2>4. QED
    BY <1>6, <2>2, <2>3 DEF sema_up_yield
<1>7. ASSUME NEW s \in IntrSemas, sema_up_intr(s)
      PROVE  LocalType'
  <2>1. PICK top \in Tops(s) : up(s, top) /\ panicked' = (top >= priority[cur])
    BY <1>7 DEF sema_up_intr
  <2>2. value' \in [Objects -> Nat] /\ waiters' \in [Objects -> Seq(Threads)]
    BY <1>1, <2>1, UpType
  <2>3. UNCHANGED <<priority, donationVars, holder, pc, localVars>>
    BY <1>7 DEF sema_up_intr
  <2>4. panicked' \in BOOLEAN
    BY <2>1
  <2>5. QED
    BY <2>2, <2>3, <2>4 DEF donationVars, localVars
<1>8. QED
  BY <1>2, <1>3, <1>4, <1>5, <1>6, <1>7 DEF SemaStep


(* The loop of lock_release leaves donations in donors[]. *)
LEMMA CompactType ==
  ASSUME LocalType, NEW t \in Threads, NEW l, NEW i \in 0..Len(donors[t])
  PROVE  CompactDonors(t, l, i) \in Seq(Donations)
<1>1. donors[t] \in Seq(Donations) /\ DOMAIN donors[t] = 1..Len(donors[t])
      /\ Len(donors[t]) \in Nat
  BY DEF LocalType
<1>2. ASSUME NEW j \in 1..Len(donors[t])
      PROVE  (IF j < i /\ donors[t][j].lock = l THEN donors[t][i] ELSE donors[t][j])
                \in Donations
  <2>1. j < i => i \in 1..Len(donors[t])
    BY <1>1
  <2>2. QED
    BY <1>1, <2>1
<1>3. CompactDonors(t, l, i) \in [1..Len(donors[t]) -> Donations]
  BY <1>1, <1>2 DEF CompactDonors
<1>4. \A n \in Nat : [1..n -> Donations] \subseteq Seq(Donations)
  BY ONLY SeqDef, Zenon
<1>5. QED
  BY ONLY <1>1, <1>3, <1>4

-----------------------------------------------------------------------------
(* Client programs that use semaphores, thread_set_priority, thread_yield and
   thread_exit, started with the highest of them running. *)
SemaphoresOnly ==
  /\ Locks = {} /\ IntrSemas = {} /\ Sleepers = {} /\ InitAsleep = {}
  /\ \A i, j \in 1..Len(InitReady) :
       i <= j => InitPriority[InitReady[j]] <= InitPriority[InitReady[i]]
  /\ \A k \in 1..Len(InitReady) : InitPriority[InitReady[k]] <= InitPriority[InitRunning]

(* No thread is in a lock operation or has a donation, and interrupts stay off
   in the update of thread_set_priority. *)
PlainAt(t) ==
  /\ pc[t] \in {"run", "down", "up_yield", "set_update", "set_yield"}
  /\ donors[t] = <<>> /\ donees[t].thread = NULL /\ hasWaiter[t] = FALSE
  /\ pc[t] = "set_update" => t = cur /\ ptr[t] = t

(* Only a thread that is about to yield can be behind a ready one: after
   thread_set_priority, and in sema_up behind the thread it woke. *)
Ahead ==
  cur \in Threads /\ pc[cur] # "set_yield" =>
    \A k \in 1..Len(ready_list) :
      \/ priority[ready_list[k]] <= priority[cur]
      \/ pc[cur] = "up_yield" /\ priority[ready_list[k]] <= mark[cur]

HighInv == Sorted(ready_list) /\ Ahead /\ \A t \in Threads : PlainAt(t)

(* The steps, by what they do to the run queue. *)
Switch ==
  /\ thread_block \/ thread_exit \/ thread_yield
  /\ cur \in Threads => pc[cur] # "set_update"
  /\ \A t \in Threads : pc'[t] \in {pc[t], "run", "down"}
  /\ \A t \in Threads : hasWaiter'[t] \in {hasWaiter[t], FALSE}
  /\ UNCHANGED <<priority, donors, donees>>

LEMMA SwitchKeeps ==
  ASSUME IInv, HighInv, Switch
  PROVE  HighInv'
<1>1. SchedType /\ priority \in [AllThreads -> Int]
  BY DEF IInv, TypeOK, SchedType
<1>2. Dispatched
  BY <1>1, SwitchSorted DEF HighInv, Switch
<1>3. Sorted(ready_list)' /\ Ahead'
  BY <1>2 DEF Dispatched, Ahead, AtMost
<1>4. ASSUME NEW t \in Threads PROVE PlainAt(t)'
  BY DEF HighInv, PlainAt, Switch
<1>5. QED
  BY <1>3, <1>4 DEF HighInv

(* The thread goes on, to client code, into thread_set_priority, or out of a
   sema_up that woke nobody. *)
Calm ==
  /\ cur \in Threads
  /\ \/ pc'[cur] = "run" /\ pc[cur] \in {"run", "down"}
     \/ pc'[cur] = "run" /\ pc[cur] = "up_yield" /\ mark[cur] < priority[cur]
     \/ /\ pc'[cur] = "run" /\ pc[cur] = "set_yield"
        /\ ~(ready_list # <<>> /\ priority[cur] < priority[Head(ready_list)])
     \/ pc'[cur] = "set_update" /\ pc[cur] = "run" /\ ptr'[cur] = cur
     \/ pc'[cur] = "up_yield" /\ pc[cur] = "run"
  /\ \A t \in Threads \ {cur} : pc'[t] = pc[t] /\ ptr'[t] = ptr[t]
  /\ \A t \in Threads : hasWaiter'[t] \in {hasWaiter[t], FALSE}
  /\ UNCHANGED <<cur, ready_list, priority, donors, donees>>

LEMMA CalmKeeps ==
  ASSUME IInv, HighInv, Calm
  PROVE  HighInv'
<1>1. /\ ready_list \in Seq(Threads) /\ priority \in [AllThreads -> Int]
      /\ cur \in Threads /\ mark[cur] \in Int
  BY DEF IInv, TypeOK, Calm
<1>2. /\ priority[cur] \in Int
      /\ \A k \in 1..Len(ready_list) : ready_list[k] \in Threads /\ priority[ready_list[k]] \in Int
  BY <1>1 DEF AllThreads
<1>3. ASSUME NEW k \in 1..Len(ready_list)
      PROVE  priority[ready_list[k]] <= priority[cur]
  <2>1. CASE pc[cur] \in {"run", "down"}
    BY <1>1, <2>1 DEF HighInv, Ahead
  <2>2. CASE pc[cur] = "up_yield" /\ mark[cur] < priority[cur]
    <3>1. priority[ready_list[k]] <= priority[cur] \/ priority[ready_list[k]] <= mark[cur]
      BY <1>1, <2>2 DEF HighInv, Ahead
    <3>2. QED
      BY <1>1, <1>2, <2>2, <3>1
  <2>3. CASE ~(ready_list # <<>> /\ priority[cur] < priority[Head(ready_list)])
    <3>1. ready_list # <<>> /\ Head(ready_list) = ready_list[1] /\ 1 \in 1..Len(ready_list) /\ 1 <= k
      BY <1>1
    <3>2. priority[ready_list[k]] <= priority[ready_list[1]]
      BY <3>1 DEF HighInv, Sorted
    <3>3. QED
      BY <1>2, <2>3, <3>1, <3>2
  <2>4. QED
    BY <2>1, <2>2, <2>3 DEF Calm
<1>4. UNCHANGED <<cur, ready_list, priority>> /\ Sorted(ready_list)
  BY DEF Calm, HighInv
<1>5. Ahead' /\ Sorted(ready_list)'
  BY <1>3, <1>4 DEF Ahead, Sorted
<1>6. ASSUME NEW t \in Threads PROVE PlainAt(t)'
  BY DEF HighInv, PlainAt, Calm
<1>7. QED
  BY <1>5, <1>6 DEF HighInv

(* sema_up wakes a thread; its highestPriority is that thread's. *)
Wake(w) ==
  /\ cur \in Threads /\ pc[cur] = "run"
  /\ thread_unblock(w) /\ mark'[cur] = priority[w]
  /\ pc' = [pc EXCEPT ![cur] = "up_yield"]
  /\ UNCHANGED <<priority, donors, donees, ptr, hasWaiter>>

LEMMA WakeKeeps ==
  ASSUME IInv, HighInv, NEW w \in Threads, Wake(w)
  PROVE  HighInv'
<1>1. /\ SchedType /\ priority \in [AllThreads -> Int] /\ pc \in [Threads -> Points]
      /\ priority[w] \in Int
  BY DEF IInv, TypeOK, SchedType, AllThreads
<1>2. /\ Sorted(ready_list)' /\ cur' = cur
      /\ \A k \in 1..Len(ready_list') :
           ready_list'[k] = w \/ \E j \in 1..Len(ready_list) : ready_list'[k] = ready_list[j]
  BY <1>1, UnblockSorted DEF Wake, HighInv
<1>3. \A j \in 1..Len(ready_list) : priority[ready_list[j]] <= priority[cur]
  BY DEF HighInv, Ahead, Wake
<1>4. Ahead'
  BY <1>1, <1>2, <1>3 DEF Ahead, Wake
<1>5. ASSUME NEW t \in Threads PROVE PlainAt(t)'
  BY <1>1, <1>2 DEF HighInv, PlainAt, Wake
<1>6. QED
  BY <1>2, <1>4, <1>5 DEF HighInv

(* thread_set_priority changes the priority of the running thread, which is
   not on the run queue. *)
Update ==
  /\ cur \in Threads /\ pc[cur] = "set_update"
  /\ \E p \in Int : priority' = [priority EXCEPT ![cur] = p]
  /\ pc' = [pc EXCEPT ![cur] = "set_yield"]
  /\ UNCHANGED <<cur, ready_list, donors, donees, hasWaiter>>

LEMMA UpdateKeeps ==
  ASSUME IInv, HighInv, Update
  PROVE  HighInv'
<1>1. /\ ready_list \in Seq(Threads) /\ priority \in [AllThreads -> Int]
      /\ pc \in [Threads -> Points] /\ RunQueue
  BY DEF IInv, TypeOK, QueueDiscipline
<1>2. \A k \in 1..Len(ready_list) : ready_list[k] \in Threads /\ ready_list[k] # cur
  <2>1. status[cur] = "RUNNING"
    BY <1>1 DEF Update, RunQueue, AllThreads
  <2>2. ASSUME NEW k \in 1..Len(ready_list)
        PROVE  ready_list[k] \in Threads /\ status[ready_list[k]] = "READY"
    BY <1>1, RangeSeq DEF RunQueue
  <2>3. QED
    BY <2>1, <2>2
<1>3. Sorted(ready_list)'
  BY <1>1, <1>2 DEF Update, HighInv, Sorted, AllThreads
<1>4. Ahead'
  BY <1>1 DEF Update, Ahead
<1>5. ASSUME NEW t \in Threads PROVE PlainAt(t)'
  BY <1>1 DEF HighInv, PlainAt, Update
<1>6. QED
  BY <1>3, <1>4, <1>5 DEF HighInv

(* Every step is one of these. *)
LEMMA SemaPlain ==
  ASSUME SemaphoresOnly, IInv, HighInv, SemaStep
  PROVE  Switch \/ Calm \/ \E w \in Threads : Wake(w)
<1>1. /\ pc \in [Threads -> Points] /\ mark \in [Threads -> Int] /\ ptr \in [Threads -> Threads \cup {NULL}]
      /\ hasWaiter \in [Threads -> BOOLEAN]
      /\ \A s \in Objects : waiters[s] \in Seq(Threads)
  BY DEF IInv, TypeOK
<1>2. \A s : AfterDown(s) = "run"
  BY DEF AfterDown, SemaphoresOnly
<1>3. ASSUME NEW s \in Semas, cur \in Threads, sema_down(s)
      PROVE  Switch \/ Calm
  <2>1. /\ pc[cur] = "run" /\ UNCHANGED <<priority, donors, donees, ptr, hasWaiter>>
    BY <1>3 DEF sema_down, At, donationVars
  <2>2. CASE UNCHANGED <<cur, ready_list>> /\ pc' = [pc EXCEPT ![cur] = "run"]
    BY <1>1, <1>3, <2>1, <2>2 DEF Calm
  <2>3. CASE thread_block /\ pc' = [pc EXCEPT ![cur] = "down"]
    BY <1>1, <2>1, <2>3 DEF Switch
  <2>4. QED
    BY <1>2, <1>3, <2>2, <2>3 DEF sema_down, down, Goto, schedVars
<1>4. ASSUME NEW s \in Semas, cur \in Threads, sema_try_down(s)
      PROVE  Calm
  BY <1>4 DEF sema_try_down, At, schedVars, donationVars, localVars, Calm
<1>5. ASSUME NEW s \in Semas, cur \in Threads, sema_up(s)
      PROVE  Calm \/ \E w \in Threads : Wake(w)
  <2>1. /\ pc[cur] = "run" /\ pc' = [pc EXCEPT ![cur] = "up_yield"]
        /\ UNCHANGED <<priority, donors, donees, ptr, hasWaiter>>
    BY <1>5 DEF sema_up, At, Goto, donationVars
  <2>2. PICK top : up(s, top) /\ mark' = [mark EXCEPT ![cur] = top]
    BY <1>5 DEF sema_up
  <2>3. CASE UNCHANGED <<cur, ready_list>>
    BY <1>1, <1>5, <2>1, <2>3 DEF Calm
  <2>4. ASSUME NEW k \in DOMAIN waiters[s], top = priority[waiters[s][k]],
               thread_unblock(waiters[s][k])
        PROVE  \E w \in Threads : Wake(w)
    <3>1. waiters[s][k] \in Threads
      BY <1>1, <2>4 DEF Objects
    <3>2. Wake(waiters[s][k])
      BY <1>1, <1>5, <2>1, <2>2, <2>4 DEF Wake
    <3>3. QED
      BY <3>1, <3>2
  <2>5. QED
    BY <2>2, <2>3, <2>4 DEF up, schedVars
<1>6. CASE sema_down_resume
  <2>1. /\ cur \in Threads /\ pc[cur] = "down"
        /\ UNCHANGED <<priority, donors, donees, ptr, hasWaiter>>
    BY <1>6 DEF sema_down_resume, At, donationVars
  <2>2. CASE UNCHANGED <<cur, ready_list>> /\ pc' = [pc EXCEPT ![cur] = "run"]
    BY <1>1, <2>1, <2>2 DEF Calm
  <2>3. CASE thread_block /\ pc' = pc
    BY <2>1, <2>3 DEF Switch
  <2>4. QED
    BY <1>2, <1>6, <2>2, <2>3 DEF sema_down_resume, Goto, schedVars
<1>7. CASE sema_up_yield
  <2>1. /\ cur \in Threads /\ pc[cur] = "up_yield" /\ hasWaiter[cur] = FALSE
        /\ UNCHANGED <<priority, donors, donees>>
    BY <1>7 DEF sema_up_yield, At, donationVars, HighInv, PlainAt
  <2>2. /\ pc' = [pc EXCEPT ![cur] = "run"] /\ ptr' = [ptr EXCEPT ![cur] = NULL]
        /\ hasWaiter' = [hasWaiter EXCEPT ![cur] = FALSE]
    BY <1>7, <2>1 DEF sema_up_yield, Return, Goto
  <2>3. CASE thread_yield
    BY <1>1, <2>1, <2>2, <2>3 DEF Switch
  <2>4. CASE mark[cur] < priority[cur] /\ UNCHANGED <<cur, ready_list>>
    BY <1>1, <2>1, <2>2, <2>4 DEF Calm
  <2>5. QED
    BY <1>7, <2>3, <2>4 DEF sema_up_yield, schedVars
<1>8. QED
  BY <1>3, <1>4, <1>5, <1>6, <1>7 DEF SemaStep, SemaphoresOnly

LEMMA LockPlain ==
  ASSUME SemaphoresOnly, IInv, HighInv, LockStep
  PROVE  Update
<1>1. updateActivePriority /\ cur \in Threads /\ pc[cur] = "set_update"
  <2>1. cur \in Threads => pc[cur] \in {"run", "down", "up_yield", "set_update", "set_yield"}
    BY DEF HighInv, PlainAt
  <2>2. updateActivePriority
    BY <2>1 DEF SemaphoresOnly, LockStep, At, acquire_donate, acquire_append, acquire_overflow,
         acquire_down, acquire_holder, acquire_clear, try_holder, release_trim, release_clear,
         release_up, release_yield, stale_holder
  <2>3. QED
    BY <2>1, <2>2 DEF updateActivePriority, At
<1>2. ptr[cur] = cur /\ donees[cur].thread = NULL /\ NULL \notin Threads
  BY <1>1, ThreadAssumption DEF HighInv, PlainAt
<1>3. /\ \E p \in {priority[u] : u \in Threads} \cup {nativePriority[cur]} :
           priority' = [priority EXCEPT ![cur] = p]
      /\ pc' = [pc EXCEPT ![cur] = "set_yield"]
  BY <1>1, <1>2 DEF updateActivePriority, At, IsThread, Goto, UpdateReturn
<1>4. \A p \in {priority[u] : u \in Threads} \cup {nativePriority[cur]} : p \in Int
  <2>1. priority \in [AllThreads -> Int] /\ nativePriority \in [AllThreads -> Int]
    BY DEF IInv, TypeOK
  <2>2. nativePriority[cur] \in Int /\ \A u \in Threads : priority[u] \in Int
    BY <1>1, <2>1 DEF AllThreads
  <2>3. QED
    BY <2>2
<1>5. UNCHANGED <<cur, ready_list, donors, donees, hasWaiter>>
  BY <1>1 DEF updateActivePriority, schedVars, donationVars
<1>6. QED
  BY <1>1, <1>3, <1>4, <1>5 DEF Update

LEMMA ThreadPlain ==
  ASSUME SemaphoresOnly, IInv, HighInv, ThreadStep
  PROVE  Switch \/ Calm
<1>1. /\ pc \in [Threads -> Points] /\ ptr \in [Threads -> Threads \cup {NULL}]
      /\ hasWaiter \in [Threads -> BOOLEAN] /\ Idle \notin Threads
  BY ThreadAssumption DEF IInv, TypeOK
<1>2. ASSUME NEW p \in NewPriorities, thread_set_priority(p)
      PROVE  Calm
  BY <1>1, <1>2 DEF thread_set_priority, At, Goto, schedVars, Calm
<1>3. CASE set_priority_yield
  <2>1. /\ cur \in Threads /\ pc[cur] = "set_yield" /\ UNCHANGED <<priority, donors, donees>>
        /\ pc' = [pc EXCEPT ![cur] = "run"] /\ ptr' = [ptr EXCEPT ![cur] = NULL]
        /\ hasWaiter' = [hasWaiter EXCEPT ![cur] = FALSE]
    BY <1>3 DEF set_priority_yield, At, Return, Goto, donationVars
  <2>2. CASE thread_yield
    BY <1>1, <2>1, <2>2 DEF Switch
  <2>3. CASE /\ ~(ready_list # <<>> /\ priority[cur] < priority[Head(ready_list)])
             /\ UNCHANGED <<cur, ready_list>>
    BY <1>1, <2>1, <2>3 DEF Calm
  <2>4. QED
    BY <1>3, <2>2, <2>3 DEF set_priority_yield, schedVars
<1>4. CASE exit \/ yield \/ idle
  <2>1. /\ thread_block \/ thread_exit \/ thread_yield
        /\ UNCHANGED <<priority, donors, donees, pc, hasWaiter>>
    BY <1>4 DEF exit, yield, idle, donationVars, localVars
  <2>2. cur \in Threads => pc[cur] # "set_update"
    BY <1>1, <1>4 DEF exit, yield, idle, At, IntrOn
  <2>3. QED
    BY <2>1, <2>2 DEF Switch
<1>5. QED
  BY <1>2, <1>3, <1>4 DEF ThreadStep, SemaphoresOnly, timer_sleep
=============================================================================
