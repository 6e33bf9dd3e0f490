---------------------------- MODULE SynchQueues -----------------------------
(* Every step of module Synch keeps the run queue and the wait lists in
   order; and the lock and thread operations keep the types. *)
EXTENDS SynchTypes

(* The lock operations keep the types. *)
LEMMA LockType ==
  ASSUME LocalType, cur \in AllThreads, PointOK, LockStep
  PROVE  LocalType'
<1> USE DEF LocalType
<1>1. Locks \subseteq Objects
  BY DEF Objects
<1>2. ASSUME NEW l \in Locks, lock_acquire(l)
      PROVE  LocalType'
  <2>1. /\ cur \in Threads
        /\ obj' = [obj EXCEPT ![cur] = l]
        /\ UNCHANGED <<schedVars, priority, donationVars, semaVars, holder,
                       panicked, mark, hasWaiter>>
    BY <1>2 DEF lock_acquire, At
  <2>2. /\ pc' \in [Threads -> Points]
        /\ ptr' \in [Threads -> Threads \cup {NULL}]
    BY <1>2, <2>1 DEF lock_acquire, Goto, Points
  <2>3. QED
    BY <1>1, <2>1, <2>2 DEF donationVars, semaVars
<1>3. ASSUME NEW l \in Locks, lock_try_acquire(l)
      PROVE  LocalType'
  BY <1>1, <1>3 DEF lock_try_acquire, At, Goto, Points, donationVars
<1>4. ASSUME NEW l \in Locks, lock_release(l)
      PROVE  LocalType'
  <2>1. /\ cur \in Threads
        /\ obj' = [obj EXCEPT ![cur] = l]
        /\ UNCHANGED <<schedVars, priority, nativePriority, donees, semaVars,
                       holder, panicked, ptr, hasWaiter>>
    BY <1>4 DEF lock_release, At
  <2>2. CASE UNCHANGED <<donors, mark>> /\ Goto("rel_clear")
    BY <1>1, <2>1, <2>2 DEF Goto, Points, semaVars
  <2>3. ASSUME NEW i \in 0..Len(donors[cur]),
               donors' = [donors EXCEPT ![cur] = CompactDonors(cur, l, i)],
               mark' = [mark EXCEPT ![cur] = i],
               Goto("rel_trim")
        PROVE  LocalType'
    <3>1. CompactDonors(cur, l, i) \in Seq(Donations)
      BY <2>1, CompactType
    <3>2. i \in Int
      OBVIOUS
    <3>3. donors' \in [Threads -> Seq(Donations)]
      BY <2>1, <2>3, <3>1
    <3>4. QED
      BY <1>1, <2>1, <2>3, <3>2, <3>3 DEF Goto, Points, semaVars
  <2>4. QED
    BY <1>4, <2>2, <2>3 DEF lock_release
<1>5. CASE acquire_donate
  BY <1>5 DEF acquire_donate, At, Goto, Points, donationVars, semaVars
<1>6. CASE acquire_append
  <2>1. cur \in Threads /\ ptr[cur] \in Threads /\ obj[cur] \in Locks
    BY <1>6 DEF acquire_append, At, IsThread, PointOK, PointAt, LockPoints
  <2>2. [thread |-> cur, lock |-> obj[cur]] \in Donations
    BY <2>1 DEF Donations
  <2>3. [thread |-> ptr[cur], lock |-> obj[cur]] \in Donations
    BY <2>1 DEF Donations
  <2>4. Append(donors[ptr[cur]], [thread |-> cur, lock |-> obj[cur]]) \in Seq(Donations)
    BY <2>1, <2>2
  <2>5. donors' \in [Threads -> Seq(Donations)] /\ donees' \in [Threads -> Donations]
    BY <1>6, <2>3, <2>4 DEF acquire_append
  <2>6. /\ pc' = [pc EXCEPT ![cur] = "acq_update"]
        /\ UNCHANGED <<schedVars, priority, nativePriority, semaVars, holder,
                       panicked, localVars>>
    BY <1>6 DEF acquire_append, Goto
  <2>7. QED
    BY <2>5, <2>6 DEF Points, semaVars, localVars
<1>7. CASE acquire_overflow \/ stale_holder
  BY <1>7 DEF acquire_overflow, stale_holder, donationVars, semaVars, localVars
<1>8. CASE acquire_down
  <2>1. /\ cur \in Threads /\ obj[cur] \in Locks /\ down(obj[cur])
        /\ UNCHANGED <<priority, donationVars, holder, panicked, ptr, mark, hasWaiter>>
    BY <1>8 DEF acquire_down, At, PointOK, PointAt, LockPoints
  <2>2. QED
    BY <1>1, <2>1, DownType DEF donationVars
<1>9. CASE acquire_holder
  BY <1>9 DEF acquire_holder, At, Goto, Points, donationVars, semaVars, localVars
<1>10. CASE acquire_clear
  <2>1. NoDonation \in Donations
    BY DEF NoDonation, Donations
  <2>2. QED
    BY <1>10, <2>1 DEF acquire_clear, At, Return, Goto, Points, semaVars
<1>11. CASE try_holder
  <2>1. /\ cur \in Threads /\ Return
        /\ holder' = [holder EXCEPT ![obj[cur]] = cur]
        /\ UNCHANGED <<schedVars, priority, donationVars, semaVars, panicked>>
    BY <1>11 DEF try_holder, At
  <2>2. holder' \in [Locks -> Threads \cup {NULL}]
    BY <2>1
  <2>3. QED
    BY <2>1, <2>2 DEF Return, Goto, Points, donationVars, semaVars
<1>12. CASE release_trim
  <2>1. /\ cur \in Threads
        /\ mark' = [mark EXCEPT ![cur] = 0]
        /\ UNCHANGED <<schedVars, priority, nativePriority, donees, semaVars,
                       holder, panicked, obj>>
    BY <1>12 DEF release_trim, At
  <2>2. CASE Goto("rel_clear") /\ UNCHANGED <<donors, ptr, hasWaiter>>
    BY <2>1, <2>2 DEF Goto, Points, semaVars
  <2>3. CASE /\ mark[cur] < Len(donors[cur])
             /\ hasWaiter' = [hasWaiter EXCEPT ![cur] = TRUE]
             /\ donors' = [donors EXCEPT ![cur] = SubSeq(@, 1, mark[cur])]
             /\ ptr' = [ptr EXCEPT ![cur] = cur]
             /\ Goto("rel_update")
    <3>1. SubSeq(donors[cur], 1, mark[cur]) \in Seq(Donations)
      <4>1. donors[cur] \in Seq(Donations) /\ mark[cur] \in Int
        BY <2>1
      <4>2. mark[cur] <= Len(donors[cur])
        BY <2>3, <4>1
      <4>3. QED
        BY <4>1, <4>2, PrefixSeq
    <3>2. donors' \in [Threads -> Seq(Donations)]
      BY <2>1, <2>3, <3>1
    <3>3. QED
      BY <2>1, <2>3, <3>2 DEF Goto, Points, semaVars
  <2>4. QED
    BY <1>12, <2>2, <2>3 DEF release_trim
<1>13. CASE release_clear
  BY <1>13 DEF release_clear, At, Goto, Points, donationVars, semaVars, localVars
<1>14. CASE release_up
  <2>1. cur \in Threads /\ obj[cur] \in Locks
    BY <1>14 DEF release_up, At, PointOK, PointAt, LockPoints
  <2>2. PICK top \in Tops(obj[cur]) :
          up(obj[cur], top) /\ mark' = [mark EXCEPT ![cur] = top]
    BY <1>14 DEF release_up
  <2>3. top \in Int
    BY <1>1, <2>1, TopsInt
  <2>4. value' \in [Objects -> Nat] /\ waiters' \in [Objects -> Seq(Threads)]
    BY <1>1, <2>1, <2>2, UpType
  <2>5. /\ pc' = [pc EXCEPT ![cur] = "up_yield"]
        /\ UNCHANGED <<priority, donationVars, holder, panicked, obj, ptr, hasWaiter>>
    BY <1>14 DEF release_up, Goto
  <2>6. QED
    BY <2>1, <2>2, <2>3, <2>4, <2>5 DEF Points, donationVars
<1>15. CASE release_yield
  BY <1>15 DEF release_yield, At, Return, Goto, Points, donationVars, semaVars
<1>16. CASE updateActivePriority
  <2>1. PICK l \in {"acq_update", "rel_update", "set_update"} :
          /\ At(l) /\ IsThread(ptr[cur])
          /\ \E p \in {priority[u] : u \in Threads} \cup {nativePriority[ptr[cur]]} :
               priority' = [priority EXCEPT ![ptr[cur]] = p]
          /\ IF IsThread(donees[ptr[cur]].thread)
             THEN ptr' = [ptr EXCEPT ![cur] = donees[ptr[cur]].thread] /\ UNCHANGED pc
             ELSE ptr' = [ptr EXCEPT ![cur] = NULL] /\ Goto(UpdateReturn(l))
    BY ONLY <1>16 DEF updateActivePriority
  <2>2. cur \in Threads /\ ptr[cur] \in Threads
    BY <2>1 DEF At, IsThread
  <2>3. priority' \in [AllThreads -> Int]
    BY <2>1, <2>2 DEF AllThreads
  <2>4. UpdateReturn(l) \in Points
    BY DEF UpdateReturn, Points
  <2>5. /\ ptr' \in [Threads -> Threads \cup {NULL}]
        /\ pc' \in [Threads -> Points]
    BY <2>1, <2>2, <2>4 DEF IsThread, Goto
  <2>6. UNCHANGED <<schedVars, donationVars, semaVars, holder, panicked,
                    obj, mark, hasWaiter>>
    BY ONLY <1>16 DEF updateActivePriority
  <2>7. QED
    BY ONLY Zenon, LocalType, <2>3, <2>5, <2>6 DEF LocalType, donationVars, semaVars
<1>17. QED
  BY <1>2, <1>3, <1>4, <1>5, <1>6, <1>7, <1>8, <1>9, <1>10, <1>11, <1>12,
     <1>13, <1>14, <1>15, <1>16 DEF LockStep

(* The other thread operations keep the types. *)
LEMMA ThreadType ==
  ASSUME LocalType, cur \in AllThreads, ThreadStep
  PROVE  LocalType'
<1> USE DEF LocalType
<1>1. ASSUME NEW p \in NewPriorities, thread_set_priority(p)
      PROVE  LocalType'
  <2>1. p \in Int
    BY SynchAssumption
  <2>2. /\ At("run") /\ nativePriority' = [nativePriority EXCEPT ![cur] = p]
        /\ ptr' = [ptr EXCEPT ![cur] = cur] /\ Goto("set_update")
        /\ UNCHANGED <<priority, donors, donees, semaVars, holder, panicked, obj,
                       mark, hasWaiter>>
    BY ONLY <1>1 DEF thread_set_priority
  <2>3. QED
    BY <2>1, <2>2 DEF At, Goto, Points, semaVars
<1>2. CASE set_priority_yield
  <2>1. /\ cur \in Threads /\ Return
        /\ UNCHANGED <<priority, donationVars, semaVars, holder, panicked>>
    BY <1>2 DEF set_priority_yield, At
  <2>2. QED
    BY <2>1 DEF Return, Goto, Points, donationVars, semaVars
<1>3. ASSUME UNCHANGED <<priority, donationVars, semaVars, holder, panicked, pc,
                         localVars>>
      PROVE  LocalType'
  BY <1>3 DEF donationVars, semaVars, localVars
<1>4. ASSUME NEW t, timer_wake(t)
      PROVE  LocalType'
  BY <1>3, <1>4 DEF timer_wake
<1>5. CASE timer_sleep \/ exit \/ yield \/ idle
  BY <1>3, <1>5 DEF timer_sleep, exit, yield, idle
<1>6. QED
  BY <1>1, <1>2, <1>4, <1>5 DEF ThreadStep

-----------------------------------------------------------------------------
(* The wait lists, by their elements. *)
WaitersOK ==
  \A s \in Objects :
    /\ IsInjective(waiters[s])
    /\ \A t : t \in Range(waiters[s]) =>
                status[t] = "BLOCKED" /\ pc[t] = "down" /\ obj[t] = s

(* A step moves only the running thread: the others stay where they are. *)
OthersStay == \A t \in Threads : t # cur => pc'[t] = pc[t] /\ obj'[t] = obj[t]

(* QueueDiscipline is the run queue's part and the wait lists' part. *)
LEMMA QueueSplit ==
  ASSUME LocalType
  PROVE  QueueDiscipline <=> RunQueue /\ WaitersOK
<1>1. \A s \in Objects : waiters[s] \in Seq(Threads)
                         /\ DOMAIN waiters[s] = 1..Len(waiters[s])
  BY DEF LocalType
<1>2. QED
  BY <1>1 DEF QueueDiscipline, WaitersOK, Range

(* The same for the next state. *)
LEMMA QueueSplitNext ==
  ASSUME LocalType'
  PROVE  QueueDiscipline' <=> RunQueue' /\ WaitersOK'
<1>1. \A s \in Objects : waiters'[s] \in Seq(Threads)
                         /\ DOMAIN waiters'[s] = 1..Len(waiters'[s])
  BY DEF LocalType
<1>2. QED
  BY <1>1 DEF QueueDiscipline, WaitersOK, Range

(* Nobody on a wait list is running. *)
LEMMA CurNotWaiting ==
  ASSUME SchedOK, WaitersOK, NEW s \in Objects
  PROVE  cur \notin Range(waiters[s])
BY DEF SchedOK, SchedType, RunQueue, WaitersOK

(* A step that leaves the wait lists alone and wakes nobody who is on one
   keeps them in order. *)
LEMMA WaitersFrame ==
  ASSUME SchedOK, WaitersOK, LocalType, OthersStay, UNCHANGED waiters,
         \A t \in Threads :
           t # cur /\ status[t] = "BLOCKED" /\ pc[t] = "down" => status'[t] = "BLOCKED"
  PROVE  WaitersOK'
<1>1. ASSUME NEW s \in Objects, NEW t, t \in Range(waiters[s])
      PROVE  status'[t] = "BLOCKED" /\ pc'[t] = "down" /\ obj'[t] = s
  <2>1. status[t] = "BLOCKED" /\ pc[t] = "down" /\ obj[t] = s
    BY <1>1 DEF WaitersOK
  <2>2. t # cur
    BY <1>1, CurNotWaiting
  <2>3. t \in Threads
    <3>1. waiters[s] \in Seq(Threads)
      BY DEF LocalType
    <3>2. QED
      BY <1>1, <3>1 DEF Range
  <2>4. QED
    BY <2>1, <2>2, <2>3 DEF OthersStay
<1>2. QED
  BY <1>1 DEF WaitersOK

(* sema_down: whoever blocks joins one list, as the only newcomer. *)
LEMMA DownKeeps ==
  ASSUME SchedOK, WaitersOK, LocalType, OthersStay, cur \in Threads,
         NEW s \in Objects, down(s)
  PROVE  SchedOK' /\ WaitersOK'
<1>1. CASE UNCHANGED <<schedVars, waiters>>
  <2>1. SchedOK'
    BY <1>1 DEF SchedOK, SchedType, RunQueue, schedVars
  <2>2. WaitersOK'
    BY <1>1, WaitersFrame DEF schedVars
  <2>3. QED
    BY <2>1, <2>2
<1>2. CASE /\ waiters' = [waiters EXCEPT ![s] = Append(@, cur)]
           /\ Goto("down")
           /\ obj' = [obj EXCEPT ![cur] = s]
           /\ thread_block
  <2>1. /\ SchedOK' /\ status'[cur] = "BLOCKED"
        /\ \A t \in Threads :
             t # cur /\ status[t] \notin {"READY", "RUNNING"} => status'[t] = status[t]
    BY <1>2, BlockKeeps
  <2>2. pc'[cur] = "down" /\ obj'[cur] = s
    BY <1>2 DEF Goto, LocalType
  <2>3. waiters \in [Objects -> Seq(Threads)]
    BY DEF LocalType
  <2>4. waiters[s] \in Seq(Threads) /\ IsInjective(waiters[s])
        /\ cur \notin Range(waiters[s])
    BY <2>3, CurNotWaiting DEF WaitersOK
  <2>5. /\ IsInjective(Append(waiters[s], cur))
        /\ \A e : e \in Range(Append(waiters[s], cur)) <=>
                    (e \in Range(waiters[s]) \/ e = cur)
    BY <2>4, AppendDistinct
  <2>6. /\ waiters'[s] = Append(waiters[s], cur)
        /\ \A r \in Objects : r # s => waiters'[r] = waiters[r]
    BY <1>2, <2>3
  <2>7. ASSUME NEW r \in Objects, NEW t, t \in Range(waiters[r])
        PROVE  status'[t] = "BLOCKED" /\ pc'[t] = "down" /\ obj'[t] = r
    <3>1. status[t] = "BLOCKED" /\ pc[t] = "down" /\ obj[t] = r
      BY <2>7 DEF WaitersOK
    <3>2. t # cur
      BY <2>7, CurNotWaiting
    <3>3. t \in Threads
      BY <2>3, <2>7 DEF Range
    <3>4. QED
      BY <2>1, <3>1, <3>2, <3>3 DEF OthersStay
  <2>8. ASSUME NEW r \in Objects
        PROVE  /\ IsInjective(waiters'[r])
               /\ \A t : t \in Range(waiters'[r]) =>
                           status'[t] = "BLOCKED" /\ pc'[t] = "down" /\ obj'[t] = r
    <3>1. CASE r = s
      <4>1. ASSUME NEW t, t \in Range(waiters'[s])
            PROVE  status'[t] = "BLOCKED" /\ pc'[t] = "down" /\ obj'[t] = s
        <5>1. t \in Range(waiters[s]) \/ t = cur
          BY <2>5, <2>6, <4>1
        <5>2. QED
          BY <2>1, <2>2, <2>7, <5>1
      <4>2. IsInjective(waiters'[s])
        BY <2>5, <2>6
      <4>3. QED
        BY <3>1, <4>1, <4>2
    <3>2. CASE r # s
      BY <2>6, <2>7, <3>2 DEF WaitersOK
    <3>3. QED
      BY <3>1, <3>2
  <2>9. QED
    BY <2>1, <2>8 DEF WaitersOK
<1>3. QED
  BY <1>1, <1>2 DEF down

(* sema_up: the thread taken off the list becomes ready, the others wait on. *)
LEMMA UpKeeps ==
  ASSUME SchedOK, WaitersOK, LocalType, OthersStay,
         NEW s \in Objects, NEW top, up(s, top)
  PROVE  SchedOK' /\ WaitersOK'
<1>1. CASE UNCHANGED <<schedVars, waiters>>
  <2>1. SchedOK'
    BY <1>1 DEF SchedOK, SchedType, RunQueue, schedVars
  <2>2. WaitersOK'
    BY <1>1, WaitersFrame DEF schedVars
  <2>3. QED
    BY <2>1, <2>2
<1>2. ASSUME NEW k \in DOMAIN waiters[s],
             thread_unblock(waiters[s][k]),
             waiters' = [waiters EXCEPT ![s] = list_remove(@, k)]
      PROVE  SchedOK' /\ WaitersOK'
  <2> DEFINE w == waiters[s][k]
  <2>1. waiters \in [Objects -> Seq(Threads)]
    BY DEF LocalType
  <2>2. waiters[s] \in Seq(Threads) /\ k \in 1..Len(waiters[s])
        /\ IsInjective(waiters[s])
    BY <2>1 DEF WaitersOK
  <2>3. w \in Threads /\ w \in Range(waiters[s])
    BY <2>2 DEF Range
  <2>4. status[w] = "BLOCKED" /\ obj[w] = s
    BY <2>3 DEF WaitersOK
  <2>5. /\ SchedOK'
        /\ \A u \in Threads : u # w => status'[u] = status[u]
    BY <1>2, <2>3, <2>4, UnblockKeeps
  <2>6. /\ IsInjective(list_remove(waiters[s], k))
        /\ \A e : e \in Range(list_remove(waiters[s], k)) <=>
                    (e \in Range(waiters[s]) /\ e # w)
    BY <2>2, RemoveAtDistinct
  <2>7. /\ waiters'[s] = list_remove(waiters[s], k)
        /\ \A r \in Objects : r # s => waiters'[r] = waiters[r]
    BY <1>2, <2>1
  <2> HIDE DEF w
  <2>8. ASSUME NEW r \in Objects, NEW t, t \in Range(waiters[r]), t # w
        PROVE  status'[t] = "BLOCKED" /\ pc'[t] = "down" /\ obj'[t] = r
    <3>1. status[t] = "BLOCKED" /\ pc[t] = "down" /\ obj[t] = r
      BY <2>8 DEF WaitersOK
    <3>2. t # cur
      BY <2>8, CurNotWaiting
    <3>3. t \in Threads
      BY <2>1, <2>8 DEF Range
    <3>4. QED
      BY <2>5, <2>8, <3>1, <3>2, <3>3 DEF OthersStay
  <2>9. ASSUME NEW r \in Objects
        PROVE  /\ IsInjective(waiters'[r])
               /\ \A t : t \in Range(waiters'[r]) =>
                           status'[t] = "BLOCKED" /\ pc'[t] = "down" /\ obj'[t] = r
    <3>1. CASE r = s
      BY <2>6, <2>7, <2>8, <3>1
    <3>2. CASE r # s
      <4>1. w \notin Range(waiters[r])
        BY <2>4, <3>2 DEF WaitersOK
      <4>2. QED
        BY <2>7, <2>8, <3>2, <4>1 DEF WaitersOK
    <3>3. QED
      BY <3>1, <3>2
  <2>10. QED
    BY <2>5, <2>9 DEF WaitersOK
<1>3. QED
  BY <1>1, <1>2 DEF up


(* Every step is one of the running thread, or of an interrupt handler. *)
LEMMA StepOthersStay ==
  ASSUME LocalType, Next
  PROVE  OthersStay
<1> USE DEF OthersStay
<1>1. pc \in [Threads -> Points] /\ obj \in [Threads -> Objects \cup {NULL}]
  BY DEF LocalType
<1>2. ASSUME UNCHANGED <<pc, localVars>>
      PROVE  OthersStay
  BY <1>2 DEF localVars
<1>3. ASSUME NEW x, Goto(x), UNCHANGED obj
      PROVE  OthersStay
  BY <1>1, <1>3 DEF Goto
<1>4. ASSUME NEW x, Goto(x), NEW y, obj' = [obj EXCEPT ![cur] = y]
      PROVE  OthersStay
  BY <1>1, <1>4 DEF Goto
<1>5. ASSUME Return
      PROVE  OthersStay
  BY <1>4, <1>5 DEF Return
<1> HIDE DEF OthersStay
<1>6. ASSUME NEW s, down(s)
      PROVE  OthersStay
  BY <1>4, <1>6 DEF down
<1>7. CASE SemaStep
  <2>1. ASSUME NEW s, sema_down(s)
        PROVE  OthersStay
    BY <1>6, <2>1 DEF sema_down
  <2>2. ASSUME NEW s, sema_try_down(s)
        PROVE  OthersStay
    BY <1>2, <2>2 DEF sema_try_down
  <2>3. ASSUME NEW s, sema_up(s)
        PROVE  OthersStay
    BY <1>4, <2>3 DEF sema_up
  <2>4. CASE sema_down_resume
    <3>1. CASE UNCHANGED <<pc, obj>>
      BY <3>1 DEF OthersStay
    <3>2. CASE ~UNCHANGED <<pc, obj>>
      BY <1>4, <2>4, <3>2 DEF sema_down_resume
    <3>3. QED
      BY <3>1, <3>2
  <2>5. CASE sema_up_yield
    BY <1>3, <1>5, <2>5 DEF sema_up_yield, localVars
  <2>6. ASSUME NEW s, sema_up_intr(s)
        PROVE  OthersStay
    BY <1>2, <2>6 DEF sema_up_intr
  <2>7. QED
    BY <1>7, <2>1, <2>2, <2>3, <2>4, <2>5, <2>6 DEF SemaStep
<1>8. CASE LockStep
  <2>1. ASSUME NEW l, lock_acquire(l)
        PROVE  OthersStay
    BY <1>4, <2>1 DEF lock_acquire
  <2>2. ASSUME NEW l, lock_try_acquire(l)
        PROVE  OthersStay
    BY <1>4, <2>2 DEF lock_try_acquire
  <2>3. ASSUME NEW l, lock_release(l)
        PROVE  OthersStay
    BY <1>4, <2>3 DEF lock_release
  <2>4. CASE acquire_donate
    BY <1>3, <2>4 DEF acquire_donate
  <2>5. CASE acquire_append \/ acquire_holder \/ release_clear
    BY <1>3, <2>5 DEF acquire_append, acquire_holder, release_clear, localVars
  <2>6. CASE acquire_overflow \/ stale_holder
    BY <1>2, <2>6 DEF acquire_overflow, stale_holder
  <2>7. CASE acquire_down
    BY <1>6, <2>7 DEF acquire_down
  <2>8. CASE acquire_clear \/ try_holder \/ release_yield
    BY <1>5, <2>8 DEF acquire_clear, try_holder, release_yield
  <2>9. CASE release_trim
    BY <1>3, <2>9 DEF release_trim
  <2>10. CASE release_up
    BY <1>3, <2>10 DEF release_up
  <2>11. CASE updateActivePriority
    <3>1. UNCHANGED obj
      BY <2>11 DEF updateActivePriority
    <3>2. CASE UNCHANGED pc
      BY <3>1, <3>2 DEF OthersStay
    <3>3. CASE ~UNCHANGED pc
      <4>1. \E l \in {"acq_update", "rel_update", "set_update"} : Goto(UpdateReturn(l))
        BY <2>11, <3>3 DEF updateActivePriority
      <4>2. QED
        BY <1>3, <3>1, <4>1
    <3>4. QED
      BY <3>2, <3>3
  <2>12. QED
    BY <1>8, <2>1, <2>2, <2>3, <2>4, <2>5, <2>6, <2>7, <2>8, <2>9, <2>10, <2>11
    DEF LockStep
<1>9. CASE ThreadStep
  <2>1. ASSUME NEW p, thread_set_priority(p)
        PROVE  OthersStay
    BY <1>3, <2>1 DEF thread_set_priority
  <2>2. CASE set_priority_yield
    BY <1>5, <2>2 DEF set_priority_yield
  <2>3. ASSUME NEW t, timer_wake(t)
        PROVE  OthersStay
    BY <1>2, <2>3 DEF timer_wake
  <2>4. CASE timer_sleep \/ exit \/ yield \/ idle
    BY <1>2, <2>4 DEF timer_sleep, exit, yield, idle
  <2>5. QED
    BY <1>9, <2>1, <2>2, <2>3, <2>4 DEF ThreadStep
<1>10. QED
  BY <1>7, <1>8, <1>9 DEF Next

(* Every step keeps the run queue and the wait lists in order. *)
LEMMA QueueStep ==
  ASSUME SchedOK, WaitersOK, LocalType, PointOK, OthersStay, Next
  PROVE  SchedOK' /\ WaitersOK'
<1>1. Semas \subseteq Objects /\ IntrSemas \subseteq Objects /\ Locks \subseteq Objects
  BY SynchAssumption DEF Objects
<1>2. ASSUME UNCHANGED schedVars, UNCHANGED waiters
      PROVE  SchedOK' /\ WaitersOK'
  <2>1. SchedOK'
    BY <1>2 DEF SchedOK, SchedType, RunQueue, schedVars
  <2>2. WaitersOK'
    BY <1>2, WaitersFrame DEF schedVars
  <2>3. QED
    BY <2>1, <2>2
<1>3. ASSUME thread_block \/ thread_exit \/ thread_yield, UNCHANGED waiters
      PROVE  SchedOK' /\ WaitersOK'
  <2>1. /\ SchedOK'
        /\ \A t \in Threads :
             t # cur /\ status[t] \notin {"READY", "RUNNING"} => status'[t] = status[t]
    BY <1>3, BlockKeeps, ExitKeeps, YieldKeeps
  <2>2. WaitersOK'
    BY <1>3, <2>1, WaitersFrame
  <2>3. QED
    BY <2>1, <2>2
<1>4. ASSUME NEW s \in Objects, cur \in Threads, down(s)
      PROVE  SchedOK' /\ WaitersOK'
  BY <1>4, DownKeeps
<1>5. ASSUME NEW s \in Objects, NEW top, up(s, top)
      PROVE  SchedOK' /\ WaitersOK'
  BY <1>5, UpKeeps
<1>6. CASE SemaStep
  <2>1. ASSUME NEW s \in Semas, sema_down(s)
        PROVE  SchedOK' /\ WaitersOK'
    BY <1>1, <1>4, <2>1 DEF sema_down, At
  <2>2. ASSUME NEW s \in Semas, sema_try_down(s)
        PROVE  SchedOK' /\ WaitersOK'
    BY <1>2, <2>2 DEF sema_try_down
  <2>3. ASSUME NEW s \in Semas, sema_up(s)
        PROVE  SchedOK' /\ WaitersOK'
    BY <1>1, <1>5, <2>3 DEF sema_up
  <2>4. CASE sema_down_resume
    BY <1>2, <1>3, <2>4 DEF sema_down_resume
  <2>5. CASE sema_up_yield
    BY <1>2, <1>3, <2>5 DEF sema_up_yield, semaVars
  <2>6. ASSUME NEW s \in IntrSemas, sema_up_intr(s)
        PROVE  SchedOK' /\ WaitersOK'
    BY <1>1, <1>5, <2>6 DEF sema_up_intr
  <2>7. QED
    BY <1>6, <2>1, <2>2, <2>3, <2>4, <2>5, <2>6 DEF SemaStep
<1>7. CASE LockStep
  <2>1. ASSUME NEW l \in Locks, lock_acquire(l)
        PROVE  SchedOK' /\ WaitersOK'
    BY <1>2, <2>1 DEF lock_acquire, semaVars
  <2>2. ASSUME NEW l \in Locks, lock_try_acquire(l)
        PROVE  SchedOK' /\ WaitersOK'
    BY <1>2, <2>2 DEF lock_try_acquire
  <2>3. ASSUME NEW l \in Locks, lock_release(l)
        PROVE  SchedOK' /\ WaitersOK'
    BY <1>2, <2>3 DEF lock_release, semaVars
  <2>4. CASE acquire_donate \/ acquire_append \/ acquire_overflow \/ stale_holder
    BY <1>2, <2>4
    DEF acquire_donate, acquire_append, acquire_overflow, stale_holder, semaVars
  <2>5. CASE acquire_down
    <3>1. cur \in Threads /\ obj[cur] \in Locks /\ down(obj[cur])
      BY <2>5 DEF acquire_down, At, PointOK, PointAt, LockPoints
    <3>2. QED
      BY <1>1, <1>4, <3>1
  <2>6. CASE acquire_holder \/ acquire_clear \/ try_holder
    BY <1>2, <2>6 DEF acquire_holder, acquire_clear, try_holder, semaVars
  <2>7. CASE release_trim \/ release_clear \/ updateActivePriority
    BY <1>2, <2>7 DEF release_trim, release_clear, updateActivePriority, semaVars
  <2>8. CASE release_up
    <3>1. cur \in Threads /\ obj[cur] \in Locks
      BY <2>8 DEF release_up, At, PointOK, PointAt, LockPoints
    <3>2. QED
      BY <1>1, <1>5, <2>8, <3>1 DEF release_up
  <2>9. CASE release_yield
    BY <1>3, <2>9 DEF release_yield, semaVars
  <2>10. QED
    BY <1>7, <2>1, <2>2, <2>3, <2>4, <2>5, <2>6, <2>7, <2>8, <2>9 DEF LockStep
<1>8. CASE ThreadStep
  <2>1. ASSUME NEW p, thread_set_priority(p)
        PROVE  SchedOK' /\ WaitersOK'
    BY <1>2, <2>1 DEF thread_set_priority, semaVars
  <2>2. CASE set_priority_yield
    BY <1>2, <1>3, <2>2 DEF set_priority_yield, semaVars
  <2>3. ASSUME NEW t \in Sleepers \cup InitAsleep, timer_wake(t)
        PROVE  SchedOK' /\ WaitersOK'
    <3>1. t \in Threads
      BY SynchAssumption
    <3>2. /\ status[t] = "BLOCKED" /\ pc[t] = "run"
          /\ thread_unblock(t) /\ UNCHANGED waiters
      BY <2>3 DEF timer_wake, semaVars
    <3>3. SchedOK' /\ \A u \in Threads : u # t => status'[u] = status[u]
      BY <3>1, <3>2, UnblockKeeps
    <3>4. WaitersOK'
      BY <3>2, <3>3, WaitersFrame
    <3>5. QED
      BY <3>3, <3>4
  <2>4. CASE timer_sleep \/ exit \/ yield \/ idle
    BY <1>3, <2>4 DEF timer_sleep, exit, yield, idle, semaVars
  <2>5. QED
    BY <1>8, <2>1, <2>2, <2>3, <2>4 DEF ThreadStep
<1>9. QED
  BY <1>6, <1>7, <1>8 DEF Next
=============================================================================
