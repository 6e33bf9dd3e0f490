---------------------------- MODULE SynchProofs ----------------------------
(***************************************************************************)
(* Proofs about module Synch, for any number of threads, semaphores and    *)
(* locks.  What each action does to the locks: every step leaves them      *)
(* alone, or one thread takes a free lock, or its owner gives it back.      *)
(* From this the theorems: the types, the queue discipline, mutual          *)
(* exclusion, and that the locks implement LockSpec.                        *)
(***************************************************************************)
EXTENDS SynchQueues

(* What a step can do to a lock: nothing, or a thread takes its semaphore
   while nobody has it, or the thread that has it gives it back. *)
Same(l) == value'[l] = value[l] /\ \A t \in Threads : Owns(t, l)' <=> Owns(t, l)

Take(c, l) ==
  /\ value[l] = 1 /\ value'[l] = 0
  /\ \A t \in Threads : Owns(t, l)' <=> t = c

Give(c, l) ==
  /\ Owns(c, l) /\ value'[l] = 1
  /\ \A t \in Threads : ~Owns(t, l)'

LockEffect ==
  \/ \A l \in Locks : Same(l)
  \/ \E c \in Threads, l \in Locks :
       /\ Take(c, l) \/ Give(c, l)
       /\ \A m \in Locks \ {l} : Same(m)

(* Any such step keeps mutual exclusion. *)
LEMMA MutexStep ==
  ASSUME MutualExclusion, LockEffect
  PROVE  MutualExclusion'
<1>1. ASSUME NEW l \in Locks
      PROVE  /\ \A t, u \in Threads : Owns(t, l)' /\ Owns(u, l)' => t = u
             /\ value'[l] = 1 <=> \A t \in Threads : ~Owns(t, l)'
             /\ value'[l] \in {0, 1}
  <2>1. /\ \A t, u \in Threads : Owns(t, l) /\ Owns(u, l) => t = u
        /\ value[l] = 1 <=> \A t \in Threads : ~Owns(t, l)
        /\ value[l] \in {0, 1}
    BY DEF MutualExclusion
  <2>2. Same(l) \/ (\E c \in Threads : Take(c, l) \/ Give(c, l))
    BY DEF LockEffect
  <2>3. CASE Same(l)
    BY <2>1, <2>3 DEF Same
  <2>4. ASSUME NEW c \in Threads, Take(c, l)
        PROVE  /\ \A t, u \in Threads : Owns(t, l)' /\ Owns(u, l)' => t = u
               /\ value'[l] = 1 <=> \A t \in Threads : ~Owns(t, l)'
               /\ value'[l] \in {0, 1}
    BY <2>4 DEF Take
  <2>5. ASSUME NEW c \in Threads, Give(c, l)
        PROVE  /\ \A t, u \in Threads : Owns(t, l)' /\ Owns(u, l)' => t = u
               /\ value'[l] = 1 <=> \A t \in Threads : ~Owns(t, l)'
               /\ value'[l] \in {0, 1}
    BY <2>5 DEF Give
  <2>6. QED
    BY <2>2, <2>3, <2>4, <2>5
<1>2. QED
  BY <1>1 DEF MutualExclusion

(* A step that changes no lock and moves the running thread, if at all,
   between points where the point itself does not make it an owner. *)
LEMMA QuietStep ==
  ASSUME PointOK, OthersStay, UNCHANGED holder,
         \A l \in Locks : value'[l] = value[l],
         \A t \in Threads : t = cur =>
           /\ pc[t] \notin OwnerPoints /\ pc'[t] \notin OwnerPoints
           /\ pc'[t] \in LockPoints => obj'[t] \in Locks
           /\ pc'[t] = "down" => obj'[t] \in Objects
           /\ pc'[t] \in HolderPoints => holder[obj'[t]] = t
  PROVE  PointOK' /\ LockEffect
<1>1. ASSUME NEW t \in Threads
      PROVE  PointAt(t)'
  <2>1. CASE t = cur
    BY <2>1 DEF PointAt
  <2>2. CASE t # cur
    <3>1. pc'[t] = pc[t] /\ obj'[t] = obj[t] /\ PointAt(t)
      BY <2>2 DEF OthersStay, PointOK
    <3>2. QED
      BY <3>1 DEF PointAt
  <2>3. QED
    BY <2>1, <2>2
<1>2. ASSUME NEW l \in Locks, NEW t \in Threads
      PROVE  Owns(t, l)' <=> Owns(t, l)
  <2>1. CASE t = cur
    BY <2>1 DEF Owns, OwnerPoints
  <2>2. CASE t # cur
    BY <2>2 DEF Owns, OthersStay
  <2>3. QED
    BY <2>1, <2>2
<1>3. QED
  BY <1>1, <1>2 DEF PointOK, LockEffect, Same

(* A step that changes neither the locks nor where anybody is. *)
LEMMA IdleStep ==
  ASSUME PointOK, UNCHANGED <<holder, pc, obj>>,
         \A l \in Locks : value'[l] = value[l]
  PROVE  PointOK' /\ LockEffect
BY DEF PointOK, PointAt, LockEffect, Same, Owns

(* A step of the owner of l that changes at most l's holder, to itself or
   to nobody, leaves the others where they were. *)
LEMMA HolderStep ==
  ASSUME LocalType, MutualExclusion, PointOK, OthersStay, NEW c \in Threads, c = cur,
         NEW l \in Locks, Owns(c, l), NEW h \in {c, NULL},
         holder' = [holder EXCEPT ![l] = h],
         UNCHANGED value, Owns(c, l)', PointAt(c)',
         \A m \in Locks \ {l} : Owns(c, m)' <=> Owns(c, m)
  PROVE  PointOK' /\ LockEffect
<1>1. /\ holder'[l] = h
      /\ \A m \in Locks : m # l => holder'[m] = holder[m]
  BY DEF LocalType
<1>2. NULL \notin Threads
  BY ThreadAssumption
<1>3. ASSUME NEW t \in Threads, t # c
      PROVE  /\ ~Owns(t, l) /\ ~Owns(t, l)'
             /\ \A m \in Locks \ {l} : Owns(t, m)' <=> Owns(t, m)
             /\ PointAt(t)'
  <2>1. pc'[t] = pc[t] /\ obj'[t] = obj[t] /\ PointAt(t)
    BY <1>3 DEF OthersStay, PointOK
  <2>2. ~Owns(t, l)
    BY <1>3 DEF MutualExclusion
  <2>3. ~Owns(t, l)'
    BY <1>1, <1>2, <1>3, <2>1, <2>2 DEF Owns
  <2>4. \A m \in Locks \ {l} : Owns(t, m)' <=> Owns(t, m)
    BY <1>1, <2>1 DEF Owns
  <2>5. pc[t] \in HolderPoints \cup OwnerPoints => obj[t] # l
    BY <2>1, <2>2 DEF Owns, PointAt, HolderPoints, OwnerPoints
  <2>6. HolderPoints \cup OwnerPoints \subseteq LockPoints
    BY DEF HolderPoints, OwnerPoints, LockPoints
  <2>7. PointAt(t)'
    BY <1>1, <2>1, <2>5, <2>6 DEF PointAt
  <2>8. QED
    BY <2>2, <2>3, <2>4, <2>7
<1>4. PointOK'
  BY <1>3 DEF PointOK
<1>5. \A m \in Locks : Same(m)
  BY <1>3 DEF Same
<1>6. QED
  BY <1>4, <1>5 DEF LockEffect

(* The successful end of sema_down: a lock's semaphore is taken by a thread
   that then owns the lock. *)
LEMMA TakeStep ==
  ASSUME LocalType, MutualExclusion, PointOK, OthersStay, NEW c \in Threads, c = cur,
         NEW s \in Objects, value[s] > 0,
         value' = [value EXCEPT ![s] = @ - 1],
         pc[c] \notin OwnerPoints,
         s \in Locks => pc'[c] \in {"acq_holder", "try_holder"} /\ obj'[c] = s,
         s \notin Locks => pc'[c] \notin LockPoints \cup {"down"},
         UNCHANGED holder
  PROVE  PointOK' /\ LockEffect
<1>1. /\ value'[s] = value[s] - 1
      /\ \A r \in Objects : r # s => value'[r] = value[r]
  BY DEF LocalType
<1>2. Locks \subseteq Objects /\ NULL \notin Threads
  BY ThreadAssumption DEF Objects
<1>3. HolderPoints \cup OwnerPoints \subseteq LockPoints
  BY DEF HolderPoints, OwnerPoints, LockPoints
<1>4. CASE s \notin Locks
  <2>1. \A l \in Locks : value'[l] = value[l]
    BY <1>1, <1>2, <1>4
  <2>2. QED
    BY <1>3, <1>4, <2>1, QuietStep
<1>5. CASE s \in Locks
  <2>1. value[s] = 1 /\ \A t \in Threads : ~Owns(t, s)
    <3>1. value[s] \in {0, 1} /\ (value[s] = 1 <=> \A t \in Threads : ~Owns(t, s))
      BY <1>5 DEF MutualExclusion
    <3>2. QED
      BY <3>1
  <2>2. holder[s] = NULL
    BY <1>5, <2>1 DEF LocalType, Owns
  <2>3. PointAt(c)'
    BY <1>5, <2>2 DEF PointAt, LockPoints, HolderPoints, OwnerPoints
  <2>4. ASSUME NEW t \in Threads, t # c
        PROVE  /\ PointAt(t)'
               /\ \A l \in Locks : Owns(t, l)' <=> Owns(t, l)
    <3>1. pc'[t] = pc[t] /\ obj'[t] = obj[t] /\ PointAt(t)
      BY <2>4 DEF OthersStay, PointOK
    <3>2. QED
      BY <3>1 DEF PointAt, Owns
  <2>5. PointOK'
    BY <2>3, <2>4 DEF PointOK
  <2>6. Owns(c, s)'
    BY <1>5 DEF Owns
  <2>7. \A l \in Locks \ {s} : Owns(c, l)' <=> Owns(c, l)
    BY <1>5 DEF Owns, OwnerPoints
  <2>8. Take(c, s)
    BY <1>1, <1>5, <2>1, <2>4, <2>6 DEF Take
  <2>9. \A m \in Locks \ {s} : Same(m)
    BY <1>1, <1>2, <2>4, <2>7 DEF Same
  <2>10. QED
    BY <1>5, <2>5, <2>8, <2>9 DEF LockEffect
<1>6. QED
  BY <1>4, <1>5


(* sema_down on a semaphore or, from lock_acquire, on a lock. *)
LEMMA DownEffect ==
  ASSUME LocalType, MutualExclusion, PointOK, OthersStay, cur \in Threads,
         NEW s \in Objects, down(s), pc[cur] \notin OwnerPoints, UNCHANGED holder
  PROVE  PointOK' /\ LockEffect
<1>1. pc \in [Threads -> Points] /\ obj \in [Threads -> Objects \cup {NULL}]
  BY DEF LocalType
<1>2. CASE /\ value[s] > 0
           /\ value' = [value EXCEPT ![s] = @ - 1]
           /\ Goto(AfterDown(s))
           /\ obj' = [obj EXCEPT ![cur] = IF s \in Locks THEN s ELSE NULL]
  <2>1. /\ s \in Locks => pc'[cur] \in {"acq_holder", "try_holder"} /\ obj'[cur] = s
        /\ s \notin Locks => pc'[cur] \notin LockPoints \cup {"down"}
    BY <1>1, <1>2 DEF Goto, AfterDown, LockPoints
  <2>2. QED
    BY <1>2, <2>1, TakeStep
<1>3. CASE Goto("down") /\ obj' = [obj EXCEPT ![cur] = s] /\ UNCHANGED value
  <2>1. pc'[cur] = "down" /\ obj'[cur] = s
    BY <1>1, <1>3 DEF Goto
  <2>2. QED
    BY <1>3, <2>1, QuietStep DEF OwnerPoints, LockPoints, HolderPoints
<1>4. QED
  BY <1>2, <1>3 DEF down

(* sema_up changes the value of its own semaphore only. *)
LEMMA UpValue ==
  ASSUME LocalType, NEW s \in Objects, NEW top, up(s, top)
  PROVE  /\ value'[s] = value[s] + 1
         /\ \A r \in Objects : r # s => value'[r] = value[r]
<1>1. value' = [value EXCEPT ![s] = @ + 1]
  BY DEF up
<1>2. QED
  BY <1>1 DEF LocalType

(* The semaphore operations on the locks. *)
LEMMA SemaEffect ==
  ASSUME LocalType, MutualExclusion, PointOK, OthersStay, SemaStep
  PROVE  PointOK' /\ LockEffect
<1>1. /\ Semas \subseteq Objects /\ IntrSemas \subseteq Semas /\ Locks \subseteq Objects
      /\ \A s \in Semas : s \notin Locks
  BY SynchAssumption DEF Objects
<1>2. pc \in [Threads -> Points] /\ obj \in [Threads -> Objects \cup {NULL}]
  BY DEF LocalType
<1>3. ASSUME NEW s \in Semas, sema_down(s)
      PROVE  PointOK' /\ LockEffect
  <2>1. cur \in Threads /\ pc[cur] = "run" /\ down(s) /\ UNCHANGED holder
    BY <1>3 DEF sema_down, At
  <2>2. QED
    BY <1>1, <2>1, DownEffect DEF OwnerPoints
<1>4. ASSUME NEW s \in Semas, sema_try_down(s)
      PROVE  PointOK' /\ LockEffect
  <2>1. UNCHANGED <<holder, pc, obj>>
    BY <1>4 DEF sema_try_down, localVars
  <2>2. \A l \in Locks : value'[l] = value[l]
    BY <1>1, <1>4 DEF sema_try_down, LocalType
  <2>3. QED
    BY <2>1, <2>2, IdleStep
<1>5. ASSUME NEW s \in Semas, sema_up(s)
      PROVE  PointOK' /\ LockEffect
  <2>1. \E top \in Tops(s) : up(s, top)
    BY <1>5 DEF sema_up
  <2>2. \A l \in Locks : value'[l] = value[l]
    BY <1>1, <2>1, UpValue
  <2>3. /\ cur \in Threads /\ pc[cur] = "run" /\ UNCHANGED holder
        /\ pc'[cur] = "up_yield"
    BY <1>2, <1>5 DEF sema_up, At, Goto
  <2>4. QED
    BY <2>2, <2>3, QuietStep DEF OwnerPoints, LockPoints, HolderPoints
<1>6. CASE sema_down_resume
  <2>1. /\ cur \in Threads /\ pc[cur] = "down" /\ obj[cur] \in Objects
        /\ UNCHANGED holder
    BY <1>6 DEF sema_down_resume, At, PointOK, PointAt
  <2>2. CASE UNCHANGED <<value, pc, obj>>
    BY <2>1, <2>2, IdleStep
  <2>3. CASE /\ value[obj[cur]] > 0
             /\ value' = [value EXCEPT ![obj[cur]] = @ - 1]
             /\ Goto(AfterDown(obj[cur]))
             /\ obj' = [obj EXCEPT ![cur] =
                          IF obj[cur] \in Locks THEN obj[cur] ELSE NULL]
    <3>1. /\ obj[cur] \in Locks =>
               pc'[cur] \in {"acq_holder", "try_holder"} /\ obj'[cur] = obj[cur]
          /\ obj[cur] \notin Locks => pc'[cur] \notin LockPoints \cup {"down"}
      BY <1>2, <2>1, <2>3 DEF Goto, AfterDown, LockPoints
    <3>2. QED
      BY <2>1, <2>3, <3>1, TakeStep DEF OwnerPoints
  <2>4. QED
    BY <1>6, <2>2, <2>3 DEF sema_down_resume
<1>7. CASE sema_up_yield
  <2>1. cur \in Threads /\ pc[cur] = "up_yield" /\ UNCHANGED <<value, holder>>
    BY <1>7 DEF sema_up_yield, At, semaVars
  <2>2. pc'[cur] \in {"run", "rel_yield"}
    BY <1>2, <1>7, <2>1 DEF sema_up_yield, Return, Goto
  <2>3. QED
    BY <2>1, <2>2, QuietStep DEF OwnerPoints, LockPoints, HolderPoints
<1>8. ASSUME NEW s \in IntrSemas, sema_up_intr(s)
      PROVE  PointOK' /\ LockEffect
  <2>1. UNCHANGED <<holder, pc, obj>> /\ \E top \in Tops(s) : up(s, top)
    BY <1>8 DEF sema_up_intr, localVars
  <2>2. \A l \in Locks : value'[l] = value[l]
    BY <1>1, <2>1, UpValue
  <2>3. QED
    BY <2>1, <2>2, IdleStep
<1>9. QED
  BY <1>3, <1>4, <1>5, <1>6, <1>7, <1>8 DEF SemaStep

(* The lock operations on the locks. *)
LEMMA LockStepEffect ==
  ASSUME LocalType, MutualExclusion, PointOK, OthersStay, LockStep
  PROVE  PointOK' /\ LockEffect
<1> USE DEF LockPoints, HolderPoints, OwnerPoints
<1>1. Locks \subseteq Objects
  BY DEF Objects
<1>2. /\ pc \in [Threads -> Points] /\ obj \in [Threads -> Objects \cup {NULL}]
      /\ holder \in [Locks -> Threads \cup {NULL}]
  BY DEF LocalType
<1>3. ASSUME NEW l \in Locks, lock_acquire(l)
      PROVE  PointOK' /\ LockEffect
  <2>1. /\ cur \in Threads /\ pc[cur] = "run" /\ UNCHANGED <<value, holder>>
        /\ obj'[cur] = l
    BY <1>2, <1>3 DEF lock_acquire, At, semaVars
  <2>2. pc'[cur] \in {"acq_down", "acq_donate"}
    BY <1>2, <1>3, <2>1 DEF lock_acquire, Goto
  <2>3. QED
    BY <2>1, <2>2, QuietStep
<1>4. ASSUME NEW l \in Locks, lock_try_acquire(l)
      PROVE  PointOK' /\ LockEffect
  <2>1. /\ cur \in Threads /\ pc[cur] = "run" /\ UNCHANGED holder
        /\ value[l] > 0 /\ value' = [value EXCEPT ![l] = @ - 1]
        /\ pc'[cur] = "try_holder" /\ obj'[cur] = l
    BY <1>2, <1>4 DEF lock_try_acquire, At, Goto
  <2>2. QED
    BY <1>1, <2>1, TakeStep
<1>5. ASSUME NEW l \in Locks, lock_release(l)
      PROVE  PointOK' /\ LockEffect
  <2>1. /\ cur \in Threads /\ pc[cur] = "run" /\ UNCHANGED <<value, holder>>
        /\ obj'[cur] = l /\ holder[l] = cur
    BY <1>2, <1>5 DEF lock_release, At, semaVars
  <2>2. pc'[cur] \in {"rel_trim", "rel_clear"}
    BY <1>2, <1>5, <2>1 DEF lock_release, Goto
  <2>3. QED
    BY <2>1, <2>2, QuietStep
<1>6. CASE acquire_donate
  <2>1. /\ cur \in Threads /\ pc[cur] = "acq_donate" /\ obj[cur] \in Locks
        /\ UNCHANGED <<value, holder, obj>>
    BY <1>6 DEF acquire_donate, At, semaVars, PointOK, PointAt
  <2>2. pc'[cur] \in {"acq_append", "acq_down"}
    BY <1>2, <1>6, <2>1 DEF acquire_donate, Goto
  <2>3. QED
    BY <2>1, <2>2, QuietStep
<1>7. CASE acquire_append
  <2>1. /\ cur \in Threads /\ pc[cur] = "acq_append" /\ obj[cur] \in Locks
        /\ UNCHANGED <<value, holder, obj>>
    BY <1>7 DEF acquire_append, At, semaVars, localVars, PointOK, PointAt
  <2>2. pc'[cur] = "acq_update"
    BY <1>2, <1>7, <2>1 DEF acquire_append, Goto
  <2>3. QED
    BY <2>1, <2>2, QuietStep
<1>8. CASE acquire_overflow \/ stale_holder
  <2>1. UNCHANGED <<holder, pc, obj>> /\ UNCHANGED value
    BY <1>8 DEF acquire_overflow, stale_holder, localVars, semaVars
  <2>2. QED
    BY <2>1, IdleStep
<1>9. CASE acquire_down
  <2>1. /\ cur \in Threads /\ pc[cur] = "acq_down" /\ obj[cur] \in Locks
        /\ down(obj[cur]) /\ UNCHANGED holder
    BY <1>9 DEF acquire_down, At, PointOK, PointAt
  <2>2. QED
    BY <1>1, <2>1, DownEffect
<1>10. CASE acquire_holder
  <2>1. /\ cur \in Threads /\ pc[cur] = "acq_holder" /\ obj[cur] \in Locks
        /\ UNCHANGED <<value, obj>> /\ holder' = [holder EXCEPT ![obj[cur]] = cur]
        /\ pc'[cur] = "acq_clear"
    BY <1>2, <1>10
    DEF acquire_holder, At, Goto, semaVars, localVars, PointOK, PointAt
  <2> DEFINE c == cur
             l == obj[cur]
  <2>2. /\ holder'[l] = c
        /\ \A m \in Locks \ {l} : holder'[m] = holder[m]
    BY <1>2, <2>1
  <2>3. Owns(c, l)
    BY <2>1 DEF Owns
  <2>4. ASSUME NEW t \in Threads, t = cur
        PROVE  /\ Owns(t, l) /\ PointAt(t)'
               /\ holder'[l] = t
               /\ \A m \in Locks \ {l} : Owns(t, m)' <=> Owns(t, m)
    BY <2>1, <2>2, <2>3, <2>4 DEF Owns, PointAt
  <2>5. PICK t \in Threads : t = cur
    BY <2>1
  <2>6. PICK k \in Locks : k = obj[cur]
    BY <2>1
  <2>7. Owns(t, k)'
    BY <2>4, <2>5, <2>6 DEF Owns
  <2>8. QED
    BY <2>1, <2>4, <2>5, <2>6, <2>7, HolderStep
<1>11. CASE acquire_clear
  <2>1. /\ cur \in Threads /\ pc[cur] = "acq_clear" /\ UNCHANGED <<value, holder>>
        /\ pc'[cur] = "run"
    BY <1>2, <1>11 DEF acquire_clear, At, Return, Goto, semaVars
  <2>2. QED
    BY <2>1, QuietStep
<1>12. CASE try_holder
  <2>1. /\ cur \in Threads /\ pc[cur] = "try_holder" /\ obj[cur] \in Locks
        /\ UNCHANGED value /\ holder' = [holder EXCEPT ![obj[cur]] = cur]
        /\ pc'[cur] = "run"
    BY <1>2, <1>12 DEF try_holder, At, Return, Goto, semaVars, PointOK, PointAt
  <2>2. /\ holder'[obj[cur]] = cur
        /\ \A m \in Locks \ {obj[cur]} : holder'[m] = holder[m]
    BY <1>2, <2>1
  <2>3. ASSUME NEW t \in Threads, t = cur
        PROVE  /\ Owns(t, obj[cur]) /\ PointAt(t)'
               /\ holder'[obj[cur]] = t
               /\ \A m \in Locks \ {obj[cur]} : Owns(t, m)' <=> Owns(t, m)
    BY <2>1, <2>2, <2>3 DEF Owns, PointAt
  <2>4. PICK t \in Threads : t = cur
    BY <2>1
  <2>5. PICK k \in Locks : k = obj[cur]
    BY <2>1
  <2>6. Owns(t, k)'
    BY <2>3, <2>4, <2>5 DEF Owns
  <2>7. QED
    BY <2>1, <2>3, <2>4, <2>5, <2>6, HolderStep
<1>13. CASE release_trim
  <2>1. /\ cur \in Threads /\ pc[cur] = "rel_trim" /\ obj[cur] \in Locks
        /\ holder[obj[cur]] = cur
        /\ UNCHANGED <<value, holder, obj>>
    BY <1>13 DEF release_trim, At, semaVars, PointOK, PointAt
  <2>2. pc'[cur] \in {"rel_update", "rel_clear"}
    BY <1>2, <1>13, <2>1 DEF release_trim, Goto
  <2>3. QED
    BY <2>1, <2>2, QuietStep
<1>14. CASE release_clear
  <2>1. /\ cur \in Threads /\ pc[cur] = "rel_clear" /\ obj[cur] \in Locks
        /\ holder[obj[cur]] = cur
        /\ UNCHANGED <<value, obj>> /\ holder' = [holder EXCEPT ![obj[cur]] = NULL]
        /\ pc'[cur] = "rel_up"
    BY <1>2, <1>14
    DEF release_clear, At, Goto, semaVars, localVars, PointOK, PointAt
  <2>2. /\ holder'[obj[cur]] = NULL
        /\ \A m \in Locks \ {obj[cur]} : holder'[m] = holder[m]
    BY <1>2, <2>1
  <2>3. ASSUME NEW t \in Threads, t = cur
        PROVE  /\ Owns(t, obj[cur]) /\ PointAt(t)'
               /\ obj'[t] = obj[cur] /\ pc'[t] = "rel_up"
               /\ \A m \in Locks \ {obj[cur]} : Owns(t, m)' <=> Owns(t, m)
    BY <2>1, <2>2, <2>3 DEF Owns, PointAt
  <2>4. PICK t \in Threads : t = cur
    BY <2>1
  <2>5. PICK k \in Locks : k = obj[cur]
    BY <2>1
  <2>6. Owns(t, k)'
    BY <2>3, <2>4, <2>5 DEF Owns
  <2>7. QED
    BY <2>1, <2>3, <2>4, <2>5, <2>6, HolderStep
<1>15. CASE release_up
  <2>1. /\ cur \in Threads /\ pc[cur] = "rel_up" /\ obj[cur] \in Locks
        /\ holder[obj[cur]] = NULL
        /\ UNCHANGED <<holder, obj>> /\ pc'[cur] = "up_yield"
        /\ \E top \in Tops(obj[cur]) : up(obj[cur], top)
    BY <1>2, <1>15 DEF release_up, At, Goto, PointOK, PointAt
  <2>2. PICK c \in Threads, l \in Locks : c = cur /\ l = obj[cur]
    BY <2>1
  <2>3. /\ value'[l] = value[l] + 1
        /\ \A m \in Locks \ {l} : value'[m] = value[m]
    BY <1>1, <2>1, <2>2, UpValue
  <2>4. Owns(c, l)
    BY <2>1, <2>2 DEF Owns
  <2>5. value[l] = 0 /\ \A t \in Threads : Owns(t, l) => t = c
    BY <2>4 DEF MutualExclusion
  <2>6. ASSUME NEW t \in Threads
        PROVE  /\ PointAt(t)'
               /\ ~Owns(t, l)'
               /\ \A m \in Locks \ {l} : Owns(t, m)' <=> Owns(t, m)
    <3>1. CASE t = c
      BY <2>1, <2>2, <3>1, ThreadAssumption DEF PointAt, Owns
    <3>2. CASE t # c
      <4>1. pc'[t] = pc[t] /\ obj'[t] = obj[t] /\ PointAt(t) /\ ~Owns(t, l)
        BY <2>2, <2>5, <3>2 DEF OthersStay, PointOK
      <4>2. QED
        BY <2>1, <4>1 DEF PointAt, Owns
    <3>3. QED
      BY <3>1, <3>2
  <2>7. Give(c, l) /\ \A m \in Locks \ {l} : Same(m)
    BY <2>3, <2>4, <2>5, <2>6 DEF Give, Same
  <2>8. QED
    BY <2>6, <2>7 DEF LockEffect, PointOK
<1>16. CASE release_yield
  <2>1. /\ cur \in Threads /\ pc[cur] = "rel_yield" /\ UNCHANGED <<value, holder>>
        /\ pc'[cur] = "run"
    BY <1>2, <1>16 DEF release_yield, At, Return, Goto, semaVars
  <2>2. QED
    BY <2>1, QuietStep
<1>17. CASE updateActivePriority
  <2>1. UNCHANGED <<value, holder, obj>>
    BY <1>17 DEF updateActivePriority, semaVars
  <2>2. PICK l \in {"acq_update", "rel_update", "set_update"} :
          At(l) /\ (UNCHANGED pc \/ Goto(UpdateReturn(l)))
    BY <1>17 DEF updateActivePriority
  <2>3. CASE UNCHANGED pc
    BY <2>1, <2>3, IdleStep
  <2>4. CASE Goto(UpdateReturn(l))
    <3>1. cur \in Threads /\ pc[cur] = l /\ pc'[cur] = UpdateReturn(l) /\ PointAt(cur)
      BY <1>2, <2>2, <2>4 DEF At, Goto, PointOK
    <3>2. QED
      BY <2>1, <3>1, QuietStep DEF UpdateReturn, PointAt
  <2>5. QED
    BY <2>2, <2>3, <2>4
<1>18. QED
  BY <1>3, <1>4, <1>5, <1>6, <1>7, <1>8, <1>9, <1>10, <1>11, <1>12, <1>13,
     <1>14, <1>15, <1>16, <1>17 DEF LockStep

(* The other thread operations do not touch the locks. *)
LEMMA ThreadEffect ==
  ASSUME LocalType, PointOK, OthersStay, ThreadStep
  PROVE  PointOK' /\ LockEffect
<1>1. ASSUME UNCHANGED <<priority, donationVars, semaVars, holder, panicked, pc,
                         localVars>>
      PROVE  PointOK' /\ LockEffect
  BY <1>1, IdleStep DEF semaVars, localVars
<1>2. pc \in [Threads -> Points]
  BY DEF LocalType
<1>3. ASSUME NEW p, thread_set_priority(p)
      PROVE  PointOK' /\ LockEffect
  <2>1. /\ cur \in Threads /\ pc[cur] = "run" /\ UNCHANGED <<value, holder>>
        /\ pc'[cur] = "set_update"
    BY <1>2, <1>3 DEF thread_set_priority, At, Goto, semaVars
  <2>2. QED
    BY <2>1, QuietStep DEF OwnerPoints, LockPoints, HolderPoints
<1>4. CASE set_priority_yield
  <2>1. /\ cur \in Threads /\ pc[cur] = "set_yield" /\ UNCHANGED <<value, holder>>
        /\ pc'[cur] = "run"
    BY <1>2, <1>4 DEF set_priority_yield, At, Return, Goto, semaVars
  <2>2. QED
    BY <2>1, QuietStep DEF OwnerPoints, LockPoints, HolderPoints
<1>5. ASSUME NEW t, timer_wake(t)
      PROVE  PointOK' /\ LockEffect
  BY <1>1, <1>5 DEF timer_wake
<1>6. CASE timer_sleep \/ exit \/ yield \/ idle
  BY <1>1, <1>6 DEF timer_sleep, exit, yield, idle
<1>7. QED
  BY <1>3, <1>4, <1>5, <1>6 DEF ThreadStep
-----------------------------------------------------------------------------

(* The run queue at the start holds the threads that neither run nor sleep. *)
LEMMA InitReadyThreads ==
  ASSUME NEW t \in Threads
  PROVE  t \in Range(InitReady) <=> t \notin InitAsleep \cup {InitRunning}
<1>1. /\ InitReady \in Seq(Threads)
      /\ {InitReady[i] : i \in DOMAIN InitReady} =
           Threads \ (InitAsleep \cup {InitRunning})
  BY SynchAssumption
<1>2. t \in Range(InitReady) <=> \E i \in DOMAIN InitReady : InitReady[i] = t
  BY <1>1 DEF Range
<1>3. (\E i \in DOMAIN InitReady : InitReady[i] = t)
        <=> t \in {InitReady[i] : i \in DOMAIN InitReady}
  BY Zenon
<1>4. QED
  BY <1>1, <1>2, <1>3

(* The initial state satisfies the invariant. *)
LEMMA InitInv ==
  ASSUME Init
  PROVE  IInv
<1>1. /\ InitRunning \in Threads \ InitAsleep /\ InitAsleep \subseteq Threads
      /\ InitReady \in Seq(Threads)
      /\ \A i, j \in DOMAIN InitReady : InitReady[i] = InitReady[j] => i = j
      /\ InitPriority \in [AllThreads -> Int]
      /\ InitValue \in [Semas -> Nat]
      /\ Semas \cap Locks = {} /\ NULL \notin Threads /\ Idle \notin Threads
  BY SynchAssumption, ThreadAssumption
<1>2. \A t \in Threads : t \in Range(InitReady) <=> t \notin InitAsleep \cup {InitRunning}
  BY InitReadyThreads
<1>3. /\ cur = InitRunning /\ ready_list = InitReady
      /\ ready_threads = Len(InitReady)
      /\ status = [t \in AllThreads |->
                     IF t = InitRunning THEN "RUNNING"
                     ELSE IF t \in InitAsleep \cup {Idle} THEN "BLOCKED"
                     ELSE "READY"]
  BY DEF Init
<1>4. /\ \A s \in Objects : value[s] = IF s \in Locks THEN 1 ELSE InitValue[s]
      /\ \A s \in Objects : waiters[s] = <<>>
      /\ \A l \in Locks : holder[l] = NULL
      /\ \A t \in Threads : pc[t] = "run" /\ obj[t] = NULL
  BY DEF Init
<1>5. RunQueue
  <2>1. IsInjective(ready_list)
    BY ONLY <1>1, <1>3 DEF IsInjective
  <2>2. \A t \in AllThreads : status[t] = "RUNNING" <=> t = cur
    BY ONLY <1>1, <1>3
  <2>3. \A t \in Threads : status[t] = "READY" <=> t \in Range(ready_list)
    BY ONLY <1>1, <1>2, <1>3 DEF AllThreads
  <2>4. QED
    BY ONLY <1>3, <2>1, <2>2, <2>3 DEF RunQueue
<1>6. SchedType
  BY ONLY <1>1, <1>3 DEF SchedType, AllThreads, Statuses
<1>7. LocalType
  <2>1. NoDonation \in Donations /\ <<>> \in Seq(Donations) /\ <<>> \in Seq(Threads)
    BY DEF NoDonation, Donations
  <2>2. value \in [Objects -> Nat]
    BY <1>1 DEF Init, Objects
  <2>3. /\ donors \in [Threads -> Seq(Donations)]
        /\ donees \in [Threads -> Donations]
        /\ waiters \in [Objects -> Seq(Threads)]
    BY <2>1 DEF Init
  <2>4. /\ holder \in [Locks -> Threads \cup {NULL}]
        /\ pc \in [Threads -> Points]
        /\ obj \in [Threads -> Objects \cup {NULL}]
    BY DEF Init, Points
  <2>5. /\ ptr \in [Threads -> Threads \cup {NULL}]
        /\ mark \in [Threads -> Int]
        /\ hasWaiter \in [Threads -> BOOLEAN]
    BY DEF Init
  <2>6. /\ priority \in [AllThreads -> Int]
        /\ nativePriority \in [AllThreads -> Int]
        /\ panicked \in BOOLEAN
    BY <1>1 DEF Init
  <2>7. QED
    BY ONLY <2>2, <2>3, <2>4, <2>5, <2>6 DEF LocalType
<1>8. TypeOK
  BY ONLY <1>5, <1>6, <1>7, TypeSplit DEF SchedType
<1>9. QueueDiscipline
  <2>1. IsInjective(<<>>) /\ DOMAIN <<>> = {}
    BY DEF IsInjective
  <2>2. QED
    BY ONLY <1>4, <1>5, <2>1 DEF QueueDiscipline
<1>10. \A t \in Threads, l \in Locks : ~Owns(t, l)
  BY ONLY <1>1, <1>4 DEF Owns
<1>11. MutualExclusion
  <2>1. \A l \in Locks : value[l] = 1
    BY ONLY <1>4 DEF Objects
  <2>2. QED
    BY ONLY <1>10, <2>1 DEF MutualExclusion
<1>12. PointOK
  BY ONLY <1>4 DEF PointOK, PointAt, LockPoints, HolderPoints, OwnerPoints
<1>13. QED
  BY <1>8, <1>9, <1>11, <1>12 DEF IInv

(* Every step preserves it, and does to the locks what LockEffect says. *)
LEMMA NextInv ==
  ASSUME IInv, Next
  PROVE  IInv' /\ LockEffect
<1>1. /\ TypeOK /\ RunQueue /\ MutualExclusion /\ PointOK
      /\ ready_list \in Seq(Threads)
  BY DEF IInv, QueueDiscipline, TypeOK
<1>2. SchedType /\ LocalType
  BY <1>1, TypeSplit
<1>3. SchedOK /\ WaitersOK
  BY <1>1, <1>2, QueueSplit DEF SchedOK, IInv
<1>4. OthersStay
  BY <1>2, StepOthersStay
<1>5. SchedOK' /\ WaitersOK'
  BY <1>1, <1>2, <1>3, <1>4, QueueStep
<1>6. LocalType'
  BY <1>1, <1>2, SemaType, LockType, ThreadType DEF Next, SchedType
<1>7. TypeOK'
  BY <1>5, <1>6 DEF TypeOK, SchedOK, SchedType, LocalType, RunQueue
<1>8. QueueDiscipline'
  BY <1>5, <1>6, QueueSplitNext DEF SchedOK
<1>9. PointOK' /\ LockEffect
  BY <1>1, <1>2, <1>4, SemaEffect, LockStepEffect, ThreadEffect DEF Next
<1>10. MutualExclusion'
  BY <1>1, <1>9, MutexStep
<1>11. QED
  BY <1>7, <1>8, <1>9, <1>10 DEF IInv

(* A step that leaves the variables alone preserves it. *)
LEMMA StutterInv ==
  ASSUME IInv, UNCHANGED vars
  PROVE  IInv' /\ \A l \in Locks, t \in Threads : Owns(t, l)' <=> Owns(t, l)
<1>1. UNCHANGED <<schedVars, priority, donationVars, semaVars, holder, panicked,
                  pc, localVars>>
  BY DEF vars
<1> USE <1>1 DEF schedVars, donationVars, semaVars, localVars
<1>2. \A l \in Locks, t \in Threads : Owns(t, l)' <=> Owns(t, l)
  BY DEF Owns
<1>3. TypeOK'
  BY DEF IInv, TypeOK
<1>4. QueueDiscipline'
  <2>1. LocalType /\ LocalType'
    BY <1>3 DEF IInv, TypeOK, LocalType
  <2>2. RunQueue /\ WaitersOK
    BY <2>1, QueueSplit DEF IInv
  <2>3. RunQueue'
    BY <2>2 DEF RunQueue
  <2>4. WaitersOK'
    BY <2>2 DEF WaitersOK
  <2>5. QED
    BY ONLY <2>1, <2>3, <2>4, QueueSplitNext
<1>5. MutualExclusion'
  BY <1>2 DEF IInv, MutualExclusion
<1>6. PointOK'
  BY DEF IInv, PointOK, PointAt
<1>7. QED
  BY <1>2, <1>3, <1>4, <1>5, <1>6 DEF IInv

(* IInv is an invariant of synch.c and the scheduler. *)
THEOREM Invariance == Spec => []IInv
<1>1. Init => IInv
  BY InitInv
<1>2. IInv /\ [Next]_vars => IInv'
  BY NextInv, StutterInv
<1>3. QED
  BY <1>1, <1>2, PTL DEF Spec

(* The variables of Synch keep their types, for every instance. *)
THEOREM TypeCorrect == Spec => []TypeOK
<1>1. IInv => TypeOK
  BY DEF IInv
<1>2. QED
  BY <1>1, Invariance, PTL

(* For every instance: a thread is on the run queue exactly when it is ready,
   and on the wait list of one semaphore at most, once, while it is blocked in
   sema_down on it; so the shared elem member of struct thread is safe. *)
THEOREM QueuesDisciplined == Spec => []QueueDiscipline
<1>1. IInv => QueueDiscipline
  BY DEF IInv
<1>2. QED
  BY <1>1, Invariance, PTL

(* For every instance: at most one thread is between taking and giving back
   the semaphore of a lock, and the semaphore is 1 exactly when there is none. *)
THEOREM LocksExclude == Spec => []MutualExclusion
<1>1. IInv => MutualExclusion
  BY DEF IInv
<1>2. QED
  BY <1>1, Invariance, PTL

-----------------------------------------------------------------------------
(* The refinement mapping: LockOwner[l] is the thread that owns l, if any. *)
LEMMA OwnerIs ==
  ASSUME MutualExclusion, NEW l \in Locks
  PROVE  /\ \A t \in Threads : Owns(t, l) => LockOwner[l] = t
         /\ (\A t \in Threads : ~Owns(t, l)) => LockOwner[l] = NULL
<1>1. LockOwner[l] = IF \E t \in Threads : Owns(t, l)
                 THEN CHOOSE t \in Threads : Owns(t, l) ELSE NULL
  BY DEF LockOwner
<1>2. ASSUME NEW t \in Threads, Owns(t, l)
      PROVE  LockOwner[l] = t
  <2>1. /\ (CHOOSE u \in Threads : Owns(u, l)) \in Threads
        /\ Owns(CHOOSE u \in Threads : Owns(u, l), l)
    BY <1>2
  <2>2. QED
    BY <1>1, <1>2, <2>1 DEF MutualExclusion
<1>3. QED
  BY <1>1, <1>2

(* The same for the next state. *)
LEMMA OwnerIsNext ==
  ASSUME MutualExclusion', NEW l \in Locks
  PROVE  /\ \A t \in Threads : Owns(t, l)' => LockOwner'[l] = t
         /\ (\A t \in Threads : ~Owns(t, l)') => LockOwner'[l] = NULL
<1>1. LockOwner'[l] = IF \E t \in Threads : Owns(t, l)'
                  THEN CHOOSE t \in Threads : Owns(t, l)' ELSE NULL
  BY DEF LockOwner
<1>2. ASSUME NEW t \in Threads, Owns(t, l)'
      PROVE  LockOwner'[l] = t
  <2>1. /\ (CHOOSE u \in Threads : Owns(u, l)') \in Threads
        /\ \E u \in Threads : Owns(u, l)' /\ u = CHOOSE v \in Threads : Owns(v, l)'
    BY <1>2
  <2>2. QED
    BY <1>1, <1>2, <2>1 DEF MutualExclusion
<1>3. QED
  BY <1>1, <1>2

(* A lock a step leaves alone keeps its owner. *)
LEMMA SameOwner ==
  ASSUME MutualExclusion, MutualExclusion', NEW l \in Locks,
         \A t \in Threads : Owns(t, l)' <=> Owns(t, l)
  PROVE  LockOwner'[l] = LockOwner[l]
BY OwnerIs, OwnerIsNext

(* A step of synch.c on the locks is a step of LockSpec, or none. *)
LEMMA RefinementStep ==
  ASSUME MutualExclusion, MutualExclusion', LockEffect
  PROVE  [Abstract!Next]_LockOwner
<1>1. /\ LockOwner = [l \in Locks |-> LockOwner[l]]
      /\ LockOwner' = [l \in Locks |-> LockOwner'[l]]
  BY DEF LockOwner
<1>2. CASE \A l \in Locks : Same(l)
  <2>1. \A l \in Locks : LockOwner'[l] = LockOwner[l]
    BY <1>2, SameOwner DEF Same
  <2>2. QED
    BY <1>1, <2>1
<1>3. ASSUME NEW c \in Threads, NEW l \in Locks, Take(c, l) \/ Give(c, l),
             \A m \in Locks \ {l} : Same(m)
      PROVE  [Abstract!Next]_LockOwner
  <2>1. \A m \in Locks \ {l} : LockOwner'[m] = LockOwner[m]
    BY <1>3, SameOwner DEF Same
  <2>2. CASE Take(c, l)
    <3>1. LockOwner[l] = NULL
      BY <2>2, OwnerIs DEF Take, MutualExclusion
    <3>2. LockOwner'[l] = c
      BY <2>2, OwnerIsNext DEF Take
    <3>3. LockOwner' = [LockOwner EXCEPT ![l] = c]
      BY <1>1, <2>1, <3>2
    <3>4. Abstract!Acquire(c, l)
      BY ONLY <3>1, <3>3 DEF Abstract!Acquire
    <3>5. QED
      BY ONLY <3>4, c \in Threads, l \in Locks DEF Abstract!Next
  <2>3. CASE Give(c, l)
    <3>1. LockOwner[l] = c
      BY <2>3, OwnerIs DEF Give
    <3>2. LockOwner'[l] = NULL
      BY <2>3, OwnerIsNext DEF Give
    <3>3. LockOwner' = [LockOwner EXCEPT ![l] = NULL]
      BY <1>1, <2>1, <3>2
    <3>4. Abstract!Release(c, l)
      BY ONLY <3>1, <3>3 DEF Abstract!Release
    <3>5. QED
      BY ONLY <3>4, c \in Threads, l \in Locks DEF Abstract!Next
  <2>4. QED
    BY <1>3, <2>2, <2>3
<1>4. QED
  BY <1>2, <1>3 DEF LockEffect

(* For every instance: what lock_acquire, lock_try_acquire and lock_release do
   with semaphore, holder and donations implements LockSpec. *)
THEOREM LocksRefine == Spec => LockOwnership
<1>1. Init => Abstract!Init
  <2> HAVE Init
  <2>1. IInv
    BY InitInv
  <2>2. \A t \in Threads, l \in Locks : ~Owns(t, l)
    BY ThreadAssumption DEF Init, Owns
  <2>3. QED
    BY <2>2 DEF LockOwner, Abstract!Init
<1>2. IInv /\ IInv' /\ [Next]_vars => [Abstract!Next]_LockOwner
  <2> SUFFICES ASSUME IInv, IInv', [Next]_vars
               PROVE  [Abstract!Next]_LockOwner
    OBVIOUS
  <2>1. MutualExclusion /\ MutualExclusion'
    BY DEF IInv
  <2>2. CASE Next
    BY <2>1, <2>2, NextInv, RefinementStep
  <2>3. CASE UNCHANGED vars
    <3>1. \A l \in Locks, t \in Threads : Owns(t, l)' <=> Owns(t, l)
      BY <2>3, StutterInv
    <3>2. \A l \in Locks : LockOwner'[l] = LockOwner[l]
      BY <2>1, <3>1, SameOwner
    <3>3. QED
      BY <3>2 DEF LockOwner
  <2>4. QED
    BY <2>2, <2>3
<1>3. QED
  BY <1>1, <1>2, Invariance, PTL DEF Spec, LockOwnership, Abstract!Spec

-----------------------------------------------------------------------------
LEMMA HighStep ==
  ASSUME SemaphoresOnly, IInv, HighInv, [Next]_vars
  PROVE  HighInv'
<1>1. CASE UNCHANGED vars
  BY <1>1 DEF vars, schedVars, donationVars, localVars, HighInv, Sorted, Ahead, PlainAt
<1>2. CASE Next
  BY <1>2, SemaPlain, LockPlain, ThreadPlain, SwitchKeeps, CalmKeeps, WakeKeeps, UpdateKeeps DEF Next
<1>3. QED
  BY <1>1, <1>2

LEMMA HighInit ==
  ASSUME SemaphoresOnly, Init
  PROVE  HighInv
<1>1. Sorted(ready_list) /\ Ahead
  BY DEF SemaphoresOnly, Init, Sorted, Ahead
<1>2. ASSUME NEW t \in Threads PROVE PlainAt(t)
  BY DEF Init, PlainAt, NoDonation
<1>3. QED
  BY <1>1, <1>2 DEF HighInv

(* With semaphores, thread_set_priority, thread_yield and thread_exit, for any
   number of threads and semaphores: when a thread runs client code no ready
   thread has a higher priority. *)
THEOREM HighestRuns ==
  ASSUME SemaphoresOnly
  PROVE  Spec => []RunsHighest
<1>1. Init => HighInv
  BY HighInit
<1>2. IInv /\ HighInv /\ [Next]_vars => HighInv'
  BY HighStep
<1>3. IInv /\ HighInv => RunsHighest
  <2>1. IInv => DOMAIN ready_list = 1..Len(ready_list)
    BY DEF IInv, TypeOK
  <2>2. QED
    BY <2>1 DEF HighInv, Ahead, RunsHighest
<1>4. QED
  BY <1>1, <1>2, <1>3, Invariance, PTL DEF Spec
=============================================================================
