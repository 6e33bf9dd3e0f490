------------------------------ MODULE Condition ------------------------------
(***************************************************************************)
(* Condition variables (pintos/src/threads/synch.c): one condition and     *)
(* its lock.  The lock is the one of LockSpec, held by at most one         *)
(* thread; each waiter's semaphore starts at 0.  A thread may lose the CPU *)
(* between the release of the lock and the wait on its semaphore, between  *)
(* the wait and the re-acquisition, and between two signals of a broadcast.*)
(***************************************************************************)
EXTENDS Naturals, SequencesExt

CONSTANTS CondThreads, Priorities, NoThread

VARIABLES
  holder,      \* lock->holder
  waiters,     \* cond->waiters: the thread of each semaphore_elem
  posted,      \* value of each waiter's semaphore
  prio,        \* priority of each thread, which donation may change
  at           \* where each thread is: "out", "in", "down", "relock", "broadcast"

condVars == <<holder, waiters, posted, prio, at>>

CondInit ==
  /\ holder = NoThread
  /\ waiters = <<>>
  /\ posted = [t \in CondThreads |-> 0]
  /\ prio \in [CondThreads -> Priorities]
  /\ at = [t \in CondThreads |-> "out"]

lock_acquire(t) ==
  /\ at[t] = "out" /\ holder = NoThread
  /\ holder' = t
  /\ at' = [at EXCEPT ![t] = "in"]
  /\ UNCHANGED <<waiters, posted, prio>>

lock_release(t) ==
  /\ at[t] = "in"
  /\ holder' = NoThread
  /\ at' = [at EXCEPT ![t] = "out"]
  /\ UNCHANGED <<waiters, posted, prio>>

-----------------------------------------------------------------------------
(* cond_wait: queue and release, then the semaphore, then the lock again. *)

cond_wait(t) ==
  /\ at[t] = "in"
  /\ waiters' = Append(waiters, t)
  /\ posted' = [posted EXCEPT ![t] = 0]
  /\ holder' = NoThread
  /\ at' = [at EXCEPT ![t] = "down"]
  /\ UNCHANGED prio

cond_wait_down(t) ==
  /\ at[t] = "down" /\ posted[t] > 0
  /\ posted' = [posted EXCEPT ![t] = @ - 1]
  /\ at' = [at EXCEPT ![t] = "relock"]
  /\ UNCHANGED <<holder, waiters, prio>>

cond_wait_relock(t) ==
  /\ at[t] = "relock" /\ holder = NoThread
  /\ holder' = t
  /\ at' = [at EXCEPT ![t] = "in"]
  /\ UNCHANGED <<waiters, posted, prio>>

-----------------------------------------------------------------------------
(* cond_signal and cond_broadcast. *)

\* The search through the queue, with highestThread as its state.
HighestWaiter ==
  LET search(high, t) ==
        IF high = NoThread THEN t ELSE IF prio[t] > prio[high] THEN t ELSE high
  IN  FoldLeft(search, NoThread, waiters)

\* A seeded fault: the waiter stays in the queue.
Signalled_listed ==
  waiters # <<>> /\ posted' = [posted EXCEPT ![HighestWaiter] = @ + 1] /\ UNCHANGED waiters

Signalled ==
  LET t == HighestWaiter
  IN  /\ waiters # <<>>
      /\ waiters' = SelectSeq(waiters, LAMBDA x : x # t)
      /\ posted' = [posted EXCEPT ![t] = @ + 1]

cond_signal(t) ==
  /\ at[t] = "in"
  /\ Signalled
  /\ UNCHANGED <<holder, prio, at>>

cond_broadcast(t) ==
  /\ at[t] = "in"
  /\ at' = [at EXCEPT ![t] = "broadcast"]
  /\ UNCHANGED <<holder, waiters, posted, prio>>

\* One turn of the loop in cond_broadcast, or its end.
cond_broadcast_loop(t) ==
  /\ at[t] = "broadcast"
  /\ \/ Signalled /\ UNCHANGED at
     \/ /\ waiters = <<>>
        /\ at' = [at EXCEPT ![t] = "in"]
        /\ UNCHANGED <<waiters, posted>>
  /\ UNCHANGED <<holder, prio>>

\* Donations and thread_set_priority.
set_priority(t, p) ==
  /\ prio[t] # p
  /\ prio' = [prio EXCEPT ![t] = p]
  /\ UNCHANGED <<holder, waiters, posted, at>>

CondNext ==
  \E t \in CondThreads :
    \/ lock_acquire(t) \/ lock_release(t)
    \/ cond_wait(t) \/ cond_wait_down(t) \/ cond_wait_relock(t)
    \/ cond_signal(t) \/ cond_broadcast(t) \/ cond_broadcast_loop(t)
    \/ \E p \in Priorities : set_priority(t, p)

-----------------------------------------------------------------------------
(* Properties. *)

(* No signal is lost and none is invented: between the release of the lock  *)
(* and its return, a thread in cond_wait is either on the list or has been  *)
(* signalled exactly once, and nobody else is on the list, even when the    *)
(* signal comes before the thread waits on its semaphore.                   *)
SignalsArrive ==
  /\ \A t \in CondThreads :
       /\ posted[t] = (IF at[t] = "down" /\ ~Contains(waiters, t) THEN 1 ELSE 0)
       /\ Contains(waiters, t) => at[t] = "down"
  /\ \A i, j \in DOMAIN waiters : waiters[i] = waiters[j] => i = j
=============================================================================
