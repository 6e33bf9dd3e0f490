------------------------------- MODULE Thread -------------------------------
(***************************************************************************)
(* The run queue and the thread states of pintos/src/threads/thread.c.     *)
(*                                                                         *)
(* Pintos runs on one processor.  A section with interrupts off is one     *)
(* step; between two such sections the timer interrupt may call            *)
(* thread_yield.  The actions below are those sections.  They are used by  *)
(* the modules that extend this one: a step of such a module contains at   *)
(* most one of thread_block, thread_yield, thread_unblock, thread_exit.    *)
(***************************************************************************)
EXTENDS Integers, Sequences, FiniteSets, Functions

CONSTANTS
  Threads,    \* the kernel threads, without the idle thread
  Idle,       \* idle_thread
  NULL        \* the null pointer

ASSUME ThreadAssumption ==
  /\ Idle \notin Threads
  /\ NULL \notin Threads \cup {Idle}

VARIABLES
  cur,            \* running_thread ()
  status,         \* t->status of every thread, idle_thread included
  ready_list,     \* the run queue, front first
  ready_threads,  \* the counter that feeds load_avg
  priority        \* t->priority, the effective priority

schedVars == <<cur, status, ready_list, ready_threads>>

AllThreads == Threads \cup {Idle}

Statuses == {"RUNNING", "READY", "BLOCKED", "DYING"}

-----------------------------------------------------------------------------
(* list.c: x is put in front of the k-th element, or at the end; the k-th
   element is taken out. *)
list_insert(q, k, x) == SubSeq(q, 1, k - 1) \o <<x>> \o SubSeq(q, k, Len(q))

list_remove(q, k) == SubSeq(q, 1, k - 1) \o SubSeq(q, k + 1, Len(q))

(* schedule and next_thread_to_run: the running thread gets status st, q is
   the run queue it leaves behind and n the ready_threads counter; the head
   of q runs next, or idle_thread when q is empty. *)
schedule(q, n, st) ==
  LET next == IF q = <<>> THEN Idle ELSE Head(q)
  IN  /\ cur' = next
      /\ ready_list' = IF q = <<>> THEN q ELSE Tail(q)
      /\ ready_threads' = IF q = <<>> THEN n ELSE n - 1
      /\ status' = [status EXCEPT ![cur] = st, ![next] = "RUNNING"]

thread_block == schedule(ready_list, ready_threads, "BLOCKED")

thread_exit == schedule(ready_list, ready_threads, "DYING")

(* thread_yield puts the running thread in front of the first ready thread
   of a strictly lower priority, or at the end.  The idle thread is not
   queued. *)
IsYieldPoint(k) ==
  /\ \A j \in 1..(k - 1) : priority[cur] <= priority[ready_list[j]]
  /\ k <= Len(ready_list) => priority[cur] > priority[ready_list[k]]

thread_yield ==
  \/ /\ cur = Idle
     /\ schedule(ready_list, ready_threads, "READY")
  \/ /\ cur # Idle
     /\ \E k \in 1..(Len(ready_list) + 1) :
          /\ IsYieldPoint(k)
          /\ schedule(list_insert(ready_list, k, cur), ready_threads + 1, "READY")

(* thread_unblock puts t in front of the first ready thread whose priority
   is not higher, so ahead of the threads of its own priority. *)
IsUnblockPoint(t, k) ==
  /\ \A j \in 1..(k - 1) : priority[ready_list[j]] > priority[t]
  /\ k <= Len(ready_list) => priority[ready_list[k]] <= priority[t]

thread_unblock(t) ==
  \E k \in 1..(Len(ready_list) + 1) :
    /\ IsUnblockPoint(t, k)
    /\ ready_list' = list_insert(ready_list, k, t)
    /\ ready_threads' = ready_threads + 1
    /\ status' = [status EXCEPT ![t] = "READY"]
    /\ UNCHANGED cur

-----------------------------------------------------------------------------
(* Exactly the running thread has status RUNNING, a thread is on the run queue
   exactly when it is ready, and once; ready_threads counts them. *)
RunQueue ==
  /\ \A t \in AllThreads : status[t] = "RUNNING" <=> t = cur
  /\ \A t \in Threads : status[t] = "READY" <=> t \in Range(ready_list)
  /\ IsInjective(ready_list)
  /\ ready_threads = Len(ready_list)
=============================================================================
