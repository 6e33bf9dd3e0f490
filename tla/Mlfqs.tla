------------------------------- MODULE Mlfqs --------------------------------
(***************************************************************************)
(* The multi-level feedback scheduler of pintos/src/threads/thread.c, that *)
(* is thread_tick, thread_set_nice and thread_create with thread_mlfqs, on *)
(* the run queue of module Thread.  No locks are held, so nothing is       *)
(* donated and updateActivePriority makes priority the native one; clients *)
(* leave thread_set_priority alone, as the feedback scheduler expects.     *)
(***************************************************************************)
EXTENDS Thread, FixedPoint

CONSTANTS
  Main,         \* initial_thread
  PRI_MIN, PRI_MAX, PRI_DEFAULT,
  TIMER_FREQ,   \* ticks in a second, 100 in the code
  TIME_SLICE,   \* ticks a thread runs before it is preempted
  Nices,        \* arguments of thread_set_nice
  MaxTicks,     \* bound: the clock stops here
  MaxCalls      \* bound: calls by the threads, all together

VARIABLES
  nativePriority, nice, recent_cpu, load_avg,
  all_list,         \* the threads on it, as a set
  ticks, thread_ticks,
  yield_on_return,  \* the interrupt yields when it returns
  step,             \* where each thread is in thread_set_nice or thread_create
  child,            \* the thread that thread_create is making
  newPriority,      \* what thread_set_nice computed and has not set yet
  overtaken,        \* the threads a recalculation met in between (history)
  calls             \* calls so far

mlfqsVars == <<schedVars, priority, nativePriority, nice, recent_cpu, load_avg,
               all_list, ticks, thread_ticks, yield_on_return, step, child, newPriority, overtaken, calls>>

niceVars == <<newPriority, overtaken>>

figures == <<nativePriority, nice, recent_cpu, load_avg>>

clock == <<ticks, thread_ticks, yield_on_return>>

Clamped(x, low, high) == IF x < low THEN low ELSE IF x > high THEN high ELSE x

(* The priority for a thread with that recent_cpu and nice, as clamped by    *)
(* thread_tick, thread_create and thread_set_priority.                      *)
PriorityFor(cpu, n) ==
  Clamped(Round(SubF(Float(PRI_MAX), AddF(DivI(cpu, 4), MulI(Float(n), 2)))),
          PRI_MIN, PRI_MAX)

frac59 == DivI(Float(59), 60)

frac01 == DivI(Float(1), 60)

(* After thread_start: main runs, idle_thread has blocked. *)
MlfqsInit ==
  /\ cur = Main
  /\ status = [t \in AllThreads |-> IF t = Main THEN "RUNNING" ELSE "BLOCKED"]
  /\ ready_list = <<>> /\ ready_threads = 0
  /\ priority = [t \in AllThreads |-> PRI_DEFAULT]
  /\ nativePriority = [t \in AllThreads |-> IF t = Idle THEN PriorityFor(0, 0) ELSE PRI_DEFAULT]
  /\ nice = [t \in AllThreads |-> 0]
  /\ recent_cpu = [t \in AllThreads |-> 0]
  /\ load_avg = Float(0)
  /\ all_list = {Main, Idle}
  /\ ticks = 0 /\ thread_ticks = 0 /\ yield_on_return = FALSE
  /\ step = [t \in Threads |-> "run"]
  /\ child = [t \in Threads |-> NULL]
  /\ newPriority = [t \in Threads |-> PRI_DEFAULT]
  /\ overtaken = {}
  /\ calls = 0

\* The running thread is at point l and no interrupt is about to yield.
At(l) == ~yield_on_return /\ cur \in Threads /\ step[cur] = l

\* It starts a call.
Calls == At("run") /\ calls < MaxCalls /\ calls' = calls + 1

Goto(l) == step' = [step EXCEPT ![cur] = l]

Switched == thread_ticks' = 0 /\ UNCHANGED <<ticks, yield_on_return>>

-----------------------------------------------------------------------------
(* thread_tick. *)

NextLoad(load) ==
  AddF(MulF(frac59, load),
       MulI(frac01, ready_threads + IF cur = Idle THEN 0 ELSE 1))

Decayed(load, t) ==
  AddI(MulF(DivF(MulI(load, 2), AddI(MulI(load, 2), 1)), recent_cpu[t]), nice[t])

\* Seeded fault: only the running thread gets a new priority.
Recalculated_running(tick) == IF tick % 4 = 0 THEN {cur} ELSE {}

(* The threads that get a new priority at that tick. *)
Recalculated(tick) == IF tick % 4 = 0 THEN all_list ELSE {}

timer_interrupt ==
  /\ ~yield_on_return /\ ticks < MaxTicks
  /\ ticks' = ticks + 1
  /\ LET second == ticks' % TIMER_FREQ = 0
         cpu(t) == IF second /\ t \in all_list THEN Decayed(load_avg', t)
                   ELSE recent_cpu[t]
     IN  /\ load_avg' = IF second THEN NextLoad(load_avg) ELSE load_avg
         /\ recent_cpu' = [t \in AllThreads |->
                             IF t = cur /\ t # Idle THEN AddI(cpu(t), 1) ELSE cpu(t)]
  /\ nativePriority' = [t \in AllThreads |->
                          IF t \in Recalculated(ticks')
                          THEN PriorityFor(recent_cpu'[t], nice[t])
                          ELSE nativePriority[t]]
  /\ priority' = [t \in AllThreads |->
                    IF t \in Recalculated(ticks') THEN nativePriority'[t] ELSE priority[t]]
  /\ thread_ticks' = thread_ticks + 1
  /\ yield_on_return' = (thread_ticks' >= TIME_SLICE)
  /\ overtaken' = IF ticks' % 4 = 0 THEN {t \in Threads : step[t] = "set"} ELSE overtaken
  /\ UNCHANGED <<schedVars, nice, all_list, step, child, newPriority, calls>>

intr_yield ==
  /\ yield_on_return
  /\ thread_yield
  /\ thread_ticks' = 0 /\ yield_on_return' = FALSE
  /\ UNCHANGED <<ticks, priority, figures, all_list, step, child, niceVars, calls>>

-----------------------------------------------------------------------------
(* thread_set_nice computes the priority with interrupts on; the update of  *)
(* thread_set_priority runs with interrupts off, and its yield later.  An   *)
(* empty run queue is no reason to yield: what the code reads there is no   *)
(* thread's priority, and a yield then changes nothing.                     *)
thread_set_nice(n) ==
  /\ Calls
  /\ nice' = [nice EXCEPT ![cur] = Clamped(n, -20, 20)]
  /\ newPriority' = [newPriority EXCEPT ![cur] = PriorityFor(recent_cpu[cur], nice'[cur])]
  /\ Goto("set")
  /\ UNCHANGED <<schedVars, priority, nativePriority, recent_cpu, load_avg, all_list,
                 clock, child, overtaken>>

thread_set_priority ==
  /\ At("set")
  /\ nativePriority' = [nativePriority EXCEPT ![cur] = newPriority[cur]]
  /\ priority' = [priority EXCEPT ![cur] = newPriority[cur]]
  /\ newPriority' = [newPriority EXCEPT ![cur] = PRI_DEFAULT]
  /\ Goto("yield")
  /\ UNCHANGED <<schedVars, nice, recent_cpu, load_avg, all_list, clock, child,
                 overtaken, calls>>

YieldIf(p) == IF p THEN thread_yield /\ Switched ELSE UNCHANGED <<schedVars, clock>>

set_priority_yield ==
  /\ At("yield")
  /\ YieldIf(ready_list # <<>> /\ priority[cur] < priority[Head(ready_list)])
  /\ Goto("run")
  /\ UNCHANGED <<priority, figures, all_list, child, niceVars, calls>>

-----------------------------------------------------------------------------
(* thread_create: init_thread, then with interrupts off what the child      *)
(* inherits, then thread_unblock and the yield.  The child's effective      *)
(* priority is not updated.  If the child has died meanwhile, its page is   *)
(* filled with 0xcc, a negative priority.                                   *)
init_thread(t) ==
  /\ Calls /\ t \in Threads \ all_list /\ status[t] = "BLOCKED"
  /\ \A u \in Threads : child[u] # t
  /\ all_list' = all_list \cup {t}
  /\ child' = [child EXCEPT ![cur] = t]
  /\ Goto("inherit")
  /\ UNCHANGED <<schedVars, priority, figures, clock, niceVars>>

inherit ==
  /\ At("inherit")
  /\ LET t == child[cur]
     IN  /\ nice' = [nice EXCEPT ![t] = nice[cur]]
         /\ recent_cpu' = [recent_cpu EXCEPT ![t] = recent_cpu[cur]]
         /\ nativePriority' = [nativePriority EXCEPT
                                 ![t] = PriorityFor(recent_cpu[cur], nice[cur])]
  /\ Goto("unblock")
  /\ UNCHANGED <<schedVars, priority, load_avg, all_list, clock, child, niceVars, calls>>

create_unblock ==
  /\ At("unblock")
  /\ thread_unblock(child[cur])
  /\ Goto("created")
  /\ UNCHANGED <<priority, figures, all_list, clock, child, niceVars, calls>>

create_yield ==
  /\ At("created")
  /\ YieldIf(status[child[cur]] # "DYING" /\ priority[child[cur]] > priority[cur])
  /\ Goto("run")
  /\ child' = [child EXCEPT ![cur] = NULL]
  /\ UNCHANGED <<priority, figures, all_list, niceVars, calls>>

-----------------------------------------------------------------------------
(* A thread yields (in sema_up, say), waits for something, or exits. *)
yield ==
  /\ Calls
  /\ thread_yield /\ Switched
  /\ UNCHANGED <<priority, figures, all_list, step, child, niceVars>>

block ==
  /\ Calls
  /\ thread_block /\ Switched
  /\ UNCHANGED <<priority, figures, all_list, step, child, niceVars>>

exit ==
  /\ Calls /\ cur # Main
  /\ thread_exit /\ Switched
  /\ all_list' = all_list \ {cur}
  /\ UNCHANGED <<priority, figures, step, child, niceVars>>

(* What a thread waits for comes, from an interrupt or another thread. *)
unblock(t) ==
  /\ ~yield_on_return
  /\ t \in all_list \ {Idle} /\ status[t] = "BLOCKED"
  /\ \A u \in Threads : child[u] = t => step[u] = "created"
  /\ thread_unblock(t)
  /\ UNCHANGED <<priority, figures, all_list, clock, step, child, niceVars, calls>>

(* idle_thread blocks again and again, until a ready thread takes its place. *)
idle ==
  /\ ~yield_on_return /\ cur = Idle
  /\ thread_block /\ Switched
  /\ UNCHANGED <<priority, figures, all_list, step, child, niceVars, calls>>

MlfqsNext ==
  \/ timer_interrupt \/ intr_yield
  \/ \E n \in Nices : thread_set_nice(n)
  \/ thread_set_priority \/ set_priority_yield
  \/ \E t \in Threads : init_thread(t)
  \/ inherit \/ create_unblock \/ create_yield
  \/ yield \/ block \/ exit \/ idle
  \/ \E t \in Threads : unblock(t)

-----------------------------------------------------------------------------
(* From the fourth tick on the native priority of every thread is, at any   *)
(* moment, at most one level from what its recent_cpu and nice call for:    *)
(* the ticks since the last recalculation, the change of everyone's         *)
(* recent_cpu each second, thread_set_nice and what a child inherits never  *)
(* add up to more.  Left out are a child that thread_create has not filled  *)
(* in, and a thread inside thread_set_nice or with a priority from there    *)
(* that a recalculation overtook, until the next recalculation.             *)
PrioritiesFollow ==
  ticks >= 4 =>
    \A t \in all_list \ overtaken :
      /\ t \in Threads => step[t] # "set"
      /\ \A u \in Threads : child[u] = t => step[u] # "inherit"
      => nativePriority[t] - PriorityFor(recent_cpu[t], nice[t]) \in -1 .. 1

(* The load average stays between zero and the number of threads, however   *)
(* many seconds pass: it does now, and a second that ended in this state    *)
(* with the average at either limit would keep it there.  That takes        *)
(* weights that, rounded, add up to at most one, and a ready_threads that   *)
(* has counted every switch, wake-up and exit.                              *)
LoadWithin ==
  LET Limits == 0 .. Float(Cardinality(Threads))
  IN  /\ load_avg \in Limits
      /\ \A load \in {0, Float(Cardinality(Threads))} : NextLoad(load) \in Limits
=============================================================================
