-------------------------------- MODULE Timer -------------------------------
(***************************************************************************)
(* The alarm clock of pintos/src/devices/timer.c: timer_sleep, which walks  *)
(* the sleep queue with interrupts on, and the timer interrupt with         *)
(* timer_wake, on the scheduler of module Thread.                           *)
(*                                                                         *)
(* An element of the queue is named by its allocation, so a name is used    *)
(* again only when no pointer to the freed element is left.  A thread that  *)
(* follows a pointer to an element that has been freed may do anything;     *)
(* the model sets corrupted and stops there.                                *)
(***************************************************************************)
EXTENDS Thread

CONSTANTS
  Elems,        \* allocations of struct sleep_elem
  HEAD,         \* the list's sentinels
  END,
  Durations,    \* arguments of timer_sleep
  LastCall,     \* bound: no call of timer_sleep after this tick
  MaxTicks,     \* bound: the clock stops counting here
  TIME_SLICE,   \* ticks a thread runs before it is preempted
  InitPriority, \* priority each thread was created with
  InitReady     \* the run queue at the start

TimerAssumption ==
  /\ HEAD # END /\ {HEAD, END, NULL} \cap Elems = {}
  /\ Durations \subseteq Int
  /\ LastCall \in Nat /\ MaxTicks \in Nat
  /\ \A d \in Durations : LastCall + d <= MaxTicks
  /\ TIME_SLICE \in Nat \ {0}
  /\ InitPriority \in [AllThreads -> Int]
  /\ InitReady \in Seq(Threads)
  /\ \A i, j \in DOMAIN InitReady : InitReady[i] = InitReady[j] => i = j
  /\ {InitReady[i] : i \in DOMAIN InitReady} = Threads

VARIABLES
  ticks,        \* timer ticks since boot
  thread_ticks, \* timer ticks since the last thread switch
  yield_on_return, \* the interrupt yields when it returns
  wake,         \* 0, or the element timer_wake looks at in the interrupt
  sleep_queue,  \* the elements of the list, front first
  sleep_elem,   \* the contents of every element
  pc,           \* where each thread is inside timer_sleep
  newSleep,     \* its element
  e,            \* its pointer into the list
  until,        \* the tick each thread last asked to sleep until (history)
  corrupted     \* a thread used an element that had been freed

intrVars == <<ticks, thread_ticks, yield_on_return, wake>>
queueVars == <<sleep_queue, sleep_elem>>
localVars == <<pc, newSleep, e>>
vars == <<schedVars, priority, intrVars, queueVars, localVars, until, corrupted>>

Points == {"run", "begin", "scan", "next", "remove", "insert"}

WakeTimes == {0} \cup {n + d : n \in 0..LastCall, d \in Durations}

Contents == [wakeTicks : WakeTimes, currentThread : Threads \cup {NULL},
             removeFlag : BOOLEAN]

Unused == [wakeTicks |-> 0, currentThread |-> NULL, removeFlag |-> FALSE]

Init ==
  /\ cur = Idle
  /\ status = [t \in AllThreads |-> IF t = Idle THEN "RUNNING" ELSE "READY"]
  /\ ready_list = InitReady
  /\ ready_threads = Len(InitReady)
  /\ priority = InitPriority
  /\ ticks = 0 /\ thread_ticks = 0
  /\ yield_on_return = FALSE /\ wake = 0
  /\ sleep_queue = <<>>
  /\ sleep_elem = [x \in Elems |-> Unused]
  /\ pc = [t \in Threads |-> "run"]
  /\ newSleep = [t \in Threads |-> NULL]
  /\ e = [t \in Threads |-> NULL]
  /\ until = [t \in Threads |-> 0]
  /\ corrupted = FALSE

-----------------------------------------------------------------------------
(* list_begin, list_next and list_prev of lib/kernel/list.c on the queue. *)
ElemAt(k) ==
  IF k = 0 THEN HEAD
  ELSE IF k \in DOMAIN sleep_queue THEN sleep_queue[k] ELSE END

(* x is the k-th node of the list, counting the sentinels. *)
IsNode(x, k) == k \in 0..(Len(sleep_queue) + 1) /\ ElemAt(k) = x

Linked(x) == x \in {HEAD, END} \/ x \in Range(sleep_queue)

(* The running thread is at point l and no interrupt handler runs. *)
At(l) ==
  /\ ~corrupted /\ wake = 0 /\ ~yield_on_return
  /\ cur \in Threads /\ pc[cur] = l

Goto(l) == pc' = [pc EXCEPT ![cur] = l]

(* thread_schedule_tail starts a new time slice. *)
Block ==
  /\ thread_block
  /\ thread_ticks' = 0

(* malloc; an element in the list, or one a thread points to, is not free. *)
Free(x) ==
  /\ x \notin Range(sleep_queue)
  /\ \A t \in Threads : newSleep[t] # x /\ e[t] # x

\* What malloc returns: which free block it is makes no difference, since the
\* caller fills in all that is read of it.
Fresh == {x \in Elems : Free(x) /\ x = CHOOSE y \in Elems : Free(y)}

-----------------------------------------------------------------------------
(* The element of a call that asks for d ticks. *)
fill_elem(d) == [wakeTicks |-> ticks + d, currentThread |-> cur, removeFlag |-> FALSE]

(* timer_sleep up to the loop: the wake time is computed from the clock, and
   the element is filled in. *)
timer_sleep(d) ==
  /\ At("run")
  /\ ticks <= LastCall
  /\ \E x \in Fresh :
       /\ newSleep' = [newSleep EXCEPT ![cur] = x]
       /\ sleep_elem' = [sleep_elem EXCEPT ![x] = fill_elem(d)]
  /\ until' = [until EXCEPT ![cur] = ticks + d]
  /\ Goto("begin")
  /\ UNCHANGED <<schedVars, priority, intrVars, sleep_queue, e, corrupted>>

sleep_begin ==
  /\ At("begin")
  /\ e' = [e EXCEPT ![cur] = ElemAt(1)]
  /\ Goto("scan")
  /\ UNCHANGED <<schedVars, priority, intrVars, queueVars, newSleep, until, corrupted>>

(* The body of the loop: an element that was woken is removed, a new element
   goes in front of the first one that wakes later, or at the end. *)
sleep_scan ==
  /\ At("scan")
  /\ Linked(e[cur])
  /\ \/ /\ e[cur] = END
        /\ Goto("insert")
     \/ /\ e[cur] # END
        /\ LET s == sleep_elem[e[cur]]
           IN  \/ s.removeFlag /\ Goto("remove")
               \/ /\ ~s.removeFlag
                  /\ s.wakeTicks > sleep_elem[newSleep[cur]].wakeTicks
                  /\ Goto("insert")
               \/ /\ ~s.removeFlag
                  /\ s.wakeTicks <= sleep_elem[newSleep[cur]].wakeTicks
                  /\ Goto("next")
  /\ UNCHANGED <<schedVars, priority, intrVars, queueVars, newSleep, e, until, corrupted>>

sleep_next ==
  /\ At("next")
  /\ Linked(e[cur])
  /\ \E k \in 0..Len(sleep_queue) :
       /\ IsNode(e[cur], k)
       /\ e' = [e EXCEPT ![cur] = ElemAt(k + 1)]
  /\ Goto("scan")
  /\ UNCHANGED <<schedVars, priority, intrVars, queueVars, newSleep, until, corrupted>>

(* list_remove with interrupts off, and free. *)
sleep_remove ==
  /\ At("remove")
  /\ Linked(e[cur])
  /\ \E k \in DOMAIN sleep_queue :
       /\ IsNode(e[cur], k)
       /\ sleep_queue' = list_remove(sleep_queue, k)
       /\ e' = [e EXCEPT ![cur] = ElemAt(k - 1)]
  /\ sleep_elem' = [sleep_elem EXCEPT ![e[cur]] = Unused]
  /\ Goto("next")
  /\ UNCHANGED <<schedVars, priority, intrVars, newSleep, until, corrupted>>

(* list_insert and thread_block with interrupts off; the thread is back in its
   caller when it runs again. *)
sleep_insert ==
  /\ At("insert")
  /\ Linked(e[cur])
  /\ \E k \in 1..(Len(sleep_queue) + 1) :
       /\ IsNode(e[cur], k)
       /\ sleep_queue' = list_insert(sleep_queue, k, newSleep[cur])
  /\ Block
  /\ Goto("run")
  /\ newSleep' = [newSleep EXCEPT ![cur] = NULL]
  /\ e' = [e EXCEPT ![cur] = NULL]
  /\ UNCHANGED <<priority, ticks, yield_on_return, wake, sleep_elem, until, corrupted>>

(* The loop follows a pointer to an element another thread has freed. *)
stale_pointer ==
  /\ At("scan") \/ At("next") \/ At("remove") \/ At("insert")
  /\ ~Linked(e[cur])
  /\ corrupted' = TRUE
  /\ UNCHANGED <<schedVars, priority, intrVars, queueVars, localVars, until>>

-----------------------------------------------------------------------------
(* timer_interrupt with thread_tick, up to timer_wake.  The sections of
   timer_sleep with interrupts off are single steps, so the interrupt comes
   between any two. *)
timer_interrupt ==
  /\ ~corrupted /\ wake = 0 /\ ~yield_on_return
  /\ ticks' = IF ticks < MaxTicks THEN ticks + 1 ELSE ticks
  /\ thread_ticks' = IF thread_ticks < TIME_SLICE THEN thread_ticks + 1
                     ELSE thread_ticks
  /\ yield_on_return' = (thread_ticks + 1 >= TIME_SLICE)
  /\ wake' = 1
  /\ UNCHANGED <<schedVars, priority, queueVars, localVars, until, corrupted>>

(* The test of timer_wake's loop; an element that was woken before stays on the
   queue until a call of timer_sleep removes it. *)
due_early(k) == k \in DOMAIN sleep_queue /\ sleep_elem[sleep_queue[k]].wakeTicks <= ticks + 1
Due(k) == k \in DOMAIN sleep_queue /\ sleep_elem[sleep_queue[k]].wakeTicks <= ticks
asleep_always(x) == TRUE
Asleep(x) == ~sleep_elem[x].removeFlag
stop_at_woken == wake' = 0
pass_woken == wake' = wake + 1

(* One round of the loop of timer_wake. *)
timer_wake ==
  /\ ~corrupted /\ wake > 0
  /\ \/ /\ Due(wake)
        /\ Asleep(sleep_queue[wake])
        /\ sleep_elem' = [sleep_elem EXCEPT ![sleep_queue[wake]].removeFlag = TRUE]
        /\ thread_unblock(sleep_elem[sleep_queue[wake]].currentThread)
        /\ wake' = wake + 1
     \/ /\ Due(wake)
        /\ ~Asleep(sleep_queue[wake])
        /\ pass_woken
        /\ UNCHANGED <<schedVars, sleep_elem>>
     \/ /\ ~Due(wake)
        /\ wake' = 0
        /\ UNCHANGED <<schedVars, sleep_elem>>
  /\ UNCHANGED <<priority, ticks, thread_ticks, yield_on_return, sleep_queue,
                 localVars, until, corrupted>>

(* intr_handler yields on the way out of the interrupt. *)
intr_yield ==
  /\ ~corrupted /\ wake = 0 /\ yield_on_return
  /\ thread_yield
  /\ thread_ticks' = 0
  /\ yield_on_return' = FALSE
  /\ UNCHANGED <<priority, ticks, wake, queueVars, localVars, until, corrupted>>

(* The loop of the idle thread. *)
idle ==
  /\ ~corrupted /\ wake = 0 /\ ~yield_on_return
  /\ cur = Idle
  /\ Block
  /\ UNCHANGED <<priority, ticks, yield_on_return, wake, queueVars, localVars,
                 until, corrupted>>

SleepStep ==
  \/ \E d \in Durations : timer_sleep(d)
  \/ sleep_begin \/ sleep_scan \/ sleep_next \/ sleep_remove \/ sleep_insert
  \/ stale_pointer

Next == SleepStep \/ timer_interrupt \/ timer_wake \/ intr_yield \/ idle

(* The 8254 interrupts TIMER_FREQ times a second and the handler runs to its
   end. *)
Spec == Init /\ [][Next]_vars /\ WF_vars(timer_interrupt) /\ WF_vars(timer_wake)
             /\ WF_vars(intr_yield)

-----------------------------------------------------------------------------
(* Types of the scheduler, the clock, the queue and the locals. *)
TypeOK ==
  /\ cur \in AllThreads
  /\ status \in [AllThreads -> Statuses]
  /\ ready_list \in Seq(Threads)
  /\ ready_threads \in Int
  /\ priority \in [AllThreads -> Int]
  /\ ticks \in 0..MaxTicks
  /\ thread_ticks \in 0..TIME_SLICE
  /\ yield_on_return \in BOOLEAN
  /\ wake \in Nat
  /\ sleep_queue \in Seq(Elems)
  /\ sleep_elem \in [Elems -> Contents]
  /\ pc \in [Threads -> Points]
  /\ newSleep \in [Threads -> Elems \cup {NULL}]
  /\ e \in [Threads -> Elems \cup {HEAD, END, NULL}]
  /\ until \in [Threads -> WakeTimes]
  /\ corrupted \in BOOLEAN

(* timer.c: a thread sleeps exactly as long as the queue holds one element for
   it that was not woken, however many threads walk and change the queue at
   the same time. *)
SleepersQueued ==
  /\ RunQueue
  /\ IsInjective(sleep_queue)
  /\ \A t \in Threads :
       status[t] = "BLOCKED" <=>
         \E k \in DOMAIN sleep_queue :
           /\ sleep_elem[sleep_queue[k]].currentThread = t
           /\ ~sleep_elem[sleep_queue[k]].removeFlag
  /\ \A i, j \in DOMAIN sleep_queue :
       LET x == sleep_elem[sleep_queue[i]]
           y == sleep_elem[sleep_queue[j]]
       IN  ~x.removeFlag /\ ~y.removeFlag /\ x.currentThread = y.currentThread => i = j

(* threads.texi: timer_sleep "suspends execution of the calling thread until
   time has advanced by at least x timer ticks"; timer_wake unblocks no thread
   before the tick its own call asked for. *)
NeverEarly ==
  [][\A t \in Threads :
       status[t] = "BLOCKED" /\ status'[t] # "BLOCKED" => ticks >= until[t]]_vars

(* timer_wake stops at the first element that is not due; a thread queued
   behind it still gets on the run queue in the end. *)
WakesUp ==
  \A t \in Threads : status[t] = "BLOCKED" ~> status[t] # "BLOCKED" \/ corrupted
=============================================================================
