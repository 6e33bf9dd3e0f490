------------------------------- MODULE Synch --------------------------------
(***************************************************************************)
(* Semaphores, locks and priority donation: pintos/src/threads/synch.c and *)
(* the priority part of thread.c, on the scheduler of module Thread.       *)
(*                                                                         *)
(* Every thread runs client code that calls the operations below in any    *)
(* order the documented preconditions allow.  A thread's program counter   *)
(* names the point inside an operation where interrupts are on, that is    *)
(* where another thread can run before it goes on; sema_down's loop and    *)
(* thread_set_priority's update run with interrupts off.                   *)
(***************************************************************************)
EXTENDS Thread

CONSTANTS
  Semas,          \* semaphores used as such by the clients
  IntrSemas,      \* the ones an external interrupt handler ups (devices/ide.c)
  Locks,          \* locks; a lock's semaphore has the lock's name
  Uses,           \* the semaphores and locks each client thread works with
  Rank,           \* the order in which the clients nest the locks
  PRI_MIN,        \* lowest priority
  PRI_DEPTH,      \* size of donors[]
  InitPriority,   \* priority each thread was created with
  NewPriorities,  \* arguments of thread_set_priority, already clamped
  Exiting,        \* the threads that may exit
  Sleepers,       \* the threads that may call timer_sleep
  InitValue,      \* initial value of the semaphores
  MaxValue,       \* bound: no client ups a semaphore beyond it
  InitAsleep,     \* the threads that are in timer_sleep at the start
  InitRunning,    \* the thread that runs first
  InitReady       \* the run queue it finds

ASSUME SynchAssumption ==
  /\ Semas \cap Locks = {}
  /\ NULL \notin Semas \cup Locks
  /\ IntrSemas \subseteq Semas
  /\ Uses \in [Threads -> SUBSET (Semas \cup Locks)]
  /\ PRI_MIN \in Int
  /\ PRI_DEPTH \in Nat
  /\ Rank \in [Locks -> Nat]
  /\ InitPriority \in [AllThreads -> Int]
  /\ NewPriorities \subseteq Int
  /\ Exiting \subseteq Threads
  /\ Sleepers \subseteq Threads
  /\ InitValue \in [Semas -> Nat]
  /\ MaxValue \in Nat
  /\ InitAsleep \subseteq Threads
  /\ InitRunning \in Threads \ InitAsleep
  /\ InitReady \in Seq(Threads)
  /\ \A i, j \in DOMAIN InitReady : InitReady[i] = InitReady[j] => i = j
  /\ {InitReady[i] : i \in DOMAIN InitReady} =
       Threads \ (InitAsleep \cup {InitRunning})

VARIABLES
  nativePriority, \* t->nativePriority
  donors,         \* t->donors[0 .. t->numDonors - 1]
  donees,         \* t->donees
  value,          \* sema->value
  waiters,        \* sema->waiters, front first
  holder,         \* lock->holder
  panicked,       \* an ASSERT failed, or memory was overwritten
  pc,             \* where each thread is
  obj,            \* the semaphore or lock its operation works on
  ptr,            \* local thread pointer of lock_acquire/updateActivePriority
  mark,           \* local integer: highestPriority of sema_up, i of lock_release
  hasWaiter       \* local flag of lock_release

donationVars == <<nativePriority, donors, donees>>
semaVars == <<value, waiters>>
localVars == <<obj, ptr, mark, hasWaiter>>
vars == <<schedVars, priority, donationVars, semaVars, holder, panicked,
          pc, localVars>>

Objects == Semas \cup Locks
NoDonation == [thread |-> NULL, lock |-> NULL]
Donations == [thread : Threads \cup {NULL}, lock : Locks \cup {NULL}]

Points == {"run", "down", "up_yield",
           "acq_donate", "acq_append", "acq_update", "acq_down",
           "acq_holder", "acq_clear",
           "try_holder", "rel_trim", "rel_update", "rel_clear",
           "rel_up", "rel_yield", "set_update", "set_yield"}

Init ==
  /\ cur = InitRunning
  /\ status = [t \in AllThreads |->
                 IF t = InitRunning THEN "RUNNING"
                 ELSE IF t \in InitAsleep \cup {Idle} THEN "BLOCKED"
                 ELSE "READY"]
  /\ ready_list = InitReady
  /\ ready_threads = Len(InitReady)
  /\ priority = InitPriority
  /\ nativePriority = InitPriority
  /\ donors = [t \in Threads |-> <<>>]
  /\ donees = [t \in Threads |-> NoDonation]
  /\ value = [s \in Objects |-> IF s \in Locks THEN 1 ELSE InitValue[s]]
  /\ waiters = [s \in Objects |-> <<>>]
  /\ holder = [l \in Locks |-> NULL]
  /\ panicked = FALSE
  /\ pc = [t \in Threads |-> "run"]
  /\ obj = [t \in Threads |-> NULL]
  /\ ptr = [t \in Threads |-> NULL]
  /\ mark = [t \in Threads |-> 0]
  /\ hasWaiter = [t \in Threads |-> FALSE]

-----------------------------------------------------------------------------
(* The running thread is at point l. *)
At(l) == ~panicked /\ cur \in Threads /\ pc[cur] = l

Goto(l) == pc' = [pc EXCEPT ![cur] = l]

IntrOn == IF cur = Idle THEN TRUE ELSE pc[cur] \notin {"down", "set_update"}

IsThread(t) == t \in Threads /\ status[t] # "DYING"

(* Where a thread continues after sema_down. *)
AfterDown(s) == IF s \in Locks THEN "acq_holder" ELSE "run"

(* The end of an operation: back in client code, the locals are dead. *)
Return ==
  /\ Goto("run")
  /\ obj' = [obj EXCEPT ![cur] = NULL]
  /\ ptr' = [ptr EXCEPT ![cur] = NULL]
  /\ mark' = [mark EXCEPT ![cur] = 0]
  /\ hasWaiter' = [hasWaiter EXCEPT ![cur] = FALSE]

-----------------------------------------------------------------------------
(* sema_down: the value is tested and decremented with interrupts off; a
   thread that finds it 0 joins the waiters and blocks. *)
down(s) ==
  \/ /\ value[s] > 0
     /\ value' = [value EXCEPT ![s] = @ - 1]
     /\ Goto(AfterDown(s))
     /\ obj' = [obj EXCEPT ![cur] = IF s \in Locks THEN s ELSE NULL]
     /\ UNCHANGED <<schedVars, waiters>>
  \/ /\ value[s] = 0
     /\ waiters' = [waiters EXCEPT ![s] = Append(@, cur)]
     /\ Goto("down")
     /\ obj' = [obj EXCEPT ![cur] = s]
     /\ thread_block
     /\ UNCHANGED value

sema_down(s) ==
  /\ At("run")
  /\ down(s)
  /\ UNCHANGED <<priority, donationVars, holder, panicked, ptr, mark, hasWaiter>>

(* Seeded fault: `if' for the `while' of sema_down, the value is not tested again. *)
sema_down_resume_if ==
  /\ At("down")
  /\ value' = [value EXCEPT ![obj[cur]] = @ - 1]
  /\ Goto(AfterDown(obj[cur]))
  /\ obj' = [obj EXCEPT ![cur] = IF @ \in Locks THEN @ ELSE NULL]
  /\ UNCHANGED <<schedVars, priority, donationVars, waiters, holder, panicked,
                 ptr, mark, hasWaiter>>

(* The loop of sema_down after thread_block returns: the value is tested
   again, and a thread that lost it blocks without joining the waiters. *)
sema_down_resume ==
  /\ At("down")
  /\ LET s == obj[cur]
     IN  \/ /\ value[s] > 0
            /\ value' = [value EXCEPT ![s] = @ - 1]
            /\ Goto(AfterDown(s))
            /\ obj' = [obj EXCEPT ![cur] = IF s \in Locks THEN s ELSE NULL]
            /\ UNCHANGED schedVars
         \/ /\ value[s] = 0
            /\ thread_block
            /\ UNCHANGED <<value, pc, obj>>
  /\ UNCHANGED <<priority, donationVars, waiters, holder, panicked,
                 ptr, mark, hasWaiter>>

(* sema_try_down; when the value is 0 it changes nothing. *)
sema_try_down(s) ==
  /\ At("run")
  /\ value[s] > 0
  /\ value' = [value EXCEPT ![s] = @ - 1]
  /\ UNCHANGED <<schedVars, priority, donationVars, waiters, holder, panicked,
                 pc, localVars>>

(* The waiter sema_up chooses: the first one of the highest priority. *)
IsHighest(ws, k) ==
  /\ \A j \in DOMAIN ws : priority[ws[j]] <= priority[ws[k]]
  /\ \A j \in 1..(k - 1) : priority[ws[j]] < priority[ws[k]]

(* Seeded fault: the woken thread is not taken off the list. *)
up_keeping_waiter(s, top) ==
  /\ value' = [value EXCEPT ![s] = @ + 1]
  /\ UNCHANGED waiters
  /\ \/ waiters[s] = <<>> /\ top = PRI_MIN - 1 /\ UNCHANGED schedVars
     \/ \E k \in DOMAIN waiters[s] :
          /\ IsHighest(waiters[s], k)
          /\ top = priority[waiters[s][k]]
          /\ thread_unblock(waiters[s][k])

(* sema_up up to intr_set_level; top is its highestPriority. *)
up(s, top) ==
  /\ value' = [value EXCEPT ![s] = @ + 1]
  /\ \/ /\ waiters[s] = <<>>
        /\ top = PRI_MIN - 1
        /\ UNCHANGED <<schedVars, waiters>>
     \/ \E k \in DOMAIN waiters[s] :
          /\ IsHighest(waiters[s], k)
          /\ top = priority[waiters[s][k]]
          /\ thread_unblock(waiters[s][k])
          /\ waiters' = [waiters EXCEPT ![s] = list_remove(@, k)]

(* The values highestPriority can have. *)
Tops(s) == {PRI_MIN - 1} \cup {priority[waiters[s][k]] : k \in DOMAIN waiters[s]}

sema_up(s) ==
  /\ At("run")
  /\ value[s] < MaxValue
  /\ \E top \in Tops(s) :
       /\ up(s, top)
       /\ mark' = [mark EXCEPT ![cur] = top]
  /\ Goto("up_yield")
  /\ obj' = [obj EXCEPT ![cur] = s]
  /\ UNCHANGED <<priority, donationVars, holder, panicked, ptr, hasWaiter>>

(* Seeded fault: no yield to the woken thread. *)
sema_up_no_yield ==
  /\ At("up_yield")
  /\ IF hasWaiter[cur]
     THEN Goto("rel_yield") /\ UNCHANGED localVars
     ELSE Return
  /\ UNCHANGED <<schedVars, priority, donationVars, semaVars, holder, panicked>>

(* The end of sema_up, interrupts on: yield unless the woken thread has a
   lower priority; then the rest of lock_release, if it was the caller. *)
sema_up_yield ==
  /\ At("up_yield")
  /\ \/ /\ mark[cur] >= priority[cur]
        /\ thread_yield
     \/ /\ mark[cur] < priority[cur]
        /\ UNCHANGED schedVars
  /\ IF hasWaiter[cur]
     THEN Goto("rel_yield") /\ UNCHANGED localVars
     ELSE Return
  /\ UNCHANGED <<priority, donationVars, semaVars, holder, panicked>>

(* sema_up called by an external interrupt handler, e.g. ide.c's
   interrupt_handler: the whole call runs inside the interrupt, where the
   ASSERT (!intr_context ()) of thread_yield stops the kernel. *)
sema_up_intr(s) ==
  /\ ~panicked /\ IntrOn
  /\ value[s] < MaxValue
  /\ \E top \in Tops(s) :
       /\ up(s, top)
       /\ panicked' = (top >= priority[cur])
  /\ UNCHANGED <<priority, donationVars, holder, pc, localVars>>

-----------------------------------------------------------------------------
(* lock_acquire.  The holder is read with interrupts on. *)
lock_acquire(l) ==
  /\ At("run")
  /\ holder[l] # cur
  /\ \A m \in Locks : holder[m] = cur => Rank[m] < Rank[l]
  /\ obj' = [obj EXCEPT ![cur] = l]
  /\ \/ /\ holder[l] = NULL
        /\ Goto("acq_down")
        /\ UNCHANGED ptr
     \/ /\ holder[l] # NULL
        /\ Goto("acq_donate")
        /\ ptr' = [ptr EXCEPT ![cur] = holder[l]]
  /\ UNCHANGED <<schedVars, priority, donationVars, semaVars, holder, panicked,
                 mark, hasWaiter>>

(* The tests of lock_acquire, on the holder it read. *)
acquire_donate ==
  /\ At("acq_donate") /\ IsThread(ptr[cur])
  /\ LET t == ptr[cur]
     IN  IF nativePriority[t] < priority[cur] /\ Len(donors[t]) < PRI_DEPTH
         THEN Goto("acq_append") /\ UNCHANGED ptr
         ELSE Goto("acq_down") /\ ptr' = [ptr EXCEPT ![cur] = NULL]
  /\ UNCHANGED <<schedVars, priority, donationVars, semaVars, holder, panicked,
                 obj, mark, hasWaiter>>

(* The thread joins the holder's donors[] and remembers whom it donates to.
   The source does this with interrupts on; here it is one step. *)
acquire_append ==
  /\ At("acq_append") /\ IsThread(ptr[cur])
  /\ Len(donors[ptr[cur]]) < PRI_DEPTH
  /\ donors' = [donors EXCEPT ![ptr[cur]] =
                  Append(@, [thread |-> cur, lock |-> obj[cur]])]
  /\ donees' = [donees EXCEPT ![cur] = [thread |-> ptr[cur], lock |-> obj[cur]]]
  /\ Goto("acq_update")
  /\ UNCHANGED <<schedVars, priority, nativePriority, semaVars, holder,
                 panicked, localVars>>

(* The array has filled up since the test: the write goes past its end, over
   the holder's donees.  The model does not follow the program further. *)
acquire_overflow ==
  /\ At("acq_append") /\ IsThread(ptr[cur])
  /\ Len(donors[ptr[cur]]) >= PRI_DEPTH
  /\ panicked' = TRUE
  /\ UNCHANGED <<schedVars, priority, donationVars, semaVars, holder, pc, localVars>>

(* One activation of updateActivePriority (ptr), then its recursive call on
   the donee; it returns to the caller at the end of the chain.  A call from
   lock_acquire or lock_release can be interrupted between two activations. *)
IsActivePriority(t, p) ==
  LET offers == {priority[d.thread] :
                   d \in {e \in Range(donors[t]) : IsThread(e.thread)}}
                  \cup {nativePriority[t]}
  IN  p \in offers /\ \A q \in offers : q <= p

UpdateReturn(l) ==
  CASE l = "acq_update" -> "acq_down"
    [] l = "rel_update" -> "rel_clear"
    [] OTHER -> "set_yield"

(* Seeded fault: the donee's priority is not updated in turn. *)
update_one_level ==
  /\ \E l \in {"acq_update", "rel_update", "set_update"} :
       /\ At(l) /\ IsThread(ptr[cur])
       /\ \E p \in {priority[u] : u \in Threads} \cup {nativePriority[ptr[cur]]} :
            /\ IsActivePriority(ptr[cur], p)
            /\ priority' = [priority EXCEPT ![ptr[cur]] = p]
       /\ ptr' = [ptr EXCEPT ![cur] = NULL] /\ Goto(UpdateReturn(l))
  /\ UNCHANGED <<schedVars, donationVars, semaVars, holder, panicked,
                 obj, mark, hasWaiter>>

updateActivePriority ==
  /\ \E l \in {"acq_update", "rel_update", "set_update"} :
       /\ At(l) /\ IsThread(ptr[cur])
       /\ LET t == ptr[cur]
              d == donees[t].thread
          IN  /\ \E p \in {priority[u] : u \in Threads} \cup {nativePriority[t]} :
                   /\ IsActivePriority(t, p)
                   /\ priority' = [priority EXCEPT ![t] = p]
              /\ IF IsThread(d)
                 THEN ptr' = [ptr EXCEPT ![cur] = d] /\ UNCHANGED pc
                 ELSE ptr' = [ptr EXCEPT ![cur] = NULL] /\ Goto(UpdateReturn(l))
  /\ UNCHANGED <<schedVars, donationVars, semaVars, holder, panicked,
                 obj, mark, hasWaiter>>

(* The holder lock_acquire read has exited in the meantime.  Its page is freed
   and filled with 0xcc, a negative number as an int: both tests succeed and
   the ASSERT (is_thread (thread)) of updateActivePriority stops the kernel. *)
stale_holder ==
  /\ \E l \in {"acq_donate", "acq_append", "acq_update"} : At(l)
  /\ ~IsThread(ptr[cur])
  /\ panicked' = TRUE
  /\ UNCHANGED <<schedVars, priority, donationVars, semaVars, holder, pc, localVars>>

(* lock_acquire's call of sema_down on the lock's semaphore. *)
acquire_down ==
  /\ At("acq_down")
  /\ down(obj[cur])
  /\ UNCHANGED <<priority, donationVars, holder, panicked, ptr, mark, hasWaiter>>

acquire_holder ==
  /\ At("acq_holder")
  /\ holder' = [holder EXCEPT ![obj[cur]] = cur]
  /\ Goto("acq_clear")
  /\ UNCHANGED <<schedVars, priority, donationVars, semaVars, panicked, localVars>>

acquire_clear ==
  /\ At("acq_clear")
  /\ donees' = [donees EXCEPT ![cur] = NoDonation]
  /\ Return
  /\ UNCHANGED <<schedVars, priority, nativePriority, donors,
                 semaVars, holder, panicked>>

(* Seeded fault: the result of sema_try_down is ignored. *)
lock_try_acquire_always(l) ==
  /\ At("run")
  /\ holder[l] # cur
  /\ \A m \in Locks : holder[m] = cur => Rank[m] < Rank[l]
  /\ value' = [value EXCEPT ![l] = IF @ > 0 THEN @ - 1 ELSE @]
  /\ obj' = [obj EXCEPT ![cur] = l]
  /\ Goto("try_holder")
  /\ UNCHANGED <<schedVars, priority, donationVars, waiters, holder, panicked,
                 ptr, mark, hasWaiter>>

(* lock_try_acquire; when the semaphore is taken it changes nothing. *)
lock_try_acquire(l) ==
  /\ At("run")
  /\ holder[l] # cur
  /\ \A m \in Locks : holder[m] = cur => Rank[m] < Rank[l]
  /\ value[l] > 0
  /\ value' = [value EXCEPT ![l] = @ - 1]
  /\ obj' = [obj EXCEPT ![cur] = l]
  /\ Goto("try_holder")
  /\ UNCHANGED <<schedVars, priority, donationVars, waiters, holder, panicked,
                 ptr, mark, hasWaiter>>

try_holder ==
  /\ At("try_holder")
  /\ holder' = [holder EXCEPT ![obj[cur]] = cur]
  /\ Return
  /\ UNCHANGED <<schedVars, priority, donationVars, semaVars, panicked>>

-----------------------------------------------------------------------------
(* The loop of lock_release over donors[]: i ends on the last donor of
   another lock, and every donor of this lock in front of it is overwritten
   by that last donor. *)
KeptDonors(t, l) == {i \in DOMAIN donors[t] : donors[t][i].lock # l}

IsLastKept(t, l, i) ==
  \/ KeptDonors(t, l) = {} /\ i = 0
  \/ i \in KeptDonors(t, l) /\ \A j \in KeptDonors(t, l) : j <= i

CompactDonors(t, l, last) ==
  [i \in DOMAIN donors[t] |->
     IF i < last /\ donors[t][i].lock = l THEN donors[t][last] ELSE donors[t][i]]

lock_release(l) ==
  /\ At("run")
  /\ holder[l] = cur
  /\ obj' = [obj EXCEPT ![cur] = l]
  /\ \/ /\ priority[cur] > nativePriority[cur]
        /\ \E i \in 0..Len(donors[cur]) :
             /\ IsLastKept(cur, l, i)
             /\ donors' = [donors EXCEPT ![cur] = CompactDonors(cur, l, i)]
             /\ mark' = [mark EXCEPT ![cur] = i]
        /\ Goto("rel_trim")
     \/ /\ priority[cur] <= nativePriority[cur]
        /\ Goto("rel_clear")
        /\ UNCHANGED <<donors, mark>>
  /\ UNCHANGED <<schedVars, priority, nativePriority, donees, semaVars, holder,
                 panicked, ptr, hasWaiter>>

(* The donors behind i are dropped, and the priority recomputed if any were. *)
release_trim ==
  /\ At("rel_trim")
  /\ IF mark[cur] < Len(donors[cur])
     THEN /\ hasWaiter' = [hasWaiter EXCEPT ![cur] = TRUE]
          /\ donors' = [donors EXCEPT ![cur] = SubSeq(@, 1, mark[cur])]
          /\ ptr' = [ptr EXCEPT ![cur] = cur]
          /\ Goto("rel_update")
     ELSE /\ Goto("rel_clear")
          /\ UNCHANGED <<donors, ptr, hasWaiter>>
  /\ mark' = [mark EXCEPT ![cur] = 0]
  /\ UNCHANGED <<schedVars, priority, nativePriority, donees, semaVars, holder,
                 panicked, obj>>

release_clear ==
  /\ At("rel_clear")
  /\ holder' = [holder EXCEPT ![obj[cur]] = NULL]
  /\ Goto("rel_up")
  /\ UNCHANGED <<schedVars, priority, donationVars, semaVars, panicked, localVars>>

release_up ==
  /\ At("rel_up")
  /\ \E top \in Tops(obj[cur]) :
       /\ up(obj[cur], top)
       /\ mark' = [mark EXCEPT ![cur] = top]
  /\ Goto("up_yield")
  /\ UNCHANGED <<priority, donationVars, holder, panicked, obj, ptr, hasWaiter>>

release_yield ==
  /\ At("rel_yield")
  /\ thread_yield
  /\ Return
  /\ UNCHANGED <<priority, donationVars, semaVars, holder, panicked>>

-----------------------------------------------------------------------------
(* Seeded fault: the new priority takes effect at once, donors or not. *)
set_priority_directly(p) ==
  /\ At("run")
  /\ nativePriority' = [nativePriority EXCEPT ![cur] = p]
  /\ priority' = [priority EXCEPT ![cur] = p]
  /\ Goto("set_yield")
  /\ UNCHANGED <<schedVars, donors, donees, semaVars, holder, panicked, localVars>>

(* thread_set_priority: the update runs with interrupts off; afterwards the
   thread yields to a ready thread of a higher priority.  With an empty run
   queue the code reads a priority that is no thread's, and a yield then
   leaves the thread running. *)
thread_set_priority(p) ==
  /\ At("run")
  /\ nativePriority' = [nativePriority EXCEPT ![cur] = p]
  /\ ptr' = [ptr EXCEPT ![cur] = cur]
  /\ Goto("set_update")
  /\ UNCHANGED <<schedVars, priority, donors, donees, semaVars,
                 holder, panicked, obj, mark, hasWaiter>>

set_priority_yield ==
  /\ At("set_yield")
  /\ IF ready_list # <<>> /\ priority[cur] < priority[Head(ready_list)]
     THEN thread_yield
     ELSE UNCHANGED schedVars
  /\ Return
  /\ UNCHANGED <<priority, donationVars, semaVars, holder, panicked>>

(* thread_exit of a thread that holds no lock. *)
exit ==
  /\ At("run")
  /\ cur \in Exiting
  /\ \A l \in Locks : holder[l] # cur
  /\ thread_exit
  /\ UNCHANGED <<priority, donationVars, semaVars, holder, panicked, pc, localVars>>

(* The blocking step of timer_sleep, and timer_wake in the timer interrupt;
   module Timer has the sleep queue. *)
timer_sleep ==
  /\ At("run")
  /\ cur \in Sleepers
  /\ thread_block
  /\ UNCHANGED <<priority, donationVars, semaVars, holder, panicked, pc, localVars>>

timer_wake(t) ==
  /\ ~panicked /\ IntrOn
  /\ status[t] = "BLOCKED" /\ pc[t] = "run"
  /\ thread_unblock(t)
  /\ UNCHANGED <<priority, donationVars, semaVars, holder, panicked, pc, localVars>>

(* A call of thread_yield by client code, or by intr_handler at the end of a
   time slice (thread_tick). *)
yield ==
  /\ ~panicked /\ IntrOn
  /\ thread_yield
  /\ UNCHANGED <<priority, donationVars, semaVars, holder, panicked, pc, localVars>>

(* The loop of the idle thread: after an interrupt it blocks again. *)
idle ==
  /\ ~panicked /\ cur = Idle
  /\ thread_block
  /\ UNCHANGED <<priority, donationVars, semaVars, holder, panicked, pc, localVars>>

SemaStep ==
  \/ \E s \in Semas :
       /\ cur \in Threads /\ s \in Uses[cur]
       /\ sema_down(s) \/ sema_try_down(s) \/ sema_up(s)
  \/ sema_down_resume \/ sema_up_yield
  \/ \E s \in IntrSemas : sema_up_intr(s)

LockStep ==
  \/ \E l \in Locks :
       /\ cur \in Threads /\ l \in Uses[cur]
       /\ lock_acquire(l) \/ lock_try_acquire(l) \/ lock_release(l)
  \/ acquire_donate \/ acquire_append \/ acquire_overflow \/ acquire_down \/ acquire_holder
  \/ acquire_clear \/ try_holder
  \/ release_trim \/ release_clear \/ release_up \/ release_yield
  \/ updateActivePriority \/ stale_holder

ThreadStep ==
  \/ \E p \in NewPriorities : thread_set_priority(p)
  \/ set_priority_yield
  \/ \E t \in Sleepers \cup InitAsleep : timer_wake(t)
  \/ timer_sleep \/ exit \/ yield \/ idle

Next == SemaStep \/ LockStep \/ ThreadStep

Spec == Init /\ [][Next]_vars

-----------------------------------------------------------------------------
(* Types of all the variables of the kernel state and of the locals. *)
TypeOK ==
  /\ cur \in AllThreads
  /\ status \in [AllThreads -> Statuses]
  /\ ready_list \in Seq(Threads)
  /\ ready_threads \in Int
  /\ priority \in [AllThreads -> Int]
  /\ nativePriority \in [AllThreads -> Int]
  /\ donors \in [Threads -> Seq(Donations)]
  /\ donees \in [Threads -> Donations]
  /\ value \in [Objects -> Nat]
  /\ waiters \in [Objects -> Seq(Threads)]
  /\ holder \in [Locks -> Threads \cup {NULL}]
  /\ panicked \in BOOLEAN
  /\ pc \in [Threads -> Points]
  /\ obj \in [Threads -> Objects \cup {NULL}]
  /\ ptr \in [Threads -> Threads \cup {NULL}]
  /\ mark \in [Threads -> Int]
  /\ hasWaiter \in [Threads -> BOOLEAN]

(* thread.h: the elem member serves both the run queue and the wait lists,
   which works only because a thread is on the run queue exactly when it is
   ready, on a wait list only when it is blocked in sema_down on that
   semaphore, and nowhere twice. *)
QueueDiscipline ==
  /\ RunQueue
  /\ \A s \in Objects :
       /\ IsInjective(waiters[s])
       /\ \A k \in DOMAIN waiters[s] :
            LET t == waiters[s][k]
            IN  status[t] = "BLOCKED" /\ pc[t] = "down" /\ obj[t] = s

(* The thread that has taken the semaphore of lock l and not yet given it
   back, whether or not lock->holder says so. *)
Owns(t, l) ==
  \/ holder[l] = t
  \/ obj[t] = l /\ pc[t] \in {"acq_holder", "try_holder", "rel_up"}

(* synch.c, lock_init: "A lock can be held by at most a single thread at any
   given time", counted from the moment the semaphore is taken. *)
MutualExclusion ==
  \A l \in Locks :
    /\ \A t, u \in Threads : Owns(t, l) /\ Owns(u, l) => t = u
    /\ value[l] = 1 <=> \A t \in Threads : ~Owns(t, l)
    /\ value[l] \in {0, 1}

(* The client's view of the locks; LockOwnership says that whatever the code
   does with semaphore, holder and donations is a step of that view. *)
LockOwner ==
  [l \in Locks |-> IF \E t \in Threads : Owns(t, l)
                   THEN CHOOSE t \in Threads : Owns(t, l) ELSE NULL]

Abstract == INSTANCE LockSpec WITH owner <- LockOwner

(* synch.c, lock_init: a lock is "owned" by one thread, and "the same thread
   must both acquire and release it": the lock operations implement
   LockSpec. *)
LockOwnership == Abstract!Spec

(* Nested donation: whoever waits for a lock has given the thread it donated
   to at least its own priority, unless a recomputation is under way. *)
DonationInForce ==
  (\A u \in Threads : pc[u] \notin {"acq_update", "rel_update", "set_update"}) =>
    \A t, h \in Threads :
      /\ donees[t].thread = h /\ IsThread(h)
      /\ \E i \in DOMAIN donors[h] : donors[h][i].thread = t
      => priority[h] >= priority[t]

(* synch.c, lock_release: after the donors of the lock are released the
   priority is the highest of the native one and the remaining donors'. *)
PriorityRecomputed ==
  (\A u \in Threads : pc[u] \notin {"acq_update", "rel_update", "set_update"}) =>
    \A t \in Threads : pc[t] = "run" => IsActivePriority(t, priority[t])

(* threads.texi: "The highest priority thread should run as soon as it is
   runnable": when a thread runs client code no ready thread has a higher
   priority. *)
RunsHighest ==
  cur \in Threads /\ pc[cur] = "run" =>
       \A k \in DOMAIN ready_list : priority[ready_list[k]] <= priority[cur]

(* synch.c, sema_up: "wakes up one thread of those waiting for SEMA, if any":
   no thread sleeps in sema_down on a semaphore that is positive unless a
   thread woken for it is on its way to the value. *)
NoLostWakeup ==
  \A s \in Objects, t \in Threads :
    /\ value[s] > 0
    /\ status[t] = "BLOCKED" /\ pc[t] = "down" /\ obj[t] = s
    => \E u \in Threads : pc[u] = "down" /\ obj[u] = s /\ status[u] # "BLOCKED"
=============================================================================
