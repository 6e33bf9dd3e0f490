------------------------------- MODULE Process ------------------------------
(***************************************************************************)
(* exec, wait and exit of user processes: userprog/process.c, the exit      *)
(* status lists of threads/thread.c, userprog/exception.c and the system    *)
(* calls of userprog/syscall.c that end a process.                          *)
(*                                                                         *)
(* The timer preempts a process wherever interrupts are on, so the steps of *)
(* different processes interleave freely.  A process's semaphores live in   *)
(* the page of its struct thread: the page is freed when the process is     *)
(* gone and may hold the struct thread of another process later, while a    *)
(* parent still has the pointer.  sema_up hands the CPU to the waiter it    *)
(* wakes (user processes have one priority), which finishes sema_down with  *)
(* interrupts off: an up that finds a waiter completes that waiter's down   *)
(* in the same step.                                                       *)
(***************************************************************************)
EXTENDS Integers

CONSTANTS
  MaxTid,    \* bound: allocate_tid gives the tids 1, 2, ... MaxTid
  Pages,     \* the pages thread_create may get
  NULL,
  KILLED,    \* the end of a process without an exit status
  Statuses   \* arguments of exit

ASSUME ProcessAssumption ==
  /\ MaxTid \in Nat
  /\ Statuses \subseteq Int
  /\ NULL \notin Int \cup Pages \cup {KILLED}
  /\ KILLED \notin Int

(* A process is named by its tid, which is never reused.  The first one is a
   user process that runs already and does not exit. *)
root == 0
Procs == root..MaxTid

VARIABLES
  tid,         \* next_tid of allocate_tid
  all_list,    \* the threads thread_by_tid finds
  thread_page, \* which process's struct thread is in each page, or NULL
  exec_sema,   \* value of the exec_sema in each page
  wait_sema,   \* value of the wait_sema in each page
  exit_list,   \* the processes whose exit_status is on exit_list
  child_list,  \* ... on the child_list of each process
  wait_list,   \* ... on its wait_list
  exit_status, \* the status member, NULL before thread_create and after free
  program,     \* what load will make of the program the process runs
  ended,       \* how the process ended: NULL, its exit status, or KILLED
  pc,          \* where each process is
  kid,         \* the child its exec or wait is about
  child        \* local pointer of process_execute and process_wait, a page

pageVars == <<thread_page, exec_sema, wait_sema>>
listVars == <<exit_list, child_list, wait_list, exit_status>>
vars == <<tid, all_list, pageVars, listVars, program, ended, pc, kid, child>>

(* A loadable program, one that load rejects, and one whose ELF header load
   rejects. *)
Programs == {"good", "bad_segment", "bad_header"}

Points == {"unborn", "user", "exec_lookup", "exec_down", "exec_blocked",
           "exec_status", "wait_lookup", "wait_down", "wait_blocked",
           "wait_mark", "load", "load_failed", "load_up", "stuck",
           "exit_files", "exit_up", "exit_die", "gone"}

PageOf(p) == CHOOSE g \in Pages : thread_page[g] = p

Init ==
  /\ tid = 1
  /\ all_list = {root}
  /\ thread_page = [g \in Pages |-> NULL]
  /\ exec_sema = [g \in Pages |-> 0]
  /\ wait_sema = [g \in Pages |-> 0]
  /\ exit_list = {}
  /\ child_list = [p \in Procs |-> {}]
  /\ wait_list = [p \in Procs |-> {}]
  /\ exit_status = [p \in Procs |-> NULL]
  /\ program = [p \in Procs |-> NULL]
  /\ ended = [p \in Procs |-> NULL]
  /\ pc = [p \in Procs |-> IF p = root THEN "user" ELSE "unborn"]
  /\ kid = [p \in Procs |-> NULL]
  /\ child = [p \in Procs |-> NULL]

-----------------------------------------------------------------------------
Goto(p, l) == pc' = [pc EXCEPT ![p] = l]

(* Back in the program that made the system call. *)
Return(p) ==
  /\ Goto(p, "user")
  /\ kid' = [kid EXCEPT ![p] = NULL]
  /\ child' = [child EXCEPT ![p] = NULL]

(* sema_up on a semaphore of page g; the waiters are the processes blocked at
   point `blocked' with the pointer g, and the one that is woken goes on at
   `after'. *)
Waiters(g, blocked) == {w \in Procs : pc[w] = blocked /\ child[w] = g}

sema_up(p, next, sema, g, blocked, after) ==
  \/ /\ Waiters(g, blocked) = {}
     /\ sema' = [sema EXCEPT ![g] = @ + 1]
     /\ Goto(p, next)
  \/ \E w \in Waiters(g, blocked) :
       /\ pc' = [pc EXCEPT ![p] = next, ![w] = after]
       /\ UNCHANGED sema

(* sema_down on a semaphore of page g.  The bytes of a free page are 0xcc, so
   the value read there is positive. *)
sema_down(p, sema, g, blocked, after) ==
  \/ /\ thread_page[g] = NULL
     /\ Goto(p, after)
     /\ UNCHANGED sema
  \/ /\ thread_page[g] # NULL /\ sema[g] > 0
     /\ sema' = [sema EXCEPT ![g] = @ - 1]
     /\ Goto(p, after)
  \/ /\ thread_page[g] # NULL /\ sema[g] = 0
     /\ Goto(p, blocked)
     /\ UNCHANGED sema

-----------------------------------------------------------------------------
(* The lists of threads/thread.c, changed with interrupts off. *)
thread_create(p, q) ==
  /\ \E g \in Pages :
       /\ thread_page[g] = NULL
       /\ thread_page' = [thread_page EXCEPT ![g] = q]
       /\ exec_sema' = [exec_sema EXCEPT ![g] = 0]
       /\ wait_sema' = [wait_sema EXCEPT ![g] = 0]
  /\ all_list' = all_list \cup {q}
  /\ exit_list' = exit_list \cup {q}
  /\ child_list' = [child_list EXCEPT ![p] = @ \cup {q}]
  /\ exit_status' = [exit_status EXCEPT ![q] = 0]

thread_set_exit_status(q, s) == exit_status' = [exit_status EXCEPT ![q] = s]

thread_mark_waited(p, q) ==
  /\ exit_list' = exit_list \ {q}
  /\ wait_list' = [wait_list EXCEPT ![p] = @ \cup {q}]

(* thread_is_child, and not thread_has_waited. *)
CanBeAwaited(p, q) == q \in child_list[p] \ wait_list[p]

(* process_execute up to the return of thread_create.  Without a free page, or
   without the file, it returns TID_ERROR and changes nothing. *)
process_execute(p, prog) ==
  LET q == tid IN
  /\ pc[p] = "user"
  /\ q \in Procs
  /\ tid' = tid + 1
  /\ thread_create(p, q)
  /\ program' = [program EXCEPT ![q] = prog]
  /\ pc' = [pc EXCEPT ![p] = "exec_lookup", ![q] = "load"]
  /\ kid' = [kid EXCEPT ![p] = q]
  /\ UNCHANGED <<wait_list, ended, child>>

(* thread_by_tid; a child that is already gone is not waited for. *)
exec_lookup(p) ==
  /\ pc[p] = "exec_lookup"
  /\ \/ /\ kid[p] \in all_list
        /\ child' = [child EXCEPT ![p] = PageOf(kid[p])]
        /\ Goto(p, "exec_down")
        /\ UNCHANGED kid
     \/ /\ kid[p] \notin all_list
        /\ Return(p)
  /\ UNCHANGED <<tid, all_list, pageVars, listVars, program, ended>>

exec_down(p) ==
  /\ pc[p] = "exec_down"
  /\ sema_down(p, exec_sema, child[p], "exec_blocked", "exec_status")
  /\ UNCHANGED <<tid, all_list, thread_page, wait_sema, listVars, program, ended,
                 kid, child>>

(* thread_get_exit_status: TID_ERROR when the status is -1. *)
exec_return(p) ==
  /\ pc[p] = "exec_status"
  /\ Return(p)
  /\ UNCHANGED <<tid, all_list, pageVars, listVars, program, ended>>

-----------------------------------------------------------------------------
(* process_wait: a process that is not a child, or was waited for already, is
   an error that changes nothing. *)
process_wait(p, q) ==
  /\ pc[p] = "user"
  /\ CanBeAwaited(p, q)
  /\ kid' = [kid EXCEPT ![p] = q]
  /\ Goto(p, "wait_lookup")
  /\ UNCHANGED <<tid, all_list, pageVars, listVars, program, ended, child>>

wait_lookup(p) ==
  /\ pc[p] = "wait_lookup"
  /\ \/ /\ kid[p] \in all_list
        /\ child' = [child EXCEPT ![p] = PageOf(kid[p])]
        /\ Goto(p, "wait_down")
     \/ /\ kid[p] \notin all_list
        /\ Goto(p, "wait_mark")
        /\ UNCHANGED child
  /\ UNCHANGED <<tid, all_list, pageVars, listVars, program, ended, kid>>

(* Seeded fault: the parent does not wait for the semaphore. *)
wait_down_never(p) ==
  /\ pc[p] = "wait_down"
  /\ Goto(p, "wait_mark")
  /\ UNCHANGED <<tid, all_list, pageVars, listVars, program, ended, kid, child>>

wait_down(p) ==
  /\ pc[p] = "wait_down"
  /\ sema_down(p, wait_sema, child[p], "wait_blocked", "wait_mark")
  /\ UNCHANGED <<tid, all_list, thread_page, exec_sema, listVars, program, ended,
                 kid, child>>

(* thread_mark_waited, and the return of es->status. *)
wait_return(p) ==
  /\ pc[p] = "wait_mark"
  /\ thread_mark_waited(p, kid[p])
  /\ Return(p)
  /\ UNCHANGED <<tid, all_list, pageVars, child_list, exit_status, program, ended>>

-----------------------------------------------------------------------------
(* start_process and load.  load's local semaphore is down when it rejects the
   ELF header, and is taken once more on the way out. *)
load(q) ==
  /\ pc[q] = "load"
  /\ \/ program[q] = "good" /\ Goto(q, "load_up")
     \/ program[q] = "bad_segment" /\ Goto(q, "load_failed")
     \/ program[q] = "bad_header" /\ Goto(q, "stuck")
  /\ UNCHANGED <<tid, all_list, pageVars, listVars, program, ended, kid, child>>

load_failed(q) ==
  /\ pc[q] = "load_failed"
  /\ thread_set_exit_status(q, -1)
  /\ ended' = [ended EXCEPT ![q] = -1]
  /\ Goto(q, "load_up")
  /\ UNCHANGED <<tid, all_list, pageVars, exit_list, child_list, wait_list, program,
                 kid, child>>

load_up(q) ==
  /\ pc[q] = "load_up"
  /\ sema_up(q, IF program[q] = "good" THEN "user" ELSE "exit_files",
             exec_sema, PageOf(q), "exec_blocked", "exec_status")
  /\ program' = [program EXCEPT ![q] = NULL]
  /\ UNCHANGED <<tid, all_list, thread_page, wait_sema, listVars, ended,
                 kid, child>>

-----------------------------------------------------------------------------
(* Seeded fault: the exit status is not stored. *)
sysexit_no_status(q, s) ==
  /\ pc[q] = "user" /\ q # root
  /\ ended' = [ended EXCEPT ![q] = s]
  /\ Goto(q, "exit_files")
  /\ UNCHANGED <<tid, all_list, pageVars, listVars, program, kid, child>>

(* A process that ends with a status: exit, or -1 from terminate_thread and
   from kill_process on a page fault. *)
sysexit_handler(q, s) ==
  /\ pc[q] = "user" /\ q # root
  /\ thread_set_exit_status(q, s)
  /\ ended' = [ended EXCEPT ![q] = s]
  /\ Goto(q, "exit_files")
  /\ UNCHANGED <<tid, all_list, pageVars, exit_list, child_list, wait_list, program,
                 kid, child>>

(* Any other exception of a user program. *)
kill(q) ==
  /\ pc[q] = "user" /\ q # root
  /\ ended' = [ended EXCEPT ![q] = KILLED]
  /\ Goto(q, "exit_files")
  /\ UNCHANGED <<tid, all_list, pageVars, listVars, program, kid, child>>

(* process_exit: the files are closed and the exit statuses of the children
   that were waited for are freed. *)
process_exit(q) ==
  /\ pc[q] = "exit_files"
  /\ exit_status' = [p \in Procs |->
                       IF p \in wait_list[q] THEN NULL ELSE exit_status[p]]
  /\ wait_list' = [wait_list EXCEPT ![q] = {}]
  /\ Goto(q, "exit_up")
  /\ UNCHANGED <<tid, all_list, pageVars, exit_list, child_list, program, ended,
                 kid, child>>

exit_up(q) ==
  /\ pc[q] = "exit_up"
  /\ sema_up(q, "exit_die", wait_sema, PageOf(q), "wait_blocked", "wait_mark")
  /\ UNCHANGED <<tid, all_list, thread_page, exec_sema, listVars, program, ended,
                 kid, child>>

(* The end of thread_exit: the process leaves all_list, and the thread that
   runs next frees the page. *)
thread_exit(q) ==
  /\ pc[q] = "exit_die"
  /\ all_list' = all_list \ {q}
  /\ thread_page' = [thread_page EXCEPT ![PageOf(q)] = NULL]
  /\ child_list' = [child_list EXCEPT ![q] = {}]
  /\ Goto(q, "gone")
  /\ UNCHANGED <<tid, exec_sema, wait_sema, exit_list, wait_list, exit_status,
                 program, ended, kid, child>>

-----------------------------------------------------------------------------
(* What the kernel does for process p once it runs. *)
KernelStep(p) ==
  \/ exec_lookup(p) \/ exec_down(p) \/ exec_return(p)
  \/ wait_lookup(p) \/ wait_down(p) \/ wait_return(p)
  \/ load(p) \/ load_failed(p) \/ load_up(p)
  \/ process_exit(p) \/ exit_up(p) \/ thread_exit(p)

UserStep(p) ==
  \/ \E prog \in Programs : process_execute(p, prog)
  \/ \E q \in Procs : process_wait(p, q)
  \/ \E s \in Statuses \cup {-1} : sysexit_handler(p, s)
  \/ kill(p)

Next == \E p \in Procs : KernelStep(p) \/ UserStep(p)

(* The scheduler is round robin, so a process in the kernel goes on; nothing
   is assumed of the programs. *)
Fairness == \A p \in Procs : WF_vars(KernelStep(p))

Spec == Init /\ [][Next]_vars /\ Fairness

-----------------------------------------------------------------------------
(* Types of the lists, the pages and the locals. *)
TypeOK ==
  /\ tid \in 1..(MaxTid + 1)
  /\ all_list \subseteq Procs
  /\ thread_page \in [Pages -> Procs \cup {NULL}]
  /\ exec_sema \in [Pages -> 0..1]
  /\ wait_sema \in [Pages -> 0..1]
  /\ exit_list \subseteq Procs
  /\ child_list \in [Procs -> SUBSET Procs]
  /\ wait_list \in [Procs -> SUBSET Procs]
  /\ exit_status \in [Procs -> Statuses \cup {-1, 0, NULL}]
  /\ program \in [Procs -> Programs \cup {NULL}]
  /\ ended \in [Procs -> Statuses \cup {-1, NULL, KILLED}]
  /\ pc \in [Procs -> Points]
  /\ kid \in [Procs -> Procs \cup {NULL}]
  /\ child \in [Procs -> Pages \cup {NULL}]

(* process_exit and thread_set_exit_status follow thread_get_exit_status of
   the running process without a test, and process_wait that of the child:
   the exit_status they look for is on exit_list and was not freed. *)
ExitStatusPresent ==
  /\ TypeOK
  /\ \A q \in all_list \ {root} :
       pc[q] # "exit_die" => q \in exit_list /\ exit_status[q] # NULL
  /\ \A p \in Procs :
       pc[p] \in {"exec_status", "wait_mark"} =>
         kid[p] \in exit_list /\ exit_status[kid[p]] # NULL

(* process.c, process_wait: "Waits for thread TID to die and returns its exit
   status": a wait that returns is the first one for this child, the child
   has ended, and the result is the status it ended with. *)
WaitReturnsStatus ==
  [][\A p \in Procs :
       pc[p] = "wait_mark" /\ pc'[p] # "wait_mark" =>
         /\ kid[p] \notin wait_list[p]
         /\ pc[kid[p]] \in {"exit_die", "gone"}
         /\ ended[kid[p]] # KILLED => exit_status[kid[p]] = ended[kid[p]]]_vars

(* syscall.c, exec: "Must return pid -1 ... if the program cannot load or run
   for any reason", so exec returns. *)
ExecReturns ==
  \A p \in Procs : pc[p] = "exec_lookup" ~> pc[p] = "user"
=============================================================================
