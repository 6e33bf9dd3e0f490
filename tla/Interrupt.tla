----------------------------- MODULE Interrupt ------------------------------
(***************************************************************************)
(* Interrupt handling: pintos/src/threads/interrupt.c with the entry code  *)
(* of intr-stubs.S, the gates the kernel registers, the first lines of     *)
(* page_fault in userprog/exception.c, which need interrupts off, and the  *)
(* two 8259A interrupt controllers, which are external.                    *)
(*                                                                         *)
(* A thread has a stack of interrupt frames; the scheduler is abstracted   *)
(* to "some thread runs next".  Interrupt 0x20 is the timer's and 0x2e the *)
(* disk's; the others have no handler, and 0x27 and 0x2f may be spurious.  *)
(***************************************************************************)
EXTENDS Integers, Sequences, FiniteSets, FiniteSetsExt

CONSTANTS
  IntrThreads,
  Lines,         \* the vectors of the lines that devices raise, of 32 .. 47
  MaxRaised,     \* bound on the interrupts that devices raise
  MaxTraps       \* bound on system calls and page faults

VARIABLES
  running,            \* the thread on the processor
  intr_level,         \* the interrupt flag, TRUE for INTR_ON
  frames,             \* the frames on every thread's kernel stack, the last on top
  old_level,          \* for a thread switched away: what it restores when it is back
  in_external_intr,
  yield_on_return,
  cr2,                \* the processor's fault address: the thread that faulted
  pic,                \* [raised, master, slave]: lines raised and in service
  unexpected_cnt,
  raised_cnt, trap_cnt,
  stopped             \* an ASSERT has failed

ivars == <<running, intr_level, frames, old_level, in_external_intr, yield_on_return,
           cr2, pic, unexpected_cnt, raised_cnt, trap_cnt, stopped>>

TIMER == 32
IDE == 46
SPURIOUS == {39, 47}
PAGE_FAULT == 14
SYSCALL == 48

-----------------------------------------------------------------------------
(* The interrupt descriptor table: whether a vector has a handler, and      *)
(* whether its gate leaves interrupts on.                                   *)

Vectors == Lines \cup {TIMER, IDE, PAGE_FAULT, SYSCALL}

intr_init == [v \in Vectors |-> [handler |-> FALSE, on |-> FALSE]]

register_handler(idt, vec_no, level) ==
  [idt EXCEPT ![vec_no] = [handler |-> TRUE, on |-> level]]

intr_register_ext(idt, vec_no) == register_handler(idt, vec_no, FALSE)

intr_register_int(idt, vec_no, level) == register_handler(idt, vec_no, level)

devices_init(idt) == intr_register_ext(intr_register_ext(idt, TIMER), IDE)

exception_init(idt) == intr_register_int(idt, PAGE_FAULT, FALSE)

syscall_init(idt) == intr_register_int(idt, SYSCALL, TRUE)

Idt == syscall_init(exception_init(devices_init(intr_init)))

External(v) == v >= 32 /\ v < 48

-----------------------------------------------------------------------------
(* The controllers, in the mode pic_init selects: a line in service blocks  *)
(* those of its own and lower priority, the slave is on the master's line 2.*)

pic_init == [raised |-> {}, master |-> {}, slave |-> {}]

MasterLine(v) == IF v >= 40 THEN 2 ELSE v - 32

Deliverable(v) ==
  /\ v \in pic.raised
  /\ \A b \in pic.master : b > MasterLine(v)
  /\ v >= 40 => \A b \in pic.slave : b > v - 40

Priority(v) == 8 * MasterLine(v) + (IF v >= 40 THEN v - 40 ELSE 0)

InService(v) ==
  [raised |-> pic.raised \ {v},
   master |-> pic.master \cup {MasterLine(v)},
   slave |-> IF v >= 40 THEN pic.slave \cup {v - 40} ELSE pic.slave]

WithoutHighest(bits) == IF bits = {} THEN {} ELSE bits \ {Min(bits)}

\* A seeded fault: the slave is not told.
pic_end_of_interrupt_master(irq) == [pic EXCEPT !.master = WithoutHighest(@)]

pic_end_of_interrupt(irq) ==
  [pic EXCEPT !.master = WithoutHighest(@),
              !.slave = IF irq >= 40 THEN WithoutHighest(@) ELSE @]

-----------------------------------------------------------------------------

IntrInit ==
  /\ running = CHOOSE t \in IntrThreads : TRUE
  /\ intr_level = TRUE
  /\ frames = [t \in IntrThreads |-> <<>>]
  /\ old_level = [t \in IntrThreads |-> TRUE]
  /\ in_external_intr = FALSE /\ yield_on_return = FALSE
  /\ cr2 = running
  /\ pic = pic_init
  /\ unexpected_cnt = 0
  /\ raised_cnt = 0 /\ trap_cnt = 0
  /\ stopped = FALSE

Stack == frames[running]

Depth == Len(Stack)

Top == Stack[Depth]

\* The thread executes code of its own or of a system call or fault handler.
InThread == Depth = 0 \/ (Depth > 0 /\ Top.phase = "handler" /\ ~External(Top.vec))

\* "entry" before the handler, "handler" in it, "exit" before the iret.
Frame(v, phase) ==
  [vec |-> v, level |-> intr_level, phase |-> phase, asked |-> FALSE, addr |-> running]

Pushed(f) == [frames EXCEPT ![running] = Append(@, f)]

TopNow(f) == [frames EXCEPT ![running][Depth] = f]

\* A device raises a line.
Raise(v) ==
  /\ raised_cnt < MaxRaised /\ v \notin pic.raised
  /\ pic' = [pic EXCEPT !.raised = @ \cup {v}]
  /\ raised_cnt' = raised_cnt + 1
  /\ UNCHANGED <<running, intr_level, frames, old_level, in_external_intr,
                 yield_on_return, cr2, unexpected_cnt, trap_cnt, stopped>>

external_begin == in_external_intr' = TRUE /\ yield_on_return' = FALSE

\* The processor takes the interrupt of the highest priority, the gate sets
\* the flag, and intr_handler begins with its two ASSERTs.
intr_entry(v) ==
  /\ ~stopped /\ intr_level
  /\ Deliverable(v)
  /\ \A w \in Lines : Deliverable(w) => Priority(v) <= Priority(w)
  /\ pic' = InService(v)
  /\ intr_level' = Idt[v].on
  /\ frames' = Pushed(Frame(v, "entry"))
  /\ IF Idt[v].on \/ in_external_intr
       THEN stopped' = TRUE /\ UNCHANGED <<in_external_intr, yield_on_return>>
     ELSE external_begin /\ UNCHANGED stopped
  /\ UNCHANGED <<running, old_level, cr2, unexpected_cnt, raised_cnt, trap_cnt>>

\* The handler of an external interrupt, which may call intr_yield_on_return.
external_handler(asks) ==
  /\ ~stopped /\ Depth > 0 /\ Top.phase = "entry" /\ External(Top.vec)
  /\ asks => Idt[Top.vec].handler
  /\ frames' = TopNow([Top EXCEPT !.phase = "handler", !.asked = asks])
  /\ yield_on_return' = (yield_on_return \/ asks)
  /\ unexpected_cnt' = IF ~Idt[Top.vec].handler /\ Top.vec \notin SPURIOUS
                         THEN unexpected_cnt + 1 ELSE unexpected_cnt
  /\ UNCHANGED <<running, intr_level, old_level, in_external_intr, cr2, pic,
                 raised_cnt, trap_cnt, stopped>>

\* thread_yield with what intr_disable returned as the level to restore.
thread_yield(fs) ==
  \E t \in IntrThreads :
    LET saved == [old_level EXCEPT ![running] = intr_level]
    IN  /\ running' = t
        /\ old_level' = [saved EXCEPT ![t] = TRUE]
        /\ intr_level' = saved[t]
        /\ frames' = fs

\* The end of intr_handler for an external interrupt.
external_end ==
  /\ ~stopped /\ Depth > 0 /\ Top.phase = "handler" /\ External(Top.vec)
  /\ in_external_intr' = FALSE
  /\ pic' = pic_end_of_interrupt(Top.vec)
  /\ IF intr_level \/ ~in_external_intr
       THEN /\ stopped' = TRUE
            /\ UNCHANGED <<running, intr_level, old_level, frames>>
     ELSE /\ IF yield_on_return THEN thread_yield(TopNow([Top EXCEPT !.phase = "exit"]))
             ELSE /\ frames' = TopNow([Top EXCEPT !.phase = "exit"])
                  /\ UNCHANGED <<running, intr_level, old_level>>
          /\ UNCHANGED stopped
  /\ UNCHANGED <<yield_on_return, cr2, unexpected_cnt, raised_cnt, trap_cnt>>

\* iret: pop the frame and the flags in it.
intr_exit ==
  /\ ~stopped /\ Depth > 0
  /\ \/ Top.phase = "exit"
     \/ Top.phase = "handler" /\ ~External(Top.vec) /\ intr_level
  /\ intr_level' = Top.level
  /\ frames' = [frames EXCEPT ![running] = SubSeq(@, 1, Depth - 1)]
  /\ UNCHANGED <<running, old_level, in_external_intr, yield_on_return, cr2, pic,
                 unexpected_cnt, raised_cnt, trap_cnt, stopped>>

\* A system call from user code, or a page fault there or in a system call.
trap(v) ==
  /\ ~stopped /\ intr_level /\ trap_cnt < MaxTraps
  /\ Depth = 0 \/ (v = PAGE_FAULT /\ Depth > 0 /\ InThread /\ Top.vec = SYSCALL)
  /\ trap_cnt' = trap_cnt + 1
  /\ intr_level' = (intr_level /\ Idt[v].on)
  /\ cr2' = IF v = PAGE_FAULT THEN running ELSE cr2
  /\ frames' = Pushed(Frame(v, IF v = PAGE_FAULT THEN "entry" ELSE "handler"))
  /\ UNCHANGED <<running, old_level, in_external_intr, yield_on_return, pic,
                 unexpected_cnt, raised_cnt, stopped>>

\* The beginning of page_fault: read the fault address, turn interrupts on.
page_fault ==
  /\ ~stopped /\ Depth > 0 /\ Top.phase = "entry" /\ Top.vec = PAGE_FAULT
  /\ frames' = TopNow([Top EXCEPT !.phase = "handler", !.addr = cr2])
  /\ intr_level' = ~in_external_intr
  /\ stopped' = in_external_intr
  /\ UNCHANGED <<running, old_level, in_external_intr, yield_on_return, cr2, pic,
                 unexpected_cnt, raised_cnt, trap_cnt>>

\* Kernel code of a thread turns interrupts off, and later back on.
intr_disable ==
  /\ ~stopped /\ InThread /\ intr_level
  /\ intr_level' = FALSE
  /\ UNCHANGED <<running, frames, old_level, in_external_intr, yield_on_return, cr2,
                 pic, unexpected_cnt, raised_cnt, trap_cnt, stopped>>

intr_enable ==
  /\ ~stopped /\ InThread /\ ~intr_level
  /\ intr_level' = ~in_external_intr
  /\ stopped' = in_external_intr
  /\ UNCHANGED <<running, frames, old_level, in_external_intr, yield_on_return, cr2,
                 pic, unexpected_cnt, raised_cnt, trap_cnt>>

\* A thread yields or blocks, with interrupts on or off.
switch ==
  /\ ~stopped /\ InThread
  /\ thread_yield(frames)
  /\ stopped' = in_external_intr
  /\ UNCHANGED <<in_external_intr, yield_on_return, cr2, pic, unexpected_cnt,
                 raised_cnt, trap_cnt>>

IntrNext ==
  \/ \E v \in Lines : Raise(v) \/ intr_entry(v)
  \/ \E v \in {PAGE_FAULT, SYSCALL} : trap(v)
  \/ \E asks \in BOOLEAN : external_handler(asks)
  \/ external_end
  \/ intr_exit
  \/ page_fault
  \/ intr_disable
  \/ intr_enable
  \/ switch

IntrSpec == IntrInit /\ [][IntrNext]_ivars

-----------------------------------------------------------------------------
(* Properties. *)

Unfinished(f) == External(f.vec) /\ f.phase # "exit"

(* External interrupts are handled one at a time over all threads: the flag *)
(* in_external_intr is set exactly while one is being handled, that one is  *)
(* on top of the running thread's stack with interrupts off, and no ASSERT  *)
(* of interrupt.c fails, wherever threads are switched.                     *)
OneExternalAtATime ==
  /\ ~stopped
  /\ \A t \in IntrThreads : \A i \in DOMAIN frames[t] :
       Unfinished(frames[t][i]) =>
         t = running /\ i = Depth /\ in_external_intr /\ ~intr_level
  /\ in_external_intr => Depth > 0 /\ Unfinished(Top)

(* A thread is preempted at the end of an interrupt when that interrupt's   *)
(* handler asked for it, never because of an earlier one's request.         *)
YieldsAsAsked ==
  Depth > 0 /\ External(Top.vec) /\ Top.phase = "handler" /\ in_external_intr =>
    yield_on_return = Top.asked

(* page_fault reads the address of its own thread's fault, though another   *)
(* thread may fault at any time after interrupts are on.                    *)
FaultAddressOwn ==
  \A t \in IntrThreads : \A i \in DOMAIN frames[t] :
    LET f == frames[t][i]
    IN  f.vec = PAGE_FAULT /\ f.phase = "handler" => f.addr = t

(* Outside the handling of an external interrupt every line that a device   *)
(* has raised can be delivered: each interrupt before it was acknowledged   *)
(* at both controllers, also when its thread was preempted before the iret. *)
RaisedDeliverable ==
  ~in_external_intr => \A v \in pic.raised : Deliverable(v)
(* The handling of interrupts keeps these four promises together, which is  *)
(* what intr_handler's ASSERTs, the schedulers and page_fault rely on.      *)
InterruptsSound ==
  OneExternalAtATime /\ YieldsAsAsked /\ FaultAddressOwn /\ RaisedDeliverable
=============================================================================
