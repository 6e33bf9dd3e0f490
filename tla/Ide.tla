-------------------------------- MODULE Ide --------------------------------
(***************************************************************************)
(* One channel of pintos/src/devices/ide.c with its two disks.  The driver *)
(* is as in the code; the disk is what the driver sees of it: BSY, DRQ, an *)
(* interrupt line, and a buffer.  A disk answers within the driver's       *)
(* timeouts, and the line may be raised without a reason (the code's       *)
(* "unexpected interrupt").                                                *)
(***************************************************************************)
EXTENDS Integers, FiniteSets

CONSTANTS
  IdeThreads,      \* threads that call block_read and block_write
  Sectors,         \* sectors of a disk
  Values,          \* contents of a sector
  MaxOps,          \* bound on the calls
  MaxSpurious,     \* bound on the interrupts without a reason
  NoOp

VARIABLES
  chan,      \* struct channel: lock holder, expecting_interrupt, completion_wait
  hw,        \* the channel's registers and the disk's buffer
  disk,      \* what the two disks hold
  op,        \* the call each thread is in: kind, disk, sector, value, step
  acked,     \* the value of the last write of each sector that returned (history)
  failed,    \* "none", or the PANIC or failed ASSERT that stopped the kernel
  calls,     \* number of calls so far
  spurious   \* number of interrupts without a reason so far

ideVars == <<chan, hw, disk, op, acked, failed, calls, spurious>>

Disks == {0, 1}

IdeInit ==
  /\ chan = [holder |-> NoOp, expecting |-> FALSE, completion |-> 0]
  /\ hw = [busy |-> FALSE, drq |-> FALSE, irq |-> FALSE, device |-> 0, sector |-> 0,
           command |-> "none", buffer |-> NoOp]
  /\ disk = [d \in Disks |-> [s \in Sectors |-> CHOOSE v \in Values : TRUE]]
  /\ op = [t \in IdeThreads |-> NoOp]
  /\ acked = disk
  /\ failed = "none"
  /\ calls = 0
  /\ spurious = 0

At(t, step) == op[t] # NoOp /\ op[t].step = step

Goto(t, step) == op' = [op EXCEPT ![t].step = step]

-----------------------------------------------------------------------------
(* The driver. *)

\* ide_read and ide_write up to lock_acquire.
ide_call(t, kind, d, s, v) ==
  /\ op[t] = NoOp /\ calls < MaxOps
  /\ op' = [op EXCEPT ![t] = [kind |-> kind, disk |-> d, sector |-> s, value |-> v,
                              step |-> "lock"]]
  /\ calls' = calls + 1
  /\ UNCHANGED <<chan, hw, disk, acked, failed, spurious>>

ide_lock(t) ==
  /\ At(t, "lock") /\ chan.holder = NoOp
  /\ chan' = [chan EXCEPT !.holder = t]
  /\ Goto(t, "select")
  /\ UNCHANGED <<hw, disk, acked, failed, calls, spurious>>

\* A seeded fault: the disk may still be busy.
select_sector_at_once(t) ==
  /\ At(t, "select")
  /\ hw' = [hw EXCEPT !.irq = FALSE, !.device = op[t].disk, !.sector = op[t].sector]
  /\ Goto(t, "issue")
  /\ UNCHANGED <<chan, disk, acked, failed, calls, spurious>>

\* wait_until_idle reads the status register, which clears a pending
\* interrupt, until BSY and DRQ are clear.
select_sector(t) ==
  /\ At(t, "select") /\ ~hw.busy /\ ~hw.drq
  /\ hw' = [hw EXCEPT !.irq = FALSE, !.device = op[t].disk, !.sector = op[t].sector]
  /\ Goto(t, "issue")
  /\ UNCHANGED <<chan, disk, acked, failed, calls, spurious>>

\* A seeded fault: the interrupt of the command is not expected.
issue_pio_command_unexpected(t) ==
  /\ At(t, "issue")
  /\ hw' = [hw EXCEPT !.busy = TRUE, !.command = op[t].kind]
  /\ Goto(t, IF op[t].kind = "read" THEN "down" ELSE "busy")
  /\ UNCHANGED <<chan, disk, acked, failed, calls, spurious>>

issue_pio_command(t) ==
  /\ At(t, "issue")
  /\ chan' = [chan EXCEPT !.expecting = TRUE]
  /\ hw' = [hw EXCEPT !.busy = TRUE, !.command = op[t].kind]
  /\ Goto(t, IF op[t].kind = "read" THEN "down" ELSE "busy")
  /\ UNCHANGED <<disk, acked, failed, calls, spurious>>

\* sema_down (&c->completion_wait); a write is done after it.
completion_down(t) ==
  /\ At(t, "down") /\ chan.completion > 0
  /\ IF op[t].kind = "read"
       THEN /\ chan' = [chan EXCEPT !.completion = @ - 1]
            /\ Goto(t, "busy")
            /\ UNCHANGED acked
       ELSE /\ chan' = [chan EXCEPT !.completion = @ - 1, !.holder = NoOp]
            /\ acked' = [acked EXCEPT ![op[t].disk][op[t].sector] = op[t].value]
            /\ op' = [op EXCEPT ![t] = NoOp]
  /\ UNCHANGED <<hw, disk, failed, calls, spurious>>

\* Polls until BSY clears; without DRQ the kernel panics.
wait_while_busy(t) ==
  /\ At(t, "busy") /\ ~hw.busy
  /\ IF hw.drq THEN Goto(t, "data") /\ UNCHANGED failed
     ELSE failed' = "no data request" /\ UNCHANGED op
  /\ UNCHANGED <<chan, hw, disk, acked, calls, spurious>>

input_sector(t) ==
  /\ At(t, "data") /\ op[t].kind = "read"
  /\ hw' = [hw EXCEPT !.drq = FALSE]
  /\ op' = [op EXCEPT ![t].value = hw.buffer, ![t].step = "unlock"]
  /\ UNCHANGED <<chan, disk, acked, failed, calls, spurious>>

output_sector(t) ==
  /\ At(t, "data") /\ op[t].kind = "write"
  /\ hw' = [hw EXCEPT !.drq = FALSE, !.busy = TRUE, !.buffer = op[t].value]
  /\ Goto(t, "down")
  /\ UNCHANGED <<chan, disk, acked, failed, calls, spurious>>

\* The end of ide_read: the buffer is the caller's.
ide_unlock(t) ==
  /\ At(t, "unlock")
  /\ chan' = [chan EXCEPT !.holder = NoOp]
  /\ op' = [op EXCEPT ![t] = NoOp]
  /\ UNCHANGED <<hw, disk, acked, failed, calls, spurious>>

Waiting == \E t \in IdeThreads : At(t, "down") /\ chan.completion = 0

\* sema_up in the handler yields when the woken thread has at least the
\* priority of the one interrupted, and thread_yield asserts that it is not
\* in a handler.
interrupt_handler ==
  /\ hw.irq
  /\ IF ~chan.expecting THEN hw' = [hw EXCEPT !.irq = FALSE] /\ UNCHANGED <<chan, failed>>
     ELSE /\ hw' = [hw EXCEPT !.irq = FALSE]
          /\ chan' = [chan EXCEPT !.completion = @ + 1]
          /\ failed' \in IF Waiting THEN {"none", "yield in a handler"} ELSE {"none"}
  /\ UNCHANGED <<disk, op, acked, calls, spurious>>

-----------------------------------------------------------------------------
(* The disk. *)

\* A read has its data ready and a write wants its data: DRQ; only the read
\* interrupts for it.
DataRequest ==
  /\ hw.busy /\ hw.command \in {"read", "write"}
  /\ hw' = IF hw.command = "read"
             THEN [hw EXCEPT !.busy = FALSE, !.drq = TRUE, !.irq = TRUE,
                             !.command = "none", !.buffer = disk[hw.device][hw.sector]]
             ELSE [hw EXCEPT !.busy = FALSE, !.drq = TRUE, !.command = "store"]
  /\ UNCHANGED <<chan, disk, op, acked, failed, calls, spurious>>

\* The data of a write is on the disk.
Stored ==
  /\ hw.busy /\ hw.command = "store"
  /\ disk' = [disk EXCEPT ![hw.device][hw.sector] = hw.buffer]
  /\ hw' = [hw EXCEPT !.busy = FALSE, !.irq = TRUE, !.command = "none"]
  /\ UNCHANGED <<chan, op, acked, failed, calls, spurious>>

Spurious ==
  /\ spurious < MaxSpurious /\ ~hw.irq
  /\ spurious' = spurious + 1
  /\ hw' = [hw EXCEPT !.irq = TRUE]
  /\ UNCHANGED <<chan, disk, op, acked, failed, calls>>

ThreadStep(t) ==
  \/ ide_lock(t) \/ select_sector(t) \/ issue_pio_command(t) \/ completion_down(t)
  \/ wait_while_busy(t) \/ input_sector(t) \/ output_sector(t) \/ ide_unlock(t)

IdeNext ==
  /\ failed = "none"
  /\ \/ \E t \in IdeThreads :
          \/ \E d \in Disks, s \in Sectors :
               \/ ide_call(t, "read", d, s, NoOp)
               \/ \E v \in Values : ide_call(t, "write", d, s, v)
          \/ ThreadStep(t)
     \/ interrupt_handler \/ DataRequest \/ Stored \/ Spurious

IdeSpec == IdeInit /\ [][IdeNext]_ideVars

Working == failed = "none"

\* The machine does not stop while a disk has a command to carry out, an
\* interrupt to deliver or a thread that can go on; no step repeats for ever.
IdeProgress ==
  /\ Working
  /\ interrupt_handler \/ DataRequest \/ Stored \/ \E t \in IdeThreads : ThreadStep(t)

-----------------------------------------------------------------------------
(* Properties. *)

(* A read returns what the last write of that sector to return had written, *)
(* although a stray interrupt may leave completion_wait one ahead, so that  *)
(* later calls do not wait for their own interrupt.                         *)
ReadsLatest ==
  \A t \in IdeThreads :
    At(t, "unlock") => op[t].value = acked[op[t].disk][op[t].sector]

(* The driver never finds a disk that is not busy and wants no data, which  *)
(* it answers with a PANIC, whatever interrupts come when.                  *)
AlwaysDataRequested == failed # "no data request"

(* Reads return the latest data and the PANIC is not reached (ide_read,     *)
(* ide_write), even while completion_wait is ahead.                         *)
DriverCorrect == ReadsLatest /\ AlwaysDataRequested

(* Every call of ide_read and ide_write returns, unless the kernel stops:   *)
(* the completion of a command is never missed.                             *)
CallsReturn ==
  \A t \in IdeThreads : op[t] # NoOp ~> op[t] = NoOp \/ failed # "none"
=============================================================================
