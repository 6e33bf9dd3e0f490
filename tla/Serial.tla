------------------------------- MODULE Serial -------------------------------
(***************************************************************************)
(* Console output and input: pintos/src/lib/kernel/console.c over          *)
(* devices/serial.c, and devices/input.c, both over the interrupt queues   *)
(* of devices/intq.c.  Threads write lines under the console lock and read *)
(* keys; the serial port and the keyboard interrupt.  Code that runs with  *)
(* interrupts off is one step up to the point where it blocks or yields.   *)
(***************************************************************************)
EXTENDS Naturals, SequencesExt, FiniteSetsExt

CONSTANTS
  INTQ_BUFSIZE,    \* 64 in the code; the queue holds one byte less
  SerialWriters, SerialReaders,
  LineLength,      \* characters in a line
  Budgets,         \* bounds: lines, reads, bytes, keys, prints, flushes
  NoByte, NoOne

VARIABLES
  txq,         \* transmit queue
  inq,         \* input buffer
  uart,        \* THR, RBR and the interrupt enable register
  where,       \* per thread: "idle", "put", "get", "lock", "blocked", "woken"
  console,     \* holder of console_lock
  column,      \* characters each writer has put of its line
  sent,        \* characters that left the port (history)
  put,         \* characters in the order of intq_putc (history)
  accepted,    \* bytes that entered the input buffer (history)
  got,         \* bytes that readers received (history)
  budget,      \* what is left of the bounds
  crashed      \* a failed ASSERT

serialVars == <<txq, inq, uart, where, console, column, sent, put, accepted, got,
                budget, crashed>>

Threads == SerialWriters \cup SerialReaders

-----------------------------------------------------------------------------
(* Interrupt queues. *)

next(pos) == (pos + 1) % INTQ_BUFSIZE

intq_init == [buf |-> [i \in 0 .. INTQ_BUFSIZE - 1 |-> NoByte], head |-> 0, tail |-> 0,
              not_full |-> NoOne, not_empty |-> NoOne, lock |-> NoOne]

intq_empty(q) == q.head = q.tail

intq_full(q) == next(q.head) = q.tail

Queued(q) ==
  [i \in 1 .. (q.head + INTQ_BUFSIZE - q.tail) % INTQ_BUFSIZE |->
     q.buf[(q.tail + i - 1) % INTQ_BUFSIZE]]

\* intq_getc and intq_putc past their loops, with the signal at their end.
Taken(q) == [q EXCEPT !.tail = next(q.tail), !.not_full = NoOne]

Added(q, b) == [q EXCEPT !.buf[q.head] = b, !.head = next(q.head), !.not_empty = NoOne]

\* thread_unblock in signal.
Woken(w, t) == [x \in Threads |-> IF x = t THEN "woken" ELSE w[x]]

SerialInit ==
  /\ txq = intq_init /\ inq = intq_init
  /\ uart = [thr |-> NoByte, rbr |-> NoByte, xmit |-> FALSE, recv |-> TRUE]
  /\ where = [t \in Threads |-> "idle"]
  /\ console = NoOne
  /\ column = [t \in SerialWriters |-> 0]
  /\ sent = <<>> /\ put = <<>> /\ accepted = <<>> /\ got = <<>>
  /\ budget \in Budgets
  /\ crashed = FALSE

Spend(what) == budget[what] > 0 /\ budget' = [budget EXCEPT ![what] = @ - 1]

-----------------------------------------------------------------------------
(* The serial port. *)

\* A seeded fault: the transmit interrupt stays as it is.
write_ier_stale(u, tx, in) == [u EXCEPT !.recv = ~intq_full(in)]

write_ier(u, tx, in) == [u EXCEPT !.xmit = ~intq_empty(tx), !.recv = ~intq_full(in)]

\* putc_poll waits until the transmitter has sent what it has.
Drained == IF uart.thr = NoByte THEN sent ELSE Append(sent, uart.thr)

\* serial_putc with room in the queue: add the byte and go on with the line.
PutRoom(t, tx) ==
  LET byte == <<t, column[t] + 1>>
      last == column[t] + 1 = LineLength
      after == Added(tx, byte)
  IN  /\ txq' = after
      /\ put' = Append(put, byte)
      /\ uart' = write_ier(uart, after, inq)
      /\ column' = [column EXCEPT ![t] = IF last THEN 0 ELSE @ + 1]
      /\ where' = [where EXCEPT ![t] = IF last THEN "idle" ELSE "put"]
      /\ console' = IF last THEN NoOne ELSE console

acquire_console(t) ==
  /\ where[t] = "idle" /\ console = NoOne
  /\ Spend("lines")
  /\ console' = t
  /\ where' = [where EXCEPT ![t] = "put"]
  /\ UNCHANGED <<txq, inq, uart, column, sent, put, accepted, got, crashed>>

\* The lock of the queue is released behind wait.
after_wait(t) == IF where[t] = "woken" THEN [txq EXCEPT !.lock = NoOne] ELSE txq

\* A seeded fault: a thread that was woken is not scheduled.
Scheduled_unless_woken(t) == where[t] = "put"

\* thread_unblock has put a woken thread on the ready list.
Scheduled(t) == where[t] \in {"put", "woken"}

\* A thread with interrupts on waits for room.  The console lock keeps the
\* other writers out of intq_putc, so the queue's own lock is free.
serial_putc(t) ==
  LET q == after_wait(t)
  IN  /\ Scheduled(t)
      /\ IF intq_full(q)
           THEN IF q.lock = NoOne
             THEN /\ txq' = [q EXCEPT !.lock = t, !.not_full = t]
                  /\ where' = [where EXCEPT ![t] = "blocked"]
                  /\ UNCHANGED <<put, uart, column, console, crashed>>
             ELSE /\ crashed' = TRUE
                  /\ UNCHANGED <<txq, where, put, uart, column, console>>
           ELSE PutRoom(t, q) /\ UNCHANGED crashed
      /\ UNCHANGED <<inq, sent, accepted, got, budget>>

\* An interrupt handler that prints: interrupts are off, so a full queue is
\* relieved by polling.
serial_putc_intr ==
  LET byte == <<NoOne, Len(put)>>
      tx == IF intq_full(txq) THEN Taken(txq) ELSE txq
      after == Added(tx, byte)
  IN  /\ Spend("prints")
      /\ txq' = after
      /\ put' = Append(put, byte)
      /\ IF intq_full(txq)
           THEN /\ sent' = Drained
                /\ uart' = write_ier([uart EXCEPT !.thr = txq.buf[txq.tail]], after, inq)
                /\ where' = Woken(where, txq.not_full)
           ELSE /\ uart' = write_ier(uart, after, inq)
                /\ UNCHANGED <<sent, where>>
      /\ UNCHANGED <<inq, console, column, accepted, got, crashed>>

\* Everything goes out by polling; the interrupt enable register is not written.
serial_flush ==
  LET all == Drained \o Queued(txq)
  IN  /\ ~intq_empty(txq)
      /\ Spend("flushes")
      /\ sent' = SubSeq(all, 1, Len(all) - 1)
      /\ uart' = [uart EXCEPT !.thr = Last(all)]
      /\ txq' = [txq EXCEPT !.tail = txq.head, !.not_full = NoOne]
      /\ where' = Woken(where, txq.not_full)
      /\ UNCHANGED <<inq, console, column, put, accepted, got, crashed>>

\* Receive while there is room and a byte, transmit while there is a byte
\* and the transmitter is free.
serial_interrupt ==
  LET receives == ~intq_full(inq) /\ uart.rbr # NoByte
      sends == ~intq_empty(txq) /\ uart.thr = NoByte
      in == IF receives THEN Added(inq, uart.rbr) ELSE inq
      tx == IF sends THEN Taken(txq) ELSE txq
      u == [uart EXCEPT !.rbr = IF receives THEN NoByte ELSE @,
                        !.thr = IF sends THEN txq.buf[txq.tail] ELSE @]
      readers == IF receives THEN Woken(where, inq.not_empty) ELSE where
  IN  /\ (uart.xmit /\ uart.thr = NoByte) \/ (uart.recv /\ uart.rbr # NoByte)
      /\ inq' = in /\ txq' = tx
      /\ uart' = write_ier(u, tx, in)
      /\ accepted' = IF receives THEN Append(accepted, uart.rbr) ELSE accepted
      /\ where' = IF sends THEN Woken(readers, txq.not_full) ELSE readers
      /\ UNCHANGED <<console, column, sent, put, got, budget, crashed>>

\* The hardware: a byte leaves, a byte arrives.
Transmit ==
  /\ uart.thr # NoByte
  /\ sent' = Drained
  /\ uart' = [uart EXCEPT !.thr = NoByte]
  /\ UNCHANGED <<txq, inq, where, console, column, put, accepted, got, budget, crashed>>

Arrive ==
  /\ uart.rbr = NoByte
  /\ Spend("bytes")
  /\ uart' = [uart EXCEPT !.rbr = <<"serial", budget.bytes>>]
  /\ UNCHANGED <<txq, inq, where, console, column, sent, put, accepted, got, crashed>>

-----------------------------------------------------------------------------
(* The input buffer. *)

\* The end of keyboard_interrupt: a key is dropped when the buffer is full.
keyboard_key ==
  LET key == <<"key", budget.keys>>
      in == Added(inq, key)
  IN  /\ Spend("keys")
      /\ IF intq_full(inq) THEN UNCHANGED <<inq, accepted, where, uart>>
         ELSE /\ inq' = in
              /\ accepted' = Append(accepted, key)
              /\ where' = Woken(where, inq.not_empty)
              /\ uart' = write_ier(uart, txq, in)
      /\ UNCHANGED <<txq, console, column, sent, put, got, crashed>>

LockWaiters == {t \in SerialReaders : where[t] = "lock"}

\* input_getc from its start, or from the loop's test after lock_release.
\* The release yields when another thread waits for the queue's lock.
input_getc(t) ==
  LET woken == where[t] = "woken"
      q == IF woken THEN [inq EXCEPT !.lock = NoOne] ELSE inq
      in == Taken(q)
  IN  /\ \/ where[t] = "idle" /\ Spend("reads")
         \/ where[t] = "get" /\ UNCHANGED budget
         \/ woken /\ LockWaiters = {} /\ UNCHANGED budget
      /\ IF ~intq_empty(q)
           THEN /\ inq' = in
                /\ got' = Append(got, q.buf[q.tail])
                /\ uart' = write_ier(uart, txq, in)
                /\ where' = [where EXCEPT ![t] = "idle"]
           ELSE /\ inq' = IF q.lock = NoOne THEN [q EXCEPT !.lock = t, !.not_empty = t] ELSE q
                /\ where' = [where EXCEPT ![t] = IF q.lock = NoOne THEN "blocked" ELSE "lock"]
                /\ UNCHANGED <<got, uart>>
      /\ UNCHANGED <<txq, console, column, sent, put, accepted, crashed>>

intq_release(t) ==
  /\ where[t] = "woken" /\ LockWaiters # {}
  /\ inq' = [inq EXCEPT !.lock = NoOne]
  /\ where' = [where EXCEPT ![t] = "get"]
  /\ UNCHANGED <<txq, uart, console, column, sent, put, accepted, got, budget, crashed>>

\* lock_acquire returns after a sleep; wait asserts that the queue is empty.
intq_wait(t) ==
  /\ where[t] = "lock" /\ inq.lock = NoOne
  /\ IF intq_empty(inq)
       THEN /\ inq' = [inq EXCEPT !.lock = t, !.not_empty = t]
            /\ where' = [where EXCEPT ![t] = "blocked"]
            /\ UNCHANGED crashed
       ELSE crashed' = TRUE /\ UNCHANGED <<inq, where>>
  /\ UNCHANGED <<txq, uart, console, column, sent, put, accepted, got, budget>>

SerialNext ==
  /\ ~crashed
  /\ \/ \E t \in SerialWriters : acquire_console(t) \/ serial_putc(t)
     \/ \E t \in SerialReaders : input_getc(t) \/ intq_release(t) \/ intq_wait(t)
     \/ serial_putc_intr \/ serial_flush \/ serial_interrupt \/ keyboard_key
     \/ Transmit \/ Arrive

\* The machine does not stop while the port can send, an interrupt of it can
\* be delivered or a writer can go on; the bounds leave no step for ever.
SerialProgress ==
  /\ ~crashed
  /\ Transmit \/ serial_interrupt \/ \E t \in SerialWriters : serial_putc(t)

-----------------------------------------------------------------------------
(* Properties. *)

(* Every character queued for the serial port leaves it once and in order,  *)
(* whether by interrupt, by polling from a handler or by a flush, and every *)
(* byte received is read once and in order.                                 *)
BytesInOrder ==
  /\ put = Drained \o Queued(txq)
  /\ accepted = got \o Queued(inq)

(* The characters of one thread's line are never mixed with another's: the  *)
(* console lock is held across waits for room in the queue.                 *)
LinesWhole ==
  LET lines == SelectSeq(put, LAMBDA c : c[1] # NoOne)
  IN  \A i \in DOMAIN lines :
        lines[i][2] > 1 => i > 1 /\ lines[i - 1] = <<lines[i][1], lines[i][2] - 1>>

(* Nobody sleeps without a reason and no interrupt is masked that is        *)
(* needed: a sleeping thread is registered in the queue it waits for, whose *)
(* condition still holds, and the port may interrupt whenever there is      *)
(* something to send or room for what it receives.                          *)
SleepersRegistered ==
  /\ \A t \in SerialWriters : where[t] = "blocked" => txq.not_full = t /\ intq_full(txq)
  /\ \A t \in SerialReaders : where[t] = "blocked" => inq.not_empty = t /\ intq_empty(inq)
  /\ ~intq_empty(txq) => uart.xmit
  /\ ~intq_full(inq) => uart.recv

(* The ASSERTs of the queue fail only for a reader that slept for the       *)
(* queue's lock behind another reader: input_getc has no lock of its own,   *)
(* as the writers have.                                                     *)
AssertsNeedTwoReaders == crashed => LockWaiters # {}

(* Every line that a thread began to write is finished, however full the    *)
(* transmit queue was.                                                      *)
WritersFinish ==
  \A t \in SerialWriters : where[t] # "idle" ~> where[t] = "idle" \/ crashed
=============================================================================
