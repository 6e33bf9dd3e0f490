# Pintos and the mini shell in TLA+

This directory specifies the Pintos kernel under `src/pintos/src` (threads, user processes,
virtual memory, file system, drivers, library) and the job-control shell under `src/project0`.
The modules are translated from the C code. TLC checks them on small instances; TLAPS proves the
central facts about scheduling, semaphores, locks, processes, interrupts, the disk driver and the
shell's jobs for every instance.
`PROJECT.json` lists components, runs, hazards, the source lines behind each definition, and the
theorems.

Paths below are relative to `src/pintos/src` unless they begin with `project0`.

## The system and its parts

| Part | Sources | State here |
|---|---|---|
| Thread scheduler: run queue, states, priorities, idle thread | `threads/thread.c` | `Thread`, used by `Synch`, `Timer`, `Mlfqs` |
| Semaphores, locks, priority donation | `threads/synch.c` | `Synch`, abstract view `LockSpec` |
| Condition variables | `threads/synch.c` | `Condition` |
| Multi-level feedback scheduler, fixed point | `threads/thread.c`, `threads/fixedpoint.h` | `Mlfqs`, `FixedPoint` |
| Alarm clock | `devices/timer.c` | `Timer` (busy-wait delays left out) |
| Interrupts | `threads/interrupt.c`, `threads/intr-stubs.S` | `Interrupt` |
| Page and block allocators | `threads/palloc.c`, `threads/malloc.c` | `Malloc` (calloc left out), `Bitmap` |
| exec, wait, exit | `userprog/process.c`, `userprog/syscall.c`, lists in `thread.c` | `Process` |
| Page faults and other exceptions | `userprog/exception.c` | `VM`, `Process`, `Interrupt` |
| Frames, supplemental pages, swap | `vm/*.c`, `userprog/pagedir.c` | `VM` |
| File system calls and descriptors | `userprog/syscall.c`, `filesys/file.c` | `FileSyscalls` |
| Inodes, free map | `filesys/inode.c`, `filesys/free-map.c` | `Inode`, abstract view `FileSpec` |
| Directories, paths | `filesys/directory.c`, `filesys/path.c`, `filesys/filesys.c` | `Directory`, `Path` |
| Archives on the scratch device | `filesys/fsutil.c`, `lib/ustar.c` | `Archive` |
| Block devices, partitions, IDE | `devices/block.c`, `partition.c`, `ide.c` | `Partition`, `Ide` |
| Interrupt queue, serial, console, input, keyboard | `devices/intq.c`, `serial.c`, `input.c`, `kbd.c`, `lib/kernel/console.c` | `Serial`, `Keyboard` |
| Kernel library | `lib/kernel/*.c`, `lib/*.c` | `List` (abstract view `ListSpec`), `Hash`, `Bitmap`, `String`, `Stdlib` |
| Job-control shell | `project0/msh.c`, `project0/jobs.c` | `Shell` |
| Other devices, boot, context switch, user library, utilities, tests, small programs | | not modelled |

How they interact: every blocking operation of the kernel ends in `thread_block`, and every
wake-up in `thread_unblock`. The timer interrupt preempts a thread wherever interrupts are on.
Processes are threads that synchronise through two semaphores in the child's `struct thread`.
Page faults load pages under `paging_sema`, and exiting processes free frames while others evict.

**Atomicity.** Pintos runs on one processor, so a section with interrupts off is one step. In
`Synch` and `Timer` the other steps are the stretches of code between two points where another
thread may run and matter. In `Process` and `VM` the processes' kernel steps interleave freely.
In `FileSyscalls` no lock is held across a handler or in `directory.c`, so create, mkdir and remove
take a step each for the check of the path (where there is one), the search of the directory and
the write to it. `Inode`, `Malloc`, `List` and `Hash` are one call at a time. Reads and writes of one
inode hold its `extend_sema`, and `malloc.c` has its locks; but `inode_close` holds no lock
throughout, and what can happen inside it is not explored.

## Modules

### Thread
`cur`, `status`, `ready_list`, `ready_threads` and `priority` are the scheduler's variables.
`schedule`, `thread_block`, `thread_exit`, `thread_yield` and `thread_unblock` are action
fragments with the code's queue positions: a yielding thread goes behind its equals, an
unblocked one in front of them. The module has no behaviours of its own; three others extend it.

### Synch and LockSpec
Each thread has a program counter `pc`, the object `obj` it works on and the locals of the
operation (`ptr`, `mark`, `hasWaiter`). Actions: `sema_down` and its loop, `sema_try_down`,
`sema_up` with its trailing yield, `sema_up_intr`; the steps of `lock_acquire` (read the holder,
test, append to `donors[]`, update priorities, down, set holder, clear donee),
`lock_try_acquire`, and of `lock_release` (compact, trim, update, clear, up, yield);
`thread_set_priority`; exit, sleep, wake, yield and the idle loop.

`panicked` marks a failed `ASSERT` or a write past an array; the model stops there. Simplified:
the append to `donors[]` (with `numDonors` and `donees`) is one step although interrupts are on.
Clients obey the documented preconditions and take nested locks in the order `Rank`.

`LockSpec` is the promise to clients: a free lock gets one owner, and only that owner frees it.
`Synch` implements it with `LockOwner[l]` = the thread that took the lock's semaphore and has not
given it back (`Owns`), whatever `lock->holder` says at that moment.

### Timer
The sleep queue is a sequence of element names, `sleep_elem` their contents. `timer_sleep` is
one action per step of its walk, because interrupts are on during it; `timer_wake` is one action
per round, inside the interrupt (`wake` is its position). A pointer to a freed element sets
`corrupted` and the model stops. `until` is a history variable: what the last call asked for.

### Condition
One condition variable and its lock. `cond_wait` is three steps (queue and release, down, lock
again), `cond_broadcast` one step per signal. Priorities may change at any time.

### Mlfqs and FixedPoint
`timer_interrupt` is `thread_tick` with `thread_mlfqs`: load average each second, decay of
everyone's `recent_cpu`, the running thread's tick, and every fourth tick all priorities.
`thread_set_nice` computes the priority with interrupts on and sets it in a later step;
`thread_create` is `init_thread`, `inherit`, `create_unblock`, `create_yield`. Nothing is donated,
and clients do not call `thread_set_priority`, which the code does not refuse in this mode.
`FixedPoint` is the arithmetic, with C's division towards zero.

### Interrupt
Each thread has a stack of interrupt frames with its phase (entry, handler, exit). The table
`Idt` is what `intr_init`, the devices, `exception_init` and `syscall_init` register. The global
flags `in_external_intr` and `yield_on_return` survive thread switches, `cr2` holds the last fault,
and the two 8259A controllers (external) hold the raised lines and their in-service bits.

### Ide
One channel with two disks: `ide_call`, lock, select, command, wait, transfer and unlock are the
steps of a call; `interrupt_handler` ups `completion_wait`. `expecting_interrupt` is never reset,
as in the code, so an interrupt without a reason (`Spurious`) leaves the semaphore one ahead. The
disk's side (external) raises BSY, DRQ and the line. It answers within the driver's time-outs.

### Serial and Keyboard
`Serial` has the transmit queue and the input buffer (both `intq.c`), the console lock, polling
output with interrupts off, `serial_flush`, and readers fed by serial port and keyboard. A failed
`ASSERT` sets `crashed`. `Keyboard` is `keyboard_interrupt` over the code's key maps.

### Inode and FileSpec
A disk of a few sectors, the free map in memory and in its file, and inodes with block pointers
and a chain of further nodes. A call may find no memory or no sector; `Restart` keeps the disk
only. `FileSpec` says that a file is a sequence of bytes; `Inode` implements it (`FilesKept`) for
the bytes its first node describes. Bytes further on cannot be reached by the code: `prev_length`
is always 0, `byte_to_sector` returns -1, and the access to that sector panics. The model stops
there.

### Path, Directory and FileSyscalls
`Path` normalises components. `Directory` has the slots, the walks and the calls of `filesys.c`
as operators on a record. `FileSyscalls` has the processes: working directories, handle lists,
positions, and `pending`, what a call has still to do: act on the path it checked, write the slot
it found, or give a handle to the inode it opened. As in the code, `dir_get_leaf` stops at the last
directory that exists, `chdir` accepts a file, and a failed walk can leave an inode open. A name has
a length, and `dir_create` keeps its first `NAME_MAX` characters (`Cut`). The root's inode is
counted like the others: `filesys_open` of `/` closes it before it puts it into the file.

The model stops (`stopped`) where the code goes on with a broken structure: behind a mkdir whose
second `inode_create` finds the disk full (`torn`), behind a write to a directory that another
process changed since the search (`overtaken`), and where the root's inode is used after its last
opener closed it (`dangling`).

### Library, allocators and tables
`List` rewrites the pointers of `list.c`, and `ListSpec` is sequences. `Hash` has the buckets, with
a rehash that may fail. `Malloc` puts arenas on page pools. `String` and `Stdlib` are the functions
themselves, loop by loop, over small memories, arrays and words. `memmove` returns what the code
leaves in `dst`: after an ascending copy the end of the block, where the comment (`lib/string.c:22`)
says DST. `Partition` reads tables with sector numbers that wrap; as in the code every table is
sector 0, so an extended partition recurses until the depth bound. A write to a foreign partition
fails the `ASSERT` of `block_write`. `Archive` writes and parses ustar headers, sectors and the end
marker. The code writes the marker twice to the same sector, although its comment says two
consecutive ones, and the second time from `buffer + 1`: the last byte is whatever is behind the
allocated block, an input of the model (`stray`). An extraction panics at a file that the file
system cannot take: its name is too long or taken, or there is no room.

### Process
A process is named by its tid. `thread_page` says whose `struct thread` is in each page, because
parents keep pointers to pages that are freed and reused. A free page reads as 0xcc bytes
(`palloc_free_page` fills it), so a semaphore there looks positive. A program is one of three
kinds: it loads, load rejects it, or load rejects its ELF header. All user processes have one
priority; `sema_up` yields to the thread it wakes, so an up that finds a waiter completes the
waiter's down in the same step. `ended` records how a process really ended.

### VM
A page is a pair of process and address; the content of a frame or swap slot is the page it
belongs to and a version (0 initial, 1 written). Actions follow a fault through
`load_page_entry`, the clock (`evict_clock`, up to three revolutions), unmapping and the choice of
a slot, the write to swap, the relinking of the frame, the fill and the installation.
`page_table_destroy` is an exit or a kill. A pointer to a freed frame becomes `STALE`; following
it, like a failed `ASSERT`, sets `panicked`.

Simplified: the accessed bit is an arbitrary input; a short `file_read` and a failing
`pagedir_set_page` do not happen; an exiting process frees its entries in address order; the
swap partition is a whole number of pages. Pinning is implied by `paging_sema`.

### Shell
The job list with `addjob`, `deletejob` and the lookups, and the steps of `eval`, `do_bgfg` and
`waitfg`. Handlers run between any two steps unless their signal is blocked. `news` is what
`waitpid` has not reported, `chld` the single pending SIGCHLD. Children and the user are the
environment. `crashed` is a null pointer followed. `waitpid`, `kill` and the children are
external: modelled from how the shell uses them.

## Runs

Operators named `x_something` beside an `x`, and definitions commented "Seeded fault", are faulty
variants used to confirm that each property can fail.

| Run | Instance | Checked |
|---|---|---|
| `sema` | 3 threads, 2 priorities, 2 semaphores up to 2, `thread_set_priority` | `RunsHighest`; also deadlock freedom |
| `locks` | 3 threads of 3 priorities chained over 2 locks, `donors[]` of 2 | `MutualExclusion`, `DonationInForce`, `LockOwnership` |
| `intr` | 2 threads that exit, sleep and set priorities, 1 lock, 1 semaphore upped by an interrupt | `QueueDiscipline`, `DonationInForce` |
| `process_wait` | 4 processes, 2 pages | `ExitStatusPresent`, `WaitReturnsStatus` |
| `shell_jobs` | 3 pids, a list of 2 jobs | `AtMostOneForeground`, `NoMissedChild`, `JobsKept`, `ForegroundReturns` |
| `vm` | 1 process, 4 pages or a stack of 3, 2 frames, 3 slots; and 2 processes, 2 pages each, 2 frames, 1 slot, one read-only page | `TablesAgree`, `PagesIsolated`; alone: `WritesKeptAlone`, `FaultsServedAlone` |
| `filesys` | 7 sectors of 2 bytes, 2 pointers per node, roomy or nearly full; and five sets of processes and paths over 3 inodes | `ReadsContents`, `SectorsOwned`, `FilesKept`; `HandlesLive`, `EntriesSound`, `PathsResolve`, `ActsWhereNamed`, `RemovesEmpty` |
| `kernel` | the parts below, side by side | see below |

`vm`, `filesys` and `kernel` check parts that share no state: the variable `unit` of an initial
state says which part moves, and for the pure functions `input` is their argument. The parts of
`kernel`, with the conjuncts of a property in brackets:

| Part | Instance | Checked |
|---|---|---|
| alarm clock | 3 threads, sleeps of 0 or 2 ticks called at ticks 0 and 1 | `SleepersQueued`, `NeverEarly`, `WakesUp` |
| feedback scheduler | 2 threads, 12 bits after the point, seconds of 4 ticks, 8 ticks, 2 calls, priorities to 42 | `FeedbackSound` (`PrioritiesFollow`, `LoadWithin`) |
| fixed point | 3 bits after the point | `LibraryExact` (`FixedPointNear`) |
| lists | 4 elements (two with equal keys), 2 lists | `ListsAreSequences`, `ContainersSound` (`LinksConsistent`) |
| hash tables | 6 elements, two with the same key | `ContainersSound` (`HashIsSet`, `RehashFits`) |
| allocators | pages of 16 bytes, 3 kernel and 2 user pages | `MemoryAccounted` (`BlocksDisjoint`, `NothingLeaks`) |
| condition variable | 3 threads, 2 priorities | `SignalsArrive` |
| strings | memories of 7 bytes with two strings | `LibraryExact` (`MovesOverlapping`, `TokensAreStretches`, `CopiesBounded`, `SearchesAgree`, `OrderOfStrings`) |
| sorting, division, printing | arrays of up to 5, words of 4 bits, ints of 8 bits, a buffer of 6 | `LibraryExact` (`SortedAndFound`, `DivisionExact`, `PrintsParseBack`, `FieldsFilled`, `PrintsInBounds`) |
| partitions | sector numbers of 3 bits, 2 entries, depth 3 | `FormatsExact` (`PartitionsInside`, `NamesFindBlocks`) |
| archives | names of 3 characters, of which a file may have 2, 6 sectors of 2 bytes, 2 files, 3 file systems to extract into | `FormatsExact` (`HeadersParseBack`, `DamageDetected`, `ArchiveReadsBack`) |
| keyboard | 7 keys | `KeysTracked` (`ModifiersTracked`, `LettersAsHeld`) |
| serial port and input | queues of 2 bytes, 2 writers of lines of 2, 2 readers | `SerialSound` (`BytesInOrder`, `LinesWhole`, `SleepersRegistered`, `AssertsNeedTwoReaders`), `WritersFinish` |
| disk driver | 2 threads, 1 sector per disk, 2 values, 3 calls, 1 stray interrupt | `DriverCorrect` (`ReadsLatest`, `AlwaysDataRequested`), `CallsReturn` |
| interrupts | 2 threads, lines 0x20, 0x25 and 0x2e, 2 raised, 2 traps | `InterruptsSound` (`OneExternalAtATime`, `YieldsAsAsked`, `FaultAddressOwn`, `RaisedDeliverable`) |

**Why the bounds reach the interesting cases.** Three threads give a chain of two donations, and a
waiter that loses a semaphore to a third thread. `donors[]` of size 2 can overflow. Three
sleepers can free an element under another one's pointer. With two pages and three descendants a
`struct thread` page is reused while a parent still points to it. A job list of two is full with
the third child. Two frames for four pages force evictions of dirty and clean pages; one slot
makes the swap partition full. Two pointers per node and lengths up to 5 make a file reach its
second node, and seven sectors make growth fail half-way. Two processes on the paths `/a` and `/a/b`
search and write one directory at the same time, and fill a directory that the other is removing;
the other sets have relative paths, a name that `lookup` refuses, a name of `NAME_MAX` characters
and a longer one, and two processes that open one name and come and go. Queues of two bytes fill up with a
line. A second of four ticks, like the code's hundred, is a multiple of four, so the decay and the
recalculation fall on the same tick; the priorities reach both ends. Of the three interrupt lines
two are the master controller's and one the slave's. Narrow words make overflow occur, and every
quotient.

Deadlock checking is off where the system may stop: all threads may exit or sleep, the clock is
bounded, the kernel may halt.

### Runs that end in a violation
Each states what the repository says and shows that the code does otherwise.

* `lost_wakeup` (`NoLostWakeup`): `sema_down` joins the waiters once; a woken thread that loses
  the value blocks again on no list, and no later `sema_up` wakes it.
* `compaction` (`PriorityRecomputed`): if the last donor belongs to another lock, `lock_release`
  drops nothing and does not recompute the priority.
* `process_exec` (`ExecReturns`): after a bad ELF header `load` downs its local semaphore twice,
  so the parent stays in exec.
* `vm_lost` (`WritesPreserved`): `is_dirty` looks in the page directory of the evicting process,
  so a page another process wrote is dropped.

### Reached in the models, without a property
The runs also pass through states where the model stops because the code does: a holder that
exited before the donation (`stale_holder`), a write past `donors[]` (`acquire_overflow`), a yield
inside an interrupt (`sema_up_intr`), a freed sleep element (`stale_pointer`), a freed frame under
the clock hand, a stack extension over a present page, a deleted job under `waitfg`, a byte of a
file beyond its first node, an extended partition, a second reader's `ASSERT` in `intq.c`, and a
mkdir `torn`, a directory write `overtaken` and a root inode `dangling`. The safety properties hold up to those
states and say nothing beyond them; `WakesUp`, `FaultsServedAlone`, `ForegroundReturns`,
`WritersFinish` and `CallsReturn` explicitly accept them as an end.

`RunsHighest` is checked without locks, sleepers and interrupts only. It does not hold with them:
`updateActivePriority` leaves a raised thread at its place in the run queue, and `timer_wake`
makes a thread ready without yielding to it. `WritesKeptAlone` is for one process and
enough swap: with a full partition `push_to_swap` returns false and the page is dropped, where
the comments at `vm/frame.c:35` and `vm/swap.c:62` expect a panic. `WaitReturnsStatus` leaves out
children ended by `kill` in `exception.c`, which stores no status although `process_wait`'s
comment promises -1. `HandlesLive` says that an inode is counted at least as often as it is held:
at exit only files are closed, so the count can stay too high; the root is left out, because a file
of `/` is not counted. `EntriesSound` allows two equal names that `lookup` could not find: mkdir
stores only the first `NAME_MAX` characters of a longer name it looked up whole, and `dir_add`
takes names with characters that `lookup` refuses. `ActsWhereNamed` and `RemovesEmpty` are about
paths that mean the same from the root, before and after `path_abspath`: remove checks a relative
path from the working directory and acts on it from the root, and a path with `..` is normalised
for the check and followed as it is for the act. `RemovesEmpty` allows what nothing in the code
prevents: a directory that another process filled after the check goes with its entries.
`DivisionExact` leaves out the remainders of 64-bit divisions that do not fit in 32 bits, to which
`umod64` and `smod64` cut what they return. `PrioritiesFollow` is about the
native priority, and leaves out a thread whose `thread_set_nice` was overtaken by a recalculation;
`thread_create` does not update the child's effective priority. `FieldsFilled` leaves out a
negative `*` width with the `0` flag, which `stdio.c` pads on both sides.

## Fairness

* `Timer`: weak fairness of the interrupt, `timer_wake` and the yield on return. The 8254
  interrupts periodically, and a handler runs to its end. No fairness for threads: a sleeper is
  woken by the interrupt alone.
* `Process`: weak fairness of each process's kernel steps: equal priorities are scheduled round
  robin. Programs may do nothing.
* `VM`: strong fairness of the kernel steps of the process that runs alone. A process waiting for
  `paging_sema` is enabled again and again; the semaphore's wait list serves it. The lost wake-up
  of `Synch` is not part of this model, so `FaultsServedAlone` is relative to semaphores that
  serve their waiters.
* `Shell`: weak fairness of the main loop and of the handlers; none for user and children.
* `Serial` and `Ide`: one weak fairness each, of the steps of the port, its interrupt and the
  writers, and of the disks, their interrupt and the threads inside a call. The machine does
  something as long as one of them can, and the bounds let no step repeat for ever. None for new
  calls, readers and stray interrupts.
* `Synch`, `Condition`, `Mlfqs`, `Interrupt` and the file system assume none; only safety is
  checked.

## Proofs

### Semaphores, locks and the scheduler
`SynchProofs` proves, for any threads, semaphores, locks, priorities and bounds that satisfy
`ThreadAssumption` and `SynchAssumption`:

* `TypeCorrect`: `Spec => []TypeOK`;
* `QueuesDisciplined`: `Spec => []QueueDiscipline`;
* `LocksExclude`: `Spec => []MutualExclusion`;
* `LocksRefine`: `Spec => LockOwnership`, that is, `Synch` implements `LockSpec`;
* `HighestRuns`: `Spec => []RunsHighest`, under the hypothesis `SemaphoresOnly`.

The inductive invariant is `IInv == TypeOK /\ QueueDiscipline /\ MutualExclusion /\ PointOK`.
`PointOK` is needed because mutual exclusion is not inductive alone. It ties each thread's
program counter to its lock: from the moment the semaphore is taken until `holder` is set, and
from the moment `holder` is cleared until the semaphore is given back, nobody is recorded as the
holder, and in between the thread itself is.

This argument is layered. `SynchTypes` begins with facts on inserting into and removing from
sequences without repetition, and shows that each scheduler fragment keeps `RunQueue` and the
types. `SynchQueues` shows that each action keeps `PointOK` and the queues. `SynchProofs` reduces
every action to one of three effects on locks (nothing, one thread takes a free lock, the owner
gives it back), from which it derives exclusion and the refinement.

`HighestRuns` needs more: `HighInv` says that the run queue is sorted, that only a thread about
to yield can be behind a ready one (in `thread_set_priority`, and in `sema_up` behind the thread
it woke), and that no thread holds a donation. `SemaphoresOnly` is the hypothesis that there are
no locks, no sleepers and no semaphores upped by interrupts, and that the highest thread starts;
the instance of run `sema` satisfies it, and without it the property is false (see above).

The assumptions on the constants only say that they have their types, that threads, objects and
`NULL` are distinct, and that the initial run queue holds the ready threads once. The proofs share
the abstractions of `Synch` named above.

### Processes
`ProcessProofs` proves, for any number of processes and pages, `ExitStatusInvariant`
(`Spec => []ExitStatusPresent`) and `WaitReturnsEnd` (`Spec => WaitReturnsStatus`). The inductive
invariant `IInv` is in `ProcessSteps`, with the steps that concern one process only. It relates
what the code keeps in different places: a process on `all_list` has one page (`PagesOK`); a
semaphore in that page is up only after its own process raised it (`SemasOK`); a process is on one
child list, and was waited for only if it is dead (`ListsOK`); a status stays on `exit_list` until
the parent waited for it or leaves (`StatusOK`); and the page that a `wait` points to is still
the child's, or the child is gone (`CallsOK`). The last part is the heart of it: the page of a
gone child may belong to a stranger or be free, and what `sema_down` finds there must do no harm,
because by then the child's status is final (`EndedOK`).

### Shell
`ShellProofs` proves, for any number of children and any size of the job list, `OneForeground`,
`NoChildMissed` and `JobsStay`: `AtMostOneForeground`, `NoMissedChild` and `JobsKept` of run
`shell_jobs`. The invariant `IInv` says that no process has two jobs, that `waitpid` has something
to report only while SIGCHLD is pending or handled, that from fork to `addjob` no handler can
touch the list, and that a foreground job is the one the main loop works for. The proofs rest on
what the model says of the system calls, above all that fork returns a pid no job names. `nextjid`
may pass `MAXJOBS`, because `deletejob` sets it to one more than the largest jid in use, so the
invariant only says that the jids are bounded; `MaxElement` then gives that largest jid.

### Interrupts and the disk driver
`InterruptProofs` proves, under `Machine` (there is a thread, and devices raise only lines of the
two controllers), that `IntrSpec => []InterruptsSound` (`InterruptsAlwaysSound`). The inductive
invariant `IntrInv` adds where an unread page fault can be (only on top of the running thread's
stack, with `cr2` still its own), that nobody has asked for a yield before the handler ran, and
that exactly the line being handled is in service. It rests on the gates: every device line and
the page fault turn interrupts off.

`IdeProofs` proves, under `Distinct` (`NoOp` is neither a thread nor a call, and there are
values), that `IdeSpec => []DriverCorrect` (`DriverAlwaysCorrect`), whatever stray interrupts
come. The invariant `IdeInv` says, for every step of the call that holds the channel, what the
disk can be doing, and that a sector whose write has returned holds its value or is just being
stored. So the data stays right even when `completion_wait` is ahead and no call waits for its own
interrupt.

### Model-checked only
* Every liveness property: fairness and ENABLED are beyond the prover.
* The functions of the kernel library, paths, directories and bitmaps: they are recursive, and the
  prover has no induction over data. So are the refinements of `FileSpec` and `ListSpec`, which
  rest on such functions.
* `DonationInForce`, and virtual memory, alarm clock, condition variables, feedback scheduler,
  serial port and keyboard: no proof has been written.

## Not modelled

* Boot, loader, context switch, descriptor tables and the remaining devices (PIT, RTC, speaker,
  VGA, shutdown, PCI, USB): hardware set-up and register access.
* The disk driver's detection, reset and time-outs (`wait_until_idle` goes on after one); the timer's busy-wait delays.
* Checks of user pointers, argument passing and the parsing of ELF files: data. A bad pointer ends
  the process, which `FileSyscalls` allows at any point.
* `calloc` with its overflow test, `random.c`, `debug.c`, and ls, cat and rm of `fsutil.c`.
* Interleavings inside one call of `inode.c` or one walk of a path, another thread that gets the
  block `dir_child` relies on (it assigns its result to its parameter, and `dir_get_leaf` goes on
  with the block it freed), and a crash between two writes of one call: the code has no recovery whose promise could be stated.
* User library, example programs, host utilities, tests and the small programs of project 0.

## Reproducing

    tlc -config Synch_locks.cfg MCSynch
    tlc -config VM_paging.cfg MCPaging
    tlc -config Kernel.cfg MCKernel
    tlapm SynchTypes.tla
    tlapm SynchQueues.tla
    tlapm SynchProofs.tla
    tlapm ProcessSteps.tla
    tlapm ProcessProofs.tla
    tlapm ShellProofs.tla
    tlapm InterruptProofs.tla
    tlapm IdeProofs.tla

`PROJECT.json` names the module and configuration of every run.
