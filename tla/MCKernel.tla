------------------------------ MODULE MCKernel ------------------------------
(***************************************************************************)
(* The kernel's library, allocators, condition variables, alarm clock and  *)
(* devices for TLC.  They share no state, so one run checks them side by   *)
(* side: an initial state picks the unit that moves, and for the pure      *)
(* functions of the library the input they are checked on.                 *)
(***************************************************************************)
EXTENDS Interrupt, Ide, SequencesExt, TLC

CONSTANTS
  NULL, HEAD, END, idle_thread,
  x1, x2, x3,              \* allocations of the alarm clock
  e1, e2, e3, e4, l1, l2,  \* elements and lists
  t1, t2, t3,              \* threads that sleep, use a condition variable or a disk
  w1, w2, r1, r2           \* threads that write to and read from the console

VARIABLES
  unit,     \* the part that moves
  input,    \* for the library: the function and its arguments
  cur, status, ready_list, ready_threads, priority,         \* Timer
  ticks, thread_ticks, resched, wake, sleep_queue, sleep_elem, pc, newSleep, e,
  until, corrupted,
  links, call,                                              \* List
  buckets, bucket_cnt, elem_cnt, members,                   \* Hash
  kernel_map, user_map, arenas, free_list, owned,           \* Malloc
  holder, waiters, posted, prio, at,                        \* Condition
  mods, caps_lock, typed, down, last, rebooted,             \* Keyboard
  txq, inq, uart, where, console, column, sent, put,        \* Serial
  accepted, got, budget, crashed,
  mcur, mstatus, mready, mcount, mprio, native, nice,       \* Mlfqs
  recent_cpu, load_avg, all_list, clock, slice, preempt, step, child,
  newPriority, overtaken, made

timerVars == <<cur, status, ready_list, ready_threads, priority, ticks, thread_ticks,
               resched, wake, sleep_queue, sleep_elem, pc, newSleep, e, until, corrupted>>
listVars == <<links, call>>
hashVars == <<buckets, bucket_cnt, elem_cnt, members>>
mallocVars == <<kernel_map, user_map, arenas, free_list, owned>>
condVars == <<holder, waiters, posted, prio, at>>
kbdVars == <<mods, caps_lock, typed, down, last, rebooted>>
serialVars == <<txq, inq, uart, where, console, column, sent, put, accepted, got,
                budget, crashed>>
mlfqsVars == <<mcur, mstatus, mready, mcount, mprio, native, nice, recent_cpu, load_avg,
               all_list, clock, slice, preempt, step, child, newPriority, overtaken, made>>

-----------------------------------------------------------------------------
(* The instances.  NULL is also no element, byte, character or block. *)

\* Three threads that sleep; t3 has a lower priority.
Alarm == INSTANCE Timer WITH
  Threads <- {t1, t2, t3}, Idle <- idle_thread, Elems <- {x1, x2, x3},
  Durations <- {0, 2}, LastCall <- 1, MaxTicks <- 3, TIME_SLICE <- 1,
  InitPriority <- (idle_thread :> 2 @@ t1 :> 2 @@ t2 :> 2 @@ t3 :> 1),
  InitReady <- <<t1, t2, t3>>, yield_on_return <- resched

ASSUME Alarm!TimerAssumption

\* Two elements with equal keys, and three keys in all.
MCKey == e1 :> 1 @@ e2 :> 2 @@ e3 :> 1 @@ e4 :> 0

Lst == INSTANCE List WITH
  Elems <- {e1, e2, e3, e4}, Lists <- {l1, l2}, Key <- MCKey, MaxListed <- 3

\* Elements 1 and 11 have the same key; three of the keys share a bucket.
Hsh == INSTANCE Hash WITH
  HashElems <- {0, 1, 2, 3, 4, 11}, KeyOf <- [x \in 0 .. 11 |-> x % 10],
  HashOf <- [k \in 0 .. 9 |-> (5 * k) % 16], MIN_BUCKETS <- 1,
  BEST_ELEMS_PER_BUCKET <- 1, NONE <- NULL

\* Blocks of 2 and 4 bytes, and blocks of 9 that take two pages.
Mem == INSTANCE Malloc WITH
  PGSIZE <- 16, ARENA <- 8, MIN_BLOCK <- 2, KernelPages <- 3, UserPages <- 2,
  Requests <- {2, 3, 9}, MaxOwned <- 3, NONE <- NULL

Cond == INSTANCE Condition WITH
  CondThreads <- {t1, t2, t3}, Priorities <- {1, 2}, NoThread <- NULL

Str == INSTANCE String WITH NullPtr <- NULL

Lib == INSTANCE Stdlib WITH
  W <- 4, IntBits <- 8, BUFSIZE <- 6, Q <- 3, NotFound <- NULL

Part == INSTANCE Partition WITH SecBits <- 3, MaxDepth <- 3, NoBlock <- NULL

\* A letter, a digit, the shift, alt and ctrl keys and Caps Lock.
Kbd == INSTANCE Keyboard WITH
  PhysicalKeys <- {30, 2, 42, 54, 57400, 29, 58}, NoChar <- NULL

\* Writers against a queue of two bytes; readers with bytes from both devices.
MCBudgets ==
  {[lines |-> 2, reads |-> 1, bytes |-> 0, keys |-> 1, prints |-> 1, flushes |-> 1],
   [lines |-> 0, reads |-> 4, bytes |-> 2, keys |-> 2, prints |-> 0, flushes |-> 0]}

Ser == INSTANCE Serial WITH
  INTQ_BUFSIZE <- 3, SerialWriters <- {w1, w2}, SerialReaders <- {r1, r2},
  LineLength <- 2, Budgets <- MCBudgets, NoByte <- NULL, NoOne <- NULL

\* A second of four ticks; the lowest and the highest priority are reached.
Mlf == INSTANCE Mlfqs WITH
  Threads <- {t1, t2}, Idle <- idle_thread, Main <- t1,
  PRI_MIN <- 0, PRI_MAX <- 42, PRI_DEFAULT <- 31, TIMER_FREQ <- 4, TIME_SLICE <- 4, Nices <- {-9, 30}, MaxTicks <- 8, MaxCalls <- 2,
  Q <- 12, cur <- mcur, status <- mstatus, ready_list <- mready,
  ready_threads <- mcount, priority <- mprio, nativePriority <- native,
  ticks <- clock, thread_ticks <- slice, yield_on_return <- preempt, calls <- made

\* Names of at most three characters, of which a file may have two; octal fields
\* of four digits.
Ar == INSTANCE Archive WITH
  NameLen <- 4, OctalLen <- 5, LongBits <- 16, SectorSize <- 2, ScratchSize <- 6,
  NAME_MAX <- 2, NoFile <- NULL

-----------------------------------------------------------------------------
(* The inputs of the pure functions. *)

\* Seven bytes with two strings, at 0 and at 3, and pointers into them.
Memories == {m \in [0 .. 6 -> 0 .. 2] : m[2] = 0 /\ m[6] = 0}

Arrays == UNION {[1 .. n -> 0 .. 3] : n \in 0 .. 5}

Conversions ==
  {Lib!parse_conversion(flags, width, precision) :
     flags \in SUBSET Lib!Flags, width \in {-4, 0, 6}, precision \in {-1, 0, 2, 8}}

\* Tables of two entries: unused, extended, file system and foreign.
Tables ==
  [valid : BOOLEAN,
   entries : [1 .. 2 -> [type : {0, 5, 33, 7}, offset : {0, 1, 3, 7}, size : {0, 2, 7}]]]

\* "/", "." and a letter, in names of which one is too long.
Names == {<<97, 97, 97, 97>>} \cup UNION {[1 .. n -> {46, 47, 97}] : n \in 0 .. 3}

\* What the device held: nothing, data or the header of an older archive.
OldSectors ==
  {Ar!ZeroHeader, Ar!Padded(<<1>>, 2), Ar!ustar_make_header(<<98>>, Ar!REGULAR, 1)}

\* A name with a prefix, a plain one, and one in a directory, which is too long.
SmallFiles ==
  [name : {<<47, 97>>, <<98>>, <<98, 47, 97>>}, data : {<<>>, <<5>>, <<0, 5>>, <<5, 0, 5>>},
   stray : {0, 204}]

\* File systems to extract into: empty, with one of the names, and almost full.
Volumes ==
  {[names |-> {}, room |-> 2], [names |-> {<<97>>}, room |-> 2], [names |-> {}, room |-> 1]}

Chosen(u) ==
  CASE u = "string" -> Memories \X (0 .. 4) \X {0, 3} \X (0 .. 3)
    [] u = "sort" -> Arrays
    [] u = "divide" -> 0 .. 255
    [] u = "format" -> {-128, -1, 0, 7, 100, 127} \X Conversions
    [] u = "fixed" -> (-40 .. 40) \X (-17 .. 17)
    [] u = "partition" -> Tables
    [] u = "header" -> Names \X {Ar!REGULAR, Ar!DIRECTORY} \X {0, 8, 511}
    [] u = "archive" -> OldSectors \X (UNION {[1 .. n -> SmallFiles] : n \in 1 .. 2}) \X Volumes
    [] OTHER -> {NULL}

Units ==
  {"timer", "list", "hash", "malloc", "cond", "kbd", "serial", "ide", "intr", "mlfqs",
   "string", "sort", "divide", "format", "fixed", "partition",
   "header", "archive"}

KernelInit ==
  /\ unit \in Units
  /\ input \in Chosen(unit)
  /\ Alarm!Init
  /\ Lst!ListInit
  /\ Hsh!hash_init
  /\ Mem!MallocInit
  /\ Cond!CondInit
  /\ unit # "cond" => \A t \in DOMAIN prio : prio[t] = 1
  /\ Kbd!KbdInit
  /\ Ser!SerialInit
  /\ unit # "serial" => budget.lines = 0
  /\ IdeInit
  /\ IntrInit
  /\ Mlf!MlfqsInit

KernelNext ==
  \/ /\ unit = "timer" /\ Alarm!Next
     /\ UNCHANGED <<unit, input, listVars, hashVars, mallocVars, condVars, kbdVars, serialVars, ideVars, ivars, mlfqsVars>>
  \/ /\ unit = "list" /\ Lst!ListNext
     /\ UNCHANGED <<unit, input, timerVars, hashVars, mallocVars, condVars, kbdVars, serialVars, ideVars, ivars, mlfqsVars>>
  \/ /\ unit = "hash" /\ Hsh!HashNext
     /\ UNCHANGED <<unit, input, timerVars, listVars, mallocVars, condVars, kbdVars, serialVars, ideVars, ivars, mlfqsVars>>
  \/ /\ unit = "malloc" /\ Mem!MallocNext
     /\ UNCHANGED <<unit, input, timerVars, listVars, hashVars, condVars, kbdVars, serialVars, ideVars, ivars, mlfqsVars>>
  \/ /\ unit = "cond" /\ Cond!CondNext
     /\ UNCHANGED <<unit, input, timerVars, listVars, hashVars, mallocVars, kbdVars, serialVars, ideVars, ivars, mlfqsVars>>
  \/ /\ unit = "kbd" /\ Kbd!KbdNext
     /\ UNCHANGED <<unit, input, timerVars, listVars, hashVars, mallocVars, condVars, serialVars, ideVars, ivars, mlfqsVars>>
  \/ /\ unit = "serial" /\ Ser!SerialNext
     /\ UNCHANGED <<unit, input, timerVars, listVars, hashVars, mallocVars, condVars, kbdVars, ideVars, ivars, mlfqsVars>>
  \/ /\ unit = "ide" /\ IdeNext
     /\ UNCHANGED <<unit, input, timerVars, listVars, hashVars, mallocVars, condVars, kbdVars, serialVars, ivars, mlfqsVars>>
  \/ /\ unit = "intr" /\ IntrNext
     /\ UNCHANGED <<unit, input, timerVars, listVars, hashVars, mallocVars, condVars, kbdVars, serialVars, ideVars, mlfqsVars>>
  \/ /\ unit = "mlfqs" /\ Mlf!MlfqsNext
     /\ UNCHANGED <<unit, input, timerVars, listVars, hashVars, mallocVars, condVars, kbdVars, serialVars, ideVars, ivars>>

\* The clock interrupts and its handler runs to its end.
TimerFairness ==
  /\ WF_timerVars(unit = "timer" /\ Alarm!timer_interrupt)
  /\ WF_timerVars(unit = "timer" /\ Alarm!timer_wake)
  /\ WF_timerVars(unit = "timer" /\ Alarm!intr_yield)

KernelSpec ==
  /\ KernelInit
  /\ [][KernelNext]_<<unit, input, timerVars, listVars, hashVars, mallocVars, condVars,
                      kbdVars, serialVars, ideVars, ivars, mlfqsVars>>
  /\ TimerFairness
  /\ WF_serialVars(unit = "serial" /\ Ser!SerialProgress)
  /\ WF_ideVars(unit = "ide" /\ IdeProgress)

-----------------------------------------------------------------------------
(* The properties of the parts, as their modules state them.  Those of the  *)
(* disk driver and the interrupts are properties of this module as well.    *)

(* timer.c: a sleeping thread has an element on the sleep queue with its    *)
(* wake time, however the walks of timer_sleep interleave with timer_wake.  *)
SleepersQueued == unit = "timer" => Alarm!TypeOK /\ Alarm!SleepersQueued

(* timer.c: a thread sleeps at least as long as it asked (timer_wake).      *)
NeverEarly == Alarm!NeverEarly

(* timer.c: a sleeping thread gets on the run queue in the end (timer_wake).*)
WakesUp == Alarm!WakesUp

(* The pointer operations of list.c do to the chain of next pointers what   *)
(* the same call does to a sequence; list_sort is a stable sort.            *)
ListsAreSequences == Lst!ListsAreSequences

(* A list of list.c read backwards is the same list; a table of hash.c      *)
(* holds the elements put in and not taken out, through every rehash, done  *)
(* or failed, and one that could allocate leaves the buckets neither        *)
(* crowded nor too many.                                                    *)
ContainersSound ==
  /\ unit = "list" => Lst!LinksConsistent
  /\ unit = "hash" => Hsh!HashIsSet /\ Hsh!RehashFits

(* What clients hold of palloc.c and malloc.c never overlaps and lies in    *)
(* used pages; the counts and free lists agree and no page is lost.         *)
MemoryAccounted == unit = "malloc" => Mem!BlocksDisjoint /\ Mem!NothingLeaks

(* Every waiter of a condition that cond_signal took off the queue gets the *)
(* semaphore it sleeps on, and no other does.                               *)
SignalsArrive == unit = "cond" => Cond!SignalsArrive

(* lib/: memmove copies what was there before, however the blocks overlap;  *)
(* strtok_r returns the stretches between delimiters; strlcpy and strlcat   *)
(* stay in their buffer; the searches find what a scan finds; qsort sorts   *)
(* and bsearch finds; arithmetic.c divides exactly; what __vprintf prints   *)
(* fills its field, stays in its buffer and is parsed back by atoi; the     *)
(* fixed-point operations lose less than a unit.                            *)
LibraryExact ==
  /\ unit = "string" =>
       /\ Str!MovesOverlapping(input[1], input[2], input[3], input[4])
       /\ Str!SearchesAgree(input[1], input[2], input[3])
       /\ Str!OrderOfStrings(input[1], input[2], input[3])
       /\ input[3] = 3 /\ input[2] < 3 =>
            Str!TokensAreStretches(input[1], input[3], input[2])
       /\ input[3] = 0 => Str!CopiesBounded(input[1], 3, input[3], input[4])
  /\ unit = "sort" => Lib!SortedAndFound(input)
  /\ unit = "divide" => \A d \in 1 .. 255 : Lib!DivisionExact(input, d)
  /\ unit = "format" =>
       /\ Lib!PrintsParseBack(input[1], input[2])
       /\ Lib!FieldsFilled(input[1], input[2])
       /\ \A size \in 0 .. 5 : Lib!PrintsInBounds(input[1], input[2], size)
  /\ unit = "fixed" => Lib!FixedPointNear(input[1], input[2])

(* Every partition that partition.c finds lies inside the device, and every *)
(* entry that fits is found, under its own name.  A header composed by      *)
(* ustar.c is parsed back, and a damaged byte of it is noticed or does not  *)
(* matter.  Files that fsutil.c appends to the scratch device are extracted *)
(* once, byte for byte, and the extraction panics exactly behind a stray    *)
(* byte in the marker or at a file that the file system cannot take.        *)
FormatsExact ==
  /\ unit = "partition" =>
       \A size \in {0, 2, 4, 7} :
         Part!PartitionsInside(size, input) /\ Part!NamesFindBlocks(size, input)
  /\ unit = "header" =>
       /\ Ar!HeadersParseBack(input[1], input[2], input[3])
       /\ \A b \in {0, 32, 48, 53, 97} :
            Ar!DamageDetected(input[1], input[2], input[3], b)
  /\ unit = "archive" => Ar!ArchiveReadsBack(input[1], input[2], input[3])

(* The modifier flags of kbd.c are those of the keys held down, and a       *)
(* letter is typed as they say.                                             *)
KeysTracked == unit = "kbd" => Kbd!ModifiersTracked /\ Kbd!LettersAsHeld

(* Bytes leave the serial port and reach the readers once and in order, the *)
(* lines of two threads are not mixed on the console, a thread that sleeps  *)
(* in intq.c is registered with the interrupt that wakes it enabled, and    *)
(* the ASSERT in intq.c's wait can fail only behind a second reader.        *)
SerialSound ==
  unit = "serial" =>
    Ser!BytesInOrder /\ Ser!LinesWhole /\ Ser!SleepersRegistered /\ Ser!AssertsNeedTwoReaders

(* serial.c: a line that was begun is finished, or the kernel has stopped.  *)
WritersFinish == Ser!WritersFinish

(* thread.c: a native priority is at most one level from what recent_cpu    *)
(* and nice call for, and the load average stays between zero and the       *)
(* number of threads (thread_tick, thread_set_nice, thread_create).         *)
FeedbackSound == unit = "mlfqs" => Mlf!PrioritiesFollow /\ Mlf!LoadWithin
=============================================================================
