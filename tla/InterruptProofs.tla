--------------------------- MODULE InterruptProofs ---------------------------
(***************************************************************************)
(* Interrupt handling is correct for any number of threads, lines and      *)
(* interrupts.  One inductive invariant carries the four properties of     *)
(* Interrupt: it says where an unfinished external interrupt and an        *)
(* unread page fault can be, what the handler has asked for so far, and    *)
(* which lines the controllers have in service.                            *)
(***************************************************************************)
EXTENDS Interrupt, TLAPS

\* There is a thread, and devices raise lines of the two controllers only.
Machine == IntrThreads # {} /\ Lines \subseteq 32 .. 47

Phases == {"entry", "handler", "exit"}

FrameSet == [vec : Vectors, level : BOOLEAN, phase : Phases, asked : BOOLEAN,
             addr : IntrThreads]

IntrTypeOK ==
  /\ running \in IntrThreads
  /\ intr_level \in BOOLEAN
  /\ frames \in [IntrThreads -> Seq(FrameSet)]
  /\ old_level \in [IntrThreads -> BOOLEAN]
  /\ in_external_intr \in BOOLEAN
  /\ yield_on_return \in BOOLEAN
  /\ cr2 \in IntrThreads
  /\ pic \in [raised : SUBSET Lines, master : SUBSET (0 .. 7), slave : SUBSET (0 .. 7)]

\* A page fault whose address has not been read yet.
Unread(f) == f.vec = PAGE_FAULT /\ f.phase = "entry"

\* Only the frame on top of the running thread's stack may be unread, and
\* the processor's fault address is still its own.
UnreadOnTop ==
  \A t \in IntrThreads : \A i \in 1 .. Len(frames[t]) :
    Unread(frames[t][i]) => t = running /\ i = Depth /\ ~intr_level /\ cr2 = running

\* Before its handler has run, nobody has asked this interrupt to yield.
NotYetAsked ==
  in_external_intr /\ Top.phase = "entry" => ~yield_on_return /\ ~Top.asked

\* The line being handled is in service at its controllers, and no other.
ServiceExact ==
  /\ ~in_external_intr => pic.master = {} /\ pic.slave = {}
  /\ in_external_intr =>
       /\ pic.master = {MasterLine(Top.vec)}
       /\ pic.slave = IF Top.vec >= 40 THEN {Top.vec - 40} ELSE {}

IntrInv ==
  /\ IntrTypeOK
  /\ OneExternalAtATime
  /\ UnreadOnTop
  /\ FaultAddressOwn
  /\ NotYetAsked
  /\ YieldsAsAsked
  /\ ServiceExact

-----------------------------------------------------------------------------
(* The gates. *)

(* Every line of a device has a gate that turns interrupts off, and so has  *)
(* the page fault.                                                          *)
LEMMA GatesOff ==
  ASSUME Machine
  PROVE  /\ \A v \in Lines : v \in Vectors /\ External(v) /\ Idt[v].on = FALSE
         /\ Idt[PAGE_FAULT].on = FALSE /\ Idt[SYSCALL].on = TRUE
         /\ ~External(PAGE_FAULT) /\ ~External(SYSCALL)
         /\ PAGE_FAULT \in Vectors /\ SYSCALL \in Vectors
<1>1. \A v \in Lines : v \in 32 .. 47
  BY DEF Machine
<1>2. \A v \in Vectors : v # SYSCALL => Idt[v].on = FALSE
  BY DEF Idt, syscall_init, exception_init, devices_init, intr_init, Vectors,
     register_handler, intr_register_ext, intr_register_int
<1>3. Idt[SYSCALL].on = TRUE
  BY DEF Idt, syscall_init, exception_init, devices_init, intr_init, Vectors,
     register_handler, intr_register_ext, intr_register_int
<1>4. \A v \in Lines : v \in Vectors /\ External(v) /\ Idt[v].on = FALSE
  BY <1>1, <1>2 DEF Vectors, External, SYSCALL
<1>5. QED
  BY <1>2, <1>3, <1>4 DEF Vectors, External, PAGE_FAULT, SYSCALL

-----------------------------------------------------------------------------
(* What the operations on the stack of frames do. *)

(* A stack is a sequence of frames and its top, if any, is one of them.     *)
LEMMA StackFacts ==
  ASSUME IntrTypeOK
  PROVE  /\ Stack \in Seq(FrameSet) /\ Depth \in Nat
         /\ Depth > 0 => Top \in FrameSet
         /\ \A t \in IntrThreads : /\ Len(frames[t]) \in Nat
                                  /\ DOMAIN frames[t] = 1 .. Len(frames[t])
                                  /\ \A i \in 1 .. Len(frames[t]) : frames[t][i] \in FrameSet
BY DEF IntrTypeOK, Stack, Depth, Top

(* Entering an interrupt adds its frame on top and leaves all others.       *)
LEMMA PushFacts ==
  ASSUME IntrTypeOK, NEW f \in FrameSet, frames' = Pushed(f)
  PROVE  /\ frames' \in [IntrThreads -> Seq(FrameSet)]
         /\ \A t \in IntrThreads : t # running => frames'[t] = frames[t]
         /\ Len(frames'[running]) = Depth + 1
         /\ frames'[running][Depth + 1] = f
         /\ \A i \in 1 .. Depth : frames'[running][i] = frames[running][i]
BY DEF IntrTypeOK, Pushed, Stack, Depth

(* A handler changes the frame on top only.                                 *)
LEMMA TopNowFacts ==
  ASSUME IntrTypeOK, Depth > 0, NEW f \in FrameSet, NEW fs, fs = TopNow(f)
  PROVE  /\ fs \in [IntrThreads -> Seq(FrameSet)]
         /\ \A t \in IntrThreads : t # running => fs[t] = frames[t]
         /\ Len(fs[running]) = Depth
         /\ fs[running][Depth] = f
         /\ \A i \in 1 .. Depth : i # Depth => fs[running][i] = frames[running][i]
<1>1. fs[running] = [Stack EXCEPT ![Depth] = f]
  BY DEF IntrTypeOK, TopNow, Stack, Depth
<1>2. Stack \in Seq(FrameSet) /\ Depth \in 1 .. Len(Stack) /\ Depth = Len(Stack)
  BY DEF IntrTypeOK, Stack, Depth
<1>3. fs[running] \in Seq(FrameSet) /\ Len(fs[running]) = Depth
  BY <1>1, <1>2
<1>4. \A t \in IntrThreads : t # running => fs[t] = frames[t]
  BY DEF IntrTypeOK, TopNow
<1>5. fs \in [IntrThreads -> Seq(FrameSet)]
  BY <1>3, <1>4 DEF IntrTypeOK, TopNow
<1>6. QED
  BY <1>1, <1>2, <1>3, <1>4, <1>5 DEF Stack

(* An iret takes the frame on top away and leaves all others.               *)
LEMMA PopFacts ==
  ASSUME IntrTypeOK, Depth > 0,
         frames' = [frames EXCEPT ![running] = SubSeq(@, 1, Depth - 1)]
  PROVE  /\ frames' \in [IntrThreads -> Seq(FrameSet)]
         /\ \A t \in IntrThreads : t # running => frames'[t] = frames[t]
         /\ Len(frames'[running]) = Depth - 1
         /\ \A i \in 1 .. (Depth - 1) : frames'[running][i] = frames[running][i]
<1>1. frames'[running] = SubSeq(Stack, 1, Depth - 1)
  BY DEF IntrTypeOK, Stack
<1>2. Stack \in Seq(FrameSet) /\ Depth = Len(Stack) /\ Depth \in Nat
  BY DEF IntrTypeOK, Stack, Depth
<1>3. /\ SubSeq(Stack, 1, Depth - 1) \in Seq(FrameSet)
      /\ Len(SubSeq(Stack, 1, Depth - 1)) = Depth - 1
      /\ \A i \in 1 .. (Depth - 1) : SubSeq(Stack, 1, Depth - 1)[i] = Stack[i]
  BY <1>2
<1>4. \A t \in IntrThreads : t # running => frames'[t] = frames[t]
  BY DEF IntrTypeOK
<1>5. frames' \in [IntrThreads -> Seq(FrameSet)]
  BY <1>1, <1>3, <1>4 DEF IntrTypeOK
<1>6. QED
  BY <1>1, <1>3, <1>4, <1>5 DEF Stack

-----------------------------------------------------------------------------
(* The invariant. *)

(* With interrupts on no external interrupt is being handled and no fault   *)
(* is unread, and outside external interrupts no frame is an unfinished     *)
(* one.                                                                     *)
LEMMA QuietFacts ==
  ASSUME Machine, IntrInv
  PROVE  /\ intr_level => ~in_external_intr
         /\ Depth > 0 /\ ~Unfinished(Top) => ~in_external_intr
         /\ Depth = 0 => ~in_external_intr
         /\ in_external_intr <=> Depth > 0 /\ Unfinished(Top)
         /\ ~in_external_intr => \A t \in IntrThreads : \A i \in 1 .. Len(frames[t]) :
                                  ~Unfinished(frames[t][i])
         /\ intr_level \/ Depth = 0 \/ ~Unread(Top) =>
              \A t \in IntrThreads : \A i \in 1 .. Len(frames[t]) : ~Unread(frames[t][i])
<1>1. /\ IntrTypeOK /\ OneExternalAtATime /\ UnreadOnTop
  BY DEF IntrInv
<1>2. \A t \in IntrThreads : DOMAIN frames[t] = 1 .. Len(frames[t])
  BY <1>1, StackFacts
<1>3. Depth \in Nat /\ running \in IntrThreads
  BY <1>1, StackFacts DEF IntrTypeOK
<1>4. \A t \in IntrThreads : \A i \in 1 .. Len(frames[t]) :
        Unfinished(frames[t][i]) => t = running /\ i = Depth /\ in_external_intr /\ ~intr_level
  BY <1>1, <1>2 DEF OneExternalAtATime
<1>5. in_external_intr => Depth > 0 /\ Unfinished(Top)
  BY <1>1 DEF OneExternalAtATime
<1>6. Depth > 0 /\ Unfinished(Top) => in_external_intr /\ ~intr_level
  BY <1>3, <1>4 DEF Top, Stack, Depth
<1>7. \A t \in IntrThreads : \A i \in 1 .. Len(frames[t]) :
        Unread(frames[t][i]) => Depth > 0 /\ Unread(Top) /\ ~intr_level
  BY <1>1, <1>3 DEF UnreadOnTop, Top, Stack, Depth
<1>8. QED
  BY <1>3, <1>4, <1>5, <1>6, <1>7

(* The invariant holds when the machine starts.                             *)
LEMMA IntrInitInv ==
  ASSUME Machine, IntrInit
  PROVE  IntrInv
<1>1. running \in IntrThreads
  BY DEF Machine, IntrInit
<1>2. \A t \in IntrThreads : frames[t] = <<>>
  BY DEF IntrInit
<1>3. IntrTypeOK
  <2>1. frames \in [IntrThreads -> Seq(FrameSet)] /\ old_level \in [IntrThreads -> BOOLEAN]
    BY DEF IntrInit
  <2>2. pic \in [raised : SUBSET Lines, master : SUBSET (0 .. 7), slave : SUBSET (0 .. 7)]
    BY DEF IntrInit, pic_init
  <2>3. QED
    BY <1>1, <2>1, <2>2 DEF IntrInit, IntrTypeOK
<1>4. Depth = 0
  BY <1>1, <1>2 DEF Depth, Stack
<1>5. OneExternalAtATime /\ FaultAddressOwn /\ UnreadOnTop
  BY <1>2 DEF IntrInit, OneExternalAtATime, FaultAddressOwn, UnreadOnTop
<1>6. NotYetAsked /\ YieldsAsAsked /\ ServiceExact
  BY <1>4 DEF IntrInit, NotYetAsked, YieldsAsAsked, ServiceExact, pic_init
<1>7. QED
  BY <1>3, <1>5, <1>6 DEF IntrInv

(* A device may raise a line at any time.                                   *)
LEMMA RaiseStep ==
  ASSUME Machine, IntrInv, NEW v \in Lines, Raise(v)
  PROVE  IntrInv'
<1>1. UNCHANGED <<running, intr_level, frames, old_level, in_external_intr,
                  yield_on_return, cr2, stopped>>
  BY DEF Raise
<1>2. pic' = [pic EXCEPT !.raised = @ \cup {v}]
  BY DEF Raise
<1>3. IntrTypeOK'
  BY <1>1, <1>2 DEF IntrInv, IntrTypeOK
<1>4. pic'.master = pic.master /\ pic'.slave = pic.slave
  BY <1>2 DEF IntrInv, IntrTypeOK
<1>5. OneExternalAtATime' /\ FaultAddressOwn' /\ UnreadOnTop'
  BY <1>1 DEF IntrInv, OneExternalAtATime, FaultAddressOwn, UnreadOnTop, Unread,
     Unfinished, Depth, Stack, Top
<1>6. NotYetAsked' /\ YieldsAsAsked'
  BY <1>1 DEF IntrInv, NotYetAsked, YieldsAsAsked, Depth, Stack, Top
<1>7. ServiceExact'
  BY <1>1, <1>4 DEF IntrInv, ServiceExact, Depth, Stack, Top
<1>8. QED
  BY <1>3, <1>5, <1>6, <1>7 DEF IntrInv

(* Taking an external interrupt: the processor does so only with interrupts *)
(* on, when no other is being handled, and its gate turns them off.         *)
LEMMA EntryStep ==
  ASSUME Machine, IntrInv, NEW v \in Lines, intr_entry(v)
  PROVE  IntrInv'
<1> DEFINE f == Frame(v, "entry")
<1>1. IntrTypeOK /\ OneExternalAtATime /\ UnreadOnTop /\ FaultAddressOwn /\ ServiceExact
  BY DEF IntrInv
<1>2. intr_level /\ ~in_external_intr
  BY QuietFacts DEF intr_entry
<1>3. v \in Vectors /\ External(v) /\ Idt[v].on = FALSE /\ v \in 32 .. 47
  BY GatesOff DEF Machine
<1>4. /\ intr_level' = FALSE
      /\ in_external_intr' = TRUE /\ yield_on_return' = FALSE
      /\ UNCHANGED <<stopped, running, old_level, cr2>>
      /\ frames' = Pushed(f)
      /\ pic' = InService(v)
  BY <1>2, <1>3 DEF intr_entry, external_begin
<1>5. f \in FrameSet
  BY <1>1, <1>3 DEF IntrTypeOK, Frame, FrameSet, Phases
<1>6. /\ f.vec = v /\ f.phase = "entry" /\ f.asked = FALSE
  BY DEF Frame
<1>7. /\ frames' \in [IntrThreads -> Seq(FrameSet)]
      /\ \A t \in IntrThreads : t # running => frames'[t] = frames[t]
      /\ Len(frames'[running]) = Depth + 1
      /\ frames'[running][Depth + 1] = f
      /\ \A i \in 1 .. Depth : frames'[running][i] = frames[running][i]
  BY <1>1, <1>4, <1>5, PushFacts
<1>8. Depth \in Nat /\ running \in IntrThreads
  BY <1>1, StackFacts DEF IntrTypeOK
<1>9. Depth' = Depth + 1 /\ Top' = f
  BY <1>4, <1>7 DEF Depth, Top, Stack
<1>10. pic.master = {} /\ pic.slave = {}
  BY <1>1, <1>2 DEF ServiceExact
<1>11. IntrTypeOK'
  <2>1. pic' \in [raised : SUBSET Lines, master : SUBSET (0 .. 7), slave : SUBSET (0 .. 7)]
    BY <1>1, <1>3, <1>4, <1>10 DEF IntrTypeOK, InService, MasterLine
  <2>2. QED
    BY <1>1, <1>4, <1>7, <2>1 DEF IntrTypeOK
<1>12. \A t \in IntrThreads : DOMAIN frames'[t] = 1 .. Len(frames'[t])
  BY <1>7
<1>13. \A t \in IntrThreads : \A i \in 1 .. Len(frames'[t]) :
         \/ t = running /\ i = Depth + 1
         \/ i \in 1 .. Len(frames[t]) /\ frames'[t][i] = frames[t][i]
  BY <1>7, <1>8 DEF Depth, Stack
<1>14. \A t \in IntrThreads : \A i \in 1 .. Len(frames[t]) :
         ~Unfinished(frames[t][i]) /\ ~Unread(frames[t][i])
  BY <1>2, QuietFacts
<1>15. OneExternalAtATime'
  <2>1. ~stopped'
    BY <1>1, <1>4 DEF OneExternalAtATime
  <2>2. Depth' > 0 /\ Unfinished(Top')
    BY <1>3, <1>6, <1>8, <1>9 DEF Unfinished
  <2>3. \A t \in IntrThreads : \A i \in 1 .. Len(frames'[t]) :
          Unfinished(frames'[t][i]) => t = running /\ i = Depth + 1
    BY <1>13, <1>14
  <2>4. QED
    BY <1>4, <1>9, <1>12, <2>1, <2>2, <2>3 DEF OneExternalAtATime, Unfinished
<1>16. UnreadOnTop'
  <2>1. ~Unread(f)
    BY <1>3, <1>6, GatesOff DEF Unread
  <2>2. QED
    BY <1>7, <1>13, <1>14, <2>1 DEF UnreadOnTop, Unread
<1>17. FaultAddressOwn'
  <2>1. f.phase # "handler"
    BY <1>6
  <2>2. QED
    BY <1>1, <1>7, <1>12, <1>13, <2>1, StackFacts DEF FaultAddressOwn
<1>18. NotYetAsked' /\ YieldsAsAsked'
  BY <1>4, <1>6, <1>9 DEF NotYetAsked, YieldsAsAsked
<1>19. ServiceExact'
  BY <1>4, <1>6, <1>9, <1>10 DEF ServiceExact, InService
<1>20. QED
  BY <1>11, <1>15, <1>16, <1>17, <1>18, <1>19 DEF IntrInv

(* The handler of an external interrupt records its wish to yield in a flag *)
(* that was reset on entry.                                                 *)
LEMMA HandlerStep ==
  ASSUME Machine, IntrInv, NEW asks \in BOOLEAN, external_handler(asks)
  PROVE  IntrInv'
<1> DEFINE f == [Top EXCEPT !.phase = "handler", !.asked = asks]
<1>1. IntrTypeOK /\ OneExternalAtATime /\ UnreadOnTop /\ FaultAddressOwn
      /\ ServiceExact /\ NotYetAsked
  BY DEF IntrInv
<1>2. /\ Depth > 0 /\ Top.phase = "entry" /\ External(Top.vec)
      /\ frames' = TopNow(f)
      /\ yield_on_return' = (yield_on_return \/ asks)
      /\ UNCHANGED <<running, intr_level, old_level, in_external_intr, cr2, pic, stopped>>
  BY DEF external_handler
<1>3. Depth \in Nat /\ running \in IntrThreads /\ Top \in FrameSet
  BY <1>1, <1>2, StackFacts DEF IntrTypeOK
<1>4. /\ f \in FrameSet
      /\ f.vec = Top.vec /\ f.phase = "handler" /\ f.asked = asks
  BY <1>3 DEF FrameSet, Phases
<1>5. /\ frames' \in [IntrThreads -> Seq(FrameSet)]
      /\ \A t \in IntrThreads : t # running => frames'[t] = frames[t]
      /\ Len(frames'[running]) = Depth
      /\ frames'[running][Depth] = f
      /\ \A i \in 1 .. Depth : i # Depth => frames'[running][i] = frames[running][i]
  BY <1>1, <1>2, <1>4, TopNowFacts
<1>6. Depth' = Depth /\ Top' = f
  BY <1>2, <1>5 DEF Depth, Top, Stack
<1> HIDE DEF f
<1>7. in_external_intr /\ ~intr_level
  <2>1. Unfinished(Top)
    BY <1>2 DEF Unfinished
  <2>2. QED
    BY <1>2, <2>1, QuietFacts
<1>8. ~yield_on_return
  BY <1>1, <1>2, <1>7 DEF NotYetAsked
<1>9. yield_on_return' = asks
  BY <1>2, <1>8
<1>10. \A t \in IntrThreads : \A i \in 1 .. Len(frames'[t]) :
         /\ i \in 1 .. Len(frames[t])
         /\ \/ t = running /\ i = Depth /\ frames'[t][i] = f
            \/ frames'[t][i] = frames[t][i]
  BY <1>3, <1>5 DEF Depth, Stack
<1>11. \A t \in IntrThreads : DOMAIN frames'[t] = 1 .. Len(frames'[t])
  BY <1>5
<1>12. IntrTypeOK'
  BY <1>1, <1>2, <1>5, <1>9 DEF IntrTypeOK
<1>13. OneExternalAtATime'
  <2>1. Unfinished(Top')
    BY <1>2, <1>4, <1>6 DEF Unfinished
  <2>2. \A t \in IntrThreads : \A i \in 1 .. Len(frames'[t]) :
          Unfinished(frames'[t][i]) => t = running /\ i = Depth
    BY <1>1, <1>10, StackFacts DEF OneExternalAtATime
  <2>3. ~stopped'
    BY <1>1, <1>2 DEF OneExternalAtATime
  <2>4. QED
    BY <1>2, <1>6, <1>7, <1>11, <2>1, <2>2, <2>3 DEF OneExternalAtATime, Unfinished
<1>14. ~Unread(f) /\ f.vec # PAGE_FAULT
  BY <1>2, <1>4, GatesOff DEF Unread
<1>15. UnreadOnTop'
  <2>1. \A t \in IntrThreads : \A i \in 1 .. Len(frames'[t]) :
          Unread(frames'[t][i]) =>
            t = running /\ i = Depth /\ ~intr_level /\ cr2 = running
    BY <1>1, <1>10, <1>14 DEF UnreadOnTop
  <2>2. QED
    BY <1>2, <1>6, <2>1 DEF UnreadOnTop, Unread
<1>16. FaultAddressOwn'
  <2>1. \A t \in IntrThreads : DOMAIN frames[t] = 1 .. Len(frames[t])
    BY <1>1, StackFacts
  <2>2. QED
    BY <1>1, <1>10, <1>11, <1>14, <2>1 DEF FaultAddressOwn
<1>17. NotYetAsked' /\ YieldsAsAsked'
  BY <1>4, <1>6, <1>9 DEF NotYetAsked, YieldsAsAsked
<1>18. ServiceExact'
  BY <1>1, <1>2, <1>4, <1>6, <1>7 DEF ServiceExact
<1>19. QED
  BY <1>12, <1>13, <1>15, <1>16, <1>17, <1>18 DEF IntrInv

(* With no unfinished external interrupt and no unread fault anywhere, the  *)
(* invariant only asks for types, fault addresses and idle controllers.     *)
LEMMA QuietInv ==
  ASSUME IntrTypeOK', FaultAddressOwn', ~stopped', ~in_external_intr',
         pic'.master = {}, pic'.slave = {},
         \A t \in IntrThreads : \A i \in 1 .. Len(frames'[t]) :
           ~Unfinished(frames'[t][i]) /\ ~Unread(frames'[t][i])
  PROVE  IntrInv'
<1>1. \A t \in IntrThreads : DOMAIN frames'[t] = 1 .. Len(frames'[t])
  BY DEF IntrTypeOK
<1>2. OneExternalAtATime'
  BY <1>1 DEF OneExternalAtATime, Unfinished
<1>3. UnreadOnTop'
  BY DEF UnreadOnTop, Unread
<1>4. NotYetAsked' /\ YieldsAsAsked' /\ ServiceExact'
  BY DEF NotYetAsked, YieldsAsAsked, ServiceExact
<1>5. QED
  BY <1>2, <1>3, <1>4 DEF IntrInv

(* An end-of-interrupt for the one line in service leaves none.             *)
LEMMA HighestOfOne ==
  ASSUME NEW x \in Int
  PROVE  WithoutHighest({x}) = {} /\ WithoutHighest({}) = {}
<1>1. Min({x}) = x
  BY DEF Min
<1>2. QED
  BY <1>1 DEF WithoutHighest

(* The end of an external interrupt, with or without a switch to another    *)
(* thread: no ASSERT fails, the flag is cleared and both controllers are    *)
(* acknowledged before any other thread runs.                               *)
LEMMA EndStep ==
  ASSUME Machine, IntrInv, external_end
  PROVE  IntrInv'
<1> DEFINE f == [Top EXCEPT !.phase = "exit"]
<1> DEFINE fs == TopNow(f)
<1>1. IntrTypeOK /\ OneExternalAtATime /\ FaultAddressOwn /\ ServiceExact
  BY DEF IntrInv
<1>2. Depth > 0 /\ Top.phase = "handler" /\ External(Top.vec)
  BY DEF external_end
<1>3. Depth \in Nat /\ running \in IntrThreads /\ Top \in FrameSet
  BY <1>1, <1>2, StackFacts DEF IntrTypeOK
<1>4. in_external_intr /\ ~intr_level
  <2>1. Unfinished(Top)
    BY <1>2 DEF Unfinished
  <2>2. QED
    BY <1>2, <2>1, QuietFacts
<1>5. /\ in_external_intr' = FALSE
      /\ pic' = pic_end_of_interrupt(Top.vec)
      /\ stopped' = stopped
      /\ UNCHANGED <<yield_on_return, cr2>>
      /\ \/ thread_yield(fs)
         \/ frames' = fs /\ UNCHANGED <<running, intr_level, old_level>>
  BY <1>4 DEF external_end
<1>6. f \in FrameSet /\ f.vec = Top.vec /\ f.phase = "exit"
  BY <1>3 DEF FrameSet, Phases
<1>0. fs = TopNow(f)
  OBVIOUS
<1> HIDE DEF f, fs
<1>7. /\ fs \in [IntrThreads -> Seq(FrameSet)]
      /\ \A t \in IntrThreads : t # running => fs[t] = frames[t]
      /\ Len(fs[running]) = Depth
      /\ fs[running][Depth] = f
      /\ \A i \in 1 .. Depth : i # Depth => fs[running][i] = frames[running][i]
  BY <1>0, <1>1, <1>2, <1>6, TopNowFacts
<1>8. /\ frames' = fs /\ running' \in IntrThreads
      /\ intr_level' \in BOOLEAN /\ old_level' \in [IntrThreads -> BOOLEAN]
  <2>1. CASE thread_yield(fs)
    BY <1>1, <2>1 DEF thread_yield, IntrTypeOK
  <2>2. CASE frames' = fs /\ UNCHANGED <<running, intr_level, old_level>>
    BY <1>1, <2>2 DEF IntrTypeOK
  <2>3. QED
    BY <1>5, <2>1, <2>2
<1>9. pic'.master = {} /\ pic'.slave = {} /\ pic'.raised = pic.raised
  <2>0. Top.vec \in Int
    <3>1. Top.vec \in Vectors
      BY <1>3 DEF FrameSet
    <3>2. \A v \in Lines : v \in Int
      BY DEF Machine
    <3>3. QED
      BY <3>1, <3>2 DEF Vectors, TIMER, IDE, PAGE_FAULT, SYSCALL
  <2>1. pic.master = {MasterLine(Top.vec)} /\ MasterLine(Top.vec) \in Int
    BY <1>1, <1>4, <2>0 DEF ServiceExact, MasterLine
  <2>2. CASE Top.vec >= 40
    <3>1. pic.slave = {Top.vec - 40} /\ Top.vec - 40 \in Int
      BY <1>1, <1>4, <2>0, <2>2 DEF ServiceExact
    <3>2. QED
      BY <1>1, <1>5, <2>1, <2>2, <3>1, HighestOfOne DEF pic_end_of_interrupt, IntrTypeOK
  <2>3. CASE ~(Top.vec >= 40)
    <3>1. pic.slave = {}
      BY <1>1, <1>4, <2>3 DEF ServiceExact
    <3>2. QED
      BY <1>1, <1>5, <2>1, <2>3, <3>1, HighestOfOne DEF pic_end_of_interrupt, IntrTypeOK
  <2>4. QED
    BY <2>2, <2>3
<1>10. IntrTypeOK'
  <2>1. pic' \in [raised : SUBSET Lines, master : SUBSET (0 .. 7), slave : SUBSET (0 .. 7)]
    BY <1>1, <1>5, <1>9 DEF IntrTypeOK, pic_end_of_interrupt
  <2>2. QED
    BY <1>1, <1>5, <1>7, <1>8, <2>1 DEF IntrTypeOK
<1>11. \A t \in IntrThreads : \A i \in 1 .. Len(frames'[t]) :
         /\ i \in 1 .. Len(frames[t])
         /\ \/ t = running /\ i = Depth /\ frames'[t][i] = f
            \/ ~(t = running /\ i = Depth) /\ frames'[t][i] = frames[t][i]
  BY <1>3, <1>7, <1>8 DEF Depth, Stack
<1>12. ~Unfinished(f) /\ ~Unread(f) /\ f.vec # PAGE_FAULT /\ ~Unread(Top)
  BY <1>2, <1>6, GatesOff DEF Unfinished, Unread
<1>13. \A t \in IntrThreads : DOMAIN frames[t] = 1 .. Len(frames[t])
  BY <1>1, StackFacts
<1>14. \A t \in IntrThreads : \A i \in 1 .. Len(frames'[t]) :
         ~Unfinished(frames'[t][i]) /\ ~Unread(frames'[t][i])
  <2>1. \A t \in IntrThreads : \A i \in 1 .. Len(frames[t]) : ~Unread(frames[t][i])
    BY <1>12, QuietFacts
  <2>2. \A t \in IntrThreads : \A i \in 1 .. Len(frames[t]) :
          Unfinished(frames[t][i]) => t = running /\ i = Depth
    BY <1>1, <1>13 DEF OneExternalAtATime
  <2>3. QED
    BY <1>11, <1>12, <2>1, <2>2
<1>15. FaultAddressOwn'
  <2>1. \A t \in IntrThreads : DOMAIN frames'[t] = 1 .. Len(frames'[t])
    BY <1>7, <1>8
  <2>2. QED
    BY <1>1, <1>11, <1>12, <1>13, <2>1 DEF FaultAddressOwn
<1>16. ~stopped' /\ ~in_external_intr'
  BY <1>1, <1>5 DEF OneExternalAtATime
<1>17. QED
  BY <1>9, <1>10, <1>14, <1>15, <1>16, QuietInv

(* The iret of an interrupt that is finished, of a system call or of a page *)
(* fault: what it returns to was interrupted with nothing unfinished.       *)
LEMMA ExitStep ==
  ASSUME Machine, IntrInv, intr_exit
  PROVE  IntrInv'
<1>1. IntrTypeOK /\ OneExternalAtATime /\ FaultAddressOwn /\ ServiceExact
  BY DEF IntrInv
<1>2. /\ Depth > 0
      /\ Top.phase = "exit" \/ (Top.phase = "handler" /\ ~External(Top.vec))
      /\ intr_level' = Top.level
      /\ frames' = [frames EXCEPT ![running] = SubSeq(@, 1, Depth - 1)]
      /\ UNCHANGED <<running, old_level, in_external_intr, yield_on_return, cr2, pic,
                     stopped>>
  BY DEF intr_exit
<1>3. Depth \in Nat /\ running \in IntrThreads /\ Top \in FrameSet
  BY <1>1, <1>2, StackFacts DEF IntrTypeOK
<1>4. ~Unfinished(Top) /\ ~Unread(Top)
  BY <1>2 DEF Unfinished, Unread
<1>5. ~in_external_intr
  BY <1>2, <1>4, QuietFacts
<1>6. \A t \in IntrThreads : \A i \in 1 .. Len(frames[t]) :
        ~Unfinished(frames[t][i]) /\ ~Unread(frames[t][i])
  BY <1>4, <1>5, QuietFacts
<1>7. /\ frames' \in [IntrThreads -> Seq(FrameSet)]
      /\ \A t \in IntrThreads : t # running => frames'[t] = frames[t]
      /\ Len(frames'[running]) = Depth - 1
      /\ \A i \in 1 .. (Depth - 1) : frames'[running][i] = frames[running][i]
  BY <1>1, <1>2, PopFacts
<1>8. \A t \in IntrThreads : \A i \in 1 .. Len(frames'[t]) :
        i \in 1 .. Len(frames[t]) /\ frames'[t][i] = frames[t][i]
  BY <1>3, <1>7 DEF Depth, Stack
<1>9. IntrTypeOK'
  <2>1. intr_level' \in BOOLEAN
    BY <1>2, <1>3 DEF FrameSet
  <2>2. QED
    BY <1>1, <1>2, <1>7, <2>1 DEF IntrTypeOK
<1>10. FaultAddressOwn'
  <2>1. \A t \in IntrThreads : /\ DOMAIN frames'[t] = 1 .. Len(frames'[t])
                              /\ DOMAIN frames[t] = 1 .. Len(frames[t])
    BY <1>1, <1>7, StackFacts
  <2>2. QED
    BY <1>1, <1>8, <2>1 DEF FaultAddressOwn
<1>11. pic'.master = {} /\ pic'.slave = {} /\ ~stopped' /\ ~in_external_intr'
  BY <1>1, <1>2, <1>5 DEF ServiceExact, OneExternalAtATime
<1>12. QED
  BY <1>6, <1>8, <1>9, <1>10, <1>11, QuietInv

(* A step of a thread outside external interrupts that leaves the stacks    *)
(* alone: interrupts go off or on, or another thread runs.                  *)
LEMMA ThreadStep ==
  ASSUME Machine, IntrInv, InThread, UNCHANGED <<frames, yield_on_return, cr2, pic>>,
         ~in_external_intr => in_external_intr' = FALSE /\ ~stopped',
         running' \in IntrThreads, intr_level' \in BOOLEAN,
         old_level' \in [IntrThreads -> BOOLEAN]
  PROVE  IntrInv'
<1>1. IntrTypeOK /\ OneExternalAtATime /\ FaultAddressOwn /\ ServiceExact
  BY DEF IntrInv
<1>2. Depth \in Nat
  BY <1>1, StackFacts
<1>3. Depth = 0 \/ (Depth > 0 /\ ~Unfinished(Top) /\ ~Unread(Top))
  BY <1>2 DEF InThread, Unfinished, Unread
<1>4. ~in_external_intr
  BY <1>3, QuietFacts
<1>5. \A t \in IntrThreads : \A i \in 1 .. Len(frames[t]) :
        ~Unfinished(frames[t][i]) /\ ~Unread(frames[t][i])
  BY <1>3, <1>4, QuietFacts
<1>6. IntrTypeOK'
  BY <1>1, <1>4 DEF IntrTypeOK
<1>7. FaultAddressOwn'
  BY <1>1 DEF FaultAddressOwn
<1>8. pic'.master = {} /\ pic'.slave = {} /\ ~stopped' /\ ~in_external_intr'
  BY <1>1, <1>4 DEF ServiceExact, OneExternalAtATime
<1>9. \A t \in IntrThreads : \A i \in 1 .. Len(frames'[t]) :
        ~Unfinished(frames'[t][i]) /\ ~Unread(frames'[t][i])
  BY <1>5
<1>10. QED
  BY <1>6, <1>7, <1>8, <1>9, QuietInv

(* A system call or a page fault: the fault's gate turns interrupts off, so *)
(* its frame stays on top, and the fault address its own, until it is read. *)
LEMMA TrapStep ==
  ASSUME Machine, IntrInv, NEW v \in {PAGE_FAULT, SYSCALL}, trap(v)
  PROVE  IntrInv'
<1> DEFINE f == Frame(v, IF v = PAGE_FAULT THEN "entry" ELSE "handler")
<1>1. IntrTypeOK /\ OneExternalAtATime /\ FaultAddressOwn /\ ServiceExact
  BY DEF IntrInv
<1>2. /\ intr_level
      /\ intr_level' = (intr_level /\ Idt[v].on)
      /\ cr2' = IF v = PAGE_FAULT THEN running ELSE cr2
      /\ frames' = Pushed(f)
      /\ UNCHANGED <<running, old_level, in_external_intr, yield_on_return, pic, stopped>>
  BY DEF trap
<1>3. Depth \in Nat /\ running \in IntrThreads
  BY <1>1, StackFacts DEF IntrTypeOK
<1>4. v \in Vectors /\ ~External(v) /\ PAGE_FAULT # SYSCALL
  BY GatesOff DEF PAGE_FAULT, SYSCALL
<1>5. f \in FrameSet
  BY <1>1, <1>3, <1>4 DEF IntrTypeOK, Frame, FrameSet, Phases
<1>6. /\ f.vec = v
      /\ v = PAGE_FAULT => f.phase = "entry"
      /\ v # PAGE_FAULT => f.phase = "handler"
  BY DEF Frame
<1> HIDE DEF f
<1>7. /\ frames' \in [IntrThreads -> Seq(FrameSet)]
      /\ \A t \in IntrThreads : t # running => frames'[t] = frames[t]
      /\ Len(frames'[running]) = Depth + 1
      /\ frames'[running][Depth + 1] = f
      /\ \A i \in 1 .. Depth : frames'[running][i] = frames[running][i]
  BY <1>1, <1>2, <1>5, PushFacts
<1>8. ~in_external_intr
  BY <1>2, QuietFacts
<1>9. \A t \in IntrThreads : \A i \in 1 .. Len(frames[t]) :
        ~Unfinished(frames[t][i]) /\ ~Unread(frames[t][i])
  BY <1>2, <1>8, QuietFacts
<1>10. \A t \in IntrThreads : \A i \in 1 .. Len(frames'[t]) :
         \/ t = running /\ i = Depth + 1 /\ frames'[t][i] = f
         \/ i \in 1 .. Len(frames[t]) /\ frames'[t][i] = frames[t][i]
  BY <1>3, <1>7 DEF Depth, Stack
<1>11. \A t \in IntrThreads : /\ DOMAIN frames'[t] = 1 .. Len(frames'[t])
                             /\ DOMAIN frames[t] = 1 .. Len(frames[t])
  BY <1>1, <1>7, StackFacts
<1>12. /\ v = PAGE_FAULT => intr_level' = FALSE
       /\ v = SYSCALL => intr_level' = TRUE
  BY <1>2, GatesOff
<1>13. IntrTypeOK'
  <2>1. intr_level' \in BOOLEAN /\ cr2' \in IntrThreads
    BY <1>1, <1>2, <1>3, <1>12 DEF IntrTypeOK
  <2>2. QED
    BY <1>1, <1>2, <1>7, <2>1 DEF IntrTypeOK
<1>14. ~Unfinished(f) /\ ~(f.vec = PAGE_FAULT /\ f.phase = "handler")
  BY <1>4, <1>6 DEF Unfinished
<1>15. FaultAddressOwn'
  BY <1>1, <1>10, <1>11, <1>14 DEF FaultAddressOwn
<1>16. pic'.master = {} /\ pic'.slave = {} /\ ~stopped' /\ ~in_external_intr'
  BY <1>1, <1>2, <1>8 DEF ServiceExact, OneExternalAtATime
<1>17. OneExternalAtATime' /\ NotYetAsked' /\ YieldsAsAsked' /\ ServiceExact'
  <2>1. \A t \in IntrThreads : \A i \in 1 .. Len(frames'[t]) : ~Unfinished(frames'[t][i])
    BY <1>9, <1>10, <1>14
  <2>2. OneExternalAtATime'
    BY <1>11, <1>16, <2>1 DEF OneExternalAtATime, Unfinished
  <2>3. QED
    BY <1>16, <2>2 DEF NotYetAsked, YieldsAsAsked, ServiceExact
<1>18. UnreadOnTop'
  <2>1. Depth' = Depth + 1
    BY <1>2, <1>7 DEF Depth, Stack
  <2>2. Unread(f) => v = PAGE_FAULT
    BY <1>6 DEF Unread
  <2>3. \A t \in IntrThreads : \A i \in 1 .. Len(frames'[t]) :
          Unread(frames'[t][i]) => t = running /\ i = Depth + 1 /\ v = PAGE_FAULT
    BY <1>9, <1>10, <2>2
  <2>4. v = PAGE_FAULT => ~intr_level' /\ cr2' = running'
    BY <1>2, <1>12
  <2>5. QED
    BY <1>2, <2>1, <2>3, <2>4 DEF UnreadOnTop, Unread
<1>19. QED
  BY <1>13, <1>15, <1>17, <1>18 DEF IntrInv

(* The beginning of page_fault reads the address of its own fault, since    *)
(* nothing has run on the processor in between.                             *)
LEMMA FaultStep ==
  ASSUME Machine, IntrInv, page_fault
  PROVE  IntrInv'
<1> DEFINE f == [Top EXCEPT !.phase = "handler", !.addr = cr2]
<1>1. IntrTypeOK /\ OneExternalAtATime /\ FaultAddressOwn /\ ServiceExact /\ UnreadOnTop
  BY DEF IntrInv
<1>2. /\ Depth > 0 /\ Top.phase = "entry" /\ Top.vec = PAGE_FAULT
      /\ frames' = TopNow(f)
      /\ intr_level' = ~in_external_intr
      /\ stopped' = in_external_intr
      /\ UNCHANGED <<running, old_level, in_external_intr, yield_on_return, cr2, pic>>
  BY DEF page_fault
<1>3. Depth \in Nat /\ running \in IntrThreads /\ cr2 \in IntrThreads /\ Top \in FrameSet
  BY <1>1, <1>2, StackFacts DEF IntrTypeOK
<1>4. /\ f \in FrameSet
      /\ f.vec = PAGE_FAULT /\ f.phase = "handler" /\ f.addr = cr2
  BY <1>2, <1>3 DEF FrameSet, Phases
<1> HIDE DEF f
<1>5. /\ frames' \in [IntrThreads -> Seq(FrameSet)]
      /\ \A t \in IntrThreads : t # running => frames'[t] = frames[t]
      /\ Len(frames'[running]) = Depth
      /\ frames'[running][Depth] = f
      /\ \A i \in 1 .. Depth : i # Depth => frames'[running][i] = frames[running][i]
  BY <1>1, <1>2, <1>4, TopNowFacts
<1>6. ~Unfinished(Top) /\ ~Unfinished(f) /\ ~Unread(f)
  BY <1>2, <1>4, GatesOff DEF Unfinished, Unread
<1>7. ~in_external_intr
  BY <1>2, <1>6, QuietFacts
<1>8. cr2 = running
  <2>1. Unread(frames[running][Depth]) /\ Depth \in 1 .. Len(frames[running])
    BY <1>2, <1>3 DEF Unread, Top, Stack, Depth
  <2>2. QED
    BY <1>1, <1>3, <2>1 DEF UnreadOnTop
<1>9. \A t \in IntrThreads : \A i \in 1 .. Len(frames'[t]) :
        /\ i \in 1 .. Len(frames[t])
        /\ \/ t = running /\ i = Depth /\ frames'[t][i] = f
           \/ ~(t = running /\ i = Depth) /\ frames'[t][i] = frames[t][i]
  BY <1>3, <1>5 DEF Depth, Stack
<1>10. \A t \in IntrThreads : \A i \in 1 .. Len(frames'[t]) :
         ~Unfinished(frames'[t][i]) /\ ~Unread(frames'[t][i])
  <2>1. \A t \in IntrThreads : \A i \in 1 .. Len(frames[t]) : ~Unfinished(frames[t][i])
    BY <1>7, QuietFacts
  <2>2. \A t \in IntrThreads : \A i \in 1 .. Len(frames[t]) :
          Unread(frames[t][i]) => t = running /\ i = Depth
    BY <1>1 DEF UnreadOnTop
  <2>3. QED
    BY <1>6, <1>9, <2>1, <2>2
<1>11. IntrTypeOK'
  BY <1>1, <1>2, <1>5, <1>7 DEF IntrTypeOK
<1>12. FaultAddressOwn'
  <2>1. \A t \in IntrThreads : /\ DOMAIN frames'[t] = 1 .. Len(frames'[t])
                              /\ DOMAIN frames[t] = 1 .. Len(frames[t])
    BY <1>1, <1>5, StackFacts
  <2>2. QED
    BY <1>1, <1>4, <1>8, <1>9, <2>1 DEF FaultAddressOwn
<1>13. pic'.master = {} /\ pic'.slave = {} /\ ~stopped' /\ ~in_external_intr'
  BY <1>1, <1>2, <1>7 DEF ServiceExact
<1>14. QED
  BY <1>10, <1>11, <1>12, <1>13, QuietInv

(* Every step preserves the invariant.                                      *)
LEMMA IntrStepInv ==
  ASSUME Machine, IntrInv, [IntrNext]_ivars
  PROVE  IntrInv'
<1>1. ASSUME NEW v \in Lines, Raise(v) PROVE IntrInv'
  BY <1>1, RaiseStep
<1>2. ASSUME NEW v \in Lines, intr_entry(v) PROVE IntrInv'
  BY <1>2, EntryStep
<1>3. ASSUME NEW v \in {PAGE_FAULT, SYSCALL}, trap(v) PROVE IntrInv'
  BY <1>3, TrapStep
<1>4. ASSUME NEW asks \in BOOLEAN, external_handler(asks) PROVE IntrInv'
  BY <1>4, HandlerStep
<1>5. CASE external_end
  BY <1>5, EndStep
<1>6. CASE intr_exit
  BY <1>6, ExitStep
<1>7. CASE page_fault
  BY <1>7, FaultStep
<1>8. CASE intr_disable
  <2>1. IntrTypeOK /\ OneExternalAtATime
    BY DEF IntrInv
  <2>2. /\ InThread /\ UNCHANGED <<frames, yield_on_return, cr2, pic>>
        /\ ~in_external_intr => in_external_intr' = FALSE /\ ~stopped'
        /\ running' \in IntrThreads /\ intr_level' \in BOOLEAN
        /\ old_level' \in [IntrThreads -> BOOLEAN]
    BY <1>8, <2>1 DEF intr_disable, IntrTypeOK, OneExternalAtATime
  <2>3. QED
    BY <2>2, ThreadStep
<1>9. CASE intr_enable
  <2>1. IntrTypeOK /\ OneExternalAtATime
    BY DEF IntrInv
  <2>2. /\ InThread /\ UNCHANGED <<frames, yield_on_return, cr2, pic, in_external_intr>>
        /\ stopped' = in_external_intr
        /\ running' \in IntrThreads /\ intr_level' \in BOOLEAN
        /\ old_level' \in [IntrThreads -> BOOLEAN]
    BY <1>9, <2>1 DEF intr_enable, IntrTypeOK
  <2>3. ~in_external_intr => in_external_intr' = FALSE /\ ~stopped'
    BY <2>1, <2>2 DEF IntrTypeOK
  <2>4. QED
    BY <2>2, <2>3, ThreadStep
<1>10. CASE switch
  <2>1. IntrTypeOK /\ OneExternalAtATime
    BY DEF IntrInv
  <2>2. /\ InThread /\ UNCHANGED <<yield_on_return, cr2, pic, in_external_intr>>
        /\ stopped' = in_external_intr
        /\ thread_yield(frames)
    BY <1>10 DEF switch
  <2>3. /\ frames' = frames /\ running' \in IntrThreads
        /\ intr_level' \in BOOLEAN /\ old_level' \in [IntrThreads -> BOOLEAN]
    BY <2>1, <2>2 DEF thread_yield, IntrTypeOK
  <2>4. ~in_external_intr => in_external_intr' = FALSE /\ ~stopped'
    BY <2>1, <2>2 DEF IntrTypeOK
  <2>5. QED
    BY <2>2, <2>3, <2>4, ThreadStep
<1>11. CASE UNCHANGED ivars
  BY <1>11 DEF ivars, IntrInv, IntrTypeOK, OneExternalAtATime, UnreadOnTop,
     FaultAddressOwn, NotYetAsked, YieldsAsAsked, ServiceExact, Unread, Unfinished,
     Depth, Stack, Top
<1>12. QED
  BY <1>1, <1>2, <1>3, <1>4, <1>5, <1>6, <1>7, <1>8, <1>9, <1>10, <1>11 DEF IntrNext

(* The invariant is one of every behaviour.                                 *)
LEMMA IntrAlwaysInv ==
  ASSUME Machine
  PROVE  IntrSpec => []IntrInv
<1>1. IntrInit => IntrInv
  BY IntrInitInv
<1>2. IntrInv /\ [IntrNext]_ivars => IntrInv'
  BY IntrStepInv
<1>3. QED
  BY <1>1, <1>2, PTL DEF IntrSpec

(* For any threads and lines, wherever threads are switched: external       *)
(* interrupts are handled one at a time and no ASSERT of interrupt.c fails; *)
(* intr_handler yields exactly when the handler of the same interrupt       *)
(* called intr_yield_on_return; page_fault reads the address of its own     *)
(* thread's fault; outside external handlers no raised line is blocked by   *)
(* one that was not acknowledged.                                           *)
THEOREM InterruptsAlwaysSound ==
  ASSUME Machine
  PROVE  IntrSpec => []InterruptsSound
<1>1. IntrInv => OneExternalAtATime /\ YieldsAsAsked /\ FaultAddressOwn
  BY DEF IntrInv
<1>2. IntrInv => RaisedDeliverable
  BY DEF IntrInv, ServiceExact, RaisedDeliverable, Deliverable
<1>3. IntrInv => InterruptsSound
  BY <1>1, <1>2 DEF InterruptsSound
<1>4. QED
  BY <1>3, IntrAlwaysInv, PTL
=============================================================================
