----------------------------- MODULE IdeProofs ------------------------------
(***************************************************************************)
(* The disk driver returns the data last written, and never panics for a   *)
(* missing data request, for any number of threads, sectors, calls and     *)
(* stray interrupts.  A stray interrupt leaves completion_wait ahead, so   *)
(* that calls no longer wait for their own interrupt; what then keeps them *)
(* correct is that a command is issued to an idle disk only and that data  *)
(* moves only when the disk asks for it.  The invariant says, for every    *)
(* step of the call that holds the channel, which states the disk can be   *)
(* in, and that a sector whose write has returned holds its value or is    *)
(* just being stored.                                                      *)
(***************************************************************************)
EXTENDS Ide, TLAPS

Steps == {"lock", "select", "issue", "down", "busy", "data", "unlock"}

Contents == Values \cup {NoOp}

OpSet == [kind : {"read", "write"}, disk : Disks, sector : Sectors, value : Contents,
          step : Steps]

\* NoOp is neither a thread nor a call, and sectors have contents.
Distinct == NoOp \notin IdeThreads /\ NoOp \notin OpSet /\ Values # {}

IdeTypeOK ==
  /\ chan \in [holder : IdeThreads \cup {NoOp}, expecting : BOOLEAN, completion : Nat]
  /\ hw \in [busy : BOOLEAN, drq : BOOLEAN, irq : BOOLEAN, device : Disks,
             sector : Sectors \cup {0}, command : {"none", "read", "write", "store"},
             buffer : Contents]
  /\ disk \in [Disks -> [Sectors -> Contents]]
  /\ acked \in [Disks -> [Sectors -> Contents]]
  /\ op \in [IdeThreads -> OpSet \cup {NoOp}]

\* The thread is in the section that the channel's lock protects.
Holding(t) == op[t] # NoOp /\ op[t].step # "lock"

HolderOK == \A t \in IdeThreads : Holding(t) <=> chan.holder = t

IdleDisk == ~hw.busy /\ ~hw.drq /\ hw.command = "none"

BusyWith(command) == hw.busy /\ ~hw.drq /\ hw.command = command

AsksWith(command) == ~hw.busy /\ hw.drq /\ hw.command = command

Target(t) == disk[op[t].disk][op[t].sector]

\* What the disk may be doing at each step of a read and of a write.
ReadStep(t) ==
  /\ op[t].step \in {"down", "busy", "data"} =>
       \/ BusyWith("read") /\ op[t].step # "data"
       \/ AsksWith("none") /\ hw.buffer = Target(t)
  /\ op[t].step = "unlock" => IdleDisk /\ op[t].value = Target(t)

WriteStep(t) ==
  /\ op[t].step \in {"busy", "data"} =>
       (BusyWith("write") /\ op[t].step # "data") \/ AsksWith("store")
  /\ op[t].step = "down" =>
       \/ BusyWith("store") /\ hw.buffer = op[t].value
       \/ IdleDisk /\ op[t].value = Target(t)
  /\ op[t].step # "unlock"

CallOK(t) ==
  /\ op[t].step = "select" => IdleDisk \/ BusyWith("store")
  /\ op[t].step # "select" => hw.device = op[t].disk /\ hw.sector = op[t].sector
  /\ op[t].step = "issue" => IdleDisk
  /\ op[t].kind = "read" => ReadStep(t)
  /\ op[t].kind = "write" => WriteStep(t)

DiskOK ==
  /\ ~(hw.busy /\ hw.drq)
  /\ chan.holder = NoOp => IdleDisk \/ BusyWith("store")
  /\ \A t \in IdeThreads : Holding(t) => CallOK(t)

\* The sector's value once the disk has stored what it is storing.
Settled(d, s) ==
  IF BusyWith("store") /\ hw.device = d /\ hw.sector = s THEN hw.buffer ELSE disk[d][s]

\* Thread t is writing the sector and its write has not returned.
BeingWritten(t, d, s) ==
  Holding(t) /\ op[t].kind = "write" /\ op[t].step = "down" /\ op[t].disk = d
    /\ op[t].sector = s

AckedOK ==
  \A d \in Disks, s \in Sectors :
    acked[d][s] = Settled(d, s) \/ \E t \in IdeThreads : BeingWritten(t, d, s)

IdeInv ==
  /\ IdeTypeOK /\ HolderOK /\ DiskOK /\ AckedOK
  /\ AlwaysDataRequested

-----------------------------------------------------------------------------

(* A call in progress is a record, and at most one thread is in the locked  *)
(* section.                                                                 *)
LEMMA OpFacts ==
  ASSUME Distinct, IdeTypeOK, HolderOK
  PROVE  /\ \A t \in IdeThreads : op[t] # NoOp => op[t] \in OpSet
         /\ \A t, u \in IdeThreads : Holding(t) /\ Holding(u) => t = u
         /\ \A t \in IdeThreads : Holding(t) => chan.holder = t /\ chan.holder # NoOp
         /\ chan.holder = NoOp => \A t \in IdeThreads : ~Holding(t)
BY DEF IdeTypeOK, HolderOK, Distinct

(* Goto changes the step of one call and nothing else.                      *)
LEMMA GotoFacts ==
  ASSUME Distinct, IdeTypeOK, NEW t \in IdeThreads, op[t] # NoOp, NEW st \in Steps,
         op' = [op EXCEPT ![t] = [op[t] EXCEPT !.step = st]]
  PROVE  /\ op' \in [IdeThreads -> OpSet \cup {NoOp}]
         /\ op'[t] # NoOp /\ op'[t].step = st
         /\ op'[t].kind = op[t].kind /\ op'[t].disk = op[t].disk
         /\ op'[t].sector = op[t].sector /\ op'[t].value = op[t].value
         /\ \A u \in IdeThreads : u # t => op'[u] = op[u]
<1>1. op[t] \in OpSet
  BY DEF IdeTypeOK
<1>2. op'[t] = [op[t] EXCEPT !.step = st]
  BY DEF IdeTypeOK
<1>3. op'[t] \in OpSet
  BY <1>1, <1>2 DEF OpSet
<1>4. op' \in [IdeThreads -> OpSet \cup {NoOp}]
  BY <1>3 DEF IdeTypeOK
<1>5. /\ op'[t].step = st /\ op'[t].kind = op[t].kind /\ op'[t].disk = op[t].disk
      /\ op'[t].sector = op[t].sector /\ op'[t].value = op[t].value
  BY ONLY <1>1, <1>2 DEF OpSet
<1>6. op'[t] # NoOp
  BY ONLY Distinct, <1>3 DEF Distinct
<1>7. \A u \in IdeThreads : u # t => op'[u] = op[u]
  BY DEF IdeTypeOK
<1>8. QED
  BY <1>4, <1>5, <1>6, <1>7

(* The invariant holds at boot.                                             *)
LEMMA IdeInitInv ==
  ASSUME Distinct, IdeInit
  PROVE  IdeInv
<1>1. (CHOOSE v \in Values : TRUE) \in Contents
  BY DEF Distinct, Contents
<1>2. IdeTypeOK
  <2>1. disk \in [Disks -> [Sectors -> Contents]]
    BY <1>1 DEF IdeInit
  <2>2. chan \in [holder : IdeThreads \cup {NoOp}, expecting : BOOLEAN, completion : Nat]
    BY DEF IdeInit
  <2>3. hw \in [busy : BOOLEAN, drq : BOOLEAN, irq : BOOLEAN, device : Disks,
                sector : Sectors \cup {0}, command : {"none", "read", "write", "store"},
                buffer : Contents]
    BY DEF IdeInit, Disks, Contents
  <2>4. op \in [IdeThreads -> OpSet \cup {NoOp}]
    BY DEF IdeInit
  <2>5. QED
    BY <2>1, <2>2, <2>3, <2>4 DEF IdeInit, IdeTypeOK
<1>3. \A t \in IdeThreads : ~Holding(t)
  BY DEF IdeInit, Holding
<1>4. HolderOK
  BY <1>3 DEF IdeInit, HolderOK, Distinct
<1>5. IdleDisk /\ ~BusyWith("store")
  BY DEF IdeInit, IdleDisk, BusyWith
<1>6. DiskOK
  BY <1>3, <1>5 DEF DiskOK, IdleDisk
<1>7. AckedOK
  BY <1>5 DEF IdeInit, AckedOK, Settled
<1>8. AlwaysDataRequested
  BY DEF IdeInit, AlwaysDataRequested
<1>9. QED
  BY <1>2, <1>4, <1>6, <1>7, <1>8 DEF IdeInv

(* A thread calls ide_read or ide_write and goes for the lock.              *)
LEMMA CallStep ==
  ASSUME Distinct, IdeInv, NEW t \in IdeThreads, NEW kind \in {"read", "write"},
         NEW d \in Disks, NEW s \in Sectors, NEW v \in Contents,
         ide_call(t, kind, d, s, v)
  PROVE  IdeInv'
<1> DEFINE r == [kind |-> kind, disk |-> d, sector |-> s, value |-> v, step |-> "lock"]
<1>1. IdeTypeOK /\ HolderOK /\ DiskOK /\ AckedOK /\ AlwaysDataRequested
  BY DEF IdeInv
<1>2. /\ op[t] = NoOp /\ op' = [op EXCEPT ![t] = r]
      /\ UNCHANGED <<chan, hw, disk, acked, failed>>
  BY DEF ide_call
<1>3. r \in OpSet /\ r.step = "lock"
  BY DEF OpSet, Steps
<1> HIDE DEF r
<1>4. /\ op' \in [IdeThreads -> OpSet \cup {NoOp}] /\ op'[t] = r
      /\ \A u \in IdeThreads : u # t => op'[u] = op[u]
  BY <1>1, <1>2, <1>3 DEF IdeTypeOK
<1>5. IdeTypeOK'
  BY <1>1, <1>2, <1>4 DEF IdeTypeOK
<1>6. \A u \in IdeThreads : (Holding(u)' <=> Holding(u)) /\ (Holding(u) => op'[u] = op[u])
  BY <1>2, <1>3, <1>4 DEF Holding
<1>7. HolderOK'
  BY <1>1, <1>2, <1>6 DEF HolderOK
<1>8. DiskOK'
  BY <1>1, <1>2, <1>6 DEF DiskOK, CallOK, ReadStep, WriteStep, IdleDisk, BusyWith,
     AsksWith, Target
<1>9. AckedOK'
  BY <1>1, <1>2, <1>6 DEF AckedOK, Settled, BusyWith, BeingWritten
<1>10. AlwaysDataRequested'
  BY <1>1, <1>2 DEF AlwaysDataRequested
<1>11. QED
  BY <1>5, <1>7, <1>8, <1>9, <1>10 DEF IdeInv

(* A step of the thread in the locked section, or of one that enters it:    *)
(* nobody else is in the section, so only its own call has to be looked at. *)
LEMMA HolderStep ==
  ASSUME Distinct, IdeTypeOK, HolderOK, NEW t \in IdeThreads,
         chan.holder \in {t, NoOp}, chan'.holder = t, Holding(t)', CallOK(t)',
         ~(hw'.busy /\ hw'.drq), \A u \in IdeThreads : u # t => op'[u] = op[u]
  PROVE  HolderOK' /\ DiskOK'
<1>1. \A u \in IdeThreads : u # t => ~Holding(u)'
  BY OpFacts DEF Holding, HolderOK
<1>2. HolderOK'
  BY <1>1 DEF HolderOK
<1>3. DiskOK'
  BY <1>1 DEF DiskOK, Distinct
<1>4. QED
  BY <1>2, <1>3

(* Nothing is being stored before or after the step, and it writes nothing: *)
(* what is acknowledged stays what the disk holds.                          *)
LEMMA AckedKept ==
  ASSUME AckedOK, ~BusyWith("store"), ~BusyWith("store")', UNCHANGED <<disk, acked>>,
         \A t \in IdeThreads, d \in Disks, s \in Sectors :
           BeingWritten(t, d, s) => BeingWritten(t, d, s)'
  PROVE  AckedOK'
BY DEF AckedOK, Settled

(* The same when the disk goes on with what it does.                        *)
LEMMA AckedSame ==
  ASSUME AckedOK, UNCHANGED <<disk, acked, hw>>,
         \A t \in IdeThreads, d \in Disks, s \in Sectors :
           BeingWritten(t, d, s) => BeingWritten(t, d, s)'
  PROVE  AckedOK'
BY DEF AckedOK, Settled, BusyWith

(* The lock is taken.                                                       *)
LEMMA LockStep ==
  ASSUME Distinct, IdeInv, NEW t \in IdeThreads, ide_lock(t)
  PROVE  IdeInv'
<1>1. IdeTypeOK /\ HolderOK /\ DiskOK /\ AckedOK /\ AlwaysDataRequested
  BY DEF IdeInv
<1>2. /\ op[t] # NoOp /\ op[t].step = "lock" /\ chan.holder = NoOp
      /\ chan' = [chan EXCEPT !.holder = t]
      /\ op' = [op EXCEPT ![t] = [op[t] EXCEPT !.step = "select"]]
      /\ UNCHANGED <<hw, disk, acked, failed>>
  BY DEF ide_lock, At, Goto
<1>3. "select" \in Steps
  BY DEF Steps
<1>4. /\ op' \in [IdeThreads -> OpSet \cup {NoOp}]
      /\ op'[t] # NoOp /\ op'[t].step = "select"
      /\ \A u \in IdeThreads : u # t => op'[u] = op[u]
  BY <1>1, <1>2, <1>3, GotoFacts
<1>5. IdeTypeOK' /\ chan'.holder = t
  BY <1>1, <1>2, <1>4 DEF IdeTypeOK
<1>6. Holding(t)'
  BY <1>4 DEF Holding
<1>7. CallOK(t)'
  <2>1. IdleDisk \/ BusyWith("store")
    BY <1>1, <1>2 DEF DiskOK
  <2>2. (IdleDisk \/ BusyWith("store"))'
    BY <1>2, <2>1 DEF IdleDisk, BusyWith
  <2>3. QED
    BY <1>4, <2>2 DEF CallOK, ReadStep, WriteStep
<1>8. HolderOK' /\ DiskOK'
  BY <1>1, <1>2, <1>4, <1>5, <1>6, <1>7, HolderStep DEF DiskOK
<1>9. \A u \in IdeThreads, d \in Disks, s \in Sectors :
        BeingWritten(u, d, s) => BeingWritten(u, d, s)'
  BY <1>2, <1>4 DEF BeingWritten, Holding
<1>10. AckedOK'
  BY <1>1, <1>2, <1>9, AckedSame
<1>11. QED
  BY <1>1, <1>2, <1>5, <1>8, <1>10 DEF IdeInv, AlwaysDataRequested

(* The sector is selected on a disk that is idle.                           *)
LEMMA SelectStep ==
  ASSUME Distinct, IdeInv, NEW t \in IdeThreads, select_sector(t)
  PROVE  IdeInv'
<1>1. IdeTypeOK /\ HolderOK /\ DiskOK /\ AckedOK /\ AlwaysDataRequested
  BY DEF IdeInv
<1>2. /\ op[t] # NoOp /\ op[t].step = "select" /\ ~hw.busy /\ ~hw.drq
      /\ hw' = [hw EXCEPT !.irq = FALSE, !.device = op[t].disk, !.sector = op[t].sector]
      /\ op' = [op EXCEPT ![t] = [op[t] EXCEPT !.step = "issue"]]
      /\ UNCHANGED <<chan, disk, acked, failed>>
  BY DEF select_sector, At, Goto
<1>3. "issue" \in Steps
  BY DEF Steps
<1>4. /\ op' \in [IdeThreads -> OpSet \cup {NoOp}]
      /\ op'[t] # NoOp /\ op'[t].step = "issue"
      /\ op'[t].disk = op[t].disk /\ op'[t].sector = op[t].sector
      /\ \A u \in IdeThreads : u # t => op'[u] = op[u]
  BY <1>1, <1>2, <1>3, GotoFacts
<1>5. Holding(t) /\ chan.holder = t
  BY <1>1, <1>2, OpFacts DEF Holding
<1>6. op[t].disk \in Disks /\ op[t].sector \in Sectors
  BY <1>1, <1>2, OpFacts DEF OpSet
<1>7. IdeTypeOK'
  BY <1>1, <1>2, <1>4, <1>6 DEF IdeTypeOK
<1>8. IdleDisk
  BY <1>1, <1>2, <1>5 DEF DiskOK, CallOK, BusyWith
<1>9. /\ IdleDisk' /\ hw'.device = op'[t].disk /\ hw'.sector = op'[t].sector
  BY <1>1, <1>2, <1>4, <1>8 DEF IdleDisk, IdeTypeOK
<1>10. Holding(t)' /\ CallOK(t)'
  BY <1>4, <1>9 DEF Holding, CallOK, ReadStep, WriteStep
<1>11. HolderOK' /\ DiskOK'
  BY <1>1, <1>2, <1>4, <1>5, <1>9, <1>10, HolderStep DEF IdleDisk
<1>12. \A u \in IdeThreads, d \in Disks, s \in Sectors :
         BeingWritten(u, d, s) => BeingWritten(u, d, s)'
  BY <1>2, <1>4 DEF BeingWritten, Holding
<1>13. AckedOK'
  BY <1>1, <1>2, <1>8, <1>9, <1>12, AckedKept DEF IdleDisk, BusyWith
<1>14. QED
  BY <1>1, <1>2, <1>7, <1>11, <1>13 DEF IdeInv, AlwaysDataRequested

(* The command is issued to the idle disk.                                  *)
LEMMA IssueStep ==
  ASSUME Distinct, IdeInv, NEW t \in IdeThreads, issue_pio_command(t)
  PROVE  IdeInv'
<1> DEFINE next == IF op[t].kind = "read" THEN "down" ELSE "busy"
<1>1. IdeTypeOK /\ HolderOK /\ DiskOK /\ AckedOK /\ AlwaysDataRequested
  BY DEF IdeInv
<1>2. /\ op[t] # NoOp /\ op[t].step = "issue"
      /\ chan' = [chan EXCEPT !.expecting = TRUE]
      /\ hw' = [hw EXCEPT !.busy = TRUE, !.command = op[t].kind]
      /\ op' = [op EXCEPT ![t] = [op[t] EXCEPT !.step = next]]
      /\ UNCHANGED <<disk, acked, failed>>
  BY DEF issue_pio_command, At, Goto
<1>3. next \in Steps /\ op[t].kind \in {"read", "write"}
  BY <1>1, <1>2, OpFacts DEF Steps, OpSet
<1>4. /\ op' \in [IdeThreads -> OpSet \cup {NoOp}]
      /\ op'[t] # NoOp /\ op'[t].step = next /\ op'[t].kind = op[t].kind
      /\ op'[t].disk = op[t].disk /\ op'[t].sector = op[t].sector
      /\ \A u \in IdeThreads : u # t => op'[u] = op[u]
  BY <1>1, <1>2, <1>3, GotoFacts
<1>5. Holding(t) /\ chan.holder = t
  BY <1>1, <1>2, OpFacts DEF Holding
<1>6. IdeTypeOK' /\ chan'.holder = t
  BY <1>1, <1>2, <1>3, <1>4, <1>5 DEF IdeTypeOK
<1>7. IdleDisk /\ hw.device = op[t].disk /\ hw.sector = op[t].sector
  BY <1>1, <1>2, <1>5 DEF DiskOK, CallOK
<1>8. /\ hw'.busy /\ ~hw'.drq /\ hw'.command = op[t].kind
      /\ hw'.device = op[t].disk /\ hw'.sector = op[t].sector
  BY <1>1, <1>2, <1>7 DEF IdleDisk, IdeTypeOK
<1>9. Holding(t)' /\ CallOK(t)'
  BY <1>3, <1>4, <1>8 DEF Holding, CallOK, ReadStep, WriteStep, BusyWith
<1>10. HolderOK' /\ DiskOK'
  BY <1>1, <1>4, <1>5, <1>6, <1>8, <1>9, HolderStep
<1>11. \A u \in IdeThreads, d \in Disks, s \in Sectors :
         BeingWritten(u, d, s) => BeingWritten(u, d, s)'
  BY <1>2, <1>4 DEF BeingWritten, Holding
<1>12. AckedOK'
  BY <1>1, <1>2, <1>3, <1>7, <1>8, <1>11, AckedKept DEF IdleDisk, BusyWith
<1>13. QED
  BY <1>1, <1>2, <1>6, <1>10, <1>12 DEF IdeInv, AlwaysDataRequested

(* A read comes back from sema_down, its own interrupt or a stray one.      *)
LEMMA DownReadStep ==
  ASSUME Distinct, IdeInv, NEW t \in IdeThreads, completion_down(t), op[t].kind = "read"
  PROVE  IdeInv'
<1>1. IdeTypeOK /\ HolderOK /\ DiskOK /\ AckedOK /\ AlwaysDataRequested
  BY DEF IdeInv
<1>2. /\ op[t] # NoOp /\ op[t].step = "down" /\ chan.completion > 0
      /\ chan' = [chan EXCEPT !.completion = @ - 1]
      /\ op' = [op EXCEPT ![t] = [op[t] EXCEPT !.step = "busy"]]
      /\ UNCHANGED <<hw, disk, acked, failed>>
  BY DEF completion_down, At, Goto
<1>3. "busy" \in Steps
  BY DEF Steps
<1>4. /\ op' \in [IdeThreads -> OpSet \cup {NoOp}]
      /\ op'[t] # NoOp /\ op'[t].step = "busy" /\ op'[t].kind = "read"
      /\ op'[t].disk = op[t].disk /\ op'[t].sector = op[t].sector
      /\ \A u \in IdeThreads : u # t => op'[u] = op[u]
  BY <1>1, <1>2, <1>3, GotoFacts
<1>5. Holding(t) /\ chan.holder = t
  BY <1>1, <1>2, OpFacts DEF Holding
<1>6. IdeTypeOK' /\ chan'.holder = t
  BY <1>1, <1>2, <1>4, <1>5 DEF IdeTypeOK
<1>7. CallOK(t)
  BY <1>1, <1>5 DEF DiskOK
<1>8. Holding(t)' /\ CallOK(t)'
  BY <1>2, <1>4, <1>7 DEF Holding, CallOK, ReadStep, BusyWith, AsksWith, Target
<1>9. HolderOK' /\ DiskOK'
  BY <1>1, <1>2, <1>4, <1>5, <1>6, <1>8, HolderStep DEF DiskOK
<1>10. \A u \in IdeThreads, d \in Disks, s \in Sectors :
         BeingWritten(u, d, s) => BeingWritten(u, d, s)'
  BY <1>4 DEF BeingWritten, Holding
<1>11. AckedOK'
  BY <1>1, <1>2, <1>10, AckedSame
<1>12. QED
  BY <1>1, <1>2, <1>6, <1>9, <1>11 DEF IdeInv, AlwaysDataRequested

(* The poll of the status register: the disk that is no longer busy asks    *)
(* for data, so the driver does not panic.                                  *)
LEMMA BusyStep ==
  ASSUME Distinct, IdeInv, NEW t \in IdeThreads, wait_while_busy(t)
  PROVE  IdeInv'
<1>1. IdeTypeOK /\ HolderOK /\ DiskOK /\ AckedOK /\ AlwaysDataRequested
  BY DEF IdeInv
<1>2. /\ op[t] # NoOp /\ op[t].step = "busy" /\ ~hw.busy
      /\ UNCHANGED <<chan, hw, disk, acked>>
  BY DEF wait_while_busy, At
<1>3. Holding(t) /\ chan.holder = t
  BY <1>1, <1>2, OpFacts DEF Holding
<1>4. CallOK(t) /\ op[t].kind \in {"read", "write"}
  BY <1>1, <1>2, <1>3, OpFacts DEF DiskOK, OpSet
<1>5. hw.drq
  BY <1>2, <1>4 DEF CallOK, ReadStep, WriteStep, BusyWith, AsksWith
<1>6. op' = [op EXCEPT ![t] = [op[t] EXCEPT !.step = "data"]] /\ failed' = failed
  BY <1>5 DEF wait_while_busy, Goto
<1>7. "data" \in Steps
  BY DEF Steps
<1>8. /\ op' \in [IdeThreads -> OpSet \cup {NoOp}]
      /\ op'[t] # NoOp /\ op'[t].step = "data" /\ op'[t].kind = op[t].kind
      /\ op'[t].disk = op[t].disk /\ op'[t].sector = op[t].sector
      /\ \A u \in IdeThreads : u # t => op'[u] = op[u]
  BY <1>1, <1>2, <1>6, <1>7, GotoFacts
<1>9. IdeTypeOK'
  BY <1>1, <1>2, <1>8 DEF IdeTypeOK
<1>10. Holding(t)' /\ CallOK(t)'
  <2>1. Holding(t)'
    BY <1>8 DEF Holding
  <2>2. ReadStep(t) /\ op[t].kind = "read" => ReadStep(t)'
    BY <1>2, <1>8 DEF ReadStep, BusyWith, AsksWith, Target
  <2>3. WriteStep(t) /\ op[t].kind = "write" => WriteStep(t)'
    BY <1>2, <1>8 DEF WriteStep, BusyWith, AsksWith
  <2>4. QED
    BY <1>2, <1>4, <1>8, <2>1, <2>2, <2>3 DEF CallOK
<1>11. HolderOK' /\ DiskOK'
  BY <1>1, <1>2, <1>3, <1>8, <1>9, <1>10, HolderStep DEF DiskOK
<1>12. \A u \in IdeThreads, d \in Disks, s \in Sectors :
         BeingWritten(u, d, s) => BeingWritten(u, d, s)'
  BY <1>2, <1>8 DEF BeingWritten, Holding
<1>13. AckedOK'
  BY <1>1, <1>2, <1>12, AckedSame
<1>14. QED
  BY <1>1, <1>6, <1>9, <1>11, <1>13 DEF IdeInv, AlwaysDataRequested

(* The data of a read is taken out of the disk's buffer.                    *)
LEMMA InputStep ==
  ASSUME Distinct, IdeInv, NEW t \in IdeThreads, input_sector(t)
  PROVE  IdeInv'
<1> DEFINE r == [op[t] EXCEPT !.value = hw.buffer, !.step = "unlock"]
<1>1. IdeTypeOK /\ HolderOK /\ DiskOK /\ AckedOK /\ AlwaysDataRequested
  BY DEF IdeInv
<1>2. /\ op[t] # NoOp /\ op[t].step = "data" /\ op[t].kind = "read"
      /\ hw' = [hw EXCEPT !.drq = FALSE]
      /\ UNCHANGED <<chan, disk, acked, failed>>
  BY DEF input_sector, At
<1>3. Holding(t) /\ chan.holder = t /\ op[t] \in OpSet
  BY <1>1, <1>2, OpFacts DEF Holding
<1>4. AsksWith("none") /\ hw.buffer = Target(t)
      /\ hw.device = op[t].disk /\ hw.sector = op[t].sector
  BY <1>1, <1>2, <1>3 DEF DiskOK, CallOK, ReadStep
<1>5. op'[t] = r /\ r \in OpSet /\ op' \in [IdeThreads -> OpSet \cup {NoOp}]
      /\ \A u \in IdeThreads : u # t => op'[u] = op[u]
  <2>1. r \in OpSet
    BY <1>1, <1>3 DEF OpSet, Steps, IdeTypeOK
  <2>2. QED
    BY <1>1, <2>1 DEF input_sector, IdeTypeOK
<1>6. /\ op'[t] # NoOp /\ op'[t].step = "unlock" /\ op'[t].kind = "read"
      /\ op'[t].disk = op[t].disk /\ op'[t].sector = op[t].sector
      /\ op'[t].value = hw.buffer
  <2>1. op'[t] # NoOp
    BY <1>5 DEF Distinct
  <2>2. /\ r.step = "unlock" /\ r.kind = op[t].kind /\ r.value = hw.buffer
        /\ r.disk = op[t].disk /\ r.sector = op[t].sector
    BY <1>3 DEF OpSet
  <2>3. QED
    BY <1>2, <1>5, <2>1, <2>2
<1>7. IdeTypeOK'
  BY <1>1, <1>2, <1>5 DEF IdeTypeOK
<1>8. IdleDisk' /\ hw'.device = hw.device /\ hw'.sector = hw.sector
  BY <1>1, <1>2, <1>4 DEF AsksWith, IdleDisk, IdeTypeOK
<1>9. Holding(t)' /\ CallOK(t)'
  BY <1>2, <1>4, <1>6, <1>8 DEF Holding, CallOK, ReadStep, Target
<1>10. HolderOK' /\ DiskOK'
  BY <1>1, <1>2, <1>3, <1>5, <1>8, <1>9, HolderStep DEF IdleDisk
<1>11. \A u \in IdeThreads, d \in Disks, s \in Sectors :
         BeingWritten(u, d, s) => BeingWritten(u, d, s)'
  BY <1>2, <1>5 DEF BeingWritten, Holding
<1>12. AckedOK'
  BY <1>1, <1>2, <1>4, <1>8, <1>11, AckedKept DEF IdleDisk, BusyWith, AsksWith
<1>13. QED
  BY <1>1, <1>2, <1>7, <1>10, <1>12 DEF IdeInv, AlwaysDataRequested

(* The data of a write goes into the disk's buffer.                         *)
LEMMA OutputStep ==
  ASSUME Distinct, IdeInv, NEW t \in IdeThreads, output_sector(t)
  PROVE  IdeInv'
<1>1. IdeTypeOK /\ HolderOK /\ DiskOK /\ AckedOK /\ AlwaysDataRequested
  BY DEF IdeInv
<1>2. /\ op[t] # NoOp /\ op[t].step = "data" /\ op[t].kind = "write"
      /\ hw' = [hw EXCEPT !.drq = FALSE, !.busy = TRUE, !.buffer = op[t].value]
      /\ op' = [op EXCEPT ![t] = [op[t] EXCEPT !.step = "down"]]
      /\ UNCHANGED <<chan, disk, acked, failed>>
  BY DEF output_sector, At, Goto
<1>3. "down" \in Steps
  BY DEF Steps
<1>4. /\ op' \in [IdeThreads -> OpSet \cup {NoOp}]
      /\ op'[t] # NoOp /\ op'[t].step = "down" /\ op'[t].kind = "write"
      /\ op'[t].disk = op[t].disk /\ op'[t].sector = op[t].sector
      /\ op'[t].value = op[t].value
      /\ \A u \in IdeThreads : u # t => op'[u] = op[u]
  BY <1>1, <1>2, <1>3, GotoFacts
<1>5. Holding(t) /\ chan.holder = t /\ op[t] \in OpSet
  BY <1>1, <1>2, OpFacts DEF Holding
<1>6. AsksWith("store") /\ hw.device = op[t].disk /\ hw.sector = op[t].sector
  BY <1>1, <1>2, <1>5 DEF DiskOK, CallOK, WriteStep
<1>7. IdeTypeOK'
  BY <1>1, <1>2, <1>4, <1>5 DEF IdeTypeOK, OpSet
<1>8. /\ hw'.busy /\ ~hw'.drq /\ hw'.command = "store" /\ hw'.buffer = op[t].value
      /\ hw'.device = op[t].disk /\ hw'.sector = op[t].sector
  BY <1>1, <1>2, <1>6 DEF AsksWith, IdeTypeOK
<1>9. Holding(t)' /\ CallOK(t)'
  BY <1>4, <1>8 DEF Holding, CallOK, WriteStep, BusyWith
<1>10. HolderOK' /\ DiskOK'
  BY <1>1, <1>2, <1>4, <1>5, <1>8, <1>9, HolderStep
<1>11. AckedOK'
  <2>1. \A u \in IdeThreads, d \in Disks, s \in Sectors : ~BeingWritten(u, d, s)
    BY <1>1, <1>2, <1>5, OpFacts DEF BeingWritten
  <2>2. \A d \in Disks, s \in Sectors : acked[d][s] = disk[d][s]
    BY <1>1, <1>6, <2>1 DEF AckedOK, Settled, BusyWith, AsksWith
  <2>3. ASSUME NEW d \in Disks, NEW s \in Sectors
        PROVE  acked'[d][s] = Settled(d, s)' \/ BeingWritten(t, d, s)'
    <3>1. CASE d = op[t].disk /\ s = op[t].sector
      BY <1>4, <1>9, <3>1 DEF BeingWritten
    <3>2. CASE ~(d = op[t].disk /\ s = op[t].sector)
      BY <1>2, <1>8, <2>2, <3>2 DEF Settled
    <3>3. QED
      BY <3>1, <3>2
  <2>4. QED
    BY <2>3 DEF AckedOK
<1>12. QED
  BY <1>1, <1>2, <1>7, <1>10, <1>11 DEF IdeInv, AlwaysDataRequested

(* A call leaves the section: nobody is in it, and the disk is idle or      *)
(* storing.                                                                 *)
LEMMA LeaveStep ==
  ASSUME Distinct, IdeTypeOK, HolderOK, NEW t \in IdeThreads, Holding(t),
         chan'.holder = NoOp, op'[t] = NoOp, UNCHANGED hw,
         IdleDisk \/ BusyWith("store"),
         \A u \in IdeThreads : u # t => op'[u] = op[u]
  PROVE  HolderOK' /\ DiskOK' /\ \A u \in IdeThreads : ~Holding(u)'
<1>1. \A u \in IdeThreads : ~Holding(u)'
  BY OpFacts DEF Holding
<1>2. HolderOK'
  BY <1>1 DEF HolderOK, Distinct
<1>3. (IdleDisk \/ BusyWith("store"))'
  BY DEF IdleDisk, BusyWith
<1>4. DiskOK'
  BY <1>1, <1>3 DEF DiskOK, IdleDisk, BusyWith
<1>5. QED
  BY <1>1, <1>2, <1>4

(* The end of ide_read.                                                     *)
LEMMA UnlockStep ==
  ASSUME Distinct, IdeInv, NEW t \in IdeThreads, ide_unlock(t)
  PROVE  IdeInv'
<1>1. IdeTypeOK /\ HolderOK /\ DiskOK /\ AckedOK /\ AlwaysDataRequested
  BY DEF IdeInv
<1>2. /\ op[t] # NoOp /\ op[t].step = "unlock"
      /\ chan' = [chan EXCEPT !.holder = NoOp]
      /\ op' = [op EXCEPT ![t] = NoOp]
      /\ UNCHANGED <<hw, disk, acked, failed>>
  BY DEF ide_unlock, At
<1>3. Holding(t) /\ op[t] \in OpSet
  BY <1>1, <1>2, OpFacts DEF Holding
<1>4. IdleDisk
  BY <1>1, <1>2, <1>3 DEF DiskOK, CallOK, ReadStep, WriteStep, OpSet
<1>5. /\ op' \in [IdeThreads -> OpSet \cup {NoOp}] /\ op'[t] = NoOp
      /\ \A u \in IdeThreads : u # t => op'[u] = op[u]
      /\ chan'.holder = NoOp
  BY <1>1, <1>2 DEF IdeTypeOK
<1>6. IdeTypeOK'
  BY <1>1, <1>2, <1>5 DEF IdeTypeOK
<1>7. HolderOK' /\ DiskOK'
  BY <1>1, <1>2, <1>3, <1>4, <1>5, LeaveStep
<1>8. \A u \in IdeThreads, d \in Disks, s \in Sectors :
        BeingWritten(u, d, s) => BeingWritten(u, d, s)'
  BY <1>2, <1>5 DEF BeingWritten, Holding
<1>9. AckedOK'
  BY <1>1, <1>2, <1>8, AckedSame
<1>10. QED
  BY <1>1, <1>2, <1>6, <1>7, <1>9 DEF IdeInv, AlwaysDataRequested

(* A write returns, when the disk has stored the sector or, after a stray   *)
(* interrupt, while it still does.                                          *)
LEMMA DownWriteStep ==
  ASSUME Distinct, IdeInv, NEW t \in IdeThreads, completion_down(t), op[t].kind = "write"
  PROVE  IdeInv'
<1> DEFINE x == op[t].disk
<1> DEFINE y == op[t].sector
<1>1. IdeTypeOK /\ HolderOK /\ DiskOK /\ AckedOK /\ AlwaysDataRequested
  BY DEF IdeInv
<1>2. /\ op[t] # NoOp /\ op[t].step = "down" /\ chan.completion > 0
      /\ chan' = [chan EXCEPT !.completion = @ - 1, !.holder = NoOp]
      /\ acked' = [acked EXCEPT ![x][y] = op[t].value]
      /\ op' = [op EXCEPT ![t] = NoOp]
      /\ UNCHANGED <<hw, disk, failed>>
  BY DEF completion_down, At
<1>3. Holding(t) /\ op[t] \in OpSet
  BY <1>1, <1>2, OpFacts DEF Holding
<1>4. /\ hw.device = x /\ hw.sector = y
      /\ \/ BusyWith("store") /\ hw.buffer = op[t].value
         \/ IdleDisk /\ op[t].value = Target(t)
  BY <1>1, <1>2, <1>3 DEF DiskOK, CallOK, WriteStep
<1>5. x \in Disks /\ y \in Sectors /\ op[t].value \in Contents
  BY <1>3 DEF OpSet
<1>6. /\ op' \in [IdeThreads -> OpSet \cup {NoOp}] /\ op'[t] = NoOp
      /\ \A u \in IdeThreads : u # t => op'[u] = op[u]
      /\ chan'.holder = NoOp
  BY <1>1, <1>2 DEF IdeTypeOK
<1>7. IdeTypeOK'
  <2>0. chan.completion \in Nat /\ chan.completion - 1 \in Nat
    BY <1>1, <1>2 DEF IdeTypeOK
  <2>1. chan' \in [holder : IdeThreads \cup {NoOp}, expecting : BOOLEAN, completion : Nat]
    BY <1>1, <1>2, <2>0 DEF IdeTypeOK
  <2>2. acked' \in [Disks -> [Sectors -> Contents]]
    BY <1>1, <1>2, <1>5 DEF IdeTypeOK
  <2>3. QED
    BY <1>1, <1>2, <1>6, <2>1, <2>2 DEF IdeTypeOK
<1>8. HolderOK' /\ DiskOK'
  BY <1>1, <1>2, <1>3, <1>4, <1>6, LeaveStep
<1>9. AckedOK'
  <2>1. ASSUME NEW d \in Disks, NEW s \in Sectors
        PROVE  acked'[d][s] = Settled(d, s)'
    <3>0. Settled(d, s)' = Settled(d, s)
      BY <1>2 DEF Settled, BusyWith
    <3>1. CASE d = x /\ s = y
      <4>1. acked'[d][s] = op[t].value
        BY <1>1, <1>2, <1>5, <3>1 DEF IdeTypeOK
      <4>2. Settled(d, s) = op[t].value
        BY <1>4, <3>1 DEF Settled, Target, IdleDisk, BusyWith
      <4>3. QED
        BY <3>0, <4>1, <4>2
    <3>2. CASE ~(d = x /\ s = y)
      <4>1. acked'[d][s] = acked[d][s]
        BY <1>1, <1>2, <1>5, <3>2 DEF IdeTypeOK
      <4>2. \A u \in IdeThreads : ~BeingWritten(u, d, s)
        BY <1>1, <1>3, <3>2, OpFacts DEF BeingWritten
      <4>3. QED
        BY <1>1, <3>0, <4>1, <4>2 DEF AckedOK
    <3>3. QED
      BY <3>1, <3>2
  <2>2. QED
    BY <2>1 DEF AckedOK
<1>10. QED
  BY <1>1, <1>2, <1>7, <1>8, <1>9 DEF IdeInv, AlwaysDataRequested

(* An interrupt, expected or stray, changes the line and completion_wait    *)
(* only.                                                                    *)
LEMMA IrqStep ==
  ASSUME Distinct, IdeInv, UNCHANGED <<disk, op, acked>>, NEW b \in BOOLEAN,
         hw' = [hw EXCEPT !.irq = b],
         chan' = chan \/ chan' = [chan EXCEPT !.completion = @ + 1],
         failed' # "no data request"
  PROVE  IdeInv'
<1>1. IdeTypeOK /\ HolderOK /\ DiskOK /\ AckedOK /\ AlwaysDataRequested
  BY DEF IdeInv
<1>2. IdeTypeOK' /\ chan'.holder = chan.holder
  <2>0. chan.completion \in Nat
    BY ONLY <1>1 DEF IdeTypeOK
  <2>1. chan.completion + 1 \in Nat
    BY ONLY <2>0
  <2>2. /\ chan' \in [holder : IdeThreads \cup {NoOp}, expecting : BOOLEAN, completion : Nat]
        /\ chan'.holder = chan.holder
    <3>1. CASE chan' = chan
      BY <1>1, <3>1 DEF IdeTypeOK
    <3>2. CASE chan' = [chan EXCEPT !.completion = @ + 1]
      BY <1>1, <2>1, <3>2 DEF IdeTypeOK
    <3>3. QED
      BY <3>1, <3>2
  <2>3. hw' \in [busy : BOOLEAN, drq : BOOLEAN, irq : BOOLEAN, device : Disks,
                 sector : Sectors \cup {0}, command : {"none", "read", "write", "store"},
                 buffer : Contents]
    BY <1>1 DEF IdeTypeOK
  <2>4. QED
    BY <1>1, <2>2, <2>3 DEF IdeTypeOK
<1>3. /\ hw'.busy = hw.busy /\ hw'.drq = hw.drq /\ hw'.command = hw.command
      /\ hw'.device = hw.device /\ hw'.sector = hw.sector /\ hw'.buffer = hw.buffer
  BY <1>1 DEF IdeTypeOK
<1>0. op' = op /\ disk' = disk
  OBVIOUS
<1>4. HolderOK'
  BY ONLY <1>0, <1>1, <1>2 DEF HolderOK, Holding
<1>5. DiskOK'
  <2>1. /\ IdleDisk' = IdleDisk
        /\ \A c \in {"none", "read", "write", "store"} :
             BusyWith(c)' = BusyWith(c) /\ AsksWith(c)' = AsksWith(c)
    BY ONLY <1>3 DEF IdleDisk, BusyWith, AsksWith
  <2>2. \A t \in IdeThreads : CallOK(t)' = CallOK(t)
    <3>1. \A t \in IdeThreads : ReadStep(t)' = ReadStep(t)
      BY ONLY <1>0, <1>3, <2>1 DEF ReadStep, Target
    <3>2. \A t \in IdeThreads : WriteStep(t)' = WriteStep(t)
      BY ONLY <1>0, <1>3, <2>1 DEF WriteStep, Target
    <3>3. QED
      BY ONLY <1>0, <1>3, <2>1, <3>1, <3>2 DEF CallOK
  <2>3. QED
    BY ONLY <1>0, <1>1, <1>2, <1>3, <2>1, <2>2 DEF DiskOK, Holding
<1>6. AckedOK'
  <2>1. \A d \in Disks, s \in Sectors : Settled(d, s)' = Settled(d, s)
    BY <1>3 DEF Settled, BusyWith
  <2>2. \A u \in IdeThreads, d \in Disks, s \in Sectors :
          BeingWritten(u, d, s) => BeingWritten(u, d, s)'
    BY DEF BeingWritten, Holding
  <2>3. QED
    BY <1>1, <2>1, <2>2 DEF AckedOK
<1>7. QED
  BY <1>2, <1>4, <1>5, <1>6 DEF IdeInv, AlwaysDataRequested

(* The disk has the data of a read, or wants the data of a write.           *)
LEMMA DataRequestStep ==
  ASSUME Distinct, IdeInv, DataRequest
  PROVE  IdeInv'
<1>1. IdeTypeOK /\ HolderOK /\ DiskOK /\ AckedOK /\ AlwaysDataRequested
  BY DEF IdeInv
<1>2. /\ hw.busy /\ hw.command \in {"read", "write"}
      /\ UNCHANGED <<chan, disk, op, acked, failed>>
  BY DEF DataRequest
<1>3. /\ hw' \in [busy : BOOLEAN, drq : BOOLEAN, irq : BOOLEAN, device : Disks,
                   sector : Sectors \cup {0}, command : {"none", "read", "write", "store"},
                   buffer : Contents]
      /\ ~hw'.busy /\ hw'.drq /\ hw'.device = hw.device /\ hw'.sector = hw.sector
      /\ hw.command = "read" =>
           hw'.command = "none" /\ hw'.buffer = disk[hw.device][hw.sector]
      /\ hw.command = "write" => hw'.command = "store"
  <2>0. ~hw.drq
    BY <1>1, <1>2 DEF DiskOK
  <2>1. CASE hw.command = "read"
    <3>1. hw' = [hw EXCEPT !.busy = FALSE, !.drq = TRUE, !.irq = TRUE,
                           !.command = "none", !.buffer = disk[hw.device][hw.sector]]
      BY <2>1 DEF DataRequest
    <3>2. PICK t \in IdeThreads : Holding(t)
      BY <1>1, <1>2, <2>1 DEF DiskOK, IdleDisk, BusyWith, HolderOK, IdeTypeOK
    <3>3. hw.sector = op[t].sector
      BY <1>1, <1>2, <2>1, <3>2 DEF DiskOK, CallOK, IdleDisk, BusyWith
    <3>4. hw.sector \in Sectors
      BY <1>1, <3>2, <3>3, OpFacts DEF Holding, OpSet
    <3>5. disk[hw.device][hw.sector] \in Contents
      BY <1>1, <3>4 DEF IdeTypeOK
    <3>6. QED
      BY <1>1, <2>1, <3>1, <3>5 DEF IdeTypeOK
  <2>2. CASE hw.command = "write"
    <3>1. hw' = [hw EXCEPT !.busy = FALSE, !.drq = TRUE, !.command = "store"]
      BY <2>2 DEF DataRequest
    <3>2. QED
      BY <1>1, <2>2, <3>1 DEF IdeTypeOK
  <2>3. QED
    BY <1>2, <2>1, <2>2
<1>4. IdeTypeOK' /\ HolderOK'
  BY <1>1, <1>2, <1>3 DEF IdeTypeOK, HolderOK, Holding
<1>5. DiskOK'
  <2>1. chan'.holder # NoOp
    BY <1>1, <1>2 DEF DiskOK, IdleDisk, BusyWith
  <2>2. ASSUME NEW t \in IdeThreads, Holding(t)
        PROVE  CallOK(t)'
    <3>1. CallOK(t) /\ op[t] \in OpSet /\ op[t].step # "lock"
      BY <1>1, <2>2, OpFacts DEF DiskOK, Holding
    <3>2. /\ op[t].step \notin {"select", "issue"}
          /\ hw.device = op[t].disk /\ hw.sector = op[t].sector
      BY <1>2, <3>1 DEF CallOK, IdleDisk, BusyWith
    <3>3. CASE op[t].kind = "read"
      <4>1. hw.command = "read" /\ op[t].step \in {"down", "busy"}
        BY <1>2, <3>1, <3>2, <3>3 DEF CallOK, ReadStep, IdleDisk, BusyWith, AsksWith,
           OpSet, Steps
      <4>2. (AsksWith("none") /\ hw.buffer = Target(t))'
        BY <1>2, <1>3, <3>2, <4>1 DEF AsksWith, Target
      <4>3. QED
        BY <1>2, <1>3, <3>2, <3>3, <4>1, <4>2 DEF CallOK, ReadStep
    <3>4. CASE op[t].kind = "write"
      <4>1. hw.command = "write" /\ op[t].step = "busy"
        BY <1>2, <3>1, <3>2, <3>4 DEF CallOK, WriteStep, IdleDisk, BusyWith, AsksWith,
           OpSet, Steps
      <4>2. AsksWith("store")'
        BY <1>3, <4>1 DEF AsksWith
      <4>3. QED
        BY <1>2, <1>3, <3>2, <3>4, <4>1, <4>2 DEF CallOK, WriteStep
    <3>5. QED
      BY <3>1, <3>3, <3>4 DEF OpSet
  <2>3. \A t \in IdeThreads : Holding(t)' => Holding(t)
    BY <1>2 DEF Holding
  <2>4. QED
    BY <1>3, <2>1, <2>2, <2>3 DEF DiskOK
<1>6. AckedOK'
  <2>1. \A u \in IdeThreads, d \in Disks, s \in Sectors :
          BeingWritten(u, d, s) => BeingWritten(u, d, s)'
    BY <1>2 DEF BeingWritten, Holding
  <2>2. QED
    BY <1>1, <1>2, <1>3, <2>1, AckedKept DEF BusyWith
<1>7. QED
  BY <1>1, <1>2, <1>4, <1>5, <1>6 DEF IdeInv, AlwaysDataRequested

(* The disk has stored the data of a write, whose call may have returned.   *)
LEMMA StoredStep ==
  ASSUME Distinct, IdeInv, Stored
  PROVE  IdeInv'
<1>1. IdeTypeOK /\ HolderOK /\ DiskOK /\ AckedOK /\ AlwaysDataRequested
  BY DEF IdeInv
<1>2. /\ hw.busy /\ hw.command = "store"
      /\ disk' = [disk EXCEPT ![hw.device][hw.sector] = hw.buffer]
      /\ hw' = [hw EXCEPT !.busy = FALSE, !.irq = TRUE, !.command = "none"]
      /\ UNCHANGED <<chan, op, acked, failed>>
  BY DEF Stored
<1>3. BusyWith("store") /\ ~hw.drq
  BY <1>1, <1>2 DEF DiskOK, BusyWith
<1>4. /\ hw' \in [busy : BOOLEAN, drq : BOOLEAN, irq : BOOLEAN, device : Disks,
                   sector : Sectors \cup {0}, command : {"none", "read", "write", "store"},
                   buffer : Contents]
      /\ ~hw'.busy /\ ~hw'.drq /\ hw'.command = "none"
      /\ hw'.device = hw.device /\ hw'.sector = hw.sector
  BY <1>1, <1>2, <1>3 DEF IdeTypeOK
<1>5. /\ disk' \in [Disks -> [Sectors -> Contents]]
      /\ \A d \in Disks, s \in Sectors : disk'[d][s] = Settled(d, s)
  <2>1. hw.device \in Disks /\ hw.buffer \in Contents
    BY <1>1 DEF IdeTypeOK
  <2>2. QED
    BY <1>1, <1>2, <1>3, <2>1 DEF IdeTypeOK, Settled
<1>6. IdleDisk'
  BY <1>4 DEF IdleDisk
<1>7. IdeTypeOK' /\ HolderOK'
  BY <1>1, <1>2, <1>4, <1>5 DEF IdeTypeOK, HolderOK, Holding
<1>8. DiskOK'
  <2>1. ASSUME NEW t \in IdeThreads, Holding(t)
        PROVE  CallOK(t)'
    <3>1. CallOK(t) /\ op[t] \in OpSet /\ op[t].step # "lock"
      BY <1>1, <2>1, OpFacts DEF DiskOK, Holding
    <3>2. CASE op[t].step = "select"
      BY <1>2, <1>6, <3>2 DEF CallOK, ReadStep, WriteStep
    <3>3. CASE op[t].step # "select"
      <4>1. /\ op[t].kind = "write" /\ op[t].step = "down" /\ hw.buffer = op[t].value
            /\ hw.device = op[t].disk /\ hw.sector = op[t].sector
        BY <1>2, <3>1, <3>3 DEF CallOK, ReadStep, WriteStep, IdleDisk, BusyWith,
           AsksWith, OpSet, Steps
      <4>2. op[t].disk \in Disks /\ op[t].sector \in Sectors
        BY <3>1 DEF OpSet
      <4>3. disk'[op[t].disk][op[t].sector] = op[t].value
        BY <1>3, <1>5, <4>1, <4>2 DEF Settled
      <4>4. QED
        BY <1>2, <1>4, <1>6, <4>1, <4>3 DEF CallOK, WriteStep, Target
    <3>4. QED
      BY <3>2, <3>3
  <2>2. \A t \in IdeThreads : Holding(t)' => Holding(t)
    BY <1>2 DEF Holding
  <2>3. QED
    BY <1>4, <1>6, <2>1, <2>2 DEF DiskOK
<1>9. AckedOK'
  <2>1. \A d \in Disks, s \in Sectors : Settled(d, s)' = Settled(d, s)
    BY <1>4, <1>5 DEF Settled, BusyWith
  <2>2. \A u \in IdeThreads, d \in Disks, s \in Sectors :
          BeingWritten(u, d, s) => BeingWritten(u, d, s)'
    BY <1>2 DEF BeingWritten, Holding
  <2>3. QED
    BY <1>1, <1>2, <2>1, <2>2 DEF AckedOK
<1>10. QED
  BY <1>1, <1>2, <1>7, <1>8, <1>9 DEF IdeInv, AlwaysDataRequested

(* Every step of the driver and of the disk keeps the invariant.            *)
LEMMA IdeStepInv ==
  ASSUME Distinct, IdeInv, [IdeNext]_ideVars
  PROVE  IdeInv'
<1>1. ASSUME NEW t \in IdeThreads, NEW d \in Disks, NEW s \in Sectors,
             ide_call(t, "read", d, s, NoOp)
      PROVE  IdeInv'
  <2>1. NoOp \in Contents /\ "read" \in {"read", "write"}
    BY DEF Contents
  <2>2. QED
    BY <1>1, <2>1, CallStep
<1>2. ASSUME NEW t \in IdeThreads, NEW d \in Disks, NEW s \in Sectors, NEW v \in Values,
             ide_call(t, "write", d, s, v)
      PROVE  IdeInv'
  <2>1. v \in Contents /\ "write" \in {"read", "write"}
    BY DEF Contents
  <2>2. QED
    BY <1>2, <2>1, CallStep
<1>3. ASSUME NEW t \in IdeThreads, ThreadStep(t)
      PROVE  IdeInv'
  <2>1. ASSUME completion_down(t)
        PROVE  IdeInv'
    <3>1. op[t].kind \in {"read", "write"}
      BY <2>1, OpFacts DEF IdeInv, completion_down, At, OpSet
    <3>2. QED
      BY <2>1, <3>1, DownReadStep, DownWriteStep
  <2>2. QED
    BY <1>3, <2>1, LockStep, SelectStep, IssueStep, BusyStep, InputStep, OutputStep,
       UnlockStep DEF ThreadStep
<1>4. CASE interrupt_handler
  <2>1. /\ UNCHANGED <<disk, op, acked>> /\ hw' = [hw EXCEPT !.irq = FALSE]
        /\ chan' = chan \/ chan' = [chan EXCEPT !.completion = @ + 1]
        /\ failed' # "no data request"
    BY <1>4 DEF interrupt_handler, IdeInv, AlwaysDataRequested
  <2>2. QED
    BY <2>1, IrqStep
<1>5. CASE Spurious
  <2>1. /\ UNCHANGED <<disk, op, acked>> /\ hw' = [hw EXCEPT !.irq = TRUE]
        /\ chan' = chan /\ failed' # "no data request"
    BY <1>5 DEF Spurious, IdeInv, AlwaysDataRequested
  <2>2. QED
    BY <2>1, IrqStep
<1>6. CASE UNCHANGED ideVars
  <2>1. UNCHANGED <<chan, hw, disk, op, acked, failed>>
    BY <1>6 DEF ideVars
  <2>2. IdeTypeOK' /\ HolderOK' /\ AlwaysDataRequested'
    BY <2>1 DEF IdeInv, IdeTypeOK, HolderOK, Holding, AlwaysDataRequested
  <2>3. DiskOK'
    BY <2>1 DEF IdeInv, DiskOK, Holding, CallOK, ReadStep, WriteStep, IdleDisk, BusyWith,
       AsksWith, Target
  <2>4. AckedOK'
    <3>1. \A u \in IdeThreads, d \in Disks, s \in Sectors :
            BeingWritten(u, d, s) => BeingWritten(u, d, s)'
      BY <2>1 DEF BeingWritten, Holding
    <3>2. QED
      BY <2>1, <3>1, AckedSame DEF IdeInv
  <2>5. QED
    BY <2>2, <2>3, <2>4 DEF IdeInv
<1>7. QED
  BY <1>1, <1>2, <1>3, <1>4, <1>5, <1>6, DataRequestStep, StoredStep DEF IdeNext

(* The invariant holds throughout.                                          *)
LEMMA IdeAlwaysInv ==
  ASSUME Distinct
  PROVE  IdeSpec => []IdeInv
<1>1. IdeInit => IdeInv
  BY IdeInitInv
<1>2. IdeInv /\ [IdeNext]_ideVars => IdeInv'
  BY IdeStepInv
<1>3. QED
  BY <1>1, <1>2, PTL DEF IdeSpec

-----------------------------------------------------------------------------

(* For any threads, sectors and values and any interleaving with the disk   *)
(* and with stray interrupts: a call of ide_read that returns hands over    *)
(* what the last write of the sector to return had written, and the PANIC   *)
(* for a disk that is not busy and requests no data is not reached.         *)
THEOREM DriverAlwaysCorrect ==
  ASSUME Distinct
  PROVE  IdeSpec => []DriverCorrect
<1>1. IdeInv => ReadsLatest
  <2>1. SUFFICES ASSUME IdeInv, NEW t \in IdeThreads, At(t, "unlock")
                 PROVE  op[t].value = acked[op[t].disk][op[t].sector]
    BY DEF ReadsLatest
  <2>2. IdeTypeOK /\ HolderOK /\ DiskOK /\ AckedOK
    BY <2>1 DEF IdeInv
  <2>3. Holding(t) /\ op[t] \in OpSet /\ op[t].step = "unlock"
    BY <2>1, <2>2, OpFacts DEF Holding, At
  <2>4. IdleDisk /\ op[t].value = Target(t)
    BY <2>2, <2>3 DEF DiskOK, CallOK, ReadStep, WriteStep, OpSet
  <2>5. op[t].disk \in Disks /\ op[t].sector \in Sectors
    BY <2>3 DEF OpSet
  <2>6. \A u \in IdeThreads : ~BeingWritten(u, op[t].disk, op[t].sector)
    BY <2>2, <2>3, OpFacts DEF BeingWritten
  <2>7. acked[op[t].disk][op[t].sector] = Settled(op[t].disk, op[t].sector)
    BY <2>2, <2>5, <2>6 DEF AckedOK
  <2>8. QED
    BY <2>4, <2>7 DEF Settled, Target, IdleDisk, BusyWith
<1>2. IdeInv => AlwaysDataRequested
  BY DEF IdeInv
<1>3. IdeInv => DriverCorrect
  BY <1>1, <1>2 DEF DriverCorrect
<1>4. QED
  BY <1>3, IdeAlwaysInv, PTL
=============================================================================
