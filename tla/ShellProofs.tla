----------------------------- MODULE ShellProofs ----------------------------
(***************************************************************************)
(* Proofs about the shell's job control, for any number of children and    *)
(* any size of the job list: at most one job is in the foreground, no      *)
(* change of a child is missed, and only the jobs of children that have    *)
(* ended leave the list, however the handlers interleave with the main     *)
(* loop.                                                                   *)
(***************************************************************************)
EXTENDS Shell, WellFoundedInduction, TLAPS

Entries == [pid : Pids \cup {0}, jid : Nat, state : States]

(* The job list: no process has two entries, and a free entry is no job. *)
ListOK ==
  /\ jobs \in [Slots -> Entries]
  /\ nextjid \in Nat \ {0}
  /\ \E b \in Nat : \A i \in Slots : jobs[i].jid <= b
  /\ \A i, j \in Slots : jobs[i].pid = jobs[j].pid /\ jobs[i].pid # 0 => i = j
  /\ \A i \in Slots : jobs[i].pid = 0 => jobs[i].state # "FG"

(* The children: what waitpid has not reported is announced by SIGCHLD. *)
ProcOK ==
  /\ proc \in [Pids -> {"none", "running"} \cup Stopped \cup Ended]
  /\ news \subseteq {p \in Pids : proc[p] \in Stopped \cup Ended}
  /\ {p \in Pids : proc[p] \in Ended} \subseteq news
  /\ chld \in BOOLEAN /\ reaping \in BOOLEAN
  /\ news # {} => chld \/ reaping

(* The main loop: between fork and addjob no handler runs that changes the
   list, and the new child has no job. *)
MainOK ==
  /\ blocked \in BOOLEAN /\ crashed \in BOOLEAN
  /\ tstp \in Pids \cup {0} /\ pid \in Pids \cup {0}
  /\ cmd \in {"FG", "BG"}
  /\ pc \in {"prompt", "add", "bgfg", "cont", "print", "waitfg", "waitfg_state"}
  /\ pc # "prompt" => pid # 0
  /\ pc = "add" => blocked /\ ~reaping /\ tstp = 0 /\ ~HasJob(pid)

(* A job is in the foreground only while the main loop is about to wait, or
   waits, for it. *)
ForegroundOK ==
  \A i \in Slots : jobs[i].state = "FG" =>
    /\ pc \in {"cont", "waitfg", "waitfg_state"} /\ cmd = "FG"
    /\ jobs[i].pid = pid

(* The inductive invariant. *)
IInv == ListOK /\ ProcOK /\ MainOK /\ ForegroundOK

-----------------------------------------------------------------------------
(* A nonempty set of naturals has a least element. *)
LEMMA LeastNat ==
  ASSUME NEW T \in SUBSET Nat, T # {}
  PROVE  \E x \in T : \A y \in T : x <= y
<1> DEFINE R == OpToRel(<, Nat)
<1>1. IsWellFoundedOn(R, Nat)
  BY NatLessThanWellFounded
<1>2. \E x \in T : \A y \in T : <<y, x>> \notin R
  <2> HIDE DEF R
  <2>1. QED
    BY <1>1, WFMin
<1>3. \E x \in T : \A y \in T : ~(y < x)
  BY <1>2 DEF OpToRel
<1> HIDE DEF R
<1>4. QED
  BY <1>3

(* Max of a bounded, nonempty set of naturals is one of its elements. *)
LEMMA MaxElement ==
  ASSUME NEW S \in SUBSET Nat, S # {}, NEW b \in Nat, \A x \in S : x <= b
  PROVE  Max(S) \in S
<1> DEFINE T == {k \in Nat : \E x \in S : k = b - x}
<1>1. T \in SUBSET Nat /\ T # {}
  <2>1. PICK x \in S : TRUE
    OBVIOUS
  <2>2. b - x \in T
    BY <2>1
  <2>3. QED
    BY <2>2
<1>2. PICK k \in T : \A y \in T : k <= y
  <2> HIDE DEF T
  <2>1. QED
    BY <1>1, LeastNat
<1>3. PICK m \in S : k = b - m
  OBVIOUS
<1>4. ASSUME NEW y \in S PROVE m >= y
  <2>1. b - y \in T
    OBVIOUS
  <2>2. b - m <= b - y
    BY <1>2, <1>3, <2>1
  <2>3. QED
    BY <2>2
<1>5. QED
  BY <1>4 DEF Max

(* maxjid of a list is a natural number. *)
LEMMA MaxjidNat ==
  ASSUME NEW js \in [Slots -> Entries], NEW b \in Nat, \A i \in Slots : js[i].jid <= b
  PROVE  maxjid(js) \in Nat
<1> DEFINE S == {js[i].jid : i \in Slots} \cup {0}
<1>1. S \in SUBSET Nat /\ S # {} /\ \A x \in S : x <= b
  BY DEF Entries
<1> HIDE DEF S
<1>2. Max(S) \in Nat
  BY <1>1, MaxElement
<1>3. QED
  BY <1>2 DEF maxjid, S

-----------------------------------------------------------------------------
(* What a step does to the foreground job, and to the jobs there are. *)
NoNewForeground == \A j \in Slots : jobs'[j].state = "FG" => jobs'[j] = jobs[j]

KeepsJobs(S) == \A q \in S : HasJob(q) => HasJob(q)'

(* A step that does not touch the list. *)
LEMMA SameList ==
  ASSUME ListOK, UNCHANGED listVars
  PROVE  ListOK' /\ NoNewForeground /\ \A q : HasJob(q)' <=> HasJob(q)
BY DEF ListOK, listVars, NoNewForeground, HasJob

(* addjob of a process that has no job. *)
LEMMA AddList ==
  ASSUME ListOK, NEW p \in Pids, NEW st \in {"FG", "BG"}, ~HasJob(p), addjob(p, st)
  PROVE  /\ ListOK' /\ KeepsJobs(Pids)
         /\ \A j \in Slots : jobs'[j].state = "FG" =>
              jobs'[j] = jobs[j] \/ (st = "FG" /\ jobs'[j].pid = p)
<1>1. CASE UNCHANGED listVars
  BY <1>1, SameList DEF KeepsJobs, NoNewForeground
<1>2. ASSUME NEW i \in Slots, jobs[i].pid = 0,
             jobs' = [jobs EXCEPT ![i] = [pid |-> p, jid |-> nextjid, state |-> st]],
             nextjid' = IF nextjid + 1 > MAXJOBS THEN 1 ELSE nextjid + 1
      PROVE  /\ ListOK' /\ KeepsJobs(Pids)
             /\ \A j \in Slots : jobs'[j].state = "FG" =>
                  jobs'[j] = jobs[j] \/ (st = "FG" /\ jobs'[j].pid = p)
  <2> DEFINE e == [pid |-> p, jid |-> nextjid, state |-> st]
  <2>1. e \in Entries /\ e.pid = p /\ e.jid = nextjid /\ e.state = st
    BY DEF ListOK, Entries, States
  <2>2. /\ p # 0 /\ MAXJOBS \in Nat /\ nextjid \in Nat \ {0}
        /\ \A j \in Slots : jobs[j].pid # p
    BY ShellAssumption DEF ListOK, HasJob
  <2> HIDE DEF e
  <2>3. jobs' \in [Slots -> Entries] /\ jobs'[i] = e /\ \A j \in Slots \ {i} : jobs'[j] = jobs[j]
    BY <1>2, <2>1 DEF ListOK, e
  <2>4. nextjid' \in Nat \ {0}
    BY <1>2, <2>2
  <2>5. \E b \in Nat : \A j \in Slots : jobs'[j].jid <= b
    <3>1. PICK b \in Nat : \A j \in Slots : jobs[j].jid <= b
      BY DEF ListOK
    <3>2. \A j \in Slots : jobs[j].jid \in Nat
      BY DEF ListOK, Entries
    <3>3. \A j \in Slots : jobs'[j].jid <= b + nextjid
      BY <2>1, <2>2, <2>3, <3>1, <3>2
    <3>4. QED
      BY <2>2, <3>3
  <2>6. QED
    BY <1>2, <2>1, <2>2, <2>3, <2>4, <2>5 DEF ListOK, KeepsJobs, HasJob
<1>3. QED
  BY <1>1, <1>2 DEF addjob, FirstSlot

(* deletejob takes at most the job of its process off the list. *)
LEMMA DeleteList ==
  ASSUME ListOK, NEW p \in Pids, deletejob(p)
  PROVE  ListOK' /\ NoNewForeground /\ KeepsJobs(Pids \ {p})
<1>1. CASE UNCHANGED listVars
  BY <1>1, SameList DEF KeepsJobs
<1>2. ASSUME NEW i \in Slots, jobs[i].pid = p, jobs' = [jobs EXCEPT ![i] = clearjob],
             nextjid' = maxjid(jobs') + 1
      PROVE  ListOK' /\ NoNewForeground /\ KeepsJobs(Pids \ {p})
  <2>1. clearjob \in Entries /\ clearjob.pid = 0 /\ clearjob.jid = 0 /\ clearjob.state = "UNDEF"
    BY DEF clearjob, Entries, States
  <2>2. /\ jobs' \in [Slots -> Entries] /\ jobs'[i] = clearjob
        /\ \A j \in Slots \ {i} : jobs'[j] = jobs[j]
    BY <1>2, <2>1 DEF ListOK
  <2>3. PICK b \in Nat : \A j \in Slots : jobs[j].jid <= b
    BY DEF ListOK
  <2>4. \A j \in Slots : jobs'[j].jid <= b
    BY <2>1, <2>2, <2>3
  <2>5. nextjid' \in Nat \ {0}
    <3> DEFINE js == jobs'
               m == maxjid(js)
    <3>1. js \in [Slots -> Entries] /\ \A j \in Slots : js[j].jid <= b
      BY <2>2, <2>4
    <3> HIDE DEF js
    <3>2. m \in Nat
      BY <3>1, MaxjidNat
    <3>3. nextjid' = m + 1
      BY <1>2 DEF js
    <3> HIDE DEF m
    <3>4. QED
      BY <3>2, <3>3
  <2>6. QED
    BY <1>2, <2>1, <2>2, <2>4, <2>5 DEF ListOK, NoNewForeground, KeepsJobs, HasJob
<1>3. QED
  BY <1>1, <1>2 DEF deletejob, FirstSlot

(* Setting the state of a job. *)
LEMMA SetList ==
  ASSUME ListOK, crashed \in BOOLEAN, NEW p, NEW st \in {"FG", "BG", "ST"}, SetState(p, st)
  PROVE  /\ ListOK' /\ KeepsJobs(Pids) /\ crashed' \in BOOLEAN
         /\ \A j \in Slots : jobs'[j].state = "FG" =>
              jobs'[j] = jobs[j] \/ (st = "FG" /\ jobs'[j].pid = p)
<1>1. CASE UNCHANGED listVars /\ crashed' = TRUE
  BY <1>1, SameList DEF KeepsJobs, NoNewForeground
<1>2. ASSUME NEW i \in Slots, p # 0, jobs[i].pid = p, jobs' = [jobs EXCEPT ![i].state = st],
             UNCHANGED <<nextjid, crashed>>
      PROVE  /\ ListOK' /\ KeepsJobs(Pids) /\ crashed' \in BOOLEAN
             /\ \A j \in Slots : jobs'[j].state = "FG" =>
                  jobs'[j] = jobs[j] \/ (st = "FG" /\ jobs'[j].pid = p)
  <2>1. /\ jobs' \in [Slots -> Entries] /\ jobs'[i].pid = p /\ jobs'[i].state = st
        /\ jobs'[i].jid = jobs[i].jid
        /\ \A j \in Slots \ {i} : jobs'[j] = jobs[j]
    BY <1>2 DEF ListOK, Entries, States
  <2>2. QED
    BY <1>2, <2>1 DEF ListOK, KeepsJobs, HasJob
<1>3. QED
  BY <1>1, <1>2 DEF SetState, FirstSlot

(* getjobpid finds the entry of a process. *)
LEMMA JobStateIs ==
  ASSUME ListOK, NEW i \in Slots, jobs[i].pid # 0
  PROVE  JobState(jobs[i].pid) = jobs[i].state
<1>1. \A j \in 1..(i - 1) : j \in Slots /\ j # i
  BY ShellAssumption DEF Slots
<1>2. \A k \in Slots : jobs[k].pid = jobs[i].pid => k = i
  BY DEF ListOK
<1>3. QED
  BY <1>1, <1>2 DEF JobState, FirstSlot

(* fgpid is 0 or the process the main loop waits for. *)
LEMMA FgpidIs ==
  ASSUME IInv
  PROVE  fgpid \in {0, pid} /\ (fgpid # 0 => pc # "add")
<1>1. CASE \E i \in Slots : jobs[i].state = "FG"
  <2>1. PICK i \in Slots : jobs[i].state = "FG"
    BY <1>1
  <2>2. \A k \in Slots : jobs[k].state = "FG" => k = i /\ jobs[k].pid = pid /\ pc # "add"
    BY <2>1 DEF IInv, ListOK, ForegroundOK
  <2>3. \A j \in 1..(i - 1) : j \in Slots /\ j # i
    BY ShellAssumption DEF Slots
  <2>4. QED
    BY <2>1, <2>2, <2>3 DEF fgpid, FirstSlot
<1>2. CASE ~ \E i \in Slots : jobs[i].state = "FG"
  BY <1>2 DEF fgpid
<1>3. QED
  BY <1>1, <1>2

-----------------------------------------------------------------------------
LEMMA InitInv == Init => IInv
<1> SUFFICES ASSUME Init PROVE IInv
  OBVIOUS
<1>1. clearjob \in Entries /\ clearjob.pid = 0 /\ clearjob.jid = 0 /\ clearjob.state = "UNDEF"
  BY DEF clearjob, Entries, States
<1>2. ListOK
  <2>1. jobs \in [Slots -> Entries] /\ \A i \in Slots : jobs[i] = clearjob
    BY <1>1 DEF Init
  <2>2. nextjid \in Nat \ {0}
    BY DEF Init
  <2>3. \A i \in Slots : jobs[i].jid <= 0
    BY <1>1, <2>1
  <2>4. QED
    BY <1>1, <2>1, <2>2, <2>3 DEF ListOK
<1>3. ProcOK
  BY DEF Init, ProcOK, Ended
<1>4. MainOK
  BY DEF Init, MainOK
<1>5. ForegroundOK
  BY <1>1 DEF Init, ForegroundOK
<1>6. QED
  BY <1>2, <1>3, <1>4, <1>5 DEF IInv

(* The main loop.  Until fork returns nobody is in the foreground. *)
LEMMA EvalStep ==
  ASSUME IInv, NEW st \in {"FG", "BG"}, eval(st)
  PROVE  IInv' /\ KeepsJobs(Pids)
<1>1. /\ pc = "prompt" /\ ~reaping /\ tstp = 0
      /\ cmd' = st /\ blocked' = TRUE /\ pc' = "add"
      /\ UNCHANGED <<jobs, nextjid, news, chld, reaping, tstp, crashed>>
  BY DEF eval, Main, block_sigchld, listVars
<1>2. PICK p \in Pids : Unused(p) /\ proc' = [proc EXCEPT ![p] = "running"] /\ pid' = p
  BY DEF eval
<1>3. ListOK' /\ NoNewForeground /\ \A q : HasJob(q)' <=> HasJob(q)
  BY <1>1, SameList DEF IInv, listVars
<1>4. ProcOK'
  BY <1>1, <1>2 DEF IInv, ProcOK, Unused, Stopped, Ended
<1>5. MainOK'
  <2>1. p # 0 /\ p \in Pids
    BY ShellAssumption
  <2>2. ~HasJob(p)'
    BY <1>2, <1>3 DEF Unused
  <2>3. ~HasJob(pid)'
    BY <1>2, <2>2 DEF HasJob
  <2>4. QED
    BY <1>1, <1>2, <2>1, <2>3 DEF IInv, MainOK
<1>6. ForegroundOK'
  BY <1>1 DEF IInv, ForegroundOK
<1>7. QED
  BY <1>3, <1>4, <1>5, <1>6 DEF IInv, KeepsJobs

LEMMA EvalAddStep ==
  ASSUME IInv, eval_add
  PROVE  IInv' /\ KeepsJobs(Pids)
<1>1. /\ pc = "add" /\ ~reaping /\ tstp = 0 /\ addjob(pid, cmd)
      /\ blocked' = FALSE
      /\ \/ cmd = "FG" /\ pc' = "waitfg" /\ pid' = pid /\ cmd' = cmd
         \/ cmd = "BG" /\ pc' = "prompt" /\ pid' = 0 /\ cmd' = "FG"
      /\ UNCHANGED <<proc, news, chld, reaping, tstp, crashed>>
  BY DEF eval_add, Main, procVars, ToPrompt
<1>2. pid \in Pids /\ cmd \in {"FG", "BG"} /\ ~HasJob(pid)
  BY <1>1 DEF IInv, MainOK
<1>3. /\ ListOK' /\ KeepsJobs(Pids)
      /\ \A j \in Slots : jobs'[j].state = "FG" =>
           jobs'[j] = jobs[j] \/ (cmd = "FG" /\ jobs'[j].pid = pid)
  BY <1>1, <1>2, AddList DEF IInv
<1>4. ProcOK'
  BY <1>1 DEF IInv, ProcOK
<1>5. MainOK'
  BY <1>1, <1>2 DEF IInv, MainOK
<1>6. ForegroundOK'
  BY <1>1, <1>3 DEF IInv, ForegroundOK
<1>7. QED
  BY <1>3, <1>4, <1>5, <1>6 DEF IInv

LEMMA DoBgfgStep ==
  ASSUME IInv, NEW st \in {"FG", "BG"}, NEW p \in Pids, do_bgfg(st, p)
  PROVE  IInv' /\ KeepsJobs(Pids)
<1>1. /\ pc = "prompt" /\ pid' = p /\ cmd' = st /\ pc' = "bgfg"
      /\ UNCHANGED <<jobs, nextjid, proc, news, chld, blocked, reaping, tstp, crashed>>
  BY DEF do_bgfg, Main, listVars, procVars
<1>2. ListOK' /\ NoNewForeground /\ \A q : HasJob(q)' <=> HasJob(q)
  BY <1>1, SameList DEF IInv, listVars
<1>3. ProcOK'
  BY <1>1 DEF IInv, ProcOK
<1>4. MainOK'
  BY <1>1, ShellAssumption DEF IInv, MainOK
<1>5. ForegroundOK'
  BY <1>1 DEF IInv, ForegroundOK
<1>6. QED
  BY <1>2, <1>3, <1>4, <1>5 DEF IInv, KeepsJobs

LEMMA BgfgStateStep ==
  ASSUME IInv, bgfg_state
  PROVE  IInv' /\ KeepsJobs(Pids)
<1>1. /\ pc = "bgfg" /\ SetState(pid, cmd) /\ pc' = "cont"
      /\ UNCHANGED <<proc, news, chld, pid, cmd, blocked, reaping, tstp>>
  BY DEF bgfg_state, Main, procVars
<1>2. crashed \in BOOLEAN /\ cmd \in {"FG", "BG"} /\ pid # 0
  BY <1>1 DEF IInv, MainOK
<1>3. /\ ListOK' /\ KeepsJobs(Pids) /\ crashed' \in BOOLEAN
      /\ \A j \in Slots : jobs'[j].state = "FG" =>
           jobs'[j] = jobs[j] \/ (cmd = "FG" /\ jobs'[j].pid = pid)
  BY <1>1, <1>2, SetList DEF IInv
<1>4. ProcOK'
  BY <1>1 DEF IInv, ProcOK
<1>5. MainOK'
  BY <1>1, <1>2, <1>3 DEF IInv, MainOK
<1>6. ForegroundOK'
  BY <1>1, <1>3 DEF IInv, ForegroundOK
<1>7. QED
  BY <1>3, <1>4, <1>5, <1>6 DEF IInv

LEMMA BgfgContStep ==
  ASSUME IInv, bgfg_cont
  PROVE  IInv' /\ KeepsJobs(Pids)
<1>1. /\ pc = "cont" /\ pc' = IF cmd = "FG" THEN "waitfg" ELSE "print"
      /\ proc' = [p \in Pids |-> IF p = pid /\ proc[p] \in Stopped THEN "running" ELSE proc[p]]
      /\ news' = {p \in news : proc'[p] # "running"}
      /\ UNCHANGED <<jobs, nextjid, chld, pid, cmd, blocked, reaping, tstp, crashed>>
  BY DEF bgfg_cont, Main, news_running, listVars
<1>2. ListOK' /\ NoNewForeground /\ \A q : HasJob(q)' <=> HasJob(q)
  BY <1>1, SameList DEF IInv, listVars
<1>3. ProcOK'
  BY <1>1 DEF IInv, ProcOK, Stopped, Ended
<1>4. MainOK'
  BY <1>1 DEF IInv, MainOK
<1>5. ForegroundOK'
  BY <1>1 DEF IInv, ForegroundOK
<1>6. QED
  BY <1>2, <1>3, <1>4, <1>5 DEF IInv, KeepsJobs

(* Printing the job of a bg command, and leaving waitfg, go back to the
   prompt; nobody is in the foreground then. *)
LEMMA PrintStep ==
  ASSUME IInv, bgfg_print
  PROVE  IInv' /\ KeepsJobs(Pids)
<1>1. /\ pc = "print" /\ pc' = "prompt" /\ pid' = 0 /\ cmd' = "FG"
      /\ crashed' \in BOOLEAN
      /\ UNCHANGED <<jobs, nextjid, proc, news, chld, blocked, reaping, tstp>>
  BY DEF bgfg_print, Main, ToPrompt, listVars, procVars
<1>2. ListOK' /\ NoNewForeground /\ \A q : HasJob(q)' <=> HasJob(q)
  BY <1>1, SameList DEF IInv, listVars
<1>3. ProcOK' /\ ForegroundOK'
  BY <1>1 DEF IInv, ProcOK, ForegroundOK
<1>4. MainOK'
  BY <1>1 DEF IInv, MainOK
<1>5. QED
  BY <1>2, <1>3, <1>4 DEF IInv, KeepsJobs

LEMMA WaitfgStep ==
  ASSUME IInv, waitfg \/ waitfg_state
  PROVE  IInv' /\ KeepsJobs(Pids)
<1>1. /\ pc \in {"waitfg", "waitfg_state"} /\ pid # 0
      /\ UNCHANGED <<jobs, nextjid, proc, news, chld, blocked, reaping, tstp>>
  BY DEF waitfg, waitfg_state, Main, listVars, procVars, IInv, MainOK
<1>2. crashed' \in BOOLEAN
  BY DEF waitfg, waitfg_state, IInv, MainOK
<1>3. \/ pc' \in {"waitfg", "waitfg_state"} /\ pid' = pid /\ cmd' = cmd
      \/ /\ pc' = "prompt" /\ pid' = 0 /\ cmd' = "FG"
         /\ HasJob(pid) => JobState(pid) # "FG"
  BY DEF waitfg, waitfg_state, waitfg_again, Main, ToPrompt
<1>4. ListOK' /\ NoNewForeground /\ \A q : HasJob(q)' <=> HasJob(q)
  BY <1>1, SameList DEF IInv, listVars
<1>5. ProcOK'
  BY <1>1 DEF IInv, ProcOK
<1>6. MainOK'
  BY <1>1, <1>2, <1>3 DEF IInv, MainOK
<1>7. ForegroundOK'
  <2> SUFFICES ASSUME NEW i \in Slots, jobs[i].state = "FG"
               PROVE  pc' \in {"waitfg", "waitfg_state"} /\ cmd' = "FG" /\ jobs[i].pid = pid'
    BY <1>1 DEF ForegroundOK
  <2>1. cmd = "FG" /\ jobs[i].pid = pid
    BY DEF IInv, ForegroundOK
  <2>2. HasJob(pid) /\ JobState(pid) = "FG"
    BY <1>1, <2>1, JobStateIs DEF IInv, HasJob
  <2>3. QED
    BY <1>3, <2>1, <2>2
<1>8. QED
  BY <1>4, <1>5, <1>6, <1>7 DEF IInv, KeepsJobs

-----------------------------------------------------------------------------
(* A handler leaves the main loop where it is, and puts no job in the
   foreground. *)
LEMMA HandlerFrame ==
  ASSUME IInv, UNCHANGED mainVars, NoNewForeground, crashed' \in BOOLEAN,
         tstp' \in Pids \cup {0},
         pc = "add" => ~reaping' /\ tstp' = 0 /\ UNCHANGED jobs
  PROVE  MainOK' /\ ForegroundOK'
<1>1. UNCHANGED <<pc, pid, cmd, blocked>>
  BY DEF mainVars
<1>2. MainOK'
  BY <1>1 DEF IInv, MainOK, HasJob
<1>3. ForegroundOK'
  BY <1>1 DEF IInv, ForegroundOK, NoNewForeground
<1>4. QED
  BY <1>2, <1>3

LEMMA SigchldStep ==
  ASSUME IInv, sigchld_handler
  PROVE  IInv' /\ KeepsJobs(Pids)
<1>1. /\ ~blocked /\ reaping' = TRUE /\ chld' = FALSE
      /\ UNCHANGED <<jobs, nextjid, proc, news, tstp, crashed>> /\ UNCHANGED mainVars
  BY DEF sigchld_handler, listVars
<1>2. ListOK' /\ NoNewForeground /\ \A q : HasJob(q)' <=> HasJob(q)
  BY <1>1, SameList DEF IInv, listVars
<1>3. ProcOK'
  BY <1>1 DEF IInv, ProcOK
<1>4. tstp' \in Pids \cup {0} /\ crashed' \in BOOLEAN /\ pc # "add"
  BY <1>1 DEF IInv, MainOK
<1>5. MainOK' /\ ForegroundOK'
  BY <1>1, <1>2, <1>4, HandlerFrame
<1>6. QED
  BY <1>2, <1>3, <1>5 DEF IInv, KeepsJobs

(* waitpid reports a child, and deletejob is called only for one that has
   ended. *)
LEMMA ReapStep ==
  ASSUME IInv, NEW p \in news, Reap(p), reaping, UNCHANGED <<chld, reaping, tstp>>,
         UNCHANGED mainVars
  PROVE  /\ IInv' /\ KeepsJobs(Pids \ {p})
         /\ KeepsJobs(Pids) \/ (proc[p] \in {"exited", "int"} /\ proc'[p] = "none")
<1>1. p \in Pids /\ crashed \in BOOLEAN /\ ListOK
  BY DEF IInv, ProcOK, MainOK
<1>2. /\ news' = news \ {p}
      /\ proc' = [proc EXCEPT ![p] = IF proc[p] \in Ended THEN "none" ELSE proc[p]]
  BY DEF Reap
<1>3. /\ ListOK' /\ NoNewForeground /\ crashed' \in BOOLEAN /\ KeepsJobs(Pids \ {p})
      /\ KeepsJobs(Pids) \/ proc[p] \in {"exited", "int"}
  <2>1. CASE proc[p] \in {"exited", "int"} /\ deletejob(p) /\ UNCHANGED crashed
    BY <1>1, <2>1, DeleteList
  <2>2. CASE SetState(p, "ST")
    BY <1>1, <2>2, SetList DEF NoNewForeground, KeepsJobs
  <2>3. CASE UNCHANGED listVars /\ UNCHANGED crashed
    BY <1>1, <2>3, SameList DEF KeepsJobs
  <2>4. QED
    BY <2>1, <2>2, <2>3 DEF Reap
<1>4. ProcOK'
  BY <1>1, <1>2 DEF IInv, ProcOK, Stopped, Ended
<1>5. pc # "add" /\ tstp' \in Pids \cup {0}
  BY DEF IInv, MainOK
<1>6. MainOK' /\ ForegroundOK'
  BY <1>3, <1>5, HandlerFrame
<1>7. proc[p] \in {"exited", "int"} => proc'[p] = "none"
  BY <1>1, <1>2 DEF IInv, ProcOK, Ended
<1>8. QED
  BY <1>3, <1>4, <1>6, <1>7 DEF IInv

LEMMA LoopDoneStep ==
  ASSUME IInv, news = {}, reaping, reaping' = FALSE,
         UNCHANGED <<jobs, nextjid, proc, news, crashed, chld, tstp>>, UNCHANGED mainVars
  PROVE  IInv' /\ KeepsJobs(Pids)
<1>1. ListOK' /\ NoNewForeground /\ \A q : HasJob(q)' <=> HasJob(q)
  BY SameList DEF IInv, listVars
<1>2. ProcOK'
  BY DEF IInv, ProcOK
<1>3. tstp' \in Pids \cup {0} /\ crashed' \in BOOLEAN /\ pc # "add"
  BY DEF IInv, MainOK
<1>4. MainOK' /\ ForegroundOK'
  BY <1>1, <1>3, HandlerFrame
<1>5. QED
  BY <1>1, <1>2, <1>4 DEF IInv, KeepsJobs

(* A signal sent to a child is announced like any other change. *)
LEMMA SignalledOK ==
  ASSUME ProcOK, NEW p, NEW how \in Stopped \cup Ended, Signalled(p, how), UNCHANGED reaping
  PROVE  ProcOK'
<1>1. CASE UNCHANGED procVars
  BY <1>1 DEF ProcOK, procVars
<1>2. CASE /\ p \in Pids /\ proc[p] = "running" /\ proc' = [proc EXCEPT ![p] = how]
           /\ news' = news \cup {p} /\ chld' = TRUE
  BY <1>2 DEF ProcOK, Stopped, Ended
<1>3. QED
  BY <1>1, <1>2 DEF Signalled

LEMMA SigintStep ==
  ASSUME IInv, sigint_handler
  PROVE  IInv' /\ KeepsJobs(Pids)
<1>1. /\ Signalled(fgpid, "int") /\ UNCHANGED mainVars
      /\ UNCHANGED <<jobs, nextjid, reaping, tstp, crashed>>
  BY DEF sigint_handler, listVars
<1>2. ListOK' /\ NoNewForeground /\ \A q : HasJob(q)' <=> HasJob(q)
  BY <1>1, SameList DEF IInv, listVars
<1>3. ProcOK'
  BY <1>1, SignalledOK DEF IInv, Ended
<1>4. tstp' \in Pids \cup {0} /\ crashed' \in BOOLEAN /\ (pc = "add" => ~reaping' /\ tstp' = 0)
  BY <1>1 DEF IInv, MainOK
<1>5. MainOK' /\ ForegroundOK'
  BY <1>1, <1>2, <1>4, HandlerFrame
<1>6. QED
  BY <1>2, <1>3, <1>5 DEF IInv, KeepsJobs

LEMMA SigtstpStep ==
  ASSUME IInv, sigtstp_handler
  PROVE  IInv' /\ KeepsJobs(Pids)
<1>1. /\ fgpid # 0 /\ tstp' = fgpid /\ UNCHANGED mainVars
      /\ UNCHANGED <<jobs, nextjid, proc, news, chld, reaping, crashed>>
  BY DEF sigtstp_handler, listVars, procVars
<1>2. ListOK' /\ NoNewForeground /\ \A q : HasJob(q)' <=> HasJob(q)
  BY <1>1, SameList DEF IInv, listVars
<1>3. ProcOK'
  BY <1>1 DEF IInv, ProcOK
<1>4. tstp' \in Pids \cup {0} /\ crashed' \in BOOLEAN /\ pc # "add"
  BY <1>1, FgpidIs DEF IInv, MainOK
<1>5. MainOK' /\ ForegroundOK'
  BY <1>1, <1>2, <1>4, HandlerFrame
<1>6. QED
  BY <1>2, <1>3, <1>5 DEF IInv, KeepsJobs

LEMMA SigtstpStopStep ==
  ASSUME IInv, sigtstp_stop
  PROVE  IInv' /\ KeepsJobs(Pids)
<1>1. /\ tstp # 0 /\ SetState(tstp, "ST") /\ Signalled(tstp, "tstp") /\ tstp' = 0
      /\ UNCHANGED reaping /\ UNCHANGED mainVars
  BY DEF sigtstp_stop
<1>2. crashed \in BOOLEAN /\ pc # "add" /\ ListOK
  BY <1>1 DEF IInv, MainOK
<1>3. ListOK' /\ NoNewForeground /\ crashed' \in BOOLEAN /\ KeepsJobs(Pids)
  BY <1>1, <1>2, SetList DEF NoNewForeground
<1>4. ProcOK'
  BY <1>1, SignalledOK DEF IInv, Stopped
<1>5. MainOK' /\ ForegroundOK'
  BY <1>1, <1>2, <1>3, HandlerFrame
<1>6. QED
  BY <1>3, <1>4, <1>5 DEF IInv

LEMMA ChildStep ==
  ASSUME IInv, NEW p \in Pids, Child(p)
  PROVE  IInv' /\ KeepsJobs(Pids)
<1>1. /\ UNCHANGED mainVars /\ UNCHANGED <<jobs, nextjid, reaping, tstp, crashed>>
      /\ news' = news \cup {p} /\ chld' = TRUE
      /\ \E how \in Stopped \cup Ended : proc' = [proc EXCEPT ![p] = how]
  BY DEF Child, listVars, Ended
<1>2. ListOK' /\ NoNewForeground /\ \A q : HasJob(q)' <=> HasJob(q)
  BY <1>1, SameList DEF IInv, listVars
<1>3. ProcOK'
  BY <1>1 DEF IInv, ProcOK, Stopped, Ended
<1>4. tstp' \in Pids \cup {0} /\ crashed' \in BOOLEAN /\ (pc = "add" => ~reaping' /\ tstp' = 0)
  BY <1>1 DEF IInv, MainOK
<1>5. MainOK' /\ ForegroundOK'
  BY <1>1, <1>2, <1>4, HandlerFrame
<1>6. QED
  BY <1>2, <1>3, <1>5 DEF IInv, KeepsJobs

-----------------------------------------------------------------------------
(* A process loses its job only when its end is reported. *)
JobKept(p) ==
  HasJob(p) /\ ~HasJob(p)' => proc[p] \in {"exited", "int"} /\ proc'[p] = "none"

LEMMA NextStep ==
  ASSUME IInv, [Next]_vars
  PROVE  IInv' /\ \A p \in Pids : JobKept(p)
<1>1. CASE UNCHANGED vars
  <2>1. UNCHANGED <<jobs, nextjid, proc, news, chld, pc, pid, cmd, blocked, reaping, tstp, crashed>>
    BY <1>1 DEF vars, listVars, procVars, mainVars
  <2>2. ListOK' /\ \A q : HasJob(q)' <=> HasJob(q)
    BY <2>1, SameList DEF IInv, listVars
  <2>3. ProcOK' /\ ForegroundOK'
    BY <2>1 DEF IInv, ProcOK, ForegroundOK
  <2>4. MainOK'
    BY <2>1 DEF IInv, MainOK, HasJob
  <2>5. QED
    BY <2>2, <2>3, <2>4 DEF IInv, JobKept
<1>2. CASE sigchld_loop
  <2>1. ASSUME NEW p \in news, Reap(p), reaping, UNCHANGED <<chld, reaping, tstp>>,
               UNCHANGED mainVars
        PROVE  IInv' /\ \A q \in Pids : JobKept(q)
    BY <2>1, ReapStep DEF KeepsJobs, JobKept
  <2>2. CASE /\ news = {} /\ reaping /\ reaping' = FALSE
             /\ UNCHANGED <<jobs, nextjid, proc, news, crashed, chld, tstp>>
             /\ UNCHANGED mainVars
    BY <2>2, LoopDoneStep DEF KeepsJobs, JobKept
  <2>3. QED
    BY <1>2, <2>1, <2>2 DEF sigchld_loop, loop_done, listVars
<1>3. CASE Next /\ ~sigchld_loop
  <2>1. \/ \E st \in {"FG", "BG"} : eval(st)
        \/ \E st \in {"FG", "BG"}, p \in Pids : do_bgfg(st, p)
        \/ eval_add \/ bgfg_state \/ bgfg_cont \/ bgfg_print \/ waitfg \/ waitfg_state
        \/ sigchld_handler \/ sigtstp_stop \/ sigint_handler \/ sigtstp_handler
        \/ \E p \in Pids : Child(p)
    BY <1>3 DEF Next, MainStep, Handler
  <2>2. IInv' /\ KeepsJobs(Pids)
    BY <2>1, EvalStep, DoBgfgStep, EvalAddStep, BgfgStateStep, BgfgContStep, PrintStep,
       WaitfgStep, SigchldStep, SigtstpStopStep, SigintStep, SigtstpStep, ChildStep
  <2>3. QED
    BY <2>2 DEF KeepsJobs, JobKept
<1>4. QED
  BY <1>1, <1>2, <1>3

LEMMA Invariance == Spec => []IInv
<1>1. IInv /\ [Next]_vars => IInv'
  BY NextStep
<1>2. QED
  BY <1>1, InitInv, PTL DEF Spec

(* At most one job is in the foreground, the one the main loop works for:
   eval and do_bgfg put a job there only when nobody else is, and waitfg
   returns only when its job has left the list or the foreground. *)
THEOREM OneForeground == Spec => []AtMostOneForeground
<1>1. IInv => AtMostOneForeground
  BY DEF IInv, ListOK, ForegroundOK, AtMostOneForeground
<1>2. QED
  BY <1>1, Invariance, PTL

(* The types, and as long as waitpid has something to report, SIGCHLD is
   pending or its handler runs. *)
THEOREM NoChildMissed == Spec => []NoMissedChild
<1>1. IInv => NoMissedChild
  BY DEF IInv, ListOK, ProcOK, MainOK, Entries, NoMissedChild, TypeOK
<1>2. QED
  BY <1>1, Invariance, PTL

(* A job leaves the list only when waitpid reports the end of its process, so
   the jobs of children that run or are stopped stay. *)
THEOREM JobsStay == Spec => JobsKept
<1>1. IInv /\ [Next]_vars =>
        [\A p \in Pids : HasJob(p) /\ ~HasJob(p)' =>
           proc[p] \in {"exited", "int"} /\ proc'[p] = "none"]_vars
  BY NextStep DEF JobKept
<1>2. QED
  BY <1>1, Invariance, PTL DEF Spec, JobsKept
=============================================================================
