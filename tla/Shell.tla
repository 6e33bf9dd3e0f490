-------------------------------- MODULE Shell -------------------------------
(***************************************************************************)
(* Job control of the mini shell, project0/msh.c with the job list of       *)
(* project0/jobs.c.                                                        *)
(*                                                                         *)
(* The shell's main loop and its signal handlers share the job list.  A     *)
(* handler runs between any two steps of the main loop unless its signal is *)
(* blocked; the handlers block only their own signal, so SIGCHLD can arrive *)
(* inside the SIGTSTP handler.  The children are the environment: they run, *)
(* stop, exit or are killed at any time.  A step that follows the null      *)
(* pointer of a job that is not on the list ends the shell (crashed).       *)
(***************************************************************************)
EXTENDS Integers, Sequences, FiniteSets, FiniteSetsExt

CONSTANTS
  Pids,     \* process ids; one is reused when no job names it any more
  MAXJOBS,  \* size of the job list
  MaxJid    \* bound: no command is started when nextjid is larger

ASSUME ShellAssumption ==
  /\ Pids \subseteq Nat \ {0} /\ Pids # {}
  /\ MAXJOBS \in Nat \ {0} /\ MaxJid \in Nat

VARIABLES
  jobs,      \* the job list, MAXJOBS entries
  nextjid,   \* next job ID to allocate
  proc,      \* the children: running, stopped, or how they ended
  news,      \* the children whose change waitpid has not reported
  chld,      \* SIGCHLD is pending
  blocked,   \* SIGCHLD is blocked by eval
  reaping,   \* sigchld_handler runs
  tstp,      \* the job sigtstp_handler has looked up, 0 when it does not run
  pc,        \* where the main loop is
  pid,       \* its local process id
  cmd,       \* FG or BG: what the command asks for
  crashed    \* a null pointer was followed

listVars == <<jobs, nextjid>>
procVars == <<proc, news, chld>>
mainVars == <<pc, pid, cmd, blocked>>
vars == <<listVars, procVars, mainVars, reaping, tstp, crashed>>

States == {"UNDEF", "FG", "BG", "ST"}
Slots == 1..MAXJOBS

clearjob == [pid |-> 0, jid |-> 0, state |-> "UNDEF"]

(* A child that waitpid can report, by what it reports: stopped by SIGTSTP or
   by SIGSTOP, exited, ended by SIGINT or by another signal. *)
Stopped == {"tstp", "stop"}
Ended == {"exited", "int", "killed"}

Init ==
  /\ jobs = [i \in Slots |-> clearjob]
  /\ nextjid = 1
  /\ proc = [p \in Pids |-> "none"]
  /\ news = {} /\ chld = FALSE
  /\ pc = "prompt" /\ pid = 0 /\ cmd = "FG" /\ blocked = FALSE
  /\ reaping = FALSE /\ tstp = 0
  /\ crashed = FALSE

-----------------------------------------------------------------------------
(* jobs.c *)
FirstSlot(i, P(_)) == P(jobs[i]) /\ \A j \in 1..(i - 1) : ~P(jobs[j])

maxjid(js) == Max({js[i].jid : i \in Slots} \cup {0})

addjob(p, st) ==
  \/ \E i \in Slots :
       /\ FirstSlot(i, LAMBDA j : j.pid = 0)
       /\ jobs' = [jobs EXCEPT ![i] = [pid |-> p, jid |-> nextjid, state |-> st]]
       /\ nextjid' = IF nextjid + 1 > MAXJOBS THEN 1 ELSE nextjid + 1
  \/ /\ \A i \in Slots : jobs[i].pid # 0
     /\ UNCHANGED listVars

deletejob(p) ==
  \/ \E i \in Slots :
       /\ FirstSlot(i, LAMBDA j : j.pid = p)
       /\ jobs' = [jobs EXCEPT ![i] = clearjob]
       /\ nextjid' = maxjid(jobs') + 1
  \/ /\ \A i \in Slots : jobs[i].pid # p
     /\ UNCHANGED listVars

HasJob(p) == p # 0 /\ \E i \in Slots : jobs[i].pid = p

JobState(p) == LET i == CHOOSE i \in Slots : FirstSlot(i, LAMBDA j : j.pid = p)
               IN  jobs[i].state

(* getjobpid(jobs, p)->state = st *)
SetState(p, st) ==
  \/ \E i \in Slots :
       /\ p # 0 /\ FirstSlot(i, LAMBDA j : j.pid = p)
       /\ jobs' = [jobs EXCEPT ![i].state = st]
       /\ UNCHANGED <<nextjid, crashed>>
  \/ /\ ~HasJob(p)
     /\ crashed' = TRUE
     /\ UNCHANGED listVars

fgpid ==
  IF \E i \in Slots : jobs[i].state = "FG"
  THEN LET i == CHOOSE i \in Slots : FirstSlot(i, LAMBDA j : j.state = "FG")
       IN  jobs[i].pid
  ELSE 0

-----------------------------------------------------------------------------
(* The main loop runs when no handler does. *)
Main(l) == ~crashed /\ ~reaping /\ tstp = 0 /\ pc = l

ToPrompt == pc' = "prompt" /\ pid' = 0 /\ cmd' = "FG"

(* A process id fork may return, the least one in the model. *)
Unused(p) == proc[p] = "none" /\ ~HasJob(p)

(* sigprocmask(SIG_BLOCK) before fork. *)
block_nothing == blocked' = FALSE
block_sigchld == blocked' = TRUE

(* eval of a command that is not built in: SIGCHLD is blocked around fork and
   addjob. *)
eval(st) ==
  /\ Main("prompt")
  /\ nextjid <= MaxJid
  /\ \E p \in Pids :
       /\ Unused(p) /\ \A q \in Pids : Unused(q) => p <= q
       /\ proc' = [proc EXCEPT ![p] = "running"]
       /\ pid' = p
  /\ cmd' = st
  /\ block_sigchld
  /\ pc' = "add"
  /\ UNCHANGED <<listVars, news, chld, reaping, tstp, crashed>>

eval_add ==
  /\ Main("add")
  /\ addjob(pid, cmd)
  /\ blocked' = FALSE
  /\ \/ cmd = "FG" /\ pc' = "waitfg" /\ UNCHANGED <<pid, cmd>>
     \/ cmd = "BG" /\ ToPrompt
  /\ UNCHANGED <<procVars, reaping, tstp, crashed>>

(* do_bgfg with the job of process p, named by its pid or its jid. *)
do_bgfg(st, p) ==
  /\ Main("prompt")
  /\ HasJob(p)
  /\ pid' = p /\ cmd' = st
  /\ pc' = "bgfg"
  /\ UNCHANGED <<listVars, procVars, blocked, reaping, tstp, crashed>>

bgfg_state ==
  /\ Main("bgfg")
  /\ SetState(pid, cmd)
  /\ pc' = "cont"
  /\ UNCHANGED <<procVars, pid, cmd, blocked, reaping, tstp>>

(* A child that runs again has no change to report. *)
news_running == {p \in news : proc'[p] # "running"}

(* kill(-pid, SIGCONT); the bg command then prints the job. *)
bgfg_cont ==
  /\ Main("cont")
  /\ proc' = [p \in Pids |-> IF p = pid /\ proc[p] \in Stopped THEN "running"
                             ELSE proc[p]]
  /\ news' = news_running
  /\ pc' = IF cmd = "FG" THEN "waitfg" ELSE "print"
  /\ UNCHANGED <<listVars, chld, pid, cmd, blocked, reaping, tstp, crashed>>

bgfg_print ==
  /\ Main("print")
  /\ ToPrompt
  /\ crashed' = ~HasJob(pid)
  /\ UNCHANGED <<listVars, procVars, blocked, reaping, tstp>>

(* The loop of waitfg goes on while the job is in the foreground. *)
waitfg_once == FALSE
waitfg_again == JobState(pid) = "FG"

(* waitfg looks the job up twice in each round. *)
waitfg ==
  /\ Main("waitfg")
  /\ \/ HasJob(pid) /\ pc' = "waitfg_state" /\ UNCHANGED <<pid, cmd>>
     \/ ~HasJob(pid) /\ ToPrompt
  /\ UNCHANGED <<listVars, procVars, blocked, reaping, tstp, crashed>>

waitfg_state ==
  /\ Main("waitfg_state")
  /\ \/ /\ HasJob(pid) /\ waitfg_again
        /\ pc' = "waitfg"
        /\ UNCHANGED <<pid, cmd, crashed>>
     \/ /\ HasJob(pid) /\ ~waitfg_again
        /\ ToPrompt
        /\ UNCHANGED crashed
     \/ /\ ~HasJob(pid)
        /\ crashed' = TRUE
        /\ UNCHANGED <<pc, pid, cmd>>
  /\ UNCHANGED <<listVars, procVars, blocked, reaping, tstp>>

-----------------------------------------------------------------------------
(* The loop of sigchld_handler goes on until waitpid has no more to report. *)
loop_done_any == TRUE
loop_done == news = {}

(* sigchld_handler: one round of its loop per child that waitpid reports.  A
   child that was ended by a signal other than SIGINT, or stopped by one other
   than SIGTSTP, leaves the list as it is. *)
sigchld_handler ==
  /\ ~crashed /\ chld /\ ~blocked /\ ~reaping
  /\ reaping' = TRUE
  /\ chld' = FALSE
  /\ UNCHANGED <<listVars, proc, news, mainVars, tstp, crashed>>

Reap_deletes(p) ==
  /\ news' = news \ {p}
  /\ proc' = [proc EXCEPT ![p] = IF @ \in Ended THEN "none" ELSE @]
  /\ deletejob(p) /\ UNCHANGED crashed
Reap(p) ==
  /\ news' = news \ {p}
  /\ proc' = [proc EXCEPT ![p] = IF @ \in Ended THEN "none" ELSE @]
  /\ \/ proc[p] \in {"exited", "int"} /\ deletejob(p) /\ UNCHANGED crashed
     \/ proc[p] = "tstp" /\ SetState(p, "ST")
     \/ proc[p] \in {"killed", "stop"} /\ UNCHANGED <<listVars, crashed>>

sigchld_loop ==
  /\ ~crashed /\ reaping
  /\ \/ /\ \E p \in news : Reap(p)
        /\ UNCHANGED reaping
     \/ /\ loop_done
        /\ reaping' = FALSE
        /\ UNCHANGED <<listVars, proc, news, crashed>>
  /\ UNCHANGED <<chld, mainVars, tstp>>

(* The signal sent to a running child, which it may catch or ignore. *)
Signalled(p, how) ==
  \/ /\ p \in Pids /\ proc[p] = "running"
     /\ proc' = [proc EXCEPT ![p] = how]
     /\ news' = news \cup {p}
     /\ chld' = TRUE
  \/ UNCHANGED procVars

sigint_handler ==
  /\ ~crashed /\ fgpid # 0
  /\ Signalled(fgpid, "int")
  /\ UNCHANGED <<listVars, mainVars, reaping, tstp, crashed>>

(* sigtstp_handler: SIGCHLD may come between the lookup and the update. *)
sigtstp_handler ==
  /\ ~crashed /\ tstp = 0 /\ ~reaping /\ fgpid # 0
  /\ tstp' = fgpid
  /\ UNCHANGED <<listVars, procVars, mainVars, reaping, crashed>>

sigtstp_stop ==
  /\ ~crashed /\ ~reaping /\ tstp # 0
  /\ SetState(tstp, "ST")
  /\ Signalled(tstp, "tstp")
  /\ tstp' = 0
  /\ UNCHANGED <<mainVars, reaping>>

(* The children, and whoever else sends them signals. *)
Child(p) ==
  /\ ~crashed
  /\ \/ proc[p] = "running" /\ \E how \in Stopped \cup Ended : proc' = [proc EXCEPT ![p] = how]
     \/ proc[p] \in Stopped /\ proc' = [proc EXCEPT ![p] = "killed"]
  /\ news' = news \cup {p}
  /\ chld' = TRUE
  /\ UNCHANGED <<listVars, mainVars, reaping, tstp, crashed>>

MainStep == eval_add \/ bgfg_state \/ bgfg_cont \/ bgfg_print \/ waitfg \/ waitfg_state

Handler == sigchld_handler \/ sigchld_loop \/ sigtstp_stop

Next ==
  \/ \E st \in {"FG", "BG"} : eval(st) \/ \E p \in Pids : do_bgfg(st, p)
  \/ MainStep \/ Handler
  \/ sigint_handler \/ sigtstp_handler
  \/ \E p \in Pids : Child(p)

(* The shell and its handlers are scheduled; nothing is assumed of the user
   and of the children. *)
Spec == Init /\ [][Next]_vars /\ WF_vars(MainStep) /\ WF_vars(Handler)

-----------------------------------------------------------------------------
(* Types of the job list, the children and the locals. *)
TypeOK ==
  /\ jobs \in [Slots -> [pid : Pids \cup {0}, jid : Nat, state : States]]
  /\ nextjid \in Nat \ {0}
  /\ proc \in [Pids -> {"none", "running"} \cup Stopped \cup Ended]
  /\ news \subseteq {p \in Pids : proc[p] \in Stopped \cup Ended}
  /\ {p \in Pids : proc[p] \in Ended} \subseteq news
  /\ chld \in BOOLEAN /\ blocked \in BOOLEAN /\ reaping \in BOOLEAN
  /\ tstp \in Pids \cup {0} /\ pid \in Pids \cup {0}
  /\ cmd \in {"FG", "BG"}
  /\ pc \in {"prompt", "add", "bgfg", "cont", "print", "waitfg", "waitfg_state"}
  /\ crashed \in BOOLEAN

(* jobs.h: "At most 1 job can be in the FG state", and only while the shell
   waits for it. *)
AtMostOneForeground ==
  \A i \in Slots : jobs[i].state = "FG" =>
    jobs[i].pid = pid /\ \A j \in Slots : jobs[j].state = "FG" => j = i

(* sigchld_handler: no change of a child goes unnoticed: SIGCHLD is pending
   or being handled as long as waitpid has something to report. *)
NoMissedChild == TypeOK /\ (news # {} => chld \/ reaping)

(* deletejob is reached only for a child that has ended: the jobs of the
   children that run or are stopped stay on the list. *)
JobsKept ==
  [][\A p \in Pids : HasJob(p) /\ ~HasJob(p)' =>
       proc[p] \in {"exited", "int"} /\ proc'[p] = "none"]_vars

(* waitfg: when the job it waits for exits, or is interrupted or stopped from
   the keyboard, the shell gets back to its prompt; the fork and addjob of
   eval are protected from the SIGCHLD of a child that ends at once. *)
ForegroundReturns ==
  \A p \in Pids :
    (pid = p /\ pc \in {"add", "waitfg", "waitfg_state"} /\ proc[p] \in {"exited", "int", "tstp"})
      ~> (pc = "prompt" \/ crashed \/ proc[p] = "killed")
=============================================================================
