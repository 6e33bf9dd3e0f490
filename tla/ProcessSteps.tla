---------------------------- MODULE ProcessSteps ---------------------------
(***************************************************************************)
(* The inductive invariant behind the exit statuses of process.c: where    *)
(* each process is, whose page and list entries exist, and what a pointer  *)
(* to them still means.  Every step that neither creates nor ends a        *)
(* process keeps it.                                                       *)
(***************************************************************************)
EXTENDS Process, TLAPS

Loading == {"load", "load_failed", "load_up", "stuck"}
Executing == {"exec_lookup", "exec_down", "exec_blocked", "exec_status"}
Awaiting == {"wait_lookup", "wait_down", "wait_blocked", "wait_mark"}
Exiting == {"exit_files", "exit_up", "exit_die", "gone"}
Dead == {"exit_die", "gone"}

(* allocate_tid and all_list: a process is unborn until its tid is given out,
   and on all_list until it is gone.  The first process neither loads nor
   exits. *)
BirthOK ==
  /\ \A p \in Procs : pc[p] = "unborn" <=> p >= tid
  /\ \A p \in Procs : p \in all_list <=> pc[p] \notin {"unborn", "gone"}
  /\ pc[root] \in {"user"} \cup Executing \cup Awaiting

(* Every process but the first has a page of its own as long as it is on
   all_list. *)
PagesOK ==
  /\ \A q \in all_list : q # root => \E g \in Pages : thread_page[g] = q
  /\ \A g \in Pages : thread_page[g] # NULL =>
       thread_page[g] \in all_list /\ thread_page[g] # root
  /\ \A g, h \in Pages : thread_page[g] = thread_page[h] /\ thread_page[g] # NULL => g = h

(* A semaphore is up only after its process raised it: exec_sema at the end of
   start_process, wait_sema at the end of process_exit. *)
SemaOK(g) ==
  /\ exec_sema[g] > 0 => pc[thread_page[g]] \notin Loading
  /\ wait_sema[g] > 0 => pc[thread_page[g]] = "exit_die"

SemasOK == \A g \in Pages : thread_page[g] # NULL => SemaOK(g)

(* The child lists: a process is the child of at most one other, and only a
   child that has ended was waited for. *)
ListsOK ==
  /\ \A p \in Procs : \A q \in child_list[p] : q # root /\ q < tid
  /\ \A p, r \in Procs : \A q \in Procs :
       q \in child_list[p] /\ q \in child_list[r] => p = r
  /\ \A p \in Procs : wait_list[p] \subseteq child_list[p]
  /\ \A p \in Procs : pc[p] \in {"exit_up", "exit_die", "gone"} => wait_list[p] = {}
  /\ \A p \in Procs : \A q \in wait_list[p] : pc[q] \in Dead

(* The exit_status of a process is there until its parent waited for it or is
   about to be gone, and as long as the process itself runs. *)
StatusOK ==
  /\ \A p \in Procs : \A q \in child_list[p] :
       q \notin wait_list[p] /\ pc[p] \notin {"exit_up", "exit_die", "gone"} =>
         q \in exit_list /\ exit_status[q] # NULL
  /\ \A q \in all_list :
       q # root /\ pc[q] # "exit_die" => q \in exit_list /\ exit_status[q] # NULL

(* An exec or a wait is about a child that was not waited for yet, and the
   page a wait looks at is the child's, unless the child is gone. *)
CallOK(p) ==
  /\ pc[p] \in Executing \cup Awaiting => kid[p] \in child_list[p] \ wait_list[p]
  /\ pc[p] \in {"exec_down", "exec_blocked", "wait_down", "wait_blocked"} =>
       child[p] \in Pages
  /\ pc[p] \in {"wait_down", "wait_blocked"} =>
       thread_page[child[p]] = kid[p] \/ pc[kid[p]] = "gone"
  /\ pc[p] = "wait_mark" => pc[kid[p]] \in Dead

CallsOK == \A p \in Procs : CallOK(p)

(* A process that ends other than by being killed leaves the status it ended
   with, until that is freed. *)
EndOK(q) ==
  pc[q] \in Exiting \/ (pc[q] = "load_up" /\ program[q] # "good") =>
    ended[q] = KILLED \/ exit_status[q] \in {ended[q], NULL}

EndedOK == \A q \in Procs : EndOK(q)

IInv ==
  /\ TypeOK /\ BirthOK /\ PagesOK /\ SemasOK /\ ListsOK
  /\ StatusOK /\ CallsOK /\ EndedOK

-----------------------------------------------------------------------------
LEMMA ProcsFacts ==
  /\ root \in Procs /\ Procs \subseteq Int
  /\ NULL \notin Procs /\ NULL \notin Pages /\ NULL \notin Statuses \cup {-1, 0}
  /\ NULL # KILLED /\ KILLED \notin Statuses \cup {-1, 0}
<1>1. root \in Procs /\ Procs \subseteq Int
  BY ProcessAssumption DEF root, Procs
<1>2. -1 \in Int /\ 0 \in Int
  OBVIOUS
<1>3. QED
  BY <1>1, <1>2, ProcessAssumption

(* PageOf finds the page of a process that has one. *)
LEMMA PageOfFacts ==
  ASSUME IInv, NEW q \in all_list, q # root
  PROVE  PageOf(q) \in Pages /\ thread_page[PageOf(q)] = q
<1>1. PICK g \in Pages : thread_page[g] = q
  BY DEF IInv, PagesOK
<1>2. QED
  BY <1>1 DEF PageOf

LEMMA InitInv == Init => IInv
<1> SUFFICES ASSUME Init PROVE IInv
  OBVIOUS
<1>1. TypeOK
  BY ProcsFacts, ProcessAssumption DEF Init, TypeOK, Points, Procs, root
<1>2. BirthOK
  BY ProcsFacts, ProcessAssumption DEF Init, BirthOK, Procs, root
<1>3. PagesOK /\ SemasOK
  BY DEF Init, PagesOK, SemasOK
<1>4. ListsOK /\ StatusOK
  BY ProcsFacts DEF Init, ListsOK, StatusOK
<1>5. CallsOK /\ EndedOK
  BY DEF Init, CallsOK, CallOK, EndedOK, EndOK, Executing, Awaiting, Exiting
<1>6. QED
  BY <1>1, <1>2, <1>3, <1>4, <1>5 DEF IInv

(* What the invariant says of one exec or wait, with the types it needs. *)
LEMMA KidFacts ==
  ASSUME IInv, NEW p \in Procs, pc[p] \in Executing \cup Awaiting
  PROVE  /\ kid[p] \in child_list[p] /\ kid[p] \notin wait_list[p]
         /\ kid[p] \in Procs /\ kid[p] # root /\ pc[kid[p]] # "unborn"
<1>1. kid[p] \in child_list[p] /\ kid[p] \notin wait_list[p]
  BY DEF IInv, CallsOK, CallOK
<1>2. child_list[p] \subseteq Procs
  BY DEF IInv, TypeOK
<1>3. kid[p] # root /\ kid[p] < tid
  BY <1>1 DEF IInv, ListsOK
<1>4. kid[p] \in Int /\ tid \in Int
  <2>1. tid \in Int
    BY ProcessAssumption DEF IInv, TypeOK
  <2>2. QED
    BY ONLY <1>1, <1>2, <2>1, ProcsFacts, Zenon
<1>5. ~(kid[p] >= tid)
  BY ONLY <1>3, <1>4
<1>6. QED
  BY <1>1, <1>2, <1>3, <1>5 DEF IInv, BirthOK

-----------------------------------------------------------------------------
(* Most steps only move a process inside the kernel, or into and out of it,
   and a sema_up moves two: nobody is born and nobody dies. *)
Moved(r) ==
  /\ pc[r] \notin {"unborn", "exit_die", "gone"} /\ pc'[r] \notin {"unborn", "gone"}
  /\ r = root => pc'[r] \in {"user"} \cup Executing \cup Awaiting
  /\ CallOK(r)' /\ EndOK(r)'

Kept(r) ==
  /\ pc'[r] = pc[r] /\ kid'[r] = kid[r] /\ child'[r] = child[r]
  /\ program'[r] = program[r] /\ ended'[r] = ended[r]
  /\ wait_list'[r] = wait_list[r] /\ exit_status'[r] \in {exit_status[r], NULL}

Moves ==
  /\ UNCHANGED <<tid, all_list, thread_page, child_list>>
  /\ \A r \in Procs : Kept(r) \/ Moved(r)

LEMMA MoveStep ==
  ASSUME IInv, Moves, TypeOK', SemasOK', ListsOK', StatusOK'
  PROVE  IInv'
<1>1. \A r \in Procs : /\ pc'[r] = "unborn" <=> pc[r] = "unborn"
                       /\ pc'[r] = "gone" <=> pc[r] = "gone"
                       /\ pc[r] \in Dead => pc'[r] \in Dead
  BY DEF Moves, Kept, Moved, Dead
<1>2. BirthOK'
  <2>1. pc'[root] \in {"user"} \cup Executing \cup Awaiting
    BY ProcsFacts DEF IInv, BirthOK, Moves, Kept, Moved
  <2>2. QED
    BY <1>1, <2>1 DEF IInv, BirthOK, Moves
<1>3. PagesOK'
  BY DEF IInv, PagesOK, Moves
<1>4. CallsOK' /\ EndedOK'
  <2> SUFFICES ASSUME NEW r \in Procs PROVE CallOK(r)' /\ EndOK(r)'
    BY DEF CallsOK, EndedOK
  <2>1. CASE Moved(r)
    BY <2>1 DEF Moved
  <2>2. CASE Kept(r)
    <3>1. CallOK(r) /\ EndOK(r) /\ (pc[r] \in Executing \cup Awaiting => kid[r] \in Procs)
      BY KidFacts DEF IInv, CallsOK, EndedOK
    <3>2. CallOK(r)'
      BY <1>1, <2>2, <3>1 DEF CallOK, Kept, Executing, Awaiting, Moves
    <3>3. EndOK(r)'
      BY <2>2, <3>1 DEF EndOK, Kept
    <3>4. QED
      BY <3>2, <3>3
  <2>3. QED
    BY <2>1, <2>2 DEF Moves
<1>5. QED
  BY <1>2, <1>3, <1>4 DEF IInv

(* Such a step leaves the lists in order if it does not touch them. *)
LEMMA ListsStay ==
  ASSUME IInv, Moves, UNCHANGED <<exit_list, wait_list>>,
         \A r \in Procs : /\ exit_status[r] # NULL => exit_status'[r] # NULL
                          /\ pc'[r] \in {"exit_up", "exit_die"} <=> pc[r] \in {"exit_up", "exit_die"}
  PROVE  ListsOK' /\ StatusOK'
<1>1. \A r \in Procs : /\ pc'[r] = "gone" <=> pc[r] = "gone"
                       /\ pc[r] = "exit_die" => pc'[r] = "exit_die"
  BY DEF Moves, Kept, Moved
<1>2. /\ all_list \subseteq Procs
      /\ \A p \in Procs : child_list[p] \subseteq Procs /\ wait_list[p] \subseteq Procs
  BY DEF IInv, TypeOK
<1>3. ListsOK'
  BY <1>1, <1>2 DEF IInv, ListsOK, Dead, Moves
<1>4. StatusOK'
  BY <1>1, <1>2 DEF IInv, StatusOK, Moves
<1>5. QED
  BY <1>3, <1>4

(* A process that is not in a system call has no exec or wait to account for. *)
LEMMA NoCall ==
  ASSUME NEW r \in Procs, pc'[r] \notin Executing \cup Awaiting
  PROVE  CallOK(r)'
BY DEF CallOK, Executing, Awaiting

(* The semaphores stay as they are, or go down. *)
LEMMA SemasDown ==
  ASSUME IInv, TypeOK', thread_page' = thread_page, NEW p \in Procs,
         \A r \in Procs \ {p} : pc'[r] = pc[r],
         pc[p] # "exit_die", pc'[p] \in Loading => pc[p] \in Loading,
         \A g \in Pages : exec_sema'[g] <= exec_sema[g] /\ wait_sema'[g] <= wait_sema[g]
  PROVE  SemasOK'
<1> SUFFICES ASSUME NEW g \in Pages, thread_page[g] # NULL PROVE SemaOK(g)'
  BY DEF SemasOK
<1>1. thread_page[g] \in Procs /\ SemaOK(g)
  BY DEF IInv, TypeOK, SemasOK
<1>2. /\ exec_sema[g] \in 0..1 /\ exec_sema'[g] \in 0..1
      /\ wait_sema[g] \in 0..1 /\ wait_sema'[g] \in 0..1
  BY DEF IInv, TypeOK
<1>3. /\ exec_sema'[g] > 0 => exec_sema[g] > 0
      /\ wait_sema'[g] > 0 => wait_sema[g] > 0
  BY <1>2
<1>4. QED
  BY <1>1, <1>3 DEF SemaOK

(* A step of one process: its locals, status and end may change, and it may
   take a semaphore down. *)
Quiet == {"unborn", "exit_up", "exit_die", "gone"}

Local(p) ==
  /\ pc[p] \notin Quiet /\ pc'[p] \notin Quiet
  /\ pc'[p] \in Loading => pc[p] \in Loading
  /\ p = root => pc'[p] \in {"user"} \cup Executing \cup Awaiting
  /\ UNCHANGED <<tid, all_list, thread_page, exit_list, child_list, wait_list, program>>
  /\ \A g \in Pages : exec_sema'[g] <= exec_sema[g] /\ wait_sema'[g] <= wait_sema[g]
  /\ exit_status[p] # NULL => exit_status'[p] # NULL
  /\ \A r \in Procs \ {p} :
       /\ pc'[r] = pc[r] /\ kid'[r] = kid[r] /\ child'[r] = child[r]
       /\ exit_status'[r] = exit_status[r] /\ ended'[r] = ended[r]

LEMMA LocalStep ==
  ASSUME IInv, NEW p \in Procs, Local(p), TypeOK', CallOK(p)', EndOK(p)'
  PROVE  IInv'
<1>1. SemasOK'
  BY SemasDown DEF Local, Quiet
<1>2. Moves
  BY DEF Moves, Kept, Moved, Quiet, Local
<1>3. ListsOK' /\ StatusOK'
  BY <1>2, ListsStay DEF Local, Quiet
<1>4. QED
  BY <1>1, <1>2, <1>3, MoveStep

(* The steps of exec, and those of wait up to the return. *)
LEMMA ExecLookupStep ==
  ASSUME IInv, NEW p \in Procs, exec_lookup(p)
  PROVE  IInv'
<1>1. /\ pc[p] = "exec_lookup"
      /\ UNCHANGED <<tid, all_list, thread_page, exec_sema, wait_sema, exit_list,
                     child_list, wait_list, exit_status, program, ended>>
  BY DEF exec_lookup, pageVars, listVars
<1>2. kid[p] \in child_list[p] \ wait_list[p] /\ kid[p] # root
  BY <1>1, KidFacts DEF Executing
<1>3. TypeOK
  BY DEF IInv
<1>4. CASE /\ kid[p] \in all_list /\ kid' = kid
           /\ child' = [child EXCEPT ![p] = PageOf(kid[p])]
           /\ pc' = [pc EXCEPT ![p] = "exec_down"]
  <2>1. PageOf(kid[p]) \in Pages
    BY <1>2, <1>4, PageOfFacts
  <2>2. CallOK(p)' /\ EndOK(p)'
    BY <1>1, <1>2, <1>3, <1>4, <2>1 DEF TypeOK, CallOK, EndOK, Exiting
  <2>3. TypeOK'
    BY <1>1, <1>3, <1>4, <2>1 DEF TypeOK, Points
  <2>4. Local(p)
    BY <1>1, <1>3, <1>4, <2>1 DEF Local, TypeOK, Quiet, Loading, Executing
  <2>5. QED
    BY <2>2, <2>3, <2>4, LocalStep
<1>5. CASE Return(p)
  <2>1. CallOK(p)' /\ EndOK(p)'
    BY <1>3, <1>5, NoCall DEF TypeOK, Return, Goto, EndOK, Exiting, Executing, Awaiting
  <2>2. TypeOK'
    BY <1>1, <1>3, <1>5 DEF TypeOK, Return, Goto, Points
  <2>3. Local(p)
    BY <1>1, <1>3, <1>5 DEF Local, TypeOK, Return, Goto, Quiet, Loading
  <2>4. QED
    BY <2>1, <2>2, <2>3, LocalStep
<1>6. QED
  BY <1>4, <1>5 DEF exec_lookup, Goto

LEMMA ExecDownStep ==
  ASSUME IInv, NEW p \in Procs, exec_down(p)
  PROVE  IInv'
<1>1. /\ pc[p] = "exec_down"
      /\ UNCHANGED <<tid, all_list, thread_page, wait_sema, exit_list, child_list,
                     wait_list, exit_status, program, ended, kid, child>>
  BY DEF exec_down, listVars
<1>2. TypeOK /\ CallOK(p)
  BY DEF IInv, CallsOK
<1>3. PICK l \in {"exec_blocked", "exec_status"} : pc' = [pc EXCEPT ![p] = l]
  BY DEF exec_down, sema_down, Goto
<1>4. \/ exec_sema' = exec_sema
      \/ exec_sema[child[p]] > 0 /\ exec_sema' = [exec_sema EXCEPT ![child[p]] = @ - 1]
  BY DEF exec_down, sema_down
<1>5. /\ exec_sema' \in [Pages -> 0..1]
      /\ \A g \in Pages : exec_sema'[g] <= exec_sema[g]
  BY <1>2, <1>4 DEF TypeOK
<1>6. CallOK(p)' /\ EndOK(p)'
  BY <1>1, <1>2, <1>3 DEF TypeOK, CallOK, EndOK, Exiting, Executing
<1>7. TypeOK'
  BY <1>1, <1>2, <1>3, <1>5 DEF TypeOK, Points
<1>8. Local(p)
  BY <1>1, <1>2, <1>3, <1>5 DEF Local, TypeOK, Quiet, Loading, Executing
<1>9. QED
  BY <1>6, <1>7, <1>8, LocalStep

LEMMA ExecReturnStep ==
  ASSUME IInv, NEW p \in Procs, exec_return(p)
  PROVE  IInv'
<1>1. /\ pc[p] = "exec_status"
      /\ UNCHANGED <<tid, all_list, thread_page, exec_sema, wait_sema, exit_list,
                     child_list, wait_list, exit_status, program, ended>>
  BY DEF exec_return, pageVars, listVars
<1>2. /\ pc' = [pc EXCEPT ![p] = "user"] /\ kid' = [kid EXCEPT ![p] = NULL]
      /\ child' = [child EXCEPT ![p] = NULL]
  BY DEF exec_return, Return, Goto
<1>3. TypeOK
  BY DEF IInv
<1>4. CallOK(p)' /\ EndOK(p)'
  BY <1>2, <1>3, NoCall DEF TypeOK, EndOK, Exiting, Executing, Awaiting
<1>5. TypeOK'
  BY <1>1, <1>2, <1>3 DEF TypeOK, Points
<1>6. Local(p)
  BY <1>1, <1>2, <1>3 DEF Local, TypeOK, Quiet, Loading
<1>7. QED
  BY <1>4, <1>5, <1>6, LocalStep

LEMMA WaitStep ==
  ASSUME IInv, NEW p \in Procs, NEW q \in Procs, process_wait(p, q)
  PROVE  IInv'
<1>1. /\ pc[p] = "user" /\ q \in child_list[p] \ wait_list[p]
      /\ kid' = [kid EXCEPT ![p] = q] /\ pc' = [pc EXCEPT ![p] = "wait_lookup"]
      /\ UNCHANGED <<tid, all_list, thread_page, exec_sema, wait_sema, exit_list,
                     child_list, wait_list, exit_status, program, ended, child>>
  BY DEF process_wait, CanBeAwaited, Goto, pageVars, listVars
<1>2. TypeOK
  BY DEF IInv
<1>3. CallOK(p)' /\ EndOK(p)'
  BY <1>1, <1>2 DEF TypeOK, CallOK, EndOK, Exiting
<1>4. TypeOK'
  BY <1>1, <1>2 DEF TypeOK, Points
<1>5. Local(p)
  BY <1>1, <1>2 DEF Local, TypeOK, Quiet, Loading, Awaiting
<1>6. QED
  BY <1>3, <1>4, <1>5, LocalStep

LEMMA WaitLookupStep ==
  ASSUME IInv, NEW p \in Procs, wait_lookup(p)
  PROVE  IInv'
<1>1. /\ pc[p] = "wait_lookup"
      /\ UNCHANGED <<tid, all_list, thread_page, exec_sema, wait_sema, exit_list,
                     child_list, wait_list, exit_status, program, ended, kid>>
  BY DEF wait_lookup, pageVars, listVars
<1>2. /\ kid[p] \in child_list[p] \ wait_list[p] /\ kid[p] # root
      /\ kid[p] \in Procs /\ pc[kid[p]] # "unborn"
  BY <1>1, KidFacts DEF Awaiting
<1>3. TypeOK
  BY DEF IInv
<1>4. CASE /\ kid[p] \in all_list /\ child' = [child EXCEPT ![p] = PageOf(kid[p])]
           /\ pc' = [pc EXCEPT ![p] = "wait_down"]
  <2>1. PageOf(kid[p]) \in Pages /\ thread_page[PageOf(kid[p])] = kid[p]
    BY <1>2, <1>4, PageOfFacts
  <2>2. child'[p] = PageOf(kid[p]) /\ pc'[p] = "wait_down"
    BY <1>3, <1>4 DEF TypeOK
  <2>3. CallOK(p)' /\ EndOK(p)'
    BY <1>1, <1>2, <2>1, <2>2 DEF CallOK, EndOK, Exiting
  <2>4. TypeOK'
    BY <1>1, <1>3, <1>4, <2>1 DEF TypeOK, Points
  <2>5. Local(p)
    BY <1>1, <1>3, <1>4, <2>1 DEF Local, TypeOK, Quiet, Loading, Awaiting
  <2>6. QED
    BY <2>3, <2>4, <2>5, LocalStep
<1>5. CASE kid[p] \notin all_list /\ child' = child /\ pc' = [pc EXCEPT ![p] = "wait_mark"]
  <2>1. pc[kid[p]] = "gone"
    BY <1>2, <1>5 DEF IInv, BirthOK
  <2>2. pc'[p] = "wait_mark" /\ pc'[kid[p]] = "gone"
    BY <1>1, <1>2, <1>3, <1>5, <2>1 DEF TypeOK
  <2>3. CallOK(p)' /\ EndOK(p)'
    BY <1>1, <1>2, <2>2 DEF CallOK, EndOK, Exiting, Dead
  <2>4. TypeOK'
    BY <1>1, <1>3, <1>5 DEF TypeOK, Points
  <2>5. Local(p)
    BY <1>1, <1>3, <1>5 DEF Local, TypeOK, Quiet, Loading, Awaiting
  <2>6. QED
    BY <2>3, <2>4, <2>5, LocalStep
<1>6. QED
  BY <1>4, <1>5 DEF wait_lookup, Goto

LEMMA WaitDownStep ==
  ASSUME IInv, NEW p \in Procs, wait_down(p)
  PROVE  IInv'
<1>1. /\ pc[p] = "wait_down"
      /\ UNCHANGED <<tid, all_list, thread_page, exec_sema, exit_list, child_list,
                     wait_list, exit_status, program, ended, kid, child>>
  BY DEF wait_down, listVars
<1>2. kid[p] \in child_list[p] \ wait_list[p] /\ kid[p] \in Procs
  BY <1>1, KidFacts DEF Awaiting
<1>3. child[p] \in Pages /\ (thread_page[child[p]] = kid[p] \/ pc[kid[p]] = "gone")
  BY <1>1 DEF IInv, CallsOK, CallOK
<1>4. TypeOK
  BY DEF IInv
<1>5. wait_sema[child[p]] > 0 \/ thread_page[child[p]] = NULL => pc[kid[p]] \in Dead
  <2>1. CASE thread_page[child[p]] = kid[p]
    BY <1>2, <1>3, <2>1, ProcsFacts DEF IInv, SemasOK, SemaOK, Dead
  <2>2. QED
    BY <1>3, <2>1 DEF Dead
<1>6. \/ wait_sema' = wait_sema
      \/ wait_sema[child[p]] > 0 /\ wait_sema' = [wait_sema EXCEPT ![child[p]] = @ - 1]
  BY DEF wait_down, sema_down
<1>7. /\ wait_sema' \in [Pages -> 0..1]
      /\ \A g \in Pages : wait_sema'[g] <= wait_sema[g]
  BY <1>4, <1>6 DEF TypeOK
<1>8. PICK l \in {"wait_blocked", "wait_mark"} :
        pc' = [pc EXCEPT ![p] = l] /\ (l = "wait_mark" => pc[kid[p]] \in Dead)
  BY <1>5 DEF wait_down, sema_down, Goto
<1>9. pc'[p] = l /\ (pc'[kid[p]] = pc[kid[p]] \/ kid[p] = p)
  BY <1>2, <1>4, <1>8 DEF TypeOK
<1>10. CallOK(p)' /\ EndOK(p)'
  BY <1>1, <1>2, <1>3, <1>8, <1>9 DEF CallOK, EndOK, Exiting, Dead
<1>11. TypeOK'
  BY <1>1, <1>4, <1>7, <1>8 DEF TypeOK, Points
<1>12. Local(p)
  BY <1>1, <1>4, <1>7, <1>8 DEF Local, TypeOK, Quiet, Loading, Awaiting
<1>13. QED
  BY <1>10, <1>11, <1>12, LocalStep

(* The steps of a process that loads its program, or ends. *)
LEMMA LoadStep ==
  ASSUME IInv, NEW p \in Procs, load(p)
  PROVE  IInv'
<1>1. /\ pc[p] = "load"
      /\ UNCHANGED <<tid, all_list, thread_page, exec_sema, wait_sema, exit_list,
                     child_list, wait_list, exit_status, program, ended, kid, child>>
  BY DEF load, pageVars, listVars
<1>2. PICK l \in {"load_up", "load_failed", "stuck"} :
        pc' = [pc EXCEPT ![p] = l] /\ (l = "load_up" => program[p] = "good")
  BY DEF load, Goto
<1>3. TypeOK /\ p # root
  BY <1>1 DEF IInv, BirthOK, Executing, Awaiting
<1>4. CallOK(p)' /\ EndOK(p)'
  BY <1>1, <1>2, <1>3, NoCall DEF TypeOK, EndOK, Exiting, Executing, Awaiting
<1>5. TypeOK'
  BY <1>1, <1>2, <1>3 DEF TypeOK, Points
<1>6. Local(p)
  BY <1>1, <1>2, <1>3 DEF Local, TypeOK, Quiet, Loading
<1>7. QED
  BY <1>4, <1>5, <1>6, LocalStep

LEMMA LoadFailedStep ==
  ASSUME IInv, NEW p \in Procs, load_failed(p)
  PROVE  IInv'
<1>1. /\ pc[p] = "load_failed" /\ pc' = [pc EXCEPT ![p] = "load_up"]
      /\ exit_status' = [exit_status EXCEPT ![p] = -1] /\ ended' = [ended EXCEPT ![p] = -1]
      /\ UNCHANGED <<tid, all_list, thread_page, exec_sema, wait_sema, exit_list,
                     child_list, wait_list, program, kid, child>>
  BY DEF load_failed, thread_set_exit_status, Goto, pageVars
<1>2. TypeOK /\ p # root
  BY <1>1 DEF IInv, BirthOK, Executing, Awaiting
<1>3. CallOK(p)' /\ EndOK(p)'
  BY <1>1, <1>2, NoCall DEF TypeOK, EndOK, Executing, Awaiting
<1>4. TypeOK'
  BY <1>1, <1>2 DEF TypeOK, Points
<1>5. Local(p)
  BY <1>1, <1>2, ProcsFacts DEF Local, TypeOK, Quiet, Loading
<1>6. QED
  BY <1>3, <1>4, <1>5, LocalStep

LEMMA SysexitStep ==
  ASSUME IInv, NEW p \in Procs, NEW s \in Statuses \cup {-1}, sysexit_handler(p, s)
  PROVE  IInv'
<1>1. /\ pc[p] = "user" /\ p # root /\ pc' = [pc EXCEPT ![p] = "exit_files"]
      /\ exit_status' = [exit_status EXCEPT ![p] = s] /\ ended' = [ended EXCEPT ![p] = s]
      /\ UNCHANGED <<tid, all_list, thread_page, exec_sema, wait_sema, exit_list,
                     child_list, wait_list, program, kid, child>>
  BY DEF sysexit_handler, thread_set_exit_status, Goto, pageVars
<1>2. TypeOK
  BY DEF IInv
<1>3. CallOK(p)' /\ EndOK(p)'
  BY <1>1, <1>2, NoCall DEF TypeOK, EndOK, Executing, Awaiting
<1>4. TypeOK'
  BY <1>1, <1>2 DEF TypeOK, Points
<1>5. Local(p)
  BY <1>1, <1>2, ProcsFacts DEF Local, TypeOK, Quiet, Loading
<1>6. QED
  BY <1>3, <1>4, <1>5, LocalStep

LEMMA KillStep ==
  ASSUME IInv, NEW p \in Procs, kill(p)
  PROVE  IInv'
<1>1. /\ pc[p] = "user" /\ p # root /\ pc' = [pc EXCEPT ![p] = "exit_files"]
      /\ ended' = [ended EXCEPT ![p] = KILLED]
      /\ UNCHANGED <<tid, all_list, thread_page, exec_sema, wait_sema, exit_list,
                     child_list, wait_list, exit_status, program, kid, child>>
  BY DEF kill, Goto, pageVars, listVars
<1>2. TypeOK
  BY DEF IInv
<1>3. CallOK(p)' /\ EndOK(p)'
  BY <1>1, <1>2, NoCall DEF TypeOK, EndOK, Executing, Awaiting
<1>4. TypeOK'
  BY <1>1, <1>2 DEF TypeOK, Points
<1>5. Local(p)
  BY <1>1, <1>2 DEF Local, TypeOK, Quiet, Loading
<1>6. QED
  BY <1>3, <1>4, <1>5, LocalStep

-----------------------------------------------------------------------------
(* The page of the process whose turn it is. *)
LEMMA OwnPage ==
  ASSUME IInv, NEW p \in Procs, pc[p] \in Loading \cup {"exit_up", "exit_die"}
  PROVE  /\ p # root /\ p \in all_list
         /\ PageOf(p) \in Pages /\ thread_page[PageOf(p)] = p
<1>1. p # root /\ p \in all_list
  BY DEF IInv, BirthOK, Executing, Awaiting, Loading
<1>2. QED
  BY <1>1, PageOfFacts

(* start_process raises exec_sema once. *)
LEMMA LoadUpStep ==
  ASSUME IInv, NEW p \in Procs, load_up(p)
  PROVE  IInv'
<1> DEFINE g == PageOf(p)
           next == IF program[p] = "good" THEN "user" ELSE "exit_files"
<1>1. pc[p] = "load_up"
  BY DEF load_up
<1>2. p # root /\ p \in all_list /\ g \in Pages /\ thread_page[g] = p
  BY <1>1, OwnPage DEF Loading
<1>3. exec_sema[g] = 0
  BY <1>1, <1>2, ProcsFacts DEF IInv, TypeOK, SemasOK, SemaOK, Loading
<1>4. next \in {"user", "exit_files"} /\ (next = "exit_files" <=> program[p] # "good")
  OBVIOUS
<1>5. /\ program' = [program EXCEPT ![p] = NULL]
      /\ UNCHANGED <<tid, all_list, thread_page, wait_sema, exit_list, child_list,
                     wait_list, exit_status, ended, kid, child>>
  BY DEF load_up, listVars
<1>6. EndOK(p) /\ \A w \in Procs : CallOK(w) /\ EndOK(w)
  BY DEF IInv, EndedOK, CallsOK
<1> HIDE DEF next, g
<1>7. CASE exec_sema' = [exec_sema EXCEPT ![g] = @ + 1] /\ pc' = [pc EXCEPT ![p] = next]
  <2>1. TypeOK'
    BY <1>2, <1>3, <1>4, <1>5, <1>7 DEF IInv, TypeOK, Points
  <2>2. SemasOK'
    <3> SUFFICES ASSUME NEW h \in Pages, thread_page[h] # NULL PROVE SemaOK(h)'
      BY <1>5 DEF SemasOK
    <3>1. thread_page[h] \in Procs /\ SemaOK(h)
      BY DEF IInv, TypeOK, SemasOK
    <3>2. h # g => thread_page[h] # p
      BY <1>2, ProcsFacts DEF IInv, PagesOK
    <3>3. QED
      BY <1>1, <1>2, <1>4, <1>5, <1>7, <3>1, <3>2 DEF IInv, TypeOK, SemaOK, Loading
  <2>3. \A r \in Procs : r # p => Kept(r)
    BY <1>5, <1>7 DEF IInv, TypeOK, Kept
  <2>4. Moved(p)
    BY <1>1, <1>2, <1>4, <1>5, <1>6, <1>7, NoCall DEF IInv, TypeOK, Moved, EndOK, Exiting, Executing, Awaiting
  <2>5. Moves
    BY <1>5, <2>3, <2>4 DEF Moves
  <2>6. QED
    BY <1>1, <1>4, <1>5, <1>7, <2>1, <2>2, <2>5, MoveStep, ListsStay DEF IInv, TypeOK
<1>8. ASSUME NEW w \in Procs, pc[w] = "exec_blocked", exec_sema' = exec_sema,
             pc' = [pc EXCEPT ![p] = next, ![w] = "exec_status"]
      PROVE  IInv'
  <2>0. w # p
    BY <1>1, <1>8
  <2>1. TypeOK'
    BY <1>4, <1>5, <1>8, <2>0 DEF IInv, TypeOK, Points
  <2>2. SemasOK'
    <3> SUFFICES ASSUME NEW h \in Pages, thread_page[h] # NULL PROVE SemaOK(h)'
      BY <1>5 DEF SemasOK
    <3>1. thread_page[h] \in Procs /\ SemaOK(h)
      BY DEF IInv, TypeOK, SemasOK
    <3>2. QED
      BY <1>1, <1>4, <1>5, <1>8, <2>0, <3>1 DEF IInv, TypeOK, SemaOK, Loading
  <2>3. \A r \in Procs : r # p /\ r # w => Kept(r)
    BY <1>5, <1>8, <2>0 DEF IInv, TypeOK, Kept
  <2>4. Moved(p)
    BY <1>1, <1>2, <1>4, <1>5, <1>6, <1>8, <2>0, NoCall DEF IInv, TypeOK, Moved, EndOK, Exiting, Executing, Awaiting
  <2>5. Moved(w)
    BY <1>5, <1>6, <1>8, <2>0 DEF IInv, TypeOK, Moved, CallOK, EndOK, Exiting, Executing, Awaiting
  <2>6. Moves
    BY <1>5, <2>3, <2>4, <2>5 DEF Moves
  <2>7. QED
    BY <1>1, <1>4, <1>5, <1>8, <2>0, <2>1, <2>2, <2>6, MoveStep, ListsStay DEF IInv, TypeOK
<1>9. QED
  BY <1>7, <1>8 DEF load_up, sema_up, Waiters, Goto, g, next

(* process_exit's wait_sema is raised once; the waiter it wakes waits for this
   process, or for one that is gone and whose page this process has. *)
LEMMA ExitUpStep ==
  ASSUME IInv, NEW p \in Procs, exit_up(p)
  PROVE  IInv'
<1> DEFINE g == PageOf(p)
<1>1. pc[p] = "exit_up"
  BY DEF exit_up
<1>2. p # root /\ p \in all_list /\ g \in Pages /\ thread_page[g] = p
  BY <1>1, OwnPage
<1>3. wait_sema[g] = 0
  BY <1>1, <1>2, ProcsFacts DEF IInv, TypeOK, SemasOK, SemaOK
<1>4. UNCHANGED <<tid, all_list, thread_page, exec_sema, exit_list, child_list,
                  wait_list, exit_status, program, ended, kid, child>>
  BY DEF exit_up, listVars
<1>5. EndOK(p) /\ \A w \in Procs : CallOK(w) /\ EndOK(w)
  BY DEF IInv, EndedOK, CallsOK
<1> HIDE DEF g
<1>6. CASE wait_sema' = [wait_sema EXCEPT ![g] = @ + 1] /\ pc' = [pc EXCEPT ![p] = "exit_die"]
  <2>1. TypeOK'
    BY <1>2, <1>3, <1>4, <1>6 DEF IInv, TypeOK, Points
  <2>2. SemasOK'
    <3> SUFFICES ASSUME NEW h \in Pages, thread_page[h] # NULL PROVE SemaOK(h)'
      BY <1>4 DEF SemasOK
    <3>1. thread_page[h] \in Procs /\ SemaOK(h)
      BY DEF IInv, TypeOK, SemasOK
    <3>2. h # g => thread_page[h] # p
      BY <1>2, ProcsFacts DEF IInv, PagesOK
    <3>3. QED
      BY <1>1, <1>2, <1>4, <1>6, <3>1, <3>2 DEF IInv, TypeOK, SemaOK, Loading
  <2>3. \A r \in Procs : r # p => Kept(r)
    BY <1>4, <1>6 DEF IInv, TypeOK, Kept
  <2>4. Moved(p)
    BY <1>1, <1>2, <1>4, <1>5, <1>6, NoCall DEF IInv, TypeOK, Moved, EndOK, Exiting, Executing, Awaiting
  <2>5. Moves
    BY <1>4, <2>3, <2>4 DEF Moves
  <2>6. QED
    BY <1>1, <1>4, <1>6, <2>1, <2>2, <2>5, MoveStep, ListsStay DEF IInv, TypeOK
<1>7. ASSUME NEW w \in Procs, pc[w] = "wait_blocked", child[w] = g, wait_sema' = wait_sema,
             pc' = [pc EXCEPT ![p] = "exit_die", ![w] = "wait_mark"]
      PROVE  IInv'
  <2>0. w # p
    BY <1>1, <1>7
  <2>1. TypeOK'
    BY <1>4, <1>7, <2>0 DEF IInv, TypeOK, Points
  <2>2. SemasOK'
    <3> SUFFICES ASSUME NEW h \in Pages, thread_page[h] # NULL PROVE SemaOK(h)'
      BY <1>4 DEF SemasOK
    <3>1. thread_page[h] \in Procs /\ SemaOK(h)
      BY DEF IInv, TypeOK, SemasOK
    <3>2. QED
      BY <1>1, <1>4, <1>7, <2>0, <3>1 DEF IInv, TypeOK, SemaOK, Loading
  <2>3. \A r \in Procs : r # p /\ r # w => Kept(r)
    BY <1>4, <1>7, <2>0 DEF IInv, TypeOK, Kept
  <2>4. Moved(p)
    BY <1>1, <1>2, <1>4, <1>5, <1>7, <2>0, NoCall DEF IInv, TypeOK, Moved, EndOK, Exiting, Executing, Awaiting
  <2>5. kid[w] \in Procs /\ (kid[w] = p \/ pc[kid[w]] = "gone")
    BY <1>2, <1>5, <1>7, KidFacts DEF CallOK, Awaiting
  <2>6. pc'[w] = "wait_mark" /\ pc'[kid[w]] \in Dead
    BY <1>7, <2>0, <2>5 DEF IInv, TypeOK, Dead
  <2>7. Moved(w)
    BY <1>4, <1>5, <1>7, <2>6 DEF Moved, CallOK, EndOK, Exiting, Executing, Awaiting
  <2>8. Moves
    BY <1>4, <2>3, <2>4, <2>7 DEF Moves
  <2>9. QED
    BY <1>1, <1>4, <1>7, <2>0, <2>1, <2>2, <2>8, MoveStep, ListsStay DEF IInv, TypeOK
<1>8. QED
  BY <1>6, <1>7 DEF exit_up, sema_up, Waiters, Goto, g
=============================================================================
