--------------------------- MODULE ProcessProofs ---------------------------
(***************************************************************************)
(* The steps that create and end a process keep the invariant too; with    *)
(* them it holds always, and the exit status a wait reads is there and is  *)
(* the one its child ended with.                                           *)
(***************************************************************************)
EXTENDS ProcessSteps

(* thread_create gives the new process the next tid, a free page, and a place
   on the lists. *)
LEMMA ExecuteStep ==
  ASSUME IInv, NEW p \in Procs, NEW prog \in Programs, process_execute(p, prog)
  PROVE  IInv'
<1> DEFINE q == tid
<1>1. /\ pc[p] = "user" /\ q \in Procs
      /\ pc' = [pc EXCEPT ![p] = "exec_lookup", ![q] = "load"]
      /\ kid' = [kid EXCEPT ![p] = q]
      /\ all_list' = all_list \cup {q} /\ exit_list' = exit_list \cup {q}
      /\ child_list' = [child_list EXCEPT ![p] = @ \cup {q}]
      /\ exit_status' = [exit_status EXCEPT ![q] = 0]
      /\ program' = [program EXCEPT ![q] = prog]
      /\ UNCHANGED <<wait_list, ended, child>>
  BY DEF process_execute, thread_create
<1>2. tid' = tid + 1 /\ tid \in 1..MaxTid
  BY <1>1, ProcessAssumption DEF IInv, TypeOK, process_execute, Procs, root
<1>3. PICK g \in Pages :
        /\ thread_page[g] = NULL
        /\ thread_page' = [thread_page EXCEPT ![g] = q]
        /\ exec_sema' = [exec_sema EXCEPT ![g] = 0]
        /\ wait_sema' = [wait_sema EXCEPT ![g] = 0]
  BY DEF process_execute, thread_create
<1>4. pc[q] = "unborn" /\ q # p /\ q # root /\ q \notin all_list
  <2>1. q >= tid /\ q # root
    BY <1>2 DEF root
  <2>2. QED
    BY <1>1, <2>1 DEF IInv, BirthOK
<1>5. \A r \in Procs : q \notin child_list[r] /\ q \notin wait_list[r]
  <2>1. ~(q < tid)
    BY <1>2
  <2>2. QED
    BY <2>1 DEF IInv, ListsOK
<1>6. \A r \in Procs : r # p /\ r # q => pc'[r] = pc[r]
  BY <1>1 DEF IInv, TypeOK
<1>7. pc'[p] = "exec_lookup" /\ pc'[q] = "load"
  BY <1>1, <1>4 DEF IInv, TypeOK
<1>8. \A r \in Procs : /\ r # p => child_list'[r] = child_list[r]
                       /\ child_list[r] \subseteq Procs /\ wait_list[r] \subseteq Procs
  BY <1>1 DEF IInv, TypeOK
<1>9. child_list'[p] = child_list[p] \cup {q}
  BY <1>1 DEF IInv, TypeOK
<1> HIDE DEF q
<1>10. TypeOK'
  <2>1. tid' \in 1..(MaxTid + 1)
    BY ONLY <1>2, ProcessAssumption
  <2>2. /\ thread_page' \in [Pages -> Procs \cup {NULL}]
        /\ exec_sema' \in [Pages -> 0..1] /\ wait_sema' \in [Pages -> 0..1]
    BY <1>1, <1>3 DEF IInv, TypeOK
  <2>3. /\ all_list' \subseteq Procs /\ exit_list' \subseteq Procs
        /\ child_list' \in [Procs -> SUBSET Procs] /\ wait_list' \in [Procs -> SUBSET Procs]
        /\ exit_status' \in [Procs -> Statuses \cup {-1, 0, NULL}]
    BY <1>1 DEF IInv, TypeOK
  <2>4. /\ program' \in [Procs -> Programs \cup {NULL}]
        /\ ended' \in [Procs -> Statuses \cup {-1, NULL, KILLED}]
        /\ pc' \in [Procs -> Points] /\ kid' \in [Procs -> Procs \cup {NULL}]
        /\ child' \in [Procs -> Pages \cup {NULL}]
    BY <1>1 DEF IInv, TypeOK, Points
  <2>5. QED
    BY <2>1, <2>2, <2>3, <2>4 DEF TypeOK
<1>11. BirthOK'
  <2>1. \A r \in Procs : r >= tid' <=> r >= tid /\ r # q
    BY ONLY <1>2, ProcsFacts DEF q
  <2>2. \A r \in Procs : pc'[r] = "unborn" <=> r >= tid'
    BY <1>1, <1>4, <1>6, <1>7, <2>1 DEF IInv, BirthOK
  <2>3. \A r \in Procs : r \in all_list' <=> pc'[r] \notin {"unborn", "gone"}
    BY <1>1, <1>4, <1>6, <1>7 DEF IInv, BirthOK
  <2>4. pc'[root] \in {"user"} \cup Executing \cup Awaiting
    BY <1>4, <1>6, <1>7, ProcsFacts DEF IInv, BirthOK, Executing
  <2>5. QED
    BY <2>2, <2>3, <2>4 DEF BirthOK
<1>12. PagesOK'
  <2>1. \A h \in Pages : thread_page'[h] = IF h = g THEN q ELSE thread_page[h]
    BY <1>3 DEF IInv, TypeOK
  <2>2. \A h \in Pages : thread_page[h] # q
    BY <1>1, <1>4, ProcsFacts DEF IInv, PagesOK
  <2>3. \A r \in all_list' : r # root => \E h \in Pages : thread_page'[h] = r
    <3> SUFFICES ASSUME NEW r \in all_list', r # root
                 PROVE  \E h \in Pages : thread_page'[h] = r
      OBVIOUS
    <3>1. CASE r = q
      BY <2>1, <3>1
    <3>2. CASE r \in all_list
      <4>1. PICK h \in Pages : thread_page[h] = r
        BY <3>2 DEF IInv, PagesOK
      <4>2. h # g
        BY <1>3, <3>2, <4>1, ProcsFacts DEF IInv, TypeOK
      <4>3. QED
        BY <2>1, <4>1, <4>2
    <3>3. QED
      BY <1>1, <3>1, <3>2
  <2>4. \A h \in Pages : thread_page'[h] # NULL =>
          thread_page'[h] \in all_list' /\ thread_page'[h] # root
    BY <1>1, <1>4, <2>1 DEF IInv, PagesOK
  <2>5. \A h, k \in Pages : thread_page'[h] = thread_page'[k] /\ thread_page'[h] # NULL => h = k
    BY <2>1, <2>2 DEF IInv, PagesOK
  <2>6. QED
    BY <2>3, <2>4, <2>5 DEF PagesOK
<1>13. SemasOK'
  <2> SUFFICES ASSUME NEW h \in Pages, thread_page'[h] # NULL PROVE SemaOK(h)'
    BY DEF SemasOK
  <2>1. CASE h = g
    BY <1>3, <2>1 DEF IInv, TypeOK, SemaOK
  <2>2. CASE h # g
    <3>1. /\ thread_page'[h] = thread_page[h] /\ exec_sema'[h] = exec_sema[h]
          /\ wait_sema'[h] = wait_sema[h] /\ thread_page[h] \in Procs
      BY <1>3, <2>2 DEF IInv, TypeOK
    <3>2. SemaOK(h) /\ thread_page[h] # q
      BY <1>4, <3>1 DEF IInv, SemasOK, PagesOK
    <3>3. QED
      BY <1>1, <1>6, <1>7, <3>1, <3>2 DEF SemaOK, Loading
  <2>3. QED
    BY <2>1, <2>2
<1>14. ListsOK'
  <2>1. \A r \in Procs : r < tid => r < tid'
    BY ONLY <1>2, ProcsFacts
  <2>2. q < tid'
    BY ONLY <1>2 DEF q
  <2>3. \A r \in Procs : \A k \in child_list'[r] : k # root /\ k < tid'
    BY <1>4, <1>8, <1>9, <2>1, <2>2 DEF IInv, ListsOK
  <2>4. \A r, s \in Procs : \A k \in Procs :
          k \in child_list'[r] /\ k \in child_list'[s] => r = s
    BY <1>5, <1>8, <1>9 DEF IInv, ListsOK
  <2>5. \A r \in Procs : wait_list'[r] \subseteq child_list'[r]
    BY <1>1, <1>8, <1>9 DEF IInv, ListsOK
  <2>6. \A r \in Procs : pc'[r] \in {"exit_up", "exit_die", "gone"} => wait_list'[r] = {}
    BY <1>1, <1>6, <1>7 DEF IInv, ListsOK
  <2>7. \A r \in Procs : \A k \in wait_list'[r] : pc'[k] \in Dead
    BY <1>1, <1>4, <1>6, <1>8 DEF IInv, ListsOK, Dead
  <2>8. QED
    BY <2>3, <2>4, <2>5, <2>6, <2>7 DEF ListsOK
<1>15. StatusOK'
  <2>1. /\ \A r \in Procs : r # q => exit_status'[r] = exit_status[r]
        /\ exit_status'[q] # NULL
    BY <1>1, ProcsFacts DEF IInv, TypeOK
  <2>2. \A r \in Procs : \A k \in child_list'[r] :
          k \notin wait_list'[r] /\ pc'[r] \notin {"exit_up", "exit_die", "gone"} =>
            k \in exit_list' /\ exit_status'[k] # NULL
    <3> SUFFICES ASSUME NEW r \in Procs, NEW k \in child_list'[r], k # q,
                        k \notin wait_list'[r],
                        pc'[r] \notin {"exit_up", "exit_die", "gone"}
                 PROVE  k \in exit_list' /\ exit_status'[k] # NULL
      BY <1>1, <2>1
    <3>1. k \in child_list[r] /\ k \in Procs
      BY <1>8, <1>9
    <3>2. pc[r] \notin {"exit_up", "exit_die", "gone"}
      BY <1>1, <1>4, <1>6
    <3>3. QED
      BY <1>1, <2>1, <3>1, <3>2 DEF IInv, StatusOK
  <2>3. \A r \in all_list' :
          r # root /\ pc'[r] # "exit_die" => r \in exit_list' /\ exit_status'[r] # NULL
    BY <1>1, <1>6, <2>1 DEF IInv, StatusOK, TypeOK
  <2>4. QED
    BY <2>2, <2>3 DEF StatusOK
<1>16. CallsOK'
  <2> SUFFICES ASSUME NEW r \in Procs PROVE CallOK(r)'
    BY DEF CallsOK
  <2>1. CASE r = p
    <3>1. kid'[p] = q /\ q \in child_list'[p] \ wait_list'[p]
      BY <1>1, <1>5, <1>9 DEF IInv, TypeOK
    <3>2. QED
      BY <1>7, <2>1, <3>1 DEF CallOK
  <2>2. CASE r = q
    BY <1>7, <2>2 DEF CallOK, Executing, Awaiting
  <2>3. CASE r # p /\ r # q
    <3>1. /\ CallOK(r) /\ pc'[r] = pc[r] /\ kid'[r] = kid[r] /\ child'[r] = child[r]
          /\ child_list'[r] = child_list[r] /\ wait_list'[r] = wait_list[r]
      BY <1>1, <1>6, <1>8, <2>3 DEF IInv, CallsOK, TypeOK
    <3>2. pc[r] \in Executing \cup Awaiting =>
            kid[r] \in Procs /\ pc[kid[r]] # "unborn"
      BY KidFacts
    <3>3. \A h \in Pages : thread_page[h] # NULL => thread_page'[h] = thread_page[h]
      BY <1>3 DEF IInv, TypeOK
    <3>4. \A k \in Procs : pc[k] \in Dead => pc'[k] = pc[k]
      BY <1>1, <1>4, <1>6 DEF Dead
    <3>5. QED
      BY <3>1, <3>2, <3>3, <3>4, ProcsFacts DEF CallOK, Executing, Awaiting, Dead
  <2>4. QED
    BY <2>1, <2>2, <2>3
<1>17. EndedOK'
  <2> SUFFICES ASSUME NEW r \in Procs PROVE EndOK(r)'
    BY DEF EndedOK
  <2>1. CASE r \in {p, q}
    BY <1>7, <2>1 DEF EndOK, Exiting
  <2>2. CASE r \notin {p, q}
    BY <1>1, <1>6, <2>2 DEF IInv, TypeOK, EndedOK, EndOK
  <2>3. QED
    BY <2>1, <2>2
<1>18. QED
  BY <1>10, <1>11, <1>12, <1>13, <1>14, <1>15, <1>16, <1>17 DEF IInv

(* process_wait's return: the child leaves exit_list for the wait_list of the
   one process that can wait for it. *)
LEMMA WaitReturnStep ==
  ASSUME IInv, NEW p \in Procs, wait_return(p)
  PROVE  IInv'
<1> DEFINE q == kid[p]
<1>1. /\ pc[p] = "wait_mark" /\ pc' = [pc EXCEPT ![p] = "user"]
      /\ kid' = [kid EXCEPT ![p] = NULL] /\ child' = [child EXCEPT ![p] = NULL]
      /\ exit_list' = exit_list \ {q}
      /\ wait_list' = [wait_list EXCEPT ![p] = @ \cup {q}]
      /\ UNCHANGED <<tid, all_list, thread_page, exec_sema, wait_sema, child_list,
                     exit_status, program, ended>>
  BY DEF wait_return, thread_mark_waited, Return, Goto, pageVars
<1>2. q \in child_list[p] /\ q \in Procs /\ q # root
  BY <1>1, KidFacts DEF Awaiting
<1>3. pc[q] \in Dead
  BY <1>1 DEF IInv, CallsOK, CallOK
<1>4. \A r \in Procs : r # p => pc'[r] = pc[r] /\ wait_list'[r] = wait_list[r]
  BY <1>1 DEF IInv, TypeOK
<1>5. pc'[p] = "user" /\ wait_list'[p] = wait_list[p] \cup {q}
  BY <1>1 DEF IInv, TypeOK
<1>6. \A r \in Procs : r # p => q \notin child_list[r]
  BY <1>2 DEF IInv, ListsOK
<1>7. \A r \in Procs : child_list[r] \subseteq Procs /\ wait_list[r] \subseteq Procs
  BY DEF IInv, TypeOK
<1>8. \A r \in Procs : pc[r] \in Dead => pc'[r] = pc[r]
  BY <1>1, <1>4 DEF Dead
<1> HIDE DEF q
<1>9. TypeOK'
  BY <1>1, <1>2 DEF IInv, TypeOK, Points
<1>10. ListsOK'
  <2>1. \A r \in Procs : wait_list'[r] \subseteq child_list[r]
    BY <1>2, <1>4, <1>5 DEF IInv, ListsOK
  <2>2. \A r \in Procs : pc'[r] \in {"exit_up", "exit_die", "gone"} => wait_list'[r] = {}
    BY <1>4, <1>5 DEF IInv, ListsOK
  <2>3. \A r \in Procs : \A k \in wait_list'[r] : pc'[k] \in Dead
    BY <1>2, <1>3, <1>4, <1>5, <1>7, <1>8 DEF IInv, ListsOK
  <2>4. QED
    BY <1>1, <2>1, <2>2, <2>3 DEF IInv, ListsOK
<1>11. StatusOK'
  <2>1. \A r \in Procs : \A k \in child_list[r] :
          k \notin wait_list'[r] /\ pc'[r] \notin {"exit_up", "exit_die", "gone"} =>
            k \in exit_list' /\ exit_status[k] # NULL
    <3> SUFFICES ASSUME NEW r \in Procs, NEW k \in child_list[r], k \notin wait_list'[r],
                        pc'[r] \notin {"exit_up", "exit_die", "gone"}
                 PROVE  k \in exit_list' /\ exit_status[k] # NULL
      OBVIOUS
    <3>1. k # q /\ k \notin wait_list[r] /\ pc[r] \notin {"exit_up", "exit_die", "gone"}
      BY <1>1, <1>4, <1>5, <1>6
    <3>2. QED
      BY <1>1, <3>1 DEF IInv, StatusOK
  <2>2. \A r \in all_list :
          r # root /\ pc'[r] # "exit_die" => r \in exit_list' /\ exit_status[r] # NULL
    <3> SUFFICES ASSUME NEW r \in all_list, r # root, pc'[r] # "exit_die"
                 PROVE  r \in exit_list' /\ exit_status[r] # NULL
      OBVIOUS
    <3>1. r \in Procs /\ pc[r] \notin Dead
      BY <1>8 DEF IInv, TypeOK, BirthOK, Dead
    <3>2. QED
      BY <1>1, <1>3, <3>1 DEF IInv, StatusOK, Dead
  <2>3. QED
    BY <1>1, <2>1, <2>2 DEF StatusOK
<1>12. SemasOK'
  BY <1>1, <1>4, <1>5, <1>9, SemasDown DEF IInv, TypeOK, Loading
<1>13. Moved(p) /\ \A r \in Procs \ {p} : Kept(r)
  <2>1. CallOK(p)' /\ EndOK(p)'
    BY <1>5, NoCall DEF EndOK, Exiting, Executing, Awaiting
  <2>2. QED
    BY <1>1, <1>4, <1>5, <2>1 DEF IInv, TypeOK, Moved, Kept
<1>14. Moves
  BY <1>1, <1>13 DEF Moves
<1>15. QED
  BY <1>9, <1>10, <1>11, <1>12, <1>14, MoveStep

(* process_exit frees the statuses of children that have ended. *)
LEMMA ProcessExitStep ==
  ASSUME IInv, NEW p \in Procs, process_exit(p)
  PROVE  IInv'
<1>1. /\ pc[p] = "exit_files" /\ pc' = [pc EXCEPT ![p] = "exit_up"]
      /\ exit_status' = [r \in Procs |->
                           IF r \in wait_list[p] THEN NULL ELSE exit_status[r]]
      /\ wait_list' = [wait_list EXCEPT ![p] = {}]
      /\ UNCHANGED <<tid, all_list, thread_page, exec_sema, wait_sema, exit_list,
                     child_list, program, ended, kid, child>>
  BY DEF process_exit, Goto, pageVars
<1>2. \A r \in Procs : r # p => pc'[r] = pc[r] /\ wait_list'[r] = wait_list[r]
  BY <1>1 DEF IInv, TypeOK
<1>3. pc'[p] = "exit_up" /\ wait_list'[p] = {}
  BY <1>1 DEF IInv, TypeOK
<1>4. \A r \in Procs : child_list[r] \subseteq Procs /\ wait_list[r] \subseteq Procs
  BY DEF IInv, TypeOK
<1>5. \A r \in Procs : pc[r] \in Dead => pc'[r] = pc[r]
  BY <1>1, <1>2 DEF Dead
<1>6. p # root
  BY <1>1 DEF IInv, BirthOK, Executing, Awaiting
<1>7. TypeOK'
  BY <1>1 DEF IInv, TypeOK, Points
<1>8. ListsOK'
  <2>1. \A r \in Procs : \A k \in wait_list'[r] : k \in wait_list[r] /\ pc'[k] \in Dead
    BY <1>2, <1>3, <1>4, <1>5 DEF IInv, ListsOK
  <2>2. \A r \in Procs : pc'[r] \in {"exit_up", "exit_die", "gone"} => wait_list'[r] = {}
    BY <1>2, <1>3 DEF IInv, ListsOK
  <2>3. \A r \in Procs : wait_list'[r] \subseteq child_list[r]
    BY <2>1 DEF IInv, ListsOK
  <2>4. QED
    BY <1>1, <2>1, <2>2, <2>3 DEF IInv, ListsOK
<1>9. StatusOK'
  <2>1. \A r \in Procs : \A k \in child_list[r] :
          k \notin wait_list'[r] /\ pc'[r] \notin {"exit_up", "exit_die", "gone"} =>
            k \in exit_list /\ exit_status'[k] # NULL
    <3> SUFFICES ASSUME NEW r \in Procs, NEW k \in child_list[r], k \notin wait_list'[r],
                        pc'[r] \notin {"exit_up", "exit_die", "gone"}
                 PROVE  k \in exit_list /\ exit_status'[k] # NULL
      OBVIOUS
    <3>1. r # p /\ pc[r] \notin {"exit_up", "exit_die", "gone"} /\ k \notin wait_list[r]
      BY <1>2, <1>3
    <3>2. k \in Procs /\ k \notin wait_list[p]
      BY <1>4, <3>1 DEF IInv, ListsOK
    <3>3. k \in exit_list /\ exit_status[k] # NULL
      BY <3>1 DEF IInv, StatusOK
    <3>4. QED
      BY <1>1, <3>2, <3>3
  <2>2. \A r \in all_list :
          r # root /\ pc'[r] # "exit_die" => r \in exit_list /\ exit_status'[r] # NULL
    <3> SUFFICES ASSUME NEW r \in all_list, r # root, pc'[r] # "exit_die"
                 PROVE  r \in exit_list /\ exit_status'[r] # NULL
      OBVIOUS
    <3>1. r \in Procs /\ pc[r] \notin Dead
      BY <1>5 DEF IInv, TypeOK, BirthOK, Dead
    <3>2. r \notin wait_list[p]
      BY <3>1 DEF IInv, ListsOK
    <3>3. QED
      BY <1>1, <3>1, <3>2 DEF IInv, StatusOK, Dead
  <2>3. QED
    BY <1>1, <2>1, <2>2 DEF StatusOK
<1>10. SemasOK'
  BY <1>1, <1>2, <1>3, <1>7, SemasDown DEF IInv, TypeOK, Loading
<1>11. Moved(p) /\ \A r \in Procs \ {p} : Kept(r)
  <2>1. CallOK(p)' /\ EndOK(p)
    BY <1>3, NoCall DEF IInv, EndedOK, Executing, Awaiting
  <2>2. exit_status'[p] \in {exit_status[p], NULL}
    BY <1>1
  <2>3. EndOK(p)'
    BY <1>1, <2>1, <2>2 DEF EndOK, Exiting
  <2>4. QED
    BY <1>1, <1>2, <1>3, <1>6, <2>1, <2>3 DEF Moved, Kept
<1>12. Moves
  BY <1>1, <1>11 DEF Moves
<1>13. QED
  BY <1>7, <1>8, <1>9, <1>10, <1>12, MoveStep

(* The end of thread_exit: a pointer to the page that is freed belongs to a
   process whose child is gone. *)
LEMMA ThreadExitStep ==
  ASSUME IInv, NEW p \in Procs, thread_exit(p)
  PROVE  IInv'
<1> DEFINE g == PageOf(p)
<1>1. /\ pc[p] = "exit_die" /\ pc' = [pc EXCEPT ![p] = "gone"]
      /\ all_list' = all_list \ {p}
      /\ thread_page' = [thread_page EXCEPT ![g] = NULL]
      /\ child_list' = [child_list EXCEPT ![p] = {}]
      /\ UNCHANGED <<tid, exec_sema, wait_sema, exit_list, wait_list, exit_status,
                     program, ended, kid, child>>
  BY DEF thread_exit, Goto
<1>2. p # root /\ p \in all_list /\ g \in Pages /\ thread_page[g] = p
  BY <1>1, OwnPage
<1>3. \A r \in Procs : r # p => pc'[r] = pc[r] /\ child_list'[r] = child_list[r]
  BY <1>1 DEF IInv, TypeOK
<1>4. pc'[p] = "gone" /\ child_list'[p] = {} /\ wait_list[p] = {}
  BY <1>1 DEF IInv, TypeOK, ListsOK
<1>5. \A h \in Pages : thread_page'[h] = IF h = g THEN NULL ELSE thread_page[h]
  BY <1>1 DEF IInv, TypeOK
<1>6. \A r \in Procs : child_list[r] \subseteq Procs /\ wait_list[r] \subseteq Procs
  BY DEF IInv, TypeOK
<1> HIDE DEF g
<1>7. TypeOK'
  BY <1>1, <1>2 DEF IInv, TypeOK, Points
<1>8. BirthOK'
  BY <1>1, <1>2, <1>3, <1>4, ProcsFacts DEF IInv, BirthOK
<1>9. PagesOK'
  BY <1>1, <1>2, <1>5, ProcsFacts DEF IInv, PagesOK
<1>10. SemasOK'
  <2> SUFFICES ASSUME NEW h \in Pages, thread_page'[h] # NULL PROVE SemaOK(h)'
    BY DEF SemasOK
  <2>1. h # g /\ thread_page'[h] = thread_page[h] /\ thread_page[h] \in Procs
    BY <1>5 DEF IInv, TypeOK
  <2>2. SemaOK(h) /\ thread_page[h] # p
    BY <1>2, <2>1, ProcsFacts DEF IInv, SemasOK, PagesOK
  <2>3. QED
    BY <1>1, <1>3, <2>1, <2>2 DEF SemaOK
<1>11. ListsOK'
  <2>1. \A r \in Procs : child_list'[r] \subseteq child_list[r]
    BY <1>3, <1>4
  <2>2. \A r \in Procs : \A k \in child_list'[r] : k # root /\ k < tid
    BY <2>1 DEF IInv, ListsOK
  <2>3. \A r, s \in Procs : \A k \in Procs :
          k \in child_list'[r] /\ k \in child_list'[s] => r = s
    BY <2>1 DEF IInv, ListsOK
  <2>4. \A r \in Procs : /\ wait_list[r] \subseteq child_list'[r]
                         /\ pc'[r] \in {"exit_up", "exit_die", "gone"} => wait_list[r] = {}
    BY <1>3, <1>4 DEF IInv, ListsOK
  <2>5. \A r \in Procs : \A k \in wait_list[r] : pc'[k] \in Dead
    BY <1>3, <1>4, <1>6 DEF IInv, ListsOK, Dead
  <2>6. QED
    BY <1>1, <2>2, <2>3, <2>4, <2>5 DEF ListsOK
<1>12. StatusOK'
  <2>1. \A r \in Procs : \A k \in child_list'[r] :
          k \notin wait_list[r] /\ pc'[r] \notin {"exit_up", "exit_die", "gone"} =>
            k \in exit_list /\ exit_status[k] # NULL
    BY <1>3, <1>4 DEF IInv, StatusOK
  <2>2. \A r \in all_list' :
          r # root /\ pc'[r] # "exit_die" => r \in exit_list /\ exit_status[r] # NULL
    BY <1>1, <1>3 DEF IInv, StatusOK, TypeOK
  <2>3. QED
    BY <1>1, <2>1, <2>2 DEF StatusOK
<1>13. CallsOK'
  <2> SUFFICES ASSUME NEW r \in Procs PROVE CallOK(r)'
    BY DEF CallsOK
  <2>1. CASE r = p
    BY <1>4, <2>1, NoCall DEF Executing, Awaiting
  <2>2. CASE r # p
    <3>1. CallOK(r) /\ pc'[r] = pc[r] /\ child_list'[r] = child_list[r]
      BY <1>3, <2>2 DEF IInv, CallsOK
    <3>2. pc[r] \in Executing \cup Awaiting => kid[r] \in Procs
      BY KidFacts
    <3>3. \A k \in Procs : /\ pc[k] = "gone" => pc'[k] = "gone"
                           /\ pc[k] \in Dead => pc'[k] \in Dead
      BY <1>3, <1>4 DEF Dead
    <3>4. \A h \in Pages : thread_page[h] = thread_page'[h] \/ (thread_page[h] = p /\ pc'[p] = "gone")
      BY <1>2, <1>4, <1>5
    <3>5. QED
      BY <1>1, <3>1, <3>2, <3>3, <3>4 DEF CallOK, Executing, Awaiting
  <2>3. QED
    BY <2>1, <2>2
<1>14. EndedOK'
  <2> SUFFICES ASSUME NEW r \in Procs PROVE EndOK(r)'
    BY DEF EndedOK
  <2>1. EndOK(r)
    BY DEF IInv, EndedOK
  <2>2. pc[r] \in Exiting \/ pc'[r] = pc[r]
    BY <1>1, <1>3 DEF Exiting
  <2>3. QED
    BY <1>1, <2>1, <2>2 DEF EndOK, Exiting
<1>15. QED
  BY <1>7, <1>8, <1>9, <1>10, <1>11, <1>12, <1>13, <1>14 DEF IInv

-----------------------------------------------------------------------------
LEMMA NextInv ==
  ASSUME IInv, [Next]_vars
  PROVE  IInv'
<1>1. CASE UNCHANGED vars
  BY <1>1 DEF vars, pageVars, listVars, IInv, TypeOK, BirthOK, PagesOK, SemasOK, SemaOK,
              ListsOK, StatusOK, CallsOK, CallOK, EndedOK, EndOK
<1>2. ASSUME NEW p \in Procs, KernelStep(p)
      PROVE  IInv'
  BY <1>2, ExecLookupStep, ExecDownStep, ExecReturnStep, WaitLookupStep, WaitDownStep,
     WaitReturnStep, LoadStep, LoadFailedStep, LoadUpStep, ProcessExitStep, ExitUpStep,
     ThreadExitStep DEF KernelStep
<1>3. ASSUME NEW p \in Procs, UserStep(p)
      PROVE  IInv'
  BY <1>3, ExecuteStep, WaitStep, SysexitStep, KillStep DEF UserStep
<1>4. QED
  BY <1>1, <1>2, <1>3 DEF Next

LEMMA Invariance == Spec => []IInv
BY InitInv, NextInv, PTL DEF Spec

(* Whatever the processes do, and whichever pages are reused meanwhile, the
   exit_status that thread_set_exit_status and process_wait follow a pointer
   to is on exit_list and was not freed. *)
THEOREM ExitStatusInvariant == Spec => []ExitStatusPresent
<1>1. IInv => ExitStatusPresent
  <2> SUFFICES ASSUME IInv PROVE ExitStatusPresent
    OBVIOUS
  <2>1. \A q \in all_list \ {root} :
          pc[q] # "exit_die" => q \in exit_list /\ exit_status[q] # NULL
    BY DEF IInv, StatusOK
  <2>2. ASSUME NEW p \in Procs, pc[p] \in {"exec_status", "wait_mark"}
        PROVE  kid[p] \in exit_list /\ exit_status[kid[p]] # NULL
    <3>1. kid[p] \in child_list[p] /\ kid[p] \notin wait_list[p]
      BY <2>2, KidFacts DEF Executing, Awaiting
    <3>2. QED
      BY <2>2, <3>1 DEF IInv, StatusOK
  <2>3. QED
    BY <2>1, <2>2 DEF IInv, ExitStatusPresent
<1>2. QED
  BY <1>1, Invariance, PTL

(* process_wait returns once for each child, after the child has ended, with
   the status the child ended with. *)
THEOREM WaitReturnsEnd == Spec => WaitReturnsStatus
<1> DEFINE Returned(p) ==
      pc[p] = "wait_mark" /\ pc'[p] # "wait_mark" =>
        /\ kid[p] \notin wait_list[p]
        /\ pc[kid[p]] \in {"exit_die", "gone"}
        /\ ended[kid[p]] # KILLED => exit_status[kid[p]] = ended[kid[p]]
<1>1. ASSUME IInv, NEW p \in Procs PROVE Returned(p)
  <2> SUFFICES ASSUME pc[p] = "wait_mark"
               PROVE  /\ kid[p] \notin wait_list[p]
                      /\ pc[kid[p]] \in {"exit_die", "gone"}
                      /\ ended[kid[p]] # KILLED => exit_status[kid[p]] = ended[kid[p]]
    OBVIOUS
  <2>1. kid[p] \in child_list[p] /\ kid[p] \notin wait_list[p] /\ kid[p] \in Procs
    BY <1>1, KidFacts DEF Awaiting
  <2>2. pc[kid[p]] \in Dead
    BY <1>1 DEF IInv, CallsOK, CallOK
  <2>3. exit_status[kid[p]] # NULL
    BY <1>1, <2>1 DEF IInv, StatusOK
  <2>4. EndOK(kid[p])
    BY <1>1, <2>1 DEF IInv, EndedOK
  <2>5. QED
    BY <2>1, <2>2, <2>3, <2>4 DEF EndOK, Dead, Exiting
<1>2. IInv => [\A p \in Procs : Returned(p)]_vars
  BY <1>1
<1>3. QED
  BY <1>2, Invariance, PTL DEF WaitReturnsStatus

=============================================================================
