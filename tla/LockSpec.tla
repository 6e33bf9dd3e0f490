------------------------------ MODULE LockSpec ------------------------------
(***************************************************************************)
(* What the locks of pintos/src/threads/synch.c promise their clients: a   *)
(* lock goes from free to one owner, and back to free when that owner      *)
(* releases it.  It never passes from one thread to another directly.      *)
(***************************************************************************)
CONSTANTS Threads, Locks, NULL

VARIABLE owner    \* who has each lock, NULL when it is free

Init == owner = [l \in Locks |-> NULL]

Acquire(t, l) == owner[l] = NULL /\ owner' = [owner EXCEPT ![l] = t]

Release(t, l) == owner[l] = t /\ owner' = [owner EXCEPT ![l] = NULL]

Next == \E t \in Threads, l \in Locks : Acquire(t, l) \/ Release(t, l)

Spec == Init /\ [][Next]_owner
=============================================================================
