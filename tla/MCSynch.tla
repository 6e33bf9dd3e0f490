------------------------------ MODULE MCSynch -------------------------------
(* Instances of Synch for TLC. *)
EXTENDS Synch, SequencesExt

CONSTANTS t1, t2, t3, l1, l2

Zero == [s \in Semas |-> 0]

NestingOrder == [l \in Locks |-> IF l = l1 THEN 1 ELSE 2]

\* Three threads of two priorities; the idle thread has PRI_DEFAULT.
TwoLevels == [t \in AllThreads |-> IF t = t3 THEN 2 ELSE 1]

\* Three threads of three priorities.
ThreeLevels ==
  [t \in AllThreads |-> IF t = t3 THEN 3 ELSE IF t = t2 THEN 2 ELSE 1]

UseAll == [t \in Threads |-> Semas \cup Locks]

UseChain ==
  [t \in Threads |-> IF t = t1 THEN {l1} ELSE IF t = t2 THEN {l1, l2} ELSE {l2}]

UseFork ==
  [t \in Threads |-> IF t = t1 THEN {l1, l2} ELSE IF t = t2 THEN {l1} ELSE {l2}]

LevelOrder == [l \in Locks |-> IF l = l1 THEN 2 ELSE 1]

NobodyReady == <<>>

ReadyAfterT3 == SetToSortSeq(Threads \ {t3}, LAMBDA a, b : a = t2)
=============================================================================
