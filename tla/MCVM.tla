-------------------------------- MODULE MCVM --------------------------------
(* Instances of VM for TLC. *)
EXTENDS VM

CONSTANTS p1, p2

\* One program with a page of code, one of data and a stack that grows to two.
OneProgram == {p1} \X (1..4)
ItsCode == {<<p1, 1>>}
ItsImage == ItsCode \cup {<<p1, 2>>}

\* One program that only has a stack, which may grow by two pages at once.
ItsStack == {p1} \X (1..3)

\* Two programs: the stack of the first grows down to the address where the
\* second has its data.
TwoPrograms == {p1, p2} \X (1..2)
DataOfSecond == {<<p2, 1>>}
=============================================================================
