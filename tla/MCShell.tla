------------------------------- MODULE MCShell ------------------------------
(* A few children and a job list that can be full. *)
EXTENDS Shell, TLC
=============================================================================
