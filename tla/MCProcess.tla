------------------------------ MODULE MCProcess -----------------------------
(* A running process and the processes it and its children may start. *)
EXTENDS Process, TLC
=============================================================================
