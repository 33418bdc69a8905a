---------------------------- MODULE MCProcessExec ----------------------------
(* Few slots and PIDs; the addresses are the program's, in units of 64KB. *)
EXTENDS ProcessExec
=============================================================================
