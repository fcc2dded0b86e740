-------------------------- MODULE MCRequestExecution --------------------------
(***************************************************************************)
(* Instances of RequestExecution for TLC.  The capacity pays for one       *)
(* transient retry and a half, so that requests compete for tokens and one *)
(* finds the bucket empty; the elapsed limit lies before the deadline.     *)
(***************************************************************************)
EXTENDS RequestExecution
===============================================================================
