-------------------------- MODULE MCManagedMultipart --------------------------
(***************************************************************************)
(* Instances of ManagedMultipart for TLC.  Three parts with two in flight  *)
(* make the scheduler refill, finish parts out of order and quiesce with a *)
(* part still unscheduled; two attempts leave a late copy of every request.*)
(***************************************************************************)
EXTENDS ManagedMultipart
===============================================================================
