-------------------------- MODULE MCCredentialsCache --------------------------
(***************************************************************************)
(* Instances of CredentialsCache for TLC: a refresh window shorter and     *)
(* longer than the lifetimes, and one fetch for every call.                *)
(***************************************************************************)
EXTENDS CredentialsCache
===============================================================================
