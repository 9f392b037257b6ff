----------------------------- MODULE MCIntQueue -----------------------------
(* Instances of IntQueue for TLC. *)
EXTENDS IntQueue
=============================================================================
