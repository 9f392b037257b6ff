------------------------------- MODULE MCRfs -------------------------------
(***************************************************************************)
(* Three calls and one restart, of one side or the other: enough for a     *)
(* call given up, its answer taken by the next call and the one after      *)
(* that, for a request cut in two whose rest is taken from the next        *)
(* request, and for a response whose end is lost.  Reads fail or not.      *)
(***************************************************************************)
EXTENDS Rfs
=============================================================================
