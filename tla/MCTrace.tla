------------------------------- MODULE MCTrace -------------------------------
(* Bounded instance of Trace. *)
EXTENDS Trace
=============================================================================
