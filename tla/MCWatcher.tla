------------------------------ MODULE MCWatcher ------------------------------
(* Bounded instance of Watcher. *)
EXTENDS Watcher, TLC

CallerSymmetry == Permutations(Callers)
=============================================================================
