------------------------------ MODULE MCDaemon ------------------------------
(* Instances of Daemon for TLC. *)
EXTENDS Daemon, TLC

\* Connections are interchangeable; only used where no liveness is checked.
Connections == Permutations(Workers)
=============================================================================
