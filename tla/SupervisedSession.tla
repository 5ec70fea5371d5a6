-------------------------- MODULE SupervisedSession --------------------------
(***************************************************************************)
(* What a supervised session promises, whatever its threads do: the state  *)
(* only moves along the legal transitions, a kill is never undone, a trace *)
(* is sealed only when the state is final and no workload it holds is      *)
(* running unless its survival is on record, and after an orderly shutdown *)
(* a sealed session never changes again.  A workload whose launch fails    *)
(* may be abandoned: then the session has failed or was killed, but        *)
(* nothing is promised of the workload or of what the trace says of it.    *)
(***************************************************************************)
EXTENDS SessionState

VARIABLES
  state,     \* the session state
  killed,    \* the kill switch is engaged
  workload,  \* "unborn", "running", "abandoned" or "gone"
  survivors, \* a failed termination is on record
  disorder,  \* the IPC writers did not stop in time
  sealed     \* the trace is sealed

svars == <<state, killed, workload, survivors, disorder, sealed>>

SInit ==
  /\ state = "CREATED" /\ killed = FALSE /\ workload = "unborn"
  /\ survivors = FALSE /\ disorder = FALSE /\ sealed = FALSE

Becomes(old, new) == old => new

WorkloadMoves ==
  \/ workload' = workload
  \/ workload = "unborn" /\ workload' = "running" /\ ~sealed
  \/ workload = "running" /\ workload' = "abandoned" /\ ~sealed
  \/ workload \in {"running", "abandoned"} /\ workload' = "gone"

\* The session goes on.  Only a session whose writers would not stop may
\* still do so after its seal.
Act ==
  /\ sealed => disorder
  /\ Accepts(state, state')
  /\ Becomes(killed, killed')
  /\ Becomes(survivors, survivors')
  /\ Becomes(disorder, disorder') /\ (sealed => disorder' = disorder)
  /\ WorkloadMoves
  /\ workload' = "abandoned" => state' \in {"FAILED", "KILLED"}
  /\ UNCHANGED sealed

\* A workload that survived, on record or abandoned, may exit at any later time.
Depart ==
  /\ workload \in {"running", "abandoned"} /\ workload' = "gone"
  /\ UNCHANGED <<state, killed, survivors, disorder, sealed>>

Seal ==
  /\ ~sealed /\ sealed' = TRUE
  /\ state \in TERMINAL_STATES
  /\ workload = "running" => survivors
  /\ state = "COMPLETED" => workload = "gone"
  /\ UNCHANGED <<state, killed, workload, survivors, disorder>>

SNext == Act \/ Depart \/ Seal

SSpec == SInit /\ [][SNext]_svars
=============================================================================
