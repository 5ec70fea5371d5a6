---------------------------- MODULE SessionState ----------------------------
(***************************************************************************)
(* The session state machine of supervisor/session.py: the states, the     *)
(* legal transitions, and the two ways the daemon asks for one.            *)
(* `transition` raises when the step is illegal, `transition_quiet` leaves *)
(* the state alone; both treat a move to the current state as a no-op.     *)
(***************************************************************************)

SessionStates == {"CREATED", "STARTING", "RUNNING", "QUARANTINED",
                  "COMPLETED", "FAILED", "KILLED"}

TERMINAL_STATES == {"COMPLETED", "FAILED", "KILLED"}

ALLOWED_TRANSITIONS ==
  [s \in SessionStates |->
     CASE s = "CREATED"     -> {"STARTING", "FAILED"}
       [] s = "STARTING"    -> {"RUNNING", "FAILED", "KILLED"}
       [] s = "RUNNING"     -> {"QUARANTINED", "COMPLETED", "FAILED", "KILLED"}
       [] s = "QUARANTINED" -> {"COMPLETED", "FAILED", "KILLED"}
       [] OTHER             -> {}]

\* `transition` returns normally exactly in these cases, and raises otherwise.
Accepts(s, target) == s = target \/ target \in ALLOWED_TRANSITIONS[s]

\* The state after `transition_quiet(target)`.
Quiet(s, target) == IF Accepts(s, target) THEN target ELSE s
=============================================================================
