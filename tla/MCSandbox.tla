----------------------------- MODULE MCSandbox -----------------------------
(* Model checking of Sandbox: one unit, a few pids, every process counted. *)
EXTENDS Sandbox

\* A fork stays in the unit's namespaces, or enters a PID and a user namespace
\* of its own, which the namespace layers of the scan cannot see.
MCNestings == {<<"unit", "unit">>, <<"nested", "nested">>}
=============================================================================
