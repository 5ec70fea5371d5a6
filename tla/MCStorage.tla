----------------------------- MODULE MCStorage -----------------------------
(***************************************************************************)
(* Two runs under one session id, a power failure, a deletion; working     *)
(* directories above, at, below and beside the storage root.               *)
(***************************************************************************)
EXTENDS Storage

MCName == {"state", "work", "sessions", "id", "trace", "metadata"}
MCRoot == <<"state">>
MCCwds == {<<>>, MCRoot, MCRoot \o <<"sessions">>, <<"work">>}
=============================================================================
