----------------------------- MODULE MCIpcServer -----------------------------
(* An instance of IpcServer for TLC: more clients than slots. *)
EXTENDS IpcServer

MCConns == 1 .. 3
=============================================================================
