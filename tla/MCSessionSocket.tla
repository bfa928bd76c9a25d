-------------------------- MODULE MCSessionSocket --------------------------
(* Model-checking instance of SessionSocket. *)
EXTENDS SessionSocket, TLC
=============================================================================
