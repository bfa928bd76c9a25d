---------------------------- MODULE MCSessionFlow ----------------------------
(***************************************************************************)
(* Model-checking instance of SessionFlow: requests and client ids are     *)
(* interchangeable; the sets of steps are given as definitions.            *)
(***************************************************************************)
EXTENDS SessionFlow, TLC

Symmetry == Permutations(Reqs) \cup Permutations(EventIds)
=============================================================================
