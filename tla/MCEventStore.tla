---------------------------- MODULE MCEventStore ----------------------------
(***************************************************************************)
(* Model-checking instance of EventStore: requests and client ids are      *)
(* interchangeable.                                                        *)
(***************************************************************************)
EXTENDS EventStore, TLC

Symmetry == Permutations(Reqs) \cup Permutations(EventIds)
=============================================================================
