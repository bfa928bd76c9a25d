-------------------------- MODULE MCPhotoPipeline --------------------------
(***************************************************************************)
(* Model-checking instance of PhotoPipeline: the first two event ids stand *)
(* for photos of one step, every other id for photos of the next.          *)
(***************************************************************************)
EXTENDS PhotoPipeline, TLC

CONSTANTS e1, e2

MCStepOf(id) == IF id \in {e1, e2} THEN 0 ELSE 1
=============================================================================
