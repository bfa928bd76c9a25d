-------------------------- MODULE MCAgentProvision --------------------------
(***************************************************************************)
(* Model-checking instance of AgentProvision: the manifest lists one tool, *)
(* two with a repetition, one that is unknown, or none.                    *)
(***************************************************************************)
EXTENDS AgentProvision, TLC

MCManifests == {<<"a">>, <<"b", "a", "b">>, <<"x">>, <<>>}

Symmetry == Permutations(Runs)
=============================================================================
