--------------------------- MODULE MCAuthTokens ----------------------------
(* Model-checking instance of AuthTokens. *)
EXTENDS AuthTokens, TLC

Symmetric == Permutations(Apps) \cup Permutations(Calls)
=============================================================================
