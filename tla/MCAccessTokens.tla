--------------------------- MODULE MCAccessTokens ---------------------------
(* Instances of AccessTokens for TLC.                                      *)
EXTENDS AccessTokens, TLC

Symmetry == Permutations(Processes) \cup Permutations(Keys)
=============================================================================
