---------------------------- MODULE MCMemoryStore ----------------------------
(* An instance of MemoryStore for TLC.                                     *)
EXTENDS MemoryStore, TLC

MCPasswordLength == [p \in Passwords |-> minPasswordLength]

Symmetry == Permutations(UserIds) \cup Permutations(TokenIds)
=============================================================================
