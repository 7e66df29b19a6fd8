------------------------------ MODULE MCHttpApi ------------------------------
(* An instance of HttpApi for TLC.                                         *)
EXTENDS HttpApi, TLC

CONSTANTS a1, p1

MCPasswordLength == [p \in Passwords |-> 8]
MCEmails == {[addr |-> a1, form |-> {}]}

Symmetry ==
    Permutations(TokenIds) \cup Permutations(Requests)
=============================================================================
