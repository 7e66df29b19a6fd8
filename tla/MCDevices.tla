------------------------------ MODULE MCDevices ------------------------------
(* Instances of Devices for TLC: the devices share one account.            *)
EXTENDS Devices, TLC

CONSTANTS a1, p1

MCPasswordLength == [p \in Passwords |-> 8]
MCEmails == {[addr |-> a1, form |-> {}]}

Symmetry ==
    Permutations(TokenIds) \cup Permutations(Requests) \cup Permutations(Clients)
=============================================================================
