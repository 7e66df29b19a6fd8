---------------------------- MODULE MCAuthService ----------------------------
(* Instances of AuthService for TLC.                                       *)
EXTENDS AuthService, TLC

CONSTANTS a1, a2, p1, p2

(* p1 is as short as the policy allows and p2 one byte shorter: p2 cannot  *)
(* be registered and is a wrong password at Login.                         *)
MCPasswordLength == [p \in Passwords |-> IF p = p1 THEN 8 ELSE 7]

(* One mailbox, spelled plainly.                                           *)
MCOneEmail == {[addr |-> a1, form |-> {}]}

(* Every mailbox plain, mixed-case and padded, and with a display name,    *)
(* which makes the string invalid.                                         *)
MCSpellings ==
    [addr : Addresses, form : {{}, {"cased", "padded"}, {"named"}}]

Symmetry ==
    Permutations(TokenIds) \cup Permutations(Requests)
        \cup Permutations(UserIds) \cup Permutations(Addresses)
=============================================================================
