---------------------------- MODULE MCMembership ----------------------------
(***************************************************************************)
(* Instances of Membership for TLC.                                        *)
(***************************************************************************)
EXTENDS MembershipProps

CONSTANTS e1, e2, q1, q2

TwoEmails == {e1, e2}
TwoRequests == {q1, q2}

Symmetry == Permutations(Email) \cup Permutations(Request)
=============================================================================
