------------------------------ MODULE MCBilling ------------------------------
(***************************************************************************)
(* Instances of Billing for TLC.                                           *)
(***************************************************************************)
EXTENDS BillingProps

CONSTANTS t1, t2, d1, q1, q2

ThreePlans == {t1, t2, d1}
TwoTagPlans == [i \in ThreePlans |-> IF i = d1 THEN "DATA" ELSE "TAG"]
OneRequest == {q1}
TwoRequests == {q1, q2}

Symmetry == Permutations(Request) \cup Permutations({t1, t2})
=============================================================================
