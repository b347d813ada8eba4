---------------------------- MODULE MCRevisions ----------------------------
(***************************************************************************)
(* Instances of Revisions for TLC.                                         *)
(***************************************************************************)
EXTENDS RevisionsProps

CONSTANTS r1, r2, m1, m2, m3, m4, q1, q2, q3

TwoRevisions == {r1, r2}
FourModels == {m1, m2, m3, m4}
SeededOne == {m1}
ThreeRequests == {q1, q2, q3}
BothKinds == {"Trigger", "AGD"}
ZeroOne == {0, 1}

Symmetry == Permutations(Model \ Seeded) \cup Permutations(Request)
=============================================================================
