---------------------------- MODULE MCPublication ----------------------------
EXTENDS PublicationProps, TLC

\* Environments, revisions and requests are interchangeable.
Symmetry == Permutations(Env) \cup Permutations(Rev) \cup Permutations(Request)
=============================================================================
