--------------------------- MODULE MCAccountStore ---------------------------
(* Instances of AccountStore for TLC.                                      *)
EXTENDS AccountStore, TLC

CONSTANTS ann, ben, r1, r2

MCNames    == {ann, ben}
MCRequests == {r1, r2}
MCSymmetry == Permutations(Names) \cup Permutations(Requests)
=============================================================================
