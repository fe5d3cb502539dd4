--------------------------- MODULE MCAccountState ---------------------------
(* Instances of AccountState for TLC.                                       *)
EXTENDS AccountState, TLC

CONSTANTS r1, r2, m1, m2

MCReqs == {r1, r2}
MCModels == {m1, m2}

\* One model has a stored list.
MCListed == {m1}

\* The requests are alike.
MCSymmetry == Permutations(MCReqs)
=============================================================================
