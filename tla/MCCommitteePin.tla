--------------------------- MODULE MCCommitteePin ---------------------------
(* Small instances of CommitteePin for TLC.                                *)
EXTENDS CommitteePin, TLC

CONSTANTS k1, k2, s1, s2

\* Keys and setups are only compared, so each may be permuted.
Symmetry == Permutations(Keys) \cup Permutations(Setups)
=============================================================================
