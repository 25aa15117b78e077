---------------------------- MODULE MCMultisig ----------------------------
(* Small instances of Multisig for TLC.                                    *)
EXTENDS Multisig, TLC

CONSTANTS d1, d2, u1, u2, u3

\* DWallets and users are only compared, so each may be permuted.
Symmetry == Permutations(DWallets) \cup Permutations(Users)
=============================================================================
