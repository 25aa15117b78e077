-------------------------- MODULE MCNodeTransport --------------------------
(* Small instances of NodeTransport for TLC.                               *)
EXTENDS NodeTransport, TLC

CONSTANTS p1, p2, q, c1, c2, c3, c4

\* Calls are only compared, so they may be permuted.
Symmetry == Permutations(Calls)
=============================================================================
