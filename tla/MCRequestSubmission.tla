------------------------ MODULE MCRequestSubmission ------------------------
(* Small instances of RequestSubmission for TLC.                           *)
EXTENDS RequestSubmission, TLC

CONSTANTS s1, s2, s3, c1, c2

\* Sessions and calls are only compared, so each may be permuted.
Symmetry == Permutations(Sessions) \cup Permutations(Calls)
=============================================================================
