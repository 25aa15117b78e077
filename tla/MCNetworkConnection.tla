------------------------ MODULE MCNetworkConnection ------------------------
(* A small instance of NetworkConnection for TLC.                          *)
EXTENDS NetworkConnection

CONSTANTS c1, c2
=============================================================================
