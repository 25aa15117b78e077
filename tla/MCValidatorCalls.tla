-------------------------- MODULE MCValidatorCalls --------------------------
(* Small instances of ValidatorCalls for TLC.                              *)
EXTENDS ValidatorCalls, TLC

CONSTANTS c1, c2

\* A call that signs, and one that reads.
SignerAndReader == [c \in Calls |-> IF c = c1 THEN {"across"} ELSE {"keys"}]
=============================================================================
