------------------------------- MODULE MCPool -------------------------------
(* Instances of Pool for TLC. *)
EXTENDS PoolInv, PoolClaims

CONSTANTS a, b

\* a's record takes 4 units, b's 6, of which 1 is padding each.
MCPayload == [c \in {a, b} |-> IF c = a THEN 1 ELSE 3]

\* With a header of 4 units, a's record takes 4, b's 10: with a limit of 8, a
\* file that holds a is extended by the next session, and b is too large for
\* any file.
MCSmallPayload == [c \in {a, b} |-> IF c = a THEN 0 ELSE 5]
=============================================================================
