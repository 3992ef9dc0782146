---------------------------- MODULE MCPoolFaults ----------------------------
(* Instances of PoolFaults for TLC. *)
EXTENDS PoolFaults, TLC

Perms == Permutations(Chunks)
=============================================================================
