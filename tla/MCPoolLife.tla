----------------------------- MODULE MCPoolLife -----------------------------
(* An instance of PoolLife for TLC: each process has one Pool object. *)
EXTENDS PoolLife

CONSTANTS p1, p2, p3, o1, o2, o3

MCOwner == [o \in {o1, o2, o3} |-> CASE o = o1 -> p1 [] o = o2 -> p2 [] o = o3 -> p3]
=============================================================================
