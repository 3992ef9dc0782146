------------------------------- MODULE MCOid --------------------------------
(* An instance of Oid for TLC. *)
EXTENDS Oid
=============================================================================
