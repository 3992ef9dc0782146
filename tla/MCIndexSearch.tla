--------------------------- MODULE MCIndexSearch ---------------------------
(* An instance of IndexSearch for TLC. *)
EXTENDS IndexSearch

\* First bytes 1 and 3 have two OIDs each, 0 has one, and 2 has none.
MCFirst == [k \in Oids |-> IF k = 0 THEN 0 ELSE IF k < 3 THEN 1 ELSE 3]
=============================================================================
