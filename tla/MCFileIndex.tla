---------------------------- MODULE MCFileIndex ----------------------------
(* An instance of FileIndex for TLC. *)
EXTENDS FileIndex

\* Two OIDs share a first byte, and the first byte of none is 0 or 3.
MCFirst == [k \in Oids |-> IF k < 3 THEN 1 ELSE 2]

\* A node of each kind.
MCSamples == {[offset |-> 0, kind |-> 7], [offset |-> 4, kind |-> 5]}
=============================================================================
