------------------------------ MODULE MCChunk ------------------------------
(* Instances of Chunk for TLC. *)
EXTENDS Chunk

CONSTANTS short, even, long

\* Data that is too short to compress, data that does not shrink but fits,
\* and data that does shrink.
MCSize  == [d \in {short, even, long} |-> CASE d = short -> 1 [] d = even -> 3 [] d = long -> 5]
MCZSize == [d \in {short, even, long} |-> CASE d = short -> -1 [] d = even -> 3 [] d = long -> 2]
=============================================================================
