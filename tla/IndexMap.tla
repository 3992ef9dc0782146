------------------------------ MODULE IndexMap ------------------------------
(***************************************************************************)
(* What the FileIndex of src/src/index.hh promises: a map from OIDs to     *)
(* nodes, in two parts, that can be saved under a size and loaded again    *)
(* by who knows that size.  FileIndex implements it with sorted vectors.   *)
(***************************************************************************)
CONSTANTS
  Oids,     \* the keys
  Samples,  \* the nodes that are inserted
  Sizes,    \* the data file sizes a save or a load may name
  Absent    \* not a node

VARIABLES
  new,     \* what was inserted since the last load
  old,     \* what was loaded
  saved,   \* the index file: its map, its size, and whether it is complete
  broken   \* a load failed half way, and the index must be dropped

vars == <<new, old, saved, broken>>

Nothing == [k \in Oids |-> Absent]
NoFile  == [map |-> Nothing, size |-> Absent, whole |-> TRUE]

Overlay == [k \in Oids |-> IF new[k] # Absent THEN new[k] ELSE old[k]]

Init == new = Nothing /\ old = Nothing /\ saved = NoFile /\ broken = FALSE

\* A node inserted twice keeps its first value, one that was loaded is hidden.
Insert(k, n) ==
  /\ ~broken
  /\ new' = [new EXCEPT ![k] = IF @ = Absent THEN n ELSE @]
  /\ UNCHANGED <<old, saved, broken>>

Save(size) ==
  /\ ~broken
  /\ \E whole \in BOOLEAN :
       saved' = [map |-> Overlay, size |-> size, whole |-> whole]
  /\ UNCHANGED <<new, old, broken>>

Load(size) ==
  /\ ~broken
  /\ saved.size = size /\ saved.whole
  /\ old' = saved.map
  /\ new' = Nothing
  /\ UNCHANGED <<saved, broken>>

\* A refused load forgets what was inserted, and keeps what was loaded.
LoadRefused(size) ==
  /\ ~broken
  /\ saved.size # size \/ ~saved.whole
  /\ new' = Nothing
  /\ UNCHANGED <<old, saved, broken>>

LoadFails(size) ==
  /\ ~broken
  /\ saved.size = size /\ ~saved.whole
  /\ new' = Nothing /\ old' = Nothing
  /\ broken' = TRUE
  /\ UNCHANGED saved

\* Another FileIndex, of this process or of a later one.
Renew ==
  /\ new' = Nothing /\ old' = Nothing
  /\ broken' = FALSE
  /\ UNCHANGED saved

Next ==
  \/ \E k \in Oids, n \in Samples : Insert(k, n)
  \/ \E size \in Sizes : Save(size) \/ Load(size) \/ LoadRefused(size) \/ LoadFails(size)
  \/ Renew

Spec == Init /\ [][Next]_vars
=============================================================================
