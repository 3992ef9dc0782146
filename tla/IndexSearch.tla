---------------------------- MODULE IndexSearch ----------------------------
(***************************************************************************)
(* The loop of FileData::find in src/src/index.cc, one iteration at a      *)
(* time, over any vectors that a save can have written.                    *)
(***************************************************************************)
EXTENDS Integers, Sequences

CONSTANTS
  Oids,      \* the keys, as numbers
  Tops,      \* number of values of a byte (256)
  First,     \* First[k]: peek_first of OID k
  MaxHashes  \* bound: length of the vectors

ASSUME SearchAssumption ==
  /\ Oids \subseteq Nat
  /\ Tops \in Nat \ {0}
  /\ First \in [Oids -> 0 .. (Tops - 1)]
  /\ MaxHashes \in Nat

VARIABLES
  hashes, tops,  \* what was loaded
  key,           \* what is looked for
  low, high,     \* the bounds, as places counted from 0
  place,         \* where key was found, counted from 0
  status         \* "searching", "found" or "missing"

vars == <<hashes, tops, key, low, high, place, status>>

Statuses == {"searching", "found", "missing"}

\* What Saver leaves in a file: hashes in order, some perhaps there twice, and
\* tops[b] the number of those whose first byte is below b.
Vectors == UNION {[1 .. n -> Oids] : n \in 0 .. MaxHashes}
Sorted(h) == \A i, j \in DOMAIN h : i <= j => h[i] <= h[j]
Divides(t, h) == \A b \in 1 .. Tops, i \in DOMAIN h : i <= t[b] <=> First[h[i]] < b

Init ==
  /\ hashes \in {h \in Vectors : Sorted(h)}
  /\ tops \in {t \in [1 .. Tops -> 0 .. Len(hashes)] : Divides(t, hashes)}
  /\ key \in Oids
  /\ low = IF First[key] > 0 THEN tops[First[key]] ELSE 0
  /\ high = tops[First[key] + 1] - 1
  /\ place = -1
  /\ status = "searching"

mid == low + ((high - low) \div 2)

Left ==
  /\ status = "searching" /\ high >= low
  /\ key < hashes[mid + 1]
  /\ high' = mid - 1
  /\ UNCHANGED <<hashes, tops, key, low, place, status>>

\* Fault: the bound does not move past the place that was compared.
RightInPlace ==
  /\ status = "searching" /\ high >= low
  /\ key > hashes[mid + 1]
  /\ low' = mid
  /\ UNCHANGED <<hashes, tops, key, high, place, status>>

\* Fault: the bound skips a place that was not compared.
RightTooFar ==
  /\ status = "searching" /\ high >= low
  /\ key > hashes[mid + 1]
  /\ low' = mid + 2
  /\ UNCHANGED <<hashes, tops, key, high, place, status>>

Right ==
  /\ status = "searching" /\ high >= low
  /\ key > hashes[mid + 1]
  /\ low' = mid + 1
  /\ UNCHANGED <<hashes, tops, key, high, place, status>>

Match ==
  /\ status = "searching" /\ high >= low
  /\ key = hashes[mid + 1]
  /\ place' = mid
  /\ status' = "found"
  /\ UNCHANGED <<hashes, tops, key, low, high>>

\* Fault: the loop ends when one place is left.
MissEarly ==
  /\ status = "searching" /\ high <= low
  /\ status' = "missing"
  /\ UNCHANGED <<hashes, tops, key, low, high, place>>

Miss ==
  /\ status = "searching" /\ high < low
  /\ status' = "missing"
  /\ UNCHANGED <<hashes, tops, key, low, high, place>>

Next == Left \/ Right \/ Match \/ Miss

Spec == Init /\ [][Next]_vars

\* The loop of one thread goes on until it ends.
FairSpec == Spec /\ WF_vars(Next)
-----------------------------------------------------------------------------
(* Properties *)

\* The answer is right: a place where the key is, or none when it is at none.
Correct ==
  /\ status = "found" => place + 1 \in DOMAIN hashes /\ hashes[place + 1] = key
  /\ status = "missing" => \A i \in DOMAIN hashes : hashes[i] # key

\* No iteration reads outside the vector, and the signed bounds stay close to
\* it: high may become -1.
InBounds ==
  /\ low \in 0 .. Len(hashes) /\ high \in -1 .. (Len(hashes) - 1)
  /\ status = "searching" /\ high >= low => mid + 1 \in DOMAIN hashes

\* The loop ends.
Terminates == <>(status # "searching")

\* That is because every iteration that goes on narrows the bounds.
Narrows == [][status' = "searching" => high' - low' < high - low]_vars

\* The key can only be between the bounds: the invariant of the loop.
Bracket ==
  \A i \in DOMAIN hashes : hashes[i] = key => low < i /\ i <= high + 1
=============================================================================
