------------------------- MODULE IndexSearchProofs -------------------------
(* The bisection is right for vectors of any length. *)
EXTENDS IndexSearch, TLAPS

\* The inductive invariant: the types, the bounds, the bracket around the key,
\* and the answer.
TypeInv ==
  /\ Len(hashes) \in Nat /\ DOMAIN hashes = 1 .. Len(hashes)
  /\ \A i \in DOMAIN hashes : hashes[i] \in Oids
  /\ Sorted(hashes)
  /\ key \in Oids
  /\ low \in 0 .. Len(hashes)
  /\ high \in -1 .. (Len(hashes) - 1)
  /\ place \in Int
  /\ status \in Statuses

IInv == TypeInv /\ Bracket /\ Correct

\* A place between the bounds, and no further from either than their distance.
LEMMA MidBetween ==
  ASSUME NEW l \in Int, NEW h \in Int, h >= l
  PROVE  LET m == l + ((h - l) \div 2) IN m \in Int /\ l <= m /\ m <= h
OBVIOUS

LEMMA InitInv == Init => IInv
<1> SUFFICES ASSUME Init PROVE IInv
  OBVIOUS
<1> USE SearchAssumption
<1>1. PICK n \in 0 .. MaxHashes : hashes \in [1 .. n -> Oids]
  BY DEF Init, Vectors
<1>2. Len(hashes) = n /\ DOMAIN hashes = 1 .. Len(hashes) /\ n \in Nat
  BY <1>1
<1>3. /\ First[key] \in 0 .. (Tops - 1)
      /\ tops \in [1 .. Tops -> 0 .. Len(hashes)] /\ Divides(tops, hashes)
  BY DEF Init
<1>4. /\ First[key] + 1 \in 1 .. Tops
      /\ First[key] > 0 => First[key] \in 1 .. Tops
  BY <1>3
<1>5. TypeInv
  <2>1. low \in 0 .. Len(hashes)
    BY <1>2, <1>3, <1>4 DEF Init
  <2>2. high \in -1 .. (Len(hashes) - 1)
    BY <1>2, <1>3, <1>4 DEF Init
  <2> QED BY <1>1, <1>2, <2>1, <2>2 DEF Init, TypeInv, Statuses
<1>6. Bracket
  <2> SUFFICES ASSUME NEW i \in DOMAIN hashes, hashes[i] = key
               PROVE  low < i /\ i <= high + 1
    BY DEF Bracket
  <2>1. i <= tops[First[key] + 1]
    BY <1>3, <1>4 DEF Divides
  <2>2. ASSUME First[key] > 0 PROVE tops[First[key]] < i
    <3>1. ~(i <= tops[First[key]])
      BY <1>3, <1>4, <2>2 DEF Divides
    <3> QED BY <1>2, <1>3, <1>4, <2>2, <3>1
  <2> QED BY <1>2, <1>3, <1>4, <2>1, <2>2 DEF Init
<1>7. Correct
  BY DEF Init, Correct
<1> QED BY <1>5, <1>6, <1>7 DEF IInv

LEMMA NextInv == IInv /\ [Next]_vars => IInv'
<1> SUFFICES ASSUME IInv, [Next]_vars PROVE IInv'
  OBVIOUS
<1> USE SearchAssumption
<1>1. ASSUME high >= low
      PROVE  mid \in Int /\ low <= mid /\ mid <= high /\ mid + 1 \in DOMAIN hashes
  BY <1>1, MidBetween DEF IInv, TypeInv, mid
<1>2. \A i, j \in DOMAIN hashes : i <= j => hashes[i] <= hashes[j]
  BY DEF IInv, TypeInv, Sorted
<1>3. /\ \A i \in DOMAIN hashes : i \in Nat
      /\ \A i \in DOMAIN hashes : hashes[i] \in Nat
  <2>1. \A i \in DOMAIN hashes : i \in Nat
    <3>1. DOMAIN hashes = 1 .. Len(hashes) /\ Len(hashes) \in Nat
      BY DEF IInv, TypeInv
    <3> QED BY <3>1
  <2>2. \A i \in DOMAIN hashes : hashes[i] \in Nat
    BY DEF IInv, TypeInv
  <2> QED BY <2>1, <2>2
<1>4. CASE Left
  <2>1. \A i \in DOMAIN hashes : hashes[i] = key => i < mid + 1
    BY <1>1, <1>2, <1>3, <1>4 DEF Left, IInv, TypeInv
  <2>2. Bracket'
    BY <1>1, <1>3, <1>4, <2>1 DEF Left, IInv, TypeInv, Bracket
  <2>3. TypeInv'
    BY <1>1, <1>4 DEF Left, IInv, TypeInv, Sorted
  <2> QED BY <1>4, <2>2, <2>3 DEF Left, IInv, Correct
<1>5. CASE Right
  <2>1. \A i \in DOMAIN hashes : hashes[i] = key => mid + 1 < i
    BY <1>1, <1>2, <1>3, <1>5 DEF Right, IInv, TypeInv
  <2>2. Bracket'
    BY <1>1, <1>3, <1>5, <2>1 DEF Right, IInv, TypeInv, Bracket
  <2>3. TypeInv'
    BY <1>1, <1>5 DEF Right, IInv, TypeInv, Sorted
  <2> QED BY <1>5, <2>2, <2>3 DEF Right, IInv, Correct
<1>6. CASE Match
  <2>1. TypeInv' /\ Bracket'
    BY <1>1, <1>6 DEF Match, IInv, TypeInv, Sorted, Statuses, Bracket
  <2>2. Correct'
    BY <1>1, <1>6 DEF Match, Correct
  <2> QED BY <2>1, <2>2 DEF IInv
<1>7. CASE Miss
  <2>1. TypeInv' /\ Bracket'
    BY <1>7 DEF Miss, IInv, TypeInv, Sorted, Statuses, Bracket
  <2>2. Correct'
    BY <1>3, <1>7 DEF Miss, IInv, TypeInv, Bracket, Correct
  <2> QED BY <2>1, <2>2 DEF IInv
<1>8. CASE UNCHANGED vars
  BY <1>8 DEF vars, IInv, TypeInv, Sorted, Bracket, Correct
<1> QED BY <1>4, <1>5, <1>6, <1>7, <1>8 DEF Next

\* FileData::find answers right for every index file that a save can have
\* written: it finds a key that is there, and no other.
THEOREM SearchIsCorrect == Spec => []Correct
<1>1. IInv => Correct
  BY DEF IInv
<1> QED BY <1>1, InitInv, NextInv, PTL DEF Spec

\* It compares the key with hashes of the vector only.
THEOREM SearchStaysInside == Spec => []InBounds
<1>1. IInv => InBounds
  BY MidBetween DEF IInv, TypeInv, InBounds, mid
<1> QED BY <1>1, InitInv, NextInv, PTL DEF Spec

\* An iteration that goes on leaves fewer places between the bounds: this is
\* why the loop ends.
THEOREM SearchNarrows == Spec => Narrows
<1>1. IInv /\ [Next]_vars => [status' = "searching" => high' - low' < high - low]_vars
  <2> SUFFICES ASSUME IInv, Next, status' = "searching"
               PROVE  high' - low' < high - low
    OBVIOUS
  <2>1. ASSUME high >= low PROVE mid \in Int /\ low <= mid /\ mid <= high
    BY <2>1, MidBetween DEF IInv, TypeInv, mid
  <2>2. low \in Int /\ high \in Int
    BY DEF IInv, TypeInv
  <2> QED BY <2>1, <2>2 DEF Next, Left, Right, Match, Miss
<1> QED BY <1>1, InitInv, NextInv, PTL DEF Spec, Narrows
=============================================================================
