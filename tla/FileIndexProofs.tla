--------------------------- MODULE FileIndexProofs ---------------------------
(***************************************************************************)
(* Proofs about FileIndex: what is saved belongs together, the bisection   *)
(* finds what is there, and the vectors are the two-part map of IndexMap.  *)
(* The recursive definitions are shown to be defined before they are used. *)
(***************************************************************************)
EXTENDS FileIndex, FiniteSetTheorems, WellFoundedInduction, TLAPS

-----------------------------------------------------------------------------
(* Recursive functions *)

\* Every set of natural numbers with an element has a least one.
LEMMA LeastExists ==
  ASSUME NEW T, T \subseteq Nat, T # {}
  PROVE  \E x \in T : \A y \in T : x <= y
<1>1. PICK x \in T : \A y \in T : ~ (<<y, x>> \in OpToRel(<, Nat))
  BY WFMin, NatLessThanWellFounded
<1>2. \A y \in T : ~ (y < x)
  BY <1>1 DEF OpToRel
<1> QED
  BY <1>2

\* Whether a definition by recursion is grounded: F maps a function to what the
\* right side of the definition makes of it, and the values used at a point are
\* those of points of lesser rank.
Grounded(D, R, rank, F) ==
  /\ R # {} /\ F \in [[D -> R] -> [D -> R]]
  /\ \E N \in Nat : rank \in [D -> 0 .. N]
  /\ \A g, h \in [D -> R], p \in D :
       (\A q \in D : rank[q] < rank[p] => g[q] = h[q]) => F[g][p] = F[h][p]

\* Then it has a solution.
LEMMA RecursionIsDefined ==
  ASSUME NEW D, NEW R, NEW rank, NEW F, Grounded(D, R, rank, F)
  PROVE  \E g \in [D -> R] : F[g] = g
<1>0. /\ R # {} /\ F \in [[D -> R] -> [D -> R]]
      /\ \A g, h \in [D -> R], p \in D :
           (\A q \in D : rank[q] < rank[p] => g[q] = h[q]) => F[g][p] = F[h][p]
  BY DEF Grounded
<1>00. PICK N \in Nat : rank \in [D -> 0 .. N]
  BY DEF Grounded
<1> USE <1>0, <1>00
<1> DEFINE Good(n) == {g \in [D -> R] : \A p \in D : rank[p] < n => F[g][p] = g[p]}
           T == {n \in Nat : Good(n) = {}}
<1>1. T = {}
  <2> SUFFICES ASSUME T # {} PROVE FALSE
    OBVIOUS
  <2>1. PICK n \in T : \A y \in T : n <= y
    BY LeastExists
  <2>2. PICK r \in R : TRUE
    OBVIOUS
  <2>3. n # 0
    <3>1. [p \in D |-> r] \in Good(0)
      OBVIOUS
    <3> QED
      BY <3>1
  <2>4. n - 1 \in Nat /\ n - 1 \notin T
    BY <2>1, <2>3
  <2>5. PICK g \in Good(n - 1) : TRUE
    BY <2>4
  <2> DEFINE h == F[g]
  <2>6. g \in [D -> R] /\ h \in [D -> R]
    BY <2>5
  <2>7. ASSUME NEW p \in D, rank[p] < n PROVE F[h][p] = h[p]
    <3>1. ASSUME NEW q \in D, rank[q] < rank[p] PROVE g[q] = h[q]
      <4>1. rank[q] < n - 1
        BY <2>7, <3>1
      <4> QED
        BY <4>1, <2>5
    <3> HIDE DEF h
    <3>2. F[g][p] = F[h][p]
      BY <2>6, <3>1
    <3> QED
      BY <3>2 DEF h
  <2>8. h \in Good(n)
    BY <2>6, <2>7
  <2> QED
    BY <2>8
<1>2. PICK g \in Good(N + 1) : TRUE
  <2>1. N + 1 \in Nat
    OBVIOUS
  <2>2. N + 1 \notin T
    BY <1>1
  <2> QED
    BY <2>1, <2>2
<1>3. \A p \in D : F[g][p] = g[p]
  BY <1>2
<1>4. F[g] \in [D -> R] /\ g \in [D -> R]
  BY <1>2
<1> HIDE DEF Good
<1>5. F[g] = g
  BY <1>3, <1>4
<1> QED
  BY <1>4, <1>5
-----------------------------------------------------------------------------
(* Sorting *)

\* The elements of a set, as a sequence.
LEMMA SetToSeqFacts ==
  ASSUME NEW S, IsFiniteSet(S)
  PROVE  /\ Cardinality(S) \in Nat
         /\ SetToSeq(S) \in [1 .. Cardinality(S) -> S]
         /\ Range(SetToSeq(S)) = S
<1> DEFINE n == Cardinality(S)
<1>1. n \in Nat /\ ExistsBijection(1 .. n, S)
  BY FS_CardinalityType
<1>2. PICK f \in [1 .. n -> S] : IsInjective(f)
  BY <1>1 DEF ExistsBijection, Bijection, Injection
<1> DEFINE g == SetToSeq(S)
<1>3. g \in [1 .. n -> S] /\ IsInjective(g)
  BY <1>2 DEF SetToSeq
<1> HIDE DEF g
<1>4. IsFiniteSet(1 .. n) /\ Cardinality(1 .. n) = n
  BY <1>1, FS_Interval
<1>5. g \in Injection(1 .. n, S)
  BY <1>3 DEF Injection
<1>6. g \in Surjection(1 .. n, S)
  BY <1>4, <1>5, FS_Injection
<1>7. Range(g) = S
  BY <1>6 DEF Surjection, Range
<1> QED
  BY <1>1, <1>3, <1>7 DEF g

\* A greater number has more places below it, and up to it.
LEMMA Counts ==
  ASSUME NEW s \in Seq(Nat), NEW k \in Nat
  PROVE  /\ Below(s, k) \in Nat /\ UpTo(s, k) \in Nat
         /\ UpTo(s, k) <= Len(s) /\ Below(s, k) <= UpTo(s, k)
         /\ k \in Range(s) => Below(s, k) < UpTo(s, k)
         /\ \A m \in Nat : k < m => UpTo(s, k) <= Below(s, m)
<1> DEFINE B(m) == {j \in DOMAIN s : s[j] < m}
           U(m) == {j \in DOMAIN s : s[j] <= m}
<1>1. /\ IsFiniteSet(DOMAIN s) /\ Cardinality(DOMAIN s) = Len(s) /\ Len(s) \in Nat
      /\ \A j \in DOMAIN s : s[j] \in Nat
  <2>1. DOMAIN s = 1 .. Len(s) /\ Len(s) \in Nat /\ \A j \in DOMAIN s : s[j] \in Nat
    OBVIOUS
  <2>2. IsFiniteSet(1 .. Len(s)) /\ Cardinality(1 .. Len(s)) = IF 1 > Len(s) THEN 0 ELSE Len(s) - 1 + 1
    BY <2>1, FS_Interval
  <2>3. Cardinality(1 .. Len(s)) = Len(s)
    BY <2>1, <2>2
  <2> QED
    BY <2>1, <2>2, <2>3
<1>2. \A m \in Nat : /\ IsFiniteSet(B(m)) /\ IsFiniteSet(U(m))
                     /\ Cardinality(B(m)) \in Nat /\ Cardinality(U(m)) \in Nat
                     /\ Cardinality(U(m)) <= Len(s)
  BY <1>1, FS_Subset, FS_CardinalityType
<1>3. Cardinality(B(k)) <= Cardinality(U(k))
  <2>1. B(k) \subseteq U(k)
    BY <1>1
  <2> QED
    BY <2>1, <1>2, FS_Subset
<1>4. k \in Range(s) => Cardinality(B(k)) < Cardinality(U(k))
  <2>1. B(k) \subseteq U(k)
    BY <1>1
  <2>2. k \in Range(s) => B(k) # U(k)
    BY <1>1 DEF Range
  <2>3. Cardinality(U(k)) = Cardinality(B(k)) => U(k) = B(k)
    BY <2>1, <1>2, FS_Subset
  <2>4. Cardinality(U(k)) \in Nat /\ Cardinality(B(k)) \in Nat
    BY <1>2
  <2> HIDE DEF B, U
  <2> QED
    BY <2>2, <2>3, <2>4, <1>3
<1>5. ASSUME NEW m \in Nat, k < m PROVE Cardinality(U(k)) <= Cardinality(B(m))
  <2>1. U(k) \subseteq B(m)
    BY <1>1, <1>5
  <2> QED
    BY <2>1, <1>2, FS_Subset
<1> QED
  BY <1>2, <1>3, <1>4, <1>5 DEF Below, UpTo

\* At each place of a sorted sequence is one number, and it is there.
LEMMA RankExists ==
  ASSUME NEW s \in Seq(Nat), NEW i \in DOMAIN s
  PROVE  \E k \in Range(s) : Below(s, k) < i /\ i <= UpTo(s, k)
<1> DEFINE T == {k \in Range(s) : i <= UpTo(s, k)}
<1>1. Range(s) \subseteq Nat /\ DOMAIN s = 1 .. Len(s) /\ Len(s) \in Nat /\ i \in Nat
      /\ 1 <= i /\ i <= Len(s)
  BY DEF Range
<1>2. T # {}
  \* The number with the most places up to it has all of them.
  <2> DEFINE G == {Len(s) - UpTo(s, k) : k \in Range(s)}
  <2>1. \A k \in Range(s) : UpTo(s, k) \in Nat /\ UpTo(s, k) <= Len(s) /\ Below(s, k) \in Nat
                            /\ Below(s, k) < UpTo(s, k)
    BY <1>1, Counts
  <2>2. G \subseteq Nat /\ G # {}
    <3>1. s[i] \in Range(s)
      BY DEF Range
    <3> QED
      BY <3>1, <2>1, <1>1
  <2>3. PICK g \in G : \A y \in G : g <= y
    BY <2>2, LeastExists
  <2>4. PICK b \in Range(s) : g = Len(s) - UpTo(s, b)
    BY <2>3
  <2>5. \A k \in Range(s) : UpTo(s, k) <= UpTo(s, b)
    <3>1. \A k \in Range(s) : Len(s) - UpTo(s, b) <= Len(s) - UpTo(s, k)
      BY <2>3, <2>4
    <3> QED
      BY <3>1, <2>1, <1>1
  <2>6. \A j \in DOMAIN s : s[j] <= b
    <3> SUFFICES ASSUME NEW j \in DOMAIN s, b < s[j] PROVE FALSE
      BY <1>1, <2>4 DEF Range
    <3>1. s[j] \in Range(s) /\ s[j] \in Nat /\ b \in Nat
      BY <1>1, <2>4 DEF Range
    <3>2. UpTo(s, b) <= Below(s, s[j])
      BY <3>1, Counts
    <3> QED
      BY <3>1, <3>2, <2>1, <2>4, <2>5
  <2>7. UpTo(s, b) = Len(s)
    <3>1. {j \in DOMAIN s : s[j] <= b} = 1 .. Len(s)
      BY <2>6, <1>1
    <3>2. Cardinality(1 .. Len(s)) = IF 1 > Len(s) THEN 0 ELSE Len(s) - 1 + 1
      BY <1>1, FS_Interval
    <3>3. UpTo(s, b) = Cardinality(1 .. Len(s))
      BY <3>1, Zenon DEF UpTo
    <3> QED
      BY <3>2, <3>3, <1>1
  <2> QED
    BY <2>4, <2>7, <1>1
<1>3. PICK k \in T : \A y \in T : k <= y
  BY <1>1, <1>2, LeastExists
<1>4. Below(s, k) < i
  <2>0. k \in Nat /\ Below(s, k) \in Nat
    BY <1>1, <1>3, Counts
  <2> SUFFICES ASSUME i <= Below(s, k) PROVE FALSE
    BY <1>1, <2>0
  \* Then the greatest number below k is in T too.
  <2> DEFINE L == {j \in DOMAIN s : s[j] < k}
             H == {k - s[j] : j \in L}
  <2>1. L # {}
    <3>1. Below(s, k) = Cardinality(L)
      BY DEF Below
    <3>2. L = {} => Cardinality(L) = 0
      BY FS_EmptySet
    <3> QED
      BY <3>1, <3>2, <1>1
  <2>2. k \in Nat /\ \A j \in L : s[j] \in Nat /\ s[j] < k
    BY <1>1
  <2>3. H \subseteq Nat /\ H # {}
    BY <2>1, <2>2
  <2>4. PICK d \in H : \A y \in H : d <= y
    BY <2>3, LeastExists
  <2>5. PICK j \in L : d = k - s[j]
    BY <2>4
  <2>6. \A q \in L : s[q] <= s[j]
    <3>1. \A q \in L : k - s[j] <= k - s[q]
      BY <2>4, <2>5
    <3> QED
      BY <3>1, <2>2
  <2>7. L = {q \in DOMAIN s : s[q] <= s[j]}
    <3>1. \A q \in DOMAIN s : s[q] \in Nat
      OBVIOUS
    <3> QED
      BY <2>2, <2>6, <3>1
  <2>8. UpTo(s, s[j]) = Below(s, k)
    BY <2>7 DEF UpTo, Below
  <2>9. s[j] \in T
    BY <2>8 DEF Range
  <2> QED
    BY <2>2, <2>9, <1>3
<1> QED
  BY <1>3, <1>4

LEMMA AscendingFacts ==
  ASSUME NEW s \in Seq(Nat)
  PROVE  /\ Ascending(s) \in [1 .. Len(s) -> Range(s)]
         /\ Range(Ascending(s)) = Range(s)
         /\ \A i, j \in 1 .. Len(s) : i <= j => Ascending(s)[i] <= Ascending(s)[j]
<1> DEFINE t == Ascending(s)
<1>1. DOMAIN s = 1 .. Len(s) /\ Len(s) \in Nat /\ Range(s) \subseteq Nat
  BY DEF Range
<1>2. ASSUME NEW i \in 1 .. Len(s)
      PROVE  t[i] \in Range(s) /\ t[i] \in Nat /\ Below(s, t[i]) < i /\ i <= UpTo(s, t[i])
  <2>1. t[i] = CHOOSE k \in Range(s) : Below(s, k) < i /\ i <= UpTo(s, k)
    BY <1>1, <1>2 DEF Ascending
  <2> HIDE DEF t
  <2> QED
    BY <2>1, <1>1, RankExists
<1>3. t \in [1 .. Len(s) -> Range(s)]
  <2>1. t = [i \in 1 .. Len(s) |-> t[i]]
    BY <1>1 DEF Ascending
  <2> HIDE DEF t
  <2> QED
    BY <1>2, <2>1
<1> HIDE DEF t
<1>4. ASSUME NEW i \in 1 .. Len(s), NEW j \in 1 .. Len(s), i <= j PROVE t[i] <= t[j]
  <2> SUFFICES ASSUME t[j] < t[i] PROVE FALSE
    BY <1>2
  <2>1. UpTo(s, t[j]) <= Below(s, t[i]) /\ UpTo(s, t[j]) \in Nat /\ Below(s, t[i]) \in Nat
    BY <1>2, Counts
  <2> QED
    BY <1>1, <1>2, <1>4, <2>1
<1>5. ASSUME NEW k \in Range(s) PROVE k \in Range(t)
  <2> DEFINE i == Below(s, k) + 1
  <2>0. /\ k \in Nat /\ Below(s, k) \in Nat /\ UpTo(s, k) \in Nat /\ UpTo(s, k) <= Len(s)
        /\ Below(s, k) < UpTo(s, k)
    BY <1>1, <1>5, Counts
  <2>1. k \in Nat /\ i <= UpTo(s, k) /\ i \in 1 .. Len(s)
    BY <1>1, <2>0
  <2> HIDE DEF i
  <2>2. t[i] \in Nat /\ Below(s, t[i]) \in Nat /\ UpTo(s, t[i]) \in Nat
    BY <2>1, <1>2, Counts
  <2>3. ~(t[i] < k)
    <3>1. t[i] < k => UpTo(s, t[i]) <= Below(s, k)
      BY <2>1, <2>2, Counts
    <3> QED
      BY <3>1, <2>0, <2>1, <2>2, <1>2 DEF i
  <2>4. ~(k < t[i])
    <3>1. k < t[i] => UpTo(s, k) <= Below(s, t[i])
      BY <2>1, <2>2, Counts
    <3> QED
      BY <3>1, <2>0, <2>1, <2>2, <1>2
  <2>5. t[i] = k
    BY <2>1, <2>2, <2>3, <2>4
  <2> QED
    BY <2>1, <2>5, <1>3 DEF Range
<1>6. Range(t) = Range(s)
  BY <1>3, <1>5 DEF Range
<1> QED
  BY <1>3, <1>4, <1>6 DEF t
-----------------------------------------------------------------------------
(* tops *)

InOrder(keys) == \A i, j \in DOMAIN keys : i <= j => keys[i] <= keys[j]

\* How far compute_tops comes for one first byte.
Passed(keys, it, top) ==
  CHOOSE num \in it .. Len(keys) :
    /\ \A i \in (it + 1) .. num : First[keys[i]] <= top
    /\ num = Len(keys) \/ First[keys[num + 1]] > top

LEMMA PassedFacts ==
  ASSUME NEW keys \in Seq(Oids), NEW it \in 0 .. Len(keys), NEW top \in 0 .. (Tops - 1)
  PROVE  LET num == Passed(keys, it, top)
         IN  /\ num \in it .. Len(keys)
             /\ \A i \in (it + 1) .. num : First[keys[i]] <= top
             /\ num = Len(keys) \/ First[keys[num + 1]] > top
<1> DEFINE Stops(num) == num = Len(keys) \/ First[keys[num + 1]] > top
           T == {num \in it .. Len(keys) : Stops(num)}
<1>1. Len(keys) \in Nat /\ it \in Nat /\ top \in Nat /\ Len(keys) \in T
      /\ \A i \in 1 .. Len(keys) : First[keys[i]] \in Nat
  BY OidAssumption
<1>2. PICK num \in T : \A y \in T : num <= y
  <2>1. T \subseteq Nat /\ T # {}
    BY <1>1
  <2> QED
    BY <2>1, LeastExists
<1>3. ASSUME NEW i \in (it + 1) .. num PROVE First[keys[i]] <= top
  <2>1. i - 1 \in it .. Len(keys) /\ i - 1 < num /\ i \in 1 .. Len(keys) /\ i \in Int
    BY <1>1, <1>2
  <2>2. i - 1 \notin T
    <3>1. num \in Int /\ \A y \in T : num <= y
      BY <1>1, <1>2
    <3> HIDE DEF T
    <3> QED
      BY <2>1, <3>1
  <2>3. ~Stops(i - 1)
    BY <2>1, <2>2
  <2>4. ~(First[keys[(i - 1) + 1]] > top) /\ (i - 1) + 1 = i
    BY <2>1, <2>3
  <2> QED
    BY <2>1, <2>4, <1>1
<1>4. \E n \in it .. Len(keys) : /\ \A i \in (it + 1) .. n : First[keys[i]] <= top
                                 /\ n = Len(keys) \/ First[keys[n + 1]] > top
  BY <1>2, <1>3
<1> QED
  BY <1>4 DEF Passed

LEMMA TopsFacts ==
  ASSUME NEW keys \in Seq(Oids), InOrder(keys)
  PROVE  LET t == ComputeTops(keys)
         IN  /\ t \in [1 .. Tops -> 0 .. Len(keys)]
             /\ t[Tops] = Len(keys)
             /\ \A b \in 1 .. Tops, i \in DOMAIN keys : i <= t[b] <=> First[keys[i]] < b
<1> DEFINE D == 0 .. (Tops - 1)
           R == 0 .. Len(keys)
           past == CHOOSE f : f = [top \in D |->
                     Passed(keys, IF top = 0 THEN 0 ELSE f[top - 1], top)]
           Step(g) == [top \in D |-> Passed(keys, IF top = 0 THEN 0 ELSE g[top - 1], top)]
<1>1. ComputeTops(keys) = [i \in 1 .. Tops |-> past[i - 1]]
  BY DEF ComputeTops, Passed
<1>2. Len(keys) \in Nat /\ Tops \in Nat /\ Tops >= 1 /\ 0 \in R
  BY OidAssumption
<1>3. past = [top \in D |-> Passed(keys, IF top = 0 THEN 0 ELSE past[top - 1], top)]
  <2> DEFINE rank == [top \in D |-> top]
             F == [g \in [D -> R] |-> Step(g)]
  <2>1. rank \in [D -> 0 .. (Tops - 1)] /\ Tops - 1 \in Nat
    BY <1>2
  <2>2. ASSUME NEW g \in [D -> R] PROVE Step(g) \in [D -> R]
    <3>1. ASSUME NEW top \in D PROVE Passed(keys, IF top = 0 THEN 0 ELSE g[top - 1], top) \in R
      <4>1. top # 0 => top - 1 \in D
        BY <1>2
      <4> DEFINE it == IF top = 0 THEN 0 ELSE g[top - 1]
      <4>2. it \in R
        BY <1>2, <4>1
      <4> HIDE DEF it
      <4>3. Passed(keys, it, top) \in it .. Len(keys)
        BY <4>2, PassedFacts
      <4>4. Passed(keys, it, top) \in R
        BY <1>2, <4>2, <4>3
      <4> QED
        BY <4>4 DEF it
    <3> QED
      BY <3>1
  <2>3. F \in [[D -> R] -> [D -> R]]
    BY <2>2
  <2>4. ASSUME NEW g \in [D -> R], NEW h \in [D -> R], NEW top \in D,
               \A q \in D : rank[q] < rank[top] => g[q] = h[q]
        PROVE  Step(g)[top] = Step(h)[top]
    <3>1. top # 0 => top - 1 \in D /\ g[top - 1] = h[top - 1]
      BY <1>2, <2>4
    <3> QED
      BY <3>1
  <2>5. \A g, h \in [D -> R], p \in D :
           (\A q \in D : rank[q] < rank[p] => g[q] = h[q]) => F[g][p] = F[h][p]
    BY <2>4
  <2>6. R # {}
    BY <1>2
  <2>7. Grounded(D, R, rank, F)
    BY <2>1, <2>3, <2>5, <2>6 DEF Grounded
  <2> HIDE DEF F, rank, R, D
  <2>70. PICK g \in [D -> R] : F[g] = g
    BY <2>7, RecursionIsDefined
  <2>8. g = [top \in D |-> Passed(keys, IF top = 0 THEN 0 ELSE g[top - 1], top)]
    BY <2>70 DEF F
  <2> QED
    BY <2>8
<1> HIDE DEF past
<1> DEFINE Right(top) == /\ past[top] \in R
                         /\ \A i \in 1 .. Len(keys) : i <= past[top] <=> First[keys[i]] <= top
           Wrong == {top \in D : ~Right(top)}
<1>4. \A i \in 1 .. Len(keys) : First[keys[i]] \in D /\ First[keys[i]] \in Nat /\ keys[i] \in Oids
  BY OidAssumption
<1>5. ASSUME NEW top \in D, top = 0 \/ Right(top - 1) PROVE Right(top)
  <2> DEFINE it == IF top = 0 THEN 0 ELSE past[top - 1]
             num == past[top]
  <2>1. it \in R /\ \A i \in 1 .. Len(keys) : i <= it => First[keys[i]] <= top
    BY <1>2, <1>4, <1>5
  <2>2. num = Passed(keys, it, top)
    BY <1>3
  <2> HIDE DEF it, num
  <2>3. /\ num \in it .. Len(keys)
        /\ \A i \in (it + 1) .. num : First[keys[i]] <= top
        /\ num = Len(keys) \/ First[keys[num + 1]] > top
    BY <2>1, <2>2, PassedFacts
  <2>4. ASSUME NEW i \in 1 .. Len(keys), i <= num PROVE First[keys[i]] <= top
    <3>1. i <= it \/ i \in (it + 1) .. num
      BY <1>2, <2>1, <2>3, <2>4
    <3> QED
      BY <3>1, <2>1, <2>3
  <2>5. ASSUME NEW i \in 1 .. Len(keys), i > num PROVE First[keys[i]] > top
    <3>1. num + 1 \in 1 .. Len(keys) /\ num + 1 <= i /\ First[keys[num + 1]] > top
      BY <1>2, <2>1, <2>3, <2>5
    <3>2. keys[num + 1] <= keys[i]
      BY <3>1 DEF InOrder
    <3>3. First[keys[num + 1]] <= First[keys[i]]
      BY <3>1, <3>2, <1>4, OidAssumption
    <3> QED
      BY <3>1, <3>3, <1>4
  <2>6. num \in R
    BY <1>2, <2>1, <2>3
  <2>7. \A i \in 1 .. Len(keys) : i <= num <=> First[keys[i]] <= top
    BY <2>4, <2>5, <2>6, <1>2, <1>4
  <2> QED
    BY <2>6, <2>7 DEF num
<1>6. Wrong = {}
  <2> SUFFICES ASSUME Wrong # {} PROVE FALSE
    OBVIOUS
  <2>1. Wrong \subseteq Nat
    BY <1>2
  <2> HIDE DEF Right
  <2>2. PICK top \in Wrong : \A y \in Wrong : top <= y
    BY <2>1, LeastExists
  <2>3. top = 0 \/ (top - 1 \in D /\ top - 1 \notin Wrong)
    BY <1>2, <2>2
  <2>4. top \in D /\ (top = 0 \/ Right(top - 1))
    BY <2>3
  <2>5. Right(top)
    BY <2>4, <1>5
  <2> QED
    BY <2>5
<1>7. \A top \in D : Right(top)
  BY <1>6
<1> DEFINE t == ComputeTops(keys)
<1>8. \A b \in 1 .. Tops : b - 1 \in D /\ t[b] = past[b - 1]
  BY <1>1, <1>2
<1>9. \A b \in 1 .. Tops : t[b] \in R /\ \A i \in 1 .. Len(keys) : i <= t[b] <=> First[keys[i]] < b
  BY <1>2, <1>4, <1>7, <1>8
<1>10. t \in [1 .. Tops -> R]
  <2>1. t = [b \in 1 .. Tops |-> t[b]]
    BY <1>1
  <2> QED
    BY <2>1, <1>9
<1> HIDE DEF t
<1>11. t[Tops] = Len(keys)
  <2>1. Tops \in 1 .. Tops /\ t[Tops] \in R
    BY <1>2, <1>9
  <2>2. CASE Len(keys) = 0
    BY <2>1, <2>2
  <2>3. CASE Len(keys) # 0
    <3>1. Len(keys) \in 1 .. Len(keys) /\ First[keys[Len(keys)]] < Tops
      BY <1>2, <1>4, <2>3
    <3> QED
      BY <2>1, <3>1, <1>2, <1>9
  <2> QED
    BY <2>2, <2>3
<1> QED
  BY <1>9, <1>10, <1>11 DEF t
-----------------------------------------------------------------------------
(* The bisection *)

\* How far apart the bounds are.
Gap(b) == IF b[2] < b[1] THEN 0 ELSE b[2] - b[1] + 1

\* Each half is between the bounds, and shorter.
LEMMA MiddleFacts ==
  ASSUME NEW d, d.hashes \in Seq(Oids), NEW b \in Bounds(d), ~(b[2] < b[1])
  PROVE  /\ Middle(b) \in Int /\ b[1] <= Middle(b) /\ Middle(b) <= b[2]
         /\ Middle(b) + 1 \in 1 .. Len(d.hashes)
         /\ <<b[1], Middle(b) - 1>> \in Bounds(d) /\ Gap(<<b[1], Middle(b) - 1>>) < Gap(b)
         /\ <<Middle(b) + 1, b[2]>> \in Bounds(d) /\ Gap(<<Middle(b) + 1, b[2]>>) < Gap(b)
<1>1. /\ Len(d.hashes) \in Nat
      /\ b[1] \in Int /\ 0 <= b[1] /\ b[1] <= Len(d.hashes)
      /\ b[2] \in Int /\ -1 <= b[2] /\ b[2] <= Len(d.hashes) - 1
  BY DEF Bounds
<1> DEFINE low == b[1]
           high == b[2]
           mid == Middle(b)
<1>2. mid = low + ((high - low) \div 2)
  BY DEF Middle
<1>3. low \in Int /\ high \in Int /\ low <= high
  BY <1>1
<1> HIDE DEF low, high, mid
<1>4. mid \in Int /\ low <= mid /\ mid <= high
  BY <1>2, <1>3
<1>5. mid + 1 \in 1 .. Len(d.hashes)
  BY <1>1, <1>3, <1>4 DEF low, high
<1>6. <<low, mid - 1>> \in Bounds(d) /\ <<mid + 1, high>> \in Bounds(d)
  BY <1>1, <1>3, <1>4 DEF low, high, Bounds
<1>7. Gap(<<low, mid - 1>>) < high - low + 1 /\ Gap(<<mid + 1, high>>) < high - low + 1
  BY <1>3, <1>4 DEF Gap
<1>8. Gap(b) = high - low + 1
  BY <1>3 DEF Gap, low, high
<1> QED
  BY <1>4, <1>5, <1>6, <1>7, <1>8 DEF low, high, mid

\* What the bisection does with the bounds, when g is what it does with others.
Probe(d, k, g, b) ==
  IF b[2] < b[1] THEN 0
  ELSE IF k < d.hashes[Middle(b) + 1] THEN g[<<b[1], Middle(b) - 1>>]
  ELSE IF k > d.hashes[Middle(b) + 1] THEN g[<<Middle(b) + 1, b[2]>>]
  ELSE Middle(b) + 1

LEMMA BisectIsDefined ==
  ASSUME NEW d, d.hashes \in Seq(Oids), NEW k \in Oids
  PROVE  Bisect(d, k) = [b \in Bounds(d) |-> Probe(d, k, Bisect(d, k), b)]
<1> DEFINE D == Bounds(d)
           R == 0 .. Len(d.hashes)
           probe == CHOOSE f : f = [b \in D |-> Probe(d, k, f, b)]
           rank == [b \in D |-> Gap(b)]
           F == [g \in [D -> R] |-> [b \in D |-> Probe(d, k, g, b)]]
<1>1. Bisect(d, k) = probe
  BY DEF Bisect, Probe
<1>2. Len(d.hashes) \in Nat /\ 0 \in R
  OBVIOUS
<1>3. rank \in [D -> 0 .. Len(d.hashes)]
  BY <1>2 DEF Gap, Bounds
<1>4. ASSUME NEW g \in [D -> R], NEW b \in D PROVE Probe(d, k, g, b) \in R
  <2>1. CASE b[2] < b[1]
    BY <2>1, <1>2 DEF Probe
  <2>2. CASE ~(b[2] < b[1])
    <3>0. <<b[1], Middle(b) - 1>> \in D /\ <<Middle(b) + 1, b[2]>> \in D
          /\ Middle(b) + 1 \in 1 .. Len(d.hashes)
      BY <2>2, MiddleFacts
    <3>1. Middle(b) + 1 \in R
      BY <3>0, <1>2
    <3> HIDE DEF D, R
    <3> QED
      BY <2>2, <3>0, <3>1 DEF Probe
  <2> QED
    BY <2>1, <2>2
<1>5. F \in [[D -> R] -> [D -> R]]
  <2> HIDE DEF D, R
  <2> QED
    BY <1>4
<1>6. ASSUME NEW g \in [D -> R], NEW h \in [D -> R], NEW b \in D,
             \A q \in D : rank[q] < rank[b] => g[q] = h[q]
      PROVE  F[g][b] = F[h][b]
  <2>1. \A q \in D : Gap(q) < Gap(b) => g[q] = h[q]
    BY <1>6
  <2>2. Probe(d, k, g, b) = Probe(d, k, h, b)
    <3>1. CASE b[2] < b[1]
      BY <3>1 DEF Probe
    <3>2. CASE ~(b[2] < b[1])
      <4>1. /\ g[<<b[1], Middle(b) - 1>>] = h[<<b[1], Middle(b) - 1>>]
            /\ g[<<Middle(b) + 1, b[2]>>] = h[<<Middle(b) + 1, b[2]>>]
        BY <2>1, <3>2, MiddleFacts
      <4> QED
        BY <3>2, <4>1 DEF Probe
    <3> QED
      BY <3>1, <3>2
  <2> HIDE DEF D, R
  <2> QED
    BY <2>2
<1>7. Grounded(D, R, rank, F)
  <2> HIDE DEF D, R, F, rank
  <2>1. rank \in [D -> 0 .. Len(d.hashes)] /\ R # {}
    BY <1>2, <1>3
  <2> QED
    BY <2>1, <1>2, <1>5, <1>6 DEF Grounded
<1> HIDE DEF D, R, F, rank
<1>8. PICK g \in [D -> R] : F[g] = g
  BY <1>7, RecursionIsDefined
<1>9. g = [b \in D |-> Probe(d, k, g, b)]
  BY <1>8 DEF F
<1>10. probe = [b \in D |-> Probe(d, k, probe, b)]
  BY <1>9
<1> QED
  BY <1>1, <1>10 DEF D

\* k is between the bounds, if it is anywhere.
Brackets(d, k, b) == \A i \in DOMAIN d.hashes : d.hashes[i] = k => b[1] < i /\ i <= b[2] + 1

Finds(d, k, i) ==
  IF i = 0 THEN k \notin Range(d.hashes) ELSE i \in DOMAIN d.hashes /\ d.hashes[i] = k

LEMMA BisectFinds ==
  ASSUME NEW d, d.hashes \in Seq(Oids), InOrder(d.hashes), NEW k \in Oids
  PROVE  \A b \in Bounds(d) : Brackets(d, k, b) => Finds(d, k, Bisect(d, k)[b])
<1> DEFINE Right(b) == Brackets(d, k, b) => Finds(d, k, Bisect(d, k)[b])
           Wrong == {Gap(b) : b \in {x \in Bounds(d) : ~Right(x)}}
<1>1. /\ Len(d.hashes) \in Nat /\ DOMAIN d.hashes = 1 .. Len(d.hashes) /\ k \in Nat
      /\ \A i \in DOMAIN d.hashes : d.hashes[i] \in Nat
  <2>1. Oids \subseteq Nat
    BY OidAssumption
  <2>2. /\ Len(d.hashes) \in Nat /\ DOMAIN d.hashes = 1 .. Len(d.hashes)
        /\ \A i \in DOMAIN d.hashes : d.hashes[i] \in Oids
    OBVIOUS
  <2> QED
    BY <2>1, <2>2
<1>2. ASSUME NEW b \in Bounds(d), \A q \in Bounds(d) : Gap(q) < Gap(b) => Right(q)
      PROVE  Right(b)
  <2> SUFFICES ASSUME Brackets(d, k, b) PROVE Finds(d, k, Bisect(d, k)[b])
    OBVIOUS
  <2>1. Bisect(d, k)[b] = Probe(d, k, Bisect(d, k), b)
    BY BisectIsDefined
  <2>2. b[1] \in Int /\ b[2] \in Int
    BY DEF Bounds
  <2>3. CASE b[2] < b[1]
    <3>1. Bisect(d, k)[b] = 0
      BY <2>1, <2>3 DEF Probe
    <3>2. k \notin Range(d.hashes)
      BY <1>1, <2>2, <2>3 DEF Brackets, Range
    <3> QED
      BY <3>1, <3>2 DEF Finds
  <2>4. CASE ~(b[2] < b[1])
    <3> DEFINE m == Middle(b)
    <3>1. /\ m \in Int /\ m + 1 \in DOMAIN d.hashes
          /\ <<b[1], m - 1>> \in Bounds(d) /\ Gap(<<b[1], m - 1>>) < Gap(b)
          /\ <<m + 1, b[2]>> \in Bounds(d) /\ Gap(<<m + 1, b[2]>>) < Gap(b)
      BY <1>1, <2>4, MiddleFacts
    <3>2. d.hashes[m + 1] \in Nat
      BY <1>1, <3>1
    <3>3. CASE k < d.hashes[m + 1]
      <4>1. Bisect(d, k)[b] = Bisect(d, k)[<<b[1], m - 1>>]
        BY <2>1, <2>4, <3>3 DEF Probe
      <4>2. \A i \in DOMAIN d.hashes : d.hashes[i] = k => i < m + 1
        BY <1>1, <3>1, <3>2, <3>3 DEF InOrder
      <4>3. Brackets(d, k, <<b[1], m - 1>>)
        BY <1>1, <3>1, <4>2, <2>2 DEF Brackets
      <4> QED
        BY <1>2, <3>1, <4>1, <4>3
    <3>4. CASE k > d.hashes[m + 1]
      <4>1. Bisect(d, k)[b] = Bisect(d, k)[<<m + 1, b[2]>>]
        BY <1>1, <2>1, <2>4, <3>2, <3>4 DEF Probe
      <4>2. \A i \in DOMAIN d.hashes : d.hashes[i] = k => m + 1 < i
        BY <1>1, <3>1, <3>2, <3>4 DEF InOrder
      <4>3. Brackets(d, k, <<m + 1, b[2]>>)
        BY <1>1, <3>1, <4>2, <2>2 DEF Brackets
      <4> QED
        BY <1>2, <3>1, <4>1, <4>3
    <3>5. CASE k = d.hashes[m + 1]
      <4>1. Bisect(d, k)[b] = m + 1
        BY <1>1, <2>1, <2>4, <3>5 DEF Probe
      <4> QED
        BY <3>1, <3>5, <4>1, <1>1 DEF Finds
    <3> QED
      BY <1>1, <3>2, <3>3, <3>4, <3>5
  <2> QED
    BY <2>3, <2>4
<1> HIDE DEF Right
<1>3. Wrong = {}
  <2> SUFFICES ASSUME Wrong # {} PROVE FALSE
    OBVIOUS
  <2>1. \A b \in Bounds(d) : Gap(b) \in Nat
    BY <1>1 DEF Gap, Bounds
  <2>2. PICK x \in Wrong : \A y \in Wrong : x <= y
    BY <2>1, LeastExists
  <2>3. PICK b \in Bounds(d) : x = Gap(b) /\ ~Right(b)
    BY <2>2
  <2>4. ASSUME NEW q \in Bounds(d), Gap(q) < Gap(b), ~Right(q) PROVE FALSE
    <3>1. Gap(q) \in Wrong
      BY <2>4
    <3>2. Gap(b) <= Gap(q)
      BY <3>1, <2>2, <2>3
    <3> QED
      BY <3>2, <2>1, <2>4
  <2> QED
    BY <2>3, <2>4, <1>2
<1> QED
  BY <1>3 DEF Right
-----------------------------------------------------------------------------
(* Vectors that belong together *)

\* What Saver leaves in a file.
Agrees(d) ==
  /\ d \in FileData
  /\ d.tops \in [1 .. Tops -> 0 .. Len(d.hashes)] /\ d.tops[Tops] = Len(d.hashes)
  /\ Len(d.offsets) = Len(d.hashes) /\ Len(d.kinds) = Len(d.hashes)
  /\ \A i \in DOMAIN d.hashes : d.kinds[i] < Len(d.kind_map)
  /\ InOrder(d.hashes)
  /\ \A b \in 1 .. Tops, i \in DOMAIN d.hashes : i <= d.tops[b] <=> First[d.hashes[i]] < b

NodeAt(d, i) == [offset |-> d.offsets[i], kind |-> d.kind_map[d.kinds[i] + 1]]

\* The bounds that tops gives are those of the keys with the same first byte.
LEMMA SearchFinds ==
  ASSUME NEW d, Agrees(d), NEW k \in Oids
  PROVE  Finds(d, k, Search(d, k))
<1> DEFINE low == IF First[k] > 0 THEN d.tops[First[k]] ELSE 0
           high == d.tops[First[k] + 1] - 1
           n == Len(d.hashes)
<1>1. d.hashes \in Seq(Oids) /\ n \in Nat /\ DOMAIN d.hashes = 1 .. n
  BY DEF Agrees, FileData
<1>2. First[k] \in 0 .. (Tops - 1) /\ First[k] \in Nat /\ Tops \in Nat
  BY OidAssumption
<1>3. d.tops \in [1 .. Tops -> 0 .. n]
  BY DEF Agrees
<1>4. /\ First[k] > 0 => First[k] \in 1 .. Tops
      /\ First[k] + 1 \in 1 .. Tops
  BY <1>2
<1> HIDE DEF n
<1>41. d.tops[First[k] + 1] \in 0 .. n /\ (First[k] > 0 => d.tops[First[k]] \in 0 .. n)
  BY <1>3, <1>4
<1>5. low \in 0 .. n /\ high \in -1 .. (n - 1)
  BY <1>1, <1>41
<1>6. <<low, high>> \in Bounds(d)
  BY <1>5 DEF Bounds, n
<1>7. ASSUME NEW i \in DOMAIN d.hashes, d.hashes[i] = k PROVE low < i /\ i <= high + 1
  <2>1. i <= d.tops[First[k] + 1] /\ (First[k] > 0 => ~(i <= d.tops[First[k]]))
    BY <1>2, <1>4, <1>7 DEF Agrees
  <2>2. i \in Nat /\ 1 <= i
    BY <1>1
  <2>3. d.tops[First[k] + 1] \in Nat /\ (First[k] > 0 => d.tops[First[k]] \in Nat)
    BY <1>1, <1>41
  <2> QED
    BY <2>1, <2>2, <2>3
<1>8. Brackets(d, k, <<low, high>>)
  BY <1>7 DEF Brackets
<1>9. Search(d, k) = Bisect(d, k)[<<low, high>>]
  BY DEF Search
<1> HIDE DEF low, high
<1> QED
  BY <1>1, <1>6, <1>8, <1>9, BisectFinds DEF Agrees

LEMMA FoundFacts ==
  ASSUME NEW d, Agrees(d), NEW k \in Oids
  PROVE  /\ k \notin Range(d.hashes) => FoundIn(d, k) = Absent
         /\ k \in Range(d.hashes) =>
              /\ FoundIn(d, k) \in Node
              /\ \E i \in DOMAIN d.hashes : d.hashes[i] = k /\ FoundIn(d, k) = NodeAt(d, i)
<1> DEFINE i == Search(d, k)
<1>1. Finds(d, k, i)
  BY SearchFinds
<1>2. Len(d.tops) = Tops
  <2>1. d.tops \in [1 .. Tops -> 0 .. Len(d.hashes)] /\ Tops \in Nat
    BY OidAssumption DEF Agrees
  <2> QED
    BY <2>1
<1>3. FoundIn(d, k) = IF i = 0 THEN Absent ELSE NodeAt(d, i)
  BY <1>2 DEF FoundIn, NodeAt
<1> HIDE DEF i
<1>4. ASSUME k \notin Range(d.hashes) PROVE FoundIn(d, k) = Absent
  <2>1. i = 0
    BY <1>1, <1>4 DEF Finds, Range
  <2> QED
    BY <1>3, <2>1
<1>5. ASSUME k \in Range(d.hashes)
      PROVE  /\ FoundIn(d, k) \in Node
             /\ \E j \in DOMAIN d.hashes : d.hashes[j] = k /\ FoundIn(d, k) = NodeAt(d, j)
  <2>1. i # 0 /\ i \in DOMAIN d.hashes /\ d.hashes[i] = k
    BY <1>1, <1>5 DEF Finds
  <2>2. FoundIn(d, k) = NodeAt(d, i)
    BY <1>3, <2>1
  <2>3. /\ d.offsets \in Seq(Nat) /\ d.kinds \in Seq(0 .. (KindBytes - 1)) /\ d.kind_map \in Seq(Kinds)
        /\ d.hashes \in Seq(Oids) /\ Len(d.offsets) = Len(d.hashes) /\ Len(d.kinds) = Len(d.hashes)
        /\ d.kinds[i] < Len(d.kind_map)
    BY <2>1 DEF Agrees, FileData
  <2>4. d.offsets[i] \in Nat /\ d.kinds[i] \in 0 .. (KindBytes - 1) /\ KindBytes \in Nat
    BY <2>1, <2>3, NodeAssumption
  <2>5. d.kinds[i] + 1 \in 1 .. Len(d.kind_map)
    BY <2>3, <2>4
  <2>6. d.kind_map[d.kinds[i] + 1] \in Kinds
    BY <2>3, <2>5
  <2>7. NodeAt(d, i) \in Node
    BY <2>4, <2>6 DEF NodeAt, Node
  <2> QED
    BY <2>1, <2>2, <2>7
<1> QED
  BY <1>4, <1>5

LEMMA NothingFound == \A k \in Oids : FoundIn(NoData, k) = Absent
<1>1. Len(NoData.tops) # Tops
  BY OidAssumption DEF NoData
<1> QED
  BY <1>1 DEF FoundIn
-----------------------------------------------------------------------------
(* What Saver writes *)

LEMMA FunctionIsSeq ==
  ASSUME NEW S, NEW n \in Nat, NEW f \in [1 .. n -> S]
  PROVE  f \in Seq(S) /\ Len(f) = n
OBVIOUS

\* The kinds that are there, in order.
LEMMA KindMapFacts ==
  ASSUME NEW keys \in Seq(Oids), \A i \in DOMAIN keys : Lookup(keys[i]) \in Node
  PROVE  LET kinds == {Lookup(keys[i]).kind : i \in DOMAIN keys}
         IN  /\ kinds \subseteq Kinds
             /\ IsFiniteSet(kinds)
             /\ Cardinality(kinds) \in Nat
             /\ KindMap(keys) \in [1 .. Cardinality(kinds) -> Kinds]
             /\ Range(KindMap(keys)) = kinds
<1> DEFINE kinds == {Lookup(keys[i]).kind : i \in DOMAIN keys}
           f == [i \in DOMAIN keys |-> Lookup(keys[i]).kind]
<1>1. kinds \subseteq Kinds
  BY DEF Node
<1>2. f \in Surjection(DOMAIN keys, kinds)
  BY DEF Surjection
<1>3. IsFiniteSet(DOMAIN keys)
  <2>1. DOMAIN keys = 1 .. Len(keys) /\ Len(keys) \in Int
    OBVIOUS
  <2> QED
    BY <2>1, FS_Interval
<1>4. IsFiniteSet(kinds)
  BY <1>2, <1>3, FS_Surjection
<1>5. KindMap(keys) = Ascending(SetToSeq(kinds))
  BY DEF KindMap
<1> HIDE DEF kinds
<1> DEFINE s == SetToSeq(kinds)
<1>6. Cardinality(kinds) \in Nat /\ s \in [1 .. Cardinality(kinds) -> kinds] /\ Range(s) = kinds
  BY <1>4, SetToSeqFacts
<1> HIDE DEF s
<1>7. kinds \subseteq Nat
  BY <1>1, NodeAssumption
<1>8. s \in Seq(Nat) /\ Len(s) = Cardinality(kinds)
  <2>1. s \in [1 .. Cardinality(kinds) -> Nat]
    BY <1>6, <1>7
  <2> QED
    BY <1>6, <2>1
<1>9. /\ Ascending(s) \in [1 .. Cardinality(kinds) -> kinds]
      /\ Range(Ascending(s)) = kinds
  BY <1>6, <1>8, AscendingFacts
<1>10. Ascending(s) \in [1 .. Cardinality(kinds) -> Kinds]
  BY <1>1, <1>9
<1> QED
  BY <1>1, <1>4, <1>5, <1>6, <1>9, <1>10 DEF s, kinds

\* A pool has no more kinds of chunks than there are values of a byte.
KindsFit == IsFiniteSet(Kinds) /\ Cardinality(Kinds) <= KindBytes

LEMMA KindBytesFacts ==
  ASSUME NEW keys \in Seq(Oids), \A i \in DOMAIN keys : Lookup(keys[i]) \in Node
  PROVE  \A i \in DOMAIN keys :
           /\ KindBytesOf(keys)[i] \in 0 .. (KindBytes - 1)
           /\ KindBytesOf(keys)[i] < Len(KindMap(keys))
           /\ KindsFit => KindMap(keys)[KindBytesOf(keys)[i] + 1] = Lookup(keys[i]).kind
<1> DEFINE kinds == {Lookup(keys[i]).kind : i \in DOMAIN keys}
           m == KindMap(keys)
           n == Cardinality(kinds)
<1>1. /\ kinds \subseteq Kinds /\ IsFiniteSet(kinds) /\ n \in Nat
      /\ m \in [1 .. n -> Kinds] /\ Range(m) = kinds
  BY KindMapFacts
<1>2. KindBytes \in Nat \ {0}
  BY NodeAssumption
<1> SUFFICES ASSUME NEW i \in DOMAIN keys
             PROVE  /\ KindBytesOf(keys)[i] \in 0 .. (KindBytes - 1)
                    /\ KindBytesOf(keys)[i] < Len(m)
                    /\ KindsFit => m[KindBytesOf(keys)[i] + 1] = Lookup(keys[i]).kind
  OBVIOUS
<1> DEFINE kind == Lookup(keys[i]).kind
           at == CHOOSE q \in DOMAIN m : m[q] = kind
<1>3. KindBytesOf(keys)[i] = (at - 1) % KindBytes
  BY DEF KindBytesOf
<1>4. kind \in kinds
  OBVIOUS
<1> HIDE DEF m, kinds, n, kind
<1>5. at \in DOMAIN m /\ m[at] = kind
  <2>1. \E q \in DOMAIN m : m[q] = kind
    BY <1>1, <1>4 DEF Range
  <2> QED
    BY <2>1
<1> HIDE DEF at
<1>6. at \in 1 .. n /\ Len(m) = n
  BY <1>1, <1>5
<1> DEFINE place == at - 1
<1>7. place \in Nat /\ place < n /\ at = place + 1
  BY <1>1, <1>6
<1> HIDE DEF place
<1>8. place % KindBytes \in 0 .. (KindBytes - 1) /\ place % KindBytes <= place
  BY <1>2, <1>7
<1>9. KindsFit => place % KindBytes = place
  <2>1. KindsFit => n <= Cardinality(Kinds) /\ Cardinality(Kinds) \in Nat
    BY <1>1, FS_Subset, FS_CardinalityType DEF KindsFit, n
  <2>2. KindsFit => place < KindBytes
    BY <1>1, <1>2, <1>7, <2>1 DEF KindsFit
  <2> QED
    BY <1>2, <1>7, <2>2
<1>10. KindBytesOf(keys)[i] = place % KindBytes
  BY <1>3 DEF place
<1>11. KindBytesOf(keys)[i] \in 0 .. (KindBytes - 1) /\ KindBytesOf(keys)[i] < Len(m)
  BY <1>1, <1>2, <1>6, <1>7, <1>8, <1>10
<1>12. KindsFit => m[KindBytesOf(keys)[i] + 1] = kind
  BY <1>5, <1>7, <1>9, <1>10
<1> QED
  BY <1>11, <1>12 DEF kind

\* Whatever the keys are: if they are in order, what is written belongs together,
\* and each key's node can be read from it.
LEMMA ContentAgrees ==
  ASSUME NEW keys \in Seq(Oids), InOrder(keys), \A i \in DOMAIN keys : Lookup(keys[i]) \in Node
  PROVE  /\ Agrees(Content(keys)) /\ Content(keys).hashes = keys
         /\ KindsFit => \A i \in DOMAIN keys : NodeAt(Content(keys), i) = Lookup(keys[i])
<1> DEFINE c == Content(keys)
           kinds == {Lookup(keys[i]).kind : i \in DOMAIN keys}
<1>1. /\ c.tops = ComputeTops(keys) /\ c.hashes = keys /\ c.offsets = Offsets(keys)
      /\ c.kind_map = KindMap(keys) /\ c.kinds = KindBytesOf(keys)
      /\ c = [tops |-> c.tops, hashes |-> c.hashes, offsets |-> c.offsets,
              kind_map |-> c.kind_map, kinds |-> c.kinds]
  BY DEF Content
<1>2. DOMAIN keys = 1 .. Len(keys) /\ Len(keys) \in Nat
  OBVIOUS
<1> HIDE DEF c
<1>3. /\ c.tops \in [1 .. Tops -> 0 .. Len(keys)] /\ c.tops[Tops] = Len(keys)
      /\ \A b \in 1 .. Tops, i \in DOMAIN keys : i <= c.tops[b] <=> First[keys[i]] < b
  BY <1>1, TopsFacts
<1>4. c.tops \in Seq(Nat)
  <2>1. Tops \in Nat /\ 0 .. Len(keys) \subseteq Nat
    BY <1>2, OidAssumption
  <2> QED
    BY <2>1, <1>3
<1>5. c.offsets \in [1 .. Len(keys) -> Nat] /\ \A i \in DOMAIN keys : c.offsets[i] = Lookup(keys[i]).offset
  BY <1>1, <1>2 DEF Offsets, Node
<1>6. c.kind_map \in [1 .. Cardinality(kinds) -> Kinds] /\ Cardinality(kinds) \in Nat
  BY <1>1, KindMapFacts
<1>7. /\ DOMAIN c.kinds = DOMAIN keys
      /\ c.kinds = [i \in DOMAIN keys |-> c.kinds[i]]
  BY <1>1 DEF KindBytesOf
<1>8. \A i \in DOMAIN keys :
        /\ c.kinds[i] \in 0 .. (KindBytes - 1)
        /\ c.kinds[i] < Len(c.kind_map)
        /\ KindsFit => c.kind_map[c.kinds[i] + 1] = Lookup(keys[i]).kind
  BY <1>1, KindBytesFacts
<1>9. c.kinds \in [1 .. Len(keys) -> 0 .. (KindBytes - 1)]
  BY <1>2, <1>7, <1>8
<1> HIDE DEF kinds
<1>10. c.offsets \in Seq(Nat) /\ c.kind_map \in Seq(Kinds) /\ c.kinds \in Seq(0 .. (KindBytes - 1))
       /\ Len(c.offsets) = Len(keys) /\ Len(c.kinds) = Len(keys)
  <2>1. c.offsets \in Seq(Nat) /\ Len(c.offsets) = Len(keys)
    BY <1>2, <1>5
  <2>2. c.kind_map \in Seq(Kinds)
    BY <1>6
  <2>3. c.kinds \in Seq(0 .. (KindBytes - 1)) /\ Len(c.kinds) = Len(keys)
    BY <1>2, <1>9, FunctionIsSeq
  <2> QED
    BY <2>1, <2>2, <2>3
<1>11. c \in FileData
  BY <1>1, <1>4, <1>10 DEF FileData
<1>12. Agrees(c)
  BY <1>1, <1>3, <1>8, <1>10, <1>11 DEF Agrees
<1>13. ASSUME KindsFit, NEW i \in DOMAIN keys PROVE NodeAt(c, i) = Lookup(keys[i])
  <2>1. NodeAt(c, i) = [offset |-> Lookup(keys[i]).offset, kind |-> Lookup(keys[i]).kind]
    BY <1>5, <1>8, <1>13 DEF NodeAt
  <2>2. Lookup(keys[i]) \in [offset : Nat, kind : Kinds]
    BY DEF Node
  <2> QED
    BY <2>1, <2>2
<1> QED
  BY <1>1, <1>12, <1>13 DEF c
-----------------------------------------------------------------------------
(* The inductive invariant *)

\* The vectors in memory and those in the file belong together, also after a
\* load that failed half way, and whatever is cut off the file.
IInv ==
  /\ ram \in [Oids -> Samples \cup {Absent}]
  /\ fdata = NoData \/ Agrees(fdata)
  /\ disk = NoDisk \/ disk \in [size : Sizes, cut : Cuts, content : {d \in FileData : Agrees(d)}]
  /\ broken \in BOOLEAN

\* There is a node for the keys of either part, and for no others.
LEMMA LookupFacts ==
  ASSUME IInv, NEW k \in Oids
  PROVE  IF k \in RamKeys \cup Range(fdata.hashes) THEN Lookup(k) \in Node ELSE Lookup(k) = Absent
<1>1. CASE k \in RamKeys
  <2>1. ram[k] # Absent /\ ram[k] \in Samples
    BY <1>1 DEF RamKeys, IInv
  <2> QED
    BY <1>1, <2>1, NodeAssumption DEF Lookup, Node
<1>2. CASE k \notin RamKeys
  <2>1. Lookup(k) = FoundIn(fdata, k)
    BY <1>2 DEF Lookup, RamKeys
  <2>2. CASE fdata = NoData
    BY <1>2, <2>1, <2>2, NothingFound DEF NoData, Range
  <2>3. CASE Agrees(fdata)
    BY <1>2, <2>1, <2>3, FoundFacts
  <2> QED
    BY <2>2, <2>3 DEF IInv
<1> QED
  BY <1>1, <1>2

\* The keys of both parts, in order.
LEMMA KeysFacts ==
  ASSUME IInv
  PROVE  /\ Keys \in Seq(Oids) /\ InOrder(Keys)
         /\ Range(Keys) = RamKeys \cup Range(fdata.hashes)
<1> DEFINE s == SetToSeq(RamKeys)
           t == fdata.hashes
           n == Cardinality(RamKeys)
<1>1. IsFiniteSet(RamKeys) /\ RamKeys \subseteq Oids /\ Oids \subseteq Nat
  <2>1. RamKeys \subseteq Oids
    BY DEF RamKeys
  <2> QED
    BY <2>1, OidAssumption, FS_Subset
<1>2. n \in Nat /\ s \in [1 .. n -> RamKeys] /\ Range(s) = RamKeys
  BY <1>1, SetToSeqFacts
<1>3. t \in Seq(Oids)
  <2>1. CASE fdata = NoData
    <3>1. t = <<>>
      BY <2>1 DEF NoData
    <3> HIDE DEF t
    <3> QED
      BY <3>1
  <2>2. CASE Agrees(fdata)
    BY <2>2 DEF Agrees, FileData
  <2> QED
    BY <2>1, <2>2 DEF IInv
<1>4. Keys = Ascending(s \o t)
  BY DEF Keys
<1> HIDE DEF s, t, n
<1>5. s \in Seq(Oids)
  <2>1. s \in [1 .. n -> Oids]
    BY <1>1, <1>2
  <2> QED
    BY <1>2, <2>1, FunctionIsSeq
<1>6. s \o t \in Seq(Oids) /\ Range(s \o t) = Range(s) \cup Range(t)
  <2>1. s \o t \in Seq(Oids)
    BY <1>3, <1>5
  <2>2. /\ Len(s) \in Nat /\ Len(t) \in Nat /\ DOMAIN s = 1 .. Len(s) /\ DOMAIN t = 1 .. Len(t)
        /\ DOMAIN (s \o t) = 1 .. (Len(s) + Len(t))
        /\ \A i \in 1 .. (Len(s) + Len(t)) :
             (s \o t)[i] = IF i <= Len(s) THEN s[i] ELSE t[i - Len(s)]
    BY <1>3, <1>5
  <2>3. ASSUME NEW i \in DOMAIN (s \o t) PROVE (s \o t)[i] \in Range(s) \cup Range(t)
    <3>1. i \in DOMAIN s \/ i - Len(s) \in DOMAIN t
      BY <2>2, <2>3
    <3>2. CASE i <= Len(s)
      BY <2>2, <2>3, <3>2 DEF Range
    <3>3. CASE ~(i <= Len(s))
      <4>1. i - Len(s) \in DOMAIN t /\ (s \o t)[i] = t[i - Len(s)]
        BY <2>2, <2>3, <3>3
      <4> QED
        BY <4>1 DEF Range
    <3> QED
      BY <3>2, <3>3
  <2>4. ASSUME NEW i \in DOMAIN s PROVE s[i] \in Range(s \o t)
    <3>1. i \in DOMAIN (s \o t) /\ (s \o t)[i] = s[i]
      BY <2>2, <2>4
    <3> QED
      BY <3>1 DEF Range
  <2>5. ASSUME NEW i \in DOMAIN t PROVE t[i] \in Range(s \o t)
    <3>1. /\ i + Len(s) \in DOMAIN (s \o t) /\ ~(i + Len(s) <= Len(s))
          /\ (i + Len(s)) - Len(s) = i
      BY <2>2, <2>5
    <3>2. (s \o t)[i + Len(s)] = t[i]
      BY <2>2, <3>1
    <3> QED
      BY <3>1, <3>2 DEF Range
  <2>6. Range(s \o t) \subseteq Range(s) \cup Range(t)
    BY <2>3 DEF Range
  <2>7. Range(s) \subseteq Range(s \o t) /\ Range(t) \subseteq Range(s \o t)
    <3> DEFINE u == s \o t
    <3>1. (\A i \in DOMAIN s : s[i] \in Range(u)) /\ (\A i \in DOMAIN t : t[i] \in Range(u))
      BY <2>4, <2>5
    <3> HIDE DEF u
    <3>2. Range(s) \subseteq Range(u) /\ Range(t) \subseteq Range(u)
      BY <3>1 DEF Range
    <3> QED
      BY <3>2 DEF u
  <2> QED
    BY <2>1, <2>6, <2>7
<1> DEFINE u == s \o t
<1>7. u \in Seq(Oids) /\ Range(u) = RamKeys \cup Range(t) /\ Keys = Ascending(u)
  BY <1>2, <1>4, <1>6
<1> HIDE DEF u
<1>8. u \in Seq(Nat) /\ Len(u) \in Nat /\ Range(u) \subseteq Oids
  <2>1. Len(u) \in Nat /\ u \in [1 .. Len(u) -> Oids]
    BY <1>7
  <2>2. u \in [1 .. Len(u) -> Nat]
    BY <1>1, <2>1
  <2>3. u \in Seq(Nat)
    BY <2>1, <2>2, FunctionIsSeq
  <2> QED
    BY <2>1, <2>3 DEF Range
<1>9. /\ Keys \in [1 .. Len(u) -> Range(u)] /\ Range(Keys) = Range(u)
      /\ \A i, j \in 1 .. Len(u) : i <= j => Keys[i] <= Keys[j]
  BY <1>7, <1>8, AscendingFacts
<1>10. Keys \in [1 .. Len(u) -> Oids] /\ InOrder(Keys)
  BY <1>8, <1>9 DEF InOrder
<1>11. Keys \in Seq(Oids)
  BY <1>8, <1>10, FunctionIsSeq
<1> QED
  BY <1>7, <1>9, <1>10, <1>11 DEF t

LEMMA KeysAreThere == ASSUME IInv PROVE \A i \in DOMAIN Keys : Lookup(Keys[i]) \in Node
<1> SUFFICES ASSUME NEW i \in DOMAIN Keys PROVE Lookup(Keys[i]) \in Node
  OBVIOUS
<1>1. Keys[i] \in Oids /\ Keys[i] \in RamKeys \cup Range(fdata.hashes)
  BY KeysFacts DEF Range
<1> QED
  BY <1>1, LookupFacts

\* What a save writes is the map of both parts.
LEMMA SaveFacts ==
  ASSUME IInv
  PROVE  /\ Agrees(Content(Keys))
         /\ KindsFit => \A k \in Oids : FoundIn(Content(Keys), k) = Lookup(k)
<1> DEFINE c == Content(Keys)
<1>1. /\ Agrees(c) /\ c.hashes = Keys
      /\ KindsFit => \A i \in DOMAIN Keys : NodeAt(c, i) = Lookup(Keys[i])
  BY KeysFacts, KeysAreThere, ContentAgrees
<1> HIDE DEF c
<1>2. ASSUME KindsFit, NEW k \in Oids PROVE FoundIn(c, k) = Lookup(k)
  <2>1. CASE k \in Range(Keys)
    <3>1. PICK i \in DOMAIN Keys : Keys[i] = k /\ FoundIn(c, k) = NodeAt(c, i)
      BY <1>1, <2>1, FoundFacts
    <3> QED
      BY <1>1, <1>2, <3>1
  <2>2. CASE k \notin Range(Keys)
    BY <1>1, <2>2, FoundFacts, LookupFacts, KeysFacts
  <2> QED
    BY <2>1, <2>2
<1> QED
  BY <1>1, <1>2 DEF c

LEMMA IndexInitInv == Init => IInv
BY DEF Init, IInv, Nothing

LEMMA InsertInv == ASSUME IInv, NEW k \in Oids, NEW n \in Samples, Insert(k, n) PROVE IInv'
<1>1. ram' \in [Oids -> Samples \cup {Absent}]
  BY DEF Insert, IInv
<1> QED
  BY <1>1 DEF Insert, IInv

LEMMA SaveInv == ASSUME IInv, NEW size \in Sizes, Save(size) PROVE IInv'
<1>1. PICK cut \in Cuts : disk' = [size |-> size, cut |-> cut, content |-> Content(Keys)]
  BY DEF Save
<1>2. Agrees(Content(Keys)) /\ Content(Keys) \in FileData
  BY SaveFacts DEF Agrees
<1>3. disk' \in [size : Sizes, cut : Cuts, content : {d \in FileData : Agrees(d)}]
  BY <1>1, <1>2
<1> QED
  BY <1>3 DEF Save, IInv

\* A file that has the size a client names is one that was saved.
LEMMA LoadInv ==
  ASSUME IInv, NEW size \in Sizes, Load(size) \/ LoadRefused(size) \/ LoadFails(size)
  PROVE  IInv'
<1>1. ram' = Nothing /\ Nothing \in [Oids -> Samples \cup {Absent}] /\ UNCHANGED disk
  BY DEF Load, LoadRefused, LoadFails, Nothing
<1>2. broken' \in BOOLEAN
  BY DEF Load, LoadRefused, LoadFails, IInv
<1>3. fdata' = NoData \/ Agrees(fdata')
  <2>1. CASE Load(size)
    <3>1. disk.size = size /\ disk # NoDisk /\ fdata' = disk.content
      BY <2>1, NodeAssumption DEF Load, NoDisk
    <3> QED
      BY <3>1 DEF IInv
  <2>2. CASE ~Load(size)
    BY <2>2 DEF LoadRefused, LoadFails, IInv
  <2> QED
    BY <2>1, <2>2
<1> QED
  BY <1>1, <1>2, <1>3 DEF IInv

LEMMA RenewInv == ASSUME IInv, Renew PROVE IInv'
BY DEF Renew, IInv, Nothing

LEMMA IndexNextInv == IInv /\ [Next]_vars => IInv'
<1>1. IInv /\ UNCHANGED vars => IInv'
  BY DEF IInv, vars
<1> QED
  BY <1>1, InsertInv, SaveInv, LoadInv, RenewInv DEF Next

LEMMA Invariance == Spec => []IInv
BY IndexInitInv, IndexNextInv, PTL DEF Spec

\* Every value stays of its type, for any keys, kinds and sizes.
THEOREM TypesAreKept == Spec => []TypeOK
<1>1. NoData \in FileData
  BY DEF NoData, FileData
<1>2. NoDisk \in [size : Sizes \cup {Absent}, cut : Cuts, content : FileData]
  BY <1>1 DEF NoDisk, Cuts
<1>3. IInv => TypeOK
  <2> SUFFICES ASSUME IInv PROVE TypeOK
    OBVIOUS
  <2>1. fdata \in FileData
    BY <1>1 DEF IInv, Agrees
  <2>2. disk \in [size : Sizes \cup {Absent}, cut : Cuts, content : FileData]
    BY <1>2 DEF IInv
  <2> QED
    BY <2>1, <2>2 DEF IInv, TypeOK
<1> QED
  BY <1>3, Invariance, PTL

\* Whatever was inserted, loaded and saved before, and by whom: the vectors in the
\* index file are of one length, their keys are in order, tops divides them by
\* first byte, and every byte for a kind names one.
THEOREM SavedVectorsAgree == Spec => []VectorsAgree
<1>1. IInv => VectorsAgree
  <2> SUFFICES ASSUME IInv, disk # NoDisk PROVE VectorsAgree
    BY DEF VectorsAgree
  <2>1. Agrees(disk.content)
    BY DEF IInv
  <2>2. Len(disk.content.tops) = Tops
    <3>1. disk.content.tops \in [1 .. Tops -> 0 .. Len(disk.content.hashes)] /\ Tops \in Nat
      BY <2>1, OidAssumption DEF Agrees
    <3> QED
      BY <3>1
  <2> QED
    BY <2>1, <2>2 DEF VectorsAgree, Agrees, InOrder
<1> QED
  BY <1>1, Invariance, PTL

\* The recursion of the bisection is defined for every vector that is loaded, and
\* finds each key that is there, at a place where it is, and no other.
THEOREM SearchIsExact == Spec => []SearchExact
<1>1. IInv => SearchExact
  BY SearchFinds DEF IInv, SearchExact, Finds
<1> QED
  BY <1>1, Invariance, PTL
-----------------------------------------------------------------------------
(* The two-part map *)

LEMMA MapInit == Init => Map!Init
<1> SUFFICES ASSUME Init PROVE Map!Init
  OBVIOUS
<1>1. Loaded = Nothing /\ Stored = Nothing
  BY NothingFound DEF Init, Loaded, Stored, Nothing
<1> QED
  BY <1>1 DEF Init, Nothing, NoDisk, Map!Init, Map!Nothing, Map!NoFile

LEMMA MapInsert ==
  ASSUME NEW k \in Oids, NEW n \in Samples, Insert(k, n) PROVE Map!Insert(k, n)
BY DEF Insert, Map!Insert, Loaded, Stored

LEMMA MapSave ==
  ASSUME KindsFit, IInv, NEW size \in Sizes, Save(size) PROVE Map!Save(size)
<1>1. PICK cut \in Cuts : disk' = [size |-> size, cut |-> cut, content |-> Content(Keys)]
  BY DEF Save
<1>2. ~broken /\ UNCHANGED <<ram, fdata, broken>>
  BY DEF Save
<1>3. disk' # NoDisk
  BY <1>1, NodeAssumption DEF NoDisk
<1>4. Stored' = [k \in Oids |-> FoundIn(Content(Keys), k)]
  BY <1>1, <1>3 DEF Stored
<1>5. Stored' = Map!Overlay
  BY <1>4, SaveFacts DEF Map!Overlay, Lookup, Loaded
<1>6. Loaded' = Loaded
  BY <1>2 DEF Loaded
<1>7. disk'.size = size /\ (disk'.cut = "whole") \in BOOLEAN
  BY <1>1
<1> QED
  BY <1>2, <1>5, <1>6, <1>7 DEF Map!Save

LEMMA MapLoads ==
  ASSUME IInv, NEW size \in Sizes
  PROVE  /\ Load(size) => Map!Load(size)
         /\ LoadRefused(size) => Map!LoadRefused(size)
         /\ LoadFails(size) => Map!LoadFails(size)
<1>1. UNCHANGED disk => UNCHANGED Stored
  BY DEF Stored
<1>2. ASSUME Load(size) PROVE Map!Load(size)
  <2>1. disk # NoDisk
    BY <1>2, NodeAssumption DEF Load, NoDisk
  <2>2. Loaded' = Stored
    BY <1>2, <2>1 DEF Load, Loaded, Stored
  <2> QED
    BY <1>1, <1>2, <2>2 DEF Load, Map!Load, Nothing, Map!Nothing
<1>3. ASSUME LoadRefused(size) PROVE Map!LoadRefused(size)
  <2>1. Loaded' = Loaded
    BY <1>3 DEF LoadRefused, Loaded
  <2> QED
    BY <1>1, <1>3, <2>1 DEF LoadRefused, Map!LoadRefused, Nothing, Map!Nothing
<1>4. ASSUME LoadFails(size) PROVE Map!LoadFails(size)
  <2>1. Loaded' = Nothing
    BY <1>4, NothingFound DEF LoadFails, Loaded, Nothing
  <2> QED
    BY <1>1, <1>4, <2>1 DEF LoadFails, Map!LoadFails, Nothing, Map!Nothing
<1> QED
  BY <1>2, <1>3, <1>4

LEMMA MapRenew == ASSUME Renew PROVE Map!Renew
<1>1. Loaded' = Nothing
  BY NothingFound DEF Renew, Loaded, Nothing
<1>2. Stored' = Stored
  BY DEF Renew, Stored
<1> QED
  BY <1>1, <1>2 DEF Renew, Map!Renew, Nothing, Map!Nothing

LEMMA MapStep == KindsFit /\ IInv /\ [Next]_vars => [Map!Next]_Map!vars
<1> SUFFICES ASSUME KindsFit, IInv, [Next]_vars PROVE [Map!Next]_Map!vars
  OBVIOUS
<1>1. CASE UNCHANGED vars
  BY <1>1 DEF vars, Map!vars, Loaded, Stored
<1>2. CASE Next
  BY <1>2, MapInsert, MapSave, MapLoads, MapRenew DEF Next, Map!Next
<1> QED
  BY <1>1, <1>2

\* The sorted vectors, their tops and their bytes for kinds are the two-part map
\* that the header promises, and the file holds the map that was saved, as long as
\* the kinds fit a byte.
THEOREM IndexIsMap == ASSUME KindsFit PROVE Spec => MapSpec
<1>1. Init => Map!Init
  BY MapInit
<1>2. IInv /\ [Next]_vars => [Map!Next]_Map!vars
  BY MapStep
<1> QED
  BY <1>1, <1>2, Invariance, PTL DEF Spec, MapSpec, Map!Spec
=============================================================================
