------------------------------ MODULE OidProofs ------------------------------
(* The loop of tweak, and texts, for any number of bytes of any size. *)
EXTENDS Oid, TLAPS

\* Arithmetic of a byte that wraps around.
LEMMA ByteUp ==
  ASSUME NEW B \in Nat \ {0, 1}, NEW x \in 0 .. (B - 1)
  PROVE  (x + 1) % B = IF x = B - 1 THEN 0 ELSE x + 1
<1>1. CASE x = B - 1
  BY <1>1
<1>2. CASE x # B - 1
  BY <1>2
<1> QED
  BY <1>1, <1>2

LEMMA ByteDown ==
  ASSUME NEW B \in Nat \ {0, 1}, NEW x \in 0 .. (B - 1)
  PROVE  (x + (-1)) % B = IF x = 0 THEN B - 1 ELSE x - 1
<1>1. CASE x = 0
  BY <1>1
<1>2. CASE x # 0
  BY <1>2
<1> QED
  BY <1>1, <1>2

LEMMA BaseSize == Base \in Nat \ {0, 1}
<1>1. \A d \in Nat \ {0, 1} : d * d \in Nat /\ d * d >= 2 * d
  OBVIOUS
<1> QED
  BY <1>1, OidAssumption DEF Base

\* An OID that has counted up at one place, behind which it has wrapped around,
\* is the next in the order of memcmp: nothing is between the two.
LEMMA NextUp ==
  ASSUME NEW a \in Oids, NEW b \in Oids, NEW p \in Places,
         \A q \in Places : q < p => a[q] = b[q],
         b[p] = a[p] + 1,
         \A q \in Places : q > p => a[q] = Base - 1 /\ b[q] = 0
  PROVE  Follows(a, b)
<1>1. Base \in Nat \ {0, 1} /\ Length \in Nat /\ p \in Nat
  BY BaseSize, OidAssumption DEF Places
<1>2. \A o \in Oids, q \in Places : o[q] \in 0 .. (Base - 1)
  BY DEF Oids, Bytes
<1>3. Less(a, b)
  <2>1. \A q \in 0 .. (p - 1) : a[q] = b[q]
    BY <1>1 DEF Places
  <2>2. a[p] < b[p]
    BY <1>1, <1>2
  <2> QED
    BY <2>1, <2>2 DEF Less
<1>4. ASSUME NEW x \in Oids, Less(a, x), Less(x, b) PROVE FALSE
  <2>1. PICK i \in Places : a[i] < x[i] /\ \A q \in 0 .. (i - 1) : a[q] = x[q]
    BY <1>4 DEF Less
  <2>2. PICK j \in Places : x[j] < b[j] /\ \A q \in 0 .. (j - 1) : x[q] = b[q]
    BY <1>4 DEF Less
  <2>3. i \in Int /\ j \in Int /\ 0 <= i /\ 0 <= j
    BY DEF Places
  <2>4. a[i] \in 0 .. (Base - 1) /\ x[i] \in 0 .. (Base - 1) /\ a[p] \in 0 .. (Base - 1)
        /\ x[p] \in 0 .. (Base - 1) /\ x[j] \in 0 .. (Base - 1) /\ b[i] \in 0 .. (Base - 1)
    BY <1>2
  <2>5. i <= p
    \* Behind p nothing is greater than a.
    BY <1>1, <2>1, <2>3, <2>4
  <2>6. j <= p
    \* Behind p nothing is less than b.
    BY <1>1, <2>2, <2>3, <2>4
  <2>7. CASE j < p
    <3>1. b[j] = a[j]
      BY <2>7
    <3>2. j >= i
      BY <2>1, <2>2, <2>3, <2>4, <3>1, <1>2
    <3>3. i < p /\ a[i] = b[i]
      BY <2>7, <3>2, <2>3, <1>1
    <3>4. CASE i = j
      BY <3>4, <3>1, <2>1, <2>2, <2>4
    <3>5. CASE i < j
      <4>1. x[i] = b[i]
        BY <3>5, <2>2, <2>3
      <4> QED
        BY <4>1, <3>3, <2>1, <2>4
    <3> QED
      BY <3>2, <3>4, <3>5, <2>3
  <2>8. CASE j = p
    <3>1. CASE i = p
      BY <3>1, <2>8, <2>1, <2>2, <2>4
    <3>2. CASE i < p
      <4>1. a[i] = b[i] /\ x[i] = b[i]
        BY <3>2, <2>8, <2>2, <2>3
      <4> QED
        BY <4>1, <2>1, <2>4
    <3> QED
      BY <3>1, <3>2, <2>5, <2>3, <1>1
  <2> QED
    BY <2>6, <2>7, <2>8, <2>3, <1>1
<1> QED
  BY <1>3, <1>4 DEF Follows

LEMMA WrapsRound ==
  ASSUME NEW a \in Oids, NEW b \in Oids, \A q \in Places : a[q] = Base - 1 /\ b[q] = 0
  PROVE  Follows(a, b)
BY DEF Follows, Highest, Lowest, Oids

\* One iteration, at a byte that wraps around or does not.
LEMMA TmpValue ==
  ASSUME TypeOK
  PROVE  /\ Tmp \in Bytes
         /\ Tmp = Stop => raw[pos] = Last
         /\ Tmp # Stop => Tmp = raw[pos] + adjust
<1>1. Base \in Nat \ {0, 1} /\ raw[pos] \in 0 .. (Base - 1) /\ adjust \in {1, -1}
  BY BaseSize DEF TypeOK, Oids, Bytes
<1>2. CASE adjust = 1
  <2>1. Tmp = IF raw[pos] = Base - 1 THEN 0 ELSE raw[pos] + 1
    BY <1>1, <1>2, ByteUp DEF Tmp
  <2> QED
    BY <1>1, <1>2, <2>1 DEF Stop, Last, Bytes
<1>3. CASE adjust = -1
  <2>1. Tmp = IF raw[pos] = 0 THEN Base - 1 ELSE raw[pos] - 1
    BY <1>1, <1>3, ByteDown DEF Tmp
  <2> QED
    BY <1>1, <1>3, <2>1 DEF Stop, Last, Bytes
<1> QED
  BY <1>1, <1>2, <1>3

LEMMA InitInv == Init => TypeOK /\ LoopInv
<1> SUFFICES ASSUME Init PROVE TypeOK /\ LoopInv
  OBVIOUS
<1>1. Lowest \in Oids /\ 0 \in Places
  BY BaseSize, OidAssumption DEF Lowest, Oids, Bytes, Places
<1>2. raw \in Oids /\ phase \in {"made", "refused"}
  BY <1>1 DEF Init, Parsed
<1> QED
  BY <1>1, <1>2 DEF Init, TypeOK, LoopInv

LEMMA StartInv == ASSUME TypeOK, NEW a \in {1, -1}, Start(a) PROVE TypeOK' /\ LoopInv'
<1>1. Length \in Nat \ {0}
  BY OidAssumption
<1>2. TypeOK'
  BY <1>1 DEF Start, TypeOK, Places
<1>3. LoopInv'
  BY <1>1 DEF Start, LoopInv, Same, Wrapped, Places
<1> QED
  BY <1>2, <1>3

LEMMA CarryInv == ASSUME TypeOK, LoopInv, Carry PROVE TypeOK' /\ LoopInv'
<1>1. pos \in Int /\ pos > 0 /\ pos - 1 \in Places /\ Tmp = Stop /\ Tmp \in Bytes /\ raw[pos] = Last
  BY TmpValue, OidAssumption DEF TypeOK, Carry, Places
<1>2. raw' = [raw EXCEPT ![pos] = Stop] /\ pos' = pos - 1 /\ UNCHANGED <<adjust, before>>
      /\ phase' = "moving" /\ raw \in Oids /\ before \in Oids
  BY <1>1 DEF Carry, TypeOK
<1>3. TypeOK'
  BY <1>1, <1>2 DEF TypeOK, Oids
<1>4. before[pos] = raw[pos] /\ Same(pos + 1) /\ Wrapped(pos + 1) /\ pos \in Places
  BY <1>1 DEF Carry, LoopInv, Same, TypeOK
<1>5. Stop' = Stop /\ Last' = Last
  BY <1>2 DEF Stop, Last
<1>6. Same(pos + 1)'
  BY <1>1, <1>2, <1>4 DEF Same, Places, Oids
<1>7. Wrapped(pos + 1)'
  BY <1>1, <1>2, <1>4, <1>5 DEF Wrapped, Places, Oids
<1> QED
  BY <1>2, <1>3, <1>6, <1>7 DEF LoopInv

LEMMA FinishInv == ASSUME TypeOK, LoopInv, Finish PROVE TypeOK' /\ LoopInv'
<1>1. /\ pos \in Places /\ pos \in Nat /\ Tmp \in Bytes /\ Same(pos + 1) /\ Wrapped(pos + 1)
      /\ before[pos] = raw[pos]
  BY TmpValue DEF TypeOK, Finish, LoopInv, Same, Places
<1>2. raw' = [raw EXCEPT ![pos] = Tmp] /\ UNCHANGED <<pos, adjust, before>> /\ phase' = "moved"
      /\ raw \in Oids /\ before \in Oids
  BY DEF Finish, TypeOK
<1>3. TypeOK' /\ raw'[pos] = Tmp
  BY <1>1, <1>2 DEF TypeOK, Oids
<1>4. Same(pos)' /\ Stop' = Stop /\ Last' = Last
  BY <1>1, <1>2 DEF Same, Places, Oids, Stop, Last
<1>5. Wrapped(pos + 1)'
  BY <1>1, <1>2, <1>4 DEF Wrapped, Places, Oids
<1>6. CASE Tmp = Stop
  <2>1. pos = 0 /\ raw[pos] = Last
    BY <1>6, TmpValue DEF Finish
  <2>2. Wrapped(0)'
    BY <2>1, <1>1, <1>2, <1>3, <1>4, <1>5, <1>6 DEF Wrapped, Places
  <2> QED
    BY <2>2, <1>2, <1>3 DEF LoopInv
<1>7. CASE Tmp # Stop
  BY <1>1, <1>2, <1>3, <1>4, <1>5, <1>7, TmpValue DEF LoopInv
<1> QED
  BY <1>6, <1>7

LEMMA NextInv == TypeOK /\ LoopInv /\ [Next]_vars => TypeOK' /\ LoopInv'
<1>1. TypeOK /\ LoopInv /\ UNCHANGED vars => TypeOK' /\ LoopInv'
  BY DEF vars, TypeOK, LoopInv, Same, Wrapped, Stop, Last
<1> QED
  BY <1>1, StartInv, CarryInv, FinishInv DEF Next

LEMMA LoopInvSuffices == TypeOK /\ LoopInv => TweakIsNext
<1> SUFFICES ASSUME TypeOK, LoopInv, phase = "moved"
             PROVE  IF adjust = 1 THEN Follows(before, raw) ELSE Follows(raw, before)
  BY DEF TweakIsNext
<1>1. raw \in Oids /\ before \in Oids /\ pos \in Places /\ pos \in Int /\ adjust \in {1, -1}
      /\ \A q \in Places : q \in Int /\ q >= 0
  BY DEF TypeOK, Places
<1>2. CASE Wrapped(0)
  BY <1>1, <1>2, WrapsRound DEF Wrapped, Stop, Last
<1>3. CASE ~Wrapped(0)
  <2>1. Same(pos) /\ Wrapped(pos + 1) /\ raw[pos] = before[pos] + adjust
    BY <1>3 DEF LoopInv
  <2>2. /\ \A q \in Places : q < pos => raw[q] = before[q]
        /\ \A q \in Places : q > pos => raw[q] = Stop /\ before[q] = Last
    BY <2>1, <1>1 DEF Same, Wrapped
  <2>3. raw[pos] \in Int /\ before[pos] \in Int
    BY <1>1, BaseSize DEF Oids, Bytes
  <2>4. CASE adjust = 1
    BY <2>1, <2>2, <2>3, <2>4, <1>1, NextUp DEF Stop, Last
  <2>5. CASE adjust = -1
    <3>1. before[pos] = raw[pos] + 1
      BY <2>1, <2>3, <2>5
    <3> QED
      BY <3>1, <2>2, <2>5, <1>1, NextUp DEF Stop, Last
  <2> QED
    BY <2>4, <2>5, <1>1
<1> QED
  BY <1>2, <1>3

\* Whatever the sizes: ++ goes to the next OID in the order of memcmp and -- to
\* the one before it, carrying as far as need be, and around the ends.
THEOREM TweakFollowsOrder == Spec => []TweakIsNext
BY InitInv, NextInv, LoopInvSuffices, PTL DEF Spec
-----------------------------------------------------------------------------
(* Texts *)

LEMMA Monotone ==
  ASSUME NEW D \in Nat, NEW a \in Int, NEW b \in Int, a <= b
  PROVE  a * D <= b * D
<1>1. (b - a) * D >= 0 /\ (b - a) * D = b * D - a * D
  <2>1. \A u, v \in Nat : u * v >= 0
    OBVIOUS
  <2> QED
    BY <2>1
<1>2. a * D \in Int /\ b * D \in Int
  OBVIOUS
<1> QED
  BY <1>1, <1>2

\* The value of two digits is taken apart into them again.
LEMMA TwoDigits ==
  ASSUME NEW D \in Nat \ {0}, NEW c \in 0 .. (D - 1), NEW d \in 0 .. (D - 1)
  PROVE  (c * D + d) \div D = c /\ (c * D + d) % D = d
<1> DEFINE x == c * D + d
           q == x \div D
           r == x % D
<1>1. x \in Int /\ c * D \in Int /\ c \in Int /\ d \in Int /\ D \in Int
  OBVIOUS
<1> HIDE DEF x
<1>2. q \in Int /\ r \in 0 .. (D - 1) /\ x = D * q + r
  BY <1>1
<1> HIDE DEF q, r
<1>3. D * q = q * D /\ q * D \in Int /\ (q + 1) * D = q * D + D /\ (c + 1) * D = c * D + D
  BY <1>1, <1>2
<1>4. x = c * D + d
  BY DEF x
<1>5. ~(q < c)
  <2>1. q < c => (q + 1) * D <= c * D
    BY <1>1, <1>2, Monotone
  <2> QED
    BY <2>1, <1>1, <1>2, <1>3, <1>4
<1>6. ~(c < q)
  <2>1. c < q => (c + 1) * D <= q * D
    BY <1>1, <1>2, Monotone
  <2> QED
    BY <2>1, <1>1, <1>2, <1>3, <1>4
<1>7. q = c
  BY <1>1, <1>2, <1>5, <1>6
<1>8. r = d
  BY <1>1, <1>2, <1>3, <1>4, <1>7
<1> QED
  BY <1>7, <1>8 DEF q, r, x

\* What is kept of a text, until the OID is moved.
TextInv ==
  /\ phase \in {"made", "refused", "moving", "moved"}
  /\ text # <<>> =>
       /\ text \in Texts /\ phase \in {"made", "refused"}
       /\ phase = "made" => Readable(text) /\ raw \in Parsed(text)
       /\ phase = "refused" => ~Readable(text)

LEMMA TextInitInv == Init => TextInv
BY DEF Init, TextInv

LEMMA TextNextInv == TextInv /\ [Next]_vars => TextInv'
<1> SUFFICES ASSUME TextInv, [Next]_vars PROVE TextInv'
  OBVIOUS
<1>1. CASE UNCHANGED vars
  BY <1>1 DEF vars, TextInv
<1>2. ASSUME NEW a \in {1, -1}, Start(a) PROVE TextInv'
  BY <1>2 DEF Start, TextInv
<1>3. CASE Carry
  BY <1>3 DEF Carry, TextInv
<1>4. CASE Finish
  BY <1>4 DEF Finish, TextInv
<1> QED
  BY <1>1, <1>2, <1>3, <1>4 DEF Next

LEMMA PairOfDigits ==
  ASSUME NEW c \in Digits, NEW d \in Digits
  PROVE  Pair(c, d) = {c * Digit + d}
<1>1. /\ c \notin {Blank, Plus} /\ c # Minus /\ c # Blank /\ d # Ex
      /\ d \notin {Minus, Plus} /\ d # Blank
  BY OidAssumption DEF Digits, Blank, Minus, Plus, Ex
<1> QED
  BY <1>1 DEF Pair

\* A text of digits can be read, and as nothing but what is written like it.
LEMMA DigitsRead ==
  ASSUME NEW t \in [1 .. 2 * Length -> Chars], \A j \in DOMAIN t : t[j] \in Digits
  PROVE  Readable(t) /\ \A o \in Parsed(t) : Hex(o) = t
<1>1. Length \in Nat \ {0} /\ Digit \in Nat \ {0, 1}
  BY OidAssumption
<1>2. ASSUME NEW i \in Places
      PROVE  /\ 2 * i + 1 \in 1 .. 2 * Length /\ 2 * i + 2 \in 1 .. 2 * Length
             /\ Pair(t[2 * i + 1], t[2 * i + 2]) = {t[2 * i + 1] * Digit + t[2 * i + 2]}
  <2>1. 2 * i + 1 \in 1 .. 2 * Length /\ 2 * i + 2 \in 1 .. 2 * Length
    BY <1>1 DEF Places
  <2>2. t[2 * i + 1] \in Digits /\ t[2 * i + 2] \in Digits
    BY <2>1
  <2> QED
    BY <2>1, <2>2, PairOfDigits
<1>3. Len(t) = 2 * Length
  BY <1>1
<1>4. Readable(t)
  BY <1>2, <1>3 DEF Readable
<1>5. ASSUME NEW o \in Parsed(t), NEW j \in 1 .. 2 * Length PROVE Hex(o)[j] = t[j]
  <2> DEFINE i == (j - 1) \div 2
  <2>1. /\ i \in Places /\ j \in Int
        /\ j % 2 = 1 => j = 2 * i + 1
        /\ j % 2 # 1 => j = 2 * i + 2
    BY <1>1 DEF Places
  <2>2. Hex(o)[j] = IF j % 2 = 1 THEN o[i] \div Digit ELSE o[i] % Digit
    BY DEF Hex
  <2> HIDE DEF i
  <2>3. o[i] = t[2 * i + 1] * Digit + t[2 * i + 2]
    BY <2>1, <1>2 DEF Parsed
  <2>4. t[2 * i + 1] \in 0 .. (Digit - 1) /\ t[2 * i + 2] \in 0 .. (Digit - 1)
    BY <2>1, <1>2 DEF Digits
  <2>5. o[i] \div Digit = t[2 * i + 1] /\ o[i] % Digit = t[2 * i + 2]
    BY <2>3, <2>4, <1>1, TwoDigits
  <2> QED
    BY <2>1, <2>2, <2>5
<1>6. ASSUME NEW o \in Parsed(t) PROVE Hex(o) = t
  <2>1. Hex(o) = [j \in 1 .. 2 * Length |-> Hex(o)[j]]
    BY DEF Hex
  <2> QED
    BY <2>1, <1>5
<1> QED
  BY <1>4, <1>6

LEMMA TextInvSuffices == TextInv => TextKept
<1> SUFFICES ASSUME TextInv, text # <<>>
             PROVE  /\ Len(text) # 2 * Length => phase = "refused"
                    /\ Len(text) = 2 * Length /\ (\A j \in DOMAIN text : text[j] \in Digits)
                         => phase = "made" /\ Hex(raw) = text
  BY DEF TextKept
<1>1. /\ text \in Texts /\ phase \in {"made", "refused"}
      /\ phase = "made" => Readable(text) /\ raw \in Parsed(text)
      /\ phase = "refused" => ~Readable(text)
  BY DEF TextInv
<1>2. ASSUME Len(text) # 2 * Length PROVE phase = "refused"
  BY <1>1, <1>2 DEF Readable
<1>3. ASSUME Len(text) = 2 * Length, \A j \in DOMAIN text : text[j] \in Digits
      PROVE  phase = "made" /\ Hex(raw) = text
  <2>1. \A n \in Nat : Len([j \in 1 .. n |-> 0]) = n
    OBVIOUS
  <2>2. 2 * Length \in Nat /\ 2 * Length - 1 \in Nat /\ 2 * Length + 1 \in Nat
    BY OidAssumption
  <2>3. text \in [1 .. 2 * Length -> Chars]
    BY <1>1, <1>3, <2>1, <2>2 DEF Texts
  <2> QED
    BY <1>1, <1>3, <2>3, DigitsRead
<1> QED
  BY <1>2, <1>3

\* A text of digits of the right length is read as the OID that to_hex writes as
\* that text, and a text of another length is refused, whatever the length of
\* an OID is and however many digits there are.
THEOREM TextsAreKept == Spec => []TextKept
BY TextInitInv, TextNextInv, TextInvSuffices, PTL DEF Spec
=============================================================================
