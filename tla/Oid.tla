-------------------------------- MODULE Oid ---------------------------------
(***************************************************************************)
(* The values of src/src/oid.hh and oid.cc: Length bytes in the order of   *)
(* memcmp, made from a text of hexadecimal digits, and moved by one, up or *)
(* down, with a loop that carries.  A byte has two digits.                 *)
(***************************************************************************)
EXTENDS Integers, Sequences

CONSTANTS
  Digit,   \* number of values of a digit (16)
  Length   \* hash_length (20)

ASSUME OidAssumption ==
  /\ Digit \in Nat \ {0, 1}
  /\ Length \in Nat \ {0}

\* The characters of a text: digits, as their values, those that the extraction
\* of a number gives another meaning to, and the rest.
Digits == 0 .. (Digit - 1)
Blank  == Digit
Minus  == Digit + 1
Plus   == Digit + 2
Ex     == Digit + 3
Other  == Digit + 4
Chars  == 0 .. Other

Base   == Digit * Digit
Places == 0 .. (Length - 1)
Bytes  == 0 .. (Base - 1)
Oids   == [Places -> Bytes]

Lowest  == [p \in Places |-> 0]
Highest == [p \in Places |-> Base - 1]

VARIABLES
  raw,     \* the bytes
  phase,   \* "made" or "refused" by a constructor, "moving" in tweak, "moved"
  pos,     \* the place that the loop of tweak is at
  adjust,  \* 1 or -1
  before,  \* history: the bytes when it started
  text     \* history: what the constructor was given

vars == <<raw, phase, pos, adjust, before, text>>
-----------------------------------------------------------------------------
(* Text *)

\* What extracting a hexadecimal `unsigned` from two characters gives, as a
\* byte: all values for one that was not assigned, none if the extraction ends
\* before the second character, which is what the constructor throws for.  A
\* failed extraction that is at the end gives 0, and is not noticed.
Pair(c, d) ==
  CASE c \in Digits /\ d \in Digits          -> {c * Digit + d}
    [] c \in {Blank, Plus} /\ d \in Digits   -> {d}
    [] c = Minus /\ d \in Digits             -> {(-d) % Base}
    [] c = 0 /\ d = Ex                       -> {0}
    [] c = Blank /\ d \in {Minus, Plus}      -> {0}
    [] c = Blank /\ d = Blank                -> Bytes
    [] OTHER                                 -> {}

\* Fault: every pair starts one character on from the pair before.
ParsedSliding(t) == {o \in Oids : \A i \in Places : o[i] \in Pair(t[i + 1], t[i + 2])}

\* The OIDs that a text may be read as.
Parsed(t) == {o \in Oids : \A i \in Places : o[i] \in Pair(t[2 * i + 1], t[2 * i + 2])}

\* The length is looked at first, and then one pair after the other.
Readable(t) == Len(t) = 2 * Length /\ \A i \in Places : Pair(t[2 * i + 1], t[2 * i + 2]) # {}

\* to_hex.
Hex(o) ==
  [j \in 1 .. 2 * Length |->
     LET byte == o[(j - 1) \div 2]
     IN  IF j % 2 = 1 THEN byte \div Digit ELSE byte % Digit]

\* All texts of the right length, and one of each length next to it: of the
\* others nothing but the length is looked at.
Texts ==
  [1 .. 2 * Length -> Chars] \cup
  {[j \in 1 .. n |-> 0] : n \in {2 * Length - 1, 2 * Length + 1}}

\* An OID that is made from a text, or is the hash of some data.  "refused": the
\* constructor threw.
Init ==
  /\ \/ text = <<>> /\ raw \in Oids /\ phase = "made"
     \/ text \in Texts /\ Readable(text) /\ raw \in Parsed(text) /\ phase = "made"
     \/ text \in Texts /\ ~Readable(text) /\ raw = Lowest /\ phase = "refused"
  /\ before = raw
  /\ pos = 0 /\ adjust = 1
-----------------------------------------------------------------------------
(* Moving by one *)

\* operator++ and operator--.
Start(a) ==
  /\ phase \in {"made", "moved"}
  /\ phase' = "moving"
  /\ pos' = Length - 1 /\ adjust' = a
  /\ before' = raw /\ text' = <<>>
  /\ raw' = raw

\* The value that a byte has wrapped around to.
Stop == IF adjust = 1 THEN 0 ELSE Base - 1

Tmp == (raw[pos] + adjust) % Base

Carry ==
  /\ phase = "moving" /\ Tmp = Stop /\ pos # 0
  /\ raw' = [raw EXCEPT ![pos] = Tmp]
  /\ pos' = pos - 1
  /\ UNCHANGED <<phase, adjust, before, text>>

\* Fault: after a carry the loop ends at the first byte without adjusting it.
FinishEarly ==
  /\ phase = "moving" /\ (Tmp # Stop \/ pos = 0)
  /\ raw' = IF pos = 0 THEN raw ELSE [raw EXCEPT ![pos] = Tmp]
  /\ phase' = "moved"
  /\ UNCHANGED <<pos, adjust, before, text>>

Finish ==
  /\ phase = "moving" /\ (Tmp # Stop \/ pos = 0)
  /\ raw' = [raw EXCEPT ![pos] = Tmp]
  /\ phase' = "moved"
  /\ UNCHANGED <<pos, adjust, before, text>>

Next ==
  \/ \E a \in {1, -1} : Start(a)
  \/ Carry \/ Finish

Spec == Init /\ [][Next]_vars
-----------------------------------------------------------------------------
(* Properties *)

TypeOK ==
  /\ raw \in Oids /\ before \in Oids
  /\ phase \in {"made", "refused", "moving", "moved"}
  /\ pos \in Places /\ adjust \in {1, -1}

\* operator<, which is memcmp.
Less(a, b) == \E p \in Places : a[p] < b[p] /\ \A q \in 0 .. (p - 1) : a[q] = b[q]

\* b comes right after a; the lowest comes after the highest.
Follows(a, b) ==
  \/ a = Highest /\ b = Lowest
  \/ Less(a, b) /\ \A x \in Oids : ~(Less(a, x) /\ Less(x, b))

\* The loop that carries agrees with the order that memcmp gives: ++ goes to the
\* next OID in that order, -- to the one before, and both wrap around.
TweakIsNext ==
  phase = "moved" => IF adjust = 1 THEN Follows(before, raw) ELSE Follows(raw, before)

\* A text of digits, of the right length, is read as the OID that is written as
\* that text; one of another length is refused.
TextKept ==
  text # <<>> =>
    /\ Len(text) # 2 * Length => phase = "refused"
    /\ Len(text) = 2 * Length /\ (\A j \in DOMAIN text : text[j] \in Digits)
         => phase = "made" /\ Hex(raw) = text

\* What a byte has before it wraps around.
Last == IF adjust = 1 THEN Base - 1 ELSE 0

\* From `p` on, the bytes have wrapped around.
Wrapped(p) == \A q \in Places : q >= p => raw[q] = Stop /\ before[q] = Last
Same(p)    == \A q \in Places : q < p => raw[q] = before[q]

\* The places behind the loop have wrapped around, and those before it are as
\* they were; at the end, the place where it ended has moved by one.
LoopInv ==
  /\ phase = "moving" => Same(pos + 1) /\ Wrapped(pos + 1)
  /\ phase = "moved" =>
       \/ Wrapped(0)
       \/ Same(pos) /\ Wrapped(pos + 1) /\ raw[pos] = before[pos] + adjust
=============================================================================
