---------------------------- MODULE MCBackupWalk ----------------------------
(* Instances of BackupWalk for TLC. *)
EXTENDS BackupWalk

MCHashKey == <<1>>
MCDateKey == <<2>>
MCOidOf   == [t \in {<<1>>, <<2>>, <<3>>} |-> t[1]]
MCDateOf  == [t \in {<<1>>, <<2>>} |-> t[1]]

Hash(t) == [key |-> MCHashKey, value |-> t]
Date(t) == [key |-> MCDateKey, value |-> t]
Prop(v) == [key |-> <<3>>, value |-> v]

\* A value whose length needs both of its bytes.
Long == <<3, 1, 0, 2, 3>>

\* Blocks with and without a child and a date, with items that come twice, and
\* with texts that are no OID or no date.
Blocks ==
  {Encode(<<0>>, items) : items \in
     {<<>>, <<Hash(<<2>>)>>, <<Hash(<<3>>), Date(<<1>>)>>,
      <<Prop(Long), Date(<<1>>), Hash(<<2>>), Date(<<2>>)>>,
      <<Hash(<<1>>), Prop(<<>>), Hash(<<3>>), Prop(Long)>>,
      <<Hash(Long)>>, <<Hash(<<2>>), Date(<<>>)>>}}

\* A block that ends after its type, in a key, between the bytes of a length,
\* and in a value; and an empty one.
Cut ==
  LET block == Encode(<<0>>, <<Prop(Long), Hash(<<2>>)>>)
  IN  {SubSeq(block, 1, n) : n \in {0, 1, 3, 5, 8, Len(block) - 1}}

MCContents ==
  {[kind |-> "none"], [kind |-> "blob"]} \cup
  {[kind |-> "back", block |-> b] : b \in Blocks \cup Cut}
=============================================================================
