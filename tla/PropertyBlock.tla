--------------------------- MODULE PropertyBlock ----------------------------
(***************************************************************************)
(* The property block of a backup chunk and its decoder, the first half of *)
(* src/src/decoder.cc: a type, then keys and values, each with its length  *)
(* before it.  A block is a sequence of bytes; positions count from 0.     *)
(***************************************************************************)
EXTENDS Integers, Sequences, SequencesExt

CONSTANTS
  Byte,      \* number of values of a byte (256)
  HashKey,   \* the key "hash"
  DateKey,   \* the key "_date"
  OidOf,     \* the texts that OID(std::string) accepts, with their OIDs
  DateOf,    \* the texts that stoll accepts, with their dates
  Zero,      \* the OID of the default constructor
  Unset      \* a date that nothing has set

ASSUME KeyAssumption ==
  /\ Byte \in Nat \ {0}
  /\ HashKey # DateKey
  /\ \A t \in DOMAIN DateOf : DateOf[t] # Unset

Threw == [ok |-> FALSE]

\* Decoder::get_string: get() throws at the end of the block.
GetString(block, at, len) ==
  IF at + len <= Len(block)
  THEN [ok |-> TRUE, str |-> SubSeq(block, at + 1, at + len), at |-> at + len]
  ELSE Threw

Get8(block, at) ==
  IF at < Len(block) THEN GetString(block, at + 1, block[at + 1]) ELSE Threw

\* The length has two bytes, the high one first.
Get16(block, at) ==
  IF at + 1 < Len(block)
  THEN GetString(block, at + 2, Byte * block[at + 1] + block[at + 2])
  ELSE Threw

\* The loop of decode_property, from a position on.
Items(block, start) ==
  LET items[at \in 0 .. Len(block)] ==
        LET key   == Get8(block, at)
            value == IF key.ok THEN Get16(block, key.at) ELSE Threw
            more  == IF value.ok THEN items[value.at] ELSE Threw
        IN  CASE at = Len(block) -> [ok |-> TRUE, items |-> <<>>]
              [] more.ok  -> [ok |-> TRUE, items |->
                    <<[key |-> key.str, value |-> value.str]>> \o more.items]
              [] OTHER -> Threw
  IN  items[start]

\* decode_property: the type, and what add_property is called with.
Decode(block) ==
  LET type == Get8(block, 0)
      rest == IF type.ok THEN Items(block, type.at) ELSE Threw
  IN  IF rest.ok THEN [ok |-> TRUE, type |-> type.str, items |-> rest.items] ELSE Threw

-----------------------------------------------------------------------------
\* A BackNode begins with the OID of its default constructor and no date.
NewNode == [ok |-> TRUE, oid |-> Zero, date |-> Unset, props |-> << >>]

\* Fault: a property that is there keeps its value.
AddPropertyOnce(node, item) ==
  IF ~node.ok \/ item.key \in DOMAIN node.props THEN node
  ELSE IF item.key = DateKey
  THEN IF item.value \in DOMAIN DateOf
       THEN [node EXCEPT !.date = DateOf[item.value]] ELSE Threw
  ELSE IF item.key = HashKey
  THEN IF item.value \in DOMAIN OidOf
       THEN [node EXCEPT !.oid = OidOf[item.value]] ELSE Threw
  ELSE [node EXCEPT !.props =
          [k \in DOMAIN node.props \cup {item.key} |->
             IF k = item.key THEN item.value ELSE node.props[k]]]

\* BackNode::add_property.  OID(value) and stoll throw for texts that they do
\* not accept.
AddProperty(node, item) ==
  IF ~node.ok THEN node
  ELSE IF item.key = DateKey
  THEN IF item.value \in DOMAIN DateOf
       THEN [node EXCEPT !.date = DateOf[item.value]] ELSE Threw
  ELSE IF item.key = HashKey
  THEN IF item.value \in DOMAIN OidOf
       THEN [node EXCEPT !.oid = OidOf[item.value]] ELSE Threw
  ELSE [node EXCEPT !.props =
          [k \in DOMAIN node.props \cup {item.key} |->
             IF k = item.key THEN item.value ELSE node.props[k]]]

\* What walk_back makes of a block, item by item; not ok if it throws.
BackNode(block) ==
  LET d == Decode(block)
      node[i \in 0 .. Len(d.items)] ==
        IF i = 0 THEN NewNode ELSE AddProperty(node[i - 1], d.items[i])
  IN  IF d.ok THEN node[Len(d.items)] ELSE Threw

-----------------------------------------------------------------------------
(* The format, for the properties: what a block of some items looks like *)

Encode8(str)  == <<Len(str)>> \o str
Encode16(str) == <<Len(str) \div Byte, Len(str) % Byte>> \o str
EncodeItem(item) == Encode8(item.key) \o Encode16(item.value)
Encode(type, items) ==
  Encode8(type) \o FlattenSeq([i \in DOMAIN items |-> EncodeItem(items[i])])

\* The values that the last items of a key have: one, or none.
LastOf(items, key) ==
  {items[i].value : i \in {j \in DOMAIN items :
     items[j].key = key /\ \A k \in DOMAIN items : items[k].key = key => k <= j}}
=============================================================================
