----------------------------- MODULE FileIndex -----------------------------
(***************************************************************************)
(* The index of one data file, src/src/index.cc: a table in memory for     *)
(* what was inserted, and vectors, loaded from the index file, that are    *)
(* searched by bisection between bounds that `tops` gives for the first    *)
(* byte of the OID.                                                        *)
(*                                                                         *)
(* An OID is a number; First gives its first byte.  A kind is a number     *)
(* too, ordered as Kind's operator<.                                       *)
(***************************************************************************)
EXTENDS Integers, Sequences, FiniteSets, SequencesExt

CONSTANTS
  Oids,       \* the keys
  Tops,       \* number of values of a byte (256)
  First,      \* First[k]: peek_first of OID k
  Kinds,      \* the kinds of chunks
  KindBytes,  \* number of values of the byte that stands for a kind (256)
  Samples,    \* the nodes a client inserts
  Sizes,      \* the data file sizes a client names
  Absent,     \* not a node
  MaxKeys     \* bound: keys in an index file

ASSUME OidAssumption ==
  /\ Oids \subseteq Nat /\ IsFiniteSet(Oids)
  /\ Tops \in Nat \ {0}
  /\ First \in [Oids -> 0 .. (Tops - 1)]
  /\ \A j, k \in Oids : j <= k => First[j] <= First[k]

ASSUME NodeAssumption ==
  /\ Kinds \subseteq Nat
  /\ KindBytes \in Nat \ {0}
  /\ Samples \subseteq [offset : Nat, kind : Kinds]
  /\ Absent \notin Samples /\ Absent \notin Sizes

VARIABLES
  ram,     \* what was inserted since the last load
  fdata,   \* FileData: the vectors that were loaded
  disk,    \* the index file
  broken   \* a load failed half way, and left fdata's vectors out of step

vars == <<ram, fdata, disk, broken>>

Node    == [offset : Nat, kind : Kinds]
Nothing == [k \in Oids |-> Absent]
NoData  == [tops |-> <<>>, hashes |-> <<>>, offsets |-> <<>>, kind_map |-> <<>>,
            kinds |-> <<>>]

\* How much of an index file there is.
Cuts    == {"whole", "no header", "no body"}
NoDisk  == [size |-> Absent, cut |-> "whole", content |-> NoData]

-----------------------------------------------------------------------------
(* Searching *)

\* The bounds of the bisection, as places counted from 0: low and high.
Bounds(d) == (0 .. Len(d.hashes)) \X (-1 .. (Len(d.hashes) - 1))
Middle(b) == b[1] + ((b[2] - b[1]) \div 2)

\* Fault: the bisection ends when one place is left.
BisectShort(d, k) ==
  LET probe[b \in Bounds(d)] ==
        IF b[2] <= b[1] THEN 0
        ELSE IF k < d.hashes[Middle(b) + 1] THEN probe[<<b[1], Middle(b) - 1>>]
        ELSE IF k > d.hashes[Middle(b) + 1] THEN probe[<<Middle(b) + 1, b[2]>>]
        ELSE Middle(b) + 1
  IN  probe

\* The place of k among the hashes between the bounds, counted from 1, or 0.
Bisect(d, k) ==
  LET probe[b \in Bounds(d)] ==
        IF b[2] < b[1] THEN 0
        ELSE IF k < d.hashes[Middle(b) + 1] THEN probe[<<b[1], Middle(b) - 1>>]
        ELSE IF k > d.hashes[Middle(b) + 1] THEN probe[<<Middle(b) + 1, b[2]>>]
        ELSE Middle(b) + 1
  IN  probe

\* The place of k among the hashes, counted from 1, or 0.  tops[b + 1] is the
\* number of hashes with a first byte of at most b.
Search(d, k) ==
  Bisect(d, k)[<<IF First[k] > 0 THEN d.tops[First[k]] ELSE 0, d.tops[First[k] + 1] - 1>>]

\* FileData::find.
FoundIn(d, k) ==
  LET i == IF Len(d.tops) # Tops THEN 0 ELSE Search(d, k)
  IN  IF i = 0 THEN Absent
      ELSE [offset |-> d.offsets[i], kind |-> d.kind_map[d.kinds[i] + 1]]

\* FileIndex::find.
Lookup(k) == IF ram[k] # Absent THEN ram[k] ELSE FoundIn(fdata, k)

-----------------------------------------------------------------------------
(* Saving *)

\* A sequence of numbers, sorted: at each place is the one with fewer places
\* below it and no fewer up to it.
Below(s, k)  == Cardinality({j \in DOMAIN s : s[j] < k})
UpTo(s, k)   == Cardinality({j \in DOMAIN s : s[j] <= k})
Ascending(s) == [i \in DOMAIN s |-> CHOOSE k \in Range(s) : Below(s, k) < i /\ i <= UpTo(s, k)]

RamKeys == {k \in Oids : ram[k] # Absent}

\* Fault: the keys are left in the order they were found in.
KeysUnsorted == Ascending(SetToSeq(RamKeys)) \o fdata.hashes

\* SortedIterator: the keys of both parts, sorted.  A key of both is there twice.
Keys == Ascending(SetToSeq(RamKeys) \o fdata.hashes)

\* Saver::compute_tops: `it` moves on for as long as the first byte allows.
ComputeTops(keys) ==
  LET past[top \in 0 .. (Tops - 1)] ==
        LET it == IF top = 0 THEN 0 ELSE past[top - 1]
        IN  CHOOSE num \in it .. Len(keys) :
              /\ \A i \in (it + 1) .. num : First[keys[i]] <= top
              /\ num = Len(keys) \/ First[keys[num + 1]] > top
  IN  [i \in 1 .. Tops |-> past[i - 1]]

\* Fault: a key that is there again keeps the offset that was loaded.
OffsetsLoaded(keys) ==
  [i \in DOMAIN keys |-> IF FoundIn(fdata, keys[i]) # Absent
                         THEN FoundIn(fdata, keys[i]).offset
                         ELSE Lookup(keys[i]).offset]

\* first_pass: one look-up for each key, and the kinds that occur.
Offsets(keys) == [i \in DOMAIN keys |-> Lookup(keys[i]).offset]
KindMap(keys) == Ascending(SetToSeq({Lookup(keys[i]).kind : i \in DOMAIN keys}))

\* Fault: the kinds are counted from 1.
KindBytesFromOne(keys) ==
  LET kind_map == KindMap(keys)
  IN  [i \in DOMAIN keys |-> CHOOSE n \in DOMAIN kind_map : kind_map[n] = Lookup(keys[i]).kind]

\* write_kinds: the place of each key's kind, counted from 0, as a byte.
KindBytesOf(keys) ==
  LET kind_map == KindMap(keys)
      place(kind) == (CHOOSE n \in DOMAIN kind_map : kind_map[n] = kind) - 1
  IN  [i \in DOMAIN keys |-> place(Lookup(keys[i]).kind) % KindBytes]

\* What Saver writes behind the header.
Content(keys) ==
  [tops |-> ComputeTops(keys), hashes |-> keys, offsets |-> Offsets(keys),
   kind_map |-> KindMap(keys), kinds |-> KindBytesOf(keys)]

\* Saver::save writes a temporary file and renames it.  An exception on the
\* way leaves the index file as it was; that is no step here.  But the last
\* of the data is written when the stream is destroyed, where a failure is
\* not seen: the file that is renamed may be cut short.
Save(size) ==
  /\ ~broken
  /\ Len(Keys) <= MaxKeys
  /\ LET content == Content(Keys)
     IN  \E cut \in Cuts : disk' = [size |-> size, cut |-> cut, content |-> content]
  /\ UNCHANGED <<ram, fdata, broken>>

-----------------------------------------------------------------------------
(* Inserting and loading *)

\* unordered_map::insert keeps the node that is there.
Insert(k, n) ==
  /\ ~broken
  /\ ram' = [ram EXCEPT ![k] = IF @ = Absent THEN n ELSE @]
  /\ UNCHANGED <<fdata, disk, broken>>

Load(size) ==
  /\ ~broken
  /\ disk.size = size /\ disk.cut = "whole"
  /\ ram' = Nothing
  /\ fdata' = disk.content
  /\ UNCHANGED <<disk, broken>>

\* index_error: there is no file, or its size is another.  A file without a
\* whole header makes the stream throw instead.  In each case the table in
\* memory has been cleared before, and the vectors are left alone.
LoadRefused(size) ==
  /\ ~broken
  /\ disk.size # size \/ disk.cut = "no header"
  /\ ram' = Nothing
  /\ UNCHANGED <<fdata, disk, broken>>

\* The stream throws while the vectors are read.  Some are new and some old.
\* What is done with such an index afterwards (the pool stays dirty, and its
\* destructor saves it again) is the subject of PoolFaults; here only another
\* object goes on.
LoadFails(size) ==
  /\ ~broken
  /\ disk.size = size /\ disk.cut = "no body"
  /\ ram' = Nothing
  /\ fdata' = NoData
  /\ broken' = TRUE
  /\ UNCHANGED disk

\* Another FileIndex, of this process or of a later one.
Renew ==
  /\ ram' = Nothing /\ fdata' = NoData /\ broken' = FALSE
  /\ UNCHANGED disk

-----------------------------------------------------------------------------
(* Specification *)

Init == ram = Nothing /\ fdata = NoData /\ disk = NoDisk /\ broken = FALSE

Next ==
  \/ \E k \in Oids, n \in Samples : Insert(k, n)
  \/ \E size \in Sizes : Save(size) \/ Load(size) \/ LoadRefused(size) \/ LoadFails(size)
  \/ Renew

Spec == Init /\ [][Next]_vars
-----------------------------------------------------------------------------
(* Properties *)

FileData ==
  [tops : Seq(Nat), hashes : Seq(Oids), offsets : Seq(Nat), kind_map : Seq(Kinds),
   kinds : Seq(0 .. (KindBytes - 1))]

TypeOK ==
  /\ ram \in [Oids -> Samples \cup {Absent}]
  /\ fdata \in FileData
  /\ disk \in [size : Sizes \cup {Absent}, cut : Cuts, content : FileData]
  /\ broken \in BOOLEAN

\* load takes the length of each vector from tops[255], and find looks up
\* offsets, kinds and kind_map at the places it computes: whatever sessions
\* wrote the file, no access is out of bounds, the hashes are in order, and
\* tops divides them by their first byte.
VectorsAgree ==
  LET d == disk.content
  IN  disk # NoDisk =>
        /\ Len(d.tops) = Tops /\ d.tops[Tops] = Len(d.hashes)
        /\ Len(d.offsets) = Len(d.hashes) /\ Len(d.kinds) = Len(d.hashes)
        /\ \A i \in DOMAIN d.hashes : d.kinds[i] < Len(d.kind_map)
        /\ \A i, j \in DOMAIN d.hashes : i <= j => d.hashes[i] <= d.hashes[j]
        /\ \A b \in 1 .. Tops, i \in DOMAIN d.hashes :
             i <= d.tops[b] <=> First[d.hashes[i]] < b

\* The bisection finds every loaded key, at a place where it is, and no other:
\* with keys there twice, first bytes without keys, and an empty index.
SearchExact ==
  fdata # NoData =>
    \A k \in Oids :
      LET i == Search(fdata, k)
      IN  IF i = 0 THEN k \notin Range(fdata.hashes)
          ELSE i \in DOMAIN fdata.hashes /\ fdata.hashes[i] = k

\* The vectors and the table in memory are the two-part map of IndexMap, and
\* an index file holds the map that was saved.
Loaded == [k \in Oids |-> FoundIn(fdata, k)]
Stored == [k \in Oids |-> IF disk = NoDisk THEN Absent ELSE FoundIn(disk.content, k)]

Map == INSTANCE IndexMap WITH
         new <- ram, old <- Loaded, broken <- broken,
         saved <- [map |-> Stored, size |-> disk.size, whole |-> disk.cut = "whole"]

MapSpec == Map!Spec
=============================================================================
