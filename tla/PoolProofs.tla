----------------------------- MODULE PoolProofs -----------------------------
(* Proofs about Pool: the inductive invariant of PoolInv, and from it the    *)
(* exactness of every index that is accepted or in memory.                  *)
EXTENDS PoolInv, WellFoundedInduction, TLAPS

-----------------------------------------------------------------------------
(* Arithmetic of record sizes and of `unsigned` *)

\* Wrapping gives a natural number no larger than its argument, and leaves
\* alone what fits.
LEMMA WrapFacts ==
  ASSUME NEW n \in Nat
  PROVE  /\ Wrap(n) \in Nat
         /\ Wrap(n) <= n
         /\ Wrap(n) < Width
         /\ n < Width => Wrap(n) = n
BY LimitAssumption DEF Wrap

\* Facts about multiplication and division, in the form used below.
LEMMA DivMod ==
  ASSUME NEW n \in Nat, NEW k \in Nat \ {0}
  PROVE  /\ n \div k \in Nat /\ n % k \in Nat /\ n % k < k
         /\ n = (k * (n \div k)) + (n % k)
OBVIOUS

LEMMA DivUnique ==
  ASSUME NEW k \in Nat \ {0}, NEW q \in Nat, NEW r \in Nat, r < k,
         NEW m \in Nat, m = (k * q) + r
  PROVE  m \div k = q
OBVIOUS

LEMMA Distributes ==
  ASSUME NEW k \in Nat, NEW x \in Nat, NEW y \in Nat
  PROVE  /\ k * x \in Nat
         /\ k * (x + y) = (k * x) + (k * y)
         /\ k * (x + y + 1) = (k * x) + (k * y) + k
         /\ x * k = k * x
OBVIOUS

\* Padding the sum and padding the second summand agree, if the first needs
\* no padding.
LEMMA PaddingAgrees ==
  ASSUME NEW k \in Nat \ {0}, NEW m \in Nat, m % k = 0, NEW n \in Nat
  PROVE  /\ ((m + n + k - 1) \div k) * k = m + n + ((k - (n % k)) % k)
         /\ (k - (n % k)) % k \in Nat
<1>1. PICK h \in Nat : m = (k * h)
  <2>1. m \div k \in Nat /\ m = (k * (m \div k)) + (m % k)
    BY DivMod
  <2>2. m = (k * (m \div k))
    BY <2>1, Distributes
  <2> QED BY <2>1, <2>2
<1>2. PICK q \in Nat, r \in Nat : r = n % k /\ r < k /\ n = (k * q) + r
  BY DivMod
<1>3. (k - r) % k = IF r = 0 THEN 0 ELSE k - r
  <2>1. CASE r = 0
    BY <2>1
  <2>2. CASE r # 0
    BY <1>2, <2>2
  <2> QED BY <2>1, <2>2
<1>4. ((m + n + k - 1) \div k) * k = m + n + (IF r = 0 THEN 0 ELSE k - r)
  <2> DEFINE s == m + n + k - 1
  <2>1. k * h \in Nat /\ k * q \in Nat /\ s \in Nat
    BY Distributes
  <2>2. CASE r = 0
    <3>1. s = (k * (h + q)) + (k - 1)
      BY <1>1, <1>2, <2>1, <2>2, Distributes
    <3>2. s \div k = h + q
      <4> HIDE DEF s
      <4> QED BY <3>1, <2>1, DivUnique
    <3>3. (h + q) * k = (k * h) + (k * q)
      BY Distributes
    <3> QED BY <3>2, <3>3, <1>1, <1>2, <2>1, <2>2
  <2>3. CASE r > 0
    <3>1. s = (k * (h + q + 1)) + (r - 1)
      BY <1>1, <1>2, <2>1, <2>3, Distributes
    <3>2. s \div k = h + q + 1
      <4> DEFINE t == h + q + 1
                 u == r - 1
      <4>1. t \in Nat /\ u \in Nat /\ u < k /\ s = (k * t) + u
        BY <3>1, <1>2, <2>3
      <4> HIDE DEF s, t, u
      <4>2. s \div k = t
        BY <4>1, <2>1, DivUnique
      <4> QED BY <4>2 DEF t
    <3>3. (h + q + 1) * k = (k * h) + (k * q) + k
      BY Distributes
    <3> QED BY <3>2, <3>3, <1>1, <1>2, <2>1, <2>3
  <2> QED BY <2>2, <2>3
<1>5. (IF r = 0 THEN 0 ELSE k - r) \in Nat
  BY <1>2
<1> QED BY <1>2, <1>3, <1>4, <1>5, Zenon

\* The two ways chunk.cc computes the space a record takes agree.
LEMMA SizesAgree ==
  ASSUME NEW c \in Chunks
  PROVE  /\ Written(c) \in Nat /\ Written(c) > 0 /\ Written(c) >= HeaderSize
         /\ WriteSize(c) = Written(c)
<1>1. /\ Payload[c] \in Nat /\ Align \in Nat \ {0}
      /\ HeaderSize \in Nat /\ HeaderSize > 0 /\ HeaderSize % Align = 0
  BY LayoutAssumption
<1>2. WriteSize(c) = Written(c)
  BY <1>1, PaddingAgrees, Zenon DEF WriteSize, Written, Padded, PadLen
<1>3. PadLen(Payload[c]) \in Nat
  BY <1>1, PaddingAgrees, Zenon DEF PadLen
<1> QED BY <1>1, <1>2, <1>3 DEF Written

\* A position is a natural number below the bound on files.
LEMMA PositionFacts ==
  ASSUME NEW p PROVE p \in Positions <=> p \in Nat /\ p < MaxFiles
BY LimitAssumption DEF Positions

-----------------------------------------------------------------------------
(* Types.  That truncating a file leaves it a natural length rests on the    *)
(* layout, so type correctness is part of the inductive invariant.           *)

\* FileIndex operations keep entries entries.
LEMMA EntriesType ==
  /\ NoEntries \in Entries
  /\ \A e \in Entries, c \in Chunks, off \in Nat : PutAbsent(e, c, off) \in Entries
  /\ \A f \in OpenFile : Merge(f) \in Entries
<1>1. NoEntries \in Entries
  BY DEF NoEntries, Entries, NoOffset
<1>2. ASSUME NEW e \in Entries, NEW c \in Chunks, NEW off \in Nat
      PROVE  PutAbsent(e, c, off) \in Entries
  BY DEF PutAbsent, Entries
<1>3. ASSUME NEW f \in OpenFile
      PROVE  Merge(f) \in Entries
  BY DEF Merge, Entries, OpenFile
<1> QED BY <1>1, <1>2, <1>3

\* The initial and default values have their types.
LEMMA DefaultTypes ==
  /\ NoFile \in OpenFile
  /\ EmptyData \in DataFile
  /\ NoIndex \in IndexFile
  /\ \A p \in Nat : ScanOf(p) \in Scan
BY EntriesType
   DEF NoFile, OpenFile, EmptyData, DataFile, NoIndex, IndexFile, ScanOf, Scan

\* What flush leaves of a file, and writes.
LEMMA FlushTypes ==
  ASSUME NEW f \in OpenFile
  PROVE  FlushedFile(f) \in OpenFile /\ FlushedIndex(f) \in IndexFile
<1>1. Merge(f) \in Entries /\ NoEntries \in Entries
  BY EntriesType
<1> QED BY <1>1 DEF FlushedFile, FlushedIndex, OpenFile, IndexFile

\* A file cut to a natural length is a data file.
LEMMA TruncatedType ==
  ASSUME NEW f \in DataFile, NEW n \in Nat
  PROVE  Truncated(f, n) \in DataFile
<1>1. ASSUME NEW r \in f.recs, r.at < n
      PROVE  [at |-> r.at, chunk |-> r.chunk,
              have |-> IF r.at + r.have <= n THEN r.have ELSE n - r.at] \in Record
  BY <1>1 DEF DataFile, Record
<1> QED BY <1>1 DEF Truncated, DataFile

\* A file with one more record is a data file.
LEMMA AppendedType ==
  ASSUME NEW f \in DataFile, NEW c \in Chunks
  PROVE  Appended(f, c) \in DataFile
<1>1. [at |-> f.len, chunk |-> c, have |-> Written(c)] \in Record
  BY SizesAgree DEF Record, DataFile
<1> QED BY <1>1, SizesAgree DEF Appended, DataFile

\* Put keeps the types of everything it assigns.
LEMMA PutType ==
  ASSUME TypeOK,
         NEW c \in Chunks, NEW p \in Positions, NEW f \in OpenFile,
         NEW pend \in Nat, NEW opened \in [Positions -> OpenFile],
         Put(c, p, f, pend, opened)
  PROVE  /\ data' \in [Positions -> DataFile]
         /\ files' \in [Positions -> OpenFile]
         /\ pending' \in Nat
         /\ acked' \in SUBSET Chunks
         /\ suspect' \in SUBSET Positions
         /\ dirty' \in BOOLEAN /\ firstNew' \in BOOLEAN
         /\ newfile' \in BOOLEAN /\ mode' \in Modes
         /\ scan' \in Scan /\ base' \in Nat
<1> DEFINE size == Wrap(f.size + WriteSize(c))
           off == f.size
           new == IF f.bad THEN data[p] ELSE Appended(data[p], c)
<1>1. data[p] \in DataFile /\ WriteSize(c) \in Nat /\ Written(c) \in Nat /\ f.size \in Nat
  BY SizesAgree DEF TypeOK, OpenFile
<1>2. size \in Nat
  BY <1>1, WrapFacts
<1>3. new \in DataFile
  BY <1>1, AppendedType
<1>4. PutAbsent(f.ram, c, off) \in Entries
  BY <1>1, EntriesType DEF OpenFile
<1>5. data' \in [Positions -> DataFile]
  <2> HIDE DEF new
  <2>1. data' = [data EXCEPT ![p] = new]
    BY DEF Put, new
  <2> QED BY <1>3, <2>1 DEF TypeOK
<1>6. files' \in [Positions -> OpenFile]
  <2>1. [f EXCEPT !.ram = PutAbsent(f.ram, c, off), !.size = size] \in OpenFile
    BY <1>2, <1>4 DEF OpenFile
  <2> HIDE DEF size
  <2>2. files' = [opened EXCEPT ![p] =
                    [f EXCEPT !.ram = PutAbsent(f.ram, c, off), !.size = size]]
    BY DEF Put, size
  <2> QED BY <2>1, <2>2
<1>7. pending' \in Nat /\ acked' \in SUBSET Chunks /\ suspect' \in SUBSET Positions
  BY <1>1 DEF Put, TypeOK
<1> QED BY <1>5, <1>6, <1>7 DEF Put, TypeOK

\* A Pool object that is gone has well-typed leavings.
LEMMA GoneType ==
  ASSUME Gone
  PROVE  /\ mode' \in Modes /\ files' \in [Positions -> OpenFile]
         /\ nopen' \in Nat /\ dirty' \in BOOLEAN /\ firstNew' \in BOOLEAN
         /\ pending' \in Nat /\ scan' \in Scan /\ acked' \in SUBSET Chunks
         /\ base' \in Nat
BY DefaultTypes DEF Gone, Modes

\* The front file of an open pool has a position.
LEMMA FrontFacts ==
  ASSUME TypeOK, SessionInv
  PROVE  /\ nopen > 0 => Front \in Positions
         /\ Visible \in Nat /\ Visible <= ndata /\ Visible <= NameLimit
         /\ \A p \in Nat : p < Visible => p \in Positions
         /\ ndata <= NameLimit => Visible = ndata
         /\ ndata > NameLimit => Visible = NameLimit
BY LimitAssumption DEF TypeOK, SessionInv, Front, Visible, Positions

\* The file a session opens, and the two ways insert goes on with one.
LEMMA LoadedType ==
  ASSUME TypeOK, NEW p \in Positions
  PROVE  /\ Loaded(p) \in OpenFile
         /\ [NoFile EXCEPT !.size = Wrap(data[p].len)] \in OpenFile
         /\ [files[p] EXCEPT !.bad = FALSE] \in OpenFile
<1>1. data[p].len \in Nat /\ idx[p].entries \in Entries /\ files[p] \in OpenFile
  BY DEF TypeOK, DataFile, IndexFile
<1>2. Wrap(data[p].len) \in Nat
  BY <1>1, WrapFacts
<1> QED BY <1>1, <1>2, EntriesType, DefaultTypes DEF Loaded, OpenFile

\* Every action keeps TypeOK.
LEMMA TypeStep ==
  ASSUME TypeOK, SessionInv, LayoutInv, ScanInv, [Next]_vars
  PROVE  TypeOK'
<1> USE DEF diskVars, sessionVars, historyVars
<1>1. ASSUME NEW w \in BOOLEAN, OpenPool(w) PROVE TypeOK'
  <2>1. mode' \in Modes
    BY <1>1 DEF OpenPool, Modes
  <2>2. files' \in [Positions -> OpenFile]
    BY <1>1, LoadedType, DefaultTypes DEF OpenPool
  <2>3. nopen' \in Nat
    BY <1>1, FrontFacts DEF OpenPool
  <2> QED BY <1>1, <2>1, <2>2, <2>3 DEF OpenPool, TypeOK
<1>2. ASSUME NEW c \in Chunks, InsertOpen(c) PROVE TypeOK'
  <2>1. Front \in Positions
    BY <1>2, FrontFacts DEF InsertOpen, SessionInv
  <2>2. files[Front] \in OpenFile /\ pending \in Nat /\ files \in [Positions -> OpenFile]
    BY <2>1 DEF TypeOK
  <2>3. Put(c, Front, files[Front], pending, files)
    BY <1>2 DEF InsertOpen
  <2>4. UNCHANGED <<ndata, idx, nopen, durable>>
    BY <1>2 DEF InsertOpen
  <2> HIDE DEF diskVars, sessionVars, historyVars
  <2>5. /\ data' \in [Positions -> DataFile]
        /\ files' \in [Positions -> OpenFile]
        /\ pending' \in Nat
        /\ acked' \in SUBSET Chunks
        /\ suspect' \in SUBSET Positions
        /\ dirty' \in BOOLEAN /\ firstNew' \in BOOLEAN
        /\ newfile' \in BOOLEAN /\ mode' \in Modes
        /\ scan' \in Scan /\ base' \in Nat
    BY <2>1, <2>2, <2>3, PutType
  <2> QED BY <2>4, <2>5 DEF TypeOK
<1>3. ASSUME NEW c \in Chunks, InsertReopened(c) PROVE TypeOK'
  <2>1. Front \in Positions
    BY <1>3, FrontFacts DEF InsertReopened
  <2>2. [files[Front] EXCEPT !.bad = FALSE] \in OpenFile
    BY <2>1, LoadedType
  <2>3. files \in [Positions -> OpenFile] /\ 0 \in Nat
    BY DEF TypeOK
  <2>4. Put(c, Front, [files[Front] EXCEPT !.bad = FALSE], 0, files)
    BY <1>3 DEF InsertReopened
  <2>5. UNCHANGED <<ndata, idx, nopen, durable>>
    BY <1>3 DEF InsertReopened
  <2> HIDE DEF diskVars, sessionVars, historyVars
  <2>6. /\ data' \in [Positions -> DataFile]
        /\ files' \in [Positions -> OpenFile]
        /\ pending' \in Nat
        /\ acked' \in SUBSET Chunks
        /\ suspect' \in SUBSET Positions
        /\ dirty' \in BOOLEAN /\ firstNew' \in BOOLEAN
        /\ newfile' \in BOOLEAN /\ mode' \in Modes
        /\ scan' \in Scan /\ base' \in Nat
    BY <2>1, <2>2, <2>3, <2>4, PutType
  <2> QED BY <2>5, <2>6 DEF TypeOK
<1>4. ASSUME NEW c \in Chunks, InsertNew(c) PROVE TypeOK'
  <2> DEFINE new == [NoFile EXCEPT !.size = Wrap(data[nopen].len)]
             flushed == [files EXCEPT ![Front] = FlushedFile(files[Front])]
  <2>1. nopen \in Positions
    BY <1>4, PositionFacts DEF InsertNew, TypeOK
  <2>2. new \in OpenFile /\ files \in [Positions -> OpenFile] /\ 0 \in Nat
    BY <2>1, LoadedType DEF TypeOK
  <2>3. CASE dirty
    <3>1. Front \in Positions /\ files[Front] \in OpenFile
      BY <2>3, FrontFacts DEF SessionInv, TypeOK
    <3>2. FlushedFile(files[Front]) \in OpenFile /\ FlushedIndex(files[Front]) \in IndexFile
      BY <3>1, FlushTypes
    <3>3. flushed \in [Positions -> OpenFile]
      BY <3>1, <3>2, <2>2
    <3>4. Put(c, nopen, new, 0, flushed)
      BY <1>4, <2>3 DEF InsertNew
    <3>5. idx' \in [Positions -> IndexFile] /\ durable' \in SUBSET Chunks
      BY <1>4, <2>3, <3>2 DEF InsertNew, TypeOK
    <3>6. nopen' \in Nat /\ ndata' \in Nat
      BY <1>4 DEF InsertNew, TypeOK
    <3> HIDE DEF new, flushed, diskVars, sessionVars, historyVars
    <3>7. /\ data' \in [Positions -> DataFile]
          /\ files' \in [Positions -> OpenFile]
          /\ pending' \in Nat
          /\ acked' \in SUBSET Chunks
          /\ suspect' \in SUBSET Positions
          /\ dirty' \in BOOLEAN /\ firstNew' \in BOOLEAN
          /\ newfile' \in BOOLEAN /\ mode' \in Modes
          /\ scan' \in Scan /\ base' \in Nat
      BY <2>1, <2>2, <3>3, <3>4, PutType
    <3> QED BY <3>5, <3>6, <3>7 DEF TypeOK
  <2>4. CASE ~dirty
    <3>1. Put(c, nopen, new, 0, files)
      BY <1>4, <2>4 DEF InsertNew
    <3>2. idx' \in [Positions -> IndexFile] /\ durable' \in SUBSET Chunks
      BY <1>4, <2>4 DEF InsertNew, TypeOK
    <3>3. nopen' \in Nat /\ ndata' \in Nat
      BY <1>4 DEF InsertNew, TypeOK
    <3> HIDE DEF new, diskVars, sessionVars, historyVars
    <3>4. /\ data' \in [Positions -> DataFile]
          /\ files' \in [Positions -> OpenFile]
          /\ pending' \in Nat
          /\ acked' \in SUBSET Chunks
          /\ suspect' \in SUBSET Positions
          /\ dirty' \in BOOLEAN /\ firstNew' \in BOOLEAN
          /\ newfile' \in BOOLEAN /\ mode' \in Modes
          /\ scan' \in Scan /\ base' \in Nat
      BY <2>1, <2>2, <3>1, PutType
    <3> QED BY <3>2, <3>3, <3>4 DEF TypeOK
  <2> QED BY <2>3, <2>4 DEF TypeOK
<1>5. ASSUME NEW c \in Chunks, Find(c) PROVE TypeOK'
  <2>1. files' \in [Positions -> OpenFile]
    <3> DEFINE p == Newest(Holders(c))
    <3>1. PICK failed \in FailsAfter(p, Merge(files[p])[c]) :
            files' = [files EXCEPT ![p].bad = failed]
      BY <1>5 DEF Find
    <3>2. failed \in BOOLEAN
      BY DEF FailsAfter
    <3> HIDE DEF p
    <3> QED BY <3>1, <3>2 DEF TypeOK, OpenFile
  <2>2. pending' \in Nat
    BY <1>5 DEF Find, TypeOK
  <2> QED BY <1>5, <2>1, <2>2 DEF Find, TypeOK
<1>6. CASE FlushPool
  <2>1. Front \in Positions /\ files[Front] \in OpenFile
    BY <1>6, FrontFacts DEF FlushPool, SessionInv, TypeOK
  <2>2. FlushedFile(files[Front]) \in OpenFile /\ FlushedIndex(files[Front]) \in IndexFile
    BY <2>1, FlushTypes
  <2> QED BY <1>6, <2>2 DEF FlushPool, TypeOK
<1>7. CASE ClosePool
  <2>1. idx' \in [Positions -> IndexFile]
    <3>1. CASE dirty
      <4>1. Front \in Positions /\ files[Front] \in OpenFile
        BY <3>1, FrontFacts DEF SessionInv, TypeOK
      <4>2. FlushedIndex(files[Front]) \in IndexFile
        BY <4>1, FlushTypes
      <4> QED BY <1>7, <3>1, <4>2 DEF ClosePool, TypeOK
    <3> QED BY <1>7, <3>1 DEF ClosePool, TypeOK
  <2>2. durable' \in SUBSET Chunks
    BY <1>7 DEF ClosePool, TypeOK
  <2> QED BY <1>7, <2>1, <2>2, GoneType DEF ClosePool, TypeOK
<1>8. CASE Crash
  <2>1. data' \in [Positions -> DataFile]
    <3>1. PICK lost \in 0 .. pending :
            data' = IF lost = 0 THEN data
                    ELSE [data EXCEPT ![Front] =
                            Truncated(data[Front], data[Front].len - lost)]
      BY <1>8 DEF Crash
    <3>2. CASE lost = 0
      BY <3>1, <3>2 DEF TypeOK
    <3>3. CASE lost # 0
      <4>1. Front \in Positions /\ data[Front] \in DataFile
        BY <3>3, FrontFacts DEF SessionInv, TypeOK
      <4>2. data[Front].len - lost \in Nat
        BY <4>1 DEF LayoutInv, Settled, Pend, TypeOK, DataFile
      <4> QED BY <3>1, <3>3, <4>1, <4>2, TruncatedType DEF TypeOK
    <3> QED BY <3>2, <3>3
  <2> QED BY <1>8, <2>1, GoneType DEF Crash, TypeOK
<1>9. CASE RecoverIndex
  BY <1>9, DefaultTypes DEF RecoverIndex, TypeOK, Modes
<1>10. CASE LoadIndex
  <2>1. scan.file \in Nat /\ scan \in Scan
    BY DEF TypeOK, Scan
  <2>2. ScanOf(scan.file + 1) \in Scan
    BY <2>1, DefaultTypes
  <2>3. [scan EXCEPT !.active = TRUE] \in Scan
    BY <2>1 DEF Scan
  <2> QED BY <1>10, <2>2, <2>3 DEF LoadIndex, TypeOK
<1>11. ASSUME AtHeader
       PROVE  /\ scan.file \in Positions /\ scan.pos \in Nat /\ scan \in Scan
              /\ scan.index \in Entries /\ Here \in SUBSET Record
              /\ ScanSize \in Nat
              /\ \A r \in Here : /\ r.chunk \in Chunks
                                 /\ Wrap(scan.pos + WriteSize(r.chunk)) \in Nat
  <2>1. scan.pos \in Nat /\ scan \in Scan /\ scan.file \in Nat /\ scan.index \in Entries
    BY DEF TypeOK, Scan
  <2>2. scan.file \in Positions
    BY <1>11, <2>1, FrontFacts DEF AtHeader, ScanInv
  <2>3. Here \in SUBSET Record /\ data[scan.file].len \in Nat
    BY <2>2 DEF Here, RecordsAt, TypeOK, DataFile
  <2>4. ScanSize \in Nat
    BY <2>3, WrapFacts DEF ScanSize
  <2>5. ASSUME NEW r \in Here
        PROVE  r.chunk \in Chunks /\ Wrap(scan.pos + WriteSize(r.chunk)) \in Nat
    <3>1. r.chunk \in Chunks
      BY <2>3 DEF Record
    <3>2. WriteSize(r.chunk) \in Nat
      BY <3>1, SizesAgree
    <3> QED BY <2>1, <3>1, <3>2, WrapFacts
  <2> QED BY <2>1, <2>2, <2>3, <2>4, <2>5
<1>12. CASE ReadHeader
  <2>1. PICK r \in Here :
          scan' = [scan EXCEPT !.index = PutAbsent(@, r.chunk, scan.pos),
                               !.pos = Wrap(scan.pos + WriteSize(r.chunk))]
    BY <1>12 DEF ReadHeader
  <2>2. PutAbsent(scan.index, r.chunk, scan.pos) \in Entries
    BY <1>11, <1>12, EntriesType DEF ReadHeader
  <2>3. scan' \in Scan
    BY <1>11, <1>12, <2>1, <2>2 DEF ReadHeader, Scan
  <2> QED BY <1>12, <2>3 DEF ReadHeader, TypeOK
<1>13. CASE ReadTornHeader
  <2>1. PICK r \in Here :
          \E index \in TornEntries(r), next \in StalePositions(r) :
            scan' = [scan EXCEPT !.index = index, !.pos = next, !.garbled = TRUE]
    BY <1>13 DEF ReadTornHeader
  <2>2. AtHeader
    BY <1>13 DEF ReadTornHeader
  <2>3. TornEntries(r) \in SUBSET Entries
    BY <1>11, <2>2, EntriesType DEF TornEntries
  <2>4. StalePositions(r) \in SUBSET Nat
    BY <1>11, <2>2 DEF StalePositions, Scan
  <2>5. scan' \in Scan
    BY <1>11, <2>1, <2>2, <2>3, <2>4 DEF Scan
  <2> QED BY <1>13, <2>5 DEF ReadTornHeader, TypeOK
<1>14. CASE RecoveryThrows
  BY <1>14, GoneType DEF RecoveryThrows, TypeOK
<1>15. CASE SaveIndex
  <2>1. scan.file \in Positions /\ scan.index \in Entries /\ scan.file + 1 \in Nat
    BY <1>15, FrontFacts DEF SaveIndex, ScanInv, TypeOK, Scan
  <2>2. ScanSize \in Nat
    BY <2>1, WrapFacts DEF ScanSize, TypeOK, DataFile
  <2>3. [exists |-> TRUE, size |-> ScanSize, entries |-> scan.index] \in IndexFile
    BY <2>1, <2>2 DEF IndexFile
  <2>4. scan' \in Scan
    BY <1>15, <2>1, DefaultTypes DEF SaveIndex
  <2>5. idx' \in [Positions -> IndexFile] /\ suspect' \in SUBSET Positions
    BY <1>15, <2>1, <2>3 DEF SaveIndex, TypeOK
  <2> QED BY <1>15, <2>4, <2>5 DEF SaveIndex, TypeOK
<1>16. CASE RecoveryEnds
  BY <1>16, GoneType DEF RecoveryEnds, TypeOK
<1>17. CASE UNCHANGED vars
  BY <1>17 DEF vars, TypeOK
<1> QED
  BY <1>1, <1>2, <1>3, <1>4, <1>5, <1>6, <1>7, <1>8, <1>9, <1>10, <1>12,
     <1>13, <1>14, <1>15, <1>16, <1>17
  DEF Next, Insert, RecoveryStep

-----------------------------------------------------------------------------
(* What appending to a file, and cutting it, do to the order of its records  *)
(* and to entries that are exact for it.                                     *)

\* Entries have values that can be compared with a position.
LEMMA EntryType ==
  ASSUME NEW e \in Entries, NEW c \in Chunks
  PROVE  e[c] \in Int /\ (e[c] # NoOffset => e[c] \in Nat)
BY DEF Entries, NoOffset

\* Appending keeps the order; the new record is past all the old ones.
LEMMA AppendOrdered ==
  ASSUME NEW f \in DataFile, NEW s \in Int, Ordered(f, s), NEW c \in Chunks
  PROVE  Ordered(Appended(f, c), f.len)
<1> DEFINE rec == [at |-> f.len, chunk |-> c, have |-> Written(c)]
<1>1. Written(c) \in Nat /\ Written(c) > 0 /\ f.len \in Nat
  BY SizesAgree DEF DataFile
<1>2. \A r \in f.recs : r.at \in Nat /\ r.have \in Nat /\ r.at < f.len
                         /\ r.at + r.have <= f.len /\ r.have > 0
  BY DEF Ordered, DataFile, Record
<1>3. \A q, r \in f.recs : (q.at = r.at => q = r) /\ (q.at < r.at => q.at + q.have <= r.at)
  BY DEF Ordered
<1> QED BY <1>1, <1>2, <1>3 DEF Ordered, Appended

\* When the buffer is emptied, the whole file is settled.
LEMMA SettleOrdered ==
  ASSUME NEW f \in DataFile, NEW s \in Int, Ordered(f, s)
  PROVE  Ordered(f, f.len)
BY DEF Ordered

\* Entries that were exact stay so when a record is appended.
LEMMA AppendExact ==
  ASSUME NEW f \in DataFile, NEW s \in Int, Ordered(f, s), NEW c \in Chunks,
         NEW e \in Entries, NEW u \in Nat, u <= f.len, Exact(f, e, u)
  PROVE  Exact(Appended(f, c), e, u)
<1>1. Locates(Appended(f, c), e)
  BY DEF Exact, Locates, RecordsAt, Appended
<1>2. Covers(Appended(f, c), e, u)
  <2> SUFFICES ASSUME NEW r \in Appended(f, c).recs, r.at < u, WholeHeader(r),
                      Exposed(Appended(f, c), r)
               PROVE  e[r.chunk] # NoOffset
    BY DEF Covers
  <2>1. r \in f.recs
    BY DEF Appended, DataFile
  <2>2. Exposed(f, r)
    BY DEF Exposed, Appended
  <2> QED BY <2>1, <2>2 DEF Exact, Covers
<1> QED BY <1>1, <1>2 DEF Exact

\* The index in memory, exact for the whole file, is exact again once insert
\* has appended the record and put the entry in.
LEMMA PutExact ==
  ASSUME NEW f \in DataFile, NEW s \in Int, Ordered(f, s), NEW c \in Chunks,
         NEW o \in OpenFile, o.size = f.len, Exact(f, Merge(o), f.len),
         NEW size \in Nat
  PROVE  Exact(Appended(f, c),
               Merge([o EXCEPT !.ram = PutAbsent(o.ram, c, o.size), !.size = size]),
               f.len + Written(c))
<1> DEFINE e == Merge(o)
           n == Merge([o EXCEPT !.ram = PutAbsent(o.ram, c, o.size), !.size = size])
           rec == [at |-> f.len, chunk |-> c, have |-> Written(c)]
<1>1. /\ Written(c) \in Nat /\ Written(c) > 0 /\ f.len \in Nat /\ f.len # NoOffset
      /\ e \in Entries
  BY SizesAgree, EntriesType DEF DataFile, NoOffset
<1>2. \A d \in Chunks : d # c => n[d] = e[d]
  BY DEF Merge, PutAbsent, OpenFile, Entries
<1>3. n[c] = e[c] \/ n[c] = f.len
  BY DEF Merge, PutAbsent, OpenFile, Entries
<1>4. n[c] # NoOffset
  BY <1>1 DEF Merge, PutAbsent, OpenFile, Entries
<1>5. rec \in Appended(f, c).recs /\ f.recs \subseteq Appended(f, c).recs
  BY DEF Appended
<1> HIDE DEF e, n
<1>6. Locates(Appended(f, c), n)
  <2> SUFFICES ASSUME NEW d \in Chunks, n[d] # NoOffset
               PROVE  \E r \in RecordsAt(Appended(f, c), n[d]) : r.chunk = d
    BY DEF Locates
  <2>1. CASE n[d] = e[d]
    <3>1. \E r \in RecordsAt(f, e[d]) : r.chunk = d
      BY <2>1 DEF Exact, Locates, e
    <3> QED BY <2>1, <3>1, <1>5 DEF RecordsAt
  <2>2. CASE d = c /\ n[d] = f.len
    BY <2>2, <1>5 DEF RecordsAt
  <2> QED BY <2>1, <2>2, <1>2, <1>3
<1>7. \A d \in Chunks : n[d] < f.len + Written(c)
  <2> SUFFICES ASSUME NEW d \in Chunks
               PROVE  n[d] < f.len + Written(c)
    OBVIOUS
  <2>1. e[d] \in Int /\ e[d] < f.len
    BY <1>1, EntryType DEF Exact, e
  <2> QED BY <2>1, <1>1, <1>2, <1>3
<1>8. Covers(Appended(f, c), n, f.len + Written(c))
  <2> SUFFICES ASSUME NEW r \in Appended(f, c).recs, WholeHeader(r),
                      Exposed(Appended(f, c), r)
               PROVE  n[r.chunk] # NoOffset
    BY DEF Covers
  <2>1. CASE r = rec
    BY <2>1, <1>4
  <2>2. CASE r \in f.recs
    <3>1. Exposed(f, r) /\ r.at < f.len /\ r.chunk \in Chunks
      BY <2>2, <1>5 DEF Exposed, Ordered, DataFile, Record
    <3>2. e[r.chunk] # NoOffset
      BY <2>2, <3>1 DEF Exact, Covers, e
    <3> QED BY <3>1, <3>2, <1>2, <1>4
  <2> QED BY <2>1, <2>2 DEF Appended
<1> QED BY <1>6, <1>7, <1>8 DEF Exact, n

\* What cutting does to one record.
LEMMA TruncatedRecords ==
  ASSUME NEW f \in DataFile, NEW s \in Int, Ordered(f, s),
         NEW n \in Nat, s <= n, n <= f.len
  PROVE  /\ \A r \in Truncated(f, n).recs :
              \E x \in f.recs :
                /\ x.at < n /\ r.at = x.at /\ r.chunk = x.chunk
                /\ r.have > 0 /\ r.have <= x.have /\ r.at + r.have <= n
                /\ x.at + x.have <= n => r = x
                /\ r.have = IF x.at + x.have <= n THEN x.have ELSE n - x.at
         /\ \A x \in f.recs :
              /\ x.at < n =>
                   \E r \in Truncated(f, n).recs : r.at = x.at /\ r.chunk = x.chunk
              /\ x.at + x.have <= n => x \in Truncated(f, n).recs
<1> DEFINE Cut(x) == [at |-> x.at, chunk |-> x.chunk,
                      have |-> IF x.at + x.have <= n THEN x.have ELSE n - x.at]
<1>1. Truncated(f, n).recs = {Cut(x) : x \in {y \in f.recs : y.at < n}}
  BY DEF Truncated
<1>2. ASSUME NEW x \in f.recs
      PROVE  /\ x.at \in Nat /\ x.have \in Nat /\ x.have > 0 /\ x \in Record
             /\ x.at + x.have <= n => x.at < n /\ Cut(x) = x
  <2>1. x.at \in Nat /\ x.have \in Nat /\ x.have > 0 /\ x \in Record
    BY DEF Ordered, DataFile, Record
  <2>2. ASSUME x.at + x.have <= n PROVE x.at < n /\ Cut(x) = x
    BY <2>1, <2>2 DEF Record
  <2> QED BY <2>1, <2>2
<1>3. ASSUME NEW r \in Truncated(f, n).recs
      PROVE  \E x \in f.recs :
                /\ x.at < n /\ r.at = x.at /\ r.chunk = x.chunk
                /\ r.have > 0 /\ r.have <= x.have /\ r.at + r.have <= n
                /\ x.at + x.have <= n => r = x
                /\ r.have = IF x.at + x.have <= n THEN x.have ELSE n - x.at
  <2>1. PICK x \in f.recs : x.at < n /\ r = Cut(x)
    BY <1>1
  <2>2. /\ r.at = x.at /\ r.chunk = x.chunk
        /\ r.have = IF x.at + x.have <= n THEN x.have ELSE n - x.at
    BY <2>1
  <2> QED BY <2>1, <2>2, <1>2
<1>4. ASSUME NEW x \in f.recs
      PROVE  /\ x.at < n =>
                   \E r \in Truncated(f, n).recs : r.at = x.at /\ r.chunk = x.chunk
             /\ x.at + x.have <= n => x \in Truncated(f, n).recs
  <2>1. ASSUME x.at < n PROVE Cut(x) \in Truncated(f, n).recs
    BY <1>1, <2>1
  <2> QED BY <2>1, <1>2
<1> QED BY <1>3, <1>4

\* Cutting inside the part that is not settled keeps the order.
LEMMA TruncateOrdered ==
  ASSUME NEW f \in DataFile, NEW s \in Int, Ordered(f, s),
         NEW n \in Nat, s <= n, n <= f.len
  PROVE  Ordered(Truncated(f, n), n)
<1> DEFINE t == Truncated(f, n)
<1>1. t.len = n
  BY DEF Truncated
<1>2. \A r \in t.recs : r.have > 0 /\ r.at + r.have <= n
  BY TruncatedRecords
<1>3. ASSUME NEW q \in t.recs, NEW r \in t.recs
      PROVE  (q.at = r.at => q = r) /\ (q.at < r.at => q.at + q.have <= r.at)
  <2>1. PICK x \in f.recs :
          /\ x.at < n /\ q.at = x.at /\ q.chunk = x.chunk /\ q.have <= x.have
          /\ q.have = IF x.at + x.have <= n THEN x.have ELSE n - x.at
    BY TruncatedRecords
  <2>2. PICK y \in f.recs :
          /\ y.at < n /\ r.at = y.at /\ r.chunk = y.chunk /\ r.have <= y.have
          /\ r.have = IF y.at + y.have <= n THEN y.have ELSE n - y.at
    BY TruncatedRecords
  <2>3. q \in Record /\ r \in Record /\ x \in Record /\ y \in Record
    BY TruncatedType DEF DataFile
  <2>4. (x.at = y.at => x = y) /\ (x.at < y.at => x.at + x.have <= y.at)
    BY DEF Ordered
  <2>5. ASSUME q.at = r.at PROVE q = r
    BY <2>1, <2>2, <2>3, <2>4, <2>5 DEF Record
  <2>6. ASSUME q.at < r.at PROVE q.at + q.have <= r.at
    BY <2>1, <2>2, <2>3, <2>4, <2>6 DEF Record
  <2> QED BY <2>5, <2>6
<1> HIDE DEF t
<1> QED BY <1>1, <1>2, <1>3 DEF Ordered, t

\* Cutting inside the part that is not settled keeps entries that are exact
\* for the settled part.
LEMMA TruncateExact ==
  ASSUME NEW f \in DataFile, NEW s \in Int, Ordered(f, s),
         NEW n \in Nat, s <= n, n <= f.len,
         NEW e \in Entries, NEW u \in Nat, u <= s, Exact(f, e, u)
  PROVE  Exact(Truncated(f, n), e, u)
<1> DEFINE t == Truncated(f, n)
<1>1. Locates(t, e)
  <2> SUFFICES ASSUME NEW c \in Chunks, e[c] # NoOffset
               PROVE  \E r \in RecordsAt(t, e[c]) : r.chunk = c
    BY DEF Locates
  <2>1. PICK x \in f.recs : x.at = e[c] /\ x.chunk = c
    BY DEF Exact, Locates, RecordsAt
  <2>2. x.at < n
    BY <2>1, EntryType DEF Exact
  <2> QED BY <2>1, <2>2, TruncatedRecords DEF RecordsAt
<1>2. Covers(t, e, u)
  <2> SUFFICES ASSUME NEW r \in t.recs, r.at < u, WholeHeader(r), Exposed(t, r)
               PROVE  e[r.chunk] # NoOffset
    BY DEF Covers
  <2>1. PICK x \in f.recs :
          x.at < n /\ r.at = x.at /\ r.chunk = x.chunk /\ r.have <= x.have
    BY TruncatedRecords
  <2>2. Exposed(f, x)
    <3> SUFFICES ASSUME NEW q \in f.recs, q.at < x.at PROVE Intact(q)
      BY DEF Exposed
    <3>1. q.at + q.have <= x.at /\ q \in Record /\ x \in Record
      BY DEF Ordered, DataFile
    <3>2. q.at + q.have <= n
      BY <3>1, <2>1 DEF Record
    <3>3. q \in t.recs
      BY <3>2, TruncatedRecords
    <3> QED BY <3>3, <2>1 DEF Exposed
  <2>3. WholeHeader(x)
    <3>1. r \in Record /\ x \in Record
      BY TruncatedType DEF DataFile
    <3> QED BY <2>1, <3>1, LayoutAssumption DEF WholeHeader, Record
  <2> QED BY <2>1, <2>2, <2>3 DEF Exact, Covers
<1> QED BY <1>1, <1>2 DEF Exact

\* One turn of the recovery loop: entries that cover a file up to a record,
\* with that record's entry put in, cover it up to the record's nominal end.
LEMMA WalkExact ==
  ASSUME NEW f \in DataFile, NEW s \in Int, Ordered(f, s),
         NEW e \in Entries, NEW r \in f.recs, NEW next \in Nat,
         Locates(f, e), \A c \in Chunks : e[c] < f.len, Covers(f, e, r.at),
         next <= r.at + WriteSize(r.chunk)
  PROVE  LET n == PutAbsent(e, r.chunk, r.at)
         IN  /\ Locates(f, n)
             /\ \A c \in Chunks : n[c] < f.len
             /\ Covers(f, n, next)
<1> DEFINE n == PutAbsent(e, r.chunk, r.at)
<1>1. /\ r.at \in Nat /\ r.chunk \in Chunks /\ r.at < f.len /\ r.at # NoOffset
  BY DEF Ordered, DataFile, Record, NoOffset
<1>2. n[r.chunk] # NoOffset /\ (n[r.chunk] = e[r.chunk] \/ n[r.chunk] = r.at)
  BY <1>1 DEF PutAbsent, Entries
<1>3. \A c \in Chunks : c # r.chunk => n[c] = e[c]
  BY <1>1 DEF PutAbsent, Entries
<1>4. WriteSize(r.chunk) = Written(r.chunk) /\ Written(r.chunk) \in Nat
  BY <1>1, SizesAgree
<1> HIDE DEF n
<1>5. Locates(f, n)
  BY <1>1, <1>2, <1>3 DEF Locates, RecordsAt
<1>6. \A c \in Chunks : n[c] < f.len
  BY <1>1, <1>2, <1>3
<1>7. Covers(f, n, next)
  <2> SUFFICES ASSUME NEW x \in f.recs, x.at < next, WholeHeader(x), Exposed(f, x)
               PROVE  n[x.chunk] # NoOffset
    BY DEF Covers
  <2>1. x \in Record /\ r \in Record
    BY DEF DataFile
  <2>2. CASE x.at < r.at
    BY <2>1, <2>2, <1>2, <1>3 DEF Covers, Record
  <2>3. CASE x.at = r.at
    BY <2>3, <1>2 DEF Ordered
  <2>4. CASE x.at > r.at
    <3>1. r.have = Written(r.chunk)
      BY <2>4, <2>1 DEF Exposed, Intact, Record
    <3>2. r.at + r.have <= x.at
      BY <2>4, <2>1 DEF Ordered, Record
    <3> QED BY <3>1, <3>2, <1>4, <2>1 DEF Record
  <2> QED BY <2>1, <2>2, <2>3, <2>4 DEF Record
<1> QED BY <1>5, <1>6, <1>7 DEF n

\* Putting an entry in takes none out.
LEMMA PutAbsentCovers ==
  ASSUME NEW f \in DataFile, NEW e \in Entries, NEW u \in Nat, Covers(f, e, u),
         NEW c \in Chunks, NEW off \in Nat
  PROVE  Covers(f, PutAbsent(e, c, off), u)
<1>1. \A d \in Chunks : e[d] # NoOffset => PutAbsent(e, c, off)[d] # NoOffset
  BY DEF PutAbsent, Entries, NoOffset
<1> QED BY <1>1 DEF Covers, DataFile, Record

\* A header that is not whole hides what comes after it, so that entries that
\* cover the file up to it cover all of it.
LEMMA TornCovers ==
  ASSUME NEW f \in DataFile, NEW s \in Int, Ordered(f, s),
         NEW e \in Entries, NEW r \in f.recs, ~WholeHeader(r), Covers(f, e, r.at)
  PROVE  Covers(f, e, f.len)
<1>1. r \in Record /\ r.chunk \in Chunks /\ r.have < HeaderSize
  BY LayoutAssumption DEF DataFile, Record, WholeHeader
<1>2. ~Intact(r)
  BY <1>1, SizesAgree, LayoutAssumption DEF Intact, Record
<1> SUFFICES ASSUME NEW x \in f.recs, WholeHeader(x), Exposed(f, x)
             PROVE  e[x.chunk] # NoOffset
  BY DEF Covers
<1>3. x \in Record
  BY DEF DataFile
<1>4. ~ r.at < x.at
  BY <1>2 DEF Exposed
<1>5. r.at # x.at
  BY DEF Ordered
<1> QED BY <1>1, <1>3, <1>4, <1>5 DEF Covers, Record

-----------------------------------------------------------------------------
(* The inductive invariant, one lemma per group of actions                   *)

Inv == TypeOK /\ IInv

\* What an index in memory amounts to, before and after a flush and a reopen.
LEMMA MergeFacts ==
  ASSUME NEW o \in OpenFile
  PROVE  /\ o.ram = NoEntries => Merge(o) = o.fdata
         /\ Merge(FlushedFile(o)) = Merge(o) /\ FlushedFile(o).size = o.size
         /\ Merge([o EXCEPT !.bad = FALSE]) = Merge(o)
         /\ [o EXCEPT !.bad = FALSE].size = o.size
         /\ FlushedIndex(o).size = o.size /\ FlushedIndex(o).entries = Merge(o)
<1>1. Merge(o) \in Entries
  BY EntriesType
<1>2. ASSUME o.ram = NoEntries PROVE Merge(o) = o.fdata
  BY <1>2 DEF Merge, NoEntries, OpenFile, Entries
<1>3. /\ FlushedFile(o).ram = NoEntries /\ FlushedFile(o).fdata = Merge(o)
      /\ FlushedFile(o).size = o.size
  <2> DEFINE m == Merge(o)
  <2>1. FlushedFile(o) = [o EXCEPT !.ram = NoEntries, !.fdata = m, !.bad = FALSE]
    BY DEF FlushedFile
  <2> HIDE DEF m
  <2>2. /\ FlushedFile(o).ram = NoEntries /\ FlushedFile(o).fdata = m
        /\ FlushedFile(o).size = o.size
    BY <2>1 DEF OpenFile
  <2> QED BY <2>2 DEF m
<1>4. Merge(FlushedFile(o)) = Merge(o)
  BY <1>1, <1>3 DEF Merge, NoEntries, Entries
<1>5. Merge([o EXCEPT !.bad = FALSE]) = Merge(o)
  BY DEF Merge, OpenFile
<1> QED BY <1>2, <1>3, <1>4, <1>5 DEF FlushedIndex, OpenFile

\* An empty file needs no entries.
LEMMA EmptyExact == Exact(EmptyData, NoEntries, 0)
<1>1. Locates(EmptyData, NoEntries)
  BY DEF Locates, NoEntries
<1>2. \A c \in Chunks : NoEntries[c] < 0
  BY DEF NoEntries, NoOffset
<1>3. Covers(EmptyData, NoEntries, 0)
  BY DEF Covers, EmptyData
<1> QED BY <1>1, <1>2, <1>3 DEF Exact

\* Facts of one file, read off the invariant.
LEMMA FileFacts ==
  ASSUME Inv, NEW p \in Positions
  PROVE  /\ data[p] \in DataFile /\ data[p].len \in Nat
         /\ idx[p] \in IndexFile /\ idx[p].entries \in Entries /\ idx[p].size \in Nat
         /\ files[p] \in OpenFile /\ Merge(files[p]) \in Entries
         /\ pending \in Nat /\ nopen \in Nat /\ ndata \in Nat /\ Front \in Int
         /\ p \in Nat /\ p < MaxFiles
         /\ Settled(p) \in Int /\ 0 <= Settled(p) /\ Settled(p) <= data[p].len
         /\ pending = 0 \/ p # Front => Settled(p) = data[p].len
         /\ p = Front => Settled(p) = data[p].len - pending
         /\ Ordered(data[p], Settled(p)) /\ Ordered(data[p], data[p].len)
<1>1. /\ data[p] \in DataFile /\ data[p].len \in Nat
      /\ idx[p] \in IndexFile /\ idx[p].entries \in Entries /\ idx[p].size \in Nat
      /\ files[p] \in OpenFile
      /\ pending \in Nat /\ nopen \in Nat /\ ndata \in Nat
      /\ p \in Nat /\ p < MaxFiles
  BY PositionFacts DEF Inv, TypeOK, DataFile, IndexFile
<1>2. Merge(files[p]) \in Entries
  BY <1>1, EntriesType
<1>3. /\ Settled(p) \in Int /\ Settled(p) <= data[p].len /\ Front \in Int
      /\ pending = 0 \/ p # Front => Settled(p) = data[p].len
      /\ p = Front => Settled(p) = data[p].len - pending
  BY <1>1 DEF Settled, Pend, Front
<1>4. 0 <= Settled(p) /\ Ordered(data[p], Settled(p))
  BY DEF Inv, IInv, LayoutInv
<1>5. Ordered(data[p], data[p].len)
  BY <1>1, <1>3, <1>4, SettleOrdered
<1> QED BY <1>1, <1>2, <1>3, <1>4, <1>5

\* insert, once prepare_write has found or made the front file.
LEMMA PutInv ==
  ASSUME Inv, TypeOK',
         NEW c \in Chunks, NEW p \in Positions, NEW o \in OpenFile,
         NEW pend \in Nat, NEW opened \in [Positions -> OpenFile],
         Put(c, p, o, pend, opened), mode = "rw",
         o.bad => p = Front /\ pend = pending,
         nopen' = p + 1, p < ndata', ndata <= ndata',
         \A q \in Positions :
           Trusted(q) /\ idx'[q].exists =>
             /\ idx'[q].size <= data[q].len
             /\ Exact(data[q], idx'[q].entries, idx'[q].size),
         \A q \in Positions :
           Trusted(q) /\ q < p =>
             opened[q].size = data[q].len /\ Exact(data[q], Merge(opened[q]), data[q].len),
         Trusted(p) => o.size = data[p].len /\ Exact(data[p], Merge(o), data[p].len)
  PROVE  LayoutInv' /\ WidthInv' /\ IndexInv' /\ MemoryInv' /\ ScanInv'
<1> DEFINE new == IF o.bad THEN data[p] ELSE Appended(data[p], c)
           size == Wrap(o.size + WriteSize(c))
           made == [o EXCEPT !.ram = PutAbsent(o.ram, c, o.size), !.size = size]
<1>1. /\ data' = [data EXCEPT ![p] = new]
      /\ files' = [opened EXCEPT ![p] = made]
      /\ pending' = IF o.bad THEN pend ELSE Written(c)
      /\ suspect' = IF ~o.bad /\ size = new.len THEN suspect ELSE suspect \cup {p}
      /\ mode' = "rw"
  BY DEF Put
<1>2. /\ Front' = p
      /\ \A q \in Positions : q # p => data'[q] = data[q] /\ Settled(q)' = data[q].len
      /\ data'[p] = new
  <2>1. Front' = p
    BY PositionFacts DEF Front
  <2>2. \A q \in Positions : q # p => data'[q] = data[q]
    BY <1>1 DEF Inv, TypeOK
  <2>3. data'[p] = new
    BY <1>1 DEF Inv, TypeOK
  <2>4. ASSUME NEW q \in Positions, q # p PROVE Settled(q)' = data[q].len
    BY <2>1, <2>2, <2>4, FileFacts DEF Settled, Pend
  <2> QED BY <2>1, <2>2, <2>3, <2>4
<1>3. /\ Written(c) \in Nat /\ Written(c) > 0 /\ WriteSize(c) = Written(c)
      /\ o.size \in Nat /\ size \in Nat /\ size < Width
  BY SizesAgree, WrapFacts DEF OpenFile
<1>4. ASSUME ~o.bad
      PROVE  /\ new = Appended(data[p], c) /\ new.len = data[p].len + Written(c)
             /\ Settled(p)' = data[p].len
  <2>1. new = Appended(data[p], c) /\ new.len = data[p].len + Written(c)
    BY <1>4 DEF Appended
  <2>2. Settled(p)' = new.len - Written(c)
    BY <1>1, <1>2, <1>4 DEF Settled, Pend
  <2> QED BY <2>1, <2>2, <1>3, FileFacts
<1>5. ASSUME Trusted(p)'
      PROVE  /\ ~o.bad /\ size = new.len /\ Trusted(p)
             /\ \A q \in Positions : Trusted(q)' <=> Trusted(q)
  BY <1>1, <1>5 DEF Trusted
<1>6. ASSUME NEW q \in Positions, q # p
      PROVE  Trusted(q)' <=> Trusted(q)
  BY <1>1, <1>6 DEF Trusted
<1> HIDE DEF new, size, made
<1>7. LayoutInv'
  <2> SUFFICES ASSUME NEW q \in Positions
               PROVE  /\ q >= ndata' => data'[q] = EmptyData
                      /\ 0 <= Settled(q)'
                      /\ Ordered(data'[q], Settled(q)')
    BY DEF LayoutInv
  <2>1. q >= ndata' => data'[q] = EmptyData
    <3> HAVE q >= ndata'
    <3>1. q # p /\ q >= ndata
      BY FileFacts DEF TypeOK
    <3> QED BY <3>1, <1>2 DEF Inv, IInv, LayoutInv
  <2>2. CASE q # p
    BY <2>1, <2>2, <1>2, FileFacts
  <2>3. CASE q = p /\ ~o.bad
    <3>1. Ordered(Appended(data[p], c), data[p].len)
      BY FileFacts, AppendOrdered
    <3> QED BY <2>1, <2>3, <3>1, <1>2, <1>4, FileFacts
  <2>4. CASE q = p /\ o.bad
    <3>1. data'[p] = data[p] /\ Settled(p)' = Settled(p)
      BY <2>4, <1>1, <1>2 DEF new, Settled, Pend
    <3> QED BY <2>1, <2>4, <3>1, FileFacts
  <2> QED BY <2>1, <2>2, <2>3, <2>4
<1>8. WidthInv'
  <2> SUFFICES ASSUME NEW q \in Positions, Trusted(q)'
               PROVE  data'[q].len < Width
    BY DEF WidthInv
  <2>1. CASE q = p
    BY <2>1, <1>2, <1>3, <1>5
  <2>2. CASE q # p
    BY <2>2, <1>2, <1>6 DEF Inv, IInv, WidthInv
  <2> QED BY <2>1, <2>2
<1>9. IndexInv'
  <2> SUFFICES ASSUME NEW q \in Positions, Trusted(q)', idx'[q].exists
               PROVE  /\ idx'[q].size <= Settled(q)'
                      /\ Exact(data'[q], idx'[q].entries, idx'[q].size)
    BY DEF IndexInv
  <2>1. CASE q = p
    <3>1. /\ idx'[p].size <= data[p].len
          /\ Exact(data[p], idx'[p].entries, idx'[p].size)
      BY <2>1, <1>5
    <3>2. idx'[p].size \in Nat /\ idx'[p].entries \in Entries
      BY DEF TypeOK, IndexFile
    <3>3. Exact(Appended(data[p], c), idx'[p].entries, idx'[p].size)
      BY <3>1, <3>2, FileFacts, AppendExact
    <3> QED BY <2>1, <3>1, <3>3, <1>2, <1>4, <1>5
  <2>2. CASE q # p
    BY <2>2, <1>2, <1>6
  <2> QED BY <2>1, <2>2
<1>10. MemoryInv'
  <2> SUFFICES ASSUME NEW q \in Positions, Trusted(q)', q < nopen'
               PROVE  /\ files'[q].size = data'[q].len
                      /\ Exact(data'[q], Merge(files'[q]), data'[q].len)
    BY DEF MemoryInv
  <2>1. CASE q = p
    <3>1. files'[p] = made /\ made.size = size
      BY <1>1 DEF made, OpenFile
    <3>2. ~o.bad /\ size = new.len /\ o.size = data[p].len
          /\ Exact(data[p], Merge(o), data[p].len)
      BY <2>1, <1>5
    <3>3. Exact(Appended(data[p], c), Merge(made), data[p].len + Written(c))
      BY <3>2, <1>3, FileFacts, PutExact DEF made
    <3> QED BY <2>1, <3>1, <3>2, <3>3, <1>2, <1>4
  <2>2. CASE q # p
    <3>1. q < p
      BY <2>2, FileFacts
    <3>2. files'[q] = opened[q]
      BY <2>2, <1>1
    <3> QED BY <2>2, <3>1, <3>2, <1>2, <1>6
  <2> QED BY <2>1, <2>2
<1>11. ScanInv'
  BY <1>1 DEF ScanInv
<1> QED BY <1>7, <1>8, <1>9, <1>10, <1>11

\* Every trusted index on disk is exact for a part of its file.
LEMMA IndexFacts ==
  ASSUME Inv, NEW q \in Positions, Trusted(q), idx[q].exists
  PROVE  /\ idx[q].size <= data[q].len
         /\ Exact(data[q], idx[q].entries, idx[q].size)
BY FileFacts DEF Inv, IInv, IndexInv

\* A flush leaves every index on disk and in memory exact.
LEMMA FlushFacts ==
  ASSUME Inv, dirty
  PROVE  LET i == [idx EXCEPT ![Front] = FlushedIndex(files[Front])]
             o == [files EXCEPT ![Front] = FlushedFile(files[Front])]
         IN  /\ Front \in Positions /\ o \in [Positions -> OpenFile]
             /\ \A q \in Positions :
                  Trusted(q) /\ i[q].exists =>
                    /\ i[q].size <= data[q].len
                    /\ Exact(data[q], i[q].entries, i[q].size)
             /\ \A q \in Positions :
                  Trusted(q) /\ q < nopen =>
                    /\ o[q].size = data[q].len
                    /\ Exact(data[q], Merge(o[q]), data[q].len)
<1> DEFINE i == [idx EXCEPT ![Front] = FlushedIndex(files[Front])]
           o == [files EXCEPT ![Front] = FlushedFile(files[Front])]
<1>1. Front \in Positions /\ Front < nopen
  BY FrontFacts, FileFacts DEF Inv, IInv, SessionInv, TypeOK, Front
<1>2. files[Front] \in OpenFile
  BY <1>1, FileFacts
<1>3. FlushedFile(files[Front]) \in OpenFile
  BY <1>2, FlushTypes
<1>4. o \in [Positions -> OpenFile]
  BY <1>3 DEF Inv, TypeOK
<1>5. /\ i[Front] = FlushedIndex(files[Front])
      /\ o[Front] = FlushedFile(files[Front])
      /\ \A q \in Positions : q # Front => i[q] = idx[q] /\ o[q] = files[q]
  BY <1>1 DEF Inv, TypeOK
<1> HIDE DEF i, o
<1>6. ASSUME NEW q \in Positions, Trusted(q), q < nopen
      PROVE  /\ files[q].size = data[q].len
             /\ Exact(data[q], Merge(files[q]), data[q].len)
  BY <1>6 DEF Inv, IInv, MemoryInv
<1>7. ASSUME NEW q \in Positions, Trusted(q), i[q].exists
      PROVE  /\ i[q].size <= data[q].len
             /\ Exact(data[q], i[q].entries, i[q].size)
  <2>1. CASE q = Front
    <3>1. i[q].size = files[q].size /\ i[q].entries = Merge(files[q])
      BY <2>1, <1>2, <1>5, MergeFacts
    <3> QED BY <2>1, <3>1, <1>1, <1>6, <1>7, FileFacts
  <2>2. CASE q # Front
    BY <2>2, <1>5, <1>7, IndexFacts
  <2> QED BY <2>1, <2>2
<1>8. ASSUME NEW q \in Positions, Trusted(q), q < nopen
      PROVE  /\ o[q].size = data[q].len
             /\ Exact(data[q], Merge(o[q]), data[q].len)
  <2>1. Merge(o[q]) = Merge(files[q]) /\ o[q].size = files[q].size
    <3>1. CASE q = Front
      BY <3>1, <1>2, <1>5, MergeFacts
    <3>2. CASE q # Front
      BY <3>2, <1>5
    <3> QED BY <3>1, <3>2
  <2> QED BY <2>1, <1>6, <1>8
<1> QED BY <1>1, <1>4, <1>7, <1>8 DEF i, o

\* The three ways insert goes keep the invariant.
LEMMA InsertStep ==
  ASSUME Inv, TypeOK', NEW c \in Chunks, Insert(c)
  PROVE  IInv'
<1>1. CASE InsertOpen(c)
  <2>1. /\ Put(c, Front, files[Front], pending, files)
        /\ UNCHANGED <<ndata, idx, nopen, durable>> /\ mode = "rw" /\ dirty
    BY <1>1 DEF InsertOpen
  <2>2. Front \in Positions /\ nopen > 0 /\ nopen <= ndata
    BY <2>1, FrontFacts DEF Inv, IInv, SessionInv
  <2>3. files[Front] \in OpenFile /\ pending \in Nat /\ files \in [Positions -> OpenFile]
        /\ nopen \in Nat /\ ndata \in Nat
    BY <2>2 DEF Inv, TypeOK
  <2>4. nopen' = Front + 1 /\ Front < ndata' /\ ndata <= ndata'
    BY <2>1, <2>2, <2>3 DEF Front
  <2>5. \A q \in Positions :
           Trusted(q) /\ idx'[q].exists =>
             /\ idx'[q].size <= data[q].len
             /\ Exact(data[q], idx'[q].entries, idx'[q].size)
    BY <2>1, IndexFacts
  <2>6. \A q \in Positions :
           Trusted(q) /\ q <= Front =>
             files[q].size = data[q].len /\ Exact(data[q], Merge(files[q]), data[q].len)
    BY <2>3, FileFacts DEF Inv, IInv, MemoryInv, Front
  <2>7. LayoutInv' /\ WidthInv' /\ IndexInv' /\ MemoryInv' /\ ScanInv'
    BY <2>1, <2>2, <2>3, <2>4, <2>5, <2>6, PutInv, FileFacts
  <2>8. SessionInv'
    BY <2>1, <2>2 DEF Inv, IInv, SessionInv, Put
  <2> QED BY <2>7, <2>8 DEF IInv
<1>2. CASE InsertReopened(c)
  <2> DEFINE o == [files[Front] EXCEPT !.bad = FALSE]
  <2>1. /\ Put(c, Front, o, 0, files)
        /\ UNCHANGED <<ndata, idx, nopen, durable>> /\ mode = "rw" /\ nopen > 0
    BY <1>2 DEF InsertReopened
  <2>2. Front \in Positions /\ nopen <= ndata
    BY <2>1, FrontFacts DEF Inv, IInv, SessionInv
  <2>3. o \in OpenFile /\ files \in [Positions -> OpenFile] /\ ~o.bad
        /\ nopen \in Nat /\ ndata \in Nat
    BY <2>2, LoadedType DEF Inv, TypeOK, OpenFile
  <2>4. nopen' = Front + 1 /\ Front < ndata' /\ ndata <= ndata'
    BY <2>1, <2>2, <2>3 DEF Front
  <2>5. \A q \in Positions :
           Trusted(q) /\ idx'[q].exists =>
             /\ idx'[q].size <= data[q].len
             /\ Exact(data[q], idx'[q].entries, idx'[q].size)
    BY <2>1, IndexFacts
  <2>6. \A q \in Positions :
           Trusted(q) /\ q <= Front =>
             files[q].size = data[q].len /\ Exact(data[q], Merge(files[q]), data[q].len)
    BY <2>3, FileFacts DEF Inv, IInv, MemoryInv, Front
  <2>7. Merge(o) = Merge(files[Front]) /\ o.size = files[Front].size
    BY <2>2, FileFacts, MergeFacts
  <2> HIDE DEF o
  <2>8. LayoutInv' /\ WidthInv' /\ IndexInv' /\ MemoryInv' /\ ScanInv'
    BY <2>1, <2>2, <2>3, <2>4, <2>5, <2>6, <2>7, PutInv, FileFacts
  <2>9. SessionInv'
    BY <2>1, <2>2 DEF Inv, IInv, SessionInv, Put
  <2> QED BY <2>8, <2>9 DEF IInv
<1>3. CASE InsertNew(c)
  <2> DEFINE o == [NoFile EXCEPT !.size = Wrap(data[nopen].len)]
  <2>1. /\ mode = "rw" /\ nopen < MaxFiles /\ nopen' = nopen + 1
        /\ ndata' = IF ndata <= nopen THEN nopen + 1 ELSE ndata
    BY <1>3 DEF InsertNew
  <2>2. /\ nopen \in Positions /\ nopen \in Nat /\ ndata \in Nat
        /\ nopen < ndata' /\ ndata <= ndata'
        /\ files \in [Positions -> OpenFile]
    BY <2>1, PositionFacts DEF Inv, TypeOK
  <2>3. o \in OpenFile /\ ~o.bad
    BY <2>2, LoadedType DEF NoFile, Inv
  <2>4. Trusted(nopen) =>
          o.size = data[nopen].len /\ Exact(data[nopen], Merge(o), data[nopen].len)
    <3> SUFFICES ASSUME Trusted(nopen)
                 PROVE  o.size = data[nopen].len
                        /\ Exact(data[nopen], Merge(o), data[nopen].len)
      OBVIOUS
    <3>1. data[nopen] = EmptyData
      BY <2>1, <2>2 DEF Trusted, Inv, IInv, SessionInv, LayoutInv
    <3>2. Wrap(0) = 0
      BY WrapFacts, LimitAssumption
    <3>3. o.ram = NoEntries /\ o.fdata = NoEntries /\ o.size = 0
      BY <3>1, <3>2 DEF NoFile, EmptyData
    <3> HIDE DEF o
    <3>4. Merge(o) = NoEntries
      BY <2>3, <3>3, MergeFacts
    <3> QED BY <3>1, <3>3, <3>4, EmptyExact DEF EmptyData
  <2>5. SessionInv'
    <3>1. mode' = mode /\ dirty' = TRUE
      BY <1>3 DEF InsertNew, Put
    <3> QED BY <2>1, <2>2, <3>1, LimitAssumption DEF Inv, IInv, SessionInv
  <2>6. CASE dirty
    <3> DEFINE flushed == [files EXCEPT ![Front] = FlushedFile(files[Front])]
    <3>1. /\ idx' = [idx EXCEPT ![Front] = FlushedIndex(files[Front])]
          /\ Put(c, nopen, o, 0, flushed)
      BY <1>3, <2>6 DEF InsertNew
    <3>2. /\ flushed \in [Positions -> OpenFile]
          /\ \A q \in Positions :
               Trusted(q) /\ idx'[q].exists =>
                 /\ idx'[q].size <= data[q].len
                 /\ Exact(data[q], idx'[q].entries, idx'[q].size)
          /\ \A q \in Positions :
               Trusted(q) /\ q < nopen =>
                 /\ flushed[q].size = data[q].len
                 /\ Exact(data[q], Merge(flushed[q]), data[q].len)
      BY <2>6, <3>1, FlushFacts
    <3> HIDE DEF o, flushed
    <3>3. LayoutInv' /\ WidthInv' /\ IndexInv' /\ MemoryInv' /\ ScanInv'
      BY <2>1, <2>2, <2>3, <2>4, <3>1, <3>2, PutInv
    <3> QED BY <2>5, <3>3 DEF IInv
  <2>7. CASE ~dirty
    <3>1. idx' = idx /\ Put(c, nopen, o, 0, files)
      BY <1>3, <2>7 DEF InsertNew
    <3>2. \A q \in Positions :
               Trusted(q) /\ idx'[q].exists =>
                 /\ idx'[q].size <= data[q].len
                 /\ Exact(data[q], idx'[q].entries, idx'[q].size)
      BY <3>1, IndexFacts
    <3>3. \A q \in Positions :
               Trusted(q) /\ q < nopen =>
                 /\ files[q].size = data[q].len
                 /\ Exact(data[q], Merge(files[q]), data[q].len)
      BY DEF Inv, IInv, MemoryInv
    <3> HIDE DEF o
    <3>4. LayoutInv' /\ WidthInv' /\ IndexInv' /\ MemoryInv' /\ ScanInv'
      BY <2>1, <2>2, <2>3, <2>4, <3>1, <3>2, <3>3, PutInv
    <3> QED BY <2>5, <3>4 DEF IInv
  <2> QED BY <2>6, <2>7 DEF Inv, TypeOK
<1> QED BY <1>1, <1>2, <1>3 DEF Insert

\* A Pool object that goes, with nothing of its data lost.
LEMMA GoneInv ==
  ASSUME Inv, TypeOK', Gone, UNCHANGED <<data, ndata, suspect>>,
         \A q \in Positions :
           Trusted(q) /\ idx'[q].exists =>
             /\ idx'[q].size <= data[q].len
             /\ Exact(data[q], idx'[q].entries, idx'[q].size)
  PROVE  IInv'
<1>1. SessionInv'
  BY DEF Gone, Inv, IInv, SessionInv, TypeOK
<1>2. /\ \A q \in Positions : Settled(q)' = data[q].len
      /\ \A q : Trusted(q)' <=> Trusted(q)
  <2>1. pending' = 0 /\ nopen' = 0
    BY DEF Gone
  <2> QED BY <2>1, FileFacts DEF Settled, Pend, Trusted
<1>3. LayoutInv'
  BY <1>2, FileFacts DEF LayoutInv, Inv, IInv
<1>4. WidthInv'
  BY <1>2 DEF WidthInv, Inv, IInv
<1>5. IndexInv'
  BY <1>2 DEF IndexInv
<1>6. MemoryInv'
  BY FileFacts DEF MemoryInv, Gone, Positions
<1>7. ScanInv'
  BY DEF ScanInv, Gone
<1> QED BY <1>1, <1>3, <1>4, <1>5, <1>6, <1>7 DEF IInv

\* Closing, and the two ways recovery ends.
LEMMA EndStep ==
  ASSUME Inv, TypeOK', ClosePool \/ RecoveryThrows \/ RecoveryEnds
  PROVE  IInv'
<1>1. CASE ClosePool /\ dirty
  <2>1. idx' = [idx EXCEPT ![Front] = FlushedIndex(files[Front])]
    BY <1>1 DEF ClosePool
  <2> QED BY <1>1, <2>1, FlushFacts, GoneInv DEF ClosePool
<1>2. CASE ClosePool /\ ~dirty
  BY <1>2, IndexFacts, GoneInv DEF ClosePool
<1>3. CASE RecoveryThrows
  BY <1>3, IndexFacts, GoneInv DEF RecoveryThrows, diskVars
<1>4. CASE RecoveryEnds
  BY <1>4, IndexFacts, GoneInv DEF RecoveryEnds, diskVars
<1> QED BY <1>1, <1>2, <1>3, <1>4

\* A crash takes away no more than what no index on disk covers.
LEMMA CrashStep ==
  ASSUME Inv, TypeOK', Crash
  PROVE  IInv'
<1>1. PICK lost \in 0 .. pending :
        data' = IF lost = 0 THEN data
                ELSE [data EXCEPT ![Front] =
                        Truncated(data[Front], data[Front].len - lost)]
  BY DEF Crash
<1>2. Gone /\ UNCHANGED <<ndata, idx, newfile, durable, suspect>>
  BY DEF Crash
<1>3. CASE lost = 0
  BY <1>1, <1>2, <1>3, IndexFacts, GoneInv
<1>4. CASE lost # 0
  <2> DEFINE n == data[Front].len - lost
  <2>1. Front \in Positions /\ Front < ndata
    BY <1>4, FrontFacts DEF Inv, IInv, SessionInv, TypeOK, Front
  <2>2. n \in Nat /\ Settled(Front) <= n /\ n <= data[Front].len
        /\ Settled(Front) \in Int
    BY <2>1, FileFacts
  <2>3. /\ data'[Front] = Truncated(data[Front], n)
        /\ \A q \in Positions : q # Front => data'[q] = data[q]
    BY <1>1, <1>4, <2>1 DEF Inv, TypeOK
  <2>4. data'[Front].len = n
    BY <2>3 DEF Truncated
  <2> HIDE DEF n
  <2>5. pending' = 0 /\ nopen' = 0 /\ mode' = "closed" /\ dirty' = FALSE
    BY <1>2 DEF Gone
  <2>6. \A q \in Positions : Settled(q)' = data'[q].len /\ data'[q].len \in Nat
    BY <2>5 DEF Settled, Pend, TypeOK, DataFile
  <2>7. \A q : Trusted(q)' <=> Trusted(q)
    BY <1>2 DEF Trusted
  <2>8. SessionInv'
    BY <1>2, <2>5 DEF Inv, IInv, SessionInv, TypeOK
  <2>9. LayoutInv'
    <3> SUFFICES ASSUME NEW q \in Positions
                 PROVE  /\ q >= ndata' => data'[q] = EmptyData
                        /\ 0 <= Settled(q)'
                        /\ Ordered(data'[q], Settled(q)')
      BY DEF LayoutInv
    <3>1. q >= ndata' => q # Front
      BY <1>2, <2>1, FileFacts
    <3>2. q >= ndata' => data'[q] = EmptyData
      BY <1>2, <2>3, <3>1 DEF Inv, IInv, LayoutInv
    <3>3. CASE q # Front
      BY <2>3, <2>6, <3>2, <3>3, FileFacts
    <3>4. CASE q = Front
      <4>1. Ordered(Truncated(data[Front], n), n)
        BY <2>1, <2>2, FileFacts, TruncateOrdered
      <4> QED BY <2>3, <2>4, <2>6, <3>2, <3>4, <4>1
    <3> QED BY <3>3, <3>4
  <2>10. WidthInv'
    <3> SUFFICES ASSUME NEW q \in Positions, Trusted(q)
                 PROVE  data'[q].len < Width
      BY <2>7 DEF WidthInv
    <3>1. data[q].len < Width
      BY DEF Inv, IInv, WidthInv
    <3> QED BY <3>1, <2>2, <2>3, <2>4, FileFacts, LimitAssumption
  <2>11. IndexInv'
    <3> SUFFICES ASSUME NEW q \in Positions, Trusted(q), idx[q].exists
                 PROVE  /\ idx[q].size <= Settled(q)'
                        /\ Exact(data'[q], idx[q].entries, idx[q].size)
      BY <1>2, <2>7 DEF IndexInv
    <3>1. idx[q].size <= Settled(q) /\ Exact(data[q], idx[q].entries, idx[q].size)
      BY DEF Inv, IInv, IndexInv
    <3>2. CASE q # Front
      BY <2>3, <2>6, <3>1, <3>2, FileFacts
    <3>3. CASE q = Front
      <4>1. Exact(Truncated(data[Front], n), idx[q].entries, idx[q].size)
        BY <2>1, <2>2, <3>1, <3>3, FileFacts, TruncateExact
      <4> QED BY <2>1, <2>2, <2>3, <2>4, <2>6, <3>1, <3>3, <4>1, FileFacts
    <3> QED BY <3>2, <3>3
  <2>12. MemoryInv'
    BY <2>5, FileFacts DEF MemoryInv
  <2>13. ScanInv'
    BY <2>5 DEF ScanInv
  <2> QED BY <2>8, <2>9, <2>10, <2>11, <2>12, <2>13 DEF IInv
<1> QED BY <1>3, <1>4

\* Opening takes over indexes that are exact for the whole of their files.
LEMMA OpenStep ==
  ASSUME Inv, TypeOK', NEW w \in BOOLEAN, OpenPool(w)
  PROVE  IInv'
<1>1. /\ mode = "closed" /\ mode' \in {"ro", "rw"} /\ nopen' = Visible
      /\ nopen = 0 /\ pending = 0 /\ dirty = FALSE
      /\ UNCHANGED <<data, ndata, idx, dirty, pending, scan, suspect>>
      /\ \A p \in Positions : p < Visible => Accepts(p) /\ files'[p] = Loaded(p)
  BY DEF OpenPool, diskVars, Inv, TypeOK, IInv, SessionInv
<1>2. Visible \in Nat /\ Visible <= ndata /\ Visible <= NameLimit
      /\ (ndata <= NameLimit => Visible = ndata)
      /\ (ndata > NameLimit => Visible = NameLimit)
  BY FrontFacts DEF Inv, IInv
<1>3. SessionInv'
  BY <1>1, <1>2, LimitAssumption DEF Inv, IInv, SessionInv, TypeOK
<1>4. /\ \A q \in Positions : Settled(q)' = data[q].len /\ Settled(q) = data[q].len
      /\ \A q : Trusted(q)' <=> Trusted(q)
  BY <1>1, FileFacts DEF Settled, Pend, Trusted
<1>5. LayoutInv'
  BY <1>1, <1>4, FileFacts DEF LayoutInv, Inv, IInv
<1>6. WidthInv'
  BY <1>1, <1>4 DEF WidthInv, Inv, IInv
<1>7. IndexInv'
  BY <1>1, <1>4 DEF IndexInv, Inv, IInv
<1>8. MemoryInv'
  <2> SUFFICES ASSUME NEW q \in Positions, Trusted(q), q < Visible
               PROVE  /\ files'[q].size = data[q].len
                      /\ Exact(data[q], Merge(files'[q]), data[q].len)
    BY <1>1, <1>4 DEF MemoryInv
  <2>1. Wrap(data[q].len) = data[q].len
    BY FileFacts, WrapFacts DEF Inv, IInv, WidthInv
  <2>2. idx[q].exists /\ idx[q].size = data[q].len /\ files'[q] = Loaded(q)
    BY <1>1, <2>1 DEF Accepts
  <2>3. /\ files'[q].size = data[q].len /\ files'[q].ram = NoEntries
        /\ files'[q].fdata = idx[q].entries
    BY <2>1, <2>2 DEF Loaded
  <2>4. Merge(files'[q]) = idx[q].entries
    BY <2>3, MergeFacts DEF TypeOK
  <2> QED BY <2>2, <2>3, <2>4, IndexFacts
<1>9. ScanInv'
  BY <1>1 DEF ScanInv
<1> QED BY <1>3, <1>5, <1>6, <1>7, <1>8, <1>9 DEF IInv

\* An explicit flush.
LEMMA FlushStep ==
  ASSUME Inv, TypeOK', FlushPool
  PROVE  IInv'
<1>1. /\ dirty /\ mode = "rw" /\ mode' = "rw" /\ pending' = 0 /\ dirty' = FALSE
      /\ UNCHANGED <<data, ndata, nopen, suspect>>
      /\ idx' = [idx EXCEPT ![Front] = FlushedIndex(files[Front])]
      /\ files' = [files EXCEPT ![Front] = FlushedFile(files[Front])]
  BY DEF FlushPool
<1>2. /\ \A q \in Positions :
           Trusted(q) /\ idx'[q].exists =>
             /\ idx'[q].size <= data[q].len
             /\ Exact(data[q], idx'[q].entries, idx'[q].size)
      /\ \A q \in Positions :
           Trusted(q) /\ q < nopen =>
             /\ files'[q].size = data[q].len
             /\ Exact(data[q], Merge(files'[q]), data[q].len)
  BY <1>1, FlushFacts
<1>3. /\ \A q \in Positions : Settled(q)' = data[q].len
      /\ \A q : Trusted(q)' <=> Trusted(q)
  BY <1>1, FileFacts DEF Settled, Pend, Trusted
<1>4. SessionInv'
  BY <1>1 DEF Inv, IInv, SessionInv
<1>5. LayoutInv'
  BY <1>1, <1>3, FileFacts DEF LayoutInv, Inv, IInv
<1>6. WidthInv' /\ IndexInv' /\ MemoryInv'
  BY <1>1, <1>2, <1>3 DEF WidthInv, IndexInv, MemoryInv, Inv, IInv
<1>7. ScanInv'
  BY <1>1 DEF ScanInv
<1> QED BY <1>4, <1>5, <1>6, <1>7 DEF IInv

\* find moves nothing but the stream.
LEMMA FindStep ==
  ASSUME Inv, TypeOK', NEW c \in Chunks, Find(c)
  PROVE  IInv'
<1>1. /\ UNCHANGED <<data, ndata, idx, mode, nopen, dirty, scan, suspect>>
      /\ mode \in {"ro", "rw"}
      /\ pending' \in {0, pending}
  BY DEF Find, diskVars, historyVars
<1>2. \A q \in Positions : files'[q].size = files[q].size /\ Merge(files'[q]) = Merge(files[q])
  BY DEF Find, Inv, TypeOK, OpenFile, Merge
<1>3. /\ \A q \in Positions : Settled(q)' \in {Settled(q), data[q].len}
      /\ \A q : Trusted(q)' <=> Trusted(q)
  BY <1>1, FileFacts DEF Settled, Pend, Trusted, Front
<1>4. SessionInv'
  BY <1>1, FileFacts DEF Inv, IInv, SessionInv, TypeOK
<1>5. LayoutInv'
  <2> SUFFICES ASSUME NEW q \in Positions
               PROVE  /\ q >= ndata => data[q] = EmptyData
                      /\ 0 <= Settled(q)'
                      /\ Ordered(data[q], Settled(q)')
    BY <1>1 DEF LayoutInv
  <2>1. q >= ndata => data[q] = EmptyData
    BY DEF LayoutInv, Inv, IInv
  <2> QED BY <2>1, <1>3, FileFacts
<1>6. WidthInv' /\ MemoryInv'
  BY <1>1, <1>2, <1>3 DEF WidthInv, MemoryInv, Inv, IInv
<1>7. IndexInv'
  BY <1>1, <1>3, FileFacts DEF IndexInv, Inv, IInv
<1>8. ScanInv'
  BY <1>1 DEF ScanInv
<1> QED BY <1>4, <1>5, <1>6, <1>7, <1>8 DEF IInv

\* The steps of recovery that touch only the loop's own variables.
LEMMA WalkStep ==
  ASSUME Inv, TypeOK',
         RecoverIndex \/ LoadIndex \/ ReadHeader \/ ReadTornHeader
  PROVE  IInv'
<1> DEFINE f == data[scan.file]
<1>1. /\ UNCHANGED <<data, ndata, idx, nopen, dirty, pending, files, suspect>>
      /\ mode' = "recover" /\ mode \in {"closed", "recover"}
  BY DEF RecoverIndex, LoadIndex, ReadHeader, ReadTornHeader, AtHeader,
         diskVars, sessionVars, historyVars
<1>2. SessionInv' /\ LayoutInv' /\ WidthInv' /\ IndexInv' /\ MemoryInv'
  BY <1>1 DEF Inv, IInv, SessionInv, LayoutInv, WidthInv, IndexInv, MemoryInv,
              Settled, Pend, Front, Trusted
<1>3. ScanInv'
  <2>1. CASE RecoverIndex
    BY <2>1 DEF RecoverIndex, ScanInv, ScanOf
  <2>2. CASE LoadIndex
    <3>1. CASE Accepts(scan.file)
      BY <2>2, <3>1 DEF LoadIndex, ScanInv, ScanOf
    <3>2. CASE ~Accepts(scan.file)
      <4>1. /\ mode = "recover" /\ scan.file < Visible /\ ~scan.active
            /\ scan' = [scan EXCEPT !.active = TRUE]
        BY <2>2, <3>2 DEF LoadIndex
      <4>2. scan \in Scan /\ scan.file \in Positions
        BY <4>1, FrontFacts DEF Inv, IInv, TypeOK, Scan
      <4>3. f \in DataFile /\ f.len \in Nat
        BY <4>2, FileFacts
      <4>4. scan = ScanOf(scan.file)
        BY <4>1 DEF Inv, IInv, ScanInv
      <4>5. /\ scan'.file = scan.file /\ scan'.active = TRUE
            /\ scan'.pos = 0 /\ scan'.index = NoEntries /\ scan'.garbled = FALSE
        BY <4>1, <4>4 DEF ScanOf
      <4>6. /\ Locates(f, NoEntries)
            /\ \A c \in Chunks : NoEntries[c] < f.len
            /\ Covers(f, NoEntries, 0)
        BY <4>3 DEF Locates, Covers, NoEntries, NoOffset, DataFile, Record
      <4>7. Visible' = Visible
        BY <1>1 DEF Visible
      <4> QED BY <1>1, <4>1, <4>5, <4>6, <4>7 DEF ScanInv
    <3> QED BY <3>1, <3>2
  <2>3. ASSUME ReadHeader \/ ReadTornHeader
        PROVE  /\ scan.file \in Positions /\ f \in DataFile /\ scan.file < Visible
               /\ Ordered(f, Settled(scan.file)) /\ Settled(scan.file) \in Int
               /\ scan \in Scan /\ scan.index \in Entries /\ scan.pos \in Nat
               /\ f.len \in Nat /\ mode = "recover" /\ scan.active
               /\ Visible' = Visible
    <3>1. mode = "recover" /\ scan.active
      BY <2>3 DEF ReadHeader, ReadTornHeader, AtHeader
    <3>2. /\ scan \in Scan /\ scan.index \in Entries /\ scan.pos \in Nat
          /\ scan.file \in Nat /\ scan.file < Visible
      BY <3>1 DEF Inv, IInv, TypeOK, Scan, ScanInv
    <3>3. scan.file \in Positions
      BY <3>2, FrontFacts DEF Inv, IInv
    <3>4. Visible' = Visible
      BY <1>1 DEF Visible
    <3> QED BY <3>1, <3>2, <3>3, <3>4, FileFacts
  <2>4. CASE ReadHeader
    <3>1. PICK r \in Here :
            scan' = [scan EXCEPT !.index = PutAbsent(@, r.chunk, scan.pos),
                                 !.pos = Wrap(scan.pos + WriteSize(r.chunk))]
      BY <2>4 DEF ReadHeader
    <3>2. r \in f.recs /\ r.at = scan.pos /\ r.chunk \in Chunks
      BY <2>3, <2>4 DEF Here, RecordsAt, DataFile, Record
    <3> DEFINE n == PutAbsent(scan.index, r.chunk, r.at)
               next == Wrap(scan.pos + WriteSize(r.chunk))
    <3>3. next \in Nat /\ next <= r.at + WriteSize(r.chunk)
      BY <2>3, <2>4, <3>2, SizesAgree, WrapFacts
    <3>4. /\ scan'.file = scan.file /\ scan'.active = TRUE
          /\ scan'.garbled = scan.garbled
          /\ scan'.index = n /\ scan'.pos = next
      BY <2>3, <2>4, <3>1, <3>2 DEF Scan
    <3> HIDE DEF n, next
    <3>5. ASSUME f.len < Width
          PROVE  /\ Locates(f, n) /\ \A c \in Chunks : n[c] < f.len
                 /\ Covers(f, n, IF scan.garbled THEN f.len ELSE next)
      <4>1. /\ Locates(f, scan.index) /\ \A c \in Chunks : scan.index[c] < f.len
            /\ Covers(f, scan.index, IF scan.garbled THEN f.len ELSE r.at)
        BY <2>3, <2>4, <3>2, <3>5 DEF Inv, IInv, ScanInv
      <4>2. Covers(f, scan.index, r.at)
        <5>1. r.at < f.len
          BY <2>3, <2>4, <3>2 DEF Ordered, DataFile, Record
        <5> QED BY <2>3, <2>4, <3>2, <4>1, <5>1 DEF Covers, DataFile, Record
      <4>3. Locates(f, n) /\ (\A c \in Chunks : n[c] < f.len) /\ Covers(f, n, next)
        BY <2>3, <2>4, <3>2, <3>3, <4>1, <4>2, WalkExact DEF n
      <4>4. ASSUME scan.garbled PROVE Covers(f, n, f.len)
        BY <2>3, <2>4, <3>2, <4>1, <4>4, PutAbsentCovers DEF n
      <4> QED BY <4>3, <4>4
    <3> QED BY <1>1, <2>3, <2>4, <3>4, <3>5 DEF ScanInv
  <2>5. CASE ReadTornHeader
    <3>1. PICK r \in Here :
            /\ ~WholeHeader(r)
            /\ \E index \in TornEntries(r), next \in StalePositions(r) :
                 scan' = [scan EXCEPT !.index = index, !.pos = next, !.garbled = TRUE]
      BY <2>5 DEF ReadTornHeader
    <3>2. PICK index \in TornEntries(r), next \in StalePositions(r) :
            scan' = [scan EXCEPT !.index = index, !.pos = next, !.garbled = TRUE]
      BY <3>1
    <3>3. /\ scan'.file = scan.file /\ scan'.active = TRUE /\ scan'.garbled = TRUE
          /\ scan'.index = index
      BY <2>3, <2>5, <3>2 DEF Scan
    <3>4. r \in f.recs /\ r.at = scan.pos /\ r.chunk \in Chunks /\ r.at < f.len
      BY <2>3, <2>5 DEF Here, RecordsAt, DataFile, Record, Ordered
    <3> DEFINE n == PutAbsent(scan.index, r.chunk, r.at)
    <3>5. index = scan.index \/ index = n
      BY <3>4 DEF TornEntries
    <3>6. n \in Entries
      BY <2>3, <2>5, <3>4, EntriesType
    <3> HIDE DEF n
    <3>7. ASSUME f.len < Width
          PROVE  /\ Locates(f, index) /\ \A c \in Chunks : index[c] < f.len
                 /\ Covers(f, index, f.len)
      <4>1. /\ Locates(f, scan.index) /\ \A c \in Chunks : scan.index[c] < f.len
            /\ Covers(f, scan.index, IF scan.garbled THEN f.len ELSE r.at)
        BY <2>3, <2>5, <3>4, <3>7 DEF Inv, IInv, ScanInv
      <4>2. Covers(f, scan.index, r.at)
        BY <2>3, <2>5, <3>4, <4>1 DEF Covers, DataFile, Record
      <4>3. Covers(f, scan.index, f.len)
        BY <2>3, <2>5, <3>1, <3>4, <4>2, TornCovers
      <4>4. Locates(f, n) /\ (\A c \in Chunks : n[c] < f.len)
        <5>1. WriteSize(r.chunk) \in Nat /\ 0 <= r.at + WriteSize(r.chunk)
          BY <2>3, <2>5, <3>4, SizesAgree
        <5> QED BY <2>3, <2>5, <3>4, <4>1, <4>2, <5>1, WalkExact DEF n
      <4>5. Covers(f, n, f.len)
        BY <2>3, <2>5, <3>4, <4>3, PutAbsentCovers DEF n
      <4> QED BY <3>5, <4>1, <4>3, <4>4, <4>5
    <3> QED BY <1>1, <2>3, <2>5, <3>3, <3>7 DEF ScanInv
  <2> QED BY <2>1, <2>2, <2>4, <2>5
<1> QED BY <1>2, <1>3 DEF IInv

\* The index that recovery saves.
LEMMA SaveStep ==
  ASSUME Inv, TypeOK', SaveIndex
  PROVE  IInv'
<1>0. PICK p : p = scan.file
  OBVIOUS
<1>1. /\ mode = "recover" /\ scan.active /\ scan.pos >= ScanSize
      /\ idx' = [idx EXCEPT ![p] =
                   [exists |-> TRUE, size |-> ScanSize, entries |-> scan.index]]
      /\ suspect' = IF data[p].len >= Width
                    THEN suspect \cup {p} ELSE suspect \ {p}
      /\ scan' = ScanOf(p + 1)
      /\ UNCHANGED <<data, ndata, mode, files, nopen, dirty, pending>>
  BY <1>0 DEF SaveIndex, sessionVars
<1>2. /\ scan \in Scan /\ p \in Nat /\ scan.pos \in Nat /\ scan.index \in Entries
      /\ p < Visible
  BY <1>0, <1>1 DEF Inv, IInv, TypeOK, Scan, ScanInv
<1>3. p \in Positions
  BY <1>2, FrontFacts DEF Inv, IInv
<1>4. /\ \A q \in Positions : Settled(q)' = data[q].len
      /\ \A q \in Positions : q # p => Trusted(q)' = Trusted(q)
      /\ nopen = 0 /\ pending = 0
  <2>1. nopen = 0 /\ pending = 0
    BY <1>1 DEF Inv, IInv, SessionInv, TypeOK
  <2>2. \A q \in Positions : q # p => Trusted(q)' = Trusted(q)
    BY <1>1 DEF Trusted
  <2> QED BY <1>1, <2>1, <2>2, FileFacts DEF Settled, Pend
<1>5. Trusted(p)' => data[p].len < Width /\ ScanSize = data[p].len
  <2> SUFFICES ASSUME Trusted(p)'
               PROVE  data[p].len < Width /\ ScanSize = data[p].len
    OBVIOUS
  <2>1. data[p].len < Width
    BY <1>1, <1>3, FileFacts, LimitAssumption DEF Trusted
  <2> QED BY <2>1, <1>0, <1>3, FileFacts, WrapFacts DEF ScanSize
<1>6. SessionInv'
  BY <1>1 DEF Inv, IInv, SessionInv
<1>7. LayoutInv'
  BY <1>1, <1>4, FileFacts DEF LayoutInv, Inv, IInv
<1>8. WidthInv'
  BY <1>1, <1>4, <1>5 DEF WidthInv, Inv, IInv
<1>9. IndexInv'
  <2> SUFFICES ASSUME NEW q \in Positions, Trusted(q)', idx'[q].exists
               PROVE  /\ idx'[q].size <= data[q].len
                      /\ Exact(data[q], idx'[q].entries, idx'[q].size)
    BY <1>1, <1>4 DEF IndexInv
  <2>1. CASE q = p
    <3>1. idx'[p].size = data[p].len /\ idx'[p].entries = scan.index
      BY <1>1, <1>3, <1>5, <2>1 DEF Inv, TypeOK
    <3>2. /\ Locates(data[p], scan.index)
          /\ \A c \in Chunks : scan.index[c] < data[p].len
          /\ Covers(data[p], scan.index,
                    IF scan.garbled THEN data[p].len ELSE scan.pos)
      BY <1>0, <1>1, <1>5, <2>1 DEF Inv, IInv, ScanInv
    <3>3. Covers(data[p], scan.index, data[p].len)
      <4>1. scan.pos >= data[p].len
        BY <1>1, <1>5, <2>1
      <4>2. \A r \in data[p].recs : r.at < scan.pos
        BY <4>1, <1>2, <1>3, FileFacts DEF Ordered, DataFile, Record
      <4> QED BY <3>2, <4>2 DEF Covers
    <3> QED BY <2>1, <3>1, <3>2, <3>3, <1>3, FileFacts DEF Exact
  <2>2. CASE q # p
    <3>1. idx'[q] = idx[q] /\ Trusted(q)
      BY <1>1, <1>4, <2>2 DEF Inv, TypeOK
    <3> QED BY <3>1, IndexFacts
  <2> QED BY <2>1, <2>2
<1>10. MemoryInv'
  BY <1>1, <1>4, FileFacts DEF MemoryInv
<1>11. ScanInv'
  BY <1>1, <1>2 DEF ScanInv, ScanOf
<1> QED BY <1>6, <1>7, <1>8, <1>9, <1>10, <1>11 DEF IInv

\* The initial state, and every step.
LEMMA InitInv == Init => Inv
<1> SUFFICES ASSUME Init PROVE Inv
  OBVIOUS
<1>1. TypeOK
  BY DefaultTypes DEF Init, TypeOK, Modes
<1>2. \A p \in Positions : Settled(p) = 0 /\ data[p] = EmptyData
  BY DEF Init, Settled, Pend, EmptyData
<1>3. SessionInv
  BY LimitAssumption DEF Init, SessionInv
<1>4. LayoutInv
  BY <1>2 DEF LayoutInv, Ordered, EmptyData
<1>5. WidthInv
  BY <1>2, LimitAssumption DEF WidthInv, EmptyData
<1>6. IndexInv
  BY DEF Init, IndexInv, NoIndex
<1>7. MemoryInv
  BY PositionFacts DEF Init, MemoryInv
<1>8. ScanInv
  BY DEF Init, ScanInv
<1> QED BY <1>1, <1>3, <1>4, <1>5, <1>6, <1>7, <1>8 DEF Inv, IInv

LEMMA NextInv == Inv /\ [Next]_vars => Inv'
<1> SUFFICES ASSUME Inv, [Next]_vars PROVE Inv'
  OBVIOUS
<1>1. TypeOK'
  BY TypeStep DEF Inv, IInv
<1>2. ASSUME NEW w \in BOOLEAN, OpenPool(w) PROVE IInv'
  BY <1>1, <1>2, OpenStep
<1>3. ASSUME NEW c \in Chunks, Insert(c) PROVE IInv'
  BY <1>1, <1>3, InsertStep
<1>4. ASSUME NEW c \in Chunks, Find(c) PROVE IInv'
  BY <1>1, <1>4, FindStep
<1>5. ASSUME FlushPool PROVE IInv'
  BY <1>1, <1>5, FlushStep
<1>6. ASSUME ClosePool PROVE IInv'
  BY <1>1, <1>6, EndStep
<1>7. ASSUME Crash PROVE IInv'
  BY <1>1, <1>7, CrashStep
<1>8. ASSUME RecoverIndex PROVE IInv'
  BY <1>1, <1>8, WalkStep
<1>9. ASSUME RecoveryStep PROVE IInv'
  BY <1>1, <1>9, WalkStep, SaveStep, EndStep DEF RecoveryStep
<1>10. ASSUME UNCHANGED vars PROVE IInv'
  BY <1>10 DEF vars, diskVars, sessionVars, historyVars, Inv, IInv, SessionInv,
     LayoutInv, WidthInv, IndexInv, MemoryInv, ScanInv, Settled, Pend, Front,
     Trusted, Visible
<1> QED
  BY <1>1, <1>2, <1>3, <1>4, <1>5, <1>6, <1>7, <1>8, <1>9, <1>10 DEF Next, Inv

-----------------------------------------------------------------------------
(* Theorems *)

\* Every reachable state satisfies the inductive invariant.
THEOREM Invariance == Spec => []Inv
BY InitInv, NextInv, PTL DEF Spec

\* Type correctness.  It needs the invariant: only the order of records says
\* that a crash leaves a file a natural length.
THEOREM TypeCorrect == Spec => []TypeOK
BY Invariance, PTL DEF Inv

\* An index file that passes the size check of FileData::load leads every
\* chunk it names to a record of that chunk, and misses no chunk of the file
\* that is not behind a record cut by a crash.
THEOREM AcceptedIndexIsExact == Spec => []AcceptedIndexExact
<1>1. Inv => AcceptedIndexExact
  <2> SUFFICES ASSUME Inv, NEW p \in Positions, Trusted(p), Accepts(p)
               PROVE  /\ Locates(data[p], idx[p].entries)
                      /\ Covers(data[p], idx[p].entries, data[p].len)
    BY DEF AcceptedIndexExact, Trusted
  <2>1. Wrap(data[p].len) = data[p].len
    BY FileFacts, WrapFacts DEF Inv, IInv, WidthInv
  <2>2. idx[p].exists /\ idx[p].size = data[p].len
    BY <2>1 DEF Accepts
  <2> QED BY <2>2, IndexFacts DEF Exact
<1> QED BY <1>1, Invariance, PTL

\* The same of the index in memory of every open file, whose size is the
\* length of the file.
THEOREM SessionIndexIsExact == Spec => []SessionIndexExact
<1>1. Inv => SessionIndexExact
  BY DEF Inv, IInv, MemoryInv, SessionIndexExact, Trusted, Exact
<1> QED BY <1>1, Invariance, PTL

-----------------------------------------------------------------------------
(* One insert, whichever of its three ways it goes                           *)

\* The file insert goes on with: the front one as it was left, except for its
\* failbit, or a new one.
Continued(o) ==
  \/ nopen' = nopen /\ (o = files[Front] \/ o = [files[Front] EXCEPT !.bad = FALSE])
  \/ nopen' = nopen + 1 /\ o = [NoFile EXCEPT !.size = Wrap(data[nopen].len)]

\* Either nothing on disk changes but the data, or a flush comes first.
FlushedFirst(opened) ==
  \/ opened = files /\ UNCHANGED <<idx, durable>> /\ (dirty => nopen' = nopen)
  \/ /\ dirty /\ nopen' = nopen + 1
     /\ opened = [files EXCEPT ![Front] = FlushedFile(files[Front])]
     /\ idx' = [idx EXCEPT ![Front] = FlushedIndex(files[Front])]
     /\ durable' = durable \cup acked

\* The ways of insert in one form.
LEMMA InsertForm ==
  ASSUME Inv, NEW c \in Chunks, Insert(c)
  PROVE  /\ mode = "rw" /\ nopen \in Nat /\ nopen' \in Nat /\ nopen' > 0
         /\ nopen' = nopen \/ nopen' = nopen + 1
         /\ Front' \in Positions /\ nopen' = Front' + 1 /\ ndata <= ndata' /\ nopen' <= ndata'
         /\ nopen' = nopen => Front' = Front
         /\ ~dirty /\ nopen' = nopen => ~firstNew
         /\ \E o \in OpenFile, pend \in Nat, opened \in [Positions -> OpenFile] :
              /\ Put(c, Front', o, pend, opened)
              /\ o.bad => Front' = Front /\ pend = pending
              /\ Continued(o) /\ FlushedFirst(opened)
<1>1. /\ nopen \in Nat /\ ndata \in Nat /\ nopen <= ndata /\ pending \in Nat
      /\ files \in [Positions -> OpenFile] /\ (dirty => nopen > 0)
  BY DEF Inv, TypeOK, IInv, SessionInv
<1>2. nopen > 0 => Front \in Positions /\ files[Front] \in OpenFile
  BY <1>1, FrontFacts DEF Inv, IInv
<1>3. CASE InsertOpen(c)
  <2>1. nopen' = nopen /\ ndata' = ndata /\ mode = "rw" /\ dirty
        /\ Put(c, Front, files[Front], pending, files) /\ UNCHANGED <<idx, durable>>
    BY <1>3 DEF InsertOpen
  <2>2. Front' = Front
    BY <2>1 DEF Front
  <2>3. nopen' = Front' + 1
    BY <1>1, <2>1 DEF Front
  <2>4. Continued(files[Front]) /\ FlushedFirst(files)
    BY <2>1 DEF Continued, FlushedFirst
  <2> QED BY <1>1, <1>2, <2>1, <2>2, <2>3, <2>4
<1>4. CASE InsertReopened(c)
  <2> DEFINE o == [files[Front] EXCEPT !.bad = FALSE]
  <2>1. nopen' = nopen /\ ndata' = ndata /\ mode = "rw" /\ ~dirty /\ ~firstNew /\ nopen > 0
        /\ Put(c, Front, o, 0, files) /\ UNCHANGED <<idx, durable>>
    BY <1>4 DEF InsertReopened
  <2>2. Front' = Front
    BY <2>1 DEF Front
  <2>3. nopen' = Front' + 1
    BY <1>1, <2>1 DEF Front
  <2>4. Continued(o) /\ FlushedFirst(files)
    BY <2>1 DEF Continued, FlushedFirst
  <2>5. o \in OpenFile /\ ~o.bad
    BY <1>2, <2>1 DEF OpenFile
  <2> HIDE DEF o
  <2> QED BY <1>1, <1>2, <2>1, <2>2, <2>3, <2>4, <2>5
<1>5. CASE InsertNew(c)
  <2> DEFINE o == [NoFile EXCEPT !.size = Wrap(data[nopen].len)]
             flushed == [files EXCEPT ![Front] = FlushedFile(files[Front])]
  <2>1. nopen' = nopen + 1 /\ mode = "rw" /\ nopen < MaxFiles
        /\ ndata' = IF ndata <= nopen THEN nopen + 1 ELSE ndata
    BY <1>5 DEF InsertNew
  <2>2. Front' = nopen /\ nopen \in Positions
    BY <1>1, <2>1, PositionFacts DEF Front
  <2>3. o \in OpenFile /\ ~o.bad
    BY <2>2, LoadedType DEF NoFile, Inv
  <2>4. Continued(o)
    BY <2>1 DEF Continued
  <2>5. CASE dirty
    <3>1. Put(c, nopen, o, 0, flushed) /\ idx' = [idx EXCEPT ![Front] = FlushedIndex(files[Front])]
          /\ durable' = durable \cup acked
      BY <1>5, <2>5 DEF InsertNew
    <3>2. flushed \in [Positions -> OpenFile]
      BY <1>1, <1>2, <2>5, FlushTypes
    <3>3. FlushedFirst(flushed)
      BY <2>1, <2>5, <3>1 DEF FlushedFirst
    <3> HIDE DEF o, flushed
    <3> QED BY <1>1, <2>1, <2>2, <2>3, <2>4, <2>5, <3>1, <3>2, <3>3
  <2>6. CASE ~dirty
    <3>1. Put(c, nopen, o, 0, files) /\ UNCHANGED <<idx, durable>>
      BY <1>5, <2>6 DEF InsertNew
    <3>2. FlushedFirst(files)
      BY <2>6, <3>1 DEF FlushedFirst
    <3> HIDE DEF o
    <3> QED BY <1>1, <2>1, <2>2, <2>3, <2>4, <2>6, <3>1, <3>2
  <2> QED BY <2>5, <2>6 DEF Inv, TypeOK
<1> QED BY <1>3, <1>4, <1>5 DEF Insert

\* What an insert does to the directory.
LEMMA InsertOnDisk ==
  ASSUME Inv, TypeOK', NEW c \in Chunks, Insert(c)
  PROVE  /\ \A q \in Positions : q # Front' => data'[q] = data[q]
         /\ data'[Front'] \in {data[Front'], Appended(data[Front'], c)}
         /\ \A q \in Positions : Settled(q)' \in Int /\ Settled(q) <= Settled(q)'
         /\ acked \subseteq acked' /\ acked' \subseteq acked \cup {c}
         /\ acked' = acked \/ data'[Front'] = Appended(data[Front'], c)
         /\ \/ UNCHANGED <<idx, durable>> /\ (dirty => nopen' = nopen)
            \/ /\ dirty /\ nopen' = nopen + 1 /\ Front \in Positions
               /\ idx' = [idx EXCEPT ![Front] = FlushedIndex(files[Front])]
               /\ durable' = durable \cup acked
               /\ \A q \in Positions : Settled(q)' = data[q].len
         /\ mode' = "rw" /\ dirty' = TRUE /\ firstNew' = FALSE
         /\ UNCHANGED <<newfile, base, scan>>
<1>0. PICK p : p = Front'
  OBVIOUS
<1>12. /\ mode = "rw" /\ nopen \in Nat /\ nopen' \in Nat /\ nopen' > 0
       /\ nopen' = nopen \/ nopen' = nopen + 1
       /\ p \in Positions /\ nopen' = p + 1
       /\ nopen' = nopen => p = Front
       /\ p = Front'
  BY <1>0, InsertForm
<1>1. PICK o \in OpenFile, pend \in Nat, opened \in [Positions -> OpenFile] :
        /\ Put(c, p, o, pend, opened)
        /\ o.bad => p = Front /\ pend = pending
        /\ Continued(o) /\ FlushedFirst(opened)
  BY <1>0, InsertForm
<1> DEFINE new == IF o.bad THEN data[p] ELSE Appended(data[p], c)
<1>2. /\ data' = [data EXCEPT ![p] = new]
      /\ pending' = IF o.bad THEN pend ELSE Written(c)
      /\ mode' = mode /\ dirty' = TRUE /\ firstNew' = FALSE
      /\ UNCHANGED <<newfile, base, scan>>
      /\ acked' \in {acked, acked \cup {c}} /\ (o.bad => acked' = acked)
  BY <1>1 DEF Put
<1>3. p \in Positions /\ mode = "rw"
  BY <1>12
<1>4. /\ \A q \in Positions : q # p => data'[q] = data[q]
      /\ data'[p] = new
  BY <1>2, <1>3 DEF Inv, TypeOK
<1>5. Written(c) \in Nat /\ new \in {data[p], Appended(data[p], c)}
      /\ (~o.bad => new = Appended(data[p], c) /\ new.len = data[p].len + Written(c))
      /\ (o.bad => new = data[p])
  BY SizesAgree DEF Appended
<1> HIDE DEF new
<1>6. \A q \in Positions : q # p => Settled(q)' = data[q].len
  BY <1>12, <1>4, FileFacts DEF Settled, Pend
<1>7. ~o.bad => Settled(p)' = data[p].len
  BY <1>12, <1>2, <1>4, <1>5, FileFacts DEF Settled, Pend
<1>8. o.bad => Settled(p)' = Settled(p)
  BY <1>12, <1>1, <1>2, <1>4, <1>5, FileFacts DEF Settled, Pend
<1>9. \A q \in Positions : Settled(q)' \in Int /\ Settled(q) <= Settled(q)'
  BY <1>3, <1>6, <1>7, <1>8, FileFacts
<1>10. \/ UNCHANGED <<idx, durable>> /\ (dirty => nopen' = nopen)
       \/ /\ dirty /\ nopen' = nopen + 1 /\ Front \in Positions
          /\ idx' = [idx EXCEPT ![Front] = FlushedIndex(files[Front])]
          /\ durable' = durable \cup acked
          /\ \A q \in Positions : Settled(q)' = data[q].len
  <2>1. CASE opened = files /\ UNCHANGED <<idx, durable>> /\ (dirty => nopen' = nopen)
    BY <2>1
  <2>2. CASE /\ dirty /\ nopen' = nopen + 1
             /\ idx' = [idx EXCEPT ![Front] = FlushedIndex(files[Front])]
             /\ durable' = durable \cup acked
    <3>1. Front \in Positions /\ Front # p
      BY <2>2, <1>0, FrontFacts DEF Inv, IInv, SessionInv, Front, TypeOK
    <3>2. ~o.bad
      BY <1>1, <3>1
    <3> QED BY <2>2, <3>1, <3>2, <1>6, <1>7
  <2> QED BY <1>1, <2>1, <2>2 DEF FlushedFirst
<1> QED BY <1>12, <1>2, <1>3, <1>4, <1>5, <1>9, <1>10

\* What it does to the files in memory.
LEMMA InsertInMemory ==
  ASSUME Inv, TypeOK', CleanInv, NEW c \in Chunks, Insert(c)
  PROVE  /\ suspect \subseteq suspect'
         /\ \A q \in Positions : q < nopen =>
              /\ q # Front' => /\ files'[q].size = files[q].size
                               /\ Merge(files'[q]) = Merge(files[q])
              /\ \A d \in Chunks : d # c \/ q # Front' =>
                   /\ Merge(files'[q])[d] = Merge(files[q])[d]
                   /\ files'[q].ram[d] \in {NoOffset, files[q].ram[d]}
         /\ nopen' = nopen + 1 =>
              \A d \in Chunks : d # c =>
                /\ Merge(files'[Front'])[d] = NoOffset
                /\ files'[Front'].ram[d] = NoOffset
         /\ Merge(files'[Front'])[c] = files'[Front'].ram[c]
         /\ files'[Front'].ram[c] # NoOffset
         /\ Front' \notin suspect' =>
              /\ data'[Front'] = Appended(data[Front'], c)
              /\ files'[Front'].size = data'[Front'].len
              /\ files'[Front'].size < Width
              /\ \/ files'[Front'].ram[c] = data[Front'].len
                 \/ nopen' = nopen /\ files'[Front'].ram[c] = files[Front].ram[c]
<1>0. PICK p : p = Front'
  OBVIOUS
<1>12. /\ mode = "rw" /\ nopen \in Nat /\ nopen' \in Nat /\ nopen' > 0
       /\ nopen' = nopen \/ nopen' = nopen + 1
       /\ p \in Positions /\ nopen' = p + 1
       /\ nopen' = nopen => p = Front
       /\ p = Front'
  BY <1>0, InsertForm
<1>1. PICK o \in OpenFile, pend \in Nat, opened \in [Positions -> OpenFile] :
        /\ Put(c, p, o, pend, opened)
        /\ o.bad => p = Front /\ pend = pending
        /\ Continued(o) /\ FlushedFirst(opened)
  BY <1>0, InsertForm
<1> DEFINE new == IF o.bad THEN data[p] ELSE Appended(data[p], c)
           size == Wrap(o.size + WriteSize(c))
           ram == PutAbsent(o.ram, c, o.size)
           made == [o EXCEPT !.ram = ram, !.size = size]
<1>2. /\ data' = [data EXCEPT ![p] = new]
      /\ files' = [opened EXCEPT ![p] = made]
      /\ suspect' = IF ~o.bad /\ size = new.len THEN suspect ELSE suspect \cup {p}
  BY <1>1 DEF Put
<1>3. p \in Positions /\ data'[p] = new /\ files'[p] = made
      /\ \A q \in Positions : q # p => files'[q] = opened[q]
  BY <1>12, <1>2 DEF Inv, TypeOK
<1>4. /\ Written(c) \in Nat /\ WriteSize(c) = Written(c)
      /\ o.size \in Nat /\ size \in Nat /\ size < Width
      /\ size <= o.size + Written(c)
  BY SizesAgree, WrapFacts DEF OpenFile
<1>5. /\ \A d \in Chunks : d # c => ram[d] = o.ram[d]
      /\ ram[c] # NoOffset /\ (ram[c] = o.size \/ ram[c] = o.ram[c])
      /\ o.ram \in Entries /\ o.fdata \in Entries
  <2>1. o.ram \in Entries /\ o.fdata \in Entries /\ o.size # NoOffset
    BY <1>4 DEF OpenFile, NoOffset
  <2>2. ram = IF o.ram[c] = NoOffset THEN [o.ram EXCEPT ![c] = o.size] ELSE o.ram
    BY DEF PutAbsent
  <2> HIDE DEF ram
  <2> QED BY <2>1, <2>2 DEF Entries
<1> HIDE DEF ram, size
<1>6. made.ram = ram /\ made.size = size /\ made.fdata = o.fdata
  BY DEF OpenFile
<1> HIDE DEF made, new
<1>7. /\ \A d \in Chunks : d # c => Merge(made)[d] = Merge(o)[d]
      /\ Merge(made)[c] = ram[c]
  BY <1>5, <1>6 DEF Merge
<1>8. /\ nopen' = nopen => /\ Front \in Positions /\ p = Front
                           /\ o.ram = files[p].ram /\ Merge(o) = Merge(files[p])
                           /\ o.size = files[p].size
      /\ nopen' = nopen + 1 =>
           /\ \A d \in Chunks : Merge(o)[d] = NoOffset /\ o.ram[d] = NoOffset
           /\ o.size = Wrap(data[p].len) /\ p = nopen
  <2>1. ASSUME nopen' = nopen
        PROVE  /\ Front \in Positions /\ p = Front
               /\ o.ram = files[p].ram /\ Merge(o) = Merge(files[p])
               /\ o.size = files[p].size
    <3>1. p = Front /\ Front \in Positions /\ files[Front] \in OpenFile
      BY <1>12, <2>1, FileFacts
    <3>2. o = files[Front] \/ o = [files[Front] EXCEPT !.bad = FALSE]
      BY <1>1, <1>12, <2>1 DEF Continued
    <3> QED BY <3>1, <3>2, MergeFacts DEF OpenFile
  <2>2. ASSUME nopen' = nopen + 1
        PROVE  /\ \A d \in Chunks : Merge(o)[d] = NoOffset /\ o.ram[d] = NoOffset
               /\ o.size = Wrap(data[p].len) /\ p = nopen
    <3>1. p = nopen
      BY <1>12, <2>2, PositionFacts
    <3>2. o = [NoFile EXCEPT !.size = Wrap(data[p].len)]
      BY <1>1, <1>12, <2>2, <3>1 DEF Continued
    <3>3. o.ram = NoEntries /\ o.fdata = NoEntries /\ o.size = Wrap(data[p].len)
      BY <3>2 DEF NoFile
    <3> QED BY <3>1, <3>3 DEF Merge, NoEntries
  <2> QED BY <2>1, <2>2
<1>9. ASSUME NEW q \in Positions, q < nopen, q # p
      PROVE  /\ files'[q].size = files[q].size
             /\ Merge(files'[q]) = Merge(files[q])
             /\ \A d \in Chunks : files'[q].ram[d] \in {NoOffset, files[q].ram[d]}
  <2>1. files'[q] = opened[q] /\ files[q] \in OpenFile
    BY <1>3, <1>9, FileFacts
  <2>2. CASE opened[q] = files[q]
    BY <2>1, <2>2
  <2>3. CASE opened[q] = FlushedFile(files[q])
    <3>1. FlushedFile(files[q]).ram = NoEntries
      <4> DEFINE m == Merge(files[q])
      <4>1. FlushedFile(files[q]) = [files[q] EXCEPT !.ram = NoEntries, !.fdata = m, !.bad = FALSE]
        BY DEF FlushedFile
      <4> HIDE DEF m
      <4> QED BY <2>1, <4>1 DEF OpenFile
    <3>2. /\ Merge(FlushedFile(files[q])) = Merge(files[q])
          /\ FlushedFile(files[q]).size = files[q].size
      BY <2>1, MergeFacts
    <3>3. \A d \in Chunks : FlushedFile(files[q]).ram[d] = NoOffset
      BY <3>1 DEF NoEntries
    <3> QED BY <2>1, <2>3, <3>2, <3>3
  <2>4. opened[q] \in {files[q], FlushedFile(files[q])}
    BY <1>1, <1>9, FileFacts DEF FlushedFirst, Inv, TypeOK
  <2> QED BY <2>2, <2>3, <2>4
<1>10. ASSUME p \notin suspect'
       PROVE  /\ new = Appended(data[p], c) /\ size = new.len /\ size < Width
              /\ o.size = data[p].len
  <2>1. ~o.bad /\ size = new.len
    BY <1>2, <1>10
  <2>2. new = Appended(data[p], c) /\ new.len = data[p].len + Written(c)
    BY <2>1 DEF new, Appended
  <2>3. data[p].len \in Nat
    BY <1>12, FileFacts
  <2>4. o.size >= data[p].len
    BY <2>1, <2>2, <2>3, <1>4
  <2>5. Wrap(data[p].len) <= data[p].len
    BY <2>3, WrapFacts
  <2>6. o.size = Wrap(data[p].len)
    <3>1. CASE nopen' = nopen
      <4>1. o.size = files[p].size /\ p < nopen /\ p \in Positions
        BY <1>12, <1>8, <3>1, PositionFacts
      <4>2. p \notin suspect
        BY <1>2, <1>10
      <4> QED BY <4>1, <4>2 DEF CleanInv
    <3> QED BY <1>12, <1>8, <3>1
  <2>7. o.size = data[p].len
    BY <1>4, <2>3, <2>4, <2>5, <2>6
  <2> QED BY <1>4, <2>1, <2>2, <2>7
<1> QED
  BY <1>12, <1>2, <1>3, <1>5, <1>6, <1>7, <1>8, <1>9, <1>10

\* Closing, crashing and recovering leave no file open.
LEMMA NoneOpen ==
  ASSUME Inv, ClosePool \/ Crash \/ RecoverIndex \/ RecoveryStep
  PROVE  nopen' = 0 /\ mode' \notin {"ro", "rw"}
BY DEF ClosePool, Crash, RecoverIndex, RecoveryStep, LoadIndex, ReadHeader,
       ReadTornHeader, RecoveryThrows, SaveIndex, RecoveryEnds, AtHeader, Gone,
       sessionVars, Inv, IInv, SessionInv

-----------------------------------------------------------------------------
(* Files that are not being written                                          *)

\* Every step keeps CleanInv: what a flush or an open leaves agrees with the disk.
LEMMA CleanStep ==
  ASSUME Inv, TypeOK', CleanInv, [Next]_vars
  PROVE  CleanInv'
<1>1. ASSUME NEW w \in BOOLEAN, OpenPool(w) PROVE CleanInv'
  <2> SUFFICES ASSUME NEW q \in Positions, q < nopen'
               PROVE  /\ files'[q].size = Wrap(data'[q].len)
                      /\ Accepts(q)' /\ idx'[q].entries = Merge(files'[q])
    BY DEF CleanInv
  <2>1. files'[q] = Loaded(q) /\ Accepts(q) /\ UNCHANGED <<data, idx>>
    BY <1>1 DEF OpenPool, diskVars
  <2>2. files'[q].ram = NoEntries /\ files'[q].fdata = idx[q].entries
        /\ files'[q].size = Wrap(data[q].len) /\ files'[q] \in OpenFile
    <3>1. files'[q] \in OpenFile
      BY DEF TypeOK
    <3> QED BY <2>1, <3>1 DEF Loaded
  <2>3. Merge(files'[q]) = idx[q].entries
    BY <2>2, MergeFacts
  <2> QED BY <2>1, <2>2, <2>3 DEF Accepts
<1>2. ASSUME NEW c \in Chunks, Insert(c) PROVE CleanInv'
  <2> SUFFICES ASSUME NEW q \in Positions, q < nopen', q \notin suspect'
               PROVE  /\ files'[q].size = Wrap(data'[q].len)
                      /\ q # Front' => Accepts(q)' /\ idx'[q].entries = Merge(files'[q])
    BY <1>2, InsertOnDisk DEF CleanInv
  <2>1. CASE q = Front'
    <3>1. files'[q].size = data'[q].len /\ files'[q].size < Width
      BY <1>2, <2>1, InsertInMemory
    <3>2. data'[q].len \in Nat
      BY DEF TypeOK, DataFile
    <3> QED BY <2>1, <3>1, <3>2, WrapFacts
  <2>2. CASE q # Front'
    <3>1. q < nopen
      <4>1. PICK p \in Nat : p = Front'
        BY <1>2, InsertForm, PositionFacts
      <4>2. nopen' = p + 1 /\ (nopen' = nopen \/ nopen' = nopen + 1) /\ nopen \in Nat
        BY <1>2, <4>1, InsertForm
      <4>3. q \in Nat /\ q # p
        BY <2>2, <4>1, PositionFacts
      <4> QED BY <4>2, <4>3
    <3>2. q \notin suspect /\ files'[q].size = files[q].size /\ Merge(files'[q]) = Merge(files[q])
          /\ data'[q] = data[q]
      BY <1>2, <2>2, <3>1, InsertInMemory, InsertOnDisk
    <3>3. files[q].size = Wrap(data[q].len)
      BY <3>1, <3>2 DEF CleanInv
    <3>4. idx'[q].exists /\ idx'[q].size = Wrap(data[q].len) /\ idx'[q].entries = Merge(files[q])
      <4>1. CASE dirty /\ q = Front
        <5>1. idx' = [idx EXCEPT ![Front] = FlushedIndex(files[Front])]
          BY <1>2, <2>2, <4>1, InsertOnDisk, InsertForm
        <5>2. idx'[q] = FlushedIndex(files[q])
          BY <4>1, <5>1 DEF Inv, TypeOK
        <5> QED BY <3>3, <5>2 DEF FlushedIndex
      <4>2. CASE q # Front \/ ~dirty
        <5>1. idx'[q] = idx[q]
          BY <1>2, <4>2, InsertOnDisk DEF Inv, TypeOK
        <5>2. Accepts(q) /\ idx[q].entries = Merge(files[q])
          BY <3>1, <3>2, <4>2 DEF CleanInv
        <5> QED BY <5>1, <5>2 DEF Accepts
      <4> QED BY <4>1, <4>2 DEF Inv, TypeOK
    <3> QED BY <3>2, <3>3, <3>4 DEF Accepts
  <2> QED BY <2>1, <2>2
<1>3. ASSUME NEW c \in Chunks, Find(c) PROVE CleanInv'
  <2>1. UNCHANGED <<data, idx, nopen, dirty, suspect>>
    BY <1>3 DEF Find, diskVars, historyVars
  <2>2. \A q \in Positions : files'[q].size = files[q].size /\ Merge(files'[q]) = Merge(files[q])
    BY <1>3 DEF Find, Inv, TypeOK, OpenFile, Merge
  <2> QED BY <2>1, <2>2 DEF CleanInv, Accepts, Front
<1>4. CASE FlushPool
  <2>1. /\ UNCHANGED <<data, nopen, suspect>>
        /\ idx' = [idx EXCEPT ![Front] = FlushedIndex(files[Front])]
        /\ files' = [files EXCEPT ![Front] = FlushedFile(files[Front])]
    BY <1>4 DEF FlushPool
  <2> SUFFICES ASSUME NEW q \in Positions, q < nopen, q \notin suspect
               PROVE  /\ files'[q].size = Wrap(data[q].len)
                      /\ idx'[q].exists /\ idx'[q].size = Wrap(data[q].len)
                      /\ idx'[q].entries = Merge(files'[q])
    BY <2>1 DEF CleanInv, Accepts
  <2>2. CASE q = Front
    <3>1. idx'[q] = FlushedIndex(files[q]) /\ files'[q] = FlushedFile(files[q])
          /\ files[q].size = Wrap(data[q].len) /\ files[q] \in OpenFile
      BY <2>1, <2>2 DEF Inv, TypeOK, CleanInv
    <3>2. FlushedIndex(files[q]).exists
      BY DEF FlushedIndex
    <3> QED BY <3>1, <3>2, MergeFacts
  <2>3. CASE q # Front
    <3>1. idx'[q] = idx[q] /\ files'[q] = files[q]
      BY <2>1, <2>3 DEF Inv, TypeOK
    <3> QED BY <2>3, <3>1 DEF CleanInv, Accepts
  <2> QED BY <2>2, <2>3
<1>5. ASSUME ClosePool \/ Crash \/ RecoverIndex \/ RecoveryStep PROVE CleanInv'
  BY <1>5, NoneOpen, PositionFacts DEF CleanInv
<1>6. CASE UNCHANGED vars
  BY <1>6 DEF vars, diskVars, sessionVars, historyVars, CleanInv, Accepts, Front
<1> QED BY <1>1, <1>2, <1>3, <1>4, <1>5, <1>6 DEF Next

-----------------------------------------------------------------------------
(* Recovery                                                                  *)

\* The actions that do not recover leave or reach "recover" only at its start.
LEMMA NotRecovering ==
  ASSUME Inv, [Next]_vars, mode' = "recover", mode # "recover"
  PROVE  RecoverIndex
BY InsertForm
   DEF Next, vars, sessionVars, OpenPool, Insert, Put, Find, FlushPool, ClosePool, Crash,
       RecoveryStep, LoadIndex, ReadHeader, ReadTornHeader, RecoveryThrows,
       SaveIndex, RecoveryEnds, AtHeader, Gone, InsertOpen, InsertReopened, InsertNew

\* What happens while a recovery goes on.
LEMMA Recovering ==
  ASSUME Inv, [Next]_vars, mode' = "recover", mode = "recover"
  PROVE  LoadIndex \/ ReadHeader \/ ReadTornHeader \/ SaveIndex \/ UNCHANGED vars
BY DEF Next, OpenPool, Insert, InsertOpen, InsertReopened, InsertNew, Find,
       FlushPool, ClosePool, Crash, RecoverIndex, RecoveryStep, RecoveryThrows,
       RecoveryEnds, Gone

\* Every step keeps RecoveredInv: recovery passes a file only once its index is good.
LEMMA RecoveredStep ==
  ASSUME Inv, TypeOK', RecoveredInv, [Next]_vars
  PROVE  RecoveredInv'
<1> SUFFICES ASSUME mode' = "recover"
             PROVE  /\ scan'.file <= Visible'
                    /\ \A p \in Positions : p < scan'.file => Accepts(p)'
  BY DEF RecoveredInv, RecoveredFilesOpen
<1>1. CASE mode # "recover"
  <2>1. RecoverIndex
    BY <1>1, NotRecovering
  <2>2. scan'.file = 0 /\ Visible' \in Nat
    BY <2>1, FrontFacts DEF RecoverIndex, ScanOf, Visible, diskVars, Inv, IInv
  <2> QED BY <2>2, PositionFacts
<1>2. CASE mode = "recover"
  <2>1. /\ scan \in Scan /\ scan.file \in Nat /\ Visible \in Nat /\ scan.file <= Visible
        /\ \A p \in Positions : p < scan.file => Accepts(p)
    BY <1>2, FrontFacts DEF Inv, IInv, TypeOK, Scan, RecoveredInv, RecoveredFilesOpen
  <2>2. CASE LoadIndex
    <3>1. UNCHANGED <<data, ndata, idx>> /\ scan.file < Visible
      BY <2>2 DEF LoadIndex, diskVars
    <3>2. scan'.file = scan.file \/ (scan'.file = scan.file + 1 /\ Accepts(scan.file))
      <4>1. CASE Accepts(scan.file)
        BY <2>2, <4>1 DEF LoadIndex, ScanOf
      <4>2. CASE ~Accepts(scan.file)
        <5>1. scan' = [scan EXCEPT !.active = TRUE]
          BY <2>2, <4>2 DEF LoadIndex
        <5>2. scan \in Scan
          BY <2>1
        <5>3. scan'.file = scan.file
          BY <5>1, <5>2 DEF Scan
        <5> QED BY <5>3
      <4> QED BY <4>1, <4>2
    <3> QED BY <2>1, <3>1, <3>2, PositionFacts DEF Accepts, Visible
  <2>3. CASE ReadHeader \/ ReadTornHeader
    <3>1. UNCHANGED <<data, ndata, idx>> /\ scan'.file = scan.file
      BY <2>1, <2>3 DEF ReadHeader, ReadTornHeader, diskVars, Scan
    <3> QED BY <2>1, <3>1 DEF Accepts, Visible
  <2>4. CASE SaveIndex
    <3>1. PICK f : f = scan.file
      OBVIOUS
    <3>2. /\ idx' = [idx EXCEPT ![f] =
                       [exists |-> TRUE, size |-> ScanSize, entries |-> scan.index]]
          /\ UNCHANGED <<data, ndata>> /\ scan'.file = f + 1
      BY <2>4, <3>1 DEF SaveIndex, ScanOf
    <3>3. f < Visible /\ f \in Positions /\ f \in Nat
      BY <1>2, <2>1, <2>4, <3>1, FrontFacts DEF SaveIndex, Inv, IInv, ScanInv
    <3>4. idx'[f].exists /\ idx'[f].size = ScanSize
      BY <3>2, <3>3 DEF Inv, TypeOK
    <3>5. Accepts(f)'
      BY <3>1, <3>2, <3>4 DEF Accepts, ScanSize
    <3>6. \A p \in Positions : p # f => (Accepts(p)' <=> Accepts(p))
      BY <3>2 DEF Accepts, Inv, TypeOK
    <3> QED BY <2>1, <3>1, <3>2, <3>3, <3>5, <3>6, PositionFacts DEF Visible
  <2>5. CASE UNCHANGED vars
    BY <2>1, <2>5 DEF vars, diskVars, Accepts, Visible
  <2> QED BY <1>2, <2>2, <2>3, <2>4, <2>5, Recovering
<1> QED BY <1>1, <1>2

\* Appending leaves no gap.
LEMMA AppendContiguous ==
  ASSUME NEW f \in DataFile, NEW s \in Int, Ordered(f, s), Contiguous(f), NEW c \in Chunks
  PROVE  Contiguous(Appended(f, c))
<1> DEFINE g == Appended(f, c)
           rec == [at |-> f.len, chunk |-> c, have |-> Written(c)]
<1>1. rec \in g.recs /\ f.recs \subseteq g.recs /\ g.len = f.len + Written(c)
      /\ g.recs = f.recs \cup {rec}
  BY DEF Appended
<1>2. rec.at = f.len /\ rec.have = Written(c)
  OBVIOUS
<1>3. g.len = 0 \/ RecordsAt(g, 0) # {}
  <2>1. CASE f.len = 0
    BY <2>1, <1>1, <1>2 DEF RecordsAt
  <2>2. CASE RecordsAt(f, 0) # {}
    BY <2>2, <1>1 DEF RecordsAt
  <2> QED BY <2>1, <2>2 DEF Contiguous
<1> HIDE DEF g, rec
<1>4. ASSUME NEW r \in g.recs
      PROVE  r.at + r.have = g.len \/ RecordsAt(g, r.at + r.have) # {}
  <2>1. CASE r = rec
    BY <2>1, <1>1, <1>2
  <2>2. CASE r \in f.recs /\ r.at + r.have = f.len
    BY <2>2, <1>1, <1>2 DEF RecordsAt
  <2>3. CASE r \in f.recs /\ RecordsAt(f, r.at + r.have) # {}
    BY <2>3, <1>1 DEF RecordsAt
  <2> QED BY <1>1, <2>1, <2>2, <2>3 DEF Contiguous
<1> QED BY <1>3, <1>4 DEF Contiguous, g

\* Cutting leaves no gap.
LEMMA TruncateContiguous ==
  ASSUME NEW f \in DataFile, NEW s \in Int, Ordered(f, s), Contiguous(f),
         NEW n \in Nat, s <= n, n <= f.len
  PROVE  Contiguous(Truncated(f, n))
<1> DEFINE g == Truncated(f, n)
<1>1. g.len = n
  BY DEF Truncated
<1>2. ASSUME NEW off \in Nat, off < n, RecordsAt(f, off) # {}
      PROVE  RecordsAt(g, off) # {}
  <2>1. PICK x \in f.recs : x.at = off
    BY <1>2 DEF RecordsAt
  <2>2. \E r \in g.recs : r.at = x.at
    BY <1>2, <2>1, TruncatedRecords
  <2> HIDE DEF g
  <2> QED BY <2>1, <2>2 DEF RecordsAt
<1>3. g.len = 0 \/ RecordsAt(g, 0) # {}
  <2>1. CASE n = 0
    BY <2>1, <1>1
  <2>2. CASE n > 0
    <3>1. f.len # 0
      BY <2>2 DEF DataFile
    <3> QED BY <2>2, <3>1, <1>2 DEF Contiguous
  <2> QED BY <2>1, <2>2
<1>4. ASSUME NEW r \in g.recs
      PROVE  r.at + r.have = n \/ RecordsAt(g, r.at + r.have) # {}
  <2>1. PICK x \in f.recs :
          /\ x.at < n /\ r.at = x.at
          /\ x.at + x.have <= n => r = x
          /\ r.have = IF x.at + x.have <= n THEN x.have ELSE n - x.at
    BY TruncatedRecords
  <2>2. x.at \in Nat /\ x.have \in Nat
    BY DEF DataFile, Record
  <2>3. CASE x.at + x.have > n
    BY <2>1, <2>2, <2>3
  <2>4. CASE x.at + x.have = n
    BY <2>1, <2>2, <2>4
  <2>5. CASE x.at + x.have < n
    <3>1. RecordsAt(f, x.at + x.have) # {}
      BY <2>5, <2>2 DEF Contiguous, DataFile
    <3>2. x.at + x.have \in Nat /\ r = x
      BY <2>1, <2>2, <2>5
    <3> HIDE DEF g
    <3> QED BY <2>5, <3>1, <3>2, <1>2
  <2> QED BY <2>2, <2>3, <2>4, <2>5
<1> HIDE DEF g
<1> QED BY <1>1, <1>3, <1>4 DEF Contiguous, g

\* Only an insert and a crash change the data.
LEMMA DataKept ==
  ASSUME Inv, [Next]_vars
  PROVE  \/ data' = data
         \/ \E c \in Chunks : Insert(c)
         \/ Crash
BY DEF Next, vars, diskVars, OpenPool, Find, FlushPool, ClosePool, RecoverIndex,
       RecoveryStep, LoadIndex, ReadHeader, ReadTornHeader, RecoveryThrows,
       SaveIndex, RecoveryEnds

\* What a crash leaves.
LEMMA CrashFacts ==
  ASSUME Inv, Crash
  PROVE  /\ Gone /\ UNCHANGED <<ndata, idx, newfile, durable, suspect>>
         /\ \/ data' = data
            \/ /\ dirty /\ Front \in Positions
               /\ \A q \in Positions : q # Front => data'[q] = data[q]
               /\ \E n \in Nat : /\ Settled(Front) <= n /\ n <= data[Front].len
                                 /\ data'[Front] = Truncated(data[Front], n)
<1>1. PICK lost \in 0 .. pending :
        data' = IF lost = 0 THEN data
                ELSE [data EXCEPT ![Front] =
                        Truncated(data[Front], data[Front].len - lost)]
  BY DEF Crash
<1>2. CASE lost = 0
  BY <1>1, <1>2 DEF Crash
<1>3. CASE lost # 0
  <2> DEFINE n == data[Front].len - lost
  <2>1. dirty /\ Front \in Positions
    BY <1>3, FrontFacts DEF Inv, IInv, SessionInv, TypeOK
  <2>2. n \in Nat /\ Settled(Front) <= n /\ n <= data[Front].len
    BY <2>1, FileFacts
  <2>3. /\ data'[Front] = Truncated(data[Front], n)
        /\ \A q \in Positions : q # Front => data'[q] = data[q]
    BY <1>1, <1>3, <2>1 DEF Inv, TypeOK
  <2> HIDE DEF n
  <2> QED BY <2>1, <2>2, <2>3 DEF Crash
<1> QED BY <1>2, <1>3

\* The walk goes from record to record.
LEMMA WalkKept ==
  ASSUME Inv, TypeOK', WalkInv, [Next]_vars
  PROVE  WalkInv'
<1>1. \A p \in Positions : Contiguous(data'[p])
  <2> SUFFICES ASSUME NEW p \in Positions PROVE Contiguous(data'[p])
    OBVIOUS
  <2>1. Contiguous(data[p]) /\ data[p] \in DataFile /\ Ordered(data[p], Settled(p))
        /\ Settled(p) \in Int
    BY FileFacts DEF WalkInv
  <2>2. ASSUME NEW c \in Chunks, Insert(c) PROVE Contiguous(data'[p])
    <3>1. data'[p] = data[p] \/ data'[p] = Appended(data[p], c)
      BY <2>2, InsertOnDisk
    <3> QED BY <2>1, <3>1, AppendContiguous
  <2>3. CASE Crash
    <3>1. CASE data'[p] = data[p]
      BY <2>1, <3>1
    <3>2. CASE data'[p] # data[p]
      <4>1. PICK n \in Nat : /\ Settled(p) <= n /\ n <= data[p].len
                             /\ data'[p] = Truncated(data[p], n)
        BY <2>3, <3>2, CrashFacts
      <4> QED BY <2>1, <4>1, TruncateContiguous
    <3> QED BY <3>1, <3>2
  <2> QED BY <2>1, <2>2, <2>3, DataKept
<1>2. ASSUME mode' = "recover", scan'.active,
             WholeFile(data'[scan'.file]), data'[scan'.file].len < Width
      PROVE  scan'.pos = data'[scan'.file].len \/ Here' # {}
  <2>1. CASE mode # "recover"
    <3>1. RecoverIndex
      BY <1>2, <2>1, NotRecovering
    <3> QED BY <1>2, <3>1 DEF RecoverIndex, ScanOf
  <2>2. CASE mode = "recover"
    <3>1. LoadIndex \/ ReadHeader \/ ReadTornHeader \/ SaveIndex \/ UNCHANGED vars
      BY <1>2, <2>2, Recovering
    <3>2. scan \in Scan /\ scan.file \in Nat /\ scan.pos \in Nat
      BY DEF Inv, TypeOK, Scan
    <3>3. CASE SaveIndex
      BY <1>2, <3>3 DEF SaveIndex, ScanOf
    <3>4. CASE UNCHANGED vars
      BY <1>2, <2>2, <3>4 DEF vars, diskVars, sessionVars, WalkInv, Here
    <3>5. CASE LoadIndex
      <4>1. scan' = [scan EXCEPT !.active = TRUE] /\ data' = data /\ ~scan.active
            /\ scan.file < Visible
        BY <1>2, <3>5 DEF LoadIndex, ScanOf, diskVars
      <4>2. scan = ScanOf(scan.file)
        BY <2>2, <4>1 DEF Inv, IInv, ScanInv
      <4>3. scan'.file = scan.file /\ scan'.pos = 0
        BY <4>1, <4>2 DEF ScanOf
      <4>4. scan.file \in Positions
        BY <3>2, <4>1, FrontFacts DEF Inv, IInv
      <4>5. Contiguous(data[scan.file])
        BY <4>4 DEF WalkInv
      <4> QED BY <4>1, <4>3, <4>5 DEF Contiguous, Here
    <3>6. CASE ReadHeader \/ ReadTornHeader
      <4>1. AtHeader /\ data' = data /\ scan'.file = scan.file
        BY <3>2, <3>6 DEF ReadHeader, ReadTornHeader, diskVars, Scan
      <4>2. scan.file \in Positions /\ data[scan.file] \in DataFile
        BY <2>2, <3>2, <4>1, FrontFacts, FileFacts DEF AtHeader, Inv, IInv, ScanInv
      <4>3. ASSUME NEW r \in Here
            PROVE  /\ r \in data[scan.file].recs /\ r.at = scan.pos
                   /\ r.at \in Nat /\ r.chunk \in Chunks
                   /\ r.have = WriteSize(r.chunk) /\ r.have \in Nat
                   /\ WholeHeader(r) /\ r.at + r.have <= data[scan.file].len
                   /\ \/ r.at + r.have = data[scan.file].len
                      \/ RecordsAt(data[scan.file], r.at + r.have) # {}
        <5>1. r \in data[scan.file].recs /\ r.at = scan.pos
          BY DEF Here, RecordsAt
        <5>2. r.at \in Nat /\ r.chunk \in Chunks /\ r.have \in Nat
          BY <4>2, <5>1 DEF DataFile, Record
        <5>3. r.have = Written(r.chunk) /\ WriteSize(r.chunk) = Written(r.chunk)
          BY <1>2, <4>1, <5>1, <5>2, SizesAgree DEF WholeFile, Intact
        <5>4. Written(r.chunk) >= HeaderSize
          <6>1. Payload[r.chunk] \in Nat /\ Align \in Nat \ {0} /\ HeaderSize \in Nat
            BY <5>2, LayoutAssumption
          <6>2. PadLen(Payload[r.chunk]) \in Nat
            BY <6>1, PaddingAgrees, LayoutAssumption, Zenon DEF PadLen
          <6> QED BY <6>1, <6>2 DEF Written
        <5>5. r.at + r.have <= data[scan.file].len
          BY <4>2, <5>1, FileFacts DEF Ordered
        <5>6. \/ r.at + r.have = data[scan.file].len
              \/ RecordsAt(data[scan.file], r.at + r.have) # {}
          BY <4>2, <5>1 DEF WalkInv, Contiguous
        <5> QED BY <5>1, <5>2, <5>3, <5>4, <5>5, <5>6 DEF WholeHeader
      <4>4. CASE ReadHeader
        <5>1. PICK r \in Here :
                scan' = [scan EXCEPT !.index = PutAbsent(@, r.chunk, scan.pos),
                                     !.pos = Wrap(scan.pos + WriteSize(r.chunk))]
          BY <4>4 DEF ReadHeader
        <5>2. scan'.pos = Wrap(r.at + r.have)
          BY <3>2, <4>3, <5>1 DEF Scan
        <5>3. scan'.pos = r.at + r.have
          <6>1. r.at + r.have \in Nat /\ r.at + r.have < Width
            BY <1>2, <4>1, <4>2, <4>3, LimitAssumption DEF DataFile
          <6> QED BY <5>2, <6>1, WrapFacts
        <5> QED BY <4>1, <4>3, <5>3 DEF Here
      <4>5. CASE ReadTornHeader
        BY <4>3, <4>5 DEF ReadTornHeader
      <4> QED BY <3>6, <4>4, <4>5
    <3> QED BY <3>1, <3>3, <3>4, <3>5, <3>6
  <2> QED BY <2>1, <2>2
<1> QED BY <1>1, <1>2 DEF WalkInv

-----------------------------------------------------------------------------
(* Records of chunks                                                         *)

\* A record is in file p, and whole; and, below the given position.
Has(p, c)         == \E r \in data[p].recs : r.chunk = c /\ Intact(r)
HasBelow(p, c, n) == \E r \in data[p].recs : r.chunk = c /\ Intact(r) /\ r.at + r.have <= n

\* A record that is there is below the length, and below any later position.
LEMMA HasFacts ==
  ASSUME Inv, NEW p \in Positions, NEW c \in Chunks
  PROVE  /\ Has(p, c) => HasBelow(p, c, data[p].len)
         /\ \A m, n \in Int : m <= n /\ HasBelow(p, c, m) => HasBelow(p, c, n)
<1>1. \A r \in data[p].recs : r.at \in Nat /\ r.have \in Nat /\ r.at + r.have <= data[p].len
  BY FileFacts DEF Ordered, DataFile, Record
<1>2. Has(p, c) => HasBelow(p, c, data[p].len)
  BY <1>1 DEF Has, HasBelow
<1>3. ASSUME NEW m \in Int, NEW n \in Int, m <= n, HasBelow(p, c, m)
      PROVE  HasBelow(p, c, n)
  BY <1>1, <1>3 DEF HasBelow
<1> QED BY <1>2, <1>3

\* In a file that is appended to, what was there is there.
LEMMA AppendKeeps ==
  ASSUME NEW f, NEW c \in Chunks
  PROVE  /\ f.recs \subseteq Appended(f, c).recs
         /\ \E r \in Appended(f, c).recs :
              r.at = f.len /\ r.chunk = c /\ Intact(r)
<1> DEFINE rec == [at |-> f.len, chunk |-> c, have |-> Written(c)]
<1>1. rec \in Appended(f, c).recs /\ f.recs \subseteq Appended(f, c).recs
  BY DEF Appended
<1>2. rec.at = f.len /\ rec.chunk = c /\ rec.have = Written(c)
  OBVIOUS
<1> HIDE DEF rec
<1> QED BY <1>1, <1>2 DEF Intact

\* What is settled stays, and what is in a file stays while it is open.
LEMMA RecordsStay ==
  ASSUME Inv, TypeOK', [Next]_vars, NEW p \in Positions, NEW c \in Chunks
  PROVE  /\ HasBelow(p, c, Settled(p)) => HasBelow(p, c, Settled(p))'
         /\ ~Crash /\ Has(p, c) => Has(p, c)'
<1>0. /\ Settled(p) \in Int /\ Settled(p) <= data[p].len /\ data[p] \in DataFile
      /\ Ordered(data[p], Settled(p)) /\ data[p].len \in Nat
  BY FileFacts
<1>1. ASSUME NEW d \in Chunks, Insert(d)
      PROVE  /\ HasBelow(p, c, Settled(p)) => HasBelow(p, c, Settled(p))'
             /\ Has(p, c) => Has(p, c)'
  <2>1. data'[p] = data[p] \/ data'[p] = Appended(data[p], d)
    BY <1>1, InsertOnDisk
  <2>2. data[p].recs \subseteq data'[p].recs
    BY <2>1, AppendKeeps
  <2>3. Settled(p)' \in Int /\ Settled(p) <= Settled(p)'
    BY <1>1, InsertOnDisk
  <2>4. HasBelow(p, c, Settled(p)) => HasBelow(p, c, Settled(p)')
    BY <1>0, <2>3, HasFacts
  <2> QED BY <2>2, <2>4 DEF HasBelow, Has
<1>2. CASE Crash
  <2>1. Settled(p)' = data'[p].len
    <3>1. pending' = 0
      BY <1>2 DEF Crash, Gone
    <3>2. data'[p].len \in Nat
      BY DEF TypeOK, DataFile
    <3> QED BY <3>1, <3>2 DEF Settled, Pend
  <2>2. CASE data'[p] = data[p]
    <3>1. HasBelow(p, c, Settled(p)) => HasBelow(p, c, data[p].len)
      BY <1>0, HasFacts
    <3> QED BY <1>2, <2>1, <2>2, <3>1 DEF HasBelow
  <2>3. CASE data'[p] # data[p]
    <3>1. PICK n \in Nat : /\ Settled(p) <= n /\ n <= data[p].len
                           /\ data'[p] = Truncated(data[p], n)
      BY <1>2, <2>3, CrashFacts
    <3>2. data'[p].len = n
      BY <3>1 DEF Truncated
    <3>3. \A x \in data[p].recs : x.at + x.have <= n => x \in data'[p].recs
      BY <1>0, <3>1, TruncatedRecords
    <3>4. HasBelow(p, c, Settled(p)) => HasBelow(p, c, n)
      BY <1>0, <3>1, HasFacts
    <3>5. HasBelow(p, c, n) => HasBelow(p, c, Settled(p))'
      BY <2>1, <3>2, <3>3 DEF HasBelow
    <3> QED BY <1>2, <3>4, <3>5
  <2> QED BY <1>2, <2>2, <2>3
<1>3. ASSUME data' = data, ~Crash
      PROVE  /\ HasBelow(p, c, Settled(p)) => HasBelow(p, c, Settled(p))'
             /\ Has(p, c) => Has(p, c)'
  <2>1. CASE \E d \in Chunks : Insert(d)
    BY <1>1, <2>1
  <2>2. CASE ~ \E d \in Chunks : Insert(d)
    <3>1. \/ pending' = 0 \/ UNCHANGED <<pending, nopen>>
          \/ \E w \in BOOLEAN : OpenPool(w)
      BY <1>3, <2>2 DEF Next, vars, sessionVars, Find, FlushPool, ClosePool,
         Gone, RecoverIndex, RecoveryStep, LoadIndex, ReadHeader, ReadTornHeader,
         RecoveryThrows, SaveIndex, RecoveryEnds
    <3>2. Settled(p)' = Settled(p) \/ Settled(p)' = data[p].len
      <4>1. CASE pending' = 0
        BY <1>0, <1>3, <4>1 DEF Settled, Pend
      <4>2. CASE UNCHANGED <<pending, nopen>>
        BY <1>3, <4>2 DEF Settled, Pend, Front
      <4>3. CASE \E w \in BOOLEAN : OpenPool(w)
        <5>1. pending' = 0
          BY <4>3 DEF OpenPool, Inv, IInv, SessionInv, TypeOK
        <5> QED BY <4>1, <5>1
      <4> QED BY <3>1, <4>1, <4>2, <4>3
    <3>3. HasBelow(p, c, Settled(p)) => HasBelow(p, c, Settled(p)')
      BY <1>0, <3>2, HasFacts
    <3> QED BY <1>3, <3>3 DEF HasBelow, Has
  <2> QED BY <2>1, <2>2
<1> QED BY <1>1, <1>2, <1>3, DataKept

\* Every step keeps StoredInv: what a flush covers was settled by it.
LEMMA StoredStep ==
  ASSUME Inv, TypeOK', StoredInv, [Next]_vars
  PROVE  StoredInv'
<1>1. /\ \A c \in acked : \E p \in Positions : p < ndata /\ Has(p, c)
      /\ \A c \in durable : \E p \in Positions : p < ndata /\ HasBelow(p, c, Settled(p))
      /\ acked \subseteq Chunks /\ durable \subseteq Chunks
      /\ acked' \subseteq Chunks /\ durable' \subseteq Chunks
  BY DEF StoredInv, Has, HasBelow, Inv, TypeOK
<1>2. ndata \in Nat /\ ndata' \in Nat /\ ndata <= ndata'
  <2>1. ndata \in Nat /\ ndata' \in Nat
    BY DEF Inv, TypeOK
  <2>2. CASE \E c \in Chunks : Insert(c)
    BY <2>1, <2>2, InsertForm
  <2>3. CASE ~ \E c \in Chunks : Insert(c)
    <3>1. ndata' = ndata
      BY <2>3 DEF Next, vars, diskVars, OpenPool, Find, FlushPool, ClosePool, Crash,
         RecoverIndex, RecoveryStep, LoadIndex, ReadHeader, ReadTornHeader,
         RecoveryThrows, SaveIndex, RecoveryEnds
    <3> QED BY <2>1, <3>1
  <2> QED BY <2>2, <2>3
<1>3. ASSUME NEW c \in acked' PROVE \E p \in Positions : p < ndata' /\ Has(p, c)'
  <2>1. ~Crash
    BY <1>3 DEF Crash, Gone
  <2>2. CASE c \in acked
    <3>1. PICK p \in Positions : p < ndata /\ Has(p, c)
      BY <1>1, <2>2
    <3>2. Has(p, c)'
      BY <1>1, <2>1, <2>2, <3>1, RecordsStay
    <3> QED BY <1>2, <3>1, <3>2, PositionFacts
  <2>3. CASE c \notin acked
    <3>1. PICK d \in Chunks : Insert(d)
      BY <2>3, <1>3 DEF Next, vars, historyVars, OpenPool, Find, FlushPool, ClosePool, Crash, Gone,
         RecoverIndex, RecoveryStep, LoadIndex, ReadHeader, ReadTornHeader,
         RecoveryThrows, SaveIndex, RecoveryEnds
    <3>2. d = c /\ data'[Front'] = Appended(data[Front'], c)
      BY <1>3, <2>3, <3>1, InsertOnDisk
    <3>3. PICK p \in Positions : p = Front' /\ p < ndata'
      <4>1. Front' \in Positions /\ nopen' = Front' + 1 /\ nopen' <= ndata'
        BY <3>1, InsertForm
      <4> QED BY <1>2, <4>1, PositionFacts
    <3>4. Has(p, c)'
      BY <1>1, <3>2, <3>3, AppendKeeps DEF Has
    <3> QED BY <3>3, <3>4
  <2> QED BY <2>2, <2>3
<1>4. ASSUME NEW c \in durable'
      PROVE  \E p \in Positions : p < ndata' /\ HasBelow(p, c, Settled(p))'
  <2>1. CASE c \in durable
    <3>1. PICK p \in Positions : p < ndata /\ HasBelow(p, c, Settled(p))
      BY <1>1, <2>1
    <3>2. HasBelow(p, c, Settled(p))'
      BY <1>1, <2>1, <3>1, RecordsStay
    <3> QED BY <1>2, <3>1, <3>2, PositionFacts
  <2>2. CASE c \notin durable
    <3>1. c \in acked /\ \A q \in Positions : Settled(q)' = data[q].len
      <4>1. CASE FlushPool \/ ClosePool
        <5>1. c \in acked /\ data' = data /\ pending' = 0
          BY <1>4, <2>2, <4>1 DEF FlushPool, ClosePool, Gone
        <5> QED BY <5>1, FileFacts DEF Settled, Pend
      <4>2. ASSUME NEW d \in Chunks, Insert(d)
            PROVE  c \in acked /\ \A q \in Positions : Settled(q)' = data[q].len
        BY <1>4, <2>2, <4>2, InsertOnDisk
      <4>3. FlushPool \/ ClosePool \/ \E d \in Chunks : Insert(d)
        BY <1>4, <2>2 DEF Next, vars, historyVars, OpenPool, Find, Crash,
           RecoverIndex, RecoveryStep, LoadIndex, ReadHeader, ReadTornHeader,
           RecoveryThrows, SaveIndex, RecoveryEnds
      <4> QED BY <4>1, <4>2, <4>3
    <3>2. PICK p \in Positions : p < ndata /\ Has(p, c)
      BY <1>1, <3>1
    <3>3. HasBelow(p, c, data[p].len)
      BY <1>1, <3>1, <3>2, HasFacts
    <3>4. data[p].recs \subseteq data'[p].recs
      <4>1. CASE data' = data
        BY <4>1
      <4>2. CASE \E d \in Chunks : Insert(d)
        <5>1. PICK d \in Chunks : Insert(d)
          BY <4>2
        <5>2. data'[p] = data[p] \/ data'[p] = Appended(data[p], d)
          BY <5>1, InsertOnDisk
        <5> QED BY <5>2, AppendKeeps
      <4>3. CASE Crash
        BY <1>4, <2>2, <4>3 DEF Crash
      <4> QED BY <4>1, <4>2, <4>3, DataKept
    <3>5. HasBelow(p, c, Settled(p))'
      BY <3>1, <3>3, <3>4 DEF HasBelow
    <3> QED BY <1>2, <3>2, <3>5, PositionFacts
  <2> QED BY <2>1, <2>2
<1> QED BY <1>3, <1>4 DEF StoredInv, Has, HasBelow

-----------------------------------------------------------------------------
(* Where the entries of a session lead                                       *)

\* Finding and flushing change no data, and no index seen as a whole.
LEMMA IndexesKept ==
  ASSUME Inv, (\E c \in Chunks : Find(c)) \/ FlushPool \/ UNCHANGED vars
  PROVE  /\ UNCHANGED <<data, nopen, suspect, acked>>
         /\ \A q \in Positions :
              /\ Merge(files'[q]) = Merge(files[q])
              /\ \A c \in Chunks : files'[q].ram[c] \in {NoOffset, files[q].ram[c]}
<1>1. ASSUME NEW c \in Chunks, Find(c)
      PROVE  /\ UNCHANGED <<data, nopen, suspect, acked>>
             /\ \A q \in Positions :
                  files'[q].ram = files[q].ram /\ Merge(files'[q]) = Merge(files[q])
  BY <1>1 DEF Find, diskVars, historyVars, Inv, TypeOK, OpenFile, Merge
<1>2. ASSUME FlushPool
      PROVE  /\ UNCHANGED <<data, nopen, suspect, acked>>
             /\ \A q \in Positions :
                  /\ Merge(files'[q]) = Merge(files[q])
                  /\ \A c \in Chunks : files'[q].ram[c] \in {NoOffset, files[q].ram[c]}
  <2>1. /\ UNCHANGED <<data, nopen, suspect, acked>>
        /\ files' = [files EXCEPT ![Front] = FlushedFile(files[Front])]
    BY <1>2 DEF FlushPool
  <2>2. ASSUME NEW q \in Positions
        PROVE  /\ Merge(files'[q]) = Merge(files[q])
               /\ \A c \in Chunks : files'[q].ram[c] \in {NoOffset, files[q].ram[c]}
    <3>1. CASE q = Front
      <4>1. files'[q] = FlushedFile(files[q]) /\ files[q] \in OpenFile
        BY <2>1, <3>1 DEF Inv, TypeOK
      <4>2. FlushedFile(files[q]).ram = NoEntries
        <5> DEFINE m == Merge(files[q])
        <5>1. FlushedFile(files[q]) = [files[q] EXCEPT !.ram = NoEntries, !.fdata = m, !.bad = FALSE]
          BY DEF FlushedFile
        <5> HIDE DEF m
        <5> QED BY <4>1, <5>1 DEF OpenFile
      <4>3. \A c \in Chunks : files'[q].ram[c] = NoOffset
        BY <4>1, <4>2 DEF NoEntries
      <4> QED BY <4>1, <4>3, MergeFacts
    <3>2. CASE q # Front
      BY <2>1, <3>2 DEF Inv, TypeOK
    <3> QED BY <3>1, <3>2
  <2> QED BY <2>1, <2>2
<1>3. ASSUME UNCHANGED vars
      PROVE  UNCHANGED <<data, nopen, suspect, acked, files>>
  BY <1>3 DEF vars, diskVars, sessionVars, historyVars
<1>4. CASE \E c \in Chunks : Find(c)
  BY <1>1, <1>4
<1> QED BY <1>2, <1>3, <1>4

\* Every step keeps AckedInv: a newer file comes after the inserts before it.
LEMMA AckedStep ==
  ASSUME Inv, TypeOK', CleanInv, AckedInv, [Next]_vars
  PROVE  AckedInv'
<1> DEFINE RamGood(q, c) == files[q].ram[c] # NoOffset => GoodAt(data[q], files[q].ram[c], c)
           Good(q, c) == Merge(files[q])[c] # NoOffset => GoodAt(data[q], Merge(files[q])[c], c)
<1>0. /\ \A q \in Positions, c \in Chunks : q < nopen /\ q \notin suspect => RamGood(q, c)
      /\ \A c \in acked : \E p \in Positions :
           /\ p < nopen /\ Merge(files[p])[c] # NoOffset
           /\ \A q \in Positions : p <= q /\ q < nopen /\ q \notin suspect => Good(q, c)
      /\ acked \subseteq Chunks /\ acked' \subseteq Chunks
  BY DEF AckedInv, Inv, TypeOK
<1> SUFFICES /\ \A q \in Positions, c \in Chunks :
                  q < nopen' /\ q \notin suspect' => RamGood(q, c)'
             /\ \A c \in acked' : \E p \in Positions :
                  /\ p < nopen' /\ Merge(files'[p])[c] # NoOffset
                  /\ \A q \in Positions :
                       p <= q /\ q < nopen' /\ q \notin suspect' => Good(q, c)'
  BY DEF AckedInv
<1>1. ASSUME nopen = 0 PROVE acked = {}
  BY <1>0, <1>1, PositionFacts
<1>2. ASSUME NEW w \in BOOLEAN, OpenPool(w)
      PROVE  /\ \A q \in Positions, c \in Chunks : q < nopen' => RamGood(q, c)'
             /\ acked' = {}
  <2>1. acked' = {}
    BY <1>1, <1>2 DEF OpenPool, Inv, IInv, SessionInv
  <2>2. ASSUME NEW q \in Positions, NEW c \in Chunks, q < nopen'
        PROVE  files'[q].ram[c] = NoOffset
    BY <1>2, <2>2 DEF OpenPool, Loaded, NoEntries
  <2> QED BY <2>1, <2>2
<1>5. ASSUME ClosePool \/ Crash \/ RecoverIndex \/ RecoveryStep
      PROVE  nopen' = 0 /\ acked' = {}
  <2>1. nopen' = 0
    BY <1>5, NoneOpen
  <2>2. acked' = {} \/ (acked' = acked /\ mode \in {"closed", "recover"})
    BY <1>5 DEF ClosePool, Crash, RecoverIndex, RecoveryStep, LoadIndex, ReadHeader,
       ReadTornHeader, RecoveryThrows, SaveIndex, RecoveryEnds, AtHeader, Gone, historyVars
  <2>3. mode \in {"closed", "recover"} => nopen = 0
    BY DEF Inv, IInv, SessionInv
  <2> QED BY <1>1, <2>1, <2>2, <2>3
<1>6. ASSUME NEW d \in Chunks, Insert(d)
      PROVE  /\ \A q \in Positions, c \in Chunks :
                  q < nopen' /\ q \notin suspect' => RamGood(q, c)'
             /\ \A c \in acked' : \E p \in Positions :
                  /\ p < nopen' /\ Merge(files'[p])[c] # NoOffset
                  /\ \A q \in Positions :
                       p <= q /\ q < nopen' /\ q \notin suspect' => Good(q, c)'
  <2>1. PICK f : f = Front'
    OBVIOUS
  <2>2. /\ f \in Positions /\ f \in Nat /\ nopen \in Nat /\ nopen' = f + 1
        /\ nopen' = nopen \/ nopen' = nopen + 1
        /\ nopen' = nopen => f = Front
    BY <1>6, <2>1, InsertForm, PositionFacts
  <2>3. /\ \A q \in Positions : q # f => data'[q] = data[q]
        /\ data'[f] \in {data[f], Appended(data[f], d)}
        /\ acked' \subseteq acked \cup {d}
    BY <1>6, <2>1, InsertOnDisk
  <2>4. /\ suspect \subseteq suspect'
        /\ \A q \in Positions : q < nopen =>
             \A c \in Chunks : c # d \/ q # f =>
               /\ Merge(files'[q])[c] = Merge(files[q])[c]
               /\ files'[q].ram[c] \in {NoOffset, files[q].ram[c]}
        /\ nopen' = nopen + 1 =>
             \A c \in Chunks : c # d =>
               /\ Merge(files'[f])[c] = NoOffset
               /\ files'[f].ram[c] = NoOffset
        /\ Merge(files'[f])[d] = files'[f].ram[d]
        /\ files'[f].ram[d] # NoOffset
        /\ f \notin suspect' =>
             /\ data'[f] = Appended(data[f], d)
             /\ \/ files'[f].ram[d] = data[f].len
                \/ nopen' = nopen /\ files'[f].ram[d] = files[f].ram[d]
    <3>1. /\ suspect \subseteq suspect'
          /\ \A q \in Positions : q < nopen =>
               \A c \in Chunks : c # d \/ q # Front' =>
                 /\ Merge(files'[q])[c] = Merge(files[q])[c]
                 /\ files'[q].ram[c] \in {NoOffset, files[q].ram[c]}
      BY <1>6, InsertInMemory
    <3>2. nopen' = nopen + 1 =>
            \A c \in Chunks : c # d =>
              /\ Merge(files'[Front'])[c] = NoOffset
              /\ files'[Front'].ram[c] = NoOffset
      BY <1>6, InsertInMemory
    <3>3. /\ Merge(files'[Front'])[d] = files'[Front'].ram[d]
          /\ files'[Front'].ram[d] # NoOffset
      BY <1>6, InsertInMemory
    <3>4. Front' \notin suspect' =>
            /\ data'[Front'] = Appended(data[Front'], d)
            /\ \/ files'[Front'].ram[d] = data[Front'].len
               \/ nopen' = nopen /\ files'[Front'].ram[d] = files[Front].ram[d]
      BY <1>6, InsertInMemory
    <3> QED BY <2>1, <2>2, <3>1, <3>2, <3>3, <3>4
  <2>5. ASSUME NEW q \in Positions, NEW off, NEW c \in Chunks, GoodAt(data[q], off, c)
        PROVE  GoodAt(data'[q], off, c)
    <3>1. data[q].recs \subseteq data'[q].recs
      BY <2>3, AppendKeeps
    <3> QED BY <2>5, <3>1 DEF GoodAt, RecordsAt
  <2>6. ASSUME NEW q \in Positions, NEW c \in Chunks, q < nopen', q \notin suspect'
        PROVE  RamGood(q, c)'
    <3>1. q \in Nat /\ (q < nopen \/ (q = f /\ nopen' = nopen + 1))
      BY <2>2, <2>6, PositionFacts
    <3>2. q < nopen => RamGood(q, c)
      BY <1>0, <2>4, <2>6
    <3>3. CASE q = f /\ c = d
      <4>1. CASE files'[f].ram[d] = data[f].len
        <5>1. GoodAt(data'[f], data[f].len, d)
          BY <2>4, <2>6, <3>3, AppendKeeps DEF GoodAt, RecordsAt
        <5> QED BY <3>3, <4>1, <5>1
      <4>2. CASE nopen' = nopen /\ files'[f].ram[d] = files[f].ram[d]
        BY <2>4, <2>5, <2>6, <3>2, <3>3, <4>2
      <4> QED BY <2>4, <2>6, <3>3, <4>1, <4>2
    <3>4. CASE (q # f \/ c # d) /\ q < nopen
      <4>1. files'[q].ram[c] \in {NoOffset, files[q].ram[c]}
        BY <2>4, <3>4
      <4> QED BY <2>5, <3>2, <3>4, <4>1
    <3>5. CASE c # d /\ q = f /\ nopen' = nopen + 1
      BY <2>4, <3>5
    <3> QED BY <3>1, <3>3, <3>4, <3>5
  <2>7. ASSUME NEW c \in acked'
        PROVE  \E p \in Positions :
                 /\ p < nopen' /\ Merge(files'[p])[c] # NoOffset
                 /\ \A q \in Positions :
                      p <= q /\ q < nopen' /\ q \notin suspect' => Good(q, c)'
    <3>1. CASE c = d
      <4>1. ASSUME NEW q \in Positions, f <= q, q < nopen', q \notin suspect'
            PROVE  Good(q, c)'
        <5>1. q = f
          BY <2>2, <4>1, PositionFacts
        <5>2. RamGood(f, d)'
          BY <2>6, <4>1, <5>1
        <5> QED BY <2>4, <3>1, <5>1, <5>2
      <4> QED BY <2>2, <2>4, <3>1, <4>1
    <3>2. CASE c # d
      <4>1. c \in acked /\ c \in Chunks
        BY <1>0, <2>3, <3>2
      <4>2. PICK p \in Positions :
              /\ p < nopen /\ Merge(files[p])[c] # NoOffset
              /\ \A q \in Positions : p <= q /\ q < nopen /\ q \notin suspect => Good(q, c)
        BY <1>0, <4>1
      <4>3. p < nopen' /\ Merge(files'[p])[c] # NoOffset
        BY <2>2, <2>4, <3>2, <4>1, <4>2, PositionFacts
      <4>4. ASSUME NEW q \in Positions, p <= q, q < nopen', q \notin suspect'
            PROVE  Good(q, c)'
        <5>1. q < nopen \/ (q = f /\ nopen' = nopen + 1)
          BY <2>2, <4>4, PositionFacts
        <5>2. CASE q < nopen
          <6>1. Good(q, c)
            BY <2>4, <4>2, <4>4, <5>2
          <6>2. Merge(files'[q])[c] = Merge(files[q])[c]
            BY <2>4, <3>2, <4>1, <5>2
          <6> QED BY <2>5, <4>1, <6>1, <6>2
        <5>3. CASE q = f /\ nopen' = nopen + 1
          BY <2>4, <3>2, <4>1, <5>3
        <5> QED BY <5>1, <5>2, <5>3
      <4> QED BY <4>3, <4>4
    <3> QED BY <3>1, <3>2
  <2> QED BY <2>6, <2>7
<1>7. ASSUME UNCHANGED <<data, nopen, suspect, acked>>,
             \A q \in Positions, c \in Chunks :
               /\ files'[q].ram[c] \in {NoOffset, files[q].ram[c]}
               /\ Merge(files'[q])[c] = Merge(files[q])[c]
      PROVE  /\ \A q \in Positions, c \in Chunks :
                  q < nopen' /\ q \notin suspect' => RamGood(q, c)'
             /\ \A c \in acked' : \E p \in Positions :
                  /\ p < nopen' /\ Merge(files'[p])[c] # NoOffset
                  /\ \A q \in Positions :
                       p <= q /\ q < nopen' /\ q \notin suspect' => Good(q, c)'
  <2>1. ASSUME NEW q \in Positions, NEW c \in Chunks, q < nopen, q \notin suspect
        PROVE  RamGood(q, c)'
    <3>1. files'[q].ram[c] \in {NoOffset, files[q].ram[c]} /\ data'[q] = data[q]
      BY <1>7
    <3> QED BY <1>0, <2>1, <3>1
  <2>2. ASSUME NEW q \in Positions, NEW c \in Chunks, Good(q, c)
        PROVE  Good(q, c)'
    <3>1. Merge(files'[q])[c] = Merge(files[q])[c] /\ data'[q] = data[q]
      BY <1>7
    <3> QED BY <2>2, <3>1
  <2>3. ASSUME NEW c \in acked
        PROVE  \E p \in Positions :
                 /\ p < nopen /\ Merge(files'[p])[c] # NoOffset
                 /\ \A q \in Positions :
                      p <= q /\ q < nopen /\ q \notin suspect => Good(q, c)'
    <3>1. PICK p \in Positions :
            /\ p < nopen /\ Merge(files[p])[c] # NoOffset
            /\ \A q \in Positions : p <= q /\ q < nopen /\ q \notin suspect => Good(q, c)
      BY <1>0
    <3>2. Merge(files'[p])[c] # NoOffset
      BY <1>0, <1>7, <3>1
    <3>3. \A q \in Positions : p <= q /\ q < nopen /\ q \notin suspect => Good(q, c)'
      BY <1>0, <2>2, <3>1
    <3> QED BY <3>1, <3>2, <3>3
  <2> QED BY <1>7, <2>1, <2>3
<1>8. CASE (\E c \in Chunks : Find(c)) \/ FlushPool \/ UNCHANGED vars
  BY <1>7, <1>8, IndexesKept
<1>12. CASE ClosePool \/ Crash \/ RecoverIndex \/ RecoveryStep
  BY <1>5, <1>12, PositionFacts
<1>13. CASE \E w \in BOOLEAN : OpenPool(w)
  BY <1>2, <1>13
<1>14. CASE \E c \in Chunks : Insert(c)
  BY <1>6, <1>14
<1> QED BY <1>8, <1>12, <1>13, <1>14 DEF Next

-----------------------------------------------------------------------------
(* What finding a chunk gives                                                *)

\* A nonempty set of positions has a last one.
LEMMA NewestExists ==
  ASSUME NEW S, S \subseteq Positions, S # {}
  PROVE  Newest(S) \in S /\ \A q \in S : q <= Newest(S)
<1> DEFINE T == {MaxFiles - p : p \in S}
<1>1. \A p \in S : p \in Nat /\ p < MaxFiles /\ MaxFiles \in Nat
  BY PositionFacts, LimitAssumption
<1>2. T \subseteq Nat /\ T # {}
  BY <1>1
<1>3. PICK x \in T : \A y \in T : ~ (<<y, x>> \in OpToRel(<, Nat))
  BY <1>2, WFMin, NatLessThanWellFounded
<1>4. \A y \in T : ~ (y < x)
  BY <1>2, <1>3 DEF OpToRel
<1>5. PICK p \in S : x = MaxFiles - p
  OBVIOUS
<1>6. \A q \in S : q <= p
  <2> SUFFICES ASSUME NEW q \in S PROVE q <= p
    OBVIOUS
  <2>1. ~ (MaxFiles - q < MaxFiles - p)
    BY <1>4, <1>5
  <2> QED BY <1>1, <2>1
<1> QED BY <1>6 DEF Newest

\* The newest file that holds a chunk answers for it, if its entry leads to a
\* whole record of the chunk.
LEMMA FindGood ==
  ASSUME Inv, NEW c \in Chunks, NEW p \in Positions,
         p < nopen, Merge(files[p])[c] # NoOffset,
         \A q \in Positions :
           p <= q /\ q < nopen /\ Merge(files[q])[c] # NoOffset =>
             ~files[q].bad /\ GoodAt(data[q], Merge(files[q])[c], c)
  PROVE  FindResult(c) = c
<1>1. p \in Holders(c) /\ Holders(c) \subseteq Positions
  BY DEF Holders
<1>2. PICK q \in Positions : q = Newest(Holders(c)) /\ q \in Holders(c) /\ p <= q
  BY <1>1, NewestExists
<1>3. ~files[q].bad /\ GoodAt(data[q], Merge(files[q])[c], c)
  BY <1>2 DEF Holders
<1>4. PICK off : off = Merge(files[q])[c]
  OBVIOUS
<1>5. PICK r \in RecordsAt(data[q], off) : r.chunk = c /\ Intact(r)
  BY <1>3, <1>4 DEF GoodAt
<1>6. Whole(r)
  <2>1. Payload[c] \in Nat /\ Align \in Nat \ {0} /\ HeaderSize \in Nat
    BY LayoutAssumption
  <2>2. PadLen(Payload[c]) \in Nat
    BY <2>1, PaddingAgrees, LayoutAssumption, Zenon DEF PadLen
  <2>3. Written(c) >= Readable(c)
    BY <2>1, <2>2 DEF Written, Readable
  <2> QED BY <1>5, <2>3 DEF Whole, Intact
<1>7. \A x \in RecordsAt(data[q], off) : x = r
  BY <1>5, FileFacts DEF RecordsAt, Ordered
<1>8. ReadAt(q, off) = c
  BY <1>5, <1>6, <1>7 DEF ReadAt
<1> QED BY <1>1, <1>2, <1>3, <1>4, <1>8 DEF FindResult

-----------------------------------------------------------------------------
(* Theorems                                                                  *)

\* The invariant of PoolProofs and what is added to it, for every state.
LEMMA StoreInvariance == Spec => [](Inv /\ StoreInv)
<1>1. Init => StoreInv
  <2> SUFFICES ASSUME Init PROVE StoreInv
    OBVIOUS
  <2>1. CleanInv
    BY PositionFacts DEF Init, CleanInv
  <2>2. RecoveredInv
    BY DEF Init, RecoveredInv
  <2>3. WalkInv
    BY DEF Init, WalkInv, Contiguous, EmptyData
  <2>4. StoredInv /\ AckedInv
    BY PositionFacts DEF Init, StoredInv, AckedInv
  <2> QED BY <2>1, <2>2, <2>3, <2>4 DEF StoreInv
<1>2. Inv /\ StoreInv /\ [Next]_vars => StoreInv'
  <2> SUFFICES ASSUME Inv, StoreInv, [Next]_vars PROVE StoreInv'
    OBVIOUS
  <2>1. TypeOK'
    BY NextInv DEF Inv
  <2> QED
    BY <2>1, CleanStep, RecoveredStep, WalkKept, StoredStep, AckedStep DEF StoreInv
<1> QED BY <1>1, <1>2, InitInv, NextInv, PTL DEF Spec

\* An open pool that is not dirty can be dropped at any time: what its indexes
\* say in memory is on disk, and would be accepted.
THEOREM CleanIsOnDisk == Spec => []CleanMatchesDisk
<1>1. Inv /\ StoreInv => CleanMatchesDisk
  BY DEF StoreInv, CleanInv, CleanMatchesDisk
<1> QED BY <1>1, StoreInvariance, PTL

\* recover_files leaves no file behind it that open would refuse.
THEOREM RecoveredIsOpenable == Spec => []RecoveredFilesOpen
<1>1. Inv /\ StoreInv => RecoveredFilesOpen
  BY DEF StoreInv, RecoveredInv, RecoveredFilesOpen
<1> QED BY <1>1, StoreInvariance, PTL

\* Where all records are whole, the walk of recover_files meets a header
\* wherever it looks for one.
THEOREM WalkIsAligned == Spec => []ScanAligned
<1>1. Inv /\ StoreInv => ScanAligned
  <2> SUFFICES ASSUME Inv, StoreInv, AtHeader, WholeFile(data[scan.file]),
                      data[scan.file].len < Width
               PROVE  Here # {}
    BY DEF ScanAligned
  <2>1. mode = "recover" /\ scan.active /\ scan.pos < ScanSize
        /\ scan.file \in Nat /\ scan.pos \in Nat
    BY DEF AtHeader, Inv, TypeOK, Scan
  <2>2. scan.file \in Positions
    BY <2>1, FrontFacts DEF Inv, IInv, ScanInv
  <2>3. ScanSize = data[scan.file].len /\ data[scan.file].len \in Nat
    BY <2>2, FileFacts, WrapFacts DEF ScanSize
  <2>4. scan.pos = data[scan.file].len \/ Here # {}
    BY <2>1 DEF StoreInv, WalkInv
  <2> QED BY <2>1, <2>3, <2>4
<1> QED BY <1>1, StoreInvariance, PTL

\* A chunk whose insert returned is found by the same Pool object, whatever
\* flushes and file changes came after, and whatever older files hold.
THEOREM WritesAreRead == Spec => []ReadYourWrites
<1>1. Inv /\ StoreInv => ReadYourWrites
  <2> SUFFICES ASSUME Inv, StoreInv, NEW c \in acked,
                      \A p \in Positions : p < nopen => p \notin suspect /\ ~files[p].bad
               PROVE  FindResult(c) = c
    BY DEF ReadYourWrites, Healthy
  <2>1. c \in Chunks
    BY DEF Inv, TypeOK
  <2>2. PICK p \in Positions :
          /\ p < nopen /\ Merge(files[p])[c] # NoOffset
          /\ \A q \in Positions :
               /\ p <= q /\ q < nopen /\ q \notin suspect
               /\ Merge(files[q])[c] # NoOffset
               => GoodAt(data[q], Merge(files[q])[c], c)
    BY DEF StoreInv, AckedInv
  <2> QED BY <2>1, <2>2, FindGood
<1> QED BY <1>1, StoreInvariance, PTL

\* Every step keeps BelowInv: an entry is made at the end, before the data are
\* appended.
LEMMA BelowStep ==
  ASSUME Inv, Inv', StoreInv, BelowInv, [Next]_vars
  PROVE  BelowInv'
<1>1. ASSUME NEW w \in BOOLEAN, OpenPool(w) PROVE BelowInv'
  <2> SUFFICES ASSUME NEW q \in Positions, q < nopen', q \notin suspect', NEW c \in Chunks
               PROVE  Merge(files'[q])[c] < data'[q].len
    BY DEF BelowInv
  <2>1. nopen' = Visible /\ ndata \in Nat /\ q \in Nat
    BY <1>1, PositionFacts DEF OpenPool, Inv, TypeOK
  <2>2. q < NameLimit
    BY <2>1, LimitAssumption DEF Visible
  <2>3. Exact(data'[q], Merge(files'[q]), data'[q].len)
    BY <2>2 DEF Inv, IInv, MemoryInv, Trusted
  <2> QED BY <2>3 DEF Exact
<1>2. ASSUME NEW d \in Chunks, Insert(d) PROVE BelowInv'
  <2> SUFFICES ASSUME NEW q \in Positions, q < nopen', q \notin suspect', NEW c \in Chunks
               PROVE  Merge(files'[q])[c] < data'[q].len
    BY DEF BelowInv
  <2>1. PICK f \in Positions : f = Front'
    BY <1>2, InsertForm
  <2>2. /\ nopen \in Nat /\ (nopen' = nopen \/ nopen' = nopen + 1) /\ nopen' = f + 1
        /\ f \in Nat /\ q \in Nat /\ (q < nopen \/ (q = f /\ nopen' = nopen + 1))
    BY <1>2, <2>1, InsertForm, PositionFacts
  <2>3. data[q].len \in Nat /\ Merge(files[q])[c] \in Int
    BY FileFacts DEF Entries, NoOffset
  <2>4. q < nopen => q \notin suspect /\ Merge(files[q])[c] < data[q].len
    BY <1>2, InsertInMemory DEF Inv, StoreInv, BelowInv
  <2>5. CASE q # f
    <3>1. data'[q] = data[q] /\ Merge(files'[q]) = Merge(files[q]) /\ q < nopen
      BY <1>2, <2>1, <2>2, <2>5, InsertOnDisk, InsertInMemory DEF Inv, StoreInv
    <3> QED BY <2>4, <3>1
  <2>6. CASE q = f
    <3>1. Written(d) \in Nat /\ Written(d) > 0
      BY SizesAgree
    <3>2. data'[q] = Appended(data[q], d)
      BY <1>2, <2>1, <2>6, InsertInMemory DEF Inv, StoreInv
    <3>3. data'[q].len = data[q].len + Written(d)
      BY <3>2 DEF Appended
    <3>4. CASE c # d /\ q < nopen
      <4>1. Merge(files'[q])[c] = Merge(files[q])[c]
        BY <1>2, <3>4, InsertInMemory DEF Inv, StoreInv
      <4> QED BY <2>3, <2>4, <3>1, <3>3, <3>4, <4>1
    <3>5. CASE c # d /\ ~(q < nopen)
      <4>1. Merge(files'[q])[c] = NoOffset
        BY <1>2, <2>1, <2>2, <2>6, <3>5, InsertInMemory DEF Inv, StoreInv
      <4> QED BY <2>3, <3>1, <3>3, <4>1 DEF NoOffset
    <3>6. CASE c = d
      <4>0. /\ Merge(files'[Front'])[d] = files'[Front'].ram[d]
            /\ files'[Front'].ram[d] # NoOffset
            /\ Front' \notin suspect' =>
                 \/ files'[Front'].ram[d] = data[Front'].len
                 \/ nopen' = nopen /\ files'[Front'].ram[d] = files[Front].ram[d]
        BY <1>2, InsertInMemory DEF Inv, StoreInv
      <4>1. /\ Merge(files'[q])[d] = files'[q].ram[d] /\ files'[q].ram[d] # NoOffset
            /\ \/ files'[q].ram[d] = data[q].len
               \/ nopen' = nopen /\ files'[q].ram[d] = files[q].ram[d]
        BY <1>2, <2>1, <2>6, <4>0, InsertForm
      <4>2. CASE files'[q].ram[d] = data[q].len
        BY <2>3, <3>1, <3>3, <3>6, <4>1, <4>2
      <4>3. CASE nopen' = nopen /\ files'[q].ram[d] = files[q].ram[d]
        <5>1. Merge(files[q])[d] = files[q].ram[d] /\ q < nopen
          BY <2>2, <4>1, <4>3 DEF Merge
        <5> QED BY <2>3, <2>4, <3>1, <3>3, <3>6, <4>1, <4>3, <5>1
      <4> QED BY <4>1, <4>2, <4>3
    <3> QED BY <3>4, <3>5, <3>6
  <2> QED BY <2>5, <2>6
<1>3. ASSUME (\E c \in Chunks : Find(c)) \/ FlushPool \/ UNCHANGED vars PROVE BelowInv'
  BY <1>3, IndexesKept DEF BelowInv
<1>4. ASSUME ClosePool \/ Crash \/ RecoverIndex \/ RecoveryStep PROVE BelowInv'
  BY <1>4, NoneOpen, PositionFacts DEF BelowInv
<1> QED BY <1>1, <1>2, <1>3, <1>4 DEF Next

\* What an answer depends on: which files have an entry of the chunk, and the
\* records where the entries lead.
LEMMA SameAnswer ==
  ASSUME NEW c \in Chunks, Healthy, Healthy',
         \A q \in Positions :
           (q < nopen /\ Merge(files[q])[c] # NoOffset)
             <=> (q < nopen' /\ Merge(files'[q])[c] # NoOffset),
         \A q \in Positions : q < nopen /\ Merge(files[q])[c] # NoOffset =>
           /\ Merge(files'[q])[c] = Merge(files[q])[c]
           /\ RecordsAt(data'[q], Merge(files[q])[c]) = RecordsAt(data[q], Merge(files[q])[c])
  PROVE  FindResult(c)' = FindResult(c)
<1>1. Holders(c)' = Holders(c) /\ Holders(c) \subseteq Positions
  BY DEF Holders
<1>2. CASE Holders(c) = {}
  BY <1>1, <1>2 DEF FindResult
<1>3. CASE Holders(c) # {}
  <2>1. PICK p \in Positions : p = Newest(Holders(c)) /\ p \in Holders(c)
    BY <1>1, <1>3, NewestExists
  <2>2. p = Newest(Holders(c)')
    BY <1>1, <2>1
  <2>3. p < nopen /\ p < nopen' /\ Merge(files[p])[c] # NoOffset
    BY <2>1 DEF Holders
  <2>4. ~files[p].bad /\ ~files'[p].bad
    BY <2>3 DEF Healthy
  <2> DEFINE off == Merge(files[p])[c]
             at == RecordsAt(data[p], off)
  <2>5. Merge(files'[p])[c] = off /\ RecordsAt(data'[p], off) = at
    BY <2>3
  <2>6. ReadAt(p, off) = IF \E r \in at : Whole(r)
                         THEN (CHOOSE r \in at : Whole(r)).chunk ELSE "unreadable"
    BY DEF ReadAt
  <2>7. ReadAt(p, off)' = IF \E r \in at : Whole(r)
                          THEN (CHOOSE r \in at : Whole(r)).chunk ELSE "unreadable"
    BY <2>5 DEF ReadAt
  <2>8. FindResult(c) = ReadAt(p, off)
    BY <1>3, <2>1, <2>4 DEF FindResult
  <2>9. FindResult(c)' = ReadAt(p, Merge(files[p])[c])'
    BY <1>1, <1>3, <2>2, <2>4 DEF FindResult
  <2> QED BY <2>6, <2>7, <2>8, <2>9
<1> QED BY <1>2, <1>3

\* An insert changes no answer but its own.
LEMMA OthersAnswer ==
  ASSUME Inv, Inv', StoreInv, BelowInv, Healthy, Healthy',
         NEW d \in Chunks, Insert(d), NEW c \in Chunks, c # d
  PROVE  FindResult(c)' = FindResult(c)
<1>1. PICK f \in Positions : f = Front'
  BY InsertForm
<1>2. /\ nopen \in Nat /\ (nopen' = nopen \/ nopen' = nopen + 1) /\ nopen' = f + 1 /\ f \in Nat
      /\ f \notin suspect'
  BY <1>1, InsertForm, PositionFacts DEF Healthy
<1>3. /\ data'[f] = Appended(data[f], d) /\ \A q \in Positions : q # f => data'[q] = data[q]
  BY <1>1, <1>2, InsertOnDisk, InsertInMemory DEF Inv, StoreInv
<1>4. ASSUME NEW q \in Positions, q < nopen
      PROVE  q < nopen' /\ Merge(files'[q])[c] = Merge(files[q])[c]
  BY <1>2, <1>4, InsertInMemory, PositionFacts DEF Inv, StoreInv
<1>5. ASSUME NEW q \in Positions, q < nopen', ~(q < nopen)
      PROVE  Merge(files'[q])[c] = NoOffset
  <2>1. q = f /\ nopen' = nopen + 1
    BY <1>2, <1>5, PositionFacts
  <2> QED BY <1>1, <2>1, InsertInMemory DEF Inv, StoreInv
<1>6. ASSUME NEW q \in Positions, q < nopen
      PROVE  RecordsAt(data'[q], Merge(files[q])[c]) = RecordsAt(data[q], Merge(files[q])[c])
  <2>1. PICK off : off = Merge(files[q])[c]
    OBVIOUS
  <2>2. off < data[q].len /\ off \in Int /\ data[q].len \in Nat
    BY <1>6, <2>1, FileFacts DEF BelowInv, Healthy, Entries, NoOffset
  <2>3. RecordsAt(Appended(data[q], d), off) = RecordsAt(data[q], off)
    <3> DEFINE rec == [at |-> data[q].len, chunk |-> d, have |-> Written(d)]
    <3>1. Appended(data[q], d).recs = data[q].recs \cup {rec}
      BY DEF Appended
    <3>2. rec.at # off
      BY <2>2
    <3> HIDE DEF rec
    <3> QED BY <3>1, <3>2 DEF RecordsAt
  <2> QED BY <1>3, <2>1, <2>3
<1> QED BY <1>4, <1>5, <1>6, SameAnswer

\* The chunk that an insert which returned has put there is acknowledged.
LEMMA InsertAcks ==
  ASSUME Inv, NEW c \in Chunks, Insert(c), Front' \notin suspect'
  PROVE  c \in acked'
<1>1. PICK o \in OpenFile, pend \in Nat, opened \in [Positions -> OpenFile] :
        Put(c, Front', o, pend, opened)
  BY InsertForm
<1> QED BY <1>1 DEF Put

\* While a session lasts and no stream of it fails, what find answers for a chunk
\* changes only when that chunk is inserted, and it is then the chunk.
THEOREM AnswersAreKept == Spec => AnswersStay
<1>1. Init => BelowInv
  BY PositionFacts DEF Init, BelowInv
<1>2. Inv /\ Inv' /\ StoreInv /\ BelowInv /\ [Next]_vars => BelowInv'
  BY BelowStep
<1>3. ASSUME Inv, Inv', StoreInv, BelowInv, ReadYourWrites', [Next]_vars,
             mode \in {"ro", "rw"}, mode' = mode, Healthy, Healthy', NEW c \in Chunks
      PROVE  FindResult(c)' = FindResult(c) \/ (c \in acked' /\ FindResult(c)' = c)
  <2>1. ASSUME NEW d \in Chunks, Insert(d)
        PROVE  FindResult(c)' = FindResult(c) \/ (c \in acked' /\ FindResult(c)' = c)
    <3>1. CASE c # d
      BY <1>3, <2>1, <3>1, OthersAnswer
    <3>2. CASE c = d
      <4>1. PICK f \in Positions : f = Front' /\ nopen' = f + 1
        BY <1>3, <2>1, InsertForm
      <4>2. Front' \notin suspect'
        BY <1>3, <4>1, PositionFacts DEF Healthy
      <4>3. c \in acked'
        BY <1>3, <2>1, <3>2, <4>2, InsertAcks
      <4>4. mode' = "rw"
        BY <1>3, <2>1, InsertForm
      <4> QED BY <1>3, <4>3, <4>4 DEF ReadYourWrites
    <3> QED BY <3>1, <3>2
  <2>2. CASE (\E d \in Chunks : Find(d)) \/ FlushPool \/ UNCHANGED vars
    <3>1. UNCHANGED <<data, nopen>> /\ \A q \in Positions : Merge(files'[q]) = Merge(files[q])
      BY <1>3, <2>2, IndexesKept
    <3> QED BY <1>3, <3>1, SameAnswer
  <2>3. CASE ClosePool \/ Crash \/ RecoverIndex \/ RecoveryStep
    BY <1>3, <2>3, NoneOpen
  <2>4. CASE \E w \in BOOLEAN : OpenPool(w)
    BY <1>3, <2>4 DEF OpenPool
  <2> QED BY <1>3, <2>1, <2>2, <2>3, <2>4 DEF Next
<1>4. Inv /\ Inv' /\ StoreInv /\ BelowInv /\ ReadYourWrites' /\ [Next]_vars =>
        [/\ mode \in {"ro", "rw"} /\ mode' = mode
         /\ Healthy /\ Healthy'
         => \A c \in Chunks :
              \/ FindResult(c)' = FindResult(c)
              \/ c \in acked' /\ FindResult(c)' = c]_vars
  BY <1>3
<1> QED
  BY <1>1, <1>2, <1>4, WritesAreRead, StoreInvariance, InitInv, NextInv, PTL
  DEF Spec, AnswersStay

\* If a file name can hold every position, a chunk that a flush has covered is
\* found by every later Pool object, over any crashes and recoveries that leave
\* no part of a record behind.
THEOREM NothingIsLost ==
  ASSUME MaxFiles <= NameLimit
  PROVE  Spec => []NoChunkLost
<1>1. Inv /\ StoreInv => NoChunkLost
  <2> SUFFICES ASSUME Inv, StoreInv, mode \in {"ro", "rw"}, AllWhole,
                      \A p \in Positions : p \notin suspect /\ ~files[p].bad,
                      NEW c \in durable
               PROVE  FindResult(c) = c
    BY DEF NoChunkLost
  <2>1. c \in Chunks
    BY DEF Inv, TypeOK
  <2>2. nopen = ndata
    BY LimitAssumption DEF Inv, IInv, SessionInv, TypeOK
  <2>3. \A q \in Positions : Trusted(q)
    BY PositionFacts, LimitAssumption DEF Trusted
  <2>4. PICK p \in Positions : p < ndata /\ \E r \in data[p].recs : r.chunk = c
    BY DEF StoreInv, StoredInv
  <2>5. PICK r \in data[p].recs : r.chunk = c
    BY <2>4
  <2>6. Exact(data[p], Merge(files[p]), data[p].len)
    BY <2>2, <2>3, <2>4 DEF Inv, IInv, MemoryInv
  <2>7. r.at < data[p].len
    BY FileFacts DEF Ordered, DataFile, Record
  <2>8. Exposed(data[p], r) /\ WholeHeader(r)
    <3>1. Exposed(data[p], r)
      BY DEF Exposed, AllWhole, WholeFile
    <3>2. r.have = Written(r.chunk)
      BY DEF AllWhole, WholeFile, Intact
    <3> QED BY <2>1, <2>5, <3>1, <3>2, SizesAgree DEF WholeHeader
  <2>9. Merge(files[p])[c] # NoOffset
    BY <2>5, <2>6, <2>7, <2>8 DEF Exact, Covers
  <2>10. ASSUME NEW q \in Positions, q < nopen, Merge(files[q])[c] # NoOffset
         PROVE  GoodAt(data[q], Merge(files[q])[c], c)
    <3>1. Locates(data[q], Merge(files[q]))
      BY <2>3, <2>10 DEF Inv, IInv, MemoryInv, Exact
    <3>2. PICK x \in RecordsAt(data[q], Merge(files[q])[c]) : x.chunk = c
      BY <2>1, <2>10, <3>1 DEF Locates
    <3>3. Intact(x)
      BY <3>2 DEF RecordsAt, AllWhole, WholeFile
    <3> QED BY <3>2, <3>3 DEF GoodAt
  <2> QED BY <2>1, <2>2, <2>4, <2>9, <2>10, FindGood
<1> QED BY <1>1, StoreInvariance, PTL

\* With props.newfile set, the file that is written is above those that were
\* there, if a file name can hold every position.
LEMMA NewStep ==
  ASSUME MaxFiles <= NameLimit, Inv, TypeOK', NewInv, [Next]_vars
  PROVE  NewInv'
<1>0. base \in Nat /\ nopen \in Nat /\ ndata \in Nat /\ newfile \in BOOLEAN
  BY DEF Inv, TypeOK
<1>1. ASSUME NEW w \in BOOLEAN, OpenPool(w) PROVE NewInv'
  <2>1. Visible = ndata
    BY <1>0, FrontFacts, LimitAssumption DEF Inv, IInv, SessionInv
  <2>2. base' = nopen' /\ firstNew' = newfile /\ newfile' = newfile /\ ~dirty'
    BY <1>1, <2>1 DEF OpenPool, diskVars, Inv, IInv, SessionInv, TypeOK
  <2> QED BY <1>0, <2>2 DEF NewInv, TypeOK
<1>2. ASSUME NEW c \in Chunks, Insert(c) PROVE NewInv'
  <2>1. /\ mode = "rw" /\ (nopen' = nopen \/ nopen' = nopen + 1)
        /\ ~dirty /\ nopen' = nopen => ~firstNew
        /\ base' = base /\ newfile' = newfile /\ ~firstNew'
    BY <1>2, InsertForm, InsertOnDisk
  <2>2. base <= nopen /\ (newfile => (firstNew \/ base < nopen) /\ (dirty => base < nopen))
    BY <2>1 DEF NewInv
  <2> QED BY <1>0, <2>1, <2>2 DEF NewInv
<1>3. ASSUME (\E c \in Chunks : Find(c)) \/ FlushPool PROVE NewInv'
  BY <1>0, <1>3 DEF Find, FlushPool, diskVars, historyVars, NewInv
<1>4. ASSUME ClosePool \/ Crash \/ RecoverIndex \/ RecoveryStep PROVE NewInv'
  BY <1>4, NoneOpen DEF NewInv
<1>5. CASE UNCHANGED vars
  BY <1>5 DEF vars, diskVars, sessionVars, historyVars, NewInv
<1> QED BY <1>1, <1>2, <1>3, <1>4, <1>5 DEF Next

\* With props.newfile set, a session writes no file that was there when the pool
\* was opened.
THEOREM SessionsAreNew ==
  ASSUME MaxFiles <= NameLimit
  PROVE  Spec => NewFileSession
<1>1. Init => NewInv
  BY DEF Init, NewInv
<1>2. Inv /\ Inv' /\ NewInv /\ [Next]_vars => NewInv'
  BY NewStep DEF Inv
<1>3. ASSUME Inv, Inv', NewInv, [Next]_vars, newfile, mode = "rw", NEW p \in Positions, p < base
      PROVE  data'[p] = data[p] /\ idx'[p] = idx[p]
  <2>1. /\ base \in Nat /\ nopen \in Nat /\ base <= nopen /\ p \in Nat
        /\ firstNew \/ base < nopen
        /\ dirty => base < nopen
    BY <1>3, PositionFacts DEF Inv, TypeOK, NewInv
  <2>2. dirty => p # Front
    BY <1>3, <2>1 DEF Front
  <2>3. ASSUME NEW i PROVE [idx EXCEPT ![Front] = i][p] = IF p = Front THEN i ELSE idx[p]
    BY <1>3 DEF Inv, TypeOK
  <2>4. ASSUME NEW c \in Chunks, Insert(c)
        PROVE  data'[p] = data[p] /\ idx'[p] = idx[p]
    <3>1. PICK f \in Positions : f = Front'
      BY <1>3, <2>4, InsertForm
    <3>2. /\ nopen' = nopen \/ nopen' = nopen + 1
          /\ ~dirty /\ nopen' = nopen => ~firstNew
          /\ f \in Nat /\ nopen' = f + 1
      BY <1>3, <2>4, <3>1, InsertForm, PositionFacts
    <3>3. p # f
      <4>1. base < nopen \/ nopen' = nopen + 1
        BY <2>1, <3>2
      <4>2. base <= f
        BY <2>1, <3>2, <4>1
      <4> QED BY <1>3, <2>1, <3>2, <4>2
    <3>4. data'[p] = data[p]
      BY <1>3, <2>4, <3>1, <3>3, InsertOnDisk DEF Inv
    <3>5. idx' = idx \/ (dirty /\ idx' = [idx EXCEPT ![Front] = FlushedIndex(files[Front])])
      BY <1>3, <2>4, InsertOnDisk DEF Inv
    <3> QED BY <2>2, <2>3, <3>4, <3>5
  <2>5. CASE FlushPool
    BY <2>2, <2>3, <2>5 DEF FlushPool
  <2>6. CASE ClosePool
    BY <2>2, <2>3, <2>6 DEF ClosePool
  <2>7. CASE Crash
    BY <1>3, <2>2, <2>7, CrashFacts
  <2>8. CASE \E c \in Chunks : Find(c)
    BY <2>8 DEF Find, diskVars
  <2>9. CASE UNCHANGED vars
    BY <2>9 DEF vars, diskVars
  <2> QED
    BY <1>3, <2>4, <2>5, <2>6, <2>7, <2>8, <2>9
    DEF Next, OpenPool, RecoverIndex, RecoveryStep, LoadIndex, ReadHeader,
        ReadTornHeader, RecoveryThrows, SaveIndex, RecoveryEnds, AtHeader
<1>4. Inv /\ Inv' /\ NewInv /\ [Next]_vars =>
        [newfile /\ mode = "rw" =>
           \A p \in Positions : p < base => data'[p] = data[p] /\ idx'[p] = idx[p]]_vars
  BY <1>3
<1> QED
  BY <1>1, <1>2, <1>4, InitInv, NextInv, PTL DEF Spec, NewFileSession

\* A session starts another file for the first write of a session with
\* props.newfile, and otherwise only when the record would take the front file
\* past the limit; if a file name can hold every position.
THEOREM FilesAreFilled ==
  ASSUME MaxFiles <= NameLimit
  PROVE  Spec => AnotherFileWhenFull
<1>1. Init => NewInv
  BY DEF Init, NewInv
<1>2. Inv /\ Inv' /\ NewInv /\ [Next]_vars => NewInv'
  BY NewStep DEF Inv
<1>3. ASSUME Inv, Inv', NewInv, [Next]_vars, mode = "rw", nopen' > nopen,
             nopen > (IF newfile THEN base ELSE 0)
      PROVE  files[Front].size + (data'[nopen].len - data[nopen].len) > Limit
  <2>1. /\ nopen \in Nat /\ nopen' # nopen /\ nopen > 0 /\ base \in Nat /\ newfile \in BOOLEAN
        /\ ~firstNew
    BY <1>3 DEF Inv, TypeOK, NewInv
  <2>2. PICK c \in Chunks : InsertNew(c)
    BY <1>3, <2>1 DEF Next, OpenPool, Insert, InsertOpen, InsertReopened, Find, FlushPool,
       ClosePool, Crash, RecoverIndex, RecoveryStep, LoadIndex, ReadHeader, ReadTornHeader,
       RecoveryThrows, SaveIndex, RecoveryEnds, AtHeader, Gone, sessionVars, vars
  <2>3. nopen \in Positions
    BY <2>1, <2>2, PositionFacts DEF InsertNew
  <2>4. /\ files[Front].size \in Nat /\ data[nopen].len \in Nat
        /\ WriteSize(c) \in Nat /\ WriteSize(c) = Written(c) /\ Limit \in Nat
    BY <1>3, <2>1, <2>3, FrontFacts, FileFacts, SizesAgree, LimitAssumption
    DEF Inv, IInv, OpenFile
  <2>5. data'[nopen].len = data[nopen].len + Written(c)
    <3>1. PICK opened : Put(c, nopen, [NoFile EXCEPT !.size = Wrap(data[nopen].len)], 0, opened)
      BY <2>2 DEF InsertNew
    <3>2. ~[NoFile EXCEPT !.size = Wrap(data[nopen].len)].bad
      BY DEF NoFile
    <3>3. data' = [data EXCEPT ![nopen] = Appended(data[nopen], c)]
      BY <3>1, <3>2 DEF Put
    <3> QED BY <1>3, <2>3, <3>3 DEF Inv, TypeOK, Appended
  <2>6. CASE dirty
    <3>1. WriteSize(c) > Limit
      BY <2>2, <2>4, <2>6 DEF InsertNew, WritePos
    <3> QED BY <2>4, <2>5, <3>1
  <2>7. CASE ~dirty
    <3>1. Wrap(files[Front].size + WriteSize(c)) > Limit
      BY <2>1, <2>2, <2>7 DEF InsertNew
    <3>2. files[Front].size + WriteSize(c) \in Nat
      BY <2>4
    <3> QED BY <2>4, <2>5, <3>1, <3>2, WrapFacts
  <2> QED BY <1>3, <2>6, <2>7 DEF Inv, TypeOK
<1>4. Inv /\ Inv' /\ NewInv /\ [Next]_vars =>
        [/\ mode = "rw" /\ nopen' > nopen
         /\ nopen > (IF newfile THEN base ELSE 0)
         => files[Front].size + (data'[nopen].len - data[nopen].len) > Limit]_vars
  BY <1>3
<1> QED
  BY <1>1, <1>2, <1>4, InitInv, NextInv, PTL DEF Spec, AnotherFileWhenFull

-----------------------------------------------------------------------------
(* Inserts that throw                                                        *)

\* The front file's length and size after an insert, if lengths fit `unsigned`.
LEMMA InsertSizes ==
  ASSUME MaxLen < Width, Inv, TypeOK', SizeInv, NEW c \in Chunks, Insert(c)
  PROVE  /\ data'[Front'].len \in Nat /\ files'[Front'].size \in Nat
         /\ data'[Front'].len <= MaxLen
         /\ data'[Front'].len <= files'[Front'].size
         /\ nopen' = nopen /\ files[Front].size # data[Front].len =>
              files'[Front'].size # data'[Front'].len
<1>0. PICK p : p = Front'
  OBVIOUS
<1>1. /\ nopen \in Nat /\ (nopen' = nopen \/ nopen' = nopen + 1)
      /\ p \in Positions /\ nopen' = p + 1 /\ (nopen' = nopen => p = Front)
  BY <1>0, InsertForm
<1>2. PICK o \in OpenFile, pend \in Nat, opened \in [Positions -> OpenFile] :
        Put(c, p, o, pend, opened) /\ Continued(o)
  BY <1>0, InsertForm
<1>3. /\ data[p].len \in Nat /\ files[p].size \in Nat /\ o.size \in Nat
      /\ Written(c) \in Nat /\ WriteSize(c) = Written(c) /\ MaxLen \in Nat /\ Width \in Nat
      /\ data[p].len <= MaxLen
  BY <1>1, FileFacts, SizesAgree, LimitAssumption DEF OpenFile, SizeInv
<1>4. o.size + Written(c) <= MaxLen /\ Wrap(o.size + Written(c)) = o.size + Written(c)
  <2>1. o.size + Written(c) <= MaxLen
    BY <1>2, <1>3 DEF Put
  <2>2. o.size + Written(c) \in Nat /\ o.size + Written(c) < Width
    BY <1>3, <2>1
  <2> QED BY <2>1, <2>2, WrapFacts
<1>5. files'[p].size = o.size + Written(c)
  <2>1. files' = [opened EXCEPT ![p] =
                    [o EXCEPT !.ram = PutAbsent(o.ram, c, o.size), !.size = o.size + Written(c)]]
    BY <1>2, <1>3, <1>4 DEF Put
  <2> QED BY <1>1, <2>1 DEF OpenFile
<1>6. data'[p].len \in {data[p].len, data[p].len + Written(c)} /\ data'[p].len <= MaxLen
  <2> DEFINE new == IF o.bad THEN data[p] ELSE Appended(data[p], c)
  <2>1. data' = [data EXCEPT ![p] = new] /\ new.len <= MaxLen
    BY <1>2 DEF Put
  <2>2. new.len \in {data[p].len, data[p].len + Written(c)}
    BY DEF Appended
  <2> HIDE DEF new
  <2> QED BY <1>1, <2>1, <2>2 DEF Inv, TypeOK
<1>7. CASE nopen' = nopen
  <2>1. Front \in Positions /\ files[Front] \in OpenFile
    BY <1>1, <1>7, FileFacts
  <2>2. o.size = files[p].size
    BY <1>1, <1>2, <1>7, <2>1 DEF Continued, OpenFile
  <2>3. data[p].len <= files[p].size
    BY <1>1, <1>7 DEF SizeInv, Front
  <2> QED BY <1>0, <1>1, <1>3, <1>5, <1>6, <1>7, <2>2, <2>3
<1>8. CASE nopen' = nopen + 1
  <2>1. p = nopen
    BY <1>1, <1>8, PositionFacts
  <2>2. o.size = Wrap(data[p].len)
    BY <1>1, <1>2, <1>8, <2>1 DEF Continued, NoFile
  <2>3. o.size = data[p].len
    BY <1>3, <2>2, WrapFacts
  <2> QED BY <1>0, <1>1, <1>3, <1>5, <1>6, <1>8, <2>3
<1> QED BY <1>1, <1>7, <1>8

\* Every step keeps SizeInv.
LEMMA SizeStep ==
  ASSUME MaxLen < Width, Inv, TypeOK', CleanInv, SizeInv, [Next]_vars
  PROVE  SizeInv'
<1>1. ASSUME NEW w \in BOOLEAN, OpenPool(w) PROVE SizeInv'
  <2> SUFFICES ASSUME NEW q \in Positions
               PROVE  /\ data[q].len <= MaxLen
                      /\ q < nopen' => data[q].len <= files'[q].size
    BY <1>1 DEF OpenPool, diskVars, SizeInv
  <2>1. data[q].len <= MaxLen /\ data[q].len \in Nat /\ MaxLen \in Nat /\ Width \in Nat
    BY FileFacts, LimitAssumption DEF SizeInv
  <2>2. q < nopen' => files'[q].size = Wrap(data[q].len)
    BY <1>1 DEF OpenPool, Loaded
  <2> QED BY <2>1, <2>2, WrapFacts
<1>2. ASSUME NEW c \in Chunks, Insert(c) PROVE SizeInv'
  <2> SUFFICES ASSUME NEW q \in Positions
               PROVE  /\ data'[q].len <= MaxLen
                      /\ q < nopen' => data'[q].len <= files'[q].size
    BY DEF SizeInv
  <2>1. CASE q = Front'
    BY <1>2, <2>1, InsertSizes
  <2>2. CASE q # Front'
    <3>1. data'[q] = data[q]
      BY <1>2, <2>2, InsertOnDisk
    <3>2. q < nopen' => q < nopen
      <4>1. PICK p \in Nat : p = Front'
        BY <1>2, InsertForm, PositionFacts
      <4>2. nopen' = p + 1 /\ (nopen' = nopen \/ nopen' = nopen + 1) /\ nopen \in Nat
        BY <1>2, <4>1, InsertForm
      <4>3. q \in Nat /\ q # p
        BY <2>2, <4>1, PositionFacts
      <4> QED BY <4>2, <4>3
    <3>3. q < nopen => files'[q].size = files[q].size
      BY <1>2, <2>2, InsertInMemory
    <3> QED BY <3>1, <3>2, <3>3 DEF SizeInv
  <2> QED BY <2>1, <2>2
<1>3. ASSUME NEW c \in Chunks, Find(c) PROVE SizeInv'
  <2>1. UNCHANGED <<data, nopen>>
    BY <1>3 DEF Find, diskVars
  <2>2. \A q \in Positions : files'[q].size = files[q].size
    BY <1>3 DEF Find, Inv, TypeOK, OpenFile
  <2> QED BY <2>1, <2>2 DEF SizeInv
<1>4. CASE FlushPool
  <2>1. UNCHANGED <<data, nopen>> /\ files' = [files EXCEPT ![Front] = FlushedFile(files[Front])]
    BY <1>4 DEF FlushPool
  <2>2. \A q \in Positions : files'[q].size = files[q].size
    BY <2>1 DEF Inv, TypeOK, OpenFile, FlushedFile
  <2> QED BY <2>1, <2>2 DEF SizeInv
<1>5. CASE Crash
  <2> SUFFICES ASSUME NEW q \in Positions
               PROVE  data'[q].len <= MaxLen
    BY <1>5, NoneOpen, PositionFacts DEF SizeInv
  <2>1. data[q].len <= MaxLen /\ data[q].len \in Nat /\ MaxLen \in Nat
    BY FileFacts, LimitAssumption DEF SizeInv
  <2>2. CASE data'[q] = data[q]
    BY <2>1, <2>2
  <2>3. CASE data'[q] # data[q]
    <3>1. PICK n \in Nat : n <= data[q].len /\ data'[q] = Truncated(data[q], n)
      BY <1>5, <2>3, CrashFacts
    <3> QED BY <2>1, <3>1 DEF Truncated
  <2> QED BY <2>2, <2>3
<1>6. ASSUME ClosePool \/ RecoverIndex \/ RecoveryStep PROVE SizeInv'
  <2>1. data' = data
    BY <1>6 DEF ClosePool, RecoverIndex, diskVars, RecoveryStep, LoadIndex, ReadHeader,
       ReadTornHeader, RecoveryThrows, SaveIndex, RecoveryEnds
  <2> QED BY <1>6, <2>1, NoneOpen, PositionFacts DEF SizeInv
<1>7. CASE UNCHANGED vars
  BY <1>7 DEF vars, diskVars, sessionVars, SizeInv
<1> QED BY <1>1, <1>2, <1>3, <1>4, <1>5, <1>6, <1>7 DEF Next

\* The index that a flush saves of a file that is longer in memory than it is.
LEMMA FlushRefused ==
  ASSUME MaxLen < Width, Inv, SizeInv, NEW p \in Positions, p < nopen,
         files[p].size # data[p].len
  PROVE  FlushedIndex(files[p]).size # Wrap(data[p].len)
<1>1. data[p].len \in Nat /\ data[p].len < Width
  BY FileFacts, LimitAssumption DEF SizeInv
<1> QED BY <1>1, WrapFacts DEF FlushedIndex

\* After an insert that has thrown, whatever the session goes on to insert, find
\* and flush, no index that it saves for the file is accepted: as long as
\* lengths fit `unsigned`.
THEOREM ThrownStaysRefused ==
  ASSUME MaxLen < Width
  PROVE  Spec => ThrownIsRefused
<1>1. Init => SizeInv
  BY LimitAssumption, PositionFacts DEF Init, SizeInv, EmptyData
<1>2. Inv /\ Inv' /\ StoreInv /\ SizeInv /\ [Next]_vars => SizeInv'
  BY SizeStep DEF Inv, StoreInv
<1>3. ASSUME Inv, Inv', StoreInv, SizeInv, [Next]_vars, NEW p \in Positions, mode = "rw",
             p < nopen, files[p].size # data[p].len
      PROVE  /\ mode' = "rw" => files'[p].size # data'[p].len
             /\ idx'[p] # idx[p] => ~Accepts(p)'
  <2>1. /\ TypeOK' /\ CleanInv /\ nopen \in Nat /\ p \in Nat
        /\ idx \in [Positions -> IndexFile] /\ files \in [Positions -> OpenFile]
        /\ FlushedIndex(files[p]).size # Wrap(data[p].len)
    BY <1>3, PositionFacts, FlushRefused DEF Inv, StoreInv, TypeOK
  <2>2. ASSUME data'[p] = data[p], idx' = [idx EXCEPT ![Front] = FlushedIndex(files[Front])],
               idx'[p] # idx[p]
        PROVE  ~Accepts(p)'
    <3>1. p = Front /\ idx'[p] = FlushedIndex(files[p])
      BY <2>1, <2>2
    <3> QED BY <2>1, <2>2, <3>1 DEF Accepts
  <2>3. ASSUME NEW c \in Chunks, Insert(c)
        PROVE  /\ mode' = "rw" => files'[p].size # data'[p].len
               /\ idx'[p] # idx[p] => ~Accepts(p)'
    <3>1. PICK q \in Positions : q = Front'
      BY <1>3, <2>3, InsertForm
    <3>2. /\ q \in Nat /\ nopen' = q + 1 /\ (nopen' = nopen \/ nopen' = nopen + 1)
          /\ (nopen' = nopen => q = Front)
      BY <1>3, <2>3, <3>1, InsertForm, PositionFacts
    <3>3. CASE p = q
      <4>1. nopen' = nopen
        BY <1>3, <2>1, <3>2, <3>3
      <4>2. files'[p].size # data'[p].len
        BY <1>3, <2>1, <2>3, <3>1, <3>2, <3>3, <4>1, InsertSizes
      <4>3. idx' = idx
        <5>1. nopen' # nopen + 1
          BY <2>1, <4>1
        <5>2. UNCHANGED <<idx, durable>> \/ nopen' = nopen + 1
          BY <1>3, <2>1, <2>3, InsertOnDisk, Zenon
        <5> QED BY <5>1, <5>2
      <4> QED BY <4>2, <4>3
    <3>4. CASE p # q
      <4>1. data'[p] = data[p] /\ files'[p].size = files[p].size
        BY <1>3, <2>1, <2>3, <3>1, <3>4, InsertOnDisk, InsertInMemory
      <4>2. idx' = idx \/ idx' = [idx EXCEPT ![Front] = FlushedIndex(files[Front])]
        BY <1>3, <2>1, <2>3, InsertOnDisk
      <4> QED BY <1>3, <2>2, <4>1, <4>2
    <3> QED BY <3>3, <3>4
  <2>4. ASSUME NEW c \in Chunks, Find(c)
        PROVE  files'[p].size = files[p].size /\ UNCHANGED <<data, idx>>
    BY <2>1, <2>4 DEF Find, diskVars, OpenFile
  <2>5. CASE FlushPool
    <3>1. /\ UNCHANGED data /\ idx' = [idx EXCEPT ![Front] = FlushedIndex(files[Front])]
          /\ files' = [files EXCEPT ![Front] = FlushedFile(files[Front])]
      BY <2>5 DEF FlushPool
    <3>2. files'[p].size = files[p].size
      BY <2>1, <3>1 DEF OpenFile, FlushedFile
    <3> QED BY <1>3, <2>2, <3>1, <3>2
  <2>6. CASE ClosePool
    <3>1. /\ UNCHANGED data /\ mode' = "closed"
          /\ idx' = [idx EXCEPT ![Front] = FlushedIndex(files[Front])] \/ idx' = idx
      BY <2>6 DEF ClosePool, Gone
    <3> QED BY <2>2, <3>1
  <2>7. CASE Crash
    BY <2>7 DEF Crash, Gone
  <2>8. CASE UNCHANGED vars
    BY <1>3, <2>8 DEF vars, diskVars, sessionVars
  <2> QED
    BY <1>3, <2>3, <2>4, <2>5, <2>6, <2>7, <2>8
    DEF Next, OpenPool, RecoverIndex, RecoveryStep, LoadIndex, ReadHeader,
        ReadTornHeader, RecoveryThrows, SaveIndex, RecoveryEnds, AtHeader
<1>4. Inv /\ Inv' /\ StoreInv /\ SizeInv /\ [Next]_vars =>
        [\A p \in Positions :
           mode = "rw" /\ p < nopen /\ files[p].size # data[p].len =>
             /\ mode' = "rw" => files'[p].size # data'[p].len
             /\ idx'[p] # idx[p] => ~Accepts(p)']_vars
  BY <1>3
<1> QED
  BY <1>1, <1>2, <1>4, StoreInvariance, PTL DEF Spec, ThrownIsRefused

\* An index that matches its file stops matching only when a session writes that
\* file, and then the file is the front one and the pool is dirty; so no crash
\* and no recovery makes an index stale that was not.
THEOREM OnlyFrontIsStale ==
  ASSUME MaxFiles <= NameLimit
  PROVE  Spec => OnlyFrontGoesStale
<1>1. ASSUME Inv, Inv', StoreInv, [Next]_vars, NEW p \in Positions, Accepts(p), ~Accepts(p)',
             p \notin suspect'
      PROVE  mode = "rw" /\ dirty' /\ nopen' = p + 1
  <2>1. /\ Accepts(p) <=> idx[p].exists /\ idx[p].size = Wrap(data[p].len)
        /\ Accepts(p)' <=> idx'[p].exists /\ idx'[p].size = Wrap(data'[p].len)
        /\ CleanInv /\ TypeOK' /\ nopen \in Nat /\ p \in Nat
    BY <1>1, PositionFacts DEF Accepts, StoreInv, Inv, TypeOK
  <2>2. data'[p] # data[p] \/ idx'[p] # idx[p]
    BY <1>1, <2>1
  <2>3. ASSUME dirty, p = Front, p \notin suspect
        PROVE  /\ FlushedIndex(files[Front]).exists
               /\ FlushedIndex(files[Front]).size = Wrap(data[p].len)
    <3>1. p < nopen
      BY <2>1, <2>3 DEF Front
    <3>2. files[p].size = Wrap(data[p].len)
      BY <2>1, <2>3, <3>1 DEF CleanInv
    <3> QED BY <2>3, <3>2 DEF FlushedIndex
  <2>4. ASSUME NEW i PROVE [idx EXCEPT ![Front] = i][p] = IF p = Front THEN i ELSE idx[p]
    BY <1>1 DEF Inv, TypeOK
  <2>5. ASSUME NEW c \in Chunks, Insert(c)
        PROVE  mode = "rw" /\ dirty' /\ nopen' = p + 1
    <3>1. mode = "rw" /\ dirty' /\ nopen' = Front' + 1
      BY <1>1, <2>1, <2>5, InsertForm, InsertOnDisk
    <3>2. CASE p = Front'
      BY <3>1, <3>2
    <3>3. CASE p # Front'
      <4>1. data'[p] = data[p] /\ p \notin suspect
        BY <1>1, <2>1, <2>5, <3>3, InsertOnDisk, InsertInMemory
      <4>2. idx' = idx \/ (dirty /\ idx' = [idx EXCEPT ![Front] = FlushedIndex(files[Front])])
        BY <1>1, <2>1, <2>5, InsertOnDisk
      <4> QED BY <1>1, <2>1, <2>2, <2>3, <2>4, <4>1, <4>2
    <3> QED BY <3>2, <3>3
  <2>6. CASE FlushPool \/ (ClosePool /\ dirty)
    <3>1. /\ dirty /\ UNCHANGED <<data, suspect>>
          /\ idx' = [idx EXCEPT ![Front] = FlushedIndex(files[Front])]
      BY <2>6 DEF FlushPool, ClosePool
    <3> QED BY <1>1, <2>1, <2>2, <2>3, <2>4, <3>1
  <2>7. CASE Crash
    <3>1. idx' = idx /\ suspect' = suspect
      BY <2>7 DEF Crash
    <3>2. PICK n \in Nat : /\ Settled(p) <= n /\ n <= data[p].len
                           /\ data'[p] = Truncated(data[p], n)
      BY <1>1, <2>2, <2>7, <3>1, CrashFacts
    <3>3. Trusted(p)
      BY <1>1, <2>1, <3>1, PositionFacts, LimitAssumption DEF Trusted
    <3>4. data[p].len < Width /\ idx[p].size <= Settled(p)
      BY <1>1, <2>1, <3>3 DEF Inv, IInv, WidthInv, IndexInv
    <3>5. Wrap(data[p].len) = data[p].len
      BY <1>1, <3>4, FileFacts, WrapFacts
    <3>6. data'[p].len = n
      BY <3>2 DEF Truncated
    <3>7. n = data[p].len
      BY <1>1, <2>1, <3>2, <3>4, <3>5, FileFacts
    <3> QED BY <1>1, <2>1, <3>1, <3>6, <3>7
  <2>8. CASE SaveIndex
    <3>1. /\ idx' = [idx EXCEPT ![scan.file] =
                       [exists |-> TRUE, size |-> ScanSize, entries |-> scan.index]]
          /\ data' = data
      BY <2>8 DEF SaveIndex
    <3>2. p = scan.file
      BY <1>1, <2>2, <3>1 DEF Inv, TypeOK
    <3>3. idx'[p].exists /\ idx'[p].size = ScanSize
      BY <1>1, <3>1, <3>2 DEF Inv, TypeOK
    <3> QED BY <1>1, <2>1, <3>1, <3>2, <3>3 DEF ScanSize
  <2> QED
    BY <1>1, <2>2, <2>5, <2>6, <2>7, <2>8
    DEF Next, vars, diskVars, OpenPool, Find, ClosePool, RecoverIndex, RecoveryStep, LoadIndex,
        ReadHeader, ReadTornHeader, RecoveryThrows, RecoveryEnds
<1>2. Inv /\ Inv' /\ StoreInv /\ [Next]_vars =>
        [\A p \in Positions :
           /\ p < ndata /\ Accepts(p) /\ ~Accepts(p)'
           /\ p \notin suspect'
           => mode = "rw" /\ dirty' /\ nopen' = p + 1]_vars
  BY <1>1
<1> QED
  BY <1>2, StoreInvariance, InitInv, NextInv, PTL DEF Spec, OnlyFrontGoesStale

\* Every step of a recovery brings it nearer to its end, if the headers it reads
\* are whole and lengths fit: files, then the two stages of a file, and then
\* positions below its size.  So a recovery that goes on ends.
THEOREM RecoveryMovesOn == Spec => RecoveryAdvances
<1>1. ASSUME Inv, StoreInv, [Next]_vars, mode = "recover", mode' = "recover", ~scan'.garbled,
             \A c \in Chunks : data[scan.file].len + WriteSize(c) < Width, ~ UNCHANGED vars
      PROVE  \/ scan'.file = scan.file + 1 /\ scan'.file <= Visible'
             \/ scan'.file = scan.file /\ ~scan.active /\ scan'.active
             \/ /\ scan'.file = scan.file /\ scan'.active
                /\ scan.pos < ScanSize /\ scan.pos < scan'.pos
  <2>1. scan \in Scan /\ scan.file \in Nat /\ scan.pos \in Nat /\ Visible \in Nat
    BY FrontFacts, <1>1 DEF Inv, TypeOK, Scan, IInv
  <2>2. CASE LoadIndex
    <3>1. scan.file < Visible /\ ~scan.active /\ Visible' = Visible
      BY <2>2 DEF LoadIndex, Visible, diskVars
    <3>2. CASE Accepts(scan.file)
      BY <2>1, <2>2, <3>1, <3>2 DEF LoadIndex, ScanOf
    <3>3. CASE ~Accepts(scan.file)
      <4>1. scan' = [scan EXCEPT !.active = TRUE]
        BY <2>2, <3>3 DEF LoadIndex
      <4>2. scan'.file = scan.file /\ scan'.active
        BY <2>1, <4>1 DEF Scan
      <4> QED BY <3>1, <4>2
    <3> QED BY <3>2, <3>3
  <2>3. CASE ReadHeader
    <3>1. PICK r \in Here :
            scan' = [scan EXCEPT !.index = PutAbsent(@, r.chunk, scan.pos),
                                 !.pos = Wrap(scan.pos + WriteSize(r.chunk))]
      BY <2>3 DEF ReadHeader
    <3>2. /\ scan'.file = scan.file /\ scan'.active = scan.active
          /\ scan'.pos = Wrap(scan.pos + WriteSize(r.chunk))
      BY <2>1, <3>1 DEF Scan
    <3>3. scan.active /\ scan.pos < ScanSize
      BY <2>3 DEF ReadHeader, AtHeader
    <3>4. scan.file \in Positions
      BY <1>1, <3>3, <2>1, FrontFacts DEF Inv, IInv, ScanInv
    <3>5. data[scan.file].len \in Nat /\ ScanSize <= data[scan.file].len /\ ScanSize \in Nat
      BY <1>1, <3>4, FileFacts, WrapFacts DEF ScanSize
    <3>6. r.chunk \in Chunks
      BY <1>1, <3>4 DEF Here, RecordsAt, Inv, TypeOK, DataFile, Record
    <3>7. WriteSize(r.chunk) \in Nat /\ WriteSize(r.chunk) > 0
      BY <3>6, SizesAgree
    <3>8. /\ scan.pos + WriteSize(r.chunk) \in Nat
          /\ scan.pos + WriteSize(r.chunk) < Width
          /\ scan.pos < scan.pos + WriteSize(r.chunk)
      BY <1>1, <2>1, <3>3, <3>5, <3>6, <3>7, LimitAssumption
    <3>9. Wrap(scan.pos + WriteSize(r.chunk)) = scan.pos + WriteSize(r.chunk)
      BY <3>8, WrapFacts
    <3> QED BY <3>2, <3>3, <3>8, <3>9
  <2>4. CASE ReadTornHeader
    <3>1. \E index, next :
            scan' = [scan EXCEPT !.index = index, !.pos = next, !.garbled = TRUE]
      BY <2>4 DEF ReadTornHeader
    <3>2. scan'.garbled
      BY <2>1, <3>1 DEF Scan
    <3> QED BY <1>1, <3>2
  <2>5. CASE SaveIndex
    <3>1. scan.file < Visible /\ Visible' = Visible
      BY <1>1, <2>5 DEF SaveIndex, Visible, Inv, IInv, ScanInv
    <3>2. scan'.file = scan.file + 1
      BY <2>5 DEF SaveIndex, ScanOf
    <3> QED BY <2>1, <3>1, <3>2
  <2> QED BY <1>1, <2>2, <2>3, <2>4, <2>5, Recovering
<1>2. Inv /\ StoreInv /\ [Next]_vars =>
        [/\ mode = "recover" /\ mode' = "recover" /\ ~scan'.garbled
         /\ \A c \in Chunks : data[scan.file].len + WriteSize(c) < Width
         => \/ scan'.file = scan.file + 1 /\ scan'.file <= Visible'
            \/ scan'.file = scan.file /\ ~scan.active /\ scan'.active
            \/ /\ scan'.file = scan.file /\ scan'.active
               /\ scan.pos < ScanSize /\ scan.pos < scan'.pos]_vars
  BY <1>1
<1> QED BY <1>2, StoreInvariance, PTL DEF Spec, RecoveryAdvances
=============================================================================
