----------------------------- MODULE ChunkProofs -----------------------------
(* Records say what their chunks stand for, for any data and whatever zlib  *)
(* makes of it, over any number of records.                                 *)
EXTENDS Chunk, TLAPS

\* What a chunk's buffers hold.  Unless a field was never set, a chunk that says
\* it has compressed data has that of its own.
Honest(c) ==
  /\ c.z \in {Empty, Zipped(c.data)}
  /\ c.clean => c.info # "garbage" /\ (c.info = "Some" => c.z = Zipped(c.data))

PlainChunks ==
  {c \in [class : {"plain"}, data : Data, plain : Buffer, z : Buffer, info : Infos,
          clean : BOOLEAN] : Honest(c) /\ c.plain = Plain(c.data)}
CompressedChunks ==
  {c \in [class : {"compressed"}, data : Data, plain : Buffer, z : Buffer, info : {"Some"},
          clean : BOOLEAN] : Honest(c) /\ c.plain \in {Empty, Plain(c.data)}}

\* A record says what its chunk stands for, and its payload is of the size that
\* was told, if it was.
Told(r) ==
  /\ r.told # Unasked => r.told = BufferSize(r.payload)
  /\ r.clean => r.payload = IF r.uclen = -1 THEN Plain(r.data) ELSE Zipped(r.data)
  /\ r.uclen # -1 => r.payload \in {Empty, Zipped(r.data)}

Records ==
  {r \in [uclen : Int, payload : Buffer, data : Data, told : Int, clean : BOOLEAN] : Told(r)}

\* What write_size said is what it would say now, and nothing is left to try.
Holds(c) ==
  told # Unasked =>
    c # NoChunk /\ ~Aborts(c) /\ c.info # "Untried" /\ told = PayloadSize(c)

IInv ==
  /\ chunk \in PlainChunks \cup CompressedChunks \cup {NoChunk}
  /\ records \in Seq(Records)
  /\ told \in Int /\ Holds(chunk)
-----------------------------------------------------------------------------
LEMMA BufferSizes ==
  /\ BufferSize(Empty) = 0 /\ Empty \in Buffer
  /\ \A d \in Data : /\ BufferSize(Plain(d)) = Size[d] /\ Plain(d) \in Buffer
                     /\ BufferSize(Zipped(d)) = ZSize[d] /\ Zipped(d) \in Buffer
<1>1. BufferSize(Empty) = 0 /\ Empty \in Buffer
  BY DEF BufferSize, Empty, Buffer
<1>2. ASSUME NEW d \in Data
      PROVE  /\ BufferSize(Plain(d)) = Size[d] /\ Plain(d) \in Buffer
             /\ BufferSize(Zipped(d)) = ZSize[d] /\ Zipped(d) \in Buffer
  BY DEF BufferSize, Plain, Zipped, Buffer, Forms
<1> QED
  BY <1>1, <1>2

\* The chunks that a client builds, and those that Read builds.
LEMMA PlainChunkKind ==
  ASSUME NEW d \in Data, NEW info \in Infos, NEW clean \in BOOLEAN,
         clean => info \in {"Untried", "None"}
  PROVE  PlainChunk(d, info, clean) \in PlainChunks
<1> DEFINE c == PlainChunk(d, info, clean)
<1>1. c.data = d /\ c.z = Empty /\ c.plain = Plain(d) /\ c.info = info /\ c.clean = clean
  BY DEF PlainChunk
<1>2. Honest(c)
  BY <1>1 DEF Honest
<1>3. c \in [class : {"plain"}, data : Data, plain : Buffer, z : Buffer, info : Infos,
             clean : BOOLEAN]
  BY BufferSizes DEF PlainChunk
<1> QED
  BY <1>1, <1>2, <1>3 DEF PlainChunks

LEMMA CompressedChunkKind ==
  ASSUME NEW d \in Data, NEW z \in {Empty, Zipped(d)}, NEW clean \in BOOLEAN,
         clean => z = Zipped(d)
  PROVE  CompressedChunk(d, z, clean) \in CompressedChunks
<1> DEFINE c == CompressedChunk(d, z, clean)
<1>1. c.data = d /\ c.z = z /\ c.plain = Empty /\ c.info = "Some" /\ c.clean = clean
  BY DEF CompressedChunk
<1>2. Honest(c)
  BY <1>1 DEF Honest
<1>3. z \in Buffer /\ Empty \in Buffer
  BY BufferSizes
<1>4. c \in [class : {"compressed"}, data : Data, plain : Buffer, z : Buffer,
             info : {"Some"}, clean : BOOLEAN]
  BY <1>3 DEF CompressedChunk
<1> QED
  BY <1>1, <1>2, <1>4 DEF CompressedChunks

\* has_zdata leaves a chunk of the kind it was.
LEMMA TriedKind ==
  ASSUME NEW c \in PlainChunks \cup CompressedChunks
  PROVE  /\ Tried(c) \in PlainChunks \cup CompressedChunks
         /\ c \in PlainChunks => Tried(c) \in PlainChunks
         /\ Tried(c).data = c.data /\ Tried(c).clean = c.clean /\ Tried(c).plain = c.plain
         /\ Tried(c).info # "Untried"
         /\ Tried(c).info = "None" => c \in PlainChunks
<1>1. CASE c.info # "Untried"
  BY <1>1 DEF Tried, PlainChunks, CompressedChunks
<1>2. CASE c.info = "Untried"
  <2>1. c \in PlainChunks
    BY <1>2 DEF CompressedChunks
  <2>2. c.data \in Data /\ Zipped(c.data) \in Buffer /\ {"None", "Some"} \subseteq Infos
    BY <2>1, BufferSizes DEF PlainChunks, Infos
  <2>3. CASE ZSize[c.data] = -1
    <3>1. Tried(c) = [c EXCEPT !.info = "None"]
      BY <1>2, <2>3 DEF Tried
    <3> QED
      BY <2>1, <2>2, <3>1 DEF PlainChunks, Honest
  <2>4. CASE ZSize[c.data] # -1
    <3>1. Tried(c) = [c EXCEPT !.info = "Some", !.z = Zipped(c.data)]
      BY <1>2, <2>4 DEF Tried
    <3> QED
      BY <2>1, <2>2, <3>1 DEF PlainChunks, Honest
  <2> QED
    BY <2>3, <2>4
<1> QED
  BY <1>1, <1>2

\* A second has_zdata changes nothing, so that write_size tells the same.
LEMMA TriedAgain ==
  ASSUME NEW c \in PlainChunks \cup CompressedChunks
  PROVE  /\ c.info # "Untried" => Tried(c) = c
         /\ ~Aborts(c) => ~Aborts(Tried(c))
         /\ PayloadSize(Tried(c)) = PayloadSize(c) /\ PayloadSize(c) \in Int
<1>1. c.info # "Untried" => Tried(c) = c
  BY DEF Tried
<1>2. Tried(c) \in PlainChunks \cup CompressedChunks /\ Tried(c).info # "Untried"
      /\ Tried(c).data = c.data
  BY TriedKind
<1>3. Tried(Tried(c)) = Tried(c)
  BY <1>2 DEF Tried
<1>4. PayloadSize(Tried(c)) = PayloadSize(c)
  BY <1>2, <1>3 DEF PayloadSize, HasZdata
<1>5. ~Aborts(c) => ~Aborts(Tried(c))
  <2>1. CASE c.info # "Untried"
    BY <1>1, <2>1
  <2>2. CASE c.info = "Untried"
    BY <2>2 DEF Aborts, Tried, PlainChunks, CompressedChunks
  <2> QED BY <2>1, <2>2
<1>6. PayloadSize(c) \in Int
  <2>1. c.data \in Data /\ Tried(c).z \in {Empty, Zipped(c.data)}
    BY <1>2 DEF PlainChunks, CompressedChunks, Honest
  <2>2. Size[c.data] \in Int /\ ZSize[c.data] \in Int
    BY <2>1, SizeAssumption
  <2>3. BufferSize(Tried(c).z) \in Int
    BY <2>1, <2>2, BufferSizes
  <2> QED BY <2>2, <2>3 DEF PayloadSize
<1> QED BY <1>1, <1>4, <1>5, <1>6

\* A record of a chunk that does not abort is one that can be told.
LEMMA RecordKind ==
  ASSUME NEW c \in PlainChunks \cup CompressedChunks, ~Aborts(c), told \in Int, Holds(c)
  PROVE  Record(c) \in Records
<1> DEFINE r == Record(c)
<1>1. /\ c.data \in Data /\ c.clean \in BOOLEAN /\ c.plain \in Buffer
      /\ Tried(c).z \in {Empty, Zipped(c.data)}
      /\ c.clean /\ HasZdata(c) => Tried(c).z = Zipped(c.data)
  BY TriedKind DEF PlainChunks, CompressedChunks, Honest, HasZdata
<1>2. Size[c.data] \in Nat /\ ZSize[c.data] \in Int
  BY <1>1, SizeAssumption
<1>3. CASE HasZdata(c)
  <2>1. r = [uclen |-> Size[c.data], payload |-> Tried(c).z, data |-> c.data,
             told |-> told, clean |-> c.clean]
    BY <1>3 DEF Record
  <2>2. Tried(c).z \in Buffer
    BY <1>1, BufferSizes
  <2>3. told # Unasked => told = BufferSize(Tried(c).z)
    BY <1>3 DEF Holds, PayloadSize
  <2>4. Told(r)
    BY <1>1, <1>2, <1>3, <2>1, <2>3 DEF Told
  <2> QED
    BY <1>1, <1>2, <2>1, <2>2, <2>4 DEF Records
<1>4. CASE ~HasZdata(c)
  <2>1. c \in PlainChunks
    <3>1. Tried(c).info # "garbage"
      BY DEF Aborts, Tried
    <3>2. Tried(c).info \in Infos
      BY TriedKind DEF PlainChunks, CompressedChunks, Infos
    <3> QED
      BY <1>4, <3>1, <3>2, TriedKind DEF HasZdata, Infos
  <2>2. c.plain = Plain(c.data) /\ BufferSize(Plain(c.data)) = Size[c.data]
    BY <1>1, <2>1, BufferSizes DEF PlainChunks
  <2>3. r = [uclen |-> -1, payload |-> c.plain, data |-> c.data,
             told |-> told, clean |-> c.clean]
    BY <1>4 DEF Record
  <2>4. told # Unasked => told = Size[c.data]
    BY <1>4 DEF Holds, PayloadSize
  <2>5. Told(r)
    BY <2>2, <2>3, <2>4 DEF Told
  <2> QED
    BY <1>1, <1>2, <2>3, <2>5 DEF Records
<1> QED
  BY <1>3, <1>4

LEMMA ChunkInitInv == Init => IInv
BY DEF Init, IInv, Holds, Unasked

LEMMA NoneIsNoChunk ==
  ASSUME IInv, chunk # NoChunk
  PROVE  chunk \in PlainChunks \cup CompressedChunks
BY DEF IInv

LEMMA NewInv == ASSUME IInv, NEW d \in Data, New(d) PROVE IInv'
<1>1. PlainChunk(d, "Untried", TRUE) \in PlainChunks
  BY PlainChunkKind DEF Infos
<1>2. chunk' \in PlainChunks /\ UNCHANGED records /\ told' = Unasked
  BY <1>1 DEF New
<1> QED
  BY <1>2 DEF IInv, Holds, Unasked

\* A chunk that aborts is gone.
LEMMA AbortInv == ASSUME IInv, Abort PROVE IInv'
BY DEF Abort, IInv, Holds, Unasked

\* A chunk that has tried to compress, whether write_size was asked or not.
LEMMA TriedHolds ==
  ASSUME IInv, chunk # NoChunk, ~Aborts(chunk), chunk' = Tried(chunk),
         told' \in {told, PayloadSize(chunk)}
  PROVE  /\ chunk' \in PlainChunks \cup CompressedChunks
         /\ told' \in Int /\ Holds(chunk)'
<1>1. chunk \in PlainChunks \cup CompressedChunks
  BY NoneIsNoChunk
<1>2. chunk' \in PlainChunks \cup CompressedChunks /\ chunk'.info # "Untried"
  BY <1>1, TriedKind
<1>3. chunk' # NoChunk
  BY <1>2 DEF PlainChunks, CompressedChunks, NoChunk
<1>4. ~Aborts(chunk)' /\ PayloadSize(chunk)' = PayloadSize(chunk) /\ PayloadSize(chunk) \in Int
  <2>1. ~Aborts(Tried(chunk)) /\ PayloadSize(Tried(chunk)) = PayloadSize(chunk)
        /\ PayloadSize(chunk) \in Int
    BY <1>1, TriedAgain
  <2>2. Aborts(chunk)' <=> Aborts(Tried(chunk))
    BY DEF Aborts
  <2>3. PayloadSize(chunk)' = PayloadSize(Tried(chunk))
    BY DEF PayloadSize, HasZdata, Tried
  <2> QED BY <2>1, <2>2, <2>3
<1>5. told # Unasked => told = PayloadSize(chunk)
  BY DEF IInv, Holds
<1>6. told' # Unasked => told' = PayloadSize(chunk)
  BY <1>5
<1>7. Holds(chunk)' <=>
        (told' # Unasked =>
           chunk' # NoChunk /\ ~Aborts(chunk)' /\ chunk'.info # "Untried"
             /\ told' = PayloadSize(chunk)')
  BY DEF Holds, Unasked
<1> QED BY <1>2, <1>3, <1>4, <1>6, <1>7 DEF IInv

LEMMA AskInv == ASSUME IInv, AskHasZdata \/ AskWriteSize \/ AskZdata PROVE IInv'
<1>1. CASE Aborts(chunk)
  BY <1>1, AbortInv DEF AskHasZdata, AskWriteSize, AskZdata
<1>2. CASE ~Aborts(chunk)
  <2>1. /\ chunk' = Tried(chunk) /\ UNCHANGED records /\ chunk # NoChunk
        /\ told' \in {told, PayloadSize(chunk)}
    BY <1>2 DEF AskHasZdata, AskWriteSize, AskZdata
  <2> QED
    BY <1>2, <2>1, TriedHolds DEF IInv
<1> QED
  BY <1>1, <1>2

LEMMA AskDataInv == ASSUME IInv, AskData PROVE IInv'
<1>1. chunk \in PlainChunks \cup CompressedChunks /\ UNCHANGED <<told, records>>
  BY NoneIsNoChunk DEF AskData
<1>2. CASE chunk' = chunk
  BY <1>1, <1>2 DEF IInv, Holds, Unasked, Aborts, PayloadSize, HasZdata, Tried
<1>3. CASE chunk' # chunk
  <2>1. chunk' = [chunk EXCEPT !.plain = Plain(chunk.data)] /\ chunk.class # "plain"
    BY <1>3 DEF AskData
  <2>2. chunk \in CompressedChunks
    BY <1>1, <2>1 DEF PlainChunks
  <2>3. chunk.data \in Data /\ Plain(chunk.data) \in Buffer
    BY <2>2, BufferSizes DEF CompressedChunks
  <2>4. /\ chunk' \in CompressedChunks
        /\ chunk'.info = "Some" /\ chunk'.z = chunk.z /\ chunk.info = "Some"
    BY <2>1, <2>2, <2>3 DEF CompressedChunks, Honest
  <2>5. Holds(chunk)'
    <3>1. chunk' # NoChunk
      BY <2>4 DEF CompressedChunks, NoChunk
    <3>2. ~Aborts(chunk)' /\ PayloadSize(chunk) = BufferSize(chunk.z)
          /\ PayloadSize(chunk)' = BufferSize(chunk.z)
      BY <2>4 DEF Aborts, PayloadSize, HasZdata, Tried, BufferSize
    <3>3. told # Unasked => told = PayloadSize(chunk)
      BY DEF IInv, Holds
    <3> QED BY <1>1, <2>4, <3>1, <3>2, <3>3 DEF Holds, Unasked
  <2> QED
    BY <1>1, <2>4, <2>5 DEF IInv
<1> QED
  BY <1>2, <1>3

LEMMA WriteInv == ASSUME IInv, Write PROVE IInv'
<1>1. chunk \in PlainChunks \cup CompressedChunks
  BY NoneIsNoChunk DEF Write
<1>2. CASE Aborts(chunk)
  BY <1>2, AbortInv DEF Write
<1>3. CASE ~Aborts(chunk)
  <2>1. /\ records' = Append(records, Record(chunk)) /\ chunk' = Tried(chunk)
        /\ told' = told /\ chunk # NoChunk
    BY <1>3 DEF Write
  <2>2. Record(chunk) \in Records /\ records \in Seq(Records)
    BY <1>1, <1>3, RecordKind DEF IInv
  <2>3. records' \in Seq(Records)
    BY <2>1, <2>2
  <2> QED
    BY <1>3, <2>1, <2>3, TriedHolds DEF IInv
<1> QED
  BY <1>2, <1>3

LEMMA ReadInv == ASSUME IInv, NEW i \in DOMAIN records, Read(records[i]) PROVE IInv'
<1> DEFINE r == records[i]
<1>1. r \in Records /\ UNCHANGED records /\ told' = Unasked
  BY DEF IInv, Read
<1>2. r.data \in Data /\ r.clean \in BOOLEAN /\ Told(r)
  BY <1>1 DEF Records
<1>3. CASE r.uclen = -1
  <2>1. PICK info \in Infos : chunk' = PlainChunk(r.data, info, FALSE)
    BY <1>3 DEF Read
  <2>2. PlainChunk(r.data, info, FALSE) \in PlainChunks
    BY <1>2, PlainChunkKind
  <2>3. chunk' \in PlainChunks
    BY <2>1, <2>2
  <2> QED
    BY <1>1, <2>3 DEF IInv, Holds, Unasked
<1>4. CASE r.uclen # -1
  <2>1. chunk' = CompressedChunk(r.data, r.payload, r.clean)
    BY <1>4 DEF Read
  <2>2. r.payload \in {Empty, Zipped(r.data)} /\ (r.clean => r.payload = Zipped(r.data))
    BY <1>2, <1>4 DEF Told
  <2>3. CompressedChunk(r.data, r.payload, r.clean) \in CompressedChunks
    BY <1>2, <2>2, CompressedChunkKind
  <2> QED
    BY <1>1, <2>1, <2>3 DEF IInv, Holds, Unasked
<1> QED
  BY <1>3, <1>4

LEMMA ChunkNextInv == IInv /\ [Next]_vars => IInv'
<1>1. IInv /\ UNCHANGED vars => IInv'
  BY DEF vars, IInv, Holds, Unasked, Aborts, PayloadSize, HasZdata, Tried
<1> QED
  BY <1>1, NewInv, AskInv, AskDataInv, WriteInv, ReadInv DEF Next

LEMMA ChunkInvSuffices == IInv => RoundTrip /\ SizeTold
<1> SUFFICES ASSUME IInv, NEW i \in DOMAIN records
             PROVE  /\ records[i].told # Unasked =>
                         records[i].told = BufferSize(records[i].payload)
                    /\ records[i].clean =>
                         records[i].payload = IF records[i].uclen = -1
                                              THEN Plain(records[i].data)
                                              ELSE Zipped(records[i].data)
  BY DEF RoundTrip, SizeTold
<1>1. Told(records[i])
  BY DEF IInv, Records
<1> QED
  BY <1>1 DEF Told

\* Whatever is asked of chunks before they are written, and however often they
\* are read and written again: a record of a chunk with all its fields set holds
\* its chunk's data, in the form its header says.
THEOREM RecordsReadBack == Spec => []RoundTrip
BY ChunkInitInv, ChunkNextInv, ChunkInvSuffices, PTL DEF Spec

\* Where write_size was asked, however long before and whatever was called in
\* between, it told the size of the payload that was written, also for chunks
\* with fields that were never set.
THEOREM SizesAreTold == Spec => []SizeTold
BY ChunkInitInv, ChunkNextInv, ChunkInvSuffices, PTL DEF Spec
=============================================================================
