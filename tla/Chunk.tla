------------------------------- MODULE Chunk -------------------------------
(***************************************************************************)
(* Chunks in memory, src/src/chunk.cc: a plain chunk compresses itself     *)
(* when it is first asked for compressed data, a compressed one expands    *)
(* itself when it is first asked for plain data, and each writes records   *)
(* that are read back as a chunk of the one kind or the other.             *)
(*                                                                         *)
(* A buffer is empty or holds the plain or the compressed form of some     *)
(* data; what zlib makes of the data is a constant.                        *)
(***************************************************************************)
EXTENDS Integers, Sequences

CONSTANTS
  Data,       \* payloads; one stands for the OID too
  Size,       \* Size[d]: its length
  ZSize,      \* ZSize[d]: the length that try_compress gets it to, or -1
  MaxRecords  \* bound: records written

ASSUME SizeAssumption ==
  /\ Size \in [Data -> Nat]
  /\ ZSize \in [Data -> {-1} \cup Nat]
  /\ \A d \in Data : ZSize[d] <= Size[d]
  /\ MaxRecords \in Nat

VARIABLES
  chunk,    \* the chunk that a client holds
  told,     \* what write_size last said of it, or Unasked
  records,  \* what was written
  outcome   \* of the last call

vars == <<chunk, told, records, outcome>>

Unasked == -1

Forms   == {"plain", "z"}
Buffer  == [form : Forms, of : Data] \cup {[form |-> "empty"]}
Empty   == [form |-> "empty"]
Plain(d)  == [form |-> "plain", of |-> d]
Zipped(d) == [form |-> "z", of |-> d]

BufferSize(b) ==
  CASE b.form = "empty" -> 0 [] b.form = "plain" -> Size[b.of] [] b.form = "z" -> ZSize[b.of]

\* PlainChunk has zdata_info, CompressedChunk has is_decompressed.  `data` is
\* what the OID says, and `clean` that the chunk's fields were all set.
Infos == {"Untried", "None", "Some", "garbage"}
PlainChunk(d, info, clean) ==
  [class |-> "plain", data |-> d, plain |-> Plain(d), z |-> Empty, info |-> info,
   clean |-> clean]
CompressedChunk(d, z, clean) ==
  [class |-> "compressed", data |-> d, plain |-> Empty, z |-> z, info |-> "Some",
   clean |-> clean]
NoChunk == [class |-> "none"]

Init == chunk = NoChunk /\ told = Unasked /\ records = <<>> /\ outcome = "ok"

\* A client builds a chunk from data.
New(d) ==
  /\ chunk' = PlainChunk(d, "Untried", TRUE)
  /\ told' = Unasked
  /\ outcome' = "ok"
  /\ UNCHANGED records

\* The chunk after has_zdata: the first call compresses.
Tried(c) ==
  IF c.info # "Untried" THEN c
  ELSE IF ZSize[c.data] = -1 THEN [c EXCEPT !.info = "None"]
  ELSE [c EXCEPT !.info = "Some", !.z = Zipped(c.data)]

\* A value that is none of zdata_info's ends in abort().
Aborts(c) == c.info = "garbage"

HasZdata(c) == Tried(c).info = "Some"

\* Fault: the size is that of what the chunk holds now, without trying.
PayloadSizeUntried(c) == IF c.info = "Some" THEN BufferSize(c.z) ELSE Size[c.data]

\* What write_size adds to the length of the header: zsize() or size().
PayloadSize(c) ==
  IF HasZdata(c) THEN BufferSize(Tried(c).z) ELSE Size[c.data]

Abort ==
  /\ chunk' = NoChunk /\ told' = Unasked
  /\ outcome' = "aborted"
  /\ UNCHANGED records

AskHasZdata ==
  /\ chunk # NoChunk
  /\ IF Aborts(chunk) THEN Abort
     ELSE chunk' = Tried(chunk) /\ outcome' = "ok" /\ UNCHANGED <<told, records>>

\* write_size, which compresses as has_zdata does.
AskWriteSize ==
  /\ chunk # NoChunk
  /\ IF Aborts(chunk) THEN Abort
     ELSE /\ told' = PayloadSize(chunk)
          /\ chunk' = Tried(chunk)
          /\ outcome' = "ok"
          /\ UNCHANGED records

\* zdata or zsize of a chunk that cannot be compressed throws.
AskZdata ==
  /\ chunk # NoChunk
  /\ IF Aborts(chunk) THEN Abort
     ELSE /\ chunk' = Tried(chunk)
          /\ outcome' = IF HasZdata(chunk) THEN "ok" ELSE "threw"
          /\ UNCHANGED <<told, records>>

\* decompress throws unless the buffer is the compressed form of data of the
\* size that the header told.
AskData ==
  /\ chunk # NoChunk
  /\ IF chunk.class = "plain" \/ chunk.plain # Empty
     THEN chunk' = chunk /\ outcome' = "ok"
     ELSE IF chunk.z = Zipped(chunk.data)
     THEN chunk' = [chunk EXCEPT !.plain = Plain(chunk.data)] /\ outcome' = "ok"
     ELSE chunk' = chunk /\ outcome' = "corrupt"
  /\ UNCHANGED <<told, records>>

\* Fault: the mark of a payload that is not compressed is left out.
RecordUnmarked(c) ==
  [uclen   |-> Size[c.data],
   payload |-> IF HasZdata(c) THEN Tried(c).z ELSE c.plain,
   data    |-> c.data, told |-> told, clean |-> c.clean]

\* A record: uclen, the payload, and for the properties the data it stands
\* for, the size write_size announced if it was asked, and whether its chunk
\* was clean.
Record(c) ==
  [uclen   |-> IF HasZdata(c) THEN Size[c.data] ELSE -1,
   payload |-> IF HasZdata(c) THEN Tried(c).z ELSE c.plain,
   data    |-> c.data, told |-> told, clean |-> c.clean]

Write ==
  /\ chunk # NoChunk /\ Len(records) < MaxRecords
  /\ IF Aborts(chunk) THEN Abort
     ELSE /\ records' = Append(records, Record(chunk))
          /\ chunk' = Tried(chunk)
          /\ outcome' = "ok"
          /\ UNCHANGED told

\* Chunk::read.  The constructor of PlainChunk that it uses does not set
\* zdata_info.
Read(r) ==
  /\ IF r.uclen = -1
     THEN \E info \in Infos : chunk' = PlainChunk(r.data, info, FALSE)
     ELSE chunk' = CompressedChunk(r.data, r.payload, r.clean)
  /\ told' = Unasked
  /\ outcome' = "ok"
  /\ UNCHANGED records

Next ==
  \/ \E d \in Data : New(d)
  \/ AskHasZdata \/ AskWriteSize \/ AskZdata \/ AskData \/ Write
  \/ \E i \in DOMAIN records : Read(records[i])

Spec == Init /\ [][Next]_vars
-----------------------------------------------------------------------------
(* Properties *)

\* A record of a chunk with all its fields set reads back as the data that
\* its OID says, whatever was asked of the chunk before it was written, and
\* however often it was read and written.
RoundTrip ==
  \A i \in DOMAIN records :
    LET r == records[i]
    IN  r.clean => r.payload = IF r.uclen = -1 THEN Plain(r.data) ELSE Zipped(r.data)

\* insert trusts write_size to say beforehand what write will write, whatever
\* was asked of the chunk before, in between, and by an earlier write: each of
\* these may fill a buffer that has_zdata goes by.
SizeTold ==
  \A i \in DOMAIN records :
    records[i].told # Unasked => records[i].told = BufferSize(records[i].payload)
=============================================================================
