----------------------------- MODULE PoolFaults -----------------------------
(***************************************************************************)
(* The front file of a pool when system calls fail: src/src/pool.cc from   *)
(* prepare_write to flush, with save and load of src/src/index.cc.  Pool   *)
(* has the same file without failures, but with crashes that cut records.  *)
(* Here a record is one unit, so that an offset is a number of records,    *)
(* and it is written whole or not at all.                                  *)
(*                                                                         *)
(* Where the code does not look at the result of a call, the step goes on. *)
(* Where it throws, what was done before the exception stays done.         *)
(***************************************************************************)
EXTENDS Integers, Sequences, Functions

CONSTANTS
  Chunks,
  Faults,  \* the calls that may fail, out of the kinds below
  MaxLen   \* bound: records in the file, and its `size`

\* "open":  opening the data file again, for reading or for writing
\* "write": writing the buffer of the data file's stream
\* "save":  save, with an exception: at opening, writing or renaming
\* "cut":   writing the last of an index, in the destructor of its stream,
\*          which reports nothing: the file is short, and is renamed
\* "load":  opening the index file that was just written
Kinds == {"open", "write", "save", "cut", "load"}

ASSUME FaultsAssumption == Faults \subseteq Kinds /\ MaxLen \in Nat

MayFail(call, ok) == ok \/ call \in Faults

VARIABLES
  data, idx,                                     \* on disk
  mode, stream, tail, dirty, size, ram, fdata,   \* the Pool object and its file
  outcome,                                       \* of the last call
  acked, gone, shaky, spoiled                    \* history, for properties

\* `stream`: open for reading or for writing, or "bad", by its failbit or as
\* it is not open.  `tail`: the record in its buffer, if there is one.
\* `acked`: chunks whose last insert in this session returned.
\* `gone`: chunks lost with a buffer that close() could not write.
\* `shaky`: the index in memory may be wrong, as a load left it half read, or a
\* record was written at another place than `size`.  `spoiled`: so may the
\* index on disk, if it is accepted.

sessionVars == <<mode, stream, tail, dirty, size, ram, fdata>>
vars == <<data, idx, sessionVars, outcome, acked, gone, shaky, spoiled>>

None      == -1
Entries   == [Chunks -> {None} \cup Nat]
NoEntries == [c \in Chunks |-> None]

\* An index file: whole, or too short for its header or for its vectors.
\* recover_index also meets a file without an index.
IndexStates == {"none", "whole", "header", "body"}
Index(state, n, entries) == [state |-> state, size |-> n, entries |-> entries]

PutAbsent(entries, c, off) ==
  IF entries[c] = None THEN [entries EXCEPT ![c] = off] ELSE entries
Merge == [c \in Chunks |-> IF ram[c] # None THEN ram[c] ELSE fdata[c]]

\* What find gives after a load that ended within the vectors.  They have their
\* new lengths, and what was not read is what was there before or 0: a key may
\* be missing, or have the offset of another one, or one from outside them.
Garbled == [Chunks -> {None} \cup 0 .. MaxLen]

\* Fault: the walk ends before the last record.
FirstOfShort(d) == [c \in Chunks |->
  IF \E i \in DOMAIN d : d[i] = c /\ i < Len(d)
  THEN (CHOOSE i \in DOMAIN d : d[i] = c /\ i < Len(d)) - 1 ELSE None]

\* The index of a file, as a walk over it builds it.
FirstOf(d) == [c \in Chunks |->
  IF \E i \in DOMAIN d : d[i] = c
  THEN (CHOOSE i \in DOMAIN d : d[i] = c /\ \A j \in DOMAIN d : d[j] = c => i <= j) - 1
  ELSE None]

Accepted == idx.state = "whole" /\ idx.size = Len(data)

\* A pool in which an earlier session has stored a chunk.
Init ==
  /\ \E c \in Chunks : data = <<c>>
  /\ idx = Index("whole", 1, [c \in Chunks |-> IF c = data[1] THEN 0 ELSE None])
  /\ mode = "closed" /\ stream = "read" /\ tail = <<>> /\ dirty = FALSE
  /\ size = 0 /\ ram = NoEntries /\ fdata = NoEntries
  /\ outcome = "ok"
  /\ acked = {} /\ gone = {}
  /\ shaky = FALSE /\ spoiled = FALSE

Open ==
  /\ mode = "closed" /\ Accepted
  /\ mode' = "open" /\ stream' = "read" /\ size' = Len(data)
  /\ fdata' = idx.entries
  /\ outcome' = "ok"
  /\ shaky' = spoiled
  /\ UNCHANGED <<data, idx, tail, dirty, ram, acked, gone, spoiled>>

\* The stream that an insert writes to: that of the session's earlier inserts,
\* or what make_writable makes of it, which does not look at the result.
WriteStream(ok) ==
  CASE dirty -> stream [] ~dirty /\ ok -> "write" [] ~dirty /\ ~ok -> "bad"

\* Fault: the record goes behind the one that is in the buffer.
BufferedUnsought(c, written) ==
  data' = data /\ tail' = IF written THEN Append(tail, c) ELSE tail

\* The seek writes the buffer, and the record goes into it.
Buffered(c, written) ==
  IF written THEN data' = data \o tail /\ tail' = <<c>> ELSE UNCHANGED <<data, tail>>

\* Fault: the position is not compared with the size.
ReturnsUnchecked(written, here) == TRUE

\* The check of the position at the end of insert; that of a bad stream is -1.
Returns(written, here) == written /\ size = here

\* insert.  Writing to a stream that is open for reading, or bad, does nothing
\* but set its state.  The index and the size come next, and then the check.
Insert(c) ==
  /\ mode = "open" /\ size < MaxLen
  /\ \E opened, flushed \in BOOLEAN :
       LET written == WriteStream(opened) = "write" /\ flushed
           here    == Len(data) + Len(tail)
           astray  == written /\ size # here
       IN  /\ MayFail("open", opened)
           /\ MayFail("write", flushed)
           /\ Buffered(c, written)
           /\ stream' = IF written THEN "write" ELSE "bad"
           /\ outcome' = IF Returns(written, here) THEN "ok" ELSE "threw"
           /\ acked' = IF Returns(written, here) THEN acked \cup {c} ELSE acked \ {c}
           /\ shaky' = (shaky \/ astray) /\ spoiled' = (spoiled \/ astray)
  /\ dirty' = TRUE
  /\ ram' = PutAbsent(ram, c, size)
  /\ size' = size + 1
  /\ UNCHANGED <<idx, mode, fdata, gone>>

\* find of a chunk that the index has: the seek writes the buffer, and a read
\* beyond the end leaves the failbit.
Find(c) ==
  /\ mode = "open" /\ Merge[c] # None /\ stream # "bad"
  /\ \E flushed \in BOOLEAN :
       /\ MayFail("write", flushed) /\ (tail = <<>> => flushed)
       /\ data' = IF flushed THEN data \o tail ELSE data
       /\ tail' = IF flushed THEN <<>> ELSE tail
       /\ stream' = IF flushed /\ Merge[c] < Len(data') THEN stream ELSE "bad"
  /\ outcome' = "ok"
  /\ UNCHANGED <<idx, mode, dirty, size, ram, fdata, acked, gone, shaky, spoiled>>

\* The calls of a flush that may fail: the last write, the open, save and load.
FlushResults ==
  {r \in [written : BOOLEAN, opened : BOOLEAN,
          saved : {"whole", "header", "body", "threw"}, loaded : BOOLEAN] :
     /\ MayFail("write", r.written) /\ (tail = <<>> => r.written)
     /\ MayFail("open", r.opened)
     /\ MayFail("save", r.saved # "threw")
     /\ MayFail("cut", r.saved \notin {"header", "body"})
     /\ MayFail("load", r.loaded)}

\* What a flush does to the disk.
FlushToDisk(r) ==
  /\ data' = IF r.written THEN data \o tail ELSE data
  /\ gone' = IF r.written THEN gone ELSE gone \cup Range(tail)
  /\ tail' = <<>>
  /\ idx' = IF r.saved = "threw" THEN idx ELSE Index(r.saved, size, Merge)
  /\ spoiled' = IF r.saved = "threw" THEN spoiled ELSE shaky

Good(r) == r.saved = "whole" /\ r.loaded

\* Fault: `dirty` is cleared before the index is saved.
DirtyNever(r) == FALSE

\* `dirty` is cleared last: an exception of save or load leaves it set.
DirtyAfter(r) == ~Good(r)

\* flush: close, open for reading, save, load.  load clears the entries of the
\* session before it opens the file.
FlushPool ==
  /\ mode = "open" /\ dirty
  /\ \E r \in FlushResults :
       /\ FlushToDisk(r)
       /\ stream' = IF r.opened THEN "read" ELSE "bad"
       /\ dirty' = DirtyAfter(r)
       /\ ram' = IF r.saved = "threw" THEN ram ELSE NoEntries
       /\ fdata' \in IF Good(r) THEN {Merge}
                     ELSE IF r.saved = "body" /\ r.loaded THEN Garbled ELSE {fdata}
       /\ shaky' = (shaky \/ ~(Good(r) \/ r.saved = "threw"))
       /\ outcome' = IF Good(r) THEN "ok" ELSE "threw"
  /\ UNCHANGED <<mode, size, acked>>

Gone ==
  /\ mode' = "closed" /\ stream' = "read" /\ dirty' = FALSE
  /\ size' = 0 /\ ram' = NoEntries /\ fdata' = NoEntries
  /\ acked' = {} /\ shaky' = FALSE

\* ~Pool flushes.  An exception out of a destructor ends the process.
Close ==
  /\ mode = "open"
  /\ Gone
  /\ IF ~dirty THEN outcome' = "ok" /\ UNCHANGED <<data, idx, tail, gone, spoiled>>
     ELSE \E r \in FlushResults :
            /\ FlushToDisk(r)
            /\ outcome' = IF Good(r) THEN "ok" ELSE "terminated"

\* The process dies, and the buffer may have been written or not.
Crash ==
  /\ mode = "open"
  /\ Gone
  /\ data' \in {data, data \o tail}
  /\ tail' = <<>>
  /\ outcome' = "ok"
  /\ UNCHANGED <<idx, gone, spoiled>>

\* recover_index where load throws index_error: the index is not there, or is
\* of another size.  It is built again.
Rebuild ==
  /\ mode = "closed"
  /\ \/ idx.state = "none"
     \/ idx.state \in {"whole", "body"} /\ idx.size # Len(data)
  /\ \E saved \in {"whole", "header", "body", "threw"} :
       /\ MayFail("cut", saved \notin {"header", "body"})
       /\ MayFail("save", saved # "threw")
       /\ idx' = IF saved = "threw" THEN idx ELSE Index(saved, Len(data), FirstOf(data))
       /\ spoiled' = (spoiled /\ saved = "threw")
       /\ outcome' = IF saved = "threw" THEN "threw" ELSE "ok"
  /\ UNCHANGED <<data, sessionVars, acked, gone, shaky>>

\* Where it throws ios_base::failure, as the file ends too soon, nothing
\* catches it.
RecoveryFails ==
  /\ mode = "closed"
  /\ \/ idx.state = "header"
     \/ idx.state = "body" /\ idx.size = Len(data)
  /\ outcome' = "not recovered"
  /\ UNCHANGED <<data, idx, sessionVars, acked, gone, shaky, spoiled>>

\* Somebody removes an index file, and with it what was wrong with it.
RemoveIndex ==
  /\ mode = "closed"
  /\ idx' = Index("none", 0, NoEntries)
  /\ outcome' = "ok"
  /\ UNCHANGED <<data, sessionVars, acked, gone, shaky, spoiled>>

Next ==
  \/ Open \/ FlushPool \/ Close \/ Crash \/ Rebuild \/ RecoveryFails \/ RemoveIndex
  \/ \E c \in Chunks : Insert(c) \/ Find(c)

Spec == Init /\ [][Next]_vars
-----------------------------------------------------------------------------
(* Properties *)

TypeOK ==
  /\ data \in Seq(Chunks) /\ tail \in Seq(Chunks) /\ Len(tail) <= 1
  /\ idx \in [state : IndexStates, size : Nat, entries : Entries]
  /\ mode \in {"closed", "open"} /\ stream \in {"read", "write", "bad"}
  /\ dirty \in BOOLEAN /\ size \in Nat
  /\ ram \in Entries /\ fdata \in Entries
  /\ outcome \in {"ok", "threw", "terminated", "not recovered"}
  /\ acked \subseteq Chunks /\ gone \subseteq Chunks
  /\ shaky \in BOOLEAN /\ spoiled \in BOOLEAN

\* The records that an index leads to.
Leads(entries, d) ==
  \A c \in Chunks : IF c \in Range(d)
                    THEN entries[c] + 1 \in DOMAIN d /\ d[entries[c] + 1] = c
                    ELSE entries[c] = None

\* Whatever calls failed, and in whatever order the client went on, an index
\* that is accepted leads to all chunks of its file, unless a half read index
\* was saved again, or a record was written where `size` was not.
AcceptedIndexSurvives == Accepted /\ ~spoiled => Leads(idx.entries, data)

\* A chunk whose last insert returned is found in that session, whatever failed
\* before and after, unless close() dropped it or a load broke off.
AckedFound ==
  mode = "open" /\ ~shaky =>
    \A c \in acked \ gone :
      LET d == data \o tail IN Merge[c] + 1 \in DOMAIN d /\ d[Merge[c] + 1] = c

\* A pool that is not dirty has its index on disk as it has it in memory: a
\* flush that failed is not forgotten.
NotDirtyMeansSaved ==
  mode = "open" /\ ~dirty =>
    /\ idx = Index("whole", size, fdata)
    /\ ram = NoEntries /\ tail = <<>>

\* recover_index gets past every index file that a pool may have.
RecoveryWorks == outcome # "not recovered"
=============================================================================
