------------------------------ MODULE PoolInv -------------------------------
(* The inductive invariant behind the index properties of Pool.  TLC checks *)
(* it on small instances; PoolProofs proves it.                             *)
EXTENDS Pool

\* The part of a file that has left the stream buffer, and which no crash
\* can take away.
Pend(p)    == IF p = Front THEN pending ELSE 0
Settled(p) == data[p].len - Pend(p)

\* The Pool object's counters agree with its mode, and with the directory.
SessionInv ==
  /\ ndata <= MaxFiles
  /\ nopen <= ndata
  /\ mode \in {"closed", "recover"} => nopen = 0
  /\ mode \in {"ro", "rw"} /\ nopen < NameLimit => nopen = ndata
  /\ dirty => nopen > 0
  /\ pending > 0 => dirty

\* Records lie one after the other, within the file; what is still buffered,
\* from `settled` on, is whole records at its end.
Ordered(f, settled) ==
  /\ \A r \in f.recs :
       /\ r.have > 0
       /\ r.at + r.have <= f.len
       /\ r.at < settled => r.at + r.have <= settled
  /\ \A q, r \in f.recs :
       /\ q.at = r.at => q = r
       /\ q.at < r.at => q.at + q.have <= r.at

LayoutInv ==
  \A p \in Positions :
    /\ p >= ndata => data[p] = EmptyData
    /\ 0 <= Settled(p)
    /\ Ordered(data[p], Settled(p))

\* Entries that are exact for the first `upto` units of a file.
Exact(f, entries, upto) ==
  /\ Locates(f, entries)
  /\ \A c \in Chunks : entries[c] < upto
  /\ Covers(f, entries, upto)

Trusted(p) == p < NameLimit /\ p \notin suspect

WidthInv == \A p \in Positions : Trusted(p) => data[p].len < Width

\* An index file on disk, accepted or stale, is exact for some settled part
\* of its data file.
IndexInv ==
  \A p \in Positions :
    Trusted(p) /\ idx[p].exists =>
      idx[p].size <= Settled(p) /\ Exact(data[p], idx[p].entries, idx[p].size)

\* The index in memory is exact for the whole file.
MemoryInv ==
  \A p \in Positions :
    Trusted(p) /\ p < nopen =>
      files[p].size = data[p].len /\ Exact(data[p], Merge(files[p]), data[p].len)

\* The index that recovery rebuilds starts empty, and is exact up to where
\* the walk is; once the walk has taken a cut header for a whole one, nothing
\* after it is exposed, and the index is exact for the file.
ScanInv ==
  mode = "recover" =>
    /\ ~scan.active => scan = ScanOf(scan.file)
    /\ scan.active =>
         LET f == data[scan.file]
         IN  /\ scan.file < Visible
             /\ f.len < Width =>
                  /\ Locates(f, scan.index)
                  /\ \A c \in Chunks : scan.index[c] < f.len
                  /\ Covers(f, scan.index, IF scan.garbled THEN f.len ELSE scan.pos)

IInv ==
  /\ SessionInv
  /\ LayoutInv
  /\ WidthInv
  /\ IndexInv
  /\ MemoryInv
  /\ ScanInv
-----------------------------------------------------------------------------
(* What is added to it for the properties about chunks, directories and the  *)
(* walk of recovery.                                                         *)

\* A file that is not being written says on disk what it says in memory.
CleanInv ==
  \A p \in Positions :
    p < nopen /\ p \notin suspect =>
      /\ files[p].size = Wrap(data[p].len)
      /\ p # Front \/ ~dirty => Accepts(p) /\ idx[p].entries = Merge(files[p])

\* Recovery goes on from a file only when open would accept its index.
RecoveredInv ==
  mode = "recover" => scan.file <= Visible /\ RecoveredFilesOpen

\* Every file was there when the pool was opened, or is above those, and with
\* props.newfile set the one that is written is above them; a session that has
\* still to start its own file has no other than those.
NewInv ==
  mode \in {"ro", "rw"} =>
    /\ base <= nopen
    /\ firstNew => newfile /\ nopen <= base
    /\ newfile => (firstNew \/ base < nopen) /\ (dirty => base < nopen)

\* The size that is kept of an open file is never below its length: an insert
\* that throws adds to the size alone.
SizeInv ==
  \A p \in Positions :
    /\ data[p].len <= MaxLen
    /\ p < nopen => data[p].len <= files[p].size

\* No entry of an open file leads past its end, so none leads to what is
\* appended next; also where its index was not rebuilt from the file.
BelowInv ==
  \A p \in Positions : p < nopen /\ p \notin suspect =>
    \A c \in Chunks : Merge(files[p])[c] < data[p].len

\* Records leave no gap.
Contiguous(f) ==
  /\ f.len = 0 \/ RecordsAt(f, 0) # {}
  /\ \A r \in f.recs : r.at + r.have = f.len \/ RecordsAt(f, r.at + r.have) # {}

\* The walk is at a record or at the end.
WalkInv ==
  /\ \A p \in Positions : Contiguous(data[p])
  /\ mode = "recover" /\ scan.active =>
       LET f == data[scan.file]
       IN  WholeFile(f) /\ f.len < Width => scan.pos = f.len \/ Here # {}

\* A whole record of chunk c is at an offset of a file.
GoodAt(f, off, c) == \E r \in RecordsAt(f, off) : r.chunk = c /\ Intact(r)

\* A chunk whose insert returned has a whole record, and one that a flush has
\* covered has one that no crash can take away.
StoredInv ==
  /\ \A c \in acked : \E p \in Positions :
       p < ndata /\ \E r \in data[p].recs : r.chunk = c /\ Intact(r)
  /\ \A c \in durable : \E p \in Positions :
       /\ p < ndata
       /\ \E r \in data[p].recs :
            r.chunk = c /\ Intact(r) /\ r.at + r.have <= Settled(p)

\* The entries of this session lead to whole records; and from some file on, so
\* do all entries of a chunk whose insert returned.
AckedInv ==
  /\ \A p \in Positions : p < nopen /\ p \notin suspect =>
       \A c \in Chunks :
         files[p].ram[c] # NoOffset => GoodAt(data[p], files[p].ram[c], c)
  /\ \A c \in acked : \E p \in Positions :
       /\ p < nopen /\ Merge(files[p])[c] # NoOffset
       /\ \A q \in Positions :
            /\ p <= q /\ q < nopen /\ q \notin suspect
            /\ Merge(files[q])[c] # NoOffset
            => GoodAt(data[q], Merge(files[q])[c], c)

StoreInv ==
  /\ CleanInv
  /\ RecoveredInv
  /\ WalkInv
  /\ StoredInv
  /\ AckedInv
=============================================================================
