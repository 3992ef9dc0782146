-------------------------------- MODULE Pool --------------------------------
(***************************************************************************)
(* The chunk pool of src/src/pool.cc: a directory of append-only data      *)
(* files, each with an index file that says at which offset each chunk     *)
(* lies.  The model keeps what is on disk apart from what a process holds  *)
(* in memory, so that a process may die at any point and another one may   *)
(* open, refuse or recover what it left behind.                            *)
(*                                                                         *)
(* One process at a time has the pool open: that is what the lock file of  *)
(* lockfile.hh is for.  A chunk stands for its OID and its payload.        *)
(* Lengths are counted in units; a chunk's record is a header, a payload   *)
(* and padding, as chunk.cc writes them.                                   *)
(***************************************************************************)
EXTENDS Integers, FiniteSets

CONSTANTS
  Chunks,      \* the chunks a client may insert
  Payload,     \* Payload[c]: stored payload length of chunk c
  MagicSize,   \* length of the magic at the start of a header
  HeaderSize,  \* length of a whole header
  Align,       \* records are padded to a multiple of this
  Limit,       \* props.limit, the size a file may grow to
  Width,       \* number of values of `unsigned` (2^32 in the program)
  NameLimit,   \* number of positions a file name can hold (10000)
  MaxFiles,    \* bound: data files that may exist
  MaxLen       \* bound: length of a data file, and its recorded size

ASSUME LayoutAssumption ==
  /\ Payload \in [Chunks -> Nat]
  /\ MagicSize \in Nat \ {0}
  /\ HeaderSize \in Nat /\ MagicSize <= HeaderSize
  /\ Align \in Nat \ {0} /\ HeaderSize % Align = 0

ASSUME LimitAssumption ==
  /\ Limit \in Nat
  /\ Width \in Nat \ {0}
  /\ NameLimit \in Nat
  /\ MaxFiles \in Nat
  /\ MaxLen \in Nat

-----------------------------------------------------------------------------
(* Record layout *)

\* chunk.cc rounds a record up to the alignment in two ways: write_size by
\* rounding the sum, write by padding the payload.  insert compares them.
Padded(n)    == ((n + Align - 1) \div Align) * Align
PadLen(n)    == (Align - (n % Align)) % Align
\* Fault: the padding is left out of the size.
WriteSizeUnpadded(c) == HeaderSize + Payload[c]

WriteSize(c) == Padded(HeaderSize + Payload[c])
Written(c)   == HeaderSize + Payload[c] + PadLen(Payload[c])
Readable(c)  == HeaderSize + Payload[c]

\* Assignment of a file position to a variable of type `unsigned`.
Wrap(n) == n % Width

-----------------------------------------------------------------------------
(* Data types *)

Positions == 0 .. (MaxFiles - 1)
NoOffset  == -1
Entries   == [Chunks -> {NoOffset} \cup Nat]
NoEntries == [c \in Chunks |-> NoOffset]

\* The bytes one insert appended: they start at `at`, and `have` of them are
\* in the file (all of them, unless a crash cut the record short).
Record    == [at : Nat, chunk : Chunks, have : Nat]
DataFile  == [recs : SUBSET Record, len : Nat]
EmptyData == [recs |-> {}, len |-> 0]

IndexFile == [exists : BOOLEAN, size : Nat, entries : Entries]
NoIndex   == [exists |-> FALSE, size |-> 0, entries |-> NoEntries]

\* Pool::File: its `size`, the two halves of its FileIndex, and whether the
\* failbit of its stream is set.
OpenFile  == [size : Nat, ram : Entries, fdata : Entries, bad : BOOLEAN]
NoFile    == [size |-> 0, ram |-> NoEntries, fdata |-> NoEntries, bad |-> FALSE]

\* The loop of recover_files: the file it is at, whether its index is being
\* rebuilt, `pos`, the index so far, and whether a header it accepted had
\* not been read in full.
Scan      == [file : Nat, active : BOOLEAN, pos : Nat, index : Entries,
              garbled : BOOLEAN]
ScanOf(p) == [file |-> p, active |-> FALSE, pos |-> 0, index |-> NoEntries,
              garbled |-> FALSE]

Modes == {"closed", "ro", "rw", "recover"}

VARIABLES
  data, ndata, idx, newfile,                      \* the pool directory
  mode, files, nopen, dirty, firstNew, pending,   \* the Pool object
  scan,                                           \* a running recovery
  acked, durable, suspect, base                   \* history, for properties

\* `pending`: how many of the last units of the file being written are still
\* in its stream buffer, and are lost if the process dies.
\* `acked`: chunks whose insert returned, since the pool was opened.
\* `durable`: chunks whose insert returned before a flush that returned.
\* `suspect`: files of which an insert threw after writing, or which are too
\* long for `unsigned`, and whose index was not rebuilt since.
\* `base`: the number of data files when the pool was opened.

diskVars    == <<data, ndata, idx, newfile>>
sessionVars == <<mode, files, nopen, dirty, firstNew, pending>>
historyVars == <<acked, durable, suspect, base>>
vars == <<diskVars, sessionVars, scan, historyVars>>

-----------------------------------------------------------------------------
(* Index operations *)

\* unordered_map::insert keeps the entry that is there.
PutAbsent(entries, c, off) ==
  IF entries[c] = NoOffset THEN [entries EXCEPT ![c] = off] ELSE entries

\* FileIndex::find looks in `ram` first, then in `fdata`; what save writes is
\* that look-up for every key.
Merge(f) == [c \in Chunks |-> IF f.ram[c] # NoOffset THEN f.ram[c] ELSE f.fdata[c]]

\* Fault: any index file is accepted, whatever size it records.
AcceptsAnySize(p) == idx[p].exists

\* FileData::load does not throw.
Accepts(p) == idx[p].exists /\ idx[p].size = Wrap(data[p].len)

\* Fault: the last position a name can hold is left out.
VisibleLess == IF ndata < NameLimit THEN ndata ELSE NameLimit - 1

\* The data files whose name decode_name recognises.
Visible == IF ndata <= NameLimit THEN ndata ELSE NameLimit

Loaded(p) == [size |-> Wrap(data[p].len), ram |-> NoEntries,
              fdata |-> idx[p].entries, bad |-> FALSE]

Front == nopen - 1

\* `write_pos` is initialised in pool.hh and assigned nowhere.
WritePos == 0

-----------------------------------------------------------------------------
(* Opening, flushing and closing *)

OpenPool(writable) ==
  /\ mode = "closed"
  /\ \A p \in Positions : p < Visible => Accepts(p)
  /\ mode' = IF writable THEN "rw" ELSE "ro"
  /\ files' = [p \in Positions |-> IF p < Visible THEN Loaded(p) ELSE NoFile]
  /\ nopen' = Visible
  /\ firstNew' = newfile
  /\ base' = ndata
  /\ UNCHANGED <<diskVars, dirty, pending, scan, acked, durable, suspect>>

\* Fault: the index is written, but not loaded again.
FlushedFileStale(f) == [f EXCEPT !.ram = NoEntries, !.bad = FALSE]

\* Fault: the size saved is that of the file on disk, not the one kept.
FlushedIndexDisk(f) == [exists |-> TRUE, size |-> Wrap(data[Front].len), entries |-> Merge(f)]

\* Fault: save writes the entries of this session only.
FlushedIndexRam(f) == [exists |-> TRUE, size |-> f.size, entries |-> f.ram]

\* What flush makes of the front file and of its index file.  Closing the
\* stream empties its buffer and opening it again clears its failbit.
FlushedFile(f)  == [f EXCEPT !.ram = NoEntries, !.fdata = Merge(f), !.bad = FALSE]
FlushedIndex(f) == [exists |-> TRUE, size |-> f.size, entries |-> Merge(f)]

\* Fault: after a flush the session is taken for one that has not written.
FlushPoolForgets ==
  /\ mode = "rw" /\ dirty
  /\ files' = [files EXCEPT ![Front] = FlushedFile(files[Front])]
  /\ idx' = [idx EXCEPT ![Front] = FlushedIndex(files[Front])]
  /\ dirty' = FALSE
  /\ pending' = 0
  /\ firstNew' = newfile
  /\ durable' = durable \cup acked
  /\ UNCHANGED <<data, ndata, newfile, mode, nopen, scan, acked, suspect, base>>

\* Fault: the index is saved and the file left open, its buffer not emptied.
FlushPoolUnclosed ==
  /\ mode = "rw" /\ dirty
  /\ files' = [files EXCEPT ![Front] = FlushedFile(files[Front])]
  /\ idx' = [idx EXCEPT ![Front] = FlushedIndex(files[Front])]
  /\ dirty' = FALSE
  /\ durable' = durable \cup acked
  /\ UNCHANGED <<data, ndata, newfile, mode, nopen, firstNew, pending, scan,
                 acked, suspect, base>>

FlushPool ==
  /\ mode = "rw" /\ dirty
  /\ files' = [files EXCEPT ![Front] = FlushedFile(files[Front])]
  /\ idx' = [idx EXCEPT ![Front] = FlushedIndex(files[Front])]
  /\ dirty' = FALSE
  /\ pending' = 0
  /\ durable' = durable \cup acked
  /\ UNCHANGED <<data, ndata, newfile, mode, nopen, firstNew, scan, acked,
                 suspect, base>>

\* The Pool object is gone: its destructor returned, or the process died.
Gone ==
  /\ mode' = "closed"
  /\ files' = [p \in Positions |-> NoFile]
  /\ nopen' = 0
  /\ dirty' = FALSE
  /\ firstNew' = FALSE
  /\ pending' = 0
  /\ scan' = ScanOf(0)
  /\ acked' = {}
  /\ base' = 0

\* ~Pool flushes.
ClosePool ==
  /\ mode \in {"ro", "rw"}
  /\ Gone
  /\ idx' = IF dirty THEN [idx EXCEPT ![Front] = FlushedIndex(files[Front])]
                     ELSE idx
  /\ durable' = IF dirty THEN durable \cup acked ELSE durable
  /\ UNCHANGED <<data, ndata, newfile, suspect>>

-----------------------------------------------------------------------------
(* Inserting *)

\* The file with c's record at its end.
Appended(f, c) ==
  [recs |-> f.recs \cup {[at |-> f.len, chunk |-> c, have |-> Written(c)]},
   len |-> f.len + Written(c)]

\* Pool::insert after prepare_write has made `f` the front file, at position
\* p and open for writing; `pend` units of it are still buffered.  If the
\* stream has failed nothing is written, but the index entry and the size
\* are recorded all the same, and only then does the position check throw.
Put(c, p, f, pend, opened) ==
  LET new     == IF f.bad THEN data[p] ELSE Appended(data[p], c)
      size    == Wrap(f.size + WriteSize(c))
      returns == ~f.bad /\ size = new.len
  IN  /\ new.len <= MaxLen /\ f.size + WriteSize(c) <= MaxLen
      /\ data' = [data EXCEPT ![p] = new]
      /\ files' = [opened EXCEPT ![p] =
                     [f EXCEPT !.ram = PutAbsent(f.ram, c, f.size),
                               !.size = size]]
      /\ pending' = IF f.bad THEN pend ELSE Written(c)
      /\ acked' = IF returns THEN acked \cup {c} ELSE acked
      /\ suspect' = IF returns THEN suspect ELSE suspect \cup {p}
      /\ dirty' = TRUE
      /\ firstNew' = FALSE
      /\ UNCHANGED <<newfile, mode, scan, base>>

\* prepare_write finds the front file open for writing, with room.
InsertOpen(c) ==
  /\ mode = "rw" /\ dirty
  /\ WritePos + WriteSize(c) <= Limit
  /\ Put(c, Front, files[Front], pending, files)
  /\ UNCHANGED <<ndata, idx, nopen, durable>>

\* Fault: props.newfile is not looked at.
InsertReopenedAlways(c) ==
  /\ mode = "rw" /\ ~dirty
  /\ nopen > 0
  /\ Wrap(files[Front].size + WriteSize(c)) <= Limit
  /\ Put(c, Front, [files[Front] EXCEPT !.bad = FALSE], 0, files)
  /\ UNCHANGED <<ndata, idx, nopen, durable>>

\* prepare_write opens the front file for writing: make_writable.
InsertReopened(c) ==
  /\ mode = "rw" /\ ~dirty
  /\ ~firstNew /\ nopen > 0
  /\ Wrap(files[Front].size + WriteSize(c)) <= Limit
  /\ Put(c, Front, [files[Front] EXCEPT !.bad = FALSE], 0, files)
  /\ UNCHANGED <<ndata, idx, nopen, durable>>

\* prepare_write starts the next file, after a flush if one is being written.
\* A file of that name may be there, unseen by scan_files: it is extended.
InsertNew(c) ==
  /\ mode = "rw"
  /\ nopen < MaxFiles
  /\ IF dirty
     THEN /\ WritePos + WriteSize(c) > Limit
          /\ idx' = [idx EXCEPT ![Front] = FlushedIndex(files[Front])]
          /\ durable' = durable \cup acked
          /\ Put(c, nopen, [NoFile EXCEPT !.size = Wrap(data[nopen].len)], 0,
                 [files EXCEPT ![Front] = FlushedFile(files[Front])])
     ELSE /\ \/ firstNew
             \/ nopen = 0
             \/ nopen > 0 /\ Wrap(files[Front].size + WriteSize(c)) > Limit
          /\ UNCHANGED <<idx, durable>>
          /\ Put(c, nopen, [NoFile EXCEPT !.size = Wrap(data[nopen].len)], 0, files)
  /\ nopen' = nopen + 1
  /\ ndata' = IF ndata <= nopen THEN nopen + 1 ELSE ndata

Insert(c) == InsertOpen(c) \/ InsertReopened(c) \/ InsertNew(c)

-----------------------------------------------------------------------------
(* Finding *)

RecordsAt(f, off) == {r \in f.recs : r.at = off}

WholeHeader(r) == r.have >= HeaderSize
Whole(r)       == r.have >= Readable(r.chunk)

\* What Chunk::read returns at an offset of a file, on a stream that has not
\* failed.  Anything but the chunk whose record is there (an exception, or a
\* chunk made of other bytes) is "unreadable".
ReadAt(p, off) ==
  IF \E r \in RecordsAt(data[p], off) : Whole(r)
  THEN (CHOOSE r \in RecordsAt(data[p], off) : Whole(r)).chunk
  ELSE "unreadable"

\* Whether that read may run into the end of the file, and set the failbit.
\* The length in a header that is not whole is any number.
FailsAfter(p, off) ==
  LET known == {r \in RecordsAt(data[p], off) : WholeHeader(r)}
  IN  IF known # {}
      THEN {\E r \in known : off + Readable(r.chunk) > data[p].len}
      ELSE IF off + HeaderSize > data[p].len THEN {TRUE} ELSE BOOLEAN

\* Fault: the files are searched oldest first.
Oldest(S) == CHOOSE p \in S : \A q \in S : p <= q

\* Pool::find searches the newest file first.
Holders(c) == {p \in Positions : p < nopen /\ Merge(files[p])[c] # NoOffset}
Newest(S)  == CHOOSE p \in S : \A q \in S : q <= p

FindResult(c) ==
  IF Holders(c) = {} THEN "absent"
  ELSE LET p == Newest(Holders(c))
       IN  IF files[p].bad THEN "unreadable" ELSE ReadAt(p, Merge(files[p])[c])

\* find changes the state too: seeking empties the stream's buffer, and a
\* short read leaves the stream failed.
Find(c) ==
  /\ mode \in {"ro", "rw"}
  /\ Holders(c) # {}
  /\ LET p == Newest(Holders(c))
     IN  /\ ~files[p].bad
         /\ \E failed \in FailsAfter(p, Merge(files[p])[c]) :
              files' = [files EXCEPT ![p].bad = failed]
         /\ pending' = IF p = Front THEN 0 ELSE pending
  /\ UNCHANGED <<diskVars, mode, nopen, dirty, firstNew, scan, historyVars>>

-----------------------------------------------------------------------------
(* Crash *)

\* The first n units of a file.
Truncated(f, n) ==
  [recs |-> {[at |-> r.at, chunk |-> r.chunk,
              have |-> IF r.at + r.have <= n THEN r.have ELSE n - r.at] :
                r \in {x \in f.recs : x.at < n}},
   len |-> n]

\* The process dies.  Of the buffered units some prefix was written.
Crash ==
  /\ mode # "closed"
  /\ Gone
  /\ \E lost \in 0 .. pending :
       data' = IF lost = 0 THEN data
               ELSE [data EXCEPT ![Front] =
                       Truncated(data[Front], data[Front].len - lost)]
  /\ UNCHANGED <<ndata, idx, newfile, durable, suspect>>

-----------------------------------------------------------------------------
(* Recovery: recover_index, which does nothing but run recover_files *)

RecoverIndex ==
  /\ mode = "closed"
  /\ mode' = "recover"
  /\ scan' = ScanOf(0)
  /\ UNCHANGED <<diskVars, files, nopen, dirty, firstNew, pending, historyVars>>

\* The next file: its index is good, or has to be rebuilt.
LoadIndex ==
  /\ mode = "recover" /\ ~scan.active /\ scan.file < Visible
  /\ scan' = IF Accepts(scan.file) THEN ScanOf(scan.file + 1)
             ELSE [scan EXCEPT !.active = TRUE]
  /\ UNCHANGED <<diskVars, sessionVars, historyVars>>

ScanSize == Wrap(data[scan.file].len)
AtHeader == mode = "recover" /\ scan.active /\ scan.pos < ScanSize
Here     == RecordsAt(data[scan.file], scan.pos)

\* Fault: the loop does not step over the record.
ReadHeaderInPlace ==
  /\ AtHeader
  /\ \E r \in Here :
       /\ WholeHeader(r)
       /\ scan' = [scan EXCEPT !.index = PutAbsent(@, r.chunk, scan.pos)]
  /\ UNCHANGED <<diskVars, sessionVars, historyVars>>

\* read_header reads a whole header, and the loop steps over the record.
ReadHeader ==
  /\ AtHeader
  /\ \E r \in Here :
       /\ WholeHeader(r)
       /\ scan' = [scan EXCEPT !.index = PutAbsent(@, r.chunk, scan.pos),
                               !.pos = Wrap(scan.pos + WriteSize(r.chunk))]
  /\ UNCHANGED <<diskVars, sessionVars, historyVars>>

\* read_header does not see that its read was short: the numbers that were not
\* read hold what the stack held.  With the magic in place it returns true;
\* if the magic is cut too, that depends on the stack.
AtEnd(r) == r.at + r.have = data[scan.file].len

\* Fault: the OID that is not read is the one of an earlier header.
TornEntriesStale(r) == {PutAbsent(scan.index, c, scan.pos) : c \in Chunks}

\* The OID was zeros before the read, and is the last field: what of it is cut
\* stays zeros.  It is the chunk's own if those bytes are zeros there too, and
\* otherwise nobody's, as it is where later records overlay the header.
TornEntries(r) ==
  {scan.index} \cup
  (IF AtEnd(r) THEN {PutAbsent(scan.index, r.chunk, scan.pos)} ELSE {})

\* Where the length takes the loop: it may be the record's own; one that leads
\* past the end, if need be in several steps, as the stream has failed and the
\* same fields are met again; or one that, with the header, is 0 as an unsigned.
StalePositions(r) ==
  {ScanSize, Wrap(scan.pos + WriteSize(r.chunk))} \cup
  (IF AtEnd(r) THEN {scan.pos} ELSE {})

ReadTornHeader ==
  /\ AtHeader
  /\ \E r \in Here :
       /\ ~WholeHeader(r)
       /\ r.have >= MagicSize \/ AtEnd(r)
       /\ \E index \in TornEntries(r), next \in StalePositions(r) :
            scan' = [scan EXCEPT !.index = index, !.pos = next, !.garbled = TRUE]
  /\ UNCHANGED <<diskVars, sessionVars, historyVars>>

\* "Unable to read from pool file": there is no magic here.
RecoveryThrows ==
  /\ AtHeader
  /\ \A r \in Here : r.have < MagicSize
  /\ Gone
  /\ UNCHANGED <<diskVars, durable, suspect>>

\* Fault: the size saved is that of the last position, not of the file.
SaveIndexShort ==
  /\ mode = "recover" /\ scan.active /\ scan.pos >= ScanSize
  /\ idx' = [idx EXCEPT ![scan.file] =
               [exists |-> TRUE, size |-> scan.pos - 1, entries |-> scan.index]]
  /\ suspect' = IF data[scan.file].len >= Width
                THEN suspect \cup {scan.file} ELSE suspect \ {scan.file}
  /\ scan' = ScanOf(scan.file + 1)
  /\ UNCHANGED <<data, ndata, newfile, sessionVars, acked, durable, base>>

SaveIndex ==
  /\ mode = "recover" /\ scan.active /\ scan.pos >= ScanSize
  /\ idx' = [idx EXCEPT ![scan.file] =
               [exists |-> TRUE, size |-> ScanSize, entries |-> scan.index]]
  /\ suspect' = IF data[scan.file].len >= Width
                THEN suspect \cup {scan.file} ELSE suspect \ {scan.file}
  /\ scan' = ScanOf(scan.file + 1)
  /\ UNCHANGED <<data, ndata, newfile, sessionVars, acked, durable, base>>

RecoveryEnds ==
  /\ mode = "recover" /\ ~scan.active /\ scan.file >= Visible
  /\ Gone
  /\ UNCHANGED <<diskVars, durable, suspect>>

RecoveryStep ==
  LoadIndex \/ ReadHeader \/ ReadTornHeader \/ RecoveryThrows \/ SaveIndex
    \/ RecoveryEnds

-----------------------------------------------------------------------------
(* Specification *)

\* A pool that create_pool has just made.
Init ==
  /\ data = [p \in Positions |-> EmptyData]
  /\ ndata = 0
  /\ idx = [p \in Positions |-> NoIndex]
  /\ newfile \in BOOLEAN
  /\ mode = "closed"
  /\ files = [p \in Positions |-> NoFile]
  /\ nopen = 0
  /\ dirty = FALSE
  /\ firstNew = FALSE
  /\ pending = 0
  /\ scan = ScanOf(0)
  /\ acked = {}
  /\ durable = {}
  /\ suspect = {}
  /\ base = 0

Next ==
  \/ \E w \in BOOLEAN : OpenPool(w)
  \/ \E c \in Chunks : Insert(c) \/ Find(c)
  \/ FlushPool
  \/ ClosePool
  \/ Crash
  \/ RecoverIndex
  \/ RecoveryStep

Spec == Init /\ [][Next]_vars

\* recover_files is a loop in one thread: it goes on until it ends, unless
\* the process dies.
FairSpec == Spec /\ WF_vars(RecoveryStep)
-----------------------------------------------------------------------------
(* Properties *)

TypeOK ==
  /\ data \in [Positions -> DataFile]
  /\ ndata \in Nat
  /\ idx \in [Positions -> IndexFile]
  /\ newfile \in BOOLEAN
  /\ mode \in Modes
  /\ files \in [Positions -> OpenFile]
  /\ nopen \in Nat
  /\ dirty \in BOOLEAN
  /\ firstNew \in BOOLEAN
  /\ pending \in Nat
  /\ scan \in Scan
  /\ acked \in SUBSET Chunks
  /\ durable \in SUBSET Chunks
  /\ suspect \in SUBSET Positions
  /\ base \in Nat

\* Every entry leads to the start of a record of its chunk.
Locates(f, entries) ==
  \A c \in Chunks : entries[c] # NoOffset =>
    \E r \in RecordsAt(f, entries[c]) : r.chunk = c

\* A record that a crash cut short hides what was appended after it.
Intact(r)     == r.have = Written(r.chunk)
Exposed(f, r) == \A q \in f.recs : q.at < r.at => Intact(q)

\* Every chunk with an exposed record below the given position, of which the
\* header is whole, has an entry.
Covers(f, entries, upto) ==
  \A r \in f.recs :
    r.at < upto /\ WholeHeader(r) /\ Exposed(f, r) => entries[r.chunk] # NoOffset

WholeFile(f) == \A r \in f.recs : Intact(r)
AllWhole     == \A p \in Positions : WholeFile(data[p])

\* The size check of FileData::load is all that keeps a stale index from
\* being used.  An index it lets through, after any sequence of writes,
\* crashes and recoveries, leads each of its chunks to a record of that
\* chunk, and misses no chunk of the file; also if recover_files took a header
\* that a crash had cut for a whole one.
AcceptedIndexExact ==
  \A p \in Positions :
    p < NameLimit /\ p \notin suspect /\ Accepts(p) =>
      /\ Locates(data[p], idx[p].entries)
      /\ Covers(data[p], idx[p].entries, data[p].len)

\* While a pool is open, each file's size is the length of the file, and its
\* two-part index leads each of its chunks to a record of that chunk and
\* misses no chunk of the file.
SessionIndexExact ==
  \A p \in Positions :
    p < NameLimit /\ p \notin suspect /\ p < nopen =>
      /\ files[p].size = data[p].len
      /\ Locates(data[p], Merge(files[p]))
      /\ Covers(data[p], Merge(files[p]), data[p].len)

\* An open pool that is not dirty can be dropped at any time: every index on
\* disk would be accepted, and says what the index in memory says.
CleanMatchesDisk ==
  mode \in {"ro", "rw"} /\ ~dirty =>
    \A p \in Positions :
      p < nopen /\ p \notin suspect =>
        Accepts(p) /\ idx[p].entries = Merge(files[p])

\* No insert into an open file threw after writing, and no read of it was short.
Healthy == \A p \in Positions : p < nopen => p \notin suspect /\ ~files[p].bad

\* A chunk whose insert returned is found again by the same Pool object,
\* whatever flushes, file changes and older torn copies there are.
ReadYourWrites ==
  mode = "rw" /\ Healthy => \A c \in acked : FindResult(c) = c

\* While a session lasts and no stream of it fails, what find answers for a
\* chunk changes only when that chunk is inserted, and it is then the chunk:
\* neither a flush, nor another file, nor what crashes left of other records,
\* changes an answer.
AnswersStay ==
  [][/\ mode \in {"ro", "rw"} /\ mode' = mode
     /\ Healthy /\ Healthy'
     => \A c \in Chunks :
          \/ FindResult(c)' = FindResult(c)
          \/ c \in acked' /\ FindResult(c)' = c]_vars

\* A chunk that a flush has covered is found by every later Pool object, over
\* any number of crashes and recoveries, as long as no crash left part of a
\* record behind.
NoChunkLost ==
  /\ mode \in {"ro", "rw"}
  /\ AllWhole
  /\ \A p \in Positions : p \notin suspect /\ ~files[p].bad
  => \A c \in durable : FindResult(c) = c

\* Where all records are whole, the walk of recover_files goes from header to
\* header, and never throws.
ScanAligned ==
  AtHeader /\ WholeFile(data[scan.file]) /\ data[scan.file].len < Width => Here # {}

\* recover_files leaves no file behind it that open would refuse.
RecoveredFilesOpen ==
  mode = "recover" => \A p \in Positions : p < scan.file => Accepts(p)

\* With props.newfile set, a session writes no file that was there when the
\* pool was opened.
NewFileSession ==
  [][newfile /\ mode = "rw" =>
       \A p \in Positions : p < base => data'[p] = data[p] /\ idx'[p] = idx[p]]_vars

\* An insert that throws has recorded an entry and a size for a chunk that is
\* not in the file.  From then on the session keeps that file's size out of step
\* with it, over any further inserts, flushes and file changes, so that no index
\* it saves for the file is accepted as long as the file is as it is then.
ThrownIsRefused ==
  [][\A p \in Positions :
       mode = "rw" /\ p < nopen /\ files[p].size # data[p].len =>
         /\ mode' = "rw" => files'[p].size # data'[p].len
         /\ idx'[p] # idx[p] => ~Accepts(p)']_vars

\* A session starts another file for the first write of a session with
\* props.newfile, and after that only when the record it writes would take the
\* front file past the limit, however often it was flushed.
AnotherFileWhenFull ==
  [][/\ mode = "rw" /\ nopen' > nopen
     /\ nopen > (IF newfile THEN base ELSE 0)
     => files[Front].size + (data'[nopen].len - data[nopen].len) > Limit]_vars

\* An index that matches its file stops matching only when a session writes
\* that file, and then the file is the front one and the pool is dirty.
OnlyFrontGoesStale ==
  [][\A p \in Positions :
       /\ p < ndata /\ Accepts(p) /\ ~Accepts(p)'
       /\ p \notin suspect'
       => mode = "rw" /\ dirty' /\ nopen' = p + 1]_vars

\* Each step of recover_index brings it nearer to its end, by a file, from
\* looking at a file to rebuilding its index, or by a header; unless it accepts
\* a header that it had not read in full, or a length that, with the position,
\* is too great for `unsigned` and takes it back.
RecoveryAdvances ==
  [][/\ mode = "recover" /\ mode' = "recover" /\ ~scan'.garbled
     /\ \A c \in Chunks : data[scan.file].len + WriteSize(c) < Width
     => \/ scan'.file = scan.file + 1 /\ scan'.file <= Visible'
        \/ scan'.file = scan.file /\ ~scan.active /\ scan'.active
        \/ scan'.file = scan.file /\ scan'.active /\ scan.pos < ScanSize /\ scan.pos < scan'.pos]_vars

\* recover_index ends, or it has accepted a header that it had not read in
\* full, which may give it any length, 0 too.
RecoveryTerminates == mode = "recover" ~> mode # "recover" \/ scan.garbled
=============================================================================
