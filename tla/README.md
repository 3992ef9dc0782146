# A verification project for cdump

cdump (`src/`) keeps backup data in a *pool*: a directory of append-only data
files of chunks, each with an index file.  These modules specify its core in
TLA+.  TLC checks them on small instances, and TLAPS proves the results that
matter most for every value of the constants.

## 1. Inventory

| component | code | state | operations | modules |
|---|---|---|---|---|
| Pool | `src/pool.cc`, `src/pool.hh` | data files, index files; in memory the list of files, `dirty`, `first_newfile`, each file's size and stream | open, insert, find, flush, destroy, recover_index | `Pool`, `PoolInv`, `PoolClaims`, `PoolFaults`; `PoolProofs`, `PoolFaultsProofs` |
| FileIndex | `src/index.cc`, `src/index.hh` | `ram` table, `fdata` vectors, the index file | insert, find, save, load, iterate | `FileIndex`, `IndexMap`, `IndexSearch`; `FileIndexProofs`, `IndexSearchProofs` |
| LockFile | `src/lockfile.hh` | a descriptor, `locked`; the kernel's lock | constructor, unlock, destructor | `LockFile`; `PoolLifeProofs` |
| Pool creation, properties | `src/pool.cc:39-99` | `metadata/props.txt`, the file `lock` | create_pool, read_props, the constructor's order | `PoolLife`; `PoolLifeProofs` |
| Chunk | `src/chunk.cc`, `src/chunk.hh` | plain and compressed buffers, `zdata_info`, `is_decompressed` | has_zdata, zdata, data, write_size, write, read, read_header | `Chunk`, and the layout of records in `Pool`; `ChunkProofs` |
| BackupWalk | `src/decoder.cc`, `src/decoder.hh` | the call stack, the visitor's stack of OIDs, a block of bytes | walk, visit, prune, decode_property | `BackupWalk`, `PropertyBlock`; `BackupWalkProofs` |
| OID, Kind | `src/oid.cc`, `src/kind.cc` | twenty bytes; four | parse, to_hex, compare, tweak | `Oid`; `OidProofs` |
| Lister, hex dump | `main/cdump.cc`, `src/pdump.cc` | output | | the Lister is one visitor of `BackupWalk` |
| utilities, tests, gtest | `src/utility.hh`, `src/except.hh`, `test/`, `gtest-1.7.0/` | | | read; not modelled |

How they interact.  A `Pool` object takes the `LockFile` before it looks at the
directory and holds it until it is destroyed.  It owns a list of files, newest
first; each has a `FileIndex` and a stream.  `insert` writes a `Chunk` at the
end of the front file and notes its offset in the index in memory; `flush`
closes the stream and saves and reloads the index.  `find` asks the indexes,
newest file first, and reads a `Chunk` at the offset.  A walk over a backup asks
`find` for one chunk after the other, and decodes them.  Everything runs in one
thread: what is hard is not interleaving inside a process but processes that
die half way and the next one that opens what is left, streams that remember a
failure, calls of which nobody looks at the result, two copies of one truth (the
length of a file, its `size`, the size in its index; the padding computed
twice), and the order of flush, save and reopen.  `PROJECT.json` lists these
hazards at their lines.

What makes each part correct:

* Pool: an index that is accepted is right about its file; a chunk whose insert
  returned is found, now and, after a flush, later; recovery rebuilds an index
  that misses nothing, and ends; a file grows to the limit only; a failed call is
  not forgotten.
* FileIndex: it is a map in two halves, and saving and loading keep it.
* LockFile: nobody else writes to a pool while an object knows its files.
* Creation: one creator wins, and nobody opens what it has not finished.
* Chunk: what is written is what was stored, of the size that was announced.
* BackupWalk: the visitor is told what the blocks say, knows where it is, and its
  stack is the path there.
* OID: ++ and -- follow the order of memcmp, and text is read as it was written.

## 2. The modules

**`Pool`** is the core.  The state of the disk (`data`, `ndata`, `idx`,
`newfile`) survives a crash; that of the process (`mode`, `files`, `nopen`,
`dirty`, `firstNew`, `pending`, and `scan` for a running recovery) does not.
A data file is a set of records, each with its position, its chunk, and how
much of it is in the file.  A chunk stands for its OID and its payload.
Lengths are in units: a record is `HeaderSize` (of which `MagicSize` first)
plus payload plus padding, computed in the two ways of `chunk.cc`, and `Wrap`
is the conversion to `unsigned`.

| action | code |
|---|---|
| `OpenPool` | `Pool::Pool`, `scan_files`, `File::File` |
| `InsertOpen`, `InsertReopened`, `InsertNew` | `insert`, by the three ways through `prepare_write`; the last flushes first if a file is being written |
| `Find` | `find` with what it does to the stream; its answer is `FindResult` |
| `FlushPool`, `ClosePool` | `flush`, `~Pool` |
| `Crash` | the process dies, and some suffix of the buffered record is lost |
| `RecoverIndex`, `LoadIndex`, `ReadHeader`, `ReadTornHeader`, `RecoveryThrows`, `SaveIndex`, `RecoveryEnds` | `recover_index`: one step for each index loaded, each header read and each index saved |

`acked`, `durable`, `suspect` and `base` are history: chunks whose insert
returned; chunks that a flush has covered; files of which an insert threw after
it had written, or which are too long for `unsigned`; the number of files when the
pool was opened.  A recovery that rebuilds the index of a file takes it out of
`suspect`, also if it accepted a header that a crash had cut: the OID in
`HeaderInfo` is zeros before the read, so the entry is the chunk's own
(`TornEntries`) or one of an OID that nobody asks for.

**`PoolInv`** has the inductive invariants, **`PoolClaims`** what the
repository's comments and tests say and the code does not do.

**`PoolFaults`** is the front file again, with system calls that fail: opening
the data file, writing its buffer, saving the index with an exception or, in the
destructor of its stream, without one, and loading it afterwards.  Records are
one unit there and are not cut, so that the state has room for what `Pool` does
not have: a stream that is bad or open for the wrong thing, an index file that is
too short, an index in memory that is half read.  `Insert`, `Find`, `FlushPool`,
`Close`, `Crash`, `Open`, `Rebuild` and `RecoveryFails` are the operations;
`RemoveIndex` is what a user may do.  `shaky` and `spoiled` say in which states
the code itself cannot tell a good index from a bad one.

**`LockFile`** justifies that `Pool` has one session at a time.  The kernel's
lock belongs to a process, as POSIX says of `lockf`.  `view` is how many of the
writes to the directory a Pool object knows.

**`PoolLife`** extends `LockFile` with the directory: `create_pool` as the look
into it, the `mkdir`, the open of `props.txt` and the write (`CheckEmpty`,
`MakeMetadata`, `OpenProps`, `WriteProps`), any number of which run at once and
die anywhere, and the constructor of `Pool`, which makes the lock file
(`LockPool`) and reads the properties (`OpenPool`).  It implements `LockFile`.

**`FileIndex`** has the index with its sorted vectors: `Keys` (the sorted
iterator), `ComputeTops`, `Offsets`, `KindMap`, `KindBytesOf` are what `Saver`
writes, `Search` is the bisection.  A saved file may be cut short, as the last
of it is written by a destructor that reports no error.  `LoadFails` is where this
module stops with such an object; that the pool stays dirty and its destructor
saves the half-read index again is in `PoolFaults` (`Garbled`, `shaky`,
`spoiled`).  It refines
**`IndexMap`**, a map in two parts: what was loaded, and what was inserted
since.  `Pool` uses that abstract view (`PutAbsent`, `Merge`).
**`IndexSearch`** has the loop of `FileData::find` one iteration at a time, for
the proof that it is right for any length.

**`Chunk`** has a chunk that a client holds and the records it wrote.
`zdata_info`, which one constructor does not set, is then any value.  `told` is what
`write_size` last answered for the chunk (`AskWriteSize`): other calls may come
between it and the write.

**`BackupWalk`** has the calls of `operator()` as a stack of frames beside the
visitor's stack of OIDs, and an exception as a state in which frames are left.
What the visitor is told comes from **`PropertyBlock`**, which decodes blocks
byte by byte as `Decoder` does, with `GetString`, `Get8`, `Get16`, `Items` and
`AddProperty`; `Encode` is the format, for the property.

**`Oid`** has the loop of `tweak` one byte at a time, and the parser of texts
with what extracting a hexadecimal number makes of two characters.

Definitions whose comment begins with "Fault:" are not part of a model.  Each is
what another definition would be with a plausible mistake in the code, and stands
before it; `PROJECT.json` says which property notices it.

The models have no recursive operator, only recursive functions (the bisection in
`Search`, the loops of the decoder in `Items` and `BackNode`), so that they can be
reasoned about; and what `std::map` or a sort would order is defined by what it is
(`Ascending`: the one vector that has the keys in their order), not by how it is
computed.

## 3. The runs

| run | question | result |
|---|---|---|
| `pool_index` | Is every index that is accepted or in memory exact, whatever crashes and recoveries there were?  Does a clean pool say what the disk says?  Is no index accepted that a session saves for a file after an insert into it has thrown?  Is another file started only when one is full?  Does the walk of a recovery keep in step, leave good files behind, move forward with every step, and end? | holds |
| `pool_files` | Are chunks found across files, flushes and sessions?  Does an answer change only by an insert of its chunk?  Does `newfile` protect the old files?  Does only the front file's index go stale? | holds |
| `faults` | When any call may fail, what does an accepted index lead to, what does a session still find, and is a failed flush remembered? | holds |
| `life` | Creators and openers race, die, and meet a full disk: is one creator alone, and each opener, and is what they open whole? | holds |
| `index` | Is FileIndex the map in two parts?  Are saved vectors consistent, and does the bisection find exactly what is there? | holds |
| `bisection` | Is the loop of the bisection right, inside its vector, and finite? | holds |
| `chunk` | Do records read back as what they stand for, and have the size announced, whatever is called in between? | holds |
| `walk` | Is the visitor told what the blocks say, is its location right, and the stack the path? | holds |
| `oid` | Do ++ and -- go to the neighbours in the order of memcmp?  Are digits read as what they say? | holds |
| `pool_limit` | `pool.hh:112`: does a file stay within the limit? | no: `write_pos` is never assigned |
| `pool_torn` | `test_pool.cc:160`: are all chunks found after recovery? | not after a crash that left part of a record |
| `fault_recovery` | `pool.hh:122`: does recover_index recover the index files? | not one whose last write failed: it throws, each time |

The last three are expected to be violated.  Their counterexamples are behaviours
of the code, and the findings in `PROJECT.json` quote the lines on either side.

Smaller disagreements, seen while modelling, that no run of their own shows:

* `read_header` returns true for a header that it could read only in part
  (`chunk.hh:124`; `ReadTornHeader` is that case).
* An index of another size is used if the sizes are equal modulo 2^32
  (`index.hh:98`; `Wrap`).
* A file with a five-digit number is written and never seen again (`pool.cc:254`;
  `Visible`).
* The lock is lost if a second Pool object of the same process is destroyed
  (`pool.hh:123`; the condition `OneEach`).
* `zdata` throws where `chunk.hh:95` says null (`AskZdata`), and a plain chunk
  that was read from a pool answers `has_zdata` from a field that nothing has set
  (`chunk.hh:87`; `Infos`).
* An index iterates twice over a key that is in both of its halves, although
  `test_index.cc:100` has the keys strictly ascending (`Keys`).
* OIDs stay on the visitor's stack if an exception other than Prune ends the walk
  (`decoder.hh:35`; `Finish`).
* `pool.hh:136` says that `find` throws for a chunk that is not there; it returns
  null (`FindResult`).
* `pool.hh:115` says that `create_pool` throws `runtime_error` if the pool cannot
  be created: a directory that is not empty is an `invalid_argument`, and on a
  full disk it returns (`WriteProps`).  A directory in which somebody tried to
  open a pool before there was one is not empty either: it has the file `lock`
  (`CheckEmpty`).
* `chunk.cc:144` and `pool.cc:94` throw a pointer, which no handler for the
  exception's type catches.
* `OID(std::string)` throws for "Invalid hex character" (`oid.cc:43`), and takes
  blanks, signs and `0x`, some of them as bytes that nothing has set (`Pair`).
* `Kind()` builds a `Kind("blob")` that it drops, and leaves its own bytes unset
  (`kind.hh:44`).
* The hex dump rounds its size with `& -15` (`pdump.cc:41`), which is no mask.

### Bounds

* `pool_index`: a header of 4 units with a magic of 2, so that a crash can cut
  before the magic ends, after it, and in the payload; payloads of 0 and 5, with
  a limit of 8.  So a file with the small chunk is extended by the next session, and
  the other chunk is too large for any file and makes a session change files.  Two
  files of up to 12 units (`MaxLen`): two records beyond a torn one, which is all
  that the case analysis of the invariant tells apart.
* `pool_files`: payloads of 1 and 3, a header of 2, a limit of 5, and three files,
  so that a file is neither the first nor the last.
* `pool_limit`, `pool_torn`: two files, long enough for the counterexample.
* `Width` (2^32) is 64, above every length, and `NameLimit` (10000) is the number
  of files: the runs ask about pools below both limits.  In the proofs the width
  is any number, and so is `NameLimit` where a theorem does not assume that it is
  not reached.
* `faults`: two chunks and three records (`MaxLen`), enough to fail, go on, flush,
  fail again and be opened again; `fault_recovery` has four.  Chunks are symmetric.
* `life`: three processes with an object each, two creators, two writes
  (`MaxWrites`), a disk that may be full.
* `FileIndex`: three OIDs, two of which share a first byte, between first bytes
  that no key has; up to three keys in a file, so that a key occurs twice.
  `MaxKeys` bounds what a save writes.
* `IndexSearch`: every sorted vector of up to five of five OIDs.
* `Chunk`: data that cannot be compressed, that compresses to its own length, and
  that shrinks; three records (`MaxRecords`).
* `BackupWalk`: three chunks, each of fifteen contents, in every order that is
  not a circle: missing, of another kind, well-formed with and without child, date
  and repeated keys, with a value whose length needs both bytes (a byte has four
  values), with texts that are no OID or no date, and cut in every kind of place;
  leftovers of up to `MaxStack` OIDs when a walk begins.
* `Oid`: three bytes of two binary digits, so that the loop carries through a byte
  that is neither the first nor the last; every text of six characters, and one
  that is shorter and one that is longer.

`bisection` and `oid` do not check deadlock: the search ends, and a text that is
refused makes no OID.

### Fairness

`RecoveryTerminates` assumes weak fairness of the steps of a recovery, and
`Terminates` that of an iteration of the bisection: both are loops of one
thread that wait for nobody.  `RecoveryTerminates` makes one exception: a torn
header that was accepted may have any length, also one that keeps the walk in
place (`StalePositions`).  No other property needs fairness.

## 4. The proofs

Every theorem holds for any values of the constants that satisfy the ASSUMEs of
the module, and where a theorem has a condition of its own it is named below.

**`PoolProofs`**: types (`TypeCorrect`), and that accepted indexes and those in
memory are exact (`AcceptedIndexIsExact`, `SessionIndexIsExact`).
`LayoutAssumption` says what `chunk.cc` needs and has: a header that is a
multiple of the alignment (48 and 16), which is why the two ways of padding
agree (`PaddingAgrees`).

None of the three is inductive.  That an accepted index is exact depends on the
records being in order and not overlapping (`LayoutInv`), on an index that
records a smaller size being exact up to that size (`IndexInv`: a file only grows
behind it, or shrinks in the buffered tail, which no saved index covers), on the
index in memory being exact up to the file's size (`MemoryInv`), on the walk of a
recovery having covered everything below `pos` (`ScanInv`; once it has accepted a cut
header, everything in the file: what lies behind one is not exposed), and on what the
modes exclude (`SessionInv`, `WidthInv`).  `IInv` is their conjunction;
TLC checked it on the instances above before it was proved.  There is one lemma
for each action, and the lemmas on records (appending, truncating, walking) that
they share.  Type correctness itself needs the invariant: only the order of the
records shows that a crash leaves a record a natural length.

Its second half proves the rest of the pool's safety properties:
`CleanIsOnDisk`, `RecoveredIsOpenable`, `WalkIsAligned`, `WritesAreRead`,
`AnswersAreKept`, `NothingIsLost`, `SessionsAreNew` and `OnlyFrontIsStale`.  The
last three assume `MaxFiles <= NameLimit`: a pool with more files than four digits
can name is not seen as a whole, and they do not hold of it.  `StoreInv` is added to `IInv`:

* `CleanInv`: a file that is not being written, or whose session is clean, has on
  disk the index that is in memory, and that index would be accepted;
* `RecoveredInv`: recovery goes on only from a file whose index is accepted;
* `WalkInv`: records leave no gap, so the end of one is the next one or the end of
  the file; a walk that began at 0 and goes from whole record to whole record is at
  one of them;
* `StoredInv`: an acknowledged chunk has a whole record, and a durable one has a
  whole record outside the buffer, where no crash reaches;
* `AckedInv`: what this session noted in memory leads to whole records, and for
  an acknowledged chunk there is a file from which on every index that has the
  chunk at all leads to a whole record: this is what `find` needs, which asks the
  newest file first and believes the first answer, and it survives a change of
  file, after which older torn copies are behind newer whole ones.

`NewInv` is by itself enough, with `Inv`, for `SessionsAreNew` and for
`FilesAreFilled`: until the first write of a session with `newfile`, it has no file of
its own.  `FilesAreFilled` too assumes `MaxFiles <= NameLimit`.

`ThrownStaysRefused` is about the files that `suspect` takes out of the others.  An
insert that throws has added to `size` what it has not added to the file; later
inserts add the same to both, or to `size` alone, so that in a session `size` never
falls behind the file (`SizeInv`), and every index that is saved for the file is of a
size that it has not.  The theorem assumes `MaxLen < Width`, as otherwise the two can
be equal as `unsigned`.  It says nothing of what comes after: a crash that cuts the
file and a later session that extends it can bring it to the size which the refused
index says, if nothing has saved or rebuilt the index in between.  Nothing in the
code keeps that out, which is why `suspect` remains in `AcceptedIndexExact`.

`AnswersAreKept` is about what `find` answers for any chunk, also one that an
earlier session stored and one whose record a crash cut short: while no stream
fails, only an insert of the chunk changes it, and the answer is then the chunk.
An insert changes the front file alone, so that a new record must not lie where
an entry leads already.  `IInv` says so of the files whose names are read; a file
past them, which a session extends without its index, needs `BelowInv`: no entry
leads past the end of its file.  For the chunk that is inserted the theorem takes
the answer from `WritesAreRead`.

`RecoveryMovesOn` is the safety half of termination, for any pool: a step of a
recovery goes to the next file (and there are `Visible` of them), or from looking
at a file to rebuilding its index, or to a greater position below the file's size.
It needs that a position and a length do not exceed `unsigned`, and that no header
was trusted that had not been read in full.  What is left for TLC is that fair
steps are taken at all.

**`PoolFaultsProofs`** proves the four properties of the run `faults` for any
chunks, any number of records and any set of failing calls.  The invariant is
that `size` is never behind the file and that the index in memory is exact where
the two agree (`MemoryInv`), and that a whole index on disk never covers more than
the file will have (`DiskInv`).  The properties leave out what has become `shaky`
or `spoiled` (a load that broke off, a record written elsewhere than at `size`)
and `AckedFound` leaves out the records `gone` with a buffer that `close` could not
write.

**`PoolLifeProofs`** proves `LockProtects` and `LockIsHeld` for any number of
processes and objects, under `OneEach`: no process has two Pool objects for a
pool.  The condition is needed: a process's locks go together.  It shows that the
life of a directory implements `LockFile` (`LifeImplementsLock`), which carries
`LockProtects` over (`PoolIsAlone`), and proves `OpenedIsAsCreated`,
`CreatedIsThere` and `PropsStay` for any number of creators, with `LifeInv`: at
most one creator is past the mkdir, and `props.txt` is as far as it is.

**`IndexSearchProofs`** proves that the bisection is right (`SearchIsCorrect`),
stays in the vector (`SearchStaysInside`) and narrows its bounds
(`SearchNarrows`).  The invariant is that the key can only be between the bounds
(`Bracket`).

**`BackupWalkProofs`** proves `StackFollowsWalk` and `LocationIsRight` for walks
of any depth over any pool, from `NodeAssumption`, which bounds what a block can
name.  The invariant relates each frame to its place in the stack.

`ReportsAreTrue` is about blocks of any length with any items: what `backup` is
told is what the block says.  The argument has four parts.  A block that the loop of
the decoder reads to its end is the encoding of the items it read (`ItemsEncode`,
`DecodeFacts`), for which the two bytes of a length are taken apart and put
together again (`TwoBytes`).  What `AddProperty` makes of the items, one by one, is
at each item what the last item of every key so far says (`Says`, `BackNodeFacts`).
Those two together are the node that a block says (`NodeIsTold`).  And
`ReportInv` keeps it: whatever is among the reports was made from the block of an
OID of this pool, and the pool does not change.  `NodeAssumption` says that blocks
are bytes, and `KeyAssumption` that a date which was read is none that nothing set.

`EncodedIsDecoded` is the converse for the format: a type and items whose lengths
have room in front of them are read back as they were written, however many there
are.  So the decoder refuses no block that follows the format, and no block has two
readings.

**`FileIndexProofs`** proves the properties of the run `index` for any number of
keys, kinds and first bytes.  `TypesAreKept`; `SavedVectorsAgree`: a saved file has
vectors that belong together, its hashes in order, and tops that divide them by
first byte; `SearchIsExact`: the bisection of such a file finds a key
if and only if it is there, at an offset where it is; and `IndexIsMap`: the index
implements `IndexMap`, step by step, where the kinds fit a byte (`KindsFit`; with
more, kinds come back as others, and the refinement does not hold).  The invariant
is that the vectors of a file that is there, or was loaded, agree (`Agrees`); for
the refinement, what is saved gives at each place what `Lookup` says (`Content`).
`OidAssumption` has the OIDs finite, as they are.

**`ChunkProofs`** proves `RecordsReadBack` and `SizesAreTold` for any data and any
compression: what the cached buffers hold, once they hold something, is the chunk's
data or its compression, whatever was asked first (`Honest`), and what write_size
told is what it would tell now (`Holds`), as nothing is left to try once it has told.

**`OidProofs`** proves `TweakFollowsOrder` for any number of bytes of any size:
behind the place where the loop is, all bytes have wrapped around, and before it
none has changed (`LoopInv`), and such an OID is next to the one before in the
order of memcmp.  `TextsAreKept` says for any number of bytes that digits are
read as the OID that is written as them, and that a text of another length is refused.

Recursive functions.  That `f[x \in D] == ...` has the value its right side says is
not for free: the definition chooses a function that satisfies the equation, if
there is one.  `FileIndexProofs` and `BackupWalkProofs` show that there is one
wherever they use one (`RecursionIsDefined`: the equation of a definition that only
refers to points of lesser rank has a solution), and then argue about its values by
taking the least point at which what they claim is wrong (`LeastExists`, from the
library's theorem that < on the naturals is well-founded).  That takes the place
of induction theorems with an operator for a parameter, which the provers cannot
instantiate.

Only model-checked: `RecoveryTerminates` and `Terminates`.  They are liveness
properties under fairness, and ENABLED is out of the prover's reach; their safety
halves are `RecoveryMovesOn` and `SearchNarrows`.  Every invariant and every other
action property of a passing run is stated by a theorem.

## 5. What is abstracted, and what is not modelled

* In `Pool` a crash is the death of a process: what was written stays written.  At
  most one record is buffered, since every insert first seeks, which empties the
  buffer.  A loss of power, which may lose more, is not modelled: the code calls
  no fsync and neither it nor its documents promise anything about it.
* A flush is one step in `Pool`.  It saves to a temporary file and renames it, so
  that a death on the way leaves either the old index or the new one, as a death
  before or after it does.  Its parts, where they fail, are in `PoolFaults`.
* An open that is refused changes nothing but the file `lock`, which `PoolLife` has.
* The two models of the front file are apart on purpose: `Pool` has crashes that
  cut records and calls that do not fail, `PoolFaults` calls that fail and records
  that are not cut.  Nothing says what the two do together.
* The magic and the version of an index file are those this program writes.
* If a pool's index directory has files of other numbers than 0, 1, 2, ...
  (somebody deleted one), the model does not have it.
* What the padding bytes are is left out.  So are what zlib and SHA-1 compute:
  they are constants, or any value.
* `get_backups` reads a file that nothing in the repository writes.
* The Lister and the hex dump turn values into text for a terminal.
* A descriptor that leaks when a lock is refused (`lockfile.hh:26`) changes no
  other state.
* `gtest-1.7.0/` is a vendored copy of a test framework, and nearly all of the
  repository's lines (some 62,000 of 64,000).  The share of the repository that
  these modules cover is small for that reason; of `src/src/` itself they cover
  every file that keeps state.
