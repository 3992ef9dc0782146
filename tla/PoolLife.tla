------------------------------ MODULE PoolLife ------------------------------
(***************************************************************************)
(* The life of a pool directory: src/src/pool.cc makes it with create_pool *)
(* and opens it with the constructor of Pool, which takes the lock that    *)
(* LockFile models.  create_pool takes no lock: what keeps two of them, or *)
(* one of them and an open pool, apart is the look into the directory and  *)
(* the mkdir.                                                              *)
(***************************************************************************)
EXTENDS LockFile

CONSTANTS
  Creators,  \* the calls of create_pool on the directory
  MayBeFull  \* whether the disk may have no room for props.txt

ASSUME FullAssumption == MayBeFull \in BOOLEAN

VARIABLES
  lockFile,  \* whether the file `lock` is there
  metadata,  \* whether the directory `metadata` is
  props,     \* what `props.txt` holds
  creator,   \* how far each create_pool has got
  seen,      \* the members of `props` of each Pool object
  full       \* history: a write of props.txt has failed

dirVars  == <<lockFile, metadata, props, creator, full>>
lifeVars == <<vars, dirVars, seen>>

\* "cut": the write stopped within the text.
PropsStates == {"none", "empty", "cut", "whole"}
Steps == {"start", "checked", "made", "opened", "returned", "threw", "died"}

LifeInit ==
  /\ Init
  /\ lockFile = FALSE /\ metadata = FALSE /\ props = "none" /\ full = FALSE
  /\ creator = [k \in Creators |-> "start"]
  /\ seen = [o \in Objects |-> "defaults"]
-----------------------------------------------------------------------------
(* create_pool *)

Advance(k, from, to) ==
  creator[k] = from /\ creator' = [creator EXCEPT ![k] = to]

\* ensure_empty.
CheckEmpty(k) ==
  /\ Advance(k, "start", IF lockFile \/ metadata THEN "threw" ELSE "checked")
  /\ UNCHANGED <<vars, lockFile, metadata, props, full, seen>>

\* Fault: a directory that is there already is used.
MakeMetadataShared(k) ==
  /\ Advance(k, "checked", "made")
  /\ metadata' = TRUE
  /\ UNCHANGED <<vars, lockFile, props, full, seen>>

\* create_directory says whether the directory is new.
MakeMetadata(k) ==
  /\ Advance(k, "checked", IF metadata THEN "threw" ELSE "made")
  /\ metadata' = TRUE
  /\ UNCHANGED <<vars, lockFile, props, full, seen>>

\* The stream opens the file, and truncates it.  Whether it could is not
\* looked at.
OpenProps(k) ==
  /\ \/ Advance(k, "made", "opened") /\ props' = "empty" /\ full' = full
     \/ MayBeFull /\ Advance(k, "made", "returned") /\ props' = props /\ full' = TRUE
  /\ UNCHANGED <<vars, lockFile, metadata, seen>>

\* The text is in the stream's buffer until the stream is destroyed, and is
\* then written at once, if there is room for it.
WriteProps(k) ==
  /\ Advance(k, "opened", "returned")
  /\ \/ props' = "whole" /\ full' = full
     \/ MayBeFull /\ props' \in {"empty", "cut"} /\ full' = TRUE
  /\ UNCHANGED <<vars, lockFile, metadata, seen>>

\* The process of a create_pool dies.
CreatorDies(k) ==
  /\ creator[k] \notin {"returned", "threw", "died"}
  /\ creator' = [creator EXCEPT ![k] = "died"]
  /\ UNCHANGED <<vars, lockFile, metadata, props, full, seen>>
-----------------------------------------------------------------------------
(* Pool *)

\* The lock file is made, if need be, before anything else is looked at.  A
\* process that is refused the lock has changed nothing: the file is there.
LockPool(o) ==
  /\ Lock(o)
  /\ lockFile' = TRUE
  /\ UNCHANGED <<metadata, props, creator, full, seen>>

\* Fault: a file without a uuid is read, with the default values.
ReadPropsNil ==
  CASE props = "whole" -> {"written"} [] props = "cut" -> {"written", "other"}
    [] props = "empty" -> {"other"}   [] props = "none" -> {}

\* What read_props may make of the file.  Without a file, without a uuid or
\* with half a line it throws, and with half a number, or without the last
\* lines, it does not.
ReadProps ==
  CASE props = "whole" -> {"written"} [] props = "cut" -> {"written", "other"}
    [] props \in {"empty", "none"} -> {}

\* The rest of the constructor: read_props, and scan_files or recover_files.
\* What it throws, at any point, destroys the lock (Unlock).
OpenPool(o) ==
  /\ ScanFiles(o)
  /\ \E v \in ReadProps : seen' = [seen EXCEPT ![o] = v]
  /\ UNCHANGED dirVars

\* insert and flush, ~LockFile in its two steps, and a process that dies.
WritePool(o)  == Write(o)  /\ UNCHANGED <<dirVars, seen>>
UnlockPool(o) == Unlock(o) /\ UNCHANGED <<dirVars, seen>>
ClosePool(o)  == Close(o)  /\ UNCHANGED <<dirVars, seen>>
DieInPool(p)  == Die(p)    /\ UNCHANGED <<dirVars, seen>>

LifeNext ==
  \/ \E k \in Creators :
       CheckEmpty(k) \/ MakeMetadata(k) \/ OpenProps(k) \/ WriteProps(k) \/ CreatorDies(k)
  \/ \E o \in Objects :
       LockPool(o) \/ OpenPool(o) \/ WritePool(o) \/ UnlockPool(o) \/ ClosePool(o)
  \/ \E p \in Processes : DieInPool(p)

LifeSpec == LifeInit /\ [][LifeNext]_lifeVars
-----------------------------------------------------------------------------
(* Properties *)

LifeTypeOK ==
  /\ TypeOK
  /\ lockFile \in BOOLEAN /\ metadata \in BOOLEAN /\ full \in BOOLEAN
  /\ props \in PropsStates
  /\ creator \in [Creators -> Steps]
  /\ seen \in [Objects -> {"defaults", "written", "other"}]

\* The properties of a pool, once written, are never written again, however
\* many calls of create_pool found the directory empty.
PropsKept == [][props = "whole" => props' = "whole"]_lifeVars

\* Once a create_pool has returned, the pool is there to be opened, if the disk
\* was not full.
CreatedIsWhole ==
  ~full /\ (\E k \in Creators : creator[k] = "returned") => metadata /\ props = "whole"

\* A pool that is open has the properties its creator gave it, if the disk was
\* not full: nobody opens a directory between the mkdir and the last write, or
\* one in which a creator died.
OpenedAsCreated ==
  ~full => \A o \in Objects : phase[o] = "scanned" => seen[o] = "written" /\ props = "whole"

\* At most one create_pool gets past the mkdir; while it has not returned,
\* props.txt is as far as it is.
CreatorInv ==
  /\ \A k \in Creators :
       /\ creator[k] \in {"made", "opened", "returned"} => metadata
       /\ creator[k] = "made" => props = "none"
       /\ creator[k] = "opened" => props = "empty"
       /\ creator[k] = "returned" => full \/ props = "whole"
  /\ \A k, j \in Creators :
       creator[k] \in {"made", "opened"} /\ creator[j] \in {"made", "opened", "returned"}
       => k = j
  /\ ~metadata => props = "none"
  /\ props = "cut" => full

\* With LifeTypeOK and LockFile's invariant this is inductive.
LifeInv == LifeTypeOK /\ CreatorInv /\ OpenedAsCreated
=============================================================================
