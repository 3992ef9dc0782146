------------------------------ MODULE LockFile ------------------------------
(***************************************************************************)
(* The lock of a pool, src/src/lockfile.hh, and what it is for: between    *)
(* the time a Pool object has scanned the directory and the time it is     *)
(* destroyed, nobody else may write there.  Pool.tla builds on that.       *)
(*                                                                         *)
(* lockf uses POSIX record locks, which belong to a process and not to a   *)
(* descriptor: a process never conflicts with itself, and it gives the     *)
(* lock up when it closes any descriptor of the file.                      *)
(***************************************************************************)
EXTENDS Integers

CONSTANTS
  Processes,
  Objects,    \* the Pool objects of all processes, on one pool directory
  Owner,      \* Owner[o]: the process of object o
  Nobody,     \* not a process
  MaxWrites   \* bound: writes to the directory

ASSUME OwnerAssumption ==
  /\ Owner \in [Objects -> Processes]
  /\ Nobody \notin Processes
  /\ MaxWrites \in Nat

VARIABLES
  holder,  \* the process that has the lock, in the kernel
  phase,   \* how far each Pool object has got
  locked,  \* the member of that name of each object's LockFile
  writes,  \* how often the directory was written
  view     \* the writes that each object knows of

vars == <<holder, phase, locked, writes, view>>

Phases == {"none", "locking", "scanned", "unlocked"}

Init ==
  /\ holder = Nobody
  /\ phase = [o \in Objects |-> "none"]
  /\ locked = [o \in Objects |-> FALSE]
  /\ writes = 0
  /\ view = [o \in Objects |-> 0]

Free(p) == holder \in {p, Nobody}

\* Fault: the result of lockf is not looked at.
LockAnyway(o) ==
  /\ phase[o] = "none"
  /\ holder' = IF Free(Owner[o]) THEN Owner[o] ELSE holder
  /\ phase' = [phase EXCEPT ![o] = "locking"]
  /\ locked' = [locked EXCEPT ![o] = TRUE]
  /\ UNCHANGED <<writes, view>>

\* The constructor opens the file and calls lockf with F_TLOCK.  If the lock
\* is not free it throws, and nothing has changed: the descriptor, which no
\* destructor closes, holds no lock and is not modelled.
Lock(o) ==
  /\ phase[o] = "none"
  /\ Free(Owner[o])
  /\ holder' = Owner[o]
  /\ phase' = [phase EXCEPT ![o] = "locking"]
  /\ locked' = [locked EXCEPT ![o] = TRUE]
  /\ UNCHANGED <<writes, view>>

\* Pool's constructor goes on to scan or to recover the files.
ScanFiles(o) ==
  /\ phase[o] = "locking"
  /\ phase' = [phase EXCEPT ![o] = "scanned"]
  /\ view' = [view EXCEPT ![o] = writes]
  /\ UNCHANGED <<holder, locked, writes>>

\* insert or flush.
Write(o) ==
  /\ phase[o] = "scanned" /\ writes < MaxWrites
  /\ writes' = writes + 1
  /\ view' = [view EXCEPT ![o] = @ + 1]
  /\ UNCHANGED <<holder, phase, locked>>

\* The lock goes if the process has it; nobody else's does.
Released(p) == IF holder = p THEN Nobody ELSE holder

\* Fault: the flag is not reset.
UnlockFlagged(o) ==
  /\ phase[o] \in {"locking", "scanned"} /\ locked[o]
  /\ holder' = Released(Owner[o])
  /\ phase' = [phase EXCEPT ![o] = "unlocked"]
  /\ UNCHANGED <<locked, writes, view>>

\* ~LockFile, of a Pool that is destroyed or whose constructor throws after
\* the lock was taken: first unlock() ...
Unlock(o) ==
  /\ phase[o] \in {"locking", "scanned"} /\ locked[o]
  /\ holder' = Released(Owner[o])
  /\ phase' = [phase EXCEPT ![o] = "unlocked"]
  /\ locked' = [locked EXCEPT ![o] = FALSE]
  /\ UNCHANGED <<writes, view>>

\* ... and then close(fd), which gives up what the process has got since.
Close(o) ==
  /\ phase[o] = "unlocked"
  /\ holder' = Released(Owner[o])
  /\ phase' = [phase EXCEPT ![o] = "none"]
  /\ UNCHANGED <<locked, writes, view>>

\* The process dies; the kernel closes its descriptors.
Die(p) ==
  /\ \E o \in Objects : Owner[o] = p /\ phase[o] # "none"
  /\ holder' = Released(p)
  /\ phase' = [o \in Objects |-> IF Owner[o] = p THEN "none" ELSE phase[o]]
  /\ locked' = [o \in Objects |-> IF Owner[o] = p THEN FALSE ELSE locked[o]]
  /\ UNCHANGED <<writes, view>>

Next ==
  \/ \E o \in Objects : Lock(o) \/ ScanFiles(o) \/ Write(o) \/ Unlock(o) \/ Close(o)
  \/ \E p \in Processes : Die(p)

Spec == Init /\ [][Next]_vars
-----------------------------------------------------------------------------
(* Properties *)

TypeOK ==
  /\ holder \in Processes \cup {Nobody}
  /\ phase \in [Objects -> Phases]
  /\ locked \in [Objects -> BOOLEAN]
  /\ writes \in Nat
  /\ view \in [Objects -> Nat]

\* An object whose flag says that it has the lock has it.
LockedIsHeld == \A o \in Objects : locked[o] => holder = Owner[o]

\* Between scanning the directory and being destroyed, an object knows of all
\* that was written there.
ViewIsCurrent == \A o \in Objects : phase[o] = "scanned" => view[o] = writes

\* What a process must see to: it has one Pool object for a pool at a time.
OneEach == \A o, q \in Objects : Owner[o] = Owner[q] => o = q

\* Objects lock before they scan, and keep the flag until they unlock.
FlagInv ==
  \A o \in Objects : locked[o] <=> phase[o] \in {"locking", "scanned"}

IInv == TypeOK /\ FlagInv /\ LockedIsHeld /\ ViewIsCurrent
=============================================================================
