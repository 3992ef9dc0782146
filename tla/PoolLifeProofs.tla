--------------------------- MODULE PoolLifeProofs ---------------------------
(* The lock protects a pool from any number of other processes; and what    *)
(* create_pool and the constructor of Pool owe each other, for any number   *)
(* of calls of either.                                                      *)
EXTENDS PoolLife, TLAPS

-----------------------------------------------------------------------------
(* The lock *)

\* Nobody has the lock, and nobody knows the directory.
LEMMA LockInitInv == Init => IInv
BY OwnerAssumption DEF Init, IInv, TypeOK, FlagInv, LockedIsHeld, ViewIsCurrent, Phases

\* One step per action of the lock.
LEMMA LockNextInv == OneEach /\ IInv /\ [Next]_vars => IInv'
<1> SUFFICES ASSUME OneEach, IInv, [Next]_vars PROVE IInv'
  OBVIOUS
<1> USE OwnerAssumption DEF IInv, TypeOK, Phases
<1>1. ASSUME NEW o \in Objects, Lock(o) PROVE IInv'
  <2>1. \A q \in Objects : locked[q] => q = o
    BY <1>1 DEF Lock, Free, LockedIsHeld, OneEach
  <2> QED BY <1>1, <2>1 DEF Lock, FlagInv, LockedIsHeld, ViewIsCurrent
<1>2. ASSUME NEW o \in Objects, ScanFiles(o) PROVE IInv'
  BY <1>2 DEF ScanFiles, FlagInv, LockedIsHeld, ViewIsCurrent
<1>3. ASSUME NEW o \in Objects, Write(o) PROVE IInv'
  \* Whoever has scanned has the lock, so it is o alone.
  <2>1. \A q \in Objects : phase[q] = "scanned" => q = o
    BY <1>3 DEF Write, FlagInv, LockedIsHeld, OneEach
  <2> QED BY <1>3, <2>1 DEF Write, FlagInv, LockedIsHeld, ViewIsCurrent
<1>4. ASSUME NEW o \in Objects, Unlock(o) PROVE IInv'
  <2>1. \A q \in Objects : locked[q] => q = o
    BY <1>4 DEF Unlock, LockedIsHeld, OneEach
  <2> QED BY <1>4, <2>1 DEF Unlock, Released, FlagInv, LockedIsHeld, ViewIsCurrent
<1>5. ASSUME NEW o \in Objects, Close(o) PROVE IInv'
  \* o has no lock, and no other object is of o's process.
  <2>1. \A q \in Objects : locked[q] => Owner[q] # Owner[o]
    BY <1>5 DEF Close, FlagInv, OneEach
  <2> QED BY <1>5, <2>1 DEF Close, Released, FlagInv, LockedIsHeld, ViewIsCurrent
<1>6. ASSUME NEW p \in Processes, Die(p) PROVE IInv'
  BY <1>6 DEF Die, Released, FlagInv, LockedIsHeld, ViewIsCurrent
<1>7. CASE UNCHANGED vars
  BY <1>7 DEF vars, FlagInv, LockedIsHeld, ViewIsCurrent
<1> QED BY <1>1, <1>2, <1>3, <1>4, <1>5, <1>6, <1>7 DEF Next

\* While no process has two Pool objects for the same pool, an object that
\* has scanned the directory is alone with it, however many processes try,
\* whichever of them die, and although a destructor unlocks before it closes.
THEOREM LockProtects ==
  ASSUME OneEach PROVE Spec => []ViewIsCurrent
<1>1. Init => IInv
  BY LockInitInv
<1>2. IInv /\ [Next]_vars => IInv'
  BY LockNextInv
<1>3. IInv => ViewIsCurrent
  BY DEF IInv
<1> QED BY <1>1, <1>2, <1>3, PTL DEF Spec

\* Under the same condition, the flag of LockFile agrees with the kernel.
THEOREM LockIsHeld ==
  ASSUME OneEach PROVE Spec => []LockedIsHeld
<1>1. Init => IInv
  BY LockInitInv
<1>2. IInv /\ [Next]_vars => IInv'
  BY LockNextInv
<1>3. IInv => LockedIsHeld
  BY DEF IInv
<1> QED BY <1>1, <1>2, <1>3, PTL DEF Spec

-----------------------------------------------------------------------------
(* The directory *)


\* Every step of a pool's life is a step of its lock, or none.
LEMMA StepIsLockStep == LifeNext => [Next]_vars
<1> SUFFICES ASSUME LifeNext PROVE [Next]_vars
  OBVIOUS
<1>1. ASSUME NEW k \in Creators,
             CheckEmpty(k) \/ MakeMetadata(k) \/ OpenProps(k) \/ WriteProps(k) \/ CreatorDies(k)
      PROVE  UNCHANGED vars
  BY <1>1 DEF CheckEmpty, MakeMetadata, OpenProps, WriteProps, CreatorDies
<1>2. ASSUME NEW o \in Objects,
             LockPool(o) \/ OpenPool(o) \/ WritePool(o) \/ UnlockPool(o) \/ ClosePool(o)
      PROVE  Next
  BY <1>2 DEF LockPool, OpenPool, WritePool, UnlockPool, ClosePool, Next
<1>3. ASSUME NEW p \in Processes, DieInPool(p) PROVE Next
  BY <1>3 DEF DieInPool, Next
<1> QED
  BY <1>1, <1>2, <1>3 DEF LifeNext

\* The life of a pool implements LockFile, so that what is proved of the lock
\* holds for it.
THEOREM LifeImplementsLock == LifeSpec => Spec
<1>1. LifeInit => Init
  BY DEF LifeInit
<1>2. [LifeNext]_lifeVars => [Next]_vars
  BY StepIsLockStep DEF lifeVars
<1> QED
  BY <1>1, <1>2, PTL DEF LifeSpec, Spec

\* Between scanning the directory and being destroyed, a Pool object knows of
\* all that was written, if no process has two of them.
THEOREM PoolIsAlone == ASSUME OneEach PROVE LifeSpec => []ViewIsCurrent
<1>1. Spec => []ViewIsCurrent
  BY LockProtects
<1> QED
  BY <1>1, LifeImplementsLock

LEMMA LifeInitInv == LifeInit => LifeInv /\ TypeOK
<1> SUFFICES ASSUME LifeInit PROVE LifeInv /\ TypeOK
  OBVIOUS
<1>1. TypeOK
  BY LockInitInv DEF LifeInit, IInv
<1>2. LifeTypeOK
  BY <1>1 DEF LifeTypeOK, LifeInit, PropsStates, Steps
<1>3. CreatorInv
  BY DEF LifeInit, CreatorInv
<1>4. OpenedAsCreated
  BY DEF LifeInit, Init, OpenedAsCreated
<1> QED
  BY <1>1, <1>2, <1>3, <1>4 DEF LifeInv

\* The types of the variables of the lock.
LEMMA LockTypes == TypeOK /\ [Next]_vars => TypeOK'
<1> SUFFICES ASSUME TypeOK, [Next]_vars PROVE TypeOK'
  OBVIOUS
<1> USE OwnerAssumption DEF TypeOK, Phases
<1>1. ASSUME NEW o \in Objects, Lock(o) \/ ScanFiles(o) \/ Write(o) PROVE TypeOK'
  <2>1. CASE Lock(o)
    BY <2>1 DEF Lock
  <2>2. CASE ScanFiles(o)
    BY <2>2 DEF ScanFiles
  <2>3. CASE Write(o)
    BY <2>3 DEF Write
  <2> QED
    BY <1>1, <2>1, <2>2, <2>3
<1>2. ASSUME NEW o \in Objects, Unlock(o) \/ Close(o) PROVE TypeOK'
  BY <1>2 DEF Unlock, Close, Released
<1>3. ASSUME NEW p \in Processes, Die(p) PROVE TypeOK'
  BY <1>3 DEF Die, Released
<1> QED
  BY <1>1, <1>2, <1>3 DEF Next, vars

LEMMA CreatorStep ==
  ASSUME LifeInv, NEW k \in Creators,
         CheckEmpty(k) \/ MakeMetadata(k) \/ OpenProps(k) \/ WriteProps(k) \/ CreatorDies(k)
  PROVE  LifeInv' /\ (props = "whole" => props' = "whole")
<1> USE DEF LifeInv, LifeTypeOK, CreatorInv, OpenedAsCreated, Advance, PropsStates, Steps
<1>1. UNCHANGED <<vars, seen, lockFile>>
  BY DEF CheckEmpty, MakeMetadata, OpenProps, WriteProps, CreatorDies
<1>2. TypeOK' /\ phase' = phase
  BY <1>1 DEF vars, TypeOK
<1>3. CASE CheckEmpty(k)
  BY <1>1, <1>2, <1>3 DEF CheckEmpty
<1>4. CASE MakeMetadata(k)
  BY <1>1, <1>2, <1>4 DEF MakeMetadata
<1>5. CASE OpenProps(k)
  BY <1>1, <1>2, <1>5 DEF OpenProps
<1>6. CASE WriteProps(k)
  BY <1>1, <1>2, <1>6 DEF WriteProps
<1>7. CASE CreatorDies(k)
  BY <1>1, <1>2, <1>7 DEF CreatorDies
<1> QED
  BY <1>3, <1>4, <1>5, <1>6, <1>7

LEMMA PoolStep ==
  ASSUME LifeInv, NEW o \in Objects,
         LockPool(o) \/ OpenPool(o) \/ WritePool(o) \/ UnlockPool(o) \/ ClosePool(o)
  PROVE  LifeInv' /\ props' = props
<1> USE DEF LifeInv, LifeTypeOK, CreatorInv, OpenedAsCreated
<1>1. UNCHANGED <<metadata, props, creator, full>> /\ lockFile' \in BOOLEAN
  BY DEF LockPool, OpenPool, WritePool, UnlockPool, ClosePool, dirVars
<1>2. LifeNext
  BY DEF LifeNext
<1>3. TypeOK'
  BY <1>2, StepIsLockStep, LockTypes
<1>4. CreatorInv'
  BY <1>1
<1>5. seen' \in [Objects -> {"defaults", "written", "other"}] /\ OpenedAsCreated'
  <2>1. CASE OpenPool(o)
    <3>1. PICK v \in ReadProps : seen' = [seen EXCEPT ![o] = v]
      BY <2>1 DEF OpenPool
    <3>2. v \in {"written", "other"} /\ (~full => v = "written" /\ props = "whole")
      BY <3>1 DEF ReadProps, PropsStates
    <3>3. phase' = [phase EXCEPT ![o] = "scanned"]
      BY <2>1 DEF OpenPool, ScanFiles
    <3> QED
      BY <1>1, <3>1, <3>2, <3>3 DEF TypeOK
  <2>2. CASE LockPool(o) \/ WritePool(o) \/ UnlockPool(o) \/ ClosePool(o)
    <3>1. seen' = seen /\ \A q \in Objects : phase'[q] = "scanned" => phase[q] = "scanned"
      BY <2>2 DEF LockPool, WritePool, UnlockPool, ClosePool, Lock, Write, Unlock, Close, TypeOK
    <3> QED
      BY <1>1, <3>1
  <2> QED
    BY <2>1, <2>2
<1> QED
  BY <1>1, <1>3, <1>4, <1>5

LEMMA DieStep ==
  ASSUME LifeInv, NEW p \in Processes, DieInPool(p)
  PROVE  LifeInv' /\ props' = props
<1> USE DEF LifeInv, LifeTypeOK, CreatorInv, OpenedAsCreated
<1>1. UNCHANGED <<lockFile, metadata, props, creator, full, seen>>
  BY DEF DieInPool, dirVars
<1>2. TypeOK'
  <2>1. LifeNext
    BY DEF LifeNext
  <2> QED
    BY <2>1, StepIsLockStep, LockTypes
<1>3. \A q \in Objects : phase'[q] = "scanned" => phase[q] = "scanned"
  BY DEF DieInPool, Die
<1> QED
  BY <1>1, <1>2, <1>3

LEMMA LifeNextInv ==
  ASSUME LifeInv, [LifeNext]_lifeVars
  PROVE  LifeInv' /\ (props = "whole" => props' = "whole")
<1>1. CASE LifeNext
  BY <1>1, CreatorStep, PoolStep, DieStep DEF LifeNext
<1>2. CASE UNCHANGED lifeVars
  BY <1>2 DEF lifeVars, vars, dirVars, LifeInv, LifeTypeOK, TypeOK, CreatorInv, OpenedAsCreated
<1> QED
  BY <1>1, <1>2

\* Whoever has a pool open has the properties that were written when it was
\* made, however creators and openers raced for the directory and wherever
\* they died, if the disk had room.
THEOREM OpenedIsAsCreated == LifeSpec => []OpenedAsCreated
<1>1. LifeInv => OpenedAsCreated
  BY DEF LifeInv
<1> QED
  BY <1>1, LifeInitInv, LifeNextInv, PTL DEF LifeSpec

\* A create_pool that has returned has left a whole pool, if the disk had room.
THEOREM CreatedIsThere == LifeSpec => []CreatedIsWhole
<1>1. LifeInv => CreatedIsWhole
  BY DEF LifeInv, CreatorInv, CreatedIsWhole
<1> QED
  BY <1>1, LifeInitInv, LifeNextInv, PTL DEF LifeSpec

\* No create_pool writes the properties of a pool that has them.
THEOREM PropsStay == LifeSpec => PropsKept
<1>1. LifeInv /\ [LifeNext]_lifeVars => [props = "whole" => props' = "whole"]_lifeVars
  BY LifeNextInv
<1>2. LifeInv /\ [LifeNext]_lifeVars => LifeInv'
  BY LifeNextInv
<1> QED
  BY <1>1, <1>2, LifeInitInv, PTL DEF LifeSpec, PropsKept
=============================================================================
