-------------------------- MODULE PoolFaultsProofs --------------------------
(***************************************************************************)
(* What a pool keeps to when any of its system calls fail, in any order,   *)
(* for any chunks and any number of records.                               *)
(***************************************************************************)
EXTENDS PoolFaults, SequenceTheorems, WellFoundedInduction, TLAPS

\* The file as it will be when the buffer is written.
All == data \o tail

\* A closed pool has nothing in memory.
ClosedInv == mode = "closed" => ~dirty /\ tail = <<>> /\ ram = NoEntries /\ acked = {}

\* `size` is never behind the file, and the index in memory is exact as long as
\* it agrees with it.
MemoryInv ==
  mode = "open" /\ ~shaky =>
    /\ size >= Len(All)
    /\ size = Len(All) => Leads(Merge, All)
    /\ \A c \in acked \ gone : Merge[c] + 1 \in DOMAIN All /\ All[Merge[c] + 1] = c

\* What a whole index on disk says of a file that is as long as it says; and why
\* a session does not make the file so long: `size` is no smaller, and a record
\* goes into the buffer only behind what the index covers.
DiskInv ==
  ~spoiled /\ idx.state = "whole" =>
    /\ idx.size = Len(data) => Leads(idx.entries, data)
    /\ mode = "open" => idx.size <= size
    /\ tail # <<>> => idx.size <= Len(data)

IInv == TypeOK /\ ClosedInv /\ NotDirtyMeansSaved /\ MemoryInv /\ DiskInv

-----------------------------------------------------------------------------
(* Files and indexes *)

\* A nonempty set of numbers has a least one.
LEMMA LeastExists ==
  ASSUME NEW T, T \subseteq Nat, T # {}
  PROVE  \E x \in T : \A y \in T : x <= y
<1>1. PICK x \in T : \A y \in T : ~ (<<y, x>> \in OpToRel(<, Nat))
  BY WFMin, NatLessThanWellFounded
<1>2. \A y \in T : ~ (y < x)
  BY <1>1 DEF OpToRel
<1> QED
  BY <1>2

\* A walk over a file indexes it exactly.
LEMMA WalkIsExact ==
  ASSUME NEW d \in Seq(Chunks)
  PROVE  FirstOf(d) \in Entries /\ Leads(FirstOf(d), d)
<1>1. DOMAIN d = 1 .. Len(d) /\ Len(d) \in Nat
  BY LenProperties
<1>2. ASSUME NEW c \in Chunks, \E i \in DOMAIN d : d[i] = c
      PROVE  \E i \in DOMAIN d : d[i] = c /\ \A j \in DOMAIN d : d[j] = c => i <= j
  <2>1. {i \in DOMAIN d : d[i] = c} \subseteq Nat /\ {i \in DOMAIN d : d[i] = c} # {}
    BY <1>1, <1>2
  <2>2. PICK i \in {k \in DOMAIN d : d[k] = c} : \A j \in {k \in DOMAIN d : d[k] = c} : i <= j
    BY <2>1, LeastExists
  <2> QED
    BY <2>2
<1>3. ASSUME NEW c \in Chunks, c \in Range(d)
      PROVE  FirstOf(d)[c] \in Nat /\ FirstOf(d)[c] + 1 \in DOMAIN d /\ d[FirstOf(d)[c] + 1] = c
  <2> DEFINE first == CHOOSE i \in DOMAIN d : d[i] = c /\ \A j \in DOMAIN d : d[j] = c => i <= j
  <2>1. \E i \in DOMAIN d : d[i] = c
    BY <1>3 DEF Range
  <2>2. first \in DOMAIN d /\ d[first] = c
    BY <1>2, <2>1
  <2>3. FirstOf(d)[c] = first - 1
    BY <2>1 DEF FirstOf
  <2> QED
    BY <2>2, <2>3, <1>1
<1>4. ASSUME NEW c \in Chunks, c \notin Range(d) PROVE FirstOf(d)[c] = None
  BY <1>4 DEF FirstOf, Range
<1>5. FirstOf(d) \in [Chunks -> {None} \cup Nat]
  BY <1>3, <1>4 DEF FirstOf
<1> QED
  BY <1>3, <1>4, <1>5 DEF Entries, Leads

\* A file with its buffer.
LEMMA AllFacts ==
  ASSUME TypeOK
  PROVE  /\ Len(data) \in Nat /\ Len(tail) \in {0, 1} /\ (Len(tail) = 0 <=> tail = <<>>)
         /\ DOMAIN data = 1 .. Len(data)
         /\ All \in Seq(Chunks) /\ DOMAIN All = 1 .. Len(All)
         /\ Len(All) = Len(data) + Len(tail)
         /\ \A i \in 1 .. Len(data) : All[i] = data[i]
         /\ tail # <<>> => All[Len(data) + 1] = tail[1] /\ Range(tail) = {tail[1]}
         /\ tail = <<>> => All = data
<1>1. Len(data) \in Nat /\ Len(tail) \in Nat /\ DOMAIN data = 1 .. Len(data)
      /\ DOMAIN tail = 1 .. Len(tail)
  BY LenProperties DEF TypeOK
<1>2. Len(tail) \in {0, 1} /\ (Len(tail) = 0 <=> tail = <<>>)
  <2>1. Len(tail) <= 1 /\ tail \in Seq(Chunks)
    BY DEF TypeOK
  <2>2. tail # <<>> => Len(tail) # 0
    BY <2>1, EmptySeq
  <2> QED
    BY <2>1, <2>2, <1>1, EmptySeq
<1>3. /\ All \in Seq(Chunks) /\ Len(All) = Len(data) + Len(tail)
      /\ \A i \in 1 .. Len(data) + Len(tail) :
           All[i] = IF i <= Len(data) THEN data[i] ELSE tail[i - Len(data)]
  BY ConcatProperties DEF All, TypeOK
<1>4. tail = <<>> => All = data
  BY ConcatEmptySeq DEF All, TypeOK
<1>5. tail # <<>> => Range(tail) = {tail[1]}
  BY <1>1, <1>2 DEF Range
<1> QED
  BY <1>1, <1>2, <1>3, <1>4, <1>5, LenProperties

LEMMA MergeType == ASSUME TypeOK PROVE Merge \in Entries
BY DEF TypeOK, Merge, Entries

LEMMA PutAbsentType ==
  ASSUME NEW e \in Entries, NEW c \in Chunks, NEW n \in Nat
  PROVE  /\ PutAbsent(e, c, n) \in Entries
         /\ \A x \in Chunks : PutAbsent(e, c, n)[x] =
              IF x = c /\ e[c] = None THEN n ELSE e[x]
BY DEF PutAbsent, Entries

-----------------------------------------------------------------------------
(* The invariant, action by action *)

LEMMA InitInv == Init => IInv
<1> SUFFICES ASSUME Init PROVE IInv
  OBVIOUS
<1>1. PICK c \in Chunks : data = <<c>>
  BY DEF Init
<1>2. data \in Seq(Chunks) /\ Len(data) = 1 /\ data[1] = c /\ Range(data) = {c}
  BY <1>1 DEF Range
<1>3. <<>> \in Seq(Chunks) /\ Len(<<>>) = 0
  BY EmptySeq
<1>4. NoEntries \in Entries
  BY DEF NoEntries, Entries
<1>5. /\ idx.entries \in Entries /\ Leads(idx.entries, data)
      /\ idx = Index("whole", 1, idx.entries)
  BY <1>2 DEF Init, Entries, Index, Leads, None
<1>6. TypeOK
  <2>1. idx \in [state : IndexStates, size : Nat, entries : Entries]
    BY <1>5 DEF Index, IndexStates
  <2>2. Len(tail) <= 1
    BY <1>3 DEF Init
  <2> QED
    BY <2>1, <2>2, <1>2, <1>3, <1>4 DEF Init, TypeOK
<1> QED
  BY <1>2, <1>3, <1>5, <1>6
  DEF Init, IInv, ClosedInv, NotDirtyMeansSaved, MemoryInv, DiskInv

LEMMA OpenInv == ASSUME IInv, Open PROVE IInv'
<1>1. TypeOK' /\ tail = <<>> /\ ram = NoEntries /\ Len(data) \in Nat
  BY AllFacts DEF Open, IInv, TypeOK, ClosedInv
<1>2. Merge' = idx.entries
  BY <1>1 DEF Open, Merge, NoEntries, IInv, TypeOK, Entries
<1>3. All' = data
  BY <1>1, AllFacts DEF Open, IInv, All
<1>4. idx = Index("whole", size', fdata')
  BY DEF Open, Accepted, Index, IInv, TypeOK
<1>5. MemoryInv'
  <2> SUFFICES ASSUME ~shaky' PROVE MemoryInv'
    BY DEF MemoryInv
  <2>1. Leads(idx.entries, data) /\ acked' = {}
    BY DEF Open, Accepted, IInv, DiskInv, ClosedInv
  <2> QED
    BY <2>1, <1>1, <1>2, <1>3 DEF Open, MemoryInv
<1> QED
  BY <1>1, <1>4, <1>5 DEF Open, Accepted, IInv, ClosedInv, NotDirtyMeansSaved, DiskInv

\* What the index in memory says after an insert has noted the chunk.
LEMMA MergeAfterPut ==
  ASSUME TypeOK, NEW c \in Chunks, ram' = PutAbsent(ram, c, size), fdata' = fdata
  PROVE  \A x \in Chunks : Merge'[x] =
           IF x = c /\ ram[c] = None THEN size ELSE Merge[x]
<1>1. size # None
  <2>1. size \in Nat
    BY DEF TypeOK
  <2> QED
    BY <2>1 DEF None
<1>2. \A x \in Chunks : ram'[x] = IF x = c /\ ram[c] = None THEN size ELSE ram[x]
  BY PutAbsentType DEF TypeOK
<1> QED
  BY <1>1, <1>2 DEF Merge

LEMMA InsertInv == ASSUME IInv, NEW c \in Chunks, Insert(c) PROVE IInv'
<1>1. PICK opened \in BOOLEAN, flushed \in BOOLEAN :
        LET written == WriteStream(opened) = "write" /\ flushed
            here    == Len(data) + Len(tail)
            astray  == written /\ size # here
        IN  /\ Buffered(c, written)
            /\ stream' = IF written THEN "write" ELSE "bad"
            /\ outcome' = IF Returns(written, here) THEN "ok" ELSE "threw"
            /\ acked' = IF Returns(written, here) THEN acked \cup {c} ELSE acked \ {c}
            /\ shaky' = (shaky \/ astray) /\ spoiled' = (spoiled \/ astray)
  BY DEF Insert
<1> DEFINE written == WriteStream(opened) = "write" /\ flushed
           here    == Len(data) + Len(tail)
<1>2. /\ mode = "open" /\ dirty' = TRUE /\ ram' = PutAbsent(ram, c, size) /\ size' = size + 1
      /\ UNCHANGED <<idx, mode, fdata, gone>>
  BY DEF Insert
<1>3. /\ data \in Seq(Chunks) /\ here = Len(All) /\ size \in Nat /\ here \in Nat
      /\ Len(data) \in Nat
  <2>1. TypeOK
    BY DEF IInv
  <2>2. data \in Seq(Chunks) /\ size \in Nat
    BY <2>1 DEF TypeOK
  <2>3. Len(data) \in Nat /\ Len(tail) \in {0, 1} /\ Len(All) = Len(data) + Len(tail)
    BY <2>1, AllFacts
  <2> QED
    BY <2>2, <2>3
<1>4. Merge \in Entries /\ \A x \in Chunks : Merge'[x] = IF x = c /\ ram[c] = None THEN size ELSE Merge[x]
  BY <1>2, MergeAfterPut, MergeType DEF IInv
<1>5. TypeOK /\ ram' \in Entries /\ size' \in Nat
  <2>1. ram \in Entries
    BY DEF IInv, TypeOK
  <2>2. ram' \in Entries
    BY <2>1, <1>2, <1>3, PutAbsentType
  <2> QED
    BY <2>2, <1>2, <1>3 DEF IInv
<1>6. CASE written
  <2>1. data' = All /\ tail' = <<c>> /\ stream' = "write"
    BY <1>1, <1>6 DEF Buffered, All
  <2>2. All \in Seq(Chunks) /\ <<c>> \in Seq(Chunks) /\ Len(<<c>>) = 1
        /\ <<c>> # <<>> /\ <<c>>[1] = c
    BY <1>5, AllFacts, EmptySeq
  <2>3. acked' \subseteq Chunks /\ shaky' \in BOOLEAN /\ spoiled' \in BOOLEAN
        /\ outcome' \in {"ok", "threw"}
    BY <1>1, <1>5 DEF TypeOK
  <2>4. TypeOK'
    <3>1. data' \in Seq(Chunks) /\ tail' \in Seq(Chunks) /\ Len(tail') <= 1
      BY <2>1, <2>2
    <3> QED
      BY <3>1, <2>1, <2>3, <1>2, <1>5 DEF TypeOK
  <2>5. /\ Len(All') = here + 1 /\ All'[here + 1] = c
        /\ \A i \in 1 .. here : All'[i] = All[i]
        /\ DOMAIN All' = 1 .. here + 1 /\ DOMAIN All = 1 .. here
    BY <2>1, <2>2, <1>3, <1>5, ConcatProperties, LenProperties DEF All
  <2>6. MemoryInv'
    <3> SUFFICES ASSUME ~shaky' PROVE MemoryInv'
      BY DEF MemoryInv
    <3>1. ~shaky /\ size = here /\ acked' = acked \cup {c}
      BY <1>1, <1>6 DEF Returns
    <3>2. /\ Leads(Merge, All)
          /\ \A x \in acked \ gone : Merge[x] + 1 \in DOMAIN All /\ All[Merge[x] + 1] = x
      BY <3>1, <1>2, <1>3 DEF IInv, MemoryInv
    <3>3. \A x \in Chunks : x \in Range(All') <=> x \in Range(All) \/ x = c
      BY <2>5, <1>3 DEF Range
    <3>4. Leads(Merge', All')
      <4> SUFFICES ASSUME NEW x \in Chunks
                   PROVE  IF x \in Range(All')
                          THEN Merge'[x] + 1 \in DOMAIN All' /\ All'[Merge'[x] + 1] = x
                          ELSE Merge'[x] = None
        BY DEF Leads
      <4>1. IF x \in Range(All) THEN Merge[x] + 1 \in 1 .. here /\ All[Merge[x] + 1] = x
            ELSE Merge[x] = None
        BY <3>2, <2>5 DEF Leads
      <4>2. x = c /\ x \notin Range(All) => ram[c] = None
        BY <4>1, <1>5 DEF Merge, TypeOK
      <4>3. CASE x = c /\ ram[c] = None
        BY <4>3, <1>4, <3>1, <3>3, <2>5, <1>3
      <4>4. CASE ~(x = c /\ ram[c] = None)
        BY <4>1, <4>2, <4>4, <1>4, <3>3, <2>5, <1>3
      <4> QED
        BY <4>3, <4>4
    <3>5. \A x \in Chunks : x \in Range(All) => x \in Range(All')
      BY <3>3
    <3>6. \A x \in acked' \ gone' : x \in Chunks /\ x \in Range(All')
      <4>1. c \in Range(All')
        BY <3>3
      <4>2. \A x \in acked \ gone : x \in Range(All)
        BY <3>2 DEF Range
      <4> QED
        BY <4>1, <4>2, <3>1, <3>5, <1>2, <1>5 DEF TypeOK
    <3> QED
      BY <3>1, <3>4, <3>6, <2>5, <1>2, <1>3 DEF MemoryInv, Leads
  <2>7. DiskInv'
    <3> SUFFICES ASSUME ~spoiled', idx'.state = "whole" PROVE DiskInv'
      BY DEF DiskInv
    <3>1. ~spoiled /\ size = here /\ idx.state = "whole"
      BY <1>1, <1>2, <1>6
    <3>2. /\ idx.size <= here
          /\ idx.size = Len(data) => Leads(idx.entries, data)
          /\ tail # <<>> => idx.size <= Len(data)
          /\ idx.size \in Nat
      BY <3>1, <1>2, <1>5 DEF IInv, DiskInv, TypeOK
    <3>3. idx.size = here => Leads(idx.entries, All)
      <4>1. tail # <<>> => here # Len(data) /\ here > Len(data)
        <5>1. /\ Len(All) = Len(data) + Len(tail) /\ Len(tail) \in {0, 1}
              /\ (Len(tail) = 0 <=> tail = <<>>)
          BY <1>5, AllFacts
        <5> QED
          BY <5>1, <1>3
      <4>2. tail = <<>> => All = data
        BY <1>5, AllFacts
      <4> QED
        BY <4>1, <4>2, <3>2, <1>3
    <3> QED
      BY <3>1, <3>2, <3>3, <2>1, <1>2, <1>3 DEF DiskInv
  <2> QED
    BY <2>4, <2>6, <2>7, <1>2 DEF IInv, ClosedInv, NotDirtyMeansSaved
<1>7. CASE ~written
  <2>1. /\ data' = data /\ tail' = tail /\ acked' = acked \ {c} /\ stream' = "bad"
        /\ shaky' = shaky /\ spoiled' = spoiled /\ outcome' = "threw"
    <3>1. shaky \in BOOLEAN /\ spoiled \in BOOLEAN
      BY <1>5 DEF TypeOK
    <3> QED
      BY <3>1, <1>1, <1>7 DEF Buffered, Returns
  <2>2. TypeOK'
    BY <2>1, <1>2, <1>5 DEF TypeOK
  <2>3. All' = All
    BY <2>1 DEF All
  <2>4. MemoryInv'
    <3>1. acked \subseteq Chunks
      BY <1>5 DEF TypeOK
    <3> QED
      BY <3>1, <2>1, <2>3, <1>2, <1>3, <1>4 DEF IInv, MemoryInv
  <2>5. DiskInv'
    <3>1. idx.size \in Nat
      BY <1>5 DEF TypeOK
    <3> QED
      BY <3>1, <2>1, <1>2, <1>3 DEF IInv, DiskInv
  <2> QED
    BY <2>2, <2>4, <2>5, <1>2 DEF IInv, ClosedInv, NotDirtyMeansSaved
<1> QED
  BY <1>6, <1>7

LEMMA FindInv == ASSUME IInv, NEW c \in Chunks, Find(c) PROVE IInv'
<1>1. PICK flushed \in BOOLEAN :
        /\ tail = <<>> => flushed
        /\ data' = IF flushed THEN All ELSE data
        /\ tail' = IF flushed THEN <<>> ELSE tail
        /\ stream' \in {stream, "bad"}
  BY DEF Find, All
<1>2. /\ mode = "open" /\ outcome' = "ok"
      /\ UNCHANGED <<idx, mode, dirty, size, ram, fdata, acked, gone, shaky, spoiled>>
  BY DEF Find
<1>3. TypeOK /\ Merge' = Merge
  BY <1>2 DEF IInv, Merge
<1>4. /\ <<>> \in Seq(Chunks) /\ Len(<<>>) = 0 /\ All \in Seq(Chunks)
      /\ Len(data) \in Nat /\ (tail # <<>> => Len(All) = Len(data) + 1)
      /\ (tail = <<>> => All = data)
  BY <1>3, AllFacts, EmptySeq
<1>5. TypeOK'
  <2>1. data' \in Seq(Chunks) /\ tail' \in Seq(Chunks) /\ Len(tail') <= 1
    <3>1. data \in Seq(Chunks) /\ tail \in Seq(Chunks) /\ Len(tail) <= 1
      BY <1>3 DEF TypeOK
    <3> QED
      BY <3>1, <1>1, <1>4
  <2> QED
    BY <2>1, <1>1, <1>2, <1>3 DEF TypeOK
<1>6. All' = All
  BY <1>1, <1>4, ConcatEmptySeq DEF All
<1>7. MemoryInv'
  BY <1>2, <1>3, <1>6 DEF IInv, MemoryInv
<1>8. DiskInv'
  <2>1. idx.size \in Nat
    BY <1>3 DEF TypeOK
  <2> QED
    BY <2>1, <1>1, <1>2, <1>4 DEF IInv, DiskInv
<1>9. NotDirtyMeansSaved'
  BY <1>1, <1>2, <1>4 DEF IInv, NotDirtyMeansSaved
<1> QED
  BY <1>2, <1>5, <1>7, <1>8, <1>9 DEF IInv, ClosedInv

\* What a flush leaves on disk is right, whether it succeeds or not.
LEMMA FlushedDisk ==
  ASSUME IInv, mode = "open", NEW r \in FlushResults, FlushToDisk(r)
  PROVE  /\ data' \in Seq(Chunks) /\ tail' = <<>> /\ gone' \subseteq Chunks
         /\ idx' \in [state : IndexStates, size : Nat, entries : Entries]
         /\ spoiled' \in BOOLEAN
         /\ data' = All \/ (data' = data /\ tail # <<>> /\ gone' = gone \cup Range(tail))
         /\ gone \subseteq gone'
         /\ ~spoiled' /\ idx'.state = "whole" =>
              /\ idx'.size = Len(data') => Leads(idx'.entries, data')
              /\ idx'.size <= size
<1>1. TypeOK /\ Merge \in Entries
  BY MergeType DEF IInv
<1>2. /\ data \in Seq(Chunks) /\ All \in Seq(Chunks)
      /\ Len(data) \in Nat /\ Len(tail) \in {0, 1} /\ (Len(tail) = 0 <=> tail = <<>>)
      /\ Len(All) = Len(data) + Len(tail)
      /\ (tail = <<>> => All = data)
      /\ Range(tail) \subseteq Chunks
  <2>1. Range(tail) \subseteq Chunks
    <3>1. tail \in Seq(Chunks)
      BY <1>1 DEF TypeOK
    <3> QED
      BY <3>1, LenProperties, ElementOfSeq DEF Range
  <2> QED
    BY <2>1, <1>1, AllFacts DEF TypeOK
<1>3. /\ size \in Nat /\ gone \subseteq Chunks /\ idx.size \in Nat
      /\ shaky \in BOOLEAN /\ spoiled \in BOOLEAN
      /\ idx \in [state : IndexStates, size : Nat, entries : Entries]
  BY <1>1 DEF TypeOK
<1>4. /\ r.written \in BOOLEAN /\ (tail = <<>> => r.written)
      /\ r.saved \in {"whole", "header", "body", "threw"}
  BY DEF FlushResults
<1>5. /\ data' = IF r.written THEN All ELSE data
      /\ gone' = IF r.written THEN gone ELSE gone \cup Range(tail)
      /\ tail' = <<>>
      /\ idx' = IF r.saved = "threw" THEN idx ELSE Index(r.saved, size, Merge)
      /\ spoiled' = IF r.saved = "threw" THEN spoiled ELSE shaky
  BY DEF FlushToDisk, All
<1>6. /\ data' \in Seq(Chunks) /\ gone' \subseteq Chunks /\ gone \subseteq gone'
      /\ spoiled' \in BOOLEAN
      /\ data' = All \/ (data' = data /\ tail # <<>> /\ gone' = gone \cup Range(tail))
  BY <1>2, <1>3, <1>4, <1>5
<1>7. CASE r.saved = "threw"
  BY <1>2, <1>3, <1>5, <1>6, <1>7 DEF IInv, DiskInv
<1>8. CASE r.saved # "threw"
  <2>1. /\ idx' = Index(r.saved, size, Merge) /\ spoiled' = shaky
        /\ idx'.size = size /\ idx'.entries = Merge
    BY <1>5, <1>8 DEF Index
  <2>2. idx' \in [state : IndexStates, size : Nat, entries : Entries]
    BY <2>1, <1>1, <1>3, <1>4, <1>8 DEF Index, IndexStates
  <2>3. ~shaky /\ size = Len(data') => Leads(Merge, data')
    <3>1. ~shaky => size >= Len(All) /\ (size = Len(All) => Leads(Merge, All))
      BY DEF IInv, MemoryInv
    <3> QED
      BY <3>1, <1>2, <1>3, <1>6
  <2> QED
    BY <2>1, <2>2, <2>3, <1>3, <1>5, <1>6
<1> QED
  BY <1>7, <1>8

LEMMA GoneFacts ==
  ASSUME Gone
  PROVE  /\ mode' = "closed" /\ stream' = "read" /\ dirty' = FALSE /\ size' = 0
         /\ ram' = NoEntries /\ fdata' = NoEntries /\ NoEntries \in Entries
         /\ acked' = {} /\ shaky' = FALSE
BY DEF Gone, NoEntries, Entries

\* A step to a closed pool needs no more of memory.
LEMMA ClosedStep ==
  ASSUME TypeOK, Gone, data' \in Seq(Chunks), tail' = <<>>, gone' \subseteq Chunks,
         idx' \in [state : IndexStates, size : Nat, entries : Entries],
         outcome' \in {"ok", "terminated"}, spoiled' \in BOOLEAN,
         ~spoiled' /\ idx'.state = "whole" /\ idx'.size = Len(data') => Leads(idx'.entries, data')
  PROVE  IInv'
<1>1. <<>> \in Seq(Chunks) /\ Len(<<>>) = 0
  BY EmptySeq
<1>2. TypeOK'
  <2>1. tail' \in Seq(Chunks) /\ Len(tail') <= 1
    BY <1>1
  <2>2. /\ mode' = "closed" /\ stream' = "read" /\ dirty' \in BOOLEAN /\ size' \in Nat
        /\ ram' \in Entries /\ fdata' \in Entries /\ acked' \subseteq Chunks
        /\ shaky' \in BOOLEAN
    BY GoneFacts
  <2> QED
    BY <2>1, <2>2 DEF TypeOK
<1> QED
  BY <1>2, GoneFacts DEF IInv, ClosedInv, NotDirtyMeansSaved, MemoryInv, DiskInv

LEMMA CloseInv == ASSUME IInv, Close PROVE IInv'
<1>1. CASE ~dirty
  <2>1. /\ Gone /\ outcome' = "ok" /\ UNCHANGED <<data, idx, tail, gone, spoiled>>
        /\ tail = <<>>
    BY <1>1 DEF Close, IInv, NotDirtyMeansSaved
  <2>2. /\ data \in Seq(Chunks) /\ gone \subseteq Chunks /\ spoiled \in BOOLEAN
        /\ idx \in [state : IndexStates, size : Nat, entries : Entries]
    BY DEF IInv, TypeOK
  <2>3. ~spoiled /\ idx.state = "whole" /\ idx.size = Len(data) => Leads(idx.entries, data)
    BY DEF IInv, DiskInv
  <2> QED
    BY <2>1, <2>2, <2>3, ClosedStep DEF IInv
<1>2. CASE dirty
  <2>1. PICK r \in FlushResults :
          /\ FlushToDisk(r)
          /\ outcome' = IF Good(r) THEN "ok" ELSE "terminated"
    BY <1>2 DEF Close
  <2>2. Gone /\ mode = "open"
    BY DEF Close
  <2> QED
    BY <2>1, <2>2, FlushedDisk, ClosedStep DEF IInv
<1> QED
  BY <1>1, <1>2 DEF IInv, TypeOK

LEMMA CrashInv == ASSUME IInv, Crash PROVE IInv'
<1>1. /\ Gone /\ data' \in {data, All} /\ tail' = <<>> /\ outcome' = "ok"
      /\ UNCHANGED <<idx, gone, spoiled>>
  BY DEF Crash, All
<1>2. /\ data \in Seq(Chunks) /\ gone \subseteq Chunks /\ spoiled \in BOOLEAN
      /\ idx \in [state : IndexStates, size : Nat, entries : Entries] /\ idx.size \in Nat
  BY DEF IInv, TypeOK
<1>3. /\ All \in Seq(Chunks) /\ Len(data) \in Nat /\ (tail = <<>> => All = data)
      /\ (tail # <<>> => Len(All) = Len(data) + 1)
  BY AllFacts DEF IInv
<1>4. ~spoiled /\ idx.state = "whole" /\ idx.size = Len(data') => Leads(idx.entries, data')
  BY <1>1, <1>2, <1>3 DEF IInv, DiskInv
<1> QED
  BY <1>1, <1>2, <1>3, <1>4, ClosedStep DEF IInv
\* Memory after a flush that has lost nothing from the index.
LEMMA FlushedMemory ==
  ASSUME IInv, mode = "open", UNCHANGED <<mode, size, acked>>, Merge' = Merge,
         shaky' = shaky, All' = data', gone \subseteq gone',
         data' = All \/ (data' = data /\ tail # <<>> /\ gone' = gone \cup Range(tail))
  PROVE  MemoryInv'
<1> SUFFICES ASSUME ~shaky' PROVE MemoryInv'
  BY DEF MemoryInv
<1>1. /\ size >= Len(All)
      /\ size = Len(All) => Leads(Merge, All)
      /\ \A c \in acked \ gone : Merge[c] + 1 \in DOMAIN All /\ All[Merge[c] + 1] = c
  BY DEF IInv, MemoryInv
<1>2. CASE data' = All
  BY <1>1, <1>2 DEF MemoryInv
<1>3. CASE data' = data /\ tail # <<>> /\ gone' = gone \cup Range(tail)
  <2>1. /\ Len(data) \in Nat /\ DOMAIN data = 1 .. Len(data)
        /\ DOMAIN All = 1 .. Len(data) + 1 /\ Len(All) = Len(data) + 1
        /\ \A i \in 1 .. Len(data) : All[i] = data[i]
        /\ All[Len(data) + 1] = tail[1] /\ Range(tail) = {tail[1]}
    BY <1>3, AllFacts DEF IInv
  <2>2. size \in Nat
    BY DEF IInv, TypeOK
  <2>3. ASSUME NEW c \in acked \ gone'
        PROVE  Merge[c] + 1 \in DOMAIN data /\ data[Merge[c] + 1] = c
    <3>1. c \in acked \ gone /\ c # tail[1]
      BY <1>3, <2>1, <2>3
    <3>2. Merge[c] + 1 \in 1 .. Len(data) + 1 /\ All[Merge[c] + 1] = c
      BY <3>1, <1>1, <2>1
    <3>3. Merge[c] + 1 # Len(data) + 1
      BY <3>1, <3>2, <2>1
    <3>4. Merge[c] + 1 \in 1 .. Len(data)
      BY <3>2, <3>3, <2>1
    <3> QED
      BY <3>2, <3>4, <2>1
  <2>4. All' = data /\ size' = size /\ size' >= Len(All') /\ size' # Len(All')
    <3>1. All' = data /\ size' = size
      BY <1>3
    <3>2. size >= Len(All)
      BY <1>1
    <3>3. Len(All) = Len(data) + 1 /\ Len(data) \in Nat
      BY <2>1
    <3>4. size >= Len(data) /\ size # Len(data)
      BY <3>2, <3>3, <2>2
    <3> QED
      BY <3>1, <3>4
  <2>5. \A c \in (acked \ gone)' : Merge'[c] + 1 \in DOMAIN All' /\ All'[Merge'[c] + 1] = c
    BY <2>3, <2>4
  <2> QED
    BY <2>4, <2>5 DEF MemoryInv
<1> QED
  BY <1>2, <1>3

LEMMA FlushInv == ASSUME IInv, FlushPool PROVE IInv'
<1>1. PICK r \in FlushResults :
        /\ FlushToDisk(r)
        /\ stream' = IF r.opened THEN "read" ELSE "bad"
        /\ dirty' = DirtyAfter(r)
        /\ ram' = IF r.saved = "threw" THEN ram ELSE NoEntries
        /\ fdata' \in IF Good(r) THEN {Merge}
                      ELSE IF r.saved = "body" /\ r.loaded THEN Garbled ELSE {fdata}
        /\ shaky' = (shaky \/ ~(Good(r) \/ r.saved = "threw"))
        /\ outcome' = IF Good(r) THEN "ok" ELSE "threw"
  BY DEF FlushPool
<1>2. mode = "open" /\ UNCHANGED <<mode, size, acked>>
  BY DEF FlushPool
<1>3. /\ TypeOK /\ Merge \in Entries
      /\ ram \in Entries /\ fdata \in Entries /\ size \in Nat /\ shaky \in BOOLEAN
      /\ gone \subseteq Chunks /\ acked \subseteq Chunks
  <2>1. TypeOK
    BY DEF IInv
  <2> QED
    BY <2>1, MergeType DEF TypeOK
<1>4. /\ data' \in Seq(Chunks) /\ tail' = <<>> /\ gone' \subseteq Chunks
      /\ idx' \in [state : IndexStates, size : Nat, entries : Entries]
      /\ spoiled' \in BOOLEAN
      /\ data' = All \/ (data' = data /\ tail # <<>> /\ gone' = gone \cup Range(tail))
      /\ gone \subseteq gone'
      /\ ~spoiled' /\ idx'.state = "whole" =>
           /\ idx'.size = Len(data') => Leads(idx'.entries, data')
           /\ idx'.size <= size
  BY <1>1, <1>2, FlushedDisk
<1>5. <<>> \in Seq(Chunks) /\ Len(<<>>) = 0 /\ NoEntries \in Entries
  BY EmptySeq DEF NoEntries, Entries
<1>6. Garbled \subseteq Entries
  BY <1>3 DEF Garbled, Entries, None
<1>7. TypeOK'
  <2>1. /\ tail' \in Seq(Chunks) /\ Len(tail') <= 1 /\ ram' \in Entries /\ fdata' \in Entries
        /\ dirty' \in BOOLEAN /\ shaky' \in BOOLEAN /\ stream' \in {"read", "bad"}
        /\ outcome' \in {"ok", "threw"}
    BY <1>1, <1>3, <1>4, <1>5, <1>6 DEF DirtyAfter
  <2> QED
    BY <2>1, <1>2, <1>3, <1>4 DEF TypeOK
<1>8. All' = data'
  BY <1>4, ConcatEmptySeq DEF All
<1>9. CASE Good(r)
  <2>1. /\ ram' = NoEntries /\ fdata' = Merge /\ shaky' = shaky /\ dirty' = FALSE
        /\ idx' = Index("whole", size, Merge)
    BY <1>1, <1>3, <1>9 DEF Good, DirtyAfter, FlushToDisk
  <2>2. Merge' = Merge
    BY <2>1, <1>3 DEF Merge, NoEntries, Entries
  <2>3. MemoryInv'
    BY <2>1, <2>2, <1>2, <1>4, <1>8, FlushedMemory
  <2> QED
    BY <2>1, <2>3, <1>2, <1>4, <1>7 DEF IInv, ClosedInv, NotDirtyMeansSaved, DiskInv
<1>10. CASE r.saved = "threw"
  <2>1. ram' = ram /\ fdata' = fdata /\ shaky' = shaky /\ dirty' = TRUE
    BY <1>1, <1>3, <1>10 DEF Good, DirtyAfter
  <2>2. Merge' = Merge
    BY <2>1 DEF Merge
  <2>3. MemoryInv'
    BY <2>1, <2>2, <1>2, <1>4, <1>8, FlushedMemory
  <2> QED
    BY <2>1, <2>3, <1>2, <1>4, <1>7 DEF IInv, ClosedInv, NotDirtyMeansSaved, DiskInv
<1>11. CASE ~Good(r) /\ r.saved # "threw"
  <2>1. shaky' = TRUE /\ dirty' = TRUE
    BY <1>1, <1>11 DEF DirtyAfter
  <2> QED
    BY <2>1, <1>2, <1>4, <1>7 DEF IInv, ClosedInv, NotDirtyMeansSaved, DiskInv, MemoryInv
<1> QED
  BY <1>9, <1>10, <1>11

\* The steps of a pool that nobody has open.
LEMMA RebuildInv == ASSUME IInv, Rebuild PROVE IInv'
<1>1. PICK saved \in {"whole", "header", "body", "threw"} :
        /\ idx' = IF saved = "threw" THEN idx ELSE Index(saved, Len(data), FirstOf(data))
        /\ spoiled' = (spoiled /\ saved = "threw")
        /\ outcome' = IF saved = "threw" THEN "threw" ELSE "ok"
  BY DEF Rebuild
<1>2. mode = "closed" /\ UNCHANGED <<data, sessionVars, acked, gone, shaky>>
  BY DEF Rebuild
<1>3. TypeOK /\ data \in Seq(Chunks) /\ Len(data) \in Nat /\ spoiled \in BOOLEAN
  BY AllFacts DEF IInv, TypeOK
<1>4. FirstOf(data) \in Entries /\ Leads(FirstOf(data), data)
  BY <1>3, WalkIsExact
<1>5. TypeOK'
  <2>1. idx' \in [state : IndexStates, size : Nat, entries : Entries]
    BY <1>1, <1>3, <1>4 DEF TypeOK, Index, IndexStates
  <2>2. spoiled' \in BOOLEAN /\ outcome' \in {"ok", "threw"}
    BY <1>1, <1>3
  <2> QED
    BY <2>1, <2>2, <1>2, <1>3 DEF TypeOK, sessionVars
<1>6. DiskInv'
  <2>1. tail = <<>>
    BY <1>2 DEF IInv, ClosedInv
  <2>2. CASE saved = "threw"
    BY <2>1, <2>2, <1>1, <1>2, <1>3 DEF IInv, DiskInv, sessionVars
  <2>3. CASE saved # "threw"
    BY <2>1, <2>3, <1>1, <1>2, <1>4 DEF DiskInv, Index, sessionVars
  <2> QED
    BY <2>2, <2>3
<1> QED
  BY <1>2, <1>5, <1>6 DEF IInv, ClosedInv, NotDirtyMeansSaved, MemoryInv, sessionVars

LEMMA ClosedIndexInv ==
  ASSUME IInv, RecoveryFails \/ RemoveIndex
  PROVE  IInv'
<1>1. /\ mode = "closed" /\ UNCHANGED <<data, sessionVars, acked, gone, shaky, spoiled>>
      /\ idx' = idx \/ idx' = Index("none", 0, NoEntries)
      /\ outcome' \in {"ok", "not recovered"}
  BY DEF RecoveryFails, RemoveIndex
<1>2. TypeOK'
  <2>1. Index("none", 0, NoEntries) \in [state : IndexStates, size : Nat, entries : Entries]
    BY DEF Index, IndexStates, NoEntries, Entries
  <2>2. idx' \in [state : IndexStates, size : Nat, entries : Entries]
    BY <2>1, <1>1 DEF IInv, TypeOK
  <2> QED
    BY <2>2, <1>1 DEF IInv, TypeOK, sessionVars
<1>3. DiskInv'
  <2>1. UNCHANGED <<data, mode, size, tail, spoiled>>
    BY <1>1 DEF sessionVars
  <2>2. CASE idx' = idx
    BY <2>1, <2>2 DEF IInv, DiskInv
  <2>3. CASE idx' = Index("none", 0, NoEntries)
    BY <2>3 DEF DiskInv, Index
  <2> QED
    BY <2>2, <2>3, <1>1
<1> QED
  BY <1>1, <1>2, <1>3 DEF IInv, ClosedInv, NotDirtyMeansSaved, MemoryInv, sessionVars

LEMMA StepInv == IInv /\ [Next]_vars => IInv'
<1> SUFFICES ASSUME IInv, [Next]_vars PROVE IInv'
  OBVIOUS
<1>1. CASE Open
  BY <1>1, OpenInv
<1>2. CASE FlushPool
  BY <1>2, FlushInv
<1>3. CASE Close
  BY <1>3, CloseInv
<1>4. CASE Crash
  BY <1>4, CrashInv
<1>5. CASE Rebuild
  BY <1>5, RebuildInv
<1>6. CASE RecoveryFails \/ RemoveIndex
  BY <1>6, ClosedIndexInv
<1>7. ASSUME NEW c \in Chunks, Insert(c) PROVE IInv'
  BY <1>7, InsertInv
<1>8. ASSUME NEW c \in Chunks, Find(c) PROVE IInv'
  BY <1>8, FindInv
<1>9. CASE UNCHANGED vars
  BY <1>9 DEF vars, sessionVars, IInv, TypeOK, ClosedInv, NotDirtyMeansSaved, MemoryInv,
              DiskInv, All, Merge
<1> QED
  BY <1>1, <1>2, <1>3, <1>4, <1>5, <1>6, <1>7, <1>8, <1>9 DEF Next

THEOREM Invariance == Spec => []IInv
BY InitInv, StepInv, PTL DEF Spec

\* TypeOK, whatever fails.
THEOREM TypeCorrect == Spec => []TypeOK
BY Invariance, PTL DEF IInv

\* An index that is accepted leads to all chunks of its file.
THEOREM AcceptedIndexIsExact == Spec => []AcceptedIndexSurvives
<1>1. IInv => AcceptedIndexSurvives
  BY DEF IInv, DiskInv, AcceptedIndexSurvives, Accepted
<1> QED
  BY <1>1, Invariance, PTL

\* A chunk whose last insert returned is found in its session.
THEOREM AckedIsFound == Spec => []AckedFound
<1>1. IInv => AckedFound
  BY DEF IInv, MemoryInv, AckedFound, All
<1> QED
  BY <1>1, Invariance, PTL

\* A flush that failed is not forgotten.
THEOREM NotDirtyIsSaved == Spec => []NotDirtyMeansSaved
BY Invariance, PTL DEF IInv
=============================================================================
