-------------------------- MODULE BackupWalkProofs --------------------------
(***************************************************************************)
(* The visitor's stack is the path of the walk, for any pool, any blocks   *)
(* and walks of any depth, and its front is the node that is visited.      *)
(* What the visitor is told is what the node's block says: the loops over  *)
(* a block and over its items are shown to be defined, and then what they  *)
(* compute is shown by taking a least counterexample.                      *)
(***************************************************************************)
EXTENDS BackupWalk, SequenceTheorems, WellFoundedInduction, TLAPS

Frames == [oid : Oids \cup {Zero}, step : Steps]

\* Types, without those of the reports.
TypeInv ==
  /\ pool \in [Oids -> Contents]
  /\ oids \in Seq(Oids) /\ before \in Seq(Oids)
  /\ calls \in Seq(Frames)
  /\ flying \in {"none", "prune", "error"}
  /\ outcome \in {"none", "walking", "done", "threw"}

\* Only an innermost call has not pushed, and what was pushed has a handler;
\* calls around another are in the child's walk; Prune is in flight only where
\* it was thrown.
CallInv ==
  /\ \A i \in 1 .. Len(calls) : calls[i].step # "find" => Handled(calls[i].oid)
  /\ \A i \in 2 .. Len(calls) : calls[i].step = "descend"
  /\ flying = "prune" => calls # <<>> /\ calls[1].step = "descend"
  /\ calls # <<>> \/ flying # "none" => outcome = "walking"

\* StackIsPath, place by place.
StackInv ==
  flying # "error" /\ outcome \in {"walking", "done"} =>
    /\ Len(oids) = Len(Pushed) + Len(before)
    /\ \A i \in 1 .. Len(Pushed) : oids[i] = Pushed[i].oid
    /\ \A i \in 1 .. Len(before) : oids[Len(Pushed) + i] = before[i]

IInv == TypeInv /\ CallInv /\ StackInv /\ LocationRight

-----------------------------------------------------------------------------
(* Stacks as sequences *)

LEMMA NonEmptyFacts ==
  ASSUME NEW S, NEW s \in Seq(S), s # <<>>
  PROVE  /\ Len(s) \in Nat /\ Len(s) >= 1 /\ Head(s) = s[1] /\ s[1] \in S
         /\ Tail(s) \in Seq(S) /\ Len(Tail(s)) = Len(s) - 1
         /\ \A i \in 1 .. Len(s) - 1 : Tail(s)[i] = s[i + 1]
<1>1. Len(s) \in Nat /\ Len(s) >= 1
  BY EmptySeq, LenProperties
<1> QED
  BY <1>1, HeadTailProperties, ElementOfSeq

LEMMA PushFacts ==
  ASSUME NEW S, NEW s \in Seq(S), NEW e \in S
  PROVE  /\ <<e>> \o s \in Seq(S) /\ Len(<<e>> \o s) = Len(s) + 1
         /\ <<e>> \o s # <<>>
         /\ (<<e>> \o s)[1] = e
         /\ \A i \in 1 .. Len(s) : (<<e>> \o s)[i + 1] = s[i]
<1>1. <<e>> \in Seq(S) /\ Len(<<e>>) = 1 /\ <<e>>[1] = e /\ Len(s) \in Nat
  BY LenProperties
<1>2. /\ <<e>> \o s \in Seq(S) /\ Len(<<e>> \o s) = 1 + Len(s)
      /\ \A i \in 1 .. 1 + Len(s) : (<<e>> \o s)[i] = IF i <= 1 THEN <<e>>[i] ELSE s[i - 1]
  BY <1>1, ConcatProperties
<1> QED
  BY <1>1, <1>2, EmptySeq

\* The innermost call at another step.
LEMMA GotoFacts ==
  ASSUME IInv, calls # <<>>, NEW step \in Steps
  PROVE  /\ Goto(step) \in Seq(Frames) /\ Len(Goto(step)) = Len(calls) /\ Goto(step) # <<>>
         /\ Goto(step)[1] = [oid |-> calls[1].oid, step |-> step]
         /\ \A i \in 2 .. Len(calls) : Goto(step)[i] = calls[i]
<1>1. /\ Top = calls[1] /\ calls[1] \in Frames /\ Len(calls) \in Nat /\ Len(calls) >= 1
      /\ Tail(calls) \in Seq(Frames) /\ Len(Tail(calls)) = Len(calls) - 1
      /\ \A i \in 1 .. Len(calls) - 1 : Tail(calls)[i] = calls[i + 1]
  BY NonEmptyFacts DEF IInv, TypeInv, Top
<1>2. /\ [Top EXCEPT !.step = step] = [oid |-> calls[1].oid, step |-> step]
      /\ [Top EXCEPT !.step = step] \in Frames
  BY <1>1 DEF Frames
<1>3. \A i \in 1 .. Len(Tail(calls)) : Goto(step)[i + 1] = Tail(calls)[i]
  BY <1>1, <1>2, PushFacts DEF Goto
<1>4. ASSUME NEW i \in 2 .. Len(calls) PROVE Goto(step)[i] = calls[i]
  <2>1. i - 1 \in 1 .. Len(Tail(calls)) /\ (i - 1) + 1 = i
    BY <1>1
  <2> QED
    BY <2>1, <1>1, <1>3
<1> QED
  BY <1>1, <1>2, <1>4, PushFacts DEF Goto

\* Pushed is a sequence, empty or not.
LEMMA PushedFacts ==
  ASSUME IInv
  PROVE  /\ Len(calls) \in Nat /\ Len(oids) \in Nat /\ Len(before) \in Nat
         /\ Pushed \in Seq(Frames) /\ Len(Pushed) \in Nat
         /\ calls # <<>> => Len(calls) >= 1 /\ Top = calls[1] /\ Top \in Frames
BY NonEmptyFacts, LenProperties DEF IInv, TypeInv, Pushed, Top

-----------------------------------------------------------------------------
(* The invariant, action by action *)

LEMMA InitInv == Init => IInv
<1> SUFFICES ASSUME Init PROVE IInv
  OBVIOUS
<1>1. <<>> \in Seq(Oids) /\ <<>> \in Seq(Frames) /\ Len(<<>>) = 0
  BY EmptySeq
<1> QED
  BY <1>1 DEF Init, IInv, TypeInv, CallInv, StackInv, LocationRight

LEMMA WalkInv == ASSUME IInv, NEW o \in Oids, Walk(o) PROVE IInv'
<1>1. Call(o) \in Frames /\ Call(o).step = "find"
  BY DEF Call, Frames, Steps
<1>2. calls' \in Seq(Frames) /\ Len(calls') = 1 /\ calls'[1] = Call(o) /\ calls' # <<>>
  BY <1>1 DEF Walk
<1>3. Len(Pushed') = 0 /\ Len(Pushed) = 0
  <2>1. Pushed' = Tail(calls')
    BY <1>1, <1>2 DEF Pushed, Top
  <2> QED
    BY <2>1, <1>2, NonEmptyFacts, EmptySeq DEF Walk, Pushed
<1>4. StackInv'
  BY <1>3, PushedFacts DEF Walk, StackInv, IInv, TypeInv
<1> QED
  BY <1>1, <1>2, <1>4 DEF Walk, IInv, TypeInv, CallInv, LocationRight

LEMMA PushOidInv == ASSUME IInv, PushOid PROVE IInv'
<1>1. calls # <<>> /\ Top.step = "find" /\ flying = "none" /\ Handled(Top.oid)
  BY DEF PushOid, At
<1>2. Top = calls[1] /\ Top.oid \in Oids
  BY <1>1, PushedFacts DEF Handled
<1>3. /\ calls' \in Seq(Frames) /\ Len(calls') = Len(calls) /\ calls' # <<>>
      /\ calls'[1] = [oid |-> calls[1].oid, step |-> "handle"]
      /\ \A i \in 2 .. Len(calls) : calls'[i] = calls[i]
  BY <1>1, GotoFacts DEF PushOid, Steps
<1>4. /\ oids' \in Seq(Oids) /\ Len(oids') = Len(oids) + 1 /\ oids'[1] = calls[1].oid
      /\ \A i \in 1 .. Len(oids) : oids'[i + 1] = oids[i]
  BY <1>2, PushFacts DEF PushOid, IInv, TypeInv
<1>5. /\ Pushed = Tail(calls) /\ Pushed' = calls'
      /\ Len(Pushed) = Len(calls) - 1
      /\ \A i \in 1 .. Len(calls) - 1 : Pushed[i] = calls[i + 1]
  BY <1>1, <1>3, NonEmptyFacts DEF Pushed, Top, IInv, TypeInv
<1>6. CallInv'
  BY <1>1, <1>2, <1>3, PushedFacts DEF PushOid, IInv, CallInv, Handled
<1>7. ASSUME flying # "error", outcome \in {"walking", "done"} PROVE StackInv'
  <2>1. /\ Len(oids) = Len(calls) - 1 + Len(before)
        /\ \A i \in 1 .. Len(calls) - 1 : oids[i] = calls[i + 1].oid
        /\ \A i \in 1 .. Len(before) : oids[Len(calls) - 1 + i] = before[i]
    BY <1>5, <1>7 DEF IInv, StackInv
  <2>2. ASSUME NEW i \in 1 .. Len(calls) PROVE oids'[i] = calls'[i].oid
    <3>1. CASE i = 1
      BY <3>1, <1>3, <1>4
    <3>2. CASE i # 1
      <4>1. i \in 2 .. Len(calls) /\ i - 1 \in 1 .. Len(calls) - 1 /\ (i - 1) + 1 = i
            /\ i - 1 \in 1 .. Len(oids)
        BY <3>2, <2>1, PushedFacts
      <4>2. oids'[(i - 1) + 1] = oids[i - 1] /\ oids[i - 1] = calls[(i - 1) + 1].oid
        BY <4>1, <2>1, <1>4
      <4> QED
        BY <4>1, <4>2, <1>3
    <3> QED
      BY <3>1, <3>2
  <2>3. ASSUME NEW i \in 1 .. Len(before) PROVE oids'[Len(calls) + i] = before[i]
    <3>1. /\ Len(calls) - 1 + i \in 1 .. Len(oids)
          /\ (Len(calls) - 1 + i) + 1 = Len(calls) + i
      BY <2>1, <1>1, PushedFacts
    <3> QED
      BY <3>1, <2>1, <1>4
  <2> QED
    BY <2>1, <2>2, <2>3, <1>3, <1>4, <1>5, PushedFacts DEF PushOid, StackInv
<1>8. StackInv'
  BY <1>7 DEF PushOid, StackInv
<1> QED
  BY <1>3, <1>4, <1>6, <1>8 DEF PushOid, IInv, TypeInv, LocationRight

\* A call that ends with an exception other than Prune.
LEMMA ThrowInv ==
  ASSUME IInv, calls # <<>>, calls' = Tail(calls), flying' = "error",
         UNCHANGED <<pool, oids, reports, outcome, before>>
  PROVE  IInv'
<1>1. /\ calls' \in Seq(Frames) /\ Len(calls') = Len(calls) - 1 /\ Len(calls) \in Nat
      /\ \A i \in 1 .. Len(calls') : calls'[i] = calls[i + 1]
  BY NonEmptyFacts DEF IInv, TypeInv
<1>2. CallInv'
  BY <1>1 DEF IInv, CallInv, Handled
<1> QED
  BY <1>1, <1>2 DEF IInv, TypeInv, StackInv, LocationRight

\* A call that ends and pops its OID.
LEMMA PopInv ==
  ASSUME IInv, calls # <<>>, calls' = Tail(calls), calls[1].step = "descend",
         flying # "error", flying' = "none", oids' = Tail(oids),
         UNCHANGED <<pool, reports, outcome, before>>
  PROVE  IInv'
<1>1. /\ calls' \in Seq(Frames) /\ Len(calls') = Len(calls) - 1
      /\ Len(calls) \in Nat /\ Len(calls) >= 1
      /\ \A i \in 1 .. Len(calls') : calls'[i] = calls[i + 1]
  BY NonEmptyFacts DEF IInv, TypeInv
<1>2. Pushed = calls
  BY PushedFacts DEF Pushed
<1>3. Pushed' = calls'
  <2>1. calls' # <<>> => Head(calls') = calls[2] /\ 2 \in 2 .. Len(calls)
    BY <1>1, NonEmptyFacts
  <2> QED
    BY <2>1 DEF Pushed, Top, IInv, CallInv
<1>4. /\ outcome = "walking"
      /\ Len(oids) = Len(calls) + Len(before)
      /\ \A i \in 1 .. Len(calls) : oids[i] = calls[i].oid
      /\ \A i \in 1 .. Len(before) : oids[Len(calls) + i] = before[i]
  BY <1>2 DEF IInv, CallInv, StackInv
<1>5. /\ oids' \in Seq(Oids) /\ Len(oids') = Len(oids) - 1
      /\ \A i \in 1 .. Len(oids) - 1 : oids'[i] = oids[i + 1]
  <2>1. oids # <<>>
    BY <1>1, <1>4, PushedFacts, EmptySeq
  <2> QED
    BY <2>1, NonEmptyFacts DEF IInv, TypeInv
<1>6. CallInv'
  BY <1>1, <1>4 DEF IInv, CallInv, Handled
<1>7. \A i \in 1 .. Len(calls') : oids'[i] = calls'[i].oid
  BY <1>1, <1>4, <1>5, PushedFacts
<1>8. ASSUME NEW i \in 1 .. Len(before) PROVE oids'[Len(calls') + i] = before[i]
  <2>1. /\ Len(calls') + i \in 1 .. Len(oids) - 1
        /\ (Len(calls') + i) + 1 = Len(calls) + i
    BY <1>1, <1>4, PushedFacts
  <2> QED
    BY <2>1, <1>4, <1>5
<1>9. StackInv'
  BY <1>1, <1>3, <1>4, <1>5, <1>7, <1>8, PushedFacts DEF StackInv
<1> QED
  BY <1>1, <1>5, <1>6, <1>9 DEF IInv, TypeInv, LocationRight

LEMMA VisitInv == ASSUME IInv, Visit PROVE IInv'
<1>1. calls # <<>> /\ flying = "none" /\ Top.step = "handle"
  BY DEF Visit, At
<1>2. Pushed = calls /\ outcome = "walking" /\ Len(calls) >= 1 /\ Top = calls[1]
  BY <1>1, PushedFacts DEF Pushed, IInv, CallInv
<1>3. /\ Len(oids) = Len(calls) + Len(before)
      /\ \A i \in 1 .. Len(calls) : oids[i] = calls[i].oid
      /\ \A i \in 1 .. Len(before) : oids[Len(calls) + i] = before[i]
  BY <1>1, <1>2 DEF IInv, StackInv
<1>4. Head(oids) = Top.oid
  <2>1. oids # <<>>
    BY <1>2, <1>3, PushedFacts, EmptySeq
  <2> QED
    BY <2>1, <1>2, <1>3, NonEmptyFacts, PushedFacts DEF IInv, TypeInv
<1>5. LocationRight'
  BY <1>4 DEF Visit, LocationRight, IInv
<1>6. UNCHANGED <<pool, oids, outcome, before>>
  BY DEF Visit
<1>7. /\ Goto("descend") \in Seq(Frames) /\ Len(Goto("descend")) = Len(calls)
      /\ Goto("descend") # <<>>
      /\ Goto("descend")[1] = [oid |-> calls[1].oid, step |-> "descend"]
      /\ \A i \in 2 .. Len(calls) : Goto("descend")[i] = calls[i]
  BY <1>1, GotoFacts DEF Steps
<1>8. \A i \in 1 .. Len(calls) : /\ Goto("descend")[i].oid = calls[i].oid
                                 /\ Goto("descend")[i].step = "descend"
                                 /\ Handled(Goto("descend")[i].oid)
  BY <1>1, <1>2, <1>7, PushedFacts DEF IInv, CallInv
<1>9. CASE calls' = Goto("descend") /\ flying' \in {"prune", "error"}
  <2>1. Pushed' = calls'
    BY <1>7, <1>9, NonEmptyFacts DEF Pushed, Top
  <2>2. CallInv'
    BY <1>2, <1>6, <1>7, <1>8, <1>9, PushedFacts DEF CallInv, Handled
  <2>3. StackInv'
    BY <2>1, <1>2, <1>3, <1>6, <1>7, <1>8, <1>9 DEF StackInv
  <2> QED
    BY <2>2, <2>3, <1>5, <1>6, <1>7, <1>9 DEF IInv, TypeInv
<1>10. CASE calls' = <<Call(Node.oid)>> \o Goto("descend") /\ flying' = "none"
  <2>1. Node.oid \in Oids \cup {Zero}
    <3>1. Handled(Top.oid)
      BY <1>1, <1>2, PushedFacts DEF IInv, CallInv
    <3>2. pool[Top.oid] \in Contents /\ pool[Top.oid].kind = "back"
      BY <3>1 DEF IInv, TypeInv, Handled
    <3>3. BackNode(pool[Top.oid].block).ok
      BY DEF Visit, Node
    <3> QED
      BY <3>2, <3>3, NodeAssumption DEF Node
  <2>2. Call(Node.oid) \in Frames /\ Call(Node.oid).step = "find"
    BY <2>1 DEF Call, Frames, Steps
  <2>3. /\ calls' \in Seq(Frames) /\ Len(calls') = Len(calls) + 1 /\ calls' # <<>>
        /\ calls'[1] = Call(Node.oid)
        /\ \A i \in 1 .. Len(calls) : calls'[i + 1] = Goto("descend")[i]
    BY <2>2, <1>7, <1>10, PushFacts
  <2>4. /\ Pushed' = Tail(calls') /\ Len(Pushed') = Len(calls)
        /\ \A i \in 1 .. Len(calls) : Pushed'[i] = Goto("descend")[i]
    BY <2>2, <2>3, NonEmptyFacts, PushedFacts DEF Pushed, Top
  <2>5. \A i \in 2 .. Len(calls') : i - 1 \in 1 .. Len(calls) /\ (i - 1) + 1 = i
    BY <2>3, PushedFacts
  <2>6. \A i \in 2 .. Len(calls') : calls'[i] = Goto("descend")[i - 1]
    BY <2>3, <2>5
  <2>7. CallInv'
    BY <2>2, <2>3, <2>5, <2>6, <1>2, <1>6, <1>8, <1>10, PushedFacts DEF CallInv, Handled
  <2>8. StackInv'
    BY <2>4, <1>2, <1>3, <1>6, <1>8, <1>10 DEF StackInv
  <2> QED
    BY <2>3, <2>7, <2>8, <1>5, <1>6, <1>10 DEF IInv, TypeInv
<1> QED
  BY <1>9, <1>10 DEF Visit

LEMMA FinishInv == ASSUME IInv, Finish PROVE IInv'
BY DEF Finish, IInv, TypeInv, CallInv, StackInv, LocationRight, Pushed, Top, Handled

LEMMA NewVisitorInv == ASSUME IInv, NewVisitor PROVE IInv'
BY DEF NewVisitor, IInv, TypeInv, CallInv, StackInv, LocationRight, Pushed, Top, Handled

LEMMA StepInv == IInv /\ [Next]_vars => IInv'
<1> SUFFICES ASSUME IInv, [Next]_vars PROVE IInv'
  OBVIOUS
<1>1. CASE \E o \in Oids : Walk(o)
  BY <1>1, WalkInv
<1>2. CASE PushOid
  BY <1>2, PushOidInv
<1>3. CASE FindThrows \/ DecodeThrows \/ Unwind
  BY <1>3, ThrowInv DEF FindThrows, DecodeThrows, Unwind, At
<1>4. CASE Visit
  BY <1>4, VisitInv
<1>5. CASE CatchPrune
  BY <1>5, PopInv DEF CatchPrune, IInv, CallInv
<1>6. CASE Return
  BY <1>6, PopInv DEF Return, At, Top, IInv, TypeInv
<1>7. CASE Finish
  BY <1>7, FinishInv
<1>8. CASE NewVisitor
  BY <1>8, NewVisitorInv
<1>9. CASE UNCHANGED vars
  BY <1>9 DEF vars, IInv, TypeInv, CallInv, StackInv, LocationRight, Pushed, Top, Handled
<1> QED
  BY <1>1, <1>2, <1>3, <1>4, <1>5, <1>6, <1>7, <1>8, <1>9 DEF Next

THEOREM Invariance == Spec => []IInv
BY InitInv, StepInv, PTL DEF Spec

\* The stack is the path of the walk on top of what was there.
THEOREM StackFollowsWalk == Spec => []StackIsPath
<1>1. IInv => StackIsPath
  <2> SUFFICES ASSUME IInv, flying # "error", outcome \in {"walking", "done"}
               PROVE  oids = Path \o before
    BY DEF StackIsPath
  <2>1. Pushed \in Seq(Frames)
    BY PushedFacts
  <2>2. Path \in Seq(Oids \cup {Zero}) /\ Len(Path) = Len(Pushed)
        /\ \A i \in 1 .. Len(Pushed) : Path[i] = Pushed[i].oid
    <3>1. \A i \in 1 .. Len(Pushed) : Pushed[i] \in Frames
      BY <2>1, ElementOfSeq
    <3> QED
      BY <3>1, PushedFacts DEF Path, Frames
  <2>3. /\ Path \o before \in Seq(Oids \cup {Zero})
        /\ Len(Path \o before) = Len(Pushed) + Len(before)
        /\ \A i \in 1 .. Len(Pushed) + Len(before) : (Path \o before)[i] =
             IF i <= Len(Pushed) THEN Path[i] ELSE before[i - Len(Pushed)]
    <3>1. before \in Seq(Oids \cup {Zero})
      BY DEF IInv, TypeInv
    <3>2. /\ Path \o before \in Seq(Oids \cup {Zero})
          /\ Len(Path \o before) = Len(Path) + Len(before)
          /\ \A i \in 1 .. Len(Path) + Len(before) : (Path \o before)[i] =
               IF i <= Len(Path) THEN Path[i] ELSE before[i - Len(Path)]
      BY <3>1, <2>2, ConcatProperties, Zenon
    <3> QED
      BY <3>2, <2>2
  <2>4. /\ Len(oids) = Len(Path \o before)
        /\ \A i \in 1 .. Len(oids) : oids[i] = (Path \o before)[i]
    <3>1. /\ Len(oids) = Len(Pushed) + Len(before)
          /\ \A i \in 1 .. Len(Pushed) : oids[i] = Path[i]
          /\ \A i \in 1 .. Len(before) : oids[Len(Pushed) + i] = before[i]
      BY <2>2 DEF IInv, StackInv
    <3>2. ASSUME NEW i \in 1 .. Len(oids), ~(i <= Len(Pushed)) PROVE oids[i] = (Path \o before)[i]
      <4>1. i - Len(Pushed) \in 1 .. Len(before) /\ Len(Pushed) + (i - Len(Pushed)) = i
        BY <3>1, <3>2, PushedFacts
      <4> QED
        BY <4>1, <3>1, <3>2, <2>3
    <3> QED
      BY <3>1, <3>2, <2>3, PushedFacts
  <2> QED
    BY <2>3, <2>4, SeqEqual DEF IInv, TypeInv
<1> QED
  BY <1>1, Invariance, PTL

\* Whenever backup() is called, peek_oid is the OID of the node it is told of.
THEOREM LocationIsRight == Spec => []LocationRight
BY Invariance, PTL DEF IInv
-----------------------------------------------------------------------------
(* Recursive functions *)

\* Every set of natural numbers with an element has a least one.
LEMMA LeastExists ==
  ASSUME NEW T, T \subseteq Nat, T # {}
  PROVE  \E x \in T : \A y \in T : x <= y
<1>1. PICK x \in T : \A y \in T : ~ (<<y, x>> \in OpToRel(<, Nat))
  BY WFMin, NatLessThanWellFounded
<1>2. \A y \in T : ~ (y < x)
  BY <1>1 DEF OpToRel
<1> QED
  BY <1>2

\* Whether a definition by recursion is grounded: F maps a function to what the
\* right side of the definition makes of it, and the values used at a point are
\* those of points of lesser rank.
Grounded(D, R, rank, F) ==
  /\ R # {} /\ F \in [[D -> R] -> [D -> R]]
  /\ \E N \in Nat : rank \in [D -> 0 .. N]
  /\ \A g, h \in [D -> R], p \in D :
       (\A q \in D : rank[q] < rank[p] => g[q] = h[q]) => F[g][p] = F[h][p]

\* Then it has a solution.
LEMMA RecursionIsDefined ==
  ASSUME NEW D, NEW R, NEW rank, NEW F, Grounded(D, R, rank, F)
  PROVE  \E g \in [D -> R] : F[g] = g
<1>0. /\ R # {} /\ F \in [[D -> R] -> [D -> R]]
      /\ \A g, h \in [D -> R], p \in D :
           (\A q \in D : rank[q] < rank[p] => g[q] = h[q]) => F[g][p] = F[h][p]
  BY DEF Grounded
<1>00. PICK N \in Nat : rank \in [D -> 0 .. N]
  BY DEF Grounded
<1> USE <1>0, <1>00
<1> DEFINE Good(n) == {g \in [D -> R] : \A p \in D : rank[p] < n => F[g][p] = g[p]}
           T == {n \in Nat : Good(n) = {}}
<1>1. T = {}
  <2> SUFFICES ASSUME T # {} PROVE FALSE
    OBVIOUS
  <2>1. PICK n \in T : \A y \in T : n <= y
    BY LeastExists
  <2>2. PICK r \in R : TRUE
    OBVIOUS
  <2>3. n # 0
    <3>1. [p \in D |-> r] \in Good(0)
      OBVIOUS
    <3> QED
      BY <3>1
  <2>4. n - 1 \in Nat /\ n - 1 \notin T
    BY <2>1, <2>3
  <2>5. PICK g \in Good(n - 1) : TRUE
    BY <2>4
  <2> DEFINE h == F[g]
  <2>6. g \in [D -> R] /\ h \in [D -> R]
    BY <2>5
  <2>7. ASSUME NEW p \in D, rank[p] < n PROVE F[h][p] = h[p]
    <3>1. ASSUME NEW q \in D, rank[q] < rank[p] PROVE g[q] = h[q]
      <4>1. rank[q] < n - 1
        BY <2>7, <3>1
      <4> QED
        BY <4>1, <2>5
    <3> HIDE DEF h
    <3>2. F[g][p] = F[h][p]
      BY <2>6, <3>1
    <3> QED
      BY <3>2 DEF h
  <2>8. h \in Good(n)
    BY <2>6, <2>7
  <2> QED
    BY <2>8
<1>2. PICK g \in Good(N + 1) : TRUE
  <2>1. N + 1 \in Nat
    OBVIOUS
  <2>2. N + 1 \notin T
    BY <1>1
  <2> QED
    BY <2>1, <2>2
<1>3. \A p \in D : F[g][p] = g[p]
  BY <1>2
<1>4. F[g] \in [D -> R] /\ g \in [D -> R]
  BY <1>2
<1> HIDE DEF Good
<1>5. F[g] = g
  BY <1>3, <1>4
<1> QED
  BY <1>4, <1>5
-----------------------------------------------------------------------------
(* Strings of a block *)

Bytes   == 0 .. (Byte - 1)
Strings == Seq(Bytes)
ItemSet == [key : Strings, value : Strings]

LEMMA Monotone ==
  ASSUME NEW D \in Nat, NEW a \in Int, NEW b \in Int, a <= b
  PROVE  a * D <= b * D
<1>1. (b - a) * D >= 0 /\ (b - a) * D = b * D - a * D
  <2>1. \A u, v \in Nat : u * v >= 0
    OBVIOUS
  <2> QED
    BY <2>1
<1>2. a * D \in Int /\ b * D \in Int
  OBVIOUS
<1> QED
  BY <1>1, <1>2

\* The value of two bytes is taken apart into them again.
LEMMA TwoBytes ==
  ASSUME NEW D \in Nat \ {0}, NEW c \in 0 .. (D - 1), NEW d \in 0 .. (D - 1)
  PROVE  (D * c + d) \div D = c /\ (D * c + d) % D = d /\ D * c + d \in Nat
<1> DEFINE x == D * c + d
           q == x \div D
           r == x % D
<1>1. /\ x \in Int /\ c * D \in Int /\ c \in Int /\ d \in Int /\ D \in Int
      /\ D * c = c * D /\ x \in Nat
  OBVIOUS
<1> HIDE DEF x
<1>2. q \in Int /\ r \in 0 .. (D - 1) /\ x = D * q + r
  BY <1>1
<1> HIDE DEF q, r
<1>3. D * q = q * D /\ q * D \in Int /\ (q + 1) * D = q * D + D /\ (c + 1) * D = c * D + D
  BY <1>1, <1>2
<1>4. x = D * c + d
  BY DEF x
<1>5. ~(q < c)
  <2>1. q < c => (q + 1) * D <= c * D
    BY <1>1, <1>2, Monotone
  <2> QED
    BY <2>1, <1>1, <1>2, <1>3, <1>4
<1>6. ~(c < q)
  <2>1. c < q => (c + 1) * D <= q * D
    BY <1>1, <1>2, Monotone
  <2> QED
    BY <2>1, <1>1, <1>2, <1>3, <1>4
<1>7. q = c
  BY <1>1, <1>2, <1>5, <1>6
<1>8. r = d
  BY <1>1, <1>2, <1>3, <1>4, <1>7
<1> QED
  BY <1>1, <1>7, <1>8 DEF q, r, x

LEMMA GetStringFacts ==
  ASSUME NEW block \in Strings, NEW at \in Nat, NEW len \in Nat,
         GetString(block, at, len).ok
  PROVE  /\ at + len <= Len(block)
         /\ GetString(block, at, len).at = at + len
         /\ GetString(block, at, len).str = SubSeq(block, at + 1, at + len)
         /\ SubSeq(block, at + 1, at + len) \in Strings
         /\ Len(SubSeq(block, at + 1, at + len)) = len
<1>1. /\ at + len <= Len(block)
      /\ GetString(block, at, len) =
           [ok |-> TRUE, str |-> SubSeq(block, at + 1, at + len), at |-> at + len]
  BY DEF GetString, Threw
<1>2. \A i \in at + 1 .. at + len : block[i] \in Bytes
  BY <1>1, ElementOfSeq, LenProperties DEF Strings
<1>3. /\ SubSeq(block, at + 1, at + len) \in Seq(Bytes)
      /\ Len(SubSeq(block, at + 1, at + len)) =
           IF at + 1 <= at + len THEN at + len - (at + 1) + 1 ELSE 0
  BY <1>2, SubSeqProperties
<1> QED
  BY <1>1, <1>3 DEF Strings

\* What was read is a string after its length.
Reads(block, at, g, code) ==
  /\ g.at \in at + 1 .. Len(block)
  /\ g.str \in Strings
  /\ SubSeq(block, at + 1, g.at) = code

LEMMA Get8Facts ==
  ASSUME NEW block \in Strings, NEW at \in Nat, Get8(block, at).ok
  PROVE  Reads(block, at, Get8(block, at), Encode8(Get8(block, at).str))
<1> DEFINE g == Get8(block, at)
           len == block[at + 1]
<1>1. at < Len(block) /\ g = GetString(block, at + 1, len)
  BY DEF Get8, Threw
<1>2. Len(block) \in Nat /\ at + 1 \in 1 .. Len(block) /\ len \in Nat
  BY <1>1, ElementOfSeq, LenProperties, KeyAssumption DEF Strings, Bytes
<1>3. /\ at + 1 + len <= Len(block) /\ g.at = at + 1 + len
      /\ g.str = SubSeq(block, at + 1 + 1, at + 1 + len)
      /\ g.str \in Strings /\ Len(g.str) = len
  <2> DEFINE from == at + 1
  <2>1. from \in Nat /\ g = GetString(block, from, len) /\ g.ok
    BY <1>1
  <2> HIDE DEF g, len, from
  <2>2. /\ from + len <= Len(block) /\ g.at = from + len
        /\ g.str = SubSeq(block, from + 1, from + len)
        /\ SubSeq(block, from + 1, from + len) \in Strings
        /\ Len(SubSeq(block, from + 1, from + len)) = len
    BY <2>1, <1>2, GetStringFacts
  <2> QED
    BY <2>2 DEF from
<1>4. at + 1 + len \in at + 1 .. Len(block)
  BY <1>2, <1>3
<1>5. SubSeq(block, at + 1, at + 1 + len) = <<len>> \o SubSeq(block, at + 1 + 1, at + 1 + len)
  BY <1>2, <1>4, SubSeqRecursiveFirst DEF Strings
<1> QED
  BY <1>3, <1>4, <1>5 DEF Reads, Encode8

LEMMA Get16Facts ==
  ASSUME NEW block \in Strings, NEW at \in Nat, Get16(block, at).ok
  PROVE  Reads(block, at, Get16(block, at), Encode16(Get16(block, at).str))
<1> DEFINE g == Get16(block, at)
           high == block[at + 1]
           low  == block[at + 2]
           len  == Byte * high + low
<1>1. at + 1 < Len(block) /\ g = GetString(block, at + 2, len)
  BY DEF Get16, Threw
<1>2. /\ Len(block) \in Nat /\ at + 1 \in 1 .. Len(block) /\ at + 2 \in 1 .. Len(block)
      /\ high \in Bytes /\ low \in Bytes
  BY <1>1, ElementOfSeq, LenProperties, KeyAssumption DEF Strings, Bytes
<1>3. len \div Byte = high /\ len % Byte = low /\ len \in Nat
  BY <1>2, TwoBytes, KeyAssumption DEF Bytes
<1> HIDE DEF len, high, low, g
<1>4. /\ at + 2 + len <= Len(block) /\ g.at = at + 2 + len
      /\ g.str = SubSeq(block, at + 2 + 1, at + 2 + len)
      /\ g.str \in Strings /\ Len(g.str) = len
  <2> DEFINE from == at + 2
  <2>1. from \in Nat /\ g = GetString(block, from, len) /\ g.ok
    BY <1>1 DEF g
  <2> HIDE DEF from
  <2>2. /\ from + len <= Len(block) /\ g.at = from + len
        /\ g.str = SubSeq(block, from + 1, from + len)
        /\ SubSeq(block, from + 1, from + len) \in Strings
        /\ Len(SubSeq(block, from + 1, from + len)) = len
    BY <2>1, <1>3, GetStringFacts
  <2> QED
    BY <2>2 DEF from
<1>5. /\ at + 2 + len \in at + 1 .. Len(block) /\ at + 2 + len \in at + 2 .. Len(block)
      /\ at + 1 + 1 = at + 2
  BY <1>2, <1>3, <1>4
<1> DEFINE w == SubSeq(block, at + 1, at + 2 + len)
           v == <<high, low>> \o g.str
<1>6. /\ w \in Seq(Bytes) /\ Len(w) = len + 2
      /\ \A i \in 1 .. len + 2 : w[i] = block[at + i]
  <2>1. \A i \in at + 1 .. at + 2 + len : block[i] \in Bytes
    BY <1>3, <1>4, <1>2, ElementOfSeq DEF Strings
  <2>2. at + 2 + len - (at + 1) + 1 = len + 2 /\ at + 1 <= at + 2 + len
    BY <1>3
  <2>3. /\ w \in Seq(Bytes)
        /\ Len(w) = IF at + 1 <= at + 2 + len THEN at + 2 + len - (at + 1) + 1 ELSE 0
        /\ \A i \in 1 .. at + 2 + len - (at + 1) + 1 : w[i] = block[at + 1 + i - 1]
    BY <2>1, <1>3, SubSeqProperties
  <2> HIDE DEF w
  <2>4. \A i \in 1 .. len + 2 : at + 1 + i - 1 = at + i
    BY <1>3
  <2> QED
    BY <2>2, <2>3, <2>4
<1>7. /\ v \in Seq(Bytes) /\ Len(v) = len + 2
      /\ \A i \in 1 .. len + 2 : v[i] = IF i <= 2 THEN <<high, low>>[i] ELSE g.str[i - 2]
  <2>1. <<high, low>> \in Seq(Bytes) /\ Len(<<high, low>>) = 2
    BY <1>2
  <2>2. g.str \in Seq(Bytes) /\ 2 + Len(g.str) = len + 2
    BY <1>3, <1>4 DEF Strings
  <2> QED
    BY <2>1, <2>2, ConcatProperties
<1>8. \A i \in 1 .. len : g.str[i] = block[at + 2 + i]
  <2> DEFINE x == SubSeq(block, at + 3, at + 2 + len)
  <2>1. \A i \in at + 3 .. at + 2 + len : block[i] \in Bytes
    BY <1>3, <1>4, <1>2, ElementOfSeq DEF Strings
  <2>2. at + 2 + len - (at + 3) + 1 = len /\ at + 2 + 1 = at + 3
    BY <1>3
  <2>3. \A i \in 1 .. at + 2 + len - (at + 3) + 1 : x[i] = block[at + 3 + i - 1]
    BY <2>1, <1>3, SubSeqProperties
  <2>4. \A i \in 1 .. len : at + 3 + i - 1 = at + 2 + i
    BY <1>3
  <2>5. g.str = x
    BY <2>2, <1>4
  <2> HIDE DEF x
  <2> QED
    BY <2>2, <2>3, <2>4, <2>5
<1> HIDE DEF w, v
<1>9. ASSUME NEW i \in 1 .. len + 2 PROVE w[i] = v[i]
  <2>1. CASE i = 1
    BY <2>1, <1>3, <1>6, <1>7 DEF high
  <2>2. CASE i = 2
    BY <2>2, <1>3, <1>6, <1>7 DEF low
  <2>3. CASE i # 1 /\ i # 2
    <3>1. i - 2 \in 1 .. len /\ at + 2 + (i - 2) = at + i /\ ~(i <= 2)
      BY <2>3, <1>3
    <3>2. v[i] = g.str[i - 2] /\ w[i] = block[at + i]
      BY <3>1, <1>6, <1>7
    <3> QED
      BY <3>1, <3>2, <1>8
  <2> QED
    BY <2>1, <2>2, <2>3
<1>10. w = v
  BY <1>6, <1>7, <1>9, SeqEqual
<1> QED
  BY <1>3, <1>4, <1>5, <1>10 DEF Reads, Encode16, g, w, v

-----------------------------------------------------------------------------
(* The items of a block *)

Parses == {Threw} \cup [ok : {TRUE}, items : Seq(ItemSet)]

\* What the loop makes of a position, from what it makes of later ones.
ItemsAt(block, f, at) ==
  LET key   == Get8(block, at)
      value == IF key.ok THEN Get16(block, key.at) ELSE Threw
      more  == IF value.ok THEN f[value.at] ELSE Threw
  IN  CASE at = Len(block) -> [ok |-> TRUE, items |-> <<>>]
        [] more.ok  -> [ok |-> TRUE, items |->
              <<[key |-> key.str, value |-> value.str]>> \o more.items]
        [] OTHER -> Threw

\* There is an item at a position, and the next position behind it.
ItemHere(block, at, item, next) ==
  /\ item \in ItemSet
  /\ next \in at + 1 .. Len(block)
  /\ SubSeq(block, at + 1, next) = EncodeItem(item)

\* Adjacent parts of a block.
LEMMA Joined ==
  ASSUME NEW block \in Strings, NEW a \in 0 .. Len(block), NEW b \in a .. Len(block),
         NEW c \in b .. Len(block)
  PROVE  SubSeq(block, a + 1, b) \o SubSeq(block, b + 1, c) = SubSeq(block, a + 1, c)
<1> DEFINE m == a + 1
<1>1. /\ block \in Seq(Bytes) /\ m \in 1 .. Len(block) + 1 /\ b \in m - 1 .. Len(block)
      /\ Len(block) \in Nat
  BY LenProperties DEF Strings
<1> HIDE DEF m
<1>2. SubSeq(block, m, b) \o SubSeq(block, b + 1, c) = SubSeq(block, m, c)
  BY <1>1, ConcatAdjacentSubSeq
<1> QED
  BY <1>2 DEF m

LEMMA ItemsAtCases ==
  ASSUME NEW block \in Strings, NEW at \in 0 .. Len(block), at # Len(block),
         LET key == Get8(block, at) IN key.ok /\ Get16(block, key.at).ok
  PROVE  LET key == Get8(block, at)
             value == Get16(block, key.at)
             item == [key |-> key.str, value |-> value.str]
         IN  ItemHere(block, at, item, value.at)
<1> DEFINE key == Get8(block, at)
           value == Get16(block, key.at)
           item == [key |-> key.str, value |-> value.str]
<1>0. Len(block) \in Nat /\ at \in Nat
  BY LenProperties DEF Strings
<1>1. /\ key.at \in at + 1 .. Len(block) /\ key.str \in Strings
      /\ SubSeq(block, at + 1, key.at) = Encode8(key.str)
  BY <1>0, Get8Facts DEF Reads
<1>2. key.at \in Nat /\ Get16(block, key.at).ok
  BY <1>0, <1>1
<1> HIDE DEF key
<1>3. /\ value.at \in key.at + 1 .. Len(block) /\ value.str \in Strings
      /\ SubSeq(block, key.at + 1, value.at) = Encode16(value.str)
  BY <1>2, Get16Facts DEF Reads
<1> HIDE DEF value
<1>4. item \in ItemSet
  BY <1>1, <1>3 DEF ItemSet
<1>5. value.at \in at + 1 .. Len(block)
  BY <1>0, <1>1, <1>3
<1>6. SubSeq(block, at + 1, key.at) \o SubSeq(block, key.at + 1, value.at)
        = SubSeq(block, at + 1, value.at)
  <2>1. key.at \in at .. Len(block) /\ value.at \in key.at .. Len(block)
    BY <1>0, <1>1, <1>3
  <2> QED
    BY <2>1, Joined
<1>7. SubSeq(block, at + 1, value.at) = EncodeItem(item)
  BY <1>1, <1>3, <1>6 DEF EncodeItem
<1> QED
  BY <1>4, <1>5, <1>7 DEF key, value, ItemHere


\* The three ways in which the loop goes on.
LEMMA ItemsAtFacts ==
  ASSUME NEW block \in Strings, NEW at \in 0 .. Len(block), NEW f
  PROVE  \/ at = Len(block) /\ ItemsAt(block, f, at) = [ok |-> TRUE, items |-> <<>>]
         \/ ItemsAt(block, f, at) = Threw
         \/ \E item, next :
              /\ ItemHere(block, at, item, next) /\ f[next].ok
              /\ ItemsAt(block, f, at) = [ok |-> TRUE, items |-> <<item>> \o f[next].items]
<1> DEFINE key == Get8(block, at)
           value == Get16(block, key.at)
           item == [key |-> key.str, value |-> value.str]
<1>1. CASE at = Len(block)
  <2>1. ~(at < Len(block))
    BY <1>1, LenProperties DEF Strings
  <2>2. ItemsAt(block, f, at) = [ok |-> TRUE, items |-> <<>>]
    BY <1>1, <2>1 DEF ItemsAt, Get8, Threw
  <2> QED
    BY <1>1, <2>2
<1>2. CASE at # Len(block) /\ ~(key.ok /\ value.ok)
  BY <1>2 DEF ItemsAt, Threw
<1>3. CASE at # Len(block) /\ key.ok /\ value.ok /\ ~f[value.at].ok
  BY <1>3 DEF ItemsAt
<1>4. CASE at # Len(block) /\ key.ok /\ value.ok /\ f[value.at].ok
  <2>1. ItemHere(block, at, item, value.at)
    BY <1>4, ItemsAtCases
  <2>2. ItemsAt(block, f, at) = [ok |-> TRUE, items |-> <<item>> \o f[value.at].items]
    BY <1>4 DEF ItemsAt
  <2> QED
    BY <1>4, <2>1, <2>2
<1> QED
  BY <1>1, <1>2, <1>3, <1>4

\* Only what f has for later positions matters.
LEMMA ItemsAtLater ==
  ASSUME NEW block \in Strings, NEW at \in 0 .. Len(block), NEW f, NEW h,
         \A q \in at + 1 .. Len(block) : f[q] = h[q]
  PROVE  ItemsAt(block, f, at) = ItemsAt(block, h, at)
<1> DEFINE key == Get8(block, at)
           value == Get16(block, key.at)
<1>1. CASE at = Len(block)
  BY <1>1 DEF ItemsAt
<1>2. CASE at # Len(block) /\ ~(key.ok /\ value.ok)
  BY <1>2 DEF ItemsAt, Threw
<1>3. CASE at # Len(block) /\ key.ok /\ value.ok
  <2>1. value.at \in at + 1 .. Len(block)
    BY <1>3, ItemsAtCases DEF ItemHere
  <2>2. f[value.at] = h[value.at]
    BY <2>1
  <2> QED
    BY <1>3, <2>2 DEF ItemsAt
<1> QED
  BY <1>1, <1>2, <1>3

LEMMA ParsedItems ==
  ASSUME NEW p \in Parses, p.ok
  PROVE  p.items \in Seq(ItemSet)
<1>1. p # Threw
  BY DEF Threw
<1> QED
  BY <1>1 DEF Parses

\* The loop is defined, and what it makes of a position is as above.
LEMMA ItemsAreDefined ==
  ASSUME NEW block \in Strings
  PROVE  \E f : /\ f \in [0 .. Len(block) -> Parses]
                /\ \A at \in 0 .. Len(block) : /\ Items(block, at) = f[at]
                                               /\ f[at] = ItemsAt(block, f, at)
<1> DEFINE D == 0 .. Len(block)
           R == Parses
           items == CHOOSE f : f = [at \in D |-> ItemsAt(block, f, at)]
           rank == [at \in D |-> Len(block) - at]
           F == [g \in [D -> R] |-> [at \in D |-> ItemsAt(block, g, at)]]
<1>1. \A at : Items(block, at) = items[at]
  BY DEF Items, ItemsAt
<1>2. Len(block) \in Nat
  BY LenProperties DEF Strings
<1>3. rank \in [D -> 0 .. Len(block)]
  BY <1>2
<1>4. ASSUME NEW g, NEW at \in D, \A q \in at + 1 .. Len(block) : g[q] \in R
      PROVE  ItemsAt(block, g, at) \in R
  <2>1. CASE ItemsAt(block, g, at) = [ok |-> TRUE, items |-> <<>>]
    <3>1. <<>> \in Seq(ItemSet)
      BY EmptySeq
    <3> QED
      BY <2>1, <3>1 DEF Parses
  <2>2. CASE ItemsAt(block, g, at) = Threw
    BY <2>2 DEF Parses
  <2>3. ASSUME NEW item, NEW next, ItemHere(block, at, item, next), g[next].ok,
               ItemsAt(block, g, at) = [ok |-> TRUE, items |-> <<item>> \o g[next].items]
        PROVE  ItemsAt(block, g, at) \in R
    <3>1. item \in ItemSet /\ g[next] \in Parses
      BY <2>3, <1>4 DEF ItemHere
    <3>2. g[next].items \in Seq(ItemSet)
      BY <3>1, <2>3, ParsedItems
    <3>3. <<item>> \o g[next].items \in Seq(ItemSet)
      BY <3>1, <3>2, PushFacts
    <3> QED
      BY <2>3, <3>3 DEF Parses
  <2> QED
    BY <2>1, <2>2, <2>3, ItemsAtFacts
<1>5. F \in [[D -> R] -> [D -> R]]
  <2>1. ASSUME NEW g \in [D -> R], NEW at \in D PROVE ItemsAt(block, g, at) \in R
    <3>1. \A q \in at + 1 .. Len(block) : g[q] \in R
      BY <1>2
    <3> HIDE DEF R, D
    <3> QED
      BY <3>1, <1>4
  <2> HIDE DEF D, R
  <2> QED
    BY <2>1
<1>6. ASSUME NEW g \in [D -> R], NEW h \in [D -> R], NEW at \in D,
             \A q \in D : rank[q] < rank[at] => g[q] = h[q]
      PROVE  F[g][at] = F[h][at]
  <2>1. \A q \in at + 1 .. Len(block) : g[q] = h[q]
    <3>1. \A q \in at + 1 .. Len(block) : q \in D /\ Len(block) - q < Len(block) - at
      BY <1>2
    <3> QED
      BY <3>1, <1>6
  <2>2. ItemsAt(block, g, at) = ItemsAt(block, h, at)
    BY <2>1, ItemsAtLater
  <2> HIDE DEF D, R
  <2> QED
    BY <2>2
<1>7. Grounded(D, R, rank, F)
  <2>0. R # {}
    BY DEF Parses
  <2> HIDE DEF D, R, F, rank
  <2> QED
    BY <2>0, <1>2, <1>3, <1>5, <1>6 DEF Grounded
<1> HIDE DEF R, F, rank
<1>8. PICK g \in [D -> R] : F[g] = g
  <2> HIDE DEF D
  <2> QED
    BY <1>7, RecursionIsDefined
<1>9. g = [at \in D |-> ItemsAt(block, g, at)]
  <2> HIDE DEF D
  <2> QED
    BY <1>8 DEF F
<1>10. items = [at \in D |-> ItemsAt(block, items, at)]
  BY <1>9
<1> HIDE DEF items
<1> DEFINE Wrong == {n \in 0 .. Len(block) : items[Len(block) - n] \notin R}
<1>11. Wrong = {}
  <2> SUFFICES ASSUME Wrong # {} PROVE FALSE
    OBVIOUS
  <2>1. Wrong \subseteq Nat
    BY <1>2
  <2> HIDE DEF Wrong
  <2>2. PICK n \in Wrong : \A m \in Wrong : n <= m
    BY <2>1, LeastExists
  <2>3. n \in 0 .. Len(block) /\ items[Len(block) - n] \notin R
    BY <2>2 DEF Wrong
  <2> DEFINE at == Len(block) - n
  <2>4. at \in D
    BY <2>3, <1>2
  <2>5. ASSUME NEW q \in at + 1 .. Len(block) PROVE items[q] \in R
    <3>1. /\ Len(block) - q \in 0 .. Len(block) /\ Len(block) - q < n
          /\ Len(block) - (Len(block) - q) = q
      BY <2>3, <1>2
    <3>2. Len(block) - q \notin Wrong
      BY <2>1, <2>2, <3>1
    <3> QED
      BY <3>1, <3>2 DEF Wrong
  <2>6. ItemsAt(block, items, at) \in R
    <3> HIDE DEF at, D
    <3> QED
      BY <2>4, <2>5, <1>4
  <2>7. items[at] = ItemsAt(block, items, at)
    BY <2>4, <1>10
  <2> QED
    BY <2>3, <2>6, <2>7
<1>12. ASSUME NEW at \in D PROVE items[at] \in R
  <2>1. Len(block) - at \in 0 .. Len(block) /\ Len(block) - (Len(block) - at) = at
    BY <1>2
  <2> QED
    BY <2>1, <1>11
<1>13. items \in [D -> R] /\ \A at \in D : items[at] = ItemsAt(block, items, at)
  <2> HIDE DEF D
  <2> QED
    BY <1>10, <1>12
<1> QED
  BY <1>1, <1>13 DEF R

\* The concatenation, sequence by sequence.
Flattens(f, seqs) ==
  /\ FlattenSeq(seqs) = f[Len(seqs)]
  /\ \A i \in 1 .. Len(seqs) : f[i] = IF i = 1 THEN seqs[1] ELSE f[i - 1] \o seqs[i]

LEMMA FlattenFacts ==
  ASSUME NEW S, NEW seqs \in Seq(Seq(S)), seqs # <<>>
  PROVE  \E f : Flattens(f, seqs)
<1> DEFINE n == Len(seqs)
           D == 1 .. n
           R == Seq(S)
           Part(f, i) == IF i = 1 THEN seqs[i] ELSE f[i - 1] \o seqs[i]
           flatten == CHOOSE f : f = [i \in D |-> Part(f, i)]
           rank == [i \in D |-> i]
           F == [g \in [D -> R] |-> [i \in D |-> Part(g, i)]]
<1>1. n \in Nat /\ n # 0 /\ \A i \in D : seqs[i] \in R
  BY LenProperties, EmptySeq, ElementOfSeq
<1>2. FlattenSeq(seqs) = flatten[n]
  BY <1>1 DEF FlattenSeq
<1>3. rank \in [D -> 0 .. n]
  BY <1>1
<1>4. ASSUME NEW g \in [D -> R], NEW i \in D PROVE Part(g, i) \in R
  <2>1. CASE i = 1
    BY <2>1, <1>1
  <2>2. CASE i # 1
    <3>1. i - 1 \in D
      BY <2>2, <1>1
    <3>2. g[i - 1] \in Seq(S) /\ seqs[i] \in Seq(S)
      BY <3>1, <1>1
    <3>3. g[i - 1] \o seqs[i] \in Seq(S)
      BY <3>2, ConcatProperties
    <3> QED
      BY <2>2, <3>3
  <2> QED
    BY <2>1, <2>2
<1>5. F \in [[D -> R] -> [D -> R]]
  <2> HIDE DEF D, R, Part
  <2> QED
    BY <1>4
<1>6. ASSUME NEW g \in [D -> R], NEW h \in [D -> R], NEW i \in D,
             \A q \in D : rank[q] < rank[i] => g[q] = h[q]
      PROVE  F[g][i] = F[h][i]
  <2>1. Part(g, i) = Part(h, i)
    <3>1. CASE i = 1
      BY <3>1
    <3>2. CASE i # 1
      <4>1. i - 1 \in D /\ rank[i - 1] < rank[i]
        BY <3>2, <1>1
      <4>2. g[i - 1] = h[i - 1]
        BY <4>1, <1>6
      <4> QED
        BY <3>2, <4>2
    <3> QED
      BY <3>1, <3>2
  <2> HIDE DEF D, R, Part
  <2> QED
    BY <2>1
<1>7. Grounded(D, R, rank, F)
  <2>1. <<>> \in R
    BY EmptySeq
  <2> HIDE DEF D, R, F, rank, Part
  <2> QED
    BY <2>1, <1>1, <1>3, <1>5, <1>6 DEF Grounded
<1> HIDE DEF F, rank
<1>8. PICK g \in [D -> R] : F[g] = g
  <2> HIDE DEF D, R
  <2> QED
    BY <1>7, RecursionIsDefined
<1>9. g = [i \in D |-> Part(g, i)]
  <2> HIDE DEF D, R, Part
  <2> QED
    BY <1>8 DEF F
<1>10. flatten = [i \in D |-> Part(flatten, i)]
  <2> HIDE DEF D, Part
  <2> QED
    BY <1>9
<1> HIDE DEF flatten
<1>11. \A i \in D : flatten[i] = Part(flatten, i)
  <2> HIDE DEF Part
  <2> QED
    BY <1>10
<1> QED
  BY <1>2, <1>11 DEF Flattens

LEMMA CodeTypes ==
  ASSUME NEW key \in Seq(Nat), NEW value \in Seq(Nat)
  PROVE  Encode8(key) \o Encode16(value) \in Seq(Nat)
<1>1. Len(key) \in Nat /\ Len(value) \div Byte \in Nat /\ Len(value) % Byte \in Nat
  BY LenProperties, KeyAssumption
<1>2. <<Len(key)>> \in Seq(Nat) /\ <<Len(value) \div Byte, Len(value) % Byte>> \in Seq(Nat)
  BY <1>1
<1>3. Encode8(key) \in Seq(Nat) /\ Encode16(value) \in Seq(Nat)
  BY <1>2, ConcatProperties DEF Encode8, Encode16
<1> QED
  BY <1>3, ConcatProperties

\* A block whose items are read to its end is their encoding.
LEMMA ItemsEncode ==
  ASSUME NEW block \in Strings, NEW start \in 0 .. Len(block), Items(block, start).ok
  PROVE  LET items == Items(block, start).items
         IN  /\ items \in Seq(ItemSet)
             /\ SubSeq(block, start + 1, Len(block)) =
                  FlattenSeq([i \in DOMAIN items |-> EncodeItem(items[i])])
<1> DEFINE items == Items(block, start).items
           n == Len(items)
           codes == [i \in DOMAIN items |-> EncodeItem(items[i])]
<1>1. PICK f : /\ f \in [0 .. Len(block) -> Parses]
               /\ \A at \in 0 .. Len(block) : /\ Items(block, at) = f[at]
                                              /\ f[at] = ItemsAt(block, f, at)
  BY ItemsAreDefined
<1>2. \A at \in 0 .. Len(block) : f[at].ok => f[at].items \in Seq(ItemSet)
  BY <1>1, ParsedItems
<1>3. Items(block, start) = f[start] /\ items \in Seq(ItemSet) /\ f[start].items = items
  BY <1>1, <1>2
<1>4. Len(block) \in Nat /\ n \in Nat /\ DOMAIN items = 1 .. n /\ n = Len(items)
  BY <1>3, LenProperties DEF Strings
<1>5. ASSUME NEW at \in 0 .. Len(block), f[at].ok, f[at].items # <<>>
      PROVE  \E item, next : /\ ItemHere(block, at, item, next) /\ f[next].ok
                             /\ f[at].items = <<item>> \o f[next].items
  <2>1. f[at] = ItemsAt(block, f, at) /\ f[at] # Threw
    BY <1>1, <1>5 DEF Threw
  <2>2. f[at] # [ok |-> TRUE, items |-> <<>>]
    BY <1>5
  <2>3. PICK item, next :
              /\ ItemHere(block, at, item, next) /\ f[next].ok
              /\ ItemsAt(block, f, at) = [ok |-> TRUE, items |-> <<item>> \o f[next].items]
    BY <2>1, <2>2, ItemsAtFacts
  <2>4. f[at].items = <<item>> \o f[next].items
    BY <2>1, <2>3
  <2> QED
    BY <2>3, <2>4, Zenon
<1>6. ASSUME NEW at \in 0 .. Len(block), f[at].ok, f[at].items = <<>>
      PROVE  at = Len(block)
  <2>1. f[at] = ItemsAt(block, f, at) /\ f[at] # Threw
    BY <1>1, <1>6 DEF Threw
  <2>2. ASSUME NEW item, NEW next, ItemHere(block, at, item, next), f[next].ok,
               ItemsAt(block, f, at) = [ok |-> TRUE, items |-> <<item>> \o f[next].items]
        PROVE  FALSE
    <3>1. item \in ItemSet /\ next \in 0 .. Len(block)
      BY <2>2, <1>4 DEF ItemHere
    <3>2. f[next].items \in Seq(ItemSet)
      BY <3>1, <2>2, <1>2
    <3>3. <<item>> \o f[next].items # <<>>
      BY <3>1, <3>2, PushFacts
    <3> QED
      BY <2>1, <2>2, <3>3, <1>6
  <2> QED
    BY <2>1, <2>2, ItemsAtFacts
<1>7. codes \in Seq(Seq(Nat)) /\ Len(codes) = n /\ \A i \in 1 .. n : codes[i] = EncodeItem(items[i])
  <2>1. ASSUME NEW i \in 1 .. n PROVE EncodeItem(items[i]) \in Seq(Nat)
    <3>1. items[i].key \in Seq(Nat) /\ items[i].value \in Seq(Nat)
      <4>1. items[i] \in ItemSet
        BY <1>3, ElementOfSeq
      <4>2. Bytes \subseteq Nat
        BY KeyAssumption DEF Bytes
      <4> QED
        BY <4>1, <4>2, SeqMonotonic DEF ItemSet, Strings
    <3> QED
      BY <3>1, CodeTypes DEF EncodeItem
  <2> QED
    BY <2>1, <1>4
<1>8. CASE n = 0
  <2>1. items = <<>> /\ codes = <<>>
    BY <1>3, <1>4, <1>7, <1>8, EmptySeq
  <2>2. start = Len(block)
    BY <2>1, <1>3, <1>6
  <2>3. SubSeq(block, start + 1, Len(block)) = <<>>
    BY <2>2, <1>4, SubSeqEmpty
  <2>4. FlattenSeq(codes) = codes
    BY <2>1 DEF FlattenSeq
  <2> QED
    BY <1>3, <2>1, <2>3, <2>4
<1>9. CASE n # 0
  <2> HIDE DEF codes, n, items
  <2>0. PICK flat : Flattens(flat, codes)
    <3>1. codes # <<>>
      BY <1>7, <1>9, EmptySeq
    <3> QED
      BY <3>1, <1>7, FlattenFacts
  <2>1. /\ FlattenSeq(codes) = flat[n]
        /\ \A i \in 1 .. n : flat[i] = IF i = 1 THEN codes[1] ELSE flat[i - 1] \o codes[i]
    BY <2>0, <1>7 DEF Flattens
  \* What is left after j items.
  <2> DEFINE Left(j, p) ==
               /\ p \in start .. Len(block) /\ f[p].ok
               /\ Len(f[p].items) = n - j
               /\ \A i \in 1 .. n - j : f[p].items[i] = items[i + j]
               /\ IF j = 0 THEN p = start ELSE SubSeq(block, start + 1, p) = flat[j]
             Lost == {j \in 0 .. n : ~ \E p : Left(j, p)}
  <2>2. Left(0, start)
    BY <1>3, <1>4
  <2>3. ASSUME NEW j \in 1 .. n, NEW p, Left(j - 1, p) PROVE \E q : Left(j, q)
    <3>1. /\ p \in 0 .. Len(block) /\ f[p].ok /\ f[p].items \in Seq(ItemSet)
          /\ Len(f[p].items) = n - j + 1
      BY <2>3, <1>2, <1>4
    <3>2. f[p].items # <<>>
      BY <3>1, <1>4, EmptySeq
    <3>3. PICK item, next : /\ ItemHere(block, p, item, next) /\ f[next].ok
                            /\ f[p].items = <<item>> \o f[next].items
      BY <3>1, <3>2, <1>5
    <3>4. /\ item \in ItemSet /\ next \in p + 1 .. Len(block)
          /\ SubSeq(block, p + 1, next) = EncodeItem(item)
      BY <3>3 DEF ItemHere
    <3>5. next \in start .. Len(block) /\ next \in 0 .. Len(block)
      BY <3>4, <2>3, <1>4
    <3>6. f[next].items \in Seq(ItemSet)
      BY <3>3, <3>5, <1>2
    <3>7. /\ Len(f[p].items) = Len(f[next].items) + 1 /\ f[p].items[1] = item
          /\ \A i \in 1 .. Len(f[next].items) : f[next].items[i] = f[p].items[i + 1]
          /\ Len(f[next].items) \in Nat
      BY <3>3, <3>4, <3>6, PushFacts, LenProperties
    <3>8. Len(f[next].items) = n - j
      <4> DEFINE k == Len(f[next].items)
      <4>1. k \in Nat /\ n \in Nat /\ j \in Nat
        BY <3>7, <1>4
      <4>2. Len(f[p].items) = k + 1
        BY <3>7
      <4> HIDE DEF k
      <4>3. k = n - j
        BY <4>1, <4>2, <3>1
      <4> QED
        BY <4>3 DEF k
    <3>9. \A i \in 1 .. n - j : f[next].items[i] = items[i + j]
      <4>1. \A i \in 1 .. n - j : i + 1 \in 1 .. n - (j - 1) /\ i + 1 + (j - 1) = i + j
        BY <1>4
      <4> QED
        BY <4>1, <3>7, <3>8, <2>3
    <3>10. item = items[j]
      <4>1. 1 \in 1 .. n - (j - 1) /\ 1 + (j - 1) = j
        BY <1>4
      <4> QED
        BY <4>1, <3>7, <2>3
    <3>11. SubSeq(block, start + 1, next) = flat[j]
      <4>1. SubSeq(block, start + 1, p) \o SubSeq(block, p + 1, next)
              = SubSeq(block, start + 1, next)
          <5>1. /\ start \in 0 .. Len(block) /\ p \in start .. Len(block)
                /\ next \in p .. Len(block)
            BY <2>3, <3>4, <1>4
          <5> HIDE DEF Left
          <5> QED
            BY <5>1, Joined
      <4>2. SubSeq(block, p + 1, next) = codes[j]
        BY <3>4, <3>10, <1>7
      <4>3. CASE j = 1
        <5>1. p = start
          BY <4>3, <2>3
        <5> QED
          BY <5>1, <4>2, <4>3, <2>1, <1>4
      <4>4. CASE j # 1
        <5>1. SubSeq(block, start + 1, p) = flat[j - 1]
          BY <4>4, <2>3
        <5>2. flat[j] = flat[j - 1] \o codes[j]
          BY <4>4, <2>1
        <5> QED
          BY <4>1, <4>2, <5>1, <5>2
      <4> QED
        BY <4>3, <4>4
    <3>12. Left(j, next)
      BY <3>3, <3>5, <3>8, <3>9, <3>11
    <3> QED
      BY <3>12
  <2>4. Lost = {}
    <3> SUFFICES ASSUME Lost # {} PROVE FALSE
      OBVIOUS
    <3>0. Lost \subseteq Nat
      BY <1>4
    <3> HIDE DEF Left, Lost
    <3>1. PICK j \in Lost : \A i \in Lost : j <= i
      BY <3>0, LeastExists
    <3>2. j # 0 /\ j \in 1 .. n
      BY <3>1, <2>2, <1>4 DEF Lost
    <3>3. j - 1 \in 0 .. n /\ j - 1 \notin Lost
      <4>1. j - 1 \in 0 .. n /\ ~(j <= j - 1)
        BY <3>2, <1>4
      <4> QED
        BY <4>1, <3>1
    <3> QED
      BY <3>1, <3>2, <3>3, <2>3 DEF Lost
  <2>5. PICK p : Left(n, p)
    <3> HIDE DEF Left
    <3> QED
      BY <2>4, <1>4
  <2>6. p = Len(block)
    <3>1. p \in 0 .. Len(block) /\ f[p].ok /\ Len(f[p].items) = 0
      BY <2>5, <1>4
    <3>2. f[p].items = <<>>
      BY <3>1, <1>2, EmptySeq
    <3> QED
      BY <3>1, <3>2, <1>6
  <2>7. SubSeq(block, start + 1, Len(block)) = FlattenSeq(codes)
    BY <1>9, <2>1, <2>5, <2>6
  <2> QED
    BY <2>7, <1>3 DEF codes, items
<1> QED
  BY <1>8, <1>9, <1>4 DEF codes

\* What decode_property reads is what was written.
LEMMA DecodeFacts ==
  ASSUME NEW block \in Strings, Decode(block).ok
  PROVE  /\ Decode(block).items \in Seq(ItemSet)
         /\ block = Encode(Decode(block).type, Decode(block).items)
<1> DEFINE d == Decode(block)
           type == Get8(block, 0)
           rest == Items(block, type.at)
           codes == [i \in DOMAIN rest.items |-> EncodeItem(rest.items[i])]
<1>1. type.ok /\ rest.ok /\ d = [ok |-> TRUE, type |-> type.str, items |-> rest.items]
  BY DEF Decode, Threw
<1>2. Len(block) \in Nat /\ 0 \in Nat
  BY LenProperties DEF Strings
<1>3. /\ type.at \in 0 + 1 .. Len(block)
      /\ SubSeq(block, 0 + 1, type.at) = Encode8(type.str)
  BY <1>1, <1>2, Get8Facts DEF Reads
<1> HIDE DEF type
<1>4. /\ rest.items \in Seq(ItemSet)
      /\ SubSeq(block, type.at + 1, Len(block)) = FlattenSeq(codes)
  <2>1. type.at \in 0 .. Len(block)
    BY <1>2, <1>3
  <2> QED
    BY <2>1, <1>1, ItemsEncode
<1>5. SubSeq(block, 0 + 1, type.at) \o SubSeq(block, type.at + 1, Len(block))
        = SubSeq(block, 0 + 1, Len(block))
  <2>1. 0 \in 0 .. Len(block) /\ type.at \in 0 .. Len(block) /\ Len(block) \in type.at .. Len(block)
    BY <1>2, <1>3
  <2> QED
    BY <2>1, Joined
<1>6. SubSeq(block, 0 + 1, Len(block)) = block
  BY SubSeqFull DEF Strings
<1>7. block = Encode8(type.str) \o FlattenSeq(codes)
  BY <1>3, <1>4, <1>5, <1>6
<1>8. block = Encode(type.str, rest.items)
  BY <1>7 DEF Encode
<1> HIDE DEF rest
<1> QED
  BY <1>1, <1>4, <1>8

-----------------------------------------------------------------------------
(* What was written is what is read, the converse *)

\* A string is in a block, at a position.
Holds(block, at, s) ==
  /\ at \in Nat /\ at + Len(s) <= Len(block)
  /\ \A i \in 1 .. Len(s) : block[at + i] = s[i]

LEMMA HoldsParts ==
  ASSUME NEW block \in Strings, NEW a \in Strings, NEW b \in Strings, NEW at,
         Holds(block, at, a \o b)
  PROVE  Holds(block, at, a) /\ Holds(block, at + Len(a), b)
<1>1. /\ at \in Nat /\ Len(a) \in Nat /\ Len(b) \in Nat /\ Len(block) \in Nat
      /\ at + Len(a \o b) <= Len(block)
      /\ \A i \in 1 .. Len(a \o b) : block[at + i] = (a \o b)[i]
  BY LenProperties DEF Holds, Strings
<1>2. /\ Len(a \o b) = Len(a) + Len(b)
      /\ \A i \in 1 .. Len(a) + Len(b) :
           (a \o b)[i] = IF i <= Len(a) THEN a[i] ELSE b[i - Len(a)]
  BY ConcatProperties DEF Strings
<1>3. ASSUME NEW i \in 1 .. Len(a) PROVE block[at + i] = a[i]
  BY <1>1, <1>2
<1>4. ASSUME NEW i \in 1 .. Len(b) PROVE block[at + Len(a) + i] = b[i]
  <2>1. /\ Len(a) + i \in 1 .. Len(a) + Len(b) /\ ~(Len(a) + i <= Len(a))
        /\ (Len(a) + i) - Len(a) = i /\ at + (Len(a) + i) = at + Len(a) + i
    BY <1>1
  <2> QED
    BY <2>1, <1>1, <1>2
<1> QED
  BY <1>1, <1>2, <1>3, <1>4 DEF Holds

LEMMA StringIsRead ==
  ASSUME NEW block \in Strings, NEW s \in Strings, NEW at, Holds(block, at, s)
  PROVE  GetString(block, at, Len(s)) = [ok |-> TRUE, str |-> s, at |-> at + Len(s)]
<1> DEFINE x == SubSeq(block, at + 1, at + Len(s))
<1>1. /\ at \in Nat /\ Len(s) \in Nat /\ Len(block) \in Nat /\ at + Len(s) <= Len(block)
      /\ \A i \in 1 .. Len(s) : block[at + i] = s[i]
  BY LenProperties DEF Holds, Strings
<1>2. \A i \in at + 1 .. at + Len(s) : block[i] \in Bytes
  BY <1>1, ElementOfSeq DEF Strings
<1>3. /\ x \in Seq(Bytes) /\ Len(x) = IF at + 1 <= at + Len(s) THEN at + Len(s) - (at + 1) + 1 ELSE 0
      /\ \A i \in 1 .. at + Len(s) - (at + 1) + 1 : x[i] = block[at + 1 + i - 1]
  BY <1>1, <1>2, SubSeqProperties
<1> HIDE DEF x
<1>4. Len(x) = Len(s)
  BY <1>1, <1>3
<1>5. ASSUME NEW i \in 1 .. Len(s) PROVE x[i] = s[i]
  <2>1. i \in 1 .. at + Len(s) - (at + 1) + 1 /\ at + 1 + i - 1 = at + i
    BY <1>1
  <2> QED
    BY <2>1, <1>1, <1>3
<1>6. x = s
  BY <1>3, <1>4, <1>5, SeqEqual DEF Strings
<1> QED
  BY <1>1, <1>6 DEF GetString, x

\* A number is its high and its low part.
LEMMA HighAndLow ==
  ASSUME NEW D \in Nat \ {0}, NEW x \in Nat
  PROVE  x \div D \in Nat /\ x % D \in 0 .. (D - 1) /\ x = D * (x \div D) + (x % D)
<1> DEFINE q == x \div D
           r == x % D
<1>1. q \in Int /\ r \in 0 .. (D - 1) /\ x = D * q + r
  OBVIOUS
<1> HIDE DEF q, r
<1>2. q <= -1 => q * D <= (-1) * D
  BY <1>1, Monotone
<1>3. q * D = D * q /\ D * q \in Int /\ (-1) * D = -D
  BY <1>1
<1>4. ~(q <= -1)
  BY <1>1, <1>2, <1>3
<1>5. q \in Nat
  BY <1>1, <1>4
<1> QED
  BY <1>1, <1>5 DEF q, r

\* Two bytes are enough for a length below the square of a byte's values.
LEMMA TwoBytesAreEnough ==
  ASSUME NEW x \in Nat, x < Byte * Byte
  PROVE  /\ x \div Byte \in Bytes /\ x % Byte \in Bytes
         /\ x = Byte * (x \div Byte) + (x % Byte)
<1> DEFINE high == x \div Byte
           low  == x % Byte
<1>1. Byte \in Nat \ {0}
  BY KeyAssumption
<1>2. high \in Nat /\ low \in 0 .. (Byte - 1) /\ x = Byte * high + low
  BY <1>1, HighAndLow
<1> HIDE DEF high, low
<1>3. Byte <= high => Byte * Byte <= high * Byte
  BY <1>1, <1>2, Monotone
<1>4. high * Byte = Byte * high /\ Byte * high \in Nat /\ Byte * Byte \in Nat
  BY <1>1, <1>2
<1> DEFINE square == Byte * Byte
           part == Byte * high
<1>5. /\ Byte <= high => square <= part
      /\ square \in Nat /\ part \in Nat /\ x < square /\ x = part + low
  BY <1>2, <1>3, <1>4
<1> HIDE DEF square, part
<1>6. ~(Byte <= high)
  BY <1>1, <1>2, <1>5
<1> QED
  BY <1>1, <1>2, <1>6 DEF Bytes, high, low

\* A key, and a value, whose lengths have room in one byte and in two.
LEMMA KeyIsRead ==
  ASSUME NEW block \in Strings, NEW s \in Strings, NEW at,
         Len(s) < Byte, Holds(block, at, Encode8(s))
  PROVE  Get8(block, at) = [ok |-> TRUE, str |-> s, at |-> at + Len(Encode8(s))]
<1>1. Len(s) \in Bytes /\ Len(s) \in Nat /\ Len(block) \in Nat
  BY LenProperties, KeyAssumption DEF Strings, Bytes
<1>2. <<Len(s)>> \in Strings /\ Len(<<Len(s)>>) = 1
  BY <1>1 DEF Strings
<1>3. Holds(block, at, <<Len(s)>>) /\ Holds(block, at + 1, s)
  BY <1>2, HoldsParts DEF Encode8
<1>4. Len(Encode8(s)) = 1 + Len(s)
  BY <1>2, ConcatProperties DEF Encode8, Strings
<1>5. at \in Nat /\ at < Len(block) /\ block[at + 1] = Len(s)
  BY <1>1, <1>2, <1>3 DEF Holds
<1> DEFINE from == at + 1
<1>6. GetString(block, from, Len(s)) = [ok |-> TRUE, str |-> s, at |-> from + Len(s)]
  <2>1. Holds(block, from, s)
    BY <1>3
  <2> HIDE DEF from
  <2> QED
    BY <2>1, StringIsRead
<1>7. at + 1 + Len(s) = at + Len(Encode8(s))
  BY <1>1, <1>4, <1>5
<1> QED
  BY <1>5, <1>6, <1>7 DEF Get8

LEMMA ValueIsRead ==
  ASSUME NEW block \in Strings, NEW s \in Strings, NEW at,
         Len(s) < Byte * Byte, Holds(block, at, Encode16(s))
  PROVE  Get16(block, at) = [ok |-> TRUE, str |-> s, at |-> at + Len(Encode16(s))]
<1> DEFINE high == Len(s) \div Byte
           low  == Len(s) % Byte
<1>1. Len(s) \in Nat /\ Len(block) \in Nat /\ Byte \in Nat \ {0}
  BY LenProperties, KeyAssumption DEF Strings
<1>2. high \in Bytes /\ low \in Bytes /\ Len(s) = Byte * high + low
  BY <1>1, TwoBytesAreEnough DEF high, low
<1> HIDE DEF high, low
<1>4. <<high, low>> \in Strings /\ Len(<<high, low>>) = 2
  BY <1>2 DEF Strings
<1>5. Encode16(s) = <<high, low>> \o s
  BY DEF Encode16, high, low
<1>6. Holds(block, at, <<high, low>>) /\ Holds(block, at + 2, s)
  BY <1>4, <1>5, HoldsParts
<1>7. Len(Encode16(s)) = 2 + Len(s)
  BY <1>4, <1>5, ConcatProperties DEF Strings
<1>8. at \in Nat /\ at + 1 < Len(block) /\ block[at + 1] = high /\ block[at + 2] = low
  <2>1. /\ at \in Nat /\ at + 2 <= Len(block)
        /\ \A i \in 1 .. 2 : block[at + i] = <<high, low>>[i]
    BY <1>4, <1>6 DEF Holds
  <2>2. block[at + 1] = <<high, low>>[1] /\ block[at + 2] = <<high, low>>[2]
    BY <2>1
  <2> QED
    BY <2>1, <2>2, <1>1
<1> DEFINE from == at + 2
<1>9. GetString(block, from, Len(s)) = [ok |-> TRUE, str |-> s, at |-> from + Len(s)]
  <2>1. Holds(block, from, s)
    BY <1>6
  <2> HIDE DEF from
  <2> QED
    BY <2>1, StringIsRead
<1>10. at + 2 + Len(s) = at + Len(Encode16(s))
  BY <1>1, <1>7, <1>8
<1>11. Get16(block, at) = GetString(block, from, Len(s))
  BY <1>2, <1>8 DEF Get16
<1> QED
  BY <1>9, <1>10, <1>11

\* The lengths of an item have room in front of it.
Fits(item) ==
  item \in ItemSet /\ Len(item.key) < Byte /\ Len(item.value) < Byte * Byte

LEMMA CodeIsBytes ==
  ASSUME NEW item, Fits(item)
  PROVE  /\ Encode8(item.key) \in Strings /\ Encode16(item.value) \in Strings
         /\ EncodeItem(item) \in Strings
         /\ Len(EncodeItem(item)) = Len(Encode8(item.key)) + Len(Encode16(item.value))
         /\ Len(EncodeItem(item)) \in Nat /\ Len(EncodeItem(item)) >= 1
<1>1. item.key \in Seq(Bytes) /\ item.value \in Seq(Bytes)
  BY DEF Fits, ItemSet, Strings
<1>2. Len(item.key) \in Bytes /\ Len(item.value) \in Nat
  BY <1>1, LenProperties, KeyAssumption DEF Fits, Bytes
<1>3. Len(item.value) \div Byte \in Bytes /\ Len(item.value) % Byte \in Bytes
  BY <1>2, TwoBytesAreEnough DEF Fits
<1>4. /\ <<Len(item.key)>> \in Seq(Bytes) /\ Len(<<Len(item.key)>>) = 1
      /\ <<Len(item.value) \div Byte, Len(item.value) % Byte>> \in Seq(Bytes)
  BY <1>2, <1>3
<1>5. /\ Encode8(item.key) \in Seq(Bytes) /\ Encode16(item.value) \in Seq(Bytes)
      /\ Len(Encode8(item.key)) = 1 + Len(item.key)
  BY <1>1, <1>4, ConcatProperties DEF Encode8, Encode16
<1>6. /\ EncodeItem(item) \in Seq(Bytes)
      /\ Len(EncodeItem(item)) = Len(Encode8(item.key)) + Len(Encode16(item.value))
  BY <1>5, ConcatProperties DEF EncodeItem
<1>7. Len(Encode16(item.value)) \in Nat /\ Len(item.key) \in Nat
  BY <1>5, <1>1, LenProperties
<1>8. Len(EncodeItem(item)) \in Nat /\ Len(EncodeItem(item)) >= 1
  <2> DEFINE whole == Len(EncodeItem(item))
             first == Len(Encode8(item.key))
             second == Len(Encode16(item.value))
             key == Len(item.key)
  <2>1. whole = first + second /\ first = 1 + key /\ second \in Nat /\ key \in Nat
    BY <1>5, <1>6, <1>7
  <2> HIDE DEF whole, first, second, key
  <2>2. whole \in Nat /\ whole >= 1
    BY <2>1
  <2> QED
    BY <2>2 DEF whole
<1> QED
  BY <1>5, <1>6, <1>8 DEF Strings

\* What was read from a position, with an item that was read before it.
Longer(item, more) == [ok |-> TRUE, items |-> <<item>> \o more.items]

\* One turn of the loop reads the item that is there.
LEMMA ItemIsRead ==
  ASSUME NEW block \in Strings, NEW at, NEW item, NEW f, NEW next,
         Fits(item), Holds(block, at, EncodeItem(item)),
         next = at + Len(EncodeItem(item)), f[next].ok
  PROVE  ItemsAt(block, f, at) = Longer(item, f[next])
<1> DEFINE middle == at + Len(Encode8(item.key))
<1>1. /\ item.key \in Strings /\ item.value \in Strings
      /\ item = [key |-> item.key, value |-> item.value]
  BY DEF Fits, ItemSet
<1>2. Holds(block, at, Encode8(item.key)) /\ Holds(block, middle, Encode16(item.value))
  BY CodeIsBytes, HoldsParts DEF EncodeItem
<1>3. Get8(block, at) = [ok |-> TRUE, str |-> item.key, at |-> middle]
  BY <1>1, <1>2, KeyIsRead DEF Fits
<1> HIDE DEF middle
<1>4. Get16(block, middle)
        = [ok |-> TRUE, str |-> item.value, at |-> middle + Len(Encode16(item.value))]
  BY <1>1, <1>2, ValueIsRead DEF Fits
<1>5. middle + Len(Encode16(item.value)) = next /\ at # Len(block)
  <2>1. /\ at \in Nat /\ Len(block) \in Nat /\ at + Len(EncodeItem(item)) <= Len(block)
        /\ Len(Encode8(item.key)) \in Nat /\ Len(Encode16(item.value)) \in Nat
    BY CodeIsBytes, LenProperties DEF Holds, Strings
  <2> QED
    BY <2>1, CodeIsBytes DEF middle
<1> QED
  <2>1. /\ Get8(block, at).ok /\ Get8(block, at).str = item.key /\ Get8(block, at).at = middle
    BY <1>3
  <2>2. /\ Get16(block, middle).ok /\ Get16(block, middle).str = item.value
        /\ Get16(block, middle).at = next
    BY <1>4, <1>5
  <2> QED
    BY <1>1, <1>5, <2>1, <2>2 DEF ItemsAt, Longer

\* A concatenation grows from the empty sequence, one sequence at a time.
Beginnings(p, seqs, S) ==
  /\ p \in [0 .. Len(seqs) -> Seq(S)]
  /\ p[0] = <<>> /\ p[Len(seqs)] = FlattenSeq(seqs)
  /\ \A i \in 1 .. Len(seqs) : p[i] = p[i - 1] \o seqs[i]

LEMMA PrefixFacts ==
  ASSUME NEW S, NEW seqs \in Seq(Seq(S))
  PROVE  \E p : Beginnings(p, seqs, S)
<1>1. /\ Len(seqs) \in Nat /\ <<>> \in Seq(S)
      /\ \A i \in 1 .. Len(seqs) : seqs[i] \in Seq(S)
  BY LenProperties, EmptySeq, ElementOfSeq
<1>2. CASE seqs = <<>>
  <2> DEFINE p == [i \in 0 .. 0 |-> <<>>]
  <2>1. Len(seqs) = 0 /\ FlattenSeq(seqs) = <<>>
    BY <1>2, EmptySeq DEF FlattenSeq
  <2>2. Beginnings(p, seqs, S)
    BY <2>1, <1>1 DEF Beginnings
  <2> QED
    BY <2>2
<1>3. CASE seqs # <<>>
  <2>0. Len(seqs) # 0
    BY <1>3, EmptySeq
  <2>1. PICK f : Flattens(f, seqs)
    BY <1>3, FlattenFacts
  <2>2. /\ FlattenSeq(seqs) = f[Len(seqs)]
        /\ \A i \in 1 .. Len(seqs) : f[i] = IF i = 1 THEN seqs[1] ELSE f[i - 1] \o seqs[i]
    BY <2>1 DEF Flattens
  <2> DEFINE p == [i \in 0 .. Len(seqs) |-> IF i = 0 THEN <<>> ELSE f[i]]
             Wrong == {i \in 0 .. Len(seqs) : p[i] \notin Seq(S)}
  <2>3. ASSUME NEW i \in 1 .. Len(seqs), p[i - 1] \in Seq(S)
        PROVE  p[i] = p[i - 1] \o seqs[i]
    <3>1. CASE i = 1
      <4>1. <<>> \o seqs[1] = seqs[1]
        BY <3>1, <1>1, ConcatEmptySeq
      <4> QED
        BY <3>1, <4>1, <2>2, <1>1
    <3>2. CASE i # 1
      <4>1. i - 1 \in 0 .. Len(seqs) /\ i - 1 # 0 /\ i \in 0 .. Len(seqs) /\ i # 0
        BY <3>2, <1>1
      <4>2. p[i - 1] = f[i - 1] /\ p[i] = f[i]
        BY <4>1
      <4> QED
        BY <3>2, <4>2, <2>2
    <3> QED
      BY <3>1, <3>2
  <2>4. Wrong = {}
    <3> SUFFICES ASSUME Wrong # {} PROVE FALSE
      OBVIOUS
    <3>1. Wrong \subseteq Nat
      BY <1>1
    <3>2. p[0] \in Seq(S)
      BY <1>1
    <3> HIDE DEF p
    <3>3. \A i \in 0 .. Len(seqs) : i \in Wrong <=> p[i] \notin Seq(S)
      OBVIOUS
    <3>4. \A i \in Wrong : i \in 0 .. Len(seqs)
      OBVIOUS
    <3> HIDE DEF Wrong
    <3>5. PICK i \in Wrong : \A j \in Wrong : i <= j
      BY <3>1, LeastExists
    <3>6. i \in 1 .. Len(seqs) /\ i - 1 \in 0 .. Len(seqs) /\ ~(i <= i - 1)
      BY <3>2, <3>3, <3>4, <3>5, <1>1
    <3>7. p[i - 1] \in Seq(S)
      BY <3>3, <3>5, <3>6
    <3>8. p[i - 1] \o seqs[i] \in Seq(S)
      BY <3>6, <3>7, <1>1, ConcatProperties
    <3>9. p[i] \in Seq(S)
      BY <2>3, <3>6, <3>7, <3>8
    <3> QED
      BY <3>3, <3>4, <3>5, <3>9
  <2>5. \A i \in 0 .. Len(seqs) : p[i] \in Seq(S)
    <3> HIDE DEF p
    <3> QED
      BY <2>4
  <2>6. p \in [0 .. Len(seqs) -> Seq(S)]
    <3>1. p = [i \in 0 .. Len(seqs) |-> p[i]]
      OBVIOUS
    <3> HIDE DEF p
    <3> QED
      BY <2>5, <3>1
  <2>7. \A i \in 1 .. Len(seqs) : p[i] = p[i - 1] \o seqs[i]
    <3>1. \A i \in 1 .. Len(seqs) : i - 1 \in 0 .. Len(seqs)
      BY <1>1
    <3> HIDE DEF p
    <3> QED
      BY <3>1, <2>3, <2>5
  <2>8. p[0] = <<>> /\ p[Len(seqs)] = FlattenSeq(seqs)
    BY <2>0, <2>2, <1>1
  <2>9. Beginnings(p, seqs, S)
    <3> HIDE DEF p
    <3> QED
      BY <2>6, <2>7, <2>8 DEF Beginnings
  <2> QED
    BY <2>9
<1> QED
  BY <1>2, <1>3

\* The loop reads the items that a block ends with.
LEMMA ItemsAreRead ==
  ASSUME NEW block \in Strings, NEW start \in Nat, NEW items \in Seq(ItemSet),
         \A i \in DOMAIN items : Fits(items[i]),
         LET codes == [i \in DOMAIN items |-> EncodeItem(items[i])]
         IN  /\ Holds(block, start, FlattenSeq(codes))
             /\ start + Len(FlattenSeq(codes)) = Len(block)
  PROVE  Items(block, start) = [ok |-> TRUE, items |-> items]
<1> DEFINE n == Len(items)
           codes == [i \in DOMAIN items |-> EncodeItem(items[i])]
<1>1. /\ n \in Nat /\ DOMAIN items = 1 .. n /\ Len(block) \in Nat
      /\ \A i \in 1 .. n : items[i] \in ItemSet
  BY LenProperties, ElementOfSeq DEF Strings
<1>2. /\ codes \in Seq(Strings) /\ Len(codes) = n
      /\ \A i \in 1 .. n : codes[i] = EncodeItem(items[i]) /\ codes[i] \in Strings
  <2>1. \A i \in 1 .. n : EncodeItem(items[i]) \in Strings
    BY <1>1, CodeIsBytes
  <2> QED
    BY <2>1, <1>1
<1> HIDE DEF codes, n
<1>3. PICK p : Beginnings(p, codes, Bytes)
  BY <1>2, PrefixFacts DEF Strings
<1>4. /\ \A i \in 0 .. n : p[i] \in Strings /\ Len(p[i]) \in Nat
      /\ p[0] = <<>> /\ p[n] = FlattenSeq(codes)
      /\ \A i \in 1 .. n : p[i] = p[i - 1] \o codes[i]
  <2>1. \A i \in 0 .. n : p[i] \in Seq(Bytes)
    BY <1>2, <1>3 DEF Beginnings
  <2> QED
    BY <2>1, <1>2, <1>3, LenProperties DEF Beginnings, Strings
<1>5. PICK f : /\ f \in [0 .. Len(block) -> Parses]
               /\ \A at \in 0 .. Len(block) : /\ Items(block, at) = f[at]
                                              /\ f[at] = ItemsAt(block, f, at)
  BY ItemsAreDefined
<1> DEFINE Place(i) == start + Len(p[i])
           Read(i) == /\ Holds(block, start, p[i])
                      /\ f[Place(i)].ok /\ Len(f[Place(i)].items) = n - i
                      /\ \A k \in 1 .. n - i : f[Place(i)].items[k] = items[i + k]
           Lost == {k \in 0 .. n : ~Read(n - k)}
<1>6. ASSUME NEW i \in 0 .. n, Holds(block, start, p[i])
      PROVE  /\ Place(i) \in 0 .. Len(block) /\ f[Place(i)] = ItemsAt(block, f, Place(i))
             /\ f[Place(i)].ok => f[Place(i)].items \in Seq(ItemSet)
  <2>1. Place(i) \in 0 .. Len(block)
    BY <1>1, <1>4, <1>6 DEF Holds
  <2> HIDE DEF Place
  <2> QED
    BY <2>1, <1>5, ParsedItems
<1>7. Read(n)
  <2>1. Holds(block, start, p[n]) /\ Place(n) = Len(block) /\ n \in 0 .. n
    BY <1>1, <1>4 DEF codes
  <2>2. f[Place(n)] = ItemsAt(block, f, Place(n))
    BY <2>1, <1>6
  <2>3. ItemsAt(block, f, Place(n)) = [ok |-> TRUE, items |-> <<>>]
    <3> HIDE DEF Place
    <3>1. Place(n) \in 0 .. Len(block) /\ ~(Place(n) < Len(block))
      BY <2>1, <1>1
    <3> QED
      BY <2>1, <3>1 DEF ItemsAt, Get8, Threw
  <2>4. f[Place(n)].ok /\ f[Place(n)].items = <<>>
    <3> HIDE DEF Place
    <3> QED
      BY <2>2, <2>3
  <2>5. Len(f[Place(n)].items) = n - n
    <3> HIDE DEF Place
    <3> QED
      BY <2>4, <1>1, EmptySeq
  <2> QED
    BY <2>1, <2>4, <2>5, <1>1
<1>8. ASSUME NEW i \in 1 .. n, Read(i) PROVE Read(i - 1)
  <2>1. i - 1 \in 0 .. n /\ i \in 0 .. n
    BY <1>1
  <2>2. Holds(block, start, p[i - 1]) /\ Holds(block, Place(i - 1), codes[i])
    <3>1. /\ p[i - 1] \in Strings /\ codes[i] \in Strings
          /\ Holds(block, start, p[i - 1] \o codes[i])
      BY <2>1, <1>2, <1>4, <1>8
    <3> HIDE DEF Read
    <3> QED
      BY <3>1, HoldsParts
  <2>3. Place(i) = Place(i - 1) + Len(EncodeItem(items[i]))
    <3> DEFINE first == p[i - 1]
               second == codes[i]
    <3>1. first \in Seq(Bytes) /\ second \in Seq(Bytes) /\ p[i] = first \o second
      BY <2>1, <1>2, <1>4 DEF Strings
    <3> HIDE DEF first, second
    <3>2. Len(p[i]) = Len(first) + Len(second) /\ Len(first) \in Nat /\ Len(second) \in Nat
      BY <3>1, ConcatProperties, LenProperties
    <3>3. start + Len(p[i]) = start + Len(first) + Len(second)
      BY <3>2
    <3>4. second = EncodeItem(items[i])
      BY <1>2 DEF second
    <3> QED
      BY <3>3, <3>4 DEF first
  <2> DEFINE a == Place(i - 1)
             b == Place(i)
             rest == f[b].items
  <2>4. f[b].ok /\ Len(rest) = n - i /\ \A k \in 1 .. n - i : rest[k] = items[i + k]
    BY <1>8
  <2>5. rest \in Seq(ItemSet) /\ f[a] = ItemsAt(block, f, a)
    BY <2>1, <2>2, <2>4, <1>6, <1>8
  <2>6. Holds(block, a, EncodeItem(items[i])) /\ b = a + Len(EncodeItem(items[i]))
    BY <2>2, <2>3, <1>2
  <2>7. Fits(items[i]) /\ items[i] \in ItemSet
    BY <1>1
  <2> HIDE DEF a, b, rest, Place
  <2>8. f[a] = [ok |-> TRUE, items |-> <<items[i]>> \o rest]
    <3>1. f[b].ok
      BY <2>4
    <3>2. ItemsAt(block, f, a) = Longer(items[i], f[b])
      BY <3>1, <2>6, <2>7, ItemIsRead
    <3> QED
      BY <3>2, <2>5 DEF rest, Longer
  <2>9. /\ Len(<<items[i]>> \o rest) = n - (i - 1)
        /\ \A k \in 1 .. n - (i - 1) : (<<items[i]>> \o rest)[k] = items[i - 1 + k]
    <3>1. /\ Len(<<items[i]>> \o rest) = Len(rest) + 1
          /\ (<<items[i]>> \o rest)[1] = items[i]
          /\ \A k \in 1 .. Len(rest) : (<<items[i]>> \o rest)[k + 1] = rest[k]
      BY <2>5, <2>7, PushFacts
    <3> DEFINE all == <<items[i]>> \o rest
    <3> HIDE DEF all
    <3>2. ASSUME NEW k \in 1 .. n - (i - 1) PROVE all[k] = items[i - 1 + k]
      <4>1. CASE k = 1
        BY <4>1, <3>1, <1>1 DEF all
      <4>2. CASE k # 1
        <5>1. /\ k - 1 \in 1 .. n - i /\ (k - 1) + 1 = k /\ i + (k - 1) = i - 1 + k
          BY <4>2, <1>1
        <5>2. all[(k - 1) + 1] = rest[k - 1]
          BY <5>1, <3>1, <2>4 DEF all
        <5> QED
          BY <5>1, <5>2, <2>4
      <4> QED
        BY <4>1, <4>2
    <3>3. Len(all) = n - (i - 1)
      <4>1. Len(all) = (n - i) + 1
        BY <3>1, <2>4 DEF all
      <4> QED
        BY <4>1, <1>1
    <3> QED
      BY <3>2, <3>3 DEF all
  <2>10. /\ f[a].ok /\ Len(f[a].items) = n - (i - 1)
         /\ \A k \in 1 .. n - (i - 1) : f[a].items[k] = items[i - 1 + k]
    <3>1. f[a].ok /\ f[a].items = <<items[i]>> \o rest
      BY <2>8
    <3> QED
      BY <2>9, <3>1
  <2> QED
    BY <2>2, <2>10 DEF a
<1>9. Lost = {}
  <2> SUFFICES ASSUME Lost # {} PROVE FALSE
    OBVIOUS
  <2>1. Lost \subseteq Nat
    BY <1>1
  <2>2. \A k \in 0 .. n : k \in Lost <=> ~Read(n - k)
    OBVIOUS
  <2>3. \A k \in Lost : k \in 0 .. n
    OBVIOUS
  <2> HIDE DEF Lost, Read
  <2>4. PICK k \in Lost : \A j \in Lost : k <= j
    BY <2>1, LeastExists
  <2>5. k # 0
    <3>1. n - 0 = n /\ 0 \in 0 .. n
      BY <1>1
    <3> QED
      BY <3>1, <2>2, <2>4, <1>7
  <2>6. /\ k - 1 \in 0 .. n /\ ~(k <= k - 1) /\ n - (k - 1) \in 1 .. n
        /\ (n - (k - 1)) - 1 = n - k
    BY <2>3, <2>4, <2>5, <1>1
  <2>7. Read(n - (k - 1))
    BY <2>2, <2>4, <2>6
  <2>8. Read((n - (k - 1)) - 1)
    BY <2>6, <2>7, <1>8
  <2> QED
    BY <2>2, <2>3, <2>4, <2>6, <2>8
<1>10. Read(0)
  <2>1. n \in 0 .. n /\ n - n = 0
    BY <1>1
  <2>2. \A k \in 0 .. n : Read(n - k)
    BY <1>9
  <2> HIDE DEF Read
  <2>3. Read(n - n)
    BY <2>1, <2>2
  <2> QED
    BY <2>1, <2>3
<1>11. Place(0) = start /\ 0 \in 0 .. n
  BY <1>1, <1>4, EmptySeq
<1>12. /\ f[start].ok /\ Len(f[start].items) = n
       /\ \A k \in 1 .. n : f[start].items[k] = items[k]
  <2>1. /\ f[Place(0)].ok /\ Len(f[Place(0)].items) = n - 0
        /\ \A k \in 1 .. n - 0 : f[Place(0)].items[k] = items[0 + k]
    BY <1>10
  <2>2. n - 0 = n /\ \A k \in 1 .. n : 0 + k = k
    BY <1>1
  <2> HIDE DEF Place
  <2> QED
    BY <2>1, <2>2, <1>11
<1>13. start \in 0 .. Len(block) /\ f[start].items \in Seq(ItemSet)
  <2>1. Holds(block, start, p[0])
    BY <1>10
  <2> HIDE DEF Place
  <2> QED
    BY <2>1, <1>6, <1>11, <1>12
<1>14. f[start].items = items
  BY <1>12, <1>13, <1>1, SeqEqual DEF n
<1>15. f[start] = [ok |-> TRUE, items |-> items]
  <2>1. f[start] \in Parses /\ f[start] # Threw
    BY <1>5, <1>12, <1>13 DEF Threw
  <2> QED
    BY <2>1, <1>14 DEF Parses
<1> QED
  BY <1>5, <1>13, <1>15

\* What the format has room for is read back as it was written, whatever the
\* type and however many items there are: the decoder refuses no block that
\* follows the format, and no two contents have the same block.
THEOREM EncodedIsDecoded ==
  ASSUME NEW type \in Strings, Len(type) < Byte, NEW items \in Seq(ItemSet),
         \A i \in DOMAIN items : Fits(items[i])
  PROVE  Decode(Encode(type, items)) = [ok |-> TRUE, type |-> type, items |-> items]
<1> DEFINE codes == [i \in DOMAIN items |-> EncodeItem(items[i])]
           body == FlattenSeq(codes)
           head == Encode8(type)
           block == head \o body
<1>1. head \in Strings /\ Len(head) \in Nat
  <2>1. Len(type) \in Bytes
    BY LenProperties, KeyAssumption DEF Strings, Bytes
  <2>2. <<Len(type)>> \in Seq(Bytes)
    BY <2>1
  <2>3. head \in Seq(Bytes)
    BY <2>2, ConcatProperties DEF Encode8, Strings
  <2> QED
    BY <2>3, LenProperties DEF Strings
<1>2. body \in Strings /\ Len(body) \in Nat
  <2>1. codes \in Seq(Strings)
    <3>1. /\ \A i \in DOMAIN items : EncodeItem(items[i]) \in Strings
          /\ DOMAIN items = 1 .. Len(items) /\ Len(items) \in Nat
      BY CodeIsBytes, LenProperties
    <3> QED
      BY <3>1
  <2> HIDE DEF codes
  <2>2. PICK p : Beginnings(p, codes, Bytes)
    BY <2>1, PrefixFacts DEF Strings
  <2>3. Len(codes) \in 0 .. Len(codes)
    BY <2>1, LenProperties
  <2>4. body \in Seq(Bytes)
    BY <2>2, <2>3 DEF Beginnings
  <2> QED
    BY <2>4, LenProperties DEF Strings
<1> HIDE DEF body, head
<1>3. block \in Strings /\ Len(block) = Len(head) + Len(body)
  BY <1>1, <1>2, ConcatProperties DEF Strings
<1>4. Encode(type, items) = block
  BY DEF Encode, head, body
<1>5. Holds(block, 0, block)
  BY <1>1, <1>2, <1>3 DEF Holds
<1>6. Holds(block, 0, head) /\ Holds(block, 0 + Len(head), body)
  BY <1>1, <1>2, <1>3, <1>5, HoldsParts
<1>7. 0 + Len(head) = Len(head)
  BY <1>1
<1> HIDE DEF block
<1>8. Get8(block, 0) = [ok |-> TRUE, str |-> type, at |-> Len(head)]
  BY <1>3, <1>6, <1>7, KeyIsRead DEF head
<1>9. Items(block, Len(head)) = [ok |-> TRUE, items |-> items]
  BY <1>1, <1>3, <1>6, <1>7, ItemsAreRead DEF body
<1> QED
  <2> DEFINE first == Get8(block, 0)
             rest == Items(block, first.at)
  <2>1. first.ok /\ first.str = type /\ rest.ok /\ rest.items = items
    BY <1>8, <1>9
  <2>2. Decode(block) = [ok |-> TRUE, type |-> first.str, items |-> rest.items]
    BY <2>1 DEF Decode
  <2> QED
    BY <1>4, <2>1, <2>2

-----------------------------------------------------------------------------
(* The node that the items make *)

\* The last of the first i items that has the key of the j-th.
LastKey(items, i, j) ==
  j \in 1 .. i /\ \A k \in 1 .. i : items[k].key = items[j].key => k <= j

\* What the first i items say.
Says(node, items, i) ==
  /\ node.ok = TRUE
  /\ (\A j \in 1 .. i : items[j].key # HashKey) => node.oid = Zero
  /\ \A j \in 1 .. i : LastKey(items, i, j) /\ items[j].key = HashKey =>
       node.oid = OidOf[items[j].value]
  /\ \A j \in 1 .. i : LastKey(items, i, j) /\ items[j].key = DateKey =>
       node.date = DateOf[items[j].value] /\ node.date # Unset
  /\ DOMAIN node.props = {items[j].key : j \in 1 .. i} \ {HashKey, DateKey}
  /\ \A j \in 1 .. i : LastKey(items, i, j) /\ items[j].key \notin {HashKey, DateKey} =>
       node.props[items[j].key] = items[j].value

\* Nodes that calls of add_property can make.
Nodes ==
  {Threw} \cup
  [ok : {TRUE}, oid : {Zero} \cup {OidOf[t] : t \in DOMAIN OidOf},
   date : {Unset} \cup {DateOf[t] : t \in DOMAIN DateOf},
   props : UNION {[K -> Strings] : K \in SUBSET Strings}]

LEMMA AddPropertyType ==
  ASSUME NEW node \in Nodes, NEW item \in ItemSet
  PROVE  AddProperty(node, item) \in Nodes
<1>1. CASE node = Threw
  BY <1>1 DEF AddProperty, Threw, Nodes
<1>2. CASE node # Threw
  <2>1. /\ node.ok = TRUE /\ DOMAIN node.props \in SUBSET Strings
        /\ node.props \in [DOMAIN node.props -> Strings]
        /\ node.oid \in {Zero} \cup {OidOf[t] : t \in DOMAIN OidOf}
        /\ node.date \in {Unset} \cup {DateOf[t] : t \in DOMAIN DateOf}
        /\ node = [ok |-> TRUE, oid |-> node.oid, date |-> node.date, props |-> node.props]
    BY <1>2 DEF Nodes
  <2>2. item.key \in Strings /\ item.value \in Strings
    BY DEF ItemSet
  <2>3. CASE item.key = DateKey
    <3>1. CASE item.value \in DOMAIN DateOf
      <4>1. AddProperty(node, item) =
              [ok |-> TRUE, oid |-> node.oid, date |-> DateOf[item.value], props |-> node.props]
        BY <2>1, <2>3, <3>1 DEF AddProperty
      <4> QED
        BY <4>1, <2>1, <3>1 DEF Nodes
    <3>2. CASE item.value \notin DOMAIN DateOf
      BY <2>1, <2>3, <3>2 DEF AddProperty, Nodes
    <3> QED
      BY <3>1, <3>2
  <2>4. CASE item.key # DateKey /\ item.key = HashKey
    <3>1. CASE item.value \in DOMAIN OidOf
      <4>1. AddProperty(node, item) =
              [ok |-> TRUE, oid |-> OidOf[item.value], date |-> node.date, props |-> node.props]
        BY <2>1, <2>4, <3>1 DEF AddProperty
      <4> QED
        BY <4>1, <2>1, <3>1 DEF Nodes
    <3>2. CASE item.value \notin DOMAIN OidOf
      BY <2>1, <2>4, <3>2 DEF AddProperty, Nodes
    <3> QED
      BY <3>1, <3>2
  <2>5. CASE item.key # DateKey /\ item.key # HashKey
    <3> DEFINE K == DOMAIN node.props \cup {item.key}
               props == [k \in K |-> IF k = item.key THEN item.value ELSE node.props[k]]
    <3>1. AddProperty(node, item) =
            [ok |-> TRUE, oid |-> node.oid, date |-> node.date, props |-> props]
      BY <2>1, <2>5 DEF AddProperty
    <3>2. K \in SUBSET Strings
      BY <2>1, <2>2
    <3>3. \A k \in K : props[k] \in Strings
      BY <2>1, <2>2
    <3>4. props \in [K -> Strings]
      <4> HIDE DEF K
      <4> QED
        BY <3>3
    <3> HIDE DEF props, K
    <3> QED
      BY <2>1, <3>1, <3>2, <3>4 DEF Nodes
  <2> QED
    BY <2>3, <2>4, <2>5
<1> QED
  BY <1>1, <1>2

LEMMA NodeFields ==
  ASSUME NEW node \in Nodes, node.ok
  PROVE  /\ node.ok = TRUE
         /\ node = [ok |-> TRUE, oid |-> node.oid, date |-> node.date, props |-> node.props]
<1>1. node # Threw
  BY DEF Threw
<1> QED
  BY <1>1 DEF Nodes

\* The last of a key among the first i items is the i-th, or it has another key
\* and the last is as it was.
LEMMA LastKeyStep ==
  ASSUME NEW items, NEW i \in Nat \ {0}, NEW j \in 1 .. i, LastKey(items, i, j)
  PROVE  \/ j = i
         \/ /\ j \in 1 .. i - 1 /\ LastKey(items, i - 1, j)
            /\ items[i].key # items[j].key
BY DEF LastKey

LEMMA AddPropertySays ==
  ASSUME NEW items \in Seq(ItemSet), NEW i \in 1 .. Len(items), NEW node \in Nodes,
         node.ok => Says(node, items, i - 1), AddProperty(node, items[i]).ok
  PROVE  Says(AddProperty(node, items[i]), items, i)
<1> DEFINE item == items[i]
           new == AddProperty(node, item)
<1>0. i \in Nat \ {0} /\ i - 1 \in Nat /\ i \in 1 .. i
  BY LenProperties
<1>1. node.ok
  BY DEF AddProperty
<1>2. /\ Says(node, items, i - 1) /\ node.ok = TRUE
      /\ node = [ok |-> TRUE, oid |-> node.oid, date |-> node.date, props |-> node.props]
  BY <1>1, NodeFields
<1>3. HashKey # DateKey /\ \A t \in DOMAIN DateOf : DateOf[t] # Unset
  BY KeyAssumption
<1>4. ASSUME NEW j \in 1 .. i, LastKey(items, i, j), j # i
      PROVE  j \in 1 .. i - 1 /\ LastKey(items, i - 1, j) /\ item.key # items[j].key
  BY <1>0, <1>4, LastKeyStep
<1>5. {items[j].key : j \in 1 .. i} = {items[j].key : j \in 1 .. i - 1} \cup {item.key}
  <2>1. 1 .. i = (1 .. i - 1) \cup {i}
    BY <1>0
  <2> QED
    BY <2>1
<1>6. \A j \in 1 .. i - 1 : j \in 1 .. i
  BY <1>0
<1>7. CASE item.key = DateKey
  <2>1. /\ item.value \in DOMAIN DateOf
        /\ new = [ok |-> TRUE, oid |-> node.oid, date |-> DateOf[item.value], props |-> node.props]
    <3>1. CASE item.value \in DOMAIN DateOf
      BY <1>2, <1>7, <3>1 DEF AddProperty
    <3>2. CASE item.value \notin DOMAIN DateOf
      BY <1>2, <1>7, <3>2 DEF AddProperty, Threw
    <3> QED
      BY <3>1, <3>2
  <2>2. /\ new.ok = TRUE /\ new.oid = node.oid /\ new.props = node.props
        /\ new.date = DateOf[item.value] /\ new.date # Unset
    BY <2>1, <1>3
  <2> HIDE DEF new
  <2>3. (\A j \in 1 .. i : items[j].key # HashKey) => new.oid = Zero
    BY <2>2, <1>0, <1>2, <1>3, <1>4, <1>6, <1>7 DEF Says
  <2>4. \A j \in 1 .. i : LastKey(items, i, j) /\ items[j].key = HashKey =>
           new.oid = OidOf[items[j].value]
    BY <2>2, <1>0, <1>2, <1>3, <1>4, <1>6, <1>7 DEF Says
  <2>5. \A j \in 1 .. i : LastKey(items, i, j) /\ items[j].key = DateKey =>
           new.date = DateOf[items[j].value] /\ new.date # Unset
    BY <2>2, <1>0, <1>2, <1>3, <1>4, <1>6, <1>7 DEF Says
  <2>6. DOMAIN new.props = {items[j].key : j \in 1 .. i} \ {HashKey, DateKey}
    <3>1. DOMAIN node.props = {items[j].key : j \in 1 .. i - 1} \ {HashKey, DateKey}
      BY <1>2 DEF Says
    <3> QED
      BY <3>1, <2>2, <1>5, <1>7
  <2>7. \A j \in 1 .. i : LastKey(items, i, j) /\ items[j].key \notin {HashKey, DateKey} =>
           new.props[items[j].key] = items[j].value
    BY <2>2, <1>2, <1>4, <1>7 DEF Says
  <2> QED
    BY <2>2, <2>3, <2>4, <2>5, <2>6, <2>7 DEF Says, new
<1>8. CASE item.key # DateKey /\ item.key = HashKey
  <2>1. new = [ok |-> TRUE, oid |-> OidOf[item.value], date |-> node.date, props |-> node.props]
    <3>1. CASE item.value \in DOMAIN OidOf
      BY <1>2, <1>8, <3>1 DEF AddProperty
    <3>2. CASE item.value \notin DOMAIN OidOf
      BY <1>2, <1>8, <3>2 DEF AddProperty, Threw
    <3> QED
      BY <3>1, <3>2
  <2>2. /\ new.ok = TRUE /\ new.oid = OidOf[item.value] /\ new.props = node.props
        /\ new.date = node.date
    BY <2>1
  <2> HIDE DEF new
  <2>3. (\A j \in 1 .. i : items[j].key # HashKey) => new.oid = Zero
    BY <2>2, <1>0, <1>2, <1>3, <1>4, <1>6, <1>8 DEF Says
  <2>4. \A j \in 1 .. i : LastKey(items, i, j) /\ items[j].key = HashKey =>
           new.oid = OidOf[items[j].value]
    BY <2>2, <1>0, <1>2, <1>3, <1>4, <1>6, <1>8 DEF Says
  <2>5. \A j \in 1 .. i : LastKey(items, i, j) /\ items[j].key = DateKey =>
           new.date = DateOf[items[j].value] /\ new.date # Unset
    BY <2>2, <1>0, <1>2, <1>3, <1>4, <1>6, <1>8 DEF Says
  <2>6. DOMAIN new.props = {items[j].key : j \in 1 .. i} \ {HashKey, DateKey}
    <3>1. DOMAIN node.props = {items[j].key : j \in 1 .. i - 1} \ {HashKey, DateKey}
      BY <1>2 DEF Says
    <3> QED
      BY <3>1, <2>2, <1>5, <1>8
  <2>7. \A j \in 1 .. i : LastKey(items, i, j) /\ items[j].key \notin {HashKey, DateKey} =>
           new.props[items[j].key] = items[j].value
    BY <2>2, <1>2, <1>4, <1>8 DEF Says
  <2> QED
    BY <2>2, <2>3, <2>4, <2>5, <2>6, <2>7 DEF Says, new
<1>9. CASE item.key # DateKey /\ item.key # HashKey
  <2> DEFINE K == DOMAIN node.props \cup {item.key}
             props == [k \in K |-> IF k = item.key THEN item.value ELSE node.props[k]]
  <2>1. new = [ok |-> TRUE, oid |-> node.oid, date |-> node.date, props |-> props]
    BY <1>2, <1>9 DEF AddProperty
  <2>2. /\ new.ok = TRUE /\ new.oid = node.oid /\ new.props = props
        /\ new.date = node.date
    BY <2>1
  <2>3. DOMAIN props = {items[j].key : j \in 1 .. i} \ {HashKey, DateKey}
    <3>1. DOMAIN node.props = {items[j].key : j \in 1 .. i - 1} \ {HashKey, DateKey}
      BY <1>2 DEF Says
    <3> QED
      BY <3>1, <1>5, <1>9
  <2>4. ASSUME NEW j \in 1 .. i, LastKey(items, i, j), items[j].key \notin {HashKey, DateKey}
        PROVE  props[items[j].key] = items[j].value
    <3>1. items[j].key \in K
      <4>1. items[j].key \in {items[k].key : k \in 1 .. i}
        OBVIOUS
      <4> QED
        BY <4>1, <2>3, <2>4
    <3>2. CASE j = i
      BY <3>1, <3>2
    <3>3. CASE j # i
      <4>1. node.props[items[j].key] = items[j].value /\ items[j].key # item.key
        BY <3>3, <2>4, <1>2, <1>4 DEF Says
      <4> QED
        BY <3>1, <4>1
    <3> QED
      BY <3>2, <3>3
  <2> HIDE DEF props
  <2> HIDE DEF new
  <2>5. (\A j \in 1 .. i : items[j].key # HashKey) => new.oid = Zero
    BY <2>2, <1>0, <1>2, <1>3, <1>4, <1>6, <1>9 DEF Says
  <2>6. \A j \in 1 .. i : LastKey(items, i, j) /\ items[j].key = HashKey =>
           new.oid = OidOf[items[j].value]
    BY <2>2, <1>0, <1>2, <1>3, <1>4, <1>6, <1>9 DEF Says
  <2>7. \A j \in 1 .. i : LastKey(items, i, j) /\ items[j].key = DateKey =>
           new.date = DateOf[items[j].value] /\ new.date # Unset
    BY <2>2, <1>0, <1>2, <1>3, <1>4, <1>6, <1>9 DEF Says
  <2> QED
    BY <2>2, <2>3, <2>4, <2>5, <2>6, <2>7 DEF Says, new
<1> QED
  BY <1>7, <1>8, <1>9

\* The node of a block that decodes says what its items say.
LEMMA BackNodeFacts ==
  ASSUME NEW block \in Strings, BackNode(block).ok
  PROVE  /\ Decode(block).ok
         /\ Says(BackNode(block), Decode(block).items, Len(Decode(block).items))
<1> DEFINE items == Decode(block).items
           n == Len(items)
           D == 0 .. n
           Told(f, i) == IF i = 0 THEN NewNode ELSE AddProperty(f[i - 1], items[i])
           node == CHOOSE f : f = [i \in D |-> Told(f, i)]
           rank == [i \in D |-> i]
           F == [g \in [D -> Nodes] |-> [i \in D |-> Told(g, i)]]
<1>1. Decode(block).ok /\ BackNode(block) = node[n]
  BY DEF BackNode, Threw
<1>2. items \in Seq(ItemSet) /\ n \in Nat /\ \A i \in 1 .. n : items[i] \in ItemSet
  BY <1>1, DecodeFacts, LenProperties, ElementOfSeq
<1> HIDE DEF items
<1>3. rank \in [D -> 0 .. n]
  BY <1>2
<1>4. NewNode \in Nodes /\ NewNode.ok = TRUE /\ Says(NewNode, items, 0)
  <2>1. NewNode.props = << >> /\ DOMAIN << >> = {} /\ << >> \in [{} -> Strings]
    BY DEF NewNode
  <2>2. NewNode \in Nodes
    BY <2>1 DEF NewNode, Nodes
  <2>3. 1 .. 0 = {} /\ NewNode.ok = TRUE /\ NewNode.oid = Zero
    BY DEF NewNode
  <2> QED
    BY <2>1, <2>2, <2>3 DEF Says
<1>5. ASSUME NEW g \in [D -> Nodes], NEW i \in D PROVE Told(g, i) \in Nodes
  <2>1. CASE i = 0
    BY <2>1, <1>4
  <2>2. CASE i # 0
    <3>1. i - 1 \in D /\ i \in 1 .. n
      BY <2>2, <1>2
    <3>2. g[i - 1] \in Nodes /\ items[i] \in ItemSet
      BY <3>1, <1>2
    <3>3. AddProperty(g[i - 1], items[i]) \in Nodes
      BY <3>2, AddPropertyType
    <3> QED
      BY <2>2, <3>3
  <2> QED
    BY <2>1, <2>2
<1>6. F \in [[D -> Nodes] -> [D -> Nodes]]
  <2> HIDE DEF D, Told
  <2> QED
    BY <1>5
<1>7. ASSUME NEW g \in [D -> Nodes], NEW h \in [D -> Nodes], NEW i \in D,
             \A q \in D : rank[q] < rank[i] => g[q] = h[q]
      PROVE  F[g][i] = F[h][i]
  <2>1. Told(g, i) = Told(h, i)
    <3>1. CASE i = 0
      BY <3>1
    <3>2. CASE i # 0
      <4>1. i - 1 \in D /\ rank[i - 1] < rank[i]
        BY <3>2, <1>2
      <4>2. g[i - 1] = h[i - 1]
        BY <4>1, <1>7
      <4> QED
        BY <3>2, <4>2
    <3> QED
      BY <3>1, <3>2
  <2> HIDE DEF D, Told
  <2> QED
    BY <2>1
<1>8. Grounded(D, Nodes, rank, F)
  <2>1. Nodes # {}
    BY <1>4
  <2> HIDE DEF D, F, rank, Told
  <2> QED
    BY <2>1, <1>2, <1>3, <1>6, <1>7 DEF Grounded
<1> HIDE DEF F, rank
<1>9. PICK g \in [D -> Nodes] : F[g] = g
  <2> HIDE DEF D
  <2> QED
    BY <1>8, RecursionIsDefined
<1>10. g = [i \in D |-> Told(g, i)]
  <2> HIDE DEF D, Told
  <2> QED
    BY <1>9 DEF F
<1>11. node = [i \in D |-> Told(node, i)]
  <2> HIDE DEF D, Told
  <2> QED
    BY <1>10
<1> HIDE DEF node
<1>12. /\ node[0] = NewNode
       /\ \A i \in 1 .. n : node[i] = AddProperty(node[i - 1], items[i])
  <2>1. \A i \in D : node[i] = Told(node, i)
    <3> HIDE DEF Told, D
    <3> QED
      BY <1>11
  <2>2. 0 \in D /\ \A i \in 1 .. n : i \in D /\ i # 0
    BY <1>2
  <2> QED
    BY <2>1, <2>2
<1> DEFINE Good(i) == node[i] \in Nodes /\ (node[i].ok => Says(node[i], items, i))
           Wrong == {i \in 0 .. n : ~Good(i)}
<1>13. Good(0)
  BY <1>4, <1>12
<1>14. ASSUME NEW i \in 1 .. n, Good(i - 1) PROVE Good(i)
  <2>1. node[i] \in Nodes
    BY <1>2, <1>12, <1>14, AddPropertyType
  <2>2. ASSUME node[i].ok PROVE Says(node[i], items, i)
    <3>1. node[i] = AddProperty(node[i - 1], items[i])
      BY <1>12
    <3> QED
      BY <2>2, <3>1, <1>2, <1>14, AddPropertySays
  <2> QED
    BY <2>1, <2>2
<1> HIDE DEF Good
<1>15. Wrong = {}
  <2> SUFFICES ASSUME Wrong # {} PROVE FALSE
    OBVIOUS
  <2>0. Wrong \subseteq Nat
    BY <1>2
  <2> HIDE DEF Wrong
  <2>1. PICK i \in Wrong : \A j \in Wrong : i <= j
    BY <2>0, LeastExists
  <2>2. i # 0 /\ i \in 1 .. n
    BY <2>1, <1>2, <1>13 DEF Wrong
  <2>3. i - 1 \in 0 .. n /\ ~(i <= i - 1)
    BY <2>2, <1>2
  <2>4. i - 1 \notin Wrong
    BY <2>1, <2>3
  <2> QED
    BY <2>1, <2>2, <2>3, <2>4, <1>14 DEF Wrong
<1>16. Good(n)
  BY <1>15, <1>2
<1> QED
  BY <1>1, <1>16 DEF Good, items

-----------------------------------------------------------------------------
(* What the last items say *)

LEMMA LastOfFacts ==
  ASSUME NEW items \in Seq(ItemSet), NEW key
  PROVE  \/ LastOf(items, key) = {} /\ \A j \in 1 .. Len(items) : items[j].key # key
         \/ \E j \in 1 .. Len(items) : /\ items[j].key = key
                                       /\ LastKey(items, Len(items), j)
                                       /\ LastOf(items, key) = {items[j].value}
<1> DEFINE n == Len(items)
           There == {j \in 1 .. n : items[j].key = key}
           Back == {n - j : j \in There}
<1>1. n \in Nat /\ DOMAIN items = 1 .. n
  BY LenProperties
<1>2. CASE There = {}
  BY <1>1, <1>2 DEF LastOf
<1>3. CASE There # {}
  <2>1. Back \subseteq Nat /\ Back # {}
    BY <1>1, <1>3
  <2>2. PICK b \in Back : \A c \in Back : b <= c
    <3> HIDE DEF Back
    <3> QED
      BY <2>1, LeastExists
  <2>3. PICK j \in There : b = n - j
    OBVIOUS
  <2>4. \A k \in There : k <= j
    <3>1. ASSUME NEW k \in There PROVE k <= j
      <4>1. n - k \in Back
        OBVIOUS
      <4>2. n - j <= n - k
        BY <4>1, <2>2, <2>3
      <4> QED
        BY <4>2, <1>1
    <3> QED
      BY <3>1
  <2>5. j \in 1 .. n /\ items[j].key = key /\ LastKey(items, n, j)
    BY <2>4 DEF LastKey
  <2>6. LastOf(items, key) = {items[j].value}
    <3>1. \A i \in 1 .. n : items[i].key = key /\ (\A k \in 1 .. n : items[k].key = key => k <= i)
                              <=> i = j
      BY <2>4, <2>5, <1>1
    <3>2. {i \in DOMAIN items : items[i].key = key /\ \A k \in DOMAIN items : items[k].key = key => k <= i}
            = {j}
      BY <3>1, <2>5, <1>1
    <3> QED
      BY <3>2 DEF LastOf
  <2> QED
    BY <2>5, <2>6
<1> QED
  BY <1>2, <1>3

\* What ReportsTrue says of a report, of a node.
LEMMA NodeIsTold ==
  ASSUME NEW block \in Strings, BackNode(block).ok
  PROVE  LET n == BackNode(block)
             d == Decode(block)
             said(key) == LastOf(d.items, key)
         IN  /\ block = Encode(d.type, d.items)
             /\ {n.oid} = IF said(HashKey) = {} THEN {Zero} ELSE {OidOf[v] : v \in said(HashKey)}
             /\ said(DateKey) # {} =>
                  {n.date} = {DateOf[v] : v \in said(DateKey)} /\ n.date # Unset
             /\ DOMAIN n.props = {i.key : i \in ToSet(d.items)} \ {HashKey, DateKey}
             /\ \A k \in DOMAIN n.props : {n.props[k]} = said(k)
<1> DEFINE n == BackNode(block)
           items == Decode(block).items
           len == Len(items)
<1>1. /\ Decode(block).ok /\ block = Encode(Decode(block).type, items)
      /\ items \in Seq(ItemSet) /\ Says(n, items, len)
  BY BackNodeFacts, DecodeFacts
<1>2. len \in Nat /\ DOMAIN items = 1 .. len
  BY <1>1, LenProperties
<1> HIDE DEF n, items
<1>3. {n.oid} = IF LastOf(items, HashKey) = {} THEN {Zero}
                ELSE {OidOf[v] : v \in LastOf(items, HashKey)}
  BY <1>1, LastOfFacts DEF Says
<1>4. LastOf(items, DateKey) # {} =>
        {n.date} = {DateOf[v] : v \in LastOf(items, DateKey)} /\ n.date # Unset
  BY <1>1, LastOfFacts DEF Says
<1>5. ToSet(items) = {items[j] : j \in 1 .. len}
  BY <1>2 DEF ToSet
<1>6. DOMAIN n.props = {i.key : i \in ToSet(items)} \ {HashKey, DateKey}
  BY <1>1, <1>5 DEF Says
<1>7. ASSUME NEW k \in DOMAIN n.props PROVE {n.props[k]} = LastOf(items, k)
  <2>1. /\ k \notin {HashKey, DateKey}
        /\ \E j \in 1 .. len : items[j].key = k
    BY <1>1 DEF Says
  <2>2. PICK j \in 1 .. len : /\ items[j].key = k /\ LastKey(items, len, j)
                              /\ LastOf(items, k) = {items[j].value}
    BY <2>1, <1>1, LastOfFacts
  <2>3. n.props[items[j].key] = items[j].value
    BY <2>1, <2>2, <1>1 DEF Says
  <2> QED
    BY <2>2, <2>3
<1> QED
  BY <1>1, <1>3, <1>4, <1>6, <1>7 DEF n, items
-----------------------------------------------------------------------------
(* The reports *)

\* A report is of a node that the pool has, with what its block makes of it.
ReportInv ==
  \A r \in reports :
    LET n == BackNode(pool[r.node].block) IN
    /\ Handled(r.node) /\ n.ok
    /\ r.root = n.oid /\ r.props = n.props
    /\ n.date # Unset => r.date = n.date

LEMMA VisitReports == ASSUME IInv, ReportInv, Visit PROVE ReportInv'
<1>1. calls # <<>> /\ Top.step = "handle" /\ Node.ok /\ UNCHANGED pool
  BY DEF Visit, At
<1>2. Handled(Top.oid)
  BY <1>1, PushedFacts DEF IInv, CallInv
<1>3. PICK date \in IF Node.date = Unset THEN Dates ELSE {Node.date} :
        reports' = reports \cup {[node |-> Top.oid, peek |-> Head(oids),
                                  root |-> Node.oid, date |-> date, props |-> Node.props]}
  BY DEF Visit
<1>4. Node.date # Unset => date = Node.date
  BY <1>3
<1> DEFINE new == [node |-> Top.oid, peek |-> Head(oids),
                   root |-> Node.oid, date |-> date, props |-> Node.props]
<1>5. /\ new.node = Top.oid /\ new.root = Node.oid /\ new.props = Node.props
      /\ new.date = date /\ reports' = reports \cup {new}
  BY <1>3
<1> HIDE DEF new
<1>6. ASSUME NEW r \in reports'
      PROVE  LET n == BackNode(pool[r.node].block) IN
             /\ Handled(r.node) /\ n.ok
             /\ r.root = n.oid /\ r.props = n.props
             /\ n.date # Unset => r.date = n.date
  <2>1. CASE r \in reports
    BY <2>1 DEF ReportInv
  <2>2. CASE r = new
    BY <2>2, <1>1, <1>2, <1>4, <1>5 DEF Node
  <2> QED
    BY <2>1, <2>2, <1>5
<1> QED
  BY <1>1, <1>6 DEF ReportInv, Handled

LEMMA ReportStep == IInv /\ ReportInv /\ [Next]_vars => ReportInv'
<1> SUFFICES ASSUME IInv, ReportInv, [Next]_vars PROVE ReportInv'
  OBVIOUS
<1>1. CASE Visit
  BY <1>1, VisitReports
<1>2. CASE reports' \in {reports, {}} /\ UNCHANGED pool
  BY <1>2 DEF ReportInv, Handled
<1>3. CASE \E o \in Oids : Walk(o)
  BY <1>3, <1>2 DEF Walk
<1>4. CASE PushOid \/ FindThrows \/ DecodeThrows \/ CatchPrune \/ Return \/ Unwind
           \/ Finish \/ NewVisitor
  BY <1>4, <1>2 DEF PushOid, FindThrows, DecodeThrows, CatchPrune, Return, Unwind,
                    Finish, NewVisitor
<1>5. CASE UNCHANGED vars
  BY <1>5, <1>2 DEF vars
<1> QED
  BY <1>1, <1>3, <1>4, <1>5 DEF Next

LEMMA ReportsSuffice == IInv /\ ReportInv => ReportsTrue
<1> SUFFICES ASSUME IInv, ReportInv, NEW r \in reports
             PROVE  LET block == pool[r.node].block
                        d     == Decode(block)
                        said(key) == LastOf(d.items, key)
                    IN  /\ block = Encode(d.type, d.items)
                        /\ {r.root} = IF said(HashKey) = {} THEN {Zero}
                                      ELSE {OidOf[v] : v \in said(HashKey)}
                        /\ said(DateKey) # {} => {r.date} = {DateOf[v] : v \in said(DateKey)}
                        /\ DOMAIN r.props = {i.key : i \in ToSet(d.items)} \ {HashKey, DateKey}
                        /\ \A k \in DOMAIN r.props : {r.props[k]} = said(k)
  BY DEF ReportsTrue
<1> DEFINE block == pool[r.node].block
           n == BackNode(block)
<1>1. /\ Handled(r.node) /\ n.ok /\ r.root = n.oid /\ r.props = n.props
      /\ n.date # Unset => r.date = n.date
  BY DEF ReportInv
<1>2. pool[r.node] \in Contents /\ pool[r.node].kind = "back"
  BY <1>1 DEF IInv, TypeInv, Handled
<1>3. block \in Strings
  BY <1>2, NodeAssumption DEF Strings, Bytes
<1> HIDE DEF block
<1>4. /\ block = Encode(Decode(block).type, Decode(block).items)
      /\ {n.oid} = IF LastOf(Decode(block).items, HashKey) = {} THEN {Zero}
                   ELSE {OidOf[v] : v \in LastOf(Decode(block).items, HashKey)}
      /\ LastOf(Decode(block).items, DateKey) # {} =>
           /\ {n.date} = {DateOf[v] : v \in LastOf(Decode(block).items, DateKey)}
           /\ n.date # Unset
      /\ DOMAIN n.props = {i.key : i \in ToSet(Decode(block).items)} \ {HashKey, DateKey}
      /\ \A k \in DOMAIN n.props : {n.props[k]} = LastOf(Decode(block).items, k)
  BY <1>1, <1>3, NodeIsTold
<1> HIDE DEF n
<1> QED
  BY <1>1, <1>4 DEF block

\* What backup() is told of a node is what the node's block says, of which the
\* last item of each key counts, in every walk over every pool.
THEOREM ReportsAreTrue == Spec => []ReportsTrue
<1>1. Init => ReportInv
  BY DEF Init, ReportInv
<1> QED
  BY <1>1, InitInv, StepInv, ReportStep, ReportsSuffice, PTL DEF Spec
=============================================================================
