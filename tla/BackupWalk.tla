----------------------------- MODULE BackupWalk -----------------------------
(***************************************************************************)
(* The walk over a backup, src/src/decoder.cc.  A call for an OID finds    *)
(* its chunk, pushes the OID on the visitor's stack, and runs the handler  *)
(* for the chunk's kind; the one handler there is calls the visitor and    *)
(* then walks the child.  Exceptions end calls early, and are what makes   *)
(* the stack interesting: one visitor may be used for walk after walk.     *)
(***************************************************************************)
EXTENDS PropertyBlock, FiniteSets

CONSTANTS
  Oids,      \* the OIDs of which the pool may have a chunk
  Contents,  \* what the pool may have for an OID: no chunk, or one of some kind
  Dates,     \* what a date may be that nothing has set
  MaxStack   \* bound: OIDs that failed walks left on the stack

\* A block is bytes, and in it `hash` is given as an OID that may be in the pool,
\* or not at all.
ASSUME NodeAssumption ==
  /\ Zero \notin Oids /\ MaxStack \in Nat
  /\ \A c \in Contents : c.kind = "back" =>
       /\ c.block \in Seq(0 .. (Byte - 1))
       /\ LET n == BackNode(c.block) IN n.ok => n.oid \in Oids \cup {Zero}

VARIABLES
  pool,      \* pool[o]: what the pool has for o
  oids,      \* the visitor's stack, its front first
  calls,     \* the calls that are active, the innermost first
  reports,   \* what backup() saw in this walk: its node, its arguments, peek_oid()
  flying,    \* the exception that ends calls, or "none"
  outcome,   \* of the last walk
  before     \* history: the stack when that walk began

vars == <<pool, oids, calls, reports, flying, outcome, before>>

\* Where a call is: at its start, in the handler, or in the child's walk.
Steps == {"find", "handle", "descend"}
Call(o) == [oid |-> o, step |-> "find"]

Top == Head(calls)
At(step) == calls # <<>> /\ flying = "none" /\ Top.step = step
Goto(step) == <<[Top EXCEPT !.step = step]>> \o Tail(calls)

\* The chunk of an OID, if the pool has one of the kind that has a handler.
Handled(o) == o \in Oids /\ pool[o].kind = "back"
Node == BackNode(pool[Top.oid].block)

\* An OID is the hash of what names the child, so no walk comes back to it.
Acyclic(p) ==
  \E rank \in [Oids -> 1 .. Cardinality(Oids)] :
    \A o \in Oids : LET n == BackNode(p[o].block) IN
      p[o].kind = "back" /\ n.ok /\ n.oid \in Oids => rank[n.oid] > rank[o]

Init ==
  /\ pool \in [Oids -> Contents]
  /\ Acyclic(pool) = TRUE
  /\ oids = <<>>
  /\ calls = <<>>
  /\ reports = {}
  /\ flying = "none"
  /\ outcome = "none"
  /\ before = <<>>

\* A client walks from a root.
Walk(o) ==
  /\ calls = <<>>
  /\ Len(oids) <= MaxStack
  /\ calls' = <<Call(o)>>
  /\ reports' = {}
  /\ outcome' = "walking"
  /\ before' = oids
  /\ UNCHANGED <<pool, oids, flying>>

\* Fault: the OID is put at the end of the stack.
PushOidLast ==
  /\ At("find")
  /\ Handled(Top.oid)
  /\ oids' = oids \o <<Top.oid>>
  /\ calls' = Goto("handle")
  /\ UNCHANGED <<pool, reports, flying, outcome, before>>

\* The chunk is there and has a handler.
PushOid ==
  /\ At("find")
  /\ Handled(Top.oid)
  /\ oids' = <<Top.oid>> \o oids
  /\ calls' = Goto("handle")
  /\ UNCHANGED <<pool, reports, flying, outcome, before>>

\* "Chunk missing from pool" or "Unsupported chunk kind": nothing was pushed.
FindThrows ==
  /\ At("find")
  /\ ~Handled(Top.oid)
  /\ flying' = "error"
  /\ calls' = Tail(calls)
  /\ UNCHANGED <<pool, oids, reports, outcome, before>>

\* An exception of decode_property leaves the handler.
DecodeThrows ==
  /\ At("handle") /\ ~Node.ok
  /\ flying' = "error"
  /\ calls' = Tail(calls)
  /\ UNCHANGED <<pool, oids, reports, outcome, before>>

\* The visitor is told of the backup, and lets the walk go down or throws.
Visit ==
  /\ At("handle") /\ Node.ok
  /\ \E date \in IF Node.date = Unset THEN Dates ELSE {Node.date} :
       reports' = reports \cup {[node |-> Top.oid, peek |-> Head(oids),
                                 root |-> Node.oid, date |-> date, props |-> Node.props]}
  /\ \/ /\ calls' = <<Call(Node.oid)>> \o Goto("descend")
        /\ flying' = "none"
     \/ /\ calls' = Goto("descend")
        /\ flying' \in {"prune", "error"}
  /\ UNCHANGED <<pool, oids, outcome, before>>

\* Fault: the stack is left alone when the visitor prunes.
CatchPruneUnpopped ==
  /\ calls # <<>> /\ flying = "prune"
  /\ flying' = "none"
  /\ calls' = Tail(calls)
  /\ UNCHANGED <<pool, oids, reports, outcome, before>>

\* Prune is caught in the call whose handler threw it, which then returns.
CatchPrune ==
  /\ calls # <<>> /\ flying = "prune"
  /\ flying' = "none"
  /\ oids' = Tail(oids)
  /\ calls' = Tail(calls)
  /\ UNCHANGED <<pool, reports, outcome, before>>

\* The child's walk has returned, and so does the call.
Return ==
  /\ At("descend")
  /\ oids' = Tail(oids)
  /\ calls' = Tail(calls)
  /\ UNCHANGED <<pool, reports, flying, outcome, before>>

\* Any other exception passes through; pop_oid is not reached.
Unwind ==
  /\ calls # <<>> /\ flying = "error"
  /\ calls' = Tail(calls)
  /\ UNCHANGED <<pool, oids, reports, flying, outcome, before>>

\* The walk is over, for the client.
Finish ==
  /\ calls = <<>> /\ outcome = "walking"
  /\ outcome' = IF flying = "none" THEN "done" ELSE "threw"
  /\ flying' = "none"
  /\ UNCHANGED <<pool, oids, calls, reports, before>>

\* The client takes another visitor.
NewVisitor ==
  /\ calls = <<>> /\ outcome \in {"done", "threw"}
  /\ oids' = <<>> /\ before' = <<>>
  /\ reports' = {}
  /\ outcome' = "none"
  /\ UNCHANGED <<pool, calls, flying>>

Next ==
  \/ \E o \in Oids : Walk(o)
  \/ PushOid \/ FindThrows \/ DecodeThrows \/ Visit \/ CatchPrune \/ Return
  \/ Unwind \/ Finish \/ NewVisitor

Spec == Init /\ [][Next]_vars
-----------------------------------------------------------------------------
(* Properties *)

\* The visitor's location is right in every call of backup(), at any depth and
\* on top of whatever earlier walks left on the stack.
LocationRight == \A r \in reports : r.peek = r.node

\* What backup() is told is what the block says: the block is the encoding of
\* items of which the last of each key counts.  Without a date, it is told any.
ReportsTrue ==
  \A r \in reports :
    LET block == pool[r.node].block
        d     == Decode(block)
        said(key) == LastOf(d.items, key)
    IN  /\ block = Encode(d.type, d.items)
        /\ {r.root} = IF said(HashKey) = {} THEN {Zero} ELSE {OidOf[v] : v \in said(HashKey)}
        /\ said(DateKey) # {} => {r.date} = {DateOf[v] : v \in said(DateKey)}
        /\ DOMAIN r.props = {i.key : i \in ToSet(d.items)} \ {HashKey, DateKey}
        /\ \A k \in DOMAIN r.props : {r.props[k]} = said(k)

\* The path to the call that runs: the OIDs of the calls that have pushed,
\* which are all but an innermost one that has just begun.
Pushed == IF calls # <<>> /\ Top.step = "find" THEN Tail(calls) ELSE calls
Path   == [i \in 1 .. Len(Pushed) |-> Pushed[i].oid]

\* Until an exception other than Prune ends a walk, the stack is that path on
\* top of what was there: a walk that returns leaves the stack as it was,
\* wherever visitors pruned.
StackIsPath ==
  flying # "error" /\ outcome \in {"walking", "done"} => oids = Path \o before
=============================================================================
