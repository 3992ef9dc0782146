----------------------------- MODULE PoolClaims -----------------------------
(***************************************************************************)
(* What comments and tests of the repository say of the pool, and the code *)
(* does not keep.  A run of its own refutes each of these.                 *)
(***************************************************************************)
EXTENDS Pool

\* pool.hh says that `limit` is "the largest size in bytes a single file can
\* grow to".  A file may exceed it by holding one chunk larger than that, but
\* prepare_write also lets a file grow past it once it is dirty.
FileWithinLimit ==
  \A p \in Positions : data[p].len <= Limit \/ Cardinality(data[p].recs) <= 1

\* The IndexRecovery test looks up every chunk it stored, after recover_index
\* has run.  A chunk that was stored and flushed is no longer found when a
\* crash cut a later record short: recovery gives that record an entry too,
\* or steps over the records behind it.
RecoveredChunksFound ==
  /\ mode \in {"ro", "rw"}
  /\ \A p \in Positions : p \notin suspect /\ ~files[p].bad
  => \A c \in durable : FindResult(c) = c
=============================================================================
