---------------------------- MODULE AtLeastOnce -----------------------------
(***************************************************************************)
(* What a queue and its consumer promise together: a message waits until    *)
(* it has been stored, unless the consumer has no use for it, or until it   *)
(* is put aside in the dead letter queue.  Nothing is dropped, and nothing  *)
(* that was settled comes back.                                             *)
(***************************************************************************)
EXTENDS FiniteSets

CONSTANTS
  Msgs,     \* messages that may be sent
  Ignored   \* messages the consumer has no use for

VARIABLES
  pending,  \* sent and not settled
  stored,   \* in the database, at least once
  done,     \* settled by an acknowledgement
  dead      \* in the dead letter queue

sink == <<pending, stored, done, dead>>

SinkInit ==
  /\ pending = {}
  /\ stored = {}
  /\ done = {}
  /\ dead = {}

Send(m) ==
  /\ m \notin pending \cup done \cup dead
  /\ pending' = pending \cup {m}
  /\ UNCHANGED <<stored, done, dead>>

\* A batch may be stored again, as long as it is pending.
Store(batch) ==
  /\ batch \subseteq pending \ Ignored
  /\ stored' = stored \cup batch
  /\ UNCHANGED <<pending, done, dead>>

Finish(m) ==
  /\ m \in pending
  /\ m \in stored \cup Ignored
  /\ pending' = pending \ {m}
  /\ done' = done \cup {m}
  /\ UNCHANGED <<stored, dead>>

PutAside(m) ==
  /\ m \in pending \ Ignored
  /\ pending' = pending \ {m}
  /\ dead' = dead \cup {m}
  /\ UNCHANGED <<stored, done>>

SinkNext ==
  \/ \E m \in Msgs : Send(m) \/ Finish(m) \/ PutAside(m)
  \/ \E batch \in SUBSET pending : Store(batch)

SinkSpec == SinkInit /\ [][SinkNext]_sink
=============================================================================
