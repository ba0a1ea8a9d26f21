--------------------------- MODULE MysqlConsumer ----------------------------
(***************************************************************************)
(* The MySQL consumer (consumer/mysql.rs, bin/consumer_mysql.rs) and the    *)
(* queue it reads.  Deliveries are buffered and written in batches, one     *)
(* INSERT per table; each delivery is acknowledged or refused only after    *)
(* the INSERT of its table has returned.  Every await of the consumer is a  *)
(* point at which the channel or the process may go.                        *)
(***************************************************************************)
EXTENDS WorkQueue

CONSTANTS
  Garbage,     \* those that are not a QueueMessage
  Unroutable,  \* those without a usable table_key
  Tables,      \* names of kicc_b* tables
  TableOf,     \* TableOf[m]: resolve_table of a routable message
  Poison,      \* routable ones with a character of several bytes where
               \* format_datetime cuts
  BatchSize,   \* mysql_batch_size
  MinPrefetch, \* the 50 of `.max(50)`
  Word,        \* 2^16, what `as u16` wraps at
  Faults,      \* what the environment of this instance may do
  MaxLosses    \* bound on channel losses and crashes together

AllFaults == {"db",        \* an INSERT fails without effect
              "db_reply",  \* an INSERT commits and its reply is lost
              "telegram",  \* a notification never gets an answer
              "channel",   \* the AMQP channel or connection breaks
              "crash"}     \* the process dies

ASSUME ConsumerAssumption ==
  /\ IsFiniteSet(Msgs)
  /\ Garbage \subseteq Msgs /\ Unroutable \subseteq Msgs
  /\ Garbage \cap Unroutable = {}
  /\ TableOf \in [Msgs \ (Garbage \cup Unroutable) -> Tables]
  /\ Poison \subseteq Msgs \ (Garbage \cup Unroutable)
  /\ BatchSize \in Nat /\ MinPrefetch \in Nat \ {0} /\ Word \in Nat \ {0}
  /\ Faults \subseteq AllFaults
  /\ MaxLosses \in Nat

VARIABLES
  phase,     \* the await the consumer is in, "down" between two runs
  inbox,     \* delivered, not yet returned by consumer.next()
  buffer,    \* the vectors deliveries and rows
  groups,    \* groups of the running flush that are still to be written
  group,     \* the group that is being written or settled
  stored,    \* stored[m]: rows that m has in its table
  losses     \* channel losses and crashes so far

consumer == <<phase, inbox, buffer, groups, group>>
vars == <<ready, unacked, acked, dlq, chan, phase, inbox, buffer, groups, group,
          stored, losses>>

Routable == Msgs \ (Garbage \cup Unroutable)
Phases == {"down", "loop", "flush", "insert", "notify", "stuck", "ack", "nack"}

\* basic_qos(((batch_size * 2) as u16).max(50))
Prefetch == Window(BatchSize, MinPrefetch, Word)

TypeOK ==
  /\ BrokerTypeOK
  /\ phase \in Phases
  /\ inbox \subseteq Msgs
  /\ buffer \subseteq Routable /\ groups \subseteq Routable /\ group \subseteq Routable
  /\ stored \in [Routable -> Nat]
  /\ losses \in Nat

Init ==
  /\ BrokerInit
  /\ phase = "down"
  /\ inbox = {} /\ buffer = {} /\ groups = {} /\ group = {}
  /\ stored = [m \in Routable |-> 0]
  /\ losses = 0

-----------------------------------------------------------------------------
(* The queue. *)

\* The receiver's publish reaches the queue.
Arrive(m) == Enqueue(m) /\ UNCHANGED <<consumer, stored, losses>>

Deliver(m) ==
  /\ Push(m, Prefetch)
  /\ inbox' = inbox \cup {m}
  /\ UNCHANGED <<phase, buffer, groups, group, stored, losses>>

-----------------------------------------------------------------------------
(* The consumer. *)

\* Mutant of StartFlush: the vectors are copied and not drained.
StartFlushKept(batch) ==
  /\ buffer' = batch
  /\ groups' = batch
  /\ phase' = IF batch = {} THEN "loop" ELSE "flush"

\* Both flush branches: the vectors are drained.  An empty flush does nothing.
StartFlush(batch) ==
  /\ buffer' = {}
  /\ groups' = batch
  /\ phase' = IF batch = {} THEN "loop" ELSE "flush"

Buffer(batch) ==
  IF Cardinality(batch) >= BatchSize
    THEN StartFlush(batch)
    ELSE buffer' = batch /\ UNCHANGED <<phase, groups>>

\* run: connect, basic_qos, basic_consume.
Start ==
  /\ phase = "down"
  /\ phase' = "loop"
  /\ chan' = "open"
  /\ UNCHANGED <<broker, inbox, buffer, groups, group, stored, losses>>

\* Mutant of Take: a row is acknowledged when it is received.
TakeAcked(m) ==
  /\ phase = "loop"
  /\ m \in inbox \ Poison
  /\ inbox' = inbox \ {m}
  /\ IF m \in Garbage THEN SettleNack(m) ELSE SettleAck(m)
  /\ Buffer(IF m \in Routable THEN buffer \cup {m} ELSE buffer)
  /\ UNCHANGED <<chan, group, stored, losses>>

\* Mutant of Take: garbage is dropped without being settled.
TakeUnsettled(m) ==
  /\ phase = "loop"
  /\ m \in inbox \ Poison
  /\ inbox' = inbox \ {m}
  /\ IF m \in Unroutable THEN SettleAck(m) ELSE UNCHANGED broker
  /\ Buffer(IF m \in Routable THEN buffer \cup {m} ELSE buffer)
  /\ UNCHANGED <<chan, group, stored, losses>>

\* Mutant of Take: a message without a table is buffered like a row.
TakeUnrouted(m) ==
  /\ phase = "loop"
  /\ m \in inbox \ Poison
  /\ inbox' = inbox \ {m}
  /\ IF m \in Garbage THEN SettleNack(m) ELSE UNCHANGED broker
  /\ Buffer(IF m \in Garbage THEN buffer ELSE buffer \cup {m})
  /\ UNCHANGED <<chan, group, stored, losses>>

\* consumer.next() returns a delivery: garbage is refused, a message without a
\* table is acknowledged, a row is buffered; a full buffer is flushed.
Take(m) ==
  /\ phase = "loop"
  /\ m \in inbox \ Poison
  /\ inbox' = inbox \ {m}
  /\ CASE m \in Garbage    -> SettleNack(m)
       [] m \in Unroutable -> SettleAck(m)
       [] OTHER            -> UNCHANGED broker
  /\ Buffer(IF m \in Routable THEN buffer \cup {m} ELSE buffer)
  /\ UNCHANGED <<chan, group, stored, losses>>

\* Mutant of Tick: only a full buffer is flushed.
TickFull ==
  /\ phase = "loop"
  /\ Cardinality(buffer) >= BatchSize
  /\ StartFlush(buffer)
  /\ UNCHANGED <<broker, chan, inbox, group, stored, losses>>

\* The interval ticks; without rows nothing happens.
Tick ==
  /\ phase = "loop"
  /\ StartFlush(buffer)
  /\ UNCHANGED <<broker, chan, inbox, group, stored, losses>>

\* Mutant of NextGroup: every INSERT writes the rows of all groups.
NextGroupAll(t) ==
  /\ phase = "flush"
  /\ \E m \in groups : TableOf[m] = t
  /\ group' = groups
  /\ groups' = {m \in groups : TableOf[m] # t}
  /\ phase' = "insert"
  /\ UNCHANGED <<broker, chan, inbox, buffer, stored, losses>>

\* The next group of the HashMap, in any order; its INSERT is sent.
NextGroup(t) ==
  /\ phase = "flush"
  /\ group' = {m \in groups : TableOf[m] = t}
  /\ group' # {}
  /\ groups' = groups \ group'
  /\ phase' = "insert"
  /\ UNCHANGED <<broker, chan, inbox, buffer, stored, losses>>

Insert == stored' = [m \in Routable |-> IF m \in group THEN stored[m] + 1 ELSE stored[m]]

InsertOk ==
  /\ phase = "insert"
  /\ Insert
  /\ phase' = "ack"
  /\ UNCHANGED <<broker, chan, inbox, buffer, groups, group, losses>>

\* Mutant of InsertFails: the Err arm falls into the Ok arm's loop.
InsertFailsAcked ==
  /\ phase = "insert"
  /\ \/ "db" \in Faults /\ UNCHANGED stored
     \/ "db_reply" \in Faults /\ Insert
  /\ phase' = "ack"
  /\ UNCHANGED <<broker, chan, inbox, buffer, groups, group, losses>>

\* The INSERT returns an error; it may have been committed all the same.
InsertFails ==
  /\ phase = "insert"
  /\ \/ "db" \in Faults /\ UNCHANGED stored
     \/ "db_reply" \in Faults /\ Insert
  /\ phase' = "notify"
  /\ UNCHANGED <<broker, chan, inbox, buffer, groups, group, losses>>

\* The Telegram request, which has no timeout, is awaited before the nacks.
Notify ==
  /\ phase = "notify"
  /\ \/ phase' = "nack"
     \/ "telegram" \in Faults /\ phase' = "stuck"
  /\ UNCHANGED <<broker, chan, inbox, buffer, groups, group, stored, losses>>

\* One delivery of the group is settled; after the last, the next group.
NextDelivery(m) ==
  /\ m \in group
  /\ group' = group \ {m}
  /\ phase' = IF group' # {} THEN phase
              ELSE IF groups # {} THEN "flush" ELSE "loop"
  /\ UNCHANGED <<chan, inbox, buffer, groups, stored, losses>>

AckOne(m) == phase = "ack" /\ SettleAck(m) /\ NextDelivery(m)

NackOne(m) == phase = "nack" /\ SettleNack(m) /\ NextDelivery(m)

\* consumer.next() returns None or an error after what was in its stream; run
\* ends, its buffer is lost with it, and main starts it again.
End ==
  /\ phase = "loop"
  /\ chan = "closed"
  /\ inbox = {}
  /\ phase' = "down"
  /\ buffer' = {}
  /\ UNCHANGED <<broker, chan, inbox, groups, group, stored, losses>>

\* The notification of a channel error gets no answer: run does not end.
EndStuck ==
  /\ "telegram" \in Faults
  /\ phase = "loop"
  /\ chan = "closed"
  /\ inbox = {}
  /\ phase' = "stuck"
  /\ UNCHANGED <<broker, chan, inbox, buffer, groups, group, stored, losses>>

-----------------------------------------------------------------------------
(* Faults. *)

\* lapin may drop what it has prefetched.
ChannelLost ==
  /\ "channel" \in Faults
  /\ losses < MaxLosses
  /\ chan = "open"
  /\ Requeue
  /\ \E kept \in SUBSET inbox : inbox' = kept
  /\ losses' = losses + 1
  /\ UNCHANGED <<phase, buffer, groups, group, stored>>

\* The process is gone; systemd starts it again.
Die ==
  /\ Requeue
  /\ phase' = "down"
  /\ inbox' = {} /\ buffer' = {} /\ groups' = {} /\ group' = {}

\* An INSERT on its way may still commit.
Crash ==
  /\ "crash" \in Faults
  /\ losses < MaxLosses
  /\ phase # "down"
  /\ Die
  /\ \/ UNCHANGED stored
     \/ phase = "insert" /\ Insert
  /\ losses' = losses + 1

\* Mutant of Panic: the buffer is written first.
PanicStored(m) ==
  /\ phase = "loop"
  /\ m \in inbox \cap Poison
  /\ Die
  /\ stored' = [x \in Routable |-> IF x \in buffer THEN stored[x] + 1 ELSE stored[x]]
  /\ UNCHANGED losses

\* format_datetime panics and takes main with it: the delivery comes back, and with
\* it the next panic.
Panic(m) ==
  /\ phase = "loop"
  /\ m \in inbox \cap Poison
  /\ Die
  /\ UNCHANGED <<stored, losses>>

Flush ==
  \/ \E t \in Tables : NextGroup(t)
  \/ InsertOk \/ InsertFails \/ Notify
  \/ \E m \in group : AckOne(m) \/ NackOne(m)

Next ==
  \/ \E m \in Msgs : Arrive(m) \/ Deliver(m) \/ Take(m)
  \/ Start \/ Tick \/ Flush \/ End \/ EndStuck
  \/ ChannelLost \/ Crash
  \/ \E m \in Msgs : Panic(m)

Spec == Init /\ [][Next]_vars

\* The broker delivers, the interval ticks, MySQL and Telegram answer, main and
\* systemd restart what has ended.
Fairness ==
  /\ \A m \in Msgs : WF_vars(Deliver(m)) /\ WF_vars(Take(m)) /\ WF_vars(Panic(m))
  /\ WF_vars(Start) /\ WF_vars(Tick) /\ WF_vars(Flush) /\ WF_vars(End)

FairSpec == Spec /\ Fairness

-----------------------------------------------------------------------------
(* Properties. *)

InFlush == groups \cup group

\* Every delivery that the broker still waits for is somewhere in the consumer:
\* none is forgotten, which would use up the prefetch window for good.
NoneForgotten ==
  chan = "open" => unacked = inbox \cup buffer \cup InFlush

\* The stages of the consumer never hold a delivery twice.
StagesDisjoint ==
  /\ inbox \cap buffer = {} /\ (inbox \cup buffer) \cap InFlush = {}
  /\ groups \cap group = {}

\* An event leaves the queue for good only after its INSERT, whatever fails.
AckedIsStored == \A m \in acked \cap Routable : stored[m] > 0

\* An event is stored again only if its delivery came back: it never has more rows
\* than there were losses, and one.
RowsPerLoss == \A m \in Routable : stored[m] <= losses + 1

\* No event has two rows.
StoredOnce == \A m \in Routable : stored[m] <= 1

Sink == INSTANCE AtLeastOnce WITH
          Ignored <- Unroutable,
          pending <- ready \cup unacked,
          stored  <- {m \in Routable : stored[m] > 0},
          done    <- acked,
          dead    <- dlq

\* The queue and the consumer keep the promise of AtLeastOnce.
SinkSafe == Sink!SinkSpec

\* Every message is settled after the last loss, unless the consumer waits for ever
\* in a notification or dies of the same message again and again.
Settles ==
  \A m \in Msgs :
    m \in ready ~> \/ m \in acked \cup dlq
                   \/ phase = "stuck"
                   \/ (ready \cup unacked) \cap Poison # {}
=============================================================================
