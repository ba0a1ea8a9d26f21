-------------------------- MODULE PostgresConsumer --------------------------
(***************************************************************************)
(* The PostgreSQL consumer (consumer/postgres.rs, bin/consumer_postgres.rs) *)
(* and the queue it reads.  Every flush adds its batch, summed up per key,  *)
(* to the rows of kicc_daily_totals with one UPSERT.  A message that has no *)
(* row is acknowledged at the flush; the others are settled after the       *)
(* UPSERT has returned.  A message stands for an amount and a count of 1.   *)
(***************************************************************************)
EXTENDS WorkQueue

CONSTANTS
  Garbage,     \* messages that are not a QueueMessage
  Unusable,    \* those to_daily_row refuses: no table_key or no valid date
  Rows,        \* keys of rows: hour, business, merchant and terminal number
  RowOf,       \* RowOf[m]: the row that to_daily_row gives m
  Cancelled,   \* messages with a cancel_flag that is neither empty nor "0"
  Sale,        \* messages of msg_type "0200"
  Poison,      \* usable ones with a character of several bytes where
               \* parse_datetime_unix cuts the hour
  BatchSize,   \* postgres_batch_size
  MinPrefetch, \* the 50 of `.max(50)`
  Word,        \* 2^16, what `as u16` wraps at
  Faults,      \* what the environment of this instance may do
  MaxLosses    \* bound on channel losses and crashes together

AllFaults == {"db",        \* an UPSERT fails without effect
              "db_reply",  \* an UPSERT commits and its reply is lost
              "telegram",  \* a notification never gets an answer
              "channel",   \* the AMQP channel or connection breaks
              "crash"}     \* the process dies

ASSUME ConsumerAssumption ==
  /\ IsFiniteSet(Msgs)
  /\ Garbage \subseteq Msgs /\ Unusable \subseteq Msgs
  /\ Garbage \cap Unusable = {}
  /\ RowOf \in [Msgs \ (Garbage \cup Unusable) -> Rows]
  /\ Poison \subseteq Msgs \ (Garbage \cup Unusable)
  /\ BatchSize \in Nat /\ MinPrefetch \in Nat \ {0} /\ Word \in Nat \ {0}
  /\ Faults \subseteq AllFaults
  /\ MaxLosses \in Nat

VARIABLES
  phase,     \* the await the consumer is in, "down" between two runs
  inbox,     \* delivered, not yet returned by consumer.next()
  buffer,    \* the vectors deliveries and messages
  discard,   \* messages of the running flush that have no row
  group,     \* messages of the running flush that have one
  totals,    \* totals[k][b]: the count in bucket b of the row k
  counted,   \* history: messages of the UPSERTs that were committed
  losses     \* channel losses and crashes so far

consumer == <<phase, inbox, buffer, discard, group>>
table    == <<totals, counted>>
vars == <<ready, unacked, acked, dlq, chan, phase, inbox, buffer, discard, group,
          totals, counted, losses>>

Usable  == Msgs \ (Garbage \cup Unusable)
Phases  == {"down", "loop", "discard", "upsert", "notify", "stuck", "ack", "nack"}
Buckets == {"card", "cancel", "other"}

\* Mutant of Bucket: the cancel flag is looked at last.
BucketSaleFirst(m) ==
  CASE m \in Sale      -> "card"
    [] m \in Cancelled -> "cancel"
    [] OTHER           -> "other"

\* to_daily_row: the column that m is counted in.
Bucket(m) ==
  IF m \in Cancelled THEN "cancel" ELSE IF m \in Sale THEN "card" ELSE "other"

\* basic_qos(((batch_size * 2) as u16).max(50))
Prefetch == Window(BatchSize, MinPrefetch, Word)

TypeOK ==
  /\ BrokerTypeOK
  /\ phase \in Phases
  /\ inbox \subseteq Msgs /\ buffer \subseteq Msgs \ Garbage
  /\ discard \subseteq Unusable /\ group \subseteq Usable
  /\ totals \in [Rows -> [Buckets -> Nat]]
  /\ counted \subseteq Usable
  /\ losses \in Nat

Init ==
  /\ BrokerInit
  /\ phase = "down"
  /\ inbox = {} /\ buffer = {} /\ discard = {} /\ group = {}
  /\ totals = [k \in Rows |-> [b \in Buckets |-> 0]]
  /\ counted = {}
  /\ losses = 0

-----------------------------------------------------------------------------
(* The queue. *)

\* The receiver's publish reaches the queue.
Arrive(m) == Enqueue(m) /\ UNCHANGED <<consumer, table, losses>>

Deliver(m) ==
  /\ Push(m, Prefetch)
  /\ inbox' = inbox \cup {m}
  /\ UNCHANGED <<phase, buffer, discard, group, table, losses>>

-----------------------------------------------------------------------------
(* The consumer. *)

\* Where a flush with these messages goes next: it converts its batch until each
\* message without a row is acknowledged, or one of the others panics.
FlushPhase(without, with) ==
  IF without # {} \/ with \cap Poison # {} THEN "discard"
  ELSE IF with # {} THEN "upsert" ELSE "loop"

\* Mutant of StartFlush: a message without a row stays among those with one.
StartFlushUnsplit(batch) ==
  /\ buffer' = {}
  /\ discard' = batch \cap Unusable
  /\ group' = batch
  /\ phase' = FlushPhase(batch \cap Unusable, batch)

\* Both flush branches: the vectors are drained and told apart by to_daily_row.
StartFlush(batch) ==
  /\ buffer' = {}
  /\ discard' = batch \cap Unusable
  /\ group' = batch \ Unusable
  /\ phase' = FlushPhase(batch \cap Unusable, batch \ Unusable)

Buffer(batch) ==
  IF Cardinality(batch) >= BatchSize
    THEN StartFlush(batch)
    ELSE buffer' = batch /\ UNCHANGED <<phase, discard, group>>

\* run: connect, basic_qos, basic_consume.
Start ==
  /\ phase = "down"
  /\ phase' = "loop"
  /\ chan' = "open"
  /\ UNCHANGED <<broker, inbox, buffer, discard, group, table, losses>>

\* Mutant of Take: garbage is dropped without being settled.
TakeUnsettled(m) ==
  /\ phase = "loop"
  /\ m \in inbox
  /\ inbox' = inbox \ {m}
  /\ Buffer(IF m \in Garbage THEN buffer ELSE buffer \cup {m})
  /\ UNCHANGED <<broker, chan, table, losses>>

\* consumer.next() returns a delivery: garbage is refused, anything else is
\* buffered; a full buffer is flushed.
Take(m) ==
  /\ phase = "loop"
  /\ m \in inbox
  /\ inbox' = inbox \ {m}
  /\ IF m \in Garbage THEN SettleNack(m) ELSE UNCHANGED broker
  /\ Buffer(IF m \in Garbage THEN buffer ELSE buffer \cup {m})
  /\ UNCHANGED <<chan, table, losses>>

\* The interval ticks; without messages nothing happens.
Tick ==
  /\ phase = "loop"
  /\ StartFlush(buffer)
  /\ UNCHANGED <<broker, chan, inbox, table, losses>>

\* Mutant of DiscardOne: the flush returns although the batch has rows.
DiscardOnly(m) ==
  /\ phase = "discard"
  /\ m \in discard
  /\ SettleAck(m)
  /\ discard' = discard \ {m}
  /\ phase' = IF discard' = {} THEN "loop" ELSE phase
  /\ group' = {}
  /\ UNCHANGED <<chan, inbox, buffer, table, losses>>

\* A message without a row is acknowledged before the UPSERT; if there is no
\* other in the batch, that is all.
DiscardOne(m) ==
  /\ phase = "discard"
  /\ m \in discard
  /\ SettleAck(m)
  /\ discard' = discard \ {m}
  /\ phase' = FlushPhase(discard', group)
  /\ UNCHANGED <<chan, inbox, buffer, group, table, losses>>

\* The batch, summed up in a HashMap by key.
BatchSum(k, b) == Cardinality({m \in group : RowOf[m] = k /\ Bucket(m) = b})

\* Mutant of Upsert: an entry of the HashMap is overwritten, not added to.
UpsertLast ==
  /\ totals' = [k \in Rows |-> [b \in Buckets |->
                  totals[k][b] + IF BatchSum(k, b) > 0 THEN 1 ELSE 0]]
  /\ counted' = counted \cup group

\* INSERT ... ON CONFLICT DO UPDATE SET count = count + EXCLUDED.count, ...
Upsert ==
  /\ totals' = [k \in Rows |-> [b \in Buckets |-> totals[k][b] + BatchSum(k, b)]]
  /\ counted' = counted \cup group

UpsertOk ==
  /\ phase = "upsert"
  /\ Upsert
  /\ phase' = "ack"
  /\ UNCHANGED <<broker, chan, inbox, buffer, discard, group, losses>>

\* Mutant of UpsertFails: the Err arm falls into the Ok arm's loop.
UpsertFailsAcked ==
  /\ phase = "upsert"
  /\ \/ "db" \in Faults /\ UNCHANGED table
     \/ "db_reply" \in Faults /\ Upsert
  /\ phase' = "ack"
  /\ UNCHANGED <<broker, chan, inbox, buffer, discard, group, losses>>

\* The UPSERT returns an error; it may have been committed all the same.
UpsertFails ==
  /\ phase = "upsert"
  /\ \/ "db" \in Faults /\ UNCHANGED table
     \/ "db_reply" \in Faults /\ Upsert
  /\ phase' = "notify"
  /\ UNCHANGED <<broker, chan, inbox, buffer, discard, group, losses>>

\* The Telegram request, which has no timeout, is awaited before the nacks.
Notify ==
  /\ phase = "notify"
  /\ \/ phase' = "nack"
     \/ "telegram" \in Faults /\ phase' = "stuck"
  /\ UNCHANGED <<broker, chan, inbox, buffer, discard, group, table, losses>>

\* One delivery of the batch is settled; after the last, the flush is over.
NextDelivery(m) ==
  /\ m \in group
  /\ group' = group \ {m}
  /\ phase' = IF group' # {} THEN phase ELSE "loop"
  /\ UNCHANGED <<chan, inbox, buffer, discard, table, losses>>

\* Mutant of AckOne: only the first delivery of the batch is acknowledged.
AckFirst(m) ==
  /\ phase = "ack"
  /\ m \in group
  /\ SettleAck(m)
  /\ group' = {}
  /\ phase' = "loop"
  /\ UNCHANGED <<chan, inbox, buffer, discard, table, losses>>

AckOne(m) == phase = "ack" /\ SettleAck(m) /\ NextDelivery(m)

NackOne(m) == phase = "nack" /\ SettleNack(m) /\ NextDelivery(m)

\* consumer.next() returns None or an error after what was in its stream; run
\* ends, its buffer is lost with it, and main starts it again.
End ==
  /\ phase = "loop"
  /\ chan = "closed"
  /\ inbox = {}
  /\ phase' = "down"
  /\ buffer' = {}
  /\ UNCHANGED <<broker, chan, inbox, discard, group, table, losses>>

\* The notification of a channel error gets no answer: run does not end.
EndStuck ==
  /\ "telegram" \in Faults
  /\ phase = "loop"
  /\ chan = "closed"
  /\ inbox = {}
  /\ phase' = "stuck"
  /\ UNCHANGED <<broker, chan, inbox, buffer, discard, group, table, losses>>

-----------------------------------------------------------------------------
(* Faults. *)

\* lapin may drop what it has prefetched.
ChannelLost ==
  /\ "channel" \in Faults
  /\ losses < MaxLosses
  /\ chan = "open"
  /\ Requeue
  /\ \E kept \in SUBSET inbox : inbox' = kept
  /\ losses' = losses + 1
  /\ UNCHANGED <<phase, buffer, discard, group, table>>

\* The process is gone; systemd starts it again.
Die ==
  /\ Requeue
  /\ phase' = "down"
  /\ inbox' = {} /\ buffer' = {} /\ discard' = {} /\ group' = {}

\* An UPSERT on its way may still commit.
Crash ==
  /\ "crash" \in Faults
  /\ losses < MaxLosses
  /\ phase # "down"
  /\ Die
  /\ \/ UNCHANGED table
     \/ phase = "upsert" /\ Upsert
  /\ losses' = losses + 1

\* The conversion panics and takes main with it; the messages without a row that
\* came before are acknowledged, the rest of the batch comes back.
Panic ==
  /\ phase = "discard"
  /\ group \cap Poison # {}
  /\ Die
  /\ UNCHANGED <<table, losses>>

Flush ==
  \/ \E m \in discard : DiscardOne(m)
  \/ Panic
  \/ UpsertOk \/ UpsertFails \/ Notify
  \/ \E m \in group : AckOne(m) \/ NackOne(m)

Next ==
  \/ \E m \in Msgs : Arrive(m) \/ Deliver(m) \/ Take(m)
  \/ Start \/ Tick \/ Flush \/ End \/ EndStuck
  \/ ChannelLost \/ Crash

Spec == Init /\ [][Next]_vars

\* The broker delivers, the interval ticks, PostgreSQL and Telegram answer, main
\* and systemd restart what has ended.
Fairness ==
  /\ \A m \in Msgs : WF_vars(Deliver(m)) /\ WF_vars(Take(m))
  /\ WF_vars(Start) /\ WF_vars(Tick) /\ WF_vars(Flush) /\ WF_vars(End)

FairSpec == Spec /\ Fairness

-----------------------------------------------------------------------------
(* Properties. *)

\* How many messages of a set belong in bucket b of row k: a cancellation counts
\* as such whatever its message type is.
CountIn(set, k, b) ==
  Cardinality({m \in set \cap Usable :
    /\ RowOf[m] = k
    /\ b = "cancel" <=> m \in Cancelled
    /\ b = "card" => m \in Sale
    /\ b = "other" => m \notin Sale})

InFlush == discard \cup group

\* Every delivery that the broker still waits for is somewhere in the consumer.
NoneForgotten ==
  chan = "open" => unacked = inbox \cup buffer \cup InFlush

\* What was acknowledged is in its total, whatever fails.
AckedIsCounted ==
  \A k \in Rows, b \in Buckets : totals[k][b] >= CountIn(acked, k, b)

\* A message whose UPSERT was committed is in its total, and added again only if its
\* delivery came back; without losses the totals are exact, bucket by bucket.
TotalsPerLoss ==
  \A k \in Rows, b \in Buckets :
    totals[k][b] \in CountIn(counted, k, b)..(losses + 1) * CountIn(counted, k, b)

Sink == INSTANCE AtLeastOnce WITH
          Ignored <- Unusable,
          pending <- ready \cup unacked,
          stored  <- counted,
          done    <- acked,
          dead    <- dlq

\* The queue and the consumer keep the promise of AtLeastOnce.
SinkSafe == Sink!SinkSpec

\* Every message is settled after the last loss, unless the consumer waits for ever
\* in a notification or dies of the same message again and again.
Settles ==
  \A m \in Msgs :
    m \in ready ~> \/ m \in acked \cup dlq
                   \/ phase = "stuck"
                   \/ (ready \cup unacked) \cap Poison # {}

\* A message whose conversion fails is discarded, and anything else is stored or put
\* aside: no message keeps the consumer from the others.
EveryMessageSettles ==
  \A m \in Msgs : m \in ready ~> m \in acked \cup dlq
=============================================================================
