----------------------------- MODULE WorkQueue ------------------------------
(***************************************************************************)
(* One queue of the fanout exchange and the channel of its consumer, as the *)
(* consumers use RabbitMQ: manual acknowledgement, basic_qos, and a dead    *)
(* letter exchange for what is refused without requeue (producer.rs declares*)
(* the queues so).                                                          *)
(*                                                                          *)
(* An acknowledgement that is sent and not processed before the channel     *)
(* closes is the same as one sent on a closed channel: the consumers ignore *)
(* the result of both.                                                      *)
(***************************************************************************)
EXTENDS Integers, FiniteSets

CONSTANTS
  Msgs         \* messages that may be published to the queue

VARIABLES
  ready,     \* queued, and not delivered to a live channel
  unacked,   \* delivered on the open channel and not settled
  acked,     \* acknowledged: gone
  dlq,       \* refused without requeue: in the dead letter queue
  chan       \* the consumer's channel: "open" or "closed"

broker == <<ready, unacked, acked, dlq>>

BrokerTypeOK ==
  /\ ready \subseteq Msgs /\ unacked \subseteq Msgs
  /\ acked \subseteq Msgs /\ dlq \subseteq Msgs
  /\ chan \in {"open", "closed"}

BrokerInit ==
  /\ ready = {} /\ unacked = {} /\ acked = {} /\ dlq = {}
  /\ chan = "closed"

\* The exchange puts a copy of a published message in the queue.
Enqueue(m) ==
  /\ m \notin ready \cup unacked \cup acked \cup dlq
  /\ ready' = ready \cup {m}
  /\ UNCHANGED <<unacked, acked, dlq, chan>>

\* A delivery, as long as fewer than `window` are not settled.
Push(m, window) ==
  /\ chan = "open"
  /\ m \in ready
  /\ Cardinality(unacked) < window
  /\ ready' = ready \ {m}
  /\ unacked' = unacked \cup {m}
  /\ UNCHANGED <<acked, dlq, chan>>

\* ack and nack(requeue: false); they reach the broker on an open channel only.
SettleAck(m) ==
  IF chan = "open"
    THEN unacked' = unacked \ {m} /\ acked' = acked \cup {m} /\ UNCHANGED <<ready, dlq>>
    ELSE UNCHANGED broker

SettleNack(m) ==
  IF chan = "open"
    THEN unacked' = unacked \ {m} /\ dlq' = dlq \cup {m} /\ UNCHANGED <<ready, acked>>
    ELSE UNCHANGED broker

\* The channel is gone: the broker puts its deliveries back.
Requeue ==
  /\ chan' = "closed"
  /\ ready' = ready \cup unacked
  /\ unacked' = {}
  /\ UNCHANGED <<acked, dlq>>

\* (n * 2) as u16, at least the minimum: the prefetch of both consumers.
Window(n, minimum, word) ==
  LET w == (2 * n) % word
  IN  IF w > minimum THEN w ELSE minimum
=============================================================================
