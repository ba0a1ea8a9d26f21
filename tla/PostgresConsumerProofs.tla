----------------------- MODULE PostgresConsumerProofs -----------------------
(***************************************************************************)
(* The PostgreSQL consumer loses nothing, for any messages, rows and batch  *)
(* size and under every fault, it adds nothing more often than once and once*)
(* more for each loss, and it implements AtLeastOnce.                       *)
(***************************************************************************)
EXTENDS PostgresConsumer, FiniteSetTheorems, TLAPS

\* What run holds at each await: a flush is over when its loops are, and only what
\* was counted is acknowledged.
PhaseOK ==
  /\ phase = "down" => inbox = {} /\ buffer = {} /\ chan = "closed"
  /\ phase \in {"down", "loop"} => discard = {} /\ group = {}
  /\ phase \in {"upsert", "notify", "ack", "nack"} => discard = {}
  /\ phase = "ack" => group \subseteq counted

\* A message is in one place at the broker, and what the consumer still holds
\* from a closed channel is queued again.
BrokerOK ==
  /\ ready \cap unacked = {}
  /\ chan = "closed" => unacked = {} /\ inbox \cup buffer \cup InFlush \subseteq ready

\* The stages of the consumer never hold a delivery twice.
Disjoint ==
  /\ inbox \cap buffer = {}
  /\ (inbox \cup buffer) \cap InFlush = {}

\* A message with a row is acknowledged only when an UPSERT has counted it.
AckedWasCounted == acked \cap Usable \subseteq counted

IInv == TypeOK /\ PhaseOK /\ BrokerOK /\ NoneForgotten /\ Disjoint /\ AckedWasCounted

-----------------------------------------------------------------------------
(* Counting. *)

\* The messages of a set that belong in bucket b of row k.
Of(set, k, b) ==
  {m \in set \cap Usable :
    /\ RowOf[m] = k
    /\ b = "cancel" <=> m \in Cancelled
    /\ b = "card" => m \in Sale
    /\ b = "other" => m \notin Sale}

\* They are finitely many, as are all messages.
LEMMA OfIsFinite ==
  ASSUME NEW set, NEW k, NEW b
  PROVE  /\ IsFiniteSet(Of(set, k, b))
         /\ Cardinality(Of(set, k, b)) \in Nat
         /\ CountIn(set, k, b) = Cardinality(Of(set, k, b))
<1>1. Of(set, k, b) \subseteq Msgs
  BY DEF Of, Usable
<1>2. IsFiniteSet(Of(set, k, b))
  BY <1>1, ConsumerAssumption, FS_Subset
<1> QED
  BY <1>2, FS_CardinalityType DEF CountIn, Of

\* A larger set counts as much, at least.
LEMMA CountIsMonotone ==
  ASSUME NEW small, NEW large, NEW k, NEW b, small \cap Usable \subseteq large
  PROVE  CountIn(small, k, b) <= CountIn(large, k, b)
<1>1. Of(small, k, b) \subseteq Of(large, k, b)
  BY DEF Of
<1> QED
  BY <1>1, OfIsFinite, FS_Subset

\* What a flush adds to a bucket is what it holds for that bucket.
LEMMA BatchSumCounts ==
  ASSUME group \subseteq Usable, NEW k \in Rows, NEW b \in Buckets
  PROVE  BatchSum(k, b) = CountIn(group, k, b)
<1>1. {m \in group : RowOf[m] = k /\ Bucket(m) = b} = Of(group, k, b)
  BY DEF Of, Bucket, Buckets
<1> QED
  BY <1>1, OfIsFinite DEF BatchSum

\* Messages counted twice count once in the union.
LEMMA CountOfUnion ==
  ASSUME NEW a, NEW c, NEW k, NEW b
  PROVE  CountIn(a \cup c, k, b) <= CountIn(a, k, b) + CountIn(c, k, b)
<1> DEFINE A == Of(a, k, b)
           C == Of(c, k, b)
<1>1. Of(a \cup c, k, b) = A \cup C
  BY DEF Of
<1>2. IsFiniteSet(A) /\ IsFiniteSet(C) /\ Cardinality(A) \in Nat /\ Cardinality(C) \in Nat
  BY OfIsFinite
<1>3. IsFiniteSet(A \cap C)
  BY <1>2, FS_Subset
<1>4. Cardinality(A \cup C) = Cardinality(A) + Cardinality(C) - Cardinality(A \cap C)
  BY <1>2, FS_Union
<1>5. Cardinality(A \cap C) \in Nat
  BY <1>3, FS_CardinalityType
<1>6. Cardinality(A \cup C) <= Cardinality(A) + Cardinality(C)
  <2> HIDE DEF A, C
  <2> QED
    BY <1>2, <1>4, <1>5
<1> QED
  BY <1>1, <1>6, OfIsFinite

\* An UPSERT keeps the table well-typed, and counts its whole group.
LEMMA UpsertStep ==
  ASSUME TypeOK, Upsert
  PROVE  /\ totals' \in [Rows -> [Buckets -> Nat]]
         /\ counted' \subseteq Usable
         /\ counted' = counted \cup group
<1>1. ASSUME NEW k \in Rows, NEW b \in Buckets
      PROVE  totals[k][b] + BatchSum(k, b) \in Nat
  <2>1. BatchSum(k, b) \in Nat
    BY BatchSumCounts, OfIsFinite DEF TypeOK
  <2>2. totals[k][b] \in Nat
    BY DEF TypeOK
  <2> QED
    BY <2>1, <2>2
<1> QED
  BY <1>1 DEF TypeOK, Upsert

-----------------------------------------------------------------------------
(* The invariant. *)

\* Nothing is queued when the consumer starts for the first time.
LEMMA InitIInv == Init => IInv
BY DEF Init, IInv, TypeOK, PhaseOK, BrokerOK, NoneForgotten, Disjoint, InFlush,
       AckedWasCounted, Phases, BrokerTypeOK, BrokerInit

\* Both ways into a flush divide the buffer among its two loops.
LEMMA StartFlushStep ==
  ASSUME NEW batch, batch \subseteq Msgs \ Garbage, StartFlush(batch)
  PROVE  /\ buffer' = {} /\ discard' \cup group' = batch
         /\ discard' \subseteq Unusable /\ group' \subseteq Usable
         /\ phase' \in {"discard", "upsert", "loop"}
         /\ phase' = "loop" => batch = {}
         /\ phase' = "upsert" => discard' = {}
BY DEF StartFlush, FlushPhase, Usable

\* Every step of the broker, of the consumer and every fault keeps the invariant.
LEMMA Step == IInv /\ [Next]_vars => IInv'
<1> SUFFICES ASSUME IInv, [Next]_vars
             PROVE  IInv'
  OBVIOUS
<1> USE ConsumerAssumption
        DEF IInv, TypeOK, PhaseOK, BrokerOK, NoneForgotten, Disjoint, AckedWasCounted,
            InFlush, Phases, broker, consumer, table, BrokerTypeOK
<1>1. ASSUME NEW m \in Msgs, Arrive(m)
      PROVE  IInv'
  BY <1>1 DEF Arrive, Enqueue
<1>2. ASSUME NEW m \in Msgs, Deliver(m)
      PROVE  IInv'
  BY <1>2 DEF Deliver, Push
<1>3. ASSUME NEW m \in Msgs, Take(m)
      PROVE  IInv'
  <2> DEFINE batch == IF m \in Garbage THEN buffer ELSE buffer \cup {m}
  <2>1. /\ phase = "loop" /\ m \in inbox /\ inbox' = inbox \ {m}
        /\ IF m \in Garbage THEN SettleNack(m) ELSE UNCHANGED broker
        /\ UNCHANGED <<chan, totals, counted, losses>>
    BY <1>3 DEF Take
  <2>2. batch \subseteq Msgs \ Garbage
    OBVIOUS
  <2>3. \/ buffer' = batch /\ UNCHANGED <<phase, discard, group>>
        \/ /\ buffer' = {} /\ discard' \cup group' = batch
           /\ discard' \subseteq Unusable /\ group' \subseteq Usable
           /\ phase' \in {"discard", "upsert", "loop"}
           /\ phase' = "loop" => batch = {}
           /\ phase' = "upsert" => discard' = {}
    <3>1. Buffer(batch)
      BY <1>3 DEF Take
    <3> HIDE DEF batch
    <3> QED
      BY <3>1, <2>2, StartFlushStep DEF Buffer
  <2>4. CASE m \in Garbage
    BY <2>1, <2>3, <2>4 DEF SettleNack, Usable
  <2>5. CASE m \notin Garbage
    BY <2>1, <2>3, <2>5 DEF Usable
  <2> QED
    BY <2>4, <2>5
<1>4. CASE Start
  BY <1>4 DEF Start
<1>5. CASE Tick
  BY <1>5, StartFlushStep DEF Tick
<1>6. ASSUME NEW m \in discard, DiscardOne(m)
      PROVE  IInv'
  <2>1. m \in Unusable /\ m \notin Usable /\ phase = "discard"
    BY <1>6 DEF DiscardOne, Usable
  <2>2. phase' \in {"discard", "upsert", "loop"} /\ (phase' # "discard" => discard' = {})
        /\ (phase' = "loop" => group = {})
    BY <1>6 DEF DiscardOne, FlushPhase
  <2>3. CASE chan = "open"
    BY <1>6, <2>1, <2>2, <2>3 DEF DiscardOne, SettleAck
  <2>4. CASE chan = "closed"
    BY <1>6, <2>1, <2>2, <2>4 DEF DiscardOne, SettleAck
  <2> QED
    BY <2>3, <2>4
<1>7. CASE UpsertOk
  BY <1>7, UpsertStep DEF UpsertOk
<1>8. CASE UpsertFails
  BY <1>8, UpsertStep DEF UpsertFails
<1>9. CASE Notify
  BY <1>9 DEF Notify
<1>10. ASSUME NEW m \in group, AckOne(m)
       PROVE  IInv'
  <2>1. m \in Usable /\ m \in counted /\ phase = "ack"
    BY <1>10 DEF AckOne
  <2>2. CASE chan = "open"
    BY <1>10, <2>1, <2>2 DEF AckOne, SettleAck, NextDelivery, Usable
  <2>3. CASE chan = "closed"
    BY <1>10, <2>1, <2>3 DEF AckOne, SettleAck, NextDelivery, Usable
  <2> QED
    BY <2>2, <2>3
<1>11. ASSUME NEW m \in group, NackOne(m)
       PROVE  IInv'
  <2>1. CASE chan = "open"
    BY <1>11, <2>1 DEF NackOne, SettleNack, NextDelivery, Usable
  <2>2. CASE chan = "closed"
    BY <1>11, <2>2 DEF NackOne, SettleNack, NextDelivery, Usable
  <2> QED
    BY <2>1, <2>2
<1>12. CASE End \/ EndStuck
  BY <1>12 DEF End, EndStuck
<1>13. CASE ChannelLost
  BY <1>13 DEF ChannelLost, Requeue
<1>14. CASE Crash
  BY <1>14, UpsertStep DEF Crash, Die, Requeue
<1>15. CASE Panic
  BY <1>15 DEF Panic, Die, Requeue
<1>16. CASE UNCHANGED vars
  BY <1>16 DEF vars
<1> QED
  BY <1>1, <1>2, <1>3, <1>4, <1>5, <1>6, <1>7, <1>8, <1>9, <1>10, <1>11, <1>12,
     <1>13, <1>14, <1>15, <1>16 DEF Next, Flush

\* The invariant holds in every reachable state.
LEMMA AlwaysIInv == Spec => []IInv
BY InitIInv, Step, PTL DEF Spec

\* The consumer's state is always well-typed.
THEOREM TypeCorrect == Spec => []TypeOK
<1>1. IInv => TypeOK
  BY DEF IInv
<1> QED
  BY AlwaysIInv, <1>1, PTL

\* No delivery of the open channel is forgotten by the consumer.
THEOREM DeliveriesAreKept == Spec => []NoneForgotten
<1>1. IInv => NoneForgotten
  BY DEF IInv
<1> QED
  BY AlwaysIInv, <1>1, PTL

\* postgres.rs, flush: the conversion goes on while it has a message to discard or
\* to fail at; what is sent, and then settled, are rows that were all converted, and
\* never none; the flush is over when every delivery of its batch is settled.
FlushHasWork ==
  /\ phase = "discard" => discard # {} \/ group \cap Poison # {}
  /\ phase \in {"upsert", "notify", "ack", "nack"} =>
       group # {} /\ group \cap Poison = {} /\ discard = {}
  /\ phase = "loop" => InFlush = {}

\* Whatever its messages are, a flush starts, and goes on after each discard, in the
\* phase that has work to do.
LEMMA FlushPhaseFits ==
  ASSUME NEW without, NEW with
  PROVE  /\ FlushPhase(without, with) \in {"discard", "upsert", "loop"}
         /\ FlushPhase(without, with) = "discard" => without # {} \/ with \cap Poison # {}
         /\ FlushPhase(without, with) = "upsert" =>
              without = {} /\ with # {} /\ with \cap Poison = {}
         /\ FlushPhase(without, with) = "loop" => without = {} /\ with = {}
BY DEF FlushPhase

\* Every step that takes messages into a flush, or one of them out of it, moves the
\* flush on when there is nothing left for its phase.
LEMMA WorkStep == IInv /\ FlushHasWork /\ [Next]_vars => FlushHasWork'
<1> SUFFICES ASSUME IInv, FlushHasWork, [Next]_vars
             PROVE  FlushHasWork'
  OBVIOUS
<1> USE DEF FlushHasWork, InFlush, consumer
<1>1. ASSUME phase' = "down", discard' = {}, group' = {}
      PROVE  FlushHasWork'
  BY <1>1
<1>2. ASSUME UNCHANGED <<phase, discard, group>>
      PROVE  FlushHasWork'
  BY <1>2
<1>3. ASSUME phase' = FlushPhase(discard', group')
      PROVE  FlushHasWork'
  BY <1>3, FlushPhaseFits
<1>4. ASSUME NEW batch, StartFlush(batch)
      PROVE  FlushHasWork'
  BY <1>3, <1>4 DEF StartFlush
<1>5. ASSUME NEW m \in Msgs, Arrive(m) \/ Deliver(m)
      PROVE  FlushHasWork'
  BY <1>2, <1>5 DEF Arrive, Deliver
<1>6. ASSUME NEW m \in Msgs, Take(m)
      PROVE  FlushHasWork'
  BY <1>2, <1>4, <1>6 DEF Take, Buffer
<1>7. CASE Start
  BY <1>7 DEF Start, IInv, PhaseOK
<1>8. CASE Tick
  BY <1>4, <1>8 DEF Tick
<1>9. ASSUME NEW m \in discard, DiscardOne(m)
      PROVE  FlushHasWork'
  BY <1>3, <1>9 DEF DiscardOne
<1>10. CASE UpsertOk \/ UpsertFails \/ Notify
  BY <1>10 DEF UpsertOk, UpsertFails, Notify
<1>11. ASSUME NEW m \in group, AckOne(m) \/ NackOne(m)
       PROVE  FlushHasWork'
  BY <1>11 DEF AckOne, NackOne, NextDelivery
<1>12. CASE End \/ EndStuck
  BY <1>12 DEF End, EndStuck
<1>13. CASE ChannelLost
  BY <1>2, <1>13 DEF ChannelLost
<1>14. CASE Crash
  BY <1>1, <1>14 DEF Crash, Die
<1>15. CASE Panic
  BY <1>1, <1>15 DEF Panic, Die
<1>16. CASE UNCHANGED vars
  BY <1>2, <1>16 DEF vars
<1> QED
  BY <1>5, <1>6, <1>7, <1>8, <1>9, <1>10, <1>11, <1>12, <1>13, <1>14, <1>15, <1>16
     DEF Next, Flush

\* No UPSERT is sent without rows or before every row was converted, and no flush waits
\* for nothing or leaves a delivery of its batch unsettled.
THEOREM FlushesDoTheirWork == Spec => []FlushHasWork
<1>1. Init => FlushHasWork
  BY DEF Init, FlushHasWork
<1> QED
  BY AlwaysIInv, <1>1, WorkStep, PTL DEF Spec

-----------------------------------------------------------------------------
(* The totals. *)

\* Every message that an UPSERT committed is in its total.
TotalsHold == \A k \in Rows, b \in Buckets : CountIn(counted, k, b) <= totals[k][b]

\* No UPSERT has run at first.
LEMMA InitTotals == Init => TotalsHold
<1> SUFFICES ASSUME Init, NEW k \in Rows, NEW b \in Buckets
             PROVE  CountIn(counted, k, b) <= totals[k][b]
  BY DEF TotalsHold
<1>1. Of({}, k, b) = {}
  BY DEF Of
<1>2. CountIn(counted, k, b) = 0
  BY <1>1, OfIsFinite, FS_EmptySet DEF Init
<1>3. totals[k][b] = 0
  BY DEF Init
<1> QED
  BY <1>2, <1>3

\* The UPSERT adds to what the row has.
LEMMA UpsertTotals == IInv /\ TotalsHold /\ Upsert => TotalsHold'
<1> SUFFICES ASSUME IInv, TotalsHold, Upsert, NEW k \in Rows, NEW b \in Buckets
             PROVE  CountIn(counted', k, b) <= totals'[k][b]
  BY DEF TotalsHold, CountIn, Usable
<1>1. totals'[k][b] = totals[k][b] + CountIn(group, k, b)
  BY BatchSumCounts DEF Upsert, IInv, TypeOK
<1>2. CountIn(counted', k, b) <= CountIn(counted, k, b) + CountIn(group, k, b)
  BY CountOfUnion DEF Upsert
<1>3. CountIn(counted, k, b) <= totals[k][b]
  BY DEF TotalsHold
<1>4. /\ CountIn(counted, k, b) \in Nat /\ CountIn(group, k, b) \in Nat
      /\ CountIn(counted', k, b) \in Nat /\ totals[k][b] \in Nat
  BY OfIsFinite DEF IInv, TypeOK
<1> QED
  BY <1>1, <1>2, <1>3, <1>4

\* No other step touches the table.
LEMMA TotalsStep == IInv /\ TotalsHold /\ [Next]_vars => TotalsHold'
<1> SUFFICES ASSUME IInv, TotalsHold, [Next]_vars
             PROVE  TotalsHold'
  OBVIOUS
<1>1. Upsert \/ UNCHANGED <<totals, counted>>
  BY DEF Next, vars, table, Arrive, Deliver, Take, Start, Tick, Flush, End, EndStuck,
         ChannelLost, Crash, DiscardOne, Panic, UpsertOk, UpsertFails, Notify, AckOne,
         NackOne, NextDelivery
<1>2. CASE Upsert
  BY <1>2, UpsertTotals
<1>3. CASE UNCHANGED <<totals, counted>>
  BY <1>3 DEF TotalsHold, CountIn, Usable
<1> QED
  BY <1>1, <1>2, <1>3

\* What was acknowledged is in its total, whatever fails and whenever.
THEOREM AckedAreCounted == Spec => []AckedIsCounted
<1>1. IInv /\ TotalsHold => AckedIsCounted
  <2> SUFFICES ASSUME IInv, TotalsHold, NEW k \in Rows, NEW b \in Buckets
               PROVE  totals[k][b] >= CountIn(acked, k, b)
    BY DEF AckedIsCounted
  <2>1. CountIn(acked, k, b) <= CountIn(counted, k, b)
    BY CountIsMonotone DEF IInv, AckedWasCounted
  <2>2. CountIn(counted, k, b) <= totals[k][b]
    BY DEF TotalsHold
  <2>3. /\ CountIn(acked, k, b) \in Nat /\ CountIn(counted, k, b) \in Nat
        /\ totals[k][b] \in Nat
    BY OfIsFinite DEF IInv, TypeOK
  <2> QED
    BY <2>1, <2>2, <2>3
<1> QED
  BY AlwaysIInv, InitTotals, TotalsStep, <1>1, PTL DEF Spec

-----------------------------------------------------------------------------
(* Repeated additions. *)

\* Sets without a common message are counted one by one.
LEMMA CountOfDisjoint ==
  ASSUME NEW a, NEW c, NEW k, NEW b, a \cap c = {}
  PROVE  CountIn(a \cup c, k, b) = CountIn(a, k, b) + CountIn(c, k, b)
<1> DEFINE A == Of(a, k, b)
           C == Of(c, k, b)
<1>1. Of(a \cup c, k, b) = A \cup C /\ A \cap C = {}
  BY DEF Of
<1>2. IsFiniteSet(A) /\ IsFiniteSet(C) /\ Cardinality(A) \in Nat /\ Cardinality(C) \in Nat
  BY OfIsFinite
<1>3. Cardinality(A \cup C) = Cardinality(A) + Cardinality(C) - Cardinality(A \cap C)
  BY <1>2, FS_Union
<1>4. Cardinality(A \cap C) = 0
  BY <1>1, FS_EmptySet
<1>5. Cardinality(A \cup C) = Cardinality(A) + Cardinality(C)
  <2> HIDE DEF A, C
  <2> QED
    BY <1>2, <1>3, <1>4
<1> QED
  BY <1>1, <1>5, OfIsFinite

\* What the running consumer holds and has yet to add.
Uncounted ==
  inbox \cup buffer \cup (IF phase \in {"discard", "upsert"} THEN group ELSE {})

\* What was added and may be added again: at the broker, and in the consumer.  From
\* a closed channel a message can be in both.
Again(k, b) == CountIn(counted \cap ready, k, b) + CountIn(counted \cap Uncounted, k, b)

\* Every addition that may still come is paid for, in each bucket of each row.
PaidFor ==
  \A k \in Rows, b \in Buckets :
    totals[k][b] + Again(k, b) <= (losses + 1) * CountIn(counted, k, b)

\* Only what was published is counted, and only a loss leaves run with a closed
\* channel.
LossOK ==
  /\ counted \subseteq ready \cup unacked \cup acked \cup dlq
  /\ phase # "down" /\ chan = "closed" => losses > 0

\* All the numbers are natural.
LEMMA NumbersAre ==
  ASSUME TypeOK, NEW k \in Rows, NEW b \in Buckets
  PROVE  /\ totals[k][b] \in Nat /\ losses \in Nat
         /\ \A set : CountIn(set, k, b) \in Nat
         /\ Again(k, b) \in Nat
BY OfIsFinite DEF TypeOK, Again

\* The rows and the kinds of messages do not change, so a count of the next state is a
\* count of the next state's set.
LEMMA NextCounts ==
  ASSUME NEW k, NEW b
  PROVE  /\ CountIn(counted, k, b)' = CountIn(counted', k, b)
         /\ Again(k, b)' = CountIn(counted' \cap ready', k, b)
                            + CountIn(counted' \cap Uncounted', k, b)
         /\ Again(k, b)' \in Nat
<1>1. Again(k, b)' = CountIn(counted' \cap ready', k, b)
                     + CountIn(counted' \cap Uncounted', k, b)
  BY DEF Again, CountIn, Usable
<1>2. \A set : CountIn(set, k, b) \in Nat
  BY OfIsFinite
<1>3. CountIn(counted, k, b)' = CountIn(counted', k, b)
  BY DEF CountIn, Usable
<1> QED
  BY <1>1, <1>2, <1>3

\* Neither the broker nor the consumer counts what it has not got.
LEMMA LossStep == IInv /\ LossOK /\ [Next]_vars => LossOK'
<1> SUFFICES ASSUME IInv, LossOK, [Next]_vars
             PROVE  LossOK'
  OBVIOUS
<1> USE DEF IInv, TypeOK, PhaseOK, BrokerOK, NoneForgotten, LossOK, InFlush, broker,
            consumer, table, BrokerTypeOK
<1>1. ASSUME NEW m \in Msgs, Arrive(m) \/ Deliver(m)
      PROVE  LossOK'
  BY <1>1 DEF Arrive, Deliver, Enqueue, Push
<1>2. ASSUME NEW m \in Msgs, Take(m)
      PROVE  LossOK'
  <2>1. phase = "loop" /\ UNCHANGED <<chan, counted, losses>>
    BY <1>2 DEF Take
  <2>2. ready' \cup unacked' \cup acked' \cup dlq' = ready \cup unacked \cup acked \cup dlq
    <3>1. m \in inbox /\ IF m \in Garbage THEN SettleNack(m) ELSE UNCHANGED broker
      BY <1>2 DEF Take
    <3> QED
      BY <3>1 DEF SettleNack
  <2> QED
    BY <2>1, <2>2
<1>3. CASE Start \/ Tick \/ Notify \/ End \/ EndStuck \/ UNCHANGED vars
  BY <1>3 DEF Start, Tick, StartFlush, Notify, End, EndStuck, vars
<1>4. ASSUME NEW m \in discard \cup group, DiscardOne(m) \/ AckOne(m) \/ NackOne(m)
      PROVE  LossOK'
  BY <1>4 DEF DiscardOne, AckOne, NackOne, SettleAck, SettleNack, NextDelivery
<1>5. CASE UpsertOk \/ UpsertFails
  BY <1>5 DEF UpsertOk, UpsertFails, Upsert
<1>6. CASE ChannelLost \/ Panic
  BY <1>6 DEF ChannelLost, Panic, Die, Requeue
<1>7. CASE Crash
  BY <1>7 DEF Crash, Die, Requeue, Upsert
<1> QED
  BY <1>1, <1>2, <1>3, <1>4, <1>5, <1>6, <1>7 DEF Next, Flush

\* A step that adds nothing, after which no more can be added again than before.
LEMMA QuietStep ==
  ASSUME TypeOK, PaidFor, UNCHANGED <<totals, counted, losses>>,
         \A k \in Rows, b \in Buckets : Again(k, b)' <= Again(k, b)
  PROVE  PaidFor'
<1> SUFFICES ASSUME NEW k \in Rows, NEW b \in Buckets
             PROVE  totals'[k][b] + Again(k, b)' <= (losses' + 1) * CountIn(counted, k, b)'
  BY DEF PaidFor
<1>1. CountIn(counted, k, b)' = CountIn(counted, k, b)
  BY NextCounts
<1>2. totals[k][b] + Again(k, b) <= (losses + 1) * CountIn(counted, k, b)
  BY DEF PaidFor
<1>3. /\ totals[k][b] \in Nat /\ Again(k, b) \in Nat
      /\ (losses + 1) * CountIn(counted, k, b) \in Nat
  BY NumbersAre
<1>4. Again(k, b)' \in Nat
  BY NextCounts
<1> QED
  BY <1>1, <1>2, <1>3, <1>4

\* A loss pays for one more addition of everything that was counted: of what comes back
\* to the broker, nothing more can have been added.
LEMMA LossPays ==
  ASSUME TypeOK, PaidFor, UNCHANGED <<totals, counted>>, losses' = losses + 1,
         ready' = ready \cup unacked, Uncounted' \subseteq Uncounted
  PROVE  PaidFor'
<1> SUFFICES ASSUME NEW k \in Rows, NEW b \in Buckets
             PROVE  totals'[k][b] + Again(k, b)' <= (losses' + 1) * CountIn(counted, k, b)'
  BY DEF PaidFor
<1> DEFINE c == CountIn(counted, k, b)
<1>1. Again(k, b)' <= Again(k, b) + c
  <2>1. CountIn(counted \cap ready', k, b) <=
          CountIn(counted \cap ready, k, b) + CountIn(counted \cap unacked, k, b)
    <3>1. counted \cap ready' = (counted \cap ready) \cup (counted \cap unacked)
      OBVIOUS
    <3> QED
      BY <3>1, CountOfUnion
  <2>2. CountIn(counted \cap unacked, k, b) <= c
    BY CountIsMonotone
  <2>3. CountIn(counted \cap Uncounted', k, b) <= CountIn(counted \cap Uncounted, k, b)
    BY CountIsMonotone
  <2>4. \A set : CountIn(set, k, b) \in Nat
    BY NumbersAre
  <2>5. Again(k, b)' = CountIn(counted \cap ready', k, b)
                       + CountIn(counted \cap Uncounted', k, b)
    BY NextCounts
  <2> HIDE DEF c
  <2> QED
    <3>1. CountIn(counted \cap unacked, k, b) \in Nat /\ c \in Nat
      BY <2>4 DEF c
    <3>2. CountIn(counted \cap ready', k, b) \in Nat /\ CountIn(counted \cap Uncounted', k, b) \in Nat
          /\ CountIn(counted \cap ready, k, b) \in Nat /\ CountIn(counted \cap Uncounted, k, b) \in Nat
      BY <2>4
    <3> QED
      BY <2>1, <2>2, <2>3, <2>5, <3>1, <3>2 DEF Again
<1>2. totals[k][b] + Again(k, b) <= (losses + 1) * c
  BY DEF PaidFor
<1>3. totals[k][b] \in Nat /\ Again(k, b) \in Nat /\ c \in Nat /\ losses \in Nat
  BY NumbersAre
<1>4. CountIn(counted, k, b)' = c /\ Again(k, b)' \in Nat
  BY NextCounts
<1> HIDE DEF c
<1>5. (losses' + 1) * c = (losses + 1) * c + c
  BY <1>3
<1>6. (losses + 1) * c \in Nat
  BY <1>3
<1> QED
  BY <1>1, <1>2, <1>3, <1>4, <1>5, <1>6

\* An UPSERT takes its group out of what may be added again; what it adds for the first
\* time costs one, and one more if its channel is closed and it will be delivered again.
LEMMA UpsertPays ==
  ASSUME IInv, LossOK, PaidFor, Upsert, phase = "upsert",
         NEW k \in Rows, NEW b \in Buckets
  PROVE  totals'[k][b] + CountIn(counted' \cap ready, k, b)
             + CountIn(counted' \cap (inbox \cup buffer), k, b)
           <= (losses + 1) * CountIn(counted', k, b)
<1> DEFINE fresh == group \ counted
           again == group \cap counted
           held  == inbox \cup buffer
           C(set) == CountIn(set, k, b)
<1>1. TypeOK /\ counted' = counted \cup group
  BY DEF IInv, Upsert
<1>2. held \cap group = {} /\ Uncounted = held \cup group
  BY DEF IInv, Disjoint, InFlush, Uncounted
<1>3. /\ C(group) = C(fresh) + C(again)
      /\ C(counted') = C(counted) + C(fresh)
  <2>1. group = fresh \cup again /\ fresh \cap again = {}
    OBVIOUS
  <2>2. counted' = counted \cup fresh /\ counted \cap fresh = {}
    BY <1>1
  <2> HIDE DEF fresh, again
  <2> QED
    BY <2>1, <2>2, CountOfDisjoint
<1>4. totals'[k][b] = totals[k][b] + C(group)
  BY <1>1, BatchSumCounts DEF Upsert, TypeOK
<1>5. C(counted' \cap ready) <= C(counted \cap ready) + C(fresh \cap ready)
  <2>1. counted' \cap ready = (counted \cap ready) \cup (fresh \cap ready)
    BY <1>1
  <2> QED
    BY <2>1, CountOfUnion
<1>6. C(counted' \cap held) = C(counted \cap held)
  <2>1. counted' \cap held = counted \cap held
    BY <1>1, <1>2
  <2> QED
    BY <2>1
<1>7. C(counted \cap Uncounted) = C(counted \cap held) + C(again)
  <2>1. counted \cap Uncounted = (counted \cap held) \cup again
        /\ (counted \cap held) \cap again = {}
    BY <1>2
  <2> QED
    BY <2>1, CountOfDisjoint
<1>8. totals[k][b] + (C(counted \cap ready) + C(counted \cap Uncounted))
        <= (losses + 1) * C(counted)
  BY DEF PaidFor, Again
<1>9. C(fresh) + C(fresh \cap ready) <= (losses + 1) * C(fresh)
  <2>1. C(fresh) \in Nat /\ losses \in Nat
    BY <1>1, NumbersAre
  <2>2. CASE chan = "open"
    <3>1. fresh \cap ready = {}
      BY <2>2 DEF IInv, NoneForgotten, BrokerOK, InFlush
    <3>2. C(fresh \cap ready) = 0
      <4>1. Of({}, k, b) = {}
        BY DEF Of
      <4>2. C({}) = 0
        BY <4>1, OfIsFinite, FS_EmptySet
      <4> HIDE DEF C, fresh
      <4> QED
        BY <3>1, <4>2
    <3> HIDE DEF C, fresh
    <3> QED
      BY <2>1, <3>2
  <2>3. CASE chan = "closed"
    <3>1. losses > 0
      BY <2>3 DEF LossOK
    <3>2. C(fresh \cap ready) <= C(fresh)
      BY CountIsMonotone
    <3>3. C(fresh \cap ready) \in Nat
      BY <1>1, NumbersAre
    <3> HIDE DEF C, fresh
    <3>4. 2 * C(fresh) <= (losses + 1) * C(fresh)
      <4>1. PICK n \in Nat : losses = n + 1
        BY <2>1, <3>1
      <4>2. (losses + 1) * C(fresh) = n * C(fresh) + 2 * C(fresh)
        BY <2>1, <4>1
      <4>3. n * C(fresh) \in Nat
        BY <2>1
      <4> QED
        BY <2>1, <4>2, <4>3
    <3> QED
      BY <2>1, <3>2, <3>3, <3>4
  <2> QED
    BY <2>2, <2>3 DEF IInv, TypeOK, BrokerTypeOK
<1>10. /\ C(fresh) \in Nat /\ C(again) \in Nat /\ C(group) \in Nat
       /\ C(counted) \in Nat /\ C(counted') \in Nat
       /\ C(counted \cap ready) \in Nat /\ C(fresh \cap ready) \in Nat
       /\ C(counted' \cap ready) \in Nat /\ C(counted \cap held) \in Nat
       /\ C(counted' \cap held) \in Nat /\ C(counted \cap Uncounted) \in Nat
       /\ totals[k][b] \in Nat /\ losses \in Nat
  BY <1>1, NumbersAre
<1> HIDE DEF C, fresh, again, held
<1>11. (losses + 1) * C(counted') = (losses + 1) * C(counted) + (losses + 1) * C(fresh)
  BY <1>3, <1>10
<1>12. (losses + 1) * C(counted) \in Nat /\ (losses + 1) * C(fresh) \in Nat
  BY <1>10
<1>13. totals'[k][b] + C(counted' \cap ready) + C(counted' \cap held)
         <= (losses + 1) * C(counted')
  BY <1>3, <1>4, <1>5, <1>6, <1>7, <1>8, <1>9, <1>10, <1>11, <1>12
<1> QED
  BY <1>13 DEF C, held

\* Moving a delivery into the consumer, or on in it, pays for nothing; an UPSERT and a
\* loss pay for what they add.
LEMMA PaidStep == IInv /\ LossOK /\ PaidFor /\ [Next]_vars => PaidFor'
<1> SUFFICES ASSUME IInv, LossOK, PaidFor, [Next]_vars
             PROVE  PaidFor'
  OBVIOUS
<1>t. TypeOK
  BY DEF IInv
<1>1. ASSUME counted \cap ready' \subseteq counted \cap ready,
             counted \cap Uncounted' \subseteq counted \cap Uncounted,
             UNCHANGED <<totals, counted, losses>>
      PROVE  PaidFor'
  <2> SUFFICES ASSUME NEW k \in Rows, NEW b \in Buckets
               PROVE  Again(k, b)' <= Again(k, b)
    BY <1>t, <1>1, QuietStep
  <2>1. /\ CountIn(counted \cap ready', k, b) <= CountIn(counted \cap ready, k, b)
        /\ CountIn(counted \cap Uncounted', k, b) <= CountIn(counted \cap Uncounted, k, b)
    BY <1>1, CountIsMonotone
  <2>2. \A set : CountIn(set, k, b) \in Nat
    BY <1>t, NumbersAre
  <2>3. Again(k, b)' = CountIn(counted \cap ready', k, b)
                       + CountIn(counted \cap Uncounted', k, b)
    BY <1>1, NextCounts
  <2>4. /\ CountIn(counted \cap ready', k, b) \in Nat
        /\ CountIn(counted \cap Uncounted', k, b) \in Nat
        /\ CountIn(counted \cap ready, k, b) \in Nat
        /\ CountIn(counted \cap Uncounted, k, b) \in Nat
    BY <2>2
  <2> QED
    BY <2>1, <2>3, <2>4 DEF Again
<1>2. ASSUME Upsert, phase = "upsert", losses' = losses,
             ready' = ready, Uncounted' = inbox \cup buffer
      PROVE  PaidFor'
  <2> SUFFICES ASSUME NEW k \in Rows, NEW b \in Buckets
               PROVE  totals'[k][b] + Again(k, b)'
                        <= (losses' + 1) * CountIn(counted, k, b)'
    BY DEF PaidFor
  <2>1. Again(k, b)' = CountIn(counted' \cap ready, k, b)
                       + CountIn(counted' \cap (inbox \cup buffer), k, b)
    BY <1>2, NextCounts
  <2>2. totals'[k][b] + CountIn(counted' \cap ready, k, b)
            + CountIn(counted' \cap (inbox \cup buffer), k, b)
          <= (losses + 1) * CountIn(counted', k, b)
    BY <1>2, UpsertPays
  <2>3. totals'[k][b] \in Nat
    BY <1>t, <1>2, UpsertStep
  <2>4. /\ CountIn(counted' \cap ready, k, b) \in Nat
        /\ CountIn(counted' \cap (inbox \cup buffer), k, b) \in Nat
    BY <1>t, NumbersAre
  <2>5. totals'[k][b] + Again(k, b)' <= (losses + 1) * CountIn(counted', k, b)
    BY <2>1, <2>2, <2>3, <2>4
  <2> QED
    BY <1>2, <2>5, NextCounts
<1> USE DEF IInv, TypeOK, PhaseOK, BrokerOK, NoneForgotten, InFlush, Uncounted, broker,
            consumer, table, BrokerTypeOK
<1>3. ASSUME NEW m \in Msgs, Arrive(m)
      PROVE  PaidFor'
  BY <1>1, <1>3 DEF Arrive, Enqueue, LossOK
<1>4. ASSUME NEW m \in Msgs, Deliver(m)
      PROVE  PaidFor'
  <2> SUFFICES ASSUME NEW k \in Rows, NEW b \in Buckets
               PROVE  Again(k, b)' <= Again(k, b)
    BY <1>4, QuietStep DEF Deliver
  <2>1. /\ UNCHANGED counted
        /\ ready' \cup Uncounted' = ready \cup Uncounted
        /\ ready \cap Uncounted = {} /\ ready' \cap Uncounted' = {}
    BY <1>4 DEF Deliver, Push
  <2>2. Again(k, b) = CountIn(counted \cap (ready \cup Uncounted), k, b)
    <3>1. /\ (counted \cap ready) \cap (counted \cap Uncounted) = {}
          /\ counted \cap (ready \cup Uncounted)
               = (counted \cap ready) \cup (counted \cap Uncounted)
      BY <2>1
    <3> HIDE DEF Uncounted
    <3> QED
      BY <3>1, CountOfDisjoint DEF Again
  <2>3. Again(k, b)' = CountIn(counted \cap (ready' \cup Uncounted'), k, b)
    <3>1. /\ (counted \cap ready') \cap (counted \cap Uncounted') = {}
          /\ counted \cap (ready' \cup Uncounted')
               = (counted \cap ready') \cup (counted \cap Uncounted')
      BY <2>1
    <3> HIDE DEF Uncounted
    <3>2. Again(k, b)' = CountIn(counted \cap ready', k, b)
                         + CountIn(counted \cap Uncounted', k, b)
      BY <2>1, NextCounts
    <3> QED
      BY <3>1, <3>2, CountOfDisjoint
  <2> HIDE DEF Uncounted
  <2>4. Again(k, b)' = Again(k, b)
    BY <2>1, <2>2, <2>3
  <2>5. Again(k, b) \in Nat
    BY <1>t, NumbersAre
  <2> QED
    BY <2>4, <2>5
<1>5. ASSUME NEW m \in Msgs, Take(m)
      PROVE  PaidFor'
  <2> DEFINE batch == IF m \in Garbage THEN buffer ELSE buffer \cup {m}
  <2>1. /\ phase = "loop" /\ m \in inbox /\ inbox' = inbox \ {m}
        /\ ready' = ready /\ UNCHANGED <<totals, counted, losses>>
    BY <1>5 DEF Take, SettleNack
  <2>2. Uncounted' \subseteq Uncounted
    <3>1. Buffer(batch)
      BY <1>5 DEF Take
    <3>2. batch \subseteq inbox \cup buffer /\ batch \subseteq Msgs \ Garbage
      BY <2>1
    <3> HIDE DEF batch
    <3>3. \/ buffer' = batch /\ UNCHANGED <<phase, group>>
          \/ buffer' = {} /\ group' \subseteq batch
      BY <3>1, <3>2, StartFlushStep DEF Buffer
    <3> QED
      BY <2>1, <3>2, <3>3
  <2> QED
    BY <1>1, <2>1, <2>2
<1>6. CASE Tick
  <2>1. phase = "loop" /\ StartFlush(buffer) /\ buffer \subseteq Msgs \ Garbage
        /\ UNCHANGED <<ready, inbox, totals, counted, losses>>
    BY <1>6 DEF Tick
  <2>2. buffer' = {} /\ group' \subseteq buffer
    BY <2>1, StartFlushStep
  <2> QED
    BY <1>1, <2>1, <2>2
<1>7. CASE Start \/ Notify \/ End \/ EndStuck \/ UNCHANGED vars
  BY <1>1, <1>7 DEF Start, Notify, End, EndStuck, vars
<1>8. ASSUME NEW m \in discard, DiscardOne(m)
      PROVE  PaidFor'
  BY <1>1, <1>8 DEF DiscardOne, SettleAck
<1>9. ASSUME NEW m \in group, AckOne(m) \/ NackOne(m)
      PROVE  PaidFor'
  BY <1>1, <1>9 DEF AckOne, NackOne, SettleAck, SettleNack, NextDelivery
<1>10. CASE UpsertOk \/ (UpsertFails /\ Upsert)
  BY <1>2, <1>10 DEF UpsertOk, UpsertFails
<1>11. CASE UpsertFails /\ UNCHANGED table
  BY <1>1, <1>11 DEF UpsertFails
<1>12. CASE ChannelLost
  BY <1>12, LossPays DEF ChannelLost, Requeue
<1>13. CASE Panic
  <2>1. /\ phase = "discard" /\ ready' = ready \cup unacked
        /\ inbox' = {} /\ buffer' = {} /\ group' = {} /\ Uncounted' = {}
        /\ UNCHANGED <<totals, counted, losses>>
    BY <1>13 DEF Panic, Die, Requeue
  <2> SUFFICES ASSUME NEW k \in Rows, NEW b \in Buckets
               PROVE  Again(k, b)' <= Again(k, b)
    BY <2>1, QuietStep
  <2>2. counted \cap ready' \subseteq (counted \cap ready) \cup (counted \cap Uncounted)
    BY <2>1 DEF Usable
  <2> HIDE DEF Uncounted
  <2>3. CountIn(counted \cap ready', k, b)
          <= CountIn((counted \cap ready) \cup (counted \cap Uncounted), k, b)
    BY <2>2, CountIsMonotone
  <2>4. CountIn((counted \cap ready) \cup (counted \cap Uncounted), k, b) <= Again(k, b)
    BY CountOfUnion DEF Again
  <2>5. CountIn({}, k, b) = 0
    <3>1. Of({}, k, b) = {}
      BY DEF Of
    <3> QED
      BY <3>1, OfIsFinite, FS_EmptySet
  <2>6. Again(k, b)' = CountIn(counted \cap ready', k, b) + CountIn({}, k, b)
    <3>1. counted \cap Uncounted' = {} /\ counted' = counted
      BY <2>1
    <3> QED
      BY <3>1, NextCounts
  <2>7. /\ CountIn(counted \cap ready', k, b) \in Nat /\ Again(k, b) \in Nat
        /\ CountIn((counted \cap ready) \cup (counted \cap Uncounted), k, b) \in Nat
    BY <1>t, NumbersAre
  <2> QED
    BY <2>3, <2>4, <2>5, <2>6, <2>7
<1>14. CASE Crash
  <2>1. /\ ready' = ready \cup unacked /\ Uncounted' = {} /\ losses' = losses + 1
        /\ UNCHANGED table \/ (phase = "upsert" /\ Upsert)
    BY <1>14 DEF Crash, Die, Requeue
  <2>2. CASE UNCHANGED table
    BY <2>1, <2>2, LossPays
  <2>3. CASE phase = "upsert" /\ Upsert
    <3> SUFFICES ASSUME NEW k \in Rows, NEW b \in Buckets
                 PROVE  totals'[k][b] + Again(k, b)'
                          <= (losses' + 1) * CountIn(counted, k, b)'
      BY DEF PaidFor
    <3> HIDE DEF Uncounted
    <3> DEFINE c == CountIn(counted', k, b)
               r == CountIn(counted' \cap ready, k, b)
               h == CountIn(counted' \cap (inbox \cup buffer), k, b)
    <3>1. totals'[k][b] + r + h <= (losses + 1) * c
      BY <2>3, UpsertPays
    <3>2. CountIn(counted' \cap ready', k, b) <= r + CountIn(counted' \cap unacked, k, b)
      <4>1. counted' \cap ready' = (counted' \cap ready) \cup (counted' \cap unacked)
        BY <2>1
      <4> QED
        BY <4>1, CountOfUnion
    <3>3. CountIn(counted' \cap unacked, k, b) <= c
      BY CountIsMonotone
    <3>4. CountIn(counted' \cap Uncounted', k, b) = 0
      <4>1. counted' \cap Uncounted' = {}
        BY <2>1
      <4>2. Of({}, k, b) = {}
        BY DEF Of
      <4>3. CountIn({}, k, b) = 0
        BY <4>2, OfIsFinite, FS_EmptySet
      <4> QED
        BY <4>1, <4>3
    <3>5. Again(k, b)' = CountIn(counted' \cap ready', k, b) + 0
      BY <3>4, NextCounts
    <3>6. /\ totals'[k][b] \in Nat /\ losses \in Nat /\ c \in Nat /\ r \in Nat /\ h \in Nat
          /\ CountIn(counted' \cap ready', k, b) \in Nat
          /\ CountIn(counted' \cap unacked, k, b) \in Nat
      BY <1>t, <2>3, NumbersAre, UpsertStep
    <3>7. CountIn(counted, k, b)' = c
      BY NextCounts
    <3> HIDE DEF c, r, h
    <3>8. (losses' + 1) * c = (losses + 1) * c + c /\ (losses + 1) * c \in Nat
      BY <2>1, <3>6
    <3> QED
      BY <3>1, <3>2, <3>3, <3>5, <3>6, <3>7, <3>8
  <2> QED
    BY <2>1, <2>2, <2>3
<1> QED
  BY <1>3, <1>4, <1>5, <1>6, <1>7, <1>8, <1>9, <1>10, <1>11, <1>12, <1>13, <1>14
     DEF Next, Flush, UpsertFails

\* Nothing is counted at first.
LEMMA InitPaid == Init => LossOK /\ PaidFor
<1> SUFFICES ASSUME Init
             PROVE  LossOK /\ PaidFor
  OBVIOUS
<1>1. LossOK
  BY DEF Init, LossOK
<1>2. ASSUME NEW k \in Rows, NEW b \in Buckets
      PROVE  totals[k][b] + Again(k, b) <= (losses + 1) * CountIn(counted, k, b)
  <2>1. Of({}, k, b) = {}
    BY DEF Of
  <2>2. CountIn({}, k, b) = 0
    BY <2>1, OfIsFinite, FS_EmptySet
  <2>3. counted = {} /\ counted \cap ready = {} /\ counted \cap Uncounted = {}
        /\ totals[k][b] = 0 /\ losses = 0
    BY DEF Init
  <2> QED
    BY <2>2, <2>3 DEF Again
<1> QED
  BY <1>1, <1>2 DEF PaidFor

\* A message is in its total once it was counted, and no more often than once and once
\* more for each lost channel and crash: without a loss, the totals are exact.
THEOREM RepeatsAreLosses == Spec => []TotalsPerLoss
<1>1. IInv /\ TotalsHold /\ PaidFor => TotalsPerLoss
  <2> SUFFICES ASSUME IInv, TotalsHold, PaidFor, NEW k \in Rows, NEW b \in Buckets
               PROVE  totals[k][b] \in
                        CountIn(counted, k, b)..(losses + 1) * CountIn(counted, k, b)
    BY DEF TotalsPerLoss
  <2> DEFINE c == CountIn(counted, k, b)
  <2>1. c <= totals[k][b]
    BY DEF TotalsHold
  <2>2. totals[k][b] + Again(k, b) <= (losses + 1) * c
    BY DEF PaidFor
  <2>3. totals[k][b] \in Nat /\ Again(k, b) \in Nat /\ c \in Nat /\ losses \in Nat
    BY NumbersAre DEF IInv
  <2> HIDE DEF c
  <2>4. (losses + 1) * c \in Nat
    BY <2>3
  <2>5. totals[k][b] \in c..(losses + 1) * c
    BY <2>1, <2>2, <2>3, <2>4
  <2> QED
    BY <2>5 DEF c
<1> QED
  BY AlwaysIInv, InitTotals, TotalsStep, InitPaid, LossStep, PaidStep, <1>1, PTL DEF Spec

-----------------------------------------------------------------------------
(* Refinement. *)

\* One UPSERT stores a group that is still pending.
LEMMA UpsertStores ==
  ASSUME IInv, Upsert, UNCHANGED <<acked, dlq>>,
         ready' \cup unacked' = ready \cup unacked,
         group \subseteq ready \cup unacked
  PROVE  Sink!SinkNext
<1>1. PICK batch : batch = group
  OBVIOUS
<1>2. batch \in SUBSET (ready \cup unacked) /\ batch \cap Unusable = {}
  BY <1>1 DEF IInv, TypeOK, Usable
<1>3. Sink!Store(batch)
  BY <1>1, <1>2 DEF Sink!Store, Upsert
<1> QED
  BY <1>2, <1>3 DEF Sink!SinkNext

\* What a flush works on is pending, whether its channel is still open or not.
LEMMA FlushIsPending == IInv => InFlush \subseteq ready \cup unacked
BY DEF IInv, TypeOK, BrokerTypeOK, BrokerOK, NoneForgotten

\* Every step of the consumer sends, stores, finishes or puts aside one message
\* or batch of AtLeastOnce, or changes nothing it can see.
LEMMA SinkStep == IInv /\ [Next]_vars => [Sink!SinkNext]_(Sink!sink)
<1> SUFFICES ASSUME IInv, [Next]_vars
             PROVE  Sink!SinkNext \/ UNCHANGED Sink!sink
  OBVIOUS
<1> USE ConsumerAssumption DEF IInv, TypeOK, BrokerTypeOK, broker, consumer, table
<1>1. ASSUME NEW m \in Msgs, Arrive(m)
      PROVE  Sink!SinkNext
  <2>1. Sink!Send(m)
    BY <1>1 DEF Arrive, Enqueue, Sink!Send
  <2> QED
    BY <2>1 DEF Sink!SinkNext
<1>2. ASSUME NEW m \in Msgs, Deliver(m)
      PROVE  UNCHANGED Sink!sink
  <2>1. ready' \cup unacked' = ready \cup unacked
    BY <1>2 DEF Deliver, Push
  <2> QED
    BY <1>2, <2>1 DEF Deliver, Push, Sink!sink
<1>3. ASSUME NEW m \in Msgs, Take(m)
      PROVE  Sink!SinkNext \/ UNCHANGED Sink!sink
  <2>1. CASE chan = "open" /\ m \in Garbage
    <3>1. Sink!PutAside(m)
      BY <1>3, <2>1 DEF Take, SettleNack, Sink!PutAside, BrokerOK, NoneForgotten
    <3> QED
      BY <3>1 DEF Sink!SinkNext
  <2>2. CASE m \notin Garbage \/ chan # "open"
    BY <1>3, <2>2 DEF Take, SettleNack, Sink!sink
  <2> QED
    BY <2>1, <2>2
<1>4. CASE Start \/ Tick \/ Notify \/ End \/ EndStuck
  BY <1>4 DEF Start, Tick, Notify, End, EndStuck, Sink!sink
<1>5. ASSUME NEW m \in discard, DiscardOne(m)
      PROVE  Sink!SinkNext \/ UNCHANGED Sink!sink
  <2>1. CASE chan = "open"
    <3>1. m \in Msgs /\ m \in unacked /\ m \notin ready /\ m \in Unusable
      BY <1>5, <2>1 DEF BrokerOK, NoneForgotten, InFlush
    <3>2. Sink!Finish(m)
      BY <1>5, <2>1, <3>1 DEF DiscardOne, SettleAck, Sink!Finish
    <3> QED
      BY <3>1, <3>2 DEF Sink!SinkNext
  <2>2. CASE chan # "open"
    BY <1>5, <2>2 DEF DiscardOne, SettleAck, Sink!sink
  <2> QED
    BY <2>1, <2>2
<1>6. CASE UpsertOk
  BY <1>6, UpsertStores, FlushIsPending DEF UpsertOk, InFlush
<1>7. CASE UpsertFails
  <2>1. CASE Upsert
    BY <1>7, <2>1, UpsertStores, FlushIsPending DEF UpsertFails, InFlush
  <2>2. CASE UNCHANGED table
    BY <1>7, <2>2 DEF UpsertFails, Sink!sink
  <2> QED
    BY <1>7, <2>1, <2>2 DEF UpsertFails
<1>8. ASSUME NEW m \in group, AckOne(m)
      PROVE  Sink!SinkNext \/ UNCHANGED Sink!sink
  <2>1. CASE chan = "open"
    <3>1. m \in Msgs /\ m \in unacked /\ m \notin ready /\ m \in counted
      BY <1>8, <2>1 DEF AckOne, PhaseOK, BrokerOK, NoneForgotten, InFlush, Usable
    <3>2. Sink!Finish(m)
      BY <1>8, <2>1, <3>1 DEF AckOne, SettleAck, NextDelivery, Sink!Finish
    <3> QED
      BY <3>1, <3>2 DEF Sink!SinkNext
  <2>2. CASE chan # "open"
    BY <1>8, <2>2 DEF AckOne, SettleAck, NextDelivery, Sink!sink
  <2> QED
    BY <2>1, <2>2
<1>9. ASSUME NEW m \in group, NackOne(m)
      PROVE  Sink!SinkNext \/ UNCHANGED Sink!sink
  <2>1. CASE chan = "open"
    <3>1. m \in Msgs /\ m \in unacked /\ m \notin ready /\ m \notin Unusable
      BY <1>9, <2>1 DEF BrokerOK, NoneForgotten, InFlush, Usable
    <3>2. Sink!PutAside(m)
      BY <1>9, <2>1, <3>1 DEF NackOne, SettleNack, NextDelivery, Sink!PutAside
    <3> QED
      BY <3>1, <3>2 DEF Sink!SinkNext
  <2>2. CASE chan # "open"
    BY <1>9, <2>2 DEF NackOne, SettleNack, NextDelivery, Sink!sink
  <2> QED
    BY <2>1, <2>2
<1>10. CASE ChannelLost
  BY <1>10 DEF ChannelLost, Requeue, Sink!sink
<1>11. CASE Crash
  <2>1. ready' \cup unacked' = ready \cup unacked
    BY <1>11 DEF Crash, Die, Requeue
  <2>2. CASE Upsert
    BY <1>11, <2>1, <2>2, UpsertStores, FlushIsPending DEF Crash, Die, Requeue, InFlush
  <2>3. CASE UNCHANGED table
    BY <1>11, <2>1, <2>3 DEF Crash, Die, Requeue, Sink!sink
  <2> QED
    BY <1>11, <2>2, <2>3 DEF Crash
<1>12. CASE Panic
  BY <1>12 DEF Panic, Die, Requeue, Sink!sink
<1>13. CASE UNCHANGED vars
  BY <1>13 DEF vars, Sink!sink
<1> QED
  BY <1>1, <1>2, <1>3, <1>4, <1>5, <1>6, <1>7, <1>8, <1>9, <1>10, <1>11, <1>12, <1>13
     DEF Next, Flush

\* The PostgreSQL consumer and its queue implement AtLeastOnce under every fault:
\* nothing is dropped and nothing settled comes back.
THEOREM ConsumerIsSafe == Spec => SinkSafe
<1>1. Init => Sink!SinkInit
  BY DEF Init, BrokerInit, Sink!SinkInit
<1> QED
  BY AlwaysIInv, SinkStep, <1>1, PTL DEF Spec, SinkSafe, Sink!SinkSpec
=============================================================================
