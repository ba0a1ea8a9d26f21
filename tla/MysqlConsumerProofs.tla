------------------------ MODULE MysqlConsumerProofs -------------------------
(***************************************************************************)
(* The MySQL consumer loses nothing, for any messages, tables and batch     *)
(* size and under every fault, and it implements AtLeastOnce.               *)
(***************************************************************************)
EXTENDS MysqlConsumer, TLAPS

\* What run holds at each await: a flush is over when its loop is, and only what
\* was written is acknowledged.
PhaseOK ==
  /\ phase = "down" => inbox = {} /\ buffer = {} /\ chan = "closed"
  /\ phase \in {"down", "loop"} => groups = {} /\ group = {}
  /\ phase = "flush" => group = {}
  /\ phase = "ack" => \A m \in group : stored[m] > 0

\* A message is in one place at the broker, and what the consumer still holds
\* from a closed channel is queued again.
BrokerOK ==
  /\ ready \cap unacked = {}
  /\ chan = "closed" => unacked = {} /\ inbox \cup buffer \cup InFlush \subseteq ready

IInv == TypeOK /\ PhaseOK /\ BrokerOK /\ NoneForgotten /\ StagesDisjoint /\ AckedIsStored

\* Nothing is queued when the consumer starts for the first time.
LEMMA InitIInv == Init => IInv
BY DEF Init, IInv, TypeOK, PhaseOK, BrokerOK, NoneForgotten, StagesDisjoint,
       AckedIsStored, InFlush, Phases, BrokerTypeOK, BrokerInit

\* A row that was written stays written.
LEMMA InsertStep ==
  ASSUME TypeOK, Insert
  PROVE  /\ stored' \in [Routable -> Nat]
         /\ \A m \in Routable : stored[m] > 0 => stored'[m] > 0
         /\ \A m \in group : stored'[m] > 0
BY DEF TypeOK, Insert

\* Every step of the broker, of the consumer and every fault keeps the
\* invariant.
LEMMA Step == IInv /\ [Next]_vars => IInv'
<1> SUFFICES ASSUME IInv, [Next]_vars
             PROVE  IInv'
  OBVIOUS
<1> USE ConsumerAssumption
        DEF IInv, TypeOK, PhaseOK, BrokerOK, NoneForgotten, StagesDisjoint,
            AckedIsStored, InFlush, Phases, broker, consumer, BrokerTypeOK
<1>1. ASSUME NEW m \in Msgs, Arrive(m)
      PROVE  IInv'
  BY <1>1 DEF Arrive, Enqueue
<1>2. ASSUME NEW m \in Msgs, Deliver(m)
      PROVE  IInv'
  BY <1>2 DEF Deliver, Push
<1>3. ASSUME NEW m \in Msgs, Take(m)
      PROVE  IInv'
  <2>1. CASE m \in Garbage
    BY <1>3, <2>1 DEF Take, SettleNack, Buffer, StartFlush, Routable
  <2>2. CASE m \in Unroutable
    BY <1>3, <2>2 DEF Take, SettleAck, Buffer, StartFlush, Routable
  <2>3. CASE m \in Routable
    BY <1>3, <2>3 DEF Take, Buffer, StartFlush, Routable
  <2> QED
    BY <2>1, <2>2, <2>3 DEF Routable
<1>4. CASE Start
  BY <1>4 DEF Start
<1>5. CASE Tick
  BY <1>5 DEF Tick, StartFlush
<1>6. ASSUME NEW t \in Tables, NextGroup(t)
      PROVE  IInv'
  BY <1>6 DEF NextGroup
<1>7. CASE InsertOk
  BY <1>7, InsertStep DEF InsertOk
<1>8. CASE InsertFails
  BY <1>8, InsertStep DEF InsertFails
<1>9. CASE Notify
  BY <1>9 DEF Notify
<1>10. ASSUME NEW m \in group, AckOne(m)
       PROVE  IInv'
  <2>1. m \in Routable /\ stored[m] > 0 /\ phase = "ack"
    BY <1>10 DEF AckOne
  <2>2. CASE chan = "open"
    BY <1>10, <2>1, <2>2 DEF AckOne, SettleAck, NextDelivery, Routable
  <2>3. CASE chan = "closed"
    BY <1>10, <2>1, <2>3 DEF AckOne, SettleAck, NextDelivery, Routable
  <2> QED
    BY <2>2, <2>3
<1>11. ASSUME NEW m \in group, NackOne(m)
       PROVE  IInv'
  <2>1. CASE chan = "open"
    BY <1>11, <2>1 DEF NackOne, SettleNack, NextDelivery, Routable
  <2>2. CASE chan = "closed"
    BY <1>11, <2>2 DEF NackOne, SettleNack, NextDelivery, Routable
  <2> QED
    BY <2>1, <2>2
<1>12. CASE End \/ EndStuck
  BY <1>12 DEF End, EndStuck
<1>13. CASE ChannelLost
  BY <1>13 DEF ChannelLost, Requeue
<1>14. CASE Crash
  BY <1>14, InsertStep DEF Crash, Die, Requeue
<1>15. ASSUME NEW m \in Msgs, Panic(m)
       PROVE  IInv'
  BY <1>15 DEF Panic, Die, Requeue
<1>16. CASE UNCHANGED vars
  BY <1>16 DEF vars
<1> QED
  BY <1>1, <1>2, <1>3, <1>4, <1>5, <1>6, <1>7, <1>8, <1>9, <1>10, <1>11, <1>12,
     <1>13, <1>14, <1>15, <1>16 DEF Next, Flush

\* The invariant holds in every reachable state.
LEMMA AlwaysIInv == Spec => []IInv
BY InitIInv, Step, PTL DEF Spec

\* The consumer's state is always well-typed.
THEOREM TypeCorrect == Spec => []TypeOK
<1>1. IInv => TypeOK
  BY DEF IInv
<1> QED
  BY AlwaysIInv, <1>1, PTL

\* No delivery of the open channel is forgotten by the consumer.
THEOREM DeliveriesAreKept == Spec => []NoneForgotten
<1>1. IInv => NoneForgotten
  BY DEF IInv
<1> QED
  BY AlwaysIInv, <1>1, PTL

\* An event with a table leaves the queue by an acknowledgement only when it is
\* in the database, whatever fails and whenever.
THEOREM AckedEventsAreStored == Spec => []AckedIsStored
<1>1. IInv => AckedIsStored
  BY DEF IInv
<1> QED
  BY AlwaysIInv, <1>1, PTL

\* mysql.rs, flush: an INSERT has rows, all of one table, and no other INSERT of
\* the flush writes to that table; the flush goes on as long as a delivery of its batch
\* is not settled, and no longer.
FlushHasWork ==
  /\ phase \in {"insert", "notify", "ack", "nack"} => group # {}
  /\ phase = "flush" => groups # {} /\ group = {}
  /\ phase = "loop" => InFlush = {}
  /\ \A m \in group : /\ \A n \in group : TableOf[n] = TableOf[m]
                      /\ \A n \in groups : TableOf[n] # TableOf[m]

\* Every step that takes messages into a flush, or one of them out of it, moves the
\* flush on when there is nothing left for its phase.
LEMMA WorkStep == IInv /\ FlushHasWork /\ [Next]_vars => FlushHasWork'
<1> SUFFICES ASSUME IInv, FlushHasWork, [Next]_vars
             PROVE  FlushHasWork'
  OBVIOUS
<1> USE DEF FlushHasWork, InFlush, consumer
<1>1. ASSUME phase' = "loop" \/ phase' = "down" \/ phase' = "stuck",
             groups' = {}, group' = {}
      PROVE  FlushHasWork'
  BY <1>1
<1>2. ASSUME UNCHANGED <<phase, groups, group>>
      PROVE  FlushHasWork'
  BY <1>2
<1>3. ASSUME NEW m \in Msgs, Arrive(m) \/ Deliver(m)
      PROVE  FlushHasWork'
  BY <1>2, <1>3 DEF Arrive, Deliver
<1>4. ASSUME NEW m \in Msgs, Take(m)
      PROVE  FlushHasWork'
  BY <1>4 DEF Take, Buffer, StartFlush
<1>5. CASE Start
  BY <1>5 DEF Start, IInv, PhaseOK
<1>6. CASE Tick
  BY <1>6 DEF Tick, StartFlush
<1>7. ASSUME NEW t \in Tables, NextGroup(t)
      PROVE  FlushHasWork'
  BY <1>7 DEF NextGroup
<1>8. CASE InsertOk \/ InsertFails \/ Notify
  BY <1>8 DEF InsertOk, InsertFails, Notify
<1>9. ASSUME NEW m \in group, AckOne(m) \/ NackOne(m)
      PROVE  FlushHasWork'
  BY <1>9 DEF AckOne, NackOne, NextDelivery
<1>10. CASE End \/ EndStuck
  BY <1>10 DEF End, EndStuck
<1>11. CASE ChannelLost
  BY <1>2, <1>11 DEF ChannelLost
<1>12. CASE Crash
  BY <1>1, <1>12 DEF Crash, Die
<1>13. ASSUME NEW m \in Msgs, Panic(m)
       PROVE  FlushHasWork'
  BY <1>1, <1>13 DEF Panic, Die
<1>14. CASE UNCHANGED vars
  BY <1>2, <1>14 DEF vars
<1> QED
  BY <1>3, <1>4, <1>5, <1>6, <1>7, <1>8, <1>9, <1>10, <1>11, <1>12, <1>13, <1>14
     DEF Next, Flush

\* No INSERT is sent without rows or for two tables, and no flush waits for nothing
\* or leaves a delivery of its batch unsettled.
THEOREM FlushesDoTheirWork == Spec => []FlushHasWork
<1>1. Init => FlushHasWork
  BY DEF Init, FlushHasWork
<1> QED
  BY AlwaysIInv, <1>1, WorkStep, PTL DEF Spec

\* No delivery is in two stages of the consumer at once: it cannot be written by
\* two flushes, nor settled twice.
THEOREM StagesAreDisjoint == Spec => []StagesDisjoint
<1>1. IInv => StagesDisjoint
  BY DEF IInv
<1> QED
  BY AlwaysIInv, <1>1, PTL

-----------------------------------------------------------------------------
(* Repeated rows. *)

\* What the running consumer holds and has yet to write.
Unwritten == inbox \cup buffer \cup groups \cup (IF phase = "insert" THEN group ELSE {})

\* An INSERT that may still come must be paid for: a message at the broker, or held
\* for it, has no more rows than there were losses, and one that is held from a
\* closed channel, and will be delivered again, one less.
RowInv ==
  \A m \in Routable :
    /\ stored[m] <= losses + 1
    /\ m \in ready \cup Unwritten => stored[m] <= losses
    /\ chan = "closed" /\ m \in Unwritten => stored[m] + 1 <= losses
    /\ m \notin ready \cup unacked \cup acked \cup dlq => stored[m] = 0

\* Nothing is stored at first.
LEMMA InitRowInv == Init => RowInv
BY DEF Init, RowInv, BrokerInit, Unwritten

\* Every INSERT adds one row at most, and every way back to the broker is a loss.
LEMMA RowStep == IInv /\ RowInv /\ [Next]_vars => RowInv'
<1> SUFFICES ASSUME IInv, RowInv, [Next]_vars
             PROVE  RowInv'
  OBVIOUS
<1> USE DEF IInv, TypeOK, PhaseOK, BrokerOK, NoneForgotten, StagesDisjoint, InFlush,
            RowInv, Unwritten, broker, consumer, BrokerTypeOK
<1>1. ASSUME NEW m \in Msgs, Arrive(m)
      PROVE  RowInv'
  BY <1>1 DEF Arrive, Enqueue
<1>2. ASSUME NEW m \in Msgs, Deliver(m)
      PROVE  RowInv'
  BY <1>2 DEF Deliver, Push
<1>3. ASSUME NEW m \in Msgs, Take(m)
      PROVE  RowInv'
  <2>1. CASE m \in Garbage
    BY <1>3, <2>1, ConsumerAssumption DEF Take, SettleNack, Buffer, StartFlush, Routable
  <2>2. CASE m \in Unroutable
    BY <1>3, <2>2, ConsumerAssumption DEF Take, SettleAck, Buffer, StartFlush, Routable
  <2>3. CASE m \in Routable
    BY <1>3, <2>3 DEF Take, Buffer, StartFlush, Routable
  <2> QED
    BY <2>1, <2>2, <2>3 DEF Routable
<1>4. CASE Start
  BY <1>4 DEF Start
<1>5. CASE Tick
  BY <1>5 DEF Tick, StartFlush
<1>6. ASSUME NEW t \in Tables, NextGroup(t)
      PROVE  RowInv'
  BY <1>6 DEF NextGroup
<1>7. CASE InsertOk
  BY <1>7 DEF InsertOk, Insert
<1>8. CASE InsertFails
  <2>1. CASE Insert
    BY <1>8, <2>1 DEF InsertFails, Insert
  <2>2. CASE UNCHANGED stored
    BY <1>8, <2>2 DEF InsertFails
  <2> QED
    BY <1>8, <2>1, <2>2 DEF InsertFails
<1>9. CASE Notify
  BY <1>9 DEF Notify
<1>10. ASSUME NEW m \in group, AckOne(m) \/ NackOne(m)
       PROVE  RowInv'
  <2>1. CASE chan = "open"
    BY <1>10, <2>1 DEF AckOne, NackOne, SettleAck, SettleNack, NextDelivery
  <2>2. CASE chan = "closed"
    BY <1>10, <2>2 DEF AckOne, NackOne, SettleAck, SettleNack, NextDelivery
  <2> QED
    BY <2>1, <2>2
<1>11. CASE End \/ EndStuck
  BY <1>11 DEF End, EndStuck
<1>12. CASE ChannelLost
  BY <1>12 DEF ChannelLost, Requeue
<1>13. CASE Crash
  <2>1. CASE UNCHANGED stored
    BY <1>13, <2>1 DEF Crash, Die, Requeue
  <2>2. CASE phase = "insert" /\ Insert
    BY <1>13, <2>2 DEF Crash, Die, Requeue, Insert
  <2> QED
    BY <1>13, <2>1, <2>2 DEF Crash
<1>14. ASSUME NEW m \in Msgs, Panic(m)
       PROVE  RowInv'
  BY <1>14 DEF Panic, Die, Requeue
<1>15. CASE UNCHANGED vars
  BY <1>15 DEF vars
<1> QED
  BY <1>1, <1>2, <1>3, <1>4, <1>5, <1>6, <1>7, <1>8, <1>9, <1>10, <1>11, <1>12,
     <1>13, <1>14, <1>15 DEF Next, Flush

\* An event has at most one row more than there were lost channels and crashes:
\* without any, its row is stored once.
THEOREM RepeatsAreLosses == Spec => []RowsPerLoss
<1>1. RowInv => RowsPerLoss
  BY DEF RowInv, RowsPerLoss
<1> QED
  BY AlwaysIInv, InitRowInv, RowStep, <1>1, PTL DEF Spec

-----------------------------------------------------------------------------
(* Refinement. *)

\* The rows of the database, as AtLeastOnce sees them.
Kept == {m \in Routable : stored[m] > 0}

\* One INSERT stores a group that is still pending.
LEMMA InsertStores ==
  ASSUME IInv, Insert, UNCHANGED <<acked, dlq>>,
         ready' \cup unacked' = ready \cup unacked,
         group \subseteq ready \cup unacked
  PROVE  Sink!SinkNext
<1>1. PICK batch : batch = group
  OBVIOUS
<1>2. Kept' = Kept \cup batch
  BY <1>1 DEF Insert, Kept, IInv, TypeOK
<1>3. batch \in SUBSET (ready \cup unacked) /\ batch \cap Unroutable = {}
  BY <1>1 DEF IInv, TypeOK, Routable
<1>4. Sink!Store(batch)
  BY <1>2, <1>3 DEF Sink!Store, Kept
<1> QED
  BY <1>3, <1>4 DEF Sink!SinkNext

\* What a flush works on is pending, whether its channel is still open or not.
LEMMA FlushIsPending == IInv => InFlush \subseteq ready \cup unacked
BY DEF IInv, TypeOK, BrokerTypeOK, BrokerOK, NoneForgotten

\* Every step of the consumer sends, stores, finishes or puts aside one message
\* or batch of AtLeastOnce, or changes nothing it can see.
LEMMA SinkStep == IInv /\ [Next]_vars => [Sink!SinkNext]_(Sink!sink)
<1> SUFFICES ASSUME IInv, [Next]_vars
             PROVE  Sink!SinkNext \/ UNCHANGED Sink!sink
  OBVIOUS
<1> USE ConsumerAssumption DEF IInv, TypeOK, BrokerTypeOK, broker, consumer
<1>1. ASSUME NEW m \in Msgs, Arrive(m)
      PROVE  Sink!SinkNext
  <2>1. Sink!Send(m)
    BY <1>1 DEF Arrive, Enqueue, Sink!Send
  <2> QED
    BY <2>1 DEF Sink!SinkNext
<1>2. ASSUME NEW m \in Msgs, Deliver(m)
      PROVE  UNCHANGED Sink!sink
  <2>1. ready' \cup unacked' = ready \cup unacked
    BY <1>2 DEF Deliver, Push
  <2> QED
    BY <1>2, <2>1 DEF Deliver, Push, Sink!sink
<1>3. ASSUME NEW m \in Msgs, Take(m)
      PROVE  Sink!SinkNext \/ UNCHANGED Sink!sink
  <2>1. CASE chan = "open" /\ m \in Garbage
    <3>1. Sink!PutAside(m)
      BY <1>3, <2>1 DEF Take, SettleNack, Sink!PutAside, BrokerOK, NoneForgotten
    <3> QED
      BY <3>1 DEF Sink!SinkNext
  <2>2. CASE chan = "open" /\ m \in Unroutable
    <3>1. Sink!Finish(m)
      BY <1>3, <2>2 DEF Take, SettleAck, Sink!Finish, BrokerOK, NoneForgotten
    <3> QED
      BY <3>1 DEF Sink!SinkNext
  <2>3. CASE m \in Routable \/ chan # "open"
    BY <1>3, <2>3 DEF Take, SettleAck, SettleNack, Routable, Sink!sink
  <2> QED
    BY <2>1, <2>2, <2>3 DEF Routable
<1>4. CASE Start \/ Tick \/ Notify \/ End \/ EndStuck
  BY <1>4 DEF Start, Tick, Notify, End, EndStuck, Sink!sink
<1>5. ASSUME NEW t \in Tables, NextGroup(t)
      PROVE  UNCHANGED Sink!sink
  BY <1>5 DEF NextGroup, Sink!sink
<1>6. CASE InsertOk
  BY <1>6, InsertStores, FlushIsPending DEF InsertOk, InFlush
<1>7. CASE InsertFails
  <2>1. CASE Insert
    BY <1>7, <2>1, InsertStores, FlushIsPending DEF InsertFails, InFlush
  <2>2. CASE UNCHANGED stored
    BY <1>7, <2>2 DEF InsertFails, Sink!sink
  <2> QED
    BY <1>7, <2>1, <2>2 DEF InsertFails
<1>8. ASSUME NEW m \in group, AckOne(m)
      PROVE  Sink!SinkNext \/ UNCHANGED Sink!sink
  <2>1. CASE chan = "open"
    <3>1. m \in Msgs /\ m \in unacked /\ m \notin ready /\ stored[m] > 0
      BY <1>8, <2>1 DEF AckOne, PhaseOK, BrokerOK, NoneForgotten, InFlush, Routable
    <3>2. Sink!Finish(m)
      BY <1>8, <2>1, <3>1 DEF AckOne, SettleAck, NextDelivery, Sink!Finish
    <3> QED
      BY <3>1, <3>2 DEF Sink!SinkNext
  <2>2. CASE chan # "open"
    BY <1>8, <2>2 DEF AckOne, SettleAck, NextDelivery, Sink!sink
  <2> QED
    BY <2>1, <2>2
<1>9. ASSUME NEW m \in group, NackOne(m)
      PROVE  Sink!SinkNext \/ UNCHANGED Sink!sink
  <2>1. CASE chan = "open"
    <3>1. m \in Msgs /\ m \in unacked /\ m \notin ready /\ m \notin Unroutable
      BY <1>9, <2>1 DEF BrokerOK, NoneForgotten, InFlush, Routable
    <3>2. Sink!PutAside(m)
      BY <1>9, <2>1, <3>1 DEF NackOne, SettleNack, NextDelivery, Sink!PutAside
    <3> QED
      BY <3>1, <3>2 DEF Sink!SinkNext
  <2>2. CASE chan # "open"
    BY <1>9, <2>2 DEF NackOne, SettleNack, NextDelivery, Sink!sink
  <2> QED
    BY <2>1, <2>2
<1>10. CASE ChannelLost
  BY <1>10 DEF ChannelLost, Requeue, Sink!sink
<1>11. CASE Crash
  <2>1. ready' \cup unacked' = ready \cup unacked
    BY <1>11 DEF Crash, Die, Requeue
  <2>2. CASE Insert
    BY <1>11, <2>1, <2>2, InsertStores, FlushIsPending DEF Crash, Die, Requeue, InFlush
  <2>3. CASE UNCHANGED stored
    BY <1>11, <2>1, <2>3 DEF Crash, Die, Requeue, Sink!sink
  <2> QED
    BY <1>11, <2>2, <2>3 DEF Crash
<1>12. ASSUME NEW m \in Msgs, Panic(m)
       PROVE  UNCHANGED Sink!sink
  <2>1. ready' \cup unacked' = ready \cup unacked
    BY <1>12 DEF Panic, Die, Requeue
  <2> QED
    BY <1>12, <2>1 DEF Panic, Die, Requeue, Sink!sink
<1>13. CASE UNCHANGED vars
  BY <1>13 DEF vars, Sink!sink
<1> QED
  BY <1>1, <1>2, <1>3, <1>4, <1>5, <1>6, <1>7, <1>8, <1>9, <1>10, <1>11, <1>12, <1>13
     DEF Next, Flush

\* The MySQL consumer and its queue implement AtLeastOnce under every fault:
\* nothing is dropped and nothing settled comes back.
THEOREM ConsumerIsSafe == Spec => SinkSafe
<1>1. Init => Sink!SinkInit
  BY DEF Init, BrokerInit, Sink!SinkInit
<1> QED
  BY AlwaysIInv, SinkStep, <1>1, PTL DEF Spec, SinkSafe, Sink!SinkSpec
=============================================================================
