---------------------------- MODULE IngestProofs ----------------------------
(***************************************************************************)
(* Safety of the receiver for any number of ids, handlers and expiries.    *)
(***************************************************************************)
EXTENDS Ingest, TLAPS

-----------------------------------------------------------------------------
(* One carrier per claim. *)

\* A claim that some SET NX may have given out: its window is over, or its key
\* is still there.
Issued(c) ==
  \/ c.window < expired[c.id]
  \/ c.window = expired[c.id] /\ c.id \in keys

\* Idle handlers hold nothing.
AtRest == \A s \in Slots : at[s] = "idle" => task[s] = NoTask

\* No claim is used before it was given out; with this, a fresh claim differs
\* from every claim in use.
UsedIsIssued ==
  /\ \A s \in Slots : at[s] \in Claimed => Issued(task[s])
  /\ \A c \in wire \cup queued : Issued(c)

IInv == TypeOK /\ AtRest /\ UsedIsIssued /\ OneCarrier

\* Nothing is claimed, published or queued when the receiver starts.
LEMMA InitIInv == Init => IInv
BY IngestAssumption
   DEF Init, IInv, TypeOK, AtRest, UsedIsIssued, OneCarrier, Issued, Points,
       Claim, Claimed, NoTask

\* Every step of a handler, of the broker, of Redis and every fault keeps the
\* state well-typed.
LEMMA TypeStep == TypeOK /\ AtRest /\ [Next]_vars => TypeOK' /\ AtRest'
<1> SUFFICES ASSUME TypeOK, AtRest, [Next]_vars
             PROVE  TypeOK' /\ AtRest'
  OBVIOUS
<1> USE IngestAssumption DEF TypeOK, AtRest, Points, NoTask
<1>1. ASSUME NEW s \in Slots, NEW i \in Ids, Receive(s, i)
      PROVE  TypeOK' /\ AtRest'
  BY <1>1 DEF Receive
<1>2. ASSUME NEW s \in Slots, Refuse(s)
      PROVE  TypeOK' /\ AtRest'
  BY <1>2 DEF Refuse, Answer, Status
<1>3. ASSUME NEW s \in Slots, Handler(s)
      PROVE  TypeOK' /\ AtRest'
  <2>1. CASE ClaimId(s)
    BY <2>1 DEF ClaimId
  <2>2. CASE Duplicate(s)
    BY <2>2 DEF Duplicate, Answer, Status
  <2>3. CASE DedupFails(s)
    BY <2>3 DEF DedupFails, Answer, Status
  <2>4. CASE Publish(s)
    BY <2>4 DEF Publish, Claim
  <2>5. CASE PublishFails(s)
    BY <2>5 DEF PublishFails, Answer, Status
  <2>6. CASE PublishOk(s)
    BY <2>6 DEF PublishOk, Answer, Status
  <2> QED
    BY <1>3, <2>1, <2>2, <2>3, <2>4, <2>5, <2>6 DEF Handler
<1>4. ASSUME NEW s \in Slots, Cancel(s)
      PROVE  TypeOK' /\ AtRest'
  BY <1>4 DEF Cancel
<1>5. ASSUME NEW c \in wire, Broker(c)
      PROVE  TypeOK' /\ AtRest'
  BY <1>5 DEF Broker, BrokerAcks, BrokerNacks, Resolve
<1>6. ASSUME NEW i \in Ids, Expire(i)
      PROVE  TypeOK' /\ AtRest'
  BY <1>6 DEF Expire
<1>7. CASE ConnectionLost
  BY <1>7 DEF ConnectionLost
<1>8. CASE Crash
  <2>1. PICK set \in SUBSET {task[s].id : s \in {t \in Slots : at[t] = "dedup"}} :
          keys' = keys \cup set
    BY <1>8 DEF Crash
  <2>2. keys' \subseteq Ids
    <3>1. \A i \in set : i \in Ids
      OBVIOUS
    <3> QED
      BY <2>1, <3>1
  <2> QED
    BY <1>8, <2>2 DEF Crash
<1>9. CASE Restart
  BY <1>9 DEF Restart
<1>10. CASE UNCHANGED vars
  BY <1>10 DEF vars
<1> QED
  BY <1>1, <1>2, <1>3, <1>4, <1>5, <1>6, <1>7, <1>8, <1>9, <1>10 DEF Next

\* A claim once given out stays given out, and a new one is given out only by
\* the handler that claims it.
LEMMA CarrierStep ==
  IInv /\ TypeOK' /\ [Next]_vars => UsedIsIssued' /\ OneCarrier'
<1> SUFFICES ASSUME IInv, TypeOK', [Next]_vars
             PROVE  UsedIsIssued' /\ OneCarrier'
  OBVIOUS
<1> USE IngestAssumption DEF IInv, TypeOK, AtRest, UsedIsIssued, OneCarrier,
                             Issued, Claimed, Points, NoTask
<1>1. ASSUME NEW s \in Slots, NEW i \in Ids, Receive(s, i)
      PROVE  UsedIsIssued' /\ OneCarrier'
  BY <1>1 DEF Receive
<1>2. ASSUME NEW s \in Slots, Refuse(s)
      PROVE  UsedIsIssued' /\ OneCarrier'
  BY <1>2 DEF Refuse, Answer
<1>3. ASSUME NEW s \in Slots, Handler(s)
      PROVE  UsedIsIssued' /\ OneCarrier'
  <2>1. CASE ClaimId(s)
    <3> DEFINE c == [id |-> task[s].id, window |-> expired[task[s].id]]
    <3>1. task[s].id \in Ids /\ task[s].id \notin keys /\ at[s] = "dedup"
      BY <2>1 DEF ClaimId
    <3>2. task' = [task EXCEPT ![s] = c]
      <4>1. \A r \in [id : Ids \cup {NoId}, window : Nat], w \in Nat :
              [r EXCEPT !.window = w] = [id |-> r.id, window |-> w]
        OBVIOUS
      <4>2. [task[s] EXCEPT !.window = expired[task[s].id]] = c
        BY <3>1, <4>1
      <4>3. task' = [task EXCEPT ![s] = [task[s] EXCEPT !.window = expired[task[s].id]]]
        BY <2>1 DEF ClaimId
      <4> QED
        BY <4>2, <4>3
    <3>3. ~Issued(c) /\ c.id \in Ids /\ Issued(c)'
      BY <2>1, <3>1 DEF ClaimId
    <3>4. \A t \in Slots : at[t] \in Claimed => task[t] # c
      BY <3>3
    <3>5. c \notin wire \cup queued
      BY <3>3
    <3>6. UsedIsIssued'
      <4>1. \A d : Issued(d) => Issued(d)'
        BY <2>1 DEF ClaimId
      <4>2. \A t \in Slots : (at[t] \in Claimed => Issued(task[t]))'
        BY <2>1, <3>2, <3>3, <4>1 DEF ClaimId
      <4> QED
        BY <2>1, <4>1, <4>2 DEF ClaimId
    <3>7. OneCarrier'
      BY <2>1, <3>2, <3>4, <3>5 DEF ClaimId
    <3> QED
      BY <3>6, <3>7
  <2>2. CASE Duplicate(s)
    BY <2>2 DEF Duplicate, Answer
  <2>3. CASE DedupFails(s)
    BY <2>3 DEF DedupFails, Answer
  <2>4. CASE Publish(s)
    BY <2>4 DEF Publish
  <2>5. CASE PublishFails(s)
    BY <2>5 DEF PublishFails, Answer
  <2>6. CASE PublishOk(s)
    BY <2>6 DEF PublishOk, Answer
  <2> QED
    BY <1>3, <2>1, <2>2, <2>3, <2>4, <2>5, <2>6 DEF Handler
<1>4. ASSUME NEW s \in Slots, Cancel(s)
      PROVE  UsedIsIssued' /\ OneCarrier'
  BY <1>4 DEF Cancel
<1>5. ASSUME NEW c \in wire, Broker(c)
      PROVE  UsedIsIssued' /\ OneCarrier'
  BY <1>5 DEF Broker, BrokerAcks, BrokerNacks, Resolve
<1>6. ASSUME NEW i \in Ids, Expire(i)
      PROVE  UsedIsIssued' /\ OneCarrier'
  <2>1. \A c \in Claim : Issued(c) => Issued(c)'
    BY <1>6 DEF Expire, Claim
  <2>2. \A s \in Slots : at[s] \in Claimed => task[s] \in Claim
    BY DEF Claim
  <2>3. UsedIsIssued'
    BY <1>6, <2>1, <2>2 DEF Expire
  <2>4. OneCarrier'
    BY <1>6 DEF Expire
  <2> QED
    BY <2>3, <2>4
<1>7. CASE ConnectionLost
  BY <1>7 DEF ConnectionLost
<1>8. CASE Crash
  BY <1>8 DEF Crash
<1>9. CASE Restart
  BY <1>9 DEF Restart
<1>10. CASE UNCHANGED vars
  BY <1>10 DEF vars
<1> QED
  BY <1>1, <1>2, <1>3, <1>4, <1>5, <1>6, <1>7, <1>8, <1>9, <1>10 DEF Next

\* The strengthened invariant holds in every reachable state.
LEMMA AlwaysIInv == Spec => []IInv
<1>1. IInv /\ [Next]_vars => IInv'
  BY TypeStep, CarrierStep DEF IInv
<1> QED
  BY InitIInv, <1>1, PTL DEF Spec

\* The receiver's state is always well-typed.
THEOREM TypeCorrect == Spec => []TypeOK
<1>1. IInv => TypeOK
  BY DEF IInv
<1> QED
  BY AlwaysIInv, <1>1, PTL

\* Whatever faults are possible, a claim of the duplicate filter is carried by
\* one handler, one message in flight or one queued message.
THEOREM ClaimsAreUnique == Spec => []OneCarrier
<1>1. IInv => OneCarrier
  BY DEF IInv
<1> QED
  BY AlwaysIInv, <1>1, PTL

\* What may go wrong is settled at the start of a behaviour.
LEMMA FaultsAreFixed == [Next]_vars => faults' = faults
BY DEF Next, vars, Receive, Refuse, Handler, ClaimId, Duplicate, DedupFails,
       Publish, PublishFails, PublishOk, Cancel, Broker, BrokerAcks, BrokerNacks,
       Expire, ConnectionLost, Crash, Restart

-----------------------------------------------------------------------------
(* What a 202 means. *)

\* A confirm that came back positive stands for a queued message.
AckIsQueued ==
  /\ \A s \in Slots : at[s] # "nacked" /\ (at[s] = "acked" => task[s] \in queued)
  /\ EveryAcceptIsQueued

\* If the broker never refuses a message, every positive confirm and every 202
\* that a handler passes on stands for a message in the queues.
LEMMA AckStep ==
  ASSUME TypeOK, AtRest, "nack" \notin faults, AckIsQueued, [Next]_vars
  PROVE  AckIsQueued'
<1> USE IngestAssumption DEF TypeOK, AtRest, AckIsQueued, EveryAcceptIsQueued,
                             Queued, Points, NoTask
<1>1. ASSUME NEW s \in Slots, NEW i \in Ids, Receive(s, i)
      PROVE  AckIsQueued'
  BY <1>1 DEF Receive
<1>2. ASSUME NEW s \in Slots, Refuse(s)
      PROVE  AckIsQueued'
  BY <1>2 DEF Refuse, Answer
<1>3. ASSUME NEW s \in Slots, Handler(s)
      PROVE  AckIsQueued'
  <2>1. CASE ClaimId(s)
    BY <2>1 DEF ClaimId
  <2>2. CASE Duplicate(s)
    BY <2>2 DEF Duplicate, Answer
  <2>3. CASE DedupFails(s)
    BY <2>3 DEF DedupFails, Answer
  <2>4. CASE Publish(s)
    BY <2>4 DEF Publish
  <2>5. CASE PublishFails(s)
    BY <2>5 DEF PublishFails, Answer
  <2>6. CASE PublishOk(s)
    <3>1. task[s] \in queued /\ Queued(task[s].id)
      BY <2>6 DEF PublishOk
    <3> QED
      BY <2>6, <3>1 DEF PublishOk, Answer
  <2> QED
    BY <1>3, <2>1, <2>2, <2>3, <2>4, <2>5, <2>6 DEF Handler
<1>4. ASSUME NEW s \in Slots, Cancel(s)
      PROVE  AckIsQueued'
  BY <1>4 DEF Cancel
<1>5. ASSUME NEW c \in wire, Broker(c)
      PROVE  AckIsQueued'
  BY <1>5 DEF Broker, BrokerAcks, BrokerNacks, Resolve
<1>6. ASSUME NEW i \in Ids, Expire(i)
      PROVE  AckIsQueued'
  BY <1>6 DEF Expire
<1>7. CASE ConnectionLost
  BY <1>7 DEF ConnectionLost
<1>8. CASE Crash
  BY <1>8 DEF Crash
<1>9. CASE Restart
  BY <1>9 DEF Restart
<1>10. CASE UNCHANGED vars
  BY <1>10 DEF vars
<1> QED
  BY <1>1, <1>2, <1>3, <1>4, <1>5, <1>6, <1>7, <1>8, <1>9, <1>10 DEF Next

\* A client that is told 202 has its event in the queues, as long as the broker
\* does not answer a publish with a nack.
THEOREM AcceptedEventsAreQueued == Spec => []AcceptedIsQueued
<1> DEFINE Inv == "nack" \notin faults => AckIsQueued
<1>1. Init => Inv
  BY DEF Init, AckIsQueued, EveryAcceptIsQueued
<1>2. IInv /\ Inv /\ [Next]_vars => Inv'
  BY AckStep, FaultsAreFixed DEF IInv
<1>3. Inv => AcceptedIsQueued
  BY DEF AckIsQueued, AcceptedIsQueued
<1> QED
  BY AlwaysIInv, <1>1, <1>2, <1>3, PTL DEF Spec

-----------------------------------------------------------------------------
(* What a 409, and a terminal's response, mean. *)

\* Every claim that was ever given out is still carried, and a client is told
\* "duplicate" only about an id that was claimed.
NothingDropped ==
  /\ up /\ chan = "open"
  /\ \A s \in Slots : at[s] # "nacked"
  /\ \A c \in Claim : Issued(c) => Carried(c)
  /\ \A i \in Ids : "409" \in told[i] => expired[i] > 0 \/ i \in keys

\* As long as nothing but Redis fails, no claim is dropped on its way from the
\* duplicate filter to the queues.
LEMMA DropStep ==
  ASSUME IInv, faults \subseteq {"redis", "expiry"}, NothingDropped, [Next]_vars
  PROVE  NothingDropped'
<1> USE IngestAssumption DEF IInv, TypeOK, AtRest, NothingDropped, Issued,
                             Carried, Points, NoTask
<1>1. ASSUME NEW s \in Slots, NEW i \in Ids, Receive(s, i)
      PROVE  NothingDropped'
  BY <1>1 DEF Receive
<1>2. ASSUME NEW s \in Slots, Refuse(s)
      PROVE  NothingDropped'
  BY <1>2 DEF Refuse, Answer
<1>3. ASSUME NEW s \in Slots, Handler(s)
      PROVE  NothingDropped'
  <2>1. CASE ClaimId(s)
    <3>1. \A c \in Claim : Issued(c)' =>
            Issued(c) \/ c = [id |-> task[s].id, window |-> expired[task[s].id]]
      BY <2>1 DEF ClaimId, Claim
    <3>2. \A r \in [id : Ids \cup {NoId}, window : Nat], w \in Nat :
            [r EXCEPT !.window = w] = [id |-> r.id, window |-> w]
      OBVIOUS
    <3>3. task'[s] = [id |-> task[s].id, window |-> expired[task[s].id]]
      BY <2>1, <3>2 DEF ClaimId
    <3>4. \A c \in Claim : Carried(c) => Carried(c)'
      BY <2>1 DEF ClaimId
    <3>5. \A c \in Claim : c = task'[s] => Carried(c)'
      BY <2>1 DEF ClaimId
    <3>6. \A c \in Claim : Issued(c)' => Carried(c)'
      BY <3>1, <3>3, <3>4, <3>5
    <3> QED
      BY <2>1, <3>6 DEF ClaimId
  <2>2. CASE Duplicate(s)
    BY <2>2 DEF Duplicate, Answer
  <2>3. CASE DedupFails(s)
    BY <2>3 DEF DedupFails, Answer
  <2>4. CASE Publish(s)
    <3>1. \A c \in Claim : Carried(c) => Carried(c)'
      BY <2>4 DEF Publish
    <3> QED
      BY <2>4, <3>1 DEF Publish
  <2>5. CASE PublishFails(s)
    BY <2>5 DEF PublishFails
  <2>6. CASE PublishOk(s)
    BY <2>6 DEF PublishOk, Answer
  <2> QED
    BY <1>3, <2>1, <2>2, <2>3, <2>4, <2>5, <2>6 DEF Handler
<1>4. ASSUME NEW s \in Slots, Cancel(s)
      PROVE  NothingDropped'
  BY <1>4 DEF Cancel
<1>5. ASSUME NEW c \in wire, Broker(c)
      PROVE  NothingDropped'
  <2>1. BrokerAcks(c)
    BY <1>5 DEF Broker, BrokerNacks
  <2>2. \A d \in Claim : Carried(d) => Carried(d)'
    <3>1. wire' \cup queued' = wire \cup queued
      BY <2>1 DEF BrokerAcks
    <3>2. \A s \in Slots : at[s] = "publish" => at'[s] = "publish" /\ task'[s] = task[s]
      BY <2>1 DEF BrokerAcks, Resolve
    <3> QED
      BY <3>1, <3>2
  <2> QED
    BY <2>1, <2>2 DEF BrokerAcks, Resolve
<1>6. ASSUME NEW i \in Ids, Expire(i)
      PROVE  NothingDropped'
  <2>1. expired' = [expired EXCEPT ![i] = expired[i] + 1] /\ keys' = keys \ {i}
    BY <1>6 DEF Expire
  <2>2. ASSUME NEW c \in Claim, Issued(c)'
        PROVE  Issued(c)
    <3>1. c.id \in Ids /\ c.window \in Nat
      BY DEF Claim
    <3>2. CASE c.id = i
      <4>1. expired'[i] = expired[i] + 1 /\ i \in keys
        BY <1>6, <2>1 DEF Expire
      <4> QED
        BY <2>1, <2>2, <3>1, <3>2, <4>1
    <3>3. CASE c.id # i
      BY <2>1, <2>2, <3>1, <3>3
    <3> QED
      BY <3>2, <3>3
  <2>3. \A c \in Claim : Carried(c) => Carried(c)'
    BY <1>6 DEF Expire
  <2>4. \A j \in Ids : expired[j] > 0 \/ j \in keys => expired'[j] > 0 \/ j \in keys'
    BY <2>1
  <2> QED
    BY <1>6, <2>2, <2>3, <2>4 DEF Expire
<1>7. CASE ConnectionLost
  BY <1>7 DEF ConnectionLost
<1>8. CASE Crash
  BY <1>8 DEF Crash
<1>9. CASE Restart
  BY <1>9 DEF Restart
<1>10. CASE UNCHANGED vars
  BY <1>10 DEF vars
<1> QED
  BY <1>1, <1>2, <1>3, <1>4, <1>5, <1>6, <1>7, <1>8, <1>9, <1>10 DEF Next

\* A claimed id has a claim of its own that is carried.
LEMMA ClaimedIsCovered ==
  IInv /\ NothingDropped => 
    \A i \in Ids : expired[i] > 0 \/ i \in keys => Covered(i)
<1> SUFFICES ASSUME IInv, NothingDropped, NEW i \in Ids,
                    expired[i] > 0 \/ i \in keys
             PROVE  Covered(i)
  OBVIOUS
<1> USE DEF IInv, TypeOK
<1>1. CASE expired[i] > 0
  <2> DEFINE c == [id |-> i, window |-> 0]
  <2>1. c \in Claim /\ Issued(c) /\ c \in [id : {i}, window : 0..expired[i]]
    BY <1>1 DEF Claim, Issued
  <2> QED
    BY <2>1 DEF NothingDropped, Covered
<1>2. CASE i \in keys
  <2> DEFINE c == [id |-> i, window |-> expired[i]]
  <2>1. c \in Claim /\ Issued(c) /\ c \in [id : {i}, window : 0..expired[i]]
    BY <1>2 DEF Claim, Issued
  <2> QED
    BY <2>1 DEF NothingDropped, Covered
<1> QED
  BY <1>1, <1>2

\* If only Redis can fail, and only so that a failed SET has no effect, every
\* 409 is about an event that is in the queues or on its way to them.
THEOREM ConflictsAreCovered == Spec => []ConflictIsCovered
<1> DEFINE Inv == faults \subseteq {"redis", "expiry"} => NothingDropped
<1>1. Init => Inv
  BY DEF Init, NothingDropped, Issued, Claim
<1>2. IInv /\ Inv /\ [Next]_vars => Inv'
  BY DropStep, FaultsAreFixed
<1>3. IInv /\ Inv => ConflictIsCovered
  BY ClaimedIsCovered DEF ConflictIsCovered, EveryConflictIsCovered, NothingDropped
<1> QED
  BY AlwaysIInv, <1>1, <1>2, <1>3, PTL DEF Spec

\* What a terminal was told "00" about has been claimed, now or in an earlier window.
AnsweredIsClaimed ==
  \A i \in Ids : "00" \in told[i] => expired[i] > 0 \/ i \in keys

\* Without faults a TCP handler answers only for an event that somebody claimed:
\* neither Redis nor the connection can make it give up before.
LEMMA AnswerStep ==
  ASSUME IInv, faults \subseteq {"expiry"}, NothingDropped, AnsweredIsClaimed,
         [Next]_vars
  PROVE  AnsweredIsClaimed'
<1> USE IngestAssumption DEF IInv, TypeOK, AtRest, NothingDropped, Points, NoTask,
                             AnsweredIsClaimed
<1>1. ASSUME NEW s \in Slots, NEW i \in Ids, Receive(s, i)
      PROVE  AnsweredIsClaimed'
  BY <1>1 DEF Receive
<1>2. ASSUME NEW s \in Slots, Refuse(s)
      PROVE  AnsweredIsClaimed'
  BY <1>2 DEF Refuse, Answer
<1>3. ASSUME NEW s \in Slots, Handler(s)
      PROVE  AnsweredIsClaimed'
  <2>1. CASE ClaimId(s)
    BY <2>1 DEF ClaimId
  <2>2. CASE Duplicate(s)
    BY <2>2 DEF Duplicate, Answer
  <2>3. CASE DedupFails(s)
    BY <2>3 DEF DedupFails
  <2>4. CASE Publish(s)
    BY <2>4 DEF Publish
  <2>5. CASE PublishFails(s)
    BY <2>5 DEF PublishFails
  <2>6. CASE PublishOk(s)
    <3>1. task[s].id \in Ids /\ Issued(task[s]) /\ task[s].window \in Nat
      BY <2>6 DEF PublishOk, UsedIsIssued, Claimed
    <3>2. expired[task[s].id] > 0 \/ task[s].id \in keys
      BY <3>1 DEF Issued
    <3> QED
      BY <2>6, <3>1, <3>2 DEF PublishOk, Answer
  <2> QED
    BY <1>3, <2>1, <2>2, <2>3, <2>4, <2>5, <2>6 DEF Handler
<1>4. ASSUME NEW s \in Slots, Cancel(s)
      PROVE  AnsweredIsClaimed'
  BY <1>4 DEF Cancel
<1>5. ASSUME NEW c \in wire, Broker(c)
      PROVE  AnsweredIsClaimed'
  BY <1>5 DEF Broker, BrokerAcks, BrokerNacks
<1>6. ASSUME NEW i \in Ids, Expire(i)
      PROVE  AnsweredIsClaimed'
  <2>1. \A j \in Ids : expired[j] > 0 \/ j \in keys => expired'[j] > 0 \/ j \in keys'
    BY <1>6 DEF Expire
  <2> QED
    BY <1>6, <2>1 DEF Expire
<1>7. CASE ConnectionLost \/ Crash \/ Restart \/ UNCHANGED vars
  BY <1>7 DEF ConnectionLost, Crash, Restart, vars
<1> QED
  BY <1>1, <1>2, <1>3, <1>4, <1>5, <1>6, <1>7 DEF Next

\* If nothing happens but that keys expire, a terminal that got its "00" has its
\* event in the queues or on its way to them.
THEOREM TcpAnswersAreCovered == Spec => []TcpAnswerIsCovered
<1> DEFINE Inv == faults \subseteq {"expiry"} => NothingDropped /\ AnsweredIsClaimed
<1>1. Init => Inv
  BY DEF Init, NothingDropped, Issued, Claim, AnsweredIsClaimed
<1>2. IInv /\ Inv /\ [Next]_vars => Inv'
  BY DropStep, AnswerStep, FaultsAreFixed
<1>3. IInv /\ Inv => TcpAnswerIsCovered
  BY ClaimedIsCovered DEF TcpAnswerIsCovered, EveryTcpAnswerIsCovered,
     AnsweredIsClaimed
<1> QED
  BY AlwaysIInv, <1>1, <1>2, <1>3, PTL DEF Spec

-----------------------------------------------------------------------------
(* The receiver keeps the promise of AtMostOnce. *)

\* The bound of the model on expiries of one key.
Bounded == \A i \in Ids : expired[i] <= MaxExpiries

\* Only Expire counts, and it stops at the bound.
LEMMA BoundedStep == TypeOK /\ Bounded /\ [Next]_vars => Bounded'
<1> SUFFICES ASSUME TypeOK, Bounded, [Next]_vars
             PROVE  Bounded'
  OBVIOUS
<1>1. ASSUME NEW i \in Ids, Expire(i)
      PROVE  Bounded'
  BY <1>1, IngestAssumption DEF Expire, Bounded, TypeOK
<1>2. ASSUME expired' = expired
      PROVE  Bounded'
  BY <1>2 DEF Bounded
<1>3. expired' = expired \/ \E i \in Ids : Expire(i)
  BY DEF Next, vars, Receive, Refuse, Handler, ClaimId, Duplicate, DedupFails,
         Publish, PublishFails, PublishOk, Cancel, Broker, BrokerAcks,
         BrokerNacks, ConnectionLost, Crash, Restart
<1> QED
  BY <1>1, <1>2, <1>3

\* The claims of windows that are over, and of windows whose key is in k.
LEMMA WindowsOf ==
  ASSUME NEW k, NEW e \in [Ids -> Nat], NEW c
  PROVE  c \in {d \in UNION {[id : {i}, window : 0..e[i]] : i \in Ids} :
                  d.window < e[d.id] \/ d.id \in k}
           <=> /\ c \in Claim
               /\ c.window < e[c.id] \/ (c.window = e[c.id] /\ c.id \in k)
<1> DEFINE W == UNION {[id : {i}, window : 0..e[i]] : i \in Ids}
<1>1. ASSUME c \in W
      PROVE  c \in Claim /\ c.window <= e[c.id]
  <2>1. PICK i \in Ids : c \in [id : {i}, window : 0..e[i]]
    BY <1>1
  <2> QED
    BY <2>1 DEF Claim
<1>2. ASSUME c \in Claim, c.window <= e[c.id]
      PROVE  c \in W
  <2>1. c.id \in Ids /\ c.window \in 0..e[c.id]
    BY <1>2 DEF Claim
  <2>2. c \in [id : {c.id}, window : 0..e[c.id]]
    BY <1>2, <2>1 DEF Claim
  <2> QED
    BY <2>1, <2>2
<1>3. c \in Claim => c.window \in Nat /\ e[c.id] \in Nat
  BY DEF Claim
<1> QED
  BY <1>1, <1>2, <1>3

\* IssuedClaims are the claims that some SET NX may have given out, before a
\* step and after it.
LEMMA IssuedAre ==
  /\ TypeOK => \A c : c \in IssuedClaims <=> c \in Claim /\ Issued(c)
  /\ TypeOK' => \A c : c \in IssuedClaims' <=> c \in Claim /\ Issued(c)'
<1>1. TypeOK => \A c : c \in IssuedClaims <=> c \in Claim /\ Issued(c)
  BY WindowsOf DEF TypeOK, IssuedClaims, Issued
<1>2. TypeOK' => \A c : c \in IssuedClaims' <=> c \in Claim /\ Issued(c)'
  BY WindowsOf DEF TypeOK, IssuedClaims, Issued
<1> QED
  BY <1>1, <1>2

\* Within the bound they are claims of the abstract filter.
LEMMA IssuedBounded ==
  ASSUME TypeOK', Bounded'
  PROVE  IssuedClaims' \subseteq [id : Ids, window : 0..MaxExpiries]
<1> SUFFICES ASSUME NEW c \in IssuedClaims'
             PROVE  c \in [id : Ids, window : 0..MaxExpiries]
  OBVIOUS
<1>1. c \in Claim /\ Issued(c)'
  BY IssuedAre
<1>2. c.id \in Ids /\ c.window \in Nat /\ expired'[c.id] \in Nat /\ c.window <= expired'[c.id]
  BY <1>1 DEF Claim, Issued, TypeOK
<1>3. c.window \in 0..MaxExpiries
  BY <1>2, IngestAssumption DEF Bounded
<1> QED
  BY <1>1, <1>2, <1>3 DEF Claim

\* A key that is set, or whose window ends, keeps every claim given out.
LEMMA IssuedStays ==
  ASSUME TypeOK, TypeOK',
         \/ keys \subseteq keys' /\ expired' = expired
         \/ \E i \in Ids : Expire(i)
  PROVE  IssuedClaims \subseteq IssuedClaims'
<1> SUFFICES ASSUME NEW c \in IssuedClaims
             PROVE  c \in IssuedClaims'
  OBVIOUS
<1>1. c \in Claim /\ Issued(c)
  BY IssuedAre
<1>2. Issued(c)'
  BY <1>1 DEF Issued, Expire, TypeOK, Claim
<1> QED
  BY <1>1, <1>2, IssuedAre

\* A step that touches neither the keys nor the queues and starts no
\* publication gives messages up, or nothing at all.
LEMMA ForgetStep ==
  ASSUME TypeOK, TypeOK', Bounded',
         keys \subseteq keys', expired' = expired, queued' = queued,
         Publishing' \cup wire' \subseteq Publishing \cup wire
  PROVE  Filter!Forget
<1>1. IssuedClaims \subseteq IssuedClaims'
  BY IssuedStays
<1>2. IssuedClaims' \subseteq [id : Ids, window : 0..MaxExpiries]
  BY IssuedBounded
<1> QED
  BY <1>1, <1>2 DEF Filter!Forget

\* SET NX gives out a claim that was never given out before.
LEMMA IssueStep ==
  ASSUME IInv, TypeOK', Bounded', NEW s \in Slots, ClaimId(s)
  PROVE  Filter!Issue(task'[s]) /\ task'[s] \in [id : Ids, window : 0..MaxExpiries]
<1> DEFINE c == [id |-> task[s].id, window |-> expired[task[s].id]]
<1> USE DEF IInv, TypeOK
<1>1. task[s].id \in Ids /\ task[s].id \notin keys /\ at[s] = "dedup"
  BY DEF ClaimId, TypeOK
<1>2. \A r \in [id : Ids \cup {NoId}, window : Nat], w \in Nat :
        [r EXCEPT !.window = w] = [id |-> r.id, window |-> w]
  OBVIOUS
<1>3. task' = [task EXCEPT ![s] = c]
  BY <1>1, <1>2 DEF ClaimId
<1>4. c \in Claim /\ ~Issued(c) /\ Issued(c)'
  BY <1>1 DEF ClaimId, Issued, Claim
<1>5. \A d \in Claim : Issued(d)' <=> Issued(d) \/ d = c
  BY <1>1 DEF ClaimId, Issued, Claim
<1>6. \A d : d \in IssuedClaims' <=> d \in Claim /\ Issued(d)'
  BY IssuedAre DEF IInv
<1>7. IssuedClaims' = IssuedClaims \cup {c}
  BY <1>4, <1>5, <1>6, IssuedAre
<1>8. c \notin IssuedClaims
  BY <1>4, IssuedAre
<1>9. Publishing' = Publishing \cup {c}
  <2>1. \A t \in Slots : (at'[t] = "publish") <=> (at[t] = "publish" \/ t = s)
    BY <1>1 DEF ClaimId
  <2>2. \A t \in Slots : t # s => task'[t] = task[t]
    BY <1>3
  <2>3. task'[s] = c
    BY <1>3
  <2> QED
    BY <1>1, <2>1, <2>2, <2>3 DEF Publishing
<1>10. UNCHANGED <<wire, queued>>
  BY DEF ClaimId
<1>11. task'[s] = c
  BY <1>3
<1>12. c \in [id : Ids, window : 0..MaxExpiries]
  <2>1. expired[task[s].id] \in 0..MaxExpiries
    BY <1>1, IngestAssumption DEF Bounded, ClaimId
  <2> QED
    BY <1>1, <2>1
<1> QED
  BY <1>7, <1>8, <1>9, <1>10, <1>11, <1>12 DEF Filter!Issue

\* A broker that acknowledges a message queues what nobody else carries.
LEMMA EnqueueStep ==
  ASSUME IInv, TypeOK', Bounded', NEW c \in wire, BrokerAcks(c)
  PROVE  Filter!Enqueue(c) /\ c \in [id : Ids, window : 0..MaxExpiries]
<1> USE DEF IInv, TypeOK
<1>1. Publishing' = Publishing
  BY DEF BrokerAcks, Resolve, Publishing
<1>2. c \notin Publishing
  BY DEF Publishing, OneCarrier
<1>3. IssuedClaims' = IssuedClaims
  BY DEF BrokerAcks, IssuedClaims
<1>4. Publishing' \cup wire' = (Publishing \cup wire) \ {c}
  BY <1>1, <1>2 DEF BrokerAcks
<1>5. c \in IssuedClaims'
  BY <1>3, IssuedAre DEF UsedIsIssued
<1> QED
  BY <1>3, <1>4, <1>5, IssuedBounded DEF Filter!Enqueue, BrokerAcks

\* Every step of the receiver is a step of the abstract filter or leaves it alone.
LEMMA FilterStep ==
  ASSUME IInv, IInv', Bounded, Bounded', [Next]_vars
  PROVE  [Filter!FilterNext]_(Filter!filter)
<1> USE DEF IInv, Filter!FilterNext, Filter!filter
<1> DEFINE Quiet == /\ keys \subseteq keys'
                    /\ expired' = expired
                    /\ queued' = queued
                    /\ Publishing' \cup wire' \subseteq Publishing \cup wire
<1>1. ASSUME Quiet
      PROVE  Filter!FilterNext
  BY <1>1, ForgetStep
<1>2. ASSUME NEW s \in Slots, NEW i \in Ids, Receive(s, i)
      PROVE  Quiet
  BY <1>2 DEF Receive, Publishing, TypeOK
<1>3. ASSUME NEW s \in Slots, Refuse(s)
      PROVE  Quiet
  BY <1>3 DEF Refuse, Answer, Publishing, TypeOK
<1>4. ASSUME NEW s \in Slots, Handler(s)
      PROVE  Filter!FilterNext
  <2>1. CASE ClaimId(s)
    BY <2>1, IssueStep
  <2>2. CASE Duplicate(s)
    <3>1. Quiet
      BY <2>2 DEF Duplicate, Answer, Publishing, TypeOK
    <3> QED
      BY <1>1, <3>1
  <2>3. CASE DedupFails(s)
    <3>1. Quiet
      BY <2>3 DEF DedupFails, Answer, Publishing, TypeOK
    <3> QED
      BY <1>1, <3>1
  <2>4. CASE Publish(s)
    <3>1. Quiet
      BY <2>4 DEF Publish, Publishing, TypeOK
    <3> QED
      BY <1>1, <3>1
  <2>5. CASE PublishFails(s)
    <3>1. Quiet
      BY <2>5 DEF PublishFails, Answer, Publishing, TypeOK
    <3> QED
      BY <1>1, <3>1
  <2>6. CASE PublishOk(s)
    <3>1. Quiet
      BY <2>6 DEF PublishOk, Answer, Publishing, TypeOK
    <3> QED
      BY <1>1, <3>1
  <2> QED
    BY <1>4, <2>1, <2>2, <2>3, <2>4, <2>5, <2>6 DEF Handler
<1>5. ASSUME NEW s \in Slots, Cancel(s)
      PROVE  Quiet
  BY <1>5 DEF Cancel, Publishing, TypeOK
<1>6. ASSUME NEW c \in wire, Broker(c)
      PROVE  Filter!FilterNext
  <2>1. CASE BrokerAcks(c)
    BY <2>1, EnqueueStep
  <2>2. CASE BrokerNacks(c)
    <3>1. Quiet
      BY <2>2 DEF BrokerNacks, Resolve, Publishing, TypeOK
    <3> QED
      BY <1>1, <3>1
  <2> QED
    BY <1>6, <2>1, <2>2 DEF Broker
<1>7. ASSUME NEW i \in Ids, Expire(i)
      PROVE  Filter!FilterNext
  <2>1. IssuedClaims \subseteq IssuedClaims'
    BY <1>7, IssuedStays
  <2>2. IssuedClaims' \subseteq [id : Ids, window : 0..MaxExpiries]
    BY IssuedBounded
  <2>3. Publishing' \cup wire' = Publishing \cup wire /\ queued' = queued
    BY <1>7 DEF Expire, Publishing
  <2> QED
    BY <2>1, <2>2, <2>3 DEF Filter!Forget
<1>8. CASE ConnectionLost
  <2>1. Quiet
    BY <1>8 DEF ConnectionLost, Publishing
  <2> QED
    BY <1>1, <2>1
<1>9. CASE Crash
  <2>1. Quiet
    BY <1>9 DEF Crash, Publishing
  <2> QED
    BY <1>1, <2>1
<1>10. CASE Restart
  <2>1. Quiet
    BY <1>10 DEF Restart, Publishing
  <2> QED
    BY <1>1, <2>1
<1>11. CASE UNCHANGED vars
  BY <1>11 DEF vars, IssuedClaims, Publishing
<1> QED
  BY <1>1, <1>2, <1>3, <1>4, <1>5, <1>6, <1>7, <1>8, <1>9, <1>10, <1>11 DEF Next

\* Whatever faults are possible, the filter gives a claim out once, its message
\* is queued once or never, and what was given up is never revived.
THEOREM ReceiverKeepsFilterPromise == Spec => ClaimedOnce
<1>1. Init => Filter!FilterInit
  BY DEF Init, Filter!FilterInit, IssuedClaims, Publishing
<1>2. Init => Bounded
  BY IngestAssumption DEF Init, Bounded
<1>3. Spec => []Bounded
  <2>1. IInv /\ Bounded /\ [Next]_vars => Bounded'
    BY BoundedStep DEF IInv
  <2> QED
    BY AlwaysIInv, <1>2, <2>1, PTL DEF Spec
<1>4. IInv /\ IInv' /\ Bounded /\ Bounded' /\ [Next]_vars
        => [Filter!FilterNext]_(Filter!filter)
  BY FilterStep
<1> QED
  BY AlwaysIInv, <1>1, <1>3, <1>4, PTL DEF Spec, ClaimedOnce, Filter!FilterSpec

\* Claims that were given out, whose message is neither under way nor queued.
GivenUp == IssuedClaims \ (Publishing \cup wire \cup queued)

\* A fault that loses a claim after the SET NX loses it for good: no step of a handler,
\* of the broker or of a restart takes it up again, so that the answer 409 to the
\* retries of its id is never made good by the publication they are told of.
THEOREM GivenUpForGood == Spec => [][GivenUp \subseteq GivenUp']_vars
<1>1. Init => Bounded
  BY IngestAssumption DEF Init, Bounded
<1>2. IInv /\ Bounded /\ [Next]_vars => Bounded'
  BY BoundedStep DEF IInv
<1>3. IInv /\ IInv' /\ Bounded /\ Bounded' /\ [Next]_vars
        => [GivenUp \subseteq GivenUp']_vars
  <2> SUFFICES ASSUME IInv, IInv', Bounded, Bounded', [Next]_vars
               PROVE  GivenUp \subseteq GivenUp'
    OBVIOUS
  <2>1. [Filter!FilterNext]_(Filter!filter)
    BY FilterStep
  <2>2. Publishing \cup wire \subseteq IssuedClaims
    <3>1. \A s \in Slots : at[s] = "publish" => task[s] \in Claim /\ Issued(task[s])
      BY DEF IInv, UsedIsIssued, Claimed, TypeOK, Points, Claim
    <3>2. \A c \in wire : c \in Claim /\ Issued(c)
      BY DEF IInv, UsedIsIssued, TypeOK
    <3> QED
      BY <3>1, <3>2, IssuedAre DEF IInv, Publishing
  <2> QED
    BY <2>1, <2>2 DEF GivenUp, Filter!FilterNext, Filter!filter, Filter!Issue,
                      Filter!Enqueue, Filter!Forget
<1> QED
  BY AlwaysIInv, <1>1, <1>2, <1>3, PTL DEF Spec
=============================================================================
