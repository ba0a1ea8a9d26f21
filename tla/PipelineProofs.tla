--------------------------- MODULE PipelineProofs ---------------------------
(***************************************************************************)
(* Whatever is started, stopped, edited and deleted in whatever order, for  *)
(* any messages: what a receiver has published is at every sink that it was *)
(* configured for.                                                          *)
(***************************************************************************)
EXTENDS Pipeline, TLAPS

\* All that a sink needs before a receiver may publish to it.
Ready(s) ==
  /\ s \notin legacy
  /\ <<"exchange", "events.dlq">> \in declared
  /\ <<"queue", s>> \in declared /\ <<"bind", s>> \in declared
  /\ <<"dlq", s>> \in declared /\ <<"dlq bind", s>> \in declared

\* What connect has called is there, and no queue of an older release is among it.
ConnectOK ==
  recv # "down" =>
    /\ \A i \in 1..step : Calls[i] \in declared
    /\ step >= 3 => "mysql" \notin legacy
    /\ step >= 7 => "postgres" \notin legacy
    /\ recv \in {"up", "cut"} => step = LastCall(mine)

\* A sink that is owed something is ready, and stays so.
OwedOK ==
  /\ \A s \in Sinks : Owed(s) # {} => Ready(s)
  /\ \A m \in Msgs : <<m, "postgres">> \in owed => <<m, "mysql">> \in owed

\* Only what was published is anywhere, only rows are stored or put aside, and an
\* acknowledgement comes after its row.
SinkOK ==
  \A s \in Sinks :
    /\ pending[s] \cup stored[s] \cup done[s] \cup dead[s] \subseteq Owed("mysql")
    /\ done[s] \subseteq stored[s] \cup Rowless(s)

IInv == TypeOK /\ ConnectOK /\ OwedOK /\ SinkOK /\ OwedIsKept

\* The calls of connect, one by one.
LEMMA CallsAre ==
  /\ DOMAIN Calls = 1..10
  /\ Calls[1] = <<"exchange", "events">>
  /\ Calls[2] = <<"exchange", "events.dlq">>
  /\ Calls[3] = <<"queue", "mysql">>
  /\ Calls[4] = <<"bind", "mysql">>
  /\ Calls[5] = <<"dlq", "mysql">>
  /\ Calls[6] = <<"dlq bind", "mysql">>
  /\ Calls[7] = <<"queue", "postgres">>
  /\ Calls[8] = <<"bind", "postgres">>
  /\ Calls[9] = <<"dlq", "postgres">>
  /\ Calls[10] = <<"dlq bind", "postgres">>
<1>0. DOMAIN Calls = 1..10
  BY DEF Calls
<1>1. Calls[1] = <<"exchange", "events">>
  BY DEF Calls
<1>2. Calls[2] = <<"exchange", "events.dlq">>
  BY DEF Calls
<1>3. Calls[3] = <<"queue", "mysql">>
  BY DEF Calls
<1>4. Calls[4] = <<"bind", "mysql">>
  BY DEF Calls
<1>5. Calls[5] = <<"dlq", "mysql">>
  BY DEF Calls
<1>6. Calls[6] = <<"dlq bind", "mysql">>
  BY DEF Calls
<1>7. Calls[7] = <<"queue", "postgres">>
  BY DEF Calls
<1>8. Calls[8] = <<"bind", "postgres">>
  BY DEF Calls
<1>9. Calls[9] = <<"dlq", "postgres">>
  BY DEF Calls
<1>10. Calls[10] = <<"dlq bind", "postgres">>
  BY DEF Calls
<1> QED
  BY <1>0, <1>1, <1>2, <1>3, <1>4, <1>5, <1>6, <1>7, <1>8, <1>9, <1>10

\* The names of its calls, and the sinks they are for.
LEMMA CallsName ==
  /\ Calls[1][1] = "exchange" /\ Calls[2][1] = "exchange"
  /\ Calls[3][1] = "queue" /\ Calls[7][1] = "queue" /\ Calls[7][2] = "postgres"
  /\ Calls[3][2] = "mysql" /\ Calls[4][2] = "mysql"
  /\ Calls[5][2] = "mysql" /\ Calls[6][2] = "mysql"
<1>1. Calls[1][1] = "exchange" /\ Calls[2][1] = "exchange"
  BY DEF Calls
<1>2. Calls[3][1] = "queue" /\ Calls[7][1] = "queue" /\ Calls[7][2] = "postgres"
  BY DEF Calls
<1>3. Calls[3][2] = "mysql" /\ Calls[4][2] = "mysql"
  BY DEF Calls
<1>4. Calls[5][2] = "mysql" /\ Calls[6][2] = "mysql"
  BY DEF Calls
<1> QED
  BY <1>1, <1>2, <1>3, <1>4

\* Each queue and each binding is one call.
LEMMA CallsDiffer ==
  /\ \A i \in {1, 2} : Calls[i] \notin Copies("mysql")
  /\ \A i \in {1, 2, 3, 4, 5, 6} : Calls[i] \notin Copies("postgres")
<1>1. ASSUME NEW i \in {1, 2}
      PROVE  Calls[i][1] = "exchange"
  BY CallsName
<1>2. ASSUME NEW s, NEW c \in Copies(s)
      PROVE  c[1] \in {"queue", "bind"} /\ c[2] = s
  BY DEF Copies
<1>3. ASSUME NEW i \in {3, 4, 5, 6}
      PROVE  Calls[i][2] = "mysql"
  BY CallsName
<1> QED
  BY <1>1, <1>2, <1>3

\* Nothing else is declared for a sink before its receiver consumes.
LEMMA CopiesAreCalls == \A s \in Sinks : Copies(s) \subseteq {Calls[i] : i \in DOMAIN Calls}
<1>1. \A i \in 1..10 : Calls[i] \in {Calls[j] : j \in DOMAIN Calls}
  BY CallsAre
<1>2. Copies("mysql") = {Calls[3], Calls[4]}
  BY CallsAre DEF Copies
<1>3. Copies("postgres") = {Calls[7], Calls[8]}
  BY CallsAre DEF Copies
<1> QED
  BY <1>1, <1>2, <1>3 DEF Sinks

\* A receiver that has come up has made its sinks ready.
LEMMA UpIsReady ==
  ASSUME IInv, recv = "up", NEW s \in SinksOf(mine)
  PROVE  Ready(s)
<1>1. \A i \in 1..LastCall(mine) : Calls[i] \in declared
  BY DEF IInv, ConnectOK
<1>2. mine \in BOOLEAN /\ step = LastCall(mine)
  BY DEF IInv, TypeOK, ConnectOK
<1>3. CASE s = "mysql"
  <2>1. LastCall(mine) \in {6, 10}
    BY <1>2 DEF LastCall
  <2>2. {2, 3, 4, 5, 6} \subseteq 1..LastCall(mine)
    BY <2>1
  <2>3. "mysql" \notin legacy
    BY <1>2, <2>1 DEF IInv, ConnectOK
  <2> QED
    BY <1>1, <1>3, <2>2, <2>3, CallsAre DEF Ready
<1>4. CASE s = "postgres"
  <2>1. LastCall(mine) = 10
    BY <1>2, <1>4 DEF LastCall, SinksOf
  <2>2. {2, 7, 8, 9, 10} \subseteq 1..LastCall(mine)
    BY <2>1
  <2>3. "postgres" \notin legacy
    BY <1>2, <2>1 DEF IInv, ConnectOK
  <2> QED
    BY <1>1, <1>4, <2>2, <2>3, CallsAre DEF Ready
<1> QED
  BY <1>3, <1>4 DEF SinksOf, Sinks

\* A sink that is ready is bound, and what it refuses is kept.
LEMMA ReadyMeans == \A s \in Sinks : Ready(s) => Bound(s) /\ DeadLetters(s)
BY DEF Ready, Bound, Copies, DeadLetters

-----------------------------------------------------------------------------
(* The invariant. *)

\* The invariant holds initially, whatever queues an older release has left.
LEMMA InitIInv == Init => IInv
<1> SUFFICES ASSUME Init
             PROVE  IInv
  OBVIOUS
<1>1. declared \subseteq {Calls[i] : i \in DOMAIN Calls}
  <2>1. UNION {Copies(s) : s \in legacy} \subseteq {Calls[i] : i \in DOMAIN Calls}
    BY CopiesAreCalls DEF Init
  <2>2. <<"exchange", "events">> \in {Calls[i] : i \in DOMAIN Calls}
    <3>1. DOMAIN Calls = 1..10 /\ Calls[1] = <<"exchange", "events">>
      BY CallsAre
    <3>2. 1 \in 1..10
      OBVIOUS
    <3> QED
      BY <3>1, <3>2
  <2> QED
    BY <2>1, <2>2 DEF Init
<1>2. TypeOK
  <2>1. /\ pending \in [Sinks -> SUBSET Msgs] /\ stored \in [Sinks -> SUBSET Msgs]
        /\ done \in [Sinks -> SUBSET Msgs] /\ dead \in [Sinks -> SUBSET Msgs]
        /\ cons \in [Sinks -> {"down", "retry", "attached", "stuck"}]
    BY DEF Init
  <2>2. step \in 0..LastCall(mine) /\ edits \in 0..MaxEdits /\ stops \in 0..MaxStops
    BY PipelineAssumption DEF Init, LastCall
  <2>3. /\ env \in [postgres : BOOLEAN, valid : BOOLEAN] /\ mine \in BOOLEAN
        /\ recv \in {"down", "connecting", "up", "cut"}
        /\ owed \subseteq Msgs \X Sinks /\ legacy \subseteq Sinks
    BY DEF Init
  <2> QED
    BY <1>1, <2>1, <2>2, <2>3 DEF TypeOK
<1> QED
  BY <1>2 DEF Init, IInv, ConnectOK, OwedOK, SinkOK, OwedIsKept, Owed, Sinks

\* Starting, serving and stopping the receiver, and the consumers' ways in and out,
\* touch neither the topology nor the sinks.
LEMMA ControlStep ==
  ASSUME IInv, UNCHANGED <<declared, owed, queues>>, TypeOK', ConnectOK', legacy' = legacy
  PROVE  IInv'
BY DEF IInv, OwedOK, SinkOK, OwedIsKept, Owed, Ready, queues, Rowless

\* A receiver that starts has declared nothing yet.
LEMMA ReceiverStartKeeps == IInv /\ ReceiverStart => IInv'
<1> SUFFICES ASSUME IInv, ReceiverStart
             PROVE  IInv'
  OBVIOUS
<1>1. TypeOK'
  BY DEF IInv, TypeOK, ReceiverStart, queues, LastCall
<1>2. ConnectOK'
  BY DEF ReceiverStart, ConnectOK
<1> QED
  BY <1>1, <1>2, ControlStep DEF ReceiverStart

\* A call of connect adds to the topology, or ends at an older queue.
LEMMA DeclareKeeps == IInv /\ Declare => IInv'
<1> SUFFICES ASSUME IInv, Declare
             PROVE  IInv'
  OBVIOUS
<1> DEFINE call == Calls[step + 1]
<1>1. step \in Nat /\ LastCall(mine) \in {6, 10} /\ step < LastCall(mine)
      /\ step + 1 \in 1..10 /\ mine \in BOOLEAN /\ recv = "connecting"
  BY DEF IInv, TypeOK, Declare, LastCall
<1>2. CASE call[1] = "queue" /\ call[2] \in legacy
  <2>1. recv' = "down" /\ UNCHANGED <<step, declared, env, mine, legacy, cons, owed,
                                      queues, edits, stops>>
    BY <1>2 DEF Declare
  <2>2. TypeOK'
    BY <2>1 DEF IInv, TypeOK, queues
  <2>3. ConnectOK'
    BY <2>1 DEF ConnectOK
  <2> QED
    BY <2>1, <2>2, <2>3, ControlStep
<1>3. CASE ~(call[1] = "queue" /\ call[2] \in legacy)
  <2>1. /\ step' = step + 1 /\ declared' = declared \cup {call}
        /\ UNCHANGED <<recv, env, mine, legacy, cons, owed, queues, edits, stops>>
    BY <1>3 DEF Declare
  <2>2. TypeOK'
    <3>1. call \in {Calls[i] : i \in DOMAIN Calls}
      BY <1>1, CallsAre
    <3>2. step' \in 0..LastCall(mine)
      BY <1>1, <2>1
    <3> QED
      BY <2>1, <3>1, <3>2 DEF IInv, TypeOK, queues
  <2>3. ConnectOK'
    <3>1. \A i \in 1..step' : Calls[i] \in declared'
      BY <1>1, <2>1 DEF IInv, ConnectOK
    <3>2. step' >= 3 => "mysql" \notin legacy
      <4>1. CASE step = 2
        BY <1>3, <4>1, CallsName
      <4>2. CASE step # 2
        BY <1>1, <2>1, <4>2 DEF IInv, ConnectOK
      <4> QED
        BY <4>1, <4>2
    <3>3. step' >= 7 => "postgres" \notin legacy
      <4>1. CASE step = 6
        BY <1>3, <4>1, CallsName
      <4>2. CASE step # 6
        BY <1>1, <2>1, <4>2 DEF IInv, ConnectOK
      <4> QED
        BY <4>1, <4>2
    <3> QED
      BY <1>1, <2>1, <3>1, <3>2, <3>3 DEF ConnectOK
  <2> QED
    BY <2>1, <2>2, <2>3
       DEF IInv, OwedOK, SinkOK, OwedIsKept, Owed, Ready, queues, Rowless
<1> QED
  BY <1>2, <1>3

\* A receiver serves when every call has returned, and may stop at any time.
LEMMA ServeKeeps == IInv /\ (Serve \/ ReceiverStop) => IInv'
<1> SUFFICES ASSUME IInv, Serve \/ ReceiverStop
             PROVE  IInv'
  OBVIOUS
<1>1. TypeOK'
  BY PipelineAssumption DEF IInv, TypeOK, Serve, ReceiverStop, queues
<1>2. ConnectOK'
  BY DEF IInv, ConnectOK, Serve, ReceiverStop
<1> QED
  BY <1>1, <1>2, ControlStep DEF Serve, ReceiverStop

\* A publish reaches every sink it is owed to: a ready sink is bound.
LEMMA PublishKeeps == ASSUME NEW m \in Msgs, IInv, Publish(m) PROVE IInv'
<1>1. SinksOf(mine) \subseteq Sinks /\ "mysql" \in SinksOf(mine) /\ "mysql" \in Sinks
  BY DEF SinksOf, Sinks
<1>2. TypeOK'
  BY <1>1 DEF IInv, TypeOK, Publish, receiver
<1>3. ConnectOK'
  BY DEF IInv, ConnectOK, Publish, receiver
<1>4. \A s \in Sinks : Owed(s)' = IF s \in SinksOf(mine) THEN Owed(s) \cup {m} ELSE Owed(s)
  BY DEF Publish, Owed
<1>5. OwedOK'
  <2>1. ASSUME NEW s \in Sinks, Owed(s)' # {}
        PROVE  Ready(s)'
    <3>1. Ready(s)
      BY <1>4, <2>1, UpIsReady DEF IInv, OwedOK, Publish
    <3> QED
      BY <3>1 DEF Ready, Publish
  <2>2. \A x \in Msgs : (<<x, "postgres">> \in owed') => (<<x, "mysql">> \in owed')
    BY <1>1 DEF IInv, OwedOK, Publish
  <2> QED
    BY <2>1, <2>2 DEF OwedOK
<1>6. \A s \in Sinks : s \in SinksOf(mine) => Bound(s)
  BY UpIsReady, ReadyMeans DEF Publish
<1>7. \A s \in Sinks : /\ pending[s] \subseteq pending'[s]
                       /\ pending'[s] \subseteq pending[s] \cup {m}
                       /\ s \in SinksOf(mine) => m \in pending'[s]
  BY <1>6 DEF Publish
<1>8. stored' = stored /\ done' = done /\ dead' = dead /\ \A s : Rowless(s)' = Rowless(s)
  BY DEF Publish, Rowless
<1>9. SinkOK'
  BY <1>1, <1>4, <1>7, <1>8 DEF IInv, SinkOK
<1>10. OwedIsKept'
  BY <1>1, <1>4, <1>7, <1>8 DEF IInv, OwedIsKept
<1> QED
  BY <1>2, <1>3, <1>5, <1>9, <1>10 DEF IInv

\* A consumer that comes or goes leaves its messages where they are.
LEMMA ConsumerKeeps ==
  ASSUME IInv, NEW s \in Sinks,
         ConsumerStart(s) \/ Attach(s) \/ Hang(s) \/ ConsumerStop(s)
  PROVE  IInv'
<1>1. TypeOK'
  BY PipelineAssumption
     DEF IInv, TypeOK, ConsumerStart, Attach, Hang, ConsumerStop, queues, receiver
<1>2. ConnectOK'
  BY DEF IInv, ConnectOK, ConsumerStart, Attach, Hang, ConsumerStop, receiver
<1> QED
  BY <1>1, <1>2, ControlStep DEF ConsumerStart, Attach, Hang, ConsumerStop

\* What a consumer stores, acknowledges or refuses stays accounted for.
LEMMA WorkKeeps == ASSUME IInv, NEW s \in Sinks, NEW m \in Msgs, Work(s, m) PROVE IInv'
<1>1. TypeOK'
  BY DEF IInv, TypeOK, Work, Store, Finish, PutAside, receiver
<1>2. ConnectOK' /\ OwedOK'
  BY DEF IInv, ConnectOK, OwedOK, Owed, Ready, Work, Store, Finish, PutAside, receiver
<1>3. \A x : Owed(x)' = Owed(x) /\ Rowless(x)' = Rowless(x)
  BY DEF Owed, Rowless, Work, Store, Finish, PutAside
<1>4. SinkOK' /\ OwedIsKept'
  <2>1. CASE Store(s, m)
    BY <2>1, <1>3 DEF IInv, TypeOK, SinkOK, OwedIsKept, Store
  <2>2. CASE Finish(s, m)
    BY <2>2, <1>3 DEF IInv, TypeOK, SinkOK, OwedIsKept, Finish
  <2>3. CASE PutAside(s, m)
    <3>1. m \in Owed(s) => DeadLetters(s)
      BY ReadyMeans DEF IInv, OwedOK
    <3>2. SinkOK'
      BY <2>3, <1>3 DEF IInv, TypeOK, SinkOK, PutAside
    <3>3. OwedIsKept'
      BY <2>3, <1>3, <3>1 DEF IInv, TypeOK, OwedIsKept, PutAside
    <3> QED
      BY <3>2, <3>3
  <2> QED
    BY <2>1, <2>2, <2>3 DEF Work
<1> QED
  BY <1>1, <1>2, <1>4 DEF IInv

\* A change of .env does not reach a process that runs.
LEMMA EditKeeps == IInv /\ Edit => IInv'
<1> SUFFICES ASSUME IInv, Edit
             PROVE  IInv'
  OBVIOUS
<1>1. TypeOK'
  BY PipelineAssumption DEF IInv, TypeOK, Edit, queues, receiver
<1>2. ConnectOK'
  BY DEF IInv, ConnectOK, Edit, receiver
<1> QED
  BY <1>1, <1>2, ControlStep DEF Edit

\* A queue of an older release holds nothing that is owed.
LEMMA DeleteKeeps == ASSUME IInv, NEW s \in Sinks, DeleteLegacy(s) PROVE IInv'
<1>1. TypeOK'
  BY DEF IInv, TypeOK, DeleteLegacy, receiver
<1>2. Owed(s) = {}
  BY DEF IInv, OwedOK, Ready, DeleteLegacy
<1>3. \A x : Owed(x)' = Owed(x) /\ Rowless(x)' = Rowless(x)
  BY DEF Owed, Rowless, DeleteLegacy
<1>4. ConnectOK'
  <2> SUFFICES ASSUME recv # "down"
               PROVE  ConnectOK'
    BY DEF ConnectOK, DeleteLegacy, receiver
  <2>1. ASSUME NEW i \in 1..step
        PROVE  Calls[i] \in declared'
    <3>1. i \in 1..10 /\ step \in Nat /\ i <= step
      BY DEF IInv, TypeOK, LastCall
    <3>2. Calls[i] \notin Copies(s)
      <4>1. s = "mysql" => step < 3
        BY <3>1 DEF IInv, ConnectOK, DeleteLegacy
      <4>2. s = "postgres" => step < 7
        BY <3>1 DEF IInv, ConnectOK, DeleteLegacy
      <4>3. CASE s = "mysql"
        <5>1. i \in {1, 2}
          BY <3>1, <4>1, <4>3
        <5> QED
          BY <5>1, <4>3, CallsDiffer
      <4>4. CASE s = "postgres"
        <5>1. i \in {1, 2, 3, 4, 5, 6}
          BY <3>1, <4>2, <4>4
        <5> QED
          BY <5>1, <4>4, CallsDiffer
      <4> QED
        BY <4>3, <4>4 DEF Sinks
    <3> QED
      BY <3>2 DEF IInv, ConnectOK, DeleteLegacy
  <2> QED
    BY <2>1 DEF IInv, ConnectOK, DeleteLegacy, receiver
<1>5. OwedOK'
  <2>1. ASSUME NEW x \in Sinks, Owed(x) # {}
        PROVE  Ready(x)'
    <3>1. Ready(x) /\ x # s
      BY <1>2, <2>1 DEF IInv, OwedOK
    <3> QED
      BY <3>1 DEF Ready, DeleteLegacy, Copies
  <2> QED
    BY <1>3, <2>1 DEF IInv, OwedOK, DeleteLegacy
<1>6. SinkOK'
  BY <1>3 DEF IInv, TypeOK, SinkOK, DeleteLegacy
<1>7. OwedIsKept'
  BY <1>2, <1>3 DEF IInv, TypeOK, OwedIsKept, DeleteLegacy
<1> QED
  BY <1>1, <1>4, <1>5, <1>6, <1>7 DEF IInv

\* Every step of the processes and of the operator keeps the invariant.
LEMMA Step == IInv /\ [Next]_vars => IInv'
<1> SUFFICES ASSUME IInv, [Next]_vars
             PROVE  IInv'
  OBVIOUS
<1>1. CASE UNCHANGED vars
  BY <1>1 DEF vars, IInv, TypeOK, ConnectOK, OwedOK, SinkOK, OwedIsKept, Owed, Ready, Rowless
<1> QED
  BY <1>1, ReceiverStartKeeps, DeclareKeeps, ServeKeeps, PublishKeeps, ConsumerKeeps,
     WorkKeeps, EditKeeps, DeleteKeeps DEF Next

\* The invariant holds in every reachable state.
LEMMA AlwaysIInv == Spec => []IInv
BY InitIInv, Step, PTL DEF Spec

\* The state of the deployment is always well-typed; connect makes no call that its
\* configuration does not ask for.
THEOREM TypeCorrect == Spec => []TypeOK
<1>1. IInv => TypeOK
  BY DEF IInv
<1> QED
  BY AlwaysIInv, <1>1, PTL

\* An event that was published is never lost at a sink its receiver was configured
\* for, in whatever order processes start and stop.
THEOREM OwedEventsAreKept == Spec => []OwedIsKept
<1>1. IInv => OwedIsKept
  BY DEF IInv
<1> QED
  BY AlwaysIInv, <1>1, PTL
-----------------------------------------------------------------------------
(* Refinement. *)

\* What AtLeastOnce sees of a sink.
Pending(s) == pending[s] \cap Owed(s)
Stored(s)  == stored[s] \cap Owed(s)
Done(s)    == done[s] \cap Owed(s)
Dead(s)    == dead[s] \cap Owed(s)

\* The steps of AtLeastOnce, of one sink.
Sends(s, m) ==
  /\ m \notin Pending(s) \cup Done(s) \cup Dead(s)
  /\ Pending(s)' = Pending(s) \cup {m}
  /\ Stored(s)' = Stored(s) /\ Done(s)' = Done(s) /\ Dead(s)' = Dead(s)

Stores(s, m) ==
  /\ m \in Pending(s) \ Rowless(s)
  /\ Stored(s)' = Stored(s) \cup {m}
  /\ Pending(s)' = Pending(s) /\ Done(s)' = Done(s) /\ Dead(s)' = Dead(s)

Finishes(s, m) ==
  /\ m \in Pending(s) /\ m \in Stored(s) \cup Rowless(s)
  /\ Pending(s)' = Pending(s) \ {m}
  /\ Done(s)' = Done(s) \cup {m}
  /\ Stored(s)' = Stored(s) /\ Dead(s)' = Dead(s)

PutsAside(s, m) ==
  /\ m \in Pending(s) \ Rowless(s)
  /\ Pending(s)' = Pending(s) \ {m}
  /\ Dead(s)' = Dead(s) \cup {m}
  /\ Stored(s)' = Stored(s) /\ Done(s)' = Done(s)

Rests(s) ==
  /\ Pending(s)' = Pending(s) /\ Stored(s)' = Stored(s)
  /\ Done(s)' = Done(s) /\ Dead(s)' = Dead(s)

SinkStep(s) ==
  \/ \E m \in Msgs : Sends(s, m) \/ Stores(s, m) \/ Finishes(s, m) \/ PutsAside(s, m)
  \/ Rests(s)

\* A publish sends the event to the sinks its receiver is configured for.
LEMMA PublishSends ==
  ASSUME IInv, NEW m \in Msgs, Publish(m), NEW s \in Sinks
  PROVE  SinkStep(s)
<1> USE DEF Pending, Stored, Done, Dead
<1>1. m \notin Owed("mysql") /\ m \notin Owed(s)
  BY DEF IInv, OwedOK, Publish, Owed, Sinks
<1>2. m \notin pending[s] \cup stored[s] \cup done[s] \cup dead[s]
  BY <1>1 DEF IInv, SinkOK
<1>3. stored' = stored /\ done' = done /\ dead' = dead
  BY DEF Publish
<1>4. CASE s \in SinksOf(mine)
  <2>1. Owed(s)' = Owed(s) \cup {m}
    BY <1>4 DEF Publish, Owed
  <2>2. Bound(s)
    BY <1>4, UpIsReady, ReadyMeans DEF Publish
  <2>3. pending'[s] = pending[s] \cup {m}
    BY <2>2 DEF Publish
  <2>4. Sends(s, m)
    BY <1>1, <1>2, <1>3, <2>1, <2>3 DEF Sends
  <2> QED
    BY <2>4 DEF SinkStep
<1>5. CASE s \notin SinksOf(mine)
  <2>1. Owed(s)' = Owed(s)
    BY <1>5 DEF Publish, Owed
  <2>2. pending'[s] \in {pending[s], pending[s] \cup {m}}
    BY DEF Publish
  <2>3. Rests(s)
    BY <1>1, <1>3, <2>1, <2>2 DEF Rests
  <2> QED
    BY <2>3 DEF SinkStep
<1> QED
  BY <1>4, <1>5

\* A consumer works on one sink, and what it refuses is kept if it was owed.
LEMMA WorkSteps ==
  ASSUME IInv, NEW t \in Sinks, NEW m \in Msgs, Work(t, m), NEW s \in Sinks
  PROVE  SinkStep(s)
<1> USE DEF Pending, Stored, Done, Dead
<1>1. Owed(s)' = Owed(s)
  BY DEF Owed, Work, Store, Finish, PutAside
<1>2. CASE s # t \/ m \notin Owed(s)
  <2>1. Rests(s)
    BY <1>1, <1>2 DEF IInv, TypeOK, Rests, Work, Store, Finish, PutAside
  <2> QED
    BY <2>1 DEF SinkStep
<1>3. CASE s = t /\ m \in Owed(s)
  <2>1. CASE Store(s, m)
    <3>1. Stores(s, m)
      BY <1>1, <1>3, <2>1 DEF IInv, TypeOK, Stores, Store
    <3> QED
      BY <3>1 DEF SinkStep
  <2>2. CASE Finish(s, m)
    <3>1. Finishes(s, m)
      BY <1>1, <1>3, <2>2 DEF IInv, TypeOK, Finishes, Finish
    <3> QED
      BY <3>1 DEF SinkStep
  <2>3. CASE PutAside(s, m)
    <3>1. DeadLetters(s)
      BY <1>3, ReadyMeans DEF IInv, OwedOK
    <3>2. PutsAside(s, m)
      BY <1>1, <1>3, <2>3, <3>1 DEF IInv, TypeOK, PutsAside, PutAside
    <3> QED
      BY <3>2 DEF SinkStep
  <2> QED
    BY <1>3, <2>1, <2>2, <2>3 DEF Work
<1> QED
  BY <1>2, <1>3

\* Nothing else is seen at a sink: what is deleted was not owed to anybody.
LEMMA OthersRest ==
  ASSUME IInv, NEW s \in Sinks,
         \/ UNCHANGED <<owed, queues>>
         \/ \E t \in Sinks : DeleteLegacy(t)
  PROVE  SinkStep(s)
<1> USE DEF Pending, Stored, Done, Dead
<1>1. CASE UNCHANGED <<owed, queues>>
  BY <1>1 DEF SinkStep, Rests, Owed, queues
<1>2. ASSUME NEW t \in Sinks, DeleteLegacy(t)
      PROVE  SinkStep(s)
  <2>1. Owed(t) = {} /\ Owed(s)' = Owed(s)
    BY <1>2 DEF IInv, OwedOK, Ready, DeleteLegacy, Owed
  <2>2. Rests(s)
    BY <1>2, <2>1 DEF IInv, TypeOK, Rests, DeleteLegacy
  <2> QED
    BY <2>2 DEF SinkStep
<1> QED
  BY <1>1, <1>2

\* Every step of the pipeline is one of AtLeastOnce at each sink, or none.
LEMMA EachSinkSteps == IInv /\ [Next]_vars => \A s \in Sinks : SinkStep(s)
<1> SUFFICES ASSUME IInv, [Next]_vars, NEW s \in Sinks
             PROVE  SinkStep(s)
  OBVIOUS
<1>1. CASE \E m \in Msgs : Publish(m)
  BY <1>1, PublishSends
<1>2. CASE \E t \in Sinks, m \in Msgs : Work(t, m)
  BY <1>2, WorkSteps
<1>3. CASE \E t \in Sinks : DeleteLegacy(t)
  BY <1>3, OthersRest
<1>4. CASE UNCHANGED <<owed, queues>>
  BY <1>4, OthersRest
<1> QED
  BY <1>1, <1>2, <1>3, <1>4
     DEF Next, vars, queues, ReceiverStart, Declare, Serve, ReceiverStop, ConsumerStart,
         Attach, Hang, ConsumerStop, Edit

\* A step of a sink is a step of its abstract specification.
LEMMA MysqlStep == SinkStep("mysql") => [Mysql!SinkNext]_(Mysql!sink)
<1> SUFFICES ASSUME SinkStep("mysql")
             PROVE  Mysql!SinkNext \/ UNCHANGED Mysql!sink
  OBVIOUS
<1> USE DEF Pending, Stored, Done, Dead
<1>1. ASSUME NEW m \in Msgs, Sends("mysql", m)
      PROVE  Mysql!SinkNext
  BY <1>1 DEF Sends, Mysql!SinkNext, Mysql!Send
<1>2. ASSUME NEW m \in Msgs, Stores("mysql", m)
      PROVE  Mysql!SinkNext
  <2>1. Mysql!Store({m})
    BY <1>2 DEF Stores, Mysql!Store
  <2>2. {m} \in SUBSET Pending("mysql")
    BY <1>2 DEF Stores
  <2> QED
    BY <2>1, <2>2 DEF Mysql!SinkNext
<1>3. ASSUME NEW m \in Msgs, Finishes("mysql", m)
      PROVE  Mysql!SinkNext
  BY <1>3 DEF Finishes, Mysql!SinkNext, Mysql!Finish
<1>4. ASSUME NEW m \in Msgs, PutsAside("mysql", m)
      PROVE  Mysql!SinkNext
  BY <1>4 DEF PutsAside, Mysql!SinkNext, Mysql!PutAside
<1>5. CASE Rests("mysql")
  BY <1>5 DEF Rests, Mysql!sink
<1> QED
  BY <1>1, <1>2, <1>3, <1>4, <1>5 DEF SinkStep

\* The same for PostgreSQL's instance.
LEMMA PostgresStep == SinkStep("postgres") => [Postgres!SinkNext]_(Postgres!sink)
<1> SUFFICES ASSUME SinkStep("postgres")
             PROVE  Postgres!SinkNext \/ UNCHANGED Postgres!sink
  OBVIOUS
<1> USE DEF Pending, Stored, Done, Dead
<1>1. ASSUME NEW m \in Msgs, Sends("postgres", m)
      PROVE  Postgres!SinkNext
  BY <1>1 DEF Sends, Postgres!SinkNext, Postgres!Send
<1>2. ASSUME NEW m \in Msgs, Stores("postgres", m)
      PROVE  Postgres!SinkNext
  <2>1. Postgres!Store({m})
    BY <1>2 DEF Stores, Postgres!Store
  <2>2. {m} \in SUBSET Pending("postgres")
    BY <1>2 DEF Stores
  <2> QED
    BY <2>1, <2>2 DEF Postgres!SinkNext
<1>3. ASSUME NEW m \in Msgs, Finishes("postgres", m)
      PROVE  Postgres!SinkNext
  BY <1>3 DEF Finishes, Postgres!SinkNext, Postgres!Finish
<1>4. ASSUME NEW m \in Msgs, PutsAside("postgres", m)
      PROVE  Postgres!SinkNext
  BY <1>4 DEF PutsAside, Postgres!SinkNext, Postgres!PutAside
<1>5. CASE Rests("postgres")
  BY <1>5 DEF Rests, Postgres!sink
<1> QED
  BY <1>1, <1>2, <1>3, <1>4, <1>5 DEF SinkStep

\* With any configuration and any order of starts, each sink implements AtLeastOnce
\* for the events it is owed.
THEOREM SinksAreSafe == Spec => SinksSafe
<1>1. Init => Mysql!SinkInit /\ Postgres!SinkInit
  BY DEF Init, Mysql!SinkInit, Postgres!SinkInit, Sinks
<1>2. IInv /\ [Next]_vars =>
        [Mysql!SinkNext]_(Mysql!sink) /\ [Postgres!SinkNext]_(Postgres!sink)
  BY EachSinkSteps, MysqlStep, PostgresStep DEF Sinks
<1> QED
  BY AlwaysIInv, <1>1, <1>2, PTL DEF Spec, SinksSafe, Mysql!SinkSpec, Postgres!SinkSpec
=============================================================================
