------------------------------ MODULE Pipeline ------------------------------
(***************************************************************************)
(* The three processes of a deployment and the queues between them: the     *)
(* receiver (main.rs), which declares the queues one call at a time         *)
(* (producer.rs) before it serves, and the two consumers, which are started *)
(* in any order, restarted by systemd, and read their own copy of .env at   *)
(* each start (config.rs).                                                  *)
(*                                                                          *)
(* Inside, a publish is what Ingest proves of it and a consumer is what     *)
(* AtLeastOnce says of MysqlConsumer and PostgresConsumer; messages that a  *)
(* consumer dies of are theirs.                                             *)
(***************************************************************************)
EXTENDS Integers, Sequences, FiniteSets

CONSTANTS
  Msgs,      \* messages that may be published
  Key,       \* Key[m]: what table_key holds
  Dated,     \* messages with a valid approval_date and hour
  MaxEdits,  \* bound on changes of .env
  MaxStops   \* bound on stops of the processes and lost connections together

Sinks == {"mysql", "postgres"}
Keys  == {"missing",  \* no key, as for every HTTP event, or an empty one
          "odd",      \* one with characters that are no ASCII letters or digits
          "plain"}

ASSUME PipelineAssumption ==
  /\ Key \in [Msgs -> Keys]
  /\ Dated \subseteq Msgs
  /\ MaxEdits \in Nat /\ MaxStops \in Nat

VARIABLES
  env,       \* .env: does it name a PostgreSQL server, do its values parse
  recv,      \* the receiver: "down", "connecting", "up", or "cut" from RabbitMQ
  mine,      \* cfg.postgres_url.is_some() of the receiver that was started last
  step,      \* calls of Producer::connect that have returned
  declared,  \* what RabbitMQ has: exchanges, queues and bindings
  legacy,    \* queues of an older release, declared without a dead letter exchange
  cons,      \* cons[s]: "down", "retry", "attached", "stuck" in a notification
  owed,      \* history: messages and the sinks their receiver was configured for
  pending, stored, done, dead,   \* AtLeastOnce, for each sink
  edits, stops

receiver == <<recv, mine, step>>
queues   == <<pending, stored, done, dead>>
vars == <<env, recv, mine, step, declared, legacy, cons, owed,
          pending, stored, done, dead, edits, stops>>

\* Producer::connect, call by call.  The queues are those of main: MySQL's, and
\* PostgreSQL's if its URL is known.
Calls == << <<"exchange", "events">>, <<"exchange", "events.dlq">>,
            <<"queue", "mysql">>,    <<"bind", "mysql">>,
            <<"dlq", "mysql">>,      <<"dlq bind", "mysql">>,
            <<"queue", "postgres">>, <<"bind", "postgres">>,
            <<"dlq", "postgres">>,   <<"dlq bind", "postgres">> >>

\* Mutant of LastCall: the first queue alone is declared.
LastCallFirst(postgres) == 6

\* Mutant of LastCall: the last dead letter queue is not bound.
LastCallUnbound(postgres) == IF postgres THEN 9 ELSE 5

LastCall(postgres) == IF postgres THEN 10 ELSE 6

SinksOf(postgres) == IF postgres THEN Sinks ELSE {"mysql"}

\* The process of s gets through Config::from_env and the `expect` of its URL.
Starts(s) == env.valid /\ s \in SinksOf(env.postgres)

\* RabbitMQ gives a copy of what the receiver publishes to s.
Copies(s) == {<<"queue", s>>, <<"bind", s>>}
Bound(s)  == Copies(s) \subseteq declared

\* What s refuses goes to its dead letter queue.
DeadLetters(s) ==
  /\ s \notin legacy
  /\ {<<"exchange", "events.dlq">>, <<"dlq", s>>, <<"dlq bind", s>>} \subseteq declared

\* Messages without a row: to_kicc_row and to_daily_row return None.
Rowless(s) ==
  IF s = "mysql" THEN {m \in Msgs : Key[m] # "plain"}
                 ELSE {m \in Msgs : Key[m] = "missing" \/ m \notin Dated}

TypeOK ==
  /\ env \in [postgres : BOOLEAN, valid : BOOLEAN]
  /\ recv \in {"down", "connecting", "up", "cut"}
  /\ mine \in BOOLEAN
  /\ step \in 0..LastCall(mine)
  /\ declared \subseteq {Calls[i] : i \in DOMAIN Calls}
  /\ legacy \subseteq Sinks
  /\ cons \in [Sinks -> {"down", "retry", "attached", "stuck"}]
  /\ owed \subseteq Msgs \X Sinks
  /\ pending \in [Sinks -> SUBSET Msgs] /\ stored \in [Sinks -> SUBSET Msgs]
  /\ done \in [Sinks -> SUBSET Msgs] /\ dead \in [Sinks -> SUBSET Msgs]
  /\ edits \in 0..MaxEdits /\ stops \in 0..MaxStops

Init ==
  /\ env \in [postgres : BOOLEAN, valid : BOOLEAN]
  /\ recv = "down" /\ mine = FALSE /\ step = 0
  /\ legacy \in SUBSET Sinks
  /\ declared = IF legacy = {} THEN {}
                ELSE {<<"exchange", "events">>} \cup UNION {Copies(s) : s \in legacy}
  /\ cons = [s \in Sinks |-> "down"]
  /\ owed = {}
  /\ pending = [s \in Sinks |-> {}] /\ stored = [s \in Sinks |-> {}]
  /\ done = [s \in Sinks |-> {}] /\ dead = [s \in Sinks |-> {}]
  /\ edits = 0 /\ stops = 0

-----------------------------------------------------------------------------
(* The receiver. *)

\* main reads .env and connects to Redis and RabbitMQ.
ReceiverStart ==
  /\ recv = "down"
  /\ env.valid
  /\ recv' = "connecting"
  /\ mine' = env.postgres
  /\ step' = 0
  /\ UNCHANGED <<env, declared, legacy, cons, owed, queues, edits, stops>>

\* Mutant of Declare: PostgreSQL's queue is declared whatever the configuration.
DeclareAll ==
  /\ recv = "connecting"
  /\ step < Len(Calls)
  /\ LET call == Calls[step + 1]
     IN  IF call[1] = "queue" /\ call[2] \in legacy
           THEN recv' = "down" /\ UNCHANGED <<step, declared>>
           ELSE /\ step' = step + 1
                /\ declared' = declared \cup {call}
                /\ UNCHANGED recv
  /\ UNCHANGED <<env, mine, legacy, cons, owed, queues, edits, stops>>

\* One more call of connect; each can be repeated, and a queue that was declared
\* without its arguments refuses them: 406, and main returns the error.
Declare ==
  /\ recv = "connecting"
  /\ step < LastCall(mine)
  /\ LET call == Calls[step + 1]
     IN  IF call[1] = "queue" /\ call[2] \in legacy
           THEN recv' = "down" /\ UNCHANGED <<step, declared>>
           ELSE /\ step' = step + 1
                /\ declared' = declared \cup {call}
                /\ UNCHANGED recv
  /\ UNCHANGED <<env, mine, legacy, cons, owed, queues, edits, stops>>

\* Mutant of Serve: the listeners are started before the queues are declared.
ServeEarly ==
  /\ recv = "connecting"
  /\ recv' = "up"
  /\ UNCHANGED <<env, mine, step, declared, legacy, cons, owed, queues, edits, stops>>

\* connect has returned: the listeners are started.
Serve ==
  /\ recv = "connecting"
  /\ step = LastCall(mine)
  /\ recv' = "up"
  /\ UNCHANGED <<env, mine, step, declared, legacy, cons, owed, queues, edits, stops>>

\* An event is published: the fanout exchange copies it to what is bound.
Publish(m) ==
  /\ recv = "up"
  /\ <<m, "mysql">> \notin owed
  /\ owed' = owed \cup ({m} \X SinksOf(mine))
  /\ pending' = [s \in Sinks |-> IF Bound(s) THEN pending[s] \cup {m} ELSE pending[s]]
  /\ UNCHANGED <<env, receiver, declared, legacy, cons, stored, done, dead, edits, stops>>

\* The process dies or is restarted at any point, or loses its connection to
\* RabbitMQ, which it does not make again.
ReceiverStop ==
  /\ stops < MaxStops
  /\ stops' = stops + 1
  /\ \/ recv # "down" /\ recv' = "down"
     \/ recv = "up" /\ recv' = "cut"
  /\ UNCHANGED <<env, mine, step, declared, legacy, cons, owed, queues, edits>>

-----------------------------------------------------------------------------
(* The consumers. *)

ConsumerStart(s) ==
  /\ cons[s] = "down"
  /\ Starts(s)
  /\ cons' = [cons EXCEPT ![s] = "retry"]
  /\ UNCHANGED <<env, receiver, declared, legacy, owed, queues, edits, stops>>

\* run consumes from its queue; without the queue it fails, and main calls it
\* again after 5 seconds.
Attach(s) ==
  /\ cons[s] = "retry"
  /\ <<"queue", s>> \in declared
  /\ cons' = [cons EXCEPT ![s] = "attached"]
  /\ UNCHANGED <<env, receiver, declared, legacy, owed, queues, edits, stops>>

Store(s, m) ==
  /\ cons[s] = "attached"
  /\ m \in pending[s] \ (Rowless(s) \cup stored[s])
  /\ stored' = [stored EXCEPT ![s] = @ \cup {m}]
  /\ UNCHANGED <<env, receiver, declared, legacy, cons, owed, pending, done, dead,
                 edits, stops>>

\* Mutant of Finish: a message is acknowledged when it is received.
FinishUnstored(s, m) ==
  /\ cons[s] = "attached"
  /\ m \in pending[s]
  /\ pending' = [pending EXCEPT ![s] = @ \ {m}]
  /\ done' = [done EXCEPT ![s] = @ \cup {m}]
  /\ UNCHANGED <<env, receiver, declared, legacy, cons, owed, stored, dead, edits, stops>>

\* The acknowledgement.
Finish(s, m) ==
  /\ cons[s] = "attached"
  /\ m \in pending[s] \cap (Rowless(s) \cup stored[s])
  /\ pending' = [pending EXCEPT ![s] = @ \ {m}]
  /\ done' = [done EXCEPT ![s] = @ \cup {m}]
  /\ UNCHANGED <<env, receiver, declared, legacy, cons, owed, stored, dead, edits, stops>>

\* The refusal after a failed write; where it goes is the queue's.
PutAside(s, m) ==
  /\ cons[s] = "attached"
  /\ m \in pending[s] \ Rowless(s)
  /\ pending' = [pending EXCEPT ![s] = @ \ {m}]
  /\ dead' = IF DeadLetters(s) THEN [dead EXCEPT ![s] = @ \cup {m}] ELSE dead
  /\ UNCHANGED <<env, receiver, declared, legacy, cons, owed, stored, done, edits, stops>>

Work(s, m) == Store(s, m) \/ Finish(s, m) \/ PutAside(s, m)

\* A notification never gets its answer.
Hang(s) ==
  /\ cons[s] = "attached"
  /\ cons' = [cons EXCEPT ![s] = "stuck"]
  /\ UNCHANGED <<env, receiver, declared, legacy, owed, queues, edits, stops>>

\* The process dies or is restarted, or its channel closes and run returns.
ConsumerStop(s) ==
  /\ stops < MaxStops
  /\ stops' = stops + 1
  /\ \/ cons[s] # "down" /\ cons' = [cons EXCEPT ![s] = "down"]
     \/ cons[s] = "attached" /\ cons' = [cons EXCEPT ![s] = "retry"]
  /\ UNCHANGED <<env, receiver, declared, legacy, owed, queues, edits>>

-----------------------------------------------------------------------------
(* The operator. *)

\* .env is edited; running processes keep what they have read.
Edit ==
  /\ edits < MaxEdits
  /\ edits' = edits + 1
  /\ env' \in [postgres : BOOLEAN, valid : BOOLEAN] \ {env}
  /\ UNCHANGED <<receiver, declared, legacy, cons, owed, queues, stops>>

\* An older release's queue is deleted, with what is in it; its consumer is
\* cancelled, and run returns.
DeleteLegacy(s) ==
  /\ s \in legacy
  /\ legacy' = legacy \ {s}
  /\ declared' = declared \ Copies(s)
  /\ pending' = [pending EXCEPT ![s] = {}]
  /\ cons' = [cons EXCEPT ![s] = IF @ = "attached" THEN "retry" ELSE @]
  /\ UNCHANGED <<env, receiver, owed, stored, done, dead, edits, stops>>

Next ==
  \/ ReceiverStart \/ Declare \/ Serve \/ ReceiverStop
  \/ \E m \in Msgs : Publish(m)
  \/ \E s \in Sinks :
       \/ ConsumerStart(s) \/ Attach(s) \/ Hang(s) \/ ConsumerStop(s)
       \/ \E m \in Msgs : Work(s, m)
       \/ DeleteLegacy(s)
  \/ Edit

Spec == Init /\ [][Next]_vars

\* systemd and the loops of the mains restart what has ended, and RabbitMQ and
\* the databases answer.  The operator and whoever sends events may stop.
Fairness ==
  /\ WF_vars(ReceiverStart) /\ WF_vars(Declare) /\ WF_vars(Serve)
  /\ \A s \in Sinks :
       /\ WF_vars(ConsumerStart(s)) /\ WF_vars(Attach(s))
       /\ \A m \in Msgs : WF_vars(Work(s, m))

FairSpec == Spec /\ Fairness

-----------------------------------------------------------------------------
(* Properties. *)

Owed(s) == {m \in Msgs : <<m, s>> \in owed}

\* An event that a receiver published is, at every sink that receiver was configured
\* for, waiting, in the database, in the dead letter queue, or discarded because it
\* has no row there: in whatever order processes started and stopped, and whatever
\* .env and the queues were before.
OwedIsKept ==
  \A s \in Sinks :
    Owed(s) \subseteq pending[s] \cup stored[s] \cup dead[s] \cup (done[s] \cap Rowless(s))

Mysql == INSTANCE AtLeastOnce WITH
  Ignored <- Rowless("mysql"),
  pending <- pending["mysql"] \cap Owed("mysql"),
  stored  <- stored["mysql"] \cap Owed("mysql"),
  done    <- done["mysql"] \cap Owed("mysql"),
  dead    <- dead["mysql"] \cap Owed("mysql")

Postgres == INSTANCE AtLeastOnce WITH
  Ignored <- Rowless("postgres"),
  pending <- pending["postgres"] \cap Owed("postgres"),
  stored  <- stored["postgres"] \cap Owed("postgres"),
  done    <- done["postgres"] \cap Owed("postgres"),
  dead    <- dead["postgres"] \cap Owed("postgres")

\* For the events it is owed, each sink keeps the promise of AtLeastOnce.
SinksSafe == Mysql!SinkSpec /\ Postgres!SinkSpec

\* A consumer finds its queue, whether it was started before the receiver or after
\* it, once the receiver is left running with its sink and .env is left alone.
ConsumersAttach ==
  \A s \in Sinks :
    <>[](Starts(s) /\ recv # "down" /\ s \in SinksOf(mine))
      => <>[](cons[s] \in {"attached", "stuck"})

\* What a sink is owed is settled, as long as its consumer can start and is not
\* stuck.
EventsSettle ==
  \A s \in Sinks, m \in Msgs :
    <>[]Starts(s) =>
      (<<m, s>> \in owed ~> m \in done[s] \cup dead[s] \/ cons[s] = "stuck")
=============================================================================
