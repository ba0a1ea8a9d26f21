------------------------------- MODULE Ingest -------------------------------
(***************************************************************************)
(* The receiver: HTTP and TCP handlers that share one Redis duplicate      *)
(* filter and one RabbitMQ publisher (receiver.rs, tcp_listener.rs,        *)
(* dedup.rs, producer.rs).                                                 *)
(*                                                                         *)
(* A handler claims an event id with SET NX EX, publishes the message and  *)
(* waits for the broker's confirm; every await is a point where other      *)
(* handlers, the broker, the key's TTL or a fault may step in.  The key is *)
(* never given back, so the periods in which an id can be claimed are the  *)
(* windows between two expiries; a claim is an id and its window.          *)
(***************************************************************************)
EXTENDS Naturals, FiniteSets

CONSTANTS
  Ids,         \* ids of well-formed events
  NoId,        \* stands for an id that fails validation, or for no id at all
  Http, Tcp,   \* handler tasks: HTTP requests, TCP connections at one frame
  FaultSets,   \* environments: what may go wrong in one behaviour or another
  MaxExpiries  \* bound on how often the key of one id expires

AllFaults == {"redis",       \* the SET fails without effect
              "lost_reply",  \* the SET takes effect, its reply is lost
              "connection",  \* the AMQP connection breaks
              "nack",        \* the broker refuses a message
              "cancel",      \* an HTTP client goes away during its request
              "crash",       \* the receiver process dies and is restarted
              "expiry"}      \* a key reaches its TTL

ASSUME IngestAssumption ==
  /\ NoId \notin Ids
  /\ Http \cap Tcp = {}
  /\ FaultSets \subseteq SUBSET AllFaults
  /\ MaxExpiries \in Nat

VARIABLES
  up,       \* the receiver process is running
  chan,     \* AppState.producer.channel: "open" or "closed"
  at,       \* at[s]: the await the handler s is suspended in
  task,     \* task[s]: the claim the handler s works on
  keys,     \* Redis: ids whose key "dedup:<id>" exists
  expired,  \* expired[i]: how often the key of i has expired
  wire,     \* claims published and not yet handled by the broker
  queued,   \* claims the broker has put in the bound queues
  told,     \* told[i]: the answers clients have got for i
  faults    \* what may go wrong in this behaviour; no step changes it

vars == <<up, chan, at, task, keys, expired, wire, queued, told, faults>>

Slots  == Http \cup Tcp
Claim  == [id : Ids, window : Nat]
NoTask == [id |-> NoId, window |-> 0]
Status == {"202", "409", "422", "500", "503", "00"}
Points == {"idle", "dedup", "publish", "confirm", "acked", "nacked"}

\* The awaits that follow a successful SET NX.
Claimed == {"publish", "confirm", "acked", "nacked"}

TypeOK ==
  /\ up \in BOOLEAN
  /\ chan \in {"open", "closed"}
  /\ at \in [Slots -> Points]
  /\ task \in [Slots -> [id : Ids \cup {NoId}, window : Nat]]
  /\ \A s \in Slots : at[s] # "idle" => task[s].id \in Ids
  /\ keys \subseteq Ids
  /\ expired \in [Ids -> Nat]
  /\ wire \subseteq Claim
  /\ queued \subseteq Claim
  /\ told \in [Ids \cup {NoId} -> SUBSET Status]
  /\ faults \in FaultSets

Init ==
  /\ up = TRUE
  /\ chan = "open"
  /\ at = [s \in Slots |-> "idle"]
  /\ task = [s \in Slots |-> NoTask]
  /\ keys = {}
  /\ expired = [i \in Ids |-> 0]
  /\ wire = {}
  /\ queued = {}
  /\ told = [i \in Ids \cup {NoId} |-> {}]
  /\ faults \in FaultSets

-----------------------------------------------------------------------------
(* The handlers. *)

\* The handler s returns: an HTTP status, or the TCP frame's response, whose
\* code is "00" whatever happened to the event.
Answer(s, status) ==
  /\ told' = [told EXCEPT ![task[s].id] =
                @ \cup {IF s \in Http THEN status ELSE "00"}]
  /\ at' = [at EXCEPT ![s] = "idle"]
  /\ task' = [task EXCEPT ![s] = NoTask]

Receive(s, i) ==
  /\ up
  /\ at[s] = "idle"
  /\ at' = [at EXCEPT ![s] = "dedup"]
  /\ task' = [task EXCEPT ![s] = [id |-> i, window |-> 0]]
  /\ UNCHANGED <<up, chan, keys, expired, wire, queued, told, faults>>

\* validate_event fails, or the frame is too short or its id is blank: the
\* answer is given without Redis or RabbitMQ being asked.
Refuse(s) ==
  /\ up
  /\ at[s] = "idle"
  /\ Answer(s, "422")
  /\ UNCHANGED <<up, chan, keys, expired, wire, queued, faults>>

\* Mutant of ClaimId: SET without NX.
ClaimWithoutNx(s) ==
  /\ at[s] = "dedup"
  /\ keys' = keys \cup {task[s].id}
  /\ at' = [at EXCEPT ![s] = "publish"]
  /\ task' = [task EXCEPT ![s].window = expired[task[s].id]]
  /\ UNCHANGED <<up, chan, expired, wire, queued, told, faults>>

\* SET NX EX finds no key: is_new returns Ok(true).
ClaimId(s) ==
  /\ at[s] = "dedup"
  /\ task[s].id \notin keys
  /\ keys' = keys \cup {task[s].id}
  /\ at' = [at EXCEPT ![s] = "publish"]
  /\ task' = [task EXCEPT ![s].window = expired[task[s].id]]
  /\ UNCHANGED <<up, chan, expired, wire, queued, told, faults>>

\* Mutant of Duplicate: a reply without "OK" is not told from a new key.
DuplicateUnasked(s) ==
  /\ at[s] = "dedup"
  /\ Answer(s, "409")
  /\ UNCHANGED <<up, chan, keys, expired, wire, queued, faults>>

\* SET NX EX finds the key: is_new returns Ok(false).
Duplicate(s) ==
  /\ at[s] = "dedup"
  /\ task[s].id \in keys
  /\ Answer(s, "409")
  /\ UNCHANGED <<up, chan, keys, expired, wire, queued, faults>>

\* Mutant of DedupFails: the id is marked although the handler gives up.
DedupFailsMarked(s) ==
  /\ at[s] = "dedup"
  /\ faults \cap {"redis", "lost_reply"} # {}
  /\ keys' = keys \cup {task[s].id}
  /\ Answer(s, "503")
  /\ UNCHANGED <<up, chan, expired, wire, queued, faults>>

\* is_new returns Err; the SET may or may not have reached Redis.
DedupFails(s) ==
  /\ at[s] = "dedup"
  /\ \/ "redis" \in faults /\ keys' = keys
     \/ "lost_reply" \in faults /\ keys' = keys \cup {task[s].id}
  /\ Answer(s, "503")
  /\ UNCHANGED <<up, chan, expired, wire, queued, faults>>

\* basic_publish hands the message to the open channel.
Publish(s) ==
  /\ at[s] = "publish"
  /\ chan = "open"
  /\ wire' = wire \cup {task[s]}
  /\ at' = [at EXCEPT ![s] = "confirm"]
  /\ UNCHANGED <<up, chan, task, keys, expired, queued, told, faults>>

\* Mutant of PublishFails: a pending confirm does not notice the closed channel.
PublishFailsEarly(s) ==
  /\ at[s] = "publish"
  /\ chan = "closed"
  /\ Answer(s, "500")
  /\ UNCHANGED <<up, chan, keys, expired, wire, queued, faults>>

\* Mutant of PublishFails: the message is published again after an error.
PublishFailsAgain(s) ==
  /\ at[s] \in {"publish", "confirm"}
  /\ chan = "closed"
  /\ at' = [at EXCEPT ![s] = "publish"]
  /\ UNCHANGED <<up, chan, task, keys, expired, wire, queued, told, faults>>

\* publish returns Err: the channel is closed, before basic_publish or while
\* its confirm is pending.  The key stays set and nothing is rolled back.
PublishFails(s) ==
  /\ at[s] \in {"publish", "confirm"}
  /\ chan = "closed"
  /\ Answer(s, "500")
  /\ UNCHANGED <<up, chan, keys, expired, wire, queued, faults>>

\* Mutant of PublishOk: the confirm is not awaited.
PublishOkUnconfirmed(s) ==
  /\ at[s] \in {"confirm", "acked", "nacked"}
  /\ Answer(s, "202")
  /\ UNCHANGED <<up, chan, keys, expired, wire, queued, faults>>

\* publish returns Ok as soon as the confirm resolves; a broker's nack is an
\* Ok(Confirmation::Nack) that `confirm.await?` does not look at.
PublishOk(s) ==
  /\ at[s] \in {"acked", "nacked"}
  /\ Answer(s, "202")
  /\ UNCHANGED <<up, chan, keys, expired, wire, queued, faults>>

-----------------------------------------------------------------------------
(* The broker, Redis, and what goes wrong. *)

\* The handler that awaits the confirm of c gets it, if there is still one and
\* a channel to send it on.
Resolve(c, verdict) ==
  at' = [s \in Slots |-> IF chan = "open" /\ at[s] = "confirm" /\ task[s] = c
                           THEN verdict ELSE at[s]]

BrokerAcks(c) ==
  /\ c \in wire
  /\ wire' = wire \ {c}
  /\ queued' = queued \cup {c}
  /\ Resolve(c, "acked")
  /\ UNCHANGED <<up, chan, task, keys, expired, told, faults>>

BrokerNacks(c) ==
  /\ "nack" \in faults
  /\ c \in wire
  /\ wire' = wire \ {c}
  /\ Resolve(c, "nacked")
  /\ UNCHANGED <<up, chan, task, keys, expired, queued, told, faults>>

Expire(i) ==
  /\ "expiry" \in faults
  /\ i \in keys
  /\ expired[i] < MaxExpiries
  /\ keys' = keys \ {i}
  /\ expired' = [expired EXCEPT ![i] = @ + 1]
  /\ UNCHANGED <<up, chan, at, task, wire, queued, told, faults>>

\* Only connect() opens a channel, so it stays closed; the broker may still
\* handle some of what was on the wire.
ConnectionLost ==
  /\ "connection" \in faults
  /\ chan = "open"
  /\ chan' = "closed"
  /\ \E read \in SUBSET wire : wire' = read
  /\ UNCHANGED <<up, at, task, keys, expired, queued, told, faults>>

\* Mutant of Cancel: the slot of a dropped handler is not freed.
CancelHalfDone(s) ==
  /\ "cancel" \in faults
  /\ s \in Http
  /\ at[s] # "idle"
  /\ task' = [task EXCEPT ![s] = NoTask]
  /\ UNCHANGED <<up, chan, at, keys, expired, wire, queued, told, faults>>

\* hyper drops the handler's future; a SET that was sent still takes effect.
Cancel(s) ==
  /\ "cancel" \in faults
  /\ s \in Http
  /\ at[s] # "idle"
  /\ \/ keys' = keys
     \/ at[s] = "dedup" /\ keys' = keys \cup {task[s].id}
  /\ at' = [at EXCEPT ![s] = "idle"]
  /\ task' = [task EXCEPT ![s] = NoTask]
  /\ UNCHANGED <<up, chan, expired, wire, queued, told, faults>>

Crash ==
  /\ "crash" \in faults
  /\ up
  /\ up' = FALSE
  /\ \E set \in SUBSET {task[s].id : s \in {t \in Slots : at[t] = "dedup"}} :
       keys' = keys \cup set
  /\ \E read \in SUBSET wire : wire' = read
  /\ at' = [s \in Slots |-> "idle"]
  /\ task' = [s \in Slots |-> NoTask]
  /\ UNCHANGED <<chan, expired, queued, told, faults>>

\* systemd starts the process again; main connects to Redis and RabbitMQ.
Restart ==
  /\ ~up
  /\ up' = TRUE
  /\ chan' = "open"
  /\ UNCHANGED <<at, task, keys, expired, wire, queued, told, faults>>

Handler(s) ==
  \/ ClaimId(s) \/ Duplicate(s) \/ DedupFails(s)
  \/ Publish(s) \/ PublishFails(s) \/ PublishOk(s)

Broker(c) == BrokerAcks(c) \/ BrokerNacks(c)

Next ==
  \/ \E s \in Slots : \/ \E i \in Ids : Receive(s, i)
                      \/ Refuse(s) \/ Handler(s) \/ Cancel(s)
  \/ \E c \in wire : Broker(c)
  \/ \E i \in Ids : Expire(i)
  \/ ConnectionLost \/ Crash \/ Restart

Spec == Init /\ [][Next]_vars

\* The runtime polls every ready handler, Redis and the broker answer, and
\* systemd restarts the process.  Nothing is asked of clients or of faults.
Fairness ==
  /\ \A s \in Slots : WF_vars(Handler(s))
  /\ \A c \in [id : Ids, window : 0..MaxExpiries] : WF_vars(Broker(c))
  /\ WF_vars(Restart)

FairSpec == Spec /\ Fairness

-----------------------------------------------------------------------------
(* Properties. *)

Queued(i) == \E c \in queued : c.id = i

\* A party that still has the event i: a handler about to publish it, the
\* connection to the broker, or the queues.
Carried(c) ==
  \/ c \in wire \cup queued
  \/ \E s \in Slots : at[s] = "publish" /\ task[s] = c

Covered(i) == \E c \in [id : {i}, window : 0..expired[i]] : Carried(c)

\* dedup.rs: whatever requests, retries, cancellations, crashes and expiries
\* interleave, one claim has one carrier, so an event is enqueued at most once
\* between two expiries of its key.
OneCarrier ==
  /\ \A s, t \in Slots :
       (s # t /\ at[s] \in Claimed /\ at[t] \in Claimed) => task[s] # task[t]
  /\ \A s \in Slots : at[s] = "publish" => task[s] \notin wire \cup queued
  /\ wire \cap queued = {}

\* producer.rs: a client that was told 202 has its event in the queues, even if
\* the connection or the process fails later.
EveryAcceptIsQueued == \A i \in Ids : "202" \in told[i] => Queued(i)

\* API.md tells a client to treat 409 as success: the event it sent is in the
\* queues or on its way there in another handler.
EveryConflictIsCovered == \A i \in Ids : "409" \in told[i] => Covered(i)

\* A terminal that got its response does not send the frame again, so the
\* event must be in the queues or on its way there.
EveryTcpAnswerIsCovered == \A i \in Ids : "00" \in told[i] => Covered(i)

\* receiver.rs: whatever else goes wrong, a 202 is right unless the broker
\* refuses messages.
AcceptedIsQueued == "nack" \notin faults => EveryAcceptIsQueued

\* dedup.rs: a 409 is right if nothing happens but that Redis fails without
\* effect and that keys expire.
ConflictIsCovered ==
  faults \subseteq {"redis", "expiry"} => EveryConflictIsCovered

\* tcp_listener.rs: a terminal's answer is right if nothing happens but that
\* keys expire.
TcpAnswerIsCovered == faults \subseteq {"expiry"} => EveryTcpAnswerIsCovered

\* Claims whose SET NX was made: their window is over, or their key is still there.
IssuedClaims ==
  {c \in UNION {[id : {i}, window : 0..expired[i]] : i \in Ids} :
     c.window < expired[c.id] \/ c.id \in keys}

Publishing == {task[s] : s \in {t \in Slots : at[t] = "publish"}}

Filter == INSTANCE AtMostOnce WITH
  Claims  <- [id : Ids, window : 0..MaxExpiries],
  issued  <- IssuedClaims,
  pending <- Publishing \cup wire,
  queued  <- queued

\* dedup.rs, producer.rs: the filter and the publisher keep the promise of AtMostOnce
\* under every fault.  A claim is given out once, is queued once or never, and after it
\* was given up by an error, a cancellation or a crash no later step revives it.
ClaimedOnce == Filter!FilterSpec

\* No request hangs: whatever fails, the handler answers or is gone.
RequestEnds == \A s \in Slots : at[s] # "idle" ~> at[s] = "idle"

\* If nothing happens but that keys expire, an event that reached a handler
\* reaches the queues.
ReceivedIsQueued ==
  \A i \in Ids :
    (faults \subseteq {"expiry"} /\ \E s \in Slots : task[s].id = i)
      ~> Queued(i)
=============================================================================
