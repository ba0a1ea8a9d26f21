# Verification of realtime-ingestion

TLA+ models of the receiver's handlers, its TCP connections and their limits, the
two database consumers, and the deployment that composes them; the TLC runs that
check them on small instances; and proofs of their main invariants for every size
of the system.

    tlc -workers 2 -config MCIngest.cfg MCIngest      # one run
    tlapm IngestProofs.tla                            # one module of proofs

## 1. The system

    HTTP clients --> axum: body limit, rate limit, API key --> handle_event --+
                                                                              |
    POS terminals -> accept loop, ConnectionTracker -> handle_connection      |
                                                        -> process_frame -----+
                                                                              |
              Redis  SET dedup:<id> NX EX ttl  <-- DedupChecker::is_new <-----+
                                                                              |
              RabbitMQ fanout exchange         <-- Producer::publish    <-----+
                 |                       |
          queue.transactions      queue.analytics        (each with its DLQ)
                 |                       |
          MySQL consumer          PostgreSQL consumer
          INSERT kicc_b<no>       UPSERT kicc_daily_totals

Three processes, each restarted by systemd: the receiver (`main.rs`) and the two
consumers (`bin/consumer_*.rs`). They share nothing but the broker.

| Component | Source | State | Operations | Talks to |
|---|---|---|---|---|
| Event handlers | `receiver.rs`, `tcp_listener.rs` | none of their own; a task per request or connection | `handle_event`, `process_frame` | filter, publisher |
| Duplicate filter | `dedup.rs` | keys in Redis with a TTL | `is_new` | Redis |
| Publisher | `producer.rs` | one AMQP channel, opened once | `connect`, `publish` | RabbitMQ |
| TCP connection limits | `security.rs` 94-157, `tcp_listener.rs` 21-82 | atomic `total`, map `per_ip` | `acquire`, `release` in a guard's drop | accept loop, connection tasks |
| TCP framing | `tcp_listener.rs` 88-281 | a buffer per connection | `extract_frame`, `build_response`, idle timeout | handlers |
| HTTP gate | `security.rs` 30-86, `main.rs` 131-181 | a rate limiter per IP | three layers | handlers |
| Frame parser, masking | `parser.rs`, `security.rs` 165-185 | none | `parse_frame` | handlers |
| MySQL consumer | `consumer/mysql.rs` | two vectors, an AMQP channel | `run`, `flush` | its queue, MySQL, Telegram |
| PostgreSQL consumer | `consumer/postgres.rs` | two vectors, an AMQP channel | `run`, `flush` | its queue, PostgreSQL, Telegram |
| Notifications | `telegram.rs` | none | `notify`, without a timeout | Telegram |
| Supervision | `main.rs`, `bin/*.rs`, `systemd/` | none | restart loops with a pause of 5 s | all |
| Configuration | `config.rs` | none; read from `.env` at each start of each process | `from_env` | all |
| Logs, types, schema | `logger.rs`, `models.rs`, `migrations/` | one file under a mutex | | |

What is hard about it, and what makes each part correct:

- **Handlers, filter, publisher.** The id is claimed *before* the message is
  published and is never given back. Between the two lie an await in which the
  client may go away, the process may die, the key may expire or the connection
  may break, and another handler may ask for the same id. Correct means: one
  enqueueing per window of an id, a 202 only for a queued event, a 409 and a
  terminal's "00" only for an event that is queued or on its way, and an answer
  to every request.
- **Connection limits.** Two objects, an atomic and a sharded map, are updated
  one after the other by an accept loop and by dropped guards on other threads.
  Correct means: the counter is exact and never wraps, the limits hold, a peer is
  not refused without reason, and no lock is waited for in vain.
- **TCP framing.** Two formats are told apart by four bytes, a frame may come in
  any number of pieces, several frames in one, and answers carry no number. Resets,
  the idle timeout and the end of the stream cut all this anywhere. Correct means:
  handlers get the payloads that were sent, answers come in the order of the
  frames, no complete frame waits for more bytes, a buffer stays small, and every
  connection ends.
- **Consumers.** Deliveries are settled after the database has answered.
  Channels and processes go at any await, the database's answer may be lost, the
  interval may fire on a dead channel. Correct means: no delivery is acknowledged
  before it is stored, none is forgotten (its place in the prefetch window would
  be lost), every one is settled in the end, and nothing is stored twice or added
  twice as long as only statements fail. A message can also make the conversion
  panic, which takes the process and its whole buffer with it.
- **Deployment.** The receiver alone declares the queues, one call after the other,
  and may die between two of them; consumers may be started first; each process
  has the `.env` of its own start. Correct means: an event that was answered is kept
  at every sink its receiver was configured for, and a consumer finds its queue.

`PROJECT.json` lists every hazard with its line and the properties aimed at it.

## 2. The modules

| Module | Models | Kind |
|---|---|---|
| `Ingest` | handlers, duplicate filter, publisher, and their environment | component, implements `AtMostOnce` |
| `AtMostOnce` | what the duplicate filter and the publisher promise | abstract specification |
| `IngestProofs` | its theorems and the refinement | proofs |
| `ConnectionTracker` | the tracker, the accept loop and its restart | component |
| `ConnectionTrackerProofs` | its five theorems | proofs |
| `TcpConnection` | the tasks of a terminal's connections, and the terminal | component, implements `FrameServer` |
| `FrameServer` | what a terminal may rely on over all its connections | abstract specification |
| `TcpConnectionProofs` | its theorems and the refinement | proofs |
| `AtLeastOnce` | what a queue with its consumer promises | abstract specification |
| `WorkQueue` | one queue, its consumer's channel, prefetch, acknowledgements | external part, extended by both consumers |
| `MysqlConsumer` | `consumer/mysql.rs` over `WorkQueue` | component, implements `AtLeastOnce` |
| `MysqlConsumerProofs` | its theorems and the refinement | proofs |
| `PostgresConsumer` | `consumer/postgres.rs` over `WorkQueue` | component, implements `AtLeastOnce` |
| `PostgresConsumerProofs` | its theorems and the refinement | proofs |
| `Pipeline` | the three processes, the topology in RabbitMQ, `.env`, both sinks | composition, implements `AtLeastOnce` twice |
| `PipelineProofs` | its theorems and both refinements | proofs |
| `MCIngest`, `MCConnectionTracker`, `MCTcpConnection`, `MCMysqlConsumer`, `MCPostgresConsumer`, `MCPipeline` | constants for TLC | instances |

How they fit together: `TcpConnection` hands a frame to `process_frame` and takes it
back answered, `Ingest` is what happens between, up to the broker's confirm.
`Pipeline` starts at a confirmed publish and replaces each consumer by `AtLeastOnce`,
which `MysqlConsumer` and `PostgresConsumer` are shown to implement.

### Ingest

A handler is a value `at[s]`: the await it is suspended in.

| Value | Where in the code |
|---|---|
| `idle` | no request; for TCP, before the next frame |
| `dedup` | `query_async(..).await`, dedup.rs 65 |
| `publish` | the claim succeeded, before `basic_publish`, producer.rs 139 |
| `confirm` | `confirm.await?`, producer.rs 155 |
| `acked`, `nacked` | the confirm has resolved, the handler has not run yet |

What lies between two awaits is one action, down to the answer: `ClaimId`,
`Duplicate` and `DedupFails` are the outcomes of `is_new`; `Publish`,
`PublishFails` and `PublishOk` those of `publish`. `Refuse` stands for an event
that fails validation and for a frame that cannot be parsed: neither reaches
Redis. HTTP and TCP handlers differ in `Answer` only: process_frame drops the
outcome and answers "00". The key of an id can be claimed once between two
expiries, so a *claim* is an id and the number of expiries before it; `wire` and
`queued` are sets of claims. `told` is a history of answers.

What may fail is the set `faults`, which no step changes: it is chosen at the start
from the constant `FaultSets`, so that one run covers several environments, and
the properties that do not hold in every environment name theirs in `faults`:

- `redis`, `lost_reply`: the SET fails, before or after it took effect;
- `connection`: the AMQP connection breaks. `connect` is called once, so it stays
  so until the process is restarted, and the broker may have read a part of what
  was on the wire;
- `nack`: the broker refuses a message;
- `cancel`: an HTTP client goes away and hyper drops the handler. A TCP task is
  not cancelled: it notices a lost peer when it writes;
- `crash`: the process dies; `expiry`: a key reaches its TTL, at any time, because
  nothing in the code bounds how long a publish takes.

### ConnectionTracker

The accept loop is one task (`lis`), so there is one `acquire` at a time. `acquire`
holds the write lock of the peer's entry from `or_insert` to its return, over the
`fetch_add` and the comparison: `Begin`, then `Admit`, or `Overshoot` and `Undo`.
A guard's drop runs on another thread, in three steps: `Drop` (the atomic),
`Decrement` (`get_mut`, which takes and gives back the entry's lock) and `Remove`
(`per_ip.remove`, which takes it again). The locks are per peer here and per shard
in DashMap: with locks per peer more steps interleave. `AcceptError` and `Rebind`
are the restart loop of main: `start` returns on any accept error and the next
call makes a new tracker, while the connections of the old one go on.

### TcpConnection

Bytes are positions of the terminal's stream: the buffer of the task is the
interval from `pos` to `taken`, and `drain` and `clear` move `pos`. What the code reads from
bytes is a part of the stream: `head[p]` is what the four bytes from `p` on parse to,
`NoHeader` if they are not all digits; `odd` has the payloads whose type, trimmed,
makes `copy_from_slice` panic. The terminal's own view, `units` and `fixed`, is used by the
properties and by the terminal alone, never by the task.

| Action | Code (tcp_listener.rs) |
|---|---|
| `Read` | `read` returns up to 4096 bytes; `extract_frame` on the longer buffer, 105-130 |
| `Extract` | `extract_frame`, 242-281, branch by branch: too short, 0000, too large, incomplete, complete; with a header and without |
| `Process`, `Panic` | `process_frame`, with whatever answer; the panic of line 225 |
| `Write` | `write_all`, and `extract_frame` again, 144 and 130 |
| `Timeout`, `Eof` | 107-110, 113-125: `handle_connection` returns, the guard goes |
| `Reset` | `read` or `write_all` fails, 106 and 144-147; the guard goes at once, or after `notify`, 62-78 |
| `NotifyEnds` | `notify` comes back, or never (telegram.rs 18-41) |
| `Arrive`, `Collect`, `Shutdown`, `Reconnect` | the terminal: external |

Both sockets are finite: `InCap` bytes for the task, `OutCap` answers for the terminal. A
terminal that loses its connection opens another and begins with the first unit
it has no answer for. That is external, and what a terminal without sequence
numbers can do: it is why the order of the answers matters.

An error of any other kind than a reset or an abort makes the task of the lost connection
wait for `notify`, if there is a Notifier, before it drops its guard. `notifying` counts
such tasks; they keep the place of a connection that is gone, while the terminal is
back on another. `kept` counts those whose notification is never answered: `notify`
has no timeout, so their places are not given back. Whether `acquire` still admits the
terminal is not asked here: the guards of `ConnectionTracker` are held as long as they like.

### WorkQueue, MysqlConsumer, PostgresConsumer

`WorkQueue` has the queue (`ready`), what is delivered and not settled (`unacked`),
what is gone (`acked`), the dead letter queue (`dlq`) and the channel. An
acknowledgement reaches the broker only on an open channel; the consumers ignore
its result. When the channel goes, the broker puts `unacked` back.

A consumer is a `phase`, again the await it is suspended in, and the places a
delivery can be in:

    inbox (the stream) -> buffer (the vectors) -> MySQL:      groups -> group
                                                  PostgreSQL: discard, group

The select loop is `Take`, `Tick` and `End` in phase `loop`, in any order, as
`select!` picks a ready branch at random. `flush` is the rest: for MySQL one
INSERT per table in the arbitrary order of a HashMap (`NextGroup`, `InsertOk` or
`InsertFails`), and after each the deliveries of that group one by one (`AckOne`,
or `Notify` and then `NackOne`); for PostgreSQL the messages without a row first
(`DiscardOne`), then one UPSERT. `run` ends in phase `loop` only: while a flush is
running nobody reads the stream. So a channel can be gone while its deliveries
are still being stored and settled, in vain; the models have these states.

Which row of `kicc_daily_totals` a message belongs to is the parameter `RowOf`: the key
has the terminal, the shop and the hour of the approval, although the comment at
consumer/postgres.rs 10 says that its time is midnight (KST) and line 53 takes the hour. A
PostgreSQL message stands for a count of 1 in one of the buckets of its row;
amounts are added by the same statement in the same columns. The bucket `cash`
is 0 in the code and left out.

`Poison` is a set of messages whose date or time has a character of several bytes where
the code cuts by byte (mysql.rs 67, postgres.rs 53). `Panic` ends the process (tokio's
main unwinds), with everything it holds: for MySQL when the delivery is taken from
the stream, for PostgreSQL in the middle of a flush, after some messages without
a row have been acknowledged (`FlushPhase`). Systemd starts the process again, and
the broker delivers the message again. A panic is not a fault and has no bound.

Faults: `db` (the statement fails), `db_reply` (it commits and its reply is lost),
`telegram` (a notification without an answer: `notify` has no timeout), `channel`,
`crash`. `MaxLosses` bounds channel losses and crashes together.

### Pipeline

| State | Code |
|---|---|
| `env` | what `Config::from_env` would find: a PostgreSQL URL or none, values that parse or not |
| `recv`, `mine`, `step` | the receiver: `main` up to `Producer::connect`, call by call of producer.rs 69-117, then the listeners; `mine` is `cfg.postgres_url.is_some()` of that start |
| `declared`, `legacy` | exchanges, queues and bindings in RabbitMQ; queues of an older release, which answer 406 (producer.rs 55-56) |
| `cons` | each consumer: the process, its restart loop of 5 seconds (`retry`), consuming, or stuck in a notification |
| `owed` | history: who was promised what, when it was published |
| `pending`, `stored`, `done`, `dead` | `AtLeastOnce` for each sink |

A publish copies an event to every queue that is *bound* at that moment; it is owed
to every sink the running receiver is *configured for*. That the second is always
covered by the first is the point of the module, and rests on the order in `main`:
nothing is served before `connect` has returned. A refused message goes to the dead letter
queue if queue, binding and exchange for it exist, and is dropped otherwise.
`Rowless` has the two conversions' different ideas of a row: a key that is not
alphanumeric is a row for PostgreSQL only (mysql.rs 78), an invalid date is one for
MySQL only (postgres.rs 79-82).

The operator edits `.env` and deletes queues of an older release at any time, also
while messages are in them; those were not owed to anybody, since a receiver that
needs such a queue does not come up. Messages that a consumer dies of are left to
the consumers' own modules.

## 3. The runs

One passing run per module, and one run per disagreement between the code and what
is written about it.

| Run | Properties | Bounds |
|---|---|---|
| `MCIngest` | `TypeOK`, `OneCarrier`, `AcceptedIsQueued`, `ConflictIsCovered`, `TcpAnswerIsCovered`, `ClaimedOnce`, `RequestEnds`, `ReceivedIsQueued` | 1 id, 2 HTTP, 1 TCP, 1 expiry; four fault sets; fair |
| `MCConnectionTracker` | `TypeOK`, `TotalIsExact`, `TotalBound`, `NeverOvercounted`, `RefusedWhenFull`, `GuardsReturn` | 2 peers, 3 connections, 2 trackers, limits 2 and 2; fair |
| `MCTcpConnection` | `TypeOK`, `FramesAsSent`, `AnswersInOrder`, `NoFrameWaits`, `BufferBounded`, `InOrderService`, `Answered`, `ConnectionEnds` | 8 streams of 3 or 4 units and 11 to 17 bytes, header 2, fixed frame 4, reads of 6, 1 answer in the socket, 1 loss; fair |
| `MCMysqlConsumer` | `TypeOK`, `NoneForgotten`, `StagesDisjoint`, `AckedIsStored`, `RowsPerLoss`, `SinkSafe`, `Settles` | 6 messages, 2 tables, batch 2, window 4, all faults, 1 loss; fair |
| `MCPostgresConsumer` | `TypeOK`, `NoneForgotten`, `AckedIsCounted`, `TotalsPerLoss`, `SinkSafe`, `Settles` | 6 messages, 2 rows, batch 2, window 4, all faults, 1 loss; fair |
| `MCPipeline` | `TypeOK`, `OwedIsKept`, `SinksSafe`, `ConsumersAttach`, `EventsSettle` | 1 message that is a row for PostgreSQL only, 2 changes of `.env`, 2 stops, any older queues; fair |

The larger ones take one to three minutes and have between 200,000 and 880,000
states.

What they do not show, hazard by hazard: `ConflictIsCovered` says nothing of the three ways
in which a claim outlives its event (a broken connection, a lost reply, a cancelled
handler), `TcpAnswerIsCovered` nothing of a "00" after a failure, `NoneForgotten` and `Settles`
nothing of a consumer that is stuck in a notification or has a window smaller than its
batch. `PROJECT.json` has a note at each.

What the properties of `Ingest` claim, and where:

| Property | Claim | Environments |
|---|---|---|
| `OneCarrier` | a claim has one carrier: a handler, the wire or the queues | all |
| `AcceptedIsQueued` | a 202 only for a queued event | the broker refuses nothing |
| `ConflictIsCovered` | a 409 only for an event that is queued or on its way | Redis errors and expiries |
| `TcpAnswerIsCovered` | the same of a terminal's "00" | expiries |
| `ClaimedOnce` | `AtMostOnce`: a claim is given out once, queued once or never, and not revived after it was given up | all |
| `RequestEnds` | every request ends | all |
| `ReceivedIsQueued` | an event that was received gets to the queues | expiries |

Those of `TcpConnection`, for a stream that is `Clean`: its units are what `extract_frame`
takes them for, and none is too large.

| Property | Claim | Streams |
|---|---|---|
| `FramesAsSent` | the handlers get the payloads that were sent, and nothing else | clean |
| `AnswersInOrder` | no answer before the one to an earlier frame, over all connections | clean |
| `NoFrameWaits` | while the task reads, a complete frame is in its buffer only right behind a unit that is a bare header 0000 | clean, with any payloads |
| `BufferBounded` | between two reads less than one frame is kept, except right behind bytes taken off as a header 0000 | any bytes |
| `InOrderService` | `FrameServer`: frames are served one at a time and in order, answers come behind them, and no answered frame is served again | clean |
| `Answered` | every frame is answered in the end, if each connection is admitted | clean, the terminal reads, no type panics |
| `ConnectionEnds` | every task ends and drops its guard, but for one in `write_all` with a terminal that does not read, and one whose notification is never answered | all |

`RefusedWhenFull` is what a peer sees of the tracker's counter: it is refused for the
server's limit only while exactly that many connections are open, although a refusal
itself raises the counter for a moment and releases run beside it. A refusal for the
peer's limit changes no variable, so no step shows it; `NeverOvercounted` is what makes it
just.

Those of `Pipeline`: `OwedIsKept` and `SinksSafe` are unconditional. `ConsumersAttach` assumes
that in the end the receiver runs with the sink configured; `EventsSettle` that the
consumer of the sink can start. Both say nothing about a process that somebody
keeps stopping.

Runs that show a property violated, each with the line that promises it:

| Run | Property | What the trace shows | Promised by |
|---|---|---|---|
| `IngestNack` | `EveryAcceptIsQueued` | 202 for a message the broker refused | producer.rs 133 |
| `IngestConflict` | `EveryConflictIsCovered` | publish fails, the retry gets 409, the event is nowhere | API.md 78, 93 |
| `TrackerPerIp` | `PerIpBound` | `remove` deletes an entry that was counted up after its lock was dropped | security.rs 113-114, API.md 201 |
| `TcpZeroHeader` | `DiscardedIsIncomplete` | a complete frame behind a header 0000 is discarded at the end of the stream | tcp_listener.rs 119, 87 |
| `MysqlDuplicates` | `StoredOnce` | crash between INSERT and ack, the row is inserted twice | producer.rs 27 |
| `PostgresPoison` | `EveryMessageSettles` | a time with a cut character ends the process at each delivery, and its batch with it | consumer/postgres.rs 245 |

`EveryConflictIsCovered` fails in the same way with the fault `lost_reply` (the SET took
effect, its caller gets 503, the retry 409) and with `cancel` (the client goes away
between claim and publish); one run stands for the three. The receiver's comment at
receiver.rs 133-135 names such a lost event as a known trade-off; the API
document tells clients the opposite.

**Observed without a run of its own:**

- A terminal whose event could not be published is answered "00" all the same
  (tcp_listener.rs 193), and does not send again. `TcpAnswerIsCovered` therefore claims
  nothing for a behaviour in which Redis or the connection fails.
- A publish that fails is answered with 500, a status that the table at API.md 87-97
  does not have.
- The limits of connections are per run of the listener: `start` makes a new tracker,
  while the connections of the run before go on. `TotalBound` is about one tracker.
- The UPSERT is repeated after a crash as the INSERT is: `TotalsPerLoss` allows one
  repetition per loss, and the trace of `MysqlDuplicates` has its counterpart there.
- A prefetch that wraps at 16 bits can be smaller than a batch, so that only the
  interval empties the buffer. Safety is proved for every window; the run has the
  window of two batches.
- A stream of headers 0000 makes the buffer of a connection grow: one header is
  drained for each read, and a read may bring a thousand.
- A terminal whose frame makes `build_response` panic has its event published, never
  gets an answer, and meets the same panic with each new connection.
- A frame without a header that begins with four digits is taken for one with a
  header (line 247), and a header that is too large makes the rest of its frame the
  start of the next (line 255): what follows on that connection is misread.
- A terminal that sends everything before it reads anything, with small sockets, and
  the task in `write_all` wait for each other without a limit.
- If the PostgreSQL URL is removed, its queue stays bound and grows without a consumer.
  If it is added and only the consumer is restarted, that consumer tries every 5
  seconds until the receiver is restarted too, and events of the meantime are not in
  PostgreSQL. Without the URL the consumer's process panics and is restarted every 5
  seconds; config.rs 155 calls it disabled.
- A message that is refused while its queue has no dead letter queue yet, after a
  `connect` that was cut short, is dropped. `OwedIsKept` holds: such a
  message was published by a receiver without that sink, and is owed there to nobody.
- An HTTP event has no table key (receiver.rs 128): it is answered 202, queued, and
  discarded by both consumers.
- The consumers need `EASYPOS_SECRET_KEY`, which only the receiver uses.
- consumer_postgres.rs 3 says that the events go to `event_analytics`; the code writes
  `kicc_daily_totals`. Its key has the hour of the approval, where the comment at
  consumer/postgres.rs 10 says that its time is midnight.
- tcp_listener.rs 7 calls the type 0200 a cancel request; consumer/postgres.rs 15 and 93
  count it as card. The model follows the code.
- API.md gives other defaults for the HTTP limits than config.rs 241-249.

**Why the bounds are enough.** Two handlers are needed for a race over an id, and
the third lets HTTP and TCP meet. Ids do not interact: keys, claims and answers of
two ids share only the channel, which breaks for one as for two. One expiry
separates two windows of the id. Three connections with a limit of two reach the
limit, overshoot it and race a drop; two trackers are one old and one new. Six
messages with a batch of two fill a batch by size, leave a rest to the interval,
and include one of each kind (a row, garbage, a message without a row); two tables
make one group fail and the other succeed; the sixth message makes its conversion
panic. `MinPrefetch` is 3 instead of 50, so the
window of 4 is smaller than what can arrive and can be full. One loss is enough for a
delivery to be held by a dead flush and to be delivered again. All limits are far
below their defaults on purpose; the theorems have them arbitrary.

`TcpConnection`: a read returns up to 6 bytes, so it can end anywhere in a frame and can
hold two frames and a piece of a third. The streams have the two formats mixed,
a format without a header whose inner bytes look like one, a header 0000 in the
middle, a header that is too large with two kinds of bytes behind it, a fixed frame
that is too large, one that is taken for a header, and a type that panics; a frame
of one byte is too short to be parsed. One socket slot for answers makes `write_all`
wait. One loss is enough for a connection that is cut at every byte and one that
begins again from there. `Pipeline`: events meet only in the queues' order, which nothing
depends on; one event that one sink stores and the other discards shows both
outcomes. The same holds with two events and one stop, which was run once (582,000 states). Two
stops let the receiver die inside `connect` and a consumer beside it; two changes of
`.env` let the three processes have three configurations.

**Fairness.** `Ingest`: tokio polls a task whose await is ready, so each handler has
weak fairness; Redis answers or fails, the broker handles what it has read, and
systemd restarts the process (`Restart=always`). Nothing is assumed of clients or
of faults. A confirm that neither comes nor fails, which a broker that blocks its
publishers can cause, is excluded by this, and `publish` has no timeout for it.
`ConnectionTracker`: `acquire` and `release` have no await and run to their end; the
lock that `release` waits for is held for a few instructions at a time, hence
strong fairness for `Release`. Consumers: the broker delivers, the interval ticks,
databases and Telegram answer (with an error, if not otherwise), and main or
systemd restart what ended. With the fault `telegram` a notification may get no
answer, and `notify` has no timeout: the consumer then waits in phase `stuck` for
ever. `Settles` excepts that phase, and the two runs with that fault do not check
for deadlock, since a stuck consumer comes to one in the end. It also excepts a
consumer that still has a poisoned message: it dies again and again, and nothing
else is sure to be settled. `TcpConnection`: the task and its timer run, the network
delivers, and the terminal reads and comes back while an answer is missing; nothing
makes it shut down. `NotifyEnds` is fair too, and one of its outcomes is that the
answer never comes, so nothing is assumed of Telegram. `Pipeline`: systemd and the restart loops of the mains start what can
start, `connect` goes on, the databases answer. Nothing is assumed of the operator.

## 4. The proofs

Everything below is proved for arbitrary sets and bounds, under the assumptions
named in the modules (`IngestAssumption`, `TrackerAssumption`,
`ConsumerAssumption`, `ConnectionAssumption`, `PipelineAssumption`), which give the constants
their types; `ConnectionAssumption` also says that a stream is cut into units that
follow each other, which is what a terminal sends, and that a fixed frame is at
least as long as a header.

**IngestProofs.** `IInv` is `TypeOK`, `AtRest` (an idle handler has no claim, and a
handler before its claim has window 0), `UsedIsIssued` and `OneCarrier`.
`OneCarrier` is not inductive alone: that `ClaimId` makes a new claim needs
`UsedIsIssued`, which ties claims to expiries. Every claim in a handler, on the
wire or in the queues has a window up to `expired[id]`, and one of the current
window exists only while the key does. From `IInv`:
`TypeCorrect` and `ClaimsAreUnique` (every fault). The condition of the next three on
`faults` is a part of the property, and a fact about the whole behaviour by
`FaultsAreFixed`: `AcceptedEventsAreQueued` (the broker refuses nothing), through
`AckIsQueued`: what a handler was acknowledged is queued; `ConflictsAreCovered` (only
`redis` and `expiry` happen), through `NothingDropped`: every claim a handler holds,
and every window that was issued, is still carried; `TcpAnswersAreCovered` (only `expiry`
happens), through `AnsweredIsClaimed`: without errors a handler answers only about an
id that somebody has claimed.

`ReceiverKeepsFilterPromise` (`ClaimedOnce`) holds under every fault. The mapping takes

    issued  <- IssuedClaims: claims whose window is over or whose key is set
    pending <- claims of handlers before basic_publish, and the wire
    queued  <- queued

so that `ClaimId` is `Issue`, `BrokerAcks` is `Enqueue`, and every other step is a `Forget`
or not seen: an error, a cancellation or a crash gives messages up, and a SET whose reply
was lost issues a claim to nobody. `WindowsOf` says which claims `IssuedClaims` has; that
an expiry changes none of them, since it ends a window and deletes its key at once, is
the lemma `IssuedStays`. `IInv` gives the rest: what a handler claims was never issued
(`UsedIsIssued`), and what the broker queues no handler is about to publish again
(`OneCarrier`). `GivenUpForGood` follows from the same steps: a claim that was given out and
has neither a carrier nor a place in the queues stays like that. It is the other side of the
violation `EveryConflictIsCovered`: what such a fault loses, no later step makes good.

**ConnectionTrackerProofs.** `TotalInv` is `TypeOK` and `TotalIsExact`, which need
each other: a decrement stays in `Nat` because the guard it is for is counted. With
`CurIsFree` (the connection being admitted has no guard yet) it gives
`TypeCorrect` and `CounterIsExact`; `ServerLimitPerTracker` and
`PeersAreNotOvercounted` follow by an induction of their own, on the cardinality of
the guards held. `RefusalsNeedAFullServer` (`RefusedWhenFull`) combines `CounterIsExact`
and `ServerLimitPerTracker`: what `acquire` decides by is what is open. The limit per
peer is *not* a theorem: `TrackerPerIp` refutes it.

**TcpConnectionProofs.** Two parts make the properties inductive. `Aligned`: the buffer
begins where a unit does, and the frame in hand is a unit as it was sent. `Answers`:
every frame before the frame in hand, or before the buffer, has its answer with the
terminal or on the way, and what is on the way is complete from below; so a
connection that is cut, of which the first answers may still arrive, leaves the
terminal with a complete beginning. Both hold for clean streams; `BufferBounded` needs
neither and is proved for any bytes. From `IInv`: `TypeCorrect`, `FramesAreAsSent`,
`AnswersStayInOrder`, `NoFrameIsLeft`, `BufferIsBounded`. The exception of the last two is a
state, not a kind of stream: `NoFrameIsLeft` asks whether the unit just before the buffer
is a bare header of 0, and does not look at what payloads hold.

`FramesAreServedInOrder` (`InOrderService`): the mapping takes the frame that `process_frame`
has for `serving`, `handled` for `served` and `got` for `answered`, and no frames at all for a
stream that is not clean. It needs `Account`, an invariant on top of `IInv`: every answer,
also one on the way, is to a handled frame, and the task is past every frame that has
one. A new connection keeps it because its first frame is the first without an
answer, and `Answers` says that nothing behind that one is answered. `AnsweredForGood`
is the other use of `Account`: the task never has a frame in hand that the terminal
has an answer to, so nothing is published again once its answer was read.

**MysqlConsumerProofs.** `IInv` is `TypeOK`, `NoneForgotten`, `StagesDisjoint`, `AckedIsStored`
and two parts that make them inductive. `PhaseOK` says what each phase knows: when
the places of a flush are empty, and that the group in phase `ack` is stored,
without which an acknowledgement could not keep `AckedIsStored`. `BrokerOK` says that
what is held from a closed channel is queued again. From `IInv`: `TypeCorrect`,
`DeliveriesAreKept`, `StagesAreDisjoint` and `AckedEventsAreStored`; `FlushesDoTheirWork`
states `FlushHasWork`, which is inductive with it, in both consumers. It
is what `Settles` rests on: no phase of a flush is without something to do, so only the
environment can hold it up; and it says what a statement is made of: at least one row, of
one table (MySQL), all converted (PostgreSQL).

`RepeatsAreLosses` (`RowsPerLoss`) needs an invariant of its own: `RowInv` pays for
every INSERT that may still come. A message at the broker, or held for an INSERT,
has no more rows than there were losses; one that is held from a closed channel
will be delivered again as well, and has one less.

`ConsumerIsSafe`: every step of the queue and the consumer is a step of
`AtLeastOnce` or a stutter, under

    pending <- ready \cup unacked     stored <- messages with a row
    done    <- acked                  dead   <- dlq

An INSERT maps to `Store`, also one that is repeated and one whose reply is lost;
an INSERT of a batch whose channel has closed maps to a `Store` of messages that
are pending again. That flush's messages are pending in every such state is the
lemma `FlushIsPending`.

**PostgresConsumerProofs.** The same argument over the places of this consumer, where a
flush holds messages with and without a row at a time. `AckedIsCounted` speaks of numbers
and follows from `AckedWasCounted`, which speaks of sets: what was acknowledged was in
an UPSERT. `CountIsMonotone`, `BatchSumCounts` and lemmas on cardinalities carry it over.
From `IInv`: `TypeCorrect`, `DeliveriesAreKept`, `AckedAreCounted`, and the refinement
`ConsumerIsSafe`, with the messages of committed UPSERTs for `stored`. `FlushesDoTheirWork`
rests on `FlushPhaseFits`: whatever a batch consists of, a flush is in the phase that has
work to do.

`RepeatsAreLosses` (`TotalsPerLoss`) is the counterpart of `RowInv`, summed over the messages of
a row and bucket, since the table does not record what a total is made of. `PaidFor` bounds
what a total can still become: what is in it, plus one for every counted message that may be
added again (`Again`: it is queued, or held for an UPSERT that is not yet sent), stays
within one count per loss and one more. A loss pays for all of them at once (`LossPays`),
an UPSERT uses up what was paid (`UpsertPays`), and every other step moves messages without
making one countable again (`QuietStep`). The lower bound is `TotalsHold`.

**PipelineProofs.** `ConnectOK` ties the receiver's progress to what RabbitMQ has: the calls
that have returned are declared, and none of them met an older queue. `OwedOK` says
that a sink that is owed anything is `Ready`: declared, bound, with its dead letters.
A restart, a change of `.env` or a deletion cannot undo that, since only queues of an
older release are deleted, and a receiver that needed such a queue never served.
`SinkOK` says that nothing is anywhere that was not published, and that rows come
before acknowledgements. From `IInv`: `TypeCorrect`, `OwedEventsAreKept`, and
`SinksAreSafe`: each sink implements `AtLeastOnce` for what it is owed.

**Only model-checked:** liveness (`RequestEnds`, `ReceivedIsQueued`, `GuardsReturn`,
`Answered`, `ConnectionEnds`, `Settles`, `ConsumersAttach`, `EventsSettle`), since ENABLED and
fairness are out of the prover's reach. Every other property of a passing run is stated by a
theorem.

## 5. Assumptions about what is outside

- Redis executes a SET once and keeps a key until its TTL.
- RabbitMQ confirms a persistent message after every bound queue has it, delivers
  what it requeues again, and processes acknowledgements in order. The queues are
  durable; their loss with a disk is not modelled.
- The network delivers a terminal's bytes in order, and of the answers on the way of a
  connection that is cut, a beginning.
- The `kicc_b*` tables and `kicc_daily_totals` are not in `migrations/`. The model
  has no unique key on a `kicc_b*` table: the INSERT has no clause for one, and with
  one a repeated row would fail its whole batch. `kicc_daily_totals` has the unique
  key its ON CONFLICT clause names.
- A multi-row statement is atomic (InnoDB, PostgreSQL).

## 6. Not modelled

- *HTTP gate* (security.rs 30-86, main.rs 131-181). Three layers, one after the other,
  that answer or pass a request on. Their only state is the rate limiter of the
  governor crate, whose cells are external; a model of them would be a model of
  that crate. In `Ingest` what they refuse does not exist. Two things to know when
  reading: the body limit acts in the extractor, after rate and key, and `/health`
  is counted in the same cells as `/events`.
- *Bytes*: fields, masking, amounts and the wording of dates. `TcpConnection` has the lengths,
  `Pipeline` the kinds of keys and dates, the consumers the panics.
- *Configuration* beyond `env`: the values are constants of the models. A batch interval
  of 0 makes tokio's `interval` panic at each start.
- *Start-up errors* of Redis, the databases, the log files and the HTTP port: a process that
  fails there is one that has not started.
- *Notifications*: an await that may not end; what is sent is left out. That places which
  are never given back make `acquire` refuse a terminal is not modelled: `TcpConnection`
  counts them, `ConnectionTracker` has the limits.
- *Types, log files, migrations, deployment scripts*: no behaviour that interacts with
  events.

## 7. Plan

Done, in this order: `Ingest` and its proofs, because it decides which events
survive; `ConnectionTracker` and its proofs; `AtLeastOnce`, `WorkQueue`,
`MysqlConsumer` and the refinement; `PostgresConsumer`; `TcpConnection` and its proofs; messages
that end a consumer; the proofs of `PostgresConsumer`; `Pipeline` and its proofs; the
upper bound of `TotalsPerLoss`; `AtMostOnce` and `FrameServer` with their refinements; the notification of a lost connection.

Left to prove: that the composition of the promises (a claim is queued once, a queued
message is stored at least once) holds of `Ingest`, `WorkQueue` and a consumer together.
