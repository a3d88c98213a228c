# Formal models of Vantage

Vantage is a GPU telemetry pipeline: Streamers read DCGM readings and publish
them to an in-memory message queue over gRPC, Collectors consume the queue and
store the readings in Postgres, and an API gateway serves them. The guarantees
of the pipeline (at-least-once delivery, bounded memory, nothing acked before
it is stored, each reading stored once) rest on the queue, on the retry loops at
both of its ends, and on the table. This directory holds TLA+ models of these
parts, the TLC configurations that check them, and TLAPS proofs.

    tlc -workers 2 -config MCBroker_drop.cfg MCBroker     # one run
    tlapm BrokerProofs.tla                                # one proof module

`PROJECT.json` lists runs, theorems, hazards and, for every definition, the
source lines that it models.

## 1. Inventory

| Part | State | Operations | Interacts with |
|---|---|---|---|
| Store contract, `internal/queue/store.go` | where each message is | Enqueue, Lease, Ack, ReleaseLease, ReleaseConsumer, DLQReplay, Close | the seam between server and engine |
| Broker, `internal/queue/broker.go` | main lane, retry heap, dead-letter ring, lease table, counters, `spaceCh`, sweeper goroutine | the Store methods, SweepExpired | calls the server's NotifyAll from its sweeper |
| MQ server, `internal/server/server.go` | per stream: credit semaphore, ack channel, receive goroutine; broadcast notify channel; counters; drain and shutdown flags | Produce, ProduceBatch, Consume, DLQReplay, BeginDrain, Shutdown | the Store; clients over gRPC |
| MQ process, `cmd/mq` | the drain loop: `idleTicks`, `lastConsumed` | BeginDrain, drain ticks, Shutdown, GracefulStop raced with Stop | the server; the cluster restarts it, empty |
| Collector, `internal/collector` | msgCh, batch, ready flag; tables gpu_metrics and gpu_metrics_dlq | reconnect loop, batch, flush, bisect, dead-letter row, ack | the server (Consume), Postgres |
| Streamer, `internal/streamer` | position in the CSV, the unsent rest of a batch | read, skip, batch, ProduceBatch with retry of the rejected suffix | the server |
| Gateway, `internal/gateway`, `pkg/db/read.go` | none of its own; a client's walk has a position | keyset and offset pages | Postgres, over up to three queries |
| Partitions, migration 000003 and the retention job | daily partitions and a DEFAULT partition | ensure, drop | gpu_metrics |
| HTTP endpoints, configuration, entry points, generated code | none that matters here | snapshots, wiring | |

What is hard in this code:

* one mutex in the broker, but waits outside it: blocked producers on a
  close-and-swap channel, handlers parked on another;
* five ways a lease can end (ack, failed Send, disconnect, TTL, never) that race
  for the same message, with acks that arrive after the lease changed hands;
* a budget that counts leases, so that a requeue never needs to evict;
* a credit window kept by tokens that are taken, returned and revoked;
* a shutdown in which everyone waits for somebody else;
* failures between commit and ack, commits whose response is lost, poison rows
  that abort the transaction of everyone in their batch;
* a drain loop that judges from a few numbers read one after the other, while
  calls that passed the drain check, acks and an operator's replays go on, and a
  streamer that cannot know what a lost call achieved;
* pages read by several queries from a table that collectors and the retention
  job change meanwhile, with rows that arrive late and partitions that must be
  created before they are needed.

What makes each part correct: for the store, every message in exactly one place
and the budget kept; for the broker, that it implements the store, counts
deliveries and losses exactly, and loses no wakeup; for the server, that tokens
are conserved, wakeups are not missed, what was acked is not released, the
counters add up, and work meets workers; for the Collector, that acked means
durable, stored means once, and that poison is isolated exactly; for the
process, that a drain that calls itself complete is, up to calls already under
way and replays; for the Streamer, that no row is skipped and no copy is made
without a cause; for the gateway, that a walk repeats nothing and misses nothing
that was there throughout; for the partitions, that retention drops exactly what
is old and that the job cannot make itself impossible.

## 2. Modules

| Module | Models | Uses |
|---|---|---|
| `Store` | the contract: custody of messages, no order, time or locks | |
| `Broker` | the engine, with order, time, attempts, block-policy waits, counters | refines `Store` (`ImplementsStore`) |
| `Server` | gRPC handlers and the shutdown sequence | extends `Store` |
| `Collector` | collectors and their database, with failures | extends `Store` |
| `Process` | the MQ process: ProduceBatch calls, handlers, drain, exit, restart | |
| `Streamer` | the retry loops of the streamers, and their calls | extends `Process` |
| `Partitions` | gpu_metrics by day, inserts, the retention job | |
| `Gateway` | GetTelemetry and a client that walks its pages | extends `Partitions` |
| `Totals` | sums of a function's values, as cardinalities | used by `Process`, `Server`, `Collector` |
| `StoreProofs`, `BrokerProofs`, `ServerProofs`, `CollectorProofs`, `StreamerProofs`, `PartitionsProofs`, `GatewayProofs`, `TotalsProofs` | theorems | |
| `MCBroker`, `MCServer`, `MCCollector`, `MCStreamer`, `MCGateway` | symmetry sets and constants for TLC | |

Because `Broker` implements `Store`, `Server` and `Collector` are modelled over
the contract and not over the engine: what is shown about them holds for any
store that meets the contract, such as the WAL backend the ADRs plan.

### Store

Ids are `1..issued`. `queued`, `retrying`, `owner` (the lease table), `dead`,
`acked`, `lost` say where each one is. Each action is what one message
experiences: `Admit`, `AdmitEvicting`, `StoreLease`, `StoreAck`,
`StoreRequeue`, `StoreDeadLetter`, `StoreReplay`.

### Broker

One method is one action, since every method runs under one mutex. The three
methods that loop over messages (`ReleaseConsumer`, `SweepExpired`,
`DLQReplay`) take one message per step with `lock` held, because they read the
clock for each message and because cancelled producers return without the
mutex. `Enqueue` is one pass of its loop; a producer under the block policy is
"parked" on the channel it captured until `SignalSpace` makes it "woken".
`Tick` advances the clock. `main` and `dlq` are sequences (the rings of the
code), `retry` maps ids to the time they become visible and `IsRetryHead` is
the root of the heap. `acked` and `lost` are history variables.

### Server

`stream[s].pc` is where a Consume handler is: "init" (waits for the credit),
"top" (drains acks), "acquire" (waits for a token), "lease" (has captured the
notify channel), "miss" (found nothing), "park", "sending", "failed", "exiting"
(joins the receive goroutine and drains acks), "releasing", "notify", "done". An
ack is applied to the store in one step and counted in the next ("acked", in the
cleanup "lateAcked"), and so are released leases ("failed", "notify"): the code
bumps its counters after the store's mutex is free, and `uncounted` is what a
handler has ended and not yet counted. The receive goroutine takes an ack from
the wire (`got`) before it passes it to `ackCh`; on a full channel it waits, and
drops the ack if the connection breaks meanwhile (`AckDropped`; `dropped`
remembers it). `woken` holds the streams whose captured notify channel has been
closed since. The client at the other end is external: it acks at any time, in
any order, twice, or for what it does not hold, half-closes or disappears. A
delivery is `<<id, n>>`, its n-th lease, so that properties can tell a late ack
from a timely one although the code cannot. Produce is ProduceBatch with one
message. The drain loop's exit is one step that may happen at any time;
`Process` models the loop.

### Collector

`work` is the stack of slices that the recursion of `persistResilient` has
still to persist. A transaction commits (`PersistOk`), meets a poison row
(`Bisect`, `DeadLetterRow`) or fails (`PersistFails`), and a failed one may have
committed. A process dies at any step (`Crash`). Streams break, and the server
may then release leases while the collector is still persisting them
(`ServerReleases`). A reading is its natural key; a message is an id that
carries a reading, and several may carry the same one, as after a producer's
retry. Unparseable readings are skipped and acked, as the code does.

### Process

The drain loop sees the store only through `Drained` and `Stats`, so the store
is its numbers: `stats.depth`, `stats.retryDepth`, and the leases of each
handler. `Consume`, `Requeue` and `DeadLetter` are the ends of a lease. `calls`
are the ProduceBatch calls in the server: a call checks the drain flag once
(`CheckDraining`), then enqueues message by message until its batch is used up
or Enqueue refuses. `policy` decides whether a full store evicts. `Replay` is
POST /dlq/replay, which no flag gates and the HTTP server answers until main
returns. A handler applies an ack (`Consume`) and counts it later (`CountAck`).
A tick of the loop is three steps, `DrainTick`, `LoadConsumed` and `DrainStats`:
Drained takes a snapshot of the store, and Stats then loads `consumed` before
`activeC`, without a lock. `stats.consumed` is 1 if the counter grew since the
loop's last look, since the loop only compares it with the last value. `Exit`
stands for GracefulStop, Stop and the end of main (`Server` has them one by
one); it and `Crash` empty the memory, and `Start` begins again. `seen` is
history.

### Streamer

`strm[s]` is a streamer: position in the CSV, batch, and where it is ("read",
"send", "await", "done", "stopped"). A call that breaks leaves its request in
the server, as an orphan that runs to its end, or nowhere (`Orphaned`).
`copies` counts how often a store, of whichever run of the process, admitted a
message. A row read again in a later pass is another message, since it is
stamped anew; a row sent again is the same one.

### Partitions

A timestamp is its day and a row is `<<day, metric>>`: the natural key of one
GPU. `parts` are the days with a partition; a row of any other day is in
DEFAULT. `JobDrops` and `JobEnsures` are the two statements of the nightly job,
each its own transaction; `JobFails` is a killed job, or the error of creating
a partition whose rows DEFAULT already holds. Rows arrive for any day up to
`Skew` days ahead. The migration starts with rows of the flat table and with the
partitions of its own window, `Migrated` days (3 in the code), whatever `Ahead`
the job is configured with; `ensuredTo` is the last day that any call of
ensure_partitions was asked for.

### Gateway

A request is `GetTelemetry` (parameters, existence), `Count` in offset mode and
`Page`, with changes of the table in between. The client begins by offset and
may change to the cursor at any page, which the handler allows. `walk` is
history: what was shown, what is still due, what changed between the two
queries. Days stand for timestamps, so ties and page boundaries inside a tie
are common. A slice of the ordered rows is given by rank: the row at position i
has offset + i - 1 rows before it.

## 3. Runs

| Run | Checks |
|---|---|
| `broker_drop` | type, budget, custody, delivery counts, loss accounting, loops, refinement of `Store`, under drop-oldest |
| `broker_block` | two producers under the block policy: no lost wakeup, a blocked Enqueue returns, expired leases are reclaimed |
| `server_streams` | two streams, a batch that exceeds the budget, a sweep, a replay and disconnects: credit, wakeups, no lease without a handler, nothing released whose ack was received and not dropped |
| `server_window` | one stream with a window of 2, stray acks, eviction, refusals and a sweep: credit, window, counters up to what is about to be counted |
| `server_live` | work, the accepted part of a batch that blocks included, is taken by a waiting handler that has a token; after the forced Stop all handlers return and no lease is left |
| `collector_shared` | two collectors, duplicates, unparseable readings, failures, expiries: ack after persist, one row |
| `collector_live` | bisection of batches of up to three with poison rows and a failure: exact isolation, dead-letter rows only for poison and no more copies than redeliveries, ack after persist, every admitted message settles |
| `publish` | a streamer against a process that drains, crashes and restarts: nothing skipped and first copies in order; a second copy only after a broken call; a complete drain leaves at most what calls already under way offered at the last look and what was replayed since; a stall is reported only after silence; every row gets through |
| `reads` | walks by offset and cursor over a changing table: cursor pages repeat nothing, a finished walk is complete (by offset, if retention dropped nothing meanwhile), total and has_next differ by no more than what changed; retention drops exactly the old partitions, and a punctual job never fails on DEFAULT |

Three runs state what a document or comment of the repository says, and find
it violated:

| Run | Claim | What happens |
|---|---|---|
| `server_late_ack_doc` | broker.go: a late ack "becomes a no-op" | it removes the new lease, if the message went to the same stream again |
| `collector_starved_doc` | collector.go: an ack replenishes "exactly one credit slot" | a connected collector whose leases all expired once receives nothing any more |
| `gateway_stable_doc` | read.go: new rows land "never inside earlier pages" | a row stored late keeps its timestamp and falls between rows already shown |

Seven smaller disagreements follow from the same models and have no run of their
own. mq.proto:61 says that under drop-oldest "rejected is always 0"; with the
whole budget leased nothing can be evicted, and Enqueue refuses
(`EnqueueRefuse`). ADR-011:75 says that reject "makes loss impossible"; a full
dead-letter lane evicts under every policy (`PushDLQ`, `LossAccounted`).
server.go:50 explains the gap between Delivered and Consumed by in-flight and
redelivered messages; `CountersAccount` shows that expired leases belong to it
too. mq.proto:85 says that each ack replenishes a credit slot; `CreditConserved`
shows the revoked ones that it does not. server.go:396 says that consumers
terminate when they observe shutdownCh; their cleanup then still waits for Recv,
which only the client or the forced Stop ends (`StopCompletes`).
cmd/mq/main.go:117 gives up after "no acks for 2s straight"; an ack counted
between the two loads of the last tick's Stats, by a handler that returns before
the second, is not seen any more, so `StallNeedsSilence` speaks of the time from
one reading of `consumed` to the next. server.go:252 says that confirmed
messages "are not needlessly requeued"; `ConfirmedNotReleased` has the one
exception of an ack that was received and dropped.

### Bounds

Every bound is a constant named `Max...` (or `MayDrain`, `MayForce`) and appears
in a guard. Capacity 1 to 3 and a dead-letter lane of 1 make the full budget,
eviction and the full dead-letter lane ordinary states. Two deliveries reach
both sides of MaxDeliveries; LeaseTTL and backoffs of 1 and 2 ticks within 1 to
3 instants let leases expire before, while and after other things happen. The
broker's and the server's safety runs offer at least one message more than the
budget holds; so does `server_live`, in which two producers with batches of up
to two and a store for one make a batch block half-way. `server_window` leaves
replays to the other two. Windows of 1 and 2 cover a stream that waits for each
ack and one that does not; the requests 0 and 5 take the default and
the ceiling. Batches of three are the smallest whose bisection is uneven. One
failure is enough for every property of the Collector to be violated by its
mutant, and MaxExpired adds leases that expire under a collector that works on
them. The broker's runs cover drop-oldest and block; the reject policy is
drop-oldest without its eviction, and the proofs cover all three. In `publish`,
drop-oldest alone both evicts (the message is queued) and refuses (it is leased
or waits for a retry).

`publish`: three good rows and a bad one make a full and a partial batch; with
Capacity 1 every batch of two is accepted in part or evicts its own predecessor.
MaxRuns 2 gives one drain or crash at every point, StallTicks 2 an idle tick
that stalls and one that does not, MaxFaults 1 a broken call or a cancellation,
MaxReplays 1 a replay of a dead letter at every point of the drain. MaxPasses 1
is the code's `once`; a second pass repeats the first. `reads`: a retention of
one day, two days ahead and one day of skew let two passing midnights make every
day old, current or future; MaxStored rows over two metrics and pages of one or
two rows put page boundaries inside and between days. One migrated row may sit
in DEFAULT. The migration's window of one day differs from the job's of two. The
walk reads the days up to the migration's: live at first, then late, then old,
while later days exercise the partitions.

The server's and the Collector's models stop when their bounds are used up or
their clients leave, so their runs do not check deadlock; the broker's do, and
so do `publish` and `reads`.

### Fairness

Only the program's own goroutines are fair, never clients or callers. A
goroutine that waits for the broker's mutex gets it although others keep taking
it, since a Go `sync.Mutex` hands itself over to a waiter that has starved for
1 ms; hence strong fairness of the sweeper, of woken or timed-out producers, of
the send loop and of the cleanup. `SendOk` is not fair: a client may stop
reading. The Collector's reconnect loop has no retry limit, so opening a stream
is fair; its failures are finitely many within a run. `EveryRowPublished` needs
somebody to make room: the cluster restarts the process, collectors connect
again and again, take what they see, and settle what they hold rather than lose
it for ever, which MaxDeliveries turns into a dead letter at the latest. The
drain deadline is strongly fair, since ticks disable it only for a moment. No
call need break and no SIGTERM need come.

## 4. Proofs

`StoreProofs` shows that the contract keeps one custodian per id and both
budgets (`StoreCorrect`), for every capacity and every set of consumers.

`BrokerProofs` shows, for every value of the constants, `TypeCorrect`,
`BudgetHolds`, `CustodyHolds`, `DeliveryCountsHold`, `LoopsSeeLeasesHolds`,
`NoLostWakeup`, `NoUncountedLoss` and `BrokerImplementsStore`. The assumptions
are those of `BrokerAssumption`: what `applyDefaults` and `NewBroker` make of a
configuration, except that RetryBackoffBase may exceed RetryBackoffMax.

The argument has two halves. `StepRefines` shows that a step of the broker from
a state satisfying `IInv` is a step of the contract or leaves its variables
alone, one lemma per group of methods (`EnqueueRefines`, `LeaseRefines`,
`AckRefines`, `RequeueRefines`, `ReplayRefines`). `StepIInv` shows that `IInv`
is inductive: custody and budget are taken over from `StoreStepInv` through the
refinement mapping and not proved a second time. `IInv` is the conjunction of
type, custody, budget, delivery counts, `LoopsSeeLeases` and `NoSleepWithRoom`.
None of its parts is inductive alone: the budget needs custody (a lease that
ends must free the slot it takes in the retry lane), the delivery counts need
`LoopsSeeLeases` (a loop must not requeue what is no longer leased), and the
wakeup property needs both (what frees a slot must be known to free one).
The lemmas `LaneTail`, `LaneAppend`, `LaneSlide` and `LaneCard` say what
queue operations do to the set of ids in a lane. TLC checks every conjunct of
`IInv` in the runs above.

`PartitionsProofs` shows `PunctualJobSucceeds`, `OldRowsDropped` and
`WindowKept` for the specification of `Gateway`, whose requests only read the
table, and for every retention, pre-creation window, window of the migration and
skew (`PartitionsAssumption`: a retention of at least one day, as the SQL
function demands). The inductive invariant `TableInv` says that, as long as the
job was punctual, the days from yesterday to the last one ever asked for
(`ensuredTo`) have partitions without a gap (`NoGap`), that no row is later than
the skew allows, and that no partition is older than the window of the last drop
(`NothingReturns`). That the job cannot wedge itself needs the first two
together: a row it could stumble on lies between yesterday and the last
pre-created day, so it is not in DEFAULT.

`ServerProofs` and `CollectorProofs` build on `StoreStepInv` in the same way:
`ServerUsesStore` and `CollectorUsesStore` show that every step of the two
models is a step of the contract or leaves it alone, so that custody and budget
hold in them without another proof.

`ServerProofs` shows all invariants of `Server`: `ServerTypes`, `ServerCredit`,
`ServerWindow`, `ServerLeases`, `ServerConfirmed`, `ServerWakeups` and
`ServerBooks`, for any number of streams and producers and any window. The
inductive invariant `ServerInv` speaks of one stream at a time (`StreamOK`): its
record, the number of leases it holds in the store, and the stray acks its
client made up. Credit is an equation between tokens and leases, so it needs the
lease count and the tokens revoked by sweeps in it. The window is a consequence
only while the handler is in its loop; the stronger bound by leases, revoked
tokens and strays (`Held`) is what each step preserves. A missed wakeup is
excluded from the moment a poll came back empty and not only while the handler
is parked, since a producer may broadcast in between (`WakeupOK`). The books of
deliveries are part of the invariant and count what each handler has ended and
not yet counted; those of enqueues are a second induction on top of it
(`EnqueuesOK`). A third one follows every lease to its delivery (`TracedOK`): the
current delivery of a leased message is being sent, in the client's hands, in the
goroutine's, in `ackCh`, or dropped. When the cleanup releases, the goroutine has
ended and `ackCh` is empty, so only the client's hands and the dropped ack are
left, which is `ConfirmedNotReleased`.

`CollectorProofs` shows `CollectorTypes`, `CollectorAcksDurable`,
`CollectorDurableForever`, `CollectorRowOnce`, `CollectorBisection`,
`CollectorIsolatesPoison` and `CollectorDeadLetters`, for any number of
collectors and failures.
`CollectorInv` follows an ack back to its cause: what the server has acked, what
is in an ack channel and what a collector is about to ack are durable, and in
the middle of a bisection a cut function places every slice of the work list in
the batch, with durable ids in front of the first. Durable ids only grow
(`CollectorDurableForever`), so the steps of one collector cannot hurt another.

`CollectorDeadLetters` bounds the dead-letter table, whose insert is not
idempotent: at most one row for each message and each delivery of it that a
failure or an expired lease explains. The bound speaks of the past, and the
model keeps no record of who wrote which row, so the invariant behind it
(`CollectorLedger`) says that a ledger exists: `written` splits the table by
message, `at` says how far each collector is in its batch, and for every message

    rows written + copies in buffers + 1 if it waits for a delivery
      <= 1 + broken streams that do not hold its lease + expired leases.

A delivery moves one from waiting to a buffer (`Waiting`, `Load`), a dead letter
from a buffer to the table, a release makes the message wait again and counts
the broken stream, an expired lease counts itself. `StreamsOK` adds that no more
streams break than failures happen, because a stream has one collector, breaks
once and is not opened again. This proof is why `CollectorAssumption` keeps
"none", the stream of a collector between two connections, apart from the stream
identities.

`StreamerProofs` treats `Process` and `Streamer` together: `StreamerTypes`,
`StreamerSkipsNothing`, `StreamerCopies`, `DrainLeavesLateOnly` and
`DrainStallIsSilent`, for any number of streamers, rows, passes, consumers and
restarts. In `StreamerInv`, `SilenceOK` says that the loop's idle ticks are
backed by as many quiet ones, or that the loop has just read a changed `consumed`
and will judge the tick not idle, and that it will read of every ack counted
since its last look; `LateOK` says that what the store holds and calls still
offer never exceeds what they offered when the drain completed and what was
replayed since: an admission moves one from the offers to the store, and no new
call passes the check; `StrmsOK` and `CallsOK` say that a batch is what
its streamer made last, that a call's messages are consecutive, and that
everything before them was admitted. The bound on copies is not inductive: a
call that has yet to run will add one. `CopiesOK` therefore counts copies and
calls that may still admit the message, and keeps one in reserve while the next
call is still to come. The proof needs a first pass (`MaxPasses` at least 1):
without one a streamer would be done before it started.

`GatewayProofs` shows `GatewayTypes`, `CursorWalkDescends`, `WalkMissesNothing`
and `TotalAndHasNextAgree`, for every page size, window and table. n rows have
the ranks 0 to n - 1, each once (`RankOnto`, an injection between finite sets of
one size), so a page is what the order says it is (`PageFacts`): it is
sorted, its sentinel tells the truth, and what it leaves for later comes after
all of it. `GatewayInv` says where the rows lie that a walk still owes:
behind the cursor, or at a rank the offset has not passed. Insertions only raise
ranks (`RankGrows`); a dropped partition lowers them, which is why completeness
by offset has an exception and by cursor has none. Between count and page,
total and drift together give the number of rows there are. The table's proof
assumes that the last day looked at is not before the first.

Leases and offers are summed over consumers and calls. `Totals` defines such a
sum as the number of pairs <<x, i>> with i up to f[x], and `TotalsProofs` shows
how it changes with one value or one argument (`TotalSplit`, `TotalChange`,
`TotalIncrement`) and what bounds it (`TotalBounded`), from the finite-set
theorems of the library and without induction.

Only model-checked: the liveness properties (out of the prover's reach, like
ENABLED) and the violations of section 3.

## 5. Not modelled

* Wire format, validation of requests, logging, metrics text, JSON.
* `delivery_attempts` on the wire. `Lease` writes it into a message that the
  handler of an earlier, expired delivery may still be marshalling.
* Sub-microsecond timestamps: two readings of one GPU and metric stamped within
  a microsecond share a natural key in Postgres, and the second is dropped as a
  duplicate. ADR-002 accepts this.
* A batch above `maxBatchSize` is refused as invalid and would be retried for
  ever (FUTURE.md:127); the configured batch size is assumed to be below it.
* Rejected gateway requests, ListGPUs and the probes: they touch no state.
* Migrations other than 000003, connection pool, configuration, HTTP read
  endpoints of the queue, generated code.

## 6. Plan

Done: all modules above with their runs, and the proofs of every invariant they
check.

Next: what a delivery costs per message and not per stream. The ledger charges a
message for every broken stream that does not hold its lease, and for every
expired lease of any message; a bound by its own deliveries would need the
delivery counts of `Broker`, which the contract that the collector is modelled
over leaves out.
