# Verification of arkime-kafka-indexer

This directory is a TLA+ development of the indexer: modules translated from the Go
source, TLC configurations that check them on small instances, and theorems checked by
TLAPS. Source lines are quoted relative to the repository root.

## 1. The system

The program consumes Kafka messages whose values are Elasticsearch bulk requests (each
holding Arkime session documents, *SPIs*), batches them, sends the batches to
Elasticsearch and republishes the SPIs that Elasticsearch refused.

```
 Kafka --poll--> consumer --consumerChan--> indexer 1..N --bulk call--> Elasticsearch
                                              | errorChan[i]
                                              v
                               forwarder 1..N (merge) --mergedErrorChan--> producer --> Kafka
```

All goroutines run in one `conc` context pool: the first error is kept, and any error
cancels the shared context. SIGINT and SIGTERM cancel it as well. Only the consumer (and
the delivery report logger) watches the context; everybody else stops because the channel
it reads is closed.

### Inventory

| component | state | operations | interacts with | hard behaviour | what makes it correct |
|---|---|---|---|---|---|
| consumer (`kafka/consumer.go`) | message in hand, the open/closed channel | start, check context, poll, copy, send, return | Kafka, consumerChan, context | blocking send, cancellation between check and poll, errors | closes its channel once, loses nothing, stops when cancelled |
| consumer group (`kafka/consumer.go`, librdkafka) | assignment, position, committed offsets | assign, revoke, lose, commit, close | other instances, Kafka | crash and restart, commits ahead of the indexing, a lost assignment noticed late | nothing passed over, nothing twice without a crash or a loss |
| indexer (`es/indexer.go`) | ticker, message in hand | receive, tick, send batch, send errors, return | consumerChan, Elasticsearch, errorChan | two event sources, failing calls, blocking error channel | flushes everything before a regular return, never sends after close |
| bulker (`es/bulker.go`) | buffer, message count, time of last flush | bulk, flush, finalFlush | called by the indexer | three limits that interact, clock versus ticker | batch size, batch count, age of a message |
| merge (`main.go`) | one message per forwarder | receive, send, close | errorChans, mergedErrorChan | N senders on one channel | closes after the last sender |
| producer (`kafka/producer.go`) | message in hand, delivery channel | receive, produce, retry, flush, close; log reports | mergedErrorChan, Kafka, context | full queue, deferred calls, a logger that stops first | one fate per message, ends at shutdown |
| pool, signals, HTTP (`main.go`) | context, first error, SIGHUP channel, server | cancel, reload, shut down, wait | all goroutines | failure while stopping, coalesced signals | always ends, reports the root cause |
| Elasticsearch client (`es/indexer.go`, `es/options.go`) | connection pool, attempts of a call | CheckESStatus, DiscoverNodes, retries | all indexers and the SIGHUP handler share it | float arithmetic, decisions on copies, lost answers, empty pool | right threshold, no needless reloads, bounded duplicates |
| response parsing (`es/indexer.go`) | request lines, response items | sendToES, parseESErrors | Elasticsearch | line arithmetic | right lines |
| buffer pools (all) | references to and contents of buffers | Get, write, hand over, Put | every goroutine | reuse by another goroutine, leftovers | one holder per buffer, clean contents |
| metrics (`metrics/`) | counters, histograms, collector | publish, Describe, Collect | Prometheus | bucket arithmetic, Describe that depends on the pool | set-up ends, scrapes succeed |
| options, logging | - | - | - | - | - |

The hazards of the code, each at its line, are listed in `PROJECT.json`.

## 2. The modules

| module | models | builds on |
|---|---|---|
| `GoChannel` | buffered Go channels (external) | - |
| `Delivery` | abstract: the fate of every SPI | - |
| `Pipeline` | consumer, indexers with their bulkers, merge, producer, cancellation | `GoChannel`, instance of `Delivery` |
| `Bulker` | one indexer loop with its ticker and its clock | - |
| `Supervisor` | set-up, pool, context, signals, reload goroutine, HTTP goroutine | summarises `Pipeline` |
| `DeliveryReports` | producer, report logger and Kafka library at shutdown | - |
| `Buffers` | the pooled buffers from consumer to producer, with the lines in them | - |
| `ESClient` | the shared Elasticsearch client: status check, reload, retries, collector | - |
| `ConsumerGroup` | several instances of the program: offsets, rebalance, crash, restart | summarises `Pipeline` |
| `MCPipeline`, `MCBulker`, `MCBuffers` | constants of the small instances | |
| `PipelineProofs`, `PipelineConservation` | theorems about `Pipeline`, and about `GoChannel` | |
| `BulkerProofs`, `BuffersProofs`, `ESClientProofs`, `SupervisorProofs`, `DeliveryReportsProofs`, `ConsumerGroupProofs` | theorems about the module of that name | |

### Pipeline

*Data.* A message is the set of SPIs it carries; messages are disjoint; the empty set is
a message without payload. The number of SPIs stands for the length in bytes, so
`BytesLimit` is a number of SPIs and "shorter than `minimumBufferSize`" is "empty". The
order of the SPIs in a buffer is left out.

*State.* One program counter per goroutine (`cPc`, `iPc[i]`, `fPc[i]`, `mPc`, `pPc`), the
buffer each has in hand (`cMsg`, `iMsg`, `fMsg`, `pMsg`), each bulker (`buffer`,
`bulkedMsgCount`), the channels, and three history variables (`indexed`, `republished`,
`lost`, the last one by reason). `iNext` is the place `flush` returns to, for it is called
from four places. `"done"` is a goroutine that returned nil, `"failed"` one that returned an
error the pool has not acted on yet, `"dead"` one whose error has cancelled the context.

*Steps.* A step is what a goroutine does between two operations that another goroutine or
a server can observe. `IndexerRecv` therefore includes the first condition of `bulk`, and
`SendErrors` includes the end of `flush`. Poll and the check of the context are separate, so
that a cancellation may fall between them; the deferred `close` and the cancellation by the
pool are separate for the same reason. The time limit is nondeterministic.

*Failures* (`Faults`): the consumer cannot start or gets a Kafka error, a copy to a buffer
falls short, `CheckESStatus` fails, a bulk call fails as a whole (SPIs may have been indexed
all the same), the producer cannot start, `Produce` fails or finds its queue full. Some
item of a bulk response failing is not a fault; it is always possible.

*Abstractions.* Capacities are at least 1 and there is at least one indexer. `Produce`
succeeding counts as republished; what becomes of the message inside the Kafka library
is the subject of `DeliveryReports`. Redelivery by Kafka is the subject of `ConsumerGroup`.
Whether a producer topic is configured is part of the initial state (`mPc`).

### Bulker

Time is discrete. `sinceFlush`, `untilTick` and `oldest` are the clocks the code compares, as
ages and countdowns; `Delay` bounds how long the goroutine stays at any point other than an
idle select (a call to Elasticsearch, a blocked send, preemption). The order of `ticker.Reset`
(in the callback) and `lastFlush = time.Now()` (after it) is kept, with a delay in between.
As the timers of current Go do, `Reset` discards a tick that was not received.

### Supervisor

`mainPc` runs through the set-up: environment, metrics, the two calls that ask for signals, the
clients, the start of the goroutines one by one, `Wait`. Until main has asked for a signal, the
signal ends the process; afterwards it is remembered, in the context or in `reloadChan`, though
the set-up goes on. The settings that the metrics depend on (`Limits`, `Densities`) are natural
numbers. `computeBuckets` never ends when its step is 0, so the step out of `"metrics"` is not
enabled then.

One program counter per goroutine of the pool; the forwarders of `merge` and the goroutine that
waits for them are one task, `"merge"`. A failing task first records its error and
then cancels, in two steps, as the pool does. Of the goroutines of `Pipeline` there is what `Wait`
depends on. The consumer returns when it sees the cancelled context, or with an error; an indexer
after the consumer, or with an error; `merge` after all indexers; the producer after `merge`. The
consumer may also wait for ever in its send once no indexer reads (`ConsumerBlocks`), and a forwarder,
or the indexer behind it, in its send once the producer failed to start (`SenderBlocks`). `Stuck` names the
situations in which the program never ends: these two, and a failed reload. A state without a step
in which the process has neither ended nor is stuck is a deadlock that TLC reports (`Halted`).

### DeliveryReports

The library's polling thread takes a broker's answer and hands it to `deliveryChan`, which is
unbuffered: it waits for the logger, or panics if the channel is closed. `MaxMsgs` bounds the
messages produced and `MaxSpin` how many receives from the closed channel are counted.

### Buffers

`ref` gives the buffers that each variable, channel and pool refers to, `content` the lines in each
buffer. A message is a sequence of bulk actions, an action one line (`delete`) or two; an action is
known by its place in the topic, so no two are the same, whatever their text (`TopicAssumption`). `Get` takes
any buffer of the pool *as it is*, or a fresh one; `Put` resets a buffer and the pool may hand it out
at once. A fresh buffer is at an address that no variable refers to. `msgBuf` is the consumer's
variable: at trace level it outlives the send, until `kafka/consumer.go:179` has read it, and may then
refer to a buffer that somebody else has by now. When a batch is flushed is left open here; `merge` is
part of the error channel. An indexer may return an error, of `CheckESStatus` or of `WriteTo`
(`IndexerFails`), and leaves its buffers to the garbage collector.
`parseESErrors` is on lines: `SplitAfter` yields an empty last one if the request ends in a line feed,
item `k` takes lines `2k-1` and `2k`, an index out of range panics (the goroutine pool recovers it until
`Wait`, deferred calls run). Every line of a message ends in a line feed, except perhaps the last line of a
request; messages without one at their end would run together in a batch, whose lines are then no longer
those of its messages. Two library facts are assumed: `Bulk` is done with the request body when it returns,
and `Produce` copies the value.

### ESClient

Connections differ only in being live or dead, so the pool is two numbers. The percentage is
computed as the processor does: quotient and product rounded to 24 bits, then truncated; NaN
converts to the least integer or to 0. A cluster has at most 65536 nodes (`MaxPool`). A check takes its verdict from a copy of the numbers and
acts on it in a later step. An indexer checks only when its ticker has fired (`ticks`), and every flush
resets the ticker (`es/indexer.go:212`), so that steady load may keep it from firing for ever. A bulk attempt is answered, unanswered (before or after
Elasticsearch carried it out) or refused; `Retry` follows the number of attempts. `registered` is
what the collector described to the registry at start. `wasted` is a history variable: reloads of
a pool that was below the threshold.

### ConsumerGroup

The consumer sets no offset option, so librdkafka's defaults hold (external): an offset is stored
when its message is polled, stored offsets are committed in the background, on revocation and in
`Close`, only an owner's commit is accepted, and a partition without a committed offset is read from
its end. A polled message is *held* until it *settles*, that is until `Pipeline` has indexed,
republished or dropped and counted it. `Stop` is the consumer's return with its deferred calls:
commit and leave first, then close the channel; the instance is then `"draining"`. Once a goroutine of an
instance has failed (`broken`), it may end although messages are held, which are then `abandoned` (every
indexer has aborted and the channel is not empty), or be `"blocked"` for ever (the consumer's send, or
those behind it); a blocked consumer calls `Poll` no more and loses its partitions. A crash may
come at any point. `crashed`, `abandoned`, `skipped` and `disturbed` are history variables that say exactly
which messages and partitions the exceptions of the properties are about.

## 3. What is checked

| run | instance | properties |
|---|---|---|
| `pipeline_faults` | 2 indexers, messages {s1,s2}, {s3}, capacities 1, all failures; symmetric in the indexers and in s1, s2 | `TypeOK`, `Conservation`, `NoPanic`, `Drains`, `OnlyAbortAbandons`, `ImplementsDelivery` |
| `pipeline_liveness` | 2 indexers, messages {s1}, {s2}, message limit 2, byte limit 1; aborting indexers, a producer that is absent or may not start; fair | `ShutdownOnlyBlockedWithoutReader`, `EverySpiSettles` |
| `bulker_limits` | interval 6, delay 1, 3 messages, 4 bytes, lengths 0, 2, 5; fair | `TypeOK`, `BatchBounds`, `AgeBound`, `BatchIsFlushed` |
| `supervisor_stops` | 2 indexers, with and without a producer; densities 0 and 3, limits 1 and 5; fair | `TypeOK`, `RootCauseReported`, `BucketsFollowDensity`, `SetupEnds`, `HangupServed`, `FailureStopsUnlessStuck`, `SignalStopsUnlessStuck` |
| `producer_reports` | 3 messages; fair | `TypeOK`, `CountersMatchReports`, `ProducerEnds`, `SpinningEnds` |
| `buffers` | 2 indexers, 4 buffers, 2 messages (one ending in one-line actions), trace level; symmetric in indexers and buffers | `TypeOK`, `NoSharing`, `BatchesAreWhole`, `FailedLinesExact`, `TraceSeesMessageUntilPut`, `PanicsOnlyOnOneLine` |
| `es_client` | 2 indexers and the SIGHUP handler, clusters of 0, 2 and 100 nodes, maximum 59 %, 1 retry; fair | `TypeOK`, `ThresholdExact`, `NoReloadStorm`, `DuplicatesBounded`, `ScrapesSucceed`, `DeadPoolHandled` |
| `consumer_group` | 2 instances, 1 partition, 2 messages, 4 incidents; fair | `TypeOK`, `NothingPassedOver`, `ConsumedOnce`, `OffsetsNeverGoBack`, `EveryMessageSettles` |

*Bounds.* Two messages and capacities of 1 suffice to fill each channel and to block every
sender (one message in the channel, one in the hand of the sender behind it); the limits of 2
make each of the four reasons for a flush happen; two indexers make their order of ending
matter. `pipeline_faults`, `pipeline_liveness` and `supervisor_stops` start with and without a producer. Four buffers are
one more than two batches and a message need, so that reuse and fresh buffers both happen. 100
connections are the smallest pool in which the truncated percentage differs from the exact one at
the threshold; 127 are the most that TLC's integers allow. Two messages are enough for a
committed and an uncommitted one in the same hands. Four incidents suffice for a
stop or a lost assignment, a crash of the successor and one more while the first instance still
drains, and for a goroutine of each instance to fail. A density of 3 with limits of 1 and 5 has the endless
loop and the most buckets that a density can get; the theorem `BucketsTheorem` covers all others. Deadlock checking is off where the code really can
hang (`pipeline_faults`, `pipeline_liveness`) or the instance runs out of messages (`buffers`,
`consumer_group`), and on elsewhere; in `Supervisor` only the end of the process and the states of
`Stuck` may have no other step.

*Fairness.* Weak fairness of each goroutine: the Go scheduler runs what can run, and `Poll` has a
timeout. That Elasticsearch answers is an assumption; the transport has a timeout for the connection only
(`src/main.go:329-339`), so that a ping or a bulk call may wait for its answer. Fairness never forces a
failure: the fair part of an indexer excludes aborting. Nothing is assumed of a goroutine that waits to
send to others that are gone: in `Supervisor` the consumer is fair only while it runs, and those behind it
only once it has returned. `Supervisor` needs strong fairness of one select case, because `select`
chooses at random between ready cases; so does the ticker's case in `ESClient`, but only for a tick that
has fired, and a ticker fires only if no flush resets it before. In `ConsumerGroup` a process that ended is
started again, the group assigns a partition that has no owner, a failure stops the consumer unless
it is blocked, a blocked consumer loses its partitions after `max.poll.interval.ms`, and a pipeline settles what it
holds as long as none of its goroutines has failed (`EverySpiSettles` of `Pipeline`); commits are not fair,
and incidents are finitely many.

### Disagreements between the code and what is said of it

| run | violated | what happens |
|---|---|---|
| `pipeline_consumer_blocked` | `CancelClosesConsumerChan` | `kafka/consumer.go:174` blocks for ever once the last indexer has aborted; the channel is never closed and the process hangs |
| `pipeline_bulk_call_error` | `FailedSpisAreRepublished` | a bulk call that fails as a whole drops its batch, though a producer is configured |
| `supervisor_reload_error` | `FailureIsFatal` | a failing SIGHUP handler leaves the HTTP server up and the process hanging |
| `producer_flush_panic` | `FlushDoesNotPanic` | `deliveryChan` is closed before the flush that still sends on it |

The passing runs state how far each problem reaches. A shutdown of the pipeline hangs *only* without a
reader. The program fails to end *only* after a failed reload, when every indexer has failed while the
consumer had a message to send, or when the producer failed to start and others wait to send to it.

Six more observations are stated by passing properties:

- `AgeBound` has *two* intervals. `flushBuffer` resets the ticker before `flush` reads the clock, and
  the comparison is strict, so a tick may just miss the limit and the next one is a whole interval
  later; `src/main.go:65` speaks of the "Maximum amount of time to buffer messages".
- `FailedLinesExact` and `PanicsOnlyOnOneLine` hold for requests in which each action has a source
  line. A `delete` in a batch with errors makes `parseESErrors` republish other lines or index out
  of range, though `src/README.md:19-20` speaks of messages in the Elasticsearch bulk format.
- `ThresholdExact` leaves out equality: 59 dead connections of 100 count as 58 %.
- `TraceSeesMessageUntilPut` says up to when the consumer's trace line is right; after the indexer's
  `Put` the buffer may hold anything. `NoSharing` therefore leaves out the consumer's variable while that
  line is being logged: it is the one use of a buffer after its `Put`.
- `DeadPoolHandled` has an exception for steady load: if the flushes of every indexer follow each other within
  the interval, no ticker fires, `CheckESStatus` is never called and dead connections stay.
- `NothingPassedOver` has `abandoned`: offsets are committed before their messages are indexed, so what an
  instance leaves in its channel when all its indexers have failed is lost although
  nothing crashed.

## 4. What is proved

All theorems hold for every value of the constants that satisfies the named assumptions.

*Pipeline* (`MessagesAssumption`, `LimitsAssumption`). The inductive invariant `ControlInv` is
`TypeOK` with three parts: `BatchCount` (outside of a flush there is room for a message, without
which the type of the count is not inductive), `Hands` (at which program counters a local
variable may hold SPIs) and `Closing` (a channel is closed exactly by the return of its last
sender, and a reader that ended saw its channel closed and empty). It implies

- `TypeCorrect`: `Spec => []TypeOK`,
- `ChannelSafety`: `Spec => []NoPanic`,
- `GracefulStopDrains`: `Spec => []Drains`,
- `AbandonedOnlyByAbort`: `Spec => OnlyAbortAbandons`, an action property: an SPI is abandoned only in a step in
  which the very indexer that has it returns an error.

*Conservation and refinement* (`PipelineConservation`). A count of places is not inductive, so
`PlaceInv` names the place instead: for every SPI there are a name and an index (a message of the
topic, an indexer, a reason of loss) such that this place holds the SPI and no other does, and
no two elements of one channel share an SPI. Its step needs `ControlInv`, because a hand-over
overwrites a local variable that must be empty. On top of it stand

- `SpisConserved`: `Spec => []Conservation`. The named place is the only holder, a channel being
  resolved to one slot of its buffer;
- `DeliveryImplemented`: `Spec => ImplementsDelivery`. No step undoes a fate, and only a poll
  changes the topic; as each SPI is seen once before and once after the step, what is newly
  indexed, republished or lost was in flight, is so no longer, and went one way.

*Bulker* (`BulkerAssumption`). `BatchInv` adds to `BatchBounds` that a message is written only
where it fits or into an empty buffer; `AgeInv` bounds the age of the batch at each program
counter. The argument: a batch is no older than the last flush, so a check of the time limit
finds it at most one interval old or flushes it, and after a check that did not, the next one
is at most an interval of the ticker away. Theorems `TypeCorrect`, `BatchLimits`, `BoundedAge`.

*Buffers* (`BuffersAssumption`, `TopicAssumption`). `Owned` (the type of `ref`, and that no two places refer
to one buffer) is inductive as it stands: each hand-over moves a reference from one place to one
other (`GiveToOwned`, `RecvToOwned`), and `Get` takes a buffer that only the pool, or nobody, refers
to (`GetToOwned`, `GetIsFree`). That the consumer's variable refers to nothing that is elsewhere, unless it is
logging, needs the whole invariant, as do the theorems about what is in the buffers. They rest on two layers.

- *Sequences.* What `FlatMap`, `Payload`, `ActionsOf` and `ErrorLines` compute is shown for sequences of
  any length. The library's induction theorems have an operator as parameter and cannot be used, so
  `SetInduction` derives induction from the well-foundedness of `<` with the property given as a *set*,
  and `SeqInduction` lifts it to sequences. With it: Elasticsearch reads from a payload the actions it was
  made from (`ActionsOfPayload`); if each action has two lines, item `k` has lines `2k-1` and `2k`
  (`LinePairs`), so `parseESErrors` stays in range and copies exactly the failed lines (`ErrorLinesExact`);
  messages written one after the other each occur in one piece and no action twice (`WholeRequest`).
- *The invariant* `IInv`. `Owned`; how many buffers each place has (`Counts`) and at which program
  counters (`HoldsBuffer`); what is in a pool is empty (`PoolsClean`), which is what makes `Get` without a
  reset safe; there is an assignment of messages to buffers, each message in one buffer only and not in
  the topic any more, such that every buffer of a message or of a batch holds the payload of its
  messages (`WholeMessages`); what `parseESErrors` wrote is exact wherever it is (`ErrorsExact`); the message
  that the consumer sent is in its buffer until that is Put (`SentIntact`). `BatchesAreWhole` alone is not
  inductive: it says nothing of the messages on their way to a batch. Most steps only move buffers of a
  kind (`PassingKept`, `BatchesKept`, `ErrorsKept`); `BulkWrite` joins the messages of two buffers.

Theorems `NoSharingTheorem`, `TypeCorrect`, `BatchesAreWholeTheorem`, `FailedLinesExactTheorem`, `TraceTheorem` and, as an action
property, `PanicTheorem`.

*Elasticsearch client* (`ClientAssumption`: finitely many indexers, clusters of at most 65536 nodes). For the
percentage of `d` connections both roundings together are off by less than `1/d`: the quotient is
`mant / scale` with an error of half a unit, the product's is at most 64 units, and `114 * d < scale`
(`QuotientFacts`, `TimesHundredFacts`, `PercentageExact`). `IInv` adds to `TypeOK` that the pool is within the
bound, that a call which is being attempted was carried out at most once per earlier attempt, and what
a collector that saw a connection has described. Theorems `TypeCorrect`, `ThresholdExactTheorem`,
`DuplicatesBoundedTheorem`, `ScrapesSucceedTheorem`. `NoReloadStormTheorem` has the hypothesis
`MaxDeadPercentage > 0`: with a maximum of 0 a pool without connections is reloaded at every check.

*Supervisor* (`SettingsAssumption`, `IndexersAssumption`: there is an indexer, and indexers are none of the other goroutines). `IInv` adds to the properties
that a context which is cancelled while no error is recorded was cancelled by a signal, because the pool
records an error before it cancels (`CancelledBySignal`). For `computeBuckets` the loop's bounds are those of integer division (`DivFacts`,
`ComputeBucketsFacts`). Theorems `TypeCorrect`, `RootCauseTheorem`, `BucketsTheorem`.

*Delivery reports* (`ReportsAssumption`). `IInv` says that each message produced is queued or answered
for once (`Accounted`), where a report is (`ReportHeld`), who closed the channel (`ChanState`) and that the
counters never run ahead (`CountersBehind`). Theorems `TypeCorrect` and `CountersMatchReportsTheorem`. Two more
bound the disagreement of `producer_flush_panic`: `PanicOnlyInFlush` (never while messages are still being
produced) and `FlushSafeWithoutReports` (never without delivery reports).

*Consumer group* (`GroupAssumption`). `IInv` joins `TypeOK` and `NothingPassedOver` with four parts:
an owner runs or is blocked, and knows its assignment (`OwnersRun`), what is stored is the position
(`StoredIsPosition`), an owner is not behind the group (`OwnerAhead`), and what lies between the
group's offset and an owner's position is settled, skipped or held by *this* owner
(`OwnerClaims`). The last part is what survives a crash of some other instance that holds the
same message. Theorems `TypeCorrect`, `NothingPassedOverTheorem` and `OffsetsNeverGoBackTheorem` follow.
`ConsumedOnceTheorem` needs a second invariant for undisturbed partitions: only the owner polls,
and all that was ever polled is below the offset at which the next owner would start.

Every invariant and every action property of the passing runs is proved. Only model-checked: the
liveness properties, since fairness is out of the prover's reach.

## 5. Not modelled

- What each setting and option is: they are the constants. Log formatting, the logger of the
  Elasticsearch client included: it reads copies of request and response, and its result is ignored.
- The counters of `metrics/metrics.go` other than the delivery reports: nothing in the program reads
  them. (`msgConsumedError` and `msgProducedError` are incremented but never registered,
  `src/metrics/metrics.go:175`.)
- TLS and authentication, and what the two Kafka libraries and the Elasticsearch client do inside;
  they appear as the external actions named in `PROJECT.json`.
- The length of the backoff between two attempts; only their number matters to the properties.

## 6. Plan

1. Done: `Pipeline` with `Delivery`, `Bulker`, `Supervisor`, `DeliveryReports`, `Buffers`, `ESClient`,
   `ConsumerGroup`, the runs above, the theorems of section 4.
2. Open: lemmas that shorten the longest step proofs (`PipelineConservation`, `BuffersProofs`).
