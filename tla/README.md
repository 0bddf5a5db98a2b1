# A formal model of the Solana stream client

This directory is a TLA+ development of the streaming client in `src/src/`: the
path of an event from Kafka through deduplication, backpressure, batching and
the workers, the service process around it with its metrics, health checks and
HTTP server, and the utilities the crate exports beside it. Every
module is translated from the Rust source; comments of the modules name the
file and line they stand for, and the `map` of `PROJECT.json` names them for
every definition. Source paths below are relative to `src/src/`.

Contents: 1 the system; 2 the modules; 3 the runs; 4 the proofs; 5 known
disagreements between the code and its documentation; 6 what is not modelled;
7 the plan.

## 1. The system

| Component | State | Operations | Talks to |
|---|---|---|---|
| ResourceManager (`resource_manager.rs`) | three atomics: messages in flight, memory estimate, count of backpressure signals | `check_resources`, `start_processing`, `complete_processing`, `is_backpressure_active`, activate / deactivate a signal | shared by every client task and every batch worker |
| BatchProcessor (`batch_processor.rs`) | bounded event channel, the collector's batch and timer, bounded batch channel, one batch in each worker's hands | `add_event`, the collector loop (`select!` over receive and timeout), worker loop, `shutdown`, drop | the user's `EventProcessor`; ResourceManager |
| StreamConsumer (`consumer.rs`) | position in the topic, cache of seen signatures, active filter | `next_event` (gate, receive, parse, dedup, filter, commit), `set_filter` | Kafka; ResourceManager; its caller |
| BitqueryClient (`client.rs`) | an RwLock around the consumer, the current batch processor | `new`, `start`, `next_event`, `set_filter`, `process_events`, `shutdown` | the two above |
| service main (`main.rs`) | the phase of start-up, the three branches of its `select!` | read the environment, validate, dry run, start; `run_service`: check health once, then handle an event, or record an error and sleep | BitqueryClient, HealthMonitor, MetricsRegistry, the HTTP server |
| Config (`config.rs`) | none | defaults, `new`, `validate` | read by all of the above |
| MetricsRegistry, DexMetricsCollector (`observability/metrics.rs`) | three maps of metrics, each behind an RwLock | increment, set, record; get; `export_prometheus`; the summaries | main's loop; `/metrics` |
| HealthMonitor (`observability/health.rs`), HTTP endpoints (`http_server.rs`) | list of checkers, cached report | `check_health`, `add_checker`; the probes `/health`, `/ready`, `/live` | main; an application's checkers |
| compression, parsing, events (`core/utils/compression.rs`, `consumer.rs`, `events.rs`) | none | decompression attempts, `parse_*`, accessors of the data field | StreamConsumer, filters, processors |
| EventFilter (`filters.rs`) | seven optional conditions | `matches`, the `FilterBuilder` | StreamConsumer |
| processors (`processors/`) | settings; four counters for display | `should_process`, `process` | the batch workers |
| CircuitBreakerSdk (`core/utils/circuit_breaker_sdk.rs`) | state, time of its last change and metrics, each behind a mutex of its own; three atomic counters | `execute` = `allow_request`, operation, `record_success` or `record_failure`; `reset`; three transitions | exported, used by no other module |
| CircuitBreaker (`core/utils/circuit_breaker.rs`) | two atomics and a mutex around a time | `is_open`, `record_success`, `record_failure` | exported only |
| MessageDeduplicator (`core/utils/deduplicator.rs`) | LRU cache from signature to the time it was last offered | `should_process` | exported only |
| Base58Cache (`core/utils/base58_cache.rs`) | an LRU cache of encodings and one of decodings, each behind a mutex | `encode`, `decode` | exported only |
| RetryStrategy (`core/utils/retry.rs`) | attempts and delay of one call | `retry` | exported only |
| logging, tracing, SDK metrics, schemas | none that anything reads back | output | not modelled, section 6 |

How they interact. Any number of client tasks call `next_event`. Each first
reads the signal count and calls `check_resources`, which may raise a signal;
if not held back it receives a record, drops it, or commits its offset and
returns the event. In batch mode `process_events` pushes the event into the
event channel. One collector task forms batches by size or timeout and pushes
them into the batch channel; workers take them, add their length to the
in-flight count, call the user's processor for each event, subtract the length
again and, if the count is now low enough, lower one signal. The only links
back from the workers to the clients are the two bounded channels and the
three atomics. The service binary does not batch: its loop takes one event at a
time and records it in the metrics registry, while a task of its own serves the
probes and the scrapes.

What is hard about it.

* ResourceManager has no lock. Each method is a sequence of atomic accesses,
  and tasks of a multi-threaded runtime interleave between any two of them.
* The collector's `select!` is biased, its timer is recomputed at every
  iteration, and a remaining time of zero *disables* the timer branch.
* A channel closes when either end is gone. Who still owns a sender or a
  receiver decides whether the other tasks end; a panicking processor takes a
  worker, and with the last worker the collector, with it.
* `next_event` stores the signature, then commits, then returns. Each of the
  three can be the last thing that happens before an error or a crash.
* Both breakers read the state in one step and act on it in another, and
  change it in several.
* The metrics registry and the Base58 cache look an entry up, let the lock go,
  and take it again to insert; a scrape holds three locks while it waits.
* Health checks of several tasks interleave at every checker, and the probes
  answer from a report that is made once.
* What a parser writes as text a filter reads as a number: whether a condition
  can ever hold is decided three files away from where it is set.

What makes each component correct: no update of the in-flight count is lost,
and signals are neither lost nor wrapped (ResourceManager); accepted events
stay in order, are in exactly one place, and are settled, and the count stands
for the batches being processed (BatchProcessor; what panicked workers leave in
it, section 5);
nothing is skipped or returned twice, and the committed offset never passes an
event that was not settled (StreamConsumer); end to end an event is processed
at most once and backpressure ends (Pipeline); overshoot of the half-open
limit is bounded, requests are accounted for, and no state lasts for ever
(the breakers; with the exceptions of section 5); a refusal depends only on
recent calls (MessageDeduplicator);
a cache cannot be told from what it caches (Base58Cache); attempts are exact and
waits bounded (RetryStrategy); a metric loses nothing but at its first
increments, and no lock is waited for for ever (MetricsRegistry); the report says
what its components say and the probes what the report says (HealthMonitor);
what was validated is what runs (service main, Config); conditions of a filter
only narrow, and no event of the consumer makes a processor panic unless the
message was incomplete (EventFilter, processors).

## 2. The modules

| Module | Models | Extends |
|---|---|---|
| `ResourceManager` | the three atomics, one step per load, store or `fetch_*` | |
| `EventOrder` | what it means for events to be in order | |
| `EventDelivery` | what BatchProcessor promises, without channels or tasks | |
| `BatchProcessor` | channels, collector, workers, owner; an instance of `EventDelivery` | `ResourceManager`, `EventOrder` |
| `BatchAccounting` | the events behind the in-flight count, a history over `BatchProcessor` | `BatchProcessor` |
| `StreamConsumer` | `next_event` over a Kafka log, several clients, crash and restart | `ResourceManager`, `EventOrder` |
| `Pipeline` | `process_events`: the three components together | `BatchProcessor`, `StreamConsumer` |
| `CircuitBreakerSdk` | the three-state breaker, one step per access | |
| `HalfOpenPeriod` | what happened in a half-open period, a history over the breaker | `CircuitBreakerSdk` |
| `CircuitBreaker` | the two-state breaker, one step per access | |
| `LruCache` | the `lru` crate as a sequence of entries | |
| `MessageDeduplicator` | `should_process` with a clock | `LruCache` |
| `TransparentCodec` | what Base58Cache promises: a codec | |
| `Base58Cache` | `encode` and `decode` by several threads; an instance of `TransparentCodec` | `LruCache` |
| `RetryStrategy` | one call of `retry` | |
| `SolanaEvents` | decompression, parsing and accessors as operators | |
| `EventFilter` | `matches` and the builder | `SolanaEvents` |
| `MessagePath` | one message after the other from payload to processor | `EventFilter` |
| `Config` | defaults and `validate` as operators | |
| `MetricsRegistry` | the maps, their fair locks, the calls made of accesses | |
| `HealthMonitor` | checks, the cached report, the probes | |
| `Service` | the process: start-up, `select!`, loop, server | `Config`, `HealthMonitor`, `MetricsRegistry` |
| `MC...` | the above for TLC; `MCAtomics`, `MCParts` and `MCService` hold several subjects | |
| `ResourceManagerProofs`, `EventOrderProofs` | theorems; lemmas about queues | the module, TLAPS |
| `BatchProcessorProofs`, `StreamConsumerProofs` | theorems about one component each | `BatchAccounting`, `StreamConsumer`, and the two above |
| `PipelineProofs` | theorems about the composition | `Pipeline` and the two above |
| `CircuitBreakerSdkProofs` | theorems about the three-state breaker | the module, TLAPS |
| `PartsProofs` | theorems about the parts without shared state, a section for each | `CircuitBreaker`, `RetryStrategy`, `MessagePath`, `Base58Cache`, `MessageDeduplicator` |
| `ServiceProofs` | theorems about the process and the registry | `Service` |

**ResourceManager.** `pc[t]` is where task `t` is in the code and `local[t]`
its local variables (`in_flight`, `estimated_memory`). A client goes from
`out` to `gate` (`is_backpressure_active`), `check` (the load of the count),
`check_mem` and `check_store` (the memory estimate), `activate` (the
`fetch_add` of a signal) and ends in `recv` or `delay`. A worker goes from
`idle` through `start`, `processing` and the `ease...` labels, which are the
accesses of `complete_processing` after its `fetch_sub`. The steps take the task as a
parameter, so `BatchProcessor` and `Pipeline` use the same definitions.
`batch_len[w]` is what worker `w` has added to the count and not yet taken out,
also when the worker has died since.
Counters wrap modulo `UsizeMax + 1`. The monitoring loop only reads and logs.
Two products of the source are computed in `f64` and truncated; the model uses
integer arithmetic, which agrees for every value the runs use (in `f64`,
0.70 * 90 truncates to 62, so the two may differ by one in general).

**BatchProcessor.** A step ends at each await. `event_channel` and
`batch_channel` are sequences with a capacity (`MaxQueueSize` and
`max(10, 2 * workers)`). `collector` and `timer_armed` are the collector's
place in its loop and whether the sleep branch is enabled. `DropBatchProcessor`
drops both senders, `Shutdown` closes only the event channel, as the code does.
`WorkerPanic` unwinds a worker inside the user's processor (the crate does not
set `panic = "abort"`). `accepted`, `rejected`, `outcome` and `lost` are
history variables, from which the status of an event in `EventDelivery` is
computed. An event in no worker's hands is `Batched` or `Queued`, and
`AcceptedAccounted` says of these sets that each event is in one place, that
each queue is ascending, that what is further along is below what comes behind
it, and that nothing was accepted that is in none of them.
`BatchAccounting` remembers which events a worker has added to the in-flight
count (`counted`): those of the batch it took, from `start_processing` to
`complete_processing`. A worker that unwinds never reaches the second, so its
batch stays counted; `InFlightAccounted` says that the count is the events of
the batches being processed and of the batches leaked in this way, and no
others.

**StreamConsumer.** `kafka_log` is chosen in the initial state, so every log of
the given length is explored; a record is an event with a signature, a payload
that cannot be parsed, or one of an unhandled topic. `committed` is the
broker's offset and `commit_queue` the asynchronous commits on their way.
`holding[c]` is the record client `c` works on. The dedup cache is a set that
is emptied when it is full, as `process_signature` does. `NoSig`, what a record
without a signature has for one, is no signature (`ConsumerAssumption`). A
filter is the set of signatures it lets through. `SetFilter` needs the write
side of the lock, which no client inside `next_event` may hold. `Crash` resets
everything except the broker. `deployment` is the configured group id and
`auto.offset.reset`: with a stable group a restart finds the committed offset,
with a new one (the default) it finds none and begins at the start or the end
of the topic.

**Pipeline.** The offsets of the log are the events of the batch processor.
`EnterFromLoop` is the global check of `process_events`, `HandOver` and
`HandOverErr` the call of `add_event`.

**The breakers and the deduplicator.** `todo[c]` in `CircuitBreakerSdk` is the
list of accesses caller `c` has still to make; in `CircuitBreaker`, `pc[c]`
plays that role and `holder` is the caller that keeps the mutex across another
access. Times are abstracted to whether `reset_timeout` has passed since them. Of the
SDK breaker's metrics `balance` is kept, the total of requests less those counted as
successful, failed or rejected (u64 counters, whose overflow is out of reach); the
transition count and the times are only reported. `Abandon` drops the future of an `execute` or a
`reset` at any of its awaits, those of the mutexes included, and whatever the
caller had still to do is left out. `HalfOpenPeriod` counts the test requests
that have succeeded since the circuit half-opened (`passed`) and remembers whether a future
was dropped, or the store of zero to `success_count` met counted successes
(`hindered`).
`MessageDeduplicator` has a discrete clock `now` and keeps the list of all calls
as history.

**Base58Cache.** `codec_call[t]` is thread `t`'s call: `look_up`, `compute`,
`done`. The look-up and the store are each one critical section; the
computation belongs to the store's step because nothing shared is touched in
between. An LRU cache is a sequence, least recently used first, and
`WellFormed` says that it holds no key twice.

**RetryStrategy.** One call of `retry`. The state is the configuration, the
attempts and the delay; percentages replace the `f64` multiplier, and the jitter
is any value up to a tenth of the grown delay.

**SolanaEvents, EventFilter, MessagePath.** A payload is its encoding, its
length and its first word, which is all the heuristics look at. A text is what
it spells (`hex`, `base58` or a literal) and how many characters it has; a JSON
value is text, text that spells a number, or a number, because that is what the
accessors tell apart. An `Option` is a set of at most one value. `MessagePath`
receives messages one by one and carries each through `DecompressPayload`,
`ParseMessage`, `CheckDuplicate`, `FilterEvent` and `HandleEvent`; where
StreamConsumer has three kinds of records, the kind follows here from the
content. Garbage that decodes is modelled as any block. A block is represented
by `the_first` of its transactions that is `successful`, or has items; a header
that is missing, or none that fits, leaves no event. `MessageAssumption` says
what every `BlockMessage` is by its type: an `Option` has at most one value and
transactions are numbered.

**MetricsRegistry.** A call of the registry or of the collector is a list of
accesses (`todo[t]`). `queue[map]` is tokio's fair RwLock: requests are served
in order, neighbouring readers together. `RecordMissed` drops the read guard
and `Insert` runs under the write guard without another look, as the code does.
`Hold` is a scrape that keeps a guard until it has read the histograms.
`overwritten` and `recorded` are history, the latter of map and name, because
a gauge may have the name of a counter. A metric's name is any of `MetricNames`
(strings, in the run); `RegistryAssumption` says that a call is a list of
accesses to such names and that tasks are finitely many; counters are unsigned.

**HealthMonitor.** `check_call[t]` is the check task `t` is making: what it has
asked so far and the overall status. The built-in checkers compare simulated
constants with their thresholds, as in the code; those of an application
(`CustomCheckers`) change at any time. The three handlers are operators on the
cached report; without one they see an Unhealthy one.

**Service.** `phase` is where `main` is; `config` what it would use now.
`start_overrides` is applied twice because `start_service` contains the same
block twice. In phase `run` the three branches of the `select!` interleave:
the loop (`loop_at`, with its accesses to the registry in `todo[main]`), the
signal, and the server, which may fail to bind. When `main` returns, every task
is dropped where it is. The command `embedded` stands for an application that
brings its own `Config` and uses the client only.

**Refinement.** Two modules are shown to implement an abstract one by an
explicit instance. `Delivery == INSTANCE EventDelivery WITH status <- ...` in
`BatchProcessor` maps each event to `new`, `refused`, `pending`, its result or
`given_up`; the batches, both channels and every task are hidden, and a step of
the collector is a stutter. `Codec == INSTANCE TransparentCodec WITH pending <- ...`
in `Base58Cache` hides the caches: a look-up that misses is a stutter and the
answer is what the codec computes.

Definitions named `<Definition>_<Change>` under a comment that begins with
`Mutant:` are variants of a definition with a plausible bug. No specification
uses them; each was substituted for its original to confirm that the run it is
listed with in `PROJECT.json` finds the named property violated.

## 3. The runs

Run one with `tlc -config <cfg> <module>`.

| Run | Checks | Shows |
|---|---|---|
| `atomics` | RMTypeOK, SignalsBounded, DeactivateOnlyIfActive; SlotsBounded, MetricsAccounted, HalfOpenResolves | the manager with one worker and two clients: signals are bounded by the clients, never wrap, and are lowered only while raised; the three-state breaker with two callers, two successes needed, one slot, and two resets or dropped futures: what may end a half-open period and what alone may keep it |
| `rm_underflow` | DeactivateOnlyIfActive, **violated** | two workers pass the same check and both subtract: the count wraps |
| `bp_events` | BPTypeOK, AcceptedAccounted, InFlightAccounted, BPImplementsDelivery, AcceptedSettled, DropTerminates | two workers that may both panic; shutdown and drop at any point |
| `bp_shutdown` | ShutdownTerminates, **violated** | `shutdown()` does not end the workers |
| `sc_one` | SCTypeOK, ReturnedFirstCopies, CommitCoversSettled, CommitMonotone, OnlyRestartMisses, RecordsSettled | one client, every log of three records, every deployment, one receive error, one crash: only a restart that begins at the end of the topic misses records |
| `sc_many` | NoDuplicateReturn | two clients in `next_event`, a filter, a failed commit |
| `sc_commit_error` | CommitCoversSettled, **violated** | an event whose commit failed is lost |
| `pipe_flow` | ProcessedOnce, ReturnedAccounted, EasedAfterCompletion | the whole path with one panic and one failed commit |
| `pipe_stuck` | BackpressureEnds, **violated** | a signal is raised after the last completion and stays |
| `sdk_wiped` | ClosesAfterSuccesses, **violated** | no future dropped, no reset: a success counted before the store of zero is wiped, and the circuit stays half open |
| `parts` | CBTypeOK, OpenEnds; RefusedIffRecent; Base58ImplementsCodec; RetriesExact, BackoffGrows; ConditionsNarrow; ContentRecovered, OneEventPerSignature, DeadConditions, PanicsOnlyIfIncomplete | three callers of the two-state breaker; every sequence of six calls of `should_process` over three signatures; two threads in the Base58 cache; every retry configuration; every filter the builder can make against every event; two messages through decompression, parsing, dedup, filter and processor |
| `service` | CheckPredictsStart, AliveIffChecked, NoBlindService; SummaryConsistent, LossOnlyAtFirst, CallsReturn; ProbesRecover | the process with its loop, one health check, metrics, two scrapes and a server that may fail to bind; three tasks in a registry; two tasks checking health with two custom checkers |

`MCAtomics`, `MCParts` and `MCService` hold several subjects. A variable `subject`, chosen in
the initial state, says which of them runs; the others stay as they
are. The behaviours are exactly those of each subject by itself, so an invariant
or property of one is checked as if the run were its own. In `service` the
process is one subject, composed of `Service`, `HealthMonitor` and
`MetricsRegistry`; the registry and the monitor are subjects again, with calls
and checkers that the binary does not have but an application may.

The type invariants carry more than types: BPTypeOK that batches are never
empty nor too long and channels within capacity, SCTypeOK that a client holds a
record exactly while it processes one, CBTypeOK that the mutex is held by the
caller that resets and nobody else.

**Bounds, and why they are enough.**

* *Tasks.* Every race found or excluded is between two tasks: two workers in
  `rm_underflow` and `bp_events`, a client and a worker in the pipeline runs,
  two clients or two callers in `atomics`, two clients in `sc_many`, two threads
  of the Base58 cache, two checks of the health monitor. `parts`
  has three callers of the breaker, for the inconsistent state of the two-state breaker needs
  one that is late, one that opens it and one that looks.
* *Events.* Four events with batches of two make a full batch, a partial one
  and queued batches while both workers are busy; four also exceed the event
  channel, so `add_event` blocks. The batch channel's capacity (at least 10)
  is not reached in these runs; there a full channel only delays the
  collector.
* *Log.* Three records over two signatures contain a duplicate next to, and
  one apart from, its original, with unparsable and unhandled records in every
  position. `DedupCapacity` is 2 in `sc_one` and `sc_many` and
  3 in the pipeline; the code's real capacity is never below 100000.
* *Faults.* `MaxPanics`, `MaxRecvErrors`, `MaxCommitErrors`, `MaxCrashes`
  and `MaxInterrupts` bound how often the environment interferes, and each
  property that depends on one of them is checked with it above zero.
* *Half-open slots.* Two successes needed and one slot, the pair in which every
  success has to count: the request that half-opens the circuit and the one in the
  slot. `HalfOpenResolves` was also checked, in the breaker by itself, for two
  successes and two slots, three and one, three and two, and one and two.
* *Limits.* `atomics` reaches backpressure by memory (three messages) and by
  count (four); `UsizeMax`
  is small so that a wrap is visible, and larger than any honest count.
* *Caches.* Three keys for caches of two entries, so that an eviction happens
  between any look-up and its store; six calls of the deduplicator over a
  window of two and times up to three.
* *Retry.* Zero, one and three retries; delays below and above `max_delay`;
  multipliers below, at and above one. Two messages of `MessagePath` are
  enough for a duplicate of another type; the payloads stand on both sides of
  each bound of the LZ4 and gzip heuristics.
* *Registry.* Three tasks: one that records a trade and increments the total
  again, one that records another trade or takes the summary, one that takes
  any of the other calls. An insertion that replaces another needs two of
  them, a reader queued behind a writer behind a scrape needs three. In the
  process, the loop receives three events or errors while `/metrics` is scraped twice.
* *Start-up.* Six command lines, three environments (none, all variables,
  brokers that are separators only), ten configurations of an application, eight of them
  invalid in one setting each.

`CHECK_DEADLOCK FALSE` stands where the system may really stop: all
events handled and every task ended, the log read to its end, the last of
the bounded calls made. The breakers and the resource manager never stop and
are checked for deadlock in `atomics`; `parts` and `service` turn
it off, because a retry, the messages and the process do end. That calls of
the registry never block each other is the property CallsReturn.

**Fairness.** The tasks run on tokio, which polls every task that has been
woken. So each task's steps together are weakly fair: the collector, each
worker, each client. For callers of the breakers it is assumed that they go on
making calls and that their operation ends; for time, that it passes; for Kafka,
that produced records arrive and that asynchronous commits reach the broker. In
`RetryStrategy` the operation and the sleeps end. In the process, start-up and
`run_service` go on, the server task either binds or panics, scrapes that have
begun go on, and a `select!` whose server branch is ready is polled. No event
has to arrive, no scrape has to be made and no signal sent: `CallsReturn` says
that every call of the registry comes back, not that another follows.
`ProbesRecover` states in its own premise that some task goes on making checks;
the code makes one only.
Nothing is assumed of errors, panics, crashes, `shutdown`, drop, a dropped
future or `reset`. An individual send or mutex acquisition needs no strong
fairness because every wait of these models is for a condition that stays true
until its waiter runs, or that other tasks' fairness brings back in a run where
it is needed.

`AcceptedSettled` also assumes `SlowCollector = FALSE`: that less than a whole
`batch_timeout` passes between the arrival of an event at the collector and its
computing of the remaining time. When more passes (or `batch_timeout` is zero),
`remaining_timeout` is zero, the guard `remaining_timeout > Duration::ZERO`
disables the sleep and the partial batch waits for the next event or the close.

`HalfOpenResolves` names its exceptions: a half-open period may last only when
its slots are spent and, in addition, `success_threshold` is above
`half_open_max_requests + 1`, or a future was dropped in the period, or a
success was wiped. Section 5 says how each comes about.

`DropTerminates` and `AcceptedSettled` are checked while the batch channel, whose capacity is at
least 10, is never full.

## 4. The proofs

All checked by TLAPS, for every value of the constants that the `ASSUME`s of the
modules admit: what the `validate` functions accept, and the types of the
source. Three assumptions say more: a `usize` holds the largest honest count
(`|Workers| * MaxBatchSize <= UsizeMax`, `|Clients| <= UsizeMax`); sets of
tasks and signatures are finite; and events are numbered as the log is
(`PipelineAssumption`). Where a theorem needs a hypothesis of its own, it is stated below
with its reason.

**ResourceManager.** `InFlightExactAlways` says that the count is what the
workers have added and not taken out: no interleaving loses an update. It is a
lemma of the accounting below and of the types, and says nothing of whether a
worker will ever take out what it has added. `RMTypeOKAlways` and
`InFlightExactAlways` come from one invariant, `CountInv`: the two are inductive only together. The type needs
the exact count, because only that shows that the `fetch_sub` of
`complete_processing` does not wrap; the exact count needs the type, because
only `batch_len` in range shows that the `fetch_add` fits. The count is the
cardinality of a set of pairs `(worker, i)` with `i <= batch_len[worker]`, so
the counting lemmas (`SlotsAdd`, `SlotsRemove`) are about one worker's
pairs joining or leaving that set. `SignalsBoundedForOneWorker` and
`DeactivateSoundForOneWorker` assume one worker: `rm_underflow` shows that
two wrap the count. `SignalsBounded` counts the clients that
have passed the gate and not finished their check as if their signal were
already up: a client passes only at a count of zero, so the sum never exceeds
the number of clients.

**BatchProcessor.** `TypeInv` has a part for the queues (`QueuesOK`), one for the
workers' hands (`BatchesOK`) and one that ties a worker's label to what it
holds and has added to the count (`WorkersOK`); it contains `CountInv`, so
`BPTypeOKAlways` follows. `AcceptedAccountedAlways` adds
`OfferedInOrder`: the events answered so far are `1..k`, so the next is above
every one that is queued anywhere. `BPImplementsDeliveryAlways` is the
refinement: for each action, its effect on the status of one event is a step of
`EventDelivery` or none, and `AccountInv` gives what the step needs, that an
event in a worker's hands was accepted and has no outcome yet.
`InFlightAccountedAlways` ties the number to events: `CountedOK` says that the
events a worker has counted are as many as `batch_len`, that they are what is
left of its batch and what it has handled, that those of a worker that panicked
were handled or lost, and that no two workers have counted the same event. The
last rests on the order of the queues (`AccountInv`): a batch that a worker
takes was in nobody's hands before.

**StreamConsumer.** `SCTypeOKAlways` and `NoDuplicateReturnAlways` hold for any
number of clients and any faults. The second rests on `DedupInv`: a client at
the filter has stored its signature, and neither another client at the filter
nor a returned event has the same one; the write lock of the cache makes look-up
and insertion one step, and that is all it takes. Four more are for one client:

* `CommitMonotoneForOneClient`. With two clients, commits are sent in another
  order than the records were received (`client.rs:143` takes the lock for
  reading), and the property is false. `CommitsInv` says that the commits on
  their way ascend, none is below the committed offset, and none is above what
  the client has got to.
* `CommitCoversSettledForOneClient` and `OnlyRestartMissesForOneClient` also
  assume that commits do not fail (`MaxCommitErrors = 0`); `sc_commit_error`
  shows the first of them false otherwise. What lies before the position is
  settled, in the client's hands, or `Missed`; `MissInv` says that a client
  returns only what is settled and that a group that starts at the beginning
  misses nothing.
* `ReturnedFirstCopiesForOneClient` assumes in addition no filter, which would
  take first copies out, and a cache that is not cleared
  (`Cardinality(Sigs) <= DedupCapacity`). `FirstsInv` ties three things to how
  many records were parsed: the signatures in the cache, what was returned, and
  whether the record in hand is a first copy.

**Pipeline.** `ReturnedAccountedAlways` has no hypothesis: nothing between
`next_event` and the event channel loses an event, also when the channel
closes in between. `ProcessedOnceAlways` assumes a cache that is not cleared: `DedupInv`
gives one return per signature, and `FlowInv` that what the workers handled was
accepted, and what was accepted was returned. What the two components do to
their own state is cited from their proofs.

**CircuitBreakerSdk.** `SlotsBoundedAlways`: the counter and the callers that
have loaded it and not yet added to it stay together below the limit and the
number of callers. A load adds a caller to the sum only while the counter is
below the limit, and an addition moves one from the second term to the first.
`MetricsAccountedAlways` follows each caller's list of
accesses: `Plan` describes what a list may look like, so that at most one
metric of a request is outstanding.

**The other parts** (`PartsProofs`).

* `CBTypeOKAlways`: `MutexInv` replaces the cardinality by "any two holders are
  the same"; the one step that takes the mutex across another access requires
  that it is free.
* `RetriesExactAlways`, `BackoffGrowsAlways`: a call is made only while a retry
  is left; the delay that is due is capped after the first wait and, in a
  validated configuration, no shorter than the last one.
* `RefusedIffRecentAlways`: `CacheInv` says that an entry stands for the last
  call with its signature, that the entries behind it are exactly the signatures
  offered since, and that a signature without an entry was pushed out by as many
  others as the cache holds. The entry's position thus counts the distinct
  signatures offered since. `Without`, the removal of an entry, is written
  with `RemoveAt` because a filter over a sequence would need induction.
* `Base58ImplementsCodecAlways`: the caches hold right answers only
  (`CodecInv`), so a hit, and a value stored by another thread meanwhile, cannot
  be told from a computation. It needs no invariant about order or eviction.
* `ContentRecoveredAlways`, `OneEventPerSignatureAlways`, `DeadConditionsAlways`,
  `PanicsOnlyIfIncompleteAlways`: `HandInv` ties the event in hand to a
  message and a block it was parsed from, so that what no parser writes no
  processor sees. `DeadConditions` is about lists of program ids that are all
  base58: an id in hex, or the literal "unknown", can be met.
* `ConditionsNarrowAlways`: for any events, and any conditions the builder sets.

**The process and the registry** (`ServiceProofs`).

* `CheckPredictsStartAlways`: from the load of the configuration to the end of
  the run it is the default with the environment applied, which is valid for
  any environment, and applying the overrides again, as `start_service` does,
  changes nothing.
* `AliveIffCheckedAlways`: every checker of the service answers Healthy, the
  constants it simulates being below its limits, and the report exists exactly
  when main's one check has ended.
* `LossOnlyAtFirstAlways`, `ServiceLossOnlyAtFirst`: a task that is about to
  insert a counter looked it up and missed it, and has not recorded it, for
  counters are never removed (`LossInv`). The service makes its own calls of the
  registry, so it has a theorem of its own.
* `SummaryConsistentAlways`: for any number of tasks and calls, provided that
  a call counts at most one trade of a pair and the total before it, and
  reads the total last (`TradesInOrder`); `CollectorInOrder` shows that `record_trade` and
  `get_business_metrics` do, and a task that increments a pair's counter by
  itself would break the property. An insertion may set a pair's count back
  after a summary has read it, so the counts themselves are not enough:
  `PairsCounted` says that there are numbers of trades `n1` and `n2`, no less than the counts
  and than what was read, which together with the tasks that have counted
  a total and not yet its pair (`Owing`) never exceed the total.

**Only model-checked.** Liveness, which is out of the prover's reach:
AcceptedSettled, DropTerminates, RecordsSettled, EasedAfterCompletion,
HalfOpenResolves, OpenEnds, CallsReturn, ProbesRecover, NoBlindService. And what
the hypotheses above leave out: several workers for the signals, several
clients or failed commits for the offsets.

## 5. Known disagreements

Five are shown by runs:

1. `resource_manager.rs:121-124`. The check of the signal count and the
   `fetch_sub` are two accesses; two workers wrap the count to `usize::MAX` and
   backpressure never ends (`rm_underflow`).
2. `resource_manager.rs:76-79`. The load of the count and the raising of the
   signal are two accesses; if the last batch completes in between, nothing
   will lower the signal and the clients never fetch again (`pipe_stuck`).
3. `batch_processor.rs:258-273`. `shutdown` promises that workers end, but the
   struct keeps a sender of the batch channel (`bp_shutdown`). Dropping the
   struct does end them (`DropTerminates`).
4. `consumer.rs:144-171`. When a commit fails the event is dropped, its
   signature stays in the cache and the next commit passes it; the log message
   speaks of reprocessing (`sc_commit_error`).
5. `circuit_breaker_sdk.rs:382-386`. The circuit is published as half open
   before `half_open_requests` and `success_count` are zeroed. A request that takes a slot
   in between and succeeds has its success wiped; with the slots spent and a
   success missing, the circuit stays half open and rejects every request, although as many test
   requests have succeeded as line 51 requires (`sdk_wiped`). No future has to
   be dropped for it, and `success_threshold = 2` with `half_open_max_requests = 1`
   is enough.

Others were met while modelling and have no run:

* `batch_processor.rs:129`: a remaining timeout of zero disables the timer
  (section 3), and `config.rs` accepts a `batch_timeout` of zero.
* `consumer.rs:144`: the offset is committed before the application has
  processed the event; the module comment (`consumer.rs:33`) says after.
* `client.rs:83`: `set_filter` needs the write lock that `next_event` holds for
  reading while it waits for a record.
* `resource_manager.rs:100`: queued events are not counted in flight, although
  `config.rs:283-284` defines in flight to include them.
* `batch_processor.rs:202-226`: a worker whose processor panics never calls
  `complete_processing`, so its batch stays in the count for good
  (`InFlightAccounted` says how much), although `resource_manager.rs:23` defines it as messages
  "currently being processed or queued". Once the leaked batches alone reach
  `max_messages_in_flight`, every check holds the clients back.
* `resource_manager.rs:77`: the count is compared with the full limit, although
  `config.rs:288` applies `backpressure_threshold` to it.
* `resource_manager.rs:119`: with `max_messages_in_flight = 1` the deactivation
  point truncates to 0 and no count is below it.
* `circuit_breaker_sdk.rs:359-377`: the circuit is set Open before the time of
  the change is stored, so a caller in between compares with the previous time
  and may half-open it at once; a success read in HalfOpen may close a circuit
  that has opened since (`:243-262`).
* `circuit_breaker_sdk.rs:221`: the request that half-opens the circuit is
  not counted, so `half_open_max_requests + 1` go through; half-open slots are
  never given back, so a dropped future, or a `success_threshold` above that
  number, may leave the circuit half open for ever (the exceptions of
  `HalfOpenResolves`).
* `circuit_breaker.rs:74-81`: a check between the swap of `is_open` and the
  store of the time closes the breaker at once; `circuit_breaker.rs:46-53`: a late
  success may clear the time of a breaker that has opened again.
* `deduplicator.rs:138`: the test's bound of two does not hold for the order
  in which each re-offered signature evicts the next.
* `consumer.rs:338`: amounts are written as JSON text, but `filters.rs:87`
  reads the amount of a transfer as `u64`, so a filter with `min_amount` lets no
  transfer pass; `transaction_processor.rs` reads the fee the same way; no price is written
  (`consumer.rs:394-405`), so a `DexProcessor` with a positive
  `min_amount_usd`, the default, processes nothing (`DeadConditions`).
* `consumer.rs:357`: program ids are written in hex; those of `DexProcessor`
  and the filter examples are base58. Its Pump.fun id is spelled `...hRRf...` in
  line 36 and `...hRvf...` in line 87.
* `dex_processor.rs:152`: `&market_address[..8]` panics for "N/A" and
  "unknown", and the panic takes a batch worker with it
  (`PanicsOnlyIfIncomplete` says when).
* `consumer.rs:236`: the cache is keyed by signature alone, so of a transfer, a
  trade and a transaction of one signature a client of all three topics sees the first
  that arrives, and none if its filter rejects that one (`OneEventPerSignature`).
* `filters.rs:14`: "if set, the event's type must be one of these", but an empty
  list is no condition; `slot_range` with min above max passes nothing.
* `compression.rs:164`: an LZ4 payload whose size or ratio is outside the bounds of
  the heuristic is not decompressed; it reaches the parser as it is and is lost
  as a message that does not parse (the exception in `ContentRecovered`).
* `retry.rs:80`: the first delay is not capped, and nothing validates this
  `RetryConfig`; a negative multiplier panics.
* `metrics.rs:168-172`: an entry that was missed is inserted without a second
  look, so first increments of several tasks may replace each other
  (`LossOnlyAtFirst` says that nothing later is lost).
* `metrics.rs:367-374`: `unique_users_total` counts calls; `metrics.rs:435` adds the whole
  uptime to the uptime counter at each update.
* `health.rs:293-306` and `main.rs:365`: the report is made once and never
  renewed. `http_server.rs:220` calls a service alive that is "not completely
  failed", but before the first report it answers 503 (`AliveIffChecked`).
* `main.rs:347-355`: when the HTTP server cannot bind, the process ends with Ok.
* `main.rs:110`: `--config-file` is accepted and not read. The overrides of
  lines 253-289 repeat those of `apply_environment_overrides` twice and leave out topic and
  group; they change nothing any more (`CheckPredictsStart`).
* `main.rs:138`: a list of brokers that is only separators becomes empty names, which
  `validate` accepts.
* `logging.rs:186`: every entry is written with an empty context; the contexts are
  kept per thread, which a task may leave.

## 6. What is not modelled

* Output: the banner, log messages, the text of the Prometheus export and of the
  HTTP answers, `logging.rs`, `tracing.rs` and the SDK metrics. `main` creates a
  logger and a tracer and does not use them; the context a logger stores is
  in a private layer that nobody reads; a span belongs to one task from start to
  finish and is exported nowhere. Nothing in the pipeline depends on them.
* The rdkafka configuration that `client.rs` builds from a `Config`; whether
  creating and subscribing the consumer succeeds is a free choice in `Service`.
* The contents of payloads beyond what filters and processors tell apart.
  Protobuf schemas are generated code.
* Several partitions and rebalances: one partition shows every hazard of the
  commit path, because offsets are per partition.
* Real time: a timer is armed or not, a timeout has passed or not. That a slow
  trickle of events delays a batch by many timeouts, and how long a writer of
  the consumer's lock waits, are therefore outside.
* The display counters of `DexProcessor`, and the percentiles of
  `get_histogram_stats`: computed for display from values that are modelled.

## 7. The plan

Written so far, in this order: ResourceManager and its proofs, BatchProcessor
with EventDelivery, StreamConsumer, Pipeline, the two breakers,
MessageDeduplicator; then Base58Cache with TransparentCodec, RetryStrategy and
its proofs, SolanaEvents, EventFilter, MessagePath, Config, MetricsRegistry,
HealthMonitor, Service.

Proved since: every invariant and every action property that a run checks
and both refinements; the order was ResourceManager,
BatchProcessor, StreamConsumer, Pipeline, CircuitBreakerSdk, the parts, the
process and the registry.

Theorems to come, in this order:

* For two or more clients, what remains of `CommitMonotone`: the committed offset
  moves back by less than the number of clients' records in hand.
* For any number of workers, what remains of `SignalsBounded`: the count wraps
  only if two workers were between `EaseIsActive` and the `fetch_sub`.
* The safety parts of the liveness properties: that a state in which accepted
  events are unsettled is never one in which every task has ended.
