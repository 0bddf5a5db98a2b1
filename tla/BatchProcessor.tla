---------------------------- MODULE BatchProcessor ----------------------------
(***************************************************************************)
(* batch_processor.rs: a bounded event channel, the collector task that    *)
(* turns events into batches, a bounded batch channel and a pool of worker *)
(* tasks that process the batches and account for them in ResourceManager. *)
(*                                                                         *)
(* An await of the source is where a step ends: a send or recv on a        *)
(* channel, a call of the user's EventProcessor, each atomic access of     *)
(* ResourceManager.  An async_channel (external) is a sequence, its        *)
(* capacity, and closed when either end has gone or close() was called.    *)
(***************************************************************************)
EXTENDS ResourceManager, EventOrder

CONSTANTS
    NumEvents,      \* events 1..NumEvents are offered, in this order
    MaxQueueSize,   \* ResourceLimits::max_queue_size
    BatchTimeout,   \* ProcessingConfig::batch_timeout, 0 is accepted
    SlowCollector,  \* the collector may lose the CPU for a whole batch_timeout
    Results,        \* what the user's processor may do with an event
    MaxPanics       \* bound: how many times the user's processor may panic

ASSUME BatchAssumption ==
    /\ NumEvents \in Nat
    /\ MaxQueueSize \in Nat \ {0}
    /\ BatchTimeout \in Nat
    /\ SlowCollector \in BOOLEAN
    /\ Results \subseteq {"skipped", "ok", "err"} /\ Results # {}
    /\ MaxPanics \in Nat
    /\ Workers # {}

Events == 1..NumEvents

VARIABLES
    event_channel,   \* events sent by add_event and not yet collected
    event_closed,    \* the event channel is closed
    owner_alive,     \* the BatchProcessor, and its batch_dispatch_sender, exist
    collector,       \* where the collector is in its loop
    timer_armed,     \* the sleep branch of select! is enabled
    current_batch,   \* the collector's batch
    batch_channel,   \* batches dispatched and not yet received
    worker_batch,    \* what is left of the batch a worker iterates over
    accepted,        \* history: events add_event returned Ok for
    rejected,        \* history: events add_event returned Err for
    outcome,         \* history: how each event was handled, "none" before
    lost,            \* history: events dropped with a task or a failed send
    panics           \* how many times the processor has panicked

channelVars == <<event_channel, event_closed, owner_alive, batch_channel>>
collectorVars == <<collector, timer_armed, current_batch>>
historyVars == <<accepted, rejected, outcome, lost, panics>>
bpVars == <<channelVars, collectorVars, worker_batch, historyVars>>
bpAllVars == <<rmVars, bpVars>>

worker_batch_queue_capacity ==
    LET twice == 2 * Cardinality(Workers) IN IF twice > 10 THEN twice ELSE 10

\* All receivers of the batch channel are clones held by the workers.
BatchReceiversGone == \A w \in Workers : pc[w] \in {"stopped", "panicked"}

\* Mutant: some task keeps a clone of the batch sender.
BatchSendersGone_Leaked == FALSE

\* Its senders are the collector's clone and the BatchProcessor's own.
BatchSendersGone == collector = "stopped" /\ ~owner_alive

BPInit ==
    /\ RMInit
    /\ event_channel = <<>> /\ event_closed = FALSE /\ owner_alive = TRUE
    /\ collector = "recv" /\ timer_armed = FALSE /\ current_batch = <<>>
    /\ batch_channel = <<>>
    /\ worker_batch = [w \in Workers |-> <<>>]
    /\ accepted = {} /\ rejected = {} /\ lost = {} /\ panics = 0
    /\ outcome = [e \in Events |-> "none"]
-----------------------------------------------------------------------------
(* The owner: add_event, shutdown and the drop of the BatchProcessor.      *)

\* send() waits while the channel is full.
AddEvent(e) ==
    /\ owner_alive /\ ~event_closed
    /\ Len(event_channel) < MaxQueueSize
    /\ event_channel' = Append(event_channel, e)
    /\ accepted' = accepted \cup {e}
    /\ UNCHANGED <<event_closed, owner_alive, batch_channel, collectorVars,
                   worker_batch, rejected, outcome, lost, panics>>

\* A closed channel makes send() fail, also one that was waiting for room.
AddEventErr(e) ==
    /\ owner_alive /\ event_closed
    /\ rejected' = rejected \cup {e}
    /\ UNCHANGED <<channelVars, collectorVars, worker_batch, accepted, outcome,
                   lost, panics>>

\* Only the event channel is closed; batch_dispatch_sender is kept.
Shutdown ==
    /\ owner_alive /\ ~event_closed
    /\ event_closed' = TRUE
    /\ UNCHANGED <<event_channel, owner_alive, batch_channel, collectorVars,
                   worker_batch, historyVars>>

\* Dropping the struct (enable_batch_processing replaces it, or the client
\* goes away) drops both senders.
DropBatchProcessor ==
    /\ owner_alive
    /\ owner_alive' = FALSE
    /\ event_closed' = TRUE
    /\ UNCHANGED <<event_channel, batch_channel, collectorVars, worker_batch,
                   historyVars>>
-----------------------------------------------------------------------------
(* The collector's loop.  select! is biased: the timeout branch is polled  *)
(* only after recv() found the channel empty and open.                     *)

\* Mutant: the timeout branch is never enabled.
RemainingTimeout_Never(batch) == {FALSE}

\* remaining_timeout is computed at the top of the loop; when nothing of
\* batch_timeout remains the sleep branch is disabled, not fired.
RemainingTimeout(batch) ==
    IF batch = <<>> \/ BatchTimeout = 0 THEN {FALSE}
    ELSE IF SlowCollector THEN {FALSE, TRUE} ELSE {TRUE}

\* Mutant: the newest event goes to the front of the batch.
CollectorRecv_Prepends ==
    /\ collector = "recv"
    /\ event_channel # <<>>
    /\ event_channel' = Tail(event_channel)
    /\ LET batch == <<Head(event_channel)>> \o current_batch IN
          /\ current_batch' = batch
          /\ collector' = IF Len(batch) >= MaxBatchSize THEN "send" ELSE "recv"
          /\ timer_armed' = (Len(batch) < MaxBatchSize)
    /\ UNCHANGED <<event_closed, owner_alive, batch_channel, worker_batch,
                   historyVars>>

CollectorRecv ==
    /\ collector = "recv"
    /\ event_channel # <<>>
    /\ event_channel' = Tail(event_channel)
    /\ LET batch == Append(current_batch, Head(event_channel)) IN
          /\ current_batch' = batch
          /\ \/ /\ Len(batch) >= MaxBatchSize
                /\ collector' = "send"
                /\ timer_armed' = FALSE
             \/ /\ Len(batch) < MaxBatchSize
                /\ collector' = "recv"
                /\ timer_armed' \in RemainingTimeout(batch)
    /\ UNCHANGED <<event_closed, owner_alive, batch_channel, worker_batch,
                   historyVars>>

CollectorTimeout ==
    /\ collector = "recv"
    /\ event_channel = <<>> /\ ~event_closed
    /\ timer_armed
    /\ collector' = "send"
    /\ timer_armed' = FALSE
    /\ UNCHANGED <<channelVars, current_batch, worker_batch, historyVars>>

\* Mutant: the final batch is sent even when it is empty.
CollectorClosed_SendsEmpty ==
    /\ collector = "recv"
    /\ event_channel = <<>> /\ event_closed
    /\ collector' = "send_final"
    /\ timer_armed' = FALSE
    /\ UNCHANGED <<channelVars, current_batch, worker_batch, historyVars>>

CollectorClosed ==
    /\ collector = "recv"
    /\ event_channel = <<>> /\ event_closed
    /\ collector' = IF current_batch = <<>> THEN "stopped" ELSE "send_final"
    /\ timer_armed' = FALSE
    /\ UNCHANGED <<channelVars, current_batch, worker_batch, historyVars>>

\* batch_sender.send(current_batch) succeeds once there is room.
CollectorSend ==
    /\ collector \in {"send", "send_final"}
    /\ ~BatchReceiversGone
    /\ Len(batch_channel) < worker_batch_queue_capacity
    /\ batch_channel' = Append(batch_channel, current_batch)
    /\ current_batch' = <<>>
    /\ collector' = IF collector = "send" THEN "recv" ELSE "stopped"
    /\ UNCHANGED <<event_channel, event_closed, owner_alive, timer_armed,
                   worker_batch, historyVars>>

\* The send fails when every worker has gone: the batch is dropped, the loop
\* ends and the event receiver goes with it, which closes the event channel.
CollectorSendErr ==
    /\ collector \in {"send", "send_final"}
    /\ BatchReceiversGone
    /\ lost' = lost \cup ToSet(current_batch)
    /\ current_batch' = <<>>
    /\ collector' = "stopped"
    /\ event_closed' = TRUE
    /\ UNCHANGED <<event_channel, owner_alive, batch_channel, timer_armed,
                   worker_batch, accepted, rejected, outcome, panics>>
-----------------------------------------------------------------------------
(* batch_worker_loop.                                                      *)

WorkerRecv(w) ==
    /\ batch_channel # <<>>
    /\ Jump(w, "idle", IF Head(batch_channel) = <<>> THEN "idle" ELSE "start")
    /\ worker_batch' = [worker_batch EXCEPT ![w] = Head(batch_channel)]
    /\ batch_channel' = Tail(batch_channel)
    /\ UNCHANGED <<event_channel, event_closed, owner_alive, collectorVars,
                   historyVars>>

WorkerStart(w) == StartProcessing(w, Len(worker_batch[w])) /\ UNCHANGED bpVars

\* Mutant: the worker does not advance past the event it processed.
WorkerProcess_Repeats(w) ==
    /\ pc[w] = "processing"
    /\ worker_batch[w] # <<>>
    /\ \E result \in Results :
          outcome' = [outcome EXCEPT ![Head(worker_batch[w])] = result]
    /\ UNCHANGED <<rmVars, channelVars, collectorVars, worker_batch, accepted,
                   rejected, lost, panics>>

\* should_process() says no, or process() returns Ok or Err.
WorkerProcess(w) ==
    /\ pc[w] = "processing"
    /\ worker_batch[w] # <<>>
    /\ \E result \in Results :
          outcome' = [outcome EXCEPT ![Head(worker_batch[w])] = result]
    /\ worker_batch' = [worker_batch EXCEPT ![w] = Tail(@)]
    /\ UNCHANGED <<rmVars, channelVars, collectorVars, accepted, rejected, lost,
                   panics>>

\* A panic in the user's processor ends the task without
\* complete_processing; nobody holds its JoinHandle.
WorkerPanic(w) ==
    /\ Jump(w, "processing", "panicked")
    /\ worker_batch[w] # <<>>
    /\ panics < MaxPanics
    /\ panics' = panics + 1
    /\ lost' = lost \cup ToSet(worker_batch[w])
    /\ worker_batch' = [worker_batch EXCEPT ![w] = <<>>]
    /\ UNCHANGED <<channelVars, collectorVars, accepted, rejected, outcome>>

WorkerComplete(w) ==
    /\ worker_batch[w] = <<>>
    /\ CompleteProcessing(w)
    /\ UNCHANGED bpVars

WorkerEase(w) == EaseStep(w) /\ UNCHANGED bpVars

WorkerStop(w) ==
    /\ Jump(w, "idle", "stopped")
    /\ batch_channel = <<>> /\ BatchSendersGone
    /\ UNCHANGED bpVars
-----------------------------------------------------------------------------
CollectorStep == \/ CollectorRecv
                 \/ CollectorTimeout
                 \/ CollectorClosed
                 \/ CollectorSend
                 \/ CollectorSendErr

WorkerStep(w) == \/ WorkerRecv(w)
                 \/ WorkerStart(w)
                 \/ WorkerProcess(w)
                 \/ WorkerComplete(w)
                 \/ WorkerEase(w)
                 \/ WorkerStop(w)

\* The caller offers the events one after the other.
NextEvent == Cardinality(accepted \cup rejected) + 1

OwnerStep == \/ NextEvent \in Events /\ AddEvent(NextEvent)
             \/ NextEvent \in Events /\ AddEventErr(NextEvent)
             \/ Shutdown
             \/ DropBatchProcessor

BPNext == \/ OwnerStep /\ UNCHANGED rmVars
          \/ CollectorStep /\ UNCHANGED rmVars
          \/ \E w \in Workers : WorkerStep(w) \/ WorkerPanic(w)

BPSpec == BPInit /\ [][BPNext]_bpAllVars

\* The runtime keeps running every task that can make progress.  Nothing is
\* assumed of the owner or of the user's processor panicking.
BPFairness == /\ WF_bpAllVars(CollectorStep /\ UNCHANGED rmVars)
              /\ \A w \in Workers : WF_bpAllVars(WorkerStep(w))

BPFairSpec == BPSpec /\ BPFairness
-----------------------------------------------------------------------------
\* Every variable keeps its type; a batch is never empty once it is sent and
\* never longer than batch_size, and the channels respect their capacities.
BPTypeOK ==
    /\ messages_in_flight \in 0..UsizeMax
    /\ backpressure_active_signals \in 0..UsizeMax
    /\ current_memory_estimate_bytes \in Nat
    /\ pc \in [Tasks -> ClientLabels \cup WorkerLabels
                           \cup {"stopped", "panicked"}]
    /\ local \in [Tasks -> [count : Nat, mem : Nat]]
    /\ batch_len \in [Workers -> 0..MaxBatchSize]
    /\ event_channel \in Seq(Events) /\ Len(event_channel) <= MaxQueueSize
    /\ event_closed \in BOOLEAN /\ owner_alive \in BOOLEAN
    /\ collector \in {"recv", "send", "send_final", "stopped"}
    /\ timer_armed \in BOOLEAN
    /\ current_batch \in Seq(Events) /\ Len(current_batch) <= MaxBatchSize
    /\ batch_channel \in Seq(Seq(Events))
    /\ Len(batch_channel) <= worker_batch_queue_capacity
    /\ \A i \in DOMAIN batch_channel :
          batch_channel[i] # <<>> /\ Len(batch_channel[i]) <= MaxBatchSize
    /\ worker_batch \in [Workers -> Seq(Events)]
    /\ \A w \in Workers : Len(worker_batch[w]) <= MaxBatchSize
    /\ accepted \in SUBSET Events /\ rejected \in SUBSET Events
    /\ outcome \in [Events -> {"none"} \cup Results]
    /\ lost \in SUBSET Events
    /\ panics \in 0..MaxPanics

\* Everything accepted that no worker has received yet.
Batched == UNION {ToSet(batch) : batch \in ToSet(batch_channel)}

Queued == Batched \cup ToSet(current_batch) \cup ToSet(event_channel)

InHands == UNION {ToSet(worker_batch[w]) : w \in Workers}

Handled == {e \in Events : outcome[e] # "none"}

\* From the batch channel through the collector to the event channel, and
\* inside every batch, the events stand in the order add_event accepted them.
QueuesInOrder ==
    /\ \A w \in Workers : Ascending(worker_batch[w])
    /\ \A i \in DOMAIN batch_channel : Ascending(batch_channel[i])
    /\ \A i, j \in DOMAIN batch_channel :
          i < j => AllBefore(ToSet(batch_channel[i]), ToSet(batch_channel[j]))
    /\ Ascending(current_batch)
    /\ AllBefore(Batched, ToSet(current_batch))
    /\ Ascending(event_channel)
    /\ AllBefore(Batched \cup ToSet(current_batch), ToSet(event_channel))

\* While a worker is left nothing is lost on the way: what is queued is the
\* newest part of what was accepted (batch_processor.rs:92-139).
NoneSkipped ==
    ~BatchReceiversGone =>
        \A e \in Queued, d \in accepted : e < d => d \in Queued

\* No event is in two places; inside a queue the order already says so.
OnePlaceEach ==
    /\ \A v, w \in Workers :
          v # w => ToSet(worker_batch[v]) \cap ToSet(worker_batch[w]) = {}
    /\ InHands \cap Queued = {}
    /\ Handled \cap (Queued \cup InHands) = {}
    /\ lost \cap (Queued \cup InHands \cup Handled) = {}

\* Every accepted event is in exactly one place: a channel, the collector, one
\* worker's hands, handled, or lost with a panicked worker or a failed send;
\* and those on the way are in order, with none skipped.
AcceptedAccounted ==
    /\ accepted = Queued \cup InHands \cup Handled \cup lost
    /\ OnePlaceEach
    /\ QueuesInOrder
    /\ NoneSkipped

\* What has become of an event, as the caller of add_event sees it.
EventStatus(e) ==
    IF e \in lost THEN "given_up"
    ELSE IF e \in rejected THEN "refused"
    ELSE IF outcome[e] # "none" THEN outcome[e]
    ELSE IF e \in accepted THEN "pending" ELSE "new"

\* BatchProcessor implements EventDelivery: acceptance is final, handling is
\* at most once, and an event given up is never handled.
Delivery == INSTANCE EventDelivery
                WITH status <- [e \in Events |-> EventStatus(e)]
BPImplementsDelivery == Delivery!DeliverySpec

AllPanicked == \A w \in Workers : pc[w] = "panicked"

\* While one worker is left every accepted event is handled, or lost with the
\* batch of one that panicked: also the last ones of a partial batch, whether
\* the processor is shut down, dropped or neither (batch_processor.rs:92-139).
AcceptedSettled ==
    \A e \in Events :
        e \in accepted ~> (outcome[e] # "none" \/ e \in lost \/ AllPanicked)

\* Dropping the processor drains the channels and ends every task: the
\* collector, then each worker that has not panicked.
DropTerminates ==
    ~owner_alive ~> /\ collector = "stopped"
                    /\ \A w \in Workers : pc[w] \in {"stopped", "panicked"}
                    /\ accepted = Handled \cup lost \/ AllPanicked

\* "Closes the input event channel, allowing existing events to be processed
\* and worker tasks to terminate once their queues are empty."
\* (batch_processor.rs:258-259)
ShutdownTerminates ==
    event_closed ~> \A w \in Workers : pc[w] = "stopped"
=============================================================================
