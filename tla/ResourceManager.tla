--------------------------- MODULE ResourceManager ---------------------------
(***************************************************************************)
(* resource_manager.rs: the three shared atomics that count the messages   *)
(* being processed and signal backpressure, and the methods that read and  *)
(* write them.                                                             *)
(*                                                                         *)
(* Every load, store and fetch_* of the source is one step here, because   *)
(* the methods take no lock: tasks of a multi-threaded runtime interleave  *)
(* between any two of them.  Clients are the tasks that fetch events       *)
(* (is_backpressure_active, then check_resources); Workers are the batch   *)
(* workers (start_processing ... complete_processing).  The steps are      *)
(* parameterised by the task, so BatchProcessor and Pipeline use the same  *)
(* definitions in their own next-state relations.                          *)
(***************************************************************************)
EXTENDS Integers, FiniteSets

CONSTANTS
    Clients,              \* tasks that call next_event
    Workers,              \* batch worker tasks
    MaxBatchSize,         \* ProcessingConfig::batch_size
    MaxMessagesInFlight,  \* ResourceLimits::max_messages_in_flight
    MaxMemoryBytes,       \* ResourceLimits::max_memory_bytes
    ThresholdPct,         \* ResourceLimits::backpressure_threshold, in percent
    UsizeMax              \* largest usize: the atomics wrap modulo UsizeMax + 1

\* What Config::validate accepts (config.rs:297-314), and a usize that can
\* count every message the workers can hold at once.
ASSUME ResourceAssumption ==
    /\ MaxBatchSize \in Nat \ {0}
    /\ MaxMessagesInFlight \in Nat \ {0}
    /\ MaxMemoryBytes \in Nat \ {0}
    /\ ThresholdPct \in 10..100
    /\ UsizeMax \in Nat
    /\ IsFiniteSet(Workers) /\ IsFiniteSet(Clients)
    /\ Workers \cap Clients = {}
    /\ Cardinality(Workers) * MaxBatchSize <= UsizeMax
    /\ Cardinality(Clients) <= UsizeMax

Tasks == Clients \cup Workers

VARIABLES
    messages_in_flight,             \* AtomicUsize
    current_memory_estimate_bytes,  \* AtomicU64, what the monitor reports
    backpressure_active_signals,    \* AtomicUsize, backpressure is on iff > 0
    pc,                             \* where each task is in the code
    local,                          \* in_flight / estimated_memory locals
    batch_len                       \* messages a worker has added and not removed

rmVars == <<messages_in_flight, current_memory_estimate_bytes,
            backpressure_active_signals, pc, local, batch_len>>
-----------------------------------------------------------------------------
(* Thresholds.  f64 products are truncated by `as u64` / `as usize`.        *)

avg_message_ram_footprint_bytes == 20 * 1024

memory_trigger_threshold == (MaxMemoryBytes * ThresholdPct) \div 100

memory_deactivation_point == (MaxMemoryBytes * ThresholdPct * 70) \div 10000

\* Mutant: seven percent instead of seventy.
messages_deactivation_point_Low == (MaxMessagesInFlight * 7) \div 100

messages_deactivation_point == (MaxMessagesInFlight * 70) \div 100

\* fetch_add and fetch_sub of an AtomicUsize wrap around.
FetchAdd(x, n) == (x + n) % (UsizeMax + 1)
FetchSub(x, n) == (x - n) % (UsizeMax + 1)

NoLocals == [count |-> 0, mem |-> 0]

Goto(t, label) == pc' = [pc EXCEPT ![t] = label]

\* A step that reads, and decides where the task goes on.
Jump(t, at, next) ==
    /\ pc[t] = at
    /\ Goto(t, next)
    /\ UNCHANGED <<messages_in_flight, current_memory_estimate_bytes,
                   backpressure_active_signals, local, batch_len>>

\* No client is inside next_event, every worker waits for a batch.
StartLabels == [t \in Tasks |-> IF t \in Clients THEN "out" ELSE "idle"]

RMInit ==
    /\ messages_in_flight = 0
    /\ current_memory_estimate_bytes = 0
    /\ backpressure_active_signals = 0
    /\ pc = StartLabels
    /\ local = [t \in Tasks |-> NoLocals]
    /\ batch_len = [w \in Workers |-> 0]
-----------------------------------------------------------------------------
(* get_estimated_current_memory: a load, then a store of the product.  The *)
(* caller compares the result in the same step and its locals are dropped.  *)

EstimateLoad(t, at, next) ==
    /\ pc[t] = at
    /\ local' = [local EXCEPT ![t].mem =
                    messages_in_flight * avg_message_ram_footprint_bytes]
    /\ Goto(t, next)
    /\ UNCHANGED <<messages_in_flight, current_memory_estimate_bytes,
                   backpressure_active_signals, batch_len>>

EstimateStore(t, at, next) ==
    /\ pc[t] = at
    /\ current_memory_estimate_bytes' = local[t].mem
    /\ local' = [local EXCEPT ![t] = NoLocals]
    /\ Goto(t, next)
    /\ UNCHANGED <<messages_in_flight, backpressure_active_signals, batch_len>>
-----------------------------------------------------------------------------
(* The client side: is_backpressure_active and check_resources.            *)

\* Mutant: the gate is never closed.
IsBackpressureActive_Ignored(c) == Jump(c, "gate", "check")

\* A closed gate is a delay and Ok(None); an open one goes on to the check.
IsBackpressureActive(c) ==
    Jump(c, "gate",
         IF backpressure_active_signals > 0 THEN "delay" ELSE "check")

CheckInFlight(c) ==
    Jump(c, "check", IF messages_in_flight >= MaxMessagesInFlight
                     THEN "activate" ELSE "check_mem")

CheckMemoryLoad(c) == EstimateLoad(c, "check_mem", "check_store")

\* "recv" is check_resources returning Ok(()): the client goes on to recv().
CheckMemoryStore(c) ==
    EstimateStore(c, "check_store",
                  IF local[c].mem >= memory_trigger_threshold
                  THEN "activate" ELSE "recv")

\* The signal is raised and check_resources returns Err: a delay, Ok(None).
ActivateBackpressureSignal(c) ==
    /\ pc[c] = "activate"
    /\ backpressure_active_signals' = FetchAdd(backpressure_active_signals, 1)
    /\ Goto(c, "delay")
    /\ UNCHANGED <<messages_in_flight, current_memory_estimate_bytes, local,
                   batch_len>>
-----------------------------------------------------------------------------
(* The worker side: start_processing and complete_processing.              *)

\* Mutant: a batch is counted as one message.
StartProcessing_One(w, n) ==
    /\ pc[w] = "start"
    /\ messages_in_flight' = FetchAdd(messages_in_flight, 1)
    /\ batch_len' = [batch_len EXCEPT ![w] = n]
    /\ Goto(w, "processing")
    /\ UNCHANGED <<current_memory_estimate_bytes, backpressure_active_signals,
                   local>>

StartProcessing(w, n) ==
    /\ pc[w] = "start"
    /\ messages_in_flight' = FetchAdd(messages_in_flight, n)
    /\ batch_len' = [batch_len EXCEPT ![w] = n]
    /\ Goto(w, "processing")
    /\ UNCHANGED <<current_memory_estimate_bytes, backpressure_active_signals,
                   local>>

\* Mutant: one message is completed, not the batch.
CompleteProcessing_One(w) ==
    /\ pc[w] = "processing"
    /\ messages_in_flight' = FetchSub(messages_in_flight, 1)
    /\ batch_len' = [batch_len EXCEPT ![w] = @ - 1]
    /\ Goto(w, "ease")
    /\ UNCHANGED <<current_memory_estimate_bytes, backpressure_active_signals,
                   local>>

CompleteProcessing(w) ==
    /\ pc[w] = "processing"
    /\ messages_in_flight' = FetchSub(messages_in_flight, batch_len[w])
    /\ batch_len' = [batch_len EXCEPT ![w] = 0]
    /\ Goto(w, "ease")
    /\ UNCHANGED <<current_memory_estimate_bytes, backpressure_active_signals,
                   local>>

EaseLoad(w) ==
    /\ pc[w] = "ease"
    /\ local' = [local EXCEPT ![w].count = messages_in_flight]
    /\ Goto(w, "ease_mem")
    /\ UNCHANGED <<messages_in_flight, current_memory_estimate_bytes,
                   backpressure_active_signals, batch_len>>

EaseMemoryLoad(w) == EstimateLoad(w, "ease_mem", "ease_store")

EaseMemoryStore(w) ==
    EstimateStore(w, "ease_store",
                  IF /\ local[w].count < messages_deactivation_point
                     /\ local[w].mem < memory_deactivation_point
                  THEN "ease_active" ELSE "idle")

\* Mutant: the signal is lowered without looking whether it is raised.
EaseIsActive_Dropped(w) == Jump(w, "ease_active", "deactivate")

EaseIsActive(w) ==
    Jump(w, "ease_active",
         IF backpressure_active_signals > 0 THEN "deactivate" ELSE "idle")

DeactivateBackpressureSignal(w) ==
    /\ pc[w] = "deactivate"
    /\ backpressure_active_signals' = FetchSub(backpressure_active_signals, 1)
    /\ Goto(w, "idle")
    /\ UNCHANGED <<messages_in_flight, current_memory_estimate_bytes, local,
                   batch_len>>
-----------------------------------------------------------------------------
(* The component on its own: workers are handed batches of any size up to  *)
(* MaxBatchSize, clients poll for ever.                                    *)

\* The caller's part of the loop: next_event is called, returns, is called again.
CallNextEvent(c) == Jump(c, "out", "gate")

\* A delay ends in Ok(None).
ReturnNone(c) == Jump(c, "delay", "out")

\* The component's environment receives a message and returns it.
ReturnSome(c) == Jump(c, "recv", "out")

\* batch_receiver.recv() hands the worker a batch.
TakeBatch(w) == Jump(w, "idle", "start")

CheckStep(c) ==
    \/ IsBackpressureActive(c)
    \/ CheckInFlight(c)
    \/ CheckMemoryLoad(c)
    \/ CheckMemoryStore(c)
    \/ ActivateBackpressureSignal(c)

EaseStep(w) ==
    \/ EaseLoad(w)
    \/ EaseMemoryLoad(w)
    \/ EaseMemoryStore(w)
    \/ EaseIsActive(w)
    \/ DeactivateBackpressureSignal(w)

RMNext ==
    \/ \E c \in Clients : \/ CallNextEvent(c)
                          \/ CheckStep(c)
                          \/ ReturnNone(c)
                          \/ ReturnSome(c)
    \/ \E w \in Workers :
          \/ TakeBatch(w)
          \/ \E n \in 1..MaxBatchSize : StartProcessing(w, n)
          \/ CompleteProcessing(w)
          \/ EaseStep(w)

RMSpec == RMInit /\ [][RMNext]_rmVars
-----------------------------------------------------------------------------
ClientLabels == {"out", "gate", "check", "check_mem", "check_store", "activate",
                 "recv", "delay"}
WorkerLabels == {"idle", "start", "processing", "ease", "ease_mem",
                 "ease_store", "ease_active", "deactivate"}

\* The shared atomics and every task's locals keep their types; a worker owns
\* messages of the count only between start_processing and complete_processing.
RMTypeOK ==
    /\ messages_in_flight \in 0..UsizeMax
    /\ current_memory_estimate_bytes \in Nat
    /\ backpressure_active_signals \in 0..UsizeMax
    /\ pc \in [Tasks -> ClientLabels \cup WorkerLabels]
    /\ \A c \in Clients : pc[c] \in ClientLabels
    /\ \A w \in Workers : pc[w] \in WorkerLabels
    /\ local \in [Tasks -> [count : Nat, mem : Nat]]
    /\ batch_len \in [Workers -> 0..MaxBatchSize]
    /\ \A w \in Workers : pc[w] # "processing" => batch_len[w] = 0

\* One slot for every message some worker has started and not completed.
Slots(len) == {s \in Workers \X (1..MaxBatchSize) : s[2] <= len[s[1]]}
InFlightSlots == Slots(batch_len)

\* The counter is what the workers have added and not yet taken out, under every
\* interleaving of start_processing and complete_processing: no addition is
\* lost and no subtraction wraps below zero (resource_manager.rs:99-109).  A
\* worker that never completes leaves its part in it; which messages the count
\* stands for is said in BatchAccounting.
InFlightExact == messages_in_flight = Cardinality(InFlightSlots)

\* Clients that saw no signal and may still raise one.
CheckLabels == {"check", "check_mem", "check_store", "activate"}
PastGate == {c \in Clients : pc[c] \in CheckLabels}

\* With one worker, the signals raised and the ones about to be raised never
\* outnumber the clients: each client has at most one raise outstanding since
\* it last saw the count at zero, and the count never wraps.
SignalsBounded ==
    backpressure_active_signals + Cardinality(PastGate) <= Cardinality(Clients)

\* "Only attempt to deactivate if it was active" (resource_manager.rs:122):
\* a worker about to lower the signal count finds it above zero.
DeactivateOnlyIfActive ==
    \A w \in Workers : pc[w] = "deactivate" => backpressure_active_signals > 0
=============================================================================
