------------------------- MODULE BatchProcessorProofs -------------------------
(***************************************************************************)
(* Proofs about BatchProcessor, for any number of workers and events, any  *)
(* batch size and any channel capacity: its types, the account of every    *)
(* accepted event, which events the in-flight count stands for when        *)
(* workers panic, and that it implements EventDelivery.                    *)
(***************************************************************************)
EXTENDS BatchAccounting, ResourceManagerProofs, EventOrderProofs

-----------------------------------------------------------------------------
(* The invariant, in parts.                                                *)

\* The channels, the collector, the hands of the workers and the histories.
\* Pipeline shares this part; the tasks' labels differ there.
QueuesOK ==
    /\ event_channel \in Seq(Events) /\ Len(event_channel) <= MaxQueueSize
    /\ event_closed \in BOOLEAN /\ owner_alive \in BOOLEAN
    /\ collector \in {"recv", "send", "send_final", "stopped"}
    /\ timer_armed \in BOOLEAN
    /\ current_batch \in Seq(Events) /\ Len(current_batch) <= MaxBatchSize
    /\ batch_channel \in Seq(Seq(Events))
    /\ Len(batch_channel) <= worker_batch_queue_capacity
    /\ \A i \in DOMAIN batch_channel :
          batch_channel[i] # <<>> /\ Len(batch_channel[i]) <= MaxBatchSize
    /\ worker_batch \in [Workers -> Seq(Events)]
    /\ \A w \in Workers : Len(worker_batch[w]) <= MaxBatchSize
    /\ accepted \in SUBSET Events /\ rejected \in SUBSET Events
    /\ outcome \in [Events -> {"none"} \cup Results]
    /\ lost \in SUBSET Events
    /\ panics \in 0..MaxPanics

\* A batch is sent only when there is one, and the timer runs only over one;
\* the collector waits for events only while there is room in its batch; a
\* worker has a batch only between receiving and completing it.
BatchesOK ==
    /\ collector \in {"send", "send_final"} => current_batch # <<>>
    /\ timer_armed => collector = "recv" /\ current_batch # <<>>
    /\ collector = "recv" => Len(current_batch) < MaxBatchSize
    /\ \A w \in Workers :
          pc[w] \notin {"start", "processing"} => worker_batch[w] = <<>>

\* What the workers have added to the count, and where every task is.
WorkersOK ==
    /\ AtomicsOK
    /\ pc \in [Tasks -> ClientLabels \cup WorkerLabels
                           \cup {"stopped", "panicked"}]
    /\ batch_len \in LenFuns
    /\ InFlightExact
    /\ \A w \in Workers :
          pc[w] \notin {"processing", "panicked"} => batch_len[w] = 0

\* The events are offered one after the other, each is answered once.
OfferedInOrder ==
    /\ \E k \in 0..NumEvents : accepted \cup rejected = 1..k
    /\ accepted \cap rejected = {}

\* The parts make up the type invariant of the component.
LEMMA PartsOfType == QueuesOK /\ WorkersOK => BPTypeOK
BY DEF QueuesOK, WorkersOK, AtomicsOK, LenFuns, BPTypeOK

-----------------------------------------------------------------------------
(* What each step does to the queues and to the sets of events in them.    *)

LEMMA CapacityType == worker_batch_queue_capacity \in Nat
BY FS_CardinalityType, ResourceAssumption DEF worker_batch_queue_capacity

\* What is in the hands of the workers other than w.
OtherHands(w) == UNION {ToSet(worker_batch[v]) : v \in Workers \ {w}}

\* A worker's batch is replaced: the hands of the others stay as they are.
LEMMA HandsOfOne ==
    ASSUME QueuesOK, NEW w \in Workers, NEW s \in Seq(Events),
           Len(s) <= MaxBatchSize,
           worker_batch' = [worker_batch EXCEPT ![w] = s]
    PROVE  /\ worker_batch' \in [Workers -> Seq(Events)]
           /\ \A v \in Workers : Len(worker_batch'[v]) <= MaxBatchSize
           /\ worker_batch'[w] = s
           /\ \A v \in Workers \ {w} : worker_batch'[v] = worker_batch[v]
           /\ InHands = OtherHands(w) \cup ToSet(worker_batch[w])
           /\ InHands' = OtherHands(w) \cup ToSet(s)
<1>1. /\ worker_batch' \in [Workers -> Seq(Events)]
      /\ \A v \in Workers : Len(worker_batch'[v]) <= MaxBatchSize
      /\ worker_batch'[w] = s
      /\ \A v \in Workers \ {w} : worker_batch'[v] = worker_batch[v]
    BY DEF QueuesOK
<1>2. InHands = OtherHands(w) \cup ToSet(worker_batch[w])
    BY DEF InHands, OtherHands
<1>3. InHands' = UNION {ToSet(worker_batch'[v]) : v \in Workers}
    BY DEF InHands, ToSet
<1>4. InHands' = OtherHands(w) \cup ToSet(s)
    <2>1. \A v \in Workers \ {w} : ToSet(worker_batch'[v]) = ToSet(worker_batch[v])
        BY <1>1
    <2>2. ToSet(worker_batch'[w]) = ToSet(s)
        BY <1>1
    <2> QED
        BY <1>3, <2>1, <2>2 DEF OtherHands
<1> QED
    BY <1>1, <1>2, <1>4

\* A step that moves no event.
LEMMA SetsKept ==
    ASSUME UNCHANGED <<event_channel, current_batch, batch_channel,
                       worker_batch, outcome>>
    PROVE  /\ Batched' = Batched /\ Queued' = Queued
           /\ InHands' = InHands /\ Handled' = Handled
BY DEF Batched, Queued, InHands, Handled, ToSet

\* add_event puts one event at the end of the event channel.
LEMMA AddEventEffect ==
    ASSUME QueuesOK, BatchesOK, NEW e \in Events, AddEvent(e),
           \A w \in Workers : pc'[w] = pc[w]
    PROVE  /\ QueuesOK' /\ BatchesOK'
           /\ ToSet(event_channel') = ToSet(event_channel) \cup {e}
           /\ Queued' = Queued \cup {e}
           /\ Batched' = Batched /\ InHands' = InHands /\ Handled' = Handled
<1> USE DEF AddEvent, collectorVars
<1>1. /\ event_channel' \in Seq(Events)
      /\ Len(event_channel') = Len(event_channel) + 1
      /\ ToSet(event_channel') = ToSet(event_channel) \cup {e}
    BY AppendedQueue DEF QueuesOK
<1>2. Len(event_channel') <= MaxQueueSize
    <2>1. Len(event_channel) \in Nat
        BY DEF QueuesOK
    <2> QED
        BY <1>1, <2>1, BatchAssumption
<1>3. /\ UNCHANGED <<event_closed, owner_alive, collector, timer_armed,
                     current_batch, batch_channel, worker_batch, rejected,
                     outcome, lost, panics>>
      /\ accepted' \in SUBSET Events
    BY DEF QueuesOK
<1>4. QueuesOK'
    BY <1>1, <1>2, <1>3 DEF QueuesOK, worker_batch_queue_capacity
<1>5. BatchesOK'
    BY <1>3 DEF BatchesOK
<1>6. Batched' = Batched /\ InHands' = InHands /\ Handled' = Handled
    BY <1>3 DEF Batched, InHands, Handled, ToSet
<1>7. ToSet(current_batch') = ToSet(current_batch)
    BY <1>3
<1>8. Queued' = Queued \cup {e}
    BY <1>1, <1>6, <1>7 DEF Queued
<1> QED
    BY <1>1, <1>4, <1>5, <1>6, <1>8

\* The owner's other calls move no event.
LEMMA OwnerEffect ==
    ASSUME QueuesOK, BatchesOK, \A w \in Workers : pc'[w] = pc[w],
           \/ \E e \in Events : AddEventErr(e)
           \/ Shutdown
           \/ DropBatchProcessor
    PROVE  /\ QueuesOK' /\ BatchesOK'
           /\ UNCHANGED <<event_channel, current_batch, batch_channel,
                          worker_batch, outcome, accepted, lost>>
<1>1. /\ UNCHANGED <<event_channel, collector, timer_armed, current_batch,
                     batch_channel, worker_batch, accepted, outcome, lost,
                     panics>>
      /\ event_closed' \in BOOLEAN /\ owner_alive' \in BOOLEAN
      /\ rejected' \in SUBSET Events
    BY DEF AddEventErr, Shutdown, DropBatchProcessor, channelVars, collectorVars,
           historyVars, QueuesOK
<1>2. QueuesOK'
    BY <1>1 DEF QueuesOK, worker_batch_queue_capacity
<1>3. BatchesOK'
    BY <1>1 DEF BatchesOK
<1> QED
    BY <1>1, <1>2, <1>3

\* The collector moves the oldest event of the channel to the end of its batch.
LEMMA CollectorRecvEffect ==
    ASSUME QueuesOK, BatchesOK, CollectorRecv, \A w \in Workers : pc'[w] = pc[w]
    PROVE  /\ QueuesOK' /\ BatchesOK'
           /\ event_channel # <<>>
           /\ event_channel' = Tail(event_channel)
           /\ current_batch' = Append(current_batch, Head(event_channel))
           /\ ToSet(event_channel) =
                 {Head(event_channel)} \cup ToSet(event_channel')
           /\ ToSet(current_batch') =
                 ToSet(current_batch) \cup {Head(event_channel)}
           /\ Queued' = Queued
           /\ Batched' = Batched /\ InHands' = InHands /\ Handled' = Handled
           /\ UNCHANGED <<batch_channel, worker_batch, accepted, rejected,
                          outcome, lost>>
<1> DEFINE e == Head(event_channel)
<1>1. /\ event_channel # <<>>
      /\ event_channel' = Tail(event_channel)
      /\ current_batch' = Append(current_batch, e)
      /\ UNCHANGED <<event_closed, owner_alive, batch_channel, worker_batch,
                     accepted, rejected, outcome, lost, panics>>
      /\ collector = "recv"
    BY DEF CollectorRecv, historyVars
<1>2. /\ e \in Events
      /\ event_channel' \in Seq(Events)
      /\ Len(event_channel') <= MaxQueueSize
      /\ ToSet(event_channel) = {e} \cup ToSet(event_channel')
    BY <1>1, TakenQueue, BatchAssumption DEF QueuesOK
<1>3. /\ current_batch' \in Seq(Events)
      /\ Len(current_batch') = Len(current_batch) + 1
      /\ ToSet(current_batch') = ToSet(current_batch) \cup {e}
      /\ current_batch' # <<>>
    BY <1>1, <1>2, AppendedQueue DEF QueuesOK
<1>4. Len(current_batch) < MaxBatchSize /\ Len(current_batch') <= MaxBatchSize
    <2>1. Len(current_batch) \in Nat
        BY DEF QueuesOK
    <2> QED
        BY <1>1, <1>3, <2>1, ResourceAssumption DEF BatchesOK
<1>5. /\ collector' \in {"recv", "send"} /\ timer_armed' \in BOOLEAN
      /\ collector' = "recv" => Len(current_batch') < MaxBatchSize
      /\ timer_armed' => collector' = "recv"
    <2>1. \A b : RemainingTimeout(b) \subseteq BOOLEAN
        BY DEF RemainingTimeout
    <2> QED
        BY <1>1, <2>1 DEF CollectorRecv
<1>6. QueuesOK'
    BY <1>1, <1>2, <1>3, <1>4, <1>5 DEF QueuesOK, worker_batch_queue_capacity
<1>7. BatchesOK'
    BY <1>1, <1>3, <1>5 DEF BatchesOK
<1>8. Batched' = Batched /\ InHands' = InHands /\ Handled' = Handled
    BY <1>1 DEF Batched, InHands, Handled, ToSet
<1>9. Queued' = Queued
    BY <1>2, <1>3, <1>8 DEF Queued
<1> QED
    BY <1>1, <1>2, <1>3, <1>6, <1>7, <1>8, <1>9

\* The timeout and the end of the channel change only the collector's label.
LEMMA CollectorDecideEffect ==
    ASSUME QueuesOK, BatchesOK, CollectorTimeout \/ CollectorClosed,
           \A w \in Workers : pc'[w] = pc[w]
    PROVE  /\ QueuesOK' /\ BatchesOK'
           /\ UNCHANGED <<event_channel, current_batch, batch_channel,
                          worker_batch, outcome, accepted, rejected, lost>>
<1>1. /\ UNCHANGED <<event_channel, event_closed, owner_alive, batch_channel,
                     current_batch, worker_batch, accepted, rejected, outcome,
                     lost, panics>>
      /\ timer_armed' = FALSE
      /\ \/ collector' \in {"send", "send_final"} /\ current_batch # <<>>
         \/ collector' = "stopped"
    BY DEF CollectorTimeout, CollectorClosed, channelVars, historyVars, BatchesOK
<1>2. QueuesOK'
    BY <1>1 DEF QueuesOK, worker_batch_queue_capacity
<1>3. BatchesOK'
    BY <1>1 DEF BatchesOK
<1> QED
    BY <1>1, <1>2, <1>3

\* The collector's batch goes to the end of the batch channel.
LEMMA CollectorSendEffect ==
    ASSUME QueuesOK, BatchesOK, CollectorSend, \A w \in Workers : pc'[w] = pc[w]
    PROVE  /\ QueuesOK' /\ BatchesOK'
           /\ batch_channel' = Append(batch_channel, current_batch)
           /\ current_batch' = <<>> /\ ToSet(current_batch') = {}
           /\ Batched' = Batched \cup ToSet(current_batch)
           /\ Queued' = Queued
           /\ InHands' = InHands /\ Handled' = Handled
           /\ UNCHANGED <<event_channel, worker_batch, accepted, rejected,
                          outcome, lost>>
<1>1. /\ batch_channel' = Append(batch_channel, current_batch)
      /\ current_batch' = <<>>
      /\ UNCHANGED <<event_channel, event_closed, owner_alive, timer_armed,
                     worker_batch, accepted, rejected, outcome, lost, panics>>
      /\ collector \in {"send", "send_final"}
      /\ collector' \in {"recv", "stopped"}
      /\ current_batch # <<>>
      /\ timer_armed = FALSE
      /\ Len(batch_channel) < worker_batch_queue_capacity
    BY DEF CollectorSend, historyVars, BatchesOK, QueuesOK
<1>2. /\ batch_channel' \in Seq(Seq(Events))
      /\ Len(batch_channel') = Len(batch_channel) + 1
      /\ ToSet(batch_channel') = ToSet(batch_channel) \cup {current_batch}
      /\ \A i \in DOMAIN batch_channel : batch_channel'[i] = batch_channel[i]
      /\ batch_channel'[Len(batch_channel) + 1] = current_batch
      /\ DOMAIN batch_channel' = 1..(Len(batch_channel) + 1)
      /\ DOMAIN batch_channel = 1..Len(batch_channel)
      /\ Len(batch_channel) \in Nat
    BY <1>1, AppendedQueue DEF QueuesOK
<1>3. Len(batch_channel') <= worker_batch_queue_capacity
    <2>1. /\ Len(batch_channel) < worker_batch_queue_capacity
          /\ worker_batch_queue_capacity \in Nat
        BY <1>1, CapacityType
    <2>2. Len(batch_channel') = Len(batch_channel) + 1 /\ Len(batch_channel) \in Nat
        BY <1>2
    <2> QED
        BY <2>1, <2>2
<1>4. \A i \in DOMAIN batch_channel' :
          batch_channel'[i] # <<>> /\ Len(batch_channel'[i]) <= MaxBatchSize
    <2>1. /\ \A i \in DOMAIN batch_channel :
                batch_channel[i] # <<>> /\ Len(batch_channel[i]) <= MaxBatchSize
          /\ current_batch # <<>> /\ Len(current_batch) <= MaxBatchSize
        BY <1>1 DEF QueuesOK
    <2>2. \A i \in DOMAIN batch_channel' :
             i \in DOMAIN batch_channel \/ i = Len(batch_channel) + 1
        BY <1>2
    <2> QED
        BY <1>2, <2>1, <2>2
<1>5. Len(<<>>) = 0 /\ ToSet(<<>>) = {}
    BY EmptyQueue
<1>6. QueuesOK'
    BY <1>1, <1>2, <1>3, <1>4, <1>5, ResourceAssumption
    DEF QueuesOK, worker_batch_queue_capacity
<1>7. BatchesOK'
    BY <1>1, <1>5, ResourceAssumption DEF BatchesOK
<1>8. Batched' = Batched \cup ToSet(current_batch)
    BY <1>2 DEF Batched
<1>9. InHands' = InHands /\ Handled' = Handled
    BY <1>1 DEF InHands, Handled, ToSet
<1>10. ToSet(event_channel') = ToSet(event_channel) /\ ToSet(current_batch') = {}
    BY <1>1, <1>5
<1>11. Queued' = Queued
    BY <1>8, <1>10 DEF Queued
<1> QED
    BY <1>1, <1>6, <1>7, <1>8, <1>9, <1>10, <1>11

\* A failed send drops the collector's batch.
LEMMA CollectorSendErrEffect ==
    ASSUME QueuesOK, BatchesOK, CollectorSendErr,
           \A w \in Workers : pc'[w] = pc[w]
    PROVE  /\ QueuesOK' /\ BatchesOK'
           /\ BatchReceiversGone
           /\ current_batch' = <<>> /\ ToSet(current_batch') = {}
           /\ lost' = lost \cup ToSet(current_batch)
           /\ Queued' = Batched \cup ToSet(event_channel)
           /\ Batched' = Batched /\ InHands' = InHands /\ Handled' = Handled
           /\ UNCHANGED <<event_channel, batch_channel, worker_batch, accepted,
                          rejected, outcome>>
<1>1. /\ current_batch' = <<>>
      /\ lost' = lost \cup ToSet(current_batch)
      /\ UNCHANGED <<event_channel, owner_alive, batch_channel, timer_armed,
                     worker_batch, accepted, rejected, outcome, panics>>
      /\ event_closed' = TRUE /\ collector' = "stopped"
      /\ timer_armed = FALSE
      /\ BatchReceiversGone
    BY DEF CollectorSendErr, BatchesOK, QueuesOK
<1>2. Len(<<>>) = 0 /\ ToSet(<<>>) = {} /\ ToSet(current_batch) \subseteq Events
    BY EmptyQueue, QueueElements DEF QueuesOK
<1>3. QueuesOK'
    BY <1>1, <1>2, ResourceAssumption DEF QueuesOK, worker_batch_queue_capacity
<1>4. BatchesOK'
    BY <1>1 DEF BatchesOK
<1>5. Batched' = Batched /\ InHands' = InHands /\ Handled' = Handled
    BY <1>1 DEF Batched, InHands, Handled, ToSet
<1>6. Queued' = Batched \cup ToSet(event_channel)
    <2>1. ToSet(event_channel') = ToSet(event_channel) /\ ToSet(current_batch') = {}
        BY <1>1, <1>2
    <2> QED
        BY <1>5, <2>1 DEF Queued
<1> QED
    BY <1>1, <1>2, <1>3, <1>4, <1>5, <1>6

\* An idle worker takes the oldest batch out of the channel.
LEMMA WorkerRecvEffect ==
    ASSUME QueuesOK, BatchesOK, NEW L, pc \in [Tasks -> L],
           NEW w \in Workers, WorkerRecv(w)
    PROVE  /\ QueuesOK' /\ BatchesOK'
           /\ batch_channel # <<>> /\ batch_channel' = Tail(batch_channel)
           /\ pc[w] = "idle" /\ pc' = [pc EXCEPT ![w] = "start"]
           /\ worker_batch[w] = <<>>
           /\ worker_batch' = [worker_batch EXCEPT ![w] = Head(batch_channel)]
           /\ Head(batch_channel) \in Seq(Events)
           /\ Batched = Batched' \cup ToSet(Head(batch_channel))
           /\ Queued = Queued' \cup ToSet(Head(batch_channel))
           /\ InHands' = InHands \cup ToSet(Head(batch_channel))
           /\ Handled' = Handled
           /\ UNCHANGED <<event_channel, current_batch, accepted, rejected,
                          outcome, lost>>
<1> DEFINE batch == Head(batch_channel)
<1>1. /\ batch_channel # <<>>
      /\ batch_channel' = Tail(batch_channel)
      /\ pc[w] = "idle"
      /\ pc' = [pc EXCEPT ![w] = IF batch = <<>> THEN "idle" ELSE "start"]
      /\ worker_batch' = [worker_batch EXCEPT ![w] = batch]
      /\ UNCHANGED <<event_channel, event_closed, owner_alive, collector,
                     timer_armed, current_batch, accepted, rejected, outcome,
                     lost, panics>>
    BY DEF WorkerRecv, Jump, Goto, collectorVars, historyVars
<1>2. /\ batch \in Seq(Events)
      /\ batch = batch_channel[1] /\ 1 \in DOMAIN batch_channel
      /\ batch_channel' \in Seq(Seq(Events))
      /\ Len(batch_channel') = Len(batch_channel) - 1
      /\ ToSet(batch_channel) = {batch} \cup ToSet(batch_channel')
      /\ \A i \in DOMAIN batch_channel' :
            i + 1 \in DOMAIN batch_channel /\ batch_channel'[i] = batch_channel[i + 1]
      /\ Len(batch_channel) \in Nat
    BY <1>1, TakenQueue DEF QueuesOK
<1>3. batch # <<>> /\ Len(batch) <= MaxBatchSize
    <2>1. \A i \in DOMAIN batch_channel :
             batch_channel[i] # <<>> /\ Len(batch_channel[i]) <= MaxBatchSize
        BY DEF QueuesOK
    <2> QED
        BY <1>2, <2>1
<1>4. \A i \in DOMAIN batch_channel' :
          batch_channel'[i] # <<>> /\ Len(batch_channel'[i]) <= MaxBatchSize
    <2>1. \A i \in DOMAIN batch_channel :
             batch_channel[i] # <<>> /\ Len(batch_channel[i]) <= MaxBatchSize
        BY DEF QueuesOK
    <2> QED
        BY <1>2, <2>1
<1>5. Len(batch_channel') <= worker_batch_queue_capacity
    <2>1. Len(batch_channel) <= worker_batch_queue_capacity
        BY DEF QueuesOK
    <2> QED
        BY <1>2, <2>1, CapacityType
<1>6. worker_batch[w] = <<>> /\ ToSet(worker_batch[w]) = {}
    BY <1>1, EmptyQueue DEF BatchesOK
<1>7. /\ worker_batch' \in [Workers -> Seq(Events)]
      /\ \A v \in Workers : Len(worker_batch'[v]) <= MaxBatchSize
      /\ \A v \in Workers \ {w} : worker_batch'[v] = worker_batch[v]
      /\ InHands = OtherHands(w) \cup ToSet(worker_batch[w])
      /\ InHands' = OtherHands(w) \cup ToSet(batch)
    BY <1>1, <1>2, <1>3, HandsOfOne
<1>8. InHands' = InHands \cup ToSet(batch)
    BY <1>6, <1>7
<1>9. QueuesOK'
    BY <1>1, <1>2, <1>4, <1>5, <1>7 DEF QueuesOK, worker_batch_queue_capacity
<1>10. pc' = [pc EXCEPT ![w] = "start"]
    BY <1>1, <1>3
<1>11. BatchesOK'
    BY <1>1, <1>7, <1>10 DEF BatchesOK, Tasks
<1>12. Batched = Batched' \cup ToSet(batch)
    BY <1>2 DEF Batched
<1>13. Queued = Queued' \cup ToSet(batch)
    <2>1. /\ ToSet(event_channel') = ToSet(event_channel)
          /\ ToSet(current_batch') = ToSet(current_batch)
        BY <1>1
    <2> QED
        BY <1>12, <2>1 DEF Queued
<1>14. Handled' = Handled
    BY <1>1 DEF Handled
<1> QED
    BY <1>1, <1>2, <1>6, <1>8, <1>9, <1>10, <1>11, <1>12, <1>13, <1>14

\* A worker handles the first event left in its batch.
LEMMA WorkerProcessEffect ==
    ASSUME QueuesOK, BatchesOK, NEW w \in Workers, WorkerProcess(w)
    PROVE  /\ QueuesOK' /\ BatchesOK'
           /\ worker_batch[w] # <<>> /\ Head(worker_batch[w]) \in Events
           /\ worker_batch' = [worker_batch EXCEPT ![w] = Tail(worker_batch[w])]
           /\ ToSet(worker_batch[w]) =
                 {Head(worker_batch[w])} \cup ToSet(Tail(worker_batch[w]))
           /\ InHands = InHands' \cup {Head(worker_batch[w])}
           /\ \E result \in Results :
                 outcome' = [outcome EXCEPT ![Head(worker_batch[w])] = result]
           /\ Handled' = Handled \cup {Head(worker_batch[w])}
           /\ Batched' = Batched /\ Queued' = Queued
           /\ UNCHANGED <<rmVars, event_channel, current_batch, batch_channel,
                          accepted, rejected, lost>>
<1> DEFINE batch == worker_batch[w]
           e == Head(batch)
<1>1. /\ batch # <<>>
      /\ worker_batch' = [worker_batch EXCEPT ![w] = Tail(batch)]
      /\ UNCHANGED <<rmVars, event_channel, event_closed, owner_alive,
                     collector, timer_armed, current_batch, batch_channel,
                     accepted, rejected, lost, panics>>
      /\ pc' = pc /\ pc[w] = "processing"
    BY DEF WorkerProcess, channelVars, collectorVars, rmVars
<1>2. PICK result \in Results : outcome' = [outcome EXCEPT ![e] = result]
    BY DEF WorkerProcess
<1>3. batch \in Seq(Events) /\ Len(batch) <= MaxBatchSize
    BY DEF QueuesOK
<1>4. /\ e \in Events /\ Tail(batch) \in Seq(Events)
      /\ Len(Tail(batch)) <= MaxBatchSize
      /\ ToSet(batch) = {e} \cup ToSet(Tail(batch))
    BY <1>1, <1>3, TakenQueue, ResourceAssumption
<1>5. /\ worker_batch' \in [Workers -> Seq(Events)]
      /\ \A v \in Workers : Len(worker_batch'[v]) <= MaxBatchSize
      /\ \A v \in Workers \ {w} : worker_batch'[v] = worker_batch[v]
      /\ InHands = OtherHands(w) \cup ToSet(batch)
      /\ InHands' = OtherHands(w) \cup ToSet(Tail(batch))
    BY <1>1, <1>4, HandsOfOne
<1>6. InHands = InHands' \cup {e}
    BY <1>4, <1>5
<1>7. outcome' \in [Events -> {"none"} \cup Results] /\ result # "none"
    BY <1>2, <1>4, BatchAssumption DEF QueuesOK
<1>8. Handled' = Handled \cup {e}
    BY <1>2, <1>4, <1>7 DEF Handled, QueuesOK
<1>9. QueuesOK'
    BY <1>1, <1>5, <1>7 DEF QueuesOK, worker_batch_queue_capacity
<1>10. BatchesOK'
    BY <1>1, <1>5 DEF BatchesOK
<1>11. Batched' = Batched /\ Queued' = Queued
    BY <1>1 DEF Batched, Queued, ToSet
<1> QED
    BY <1>1, <1>2, <1>4, <1>6, <1>8, <1>9, <1>10, <1>11

\* A panic drops what is left of the worker's batch.
LEMMA WorkerPanicEffect ==
    ASSUME QueuesOK, BatchesOK, NEW L, pc \in [Tasks -> L],
           NEW w \in Workers, WorkerPanic(w)
    PROVE  /\ QueuesOK' /\ BatchesOK'
           /\ pc[w] = "processing" /\ pc' = [pc EXCEPT ![w] = "panicked"]
           /\ worker_batch' = [worker_batch EXCEPT ![w] = <<>>]
           /\ lost' = lost \cup ToSet(worker_batch[w])
           /\ InHands = InHands' \cup ToSet(worker_batch[w])
           /\ Batched' = Batched /\ Queued' = Queued /\ Handled' = Handled
           /\ UNCHANGED <<messages_in_flight, current_memory_estimate_bytes,
                          backpressure_active_signals, local, batch_len,
                          event_channel, current_batch, batch_channel,
                          accepted, rejected, outcome>>
<1>1. /\ pc[w] = "processing" /\ pc' = [pc EXCEPT ![w] = "panicked"]
      /\ worker_batch' = [worker_batch EXCEPT ![w] = <<>>]
      /\ lost' = lost \cup ToSet(worker_batch[w])
      /\ panics' = panics + 1 /\ panics < MaxPanics
      /\ UNCHANGED <<messages_in_flight, current_memory_estimate_bytes,
                     backpressure_active_signals, local, batch_len,
                     event_channel, event_closed, owner_alive,
                     collector, timer_armed, current_batch, batch_channel,
                     accepted, rejected, outcome>>
    BY DEF WorkerPanic, Jump, Goto, channelVars, collectorVars
<1>2. ToSet(worker_batch[w]) \subseteq Events /\ ToSet(<<>>) = {}
    BY QueueElements, EmptyQueue DEF QueuesOK
<1>n. <<>> \in Seq(Events) /\ Len(<<>>) <= MaxBatchSize
    BY ResourceAssumption
<1>3. /\ worker_batch' \in [Workers -> Seq(Events)]
      /\ \A v \in Workers : Len(worker_batch'[v]) <= MaxBatchSize
      /\ worker_batch'[w] = <<>>
      /\ \A v \in Workers \ {w} : worker_batch'[v] = worker_batch[v]
      /\ InHands = OtherHands(w) \cup ToSet(worker_batch[w])
      /\ InHands' = OtherHands(w) \cup {}
    BY <1>1, <1>2, <1>n, HandsOfOne
<1>4. panics' \in 0..MaxPanics
    BY <1>1, BatchAssumption DEF QueuesOK
<1>5. QueuesOK'
    BY <1>1, <1>2, <1>3, <1>4 DEF QueuesOK, worker_batch_queue_capacity
<1>6. BatchesOK'
    BY <1>1, <1>3 DEF BatchesOK, Tasks
<1>7. Batched' = Batched /\ Queued' = Queued /\ Handled' = Handled
    BY <1>1 DEF Batched, Queued, Handled, ToSet
<1> QED
    BY <1>1, <1>3, <1>5, <1>6, <1>7

\* The steps of a worker between batches, and those that count, move no event.
LEMMA WorkerCountEffect ==
    ASSUME QueuesOK, BatchesOK, AtomicsOK, NEW L, pc \in [Tasks -> L],
           NEW w \in Workers,
           WorkerStart(w) \/ WorkerComplete(w) \/ WorkerEase(w) \/ WorkerStop(w)
    PROVE  /\ QueuesOK' /\ BatchesOK' /\ UNCHANGED bpVars
           /\ \E label \in {"processing", "stopped", "idle"} \cup EaseLabels :
                 pc' = [pc EXCEPT ![w] = label]
<1>1. UNCHANGED bpVars
    BY DEF WorkerStart, WorkerComplete, WorkerEase, WorkerStop
<1>2. /\ pc[w] = "start" \/ worker_batch[w] = <<>>
      /\ \E label \in {"processing", "stopped", "idle"} \cup EaseLabels :
            /\ pc' = [pc EXCEPT ![w] = label]
            /\ pc[w] = "start" => label = "processing"
    <2>1. CASE WorkerStart(w)
        BY <2>1 DEF WorkerStart, StartProcessing, Goto
    <2>2. CASE WorkerComplete(w)
        BY <2>2 DEF WorkerComplete, CompleteProcessing, Goto, EaseLabels
    <2>3. CASE WorkerEase(w)
        <3>1. /\ pc[w] \in EaseLabels
              /\ \E label \in EaseLabels \cup {"idle"} : pc' = [pc EXCEPT ![w] = label]
            BY <2>3, EaseStepFrame DEF WorkerEase
        <3> QED
            BY <3>1 DEF EaseLabels, BatchesOK
    <2>4. CASE WorkerStop(w)
        BY <2>4 DEF WorkerStop, Jump, Goto, BatchesOK
    <2> QED
        BY <2>1, <2>2, <2>3, <2>4
<1>3. QueuesOK'
    BY <1>1 DEF QueuesOK, worker_batch_queue_capacity, bpVars, channelVars,
                collectorVars, historyVars
<1>4. BatchesOK'
    BY <1>1, <1>2
    DEF BatchesOK, bpVars, channelVars, collectorVars, historyVars, Tasks
<1> QED
    BY <1>1, <1>2, <1>3, <1>4

-----------------------------------------------------------------------------
(* Types and the count of messages in flight.                              *)

TypeInv == QueuesOK /\ BatchesOK /\ WorkersOK

LEMMA TypeInvInit == BPInit => TypeInv
<1> SUFFICES ASSUME BPInit PROVE TypeInv
    OBVIOUS
<1>1. CountInv
    BY CountInvInit DEF BPInit
<1>2. /\ \A w \in Workers : pc[w] \notin {"processing", "panicked"}
                               => batch_len[w] = 0
      /\ pc \in [Tasks -> ClientLabels \cup WorkerLabels
                             \cup {"stopped", "panicked"}]
    BY <1>1 DEF CountInv, RMTypeOK, Tasks
<1>3. WorkersOK
    BY <1>1, <1>2 DEF WorkersOK, CountInv, RMTypeOK, AtomicsOK, LenFuns
<1>4. <<>> \in Seq(Events) /\ <<>> \in Seq(Seq(Events)) /\ Len(<<>>) = 0
    OBVIOUS
<1>5. /\ \A i \in DOMAIN batch_channel :
            batch_channel[i] # <<>> /\ Len(batch_channel[i]) <= MaxBatchSize
      /\ batch_channel \in Seq(Seq(Events)) /\ Len(batch_channel) = 0
    BY <1>4 DEF BPInit
<1>6. /\ worker_batch \in [Workers -> Seq(Events)]
      /\ \A w \in Workers : Len(worker_batch[w]) <= MaxBatchSize
    BY <1>4, ResourceAssumption DEF BPInit
<1>7. Len(batch_channel) <= worker_batch_queue_capacity
    BY <1>5, CapacityType
<1>8. QueuesOK
    <2>1. /\ event_channel \in Seq(Events) /\ Len(event_channel) <= MaxQueueSize
          /\ current_batch \in Seq(Events) /\ Len(current_batch) <= MaxBatchSize
        BY <1>4, BatchAssumption, ResourceAssumption DEF BPInit
    <2>2. panics \in 0..MaxPanics
        BY BatchAssumption DEF BPInit
    <2>3. /\ event_closed \in BOOLEAN /\ owner_alive \in BOOLEAN
          /\ collector = "recv" /\ timer_armed \in BOOLEAN
          /\ accepted \in SUBSET Events /\ rejected \in SUBSET Events
          /\ outcome \in [Events -> {"none"} \cup Results]
          /\ lost \in SUBSET Events
        BY DEF BPInit
    <2> QED
        BY <1>5, <1>6, <1>7, <2>1, <2>2, <2>3 DEF QueuesOK
<1>9. BatchesOK
    BY <1>4, ResourceAssumption DEF BPInit, BatchesOK
<1> QED
    BY <1>3, <1>8, <1>9 DEF TypeInv

\* A worker that moves without touching the count.
LEMMA WorkersMove ==
    ASSUME WorkersOK, AtomicsOK', NEW w \in Workers,
           NEW label \in WorkerLabels \cup {"stopped", "panicked"},
           pc' = [pc EXCEPT ![w] = label],
           pc[w] \notin {"processing", "panicked"} \/ label = "panicked",
           UNCHANGED <<messages_in_flight, batch_len>>
    PROVE  WorkersOK'
<1>1. InFlightExact'
    BY CountKept DEF WorkersOK
<1> QED
    BY <1>1 DEF WorkersOK, Tasks, LenFuns

\* Every step of BatchProcessor preserves the types and keeps the count what
\* the workers have added and not taken out; a panic takes nothing out.
LEMMA TypeInvStep ==
    ASSUME TypeInv, [BPNext]_bpAllVars
    PROVE  TypeInv'
<1>t. /\ QueuesOK /\ BatchesOK /\ WorkersOK /\ AtomicsOK
      /\ pc \in [Tasks -> ClientLabels \cup WorkerLabels
                             \cup {"stopped", "panicked"}]
    BY DEF TypeInv, WorkersOK
<1>kept. ASSUME UNCHANGED rmVars PROVE WorkersOK'
    <2>1. InFlightExact'
        BY <1>t, <1>kept, CountKept DEF WorkersOK, rmVars
    <2> QED
        BY <1>t, <1>kept, <2>1 DEF WorkersOK, AtomicsOK, rmVars, LenFuns
<1>1. ASSUME OwnerStep, UNCHANGED rmVars PROVE TypeInv'
    <2>1. \A w \in Workers : pc'[w] = pc[w]
        BY <1>1 DEF rmVars
    <2>2. QueuesOK' /\ BatchesOK'
        BY <1>t, <1>1, <2>1, AddEventEffect, OwnerEffect DEF OwnerStep
    <2> QED
        BY <1>1, <1>kept, <2>2 DEF TypeInv
<1>2. ASSUME CollectorStep, UNCHANGED rmVars PROVE TypeInv'
    <2>1. \A w \in Workers : pc'[w] = pc[w]
        BY <1>2 DEF rmVars
    <2>2. QueuesOK' /\ BatchesOK'
        BY <1>t, <1>2, <2>1, CollectorRecvEffect, CollectorDecideEffect,
           CollectorSendEffect, CollectorSendErrEffect DEF CollectorStep
    <2> QED
        BY <1>2, <1>kept, <2>2 DEF TypeInv
<1>3. ASSUME NEW w \in Workers, WorkerRecv(w) PROVE TypeInv'
    <2>1. /\ QueuesOK' /\ BatchesOK'
          /\ pc[w] = "idle" /\ pc' = [pc EXCEPT ![w] = "start"]
        BY <1>t, <1>3, WorkerRecvEffect
    <2>2. UNCHANGED <<messages_in_flight, current_memory_estimate_bytes,
                      backpressure_active_signals, local, batch_len>>
        BY <1>3 DEF WorkerRecv, Jump
    <2>3. WorkersOK'
        BY <1>t, <2>1, <2>2, WorkersMove DEF WorkerLabels, AtomicsOK
    <2> QED
        BY <2>1, <2>3 DEF TypeInv
<1>4. ASSUME NEW w \in Workers, WorkerProcess(w) PROVE TypeInv'
    BY <1>t, <1>4, <1>kept, WorkerProcessEffect DEF TypeInv
<1>5. ASSUME NEW w \in Workers, WorkerPanic(w) PROVE TypeInv'
    <2>1. /\ QueuesOK' /\ BatchesOK'
          /\ pc[w] = "processing" /\ pc' = [pc EXCEPT ![w] = "panicked"]
          /\ UNCHANGED <<messages_in_flight, current_memory_estimate_bytes,
                         backpressure_active_signals, local, batch_len>>
        BY <1>t, <1>5, WorkerPanicEffect
    <2>2. WorkersOK'
        BY <1>t, <2>1, WorkersMove DEF AtomicsOK
    <2> QED
        BY <2>1, <2>2 DEF TypeInv
<1>6. ASSUME NEW w \in Workers, WorkerStart(w) PROVE TypeInv'
    <2> DEFINE n == Len(worker_batch[w])
    <2>1. n \in 0..MaxBatchSize
        BY <1>t, ResourceAssumption DEF QueuesOK
    <2>2. /\ StartProcessing(w, n)
          /\ batch_len \in LenFuns /\ InFlightExact /\ batch_len[w] = 0
        BY <1>t, <1>6 DEF WorkersOK, WorkerStart, StartProcessing
    <2> HIDE DEF n
    <2>3. /\ InFlightExact' /\ messages_in_flight' \in 0..UsizeMax
          /\ batch_len' = [batch_len EXCEPT ![w] = n] /\ batch_len' \in LenFuns
        BY <2>1, <2>2, CountStart
    <2>4. /\ pc' = [pc EXCEPT ![w] = "processing"]
          /\ UNCHANGED <<current_memory_estimate_bytes,
                         backpressure_active_signals, local>>
        BY <2>2 DEF StartProcessing, Goto
    <2>5. WorkersOK'
        BY <1>t, <2>3, <2>4
        DEF WorkersOK, AtomicsOK, LenFuns, Tasks, WorkerLabels
    <2> QED
        BY <1>t, <1>6, <2>5, WorkerCountEffect DEF TypeInv
<1>7. ASSUME NEW w \in Workers, WorkerComplete(w) PROVE TypeInv'
    <2>1. /\ CompleteProcessing(w) /\ batch_len \in LenFuns /\ InFlightExact
        BY <1>t, <1>7 DEF WorkersOK, WorkerComplete
    <2>2. /\ InFlightExact' /\ messages_in_flight' \in 0..UsizeMax
          /\ batch_len' = [batch_len EXCEPT ![w] = 0] /\ batch_len' \in LenFuns
        BY <2>1, CountComplete
    <2>3. /\ pc' = [pc EXCEPT ![w] = "ease"]
          /\ UNCHANGED <<current_memory_estimate_bytes,
                         backpressure_active_signals, local>>
        BY <2>1 DEF CompleteProcessing, Goto
    <2>4. WorkersOK'
        BY <1>t, <2>2, <2>3
        DEF WorkersOK, AtomicsOK, LenFuns, Tasks, WorkerLabels
    <2> QED
        BY <1>t, <1>7, <2>4, WorkerCountEffect DEF TypeInv
<1>8. ASSUME NEW w \in Workers, WorkerEase(w) PROVE TypeInv'
    <2>1. /\ AtomicsOK' /\ UNCHANGED <<messages_in_flight, batch_len>>
          /\ pc[w] \in EaseLabels
        BY <1>t, <1>8, EaseStepFrame DEF WorkerEase
    <2>2. PICK label \in EaseLabels \cup {"idle"} : pc' = [pc EXCEPT ![w] = label]
        BY <1>t, <1>8, EaseStepFrame DEF WorkerEase
    <2>3. WorkersOK'
        BY <1>t, <2>1, <2>2, WorkersMove DEF EaseLabels, WorkerLabels
    <2> QED
        BY <1>t, <1>8, <2>3, WorkerCountEffect DEF TypeInv
<1>9. ASSUME NEW w \in Workers, WorkerStop(w) PROVE TypeInv'
    <2>1. /\ pc[w] = "idle" /\ pc' = [pc EXCEPT ![w] = "stopped"]
          /\ UNCHANGED <<messages_in_flight, current_memory_estimate_bytes,
                         backpressure_active_signals, local, batch_len>>
        BY <1>9 DEF WorkerStop, Jump, Goto
    <2>2. WorkersOK'
        BY <1>t, <2>1, WorkersMove DEF AtomicsOK
    <2> QED
        BY <1>t, <1>9, <2>2, WorkerCountEffect DEF TypeInv
<1>10. CASE UNCHANGED bpAllVars
    <2>1. QueuesOK' /\ BatchesOK'
        BY <1>t, <1>10
        DEF QueuesOK, BatchesOK, worker_batch_queue_capacity, bpAllVars, rmVars,
            bpVars, channelVars, collectorVars, historyVars
    <2> QED
        BY <1>10, <1>kept, <2>1 DEF TypeInv, bpAllVars
<1> QED
    BY <1>1, <1>2, <1>3, <1>4, <1>5, <1>6, <1>7, <1>8, <1>9, <1>10
    DEF BPNext, WorkerStep

LEMMA TypeInvAlways == BPSpec => []TypeInv
<1>1. BPInit => TypeInv
    BY TypeInvInit
<1>2. TypeInv /\ [BPNext]_bpAllVars => TypeInv'
    BY TypeInvStep
<1> QED
    BY <1>1, <1>2, PTL DEF BPSpec

\* For any batch size, channel capacity, timeout and number of workers, a batch
\* that is sent is never empty and never longer than batch_size, and the
\* channels keep their bounds (batch_processor.rs:64-139).
THEOREM BPTypeOKAlways == BPSpec => []BPTypeOK
<1>1. TypeInv => BPTypeOK
    BY PartsOfType DEF TypeInv
<1> QED
    BY <1>1, TypeInvAlways, PTL

-----------------------------------------------------------------------------
(* The account of the events.                                              *)

AccountInv == TypeInv /\ OfferedInOrder /\ AcceptedAccounted

\* The event offered next is above every one answered so far.
LEMMA NextIsNew ==
    ASSUME OfferedInOrder
    PROVE  /\ NextEvent \notin accepted \cup rejected
           /\ \A d \in accepted \cup rejected : d < NextEvent
           /\ NextEvent \in Events =>
                 /\ NextEvent \in 0..NumEvents
                 /\ accepted \cup rejected \cup {NextEvent} = 1..NextEvent
<1>1. PICK k \in 0..NumEvents : accepted \cup rejected = 1..k
    BY DEF OfferedInOrder
<1>2. k \in Nat
    BY BatchAssumption
<1>3. Cardinality(1..k) = k
    <2>1. Cardinality(1..k) = IF 1 > k THEN 0 ELSE k - 1 + 1
        BY <1>2, FS_Interval
    <2> QED
        BY <1>2, <2>1
<1>4. NextEvent = k + 1
    BY <1>1, <1>3 DEF NextEvent
<1> HIDE DEF NextEvent
<1>5. \A d \in accepted \cup rejected : d < NextEvent
    BY <1>1, <1>2, <1>4
<1>6. NextEvent \notin accepted \cup rejected
    BY <1>1, <1>2, <1>4
<1>7. (1..k) \cup {NextEvent} = 1..NextEvent
    BY <1>2, <1>4
<1>8. NextEvent \in Events => NextEvent \in 0..NumEvents
    BY BatchAssumption DEF Events
<1> QED
    BY <1>1, <1>5, <1>6, <1>7, <1>8

\* Events and what the queues hold are integers.
LEMMA EventsAreInts ==
    ASSUME QueuesOK
    PROVE  /\ Events \subseteq Int
           /\ event_channel \in Seq(Int) /\ current_batch \in Seq(Int)
           /\ \A w \in Workers : worker_batch[w] \in Seq(Int)
           /\ \A i \in DOMAIN batch_channel : batch_channel[i] \in Seq(Int)
           /\ Batched \subseteq Events
           /\ Queued \subseteq Events
           /\ InHands \subseteq Events
<1>1. Events \subseteq Int
    BY BatchAssumption DEF Events
<1>2. \A s \in Seq(Events) : s \in Seq(Int)
    BY <1>1, SeqMonotonic
<1>3. /\ \A b \in ToSet(batch_channel) : b \in Seq(Events)
      /\ \A i \in DOMAIN batch_channel : batch_channel[i] \in Seq(Events)
    BY QueueElements DEF QueuesOK
<1>4. Batched \subseteq Events
    BY <1>3, QueueElements DEF Batched
<1>5. /\ ToSet(event_channel) \subseteq Events
      /\ ToSet(current_batch) \subseteq Events
      /\ \A w \in Workers : ToSet(worker_batch[w]) \subseteq Events
    BY QueueElements DEF QueuesOK
<1>6. InHands \subseteq Events
    BY <1>5 DEF InHands
<1>7. \A w \in Workers : worker_batch[w] \in Seq(Int)
    BY <1>2 DEF QueuesOK
<1>8. event_channel \in Seq(Int) /\ current_batch \in Seq(Int)
    BY <1>2 DEF QueuesOK
<1> QED
    BY <1>1, <1>2, <1>3, <1>4, <1>5, <1>6, <1>7, <1>8 DEF Queued

\* A worker that has stopped or panicked takes no further step.
LEMMA GoneStaysGone ==
    ASSUME TypeInv, [BPNext]_bpAllVars, BatchReceiversGone
    PROVE  BatchReceiversGone'
<1>1. \A w \in Workers : pc[w] \notin {"idle", "start", "processing"} \cup EaseLabels
    BY DEF BatchReceiversGone, EaseLabels
<1>2. ASSUME NEW w \in Workers, WorkerStep(w) \/ WorkerPanic(w)
      PROVE  FALSE
    <2>1. ~WorkerEase(w)
        BY <1>1, EaseStepFrame DEF WorkerEase, TypeInv, WorkersOK
    <2>2. /\ ~WorkerRecv(w) /\ ~WorkerStart(w) /\ ~WorkerProcess(w)
          /\ ~WorkerComplete(w) /\ ~WorkerStop(w) /\ ~WorkerPanic(w)
        BY <1>1 DEF WorkerRecv, WorkerStart, StartProcessing, WorkerProcess,
                    WorkerComplete, CompleteProcessing, WorkerStop, WorkerPanic,
                    Jump
    <2> QED
        BY <1>2, <2>1, <2>2 DEF WorkerStep
<1>3. pc' = pc
    BY <1>2 DEF BPNext, rmVars, bpAllVars
<1> QED
    BY <1>3 DEF BatchReceiversGone

\* A step that moves no event keeps the account.
LEMMA AccountKept ==
    ASSUME AcceptedAccounted,
           UNCHANGED <<event_channel, current_batch, batch_channel,
                       worker_batch, outcome, accepted, lost>>,
           BatchReceiversGone => BatchReceiversGone'
    PROVE  AcceptedAccounted'
<1>1. /\ Batched' = Batched /\ Queued' = Queued
      /\ InHands' = InHands /\ Handled' = Handled
    BY SetsKept
<1>2. OnePlaceEach'
    BY <1>1 DEF AcceptedAccounted, OnePlaceEach, ToSet
<1>3. QueuesInOrder'
    BY <1>1 DEF AcceptedAccounted, QueuesInOrder, Ascending, AllBefore, ToSet
<1>4. NoneSkipped'
    BY <1>1 DEF AcceptedAccounted, NoneSkipped
<1> QED
    BY <1>1, <1>2, <1>3, <1>4 DEF AcceptedAccounted

\* add_event: the new event is the last in the line.
LEMMA AddEventAccount ==
    ASSUME AccountInv, NEW e \in Events, AddEvent(e), UNCHANGED rmVars,
           e \notin accepted, \A d \in accepted : d < e
    PROVE  AcceptedAccounted'
<1>q. QueuesOK /\ BatchesOK /\ AcceptedAccounted /\ pc' = pc
    BY DEF AccountInv, TypeInv, rmVars
<1>1. /\ ToSet(event_channel') = ToSet(event_channel) \cup {e}
      /\ Queued' = Queued \cup {e}
      /\ Batched' = Batched /\ InHands' = InHands /\ Handled' = Handled
    BY <1>q, AddEventEffect
<1>2. /\ event_channel' = Append(event_channel, e)
      /\ accepted' = accepted \cup {e}
      /\ UNCHANGED <<current_batch, batch_channel, worker_batch, lost>>
    BY DEF AddEvent, collectorVars
<1>3. accepted' = (Queued \cup InHands \cup Handled \cup lost)'
    BY <1>q, <1>1, <1>2 DEF AcceptedAccounted
<1>4. OnePlaceEach'
    BY <1>q, <1>1, <1>2 DEF AcceptedAccounted, OnePlaceEach
<1>5. QueuesInOrder'
    <2>1. /\ ToSet(event_channel) \subseteq accepted
          /\ Batched \cup ToSet(current_batch) \subseteq accepted
        BY <1>q DEF AcceptedAccounted, Queued
    <2>2. Ascending(event_channel')
        <3>1. event_channel \in Seq(Int) /\ e \in Int
            BY <1>q, EventsAreInts
        <3> QED
            BY <1>q, <1>2, <2>1, <3>1, AppendKeepsOrder
            DEF AcceptedAccounted, QueuesInOrder
    <2>3. AllBefore(Batched \cup ToSet(current_batch), ToSet(event_channel'))
        BY <1>q, <1>1, <2>1 DEF AcceptedAccounted, QueuesInOrder, AllBefore
    <2> QED
        BY <1>q, <1>1, <1>2, <2>2, <2>3 DEF AcceptedAccounted, QueuesInOrder
<1>6. NoneSkipped'
    <2>1. BatchReceiversGone' <=> BatchReceiversGone
        BY <1>q DEF BatchReceiversGone
    <2>2. SUFFICES ASSUME ~BatchReceiversGone, NEW x \in Queued', NEW d \in accepted',
                          x < d
                   PROVE  d \in Queued'
        BY <2>1 DEF NoneSkipped
    <2>3. CASE x = e
        <3>1. e \in Int /\ d \in Int
            BY <1>q, <1>2, EventsAreInts DEF QueuesOK
        <3> QED
            BY <1>1, <1>2, <2>2, <2>3, <3>1
    <2>4. CASE x \in Queued
        BY <1>q, <1>1, <1>2, <2>2, <2>4 DEF AcceptedAccounted, NoneSkipped
    <2> QED
        BY <1>1, <2>3, <2>4
<1> QED
    BY <1>3, <1>4, <1>5, <1>6 DEF AcceptedAccounted

\* The collector takes the oldest event of the channel, the newest of its batch.
LEMMA CollectorRecvAccount ==
    ASSUME AccountInv, CollectorRecv, UNCHANGED rmVars
    PROVE  AcceptedAccounted'
<1> DEFINE e == Head(event_channel)
<1>q. QueuesOK /\ BatchesOK /\ AcceptedAccounted /\ pc' = pc
    BY DEF AccountInv, TypeInv, rmVars
<1>1. /\ event_channel # <<>>
      /\ event_channel' = Tail(event_channel)
      /\ current_batch' = Append(current_batch, e)
      /\ ToSet(event_channel) = {e} \cup ToSet(event_channel')
      /\ ToSet(current_batch') = ToSet(current_batch) \cup {e}
      /\ Queued' = Queued
      /\ Batched' = Batched /\ InHands' = InHands /\ Handled' = Handled
      /\ UNCHANGED <<batch_channel, worker_batch, accepted, lost>>
    BY <1>q, CollectorRecvEffect
<1>2. OnePlaceEach'
    BY <1>q, <1>1 DEF AcceptedAccounted, OnePlaceEach
<1>3. /\ event_channel \in Seq(Int) /\ current_batch \in Seq(Int) /\ e \in Int
      /\ Ascending(event_channel) /\ Ascending(current_batch)
      /\ AllBefore(Batched, ToSet(current_batch))
      /\ AllBefore(Batched \cup ToSet(current_batch), ToSet(event_channel))
    BY <1>q, <1>1, EventsAreInts, TakenQueue DEF AcceptedAccounted, QueuesInOrder
<1>4. Ascending(event_channel') /\ \A y \in ToSet(event_channel') : e < y
    BY <1>1, <1>3, TakeKeepsOrder
<1>5. Ascending(current_batch')
    <2>1. \A y \in ToSet(current_batch) : y < e
        BY <1>1, <1>3 DEF AllBefore
    <2> QED
        BY <1>1, <1>3, <2>1, AppendKeepsOrder
<1>6. /\ AllBefore(Batched', ToSet(current_batch'))
      /\ AllBefore(Batched' \cup ToSet(current_batch'), ToSet(event_channel'))
    BY <1>1, <1>3, <1>4 DEF AllBefore
<1>7. QueuesInOrder'
    BY <1>q, <1>1, <1>4, <1>5, <1>6 DEF AcceptedAccounted, QueuesInOrder
<1>8. NoneSkipped'
    BY <1>q, <1>1 DEF AcceptedAccounted, NoneSkipped, BatchReceiversGone
<1> QED
    BY <1>q, <1>1, <1>2, <1>7, <1>8 DEF AcceptedAccounted

\* The collector's batch is the newest in the batch channel.
LEMMA CollectorSendAccount ==
    ASSUME AccountInv, CollectorSend, UNCHANGED rmVars
    PROVE  AcceptedAccounted'
<1>q. QueuesOK /\ BatchesOK /\ AcceptedAccounted /\ pc' = pc
    BY DEF AccountInv, TypeInv, rmVars
<1>1. /\ batch_channel' = Append(batch_channel, current_batch)
      /\ current_batch' = <<>> /\ ToSet(current_batch') = {}
      /\ Batched' = Batched \cup ToSet(current_batch)
      /\ Queued' = Queued
      /\ InHands' = InHands /\ Handled' = Handled
      /\ UNCHANGED <<event_channel, worker_batch, accepted, lost>>
    BY <1>q, CollectorSendEffect
<1>2. OnePlaceEach'
    BY <1>q, <1>1 DEF AcceptedAccounted, OnePlaceEach
<1>3. /\ \A i \in DOMAIN batch_channel : batch_channel'[i] = batch_channel[i]
      /\ batch_channel'[Len(batch_channel) + 1] = current_batch
      /\ DOMAIN batch_channel' = 1..(Len(batch_channel) + 1)
      /\ DOMAIN batch_channel = 1..Len(batch_channel)
      /\ Len(batch_channel) \in Nat
    BY <1>q, <1>1, AppendedQueue DEF QueuesOK
<1>4. \A i \in DOMAIN batch_channel' :
         i \in DOMAIN batch_channel \/ i = Len(batch_channel) + 1
    BY <1>3
<1>5. /\ \A i \in DOMAIN batch_channel : Ascending(batch_channel[i])
      /\ \A i, j \in DOMAIN batch_channel :
            i < j => AllBefore(ToSet(batch_channel[i]), ToSet(batch_channel[j]))
      /\ Ascending(current_batch)
      /\ AllBefore(Batched, ToSet(current_batch))
      /\ AllBefore(Batched \cup ToSet(current_batch), ToSet(event_channel))
    BY <1>q DEF AcceptedAccounted, QueuesInOrder
<1>6. \A i \in DOMAIN batch_channel' : Ascending(batch_channel'[i])
    BY <1>3, <1>4, <1>5
<1>7. ASSUME NEW i \in DOMAIN batch_channel', NEW j \in DOMAIN batch_channel', i < j
      PROVE  AllBefore(ToSet(batch_channel'[i]), ToSet(batch_channel'[j]))
    <2>1. i \in DOMAIN batch_channel /\ batch_channel'[i] = batch_channel[i]
        BY <1>3, <1>7
    <2>2. CASE j \in DOMAIN batch_channel
        BY <1>3, <1>5, <1>7, <2>1, <2>2
    <2>3. CASE j = Len(batch_channel) + 1
        <3>1. ToSet(batch_channel[i]) \subseteq Batched
            BY <1>q, <2>1, QueueElements DEF Batched, QueuesOK
        <3> QED
            BY <1>3, <1>5, <2>1, <2>3, <3>1 DEF AllBefore
    <2> QED
        BY <1>4, <2>2, <2>3
<1>8. QueuesInOrder'
    <2>1. /\ Ascending(current_batch')
          /\ AllBefore(Batched', ToSet(current_batch'))
          /\ AllBefore(Batched' \cup ToSet(current_batch'), ToSet(event_channel))
        BY <1>1, <1>5, EmptyQueue DEF AllBefore
    <2> QED
        BY <1>q, <1>1, <1>6, <1>7, <2>1 DEF AcceptedAccounted, QueuesInOrder
<1>9. NoneSkipped'
    BY <1>q, <1>1 DEF AcceptedAccounted, NoneSkipped, BatchReceiversGone
<1> QED
    BY <1>q, <1>1, <1>2, <1>8, <1>9 DEF AcceptedAccounted

\* The queues are disjoint, for one stands before the other.
LEMMA QueuesDisjoint ==
    ASSUME QueuesOK, QueuesInOrder
    PROVE  ToSet(current_batch) \cap (Batched \cup ToSet(event_channel)) = {}
<1>1. /\ Batched \subseteq Int
      /\ ToSet(current_batch) \subseteq Int
    BY EventsAreInts, QueueElements DEF QueuesOK
<1>2. \A x \in ToSet(current_batch) : x \notin Batched
    BY <1>1 DEF QueuesInOrder, AllBefore
<1>3. \A x \in ToSet(current_batch) : x \notin ToSet(event_channel)
    BY <1>1 DEF QueuesInOrder, AllBefore
<1> QED
    BY <1>2, <1>3

\* A failed send loses the collector's batch, when no worker is left.
LEMMA CollectorSendErrAccount ==
    ASSUME AccountInv, CollectorSendErr, UNCHANGED rmVars
    PROVE  AcceptedAccounted'
<1>q. QueuesOK /\ BatchesOK /\ AcceptedAccounted /\ pc' = pc
    BY DEF AccountInv, TypeInv, rmVars
<1>1. /\ BatchReceiversGone
      /\ current_batch' = <<>> /\ ToSet(current_batch') = {}
      /\ lost' = lost \cup ToSet(current_batch)
      /\ Queued' = Batched \cup ToSet(event_channel)
      /\ Batched' = Batched /\ InHands' = InHands /\ Handled' = Handled
      /\ UNCHANGED <<event_channel, batch_channel, worker_batch, accepted>>
    BY <1>q, CollectorSendErrEffect
<1>2. /\ Queued = Queued' \cup ToSet(current_batch)
      /\ ToSet(current_batch) \cap Queued' = {}
    BY <1>q, <1>1, QueuesDisjoint DEF AcceptedAccounted, Queued
<1>3. accepted' = (Queued \cup InHands \cup Handled \cup lost)'
    BY <1>q, <1>1, <1>2 DEF AcceptedAccounted
<1>4. OnePlaceEach'
    BY <1>q, <1>1, <1>2 DEF AcceptedAccounted, OnePlaceEach
<1>5. QueuesInOrder'
    BY <1>q, <1>1, EmptyQueue DEF AcceptedAccounted, QueuesInOrder, AllBefore
<1>6. NoneSkipped'
    BY <1>q, <1>1 DEF NoneSkipped, BatchReceiversGone
<1> QED
    BY <1>3, <1>4, <1>5, <1>6 DEF AcceptedAccounted

\* A worker receives the oldest batch, which stands before all that is queued.
LEMMA WorkerRecvAccount ==
    ASSUME AccountInv, NEW w \in Workers, WorkerRecv(w)
    PROVE  AcceptedAccounted'
<1> DEFINE batch == Head(batch_channel)
<1>q. /\ QueuesOK /\ BatchesOK /\ AcceptedAccounted
      /\ pc \in [Tasks -> ClientLabels \cup WorkerLabels
                             \cup {"stopped", "panicked"}]
    BY DEF AccountInv, TypeInv, WorkersOK
<1>1. /\ batch_channel # <<>> /\ batch_channel' = Tail(batch_channel)
      /\ pc[w] = "idle" /\ worker_batch[w] = <<>>
      /\ worker_batch' = [worker_batch EXCEPT ![w] = batch]
      /\ batch \in Seq(Events)
      /\ Batched = Batched' \cup ToSet(batch)
      /\ Queued = Queued' \cup ToSet(batch)
      /\ InHands' = InHands \cup ToSet(batch)
      /\ Handled' = Handled
      /\ UNCHANGED <<event_channel, current_batch, accepted, lost>>
    BY <1>q, WorkerRecvEffect
<1>2. /\ batch = batch_channel[1] /\ 1 \in DOMAIN batch_channel
      /\ DOMAIN batch_channel' = 1..(Len(batch_channel) - 1)
      /\ DOMAIN batch_channel = 1..Len(batch_channel) /\ Len(batch_channel) \in Nat
      /\ \A i \in DOMAIN batch_channel' :
            i + 1 \in DOMAIN batch_channel /\ batch_channel'[i] = batch_channel[i + 1]
    BY <1>q, <1>1, TakenQueue DEF QueuesOK
<1>3. /\ \A i \in DOMAIN batch_channel : Ascending(batch_channel[i])
      /\ \A i, j \in DOMAIN batch_channel :
            i < j => AllBefore(ToSet(batch_channel[i]), ToSet(batch_channel[j]))
      /\ AllBefore(Batched, ToSet(current_batch))
      /\ AllBefore(Batched \cup ToSet(current_batch), ToSet(event_channel))
    BY <1>q DEF AcceptedAccounted, QueuesInOrder
<1>4. AllBefore(ToSet(batch), Queued')
    <2>1. ASSUME NEW i \in DOMAIN batch_channel'
          PROVE  AllBefore(ToSet(batch), ToSet(batch_channel'[i]))
        <3>1. i + 1 \in DOMAIN batch_channel /\ 1 < i + 1
            BY <1>2
        <3> QED
            BY <1>2, <1>3, <3>1
    <2>2. AllBefore(ToSet(batch), Batched')
        <3>1. batch_channel' \in Seq(Seq(Events))
            BY <1>q, <1>1, TakenQueue DEF QueuesOK
        <3>2. \A b \in ToSet(batch_channel') :
                 \E i \in DOMAIN batch_channel' : batch_channel'[i] = b
            BY <3>1, QueueElements
        <3> QED
            BY <2>1, <3>2 DEF AllBefore, Batched
    <2>3. AllBefore(ToSet(batch), ToSet(current_batch) \cup ToSet(event_channel))
        BY <1>1, <1>3 DEF AllBefore
    <2>4. Queued' = Batched' \cup ToSet(current_batch) \cup ToSet(event_channel)
        BY <1>1 DEF Queued, ToSet
    <2> QED
        BY <2>2, <2>3, <2>4 DEF AllBefore
<1>5. ToSet(batch) \subseteq Int
    BY <1>q, <1>1, QueueElements, EventsAreInts
<1>6. ToSet(batch) \cap Queued' = {}
    BY <1>4, <1>5 DEF AllBefore
<1>7. accepted' = (Queued \cup InHands \cup Handled \cup lost)'
    BY <1>q, <1>1 DEF AcceptedAccounted
<1>8. /\ worker_batch'[w] = batch
      /\ \A v \in Workers \ {w} : worker_batch'[v] = worker_batch[v]
    BY <1>q, <1>1 DEF QueuesOK
<1>9. OnePlaceEach'
    <2>1. \A v \in Workers : ToSet(worker_batch[v]) \subseteq InHands
        BY DEF InHands
    <2>2. ToSet(batch) \cap InHands = {}
        BY <1>q, <1>1 DEF AcceptedAccounted, OnePlaceEach
    <2>3. ASSUME NEW u \in Workers, NEW v \in Workers, u # v
          PROVE  ToSet(worker_batch'[u]) \cap ToSet(worker_batch'[v]) = {}
        <3>1. CASE u = w
            BY <1>8, <2>1, <2>2, <2>3, <3>1
        <3>2. CASE v = w
            BY <1>8, <2>1, <2>2, <2>3, <3>2
        <3>3. CASE u # w /\ v # w
            BY <1>q, <1>8, <2>3, <3>3 DEF AcceptedAccounted, OnePlaceEach
        <3> QED
            BY <3>1, <3>2, <3>3
    <2>4. /\ InHands' \cap Queued' = {}
          /\ Handled' \cap (Queued' \cup InHands') = {}
          /\ lost' \cap (Queued' \cup InHands' \cup Handled') = {}
        BY <1>q, <1>1, <1>6 DEF AcceptedAccounted, OnePlaceEach
    <2> QED
        BY <2>3, <2>4 DEF OnePlaceEach
<1>10. QueuesInOrder'
    <2>1. \A v \in Workers : Ascending(worker_batch'[v])
        BY <1>q, <1>2, <1>3, <1>8 DEF AcceptedAccounted, QueuesInOrder
    <2>2. \A i \in DOMAIN batch_channel' : Ascending(batch_channel'[i])
        BY <1>2, <1>3
    <2>3. ASSUME NEW i \in DOMAIN batch_channel', NEW j \in DOMAIN batch_channel', i < j
          PROVE  AllBefore(ToSet(batch_channel'[i]), ToSet(batch_channel'[j]))
        <3>1. i + 1 < j + 1
            BY <1>2, <2>3
        <3> QED
            BY <1>2, <1>3, <3>1
    <2>4. /\ AllBefore(Batched', ToSet(current_batch'))
          /\ AllBefore(Batched' \cup ToSet(current_batch'), ToSet(event_channel'))
        BY <1>1, <1>3 DEF AllBefore
    <2>5. Ascending(current_batch') /\ Ascending(event_channel')
        BY <1>q, <1>1 DEF AcceptedAccounted, QueuesInOrder
    <2> QED
        BY <2>1, <2>2, <2>3, <2>4, <2>5 DEF QueuesInOrder
<1>11. NoneSkipped'
    <2>1. ~BatchReceiversGone
        BY <1>1 DEF BatchReceiversGone
    <2>2. SUFFICES ASSUME NEW x \in Queued', NEW d \in accepted', x < d
                   PROVE  d \in Queued'
        BY DEF NoneSkipped
    <2>3. d \in Queued
        BY <1>q, <1>1, <2>1, <2>2 DEF AcceptedAccounted, NoneSkipped
    <2>4. d \notin ToSet(batch)
        <3>1. d \in ToSet(batch) => d < x
            BY <1>4, <2>2 DEF AllBefore
        <3>2. x \in Int /\ d \in Int
            BY <1>q, <1>1, <2>2, <2>3, EventsAreInts
        <3> QED
            BY <2>2, <3>1, <3>2
    <2> QED
        BY <1>1, <2>3, <2>4
<1> QED
    BY <1>7, <1>9, <1>10, <1>11 DEF AcceptedAccounted

\* A worker handles the first event of its batch, which nobody else has.
LEMMA WorkerProcessAccount ==
    ASSUME AccountInv, NEW w \in Workers, WorkerProcess(w)
    PROVE  AcceptedAccounted'
<1> DEFINE batch == worker_batch[w]
           e == Head(batch)
<1>q. QueuesOK /\ BatchesOK /\ AcceptedAccounted
    BY DEF AccountInv, TypeInv
<1>1. /\ batch # <<>>
      /\ worker_batch' = [worker_batch EXCEPT ![w] = Tail(batch)]
      /\ ToSet(batch) = {e} \cup ToSet(Tail(batch))
      /\ InHands = InHands' \cup {e}
      /\ Handled' = Handled \cup {e}
      /\ Batched' = Batched /\ Queued' = Queued
      /\ UNCHANGED <<pc, event_channel, current_batch, batch_channel, accepted,
                     lost>>
    BY <1>q, WorkerProcessEffect DEF rmVars
<1>2. batch \in Seq(Int) /\ Ascending(batch)
    BY <1>q, EventsAreInts DEF AcceptedAccounted, QueuesInOrder
<1>3. Ascending(Tail(batch)) /\ e \notin ToSet(Tail(batch))
    BY <1>1, <1>2, TakeKeepsOrder
<1>4. /\ worker_batch'[w] = Tail(batch)
      /\ \A v \in Workers \ {w} : worker_batch'[v] = worker_batch[v]
    <2>1. worker_batch \in [Workers -> Seq(Events)]
        BY <1>q DEF QueuesOK
    <2> HIDE DEF batch
    <2> QED
        BY <1>1, <2>1
<1>5. \A v \in Workers : ToSet(worker_batch'[v]) \subseteq ToSet(worker_batch[v])
    BY <1>1, <1>4
<1>6. e \notin InHands'
    <2>1. \A v \in Workers \ {w} : e \notin ToSet(worker_batch'[v])
        BY <1>q, <1>1, <1>4 DEF AcceptedAccounted, OnePlaceEach
    <2>2. e \notin ToSet(worker_batch'[w])
        BY <1>3, <1>4
    <2>3. InHands' = UNION {ToSet(worker_batch'[v]) : v \in Workers}
        BY DEF InHands, ToSet
    <2> QED
        BY <2>1, <2>2, <2>3
<1>7. accepted' = (Queued \cup InHands \cup Handled \cup lost)'
    BY <1>q, <1>1 DEF AcceptedAccounted
<1>8. OnePlaceEach'
    <2>1. \A u, v \in Workers :
             u # v => ToSet(worker_batch'[u]) \cap ToSet(worker_batch'[v]) = {}
        BY <1>q, <1>5 DEF AcceptedAccounted, OnePlaceEach
    <2>2. /\ InHands' \cap Queued' = {}
          /\ Handled' \cap (Queued' \cup InHands') = {}
          /\ lost' \cap (Queued' \cup InHands' \cup Handled') = {}
        BY <1>q, <1>1, <1>6 DEF AcceptedAccounted, OnePlaceEach
    <2> QED
        BY <2>1, <2>2 DEF OnePlaceEach
<1>9. QueuesInOrder'
    <2>1. \A v \in Workers : Ascending(worker_batch'[v])
        BY <1>q, <1>3, <1>4 DEF AcceptedAccounted, QueuesInOrder
    <2> QED
        BY <1>q, <1>1, <2>1 DEF AcceptedAccounted, QueuesInOrder
<1>10. NoneSkipped'
    BY <1>q, <1>1 DEF AcceptedAccounted, NoneSkipped, BatchReceiversGone
<1> QED
    BY <1>7, <1>8, <1>9, <1>10 DEF AcceptedAccounted

\* A panic moves what is left of one worker's batch from its hands to lost.
LEMMA WorkerPanicAccount ==
    ASSUME AccountInv, NEW w \in Workers, WorkerPanic(w)
    PROVE  AcceptedAccounted'
<1>q. /\ QueuesOK /\ BatchesOK /\ AcceptedAccounted
      /\ pc \in [Tasks -> ClientLabels \cup WorkerLabels
                             \cup {"stopped", "panicked"}]
    BY DEF AccountInv, TypeInv, WorkersOK
<1>1. /\ pc[w] = "processing"
      /\ worker_batch' = [worker_batch EXCEPT ![w] = <<>>]
      /\ lost' = lost \cup ToSet(worker_batch[w])
      /\ InHands = InHands' \cup ToSet(worker_batch[w])
      /\ Batched' = Batched /\ Queued' = Queued /\ Handled' = Handled
      /\ UNCHANGED <<event_channel, current_batch, batch_channel, accepted>>
    BY <1>q, WorkerPanicEffect
<1>2. /\ worker_batch'[w] = <<>>
      /\ \A v \in Workers \ {w} : worker_batch'[v] = worker_batch[v]
    BY <1>1 DEF AccountInv, TypeInv, QueuesOK
<1>3. \A v \in Workers : ToSet(worker_batch'[v]) \subseteq ToSet(worker_batch[v])
    BY <1>2, EmptyQueue
<1>4. ToSet(worker_batch[w]) \cap InHands' = {}
    <2>1. \A v \in Workers : ToSet(worker_batch[w]) \cap ToSet(worker_batch'[v]) = {}
        BY <1>q, <1>2, EmptyQueue DEF AcceptedAccounted, OnePlaceEach
    <2>2. InHands' = UNION {ToSet(worker_batch'[v]) : v \in Workers}
        BY DEF InHands, ToSet
    <2> QED
        BY <2>1, <2>2
<1>5. accepted' = (Queued \cup InHands \cup Handled \cup lost)'
    BY <1>q, <1>1 DEF AcceptedAccounted
<1>6. OnePlaceEach'
    <2>1. \A u, v \in Workers :
             u # v => ToSet(worker_batch'[u]) \cap ToSet(worker_batch'[v]) = {}
        BY <1>q, <1>3 DEF AcceptedAccounted, OnePlaceEach
    <2>2. /\ InHands' \cap Queued' = {}
          /\ Handled' \cap (Queued' \cup InHands') = {}
          /\ lost' \cap (Queued' \cup InHands' \cup Handled') = {}
        BY <1>q, <1>1, <1>4 DEF AcceptedAccounted, OnePlaceEach
    <2> QED
        BY <2>1, <2>2 DEF OnePlaceEach
<1>7. QueuesInOrder'
    <2>1. \A v \in Workers : Ascending(worker_batch'[v])
        BY <1>q, <1>2, EmptyQueue DEF AcceptedAccounted, QueuesInOrder
    <2> QED
        BY <1>q, <1>1, <2>1 DEF AcceptedAccounted, QueuesInOrder
<1>8. NoneSkipped'
    <2>1. ~BatchReceiversGone
        BY <1>1 DEF BatchReceiversGone
    <2> QED
        BY <1>q, <1>1, <2>1 DEF AcceptedAccounted, NoneSkipped
<1> QED
    BY <1>5, <1>6, <1>7, <1>8 DEF AcceptedAccounted

LEMMA AccountInit == BPInit => OfferedInOrder /\ AcceptedAccounted
<1> SUFFICES ASSUME BPInit PROVE OfferedInOrder /\ AcceptedAccounted
    OBVIOUS
<1>1. ToSet(<<>>) = {} /\ Ascending(<<>>)
    BY EmptyQueue
<1>2. /\ Batched = {} /\ Queued = {} /\ Handled = {}
      /\ \A w \in Workers : worker_batch[w] = <<>>
    BY <1>1 DEF BPInit, Batched, Queued, Handled
<1>3. InHands = {}
    BY <1>1, <1>2 DEF InHands
<1>4. OnePlaceEach
    BY <1>1, <1>2, <1>3 DEF OnePlaceEach, BPInit
<1>5. QueuesInOrder
    BY <1>1, <1>2 DEF QueuesInOrder, AllBefore, BPInit
<1>6. NoneSkipped
    BY <1>2 DEF NoneSkipped
<1>7. OfferedInOrder
    <2>1. 0 \in 0..NumEvents /\ 1..0 = {}
        BY BatchAssumption
    <2> QED
        BY <2>1 DEF OfferedInOrder, BPInit
<1> QED
    BY <1>2, <1>3, <1>4, <1>5, <1>6, <1>7 DEF AcceptedAccounted, BPInit

\* Every step of the owner, the collector and the workers keeps the account.
LEMMA AccountStep ==
    ASSUME AccountInv, [BPNext]_bpAllVars
    PROVE  OfferedInOrder' /\ AcceptedAccounted'
<1>q. TypeInv /\ QueuesOK /\ BatchesOK /\ WorkersOK /\ AtomicsOK
      /\ OfferedInOrder /\ AcceptedAccounted
    BY DEF AccountInv, TypeInv, WorkersOK
<1>p. pc \in [Tasks -> ClientLabels \cup WorkerLabels \cup {"stopped", "panicked"}]
    BY <1>q DEF WorkersOK
<1>g. BatchReceiversGone => BatchReceiversGone'
    BY <1>q, GoneStaysGone
<1>offered. ASSUME UNCHANGED <<accepted, rejected>> PROVE OfferedInOrder'
    BY <1>q, <1>offered DEF OfferedInOrder
<1>1. ASSUME NextEvent \in Events, AddEvent(NextEvent), UNCHANGED rmVars
      PROVE  OfferedInOrder' /\ AcceptedAccounted'
    <2> DEFINE e == NextEvent
    <2>1. /\ e \notin accepted \cup rejected /\ \A d \in accepted : d < e
          /\ e \in 0..NumEvents /\ accepted \cup rejected \cup {e} = 1..e
        BY <1>q, <1>1, NextIsNew
    <2>2. accepted' = accepted \cup {e} /\ rejected' = rejected
        BY <1>1 DEF AddEvent
    <2> HIDE DEF e
    <2>3. OfferedInOrder'
        BY <1>q, <2>1, <2>2 DEF OfferedInOrder
    <2>4. AcceptedAccounted'
        BY <1>1, <2>1, AddEventAccount DEF e
    <2> QED
        BY <2>3, <2>4
<1>2. ASSUME NextEvent \in Events, AddEventErr(NextEvent), UNCHANGED rmVars
      PROVE  OfferedInOrder' /\ AcceptedAccounted'
    <2> DEFINE e == NextEvent
    <2>1. /\ e \notin accepted \cup rejected
          /\ e \in 0..NumEvents /\ accepted \cup rejected \cup {e} = 1..e
        BY <1>q, <1>2, NextIsNew
    <2>2. rejected' = rejected \cup {e} /\ accepted' = accepted
        BY <1>2 DEF AddEventErr
    <2>3. UNCHANGED <<event_channel, current_batch, batch_channel, worker_batch,
                      outcome, accepted, lost>>
        BY <1>2 DEF AddEventErr, channelVars, collectorVars
    <2> HIDE DEF e
    <2>4. OfferedInOrder'
        BY <1>q, <2>1, <2>2 DEF OfferedInOrder
    <2> QED
        BY <1>q, <1>g, <2>3, <2>4, AccountKept
<1>3. ASSUME Shutdown \/ DropBatchProcessor
      PROVE  OfferedInOrder' /\ AcceptedAccounted'
    <2>1. UNCHANGED <<event_channel, current_batch, batch_channel, worker_batch,
                      outcome, accepted, rejected, lost>>
        BY <1>3 DEF Shutdown, DropBatchProcessor, collectorVars, historyVars
    <2> QED
        BY <1>q, <1>g, <1>offered, <2>1, AccountKept
<1>4. ASSUME CollectorStep, UNCHANGED rmVars
      PROVE  OfferedInOrder' /\ AcceptedAccounted'
    <2>p. \A w \in Workers : pc'[w] = pc[w]
        BY <1>4 DEF rmVars
    <2>1. CASE CollectorRecv
        BY <1>q, <1>4, <1>offered, <2>p, <2>1, CollectorRecvAccount,
           CollectorRecvEffect DEF AccountInv
    <2>2. CASE CollectorTimeout \/ CollectorClosed
        BY <1>q, <1>g, <1>offered, <2>p, <2>2, AccountKept, CollectorDecideEffect
    <2>3. CASE CollectorSend
        BY <1>q, <1>4, <1>offered, <2>p, <2>3, CollectorSendAccount,
           CollectorSendEffect DEF AccountInv
    <2>4. CASE CollectorSendErr
        BY <1>q, <1>4, <1>offered, <2>p, <2>4, CollectorSendErrAccount,
           CollectorSendErrEffect DEF AccountInv
    <2> QED
        BY <1>4, <2>1, <2>2, <2>3, <2>4 DEF CollectorStep
<1>5. ASSUME NEW w \in Workers, WorkerRecv(w)
      PROVE  OfferedInOrder' /\ AcceptedAccounted'
    BY <1>q, <1>p, <1>5, <1>offered, WorkerRecvAccount, WorkerRecvEffect
    DEF AccountInv
<1>6. ASSUME NEW w \in Workers, WorkerProcess(w)
      PROVE  OfferedInOrder' /\ AcceptedAccounted'
    BY <1>q, <1>6, <1>offered, WorkerProcessAccount, WorkerProcessEffect
    DEF AccountInv
<1>7. ASSUME NEW w \in Workers, WorkerPanic(w)
      PROVE  OfferedInOrder' /\ AcceptedAccounted'
    BY <1>q, <1>p, <1>7, <1>offered, WorkerPanicAccount, WorkerPanicEffect
    DEF AccountInv
<1>8. ASSUME UNCHANGED bpVars
      PROVE  OfferedInOrder' /\ AcceptedAccounted'
    <2>1. UNCHANGED <<event_channel, current_batch, batch_channel, worker_batch,
                      outcome, accepted, rejected, lost>>
        BY <1>8 DEF bpVars, channelVars, collectorVars, historyVars
    <2> QED
        BY <1>q, <1>g, <1>offered, <2>1, AccountKept
<1>9. ASSUME NEW w \in Workers,
             WorkerStart(w) \/ WorkerComplete(w) \/ WorkerEase(w) \/ WorkerStop(w)
      PROVE  OfferedInOrder' /\ AcceptedAccounted'
    BY <1>8, <1>9 DEF WorkerStart, WorkerComplete, WorkerEase, WorkerStop
<1>10. CASE UNCHANGED bpAllVars
    BY <1>8, <1>10 DEF bpAllVars
<1> QED
    BY <1>1, <1>2, <1>3, <1>4, <1>5, <1>6, <1>7, <1>9, <1>10
    DEF BPNext, OwnerStep, WorkerStep

LEMMA AccountInvAlways == BPSpec => []AccountInv
<1>1. BPInit => AccountInv
    BY AccountInit, TypeInvInit DEF AccountInv
<1>2. AccountInv /\ [BPNext]_bpAllVars => AccountInv'
    BY AccountStep, TypeInvStep DEF AccountInv
<1> QED
    BY <1>1, <1>2, PTL DEF BPSpec

\* Every event add_event accepted is in exactly one place, in the order it was
\* accepted and with none skipped, or handled, or lost with a panicked worker
\* or a failed send: whatever the batch size, the capacities, the number of
\* workers that live or die, and the moment of a shutdown
\* (batch_processor.rs:64-139, 171-225).
THEOREM AcceptedAccountedAlways == BPSpec => []AcceptedAccounted
<1>1. AccountInv => AcceptedAccounted
    BY DEF AccountInv
<1> QED
    BY <1>1, AccountInvAlways, PTL

-----------------------------------------------------------------------------
(* The events behind the count.                                            *)

Counted == UNION {counted[w] : w \in Workers}

\* Whose events are counted: while a worker is in a batch, those it holds and
\* those of them it has handled; after a panic, those it had handled and those
\* that were lost with it.  batch_len is their number.
CountedOK ==
    /\ counted \in [Workers -> SUBSET Events]
    /\ \A w \in Workers :
          /\ pc[w] \notin {"processing", "panicked"} => counted[w] = {}
          /\ pc[w] = "processing" =>
                /\ ToSet(worker_batch[w]) \subseteq counted[w]
                /\ counted[w] \subseteq ToSet(worker_batch[w]) \cup Handled
          /\ pc[w] = "panicked" => counted[w] \subseteq Handled \cup lost
          /\ Cardinality(counted[w]) = batch_len[w]
    /\ \A v, w \in Workers : v # w => counted[v] \cap counted[w] = {}
    /\ messages_in_flight = Cardinality(Counted)

\* Sets of events are finite.
LEMMA EventSetsFinite ==
    ASSUME NEW S \in SUBSET Events
    PROVE  IsFiniteSet(S) /\ Cardinality(S) \in Nat
<1>1. IsFiniteSet(Events)
    BY FS_Interval, BatchAssumption DEF Events
<1>2. IsFiniteSet(S)
    BY <1>1, FS_Subset
<1> QED
    BY <1>2, FS_CardinalityType

\* Events that share none are counted apart.
LEMMA CountedApart ==
    ASSUME NEW S \in SUBSET Events, NEW T \in SUBSET Events, S \cap T = {}
    PROVE  Cardinality(S \cup T) = Cardinality(S) + Cardinality(T)
<1>1. /\ IsFiniteSet(S) /\ IsFiniteSet(T)
      /\ Cardinality(S) \in Nat /\ Cardinality(T) \in Nat
    BY EventSetsFinite
<1>2. Cardinality(S \cup T) =
         Cardinality(S) + Cardinality(T) - Cardinality(S \cap T)
    BY <1>1, FS_Union
<1>3. Cardinality(S \cap T) = 0
    BY FS_EmptySet
<1> QED
    BY <1>1, <1>2, <1>3

\* An ascending batch has as many events as its length says.
LEMMA BatchHasLenEvents ==
    ASSUME NEW s \in Seq(Int), Ascending(s)
    PROVE  Cardinality(ToSet(s)) = Len(s)
<1> DEFINE D == 1..Len(s)
<1>1. Len(s) \in Nat /\ DOMAIN s = D
    BY LenProperties
<1>2. IsFiniteSet(D) /\ Cardinality(D) = Len(s)
    <2>1. /\ IsFiniteSet(D)
          /\ Cardinality(D) = IF 1 > Len(s) THEN 0 ELSE Len(s) - 1 + 1
        BY <1>1, FS_Interval
    <2> QED
        BY <1>1, <2>1
<1>3. \A i, j \in D : s[i] = s[j] => i = j
    <2>1. \A i \in D : s[i] \in Int /\ i \in Int
        BY <1>1, LenProperties
    <2> QED
        BY <1>1, <2>1 DEF Ascending
<1>4. s \in Bijection(D, ToSet(s))
    <2>1. /\ \A i \in D : s[i] \in ToSet(s)
          /\ \A x \in ToSet(s) : \E i \in D : s[i] = x
        BY <1>1 DEF ToSet
    <2>2. s \in [D -> ToSet(s)]
        BY <1>1, <2>1
    <2> QED
        BY <1>3, <2>1, <2>2 DEF Bijection, Injection, Surjection, IsInjective
<1>5. ExistsBijection(D, ToSet(s))
    BY <1>4 DEF ExistsBijection
<1> QED
    BY <1>2, <1>5, FS_Bijection

\* What all workers have counted is what w has counted and what the others have.
OthersCounted(w) == UNION {counted[v] : v \in Workers \ {w}}

LEMMA CountedOfOne ==
    ASSUME CountedOK, NEW w \in Workers, NEW S \in SUBSET Events,
           S \cap OthersCounted(w) = {},
           counted' = [counted EXCEPT ![w] = S]
    PROVE  /\ Cardinality(Counted) = batch_len[w] + Cardinality(OthersCounted(w))
           /\ Cardinality(Counted') = Cardinality(S) + Cardinality(OthersCounted(w))
           /\ Cardinality(OthersCounted(w)) \in Nat
           /\ \A v \in Workers \ {w} : counted'[v] = counted[v]
           /\ counted'[w] = S
           /\ counted' \in [Workers -> SUBSET Events]
           /\ \A u, v \in Workers : u # v => counted'[u] \cap counted'[v] = {}
<1>1. /\ OthersCounted(w) \in SUBSET Events /\ counted[w] \in SUBSET Events
      /\ counted[w] \cap OthersCounted(w) = {}
    BY DEF CountedOK, OthersCounted
<1>2. Counted = counted[w] \cup OthersCounted(w)
    BY DEF Counted, OthersCounted
<1>3. /\ \A v \in Workers \ {w} : counted'[v] = counted[v]
      /\ counted'[w] = S
      /\ counted' \in [Workers -> SUBSET Events]
    BY DEF CountedOK
<1>4. Counted' = S \cup OthersCounted(w)
    BY <1>3 DEF Counted, OthersCounted
<1>5. \A u, v \in Workers : u # v => counted'[u] \cap counted'[v] = {}
    BY <1>3 DEF CountedOK, OthersCounted
<1>6. Cardinality(counted[w]) = batch_len[w]
    BY DEF CountedOK
<1>7. Cardinality(OthersCounted(w)) \in Nat
    BY <1>1, EventSetsFinite
<1> QED
    BY <1>1, <1>2, <1>3, <1>4, <1>5, <1>6, <1>7, CountedApart

\* A step in which no worker starts or completes a batch.
LEMMA CountedKept ==
    ASSUME CountedOK, counted' = [w \in Workers |-> CountedNow(w)],
           UNCHANGED <<messages_in_flight, batch_len>>,
           Handled \subseteq Handled', lost \subseteq lost',
           \A w \in Workers :
              \/ /\ pc'[w] = pc[w]
                 /\ pc[w] = "processing" =>
                       /\ ToSet(worker_batch'[w]) \subseteq ToSet(worker_batch[w])
                       /\ ToSet(worker_batch[w])
                             \subseteq ToSet(worker_batch'[w]) \cup Handled'
              \/ /\ pc[w] \notin {"processing", "panicked"}
                 /\ pc'[w] \notin {"processing", "panicked"}
              \/ /\ pc[w] = "processing" /\ pc'[w] = "panicked"
                 /\ ToSet(worker_batch[w]) \subseteq lost'
    PROVE  CountedOK'
<1>1. \A w \in Workers : CountedNow(w) = counted[w]
    BY DEF CountedNow
<1>2. counted' = counted
    BY <1>1 DEF CountedOK
<1>3. Counted' = Counted
    BY <1>2 DEF Counted
<1>4. /\ counted' \in [Workers -> SUBSET Events]
      /\ \A v, w \in Workers : v # w => counted'[v] \cap counted'[w] = {}
      /\ messages_in_flight' = Cardinality(Counted')
    BY <1>2, <1>3 DEF CountedOK
<1>5. ASSUME NEW w \in Workers
      PROVE  /\ pc'[w] \notin {"processing", "panicked"} => counted'[w] = {}
             /\ pc'[w] = "processing" =>
                   /\ ToSet(worker_batch'[w]) \subseteq counted'[w]
                   /\ counted'[w] \subseteq ToSet(worker_batch'[w]) \cup Handled'
             /\ pc'[w] = "panicked" => counted'[w] \subseteq Handled' \cup lost'
             /\ Cardinality(counted'[w]) = batch_len'[w]
    BY <1>2 DEF CountedOK
<1> QED
    BY <1>4, <1>5 DEF CountedOK, ToSet

\* start_processing: the batch in hand joins the count whole.  No other worker
\* has counted any of its events.
LEMMA CountedAtStart ==
    ASSUME AccountInv, CountedOK, NEW w \in Workers, WorkerStart(w),
           counted' = [v \in Workers |-> CountedNow(v)]
    PROVE  CountedOK'
<1> DEFINE batch == worker_batch[w]
           S == ToSet(batch)
<1>q. /\ QueuesOK /\ WorkersOK /\ AcceptedAccounted
      /\ pc \in [Tasks -> ClientLabels \cup WorkerLabels
                             \cup {"stopped", "panicked"}]
    BY DEF AccountInv, TypeInv, WorkersOK
<1>1. /\ pc[w] = "start" /\ pc' = [pc EXCEPT ![w] = "processing"]
      /\ StartProcessing(w, Len(batch))
      /\ UNCHANGED <<worker_batch, outcome, lost>>
    BY DEF WorkerStart, StartProcessing, Goto, bpVars, historyVars
<1>2. /\ Len(batch) \in 0..MaxBatchSize /\ batch_len[w] = 0
      /\ batch_len \in LenFuns /\ InFlightExact
    <2>1. Len(batch) \in 0..MaxBatchSize
        BY <1>q, ResourceAssumption DEF QueuesOK
    <2>2. batch_len[w] = 0
        BY <1>q, <1>1 DEF WorkersOK
    <2> QED
        BY <1>q, <2>1, <2>2 DEF WorkersOK
<1>3. Cardinality(S) = Len(batch) /\ S \in SUBSET Events
    BY <1>q, BatchHasLenEvents, EventsAreInts, QueueElements
    DEF AcceptedAccounted, QueuesInOrder, QueuesOK
<1>4. S \cap OthersCounted(w) = {}
    <2>1. ASSUME NEW v \in Workers \ {w} PROVE S \cap counted[v] = {}
        <3>1. counted[v] \subseteq ToSet(worker_batch[v]) \cup Handled \cup lost
            BY DEF CountedOK
        <3>2. S \cap ToSet(worker_batch[v]) = {} /\ S \subseteq InHands
            BY <1>q DEF AcceptedAccounted, OnePlaceEach, InHands
        <3>3. S \cap Handled = {} /\ S \cap lost = {}
            BY <1>q, <3>2 DEF AcceptedAccounted, OnePlaceEach
        <3> QED
            BY <3>1, <3>2, <3>3
    <2> QED
        BY <2>1 DEF OthersCounted
<1>5. \A v \in Workers \ {w} : pc'[v] = pc[v]
    BY <1>1, <1>q
<1>6. pc'[w] = "processing"
    BY <1>1, <1>q DEF Tasks
<1>7. counted' = [counted EXCEPT ![w] = S]
    <2>1. CountedNow(w) = S
        BY <1>1, <1>6 DEF CountedNow
    <2>2. \A v \in Workers \ {w} : CountedNow(v) = counted[v]
        BY <1>5 DEF CountedNow
    <2> QED
        BY <2>1, <2>2 DEF CountedOK
<1> HIDE DEF S
<1>8. /\ messages_in_flight = 0 + Cardinality(OthersCounted(w))
      /\ Cardinality(Counted') = Cardinality(S) + Cardinality(OthersCounted(w))
      /\ Cardinality(OthersCounted(w)) \in Nat
      /\ \A v \in Workers \ {w} : counted'[v] = counted[v]
      /\ counted'[w] = S
      /\ counted' \in [Workers -> SUBSET Events]
      /\ \A u, v \in Workers : u # v => counted'[u] \cap counted'[v] = {}
    BY <1>2, <1>3, <1>4, <1>7, CountedOfOne DEF CountedOK
<1>9. /\ batch_len' = [batch_len EXCEPT ![w] = Len(batch)]
      /\ messages_in_flight' = messages_in_flight + Len(batch)
    <2>1. batch_len' = [batch_len EXCEPT ![w] = Len(batch)] /\ batch_len' \in LenFuns
        BY <1>1, <1>2 DEF StartProcessing, LenFuns
    <2>2. /\ InFlightExact'
          /\ messages_in_flight' = Cardinality(Slots(batch_len'))
        BY <1>1, <1>2, CountStart DEF InFlightExact, InFlightSlots, Slots
    <2>3. Cardinality(Slots(batch_len')) = messages_in_flight + Len(batch)
        BY <1>2, <2>1, SlotsAdd DEF InFlightExact, InFlightSlots
    <2> QED
        BY <2>1, <2>2, <2>3
<1>10. messages_in_flight' = Cardinality(Counted')
    <2>1. Len(batch) \in Nat
        BY <1>q DEF QueuesOK
    <2> QED
        BY <1>3, <1>8, <1>9, <2>1
<1>11. Handled' = Handled
    BY <1>1 DEF Handled
<1>12. ASSUME NEW v \in Workers
       PROVE  /\ pc'[v] \notin {"processing", "panicked"} => counted'[v] = {}
              /\ pc'[v] = "processing" =>
                    /\ ToSet(worker_batch'[v]) \subseteq counted'[v]
                    /\ counted'[v] \subseteq ToSet(worker_batch'[v]) \cup Handled'
              /\ pc'[v] = "panicked" => counted'[v] \subseteq Handled' \cup lost'
              /\ Cardinality(counted'[v]) = batch_len'[v]
    <2>1. CASE v = w
        BY <1>1, <1>2, <1>3, <1>6, <1>8, <1>9, <2>1 DEF S, LenFuns
    <2>2. CASE v # w
        BY <1>1, <1>2, <1>5, <1>8, <1>9, <1>11, <2>2 DEF CountedOK, LenFuns
    <2> QED
        BY <2>1, <2>2
<1> QED
    BY <1>8, <1>10, <1>12 DEF CountedOK, ToSet

\* complete_processing: the worker's events leave the count again.
LEMMA CountedAtEnd ==
    ASSUME AccountInv, CountedOK, NEW w \in Workers, WorkerComplete(w),
           counted' = [v \in Workers |-> CountedNow(v)]
    PROVE  CountedOK'
<1>q. /\ WorkersOK
      /\ pc \in [Tasks -> ClientLabels \cup WorkerLabels
                             \cup {"stopped", "panicked"}]
    BY DEF AccountInv, TypeInv, WorkersOK
<1>1. /\ pc[w] = "processing" /\ pc' = [pc EXCEPT ![w] = "ease"]
      /\ CompleteProcessing(w)
      /\ UNCHANGED <<worker_batch, outcome, lost>>
    BY DEF WorkerComplete, CompleteProcessing, Goto, bpVars, historyVars
<1>2. batch_len \in LenFuns /\ InFlightExact
    BY <1>q DEF WorkersOK
<1>3. \A v \in Workers \ {w} : pc'[v] = pc[v]
    BY <1>1, <1>q
<1>4. pc'[w] = "ease"
    BY <1>1, <1>q DEF Tasks
<1>5. counted' = [counted EXCEPT ![w] = {}]
    <2>1. CountedNow(w) = {}
        BY <1>1, <1>4 DEF CountedNow
    <2>2. \A v \in Workers \ {w} : CountedNow(v) = counted[v]
        BY <1>3 DEF CountedNow
    <2> QED
        BY <2>1, <2>2 DEF CountedOK
<1>6. /\ messages_in_flight = batch_len[w] + Cardinality(OthersCounted(w))
      /\ Cardinality(Counted') = Cardinality({}) + Cardinality(OthersCounted(w))
      /\ Cardinality(OthersCounted(w)) \in Nat
      /\ \A v \in Workers \ {w} : counted'[v] = counted[v]
      /\ counted'[w] = {}
      /\ counted' \in [Workers -> SUBSET Events]
      /\ \A u, v \in Workers : u # v => counted'[u] \cap counted'[v] = {}
    <2>1. {} \in SUBSET Events /\ {} \cap OthersCounted(w) = {}
        OBVIOUS
    <2>2. messages_in_flight = Cardinality(Counted)
        BY DEF CountedOK
    <2> QED
        BY <1>5, <2>1, <2>2, CountedOfOne
<1>7. /\ batch_len' = [batch_len EXCEPT ![w] = 0] /\ batch_len' \in LenFuns
      /\ InFlightExact'
    BY <1>1, <1>2, CountComplete
<1>8. messages_in_flight' = Cardinality(Counted')
    <2>1. messages_in_flight = messages_in_flight' + batch_len[w]
        BY <1>2, <1>7, SlotsRemove DEF InFlightExact, InFlightSlots, Slots
    <2>2. batch_len[w] \in Nat /\ messages_in_flight' \in Nat
        BY <1>1, <1>2, CountComplete, ResourceAssumption DEF LenFuns
    <2> QED
        BY <1>6, <2>1, <2>2, FS_EmptySet
<1>9. Handled' = Handled
    BY <1>1 DEF Handled
<1>10. ASSUME NEW v \in Workers
       PROVE  /\ pc'[v] \notin {"processing", "panicked"} => counted'[v] = {}
              /\ pc'[v] = "processing" =>
                    /\ ToSet(worker_batch'[v]) \subseteq counted'[v]
                    /\ counted'[v] \subseteq ToSet(worker_batch'[v]) \cup Handled'
              /\ pc'[v] = "panicked" => counted'[v] \subseteq Handled' \cup lost'
              /\ Cardinality(counted'[v]) = batch_len'[v]
    <2>1. CASE v = w
        BY <1>2, <1>4, <1>6, <1>7, <2>1, FS_EmptySet DEF LenFuns
    <2>2. CASE v # w
        BY <1>1, <1>2, <1>3, <1>6, <1>7, <1>9, <2>2 DEF CountedOK, LenFuns
    <2> QED
        BY <2>1, <2>2
<1> QED
    BY <1>6, <1>8, <1>10 DEF CountedOK, ToSet

\* Every step keeps the account of the count.
LEMMA CountedStep ==
    ASSUME AccountInv, CountedOK, [AccountingNext]_accountingVars
    PROVE  CountedOK'
<1>q. /\ QueuesOK /\ BatchesOK /\ AtomicsOK
      /\ pc \in [Tasks -> ClientLabels \cup WorkerLabels
                             \cup {"stopped", "panicked"}]
    BY DEF AccountInv, TypeInv, WorkersOK
<1>c. ASSUME AccountingNext PROVE counted' = [v \in Workers |-> CountedNow(v)]
    BY <1>c DEF AccountingNext
<1>1. ASSUME AccountingNext, OwnerStep \/ CollectorStep, UNCHANGED rmVars
      PROVE  CountedOK'
    <2>1. /\ UNCHANGED <<worker_batch, outcome, messages_in_flight, batch_len, pc>>
          /\ lost \subseteq lost'
        BY <1>1
        DEF OwnerStep, AddEvent, AddEventErr, Shutdown, DropBatchProcessor,
            CollectorStep, CollectorRecv, CollectorTimeout, CollectorClosed,
            CollectorSend, CollectorSendErr, historyVars, rmVars
    <2>2. Handled' = Handled
        BY <2>1 DEF Handled
    <2> QED
        BY <1>1, <1>c, <2>1, <2>2, CountedKept
<1>2. ASSUME AccountingNext, NEW w \in Workers,
             WorkerRecv(w) \/ WorkerEase(w) \/ WorkerStop(w)
      PROVE  CountedOK'
    <2>1. /\ UNCHANGED <<outcome, lost, messages_in_flight, batch_len>>
          /\ pc[w] \notin {"processing", "panicked"}
          /\ \E label : /\ label \notin {"processing", "panicked"}
                        /\ pc' = [pc EXCEPT ![w] = label]
        <3>1. CASE WorkerRecv(w)
            BY <1>q, <3>1, WorkerRecvEffect DEF WorkerRecv, Jump, historyVars
        <3>2. CASE WorkerEase(w)
            <4>1. /\ pc[w] \in EaseLabels
                  /\ \E label \in EaseLabels \cup {"idle"} :
                        pc' = [pc EXCEPT ![w] = label]
                  /\ UNCHANGED <<messages_in_flight, batch_len>>
                BY <1>q, <3>2, EaseStepFrame DEF WorkerEase
            <4> QED
                BY <3>2, <4>1 DEF WorkerEase, EaseLabels, bpVars, historyVars
        <3>3. CASE WorkerStop(w)
            BY <3>3 DEF WorkerStop, Jump, Goto, bpVars, historyVars
        <3> QED
            BY <1>2, <3>1, <3>2, <3>3
    <2>2. \A v \in Workers \ {w} :
             pc'[v] = pc[v] /\ worker_batch'[v] = worker_batch[v]
        <3>1. \/ UNCHANGED worker_batch
              \/ worker_batch' = [worker_batch EXCEPT ![w] = Head(batch_channel)]
            BY <1>2 DEF WorkerRecv, WorkerEase, WorkerStop, bpVars
        <3> QED
            BY <1>q, <2>1, <3>1 DEF QueuesOK
    <2>3. pc'[w] \notin {"processing", "panicked"}
        BY <1>q, <2>1 DEF Tasks
    <2>4. Handled' = Handled
        BY <2>1 DEF Handled
    <2> QED
        BY <1>2, <1>c, <2>1, <2>2, <2>3, <2>4, CountedKept
<1>3. ASSUME AccountingNext, NEW w \in Workers, WorkerProcess(w)
      PROVE  CountedOK'
    <2> DEFINE e == Head(worker_batch[w])
    <2>1. /\ worker_batch' = [worker_batch EXCEPT ![w] = Tail(worker_batch[w])]
          /\ ToSet(worker_batch[w]) = {e} \cup ToSet(Tail(worker_batch[w]))
          /\ Handled' = Handled \cup {e}
          /\ UNCHANGED <<rmVars, lost>>
        BY <1>q, <1>3, WorkerProcessEffect
    <2> HIDE DEF e
    <2>2. /\ UNCHANGED <<pc, messages_in_flight, batch_len>>
          /\ \A v \in Workers : \/ worker_batch'[v] = worker_batch[v]
                                \/ v = w /\ worker_batch'[v] = Tail(worker_batch[w])
        BY <1>q, <2>1 DEF rmVars, QueuesOK
    <2> QED
        BY <1>3, <1>c, <2>1, <2>2, CountedKept
<1>4. ASSUME AccountingNext, NEW w \in Workers, WorkerPanic(w)
      PROVE  CountedOK'
    <2>1. /\ pc[w] = "processing" /\ pc' = [pc EXCEPT ![w] = "panicked"]
          /\ worker_batch' = [worker_batch EXCEPT ![w] = <<>>]
          /\ lost' = lost \cup ToSet(worker_batch[w])
          /\ Handled' = Handled
          /\ UNCHANGED <<messages_in_flight, batch_len>>
        BY <1>q, <1>4, WorkerPanicEffect
    <2>2. /\ pc'[w] = "panicked"
          /\ \A v \in Workers \ {w} :
                pc'[v] = pc[v] /\ worker_batch'[v] = worker_batch[v]
        BY <1>q, <2>1 DEF QueuesOK, Tasks
    <2> QED
        BY <1>4, <1>c, <2>1, <2>2, CountedKept
<1>5. CASE UNCHANGED accountingVars
    BY <1>5
    DEF CountedOK, Counted, Handled, ToSet, accountingVars, bpAllVars, rmVars,
        bpVars, historyVars
<1> QED
    BY <1>1, <1>2, <1>3, <1>4, <1>5, <1>c, CountedAtStart, CountedAtEnd
    DEF AccountingNext, BPNext, WorkerStep

LEMMA CountedInit == AccountingInit => CountedOK
<1> SUFFICES ASSUME AccountingInit PROVE CountedOK
    OBVIOUS
<1>1. /\ Counted = {} /\ \A w \in Workers : counted[w] = {}
      /\ counted \in [Workers -> SUBSET Events]
    BY DEF AccountingInit, Counted
<1>2. /\ messages_in_flight = 0
      /\ \A w \in Workers : batch_len[w] = 0 /\ pc[w] = "idle"
    BY ResourceAssumption
    DEF AccountingInit, BPInit, RMInit, StartLabels, Tasks
<1> QED
    BY <1>1, <1>2, FS_EmptySet DEF CountedOK

\* What the account says of the count.
LEMMA CountedMeans ==
    ASSUME AccountInv, CountedOK
    PROVE  InFlightAccounted
<1>1. /\ BeingProcessed \in SUBSET Events /\ Leaked \in SUBSET Events
      /\ BeingProcessed \cap Leaked = {}
    BY DEF CountedOK, BeingProcessed, Leaked, CountedBy
<1>2. Counted = BeingProcessed \cup Leaked
    BY DEF CountedOK, Counted, BeingProcessed, Leaked, CountedBy
<1>3. messages_in_flight = Cardinality(BeingProcessed) + Cardinality(Leaked)
    BY <1>1, <1>2, CountedApart DEF CountedOK
<1>4. Leaked \subseteq Handled \cup lost
    BY DEF CountedOK, Leaked, CountedBy
<1>5. InHands \cap Leaked = {}
    BY <1>4 DEF AccountInv, AcceptedAccounted, OnePlaceEach
<1> QED
    BY <1>1, <1>3, <1>4, <1>5 DEF InFlightAccounted, CountedOK

\* For any batch size and number of workers, the count is the number of events
\* of the batches being processed and, for good, of those whose workers
\* panicked: start_processing and complete_processing agree on every batch,
\* and a panic leaves its batch counted (batch_processor.rs:202-226).
THEOREM InFlightAccountedAlways == AccountingSpec => []InFlightAccounted
<1>1. AccountingSpec => BPSpec
    <2>1. AccountingInit => BPInit
        BY DEF AccountingInit
    <2>2. [AccountingNext]_accountingVars => [BPNext]_bpAllVars
        BY DEF AccountingNext, accountingVars
    <2> QED
        BY <2>1, <2>2, PTL DEF AccountingSpec, BPSpec
<1>2. AccountingInit => CountedOK
    BY CountedInit
<1>3. AccountInv /\ CountedOK /\ [AccountingNext]_accountingVars => CountedOK'
    BY CountedStep
<1>4. AccountInv /\ CountedOK => InFlightAccounted
    BY CountedMeans
<1> QED
    BY <1>1, <1>2, <1>3, <1>4, AccountInvAlways, PTL DEF AccountingSpec

-----------------------------------------------------------------------------
(* BatchProcessor implements EventDelivery.                                *)

Status == [e \in Events |-> EventStatus(e)]

\* An event in a queue or in a worker's hands is pending.
LEMMA PendingOnTheWay ==
    ASSUME AccountInv, NEW e \in Queued \cup InHands
    PROVE  e \in Events /\ Status[e] = "pending"
<1>1. QueuesOK /\ AcceptedAccounted /\ accepted \cap rejected = {}
    BY DEF AccountInv, TypeInv, OfferedInOrder
<1>2. e \in Events /\ e \in accepted
    BY <1>1, EventsAreInts DEF AcceptedAccounted
<1>3. e \notin lost /\ e \notin rejected /\ outcome[e] = "none"
    BY <1>1, <1>2 DEF AcceptedAccounted, OnePlaceEach, Handled
<1> QED
    BY <1>2, <1>3 DEF Status, EventStatus

\* An event that was never offered is new.
LEMMA NewBeforeOffered ==
    ASSUME AccountInv, NEW e \in Events, e \notin accepted \cup rejected
    PROVE  Status[e] = "new" /\ e \notin lost /\ outcome[e] = "none"
<1>1. e \notin lost /\ e \notin Handled
    BY DEF AccountInv, AcceptedAccounted
<1> QED
    BY <1>1 DEF Status, EventStatus, Handled

\* Losing a batch gives its events up and nothing else.
LEMMA LosingGivesUp ==
    ASSUME AccountInv, NEW es \in SUBSET (Queued \cup InHands),
           lost' = lost \cup es, UNCHANGED <<accepted, rejected, outcome>>
    PROVE  Delivery!GiveUp(es) /\ es \in SUBSET Events
<1>1. \A e \in es : e \in Events /\ Status[e] = "pending"
    BY PendingOnTheWay
<1>2. Status' = [e \in Events |-> IF e \in es THEN "given_up" ELSE Status[e]]
    BY DEF Status, EventStatus
<1> QED
    BY <1>1, <1>2 DEF Delivery!GiveUp, Status

\* Every step is a step of the abstract specification or leaves the status of
\* every event alone.
LEMMA StepDelivers ==
    ASSUME AccountInv, [BPNext]_bpAllVars
    PROVE  Delivery!DeliveryNext \/ UNCHANGED Status
<1>q. /\ QueuesOK /\ BatchesOK /\ WorkersOK /\ OfferedInOrder /\ AcceptedAccounted
      /\ pc \in [Tasks -> ClientLabels \cup WorkerLabels
                             \cup {"stopped", "panicked"}]
    BY DEF AccountInv, TypeInv, WorkersOK
<1>kept. ASSUME UNCHANGED <<accepted, rejected, outcome, lost>>
         PROVE  UNCHANGED Status
    BY <1>kept DEF Status, EventStatus
<1>1. ASSUME NextEvent \in Events, AddEvent(NextEvent)
      PROVE  Delivery!DeliveryNext
    <2> DEFINE e == NextEvent
    <2>1. /\ e \in Events /\ e \notin accepted \cup rejected
          /\ accepted' = accepted \cup {e}
          /\ UNCHANGED <<rejected, outcome, lost>>
        BY <1>q, <1>1, NextIsNew DEF AddEvent
    <2> HIDE DEF e
    <2>2. Status[e] = "new" /\ e \notin lost /\ outcome[e] = "none"
        BY <2>1, NewBeforeOffered
    <2>3. Status' = [Status EXCEPT ![e] = "pending"]
        BY <2>1, <2>2 DEF Status, EventStatus
    <2>4. Delivery!Accept(e)
        BY <2>2, <2>3 DEF Delivery!Accept, Delivery!Settle, Status
    <2> QED
        BY <2>1, <2>4 DEF Delivery!DeliveryNext
<1>2. ASSUME NextEvent \in Events, AddEventErr(NextEvent)
      PROVE  Delivery!DeliveryNext
    <2> DEFINE e == NextEvent
    <2>1. /\ e \in Events /\ e \notin accepted \cup rejected
          /\ rejected' = rejected \cup {e}
          /\ UNCHANGED <<accepted, outcome, lost>>
        BY <1>q, <1>2, NextIsNew DEF AddEventErr
    <2> HIDE DEF e
    <2>2. Status[e] = "new" /\ e \notin lost /\ outcome[e] = "none"
        BY <2>1, NewBeforeOffered
    <2>3. Status' = [Status EXCEPT ![e] = "refused"]
        BY <2>1, <2>2 DEF Status, EventStatus
    <2>4. Delivery!Refuse(e)
        BY <2>2, <2>3 DEF Delivery!Refuse, Delivery!Settle, Status
    <2> QED
        BY <2>1, <2>4 DEF Delivery!DeliveryNext
<1>3. ASSUME Shutdown \/ DropBatchProcessor
      PROVE  UNCHANGED Status
    BY <1>3, <1>kept DEF Shutdown, DropBatchProcessor, historyVars
<1>4. ASSUME CollectorStep, UNCHANGED rmVars
      PROVE  Delivery!DeliveryNext \/ UNCHANGED Status
    <2>1. CASE CollectorSendErr
        <3>1. \A w \in Workers : pc'[w] = pc[w]
            BY <1>4 DEF rmVars
        <3>2. /\ lost' = lost \cup ToSet(current_batch)
              /\ UNCHANGED <<accepted, rejected, outcome>>
            BY <1>q, <2>1, <3>1, CollectorSendErrEffect
        <3>3. ToSet(current_batch) \in SUBSET (Queued \cup InHands)
            BY DEF Queued
        <3>4. /\ Delivery!GiveUp(ToSet(current_batch))
              /\ ToSet(current_batch) \in SUBSET Events
            BY <3>2, <3>3, LosingGivesUp
        <3> QED
            BY <3>4 DEF Delivery!DeliveryNext
    <2>2. CASE CollectorRecv \/ CollectorTimeout \/ CollectorClosed \/ CollectorSend
        BY <1>kept, <2>2
        DEF CollectorRecv, CollectorTimeout, CollectorClosed, CollectorSend,
            historyVars
    <2> QED
        BY <1>4, <2>1, <2>2 DEF CollectorStep
<1>5. ASSUME NEW w \in Workers, WorkerProcess(w)
      PROVE  Delivery!DeliveryNext
    <2> DEFINE e == Head(worker_batch[w])
    <2>1. /\ e \in Events /\ InHands = InHands' \cup {e}
          /\ UNCHANGED <<accepted, rejected, lost>>
        BY <1>q, <1>5, WorkerProcessEffect
    <2>2. PICK result \in Results : outcome' = [outcome EXCEPT ![e] = result]
        BY <1>5 DEF WorkerProcess
    <2> HIDE DEF e
    <2>3. Status[e] = "pending" /\ result # "none"
        BY <2>1, <2>2, PendingOnTheWay, BatchAssumption
    <2>4. e \notin lost /\ e \notin rejected /\ outcome \in [Events -> {"none"} \cup Results]
        BY <1>q, <2>1, <2>3 DEF QueuesOK, Status, EventStatus
    <2>5. Status' = [Status EXCEPT ![e] = result]
        BY <2>1, <2>2, <2>3, <2>4 DEF Status, EventStatus
    <2>6. Delivery!Handle(e)
        BY <2>2, <2>3, <2>5 DEF Delivery!Handle, Delivery!Settle, Status
    <2> QED
        BY <2>1, <2>6 DEF Delivery!DeliveryNext
<1>6. ASSUME NEW w \in Workers, WorkerPanic(w)
      PROVE  Delivery!DeliveryNext
    <2>1. /\ lost' = lost \cup ToSet(worker_batch[w])
          /\ UNCHANGED <<accepted, rejected, outcome>>
        BY <1>q, <1>6, WorkerPanicEffect
    <2>2. ToSet(worker_batch[w]) \in SUBSET (Queued \cup InHands)
        BY DEF InHands
    <2>3. /\ Delivery!GiveUp(ToSet(worker_batch[w]))
          /\ ToSet(worker_batch[w]) \in SUBSET Events
        BY <2>1, <2>2, LosingGivesUp
    <2> QED
        BY <2>3 DEF Delivery!DeliveryNext
<1>7. ASSUME NEW w \in Workers,
             \/ WorkerRecv(w) \/ WorkerStart(w) \/ WorkerComplete(w)
             \/ WorkerEase(w) \/ WorkerStop(w)
      PROVE  UNCHANGED Status
    BY <1>7, <1>kept
    DEF WorkerRecv, WorkerStart, WorkerComplete, WorkerEase, WorkerStop, bpVars,
        historyVars
<1>8. CASE UNCHANGED bpAllVars
    BY <1>8, <1>kept DEF bpAllVars, bpVars, historyVars
<1> QED
    BY <1>1, <1>2, <1>3, <1>4, <1>5, <1>6, <1>7, <1>8
    DEF BPNext, OwnerStep, WorkerStep

\* BatchProcessor implements EventDelivery: an event is accepted or refused
\* once, and one that was accepted is handled at most once or given up, never
\* both, however the channels, the collector and the workers interleave, stop
\* and panic (batch_processor.rs:64-259).
THEOREM BPImplementsDeliveryAlways == BPSpec => BPImplementsDelivery
<1>1. BPInit => Delivery!DeliveryInit
    BY DEF BPInit, Delivery!DeliveryInit, EventStatus
<1>2. AccountInv /\ [BPNext]_bpAllVars
         => [Delivery!DeliveryNext]_([e \in Events |-> EventStatus(e)])
    BY StepDelivers DEF Status
<1> QED
    BY <1>1, <1>2, AccountInvAlways, PTL
    DEF BPSpec, BPImplementsDelivery, Delivery!DeliverySpec
=============================================================================
