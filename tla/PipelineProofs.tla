---------------------------- MODULE PipelineProofs ----------------------------
(***************************************************************************)
(* Proofs about Pipeline, for any log, any number of clients and workers,  *)
(* any batch size and any capacity: nothing next_event returned disappears *)
(* on its way to the workers, and while the dedup cache is not cleared no  *)
(* signature is processed twice.  What StreamConsumer and BatchProcessor   *)
(* do to their own state is cited from their proofs; here is what the two  *)
(* do to each other's.                                                     *)
(***************************************************************************)
EXTENDS Pipeline, BatchProcessorProofs, StreamConsumerProofs

-----------------------------------------------------------------------------
PipelineLabels == ConsumerLabels \cup WorkerLabels \cup {"stopped", "panicked", "ended"}

\* The types of the three components side by side.
FlowOK ==
    /\ AtomicsOK
    /\ batch_len \in [Workers -> 0..MaxBatchSize]
    /\ pc \in [Tasks -> PipelineLabels]
    /\ RecordsOK /\ QueuesOK /\ BatchesOK

\* What is on the way to a worker, or was handled by one, was accepted.
HandledAccepted == Queued \cup InHands \cup Handled \subseteq accepted

AtApp == {holding[c] : c \in {d \in Clients : pc[d] = "app"}}

\* The events offered to the batch processor are the offsets of the log.
LEMMA EventsAreOffsets == Events = Offsets
BY PipelineAssumption DEF Events, Offsets

\* A task moves; the others stay where they are.
LEMMA TaskMoves ==
    ASSUME FlowOK, NEW t \in Tasks, NEW label \in PipelineLabels,
           pc' = [pc EXCEPT ![t] = label]
    PROVE  /\ pc' \in [Tasks -> PipelineLabels]
           /\ t \in Clients => \A w \in Workers : pc'[w] = pc[w]
           /\ t \in Workers => \A c \in Clients : pc'[c] = pc[c]
           /\ pc'[t] = label
           /\ \A u \in Tasks \ {t} : pc'[u] = pc[u]
BY ResourceAssumption DEF FlowOK, Tasks

\* What only the consumer reads stays, and so do its types, when a worker, the
\* collector or Kafka moves.
LEMMA RecordsKept ==
    ASSUME RecordsOK, UNCHANGED scVars, \A c \in Clients : pc'[c] = pc[c]
    PROVE  RecordsOK' /\ AtApp' = AtApp
<1>1. RecordsOK'
    BY DEF RecordsOK, scVars, brokerVars, givenVars, filterVars, faultVars
<1>2. AtApp' = AtApp
    BY DEF AtApp, scVars
<1> QED
    BY <1>1, <1>2

\* What only the batch processor reads stays when a client or Kafka moves.
LEMMA QueuesKept ==
    ASSUME QueuesOK, BatchesOK, UNCHANGED bpVars, \A w \in Workers : pc'[w] = pc[w]
    PROVE  /\ QueuesOK' /\ BatchesOK'
           /\ Queued' = Queued /\ InHands' = InHands /\ Handled' = Handled
           /\ UNCHANGED <<accepted, rejected>>
<1>1. QueuesOK' /\ BatchesOK'
    BY DEF QueuesOK, BatchesOK, bpVars, channelVars, collectorVars, historyVars
<1>2. UNCHANGED <<event_channel, current_batch, batch_channel, worker_batch,
                  outcome, accepted, rejected>>
    BY DEF bpVars, channelVars, collectorVars, historyVars
<1> QED
    BY <1>1, <1>2, SetsKept

FlowInv == FlowOK /\ HandledAccepted /\ ReturnedAccounted

\* A client that fetches, or gives up fetching, leaves the account alone.
LEMMA FetchKeepsAccount ==
    ASSUME FlowInv, NEW c \in Clients,
           NEW label \in PipelineLabels \ {"app"}, pc' = [pc EXCEPT ![c] = label],
           pc[c] # "app", AtomicsOK', UNCHANGED batch_len, UNCHANGED bpVars,
           RecordsOK', UNCHANGED returned,
           \A d \in Clients \ {c} : holding'[d] = holding[d]
    PROVE  FlowInv'
<1>t. c \in Tasks /\ \A d \in Clients : d \in Tasks
    BY DEF Tasks
<1>1. /\ pc' \in [Tasks -> PipelineLabels]
      /\ \A w \in Workers : pc'[w] = pc[w]
      /\ \A d \in Clients \ {c} : pc'[d] = pc[d]
      /\ pc'[c] = label
    BY <1>t, TaskMoves DEF FlowInv
<1>2. /\ QueuesOK' /\ BatchesOK'
      /\ Queued' = Queued /\ InHands' = InHands /\ Handled' = Handled
      /\ UNCHANGED <<accepted, rejected>>
    BY <1>1, QueuesKept DEF FlowInv, FlowOK
<1>3. AtApp' = AtApp
    BY <1>1 DEF AtApp
<1>4. ReturnedAccounted'
    BY <1>2, <1>3 DEF FlowInv, ReturnedAccounted, AtApp
<1> QED
    BY <1>1, <1>2, <1>4 DEF FlowInv, FlowOK, HandledAccepted

\* next_event's steps from recv() on: what it returns is in the client's hands.
LEMMA ConsumeKeepsAccount ==
    ASSUME FlowInv, NEW c \in Clients, ConsumeStep(c), UNCHANGED bpVars
    PROVE  FlowInv'
<1>t. /\ c \in Tasks /\ pc \in [Tasks -> PipelineLabels] /\ RecordsOK
      /\ \A d \in Clients : d \in Tasks
    BY DEF FlowInv, FlowOK, Tasks
<1>1. /\ UNCHANGED <<messages_in_flight, current_memory_estimate_bytes,
                     backpressure_active_signals, local, batch_len>>
      /\ pc[c] \in {"recv", "parse", "skip", "filter"}
    BY ConsumeLabels
<1>2. PICK label \in HoldingLabels \cup {"gate", "failed"} :
         pc' = [pc EXCEPT ![c] = label]
    BY ConsumeLabels
<1>3. label \in PipelineLabels
    BY DEF PipelineLabels, ConsumerLabels, ClientLabels, HoldingLabels
<1>4. RecordsOK'
    BY <1>t, ConsumeTypes
<1>5. AtomicsOK'
    BY <1>1 DEF FlowInv, FlowOK, AtomicsOK
<1>6. /\ pc' \in [Tasks -> PipelineLabels]
      /\ \A w \in Workers : pc'[w] = pc[w]
      /\ \A d \in Clients \ {c} : pc'[d] = pc[d]
      /\ pc'[c] = label
    BY <1>t, <1>2, <1>3, TaskMoves DEF FlowInv
<1>7. CASE CommitAndReturn(c)
    <2>1. /\ label = "app" /\ holding' = holding
          /\ returned' = Append(returned, holding[c])
        BY <1>t, <1>6, <1>7 DEF CommitAndReturn, Jump, Goto
    <2>2. holding[c] \in Offsets /\ returned \in Seq(Offsets)
        BY <1>t, <1>7, InHandIsRecord DEF CommitAndReturn, Jump, HoldingLabels, RecordsOK
    <2>3. ToSet(returned') = ToSet(returned) \cup {holding[c]}
        BY <2>1, <2>2, AppendedQueue
    <2>4. AtApp' = AtApp \cup {holding[c]}
        BY <1>1, <1>6, <2>1 DEF AtApp
    <2>5. /\ QueuesOK' /\ BatchesOK'
          /\ Queued' = Queued /\ InHands' = InHands /\ Handled' = Handled
          /\ UNCHANGED <<accepted, rejected>>
        BY <1>6, QueuesKept DEF FlowInv, FlowOK
    <2>6. ReturnedAccounted'
        BY <2>3, <2>4, <2>5 DEF FlowInv, ReturnedAccounted, AtApp
    <2> QED
        BY <1>1, <1>4, <1>5, <1>6, <2>5, <2>6 DEF FlowInv, FlowOK, HandledAccepted
<1>8. CASE ~CommitAndReturn(c)
    <2>1. UNCHANGED returned /\ \A d \in Clients \ {c} : holding'[d] = holding[d]
        BY <1>t, <1>8 DEF ConsumeStep, Recv, RecvErr, InternalProcess, CommitSkipped,
                          CommitErr, RecordsOK, faultVars
    <2>2. label # "app"
        BY <1>t, <1>6, <1>8 DEF ConsumeStep, Recv, RecvErr, InternalProcess,
                                CommitSkipped, CommitErr, Jump, Goto
    <2> QED
        BY <1>1, <1>2, <1>3, <1>4, <1>5, <2>1, <2>2, FetchKeepsAccount
<1> QED
    BY <1>7, <1>8

\* process_events hands the event over: from the client's hands it goes to the
\* event channel, or it is refused.
LEMMA HandOverKeepsAccount ==
    ASSUME FlowInv, NEW c \in Clients, HandOver(c) \/ HandOverErr(c)
    PROVE  FlowInv'
<1> DEFINE e == holding[c]
<1>t. /\ c \in Tasks /\ pc \in [Tasks -> PipelineLabels] /\ RecordsOK
      /\ \A d \in Clients : d \in Tasks
      /\ holding \in [Clients -> 0..LogLength]
    BY DEF FlowInv, FlowOK, RecordsOK, Tasks
<1>1. /\ pc[c] = "app" /\ pc' = [pc EXCEPT ![c] = "out"]
      /\ holding' = [holding EXCEPT ![c] = 0]
      /\ UNCHANGED <<brokerVars, commit_queue, position, seen_signatures,
                     filterVars, returned, settled, faultVars>>
      /\ UNCHANGED <<messages_in_flight, current_memory_estimate_bytes,
                     backpressure_active_signals, local, batch_len>>
      /\ AddEvent(e) \/ AddEventErr(e)
    BY DEF HandOver, HandOverErr, Jump, Goto
<1>2. e \in Events
    BY <1>t, <1>1, InHandIsRecord, EventsAreOffsets DEF HoldingLabels
<1>3. /\ pc' \in [Tasks -> PipelineLabels]
      /\ \A w \in Workers : pc'[w] = pc[w]
      /\ \A d \in Clients \ {c} : pc'[d] = pc[d]
      /\ pc'[c] = "out"
    BY <1>t, <1>1, TaskMoves DEF FlowInv, PipelineLabels, ConsumerLabels, ClientLabels
<1>4. RecordsOK'
    BY <1>t, <1>1, ClientReleases DEF HoldingLabels
<1>5. AtApp = AtApp' \cup {e}
    BY <1>t, <1>1, <1>3 DEF AtApp
<1> HIDE DEF e
<1>6. /\ QueuesOK' /\ BatchesOK' /\ HandledAccepted'
      /\ accepted' \cup rejected' = accepted \cup rejected \cup {e}
    <2>1. CASE AddEvent(e)
        <3>1. /\ QueuesOK' /\ BatchesOK'
              /\ Queued' = Queued \cup {e}
              /\ InHands' = InHands /\ Handled' = Handled
            BY <1>2, <1>3, <2>1, AddEventEffect DEF FlowInv, FlowOK
        <3>2. accepted' = accepted \cup {e} /\ UNCHANGED rejected
            BY <2>1 DEF AddEvent
        <3> QED
            BY <3>1, <3>2 DEF FlowInv, HandledAccepted
    <2>2. CASE AddEventErr(e)
        <3>1. /\ QueuesOK' /\ BatchesOK'
              /\ UNCHANGED <<event_channel, current_batch, batch_channel,
                             worker_batch, outcome, accepted, lost>>
            BY <1>2, <1>3, <2>2, OwnerEffect DEF FlowInv, FlowOK
        <3>2. Queued' = Queued /\ InHands' = InHands /\ Handled' = Handled
            BY <3>1, SetsKept
        <3>3. rejected' = rejected \cup {e}
            BY <2>2 DEF AddEventErr
        <3> QED
            BY <3>1, <3>2, <3>3 DEF FlowInv, HandledAccepted
    <2> QED
        BY <1>1, <2>1, <2>2
<1>7. ReturnedAccounted'
    BY <1>1, <1>5, <1>6 DEF FlowInv, ReturnedAccounted, AtApp
<1>8. AtomicsOK'
    BY <1>1 DEF FlowInv, FlowOK, AtomicsOK
<1> QED
    BY <1>1, <1>3, <1>4, <1>6, <1>7, <1>8 DEF FlowInv, FlowOK

LEMMA LoopKeepsAccount ==
    ASSUME FlowInv, NEW c \in Clients, LoopStep(c)
    PROVE  FlowInv'
<1>t. /\ c \in Tasks /\ pc \in [Tasks -> PipelineLabels] /\ RecordsOK /\ AtomicsOK
    BY DEF FlowInv, FlowOK, Tasks
<1>quiet. ASSUME NEW label \in PipelineLabels \ {"app"}, label \notin HoldingLabels,
                 pc' = [pc EXCEPT ![c] = label], pc[c] \notin HoldingLabels,
                 AtomicsOK', UNCHANGED batch_len, UNCHANGED <<bpVars, scVars>>
          PROVE  FlowInv'
    <2>1. RecordsOK'
        BY <1>t, <1>quiet, ClientMoves
    <2> QED
        BY <1>quiet, <2>1, FetchKeepsAccount DEF scVars, HoldingLabels
<1> USE DEF PipelineLabels, ConsumerLabels, ClientLabels
<1>1. CASE EnterFromLoop(c)
    BY <1>t, <1>1, <1>quiet DEF EnterFromLoop, EnterNextEvent, CallNextEvent, Jump,
                                Goto, AtomicsOK, HoldingLabels
<1>2. CASE LeaveDelay(c)
    BY <1>t, <1>2, <1>quiet DEF LeaveDelay, ReturnNone, Jump, Goto, AtomicsOK,
                                HoldingLabels
<1>3. CASE ResourceCheck(c) /\ UNCHANGED bpVars
    <2>1. /\ AtomicsOK' /\ UNCHANGED batch_len /\ UNCHANGED <<bpVars, scVars>>
          /\ pc[c] \in CheckLabels \cup {"gate"}
        BY <1>t, <1>3, CheckStepFrame DEF ResourceCheck
    <2>2. PICK label \in CheckLabels \cup {"delay", "recv"} :
             pc' = [pc EXCEPT ![c] = label]
        BY <1>t, <1>3, CheckStepFrame DEF ResourceCheck
    <2> QED
        BY <2>1, <2>2, <1>quiet DEF CheckLabels, HoldingLabels
<1>4. CASE ConsumeStep(c) /\ UNCHANGED bpVars
    BY <1>4, ConsumeKeepsAccount
<1>5. CASE HandOver(c) \/ HandOverErr(c)
    BY <1>5, HandOverKeepsAccount
<1>6. CASE EndLoop(c)
    BY <1>t, <1>6, <1>quiet DEF EndLoop, Jump, Goto, AtomicsOK, HoldingLabels
<1> QED
    BY <1>1, <1>2, <1>3, <1>4, <1>5, <1>6 DEF LoopStep

\* Kafka delivers, the collector moves events or loses them, the owner closes
\* the channel: the clients and the atomics are not touched.
LEMMA QueueStepKeepsAccount ==
    ASSUME FlowInv, UNCHANGED rmVars,
           \/ KafkaStep
           \/ CollectorStep /\ UNCHANGED scVars
           \/ Shutdown /\ UNCHANGED scVars
    PROVE  FlowInv'
<1>t. RecordsOK /\ QueuesOK /\ BatchesOK /\ UNCHANGED pc
    BY DEF FlowInv, FlowOK, rmVars
<1>1. AtomicsOK' /\ UNCHANGED batch_len
    BY DEF FlowInv, FlowOK, AtomicsOK, rmVars
<1>done. ASSUME RecordsOK', AtApp' = AtApp, QueuesOK', BatchesOK',
                Queued' \subseteq Queued, InHands' = InHands, Handled' = Handled,
                UNCHANGED <<accepted, rejected, returned>>
         PROVE  FlowInv'
    BY <1>t, <1>1, <1>done
    DEF FlowInv, FlowOK, HandledAccepted, ReturnedAccounted, AtApp
<1>2. CASE KafkaStep
    <2>1. RecordsOK' /\ UNCHANGED <<holding, returned>>
        BY <1>t, <1>2, OutsideTypes DEF KafkaStep, Produce, BrokerCommit
    <2>2. AtApp' = AtApp
        BY <1>t, <2>1 DEF AtApp
    <2>3. /\ QueuesOK' /\ BatchesOK'
          /\ Queued' = Queued /\ InHands' = InHands /\ Handled' = Handled
          /\ UNCHANGED <<accepted, rejected>>
        BY <1>t, <1>2, QueuesKept DEF KafkaStep
    <2> QED
        BY <2>1, <2>2, <2>3, <1>done
<1>3. ASSUME UNCHANGED scVars
      PROVE  RecordsOK' /\ AtApp' = AtApp /\ UNCHANGED returned
    BY <1>t, <1>3, RecordsKept DEF scVars
<1>4. CASE CollectorStep /\ UNCHANGED scVars
    <2>1. CASE CollectorRecv
        BY <1>t, <1>3, <1>4, <2>1, <1>done, CollectorRecvEffect
    <2>2. CASE CollectorTimeout \/ CollectorClosed
        BY <1>t, <1>3, <1>4, <2>2, <1>done, CollectorDecideEffect, SetsKept
    <2>3. CASE CollectorSend
        BY <1>t, <1>3, <1>4, <2>3, <1>done, CollectorSendEffect
    <2>4. CASE CollectorSendErr
        <3>1. /\ QueuesOK' /\ BatchesOK'
              /\ Queued' = Batched \cup ToSet(event_channel)
              /\ InHands' = InHands /\ Handled' = Handled
              /\ UNCHANGED <<accepted, rejected>>
            BY <1>t, <2>4, CollectorSendErrEffect
        <3>2. Queued' \subseteq Queued
            BY <3>1 DEF Queued
        <3> QED
            BY <1>3, <1>4, <1>done, <3>1, <3>2
    <2> QED
        BY <1>4, <2>1, <2>2, <2>3, <2>4 DEF CollectorStep
<1>5. CASE Shutdown /\ UNCHANGED scVars
    <2>1. UNCHANGED <<event_channel, current_batch, batch_channel, worker_batch,
                      outcome, accepted, rejected>>
        BY <1>5 DEF Shutdown, collectorVars, historyVars
    <2> QED
        BY <1>t, <1>3, <1>5, <2>1, <1>done, OwnerEffect, SetsKept
<1> QED
    BY <1>2, <1>4, <1>5

\* A worker takes a batch, counts it, handles it or panics: only what was
\* accepted reaches it.
LEMMA WorkerKeepsAccount ==
    ASSUME FlowInv, NEW w \in Workers, WorkerStep(w) \/ WorkerPanic(w),
           UNCHANGED scVars
    PROVE  FlowInv'
<1>t. /\ w \in Tasks /\ pc \in [Tasks -> PipelineLabels] /\ RecordsOK
      /\ QueuesOK /\ BatchesOK /\ AtomicsOK
    BY DEF FlowInv, FlowOK, Tasks
<1>done. ASSUME NEW label \in PipelineLabels,
                pc' = [pc EXCEPT ![w] = label], QueuesOK', BatchesOK', AtomicsOK',
                batch_len' \in [Workers -> 0..MaxBatchSize],
                Queued' \cup InHands' \cup Handled' \subseteq
                    Queued \cup InHands \cup Handled,
                UNCHANGED <<accepted, rejected>>
         PROVE  FlowInv'
    <2>1. pc' \in [Tasks -> PipelineLabels] /\ \A c \in Clients : pc'[c] = pc[c]
        BY <1>t, <1>done, TaskMoves DEF FlowInv
    <2>2. RecordsOK' /\ AtApp' = AtApp /\ UNCHANGED returned
        BY <1>t, <2>1, RecordsKept DEF scVars
    <2> QED
        BY <1>done, <2>1, <2>2
        DEF FlowInv, FlowOK, HandledAccepted, ReturnedAccounted, AtApp
<1>len. batch_len \in [Workers -> 0..MaxBatchSize] /\ MaxBatchSize \in Nat
    BY ResourceAssumption DEF FlowInv, FlowOK
<1> USE DEF PipelineLabels, ConsumerLabels, ClientLabels, WorkerLabels
<1>1. CASE WorkerRecv(w)
    <2>1. /\ pc' = [pc EXCEPT ![w] = "start"] /\ QueuesOK' /\ BatchesOK'
          /\ Queued = Queued' \cup ToSet(Head(batch_channel))
          /\ InHands' = InHands \cup ToSet(Head(batch_channel))
          /\ Handled' = Handled
          /\ UNCHANGED <<accepted, rejected>>
        BY <1>t, <1>1, WorkerRecvEffect
    <2>2. AtomicsOK' /\ UNCHANGED batch_len
        BY <1>t, <1>1 DEF WorkerRecv, Jump, AtomicsOK
    <2> QED
        BY <1>len, <1>done, <2>1, <2>2
<1>2. CASE WorkerProcess(w)
    <2>1. /\ QueuesOK' /\ BatchesOK' /\ UNCHANGED rmVars
          /\ InHands = InHands' \cup {Head(worker_batch[w])}
          /\ Handled' = Handled \cup {Head(worker_batch[w])}
          /\ Queued' = Queued
          /\ UNCHANGED <<accepted, rejected>>
        BY <1>t, <1>2, WorkerProcessEffect
    <2>2. pc[w] \in PipelineLabels /\ pc' = [pc EXCEPT ![w] = pc[w]]
        BY <1>t, <2>1 DEF rmVars
    <2>3. AtomicsOK' /\ UNCHANGED batch_len
        BY <1>t, <2>1 DEF rmVars, AtomicsOK
    <2> QED
        BY <1>len, <1>done, <2>1, <2>2, <2>3
<1>3. CASE WorkerPanic(w)
    <2>1. /\ pc' = [pc EXCEPT ![w] = "panicked"] /\ QueuesOK' /\ BatchesOK'
          /\ InHands = InHands' \cup ToSet(worker_batch[w])
          /\ Queued' = Queued /\ Handled' = Handled
          /\ UNCHANGED <<accepted, rejected, messages_in_flight,
                         current_memory_estimate_bytes,
                         backpressure_active_signals, local, batch_len>>
        BY <1>t, <1>3, WorkerPanicEffect
    <2>2. AtomicsOK'
        BY <1>t, <2>1 DEF AtomicsOK
    <2> QED
        BY <1>len, <1>done, <2>1, <2>2
<1>4. CASE WorkerStart(w) \/ WorkerComplete(w) \/ WorkerEase(w) \/ WorkerStop(w)
    <2>1. QueuesOK' /\ BatchesOK' /\ UNCHANGED bpVars
        BY <1>t, <1>4, WorkerCountEffect
    <2>2. PICK label \in {"processing", "stopped", "idle"} \cup EaseLabels :
             pc' = [pc EXCEPT ![w] = label]
        BY <1>t, <1>4, WorkerCountEffect
    <2>3. UNCHANGED <<event_channel, current_batch, batch_channel, worker_batch,
                      outcome, accepted, rejected>>
        BY <2>1 DEF bpVars, channelVars, collectorVars, historyVars
    <2>4. Queued' = Queued /\ InHands' = InHands /\ Handled' = Handled
        BY <2>3, SetsKept
    <2>5. AtomicsOK' /\ batch_len' \in [Workers -> 0..MaxBatchSize]
        <3>1. CASE WorkerStart(w)
            <4> DEFINE n == Len(worker_batch[w])
            <4>1. n \in 0..MaxBatchSize
                <5>1. worker_batch[w] \in Seq(Events) /\ n <= MaxBatchSize
                    BY <1>t DEF QueuesOK
                <5> QED
                    BY <1>len, <5>1, LenProperties
            <4>2. /\ messages_in_flight' = FetchAdd(messages_in_flight, n)
                  /\ batch_len' = [batch_len EXCEPT ![w] = n]
                  /\ UNCHANGED <<current_memory_estimate_bytes,
                                 backpressure_active_signals, local>>
                BY <3>1 DEF WorkerStart, StartProcessing
            <4> HIDE DEF n
            <4>3. messages_in_flight' \in 0..UsizeMax
                BY <1>t, <1>len, <4>1, <4>2, WrapType DEF FetchAdd, AtomicsOK
            <4> QED
                BY <1>t, <1>len, <4>1, <4>2, <4>3 DEF AtomicsOK
        <3>2. CASE WorkerComplete(w)
            BY <1>t, <1>len, <3>2, ResourceAssumption
            DEF WorkerComplete, CompleteProcessing, FetchSub, AtomicsOK
        <3>3. CASE WorkerEase(w)
            BY <1>t, <1>len, <3>3, EaseStepFrame DEF WorkerEase
        <3>4. CASE WorkerStop(w)
            BY <1>t, <1>len, <3>4 DEF WorkerStop, Jump, AtomicsOK
        <3> QED
            BY <1>4, <3>1, <3>2, <3>3, <3>4
    <2>6. label \in PipelineLabels
        BY DEF EaseLabels
    <2> QED
        BY <1>done, <2>1, <2>2, <2>3, <2>4, <2>5, <2>6
<1> QED
    BY <1>1, <1>2, <1>3, <1>4 DEF WorkerStep

LEMMA FlowInit == PipelineInit => FlowInv
<1> SUFFICES ASSUME PipelineInit PROVE FlowInv
    OBVIOUS
<1>1. /\ TypeInv /\ RecordsOK
    BY TypeInvInit, SCInvInit DEF PipelineInit, SCInv
<1>2. FlowOK
    BY <1>1, ResourceAssumption DEF FlowOK, TypeInv, WorkersOK, PipelineLabels, ConsumerLabels, LenFuns
<1>3. Queued = {} /\ InHands = {} /\ Handled = {} /\ accepted = {} /\ rejected = {}
    BY AccountInit DEF PipelineInit, BPInit, AcceptedAccounted, Queued, Batched, InHands, Handled
<1>4. ToSet(returned) = {} /\ AtApp = {}
    BY EmptyQueue DEF PipelineInit, SCInit, RMInit, StartLabels, AtApp, Tasks
<1> QED
    BY <1>2, <1>3, <1>4 DEF FlowInv, HandledAccepted, ReturnedAccounted, AtApp

LEMMA FlowStep ==
    ASSUME FlowInv, [PipelineNext]_pipelineVars
    PROVE  FlowInv'
<1>1. CASE KafkaStep
    BY <1>1, QueueStepKeepsAccount DEF KafkaStep
<1>2. ASSUME NEW c \in Clients, LoopStep(c)
      PROVE  FlowInv'
    BY <1>2, LoopKeepsAccount
<1>3. CASE \/ CollectorStep /\ UNCHANGED <<rmVars, scVars>>
           \/ Shutdown /\ UNCHANGED <<rmVars, scVars>>
    BY <1>3, QueueStepKeepsAccount
<1>4. ASSUME NEW w \in Workers, WorkerStep(w) \/ WorkerPanic(w), UNCHANGED scVars
      PROVE  FlowInv'
    BY <1>4, WorkerKeepsAccount
<1>5. CASE UNCHANGED pipelineVars
    <2>1. UNCHANGED rmVars /\ UNCHANGED bpVars /\ UNCHANGED scVars /\ UNCHANGED pc
        BY <1>5 DEF pipelineVars, rmVars
    <2>2. RecordsOK' /\ AtApp' = AtApp /\ UNCHANGED returned
        BY <2>1, RecordsKept DEF FlowInv, FlowOK, scVars
    <2>3. /\ QueuesOK' /\ BatchesOK'
          /\ Queued' = Queued /\ InHands' = InHands /\ Handled' = Handled
          /\ UNCHANGED <<accepted, rejected>>
        BY <2>1, QueuesKept DEF FlowInv, FlowOK
    <2>4. AtomicsOK' /\ UNCHANGED batch_len
        BY <2>1 DEF FlowInv, FlowOK, AtomicsOK, rmVars
    <2> QED
        BY <2>1, <2>2, <2>3, <2>4
        DEF FlowInv, FlowOK, HandledAccepted, ReturnedAccounted, AtApp
<1> QED
    BY <1>1, <1>2, <1>3, <1>4, <1>5 DEF PipelineNext

\* Nothing next_event returned disappears on the way to the workers: whatever the
\* number of clients, the capacities, a shutdown or panics in between, it is in a
\* client's hands, accepted, or refused by a closed channel (client.rs:142-216).
THEOREM ReturnedAccountedAlways == PipelineSpec => []ReturnedAccounted
<1>1. FlowInv => ReturnedAccounted
    BY DEF FlowInv
<1>2. FlowInv /\ [PipelineNext]_pipelineVars => FlowInv'
    BY FlowStep
<1> QED
    BY <1>1, <1>2, FlowInit, PTL DEF PipelineSpec

\* The batch processor does not disturb the dedup cache, nor what was returned.
LEMMA PipelineDedupStep ==
    ASSUME Cardinality(Sigs) <= DedupCapacity, FlowInv, DedupInv,
           [PipelineNext]_pipelineVars
    PROVE  DedupInv'
<1>t. /\ RecordsOK /\ AtomicsOK /\ pc \in [Tasks -> PipelineLabels]
      /\ holding \in [Clients -> 0..LogLength]
      /\ Clients \subseteq Tasks /\ Workers \subseteq Tasks
    BY DEF FlowInv, FlowOK, RecordsOK, Tasks
<1>away. ASSUME NEW c \in Clients, NEW label, label # "filter",
                pc' = [pc EXCEPT ![c] = label],
                UNCHANGED <<kafka_log, returned, seen_signatures>>,
                \A d \in Clients \ {c} : holding'[d] = holding[d]
         PROVE  DedupInv'
    <2>1. \A d \in Clients : pc'[d] = "filter" =>
             pc[d] = "filter" /\ holding'[d] = holding[d]
        BY <1>t, <1>away
    <2> QED
        BY <1>away, <2>1, DedupKept
<1>kept. ASSUME \A c \in Clients : pc'[c] = pc[c],
                UNCHANGED <<kafka_log, returned, seen_signatures, holding>>
         PROVE  DedupInv'
    BY <1>kept, DedupKept
<1> USE DEF scVars, brokerVars, givenVars
<1>1. CASE KafkaStep
    BY <1>1, <1>kept DEF KafkaStep, Produce, BrokerCommit, rmVars
<1>2. ASSUME NEW c \in Clients, LoopStep(c)
      PROVE  DedupInv'
    <2>1. CASE EnterFromLoop(c)
        BY <2>1, <1>away DEF EnterFromLoop, EnterNextEvent, CallNextEvent, Jump, Goto
    <2>2. CASE LeaveDelay(c)
        BY <2>2, <1>away DEF LeaveDelay, ReturnNone, Jump, Goto
    <2>3. CASE ResourceCheck(c)
        <3>1. PICK label \in CheckLabels \cup {"delay", "recv"} :
                 pc' = [pc EXCEPT ![c] = label]
            BY <1>t, <2>3, CheckStepFrame DEF ResourceCheck
        <3>2. label # "filter"
            BY DEF CheckLabels
        <3> QED
            BY <2>3, <3>1, <3>2, <1>away DEF ResourceCheck
    <2>4. CASE ConsumeStep(c)
        BY <1>t, <2>4, ConsumeDedup
    <2>5. CASE HandOver(c) \/ HandOverErr(c)
        <3>1. /\ pc' = [pc EXCEPT ![c] = "out"]
              /\ holding' = [holding EXCEPT ![c] = 0]
              /\ UNCHANGED <<kafka_log, returned, seen_signatures>>
            BY <2>5 DEF HandOver, HandOverErr, Jump, Goto
        <3>2. \A d \in Clients \ {c} : holding'[d] = holding[d]
            BY <1>t, <3>1
        <3> QED
            BY <3>1, <3>2, <1>away
    <2>6. CASE EndLoop(c)
        BY <2>6, <1>away DEF EndLoop, Jump, Goto
    <2> QED
        BY <1>2, <2>1, <2>2, <2>3, <2>4, <2>5, <2>6 DEF LoopStep
<1>3. CASE \/ CollectorStep /\ UNCHANGED <<rmVars, scVars>>
           \/ Shutdown /\ UNCHANGED <<rmVars, scVars>>
           \/ UNCHANGED pipelineVars
    BY <1>3, <1>kept DEF rmVars, pipelineVars
<1>4. ASSUME NEW w \in Workers, WorkerStep(w) \/ WorkerPanic(w), UNCHANGED scVars
      PROVE  DedupInv'
    <2>1. \A c \in Clients : pc'[c] = pc[c]
        <3>1. QueuesOK /\ BatchesOK /\ w \in Tasks
            BY <1>t DEF FlowInv, FlowOK
        <3>2. pc' = pc \/ \E label : pc' = [pc EXCEPT ![w] = label]
            <4>1. CASE WorkerRecv(w)
                BY <4>1 DEF WorkerRecv, Jump, Goto
            <4>2. CASE WorkerProcess(w)
                BY <4>2 DEF WorkerProcess, rmVars
            <4>3. CASE WorkerPanic(w)
                BY <4>3 DEF WorkerPanic, Jump, Goto
            <4>4. CASE WorkerStart(w) \/ WorkerComplete(w) \/ WorkerEase(w) \/ WorkerStop(w)
                BY <1>t, <3>1, <4>4, WorkerCountEffect
            <4> QED
                BY <1>4, <4>1, <4>2, <4>3, <4>4 DEF WorkerStep
        <3> QED
            BY <1>t, <3>1, <3>2, ResourceAssumption
    <2> QED
        BY <1>4, <2>1, <1>kept
<1> QED
    BY <1>1, <1>2, <1>3, <1>4 DEF PipelineNext

\* End to end, for any number of clients and workers: an event is accepted only
\* after next_event returned it, and while the cache is not cleared a signature
\* is processed at most once, though copies of it are in the log
\* (client.rs:142-216; consumer.rs:194-216; batch_processor.rs:171-225).
THEOREM ProcessedOnceAlways ==
    ASSUME Cardinality(Sigs) <= DedupCapacity
    PROVE  PipelineSpec => []ProcessedOnce
<1>1. PipelineInit => DedupInv
    BY DEF PipelineInit, SCInit, RMInit, StartLabels, DedupInv, Tasks
<1>2. FlowInv /\ [PipelineNext]_pipelineVars => FlowInv'
    BY FlowStep
<1>3. FlowInv /\ DedupInv /\ [PipelineNext]_pipelineVars => DedupInv'
    BY PipelineDedupStep
<1>4. FlowInv /\ DedupInv => ProcessedOnce
    <2> SUFFICES ASSUME FlowInv, DedupInv PROVE ProcessedOnce
        OBVIOUS
    <2>1. accepted \cup rejected \subseteq ToSet(returned)
        BY DEF FlowInv, ReturnedAccounted
    <2>2. ASSUME NEW e \in Handled, NEW f \in Handled, Signature(e) = Signature(f)
          PROVE  e = f
        <3>1. e \in ToSet(returned) /\ f \in ToSet(returned)
            BY <2>1 DEF FlowInv, HandledAccepted
        <3>2. returned \in Seq(Offsets)
            BY DEF FlowInv, FlowOK, RecordsOK
        <3>3. PICK i \in DOMAIN returned, j \in DOMAIN returned :
                 returned[i] = e /\ returned[j] = f
            BY <3>1, <3>2, QueueElements
        <3> QED
            BY <2>2, <3>3 DEF DedupInv
    <2> QED
        BY <2>1, <2>2 DEF ProcessedOnce
<1> QED
    BY <1>1, <1>2, <1>3, <1>4, FlowInit, PTL DEF PipelineSpec
=============================================================================
