------------------------------- MODULE Pipeline -------------------------------
(***************************************************************************)
(* client.rs in batch mode: process_events moves what StreamConsumer       *)
(* returns into BatchProcessor, and ResourceManager, shared by the two,    *)
(* holds the clients back.  Offsets of the Kafka log are the events.       *)
(*                                                                         *)
(* The filter, crashes and the drop of the processor are left to the       *)
(* components' own specifications; here the three components run together. *)
(***************************************************************************)
EXTENDS BatchProcessor, StreamConsumer

ASSUME PipelineAssumption == NumEvents = LogLength

pipelineVars == <<rmVars, bpVars, scVars>>

PipelineInit == BPInit /\ SCInit

\* The global check of process_events lets the client call next_event only
\* while no signal is active; otherwise it sleeps and looks again.
EnterFromLoop(c) ==
    /\ backpressure_active_signals = 0
    /\ EnterNextEvent(c)
    /\ UNCHANGED bpVars

\* Backpressure: next_event sleeps and returns Ok(None), the loop goes on.
LeaveDelay(c) == ReturnNone(c) /\ UNCHANGED <<bpVars, scVars>>

\* Mutant: the event is dropped instead of handed over.
HandOver_Drops(c) ==
    /\ Jump(c, "app", "out")
    /\ holding' = [holding EXCEPT ![c] = 0]
    /\ UNCHANGED <<bpVars, brokerVars, commit_queue, position, seen_signatures,
                   filterVars, returned, settled, faultVars>>

\* Ok(Some(event)): add_event takes it, waiting for room in the channel.
HandOver(c) ==
    /\ Jump(c, "app", "out")
    /\ AddEvent(holding[c])
    /\ holding' = [holding EXCEPT ![c] = 0]
    /\ UNCHANGED <<brokerVars, commit_queue, position, seen_signatures,
                   filterVars, returned, settled, faultVars>>

\* add_event failed: "This event may be lost" is logged, the loop goes on.
HandOverErr(c) ==
    /\ Jump(c, "app", "out")
    /\ AddEventErr(holding[c])
    /\ holding' = [holding EXCEPT ![c] = 0]
    /\ UNCHANGED <<brokerVars, commit_queue, position, seen_signatures,
                   filterVars, returned, settled, faultVars>>

\* Err: process_events returns, this client fetches no more.
EndLoop(c) ==
    /\ Jump(c, "failed", "ended")
    /\ UNCHANGED <<bpVars, scVars>>

LoopStep(c) ==
    \/ EnterFromLoop(c)
    \/ LeaveDelay(c)
    \/ (ResourceCheck(c) \/ ConsumeStep(c)) /\ UNCHANGED bpVars
    \/ HandOver(c)
    \/ HandOverErr(c)
    \/ EndLoop(c)

KafkaStep == (Produce \/ BrokerCommit) /\ UNCHANGED <<rmVars, bpVars>>

PipelineNext ==
    \/ KafkaStep
    \/ \E c \in Clients : LoopStep(c)
    \/ CollectorStep /\ UNCHANGED <<rmVars, scVars>>
    \/ \E w \in Workers : (WorkerStep(w) \/ WorkerPanic(w)) /\ UNCHANGED scVars
    \/ Shutdown /\ UNCHANGED <<rmVars, scVars>>

PipelineSpec == PipelineInit /\ [][PipelineNext]_pipelineVars

\* Every task of the runtime that can run does; Kafka delivers.
PipelineFairness ==
    /\ WF_pipelineVars(Produce /\ UNCHANGED <<rmVars, bpVars>>)
    /\ WF_pipelineVars(BrokerCommit /\ UNCHANGED <<rmVars, bpVars>>)
    /\ WF_pipelineVars(CollectorStep /\ UNCHANGED <<rmVars, scVars>>)
    /\ \A c \in Clients : WF_pipelineVars(LoopStep(c))
    /\ \A w \in Workers : WF_pipelineVars(WorkerStep(w) /\ UNCHANGED scVars)

PipelineFairSpec == PipelineSpec /\ PipelineFairness
-----------------------------------------------------------------------------
\* End to end, a signature is processed at most once, and an event is accepted
\* only after next_event returned it.
ProcessedOnce ==
    /\ accepted \cup rejected \subseteq ToSet(returned)
    /\ \A e, f \in Handled : Signature(e) = Signature(f) => e = f

\* Nothing next_event returned disappears on the way to the workers: it is in
\* a client's hands, accepted, or refused by a closed channel.
ReturnedAccounted ==
    ToSet(returned) = accepted \cup rejected
                         \cup {holding[c] : c \in {d \in Clients : pc[d] = "app"}}

\* With one client and one worker, backpressure that is active while messages
\* are in flight is eased once they complete, unless the worker panicked and
\* left its batch in the count (resource_manager.rs:111-132).
EasedAfterCompletion ==
    (backpressure_active_signals > 0 /\ messages_in_flight > 0)
        ~> (backpressure_active_signals = 0 \/ panics > 0)

\* "Signal temporary unavailability" (consumer.rs:113, 118): backpressure ends.
BackpressureEnds ==
    backpressure_active_signals > 0 ~> backpressure_active_signals = 0
=============================================================================
