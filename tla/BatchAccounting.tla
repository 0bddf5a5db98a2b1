---------------------------- MODULE BatchAccounting ----------------------------
(***************************************************************************)
(* BatchProcessor with a history of the events behind the in-flight count: *)
(* which events each worker has added and not taken out.  The steps are    *)
(* those of the processor; the history only looks on.                      *)
(***************************************************************************)
EXTENDS BatchProcessor

VARIABLE counted   \* history: the events of the batch a worker has counted

accountingVars == <<bpAllVars, counted>>

AccountingInit == BPInit /\ counted = [w \in Workers |-> {}]

\* start_processing(batch_len) is called for the batch in hand, and
\* complete_processing(batch_len) at its end.  An unwinding worker calls
\* nothing.
CountedNow(w) ==
    IF pc[w] = "start" /\ pc'[w] = "processing" THEN ToSet(worker_batch[w])
    ELSE IF pc[w] = "processing" /\ pc'[w] = "ease" THEN {}
    ELSE counted[w]

AccountingNext == BPNext /\ counted' = [w \in Workers |-> CountedNow(w)]

AccountingSpec == AccountingInit /\ [][AccountingNext]_accountingVars

AccountingFairSpec == AccountingSpec /\ BPFairness
-----------------------------------------------------------------------------
CountedBy(label) == UNION {counted[w] : w \in {v \in Workers : pc[v] = label}}

\* The batches that live workers are in the middle of.
BeingProcessed == CountedBy("processing")

\* The batches that workers were in the middle of when they panicked.
Leaked == CountedBy("panicked")

\* The count is the events of the batches being processed and, for good, those
\* of every batch whose worker panicked: complete_processing is not reached on
\* unwinding (batch_processor.rs:202-226), so the "messages currently being
\* processed or queued" of resource_manager.rs:23 are overstated by exactly the
\* leaked ones.  A batch being processed is counted whole until its end: what
\* is left of it and what is handled already.  What has leaked was handled or
\* lost, never what another worker holds, so no event is counted twice.
InFlightAccounted ==
    /\ messages_in_flight = Cardinality(BeingProcessed) + Cardinality(Leaked)
    /\ InHands \cap Leaked = {} /\ BeingProcessed \cap Leaked = {}
    /\ Leaked \subseteq Handled \cup lost
    /\ \A w \in Workers : pc[w] = "processing" =>
          /\ ToSet(worker_batch[w]) \subseteq counted[w]
          /\ counted[w] \subseteq ToSet(worker_batch[w]) \cup Handled
=============================================================================
