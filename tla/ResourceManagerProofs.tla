------------------------ MODULE ResourceManagerProofs ------------------------
(***************************************************************************)
(* Proofs about ResourceManager, for any number of clients and workers and *)
(* any limits: the counter of messages in flight is exact, and with one    *)
(* worker the backpressure signals are bounded and never wrap.             *)
(***************************************************************************)
EXTENDS ResourceManager, FiniteSetTheorems, TLAPS

-----------------------------------------------------------------------------
(* Arithmetic of the wrapping atomics.                                     *)

\* A wrapping operation stays within usize.
LEMMA WrapType ==
    ASSUME NEW x \in Int
    PROVE  x % (UsizeMax + 1) \in 0..UsizeMax
BY ResourceAssumption

\* A result that fits is not changed by wrapping.
LEMMA WrapFits ==
    ASSUME NEW x \in 0..UsizeMax
    PROVE  x % (UsizeMax + 1) = x
BY ResourceAssumption

-----------------------------------------------------------------------------
(* Cardinality of the slots.                                               *)

LenFuns == [Workers -> 0..MaxBatchSize]

\* The slots of all workers together fit into a usize.
LEMMA SlotsBound ==
    ASSUME NEW len \in LenFuns
    PROVE  /\ IsFiniteSet(Slots(len))
           /\ Cardinality(Slots(len)) \in 0..UsizeMax
<1> DEFINE All == Workers \X (1..MaxBatchSize)
<1>1. IsFiniteSet(1..MaxBatchSize) /\ Cardinality(1..MaxBatchSize) = MaxBatchSize
    BY FS_Interval, ResourceAssumption
<1>2. /\ IsFiniteSet(All)
      /\ Cardinality(All) = Cardinality(Workers) * MaxBatchSize
    BY <1>1, FS_Product, ResourceAssumption
<1>3. Slots(len) \in SUBSET All
    BY DEF Slots
<1>4. /\ IsFiniteSet(Slots(len))
      /\ Cardinality(Slots(len)) <= Cardinality(All)
    BY <1>2, <1>3, FS_Subset
<1>5. Cardinality(Slots(len)) \in Nat /\ Cardinality(Workers) \in Nat
    BY <1>4, FS_CardinalityType, ResourceAssumption
<1>6. Cardinality(Slots(len)) <= Cardinality(Workers) * MaxBatchSize
    BY <1>2, <1>4
<1>7. Cardinality(Workers) * MaxBatchSize \in Nat
    BY <1>5, ResourceAssumption
<1> QED
    BY <1>4, <1>5, <1>6, <1>7, ResourceAssumption

\* A worker without slots that takes n of them adds exactly n.
LEMMA SlotsAdd ==
    ASSUME NEW len \in LenFuns, NEW w \in Workers, len[w] = 0,
           NEW n \in 0..MaxBatchSize
    PROVE  Cardinality(Slots([len EXCEPT ![w] = n])) =
              Cardinality(Slots(len)) + n
<1> DEFINE more == [len EXCEPT ![w] = n]
           mine == {w} \X (1..n)
<1>1. more \in LenFuns
    BY DEF LenFuns
<1>n. n \in Nat
    BY ResourceAssumption
<1>2. IsFiniteSet(1..n) /\ Cardinality(1..n) = n
    <2>1. /\ IsFiniteSet(1..n)
          /\ Cardinality(1..n) = IF 1 > n THEN 0 ELSE n - 1 + 1
        BY <1>n, FS_Interval
    <2> QED
        BY <2>1, <1>n
<1>3. IsFiniteSet({w}) /\ Cardinality({w}) = 1
    BY FS_Singleton
<1>4. IsFiniteSet(mine) /\ Cardinality(mine) = n
    <2>1. /\ IsFiniteSet(mine)
          /\ Cardinality(mine) = Cardinality({w}) * Cardinality(1..n)
        BY <1>2, <1>3, FS_Product
    <2> QED
        BY <2>1, <1>2, <1>3, <1>n
<1>5. Slots(more) = Slots(len) \cup mine
    BY ResourceAssumption DEF Slots, LenFuns
<1>6. Slots(len) \cap mine = {}
    BY ResourceAssumption DEF Slots, LenFuns
<1>7. Cardinality(Slots(len) \cap mine) = 0
    BY <1>6, FS_EmptySet
<1>8. IsFiniteSet(Slots(len)) /\ Cardinality(Slots(len)) \in Nat
    BY SlotsBound
<1>9. Cardinality(Slots(len) \cup mine)
         = Cardinality(Slots(len)) + Cardinality(mine)
              - Cardinality(Slots(len) \cap mine)
    BY <1>4, <1>8, FS_Union
<1>10. Cardinality(Slots(more)) = Cardinality(Slots(len)) + n
    <2> HIDE DEF more, mine
    <2> QED
        BY <1>4, <1>5, <1>7, <1>8, <1>9, <1>n
<1> QED
    BY <1>10

\* A worker that gives its slots back removes exactly those.
LEMMA SlotsRemove ==
    ASSUME NEW len \in LenFuns, NEW w \in Workers
    PROVE  Cardinality(Slots(len)) =
              Cardinality(Slots([len EXCEPT ![w] = 0])) + len[w]
<1> DEFINE less == [len EXCEPT ![w] = 0]
<1>1. less \in LenFuns /\ less[w] = 0 /\ len[w] \in 0..MaxBatchSize
    BY ResourceAssumption DEF LenFuns
<1>2. [less EXCEPT ![w] = len[w]] = len
    BY DEF LenFuns
<1>3. Cardinality(Slots([less EXCEPT ![w] = len[w]]))
         = Cardinality(Slots(less)) + len[w]
    BY <1>1, SlotsAdd
<1> QED
    BY <1>2, <1>3
-----------------------------------------------------------------------------
(* The invariant.                                                          *)

\* The type invariant and the exact count are inductive together: the count
\* is needed to see that fetch_sub does not wrap.
CountInv == RMTypeOK /\ InFlightExact

\* Nothing is in flight and no worker holds anything at the start.
LEMMA CountInvInit == RMInit => CountInv
<1> SUFFICES ASSUME RMInit PROVE CountInv
    OBVIOUS
<1>1. batch_len \in LenFuns
    BY ResourceAssumption DEF RMInit, LenFuns
<1>2. Slots(batch_len) = {}
    BY ResourceAssumption DEF RMInit, Slots
<1>3. InFlightExact
    BY <1>2, FS_EmptySet DEF RMInit, InFlightExact, InFlightSlots
<1>4. RMTypeOK
    BY ResourceAssumption
    DEF RMInit, RMTypeOK, StartLabels, NoLocals, Tasks, ClientLabels,
        WorkerLabels
<1> QED
    BY <1>3, <1>4 DEF CountInv

\* A step that changes neither the count nor what the workers hold.
LEMMA CountKept ==
    ASSUME InFlightExact, messages_in_flight' = messages_in_flight,
           batch_len' = batch_len
    PROVE  InFlightExact'
BY DEF InFlightExact, InFlightSlots, Slots

\* start_processing adds what the worker takes.
LEMMA CountStart ==
    ASSUME batch_len \in LenFuns, InFlightExact, NEW w \in Workers,
           batch_len[w] = 0, NEW n \in 0..MaxBatchSize, StartProcessing(w, n)
    PROVE  /\ InFlightExact'
           /\ messages_in_flight' \in 0..UsizeMax
           /\ batch_len' = [batch_len EXCEPT ![w] = n]
           /\ batch_len' \in LenFuns
<1>2. batch_len' = [batch_len EXCEPT ![w] = n] /\ batch_len' \in LenFuns
    BY DEF StartProcessing, LenFuns
<1>3. Cardinality(Slots(batch_len')) = messages_in_flight + n
    BY <1>2, SlotsAdd DEF InFlightExact, InFlightSlots
<1>4. messages_in_flight + n \in 0..UsizeMax
    BY <1>2, <1>3, SlotsBound
<1>5. messages_in_flight' = messages_in_flight + n
    BY <1>4, WrapFits DEF StartProcessing, FetchAdd
<1> QED
    BY <1>2, <1>3, <1>4, <1>5 DEF InFlightExact, InFlightSlots, Slots

\* complete_processing removes it again, without wrapping.
LEMMA CountComplete ==
    ASSUME batch_len \in LenFuns, InFlightExact, NEW w \in Workers,
           CompleteProcessing(w)
    PROVE  /\ InFlightExact'
           /\ messages_in_flight' \in 0..UsizeMax
           /\ batch_len' = [batch_len EXCEPT ![w] = 0]
           /\ batch_len' \in LenFuns
<1>1. batch_len[w] \in 0..MaxBatchSize
    BY DEF LenFuns
<1>2. batch_len' = [batch_len EXCEPT ![w] = 0] /\ batch_len' \in LenFuns
    BY <1>1, ResourceAssumption DEF CompleteProcessing, LenFuns
<1>3. messages_in_flight = Cardinality(Slots(batch_len')) + batch_len[w]
    BY <1>1, <1>2, SlotsRemove DEF InFlightExact, InFlightSlots
<1>4. Cardinality(Slots(batch_len')) \in 0..UsizeMax
    BY <1>2, SlotsBound
<1>5. messages_in_flight - batch_len[w] = Cardinality(Slots(batch_len'))
    BY <1>1, <1>3, <1>4, ResourceAssumption
<1>6. messages_in_flight' = Cardinality(Slots(batch_len'))
    BY <1>4, <1>5, WrapFits DEF CompleteProcessing, FetchSub
<1> QED
    BY <1>2, <1>4, <1>6 DEF InFlightExact, InFlightSlots, Slots

\* The atomics and the locals have their types.
AtomicsOK ==
    /\ messages_in_flight \in 0..UsizeMax
    /\ current_memory_estimate_bytes \in Nat
    /\ backpressure_active_signals \in 0..UsizeMax
    /\ local \in [Tasks -> [count : Nat, mem : Nat]]

EaseLabels == {"ease", "ease_mem", "ease_store", "ease_active", "deactivate"}

\* What the steps of the resource check leave alone, and where they lead,
\* whatever labels the rest of the client's code has.
LEMMA CheckStepFrame ==
    ASSUME AtomicsOK, NEW c \in Clients, CheckStep(c)
    PROVE  /\ AtomicsOK'
           /\ UNCHANGED <<messages_in_flight, batch_len>>
           /\ pc[c] \in CheckLabels \cup {"gate"}
           /\ \E label \in CheckLabels \cup {"delay", "recv"} :
                 pc' = [pc EXCEPT ![c] = label]
<1> USE DEF AtomicsOK, CheckLabels, Goto
<1>1. CASE IsBackpressureActive(c)
    BY <1>1 DEF IsBackpressureActive, Jump
<1>2. CASE CheckInFlight(c)
    BY <1>2 DEF CheckInFlight, Jump
<1>3. CASE CheckMemoryLoad(c)
    <2>1. messages_in_flight * avg_message_ram_footprint_bytes \in Nat
        BY ResourceAssumption DEF avg_message_ram_footprint_bytes
    <2> QED
        BY <1>3, <2>1 DEF CheckMemoryLoad, EstimateLoad
<1>4. CASE CheckMemoryStore(c)
    <2>1. c \in Tasks
        BY DEF Tasks
    <2> QED
        BY <1>4, <2>1 DEF CheckMemoryStore, EstimateStore, NoLocals
<1>5. CASE ActivateBackpressureSignal(c)
    <2>1. backpressure_active_signals' \in 0..UsizeMax
        BY <1>5, WrapType DEF ActivateBackpressureSignal, FetchAdd
    <2> QED
        BY <1>5, <2>1 DEF ActivateBackpressureSignal
<1> QED
    BY <1>1, <1>2, <1>3, <1>4, <1>5 DEF CheckStep

\* The same for the steps of a worker after complete_processing.
LEMMA EaseStepFrame ==
    ASSUME AtomicsOK, NEW w \in Workers, EaseStep(w)
    PROVE  /\ AtomicsOK'
           /\ UNCHANGED <<messages_in_flight, batch_len>>
           /\ pc[w] \in EaseLabels
           /\ \E label \in EaseLabels \cup {"idle"} :
                 pc' = [pc EXCEPT ![w] = label]
<1> USE DEF AtomicsOK, EaseLabels, Goto
<1>t. w \in Tasks
    BY DEF Tasks
<1>1. CASE EaseLoad(w)
    BY <1>1, <1>t, ResourceAssumption DEF EaseLoad
<1>2. CASE EaseMemoryLoad(w)
    <2>1. messages_in_flight * avg_message_ram_footprint_bytes \in Nat
        BY ResourceAssumption DEF avg_message_ram_footprint_bytes
    <2> QED
        BY <1>2, <2>1 DEF EaseMemoryLoad, EstimateLoad
<1>3. CASE EaseMemoryStore(w)
    BY <1>3, <1>t DEF EaseMemoryStore, EstimateStore, NoLocals
<1>4. CASE EaseIsActive(w)
    BY <1>4 DEF EaseIsActive, Jump
<1>5. CASE DeactivateBackpressureSignal(w)
    <2>1. backpressure_active_signals' \in 0..UsizeMax
        BY <1>5, WrapType DEF DeactivateBackpressureSignal, FetchSub
    <2> QED
        BY <1>5, <2>1 DEF DeactivateBackpressureSignal
<1> QED
    BY <1>1, <1>2, <1>3, <1>4, <1>5 DEF EaseStep

\* A task moves to another label and the rest keeps its type.
LEMMA TypeOfMove ==
    ASSUME CountInv, NEW t \in Tasks, NEW label,
           Goto(t, label),
           t \in Clients => label \in ClientLabels,
           t \in Workers => label \in WorkerLabels,
           t \in Workers /\ label # "processing" => batch_len'[t] = 0,
           messages_in_flight' \in 0..UsizeMax,
           backpressure_active_signals' \in 0..UsizeMax,
           current_memory_estimate_bytes' \in Nat,
           local' \in [Tasks -> [count : Nat, mem : Nat]],
           batch_len' \in LenFuns,
           \A w \in Workers : w # t => batch_len'[w] = batch_len[w]
    PROVE  RMTypeOK'
<1>1. pc' = [pc EXCEPT ![t] = label] /\ pc \in [Tasks -> ClientLabels \cup WorkerLabels]
    BY DEF Goto, CountInv, RMTypeOK
<1>2. pc' \in [Tasks -> ClientLabels \cup WorkerLabels]
    BY <1>1 DEF Tasks
<1>3. \A c \in Clients : pc'[c] \in ClientLabels
    BY <1>1 DEF CountInv, RMTypeOK, Tasks
<1>4. \A w \in Workers : pc'[w] \in WorkerLabels
    BY <1>1 DEF CountInv, RMTypeOK, Tasks
<1>5. \A w \in Workers : pc'[w] # "processing" => batch_len'[w] = 0
    BY <1>1 DEF CountInv, RMTypeOK, Tasks
<1> QED
    BY <1>2, <1>3, <1>4, <1>5 DEF RMTypeOK, LenFuns

\* Every step of every client and worker preserves the invariant of the count
\* (resource_manager.rs:76-132).
LEMMA CountInvStep ==
    ASSUME CountInv, [RMNext]_rmVars
    PROVE  CountInv'
<1> USE DEF Tasks
<1>t. /\ messages_in_flight \in 0..UsizeMax
      /\ backpressure_active_signals \in 0..UsizeMax
      /\ current_memory_estimate_bytes \in Nat
      /\ local \in [Tasks -> [count : Nat, mem : Nat]]
      /\ batch_len \in LenFuns
      /\ \A w \in Workers : pc[w] # "processing" => batch_len[w] = 0
    BY DEF CountInv, RMTypeOK, LenFuns
<1>jump. ASSUME NEW t \in Tasks, NEW at, NEW next, Jump(t, at, next),
                t \in Clients => next \in ClientLabels,
                t \in Workers => next \in WorkerLabels,
                t \in Workers => at # "processing" /\ next # "processing"
         PROVE  CountInv'
    <2>1. InFlightExact'
        BY <1>jump, CountKept DEF Jump, CountInv
    <2>2. RMTypeOK'
        BY <1>jump, <1>t, TypeOfMove DEF Jump
    <2> QED
        BY <2>1, <2>2 DEF CountInv
<1>load. ASSUME NEW t \in Tasks, NEW at, NEW next, EstimateLoad(t, at, next),
                t \in Clients => next \in ClientLabels,
                t \in Workers => next \in WorkerLabels,
                t \in Workers => at # "processing" /\ next # "processing"
         PROVE  CountInv'
    <2>1. InFlightExact'
        BY <1>load, CountKept DEF EstimateLoad, CountInv
    <2>2. messages_in_flight * avg_message_ram_footprint_bytes \in Nat
        BY <1>t, ResourceAssumption DEF avg_message_ram_footprint_bytes
    <2>3. local' \in [Tasks -> [count : Nat, mem : Nat]]
        BY <1>load, <1>t, <2>2 DEF EstimateLoad
    <2>4. RMTypeOK'
        BY <1>load, <1>t, <2>3, TypeOfMove DEF EstimateLoad
    <2> QED
        BY <2>1, <2>4 DEF CountInv
<1>store. ASSUME NEW t \in Tasks, NEW at, NEW next, EstimateStore(t, at, next),
                 t \in Clients => next \in ClientLabels,
                 t \in Workers => next \in WorkerLabels,
                 t \in Workers => at # "processing" /\ next # "processing"
          PROVE  CountInv'
    <2>1. InFlightExact'
        BY <1>store, CountKept DEF EstimateStore, CountInv
    <2>2. local' \in [Tasks -> [count : Nat, mem : Nat]]
        BY <1>store, <1>t DEF EstimateStore, NoLocals
    <2>3. current_memory_estimate_bytes' \in Nat
        BY <1>store, <1>t DEF EstimateStore
    <2>4. RMTypeOK'
        BY <1>store, <1>t, <2>2, <2>3, TypeOfMove DEF EstimateStore
    <2> QED
        BY <2>1, <2>4 DEF CountInv
<1>1. ASSUME NEW c \in Clients, CheckStep(c)
      PROVE  CountInv'
    <2>0. c \notin Workers
        BY ResourceAssumption
    <2>1. CASE IsBackpressureActive(c)
        BY <2>0, <2>1, <1>jump DEF IsBackpressureActive, ClientLabels
    <2>2. CASE CheckInFlight(c)
        BY <2>0, <2>2, <1>jump DEF CheckInFlight, ClientLabels
    <2>3. CASE CheckMemoryLoad(c)
        BY <2>0, <2>3, <1>load DEF CheckMemoryLoad, ClientLabels
    <2>4. CASE CheckMemoryStore(c)
        BY <2>0, <2>4, <1>store DEF CheckMemoryStore, ClientLabels
    <2>5. CASE ActivateBackpressureSignal(c)
        <3>1. InFlightExact'
            BY <2>5, CountKept DEF ActivateBackpressureSignal, CountInv
        <3>2. backpressure_active_signals' \in 0..UsizeMax
            BY <2>5, <1>t, WrapType DEF ActivateBackpressureSignal, FetchAdd
        <3>3. RMTypeOK'
            BY <2>0, <2>5, <3>2, <1>t, TypeOfMove
            DEF ActivateBackpressureSignal, ClientLabels
        <3> QED
            BY <3>1, <3>3 DEF CountInv
    <2> QED
        BY <1>1, <2>1, <2>2, <2>3, <2>4, <2>5 DEF CheckStep
<1>2. ASSUME NEW c \in Clients, CallNextEvent(c) \/ ReturnNone(c) \/ ReturnSome(c)
      PROVE  CountInv'
    <2>0. c \notin Workers
        BY ResourceAssumption
    <2> QED
        BY <2>0, <1>2, <1>jump
        DEF CallNextEvent, ReturnNone, ReturnSome, ClientLabels
<1>3. ASSUME NEW w \in Workers, TakeBatch(w)
      PROVE  CountInv'
    <2>0. w \notin Clients
        BY ResourceAssumption
    <2> QED
        BY <2>0, <1>3, <1>jump DEF TakeBatch, WorkerLabels
<1>4. ASSUME NEW w \in Workers, NEW n \in 1..MaxBatchSize, StartProcessing(w, n)
      PROVE  CountInv'
    <2>0. w \notin Clients
        BY ResourceAssumption
    <2>s. n \in 0..MaxBatchSize /\ batch_len[w] = 0 /\ InFlightExact
        BY <1>4, <1>t DEF StartProcessing, CountInv
    <2>1. InFlightExact' /\ messages_in_flight' \in 0..UsizeMax
          /\ batch_len' \in LenFuns
        BY <1>4, <1>t, <2>s, CountStart
    <2>2. \A v \in Workers : v # w => batch_len'[v] = batch_len[v]
        BY <1>4, <1>t DEF StartProcessing, LenFuns
    <2>3. RMTypeOK'
        BY <2>0, <2>1, <2>2, <1>4, <1>t, TypeOfMove
        DEF StartProcessing, WorkerLabels
    <2> QED
        BY <2>1, <2>3 DEF CountInv
<1>5. ASSUME NEW w \in Workers, CompleteProcessing(w)
      PROVE  CountInv'
    <2>0. w \notin Clients
        BY ResourceAssumption
    <2>1. InFlightExact' /\ messages_in_flight' \in 0..UsizeMax
          /\ batch_len' \in LenFuns
        BY <1>5, <1>t, CountComplete DEF CountInv
    <2>2. /\ \A v \in Workers : v # w => batch_len'[v] = batch_len[v]
          /\ batch_len'[w] = 0
        BY <1>5, <1>t DEF CompleteProcessing, LenFuns
    <2>3. RMTypeOK'
        BY <2>0, <2>1, <2>2, <1>5, <1>t, TypeOfMove
        DEF CompleteProcessing, WorkerLabels
    <2> QED
        BY <2>1, <2>3 DEF CountInv
<1>6. ASSUME NEW w \in Workers, EaseStep(w)
      PROVE  CountInv'
    <2>0. w \notin Clients
        BY ResourceAssumption
    <2>1. CASE EaseLoad(w)
        <3>1. InFlightExact'
            BY <2>1, CountKept DEF EaseLoad, CountInv
        <3>2. local' \in [Tasks -> [count : Nat, mem : Nat]]
            BY <2>1, <1>t, ResourceAssumption DEF EaseLoad
        <3>3. RMTypeOK'
            BY <2>0, <2>1, <3>2, <1>t, TypeOfMove DEF EaseLoad, WorkerLabels
        <3> QED
            BY <3>1, <3>3 DEF CountInv
    <2>2. CASE EaseMemoryLoad(w)
        BY <2>0, <2>2, <1>load DEF EaseMemoryLoad, WorkerLabels
    <2>3. CASE EaseMemoryStore(w)
        BY <2>0, <2>3, <1>store DEF EaseMemoryStore, WorkerLabels
    <2>4. CASE EaseIsActive(w)
        BY <2>0, <2>4, <1>jump DEF EaseIsActive, WorkerLabels
    <2>5. CASE DeactivateBackpressureSignal(w)
        <3>1. InFlightExact'
            BY <2>5, CountKept DEF DeactivateBackpressureSignal, CountInv
        <3>2. backpressure_active_signals' \in 0..UsizeMax
            BY <2>5, <1>t, WrapType DEF DeactivateBackpressureSignal, FetchSub
        <3>3. RMTypeOK'
            BY <2>0, <2>5, <3>2, <1>t, TypeOfMove
            DEF DeactivateBackpressureSignal, WorkerLabels
        <3> QED
            BY <3>1, <3>3 DEF CountInv
    <2> QED
        BY <1>6, <2>1, <2>2, <2>3, <2>4, <2>5 DEF EaseStep
<1>7. CASE UNCHANGED rmVars
    <2>1. InFlightExact'
        BY <1>7, CountKept DEF rmVars, CountInv
    <2>2. RMTypeOK'
        BY <1>7 DEF rmVars, CountInv, RMTypeOK
    <2> QED
        BY <2>1, <2>2 DEF CountInv
<1> QED
    BY <1>1, <1>2, <1>3, <1>4, <1>5, <1>6, <1>7 DEF RMNext

\* The invariant of the count holds in every behaviour.
LEMMA CountInvAlways == RMSpec => []CountInv
<1>1. RMInit => CountInv
    BY CountInvInit
<1>2. CountInv /\ [RMNext]_rmVars => CountInv'
    BY CountInvStep
<1> QED
    BY <1>1, <1>2, PTL DEF RMSpec

\* Type correctness: a worker has messages in the count only between
\* start_processing and complete_processing, and fetch_sub never takes the
\* count below zero, for any number of tasks (resource_manager.rs:99-109).
THEOREM RMTypeOKAlways == RMSpec => []RMTypeOK
<1>1. CountInv => RMTypeOK
    BY DEF CountInv
<1> QED
    BY <1>1, CountInvAlways, PTL

\* For every number of clients and workers and every batch size, the counter is
\* what the workers have added and not taken out: every interleaving of
\* start_processing and complete_processing adds up, and none wraps
\* (resource_manager.rs:99-109).
THEOREM InFlightExactAlways == RMSpec => []InFlightExact
<1>1. CountInv => InFlightExact
    BY DEF CountInv
<1> QED
    BY <1>1, CountInvAlways, PTL
-----------------------------------------------------------------------------
(* Backpressure signals with a single worker.                              *)

SignalInv == RMTypeOK /\ SignalsBounded /\ DeactivateOnlyIfActive

\* The clients past the gate are finitely many, at most all of them.
LEMMA PastGateFinite ==
    /\ IsFiniteSet(PastGate)
    /\ Cardinality(PastGate) \in Nat
    /\ Cardinality(Clients) \in Nat
    /\ Cardinality(PastGate) <= Cardinality(Clients)
<1>1. PastGate \in SUBSET Clients
    BY DEF PastGate
<1>2. IsFiniteSet(PastGate) /\ Cardinality(PastGate) <= Cardinality(Clients)
    BY <1>1, FS_Subset, ResourceAssumption
<1> QED
    BY <1>2, FS_CardinalityType, ResourceAssumption

\* How a move of a task changes the set of clients past the gate.
LEMMA PastGateMove ==
    ASSUME RMTypeOK, NEW t \in Tasks, NEW label, Goto(t, label)
    PROVE  /\ t \in Clients /\ label \in CheckLabels
                => PastGate' = PastGate \cup {t}
           /\ t \in Clients /\ label \notin CheckLabels
                => PastGate' = PastGate \ {t}
           /\ t \notin Clients => PastGate' = PastGate
<1>1. \A c \in Clients : pc'[c] = IF c = t THEN label ELSE pc[c]
    BY DEF RMTypeOK, Goto, Tasks
<1> QED
    BY <1>1 DEF PastGate

\* Every step but the raising and lowering of a signal.
LEMMA SignalKept ==
    ASSUME SignalInv, NEW t \in Tasks, NEW label, Goto(t, label),
           backpressure_active_signals' = backpressure_active_signals,
           t \in Clients /\ label \in CheckLabels
              => t \in PastGate \/ backpressure_active_signals = 0,
           t \in Workers /\ label = "deactivate"
              => backpressure_active_signals > 0
    PROVE  SignalsBounded' /\ DeactivateOnlyIfActive'
<1>1. DeactivateOnlyIfActive'
    BY DEF SignalInv, DeactivateOnlyIfActive, RMTypeOK, Goto, Tasks
<1>2. CASE PastGate' \subseteq PastGate
    <2>1. Cardinality(PastGate') <= Cardinality(PastGate)
          /\ Cardinality(PastGate') \in Nat
        BY <1>2, PastGateFinite, FS_Subset, FS_CardinalityType
    <2> QED
        BY <1>1, <2>1, PastGateFinite, ResourceAssumption
        DEF SignalInv, SignalsBounded, RMTypeOK
<1>3. CASE ~ (PastGate' \subseteq PastGate)
    <2>1. backpressure_active_signals = 0
        BY <1>3, PastGateMove DEF SignalInv
    <2>2. PastGate' \in SUBSET Clients
        BY DEF PastGate
    <2>3. Cardinality(PastGate') <= Cardinality(Clients)
          /\ Cardinality(PastGate') \in Nat
        BY <2>2, FS_Subset, FS_CardinalityType, ResourceAssumption
    <2> QED
        BY <1>1, <2>1, <2>3, PastGateFinite DEF SignalsBounded
<1> QED
    BY <1>2, <1>3

\* With one worker every step preserves the invariant of the signals
\* (resource_manager.rs:76-164).
LEMMA SignalInvStep ==
    ASSUME NEW worker, Workers = {worker},
           SignalInv, RMTypeOK', [RMNext]_rmVars
    PROVE  SignalInv'
<1> USE DEF Tasks
<1>0. worker \notin Clients /\ worker \in Workers
    BY ResourceAssumption
<1>1. ASSUME NEW c \in Clients, CheckStep(c)
      PROVE  SignalsBounded' /\ DeactivateOnlyIfActive'
    <2>0. c \notin Workers
        BY ResourceAssumption
    <2>1. CASE IsBackpressureActive(c)
        <3>1. backpressure_active_signals \in Nat
            BY ResourceAssumption DEF SignalInv, RMTypeOK
        <3> QED
            BY <2>0, <2>1, <3>1, SignalKept
            DEF IsBackpressureActive, Jump, CheckLabels
    <2>2. CASE CheckInFlight(c)
        <3>1. c \in PastGate
            BY <2>2 DEF CheckInFlight, Jump, PastGate, CheckLabels
        <3> QED
            BY <2>0, <2>2, <3>1, SignalKept DEF CheckInFlight, Jump
    <2>3. CASE CheckMemoryLoad(c)
        <3>1. c \in PastGate
            BY <2>3 DEF CheckMemoryLoad, EstimateLoad, PastGate, CheckLabels
        <3> QED
            BY <2>0, <2>3, <3>1, SignalKept DEF CheckMemoryLoad, EstimateLoad
    <2>4. CASE CheckMemoryStore(c)
        <3>1. c \in PastGate
            BY <2>4 DEF CheckMemoryStore, EstimateStore, PastGate, CheckLabels
        <3> QED
            BY <2>0, <2>4, <3>1, SignalKept DEF CheckMemoryStore, EstimateStore
    <2>5. CASE ActivateBackpressureSignal(c)
        <3>1. c \in PastGate /\ PastGate' = PastGate \ {c}
            BY <2>5, PastGateMove
            DEF ActivateBackpressureSignal, PastGate, CheckLabels, SignalInv
        <3>2. Cardinality(PastGate') = Cardinality(PastGate) - 1
            BY <3>1, FS_RemoveElement, PastGateFinite
        <3>3. Cardinality(PastGate') \in Nat
            BY <3>1, PastGateFinite, FS_RemoveElement, FS_CardinalityType
        <3>4. /\ backpressure_active_signals \in Nat
              /\ backpressure_active_signals + Cardinality(PastGate)
                    <= Cardinality(Clients)
            BY ResourceAssumption DEF SignalInv, RMTypeOK, SignalsBounded
        <3>5. backpressure_active_signals + 1 \in 0..UsizeMax
            BY <3>2, <3>3, <3>4, PastGateFinite, ResourceAssumption
        <3>6. backpressure_active_signals' = backpressure_active_signals + 1
            BY <2>5, <3>5, WrapFits DEF ActivateBackpressureSignal, FetchAdd
        <3>7. SignalsBounded'
            BY <3>2, <3>3, <3>4, <3>6, PastGateFinite DEF SignalsBounded
        <3>8. DeactivateOnlyIfActive'
            BY <3>4, <3>6 DEF DeactivateOnlyIfActive
        <3> QED
            BY <3>7, <3>8
    <2> QED
        BY <1>1, <2>1, <2>2, <2>3, <2>4, <2>5 DEF CheckStep
<1>2. ASSUME NEW c \in Clients, CallNextEvent(c) \/ ReturnNone(c) \/ ReturnSome(c)
      PROVE  SignalsBounded' /\ DeactivateOnlyIfActive'
    <2>0. c \notin Workers
        BY ResourceAssumption
    <2> QED
        BY <2>0, <1>2, SignalKept
        DEF CallNextEvent, ReturnNone, ReturnSome, Jump, CheckLabels
<1>3. ASSUME NEW w \in Workers,
             \/ TakeBatch(w) \/ CompleteProcessing(w)
             \/ \E n \in 1..MaxBatchSize : StartProcessing(w, n)
      PROVE  SignalsBounded' /\ DeactivateOnlyIfActive'
    BY <1>0, <1>3, SignalKept
    DEF TakeBatch, Jump, CompleteProcessing, StartProcessing
<1>4. ASSUME NEW w \in Workers, EaseStep(w)
      PROVE  SignalsBounded' /\ DeactivateOnlyIfActive'
    <2>1. CASE EaseLoad(w)
        BY <1>0, <2>1, SignalKept DEF EaseLoad
    <2>2. CASE EaseMemoryLoad(w)
        BY <1>0, <2>2, SignalKept DEF EaseMemoryLoad, EstimateLoad
    <2>3. CASE EaseMemoryStore(w)
        BY <1>0, <2>3, SignalKept DEF EaseMemoryStore, EstimateStore
    <2>4. CASE EaseIsActive(w)
        BY <1>0, <2>4, SignalKept DEF EaseIsActive, Jump
    <2>5. CASE DeactivateBackpressureSignal(w)
        <3>1. w = worker /\ w \notin Clients
            BY <1>0
        <3>2. PastGate' = PastGate
            BY <2>5, <3>1, PastGateMove
            DEF DeactivateBackpressureSignal, SignalInv
        <3>3. /\ backpressure_active_signals > 0
              /\ backpressure_active_signals \in 0..UsizeMax
            BY <2>5
            DEF DeactivateBackpressureSignal, SignalInv, RMTypeOK,
                DeactivateOnlyIfActive
        <3>4. backpressure_active_signals - 1 \in 0..UsizeMax
            BY <3>3, ResourceAssumption
        <3>5. backpressure_active_signals' = backpressure_active_signals - 1
            BY <2>5, <3>4, WrapFits DEF DeactivateBackpressureSignal, FetchSub
        <3>6. SignalsBounded'
            BY <3>2, <3>3, <3>5, PastGateFinite, ResourceAssumption
            DEF SignalsBounded, SignalInv
        <3>7. \A v \in Workers : pc'[v] # "deactivate"
            BY <2>5, <3>1
            DEF DeactivateBackpressureSignal, Goto, SignalInv, RMTypeOK
        <3> QED
            BY <3>6, <3>7 DEF DeactivateOnlyIfActive
    <2> QED
        BY <1>4, <2>1, <2>2, <2>3, <2>4, <2>5 DEF EaseStep
<1>5. CASE UNCHANGED rmVars
    BY <1>5
    DEF rmVars, SignalInv, SignalsBounded, PastGate, DeactivateOnlyIfActive
<1> QED
    BY <1>1, <1>2, <1>3, <1>4, <1>5 DEF RMNext, SignalInv

\* The invariant of the signals holds in every behaviour of one worker.
LEMMA SignalInvAlways ==
    ASSUME NEW worker, Workers = {worker}
    PROVE  RMSpec => []SignalInv
<1>1. RMInit => SignalsBounded /\ DeactivateOnlyIfActive
    <2> SUFFICES ASSUME RMInit PROVE SignalsBounded /\ DeactivateOnlyIfActive
        OBVIOUS
    <2>1. PastGate = {}
        BY DEF RMInit, StartLabels, PastGate, CheckLabels, Tasks
    <2>2. Cardinality(PastGate) = 0
        BY <2>1, FS_EmptySet
    <2>3. DeactivateOnlyIfActive
        BY ResourceAssumption
        DEF RMInit, StartLabels, DeactivateOnlyIfActive, Tasks
    <2> QED
        BY <2>2, <2>3, PastGateFinite DEF RMInit, SignalsBounded
<1>2. SignalInv /\ RMTypeOK' /\ [RMNext]_rmVars
         => SignalsBounded' /\ DeactivateOnlyIfActive'
    BY SignalInvStep DEF SignalInv
<1> QED
    BY <1>1, <1>2, RMTypeOKAlways, PTL DEF RMSpec, SignalInv

\* With one worker, whatever the number of clients, the signal count never
\* exceeds the number of clients, so fetch_add never wraps
\* (resource_manager.rs:146-164).
THEOREM SignalsBoundedForOneWorker ==
    ASSUME NEW worker, Workers = {worker}
    PROVE  RMSpec => []SignalsBounded
<1>1. SignalInv => SignalsBounded
    BY DEF SignalInv
<1> QED
    BY <1>1, SignalInvAlways, PTL

\* With one worker complete_processing lowers the signal count only when it is
\* positive, whatever the clients do meanwhile (resource_manager.rs:121-124).
THEOREM DeactivateSoundForOneWorker ==
    ASSUME NEW worker, Workers = {worker}
    PROVE  RMSpec => []DeactivateOnlyIfActive
<1>1. SignalInv => DeactivateOnlyIfActive
    BY DEF SignalInv
<1> QED
    BY <1>1, SignalInvAlways, PTL
=============================================================================
