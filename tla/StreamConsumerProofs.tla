------------------------- MODULE StreamConsumerProofs -------------------------
(***************************************************************************)
(* Proofs about StreamConsumer, for any log, any number of records and any *)
(* number of failures and crashes: its types, that no signature is         *)
(* returned twice by one process however many clients call next_event, and *)
(* for one client that commits never move back, pass nothing unsettled,    *)
(* and that only a restart at the end of the topic misses a record.        *)
(***************************************************************************)
EXTENDS StreamConsumer, ResourceManagerProofs, EventOrderProofs

-----------------------------------------------------------------------------
(* Types.                                                                  *)

HoldingLabels == {"parse", "skip", "filter", "app"}

\* The broker, the consumer and the histories.  Pipeline shares this part.
RecordsOK ==
    /\ deployment \in Deployments /\ kafka_log \in [Offsets -> Records]
    /\ high_watermark \in 0..LogLength
    /\ committed \in 0..(LogLength + 1)
    /\ commit_queue \in Seq(2..(LogLength + 1))
    /\ position \in 1..(LogLength + 1)
    /\ holding \in [Clients -> 0..LogLength]
    /\ \A c \in Clients : holding[c] # 0 <=> pc[c] \in HoldingLabels
    /\ seen_signatures \subseteq Sigs
    /\ Cardinality(seen_signatures) <= DedupCapacity
    /\ active_filter \in OptionalFilters
    /\ filter_request \in OptionalFilters
    /\ returned \in Seq(Offsets)
    /\ settled \subseteq Offsets
    /\ recv_errors \in 0..MaxRecvErrors
    /\ commit_errors \in 0..MaxCommitErrors
    /\ crashes \in 0..MaxCrashes

\* Where the tasks are.
ClientsOK ==
    /\ AtomicsOK
    /\ pc \in [Tasks -> ConsumerLabels \cup WorkerLabels]
    /\ \A c \in Clients : pc[c] \in ConsumerLabels

SCInv == RecordsOK /\ ClientsOK

\* A client at one of these labels has a record of the log in hand.
LEMMA InHandIsRecord ==
    ASSUME RecordsOK, NEW c \in Clients, pc[c] \in HoldingLabels
    PROVE  /\ holding[c] \in Offsets /\ holding[c] # 0
           /\ kafka_log[holding[c]] \in Records
           /\ kafka_log[holding[c]].kind = "event" => Signature(holding[c]) \in Sigs
<1>1. holding[c] \in Offsets /\ holding[c] # 0
    BY ConsumerAssumption DEF RecordsOK, Offsets
<1>2. kafka_log[holding[c]] \in Records
    BY <1>1 DEF RecordsOK
<1> QED
    BY <1>1, <1>2 DEF Records, Signature

\* The cache stays within its capacity, and is cleared only when full.
LEMMA RememberBound ==
    ASSUME RecordsOK, NEW sig \in Sigs, Remember(sig)
    PROVE  /\ seen_signatures' \subseteq Sigs
           /\ Cardinality(seen_signatures') <= DedupCapacity
           /\ sig \in seen_signatures'
           /\ Cardinality(Sigs) <= DedupCapacity
                 => seen_signatures' = seen_signatures \cup {sig}
<1> DEFINE cache == seen_signatures \cup {sig}
<1>1. cache \subseteq Sigs
    BY DEF RecordsOK
<1>2. /\ IsFiniteSet(cache) /\ Cardinality(cache) \in Nat
      /\ Cardinality(Sigs) \in Nat /\ Cardinality(cache) <= Cardinality(Sigs)
    BY <1>1, ConsumerAssumption, FS_Subset, FS_CardinalityType
<1>3. Cardinality({sig}) = 1
    BY FS_Singleton
<1>4. seen_signatures' = IF Cardinality(cache) > DedupCapacity THEN {sig} ELSE cache
    BY DEF Remember
<1> HIDE DEF cache
<1>5. CASE Cardinality(cache) > DedupCapacity
    BY <1>2, <1>3, <1>4, <1>5, ConsumerAssumption
<1>6. CASE ~(Cardinality(cache) > DedupCapacity)
    BY <1>1, <1>2, <1>4, <1>6, ConsumerAssumption DEF cache
<1> QED
    BY <1>5, <1>6

\* A client moves between labels without a record.
LEMMA ClientMoves ==
    ASSUME RecordsOK, NEW L, pc \in [Tasks -> L], NEW c \in Clients,
           NEW label, pc' = [pc EXCEPT ![c] = label],
           pc[c] \notin HoldingLabels, label \notin HoldingLabels,
           UNCHANGED scVars
    PROVE  RecordsOK'
<1>1. \A d \in Clients : pc'[d] = IF d = c THEN label ELSE pc[d]
    BY DEF Tasks
<1> QED
    BY <1>1 DEF RecordsOK, scVars, brokerVars, givenVars, filterVars, faultVars

\* Kafka's steps and set_filter's.
LEMMA OutsideTypes ==
    ASSUME RecordsOK, UNCHANGED pc,
           Produce \/ BrokerCommit \/ RequestFilter \/ SetFilter
    PROVE  RecordsOK'
<1> USE DEF brokerVars, givenVars, filterVars, faultVars
<1>1. CASE Produce
    <2>1. high_watermark' \in 0..LogLength
        BY <1>1, ConsumerAssumption DEF Produce, RecordsOK
    <2> QED
        BY <1>1, <2>1 DEF Produce, RecordsOK
<1>2. CASE BrokerCommit
    <2>1. /\ Head(commit_queue) \in 2..(LogLength + 1)
          /\ Tail(commit_queue) \in Seq(2..(LogLength + 1))
        BY <1>2, TakenQueue DEF BrokerCommit, RecordsOK
    <2>2. committed' \in 0..(LogLength + 1)
        BY <1>2, <2>1, ConsumerAssumption DEF BrokerCommit
    <2> QED
        BY <1>2, <2>1, <2>2 DEF BrokerCommit, RecordsOK
<1>3. CASE RequestFilter
    BY <1>3 DEF RequestFilter, RecordsOK
<1>4. CASE SetFilter
    BY <1>4 DEF SetFilter, RecordsOK, OptionalFilters
<1> QED
    BY <1>1, <1>2, <1>3, <1>4

\* The steps of next_event from recv() on.
LEMMA ConsumeTypes ==
    ASSUME RecordsOK, NEW L, pc \in [Tasks -> L], NEW c \in Clients, ConsumeStep(c)
    PROVE  RecordsOK'
<1> USE DEF brokerVars, givenVars, filterVars, faultVars
<1>t. c \in Tasks /\ Clients \subseteq Tasks
    BY DEF Tasks
<1>move. ASSUME NEW label, pc' = [pc EXCEPT ![c] = label]
         PROVE  \A d \in Clients : pc'[d] = IF d = c THEN label ELSE pc[d]
    BY <1>t, <1>move
<1>hold. ASSUME NEW o \in 0..LogLength, holding' = [holding EXCEPT ![c] = o],
                NEW label, pc' = [pc EXCEPT ![c] = label],
                o # 0 <=> label \in HoldingLabels
         PROVE  /\ holding' \in [Clients -> 0..LogLength]
                /\ \A d \in Clients : holding'[d] # 0 <=> pc'[d] \in HoldingLabels
    <2>1. /\ holding \in [Clients -> 0..LogLength]
          /\ \A d \in Clients : holding[d] # 0 <=> pc[d] \in HoldingLabels
        BY DEF RecordsOK
    <2>2. /\ holding' \in [Clients -> 0..LogLength]
          /\ \A d \in Clients : holding'[d] = IF d = c THEN o ELSE holding[d]
        BY <1>hold, <2>1
    <2>3. \A d \in Clients : pc'[d] = IF d = c THEN label ELSE pc[d]
        BY <1>hold, <1>move
    <2> QED
        BY <1>hold, <2>1, <2>2, <2>3
<1>commit. ASSUME NEW o \in Offsets, CommitKafkaOffset(o)
           PROVE  /\ commit_queue' \in Seq(2..(LogLength + 1))
                  /\ settled' \subseteq Offsets
    <2>1. o + 1 \in 2..(LogLength + 1)
        BY ConsumerAssumption DEF Offsets
    <2> QED
        BY <1>commit, <2>1, AppendedQueue DEF CommitKafkaOffset, RecordsOK
<1>zero. 0 \in 0..LogLength
    BY ConsumerAssumption
<1>1. CASE Recv(c)
    <2>1. /\ pc[c] = "recv" /\ pc' = [pc EXCEPT ![c] = "parse"]
          /\ holding' = [holding EXCEPT ![c] = position]
          /\ position' = position + 1 /\ position <= high_watermark
          /\ UNCHANGED <<deployment, kafka_log, high_watermark, committed,
                         commit_queue, seen_signatures, active_filter,
                         filter_request, returned, settled, recv_errors,
                         commit_errors, crashes>>
        BY <1>1 DEF Recv, Jump, Goto
    <2>2. position \in 0..LogLength /\ position # 0 /\ position' \in 1..(LogLength + 1)
        BY <2>1, ConsumerAssumption DEF RecordsOK
    <2>3. "parse" \in HoldingLabels
        BY DEF HoldingLabels
    <2>4. /\ holding' \in [Clients -> 0..LogLength]
          /\ \A d \in Clients : holding'[d] # 0 <=> pc'[d] \in HoldingLabels
        BY <2>1, <2>2, <2>3, <1>hold
    <2> QED
        BY <2>1, <2>2, <2>4 DEF RecordsOK
<1>2. CASE RecvErr(c)
    <2>1. /\ pc[c] = "recv" /\ pc' = [pc EXCEPT ![c] = "failed"]
          /\ recv_errors' = recv_errors + 1 /\ recv_errors < MaxRecvErrors
          /\ UNCHANGED <<deployment, kafka_log, high_watermark, committed,
                         commit_queue, position, holding, seen_signatures,
                         active_filter, filter_request, returned, settled,
                         commit_errors, crashes>>
        BY <1>2 DEF RecvErr, Jump, Goto
    <2>2. recv_errors' \in 0..MaxRecvErrors
        BY <2>1, ConsumerAssumption DEF RecordsOK
    <2> QED
        BY <2>1, <2>2, <1>move DEF RecordsOK, HoldingLabels
<1>3. CASE InternalProcess(c)
    <2>1. PICK label \in {"filter", "skip"} :
             pc' = [pc EXCEPT ![c] = label] /\ pc[c] = "parse"
        BY <1>3 DEF InternalProcess, Jump, Goto
    <2>2. /\ seen_signatures' \subseteq Sigs
          /\ Cardinality(seen_signatures') <= DedupCapacity
        BY <1>3, InHandIsRecord, RememberBound
        DEF InternalProcess, Jump, HoldingLabels, RecordsOK, Signature
    <2>3. UNCHANGED <<deployment, kafka_log, high_watermark, committed,
                      commit_queue, position, holding, active_filter,
                      filter_request, returned, settled, recv_errors,
                      commit_errors, crashes>>
        BY <1>3 DEF InternalProcess
    <2> QED
        BY <2>1, <2>2, <2>3, <1>move DEF RecordsOK, HoldingLabels
<1>4. CASE CommitSkipped(c)
    <2>1. /\ pc[c] \in {"skip", "filter"} /\ pc' = [pc EXCEPT ![c] = "gate"]
          /\ CommitKafkaOffset(holding[c])
          /\ holding' = [holding EXCEPT ![c] = 0]
          /\ UNCHANGED <<deployment, kafka_log, high_watermark, committed,
                         position, seen_signatures, active_filter,
                         filter_request, returned, recv_errors, commit_errors,
                         crashes>>
        BY <1>4 DEF CommitSkipped, Jump, Goto
    <2>2. holding[c] \in Offsets
        BY <2>1, InHandIsRecord DEF HoldingLabels
    <2>3. "gate" \notin HoldingLabels
        BY DEF HoldingLabels
    <2>4. /\ holding' \in [Clients -> 0..LogLength]
          /\ \A d \in Clients : holding'[d] # 0 <=> pc'[d] \in HoldingLabels
        BY <2>1, <2>3, <1>hold, <1>zero
    <2> QED
        BY <2>1, <2>2, <2>4, <1>commit DEF RecordsOK
<1>5. CASE CommitAndReturn(c)
    <2>1. /\ pc[c] = "filter" /\ pc' = [pc EXCEPT ![c] = "app"]
          /\ CommitKafkaOffset(holding[c])
          /\ returned' = Append(returned, holding[c])
          /\ UNCHANGED <<deployment, kafka_log, high_watermark, committed,
                         position, holding, seen_signatures, active_filter,
                         filter_request, recv_errors, commit_errors, crashes>>
        BY <1>5 DEF CommitAndReturn, Jump, Goto
    <2>2. holding[c] \in Offsets
        BY <2>1, InHandIsRecord DEF HoldingLabels
    <2>3. returned' \in Seq(Offsets)
        BY <2>1, <2>2, AppendedQueue DEF RecordsOK
    <2> QED
        BY <2>1, <2>2, <2>3, <1>move, <1>commit DEF RecordsOK, HoldingLabels
<1>6. CASE CommitErr(c)
    <2>1. /\ pc[c] \in {"skip", "filter"} /\ pc' = [pc EXCEPT ![c] = "failed"]
          /\ commit_errors' = commit_errors + 1 /\ commit_errors < MaxCommitErrors
          /\ holding' = [holding EXCEPT ![c] = 0]
          /\ UNCHANGED <<deployment, kafka_log, high_watermark, committed,
                         commit_queue, position, seen_signatures, active_filter,
                         filter_request, returned, settled, recv_errors,
                         crashes>>
        BY <1>6 DEF CommitErr, Jump, Goto
    <2>2. commit_errors' \in 0..MaxCommitErrors
        BY <2>1, ConsumerAssumption DEF RecordsOK
    <2>3. "failed" \notin HoldingLabels
        BY DEF HoldingLabels
    <2>4. /\ holding' \in [Clients -> 0..LogLength]
          /\ \A d \in Clients : holding'[d] # 0 <=> pc'[d] \in HoldingLabels
        BY <2>1, <2>3, <1>hold, <1>zero
    <2> QED
        BY <2>1, <2>2, <2>4 DEF RecordsOK
<1> QED
    BY <1>1, <1>2, <1>3, <1>4, <1>5, <1>6 DEF ConsumeStep

\* The caller is done with its record.
LEMMA ClientReleases ==
    ASSUME RecordsOK, NEW L, pc \in [Tasks -> L], NEW c \in Clients,
           NEW label, label \notin HoldingLabels, pc' = [pc EXCEPT ![c] = label],
           holding' = [holding EXCEPT ![c] = 0],
           UNCHANGED <<brokerVars, commit_queue, position, seen_signatures,
                       filterVars, returned, settled, faultVars>>
    PROVE  RecordsOK'
<1>1. /\ holding \in [Clients -> 0..LogLength] /\ 0 \in 0..LogLength
      /\ \A d \in Clients : holding[d] # 0 <=> pc[d] \in HoldingLabels
    BY ConsumerAssumption DEF RecordsOK
<1>2. \A d \in Clients : pc'[d] = IF d = c THEN label ELSE pc[d]
    BY DEF Tasks
<1>3. /\ holding' \in [Clients -> 0..LogLength]
      /\ \A d \in Clients : holding'[d] # 0 <=> pc'[d] \in HoldingLabels
    BY <1>1, <1>2
<1> QED
    BY <1>3 DEF RecordsOK, brokerVars, givenVars, filterVars, faultVars

\* A restart finds the broker as it was and everything else empty.
LEMMA CrashTypes ==
    ASSUME RecordsOK, Crash
    PROVE  RecordsOK' /\ ClientsOK'
<1>1. \A t \in Tasks : StartLabels[t] \in {"out", "idle"}
    BY DEF StartLabels
<1>2. ClientsOK'
    <2>1. pc' \in [Tasks -> ConsumerLabels \cup WorkerLabels]
        BY DEF Crash, StartLabels, ConsumerLabels, ClientLabels, WorkerLabels
    <2>2. \A c \in Clients : pc'[c] \in ConsumerLabels
        BY DEF Crash, StartLabels, ConsumerLabels, ClientLabels, Tasks
    <2>3. AtomicsOK'
        BY ResourceAssumption DEF Crash, AtomicsOK, NoLocals
    <2> QED
        BY <2>1, <2>2, <2>3 DEF ClientsOK
<1>3. /\ committed' \in 0..(LogLength + 1) /\ position' \in 1..(LogLength + 1)
    BY ConsumerAssumption DEF Crash, RecordsOK
<1>4. \A c \in Clients : holding'[c] = 0 /\ pc'[c] \notin HoldingLabels
    BY DEF Crash, StartLabels, HoldingLabels, Tasks
<1>5. crashes' \in 0..MaxCrashes
    BY ConsumerAssumption DEF Crash, RecordsOK
<1>6. /\ seen_signatures' \subseteq Sigs
      /\ Cardinality(seen_signatures') <= DedupCapacity
    BY FS_EmptySet, ConsumerAssumption DEF Crash
<1>7. /\ commit_queue' \in Seq(2..(LogLength + 1)) /\ returned' \in Seq(Offsets)
      /\ holding' \in [Clients -> 0..LogLength]
    BY ConsumerAssumption DEF Crash
<1>8. RecordsOK'
    BY <1>3, <1>4, <1>5, <1>6, <1>7
    DEF Crash, RecordsOK, givenVars, OptionalFilters
<1> QED
    BY <1>2, <1>8

LEMMA SCInvInit == SCInit => SCInv
<1> SUFFICES ASSUME SCInit PROVE SCInv
    OBVIOUS
<1>1. CountInv
    BY CountInvInit DEF SCInit
<1>2. ClientsOK
    BY <1>1 DEF ClientsOK, CountInv, RMTypeOK, AtomicsOK, ConsumerLabels
<1>3. \A c \in Clients : holding[c] = 0 /\ pc[c] \notin HoldingLabels
    BY DEF SCInit, RMInit, StartLabels, HoldingLabels, Tasks
<1>4. /\ Cardinality(seen_signatures) <= DedupCapacity
      /\ commit_queue \in Seq(2..(LogLength + 1)) /\ returned \in Seq(Offsets)
      /\ holding \in [Clients -> 0..LogLength]
    BY FS_EmptySet, ConsumerAssumption DEF SCInit
<1>5. RecordsOK
    BY <1>3, <1>4, ConsumerAssumption DEF SCInit, RecordsOK, OptionalFilters
<1> QED
    BY <1>2, <1>5 DEF SCInv

\* What a step of a client does to the labels.
LEMMA ConsumeLabels ==
    ASSUME NEW c \in Clients, ConsumeStep(c)
    PROVE  /\ UNCHANGED <<messages_in_flight, current_memory_estimate_bytes,
                          backpressure_active_signals, local, batch_len>>
           /\ pc[c] \in {"recv", "parse", "skip", "filter"}
           /\ \E label \in HoldingLabels \cup {"gate", "failed"} :
                 pc' = [pc EXCEPT ![c] = label]
BY DEF ConsumeStep, Recv, RecvErr, InternalProcess, CommitSkipped,
       CommitAndReturn, CommitErr, Jump, Goto, HoldingLabels

\* Every step of the consumer, of Kafka and of the callers, a restart included,
\* preserves the types.
LEMMA SCInvStep ==
    ASSUME SCInv, [SCNext]_scAllVars
    PROVE  SCInv'
<1>t. /\ RecordsOK /\ ClientsOK /\ AtomicsOK
      /\ pc \in [Tasks -> ConsumerLabels \cup WorkerLabels]
      /\ \A c \in Clients : pc[c] \in ConsumerLabels
    BY DEF SCInv, ClientsOK
<1>move. ASSUME NEW c \in Clients, NEW label \in ConsumerLabels, AtomicsOK',
                pc' = [pc EXCEPT ![c] = label]
         PROVE  ClientsOK'
    BY <1>t, <1>move DEF ClientsOK, Tasks
<1>1. ASSUME Produce \/ BrokerCommit \/ RequestFilter \/ SetFilter, UNCHANGED rmVars
      PROVE  SCInv'
    <2>1. RecordsOK'
        BY <1>t, <1>1, OutsideTypes DEF rmVars
    <2>2. ClientsOK'
        BY <1>t, <1>1 DEF ClientsOK, AtomicsOK, rmVars
    <2> QED
        BY <2>1, <2>2 DEF SCInv
<1>2. ASSUME NEW c \in Clients, ClientStep(c)
      PROVE  SCInv'
    <2>1. CASE EnterNextEvent(c)
        <3>1. /\ pc[c] = "out" /\ pc' = [pc EXCEPT ![c] = "gate"]
              /\ AtomicsOK' /\ UNCHANGED scVars
            BY <1>t, <2>1
            DEF EnterNextEvent, CallNextEvent, Jump, Goto, AtomicsOK
        <3>2. RecordsOK'
            BY <1>t, <3>1, ClientMoves DEF HoldingLabels
        <3> QED
            BY <3>1, <3>2, <1>move DEF SCInv, ConsumerLabels, ClientLabels
    <2>2. CASE ResourceCheck(c)
        <3>1. /\ AtomicsOK' /\ UNCHANGED scVars
              /\ pc[c] \in CheckLabels \cup {"gate"}
            BY <1>t, <2>2, CheckStepFrame DEF ResourceCheck
        <3>2. PICK label \in CheckLabels \cup {"delay", "recv"} :
                 pc' = [pc EXCEPT ![c] = label]
            BY <1>t, <2>2, CheckStepFrame DEF ResourceCheck
        <3>3. RecordsOK'
            BY <1>t, <3>1, <3>2, ClientMoves DEF HoldingLabels, CheckLabels
        <3>4. ClientsOK'
            BY <3>1, <3>2, <1>move DEF ConsumerLabels, ClientLabels, CheckLabels
        <3> QED
            BY <3>3, <3>4 DEF SCInv
    <2>3. CASE ConsumeStep(c)
        <3>1. AtomicsOK'
            BY <1>t, <2>3, ConsumeLabels DEF AtomicsOK
        <3>2. PICK label \in HoldingLabels \cup {"gate", "failed"} :
                 pc' = [pc EXCEPT ![c] = label]
            BY <2>3, ConsumeLabels
        <3>3. RecordsOK'
            BY <1>t, <2>3, ConsumeTypes
        <3>4. ClientsOK'
            BY <3>1, <3>2, <1>move DEF ConsumerLabels, ClientLabels, HoldingLabels
        <3> QED
            BY <3>3, <3>4 DEF SCInv
    <2>4. CASE AppHandle(c)
        <3>1. /\ pc[c] = "app" /\ pc' = [pc EXCEPT ![c] = "out"] /\ AtomicsOK'
              /\ holding' = [holding EXCEPT ![c] = 0]
              /\ UNCHANGED <<brokerVars, commit_queue, position, seen_signatures,
                             filterVars, returned, settled, faultVars>>
            BY <1>t, <2>4 DEF AppHandle, Jump, Goto, AtomicsOK
        <3>2. RecordsOK'
            BY <1>t, <3>1, ClientReleases DEF HoldingLabels
        <3> QED
            BY <3>1, <3>2, <1>move DEF SCInv, ConsumerLabels, ClientLabels
    <2>5. CASE AppRetry(c)
        <3>1. /\ pc[c] = "failed" /\ pc' = [pc EXCEPT ![c] = "out"]
              /\ AtomicsOK' /\ UNCHANGED scVars
            BY <1>t, <2>5 DEF AppRetry, Jump, Goto, AtomicsOK
        <3>2. RecordsOK'
            BY <1>t, <3>1, ClientMoves DEF HoldingLabels
        <3> QED
            BY <3>1, <3>2, <1>move DEF SCInv, ConsumerLabels, ClientLabels
    <2> QED
        BY <1>2, <2>1, <2>2, <2>3, <2>4, <2>5 DEF ClientStep
<1>3. CASE Crash
    BY <1>t, <1>3, CrashTypes DEF SCInv
<1>4. CASE UNCHANGED scAllVars
    BY <1>t, <1>4
    DEF SCInv, RecordsOK, ClientsOK, AtomicsOK, scAllVars, scVars, rmVars,
        brokerVars, givenVars, filterVars, faultVars
<1> QED
    BY <1>1, <1>2, <1>3, <1>4 DEF SCNext

LEMMA SCInvAlways == SCSpec => []SCInv
<1>1. SCInit => SCInv
    BY SCInvInit
<1>2. SCInv /\ [SCNext]_scAllVars => SCInv'
    BY SCInvStep
<1> QED
    BY <1>1, <1>2, PTL DEF SCSpec

\* For any log, any number of clients and any faults: a client holds a record
\* exactly while it works on it, positions and offsets stay within the log, and
\* the dedup cache within its capacity (consumer.rs:86-158, 194-216).
THEOREM SCTypeOKAlways == SCSpec => []SCTypeOK
<1>1. SCInv => SCTypeOK
    BY DEF SCInv, RecordsOK, ClientsOK, SCTypeOK, HoldingLabels
<1> QED
    BY <1>1, SCInvAlways, PTL

-----------------------------------------------------------------------------
(* Duplicates, for any number of clients.                                  *)

\* A client at the filter has stored its signature, which nobody else holds
\* or has returned.
DedupInv ==
    /\ \A i \in DOMAIN returned : Signature(returned[i]) \in seen_signatures
    /\ \A i, j \in DOMAIN returned :
          Signature(returned[i]) = Signature(returned[j]) => i = j
    /\ \A c \in Clients : pc[c] = "filter" =>
          /\ Signature(holding[c]) \in seen_signatures
          /\ \A i \in DOMAIN returned :
                Signature(returned[i]) # Signature(holding[c])
          /\ \A d \in Clients \ {c} : pc[d] = "filter" =>
                Signature(holding[d]) # Signature(holding[c])

\* A step that brings no client to the filter and returns nothing.
LEMMA DedupKept ==
    ASSUME DedupInv, UNCHANGED <<kafka_log, returned, seen_signatures>>,
           \A c \in Clients : pc'[c] = "filter" =>
                pc[c] = "filter" /\ holding'[c] = holding[c]
    PROVE  DedupInv'
<1>1. \A o : Signature(o)' = Signature(o)
    BY DEF Signature
<1>2. /\ \A i \in DOMAIN returned' : Signature(returned'[i]) \in seen_signatures'
      /\ \A i, j \in DOMAIN returned' :
            Signature(returned'[i]) = Signature(returned'[j]) => i = j
    BY DEF DedupInv
<1>3. ASSUME NEW c \in Clients, pc'[c] = "filter"
      PROVE  /\ Signature(holding'[c]) \in seen_signatures'
             /\ \A i \in DOMAIN returned' :
                   Signature(returned'[i]) # Signature(holding'[c])
             /\ \A d \in Clients \ {c} : pc'[d] = "filter" =>
                   Signature(holding'[d]) # Signature(holding'[c])
    BY <1>3 DEF DedupInv
<1> QED
    BY <1>2, <1>3 DEF DedupInv, Signature

\* The cache is consulted and filled in one step, under its lock: two clients
\* with copies of one event cannot both pass, whatever happens in between.
LEMMA ConsumeDedup ==
    ASSUME Cardinality(Sigs) <= DedupCapacity, RecordsOK, DedupInv,
           NEW L, pc \in [Tasks -> L], NEW c \in Clients, ConsumeStep(c)
    PROVE  DedupInv'
<1>c. c \in Tasks /\ Clients \subseteq Tasks
    BY DEF Tasks
<1>h. holding \in [Clients -> 0..LogLength]
    BY DEF RecordsOK
<1>1. CASE Recv(c)
    <2>1. /\ pc' = [pc EXCEPT ![c] = "parse"]
          /\ holding' = [holding EXCEPT ![c] = position]
          /\ UNCHANGED <<kafka_log, returned, seen_signatures>>
        BY <1>1 DEF Recv, Jump, Goto, brokerVars, givenVars
    <2>2. \A d \in Clients : pc'[d] = "filter" =>
             pc[d] = "filter" /\ holding'[d] = holding[d]
        BY <1>c, <1>h, <2>1
    <2> QED
        BY <2>1, <2>2, DedupKept
<1>2. CASE RecvErr(c)
    <2>1. /\ pc' = [pc EXCEPT ![c] = "failed"]
          /\ UNCHANGED <<kafka_log, returned, seen_signatures, holding>>
        BY <1>2 DEF RecvErr, Jump, Goto, brokerVars, givenVars
    <2>2. \A d \in Clients : pc'[d] = "filter" =>
             pc[d] = "filter" /\ holding'[d] = holding[d]
        BY <1>c, <2>1
    <2> QED
        BY <2>1, <2>2, DedupKept
<1>3. CASE InternalProcess(c)
    <2>1. CASE pc' = [pc EXCEPT ![c] = "skip"]
        <3>1. UNCHANGED <<kafka_log, returned, seen_signatures, holding>>
            BY <1>3, <1>c, <2>1
            DEF InternalProcess, Jump, Goto, brokerVars, givenVars
        <3>2. \A d \in Clients : pc'[d] = "filter" =>
                 pc[d] = "filter" /\ holding'[d] = holding[d]
            BY <1>c, <2>1, <3>1
        <3> QED
            BY <3>1, <3>2, DedupKept
    <2>2. CASE pc' = [pc EXCEPT ![c] = "filter"]
        <3> DEFINE sig == Signature(holding[c])
        <3>1. /\ pc[c] = "parse" /\ sig \notin seen_signatures /\ Remember(sig)
              /\ kafka_log[holding[c]].kind = "event"
              /\ UNCHANGED <<kafka_log, returned, holding>>
            BY <1>3, <1>c, <2>2
            DEF InternalProcess, Jump, Goto, brokerVars, givenVars, Signature
        <3>2. sig \in Sigs
            BY <3>1, InHandIsRecord DEF HoldingLabels
        <3>3. seen_signatures' = seen_signatures \cup {sig}
            BY <3>1, <3>2, RememberBound
        <3>4. \A o : Signature(o)' = Signature(o)
            BY <3>1 DEF Signature
        <3>5. \A d \in Clients \ {c} : pc'[d] = pc[d]
            BY <1>c, <2>2
        <3>6. /\ \A i \in DOMAIN returned : Signature(returned[i]) # sig
              /\ \A d \in Clients : pc[d] = "filter" => Signature(holding[d]) # sig
            BY <3>1 DEF DedupInv
        <3>7. /\ \A i \in DOMAIN returned' :
                    Signature(returned'[i]) \in seen_signatures'
              /\ \A i, j \in DOMAIN returned' :
                    Signature(returned'[i]) = Signature(returned'[j]) => i = j
            BY <3>1, <3>3 DEF DedupInv
        <3>8. ASSUME NEW d \in Clients, pc'[d] = "filter"
              PROVE  /\ Signature(holding'[d]) \in seen_signatures'
                     /\ \A i \in DOMAIN returned' :
                           Signature(returned'[i]) # Signature(holding'[d])
                     /\ \A e \in Clients \ {d} : pc'[e] = "filter" =>
                           Signature(holding'[e]) # Signature(holding'[d])
            <4>1. CASE d = c
                BY <3>1, <3>3, <3>5, <3>6, <4>1
            <4>2. CASE d # c
                BY <3>1, <3>3, <3>5, <3>6, <3>8, <4>2 DEF DedupInv
            <4> QED
                BY <4>1, <4>2
        <3> QED
            BY <3>1, <3>7, <3>8 DEF DedupInv, Signature
    <2> QED
        BY <1>3, <2>1, <2>2 DEF InternalProcess, Jump, Goto
<1>4. CASE CommitSkipped(c) \/ CommitErr(c)
    <2>1. /\ \/ pc' = [pc EXCEPT ![c] = "gate"]
             \/ pc' = [pc EXCEPT ![c] = "failed"]
          /\ holding' = [holding EXCEPT ![c] = 0]
          /\ UNCHANGED <<kafka_log, returned, seen_signatures>>
        BY <1>4 DEF CommitSkipped, CommitErr, Jump, Goto, brokerVars, givenVars
    <2>2. \A d \in Clients : pc'[d] = "filter" =>
             pc[d] = "filter" /\ holding'[d] = holding[d]
        BY <1>c, <1>h, <2>1
    <2> QED
        BY <2>1, <2>2, DedupKept
<1>5. CASE CommitAndReturn(c)
    <2> DEFINE o == holding[c]
    <2>1. /\ pc[c] = "filter" /\ pc' = [pc EXCEPT ![c] = "app"]
          /\ returned' = Append(returned, o)
          /\ UNCHANGED <<kafka_log, holding, seen_signatures>>
        BY <1>5 DEF CommitAndReturn, Jump, Goto, brokerVars, givenVars
    <2>2. /\ o \in Offsets /\ returned \in Seq(Offsets)
        BY <2>1, InHandIsRecord DEF HoldingLabels, RecordsOK
    <2>3. /\ \A i \in DOMAIN returned : returned'[i] = returned[i]
          /\ returned'[Len(returned) + 1] = o
          /\ DOMAIN returned' = 1..(Len(returned) + 1)
          /\ DOMAIN returned = 1..Len(returned) /\ Len(returned) \in Nat
        BY <2>1, <2>2, AppendedQueue
    <2>4. \A i \in DOMAIN returned' :
             i \in DOMAIN returned \/ i = Len(returned) + 1
        BY <2>3
    <2>5. /\ Signature(o) \in seen_signatures
          /\ \A i \in DOMAIN returned : Signature(returned[i]) # Signature(o)
          /\ \A d \in Clients \ {c} : pc[d] = "filter" =>
                Signature(holding[d]) # Signature(o)
        BY <2>1 DEF DedupInv
    <2>6. \A i \in DOMAIN returned' : Signature(returned'[i]) \in seen_signatures'
        BY <2>1, <2>3, <2>4, <2>5 DEF DedupInv
    <2>7. ASSUME NEW i \in DOMAIN returned', NEW j \in DOMAIN returned',
                 Signature(returned'[i]) = Signature(returned'[j])
          PROVE  i = j
        <3>1. CASE i \in DOMAIN returned /\ j \in DOMAIN returned
            BY <2>3, <2>7, <3>1 DEF DedupInv
        <3>2. CASE i \in DOMAIN returned /\ j = Len(returned) + 1
            BY <2>3, <2>5, <2>7, <3>2
        <3>3. CASE i = Len(returned) + 1 /\ j \in DOMAIN returned
            BY <2>3, <2>5, <2>7, <3>3
        <3> QED
            BY <2>4, <3>1, <3>2, <3>3
    <2>8. ASSUME NEW d \in Clients, pc'[d] = "filter"
          PROVE  /\ Signature(holding'[d]) \in seen_signatures'
                 /\ \A i \in DOMAIN returned' :
                       Signature(returned'[i]) # Signature(holding'[d])
                 /\ \A e \in Clients \ {d} : pc'[e] = "filter" =>
                       Signature(holding'[e]) # Signature(holding'[d])
        <3>1. d # c /\ pc[d] = "filter" /\ \A e \in Clients \ {c} : pc'[e] = pc[e]
            BY <1>c, <2>1, <2>8
        <3>2. pc'[c] # "filter"
            BY <1>c, <2>1
        <3> QED
            BY <2>1, <2>3, <2>4, <2>5, <3>1, <3>2 DEF DedupInv
    <2> QED
        BY <2>1, <2>6, <2>7, <2>8 DEF DedupInv, Signature
<1> QED
    BY <1>1, <1>2, <1>3, <1>4, <1>5 DEF ConsumeStep

\* The same for every step of the component; a restart forgets it all.
LEMMA DedupStep ==
    ASSUME Cardinality(Sigs) <= DedupCapacity, SCInv, DedupInv, [SCNext]_scAllVars
    PROVE  DedupInv'
<1>t. RecordsOK /\ AtomicsOK /\ pc \in [Tasks -> ConsumerLabels \cup WorkerLabels]
    BY DEF SCInv, ClientsOK
<1>c. Clients \subseteq Tasks /\ holding \in [Clients -> 0..LogLength]
    BY <1>t DEF Tasks, RecordsOK
<1>move. ASSUME NEW c \in Clients, NEW label, label # "filter",
                pc' = [pc EXCEPT ![c] = label],
                UNCHANGED <<kafka_log, returned, seen_signatures>>,
                \A d \in Clients \ {c} : holding'[d] = holding[d]
         PROVE  DedupInv'
    <2>1. \A d \in Clients : pc'[d] = "filter" =>
             pc[d] = "filter" /\ holding'[d] = holding[d]
        BY <1>t, <1>c, <1>move
    <2> QED
        BY <1>move, <2>1, DedupKept
<1>1. ASSUME Produce \/ BrokerCommit \/ RequestFilter \/ SetFilter, UNCHANGED rmVars
      PROVE  DedupInv'
    BY <1>1, DedupKept
    DEF Produce, BrokerCommit, RequestFilter, SetFilter, rmVars, brokerVars, givenVars
<1>2. ASSUME NEW c \in Clients, ClientStep(c)
      PROVE  DedupInv'
    <2>1. CASE EnterNextEvent(c) \/ AppRetry(c)
        <3>1. /\ pc' = [pc EXCEPT ![c] = "gate"] \/ pc' = [pc EXCEPT ![c] = "out"]
              /\ UNCHANGED <<kafka_log, returned, seen_signatures, holding>>
            BY <2>1 DEF EnterNextEvent, AppRetry, CallNextEvent, Jump, Goto, scVars,
                        brokerVars, givenVars
        <3> QED
            BY <3>1, <1>move
    <2>2. CASE ResourceCheck(c)
        <3>1. UNCHANGED <<kafka_log, returned, seen_signatures, holding>>
            BY <2>2 DEF ResourceCheck, scVars, brokerVars, givenVars
        <3>2. PICK label \in CheckLabels \cup {"delay", "recv"} :
                 pc' = [pc EXCEPT ![c] = label]
            BY <1>t, <2>2, CheckStepFrame DEF ResourceCheck
        <3>3. label # "filter"
            BY DEF CheckLabels
        <3> QED
            BY <3>1, <3>2, <3>3, <1>move
    <2>3. CASE ConsumeStep(c)
        BY <1>t, <2>3, ConsumeDedup
    <2>4. CASE AppHandle(c)
        <3>1. /\ pc' = [pc EXCEPT ![c] = "out"]
              /\ holding' = [holding EXCEPT ![c] = 0]
              /\ UNCHANGED <<kafka_log, returned, seen_signatures>>
            BY <2>4 DEF AppHandle, Jump, Goto, brokerVars, givenVars
        <3>2. \A d \in Clients \ {c} : holding'[d] = holding[d]
            BY <1>c, <3>1
        <3> QED
            BY <3>1, <3>2, <1>move
    <2> QED
        BY <1>2, <2>1, <2>2, <2>3, <2>4 DEF ClientStep
<1>3. CASE Crash
    BY <1>3 DEF Crash, StartLabels, DedupInv, Tasks
<1>4. CASE UNCHANGED scAllVars
    BY <1>4, DedupKept DEF scAllVars, scVars, rmVars, brokerVars, givenVars
<1> QED
    BY <1>1, <1>2, <1>3, <1>4 DEF SCNext

\* However many clients are inside next_event at once, whatever is in the log,
\* fails or crashes: while the cache is not cleared, one process returns no
\* signature twice (consumer.rs:100, 194-216).
THEOREM NoDuplicateReturnAlways == SCSpec => []NoDuplicateReturn
<1>1. ASSUME Cardinality(Sigs) <= DedupCapacity
      PROVE  SCSpec => []NoDuplicateReturn
    <2>1. SCInit => DedupInv
        BY DEF SCInit, RMInit, StartLabels, DedupInv, Tasks
    <2>2. SCInv /\ DedupInv /\ [SCNext]_scAllVars => DedupInv'
        BY <1>1, DedupStep
    <2>3. DedupInv => NoDuplicateReturn
        BY DEF DedupInv, NoDuplicateReturn
    <2> QED
        BY <2>1, <2>2, <2>3, SCInvAlways, PTL DEF SCSpec
<1>2. ASSUME ~(Cardinality(Sigs) <= DedupCapacity)
      PROVE  SCSpec => []NoDuplicateReturn
    <2>1. NoDuplicateReturn
        BY <1>2 DEF NoDuplicateReturn
    <2> QED
        BY <2>1, PTL
<1> QED
    BY <1>1, <1>2

-----------------------------------------------------------------------------
(* Offsets, for a single client.                                           *)

\* The client has a record that is neither returned nor skipped yet.
Unsettled(c) == pc[c] \in {"parse", "skip", "filter"}

\* How far the client has got: what lies before is received and settled.
Done(c) == IF Unsettled(c) THEN position - 1 ELSE position

\* Offsets committed, and on their way, rise up to where the client has got,
\* and the record in hand is the last one received.
CommitsInv(c) ==
    /\ committed <= Done(c)
    /\ \A x \in ToSet(commit_queue) : committed <= x /\ x <= Done(c)
    /\ Ascending(commit_queue)
    /\ holding[c] # 0 => holding[c] = position - 1

\* When no commit fails, a client returns only what is settled, and what it
\* misses it can only have missed at a start that is not at the beginning.
MissInv(c) ==
    /\ pc[c] = "app" => holding[c] \in settled
    /\ deployment.offset_reset = "earliest" => Missed = {}

\* The signatures of the first n records' events.
EventSigs(n) == {Signature(o) : o \in {p \in 1..n : kafka_log[p].kind = "event"}}

\* How many records the dedup cache has seen.
Parsed(c) == IF pc[c] = "parse" THEN position - 2 ELSE position - 1

\* Before the first crash and without a filter, what was returned are the first
\* copies among the records settled, and the cache holds the signature of every
\* event parsed.
FirstsInv(c) ==
    /\ active_filter = NoFilter /\ filter_request = NoFilter
    /\ crashes = 0 =>
         /\ Ascending(returned)
         /\ ToSet(returned) = FirstCopies(Done(c) - 1)
         /\ seen_signatures = EventSigs(Parsed(c))
         /\ pc[c] = "filter" => holding[c] \in FirstCopies(holding[c])
         /\ pc[c] = "skip" => holding[c] \notin FirstCopies(holding[c])

-----------------------------------------------------------------------------
(* One client: commits.                                                    *)

\* What the steps of a client that touch no offset leave alone.
LEMMA QuietClientStep ==
    ASSUME SCInv, NEW c \in Clients,
           \/ EnterNextEvent(c) \/ ResourceCheck(c) \/ AppRetry(c) \/ RecvErr(c)
    PROVE  /\ pc[c] \notin HoldingLabels /\ pc'[c] \notin HoldingLabels
           /\ UNCHANGED <<deployment, kafka_log, high_watermark, committed,
                          commit_queue, position, holding, seen_signatures,
                          active_filter, filter_request, returned, settled,
                          commit_errors, crashes>>
<1>t. c \in Tasks /\ pc \in [Tasks -> ConsumerLabels \cup WorkerLabels] /\ AtomicsOK
    BY DEF SCInv, ClientsOK, Tasks
<1> USE DEF HoldingLabels, scVars, brokerVars, givenVars, filterVars, faultVars
<1>1. CASE EnterNextEvent(c)
    BY <1>t, <1>1 DEF EnterNextEvent, CallNextEvent, Jump, Goto
<1>2. CASE ResourceCheck(c)
    <2>1. PICK label \in CheckLabels \cup {"delay", "recv"} :
             pc' = [pc EXCEPT ![c] = label] /\ pc[c] \in CheckLabels \cup {"gate"}
        BY <1>t, <1>2, CheckStepFrame DEF ResourceCheck
    <2> QED
        BY <1>t, <1>2, <2>1 DEF ResourceCheck, CheckLabels
<1>3. CASE AppRetry(c)
    BY <1>t, <1>3 DEF AppRetry, Jump, Goto
<1>4. CASE RecvErr(c)
    BY <1>t, <1>4 DEF RecvErr, Jump, Goto
<1> QED
    BY <1>1, <1>2, <1>3, <1>4

\* What the commit of a record does, whether it is returned or skipped.
LEMMA CommitEffect ==
    ASSUME SCInv, NEW c \in Clients, CommitSkipped(c) \/ CommitAndReturn(c)
    PROVE  /\ pc[c] \in {"skip", "filter"} /\ holding[c] \in Offsets
           /\ commit_queue' = Append(commit_queue, holding[c] + 1)
           /\ holding[c] + 1 \in 2..(LogLength + 1)
           /\ settled' = settled \cup {holding[c]}
           /\ UNCHANGED <<deployment, kafka_log, high_watermark, committed,
                          position, seen_signatures, active_filter,
                          filter_request, commit_errors, crashes>>
           /\ \/ /\ pc'[c] = "gate" /\ holding'[c] = 0
                 /\ UNCHANGED returned /\ CommitSkipped(c)
              \/ /\ pc'[c] = "app" /\ holding'[c] = holding[c] /\ pc[c] = "filter"
                 /\ returned' = Append(returned, holding[c])
                 /\ CommitAndReturn(c)
<1>t. /\ c \in Tasks /\ pc \in [Tasks -> ConsumerLabels \cup WorkerLabels]
      /\ holding \in [Clients -> 0..LogLength]
    BY DEF SCInv, ClientsOK, RecordsOK, Tasks
<1>1. pc[c] \in {"skip", "filter"} /\ CommitKafkaOffset(holding[c])
    BY DEF CommitSkipped, CommitAndReturn, Jump
<1>2. holding[c] \in Offsets
    BY <1>1, InHandIsRecord DEF SCInv, HoldingLabels
<1>3. holding[c] + 1 \in 2..(LogLength + 1)
    BY <1>2, ConsumerAssumption DEF Offsets
<1>4. UNCHANGED <<deployment, kafka_log, high_watermark, committed,
                  position, seen_signatures, active_filter, filter_request,
                  commit_errors, crashes>>
    BY DEF CommitSkipped, CommitAndReturn, brokerVars, givenVars, filterVars, faultVars
<1>5. \/ /\ pc'[c] = "gate" /\ holding'[c] = 0
         /\ UNCHANGED returned /\ CommitSkipped(c)
      \/ /\ pc'[c] = "app" /\ holding'[c] = holding[c] /\ pc[c] = "filter"
         /\ returned' = Append(returned, holding[c])
         /\ CommitAndReturn(c)
    BY <1>t DEF CommitSkipped, CommitAndReturn, Jump, Goto
<1> QED
    BY <1>1, <1>2, <1>3, <1>4, <1>5 DEF CommitKafkaOffset

\* The steps that take a record, or put one back, one by one.
LEMMA RecordEffects ==
    ASSUME SCInv, NEW c \in Clients
    PROVE  /\ Recv(c) =>
                 /\ pc[c] = "recv" /\ pc'[c] = "parse" /\ position <= high_watermark
                 /\ holding'[c] = position /\ position' = position + 1
                 /\ UNCHANGED <<deployment, kafka_log, committed, commit_queue,
                                seen_signatures, active_filter, filter_request,
                                returned, settled, commit_errors, crashes>>
           /\ InternalProcess(c) =>
                 /\ pc[c] = "parse" /\ pc'[c] \in {"filter", "skip"}
                 /\ UNCHANGED <<deployment, kafka_log, committed, commit_queue,
                                position, holding, active_filter, filter_request,
                                returned, settled, commit_errors, crashes>>
           /\ CommitErr(c) =>
                 /\ pc[c] \in {"skip", "filter"} /\ pc'[c] = "failed"
                 /\ holding'[c] = 0 /\ commit_errors < MaxCommitErrors
                 /\ UNCHANGED <<deployment, kafka_log, committed, commit_queue,
                                position, active_filter, filter_request,
                                returned, settled, crashes>>
           /\ AppHandle(c) =>
                 /\ pc[c] = "app" /\ pc'[c] = "out" /\ holding'[c] = 0
                 /\ UNCHANGED <<deployment, kafka_log, committed, commit_queue,
                                position, seen_signatures, active_filter,
                                filter_request, returned, settled, commit_errors,
                                crashes>>
<1>t. /\ c \in Tasks /\ pc \in [Tasks -> ConsumerLabels \cup WorkerLabels]
      /\ holding \in [Clients -> 0..LogLength]
    BY DEF SCInv, ClientsOK, RecordsOK, Tasks
<1> USE DEF brokerVars, givenVars, filterVars, faultVars, Jump, Goto
<1>1. ASSUME Recv(c)
      PROVE  /\ pc[c] = "recv" /\ pc'[c] = "parse" /\ position <= high_watermark
             /\ holding'[c] = position /\ position' = position + 1
             /\ UNCHANGED <<deployment, kafka_log, committed, commit_queue,
                            seen_signatures, active_filter, filter_request,
                            returned, settled, commit_errors, crashes>>
    BY <1>t, <1>1 DEF Recv
<1>2. ASSUME InternalProcess(c)
      PROVE  /\ pc[c] = "parse" /\ pc'[c] \in {"filter", "skip"}
             /\ UNCHANGED <<deployment, kafka_log, committed, commit_queue,
                            position, holding, active_filter, filter_request,
                            returned, settled, commit_errors, crashes>>
    BY <1>t, <1>2 DEF InternalProcess
<1>3. ASSUME CommitErr(c)
      PROVE  /\ pc[c] \in {"skip", "filter"} /\ pc'[c] = "failed"
             /\ holding'[c] = 0 /\ commit_errors < MaxCommitErrors
             /\ UNCHANGED <<deployment, kafka_log, committed, commit_queue,
                            position, active_filter, filter_request,
                            returned, settled, crashes>>
    BY <1>t, <1>3 DEF CommitErr
<1>4. ASSUME AppHandle(c)
      PROVE  /\ pc[c] = "app" /\ pc'[c] = "out" /\ holding'[c] = 0
             /\ UNCHANGED <<deployment, kafka_log, committed, commit_queue,
                            position, seen_signatures, active_filter,
                            filter_request, returned, settled, commit_errors,
                            crashes>>
    BY <1>t, <1>4 DEF AppHandle
<1> QED
    BY <1>1, <1>2, <1>3, <1>4

\* Kafka's steps and set_filter's touch the consumer in one place only, the
\* broker's taking of a commit.
LEMMA OutsideEffects ==
    ASSUME Produce \/ BrokerCommit \/ RequestFilter \/ SetFilter, UNCHANGED rmVars
    PROVE  /\ UNCHANGED <<pc, deployment, kafka_log, position, holding,
                          seen_signatures, returned, settled, commit_errors,
                          crashes>>
           /\ \/ UNCHANGED <<committed, commit_queue>>
              \/ /\ commit_queue # <<>> /\ committed' = Head(commit_queue)
                 /\ commit_queue' = Tail(commit_queue)
BY DEF Produce, BrokerCommit, RequestFilter, SetFilter, rmVars, brokerVars,
       givenVars, filterVars, faultVars

\* Where a restart leaves a single client.
LEMMA CrashEffects ==
    ASSUME NEW c \in Clients, Crash
    PROVE  /\ pc'[c] = "out" /\ holding'[c] = 0 /\ commit_queue' = <<>>
           /\ committed' = (IF deployment.stable_group THEN committed ELSE 0)
           /\ position' = (IF committed' # 0 THEN committed'
                           ELSE IF deployment.offset_reset = "earliest" THEN 1
                           ELSE high_watermark + 1)
           /\ crashes' = crashes + 1
           /\ UNCHANGED <<deployment, kafka_log, settled, commit_errors>>
BY DEF Crash, StartLabels, givenVars, Tasks

\* With one client the commits are sent in the order of the log, behind the
\* position, and the broker takes them in that order.
LEMMA CommitsStep ==
    ASSUME NEW c \in Clients, Clients = {c}, SCInv, CommitsInv(c), [SCNext]_scAllVars
    PROVE  CommitsInv(c)'
<1>t. /\ holding \in [Clients -> 0..LogLength]
      /\ \A d \in Clients : holding[d] # 0 <=> pc[d] \in HoldingLabels
      /\ position \in Int /\ position >= 1 /\ committed \in Int
      /\ high_watermark \in Nat
      /\ commit_queue \in Seq(2..(LogLength + 1)) /\ commit_queue \in Seq(Int)
    <2>1. /\ holding \in [Clients -> 0..LogLength]
          /\ \A d \in Clients : holding[d] # 0 <=> pc[d] \in HoldingLabels
          /\ position \in Int /\ position >= 1 /\ committed \in Int
          /\ high_watermark \in Nat
          /\ commit_queue \in Seq(2..(LogLength + 1))
        BY ConsumerAssumption DEF SCInv, RecordsOK
    <2>2. commit_queue \in Seq(Int)
        BY <2>1, SeqMonotonic, ConsumerAssumption
    <2> QED
        BY <2>1, <2>2
<1>q. /\ committed <= Done(c) /\ Done(c) \in Int
      /\ \A x \in ToSet(commit_queue) : committed <= x /\ x <= Done(c) /\ x \in Int
      /\ Ascending(commit_queue)
      /\ holding[c] # 0 => holding[c] = position - 1
    BY <1>t, QueueElements DEF CommitsInv, Done
<1>kept. ASSUME UNCHANGED <<committed, commit_queue>>,
                Done(c)' \in Int, Done(c) <= Done(c)',
                holding'[c] # 0 => holding'[c] = position' - 1
         PROVE  CommitsInv(c)'
    <2>1. committed' <= Done(c)'
        BY <1>q, <1>t, <1>kept
    <2>2. \A x \in ToSet(commit_queue') : committed' <= x /\ x <= Done(c)'
        BY <1>q, <1>t, <1>kept
    <2> QED
        BY <1>q, <1>kept, <2>1, <2>2 DEF CommitsInv
<1>1. ASSUME Produce \/ BrokerCommit \/ RequestFilter \/ SetFilter, UNCHANGED rmVars
      PROVE  CommitsInv(c)'
    <2>1. Done(c)' = Done(c) /\ UNCHANGED <<holding, position>>
        BY <1>1, OutsideEffects DEF Done, Unsettled
    <2>2. CASE UNCHANGED <<committed, commit_queue>>
        BY <1>q, <1>kept, <2>1, <2>2
    <2>3. CASE /\ commit_queue # <<>> /\ committed' = Head(commit_queue)
               /\ commit_queue' = Tail(commit_queue)
        <3>1. /\ ToSet(commit_queue) = {Head(commit_queue)} \cup ToSet(commit_queue')
              /\ Head(commit_queue) \in Int
            BY <1>t, <2>3, TakenQueue
        <3>2. /\ Ascending(commit_queue')
              /\ \A x \in ToSet(commit_queue') : Head(commit_queue) < x
            BY <1>t, <1>q, <2>3, TakeKeepsOrder DEF AllBefore
        <3>3. committed' <= Done(c)'
            BY <1>q, <2>1, <2>3, <3>1
        <3>4. \A x \in ToSet(commit_queue') : committed' <= x /\ x <= Done(c)'
            BY <1>q, <2>1, <2>3, <3>1, <3>2
        <3> QED
            BY <1>q, <2>1, <3>2, <3>3, <3>4 DEF CommitsInv
    <2> QED
        BY <1>1, <2>2, <2>3, OutsideEffects
<1>2. ASSUME ClientStep(c)
      PROVE  CommitsInv(c)'
    <2>1. CASE EnterNextEvent(c) \/ ResourceCheck(c) \/ AppRetry(c) \/ RecvErr(c)
        <3>1. /\ UNCHANGED <<committed, commit_queue, position, holding>>
              /\ pc[c] \notin HoldingLabels /\ pc'[c] \notin HoldingLabels
            BY <2>1, QuietClientStep
        <3>2. Done(c)' = Done(c)
            BY <3>1 DEF Done, Unsettled, HoldingLabels
        <3> QED
            BY <1>q, <1>kept, <3>1, <3>2
    <2>2. CASE Recv(c)
        <3>1. /\ UNCHANGED <<committed, commit_queue>> /\ pc[c] = "recv"
              /\ holding'[c] = position /\ position' = position + 1
              /\ pc'[c] = "parse"
            BY <2>2, RecordEffects
        <3>2. Done(c)' = position /\ Done(c) = position
            BY <1>t, <3>1 DEF Done, Unsettled
        <3> QED
            BY <1>t, <1>kept, <3>1, <3>2
    <2>3. CASE InternalProcess(c)
        <3>1. /\ UNCHANGED <<committed, commit_queue, position, holding>>
              /\ pc[c] = "parse" /\ pc'[c] \in {"filter", "skip"}
            BY <2>3, RecordEffects
        <3>2. Done(c)' = Done(c)
            BY <3>1 DEF Done, Unsettled
        <3> QED
            BY <1>q, <1>kept, <3>1, <3>2
    <2>4. CASE CommitErr(c)
        <3>1. /\ UNCHANGED <<committed, commit_queue, position>>
              /\ pc[c] \in {"skip", "filter"} /\ pc'[c] = "failed" /\ holding'[c] = 0
            BY <2>4, RecordEffects
        <3>2. Done(c)' = position /\ Done(c) = position - 1
            BY <3>1 DEF Done, Unsettled
        <3> QED
            BY <1>t, <1>kept, <3>1, <3>2
    <2>5. CASE AppHandle(c)
        <3>1. /\ UNCHANGED <<committed, commit_queue, position>>
              /\ pc[c] = "app" /\ pc'[c] = "out" /\ holding'[c] = 0
            BY <2>5, RecordEffects
        <3>2. Done(c)' = Done(c)
            BY <3>1 DEF Done, Unsettled
        <3> QED
            BY <1>q, <1>kept, <3>1, <3>2
    <2>6. CASE CommitSkipped(c) \/ CommitAndReturn(c)
        <3>1. /\ pc[c] \in {"skip", "filter"} /\ pc'[c] \in {"gate", "app"}
              /\ holding'[c] \in {0, holding[c]} /\ UNCHANGED <<committed, position>>
              /\ commit_queue' = Append(commit_queue, holding[c] + 1)
            BY <2>6, CommitEffect
        <3>2. holding[c] = position - 1
            BY <1>t, <1>q, <3>1 DEF HoldingLabels
        <3>3. Done(c)' = position /\ Done(c) = position - 1
            BY <3>1 DEF Done, Unsettled
        <3>4. commit_queue' = Append(commit_queue, position)
            BY <1>t, <3>1, <3>2
        <3>5. Ascending(commit_queue')
            <4>1. AllBefore(ToSet(commit_queue), {position})
                BY <1>t, <1>q, <3>3 DEF AllBefore
            <4> QED
                BY <1>t, <1>q, <3>4, <4>1, AppendKeepsOrder DEF AllBefore
        <3>6. ToSet(commit_queue') = ToSet(commit_queue) \cup {position}
            BY <1>t, <3>4, AppendedQueue
        <3>7. \A x \in ToSet(commit_queue') : committed' <= x /\ x <= Done(c)'
            BY <1>t, <1>q, <3>1, <3>3, <3>6
        <3>8. committed' <= Done(c)'
            BY <1>t, <1>q, <3>1, <3>3
        <3>9. holding'[c] # 0 => holding'[c] = position' - 1
            BY <3>1, <3>2
        <3> QED
            BY <3>5, <3>7, <3>8, <3>9 DEF CommitsInv
    <2> QED
        BY <1>2, <2>1, <2>2, <2>3, <2>4, <2>5, <2>6 DEF ClientStep, ConsumeStep
<1>3. CASE Crash
    <2>1. /\ committed' <= position' /\ Done(c)' = position'
        <3>1. /\ pc'[c] = "out"
              /\ committed' = (IF deployment.stable_group THEN committed ELSE 0)
              /\ position' = (IF committed' # 0 THEN committed'
                              ELSE IF deployment.offset_reset = "earliest" THEN 1
                              ELSE high_watermark + 1)
            BY <1>3, CrashEffects
        <3> QED
            BY <1>t, <3>1 DEF Done, Unsettled
    <2>2. Ascending(commit_queue') /\ ToSet(commit_queue') = {}
        BY <1>3, CrashEffects, EmptyQueue
    <2> QED
        BY <1>3, <2>1, <2>2, CrashEffects DEF CommitsInv
<1>4. CASE UNCHANGED scAllVars
    BY <1>4, <1>q DEF CommitsInv, Done, Unsettled, scAllVars, scVars, rmVars, brokerVars
<1> QED
    BY <1>1, <1>2, <1>3, <1>4 DEF SCNext

LEMMA CommitsInit ==
    ASSUME NEW c \in Clients, SCInit
    PROVE  CommitsInv(c)
<1>1. Ascending(commit_queue) /\ ToSet(commit_queue) = {}
    BY EmptyQueue DEF SCInit
<1> QED
    BY <1>1 DEF SCInit, RMInit, StartLabels, CommitsInv, Done, Unsettled, Tasks

\* With one client the committed offset never moves back, whatever commits fail,
\* are on their way or are lost in a crash (consumer.rs:152-171): what the broker
\* takes next is never below what it has.
THEOREM CommitMonotoneForOneClient ==
    ASSUME NEW client, Clients = {client}
    PROVE  SCSpec => CommitMonotone
<1>1. SCInv /\ CommitsInv(client) /\ [SCNext]_scAllVars
         => [\/ committed' >= committed
             \/ crashes' > crashes /\ ~deployment.stable_group]_scAllVars
    <2> SUFFICES ASSUME SCInv, CommitsInv(client), SCNext
                 PROVE  \/ committed' >= committed
                        \/ crashes' > crashes /\ ~deployment.stable_group
        OBVIOUS
    <2>t. committed \in Int /\ crashes \in Int /\ commit_queue \in Seq(2..(LogLength + 1))
        BY ConsumerAssumption DEF SCInv, RecordsOK
    <2>1. ASSUME Produce \/ BrokerCommit \/ RequestFilter \/ SetFilter, UNCHANGED rmVars
          PROVE  committed' >= committed
        <3>1. CASE committed' = committed
            BY <2>t, <3>1
        <3>2. CASE commit_queue # <<>> /\ committed' = Head(commit_queue)
            <4>1. /\ Head(commit_queue) \in ToSet(commit_queue)
                  /\ Head(commit_queue) \in 2..(LogLength + 1)
                BY <2>t, <3>2, TakenQueue
            <4> QED
                BY <2>t, <3>2, <4>1 DEF CommitsInv
        <3> QED
            BY <2>1, <3>1, <3>2, OutsideEffects
    <2>2. ASSUME NEW c \in Clients, ClientStep(c)
          PROVE  committed' = committed
        BY <2>2 DEF ClientStep, ConsumeStep, EnterNextEvent, ResourceCheck, Recv, RecvErr,
           InternalProcess, CommitSkipped, CommitAndReturn, CommitErr,
           AppHandle, AppRetry, scVars, brokerVars
    <2>3. CASE Crash
        BY <2>t, <2>3 DEF Crash
    <2> QED
        BY <2>t, <2>1, <2>2, <2>3 DEF SCNext
<1>2. SCInit => CommitsInv(client)
    BY CommitsInit
<1>3. SCInv /\ CommitsInv(client) /\ [SCNext]_scAllVars => CommitsInv(client)'
    BY CommitsStep
<1> QED
    BY <1>1, <1>2, <1>3, SCInvAlways, PTL DEF SCSpec, CommitMonotone

-----------------------------------------------------------------------------
(* One client whose commits do not fail: nothing is missed.                *)

\* No step but a restart that begins at the end of the topic adds to what is
\* missed.
LEMMA MissStep ==
    ASSUME NEW c \in Clients, Clients = {c}, MaxCommitErrors = 0,
           SCInv, CommitsInv(c), MissInv(c), [SCNext]_scAllVars
    PROVE  /\ MissInv(c)'
           /\ \/ Missed' \subseteq Missed
              \/ /\ crashes' > crashes
                 /\ deployment.offset_reset = "latest"
                 /\ ~deployment.stable_group \/ committed = 0
<1>t. /\ holding \in [Clients -> 0..LogLength]
      /\ \A d \in Clients : holding[d] # 0 <=> pc[d] \in HoldingLabels
      /\ position \in Int /\ committed \in Int /\ committed >= 0
      /\ crashes \in Int /\ commit_errors = 0
    BY ConsumerAssumption DEF SCInv, RecordsOK
<1>d. deployment.offset_reset \in {"earliest", "latest"}
    BY ConsumerAssumption DEF SCInv, RecordsOK
<1>1. ASSUME UNCHANGED deployment, Missed' \subseteq Missed,
             pc'[c] = "app" => holding'[c] \in settled'
      PROVE  /\ MissInv(c)'
             /\ Missed' \subseteq Missed
    BY <1>1 DEF MissInv
<1>same. ASSUME UNCHANGED <<deployment, position, settled, holding>>,
                pc'[c] = "app" => pc[c] = "app"
         PROVE  MissInv(c)' /\ Missed' \subseteq Missed
    <2>1. Missed' = Missed
        BY <1>same DEF Missed
    <2> QED
        BY <1>same, <1>1, <2>1 DEF MissInv
<1>2. ASSUME Produce \/ BrokerCommit \/ RequestFilter \/ SetFilter, UNCHANGED rmVars
      PROVE  MissInv(c)' /\ Missed' \subseteq Missed
    BY <1>2, <1>same, OutsideEffects
<1>3. ASSUME ClientStep(c)
      PROVE  MissInv(c)' /\ Missed' \subseteq Missed
    <2>1. CASE EnterNextEvent(c) \/ ResourceCheck(c) \/ AppRetry(c) \/ RecvErr(c)
        BY <2>1, <1>same, QuietClientStep DEF HoldingLabels
    <2>2. CASE Recv(c)
        <3>1. /\ UNCHANGED <<deployment, settled>> /\ pc[c] = "recv"
              /\ holding'[c] = position /\ position' = position + 1
              /\ pc'[c] = "parse"
            BY <2>2, RecordEffects
        <3>2. holding[c] = 0
            BY <1>t, <3>1 DEF HoldingLabels
        <3>3. Missed' \subseteq Missed
            BY <1>t, <3>1, <3>2 DEF Missed
        <3> QED
            BY <1>1, <3>1, <3>3
    <2>3. CASE InternalProcess(c)
        BY <2>3, <1>same, RecordEffects
    <2>4. CASE CommitErr(c)
        BY <1>t, <2>4, RecordEffects
    <2>5. CASE AppHandle(c)
        <3>1. /\ UNCHANGED <<deployment, settled, position>> /\ pc[c] = "app"
              /\ pc'[c] = "out"
            BY <2>5, RecordEffects
        <3>2. holding[c] \in settled
            BY <3>1 DEF MissInv
        <3>3. Missed' \subseteq Missed
            BY <3>1, <3>2 DEF Missed
        <3> QED
            BY <1>1, <3>1, <3>3
    <2>6. CASE CommitSkipped(c) \/ CommitAndReturn(c)
        <3>1. /\ UNCHANGED <<deployment, position>>
              /\ settled' = settled \cup {holding[c]}
              /\ pc'[c] = "app" => holding'[c] = holding[c]
            BY <2>6, CommitEffect
        <3>2. Missed' \subseteq Missed
            BY <3>1 DEF Missed
        <3> QED
            BY <1>1, <3>1, <3>2
    <2> QED
        BY <1>3, <2>1, <2>2, <2>3, <2>4, <2>5, <2>6 DEF ClientStep, ConsumeStep
<1>4. CASE Crash
    <2>1. /\ pc'[c] = "out" /\ holding'[c] = 0
          /\ committed' = (IF deployment.stable_group THEN committed ELSE 0)
          /\ position' = (IF committed' # 0 THEN committed'
                          ELSE IF deployment.offset_reset = "earliest" THEN 1
                          ELSE high_watermark + 1)
          /\ crashes' = crashes + 1
          /\ UNCHANGED <<deployment, settled>>
        BY <1>4, CrashEffects
    <2>2. CASE committed' # 0
        \* The process starts at the committed offset, behind where it was.
        <3>1. committed # 0 /\ committed' = committed /\ position' = committed
              /\ deployment.stable_group
            BY <2>1, <2>2
        <3>2. /\ committed <= position
              /\ Unsettled(c) => holding[c] = position - 1 /\ committed <= position - 1
              /\ pc[c] = "app" => holding[c] \in settled
            BY <1>t DEF CommitsInv, MissInv, Done, Unsettled, HoldingLabels
        <3>3. ASSUME NEW o \in Missed'
              PROVE  o \in Missed
            <4>1. o \in 1..(committed - 1) /\ o \notin settled
                BY <2>1, <3>1, <3>3 DEF Missed
            <4>2. holding[c] # o
                BY <1>t, <3>2, <4>1 DEF HoldingLabels, Unsettled
            <4> QED
                BY <1>t, <3>2, <4>1, <4>2 DEF Missed
        <3> QED
            BY <1>1, <2>1, <3>3
    <2>3. CASE committed' = 0 /\ deployment.offset_reset = "earliest"
        <3>1. position' = 1
            BY <2>1, <2>3
        <3>2. Missed' = {}
            BY <3>1 DEF Missed
        <3> QED
            BY <1>1, <2>1, <3>2
    <2>4. CASE committed' = 0 /\ deployment.offset_reset = "latest"
        <3>1. ~deployment.stable_group \/ committed = 0
            BY <2>1, <2>4
        <3>2. MissInv(c)'
            BY <2>1, <2>4 DEF MissInv
        <3> QED
            BY <1>t, <2>1, <2>4, <3>1, <3>2
    <2> QED
        BY <1>d, <2>2, <2>3, <2>4
<1>5. CASE UNCHANGED scAllVars
    BY <1>5, <1>same DEF scAllVars, scVars, rmVars, brokerVars, givenVars
<1> QED
    BY <1>2, <1>3, <1>4, <1>5 DEF SCNext

LEMMA MissInit ==
    ASSUME NEW c \in Clients, SCInit
    PROVE  MissInv(c)
<1>1. Missed = {}
    BY DEF SCInit, Missed
<1> QED
    BY <1>1 DEF SCInit, RMInit, StartLabels, MissInv, Tasks

\* With one client whose commits reach the queue, the process may die between any
\* two steps and the group start anywhere: a record is missed only by a restart
\* at the end of the topic for want of a committed offset (config.rs:104, 158,
\* 169; client.rs:235-239).
THEOREM OnlyRestartMissesForOneClient ==
    ASSUME NEW client, Clients = {client}, MaxCommitErrors = 0
    PROVE  SCSpec => OnlyRestartMisses
<1>1. SCInit => CommitsInv(client) /\ MissInv(client)
    BY CommitsInit, MissInit
<1>2. SCInv /\ CommitsInv(client) /\ MissInv(client) /\ [SCNext]_scAllVars
         => CommitsInv(client)' /\ MissInv(client)'
    BY CommitsStep, MissStep
<1>3. SCInv /\ CommitsInv(client) /\ MissInv(client) /\ [SCNext]_scAllVars
         => [Missed' \subseteq Missed
               \/ /\ crashes' > crashes
                  /\ deployment.offset_reset = "latest"
                  /\ ~deployment.stable_group \/ committed = 0]_scAllVars
    BY MissStep
<1> QED
    BY <1>1, <1>2, <1>3, SCInvAlways, PTL DEF SCSpec, OnlyRestartMisses

\* Under the same conditions a group that starts at the beginning never has an
\* offset committed past an event that was neither returned nor skipped
\* (consumer.rs:152-171).
THEOREM CommitCoversSettledForOneClient ==
    ASSUME NEW client, Clients = {client}, MaxCommitErrors = 0
    PROVE  SCSpec => []CommitCoversSettled
<1>1. SCInit => CommitsInv(client) /\ MissInv(client)
    BY CommitsInit, MissInit
<1>2. SCInv /\ CommitsInv(client) /\ MissInv(client) /\ [SCNext]_scAllVars
         => CommitsInv(client)' /\ MissInv(client)'
    BY CommitsStep, MissStep
<1>3. SCInv /\ CommitsInv(client) /\ MissInv(client) => CommitCoversSettled
    <2> SUFFICES ASSUME SCInv, CommitsInv(client), MissInv(client),
                        deployment.offset_reset = "earliest",
                        NEW o \in 1..(committed - 1)
                 PROVE  o \in settled
        BY DEF CommitCoversSettled
    <2>1. /\ position \in Int /\ committed \in Int /\ holding[client] \in 0..LogLength
          /\ holding[client] # 0 <=> pc[client] \in HoldingLabels
        BY ConsumerAssumption DEF SCInv, RecordsOK
    <2>2. /\ committed <= position
          /\ Unsettled(client) =>
                holding[client] = position - 1 /\ committed <= position - 1
          /\ pc[client] = "app" => holding[client] \in settled
        BY <2>1 DEF CommitsInv, MissInv, Done, Unsettled, HoldingLabels
    <2>3. CASE holding[client] = o
        <3>1. pc[client] = "app"
            BY <2>1, <2>2, <2>3 DEF HoldingLabels, Unsettled
        <3> QED
            BY <2>2, <2>3, <3>1
    <2>4. CASE holding[client] # o
        <3>1. o \in 1..(position - 1) /\ o \notin Missed
            BY <2>1, <2>2 DEF MissInv
        <3> QED
            BY <2>4, <3>1 DEF Missed
    <2> QED
        BY <2>3, <2>4
<1> QED
    BY <1>1, <1>2, <1>3, SCInvAlways, PTL DEF SCSpec

-----------------------------------------------------------------------------
(* One client without a filter: what it has returned.                      *)

\* One more record is one more first copy, or none.
LEMMA FirstCopiesGrow ==
    ASSUME NEW n \in Nat
    PROVE  FirstCopies(n + 1) = FirstCopies(n)
                \cup (IF n + 1 \in FirstCopies(n + 1) THEN {n + 1} ELSE {})
BY DEF FirstCopies

\* The cache tells whether the next record is a first copy.
LEMMA FirstCopyUnseen ==
    ASSUME RecordsOK, NEW n \in Nat, n + 1 \in Offsets
    PROVE  n + 1 \in FirstCopies(n + 1) <=>
              /\ kafka_log[n + 1].kind = "event"
              /\ Signature(n + 1) \notin EventSigs(n)
<1>1. \A o \in 1..(n + 1) :
         /\ kafka_log[o].kind = "event" => Signature(o) \in Sigs
         /\ kafka_log[o].kind # "event" => Signature(o) = NoSig
    <2>1. ASSUME NEW o \in 1..(n + 1)
          PROVE  kafka_log[o] \in Records
        BY <2>1, ConsumerAssumption DEF RecordsOK, Offsets
    <2> QED
        BY <2>1 DEF Records, Signature
<1>2. n + 1 \in FirstCopies(n + 1) <=>
         /\ kafka_log[n + 1].kind = "event"
         /\ \A p \in 1..n : Signature(p) # Signature(n + 1)
    BY DEF FirstCopies
<1>3. ASSUME kafka_log[n + 1].kind = "event"
      PROVE  Signature(n + 1) \notin EventSigs(n) <=>
                \A p \in 1..n : Signature(p) # Signature(n + 1)
    BY <1>1, <1>3, ConsumerAssumption DEF EventSigs
<1> QED
    BY <1>2, <1>3

\* Parsing the next record adds its signature, if it is an event.
LEMMA EventSigsGrow ==
    ASSUME NEW n \in Nat
    PROVE  EventSigs(n + 1) = EventSigs(n)
                \cup (IF kafka_log[n + 1].kind = "event" THEN {Signature(n + 1)}
                      ELSE {})
BY DEF EventSigs

\* The first copies before the record in hand are what the client has returned;
\* the cache decides about the record in hand as the definition does.
LEMMA FirstsStep ==
    ASSUME NEW c \in Clients, Clients = {c}, MaxCommitErrors = 0, Filters = {},
           Cardinality(Sigs) <= DedupCapacity,
           SCInv, CommitsInv(c), FirstsInv(c), [SCNext]_scAllVars
    PROVE  FirstsInv(c)'
<1>t. /\ RecordsOK
      /\ \A d \in Clients : holding[d] # 0 <=> pc[d] \in HoldingLabels
      /\ position \in Int /\ position >= 1 /\ position <= LogLength + 1
      /\ crashes \in Nat /\ commit_errors = 0
      /\ LogLength \in Nat /\ returned \in Seq(Offsets)
    BY ConsumerAssumption DEF SCInv, RecordsOK
<1>f. active_filter = NoFilter /\ filter_request = NoFilter
    BY DEF FirstsInv
<1>h. ASSUME pc[c] \in HoldingLabels
      PROVE  holding[c] = position - 1 /\ position - 1 \in Offsets
    <2>1. holding[c] \in Offsets /\ holding[c] # 0
        BY <1>t, <1>h, InHandIsRecord
    <2> QED
        BY <2>1 DEF CommitsInv
<1>kept. ASSUME UNCHANGED <<active_filter, filter_request, returned, kafka_log,
                            seen_signatures, crashes>>,
                Done(c)' = Done(c), Parsed(c)' = Parsed(c),
                pc'[c] \in {"filter", "skip"} => pc'[c] = pc[c] /\ holding'[c] = holding[c]
         PROVE  FirstsInv(c)'
    <2>1. \A n : FirstCopies(n)' = FirstCopies(n) /\ EventSigs(n)' = EventSigs(n)
        BY <1>kept DEF FirstCopies, EventSigs, Signature
    <2>2. /\ (ToSet(returned) = FirstCopies(Done(c) - 1))'
             <=> ToSet(returned) = FirstCopies(Done(c) - 1)
          /\ (seen_signatures = EventSigs(Parsed(c)))'
             <=> seen_signatures = EventSigs(Parsed(c))
          /\ Ascending(returned)' <=> Ascending(returned)
        BY <1>kept, <2>1 DEF FirstCopies, EventSigs, Signature
    <2>3. crashes' = 0 /\ pc'[c] \in {"filter", "skip"} =>
             (holding'[c] \in FirstCopies(holding[c])') <=>
             (holding[c] \in FirstCopies(holding[c]))
        BY <1>kept, <2>1 DEF FirstCopies, Signature
    <2> QED
        BY <1>kept, <2>2, <2>3 DEF FirstsInv
<1>same. ASSUME UNCHANGED kafka_log
         PROVE  \A n : FirstCopies(n)' = FirstCopies(n) /\ EventSigs(n)' = EventSigs(n)
    BY <1>same DEF FirstCopies, EventSigs, Signature
<1>1. ASSUME Produce \/ BrokerCommit \/ RequestFilter \/ SetFilter, UNCHANGED rmVars
      PROVE  FirstsInv(c)'
    <2>1. UNCHANGED <<active_filter, filter_request>>
        BY <1>1, <1>f
        DEF Produce, BrokerCommit, RequestFilter, SetFilter, filterVars, OptionalFilters
    <2> QED
        BY <1>1, <2>1, <1>kept, OutsideEffects DEF Done, Parsed, Unsettled
<1>2. ASSUME ClientStep(c)
      PROVE  FirstsInv(c)'
    <2>1. CASE EnterNextEvent(c) \/ ResourceCheck(c) \/ AppRetry(c) \/ RecvErr(c)
        BY <2>1, <1>kept, QuietClientStep DEF HoldingLabels, Done, Parsed, Unsettled
    <2>2. CASE Recv(c)
        <3>1. /\ UNCHANGED <<kafka_log, seen_signatures, active_filter, filter_request,
                             returned, crashes>>
              /\ pc[c] = "recv" /\ position' = position + 1 /\ pc'[c] = "parse"
            BY <2>2, RecordEffects
        <3>2. Done(c)' = Done(c) /\ Parsed(c)' = Parsed(c)
            BY <1>t, <3>1 DEF Done, Parsed, Unsettled
        <3> QED
            BY <1>kept, <3>1, <3>2
    <2>4. CASE CommitErr(c)
        BY <1>t, <2>4, RecordEffects
    <2>5. CASE AppHandle(c)
        <3>1. /\ UNCHANGED <<kafka_log, seen_signatures, active_filter, filter_request,
                             returned, crashes, position>>
              /\ pc[c] = "app" /\ pc'[c] = "out"
            BY <2>5, RecordEffects
        <3>2. Done(c)' = Done(c) /\ Parsed(c)' = Parsed(c)
            BY <3>1 DEF Done, Parsed, Unsettled
        <3> QED
            BY <1>kept, <3>1, <3>2
    <2>3. CASE InternalProcess(c)
        <3> DEFINE n == position - 2
        <3>1. /\ pc[c] = "parse" /\ pc'[c] \in {"filter", "skip"}
              /\ UNCHANGED <<kafka_log, position, holding, active_filter,
                             filter_request, returned, crashes>>
            BY <2>3, RecordEffects
        <3>2. /\ n \in Nat /\ n + 1 \in Offsets /\ holding[c] = n + 1
            <4>1. holding[c] = position - 1 /\ position - 1 \in Offsets
                BY <1>h, <3>1 DEF HoldingLabels
            <4> QED
                BY <1>t, <4>1 DEF Offsets
        <3>3. /\ \/ /\ pc'[c] = "filter" /\ kafka_log[n + 1].kind = "event"
                    /\ Signature(n + 1) \notin seen_signatures
                    /\ Remember(Signature(n + 1))
                 \/ /\ pc'[c] = "skip" /\ UNCHANGED seen_signatures
                    /\ \/ kafka_log[n + 1].kind # "event"
                       \/ Signature(n + 1) \in seen_signatures
            <4>1. c \in Tasks /\ pc \in [Tasks -> ConsumerLabels \cup WorkerLabels]
                BY DEF SCInv, ClientsOK, Tasks
            <4> HIDE DEF n
            <4> QED
                BY <2>3, <3>2, <4>1 DEF InternalProcess, Jump, Goto, Signature
        <3>4. kafka_log[n + 1].kind = "event" => Signature(n + 1) \in Sigs
            BY <1>t, <3>1, <3>2, InHandIsRecord DEF HoldingLabels
        <3> HIDE DEF n
        <3>5. crashes = 0 => seen_signatures = EventSigs(n)
            BY <3>1 DEF FirstsInv, Parsed, n
        <3>6. crashes = 0 => seen_signatures' = EventSigs(n + 1)
            <4>1. EventSigs(n + 1) = EventSigs(n)
                    \cup (IF kafka_log[n + 1].kind = "event" THEN {Signature(n + 1)}
                          ELSE {})
                BY <3>2, EventSigsGrow
            <4>2. CASE pc'[c] = "filter"
                <5>1. /\ Signature(n + 1) \in Sigs /\ Remember(Signature(n + 1))
                      /\ kafka_log[n + 1].kind = "event"
                    BY <3>3, <3>4, <4>2
                <5>2. seen_signatures' = seen_signatures \cup {Signature(n + 1)}
                    BY <1>t, <5>1, RememberBound
                <5> QED
                    BY <3>5, <4>1, <5>1, <5>2
            <4>3. CASE pc'[c] = "skip"
                BY <3>3, <3>5, <4>1, <4>3
            <4> QED
                BY <3>1, <4>2, <4>3
        <3>7. /\ crashes = 0 /\ pc'[c] = "filter" => n + 1 \in FirstCopies(n + 1)
              /\ crashes = 0 /\ pc'[c] = "skip" => n + 1 \notin FirstCopies(n + 1)
            BY <1>t, <3>2, <3>3, <3>5, FirstCopyUnseen
        <3>8. Done(c)' = Done(c) /\ Parsed(c)' = n + 1
            BY <1>t, <3>1 DEF Done, Parsed, Unsettled, n
        <3>9. (seen_signatures = EventSigs(Parsed(c)))' <=> seen_signatures' = EventSigs(n + 1)
            BY <1>same, <3>1, <3>8
        <3>10. /\ (holding[c] \in FirstCopies(holding[c]))' <=> n + 1 \in FirstCopies(n + 1)
               /\ (ToSet(returned) = FirstCopies(Done(c) - 1))'
                     <=> ToSet(returned) = FirstCopies(Done(c) - 1)
            BY <1>same, <3>1, <3>2, <3>8
        <3> QED
            BY <3>1, <3>6, <3>7, <3>9, <3>10 DEF FirstsInv
    <2>6. CASE CommitSkipped(c) \/ CommitAndReturn(c)
        <3> DEFINE n == position - 2
        <3>1. /\ pc[c] \in {"skip", "filter"} /\ pc'[c] \in {"gate", "app"}
              /\ UNCHANGED <<kafka_log, position, seen_signatures, active_filter,
                             filter_request, crashes>>
            BY <2>6, CommitEffect
        <3>2. /\ n \in Nat /\ n + 1 \in Offsets /\ holding[c] = n + 1
            <4>1. holding[c] = position - 1 /\ position - 1 \in Offsets
                BY <1>h, <3>1 DEF HoldingLabels
            <4> QED
                BY <1>t, <4>1 DEF Offsets
        <3>3. \/ pc[c] = "skip" /\ UNCHANGED returned
              \/ pc[c] = "filter" /\ returned' = Append(returned, n + 1)
            <4>1. CASE CommitAndReturn(c)
                BY <3>2, <4>1 DEF CommitAndReturn, Jump
            <4>2. CASE CommitSkipped(c)
                BY <1>f, <4>2 DEF CommitSkipped, PassesFilter, NoFilter, Jump
            <4> QED
                BY <2>6, <4>1, <4>2
        <3>4. crashes = 0 =>
                 /\ Ascending(returned) /\ ToSet(returned) = FirstCopies(n)
                 /\ pc[c] = "filter" => n + 1 \in FirstCopies(n + 1)
                 /\ pc[c] = "skip" => n + 1 \notin FirstCopies(n + 1)
            <4>1. Done(c) - 1 = n
                BY <1>t, <3>1 DEF Done, Unsettled
            <4> HIDE DEF n
            <4> QED
                BY <3>2, <4>1 DEF FirstsInv
        <3>5. Done(c)' - 1 = n + 1 /\ Parsed(c)' = Parsed(c)
            BY <1>t, <3>1 DEF Done, Parsed, Unsettled
        <3> HIDE DEF n
        <3>6. crashes = 0 => Ascending(returned') /\ ToSet(returned') = FirstCopies(n + 1)
            <4>1. CASE pc[c] = "skip"
                BY <3>2, <3>3, <3>4, <4>1, FirstCopiesGrow
            <4>2. CASE pc[c] = "filter" /\ crashes = 0
                <5>1. returned' = Append(returned, n + 1)
                    BY <3>3, <4>2
                <5>2. returned \in Seq(Int)
                    BY <1>t, SeqMonotonic DEF Offsets
                <5>3. ToSet(returned') = ToSet(returned) \cup {n + 1}
                    BY <1>t, <3>2, <5>1, AppendedQueue
                <5>4. AllBefore(ToSet(returned), {n + 1})
                    BY <3>2, <3>4, <4>2 DEF AllBefore, FirstCopies
                <5>5. Ascending(returned')
                    BY <3>2, <3>4, <4>2, <5>1, <5>2, <5>4, AppendKeepsOrder DEF AllBefore
                <5>6. FirstCopies(n + 1) = FirstCopies(n) \cup {n + 1}
                    BY <3>2, <3>4, <4>2, FirstCopiesGrow
                <5> QED
                    BY <3>4, <4>2, <5>3, <5>5, <5>6
            <4> QED
                BY <3>1, <4>1, <4>2
        <3>7. /\ (ToSet(returned) = FirstCopies(Done(c) - 1))'
                    <=> ToSet(returned') = FirstCopies(n + 1)
              /\ (seen_signatures = EventSigs(Parsed(c)))'
                    <=> seen_signatures = EventSigs(Parsed(c))
            BY <1>same, <3>1, <3>5
        <3> QED
            BY <3>1, <3>6, <3>7 DEF FirstsInv
    <2> QED
        BY <1>2, <2>1, <2>2, <2>3, <2>4, <2>5, <2>6 DEF ClientStep, ConsumeStep
<1>3. CASE Crash
    BY <1>3, <1>t DEF Crash, FirstsInv
<1>4. CASE UNCHANGED scAllVars
    BY <1>4, <1>kept DEF Done, Parsed, Unsettled, scAllVars, scVars, rmVars, brokerVars,
                         givenVars, filterVars, faultVars
<1> QED
    BY <1>1, <1>2, <1>3, <1>4 DEF SCNext

\* One client, no filter, no failed commit, a cache that is never cleared: until
\* the process first dies, what next_event has returned are exactly the first
\* copies of the events it has finished with, in the order of the log, whatever
\* else the log holds (consumer.rs:100, 113-171, 194-216).
THEOREM ReturnedFirstCopiesForOneClient ==
    ASSUME NEW client, Clients = {client}, MaxCommitErrors = 0, Filters = {},
           Cardinality(Sigs) <= DedupCapacity
    PROVE  SCSpec => []ReturnedFirstCopies
<1>1. SCInit => CommitsInv(client) /\ FirstsInv(client)
    <2> SUFFICES ASSUME SCInit PROVE FirstsInv(client)
        BY CommitsInit
    <2>1. Ascending(returned) /\ ToSet(returned) = {} /\ pc[client] = "out"
        BY EmptyQueue DEF SCInit, RMInit, StartLabels, Tasks
    <2>2. Done(client) - 1 = 0 /\ Parsed(client) = 0
        BY <2>1 DEF SCInit, Done, Parsed, Unsettled
    <2>3. FirstCopies(0) = {} /\ EventSigs(0) = {}
        BY DEF FirstCopies, EventSigs
    <2> QED
        BY <2>1, <2>2, <2>3 DEF SCInit, FirstsInv
<1>2. SCInv /\ CommitsInv(client) /\ FirstsInv(client) /\ [SCNext]_scAllVars
         => CommitsInv(client)' /\ FirstsInv(client)'
    BY CommitsStep, FirstsStep
<1>3. SCInv /\ FirstsInv(client) => ReturnedFirstCopies
    <2> SUFFICES ASSUME SCInv, FirstsInv(client), crashes = 0
                 PROVE  /\ Ascending(returned)
                        /\ ToSet(returned) =
                              FirstCopies(IF holding[client] = 0 \/ pc[client] = "app"
                                          THEN position - 1 ELSE position - 2)
        BY DEF ReturnedFirstCopies
    <2>1. /\ position \in Int
          /\ holding[client] # 0 <=> pc[client] \in HoldingLabels
        BY ConsumerAssumption DEF SCInv, RecordsOK
    <2>2. Done(client) - 1 = IF holding[client] = 0 \/ pc[client] = "app"
                             THEN position - 1 ELSE position - 2
        BY <2>1 DEF Done, Unsettled, HoldingLabels
    <2> QED
        BY <2>2 DEF FirstsInv
<1> QED
    BY <1>1, <1>2, <1>3, SCInvAlways, PTL DEF SCSpec
=============================================================================
