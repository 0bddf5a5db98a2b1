---------------------------- MODULE StreamConsumer ----------------------------
(***************************************************************************)
(* consumer.rs: next_event, the loop that receives a Kafka record, parses  *)
(* it, drops duplicates, applies the filter, commits the offset and hands  *)
(* the event to its caller.                                                *)
(*                                                                         *)
(* Kafka is external: one partition, a log of records of which a prefix    *)
(* has been produced, the offset committed at the broker (the next one to  *)
(* read, 0 when the group has none) and asynchronous commits on their way. *)
(* A record is what parsing makes of it: an event with a signature, a      *)
(* record that cannot be parsed, or one of an unhandled topic.  A filter   *)
(* is the set of signatures of the events it lets through.                 *)
(*                                                                         *)
(* Any number of Clients may be inside next_event at once: client.rs takes *)
(* only the read side of its RwLock.  set_filter takes the write side.     *)
(***************************************************************************)
EXTENDS ResourceManager, EventOrder

CONSTANTS
    Sigs,            \* transaction signatures
    LogLength,       \* bound: how many records are ever produced
    Filters,         \* the filters set_filter is called with
    DedupCapacity,   \* buffer_size.max(100_000)
    Deployments,     \* [stable_group, offset_reset]: whether the group id
                     \* survives a restart (a suffix is configured), and
                     \* auto.offset.reset, "earliest" or "latest"
    MaxRecvErrors,   \* bound: failures of recv()
    MaxCommitErrors, \* bound: failures of commit_message()
    MaxCrashes       \* bound: crashes of the process

NoSig == "no signature"

ASSUME ConsumerAssumption ==
    /\ LogLength \in Nat
    /\ IsFiniteSet(Sigs) /\ NoSig \notin Sigs
    /\ Filters \subseteq SUBSET Sigs
    /\ DedupCapacity \in Nat \ {0}
    /\ Deployments \subseteq
          [stable_group : BOOLEAN, offset_reset : {"earliest", "latest"}]
    /\ MaxRecvErrors \in Nat /\ MaxCommitErrors \in Nat /\ MaxCrashes \in Nat

Offsets == 1..LogLength

\* Option<EventFilter>: None is the empty set, Some(f) is {f}.
NoFilter == {}
OptionalFilters == {NoFilter} \cup {{f} : f \in Filters}

Records == [kind : {"event"}, sig : Sigs]
              \cup [kind : {"unparsable", "unhandled"}, sig : {NoSig}]

VARIABLES
    deployment,
    kafka_log,        \* the records, by offset
    high_watermark,   \* how many of them have been produced
    committed,        \* offset committed at the broker, 0 if none
    commit_queue,     \* asynchronous commits not yet at the broker
    position,         \* the next offset recv() returns
    holding,          \* the record each client works on, 0 if none
    seen_signatures,  \* seen_signatures_cache
    active_filter,    \* active_event_filter
    filter_request,   \* the filter a set_filter call waits to install
    returned,         \* history: offsets next_event returned, in this process
    settled,          \* history: offsets returned or skipped, in any process
    recv_errors, commit_errors, crashes

givenVars == <<deployment, kafka_log>>
brokerVars == <<givenVars, high_watermark, committed>>
filterVars == <<active_filter, filter_request>>
faultVars == <<recv_errors, commit_errors, crashes>>
scVars == <<brokerVars, commit_queue, position, holding, seen_signatures,
            filterVars, returned, settled, faultVars>>
scAllVars == <<rmVars, scVars>>

Signature(o) == kafka_log[o].sig

SCInit ==
    /\ RMInit
    /\ deployment \in Deployments /\ kafka_log \in [Offsets -> Records]
    /\ high_watermark = 0 /\ committed = 0 /\ commit_queue = <<>>
    /\ position = 1
    /\ holding = [c \in Clients |-> 0]
    /\ seen_signatures = {}
    /\ active_filter = NoFilter /\ filter_request = NoFilter
    /\ returned = <<>> /\ settled = {}
    /\ recv_errors = 0 /\ commit_errors = 0 /\ crashes = 0
-----------------------------------------------------------------------------
(* Kafka.                                                                  *)

Produce ==
    /\ high_watermark < LogLength
    /\ high_watermark' = high_watermark + 1
    /\ UNCHANGED <<givenVars, committed, commit_queue, position, holding,
                   seen_signatures, filterVars, returned, settled,
                   faultVars>>

\* The broker takes commits in the order they were sent, whatever they say.
BrokerCommit ==
    /\ commit_queue # <<>>
    /\ committed' = Head(commit_queue)
    /\ commit_queue' = Tail(commit_queue)
    /\ UNCHANGED <<givenVars, high_watermark, position, holding,
                   seen_signatures, filterVars, returned, settled,
                   faultVars>>
-----------------------------------------------------------------------------
(* next_event, from recv() on; the gate and the resource check before it   *)
(* are CheckStep of ResourceManager.                                       *)

Recv(c) ==
    /\ Jump(c, "recv", "parse")
    /\ position <= high_watermark
    /\ holding' = [holding EXCEPT ![c] = position]
    /\ position' = position + 1
    /\ UNCHANGED <<brokerVars, commit_queue, seen_signatures, filterVars,
                   returned, settled, faultVars>>

\* recv() failed: next_event returns Err.
RecvErr(c) ==
    /\ Jump(c, "recv", "failed")
    /\ recv_errors < MaxRecvErrors
    /\ recv_errors' = recv_errors + 1
    /\ UNCHANGED <<brokerVars, commit_queue, position, holding, seen_signatures,
                   filterVars, returned, settled, commit_errors,
                   crashes>>

\* insert() under the cache's lock; a cache over capacity is cleared.
Remember(sig) ==
    LET cache == seen_signatures \cup {sig} IN
    seen_signatures' = IF Cardinality(cache) > DedupCapacity THEN {sig}
                       ELSE cache

\* Mutant: the cache is filled and never consulted.
InternalProcess_NoDedup(c) ==
    LET record == kafka_log[holding[c]] IN
    /\ \/ /\ Jump(c, "parse", "filter")
          /\ record.kind = "event"
          /\ Remember(record.sig)
       \/ /\ Jump(c, "parse", "skip")
          /\ record.kind # "event"
          /\ UNCHANGED seen_signatures
    /\ UNCHANGED <<brokerVars, commit_queue, position, holding, filterVars,
                   returned, settled, faultVars>>

\* internal_process_kafka_message: only a parsed event that is not a
\* duplicate goes on to the filter; everything else is committed and skipped.
InternalProcess(c) ==
    LET record == kafka_log[holding[c]] IN
    /\ \/ /\ Jump(c, "parse", "filter")
          /\ record.kind = "event" /\ record.sig \notin seen_signatures
          /\ Remember(record.sig)
       \/ /\ Jump(c, "parse", "skip")
          /\ record.kind # "event" \/ record.sig \in seen_signatures
          /\ UNCHANGED seen_signatures
    /\ UNCHANGED <<brokerVars, commit_queue, position, holding, filterVars,
                   returned, settled, faultVars>>

PassesFilter(o) == \A f \in active_filter : Signature(o) \in f

\* Mutant: the offset of the record itself is committed.
CommitKafkaOffset_Same(o) ==
    /\ commit_queue' = Append(commit_queue, o)
    /\ settled' = settled \cup {o}

\* Mutant: one record more than the one at hand is committed.
CommitKafkaOffset_Ahead(o) ==
    /\ commit_queue' = Append(commit_queue, o + 2)
    /\ settled' = settled \cup {o}

\* Mutant: a commit may overtake the ones sent before it.
CommitKafkaOffset_Overtakes(o) ==
    /\ commit_queue' = <<o + 1>> \o commit_queue
    /\ settled' = settled \cup {o}

\* commit_message(.., Async) sends the next offset to read.
CommitKafkaOffset(o) ==
    /\ commit_queue' = Append(commit_queue, o + 1)
    /\ settled' = settled \cup {o}

\* The record yields no event: commit it and go round the loop.
CommitSkipped(c) ==
    /\ \/ Jump(c, "skip", "gate")
       \/ Jump(c, "filter", "gate") /\ ~PassesFilter(holding[c])
    /\ CommitKafkaOffset(holding[c])
    /\ holding' = [holding EXCEPT ![c] = 0]
    /\ UNCHANGED <<brokerVars, position, seen_signatures, filterVars, returned,
                   faultVars>>

\* The event is new and passes the filter: commit it, then return it.
CommitAndReturn(c) ==
    /\ Jump(c, "filter", "app")
    /\ PassesFilter(holding[c])
    /\ CommitKafkaOffset(holding[c])
    /\ returned' = Append(returned, holding[c])
    /\ UNCHANGED <<brokerVars, position, holding, seen_signatures, filterVars,
                   faultVars>>

\* commit_message failed: the `?` returns Err and drops the event.
CommitErr(c) ==
    /\ Jump(c, "skip", "failed") \/ Jump(c, "filter", "failed")
    /\ commit_errors < MaxCommitErrors
    /\ commit_errors' = commit_errors + 1
    /\ holding' = [holding EXCEPT ![c] = 0]
    /\ UNCHANGED <<brokerVars, commit_queue, position, seen_signatures,
                   filterVars, returned, settled, recv_errors, crashes>>
-----------------------------------------------------------------------------
(* The callers: set_filter, the application's loop, the process.           *)

InsideNextEvent(c) == pc[c] \notin {"out", "app", "failed"}

\* A set_filter call queues for the write lock of client.rs.
RequestFilter ==
    /\ filter_request = NoFilter
    /\ filter_request' \in OptionalFilters \ {NoFilter, active_filter}
    /\ UNCHANGED <<brokerVars, commit_queue, position, holding, seen_signatures,
                   active_filter, returned, settled, faultVars>>

\* It gets the lock when no client is inside next_event.
SetFilter ==
    /\ filter_request # NoFilter
    /\ \A c \in Clients : ~InsideNextEvent(c)
    /\ active_filter' = filter_request
    /\ filter_request' = NoFilter
    /\ UNCHANGED <<brokerVars, commit_queue, position, holding, seen_signatures,
                   returned, settled, faultVars>>

\* A waiting writer keeps new readers out: tokio's RwLock is fair.
EnterNextEvent(c) ==
    /\ CallNextEvent(c)
    /\ filter_request = NoFilter
    /\ UNCHANGED scVars

ResourceCheck(c) == CheckStep(c) /\ UNCHANGED scVars

\* run_service handles the event it was given and asks for the next one.
AppHandle(c) ==
    /\ Jump(c, "app", "out")
    /\ holding' = [holding EXCEPT ![c] = 0]
    /\ UNCHANGED <<brokerVars, commit_queue, position, seen_signatures,
                   filterVars, returned, settled, faultVars>>

\* Mutant: an Err ends the service's loop.
AppRetry_Stops(c) == Jump(c, "failed", "failed") /\ UNCHANGED scVars

\* run_service logs an Err, sleeps and calls next_event again.
AppRetry(c) == Jump(c, "failed", "out") /\ UNCHANGED scVars

\* Mutant: a group with a committed offset also starts at the end.
Crash_AtEnd ==
    /\ crashes < MaxCrashes
    /\ crashes' = crashes + 1
    /\ messages_in_flight' = 0
    /\ current_memory_estimate_bytes' = 0
    /\ backpressure_active_signals' = 0
    /\ pc' = StartLabels
    /\ local' = [t \in Tasks |-> NoLocals]
    /\ batch_len' = [w \in Workers |-> 0]
    /\ committed' = IF deployment.stable_group THEN committed ELSE 0
    /\ position' = IF deployment.offset_reset = "earliest" THEN 1
                   ELSE high_watermark + 1
    /\ commit_queue' = <<>>
    /\ holding' = [c \in Clients |-> 0]
    /\ seen_signatures' = {}
    /\ active_filter' = NoFilter /\ filter_request' = NoFilter
    /\ returned' = <<>>
    /\ UNCHANGED <<givenVars, high_watermark, settled, recv_errors,
                   commit_errors>>

\* The process dies and starts again: everything but the broker is reset.  A
\* group without a committed offset starts where auto.offset.reset says; with
\* the default configuration the group id is new, so it never has one.
Crash ==
    /\ crashes < MaxCrashes
    /\ crashes' = crashes + 1
    /\ messages_in_flight' = 0
    /\ current_memory_estimate_bytes' = 0
    /\ backpressure_active_signals' = 0
    /\ pc' = StartLabels
    /\ local' = [t \in Tasks |-> NoLocals]
    /\ batch_len' = [w \in Workers |-> 0]
    /\ committed' = IF deployment.stable_group THEN committed ELSE 0
    /\ position' = IF committed' # 0 THEN committed'
                   ELSE IF deployment.offset_reset = "earliest" THEN 1
                   ELSE high_watermark + 1
    /\ commit_queue' = <<>>
    /\ holding' = [c \in Clients |-> 0]
    /\ seen_signatures' = {}
    /\ active_filter' = NoFilter /\ filter_request' = NoFilter
    /\ returned' = <<>>
    /\ UNCHANGED <<givenVars, high_watermark, settled, recv_errors,
                   commit_errors>>
-----------------------------------------------------------------------------
ConsumeStep(c) ==
    \/ Recv(c)
    \/ RecvErr(c)
    \/ InternalProcess(c)
    \/ CommitSkipped(c)
    \/ CommitAndReturn(c)
    \/ CommitErr(c)

\* No batch worker runs beside the clients here, so the check never holds one
\* back; Pipeline adds the workers and the delay.
ClientStep(c) ==
    \/ EnterNextEvent(c)
    \/ ResourceCheck(c)
    \/ ConsumeStep(c)
    \/ AppHandle(c)
    \/ AppRetry(c)

SCNext ==
    \/ (Produce \/ BrokerCommit \/ RequestFilter \/ SetFilter) /\ UNCHANGED rmVars
    \/ \E c \in Clients : ClientStep(c)
    \/ Crash

SCSpec == SCInit /\ [][SCNext]_scAllVars

\* The runtime runs every client, the records arrive, the broker answers and
\* a writer that can have the lock gets it.  Faults and crashes are never due.
SCFairness ==
    /\ WF_scAllVars(Produce /\ UNCHANGED rmVars)
    /\ WF_scAllVars(BrokerCommit /\ UNCHANGED rmVars)
    /\ WF_scAllVars(SetFilter /\ UNCHANGED rmVars)
    /\ \A c \in Clients : WF_scAllVars(ClientStep(c))

SCFairSpec == SCSpec /\ SCFairness
-----------------------------------------------------------------------------
ConsumerLabels == ClientLabels \cup {"parse", "skip", "filter", "app", "failed"}

\* Every variable keeps its type; a client holds a record exactly while it
\* processes it, and the dedup cache never exceeds its capacity.
SCTypeOK ==
    /\ \A c \in Clients : pc[c] \in ConsumerLabels
    /\ deployment \in Deployments /\ kafka_log \in [Offsets -> Records]
    /\ high_watermark \in 0..LogLength
    /\ committed \in 0..(LogLength + 1)
    /\ commit_queue \in Seq(2..(LogLength + 1))
    /\ position \in 1..(LogLength + 1)
    /\ holding \in [Clients -> 0..LogLength]
    /\ \A c \in Clients :
          holding[c] # 0 <=> pc[c] \in {"parse", "skip", "filter", "app"}
    /\ seen_signatures \subseteq Sigs
    /\ Cardinality(seen_signatures) <= DedupCapacity
    /\ active_filter \in OptionalFilters
    /\ filter_request \in OptionalFilters
    /\ returned \in Seq(Offsets)
    /\ settled \subseteq Offsets
    /\ recv_errors \in 0..MaxRecvErrors
    /\ commit_errors \in 0..MaxCommitErrors
    /\ crashes \in 0..MaxCrashes

\* "a new, valid, non-duplicate, and non-filtered event" (consumer.rs:100):
\* while the cache is not cleared no signature is returned twice by one
\* process, however many clients are inside next_event.
NoDuplicateReturn ==
    Cardinality(Sigs) <= DedupCapacity =>
        \A i, j \in DOMAIN returned :
            Signature(returned[i]) = Signature(returned[j]) => i = j

\* The first record of every signature, as a function of the log alone.
FirstCopies(n) ==
    {o \in 1..n : /\ kafka_log[o].kind = "event"
                  /\ \A p \in 1..(o - 1) : Signature(p) # Signature(o)}

\* With one client and no filter, what next_event has returned is exactly the
\* first copy of every event received and finished with, in log order.
ReturnedFirstCopies ==
    crashes = 0 =>
        /\ Ascending(returned)
        /\ \A c \in Clients :
              ToSet(returned) = FirstCopies(IF holding[c] = 0 \/ pc[c] = "app"
                                            THEN position - 1 ELSE position - 2)

\* Behind the consumer, but neither returned nor skipped nor in hand.
Missed == {o \in 1..(position - 1) :
              o \notin settled /\ \A c \in Clients : holding[c] # o}

\* A record is missed by one kind of step only: a restart that begins at the end
\* of the topic ("latest", the default) for want of a committed offset, under a
\* new group id (also the default) or before the first commit has arrived
\* (config.rs:104, 158, 169; client.rs:235-239).  Any other death of the process,
\* between whatever two steps, misses none.
OnlyRestartMisses ==
    [][Missed' \subseteq Missed
          \/ /\ crashes' > crashes
             /\ deployment.offset_reset = "latest"
             /\ ~deployment.stable_group \/ committed = 0]_scAllVars

\* The broker's offset passes no event of which no copy was returned or
\* skipped: one whose commit failed can still be read again after a restart
\* ("This might lead to reprocessing", consumer.rs:167).
CommitCoversSettled ==
    deployment.offset_reset = "earliest" =>
        \A o \in 1..(committed - 1) :
            kafka_log[o].kind = "event" =>
                \E p \in settled : Signature(p) = Signature(o)

\* The committed offset of a group never moves back: only a restart into a new
\* group finds none.
CommitMonotone ==
    [][\/ committed' >= committed
       \/ crashes' > crashes /\ ~deployment.stable_group]_scAllVars

\* Every record that is produced is returned, skipped, or missed by a restart,
\* through receive errors and crashes.
RecordsSettled ==
    \A o \in Offsets : high_watermark >= o ~> o \in settled \cup Missed
=============================================================================
