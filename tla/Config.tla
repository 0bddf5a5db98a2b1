-------------------------------- MODULE Config --------------------------------
(***************************************************************************)
(* src/src/config.rs as operators: the default configuration, the one      *)
(* Config::new makes of credentials, and validate().  Times are            *)
(* milliseconds, memory KiB, the threshold and multiplier percent; "uuid"   *)
(* stands for the identifier a process draws once.                         *)
(***************************************************************************)
EXTENDS Integers, Sequences

SslDefault ==
    [ca_cert |-> "certs/server.cer.pem", client_key |-> "certs/client.key.pem",
     client_cert |-> "certs/client.cer.pem"]

KafkaDefault ==
    [brokers |-> <<"rpk0", "rpk1", "rpk2">>, group_id |-> "solana_113-rust-sdk-uuid",
     username |-> "solana_113", password |-> "default",
     topics |-> <<"transactions", "dextrades", "tokens">>,
     enable_ssl |-> FALSE, ssl |-> SslDefault, auto_offset_reset |-> "latest"]

ProcessingDefault ==
    [parallel_workers |-> 1, buffer_size |-> 10000, batch_size |-> 100,
     batch_timeout |-> 500]

ResourcesDefault ==
    [max_memory_bytes |-> 4 * 1024 * 1024, max_messages_in_flight |-> 10000,
     max_queue_size |-> 50000, memory_check_interval |-> 1000,
     backpressure_threshold |-> 80]

RetryDefault ==
    [max_retries |-> 5, initial_delay |-> 100, max_delay |-> 30000, multiplier |-> 200]

DefaultConfig ==
    [kafka |-> KafkaDefault, processing |-> ProcessingDefault,
     resources |-> ResourcesDefault, retry |-> RetryDefault]

\* An empty suffix counts as none.
NewKafkaConfig(username, password, suffix) ==
    [KafkaDefault EXCEPT
       !.username = username, !.password = password,
       !.group_id = IF suffix = "" THEN username \o "-rust-sdk-uuid"
                                   ELSE username \o "-" \o suffix]

NewConfig(username, password, suffix) ==
    [DefaultConfig EXCEPT !.kafka = NewKafkaConfig(username, password, suffix)]
-----------------------------------------------------------------------------
(* validate(), where files are the paths that exist.                       *)

SslValid(ssl, files) == {ssl.ca_cert, ssl.client_key, ssl.client_cert} \subseteq files \ {""}

\* That the list of brokers is not empty says nothing about its members.
KafkaValid(k, files) ==
    /\ k.brokers # << >> /\ k.topics # << >>
    /\ k.username # "" /\ k.password # "" /\ k.group_id # ""
    /\ k.enable_ssl => SslValid(k.ssl, files)

ProcessingValid(p) ==
    p.parallel_workers # 0 /\ p.batch_size # 0 /\ p.buffer_size # 0

ResourcesValid(r) ==
    /\ r.max_memory_bytes # 0 /\ r.max_messages_in_flight # 0 /\ r.max_queue_size # 0
    /\ r.backpressure_threshold \in 10..100
    /\ r.memory_check_interval >= 100

RetryValid(r) ==
    /\ r.multiplier >= 100
    /\ r.max_retries > 0 => r.initial_delay <= r.max_delay

Valid(config, files) ==
    /\ KafkaValid(config.kafka, files) /\ ProcessingValid(config.processing)
    /\ ResourcesValid(config.resources) /\ RetryValid(config.retry)
=============================================================================
