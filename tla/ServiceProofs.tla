---------------------------- MODULE ServiceProofs ----------------------------
(***************************************************************************)
(* Proofs about the service process and the registry of metrics: what is   *)
(* validated is what is started with, the liveness probe says OK from the  *)
(* end of the health check on, a counter goes back only by an insertion of *)
(* a task that had not recorded it, and a summary never shows more trades  *)
(* of its pairs than trades.                                               *)
(***************************************************************************)
EXTENDS Service, SequenceTheorems, FiniteSetTheorems, TLAPS

-----------------------------------------------------------------------------
(* Start-up.                                                               *)

\* The configuration from its environment, field by field.
LEMMA Overridden ==
    ASSUME NEW e \in Environments, NEW c,
           c = apply_environment_overrides(DefaultConfig, e)
    PROVE  /\ c.processing = ProcessingDefault /\ c.resources = ResourcesDefault
           /\ c.retry = RetryDefault
           /\ c.kafka.brokers = BrokersFrom(e.brokers, KafkaDefault.brokers)
           /\ c.kafka.username = Given(e.username, KafkaDefault.username)
           /\ c.kafka.password = Given(e.password, KafkaDefault.password)
           /\ c.kafka.group_id = Given(e.group_id, KafkaDefault.group_id)
           /\ c.kafka.topics = IF e.topic = "" THEN KafkaDefault.topics ELSE <<e.topic>>
           /\ c.kafka.enable_ssl = FALSE
           /\ c = [x \in DOMAIN c |-> c[x]] /\ "kafka" \in DOMAIN c
           /\ c.kafka = [x \in DOMAIN c.kafka |-> c.kafka[x]]
<1> DEFINE k == [KafkaDefault EXCEPT
                    !.username = Given(e.username, KafkaDefault.username),
                    !.password = Given(e.password, KafkaDefault.password),
                    !.brokers = BrokersFrom(e.brokers, KafkaDefault.brokers),
                    !.topics = IF e.topic = "" THEN KafkaDefault.topics ELSE <<e.topic>>,
                    !.group_id = Given(e.group_id, KafkaDefault.group_id)]
<1>1. /\ DefaultConfig.kafka = KafkaDefault /\ "kafka" \in DOMAIN DefaultConfig
      /\ DefaultConfig = [x \in DOMAIN DefaultConfig |-> DefaultConfig[x]]
    BY DEF DefaultConfig
<1>2. c = [DefaultConfig EXCEPT !.kafka = k]
    BY <1>1 DEF apply_environment_overrides
<1>3. /\ k.brokers = BrokersFrom(e.brokers, KafkaDefault.brokers)
      /\ k.username = Given(e.username, KafkaDefault.username)
      /\ k.password = Given(e.password, KafkaDefault.password)
      /\ k.group_id = Given(e.group_id, KafkaDefault.group_id)
      /\ k.topics = IF e.topic = "" THEN KafkaDefault.topics ELSE <<e.topic>>
      /\ k.enable_ssl = FALSE /\ k = [x \in DOMAIN k |-> k[x]]
    BY DEF KafkaDefault
<1> HIDE DEF k
<1>4. /\ c.kafka = k /\ c.processing = ProcessingDefault
      /\ c.resources = ResourcesDefault /\ c.retry = RetryDefault
      /\ c = [x \in DOMAIN c |-> c[x]] /\ "kafka" \in DOMAIN c
    BY <1>2 DEF DefaultConfig
<1> QED
    BY <1>3, <1>4

\* The second copy of the overrides changes nothing, applied twice.
LEMMA OverriddenAgain ==
    ASSUME NEW e \in Environments, NEW c,
           c = apply_environment_overrides(DefaultConfig, e)
    PROVE  start_overrides(c, e) = c
<1>1. /\ Given(e.username, c.kafka.username) = c.kafka.username
      /\ Given(e.password, c.kafka.password) = c.kafka.password
      /\ BrokersFrom(e.brokers, c.kafka.brokers) = c.kafka.brokers
    BY Overridden DEF Given, BrokersFrom
<1>2. start_overrides(c, e) = [c EXCEPT !.kafka.username = c.kafka.username,
          !.kafka.password = c.kafka.password, !.kafka.brokers = c.kafka.brokers]
    BY <1>1 DEF start_overrides
<1>3. \A f : f = [x \in DOMAIN f |-> f[x]] /\ "kafka" \in DOMAIN f
               /\ f.kafka = [x \in DOMAIN f.kafka |-> f.kafka[x]] =>
          f = [f EXCEPT !.kafka.username = f.kafka.username,
                        !.kafka.password = f.kafka.password,
                        !.kafka.brokers = f.kafka.brokers]
    OBVIOUS
<1>4. /\ c = [x \in DOMAIN c |-> c[x]] /\ "kafka" \in DOMAIN c
      /\ c.kafka = [x \in DOMAIN c.kafka |-> c.kafka[x]]
    BY Overridden
<1> DEFINE k == c.kafka
<1>5. k = [x \in DOMAIN k |-> k[x]] /\ k = c.kafka
    BY <1>4
<1> HIDE DEF k
<1>6. c = [c EXCEPT !.kafka.username = k.username, !.kafka.password = k.password,
                    !.kafka.brokers = k.brokers]
    BY <1>4, <1>5
<1> QED
    BY <1>2, <1>6 DEF k

\* No environment makes the configuration invalid.
LEMMA OverriddenValid ==
    ASSUME NEW e \in Environments, NEW c,
           c = apply_environment_overrides(DefaultConfig, e)
    PROVE  Valid(c, Files)
<1>1. c.kafka.brokers # << >>
    <2>1. c.kafka.brokers = BrokersFrom(e.brokers, KafkaDefault.brokers)
        BY Overridden
    <2>2. CASE e.brokers = << >>
        BY <2>1, <2>2 DEF BrokersFrom, KafkaDefault
    <2>3. CASE e.brokers # << >>
        <3>1. e.brokers \in Seq([name : STRING, padded : BOOLEAN])
            BY ServiceAssumption
        <3>2. Len(e.brokers) \in Nat \ {0} /\ DOMAIN e.brokers = 1..Len(e.brokers)
            BY <2>3, <3>1, EmptySeq, LenProperties
        <3>3. 1 \in DOMAIN c.kafka.brokers
            BY <2>1, <2>3, <3>2 DEF BrokersFrom
        <3> QED
            BY <3>3
    <2> QED
        BY <2>2, <2>3
<1>2. KafkaValid(c.kafka, Files)
    <2>1. /\ c.kafka.username # "" /\ c.kafka.password # "" /\ c.kafka.group_id # ""
          /\ c.kafka.topics # << >> /\ ~c.kafka.enable_ssl
        <3>1. /\ KafkaDefault.username # "" /\ KafkaDefault.password # ""
              /\ KafkaDefault.group_id # "" /\ KafkaDefault.topics # << >>
            BY DEF KafkaDefault
        <3>2. <<e.topic>> # << >>
            OBVIOUS
        <3>3. c.kafka.topics # << >>
            BY <3>1, <3>2, Overridden
        <3>4. c.kafka.username # "" /\ c.kafka.password # "" /\ c.kafka.group_id # ""
            <4>1. \A value, default : default # "" => Given(value, default) # ""
                BY DEF Given
            <4>2. /\ c.kafka.username = Given(e.username, KafkaDefault.username)
                  /\ c.kafka.password = Given(e.password, KafkaDefault.password)
                  /\ c.kafka.group_id = Given(e.group_id, KafkaDefault.group_id)
                BY Overridden
            <4> QED
                BY <3>1, <4>1, <4>2
        <3>5. ~c.kafka.enable_ssl
            BY Overridden
        <3> QED
            BY <3>3, <3>4, <3>5
    <2> QED
        BY <1>1, <2>1 DEF KafkaValid
<1>3. /\ ProcessingValid(c.processing) /\ ResourcesValid(c.resources)
      /\ RetryValid(c.retry)
    <2>1. /\ c.processing = ProcessingDefault /\ c.resources = ResourcesDefault
          /\ c.retry = RetryDefault
        BY Overridden
    <2> QED
        BY <2>1 DEF ProcessingValid, ProcessingDefault, ResourcesValid, ResourcesDefault,
                    RetryValid, RetryDefault
<1> QED
    BY <1>2, <1>3 DEF Valid

StartInv ==
    /\ env \in Environments
    /\ cli.command # "embedded" =>
          /\ phase \in {"check", "start", "create", "subscribe", "run"} =>
                config = apply_environment_overrides(DefaultConfig, env)

\* For all environments and command lines, the configuration that "validate"
\* and "--dry-run" judge is the one the service is started with, and it is
\* valid (main.rs validate_configuration, start_service).
THEOREM CheckPredictsStartAlways == ServiceSpec => []CheckPredictsStart
<1>1. ServiceInit => StartInv
    BY DEF ServiceInit, ProcessInit, StartInv
<1>2. StartInv /\ [ServiceNext]_serviceVars => StartInv'
    <2> SUFFICES ASSUME StartInv, [ServiceNext]_serviceVars PROVE StartInv'
        OBVIOUS
    <2>1. CASE UNCHANGED <<phase, cli, env, config>>
        BY <2>1 DEF StartInv
    <2>2. CASE /\ phase' = "exited" /\ UNCHANGED <<cli, env, config>>
        BY <2>2 DEF StartInv
    <2>3. CASE Startup
        <3>1. CASE InitSdk
            BY <3>1 DEF StartInv, InitSdk, Exit, Stays
        <3>2. CASE LoadConfiguration
            BY <3>2 DEF StartInv, LoadConfiguration, Stays
        <3>3. CASE ValidateOnly
            BY <3>3 DEF StartInv, ValidateOnly, Exit, Stays
        <3>4. CASE StartService
            BY <3>4, OverriddenAgain DEF StartInv, StartService, Stays
        <3>5. CASE NewClient
            BY <3>5 DEF StartInv, NewClient, Exit, Stays
        <3>6. CASE StartClient
            BY <3>6 DEF StartInv, StartClient, Exit
        <3> QED
            BY <2>3, <3>1, <3>2, <3>3, <3>4, <3>5, <3>6 DEF Startup
    <2>4. CASE RunService \/ NextEvent \/ Bind \/ Scrape
        BY <2>1, <2>4 DEF RunService, StartHealthCheck, CheckNext, HealthChecked, SleepEnds,
                          Registry, NextEvent, Bind, Scrape, Same, processVars
    <2>5. CASE Registry(server_task) \/ UNCHANGED serviceVars
        BY <2>1, <2>5 DEF Registry, processVars, serviceVars
    <2>6. CASE ShutdownSignal \/ ServerEnded
        BY <2>2, <2>6 DEF ShutdownSignal, ServerEnded, MainReturns, Exit
    <2> QED
        BY <2>3, <2>4, <2>5, <2>6 DEF ServiceNext
<1>3. StartInv => CheckPredictsStart
    BY OverriddenValid DEF StartInv, CheckPredictsStart
<1> QED
    BY <1>1, <1>2, <1>3, PTL DEF ServiceSpec

-----------------------------------------------------------------------------
(* The liveness probe.                                                     *)

HealthyAnswers ==
    [checker : {default_checkers[i] : i \in 1..3}, status : {"Healthy"}]

\* Every checker of the service answers Healthy, and only main checks.
AliveInv ==
    /\ checkers = default_checkers
    /\ condition = [c \in CustomCheckers |-> "Healthy"]
    /\ DOMAIN check_call = HealthTasks
    /\ check_call[main] = NoCheck \/ check_call[main].overall = "Healthy"
    /\ check_call[main].asked \in Seq(HealthyAnswers)
    /\ last_report = << >> <=> loop_at \in {"start", "checking"}
    /\ last_report # << >> => last_report[1].status = "Healthy"

LEMMA AnswersHealthy ==
    ASSUME condition = [c \in CustomCheckers |-> "Healthy"], NEW i \in 1..3
    PROVE  Answer(default_checkers[i]) = "Healthy"
<1> DEFINE c == default_checkers[i]
<1>1. \/ c.name = "kafka" /\ c.limit = 1000
      \/ c.name = "circuit_breaker"
      \/ c.name = "system_resources" /\ c.limit = 1024
    BY DEF default_checkers, Checker
<1> HIDE DEF c
<1>2. c \in CustomCheckers => condition[c] = "Healthy"
    OBVIOUS
<1>3. c.name = "kafka" => ~(consumer_lag > c.limit)
    BY <1>1 DEF consumer_lag
<1>4. c.name = "system_resources" => ~(memory_used_mb > c.limit)
    BY <1>1 DEF memory_used_mb
<1>5. Answer(c) = "Healthy"
    BY <1>2, <1>3, <1>4 DEF Answer
<1> QED
    BY <1>5 DEF c

LEMMA CheckStepHealthy ==
    ASSUME AliveInv, CheckComponent(main)
    PROVE  UNCHANGED loop_at => AliveInv'
<1> DEFINE call == check_call[main]
           n == Len(call.asked) + 1
           c == checkers[n]
           next == [asked |-> Append(call.asked, [checker |-> c, status |-> Answer(c)]),
                    overall |-> OverallAfter(call.overall, Answer(c), c.critical)]
<1>1. /\ call # NoCheck /\ call.overall = "Healthy" /\ Len(call.asked) < Len(checkers)
      /\ check_call' = [check_call EXCEPT ![main] = next]
      /\ call.asked \in Seq(HealthyAnswers)
      /\ UNCHANGED <<checkers, condition, last_report>>
    BY DEF AliveInv, CheckComponent
<1>2. n \in 1..3
    <2>1. Len(checkers) = 3
        BY DEF AliveInv, default_checkers
    <2>2. Len(call.asked) \in Nat
        BY <1>1, LenProperties
    <2> QED
        BY <1>1, <2>1, <2>2
<1>3. c = default_checkers[n] /\ Answer(c) = "Healthy"
    BY <1>2, AnswersHealthy DEF AliveInv
<1>4. next.overall = "Healthy"
    BY <1>1, <1>3 DEF OverallAfter
<1>5. next.asked \in Seq(HealthyAnswers)
    <2>1. [checker |-> c, status |-> Answer(c)] \in HealthyAnswers
        BY <1>2, <1>3 DEF HealthyAnswers
    <2> QED
        BY <1>1, <2>1, AppendProperties
<1> HIDE DEF next
<1>6. /\ check_call'[main] = next /\ DOMAIN check_call' = HealthTasks
    BY <1>1, ServiceAssumption DEF AliveInv
<1> QED
    BY <1>1, <1>4, <1>5, <1>6 DEF AliveInv

\* For all configurations, command lines and registries, a probe of the
\* listening server is answered OK exactly from the end of the health check
\* on (main.rs run_service, http_server.rs liveness_handler).
THEOREM AliveIffCheckedAlways == ServiceSpec => []AliveIffChecked
<1>1. ServiceInit => AliveInv
    <2> SUFFICES ASSUME ServiceInit PROVE AliveInv
        OBVIOUS
    <2>1. /\ check_call[main] = NoCheck /\ NoCheck.asked = << >>
          /\ DOMAIN check_call = HealthTasks
        BY ServiceAssumption DEF ServiceInit, HealthInit, NoCheck
    <2>2. << >> \in Seq(HealthyAnswers)
        BY EmptySeq
    <2> QED
        BY <2>1, <2>2 DEF ServiceInit, HealthInit, ProcessInit, AliveInv
<1>2. AliveInv /\ [ServiceNext]_serviceVars => AliveInv'
    <2> SUFFICES ASSUME AliveInv, [ServiceNext]_serviceVars PROVE AliveInv'
        OBVIOUS
    <2>1. CASE /\ UNCHANGED healthVars
               /\ loop_at' \in {"start", "checking"} <=> loop_at \in {"start", "checking"}
        BY <2>1 DEF AliveInv, healthVars
    <2>2. CASE Startup
        BY <2>1, <2>2 DEF Startup, InitSdk, LoadConfiguration, ValidateOnly, StartService,
                          NewClient, StartClient, Stays
    <2>3. CASE StartHealthCheck
        <3>1. /\ check_call' = [check_call EXCEPT ![main] =
                                   [asked |-> << >>, overall |-> "Healthy"]]
              /\ UNCHANGED <<checkers, condition, last_report>>
              /\ loop_at = "start" /\ loop_at' = "checking"
            BY <2>3 DEF StartHealthCheck, StartCheck
        <3>2. /\ check_call'[main].overall = "Healthy" /\ check_call'[main].asked = << >>
              /\ DOMAIN check_call' = HealthTasks
            BY <3>1, ServiceAssumption DEF AliveInv
        <3>3. << >> \in Seq(HealthyAnswers)
            BY EmptySeq
        <3> QED
            BY <3>1, <3>2, <3>3 DEF AliveInv
    <2>4. CASE CheckNext
        BY <2>4, CheckStepHealthy DEF CheckNext
    <2>5. CASE HealthChecked
        <3>1. /\ check_call[main] # NoCheck /\ loop_at' = "receiving"
              /\ last_report' = <<[status |-> check_call[main].overall,
                                   components |-> check_call[main].asked]>>
              /\ check_call' = [check_call EXCEPT ![main] = NoCheck]
              /\ UNCHANGED <<checkers, condition>>
            BY <2>5 DEF HealthChecked, SaveReport
        <3>2. /\ check_call'[main] = NoCheck /\ DOMAIN check_call' = HealthTasks
              /\ NoCheck.asked \in Seq(HealthyAnswers)
            BY <3>1, ServiceAssumption, EmptySeq DEF AliveInv, NoCheck
        <3>3. last_report'[1].status = "Healthy" /\ last_report' # << >>
            BY <3>1 DEF AliveInv
        <3> QED
            BY <3>1, <3>2, <3>3 DEF AliveInv
    <2>6. CASE SleepEnds \/ NextEvent
        BY <2>1, <2>6 DEF SleepEnds, NextEvent
    <2>7. CASE \/ Registry(main) \/ Registry(server_task) \/ Bind \/ Scrape
               \/ UNCHANGED serviceVars
        BY <2>1, <2>7 DEF Registry, Bind, Scrape, processVars, serviceVars
    <2>8. CASE ShutdownSignal \/ ServerEnded
        BY <2>1, <2>8 DEF ShutdownSignal, ServerEnded, MainReturns
    <2> QED
        BY <2>2, <2>3, <2>4, <2>5, <2>6, <2>7, <2>8 DEF ServiceNext, RunService
<1>3. AliveInv => AliveIffChecked
    BY DEF AliveInv, AliveIffChecked, liveness_handler, reported_status
<1> QED
    BY <1>1, <1>2, <1>3, PTL DEF ServiceSpec

-----------------------------------------------------------------------------
(* The registry.                                                           *)

CounterTypes ==
    /\ DOMAIN metrics = Maps
    /\ \A name \in DOMAIN metrics.counters : metrics.counters[name] \in Nat

TodoTypes ==
    /\ todo \in [MetricTasks -> Seq(Accesses)]
    /\ DOMAIN at = MetricTasks /\ DOMAIN recorded = MetricTasks

\* What a task has recorded is there, and what it is about to insert it has
\* not recorded.
LossInv ==
    /\ CounterTypes /\ TodoTypes
    /\ \A t \in MetricTasks : \A map \in Maps : \A name \in MetricNames :
          <<map, name>> \in recorded[t] => name \in DOMAIN metrics[map]
    /\ \A t \in MetricTasks : at[t] \in {"missed", "writing"} =>
          /\ todo[t] # << >>
          /\ <<Head(todo[t]).map, Head(todo[t]).name>> \notin recorded[t]

\* An access puts one entry in one map.
LEMMA WithFacts ==
    ASSUME CounterTypes, NEW op \in Accesses, NEW value,
           op.map = "counters" => value \in Nat, metrics' = With(op, value)
    PROVE  /\ CounterTypes'
           /\ DOMAIN metrics'[op.map] = {op.name} \cup DOMAIN metrics[op.map]
           /\ \A map \in Maps : DOMAIN metrics[map] \subseteq DOMAIN metrics'[map]
           /\ op.map = "counters" => metrics'.counters[op.name] = value
           /\ op.map # "counters" => metrics'.counters = metrics.counters
           /\ \A name \in DOMAIN metrics.counters :
                 op.map # "counters" \/ name # op.name =>
                     metrics'.counters[name] = metrics.counters[name]
<1> DEFINE g == Put(metrics[op.map], op.name, value)
<1>1. /\ DOMAIN g = {op.name} \cup DOMAIN metrics[op.map]
      /\ g[op.name] = value
      /\ \A name \in DOMAIN metrics[op.map] : name # op.name => g[name] = metrics[op.map][name]
    BY DEF Put
<1>2. metrics' = [metrics EXCEPT ![op.map] = g]
    BY DEF With
<1>3. op.map \in Maps /\ DOMAIN metrics = Maps /\ "counters" \in Maps
    BY DEF Accesses, CounterTypes, Maps
<1> HIDE DEF g
<1>4. /\ metrics'[op.map] = g /\ DOMAIN metrics' = Maps
      /\ \A map \in Maps : map # op.map => metrics'[map] = metrics[map]
    BY <1>2, <1>3
<1>5. CounterTypes'
    BY <1>1, <1>3, <1>4 DEF CounterTypes
<1> QED
    BY <1>1, <1>3, <1>4, <1>5

\* A step of a task that leaves the metrics as they are.
LEMMA QuietStep ==
    ASSUME LossInv, NEW t \in MetricTasks, UNCHANGED <<metrics, recorded>>,
           TodoTypes',
           \A u \in MetricTasks \ {t} : todo'[u] = todo[u] /\ at'[u] = at[u],
           at'[t] \in {"missed", "writing"} =>
              /\ todo'[t] # << >>
              /\ <<Head(todo'[t]).map, Head(todo'[t]).name>> \notin recorded[t]
    PROVE  LossInv'
<1>1. CounterTypes'
    BY DEF LossInv, CounterTypes
<1>2. \A u \in MetricTasks : at'[u] \in {"missed", "writing"} =>
          /\ todo'[u] # << >>
          /\ <<Head(todo'[u]).map, Head(todo'[u]).name>> \notin recorded'[u]
    BY DEF LossInv
<1>3. \A u \in MetricTasks : \A map \in Maps : \A name \in MetricNames :
          <<map, name>> \in recorded'[u] => name \in DOMAIN metrics'[map]
    BY DEF LossInv
<1> QED
    BY <1>1, <1>2, <1>3 DEF LossInv

\* What LossOnlyAtFirst says of one step.
NoOtherLoss ==
    metrics' # metrics =>
        \A name \in DOMAIN metrics.counters :
            metrics'.counters[name] < metrics.counters[name] =>
                \E t \in MetricTasks :
                    /\ todo'[t] # todo[t] /\ todo[t] # << >>
                    /\ Head(todo[t]).name = name
                    /\ <<"counters", name>> \notin recorded[t]

\* An access is done: the next one of the task is up.
LEMMA AccessDone ==
    ASSUME TodoTypes, NEW t \in MetricTasks, todo[t] # << >>, Done(t)
    PROVE  /\ todo' \in [MetricTasks -> Seq(Accesses)] /\ DOMAIN at' = MetricTasks
           /\ todo'[t] # todo[t] /\ at'[t] = "next"
           /\ \A u \in MetricTasks \ {t} : todo'[u] = todo[u] /\ at'[u] = at[u]
           /\ Head(todo[t]) \in Accesses
<1>1. /\ todo[t] \in Seq(Accesses) /\ todo' = [todo EXCEPT ![t] = Tail(todo[t])]
      /\ at' = [at EXCEPT ![t] = "next"]
    BY DEF TodoTypes, Done
<1>2. /\ Tail(todo[t]) \in Seq(Accesses) /\ Head(todo[t]) \in Accesses
      /\ Len(Tail(todo[t])) = Len(todo[t]) - 1 /\ Len(todo[t]) \in Nat
    BY <1>1, HeadTailProperties, LenProperties
<1>3. Tail(todo[t]) # todo[t]
    <2>1. \A n \in Nat : n - 1 # n
        OBVIOUS
    <2> QED
        BY <1>2, <2>1
<1> QED
    BY <1>1, <1>2, <1>3 DEF TodoTypes

\* A metric that is found or inserted is recorded by its task from then on.
LEMMA RecordStep ==
    ASSUME LossInv, NEW t \in MetricTasks, todo[t] # << >>, Done(t), NEW value,
           NEW op, op = Head(todo[t]), op.map = "counters" => value \in Nat,
           metrics' = With(op, value),
           recorded' = [recorded EXCEPT ![t] = recorded[t] \cup {<<op.map, op.name>>}]
    PROVE  LossInv'
<1>1. TodoTypes /\ CounterTypes
    BY DEF LossInv
<1>2. /\ todo' \in [MetricTasks -> Seq(Accesses)] /\ DOMAIN at' = MetricTasks
      /\ at'[t] = "next" /\ op \in Accesses
      /\ \A u \in MetricTasks \ {t} : todo'[u] = todo[u] /\ at'[u] = at[u]
    BY <1>1, AccessDone
<1>3. /\ CounterTypes'
      /\ DOMAIN metrics'[op.map] = {op.name} \cup DOMAIN metrics[op.map]
      /\ \A map \in Maps : DOMAIN metrics[map] \subseteq DOMAIN metrics'[map]
    BY <1>1, <1>2, WithFacts
<1>4. /\ DOMAIN recorded' = MetricTasks
      /\ recorded'[t] = recorded[t] \cup {<<op.map, op.name>>}
      /\ \A u \in MetricTasks \ {t} : recorded'[u] = recorded[u]
    BY <1>1 DEF TodoTypes
<1>5. TodoTypes'
    BY <1>2, <1>4 DEF TodoTypes
<1>6. \A u \in MetricTasks : \A map \in Maps : \A name \in MetricNames :
          <<map, name>> \in recorded'[u] => name \in DOMAIN metrics'[map]
    <2> SUFFICES ASSUME NEW u \in MetricTasks, NEW map \in Maps, NEW name \in MetricNames,
                        <<map, name>> \in recorded'[u]
                 PROVE  name \in DOMAIN metrics'[map]
        OBVIOUS
    <2>1. CASE <<map, name>> \in recorded[u]
        BY <1>3, <2>1 DEF LossInv
    <2>2. CASE <<map, name>> = <<op.map, op.name>>
        BY <1>3, <2>2
    <2> QED
        BY <1>4, <2>1, <2>2
<1>7. \A u \in MetricTasks : at'[u] \in {"missed", "writing"} =>
          /\ todo'[u] # << >>
          /\ <<Head(todo'[u]).map, Head(todo'[u]).name>> \notin recorded'[u]
    BY <1>2, <1>4 DEF LossInv
<1> QED
    BY <1>3, <1>5, <1>6, <1>7 DEF LossInv

LEMMA RegistryStepLoss ==
    ASSUME LossInv, NEW t \in MetricTasks, RegistryStep(t)
    PROVE  LossInv' /\ NoOtherLoss
<1>1. TodoTypes /\ CounterTypes
    BY DEF LossInv
<1>2. CASE WaitToRead(t)
    <2>1. /\ at' = [at EXCEPT ![t] = "reading"]
          /\ UNCHANGED <<metrics, recorded, todo>>
        BY <1>2 DEF WaitToRead
    <2>2. TodoTypes'
        BY <1>1, <2>1 DEF TodoTypes
    <2>3. /\ at'[t] = "reading"
          /\ \A u \in MetricTasks \ {t} : todo'[u] = todo[u] /\ at'[u] = at[u]
        BY <1>1, <2>1 DEF TodoTypes
    <2> QED
        BY <2>1, <2>2, <2>3, QuietStep DEF NoOtherLoss
<1>3. CASE RecordMissed(t)
    <2> DEFINE op == Head(todo[t])
    <2>1. /\ at' = [at EXCEPT ![t] = "missed"] /\ ~Exists(op) /\ todo[t] # << >>
          /\ UNCHANGED <<metrics, recorded, todo>>
        BY <1>3 DEF RecordMissed, Doing
    <2>2. TodoTypes'
        BY <1>1, <2>1 DEF TodoTypes
    <2>3. \A u \in MetricTasks \ {t} : todo'[u] = todo[u] /\ at'[u] = at[u]
        BY <1>1, <2>1 DEF TodoTypes
    <2>4. op \in Accesses
        BY <1>1, <2>1, HeadTailProperties DEF TodoTypes
    <2>5. <<op.map, op.name>> \notin recorded[t]
        <3>1. op.map \in Maps /\ op.name \in MetricNames
            BY <2>4 DEF Accesses
        <3> QED
            BY <2>1, <3>1 DEF LossInv, Exists
    <2> QED
        BY <2>1, <2>2, <2>3, <2>5, QuietStep DEF NoOtherLoss
<1>4. CASE WaitToWrite(t)
    <2>1. /\ at' = [at EXCEPT ![t] = "writing"] /\ at[t] = "missed"
          /\ UNCHANGED <<metrics, recorded, todo>>
        BY <1>4 DEF WaitToWrite
    <2>2. TodoTypes'
        BY <1>1, <2>1 DEF TodoTypes
    <2>3. \A u \in MetricTasks \ {t} : todo'[u] = todo[u] /\ at'[u] = at[u]
        BY <1>1, <2>1 DEF TodoTypes
    <2>4. /\ todo[t] # << >>
          /\ <<Head(todo[t]).map, Head(todo[t]).name>> \notin recorded[t]
        BY <2>1 DEF LossInv
    <2> QED
        BY <2>1, <2>2, <2>3, <2>4, QuietStep DEF NoOtherLoss
<1>5. CASE Get(t) \/ Hold(t)
    <2>1. todo[t] # << >> /\ Done(t) /\ UNCHANGED <<metrics, recorded>>
        BY <1>5 DEF Get, Hold, Doing
    <2>2. /\ todo' \in [MetricTasks -> Seq(Accesses)] /\ DOMAIN at' = MetricTasks
          /\ at'[t] = "next"
          /\ \A u \in MetricTasks \ {t} : todo'[u] = todo[u] /\ at'[u] = at[u]
        BY <1>1, <2>1, AccessDone
    <2>3. TodoTypes'
        BY <1>1, <2>1, <2>2 DEF TodoTypes
    <2> QED
        BY <2>1, <2>2, <2>3, QuietStep DEF NoOtherLoss
<1>6. CASE RecordFound(t)
    <2>1. PICK op : op = Head(todo[t])
        OBVIOUS
    <2>2. /\ todo[t] # << >> /\ Done(t) /\ Exists(op)
          /\ metrics' = With(op, Recorded(op))
          /\ recorded' = [recorded EXCEPT ![t] = recorded[t] \cup {<<op.map, op.name>>}]
        BY <1>6, <2>1 DEF RecordFound, Doing
    <2>3. op \in Accesses
        BY <1>1, <2>1, <2>2, HeadTailProperties DEF TodoTypes
    <2>4. op.map = "counters" =>
             /\ Recorded(op) \in Nat
             /\ Recorded(op) >= metrics.counters[op.name]
        <3>1. ASSUME op.map = "counters"
              PROVE  /\ Recorded(op) = metrics.counters[op.name] + op.value
                     /\ op.value \in Nat /\ metrics.counters[op.name] \in Nat
            BY <1>1, <2>2, <2>3, <3>1 DEF Recorded, Accesses, Exists, CounterTypes
        <3> QED
            BY <3>1
    <2>5. PICK v : v = Recorded(op)
        OBVIOUS
    <2>6. metrics' = With(op, v)
        BY <2>2, <2>5
    <2>7. op.map = "counters" => v \in Nat
        BY <2>4, <2>5
    <2>8. /\ todo[t] # << >> /\ Done(t)
          /\ recorded' = [recorded EXCEPT ![t] = recorded[t] \cup {<<op.map, op.name>>}]
        BY <2>2
    <2>9. LossInv'
        BY <2>1, <2>6, <2>7, <2>8, RecordStep
    <2>10. /\ op.map = "counters" => metrics'.counters[op.name] = v
          /\ \A name \in DOMAIN metrics.counters :
                op.map # "counters" \/ name # op.name =>
                    metrics'.counters[name] = metrics.counters[name]
        BY <1>1, <2>3, <2>6, <2>7, WithFacts
    <2>11. \A name \in DOMAIN metrics.counters :
             ~(metrics'.counters[name] < metrics.counters[name])
        BY <1>1, <2>4, <2>5, <2>10 DEF CounterTypes
    <2> QED
        BY <2>9, <2>11 DEF NoOtherLoss
<1>7. CASE Insert(t)
    <2>1. PICK op : op = Head(todo[t])
        OBVIOUS
    <2>2. /\ todo[t] # << >> /\ Done(t) /\ at[t] \in {"missed", "writing"}
          /\ metrics' = With(op, Fresh(op))
          /\ recorded' = [recorded EXCEPT ![t] = recorded[t] \cup {<<op.map, op.name>>}]
        BY <1>7, <2>1 DEF Insert, Doing, MayWrite
    <2>3. op \in Accesses
        BY <1>1, <2>1, <2>2, HeadTailProperties DEF TodoTypes
    <2>4. op.map = "counters" => Fresh(op) \in Nat
        BY <2>3 DEF Fresh, Accesses
    <2>5. PICK v : v = Fresh(op)
        OBVIOUS
    <2>6. metrics' = With(op, v)
        BY <2>2, <2>5
    <2>7. op.map = "counters" => v \in Nat
        BY <2>4, <2>5
    <2>8. /\ todo[t] # << >> /\ Done(t)
          /\ recorded' = [recorded EXCEPT ![t] = recorded[t] \cup {<<op.map, op.name>>}]
        BY <2>2
    <2>9. LossInv'
        BY <2>1, <2>6, <2>7, <2>8, RecordStep
    <2>10. \A name \in DOMAIN metrics.counters :
             op.map # "counters" \/ name # op.name =>
                 metrics'.counters[name] = metrics.counters[name]
        BY <1>1, <2>3, <2>6, <2>7, WithFacts
    <2>11. /\ todo'[t] # todo[t]
          /\ <<op.map, op.name>> \notin recorded[t]
        BY <1>1, <2>1, <2>2, AccessDone DEF LossInv
    <2>12. \A name \in DOMAIN metrics.counters :
             metrics'.counters[name] < metrics.counters[name] =>
                 op.map = "counters" /\ name = op.name
        BY <1>1, <2>10 DEF CounterTypes
    <2> QED
        BY <2>1, <2>2, <2>9, <2>11, <2>12 DEF NoOtherLoss
<1> QED
    BY <1>2, <1>3, <1>4, <1>5, <1>6, <1>7 DEF RegistryStep

\* A task without work gets some.
LEMMA WorkGiven ==
    ASSUME LossInv, NEW t \in MetricTasks, todo[t] = << >>,
           NEW work \in Seq(Accesses), todo' = [todo EXCEPT ![t] = work],
           UNCHANGED <<metrics, at, recorded>>
    PROVE  LossInv' /\ NoOtherLoss
<1>1. at[t] \notin {"missed", "writing"}
    BY DEF LossInv
<1>2. TodoTypes'
    BY DEF LossInv, TodoTypes
<1>3. \A u \in MetricTasks \ {t} : todo'[u] = todo[u] /\ at'[u] = at[u]
    BY DEF LossInv, TodoTypes
<1> QED
    BY <1>1, <1>2, <1>3, QuietStep DEF NoOtherLoss

LEMMA CallLoss ==
    ASSUME LossInv, NEW t \in MetricTasks, Call(t)
    PROVE  LossInv' /\ NoOtherLoss
<1>1. PICK call \in Menu(t) : todo' = [todo EXCEPT ![t] = call]
    BY DEF Call
<1>2. call \in Seq(Accesses)
    BY RegistryAssumption
<1> QED
    BY <1>1, <1>2, WorkGiven DEF Call

LEMMA NothingRecorded == LossInv /\ UNCHANGED registryVars => LossInv' /\ NoOtherLoss
BY DEF LossInv, registryVars, CounterTypes, TodoTypes, NoOtherLoss

LEMMA RegistryInitLoss == RegistryInit => LossInv
<1> SUFFICES ASSUME RegistryInit PROVE LossInv
    OBVIOUS
<1>1. /\ DOMAIN metrics = Maps /\ DOMAIN metrics.counters = {}
    BY EmptySeq DEF RegistryInit, Maps
<1>2. todo \in [MetricTasks -> Seq(Accesses)]
    BY EmptySeq DEF RegistryInit
<1> QED
    BY <1>1, <1>2 DEF RegistryInit, LossInv, CounterTypes, TodoTypes

\* For all tasks and all calls they make, a counter goes back only when a task
\* that has not recorded it inserts it, having found it missing
\* (metrics.rs increment_counter).
THEOREM LossOnlyAtFirstAlways == RegistrySpec => LossOnlyAtFirst
<1>1. LossInv /\ [RegistryNext]_registryVars => LossInv' /\ NoOtherLoss
    BY RegistryStepLoss, CallLoss, NothingRecorded DEF RegistryNext
<1> QED
    BY <1>1, RegistryInitLoss, PTL DEF RegistrySpec, LossOnlyAtFirst, NoOtherLoss

-----------------------------------------------------------------------------
(* The summary.                                                            *)

First == summary_pairs[1]
Second == summary_pairs[2]
Total == "trades_total"

Count(name) == IF name \in DOMAIN metrics.counters THEN metrics.counters[name] ELSE 0

\* What is left of a call that counts and reads in order, r being read so far.
LeftInOrder(w, r) ==
    /\ \A i \in DOMAIN w : CountsPair(w[i]) =>
          w[i].value = 1 /\ \A j \in DOMAIN w : CountsPair(w[j]) => j = i
    /\ \A i \in DOMAIN w : Gets(w[i], Total) =>
          /\ First \in DOMAIN r \/ \E k \in 1..(i - 1) : Gets(w[k], First)
          /\ Second \in DOMAIN r \/ \E k \in 1..(i - 1) : Gets(w[k], Second)
          /\ \A j \in DOMAIN w : GetsPair(w[j]) => j < i
    /\ Total \in DOMAIN r =>
          /\ First \in DOMAIN r /\ Second \in DOMAIN r
          /\ \A i \in DOMAIN w : ~GetsPair(w[i])

\* A trade is in the total and not yet in its pair's count.
Owes(w) ==
    \E i \in DOMAIN w : CountsPair(w[i]) /\ \A k \in 1..(i - 1) : ~CountsTotal(w[k])

Owing == {t \in MetricTasks : Owes(todo[t])}

\* n1 and n2 stand for the trades of the two pairs so far: an insertion may set
\* their counts back, but not what was read before.
PairsCounted(n1, n2) ==
    /\ Count(First) <= n1 /\ Count(Second) <= n2
    /\ \A t \in MetricTasks :
          /\ First \in DOMAIN read[t] => read[t][First] <= n1
          /\ Second \in DOMAIN read[t] => read[t][Second] <= n2
    /\ n1 + n2 + Cardinality(Owing) <= Count(Total)

ReadTypes ==
    /\ DOMAIN read = MetricTasks
    /\ \A t \in MetricTasks : \A name \in DOMAIN read[t] : read[t][name] \in Nat

SummaryInv ==
    /\ LossInv /\ ReadTypes
    /\ \A t \in MetricTasks : LeftInOrder(todo[t], read[t])
    /\ Total \notin overwritten => \E n1, n2 \in Nat : PairsCounted(n1, n2)
    /\ SummaryConsistent

LEMMA NamesDiffer == First # Second /\ First # Total /\ Second # Total
BY SummaryAssumption DEF First, Second, Total

\* The remaining accesses are those after the first.
LEMMA TailShifts ==
    ASSUME NEW w \in Seq(Accesses), w # << >>
    PROVE  /\ 1 \in DOMAIN w /\ Head(w) = w[1]
           /\ Tail(w) \in Seq(Accesses)
           /\ \A i \in DOMAIN Tail(w) :
                 i \in Nat /\ i >= 1 /\ i + 1 \in DOMAIN w /\ Tail(w)[i] = w[i + 1]
           /\ \A i \in DOMAIN w : i \in Nat /\ i >= 1
           /\ \A i \in DOMAIN w : i # 1 => i - 1 \in DOMAIN Tail(w) /\ Tail(w)[i - 1] = w[i]
<1>1. Len(w) \in Nat /\ Len(w) >= 1 /\ DOMAIN w = 1..Len(w)
    BY EmptySeq, LenProperties
<1>2. /\ Tail(w) \in Seq(Accesses) /\ Len(Tail(w)) = Len(w) - 1
      /\ \A i \in 1..(Len(w) - 1) : Tail(w)[i] = w[i + 1]
    BY HeadTailProperties
<1>3. DOMAIN Tail(w) = 1..(Len(w) - 1)
    BY <1>1, <1>2, LenProperties
<1> QED
    BY <1>1, <1>2, <1>3

LEMMA TailOwes ==
    ASSUME NEW w \in Seq(Accesses), w # << >>, NEW r, LeftInOrder(w, r)
    PROVE  /\ CountsPair(Head(w)) => Owes(w) /\ ~Owes(Tail(w))
           /\ ~CountsTotal(Head(w)) => (Owes(Tail(w)) => Owes(w))
<1>1. /\ 1 \in DOMAIN w /\ Head(w) = w[1]
      /\ \A i \in DOMAIN Tail(w) :
            i \in Nat /\ i >= 1 /\ i + 1 \in DOMAIN w /\ Tail(w)[i] = w[i + 1]
    BY TailShifts
<1>2. ASSUME CountsPair(Head(w))
      PROVE  Owes(w) /\ ~Owes(Tail(w))
    <2>1. Owes(w)
        BY <1>1, <1>2 DEF Owes
    <2>2. ASSUME NEW i \in DOMAIN Tail(w), CountsPair(Tail(w)[i])
          PROVE  FALSE
        <3>1. i + 1 = 1
            BY <1>1, <1>2, <2>2 DEF LeftInOrder
        <3> QED
            BY <1>1, <3>1
    <2> QED
        BY <2>1, <2>2 DEF Owes
<1>3. ASSUME ~CountsTotal(Head(w)), Owes(Tail(w))
      PROVE  Owes(w)
    <2>1. PICK i \in DOMAIN Tail(w) :
             /\ CountsPair(Tail(w)[i])
             /\ \A k \in 1..(i - 1) : ~CountsTotal(Tail(w)[k])
        BY <1>3 DEF Owes
    <2>2. ASSUME NEW k \in 1..i
          PROVE  ~CountsTotal(w[k])
        <3>1. CASE k = 1
            BY <1>1, <1>3, <3>1
        <3>2. CASE k # 1
            <4>1. k - 1 \in 1..(i - 1) /\ k \in DOMAIN w
                <5>1. Len(w) \in Nat /\ DOMAIN w = 1..Len(w)
                    BY LenProperties
                <5> QED
                    BY <1>1, <3>2, <5>1
            <4>2. Tail(w)[k - 1] = w[k]
                BY <3>2, <4>1, TailShifts
            <4> QED
                BY <2>1, <4>1, <4>2
        <3> QED
            BY <3>1, <3>2
    <2>3. /\ i + 1 \in DOMAIN w /\ CountsPair(w[i + 1])
          /\ i \in Nat /\ (i + 1) - 1 = i
        BY <1>1, <2>1
    <2> QED
        BY <2>2, <2>3 DEF Owes
<1> QED
    BY <1>2, <1>3

\* One access later the rest of a call is still in order.
LEMMA TailInOrder ==
    ASSUME NEW w \in Seq(Accesses), w # << >>, NEW r, LeftInOrder(w, r), NEW q,
           DOMAIN r \subseteq DOMAIN q,
           \A name : name \in DOMAIN q <=> name \in DOMAIN r \/ Gets(Head(w), name)
    PROVE  LeftInOrder(Tail(w), q)
<1>1. /\ 1 \in DOMAIN w /\ Head(w) = w[1]
      /\ \A i \in DOMAIN Tail(w) :
            i \in Nat /\ i >= 1 /\ i + 1 \in DOMAIN w /\ Tail(w)[i] = w[i + 1]
      /\ \A i \in DOMAIN w : i # 1 => i - 1 \in DOMAIN Tail(w) /\ Tail(w)[i - 1] = w[i]
    BY TailShifts
<1>2. ASSUME NEW i \in DOMAIN Tail(w), CountsPair(Tail(w)[i])
      PROVE  Tail(w)[i].value = 1 /\ \A j \in DOMAIN Tail(w) : CountsPair(Tail(w)[j]) => j = i
    <2>1. Tail(w)[i].value = 1
        BY <1>1, <1>2 DEF LeftInOrder
    <2>2. ASSUME NEW j \in DOMAIN Tail(w), CountsPair(Tail(w)[j])
          PROVE  j = i
        <3>1. j + 1 = i + 1
            BY <1>1, <1>2, <2>2 DEF LeftInOrder
        <3> QED
            BY <1>1, <3>1
    <2> QED
        BY <2>1, <2>2
<1>3. ASSUME NEW i \in DOMAIN Tail(w), NEW name,
             name \in DOMAIN r \/ \E k \in 1..((i + 1) - 1) : Gets(w[k], name)
      PROVE  name \in DOMAIN q \/ \E k \in 1..(i - 1) : Gets(Tail(w)[k], name)
    <2>1. CASE name \in DOMAIN r
        BY <2>1
    <2>2. CASE \E k \in 1..((i + 1) - 1) : Gets(w[k], name)
        <3>1. PICK k \in 1..((i + 1) - 1) : Gets(w[k], name)
            BY <2>2
        <3>2. CASE k = 1
            BY <1>1, <3>1, <3>2
        <3>3. CASE k # 1
            <4>1. Len(w) \in Nat /\ DOMAIN w = 1..Len(w)
                BY LenProperties
            <4>2. k \in DOMAIN w /\ k - 1 \in 1..(i - 1)
                BY <1>1, <3>3, <4>1
            <4> QED
                BY <1>1, <3>1, <3>3, <4>2
        <3> QED
            BY <3>2, <3>3
    <2> QED
        BY <1>3, <2>1, <2>2
<1>4. ASSUME NEW i \in DOMAIN Tail(w), Gets(Tail(w)[i], Total)
      PROVE  /\ First \in DOMAIN q \/ \E k \in 1..(i - 1) : Gets(Tail(w)[k], First)
             /\ Second \in DOMAIN q \/ \E k \in 1..(i - 1) : Gets(Tail(w)[k], Second)
             /\ \A j \in DOMAIN Tail(w) : GetsPair(Tail(w)[j]) => j < i
    <2>1. i + 1 \in DOMAIN w /\ Gets(w[i + 1], Total)
        BY <1>1, <1>4
    <2>2. /\ First \in DOMAIN r \/ \E k \in 1..((i + 1) - 1) : Gets(w[k], First)
          /\ Second \in DOMAIN r \/ \E k \in 1..((i + 1) - 1) : Gets(w[k], Second)
          /\ \A j \in DOMAIN w : GetsPair(w[j]) => j < i + 1
        BY <2>1 DEF LeftInOrder
    <2>3. ASSUME NEW j \in DOMAIN Tail(w), GetsPair(Tail(w)[j])
          PROVE  j < i
        <3>1. j + 1 < i + 1
            BY <1>1, <2>2, <2>3
        <3> QED
            BY <1>1, <3>1
    <2> QED
        BY <1>3, <2>2, <2>3
<1>5. ASSUME Total \in DOMAIN q
      PROVE  /\ First \in DOMAIN q /\ Second \in DOMAIN q
             /\ \A i \in DOMAIN Tail(w) : ~GetsPair(Tail(w)[i])
    <2>1. CASE Total \in DOMAIN r
        BY <1>1, <2>1 DEF LeftInOrder
    <2>2. CASE Gets(w[1], Total)
        <3>1. /\ First \in DOMAIN r \/ \E k \in 1..(1 - 1) : Gets(w[k], First)
              /\ Second \in DOMAIN r \/ \E k \in 1..(1 - 1) : Gets(w[k], Second)
              /\ \A j \in DOMAIN w : GetsPair(w[j]) => j < 1
            BY <1>1, <2>2 DEF LeftInOrder
        <3>2. First \in DOMAIN r /\ Second \in DOMAIN r
            BY <3>1
        <3>3. ASSUME NEW i \in DOMAIN Tail(w), GetsPair(Tail(w)[i])
              PROVE  FALSE
            <4>1. i + 1 < 1 /\ i \in Nat
                BY <1>1, <3>1, <3>3
            <4> QED
                BY <4>1
        <3> QED
            BY <3>2, <3>3
    <2> QED
        BY <1>1, <1>5, <2>1, <2>2
<1> QED
    BY <1>2, <1>4, <1>5 DEF LeftInOrder

\* A call in order owes nothing before it begins.
LEMMA InOrderOwesNothing ==
    ASSUME NEW w \in Seq(Accesses), TradesInOrder(w), NEW r, DOMAIN r = {}
    PROVE  LeftInOrder(w, r) /\ ~Owes(w)
<1>1. ~Owes(w)
    BY DEF TradesInOrder, Owes
<1>2. ASSUME NEW i \in DOMAIN w, Gets(w[i], Total)
      PROVE  /\ \E k \in 1..(i - 1) : Gets(w[k], First)
             /\ \E k \in 1..(i - 1) : Gets(w[k], Second)
             /\ \A j \in DOMAIN w : GetsPair(w[j]) => j < i
    BY <1>2 DEF TradesInOrder, Total, First, Second
<1> QED
    BY <1>1, <1>2 DEF TradesInOrder, LeftInOrder

\* The tasks that owe a count, when one of them has taken a step.
LEMMA OwingStep ==
    ASSUME NEW t \in MetricTasks, \A u \in MetricTasks \ {t} : todo'[u] = todo[u]
    PROVE  /\ Cardinality(Owing) \in Nat /\ Cardinality(Owing') \in Nat
           /\ Cardinality(Owing') <= Cardinality(Owing) + 1
           /\ (Owes(todo'[t]) => Owes(todo[t])) => Cardinality(Owing') <= Cardinality(Owing)
           /\ Owes(todo[t]) /\ ~Owes(todo'[t]) =>
                 Cardinality(Owing') = Cardinality(Owing) - 1
<1>1. IsFiniteSet(Owing) /\ IsFiniteSet(Owing')
    <2>1. Owing \subseteq MetricTasks /\ Owing' \subseteq MetricTasks
        BY DEF Owing
    <2> QED
        BY <2>1, RegistryAssumption, FS_Subset
<1>2. Cardinality(Owing) \in Nat /\ Cardinality(Owing') \in Nat
    BY <1>1, FS_CardinalityType
<1>3. /\ Owes(todo'[t]) => Owing' = Owing \cup {t}
      /\ ~Owes(todo'[t]) => Owing' = Owing \ {t}
      /\ Owes(todo[t]) <=> t \in Owing
    BY DEF Owing
<1>4. /\ IsFiniteSet(Owing \cup {t})
      /\ Cardinality(Owing \cup {t}) =
            IF t \in Owing THEN Cardinality(Owing) ELSE Cardinality(Owing) + 1
    BY <1>1, FS_AddElement
<1>5. Cardinality(Owing \ {t}) =
          IF t \in Owing THEN Cardinality(Owing) - 1 ELSE Cardinality(Owing)
    BY <1>1, FS_RemoveElement
<1>6. CASE Owes(todo'[t])
    <2>1. Cardinality(Owing') =
              IF Owes(todo[t]) THEN Cardinality(Owing) ELSE Cardinality(Owing) + 1
        BY <1>3, <1>4, <1>6
    <2> QED
        BY <1>2, <1>6, <2>1
<1>7. CASE ~Owes(todo'[t])
    <2>1. Cardinality(Owing') =
              IF Owes(todo[t]) THEN Cardinality(Owing) - 1 ELSE Cardinality(Owing)
        BY <1>3, <1>5, <1>7
    <2> QED
        BY <1>2, <1>7, <2>1
<1> QED
    BY <1>6, <1>7

LEMMA CountNat == CounterTypes => \A name : Count(name) \in Nat
BY DEF CounterTypes, Count

\* Recording a metric changes one count, or none.
LEMMA CountAfter ==
    ASSUME CounterTypes, NEW op \in Accesses, NEW value,
           op.map = "counters" => value \in Nat, metrics' = With(op, value)
    PROVE  /\ op.map = "counters" => Count(op.name)' = value
           /\ \A name : op.map # "counters" \/ name # op.name => Count(name)' = Count(name)
<1>1. /\ DOMAIN metrics'[op.map] = {op.name} \cup DOMAIN metrics[op.map]
      /\ op.map = "counters" => metrics'.counters[op.name] = value
      /\ op.map # "counters" => metrics'.counters = metrics.counters
      /\ \A name \in DOMAIN metrics.counters :
            op.map # "counters" \/ name # op.name =>
                metrics'.counters[name] = metrics.counters[name]
    BY WithFacts
<1>2. CASE op.map = "counters"
    <2>1. DOMAIN metrics'.counters = {op.name} \cup DOMAIN metrics.counters
        BY <1>1, <1>2
    <2> QED
        BY <1>1, <1>2, <2>1 DEF Count
<1>3. CASE op.map # "counters"
    BY <1>1, <1>3 DEF Count
<1> QED
    BY <1>2, <1>3

\* What is recorded keeps the total above the pairs.
LEMMA RecordCounted ==
    ASSUME SummaryInv, NEW t \in MetricTasks, todo[t] # << >>, Done(t), UNCHANGED read,
           NEW op, op = Head(todo[t]), op \in Accesses, op.op = "record", NEW value,
           op.map = "counters" =>
              /\ value \in Nat
              /\ \/ value = Count(op.name) + op.value
                 \/ value = op.value /\ (op.name = Total => Count(op.name) = 0),
           metrics' = With(op, value),
           NEW n1 \in Nat, NEW n2 \in Nat, PairsCounted(n1, n2)
    PROVE  \E m1, m2 \in Nat : PairsCounted(m1, m2)'
<1>1. /\ LossInv /\ CounterTypes /\ TodoTypes /\ ReadTypes
      /\ LeftInOrder(todo[t], read[t]) /\ todo[t] \in Seq(Accesses)
    BY DEF SummaryInv, LossInv, TodoTypes
<1>2. /\ todo'[t] = Tail(todo[t])
      /\ \A u \in MetricTasks \ {t} : todo'[u] = todo[u]
    BY <1>1 DEF TodoTypes, Done
<1>3. /\ CountsPair(op) => Owes(todo[t]) /\ ~Owes(todo'[t])
      /\ ~CountsTotal(op) => (Owes(todo'[t]) => Owes(todo[t]))
    BY <1>1, <1>2, TailOwes
<1>4. /\ Cardinality(Owing) \in Nat /\ Cardinality(Owing') \in Nat
      /\ Cardinality(Owing') <= Cardinality(Owing) + 1
      /\ (Owes(todo'[t]) => Owes(todo[t])) => Cardinality(Owing') <= Cardinality(Owing)
      /\ Owes(todo[t]) /\ ~Owes(todo'[t]) => Cardinality(Owing') = Cardinality(Owing) - 1
    BY <1>2, OwingStep
<1>5. /\ op.map = "counters" => Count(op.name)' = value
      /\ \A name : op.map # "counters" \/ name # op.name => Count(name)' = Count(name)
    BY <1>1, CountAfter
<1>6. /\ Count(First) \in Nat /\ Count(Second) \in Nat /\ Count(Total) \in Nat
    BY <1>1, CountNat
<1>7. CountsPair(op) => op.value = 1
    BY <1>1, TailShifts DEF LeftInOrder
<1>8. op.map = "counters" => op.value \in Nat
    BY DEF Accesses
<1>9. /\ Count(First) <= n1 /\ Count(Second) <= n2
      /\ n1 + n2 + Cardinality(Owing) <= Count(Total)
      /\ \A u \in MetricTasks :
            /\ First \in DOMAIN read'[u] => read'[u][First] \in Nat /\ read'[u][First] <= n1
            /\ Second \in DOMAIN read'[u] => read'[u][Second] \in Nat /\ read'[u][Second] <= n2
    BY <1>1 DEF PairsCounted, ReadTypes
<1>10. ASSUME NEW m1 \in Nat, NEW m2 \in Nat, m1 >= n1, m2 >= n2,
              Count(First)' <= m1, Count(Second)' <= m2,
              m1 + m2 + Cardinality(Owing') <= Count(Total)'
       PROVE  PairsCounted(m1, m2)'
    <2>1. ASSUME NEW u \in MetricTasks
          PROVE  /\ First \in DOMAIN read'[u] => read'[u][First] <= m1
                 /\ Second \in DOMAIN read'[u] => read'[u][Second] <= m2
        BY <1>9, <1>10
    <2> QED
        BY <1>10, <2>1 DEF PairsCounted
<1>11. CASE Counts(op, First)
    <2>1. /\ Count(First)' = value /\ value \in Nat /\ value <= n1 + 1
          /\ Count(Second)' = Count(Second) /\ Count(Total)' = Count(Total)
        <3>1. op.map = "counters" /\ op.name = First /\ op.value = 1
            BY <1>7, <1>11 DEF Counts, CountsPair, First
        <3> QED
            BY <1>5, <1>6, <1>9, <3>1, NamesDiffer
    <2>2. Cardinality(Owing') = Cardinality(Owing) - 1
        BY <1>3, <1>4, <1>11 DEF CountsPair, First
    <2>3. (n1 + 1) + n2 + Cardinality(Owing') <= Count(Total)'
        <3>1. \A a, b, c \in Nat : n1 + n2 + a <= c /\ b = a - 1 => (n1 + 1) + n2 + b <= c
            OBVIOUS
        <3> QED
            BY <1>4, <1>6, <1>9, <2>1, <2>2, <3>1
    <2>4. Count(First)' <= n1 + 1 /\ Count(Second)' <= n2
        BY <1>9, <2>1
    <2>5. PairsCounted(n1 + 1, n2)'
        <3>1. n1 + 1 \in Nat /\ n1 + 1 >= n1
            OBVIOUS
        <3> QED
            BY <1>10, <2>3, <2>4, <3>1
    <2> QED
        BY <2>5
<1>12. CASE Counts(op, Second)
    <2>1. /\ Count(Second)' = value /\ value \in Nat /\ value <= n2 + 1
          /\ Count(First)' = Count(First) /\ Count(Total)' = Count(Total)
        <3>1. op.map = "counters" /\ op.name = Second /\ op.value = 1
            BY <1>7, <1>12 DEF Counts, CountsPair, Second
        <3> QED
            BY <1>5, <1>6, <1>9, <3>1, NamesDiffer
    <2>2. Cardinality(Owing') = Cardinality(Owing) - 1
        BY <1>3, <1>4, <1>12 DEF CountsPair, Second
    <2>3. n1 + (n2 + 1) + Cardinality(Owing') <= Count(Total)'
        <3>1. \A a, b, c \in Nat : n1 + n2 + a <= c /\ b = a - 1 => n1 + (n2 + 1) + b <= c
            OBVIOUS
        <3> QED
            BY <1>4, <1>6, <1>9, <2>1, <2>2, <3>1
    <2>4. Count(First)' <= n1 /\ Count(Second)' <= n2 + 1
        BY <1>9, <2>1
    <2>5. PairsCounted(n1, n2 + 1)'
        <3>1. n2 + 1 \in Nat /\ n2 + 1 >= n2
            OBVIOUS
        <3> QED
            BY <1>10, <2>3, <2>4, <3>1
    <2> QED
        BY <2>5
<1>13. CASE Counts(op, Total)
    <2>1. /\ Count(Total)' \in Nat /\ Count(Total)' >= Count(Total) + op.value
          /\ Count(First)' = Count(First) /\ Count(Second)' = Count(Second)
          /\ op.value \in Nat
        <3>1. op.map = "counters" /\ op.name = Total
            BY <1>13 DEF Counts
        <3> QED
            BY <1>5, <1>6, <1>8, <3>1, NamesDiffer
    <2>2. Cardinality(Owing') <= Cardinality(Owing) + op.value
        <3>1. CASE op.value >= 1
            BY <1>4, <2>1, <3>1
        <3>2. CASE ~(op.value >= 1)
            BY <1>3, <1>4, <2>1, <3>2 DEF CountsTotal
        <3> QED
            BY <3>1, <3>2
    <2>3. n1 + n2 + Cardinality(Owing') <= Count(Total)'
        <3>1. \A a, b, c, d, v \in Nat :
                 n1 + n2 + a <= c /\ b <= a + v /\ d >= c + v => n1 + n2 + b <= d
            OBVIOUS
        <3> QED
            BY <1>4, <1>6, <1>9, <2>1, <2>2, <3>1
    <2>4. PairsCounted(n1, n2)'
        BY <1>9, <1>10, <2>1, <2>3
    <2> QED
        BY <2>4
<1>14. CASE ~Counts(op, First) /\ ~Counts(op, Second) /\ ~Counts(op, Total)
    <2>1. /\ Count(First)' = Count(First) /\ Count(Second)' = Count(Second)
          /\ Count(Total)' = Count(Total)
        BY <1>5, <1>14 DEF Counts
    <2>2. Cardinality(Owing') <= Cardinality(Owing)
        BY <1>3, <1>4, <1>14 DEF CountsTotal, Total
    <2>3. n1 + n2 + Cardinality(Owing') <= Count(Total)'
        <3>1. \A a, b, c \in Nat : n1 + n2 + a <= c /\ b <= a => n1 + n2 + b <= c
            OBVIOUS
        <3> QED
            BY <1>4, <1>6, <1>9, <2>1, <2>2, <3>1
    <2>4. PairsCounted(n1, n2)'
        BY <1>9, <1>10, <2>1, <2>3
    <2> QED
        BY <2>4
<1> QED
    BY <1>11, <1>12, <1>13, <1>14

\* Recording a metric keeps the invariant of the summary.
LEMMA RecordSummary ==
    ASSUME SummaryInv, LossInv', NEW t \in MetricTasks, todo[t] # << >>, Done(t),
           UNCHANGED read, overwritten \subseteq overwritten',
           NEW op, op = Head(todo[t]), op \in Accesses, op.op = "record", NEW value,
           op.map = "counters" =>
              /\ value \in Nat
              /\ \/ value = Count(op.name) + op.value
                 \/ /\ value = op.value
                    /\ op.name \in overwritten' \/ Count(op.name) = 0,
           metrics' = With(op, value)
    PROVE  SummaryInv'
<1>1. /\ TodoTypes /\ ReadTypes
      /\ \A u \in MetricTasks : LeftInOrder(todo[u], read[u]) /\ todo[u] \in Seq(Accesses)
    BY DEF SummaryInv, LossInv, TodoTypes
<1>2. /\ todo'[t] = Tail(todo[t])
      /\ \A u \in MetricTasks \ {t} : todo'[u] = todo[u]
    BY <1>1 DEF TodoTypes, Done
<1>3. LeftInOrder(Tail(todo[t]), read[t])
    <2>1. \A name : ~Gets(op, name)
        BY DEF Gets
    <2> QED
        BY <1>1, <2>1, TailInOrder
<1>4. \A u \in MetricTasks : LeftInOrder(todo'[u], read'[u])
    BY <1>1, <1>2, <1>3
<1>5. ReadTypes'
    BY <1>1 DEF ReadTypes
<1>6. SummaryConsistent'
    BY DEF SummaryInv, SummaryConsistent
<1>7. ASSUME Total \notin overwritten'
      PROVE  \E m1, m2 \in Nat : PairsCounted(m1, m2)'
    <2>1. PICK n1 \in Nat, n2 \in Nat : PairsCounted(n1, n2)
        BY <1>7 DEF SummaryInv
    <2>2. op.map = "counters" =>
             /\ value \in Nat
             /\ \/ value = Count(op.name) + op.value
                \/ value = op.value /\ (op.name = Total => Count(op.name) = 0)
        BY <1>7
    <2> QED
        BY <2>1, <2>2, RecordCounted
<1> QED
    BY <1>4, <1>5, <1>6, <1>7 DEF SummaryInv

\* So does a step that records nothing, with what it reads.
LEMMA ReadSummary ==
    ASSUME SummaryInv, LossInv', NEW t \in MetricTasks, todo[t] # << >>, Done(t),
           UNCHANGED <<metrics, overwritten>>, NEW op, op = Head(todo[t]),
           op \in Accesses, op.op # "record",
           \/ op.op = "get" /\ op.map = "counters"
              /\ read' = [read EXCEPT ![t] = Put(read[t], op.name, Count(op.name))]
           \/ ~(op.op = "get" /\ op.map = "counters") /\ read' = read
    PROVE  SummaryInv'
<1>1. /\ TodoTypes /\ ReadTypes /\ CounterTypes
      /\ \A u \in MetricTasks : LeftInOrder(todo[u], read[u]) /\ todo[u] \in Seq(Accesses)
    BY DEF SummaryInv, LossInv, TodoTypes
<1>2. /\ todo'[t] = Tail(todo[t])
      /\ \A u \in MetricTasks \ {t} : todo'[u] = todo[u]
    BY <1>1 DEF TodoTypes, Done
<1>3. /\ DOMAIN read' = MetricTasks
      /\ \A u \in MetricTasks \ {t} : read'[u] = read[u]
      /\ \A name : name \in DOMAIN read'[t] <=> name \in DOMAIN read[t] \/ Gets(op, name)
      /\ \A name \in DOMAIN read'[t] :
            read'[t][name] = IF Gets(op, name) THEN Count(name) ELSE read[t][name]
    <2>1. CASE /\ op.op = "get" /\ op.map = "counters"
               /\ read' = [read EXCEPT ![t] = Put(read[t], op.name, Count(op.name))]
        <3>1. /\ DOMAIN read' = MetricTasks
              /\ \A u \in MetricTasks \ {t} : read'[u] = read[u]
              /\ read'[t] = Put(read[t], op.name, Count(op.name))
            BY <1>1, <2>1 DEF ReadTypes
        <3>2. \A name : Gets(op, name) <=> name = op.name
            BY <2>1 DEF Gets
        <3> QED
            BY <3>1, <3>2 DEF Put
    <2>2. CASE ~(op.op = "get" /\ op.map = "counters") /\ read' = read
        BY <1>1, <2>2 DEF ReadTypes, Gets
    <2> QED
        BY <2>1, <2>2
<1>4. LeftInOrder(Tail(todo[t]), read'[t])
    <2>1. DOMAIN read[t] \subseteq DOMAIN read'[t]
        BY <1>3
    <2> QED
        BY <1>1, <1>3, <2>1, TailInOrder
<1>5. \A u \in MetricTasks : LeftInOrder(todo'[u], read'[u])
    BY <1>1, <1>2, <1>3, <1>4
<1>6. ReadTypes'
    <2>1. \A name \in DOMAIN read'[t] : read'[t][name] \in Nat
        BY <1>1, <1>3, CountNat DEF ReadTypes
    <2> QED
        BY <1>1, <1>3, <2>1 DEF ReadTypes
<1>7. \A name : Count(name)' = Count(name)
    BY DEF Count
<1>8. ASSUME NEW n1 \in Nat, NEW n2 \in Nat, PairsCounted(n1, n2)
      PROVE  PairsCounted(n1, n2)'
    <2>1. Cardinality(Owing) \in Nat /\ Cardinality(Owing') \in Nat
          /\ Cardinality(Owing') <= Cardinality(Owing)
        <3>1. ~CountsTotal(op)
            BY DEF CountsTotal, Counts
        <3>2. Owes(todo'[t]) => Owes(todo[t])
            BY <1>1, <1>2, <3>1, TailOwes
        <3> QED
            BY <1>2, <3>2, OwingStep
    <2>2. /\ Count(First) \in Nat /\ Count(Second) \in Nat /\ Count(Total) \in Nat
        BY <1>1, CountNat
    <2>3. n1 + n2 + Cardinality(Owing') <= Count(Total)
        BY <1>8, <2>1, <2>2 DEF PairsCounted
    <2>4. ASSUME NEW u \in MetricTasks
          PROVE  /\ First \in DOMAIN read'[u] => read'[u][First] <= n1
                 /\ Second \in DOMAIN read'[u] => read'[u][Second] <= n2
        <3>1. CASE u = t
            BY <1>3, <1>8, <3>1 DEF PairsCounted
        <3>2. CASE u # t
            BY <1>3, <1>8, <3>2 DEF PairsCounted
        <3> QED
            BY <3>1, <3>2
    <2> QED
        BY <1>7, <1>8, <2>3, <2>4 DEF PairsCounted
<1>9. ASSUME Total \notin overwritten, NEW u \in MetricTasks, Total \in DOMAIN read'[u]
      PROVE  read'[u][First] + read'[u][Second] <= read'[u][Total]
    <2>1. CASE u = t /\ Gets(op, Total)
        <3>1. PICK n1 \in Nat, n2 \in Nat : PairsCounted(n1, n2)
            BY <1>9 DEF SummaryInv
        <3>2. First \in DOMAIN read'[t] /\ Second \in DOMAIN read'[t]
            BY <1>4, <1>9, <2>1 DEF LeftInOrder
        <3>3. read'[t][First] <= n1 /\ read'[t][Second] <= n2
            BY <1>8, <3>1, <3>2 DEF PairsCounted
        <3>4. read'[t][Total] = Count(Total)
            BY <1>3, <1>9, <2>1
        <3>5. /\ read'[t][First] \in Nat /\ read'[t][Second] \in Nat
              /\ Count(Total) \in Nat /\ Cardinality(Owing) \in Nat
            BY <1>1, <1>2, <1>6, <3>2, CountNat, OwingStep DEF ReadTypes
        <3>6. n1 + n2 + Cardinality(Owing) <= Count(Total)
            BY <3>1 DEF PairsCounted
        <3> QED
            BY <2>1, <3>3, <3>4, <3>5, <3>6
    <2>2. CASE u # t \/ ~Gets(op, Total)
        <3>1. Total \in DOMAIN read[u]
            BY <1>3, <1>9, <2>2
        <3>2. read[u][First] + read[u][Second] <= read[u][Total]
            BY <1>9, <3>1 DEF SummaryInv, SummaryConsistent, First, Second, Total
        <3>3. u = t => ~GetsPair(op)
            BY <1>1, <3>1, TailShifts DEF LeftInOrder
        <3>4. First \in DOMAIN read[u] /\ Second \in DOMAIN read[u]
            BY <1>1, <3>1 DEF LeftInOrder
        <3>5. /\ read'[u][First] = read[u][First] /\ read'[u][Second] = read[u][Second]
              /\ read'[u][Total] = read[u][Total]
            <4>1. CASE u = t
                <5>1. ~Gets(op, First) /\ ~Gets(op, Second) /\ ~Gets(op, Total)
                    BY <2>2, <3>3, <4>1 DEF GetsPair, First, Second
                <5> QED
                    BY <1>3, <1>9, <3>4, <4>1, <5>1
            <4>2. CASE u # t
                BY <1>3, <4>2
            <4> QED
                BY <4>1, <4>2
        <3> QED
            BY <3>2, <3>5
    <2> QED
        BY <2>1, <2>2
<1>10. SummaryConsistent'
    BY <1>9 DEF SummaryConsistent, First, Second, Total
<1>11. Total \notin overwritten' => \E m1, m2 \in Nat : PairsCounted(m1, m2)'
    BY <1>8 DEF SummaryInv
<1> QED
    BY <1>5, <1>6, <1>10, <1>11 DEF SummaryInv

LEMMA RegistryStepSummary ==
    ASSUME SummaryInv, NEW t \in MetricTasks, RegistryStep(t)
    PROVE  SummaryInv'
<1>1. /\ LossInv /\ TodoTypes /\ CounterTypes
      /\ todo[t] # << >> => Head(todo[t]) \in Accesses
    BY HeadTailProperties DEF SummaryInv, LossInv, TodoTypes
<1>2. LossInv'
    BY <1>1, RegistryStepLoss
<1>3. CASE WaitToRead(t) \/ RecordMissed(t) \/ WaitToWrite(t)
    <2>1. UNCHANGED <<metrics, todo, read, overwritten>>
        BY <1>3 DEF WaitToRead, RecordMissed, WaitToWrite
    <2> QED
        BY <1>2, <2>1 DEF SummaryInv, ReadTypes, PairsCounted, Count, Owing, SummaryConsistent
<1>4. CASE Hold(t)
    <2>1. /\ todo[t] # << >> /\ Done(t) /\ Head(todo[t]).op = "hold"
          /\ UNCHANGED <<metrics, read, overwritten>>
        BY <1>4 DEF Hold, Doing
    <2> QED
        BY <1>1, <1>2, <2>1, ReadSummary
<1>5. CASE Get(t)
    <2>1. PICK op : op = Head(todo[t])
        OBVIOUS
    <2>2. /\ todo[t] # << >> /\ Done(t) /\ op.op = "get"
          /\ UNCHANGED <<metrics, overwritten>>
          /\ read' = IF op.map = "counters"
                       THEN [read EXCEPT ![t] = Put(read[t], op.name,
                                IF Exists(op) THEN metrics[op.map][op.name] ELSE 0)]
                       ELSE read
        BY <1>5, <2>1 DEF Get, Doing
    <2>3. CASE op.map = "counters"
        <3>1. (IF Exists(op) THEN metrics[op.map][op.name] ELSE 0) = Count(op.name)
            BY <2>3 DEF Exists, Count
        <3>2. read' = [read EXCEPT ![t] = Put(read[t], op.name, Count(op.name))]
            BY <2>2, <2>3, <3>1
        <3> QED
            BY <1>1, <1>2, <2>1, <2>2, <2>3, <3>2, ReadSummary
    <2>4. CASE op.map # "counters"
        <3>1. read' = read
            BY <2>2, <2>4
        <3> QED
            BY <1>1, <1>2, <2>1, <2>2, <2>4, <3>1, ReadSummary
    <2> QED
        BY <2>3, <2>4
<1>6. CASE RecordFound(t)
    <2>1. PICK op : op = Head(todo[t])
        OBVIOUS
    <2>2. /\ todo[t] # << >> /\ Done(t) /\ Exists(op) /\ op.op = "record"
          /\ metrics' = With(op, Recorded(op))
          /\ UNCHANGED <<read, overwritten>>
        BY <1>6, <2>1 DEF RecordFound, Doing
    <2>3. op \in Accesses
        BY <1>1, <2>1, <2>2
    <2>4. op.map = "counters" => Recorded(op) \in Nat /\ Recorded(op) = Count(op.name) + op.value
        <3>1. ASSUME op.map = "counters"
              PROVE  /\ Recorded(op) = metrics.counters[op.name] + op.value
                     /\ op.value \in Nat /\ metrics.counters[op.name] \in Nat
                     /\ Count(op.name) = metrics.counters[op.name]
            BY <1>1, <2>2, <2>3, <3>1 DEF Recorded, Accesses, Exists, CounterTypes, Count
        <3> QED
            BY <3>1
    <2>5. PICK v : v = Recorded(op)
        OBVIOUS
    <2>6. /\ metrics' = With(op, v)
          /\ op.map = "counters" => v \in Nat /\ v = Count(op.name) + op.value
        BY <2>2, <2>4, <2>5
    <2> QED
        BY <1>2, <2>1, <2>2, <2>3, <2>6, RecordSummary
<1>7. CASE Insert(t)
    <2>1. PICK op : op = Head(todo[t])
        OBVIOUS
    <2>2. /\ todo[t] # << >> /\ Done(t) /\ op.op = "record"
          /\ metrics' = With(op, Fresh(op)) /\ UNCHANGED read
          /\ overwritten' = overwritten \cup ({op.name} \cap DOMAIN metrics[op.map])
        BY <1>7, <2>1 DEF Insert, Doing
    <2>3. op \in Accesses
        BY <1>1, <2>1, <2>2
    <2>4. op.map = "counters" =>
             /\ Fresh(op) \in Nat /\ Fresh(op) = op.value
             /\ op.name \in overwritten' \/ Count(op.name) = 0
        BY <2>2, <2>3 DEF Fresh, Accesses, Count
    <2>5. PICK v : v = Fresh(op)
        OBVIOUS
    <2>6. /\ metrics' = With(op, v)
          /\ op.map = "counters" =>
                v \in Nat /\ v = op.value /\ (op.name \in overwritten' \/ Count(op.name) = 0)
        BY <2>2, <2>4, <2>5
    <2>7. overwritten \subseteq overwritten'
        BY <2>2
    <2> QED
        BY <1>2, <2>1, <2>2, <2>3, <2>6, <2>7, RecordSummary
<1> QED
    BY <1>3, <1>4, <1>5, <1>6, <1>7 DEF RegistryStep

LEMMA CallSummary ==
    ASSUME SummaryInv, NEW t \in MetricTasks, Call(t),
           \A call \in Menu(t) : TradesInOrder(call)
    PROVE  SummaryInv'
<1>1. PICK call \in Menu(t) : todo' = [todo EXCEPT ![t] = call]
    BY DEF Call
<1>2. call \in Seq(Accesses) /\ TradesInOrder(call)
    BY RegistryAssumption
<1>3. LossInv /\ TodoTypes /\ CounterTypes /\ ReadTypes /\ LossInv'
    BY CallLoss DEF SummaryInv, LossInv
<1>4. /\ todo'[t] = call /\ read'[t] = << >> /\ DOMAIN read' = MetricTasks
      /\ \A u \in MetricTasks \ {t} : todo'[u] = todo[u] /\ read'[u] = read[u]
      /\ UNCHANGED <<metrics, overwritten>>
    BY <1>1, <1>3 DEF TodoTypes, ReadTypes, Call
<1>5. DOMAIN read'[t] = {}
    BY <1>4, EmptySeq
<1>6. /\ \A u \in MetricTasks : LeftInOrder(todo'[u], read'[u])
      /\ ~Owes(todo'[t])
    <2>1. LeftInOrder(todo'[t], read'[t]) /\ ~Owes(todo'[t])
        BY <1>2, <1>4, <1>5, InOrderOwesNothing
    <2> QED
        BY <1>4, <2>1 DEF SummaryInv
<1>7. ReadTypes'
    BY <1>3, <1>4, <1>5 DEF ReadTypes
<1>8. SummaryConsistent'
    BY <1>4, <1>5 DEF SummaryInv, SummaryConsistent
<1>9. ASSUME Total \notin overwritten'
      PROVE  \E m1, m2 \in Nat : PairsCounted(m1, m2)'
    <2>1. PICK n1 \in Nat, n2 \in Nat : PairsCounted(n1, n2)
        BY <1>4, <1>9 DEF SummaryInv
    <2>2. /\ Cardinality(Owing) \in Nat /\ Cardinality(Owing') \in Nat
          /\ Cardinality(Owing') <= Cardinality(Owing)
        BY <1>4, <1>6, OwingStep
    <2>3. /\ Count(First) \in Nat /\ Count(Second) \in Nat /\ Count(Total) \in Nat
          /\ Count(First)' = Count(First) /\ Count(Second)' = Count(Second)
          /\ Count(Total)' = Count(Total)
        BY <1>3, <1>4, CountNat DEF Count
    <2>4. n1 + n2 + Cardinality(Owing') <= Count(Total)
        BY <2>1, <2>2, <2>3 DEF PairsCounted
    <2>5. PairsCounted(n1, n2)'
        BY <1>4, <1>5, <2>1, <2>3, <2>4 DEF PairsCounted
    <2> QED
        BY <2>5
<1> QED
    BY <1>3, <1>6, <1>7, <1>8, <1>9 DEF SummaryInv

LEMMA RegistryInitSummary == RegistryInit => SummaryInv
<1> SUFFICES ASSUME RegistryInit PROVE SummaryInv
    OBVIOUS
<1>1. /\ LossInv /\ overwritten = {}
      /\ DOMAIN read = MetricTasks /\ \A t \in MetricTasks : DOMAIN read[t] = {}
      /\ \A t \in MetricTasks : DOMAIN todo[t] = {}
      /\ \A name : Count(name) = 0
    BY RegistryInitLoss, EmptySeq DEF RegistryInit, Count, Maps
<1>2. ReadTypes /\ SummaryConsistent /\ \A t \in MetricTasks : LeftInOrder(todo[t], read[t])
    BY <1>1 DEF ReadTypes, SummaryConsistent, LeftInOrder
<1>3. Owing = {}
    BY <1>1 DEF Owing, Owes
<1>4. PairsCounted(0, 0)
    BY <1>1, <1>3, FS_EmptySet DEF PairsCounted
<1> QED
    BY <1>1, <1>2, <1>4 DEF SummaryInv

\* The calls of the collector that count or read trades are in order
\* (metrics.rs record_trade, get_business_metrics).
LEMMA CollectorInOrder ==
    /\ \A pair, price, volume : TradesInOrder(record_trade(pair, price, volume))
    /\ TradesInOrder(get_business_metrics)
<1>1. ASSUME NEW pair, NEW price, NEW volume
      PROVE  TradesInOrder(record_trade(pair, price, volume))
    BY SummaryAssumption
    DEF TradesInOrder, record_trade, increment_counter, record_histogram, set_gauge,
        Access, Counts, Gets, CountsPair, CountsTotal, GetsPair
<1>2. TradesInOrder(get_business_metrics)
    BY SummaryAssumption
    DEF TradesInOrder, get_business_metrics, get_counter, Access, Counts, Gets,
        CountsPair, CountsTotal, GetsPair
<1> QED
    BY <1>1, <1>2

\* For any number of tasks whose calls count and read trades in the order of
\* record_trade and get_business_metrics: until an insertion replaces the total,
\* no summary shows more trades of its pairs than trades, whatever is counted
\* while it reads (metrics.rs record_trade, get_business_metrics).
THEOREM SummaryConsistentAlways ==
    ASSUME \A t \in MetricTasks : \A call \in Menu(t) : TradesInOrder(call)
    PROVE  RegistrySpec => []SummaryConsistent
<1>1. SummaryInv /\ RegistryNext => SummaryInv'
    BY RegistryStepSummary, CallSummary DEF RegistryNext
<1>2. SummaryInv /\ UNCHANGED registryVars => SummaryInv'
    <2> SUFFICES ASSUME SummaryInv, UNCHANGED registryVars PROVE SummaryInv'
        OBVIOUS
    <2>1. LossInv'
        BY NothingRecorded DEF SummaryInv
    <2> QED
        BY <2>1 DEF SummaryInv, registryVars, ReadTypes, PairsCounted, Count, Owing,
                    SummaryConsistent
<1>3. SummaryInv => SummaryConsistent
    BY DEF SummaryInv
<1> QED
    BY <1>1, <1>2, <1>3, RegistryInitSummary, PTL DEF RegistrySpec

-----------------------------------------------------------------------------
(* The registry in the service.                                            *)

\* What the event loop records at once.
LEMMA RecordsLoss ==
    ASSUME LossInv, NEW work \in Seq(Accesses), Records(work)
    PROVE  LossInv' /\ NoOtherLoss
<1>1. main \in MetricTasks
    BY ServiceAssumption
<1> QED
    BY <1>1, WorkGiven DEF Records

\* The same of the service, whose loop, scrapes and end use the registry.
THEOREM ServiceLossOnlyAtFirst == ServiceSpec => LossOnlyAtFirst
<1>1. LossInv /\ [ServiceNext]_serviceVars => LossInv' /\ NoOtherLoss
    <2> SUFFICES ASSUME LossInv, [ServiceNext]_serviceVars PROVE LossInv' /\ NoOtherLoss
        OBVIOUS
    <2>1. {main, server_task} \subseteq MetricTasks
        BY ServiceAssumption
    <2>2. CASE UNCHANGED registryVars
        BY <2>2, NothingRecorded
    <2>3. CASE Startup \/ StartHealthCheck \/ CheckNext \/ SleepEnds \/ Bind
               \/ UNCHANGED serviceVars
        BY <2>2, <2>3
        DEF Startup, InitSdk, LoadConfiguration, ValidateOnly, StartService, NewClient,
            StartClient, Stays, StartHealthCheck, CheckNext, SleepEnds, Bind, serviceVars
    <2>4. CASE Registry(main) \/ Registry(server_task)
        BY <2>1, <2>4, RegistryStepLoss DEF Registry
    <2>5. CASE Scrape
        BY <2>1, <2>5, CallLoss DEF Scrape
    <2>6. CASE HealthChecked \/ NextEvent
        <3>1. /\ <<increment_counter("service_starts", 1)>> \in Seq(Accesses)
              /\ <<increment_counter("events_processed", 1),
                   record_histogram("event_processing_duration", 1)>> \in Seq(Accesses)
              /\ <<increment_counter("processing_errors", 1)>> \in Seq(Accesses)
            <4>1. /\ increment_counter("service_starts", 1) \in Accesses
                  /\ increment_counter("events_processed", 1) \in Accesses
                  /\ increment_counter("processing_errors", 1) \in Accesses
                  /\ record_histogram("event_processing_duration", 1) \in Accesses
                <5>1. \A name \in MetricNames : \A value \in Nat :
                         /\ increment_counter(name, value) \in Accesses
                         /\ record_histogram(name, value) \in Accesses
                    BY DEF increment_counter, record_histogram, Access, Accesses, Maps
                <5>2. /\ "service_starts" \in MetricNames /\ "events_processed" \in MetricNames
                      /\ "processing_errors" \in MetricNames
                      /\ "event_processing_duration" \in MetricNames
                    BY ServiceAssumption
                <5>3. 1 \in Nat
                    OBVIOUS
                <5> QED
                    BY <5>1, <5>2, <5>3, Zenon
            <4>2. \A a, b \in Accesses : <<a>> \in Seq(Accesses) /\ <<a, b>> \in Seq(Accesses)
                OBVIOUS
            <4> QED
                BY <4>1, <4>2
        <3> QED
            BY <2>6, <3>1, RecordsLoss DEF HealthChecked, NextEvent
    <2>7. CASE ShutdownSignal \/ ServerEnded
        <3>1. /\ todo' = [t \in MetricTasks |-> << >>] /\ at' = [t \in MetricTasks |-> "next"]
              /\ UNCHANGED <<metrics, recorded>>
            BY <2>7 DEF ShutdownSignal, ServerEnded, MainReturns
        <3>2. todo' \in [MetricTasks -> Seq(Accesses)]
            BY <3>1, EmptySeq
        <3> QED
            BY <3>1, <3>2 DEF LossInv, CounterTypes, TodoTypes, NoOtherLoss
    <2> QED
        BY <2>3, <2>4, <2>5, <2>6, <2>7 DEF ServiceNext, RunService
<1>2. ServiceInit => LossInv
    BY RegistryInitLoss DEF ServiceInit
<1> QED
    BY <1>1, <1>2, PTL DEF ServiceSpec, LossOnlyAtFirst, NoOtherLoss, serviceVars
=============================================================================
