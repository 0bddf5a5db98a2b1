------------------------------- MODULE MCService -------------------------------
(***************************************************************************)
(* For TLC: the service, and by themselves the registry with tasks that    *)
(* record all it offers and the health monitor with checkers of an         *)
(* application, neither of which the service has.  In a behaviour one of   *)
(* them, the subject, runs.                                                *)
(***************************************************************************)
EXTENDS Service

CONSTANTS application, worker   \* further tasks that use the registry

VARIABLE subject

allVars == <<subject, serviceVars>>

Cli(command, config_check, dry_run) ==
    [command |-> command, config_check |-> config_check, dry_run |-> dry_run]

NoEnvironment ==
    [username |-> "", password |-> "", brokers |-> << >>, topic |-> "", group_id |-> ""]

AllInit ==
    /\ subject \in {"service", "registry", "monitor"}
    /\ HealthInit /\ RegistryInit
    /\ IF subject = "service" THEN ProcessInit
       ELSE /\ phase = "exited" /\ exit = "ok" /\ server = "none" /\ loop_at = "start"
            /\ received = 0 /\ failed = 0 /\ config = DefaultConfig
            /\ cli = Cli("start", FALSE, FALSE) /\ env = NoEnvironment

ServiceRuns(A) == subject = "service" /\ A /\ UNCHANGED subject

RegistryRuns(A) ==
    subject = "registry" /\ A /\ UNCHANGED <<subject, processVars, healthVars>>

MonitorRuns(A) ==
    subject = "monitor" /\ A /\ UNCHANGED <<subject, processVars, registryVars>>

Recorders == MetricTasks \ {server_task}

AllNext ==
    \/ ServiceRuns(ServiceNext)
    \/ \E t \in Recorders : RegistryRuns(RegistryStep(t) \/ Call(t))
    \/ MonitorRuns(HealthNext)

\* The fairness of ServiceSpec, RegistrySpec and HealthSpec.
AllSpec ==
    /\ AllInit /\ [][AllNext]_allVars
    /\ WF_allVars(ServiceRuns(Startup \/ RunService)) /\ WF_allVars(ServiceRuns(Bind))
    /\ WF_allVars(ServiceRuns(Registry(server_task)))
    /\ WF_allVars(ServiceRuns(ServerEnded))
    /\ \A t \in Recorders : WF_allVars(RegistryRuns(RegistryStep(t)))
    /\ \A t \in HealthTasks : WF_allVars(MonitorRuns(CheckStep(t)))
-----------------------------------------------------------------------------
MCMetricNames == STRING

MCMenu(t) ==
    CASE t = main ->
           {record_trade("SOL/USDC", 1, 2) \o <<increment_counter("trades_total", 1)>>}
      [] t = application -> {get_business_metrics, record_trade("SOL/USDC", 3, 4)}
      [] t = worker ->
           {export_prometheus, update_system_metrics(3), get_system_metrics,
            record_user_activity("wallet"),
            record_dex_interaction("program", "swap") \o record_processing_latency("parse", 5)}
      [] t = server_task -> {export_prometheus}

MCMaxMetricCalls(t) == IF t = server_task THEN 2 ELSE 1

MCCustomCheckers == {Checker("database", 0, TRUE), Checker("cache", 0, FALSE)}

MCCommandLines ==
    {Cli("start", FALSE, FALSE), Cli("version", FALSE, FALSE), Cli("validate", FALSE, TRUE),
     Cli("none", TRUE, FALSE), Cli("none", FALSE, TRUE), Cli("embedded", FALSE, FALSE)}

Broker(name, padded) == [name |-> name, padded |-> padded]

MCEnvironments ==
    {NoEnvironment,
     [username |-> "user", password |-> "word", topic |-> "tokens", group_id |-> "group",
      brokers |-> <<Broker("b1", FALSE), Broker("b2", TRUE)>>],
     [NoEnvironment EXCEPT !.brokers = <<Broker("", FALSE), Broker("", TRUE)>>]}

Broken(part, field, value) == [DefaultConfig EXCEPT ![part][field] = value]

MCAppConfigs ==
    {NewConfig("user", "word", ""), NewConfig("", "word", "suffix"),
     Broken("kafka", "enable_ssl", TRUE), Broken("kafka", "brokers", << >>),
     Broken("processing", "parallel_workers", 0), Broken("processing", "batch_size", 0),
     Broken("resources", "max_queue_size", 0), Broken("resources", "max_memory_bytes", 0),
     Broken("resources", "backpressure_threshold", 9), Broken("retry", "multiplier", 99)}
=============================================================================
