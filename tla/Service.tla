-------------------------------- MODULE Service --------------------------------
(***************************************************************************)
(* The zola-streams process (src/src/main.rs): from the command line to    *)
(* the client, then the event loop, the health check, the metrics and the  *)
(* HTTP server that run next to each other until one branch of a select!   *)
(* ends.  BitqueryClient::new and start are also used by applications      *)
(* that bring a Config of their own: the command "embedded" here.          *)
(*                                                                         *)
(* What next_event does is StreamConsumer's; here it returns an event or   *)
(* an error (Ok(None) only makes the loop call it again).                  *)
(***************************************************************************)
EXTENDS Config, HealthMonitor, MetricsRegistry

CONSTANTS
    main, server_task,   \* the tasks of run_service and of the scrapes
    CommandLines,        \* [command, config_check, dry_run]
    Environments,        \* the environment variables; unset ones are empty
    AppConfigs,          \* the configurations of embedding applications
    Files,               \* the certificate files that exist
    MaxReceived          \* bound: events and errors of next_event

ASSUME ServiceAssumption ==
    /\ {main, server_task} \subseteq MetricTasks
    /\ main \in HealthTasks /\ MaxReceived \in Nat
    /\ {"service_starts", "events_processed", "event_processing_duration",
        "processing_errors"} \subseteq MetricNames
    /\ \A e \in Environments : e.brokers \in Seq([name : STRING, padded : BOOLEAN])

VARIABLES
    phase,      \* "init", "load", "check", "start", "create", "subscribe", "run", "exited"
    exit,       \* "none", or what main returns
    cli, env,
    config,
    server,     \* the HTTP server: "none", "starting", "listening" or "failed"
    loop_at,    \* run_service: "start", "checking", "receiving" or "sleeping"
    received,   \* history: events next_event returned
    failed      \* history: errors it returned

processVars == <<phase, exit, cli, env, config, server, loop_at, received, failed>>
serviceVars == <<processVars, healthVars, registryVars>>

\* Initially only the command line and the environment are open.
ProcessInit ==
    /\ cli \in CommandLines /\ env \in Environments
    /\ config \in IF cli.command = "embedded" THEN AppConfigs ELSE {DefaultConfig}
    /\ phase = IF cli.command = "embedded" THEN "create" ELSE "init"
    /\ exit = "none" /\ server = "none" /\ loop_at = "start"
    /\ received = 0 /\ failed = 0

ServiceInit == ProcessInit /\ HealthInit /\ RegistryInit

Exit(outcome) == phase' = "exited" /\ exit' = outcome

Stays == UNCHANGED <<cli, env, server, loop_at, received, failed, healthVars, registryVars>>
-----------------------------------------------------------------------------
(* Start-up.                                                               *)

Given(value, default) == IF value = "" THEN default ELSE value

\* split(',') and trim: every part becomes a broker, an empty one too.
BrokersFrom(parts, default) ==
    IF parts = << >> THEN default ELSE [i \in DOMAIN parts |-> parts[i].name]

apply_environment_overrides(c, e) ==
    [c EXCEPT
        !.kafka.username = Given(e.username, @), !.kafka.password = Given(e.password, @),
        !.kafka.brokers = BrokersFrom(e.brokers, @),
        !.kafka.topics = IF e.topic = "" THEN @ ELSE <<e.topic>>,
        !.kafka.group_id = Given(e.group_id, @)]

\* Mutant: a variable that is set to nothing is taken too.
start_overrides_EmptyToo(c, e) ==
    [c EXCEPT
        !.kafka.username = e.username, !.kafka.password = Given(e.password, @),
        !.kafka.brokers = BrokersFrom(e.brokers, @)]

\* start_service has its own copy of a part of it, and that copy twice.
start_overrides(c, e) ==
    [c EXCEPT
        !.kafka.username = Given(e.username, @), !.kafka.password = Given(e.password, @),
        !.kafka.brokers = BrokersFrom(e.brokers, @)]

\* init_with_config fails when a logger is set or the metrics port is taken.
InitSdk ==
    /\ phase = "init"
    /\ \/ cli.command = "version" /\ Exit("ok")
       \/ cli.command # "version" /\ phase' = "load" /\ UNCHANGED exit
       \/ cli.command # "version" /\ Exit("err")
    /\ UNCHANGED config /\ Stays

\* A --config-file is not read.
LoadConfiguration ==
    /\ phase = "load"
    /\ config' = apply_environment_overrides(DefaultConfig, env)
    /\ phase' = IF cli.config_check \/ cli.dry_run \/ cli.command = "validate"
                THEN "check" ELSE "start"
    /\ UNCHANGED exit /\ Stays

\* A dry run also looks for the certificates, if it has to use them.
CertificatesReadable ==
    config.kafka.enable_ssl => SslValid(config.kafka.ssl, Files)

ValidateOnly ==
    /\ phase = "check"
    /\ LET dry == cli.dry_run /\ ~cli.config_check /\ cli.command # "validate"
           good == Valid(config, Files) /\ (dry => CertificatesReadable)
       IN  Exit(IF good THEN "ok" ELSE "err")
    /\ UNCHANGED config /\ Stays

StartService ==
    /\ phase = "start"
    /\ config' = start_overrides(start_overrides(config, env), env)
    /\ phase' = "create"
    /\ UNCHANGED exit /\ Stays

\* BitqueryClient::new: creating the rdkafka consumer may fail.
NewClient ==
    /\ phase = "create"
    /\ \/ Valid(config, Files) /\ phase' = "subscribe" /\ UNCHANGED exit
       \/ Exit("err")
    /\ UNCHANGED config /\ Stays

\* client.start, and the server is spawned.
StartClient ==
    /\ phase = "subscribe"
    /\ \/ /\ phase' = "run" /\ UNCHANGED exit
          /\ server' = IF cli.command = "embedded" THEN "none" ELSE "starting"
       \/ Exit("err") /\ UNCHANGED server
    /\ UNCHANGED <<config, cli, env, loop_at, received, failed, healthVars, registryVars>>
-----------------------------------------------------------------------------
(* The three branches of the select!.                                      *)

Serving == phase = "run" /\ cli.command # "embedded"

Same == UNCHANGED <<phase, exit, cli, env, config>>

StartHealthCheck ==
    /\ Serving /\ loop_at = "start"
    /\ StartCheck(main)
    /\ loop_at' = "checking"
    /\ Same /\ UNCHANGED <<server, received, failed, registryVars>>

CheckNext ==
    /\ Serving /\ loop_at = "checking"
    /\ CheckComponent(main)
    /\ Same /\ UNCHANGED <<server, loop_at, received, failed, registryVars>>

Records(accesses) ==
    /\ todo[main] = << >> /\ todo' = [todo EXCEPT ![main] = accesses]
    /\ UNCHANGED <<metrics, queue, guards, at, read, recorded, overwritten, metric_calls>>

HealthChecked ==
    /\ Serving /\ loop_at = "checking"
    /\ SaveReport(main)
    /\ Records(<<increment_counter("service_starts", 1)>>)
    /\ loop_at' = "receiving"
    /\ Same /\ UNCHANGED <<server, received, failed>>

NextEvent ==
    /\ Serving /\ loop_at = "receiving" /\ received + failed < MaxReceived
    /\ \/ /\ received' = received + 1
          /\ Records(<<increment_counter("events_processed", 1),
                       record_histogram("event_processing_duration", 1)>>)
          /\ UNCHANGED <<loop_at, failed>>
       \/ /\ failed' = failed + 1
          /\ Records(<<increment_counter("processing_errors", 1)>>)
          /\ loop_at' = "sleeping"
          /\ UNCHANGED received
    /\ Same /\ UNCHANGED <<server, healthVars>>

SleepEnds ==
    /\ Serving /\ loop_at = "sleeping" /\ todo[main] = << >>
    /\ loop_at' = "receiving"
    /\ Same /\ UNCHANGED <<server, received, failed, healthVars, registryVars>>

Registry(t) ==
    /\ Serving /\ RegistryStep(t)
    /\ UNCHANGED <<processVars, healthVars>>

\* warp panics when the port is taken, and its task is over.
Bind ==
    /\ Serving /\ server = "starting"
    /\ server' \in {"listening", "failed"}
    /\ Same /\ UNCHANGED <<loop_at, received, failed, healthVars, registryVars>>

\* metrics_handler.
Scrape ==
    /\ Serving /\ server = "listening"
    /\ Call(server_task) /\ todo'[server_task] = export_prometheus
    /\ UNCHANGED <<processVars, healthVars>>

\* main returns, and the runtime drops every task where it is.
MainReturns ==
    /\ Exit("ok")
    /\ todo' = [t \in MetricTasks |-> << >>] /\ at' = [t \in MetricTasks |-> "next"]
    /\ queue' = [map \in Maps |-> << >>] /\ guards' = [map \in Maps |-> {}]
    /\ UNCHANGED <<cli, env, config, server, loop_at, received, failed, healthVars,
                   metrics, read, recorded, overwritten, metric_calls>>

ShutdownSignal == Serving /\ MainReturns

\* Mutant: the handle of the server is not waited for.
ServerEnded_Unnoticed ==
    Serving /\ server = "failed" /\ UNCHANGED serviceVars

ServerEnded == Serving /\ server = "failed" /\ MainReturns

Startup ==
    \/ InitSdk \/ LoadConfiguration \/ ValidateOnly \/ StartService
    \/ NewClient \/ StartClient

RunService ==
    StartHealthCheck \/ CheckNext \/ HealthChecked \/ SleepEnds \/ Registry(main)

ServiceNext ==
    \/ Startup \/ RunService \/ NextEvent \/ Bind \/ Registry(server_task)
    \/ Scrape \/ ShutdownSignal \/ ServerEnded

ServiceSpec ==
    /\ ServiceInit /\ [][ServiceNext]_serviceVars
    /\ WF_serviceVars(Startup \/ RunService) /\ WF_serviceVars(Bind)
    /\ WF_serviceVars(Registry(server_task)) /\ WF_serviceVars(ServerEnded)
-----------------------------------------------------------------------------
(* What "validate" and "--dry-run" judge is what the service then starts   *)
(* with: overriding the configuration again changes nothing, and no        *)
(* environment makes it invalid.                                           *)
CheckPredictsStart ==
    phase \in {"create", "subscribe", "run"} /\ cli.command # "embedded" =>
        /\ config = apply_environment_overrides(DefaultConfig, env)
        /\ Valid(config, Files)

(* The server is spawned before the health check is made: a probe that is  *)
(* answered in between says that the service is not alive, and one that is *)
(* answered after it says that it is, for ever.                            *)
AliveIffChecked ==
    Serving /\ server = "listening" =>
        (liveness_handler = "OK" <=> loop_at \notin {"start", "checking"})

(* A service whose HTTP server could not be started does not go on without *)
(* its endpoints.                                                          *)
NoBlindService == server = "failed" ~> phase = "exited"
=============================================================================
