SPECIFICATION AllSpec
CONSTANTS
    main = main
    server_task = server_task
    application = application
    worker = worker
    MetricTasks = {main, server_task, application, worker}
    MetricNames <- MCMetricNames
    Menu <- MCMenu
    MaxMetricCalls <- MCMaxMetricCalls
    HealthTasks = {main, worker}
    CustomCheckers <- MCCustomCheckers
    CommandLines <- MCCommandLines
    Environments <- MCEnvironments
    AppConfigs <- MCAppConfigs
    Files = {"certs/server.cer.pem", "certs/client.key.pem", "certs/client.cer.pem"}
    MaxReceived = 3
CHECK_DEADLOCK FALSE
INVARIANTS
    SummaryConsistent
    CheckPredictsStart
    AliveIffChecked
PROPERTIES
    LossOnlyAtFirst
    CallsReturn
    ProbesRecover
    NoBlindService
