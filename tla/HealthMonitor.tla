----------------------------- MODULE HealthMonitor -----------------------------
(***************************************************************************)
(* HealthMonitor and its checkers (src/src/observability/health.rs), and   *)
(* what the probes of src/src/http_server.rs answer from its last report.  *)
(*                                                                         *)
(* check_health asks one checker after the other, each an await, so the    *)
(* checks of several tasks interleave with each other and with changes of  *)
(* what they look at; the report is stored at the end, under the lock of   *)
(* last_report, whichever check began first.                               *)
(***************************************************************************)
EXTENDS Integers, Sequences, SequencesExt

CONSTANTS CustomCheckers,   \* checkers an application may add
          HealthTasks       \* the tasks that call check_health

HealthStatus == {"Healthy", "Degraded", "Unhealthy"}

VARIABLES checkers,         \* the checkers, in the order they are asked
          condition,        \* of each custom checker, what it would answer
          last_report,      \* the cached report: none, or a sequence of one
          check_call        \* per task, the call under way

healthVars == <<checkers, condition, last_report, check_call>>

Checker(name, limit, critical) ==
    [name |-> name, limit |-> limit, critical |-> critical]

\* What the built-in checkers look at is simulated: a lag, and megabytes of
\* memory (the simulated cpu usage is below its threshold in the same way).
consumer_lag == 150
memory_used_mb == 245

default_checkers ==
    <<Checker("kafka", 1000, TRUE), Checker("circuit_breaker", 0, TRUE),
      Checker("system_resources", 1024, FALSE)>>

NoCheck == [asked |-> << >>, overall |-> "none"]

HealthInit ==
    /\ checkers = default_checkers
    /\ condition = [c \in CustomCheckers |-> "Healthy"]
    /\ last_report = << >>
    /\ check_call = [t \in HealthTasks |-> NoCheck]

Answer(c) ==
    CASE c \in CustomCheckers -> condition[c]
      [] c.name = "kafka" -> IF consumer_lag > c.limit THEN "Degraded" ELSE "Healthy"
      [] c.name = "system_resources" ->
             IF memory_used_mb > c.limit THEN "Degraded" ELSE "Healthy"
      [] OTHER -> "Healthy"

\* add_checker needs the monitor for itself: no call is under way.
AddChecker(c) ==
    /\ \A t \in HealthTasks : check_call[t] = NoCheck
    /\ ~Contains(checkers, c)
    /\ checkers' = Append(checkers, c)
    /\ UNCHANGED <<condition, last_report, check_call>>

\* Mutant: the call goes on from the status of the last report.
StartCheck_FromLast(t) ==
    /\ check_call[t] = NoCheck
    /\ check_call' =
         [check_call EXCEPT ![t] =
            [asked |-> << >>,
             overall |-> IF last_report = << >> THEN "Healthy" ELSE last_report[1].status]]
    /\ UNCHANGED <<checkers, condition, last_report>>

StartCheck(t) ==
    /\ check_call[t] = NoCheck
    /\ check_call' = [check_call EXCEPT ![t] = [asked |-> << >>, overall |-> "Healthy"]]
    /\ UNCHANGED <<checkers, condition, last_report>>

OverallAfter(overall, status, critical) ==
    CASE status = "Unhealthy" /\ critical -> "Unhealthy"
      [] status = "Degraded" /\ critical /\ overall = "Healthy" -> "Degraded"
      [] status = "Unhealthy" /\ ~critical /\ overall = "Healthy" -> "Degraded"
      [] OTHER -> overall

CheckComponent(t) ==
    LET call == check_call[t]
    IN  /\ call # NoCheck /\ Len(call.asked) < Len(checkers)
        /\ LET c == checkers[Len(call.asked) + 1]
               status == Answer(c)
           IN  check_call' =
                 [check_call EXCEPT ![t] =
                    [asked |-> Append(call.asked, [checker |-> c, status |-> status]),
                     overall |-> OverallAfter(call.overall, status, c.critical)]]
    /\ UNCHANGED <<checkers, condition, last_report>>

SaveReport(t) ==
    LET call == check_call[t]
    IN  /\ call # NoCheck /\ Len(call.asked) = Len(checkers)
        /\ last_report' = <<[status |-> call.overall, components |-> call.asked]>>
        /\ check_call' = [check_call EXCEPT ![t] = NoCheck]
    /\ UNCHANGED <<checkers, condition>>

CheckStep(t) == CheckComponent(t) \/ SaveReport(t)

\* What a custom checker looks at changes at any time.
ConditionChanges(c, status) ==
    /\ Contains(checkers, c)
    /\ condition' = [condition EXCEPT ![c] = status]
    /\ UNCHANGED <<checkers, last_report, check_call>>

HealthNext ==
    \/ \E t \in HealthTasks : StartCheck(t) \/ CheckStep(t)
    \/ \E c \in CustomCheckers : AddChecker(c)
    \/ \E c \in CustomCheckers, status \in HealthStatus : ConditionChanges(c, status)

HealthSpec ==
    /\ HealthInit /\ [][HealthNext]_healthVars
    /\ \A t \in HealthTasks : WF_healthVars(CheckStep(t))
-----------------------------------------------------------------------------
(* The probes: without a report they answer from one that is Unhealthy.    *)

reported_status == IF last_report = << >> THEN "Unhealthy" ELSE last_report[1].status

health_handler ==
    CASE reported_status \in {"Healthy", "Degraded"} -> "OK"
      [] reported_status = "Unhealthy" -> "SERVICE_UNAVAILABLE"

readiness_handler ==
    IF reported_status \in {"Healthy", "Degraded"} THEN "OK" ELSE "SERVICE_UNAVAILABLE"

\* Mutant: a service that has not been checked yet is alive.
liveness_handler_AliveAtFirst ==
    IF last_report = << >> \/ reported_status # "Unhealthy" THEN "OK"
    ELSE "SERVICE_UNAVAILABLE"

liveness_handler ==
    IF reported_status # "Unhealthy" THEN "OK" ELSE "SERVICE_UNAVAILABLE"

(* If what the checkers look at stays healthy from some time on and some   *)
(* task goes on making checks, the three probes end up answering OK: a     *)
(* check that began before can store an older report only once.            *)
ProbesRecover ==
    (/\ <>[](\A c \in CustomCheckers : condition[c] = "Healthy")
     /\ \E t \in HealthTasks : []<>(check_call[t] = NoCheck) /\ []<>(check_call[t] # NoCheck))
    => <>[](/\ health_handler = "OK" /\ readiness_handler = "OK"
            /\ liveness_handler = "OK")
=============================================================================
