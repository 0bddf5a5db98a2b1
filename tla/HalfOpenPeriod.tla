---------------------------- MODULE HalfOpenPeriod ----------------------------
(***************************************************************************)
(* CircuitBreakerSdk with a history of the half-open period it is in: how  *)
(* many test requests have succeeded, and whether one of them was lost.    *)
(* The steps are those of the breaker; the history only looks on.          *)
(***************************************************************************)
EXTENDS CircuitBreakerSdk

VARIABLES
    passed,   \* successes of test requests counted in this half-open period
    hindered  \* in this period a future was dropped or a success was wiped

periodVars == <<sdkVars, passed, hindered>>

PeriodInit == SdkInit /\ passed = 0 /\ hindered = FALSE

\* record_success, having read HalfOpen, adds to success_count.
TestPasses ==
    \E c \in Callers :
        /\ At(c, "add_success") /\ current_state[c] = "HalfOpen"
        /\ AddOutcome(c)

\* A late store of zero to success_count takes counted successes with it.
SuccessWiped ==
    /\ success_count > 0 /\ passed > 0
    /\ \E c \in Callers : At(c, "zero_successes") /\ Zero(c)

PeriodGoesOn ==
    /\ state = "HalfOpen" /\ state' = "HalfOpen"
    /\ passed' = IF TestPasses THEN UpTo(success_threshold, passed) ELSE passed
    /\ hindered' = \/ hindered \/ SuccessWiped
                   \/ \E c \in Callers : Abandon(c)

NoPeriod ==
    /\ state # "HalfOpen" \/ state' # "HalfOpen"
    /\ passed' = 0 /\ hindered' = FALSE

PeriodHistory == PeriodGoesOn \/ NoPeriod

PeriodNext == SdkNext /\ PeriodHistory

PeriodSpec == PeriodInit /\ [][PeriodNext]_periodVars

\* The fairness of SdkFairSpec.
PeriodFairSpec == /\ PeriodSpec
                  /\ WF_sdkVars(TimeoutElapses)
                  /\ \A c \in Callers : WF_sdkVars(CallerStep(c))
-----------------------------------------------------------------------------
\* Every slot is taken and no caller is past the half-open gate any more: what
\* comes next is rejected.
SlotsSpent ==
    /\ half_open_requests >= half_open_max_requests
    /\ \A c \in Callers :
          todo[c] # <<>> => Head(todo[c]) \in {"state", "load_requests", "reject"}

\* The half-open period ends, with one exception: its slots are spent, and
\* they were not enough, because the threshold is above them, a future was
\* dropped, or successes of test requests were wiped by the store of zero that
\* follows the publication of HalfOpen (circuit_breaker_sdk.rs:382-386).  No
\* interleaving rejects requests while there is a slot, or goes on half open
\* after enough successes that were kept.
HalfOpenResolves ==
    state = "HalfOpen" ~>
        \/ state # "HalfOpen"
        \/ /\ SlotsSpent
           /\ hindered \/ success_threshold > half_open_max_requests + 1

\* "Number of successful requests required to close from HalfOpen"
\* (circuit_breaker_sdk.rs:51): once that many test requests have succeeded
\* the circuit leaves HalfOpen.
ClosesAfterSuccesses ==
    passed >= success_threshold ~> state # "HalfOpen"
=============================================================================
