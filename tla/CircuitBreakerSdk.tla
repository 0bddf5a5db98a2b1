-------------------------- MODULE CircuitBreakerSdk --------------------------
(***************************************************************************)
(* core/utils/circuit_breaker_sdk.rs: a breaker with Closed, Open and      *)
(* HalfOpen, shared by Callers that run operations through execute().      *)
(*                                                                         *)
(* The breaker has no lock of its own: the state, the time of its last     *)
(* change and the metrics each have a mutex held for one access, and the   *)
(* three counters are atomics.  Each access is one step.  todo[c] is what  *)
(* caller c has still to do inside the call it is in, the next step first. *)
(* Of the metrics the balance of the four request counters is kept; the    *)
(* count of transitions and the times are only ever reported.              *)
(***************************************************************************)
EXTENDS Integers, Sequences, FiniteSets

CONSTANTS
    Callers,
    failure_threshold, success_threshold, half_open_max_requests,
    MaxInterrupts  \* bound: dropped futures and calls of reset(), together

\* What CircuitBreakerConfig::validate accepts.
ASSUME SdkAssumption ==
    /\ IsFiniteSet(Callers)
    /\ failure_threshold \in Nat \ {0}
    /\ success_threshold \in Nat \ {0}
    /\ half_open_max_requests \in Nat \ {0}
    /\ MaxInterrupts \in Nat

VARIABLES
    state,               \* Closed, Open or HalfOpen
    failure_count, success_count, half_open_requests,
    rested,              \* last_state_change.elapsed() >= reset_timeout
    balance,             \* of the metrics: total_requests - successful - failed
                         \* - rejected
    todo,                \* the steps each caller has still to take
    current_state,       \* the state record_success / record_failure read
    abandoned,           \* history: requests dropped before they were recorded
    interrupts           \* how often the bounded events happened

counters == <<failure_count, success_count, half_open_requests>>
historyVars == <<abandoned, interrupts>>
sdkVars == <<state, counters, rested, balance, todo, current_state, historyVars>>

SdkInit ==
    /\ state = "Closed"
    /\ failure_count = 0 /\ success_count = 0 /\ half_open_requests = 0
    /\ rested = FALSE
    /\ balance = 0
    /\ todo = [c \in Callers |-> <<>>]
    /\ current_state = [c \in Callers |-> "Closed"]
    /\ abandoned = 0 /\ interrupts = 0
-----------------------------------------------------------------------------
At(c, step) == todo[c] # <<>> /\ Head(todo[c]) = step

Do(c, steps) == todo' = [todo EXCEPT ![c] = steps]

Done(c) == Do(c, Tail(todo[c]))

\* The counters are only ever compared with their threshold, so what lies
\* above it is not told apart.
UpTo(limit, n) == IF n < limit THEN n + 1 ELSE limit

\* current_state has been used for the last time.
Forget(c) == current_state' = [current_state EXCEPT ![c] = "Closed"]

\* metrics.total_requests += 1
CountRequest == balance' = balance + 1

\* successful_requests, failed_requests or rejected_requests += 1
CountOutcome == balance' = balance - 1

\* Time passes: reset_timeout has elapsed since the last recorded change.
TimeoutElapses ==
    /\ ~rested
    /\ rested' = TRUE
    /\ UNCHANGED <<state, counters, balance, todo, current_state, historyVars>>
-----------------------------------------------------------------------------
(* The stores that follow a change of state, one step each.                *)

AfterOpen     == <<"touch">>
AfterHalfOpen == <<"zero_requests", "zero_successes", "touch", "call">>
AfterClosed   == <<"zero_failures", "zero_successes", "zero_requests", "touch">>
ResetSteps    == <<"zero_failures", "zero_successes", "zero_requests",
                   "set_closed", "touch">>

Zero(c) ==
    /\ \/ At(c, "zero_failures") /\ failure_count' = 0
          /\ UNCHANGED <<success_count, half_open_requests>>
       \/ At(c, "zero_successes") /\ success_count' = 0
          /\ UNCHANGED <<failure_count, half_open_requests>>
       \/ At(c, "zero_requests") /\ half_open_requests' = 0
          /\ UNCHANGED <<failure_count, success_count>>
    /\ Done(c)
    /\ UNCHANGED <<state, rested, balance, current_state, historyVars>>

\* *last_change = Instant::now()
Touch(c) ==
    /\ At(c, "touch")
    /\ rested' = FALSE
    /\ Done(c)
    /\ UNCHANGED <<state, counters, balance, current_state, historyVars>>
-----------------------------------------------------------------------------
(* allow_request.                                                          *)

AllowRequest(c) ==
    /\ todo[c] = <<>>
    /\ CountRequest
    /\ Do(c, <<"state">>)
    /\ UNCHANGED <<state, counters, rested, current_state, historyVars>>

AllowState(c) ==
    /\ At(c, "state")
    /\ Do(c, CASE state = "Closed" -> <<"call">>
               [] state = "Open" -> <<"should_reset">>
               [] state = "HalfOpen" -> <<"load_requests">>)
    /\ UNCHANGED <<state, counters, rested, balance, current_state, historyVars>>

ShouldAttemptReset(c) ==
    /\ At(c, "should_reset")
    /\ Do(c, IF rested THEN <<"to_half_open">> ELSE <<"reject">>)
    /\ UNCHANGED <<state, counters, rested, balance, current_state, historyVars>>

\* The request goes through whether or not this caller made the transition.
TransitionToHalfOpen(c) ==
    /\ At(c, "to_half_open")
    /\ \/ /\ state = "Open"
          /\ state' = "HalfOpen"
          /\ Do(c, AfterHalfOpen)
       \/ /\ state # "Open"
          /\ Do(c, <<"call">>)
          /\ UNCHANGED state
    /\ UNCHANGED <<counters, rested, balance, current_state, historyVars>>

\* Mutant: `<=` for `<`.
LoadRequests_OffByOne(c) ==
    /\ At(c, "load_requests")
    /\ Do(c, IF half_open_requests <= half_open_max_requests
             THEN <<"add_request">> ELSE <<"reject">>)
    /\ UNCHANGED <<state, counters, rested, balance, current_state, historyVars>>

LoadRequests(c) ==
    /\ At(c, "load_requests")
    /\ Do(c, IF half_open_requests < half_open_max_requests
             THEN <<"add_request">> ELSE <<"reject">>)
    /\ UNCHANGED <<state, counters, rested, balance, current_state, historyVars>>

AddRequest(c) ==
    /\ At(c, "add_request")
    /\ half_open_requests' = half_open_requests + 1
    /\ Do(c, <<"call">>)
    /\ UNCHANGED <<state, failure_count, success_count, rested, balance,
                   current_state, historyVars>>

\* Mutant: the rejection is not counted.
RecordRejectedRequest_Uncounted(c) ==
    /\ At(c, "reject")
    /\ Do(c, <<>>)
    /\ UNCHANGED <<state, counters, rested, balance, current_state, historyVars>>

RecordRejectedRequest(c) ==
    /\ At(c, "reject")
    /\ CountOutcome
    /\ Do(c, <<>>)
    /\ UNCHANGED <<state, counters, rested, current_state, historyVars>>
-----------------------------------------------------------------------------
(* execute: the operation, then record_success or record_failure.          *)

OperationEnds(c) ==
    /\ At(c, "call")
    /\ \E outcome \in {"succeeded", "failed"} : Do(c, <<outcome>>)
    /\ UNCHANGED <<state, counters, rested, balance, current_state, historyVars>>

\* let current_state = self.state().await
ReadState(c) ==
    /\ \/ At(c, "succeeded") /\ Do(c, <<"add_success">>)
       \/ At(c, "failed") /\ Do(c, <<"add_failure">>)
    /\ current_state' = [current_state EXCEPT ![c] = state]
    /\ UNCHANGED <<state, counters, rested, balance, historyVars>>

AddOutcome(c) ==
    /\ \/ /\ At(c, "add_success")
          /\ success_count' = UpTo(success_threshold, success_count)
          /\ Do(c, <<"count_success">>)
          /\ UNCHANGED failure_count
       \/ /\ At(c, "add_failure")
          /\ failure_count' = UpTo(failure_threshold, failure_count)
          /\ Do(c, <<"count_failure">>)
          /\ UNCHANGED success_count
    /\ UNCHANGED <<state, half_open_requests, rested, balance, current_state,
                   historyVars>>

\* Mutant: successes in HalfOpen never lead to transition_to_closed.
CountSuccess_NeverCloses(c) ==
    /\ At(c, "count_success")
    /\ CountOutcome
    /\ Do(c, IF current_state[c] = "Closed" THEN <<"zero_failures">> ELSE <<>>)
    /\ Forget(c)
    /\ UNCHANGED <<state, counters, rested, historyVars>>

\* The metrics, and the match on the state read before.
CountSuccess(c) ==
    /\ At(c, "count_success")
    /\ CountOutcome
    /\ Do(c, CASE current_state[c] = "Closed" -> <<"zero_failures">>
               [] current_state[c] = "HalfOpen" -> <<"load_successes">>
               [] current_state[c] = "Open" -> <<>>)
    /\ Forget(c)
    /\ UNCHANGED <<state, counters, rested, historyVars>>

CountFailure(c) ==
    /\ At(c, "count_failure")
    /\ CountOutcome
    /\ Do(c, CASE current_state[c] = "Closed" -> <<"load_failures">>
               [] current_state[c] = "HalfOpen" -> <<"to_open">>
               [] current_state[c] = "Open" -> <<>>)
    /\ Forget(c)
    /\ UNCHANGED <<state, counters, rested, historyVars>>

LoadOutcomes(c) ==
    /\ \/ /\ At(c, "load_successes")
          /\ Do(c, IF success_count >= success_threshold THEN <<"to_closed">>
                   ELSE <<>>)
       \/ /\ At(c, "load_failures")
          /\ Do(c, IF failure_count >= failure_threshold THEN <<"to_open">>
                   ELSE <<>>)
    /\ UNCHANGED <<state, counters, rested, balance, current_state, historyVars>>

TransitionToOpen(c) ==
    /\ At(c, "to_open")
    /\ \/ state # "Open" /\ state' = "Open" /\ Do(c, AfterOpen)
       \/ state = "Open" /\ Do(c, <<>>) /\ UNCHANGED state
    /\ UNCHANGED <<counters, rested, balance, current_state, historyVars>>

TransitionToClosed(c) ==
    /\ At(c, "to_closed")
    /\ \/ state # "Closed" /\ state' = "Closed" /\ Do(c, AfterClosed)
       \/ state = "Closed" /\ Do(c, <<>>) /\ UNCHANGED state
    /\ UNCHANGED <<counters, rested, balance, current_state, historyVars>>
-----------------------------------------------------------------------------
(* reset, and a future of execute() or reset() that is dropped.            *)

Reset(c) ==
    /\ todo[c] = <<>>
    /\ interrupts < MaxInterrupts
    /\ interrupts' = interrupts + 1
    /\ Do(c, ResetSteps)
    /\ UNCHANGED <<state, counters, rested, balance, current_state, abandoned>>

\* Callers inside a request whose outcome no metric shows yet.
Unrecorded ==
    {c \in Callers :
        \/ \E step \in {"state", "should_reset", "to_half_open",
                        "load_requests", "add_request", "reject", "succeeded",
                        "failed", "add_success", "add_failure",
                        "count_success", "count_failure"} : At(c, step)
        \/ todo[c] # <<>> /\ todo[c][Len(todo[c])] = "call"}

\* Steps that begin with an await, of a mutex or of the operation.
Awaits == {"state", "should_reset", "to_half_open", "reject", "call",
           "succeeded", "failed", "count_success", "count_failure", "to_open",
           "to_closed", "touch", "set_closed"}

\* Whatever the caller had still to do is left out.
Abandon(c) ==
    /\ \E step \in Awaits : At(c, step)
    /\ interrupts < MaxInterrupts
    /\ interrupts' = interrupts + 1
    /\ abandoned' = IF c \in Unrecorded THEN abandoned + 1 ELSE abandoned
    /\ Do(c, <<>>)
    /\ Forget(c)
    /\ UNCHANGED <<state, counters, rested, balance>>

ResetState(c) ==
    /\ At(c, "set_closed")
    /\ state' = "Closed"
    /\ Done(c)
    /\ UNCHANGED <<counters, rested, balance, current_state, historyVars>>
-----------------------------------------------------------------------------
AllowStep(c) ==
    \/ AllowRequest(c)
    \/ AllowState(c)
    \/ ShouldAttemptReset(c)
    \/ TransitionToHalfOpen(c)
    \/ LoadRequests(c)
    \/ AddRequest(c)
    \/ RecordRejectedRequest(c)

RecordStep(c) ==
    \/ OperationEnds(c)
    \/ ReadState(c)
    \/ AddOutcome(c)
    \/ CountSuccess(c)
    \/ CountFailure(c)
    \/ LoadOutcomes(c)
    \/ TransitionToOpen(c)
    \/ TransitionToClosed(c)

StoreStep(c) == Zero(c) \/ Touch(c) \/ ResetState(c)

CallerStep(c) == AllowStep(c) \/ RecordStep(c) \/ StoreStep(c)

SdkNext ==
    \/ TimeoutElapses
    \/ \E c \in Callers : CallerStep(c) \/ Abandon(c) \/ Reset(c)

SdkSpec == SdkInit /\ [][SdkNext]_sdkVars

\* Callers keep making requests, operations end, time passes.
SdkFairSpec == /\ SdkSpec
               /\ WF_sdkVars(TimeoutElapses)
               /\ \A c \in Callers : WF_sdkVars(CallerStep(c))
-----------------------------------------------------------------------------
States == {"Closed", "Open", "HalfOpen"}

Steps == {"zero_failures", "zero_successes", "zero_requests", "touch",
          "set_closed", "state", "should_reset", "to_half_open",
          "load_requests", "add_request", "reject", "call", "succeeded",
          "failed", "add_success", "add_failure", "count_success",
          "count_failure", "load_successes", "load_failures", "to_open",
          "to_closed"}

\* Callers that found a free half-open slot and have not taken it yet.
Admitting == {c \in Callers : At(c, "add_request")}

\* The load and the fetch_add of the half-open counter are two steps, so each
\* other caller may overshoot the limit by one, and no more
\* (circuit_breaker_sdk.rs:229-231).
SlotsBounded ==
    half_open_requests + Cardinality(Admitting)
       <= half_open_max_requests - 1 + Cardinality(Callers)

\* Every request is counted once: the total is what succeeded, failed or was
\* rejected, what is under way and what was abandoned, through all transitions
\* and resets.
MetricsAccounted == balance = Cardinality(Unrecorded) + abandoned
=============================================================================
