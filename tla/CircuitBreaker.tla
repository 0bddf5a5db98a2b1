---------------------------- MODULE CircuitBreaker ----------------------------
(***************************************************************************)
(* core/utils/circuit_breaker.rs: the two-state breaker.  is_open and      *)
(* failure_count are atomics; the time it opened is behind a tokio mutex.  *)
(* Each access is a step, and between two of them other callers run.       *)
(*                                                                         *)
(* A caller asks is_open() and, when the answer is no, runs its operation  *)
(* and records the outcome; with several callers an outcome may therefore  *)
(* arrive after the circuit has opened.                                    *)
(***************************************************************************)
EXTENDS Integers, FiniteSets

CONSTANTS
    Callers,
    threshold   \* consecutive failures required to open; 0 is accepted

ASSUME BreakerAssumption == threshold \in Nat

VARIABLES
    failure_count,
    is_open,
    opened_at,   \* last_failure_or_opened_time: None, or a time that is
                 \* reset_timeout ago ("elapsed") or less ("recent")
    holder,      \* the callers holding its mutex across another access
    pc

cbVars == <<failure_count, is_open, opened_at, holder, pc>>

CBInit ==
    /\ failure_count = 0 /\ is_open = FALSE
    /\ opened_at = "None" /\ holder = {}
    /\ pc = [c \in Callers |-> "out"]

Goto(c, at, next) == pc[c] = at /\ pc' = [pc EXCEPT ![c] = next]

\* The mutex is free; the step takes it and lets it go.
Locked == holder = {} /\ UNCHANGED holder

\* Counts at or above the threshold are not told apart.
Increment(n) == IF n < threshold THEN n + 1 ELSE n

\* reset_timeout passes since the time that is stored.
TimeoutElapses ==
    /\ opened_at = "recent"
    /\ opened_at' = "elapsed"
    /\ UNCHANGED <<failure_count, is_open, holder, pc>>
-----------------------------------------------------------------------------
(* is_open(): a closed circuit sends the caller to its operation.          *)

IsOpen(c) ==
    /\ Goto(c, "out", IF is_open THEN "check" ELSE "call")
    /\ UNCHANGED <<failure_count, is_open, opened_at, holder>>

\* Mutant: an open circuit without a time is reported open and not reset.
CheckTime_NoneStaysOpen(c) ==
    /\ holder = {}
    /\ Goto(c, "check", IF opened_at = "elapsed" THEN "reset" ELSE "out")
    /\ holder' = IF opened_at = "elapsed" THEN {c} ELSE {}
    /\ UNCHANGED <<failure_count, is_open, opened_at>>

\* Under the mutex: still open, timed out, or open without a time.
CheckTime(c) ==
    /\ holder = {}
    /\ Goto(c, "check", CASE opened_at = "recent" -> "out"
                          [] opened_at = "elapsed" -> "reset"
                          [] opened_at = "None" -> "reset")
    /\ holder' = IF opened_at = "recent" THEN {} ELSE {c}
    /\ UNCHANGED <<failure_count, is_open, opened_at>>

ResetOpen(c) ==
    /\ Goto(c, "reset", "reset_count")
    /\ is_open' = FALSE
    /\ UNCHANGED <<failure_count, opened_at, holder>>

\* Mutant: the guard outlives the call.
ResetCount_KeepsLock(c) ==
    /\ Goto(c, "reset_count", "call")
    /\ failure_count' = 0
    /\ opened_at' = "None"
    /\ UNCHANGED <<is_open, holder>>

\* The time is cleared in the same step: only the holder can see it.
ResetCount(c) ==
    /\ Goto(c, "reset_count", "call")
    /\ failure_count' = 0
    /\ opened_at' = "None"
    /\ holder' = {}
    /\ UNCHANGED <<is_open>>

OperationEnds(c) ==
    /\ Goto(c, "call", "succeeded") \/ Goto(c, "call", "failed")
    /\ UNCHANGED <<failure_count, is_open, opened_at, holder>>
-----------------------------------------------------------------------------
(* record_success().                                                       *)

SuccessCloses(c) ==
    /\ Goto(c, "succeeded", "success_count")
    /\ is_open' = FALSE
    /\ UNCHANGED <<failure_count, opened_at, holder>>

SuccessCount(c) ==
    /\ Goto(c, "success_count", "success_time")
    /\ failure_count' = 0
    /\ UNCHANGED <<is_open, opened_at, holder>>

SuccessTime(c) ==
    /\ Goto(c, "success_time", "out")
    /\ Locked
    /\ opened_at' = "None"
    /\ UNCHANGED <<failure_count, is_open>>
-----------------------------------------------------------------------------
(* record_failure().                                                       *)

FailureLoad(c) ==
    /\ Goto(c, "failed", IF is_open THEN "refresh" ELSE "add")
    /\ UNCHANGED <<failure_count, is_open, opened_at, holder>>

FailureRefresh(c) ==
    /\ Goto(c, "refresh", "out")
    /\ Locked
    /\ opened_at' = IF opened_at = "None" THEN "None" ELSE "recent"
    /\ UNCHANGED <<failure_count, is_open>>

FailureAdd(c) ==
    /\ failure_count' = Increment(failure_count)
    /\ Goto(c, "add", IF failure_count' >= threshold THEN "swap" ELSE "out")
    /\ UNCHANGED <<is_open, opened_at, holder>>

FailureSwap(c) ==
    /\ Goto(c, "swap", IF is_open THEN "out" ELSE "stamp")
    /\ is_open' = TRUE
    /\ UNCHANGED <<failure_count, opened_at, holder>>

FailureStamp(c) ==
    /\ Goto(c, "stamp", "out")
    /\ Locked
    /\ opened_at' = "recent"
    /\ UNCHANGED <<failure_count, is_open>>
-----------------------------------------------------------------------------
CallerStep(c) ==
    \/ IsOpen(c) \/ CheckTime(c) \/ ResetOpen(c) \/ ResetCount(c)
    \/ OperationEnds(c)
    \/ SuccessCloses(c) \/ SuccessCount(c) \/ SuccessTime(c)
    \/ FailureLoad(c) \/ FailureRefresh(c)
    \/ FailureAdd(c) \/ FailureSwap(c) \/ FailureStamp(c)

CBNext == TimeoutElapses \/ \E c \in Callers : CallerStep(c)

CBSpec == CBInit /\ [][CBNext]_cbVars

\* Callers keep asking, operations end, time passes.
CBFairSpec == /\ CBSpec
              /\ WF_cbVars(TimeoutElapses)
              /\ \A c \in Callers : WF_cbVars(CallerStep(c))
-----------------------------------------------------------------------------
\* The variables keep their types; the mutex is held across another access
\* only by the caller that is resetting the breaker.
CBTypeOK ==
    /\ failure_count \in 0..threshold
    /\ is_open \in BOOLEAN
    /\ opened_at \in {"None", "recent", "elapsed"}
    /\ pc \in [Callers -> {"out", "check", "reset", "reset_count", "call",
                           "succeeded", "success_count", "success_time",
                           "failed", "refresh", "add", "swap", "stamp"}]
    /\ holder = {c \in Callers : pc[c] \in {"reset", "reset_count"}}
    /\ Cardinality(holder) <= 1

\* An open circuit lets requests through again, whichever way the callers
\* interleave and whatever time is stored.
OpenEnds == is_open ~> ~is_open
=============================================================================
