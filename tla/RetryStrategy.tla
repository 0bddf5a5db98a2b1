---------------------------- MODULE RetryStrategy ----------------------------
(***************************************************************************)
(* core/utils/retry.rs: one call of RetryStrategy::retry.  The operation   *)
(* is called again after a delay that grows by a multiplier, is capped and *)
(* gets up to 10% of jitter.  The RetryConfig is taken as it is given.     *)
(***************************************************************************)
EXTENDS Integers

CONSTANTS
    MaxRetries,    \* the values of max_retries, delays (milliseconds) and
    Delays,        \* multipliers (in percent) a RetryConfig is made of;
    Multipliers    \* a negative multiplier makes Duration panic

ASSUME RetryAssumption ==
    MaxRetries \subseteq Nat /\ Delays \subseteq Nat /\ Multipliers \subseteq Nat

RetryConfig == [max_retries : MaxRetries, initial_delay : Delays,
                max_delay : Delays, multiplier : Multipliers]

VARIABLES
    retry_config,
    retry_at,        \* "call", "sleep", "ok" or "exhausted"
    attempts,
    current_delay,
    slept            \* history: the last sleep, -1 before the first

retryVars == <<retry_config, retry_at, attempts, current_delay, slept>>

\* retry_config is what from_config copies.
RetryInit ==
    /\ retry_config \in RetryConfig
    /\ retry_at = "call" /\ attempts = 0 /\ slept = -1
    /\ current_delay = retry_config.initial_delay

OperationSucceeds ==
    /\ retry_at = "call"
    /\ retry_at' = "ok"
    /\ attempts' = attempts + 1
    /\ UNCHANGED <<retry_config, current_delay, slept>>

\* Mutant: the last retry is not made.
OperationFails_OneLess ==
    /\ retry_at = "call"
    /\ attempts' = attempts + 1
    /\ retry_at' = IF attempts' >= retry_config.max_retries
                   THEN "exhausted" ELSE "sleep"
    /\ UNCHANGED <<retry_config, current_delay, slept>>

OperationFails ==
    /\ retry_at = "call"
    /\ attempts' = attempts + 1
    /\ retry_at' = IF attempts' > retry_config.max_retries
                   THEN "exhausted" ELSE "sleep"
    /\ UNCHANGED <<retry_config, current_delay, slept>>

Cap(delay) ==
    IF delay > retry_config.max_delay THEN retry_config.max_delay ELSE delay

\* Mutant: the jitter is added after the cap.
NextDelay_JitterLast(delay) ==
    LET grown == Cap((delay * retry_config.multiplier) \div 100) IN
    {grown + jitter : jitter \in 0..(grown \div 10)}

\* Capped, jittered and capped again.
NextDelay(delay) ==
    LET grown == Cap((delay * retry_config.multiplier) \div 100) IN
    {Cap(grown + jitter) : jitter \in 0..(grown \div 10)}

SleepEnds ==
    /\ retry_at = "sleep"
    /\ retry_at' = "call"
    /\ slept' = current_delay
    /\ current_delay' \in NextDelay(current_delay)
    /\ UNCHANGED <<retry_config, attempts>>

RetryNext == OperationSucceeds \/ OperationFails \/ SleepEnds

RetrySpec == RetryInit /\ [][RetryNext]_retryVars
-----------------------------------------------------------------------------
\* The operation is called once more than max_retries allows retries, no more,
\* and it is given up only then (retry.rs:83-105; the tests count the calls).
RetriesExact ==
    /\ attempts <= retry_config.max_retries + 1
    /\ retry_at = "exhausted" => attempts = retry_config.max_retries + 1
    /\ retry_at = "sleep" => attempts <= retry_config.max_retries
    /\ retry_at = "ok" => attempts > 0

\* What Config::validate asks of the other RetryConfig, the one in config.rs.
BackoffConfig == /\ retry_config.multiplier >= 100
                 /\ retry_config.initial_delay <= retry_config.max_delay

\* With such settings a caller never waits less than the time before, nor
\* longer than max_delay, jitter included; without them only the first wait
\* may exceed max_delay, for initial_delay is not capped (retry.rs:80, 115-128).
BackoffGrows ==
    [][slept' # slept =>
          /\ slept >= 0 \/ BackoffConfig => slept' <= retry_config.max_delay
          /\ BackoffConfig => slept' >= slept]_retryVars
=============================================================================
