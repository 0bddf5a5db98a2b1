-------------------------- MODULE MCCircuitBreakerSdk -------------------------
(***************************************************************************)
(* HalfOpenPeriod for TLC.  No symmetry, for the run checks liveness.      *)
(***************************************************************************)
EXTENDS HalfOpenPeriod
=============================================================================
