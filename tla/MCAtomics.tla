------------------------------ MODULE MCAtomics ------------------------------
(***************************************************************************)
(* For TLC, the two components that are guarded by bare atomics and share  *)
(* no state: the resource manager by itself and the three-state breaker.   *)
(* In a behaviour one of them, the subject, runs and the other stays as it *)
(* is.  No symmetry, for the run checks liveness.                          *)
(***************************************************************************)
EXTENDS ResourceManager, HalfOpenPeriod

VARIABLE subject

atomicsVars == <<subject, rmVars, periodVars>>

AtomicsInit == subject \in {"manager", "breaker"} /\ RMInit /\ PeriodInit

ManagerRuns ==
    subject = "manager" /\ RMNext /\ UNCHANGED <<subject, periodVars>>

BreakerRuns(A) ==
    subject = "breaker" /\ A /\ PeriodHistory /\ UNCHANGED <<subject, rmVars>>

AtomicsNext == ManagerRuns \/ BreakerRuns(SdkNext)

\* The fairness of PeriodFairSpec.
AtomicsSpec ==
    /\ AtomicsInit /\ [][AtomicsNext]_atomicsVars
    /\ WF_atomicsVars(BreakerRuns(TimeoutElapses))
    /\ \A c \in Callers : WF_atomicsVars(BreakerRuns(CallerStep(c)))
=============================================================================
