------------------------ MODULE CircuitBreakerSdkProofs ------------------------
(***************************************************************************)
(* Proofs about CircuitBreakerSdk, for any number of callers and any       *)
(* limits: the half-open slots are overshot by at most one per other       *)
(* caller, and every request is counted once by the metrics.               *)
(***************************************************************************)
EXTENDS CircuitBreakerSdk, SequenceTheorems, FiniteSetTheorems, TLAPS

-----------------------------------------------------------------------------
(* What a caller has still to do.                                          *)

\* Steps that are stores after a change of state, or of reset().
Stores == {"zero_failures", "zero_successes", "zero_requests", "touch", "set_closed"}

\* Steps of a request whose outcome no metric shows yet.
Requesting == {"state", "should_reset", "to_half_open", "load_requests",
               "add_request", "reject", "succeeded", "failed", "add_success",
               "add_failure", "count_success", "count_failure"}

\* Several steps are ahead only when they are stores, followed at most by the
\* operation itself.
Plan(s) ==
    /\ s \in Seq(Steps)
    /\ \A i \in 2..Len(s) : s[i] \in Stores \cup {"call"}
    /\ \A i \in 1..(Len(s) - 1) : s[i] \in Stores

\* A plan of a request that is not recorded yet.
UnderWay(s) == s # <<>> /\ (Head(s) \in Requesting \/ s[Len(s)] = "call")

LEMMA ShortPlans ==
    /\ Plan(<<>>) /\ ~UnderWay(<<>>)
    /\ \A step \in Steps :
          /\ Plan(<<step>>) /\ <<step>> # <<>> /\ Head(<<step>>) = step
          /\ UnderWay(<<step>>) <=> step \in Requesting \cup {"call"}
BY DEF Plan, UnderWay

LEMMA AfterPlans ==
    /\ Plan(AfterOpen) /\ ~UnderWay(AfterOpen) /\ AfterOpen # <<>>
    /\ Plan(AfterHalfOpen) /\ UnderWay(AfterHalfOpen) /\ AfterHalfOpen # <<>>
    /\ Plan(AfterClosed) /\ ~UnderWay(AfterClosed) /\ AfterClosed # <<>>
    /\ Plan(ResetSteps) /\ ~UnderWay(ResetSteps) /\ ResetSteps # <<>>
    /\ Head(AfterOpen) = "touch" /\ Head(AfterHalfOpen) = "zero_requests"
    /\ Head(AfterClosed) = "zero_failures" /\ Head(ResetSteps) = "zero_failures"
BY DEF AfterOpen, AfterHalfOpen, AfterClosed, ResetSteps, Plan, UnderWay, Steps,
       Stores, Requesting

\* A store done leaves a plan, of a request that is under way if it was.
LEMMA StoreDone ==
    ASSUME NEW s, Plan(s), s # <<>>, Head(s) \in Stores
    PROVE  /\ Plan(Tail(s))
           /\ UnderWay(Tail(s)) <=> UnderWay(s)
           /\ Tail(s) # <<>> => Head(Tail(s)) # "add_request"
<1> DEFINE t == Tail(s)
<1>1. /\ t \in Seq(Steps) /\ Len(t) = Len(s) - 1 /\ Len(s) \in Nat \ {0}
      /\ \A i \in 1..Len(t) : t[i] = s[i + 1]
      /\ Head(s) = s[1] /\ s \in Seq(Steps)
    BY HeadTailProperties, LenProperties DEF Plan
<1>2. t # <<>> <=> Len(t) # 0
    BY <1>1, EmptySeq
<1>3. t # <<>> => Head(t) = t[1] /\ t[Len(t)] = s[Len(s)] /\ Head(t) \in Stores \cup {"call"}
    <2>1. ASSUME t # <<>>
          PROVE  Head(t) = t[1]
        BY <1>1, <2>1
    <2>2. ASSUME t # <<>>
          PROVE  t[Len(t)] = s[Len(s)] /\ t[1] \in Stores \cup {"call"}
        <3> HIDE DEF t
        <3> QED
            BY <1>1, <1>2, <2>2 DEF Plan
    <2> QED
        BY <2>1, <2>2
<1> HIDE DEF t
<1>4. Plan(t)
    <2>1. ASSUME NEW i \in 2..Len(t)
          PROVE  t[i] \in Stores \cup {"call"}
        BY <1>1 DEF Plan
    <2>2. ASSUME NEW i \in 1..(Len(t) - 1)
          PROVE  t[i] \in Stores
        BY <1>1 DEF Plan
    <2> QED
        BY <1>1, <2>1, <2>2 DEF Plan
<1>5. CASE t = <<>>
    <2>1. Len(t) = 0
        BY <1>2, <1>5
    <2>2. Len(s) = 1
        BY <1>1, <2>1
    <2>3. s[Len(s)] = Head(s)
        BY <1>1, <2>2
    <2> QED
        BY <1>4, <1>5, <2>3 DEF UnderWay, Stores, Requesting, t
<1>6. CASE t # <<>>
    BY <1>3, <1>4, <1>6 DEF UnderWay, Stores, Requesting, t
<1> QED
    BY <1>5, <1>6

\* Any other step is the only one.
LEMMA SingleStep ==
    ASSUME NEW s, Plan(s), s # <<>>, Head(s) \notin Stores
    PROVE  /\ UnderWay(s) <=> Head(s) \in Requesting \cup {"call"}
           /\ Tail(s) = <<>>
<1>1. Len(s) \in Nat \ {0} /\ Head(s) = s[1] /\ s \in Seq(Steps)
    BY EmptySeq, LenProperties DEF Plan
<1>2. Len(s) = 1
    <2>1. \A i \in 1..(Len(s) - 1) : s[i] \in Stores
        BY DEF Plan
    <2>2. \A n \in Nat \ {0} : n # 1 => 1 \in 1..(n - 1)
        OBVIOUS
    <2>3. Len(s) # 1 => 1 \in 1..(Len(s) - 1)
        BY <1>1, <2>2
    <2> QED
        BY <1>1, <2>1, <2>3
<1>3. Tail(s) = <<>>
    <2>1. Tail(s) \in Seq(Steps) /\ Len(Tail(s)) = 0
        BY <1>1, <1>2, HeadTailProperties
    <2> QED
        BY <2>1, EmptySeq
<1> QED
    BY <1>1, <1>2, <1>3 DEF UnderWay

-----------------------------------------------------------------------------
(* Types.                                                                  *)

SdkTypes ==
    /\ state \in States
    /\ failure_count \in Nat /\ success_count \in Nat
    /\ half_open_requests \in Nat
    /\ balance \in Int
    /\ DOMAIN todo = Callers /\ \A c \in Callers : Plan(todo[c])
    /\ todo \in [Callers -> Seq(Steps)]
    /\ current_state \in [Callers -> States]
    /\ abandoned \in Nat

\* The caller is about to take a half-open slot it has seen free.
Admits(s) == s # <<>> /\ Head(s) = "add_request"

\* What a step does to the metrics: nothing, for a request that is under way
\* before and after it or neither time; or it starts a request, records its
\* outcome, or drops it.
Accounts(c, s) ==
    \/ /\ UnderWay(s) <=> UnderWay(todo[c])
       /\ UNCHANGED <<balance, abandoned>>
    \/ /\ ~UnderWay(todo[c]) /\ UnderWay(s)
       /\ CountRequest /\ UNCHANGED abandoned
    \/ /\ UnderWay(todo[c]) /\ ~UnderWay(s)
       /\ CountOutcome /\ UNCHANGED abandoned
    \/ /\ UnderWay(todo[c]) /\ ~UnderWay(s)
       /\ abandoned' = abandoned + 1 /\ UNCHANGED balance

\* What a step does to the half-open slots.
Slots(c, s) ==
    \/ half_open_requests' <= half_open_requests /\ ~Admits(s)
    \/ /\ half_open_requests < half_open_max_requests
       /\ UNCHANGED half_open_requests
    \/ /\ Admits(todo[c]) /\ ~Admits(s)
       /\ half_open_requests' = half_open_requests + 1

\* The rest of the state keeps its types.
RestTyped ==
    /\ state' \in States
    /\ failure_count' \in Nat /\ success_count' \in Nat
    /\ half_open_requests' \in Nat
    /\ current_state' \in [Callers -> States]

Effect(c, s) ==
    Plan(s) /\ Do(c, s) /\ Accounts(c, s) /\ Slots(c, s) /\ RestTyped

\* A step of a request that stays under way, and one that ends the call it was
\* the last of.
LEMMA NextStep ==
    ASSUME SdkTypes, NEW c \in Callers, NEW old \in Steps \ Stores, At(c, old),
           NEW new \in Steps
    PROVE  /\ Plan(<<new>>) /\ Plan(<<>>)
           /\ UnderWay(todo[c]) <=> old \in Requesting \cup {"call"}
           /\ UnderWay(<<new>>) <=> new \in Requesting \cup {"call"}
           /\ ~UnderWay(<<>>) /\ ~Admits(<<>>)
           /\ Admits(<<new>>) <=> new = "add_request"
<1>1. Plan(todo[c]) /\ todo[c] # <<>> /\ Head(todo[c]) = old
    BY DEF SdkTypes, At
<1> QED
    BY <1>1, SingleStep, ShortPlans DEF Admits

LEMMA UpToTyped ==
    ASSUME NEW limit \in Nat, NEW n \in Nat
    PROVE  UpTo(limit, n) \in Nat
BY DEF UpTo

-----------------------------------------------------------------------------
(* The effect of every step of a caller.                                   *)

LEMMA AllowEffect ==
    ASSUME SdkTypes, NEW c \in Callers, AllowStep(c)
    PROVE  \E s : Effect(c, s)
<1> USE SdkAssumption DEF counters, historyVars
<1>1. CASE AllowRequest(c)
    <2>1. ~UnderWay(todo[c]) /\ Plan(<<"state">>) /\ UnderWay(<<"state">>)
          /\ ~Admits(<<"state">>)
        BY <1>1, ShortPlans DEF AllowRequest, Steps, Requesting, Admits
    <2>2. Effect(c, <<"state">>)
        BY <1>1, <2>1
        DEF AllowRequest, Effect, Accounts, Slots, RestTyped, SdkTypes
    <2> QED
        BY <2>2
<1>2. CASE AllowState(c)
    <2>1. PICK new \in {"call", "should_reset", "load_requests"} : Do(c, <<new>>)
        BY <1>2 DEF AllowState, SdkTypes, States
    <2>2. /\ Plan(<<new>>) /\ ~Admits(<<new>>)
          /\ UnderWay(todo[c]) /\ UnderWay(<<new>>)
        BY <1>2, <2>1, NextStep DEF AllowState, Steps, Stores, Requesting
    <2>3. Effect(c, <<new>>)
        BY <1>2, <2>1, <2>2
        DEF AllowState, Effect, Accounts, Slots, RestTyped, SdkTypes
    <2> QED
        BY <2>3
<1>3. CASE ShouldAttemptReset(c)
    <2>1. PICK new \in {"to_half_open", "reject"} : Do(c, <<new>>)
        BY <1>3 DEF ShouldAttemptReset
    <2>2. /\ Plan(<<new>>) /\ ~Admits(<<new>>)
          /\ UnderWay(todo[c]) /\ UnderWay(<<new>>)
        BY <1>3, <2>1, NextStep DEF ShouldAttemptReset, Steps, Stores, Requesting
    <2>3. Effect(c, <<new>>)
        BY <1>3, <2>1, <2>2
        DEF ShouldAttemptReset, Effect, Accounts, Slots, RestTyped, SdkTypes
    <2> QED
        BY <2>3
<1>4. CASE TransitionToHalfOpen(c)
    <2>1. UnderWay(todo[c])
        BY <1>4, NextStep
        DEF TransitionToHalfOpen, Steps, Stores, Requesting
    <2>2. CASE Do(c, AfterHalfOpen) /\ state' = "HalfOpen"
        <3>1. Effect(c, AfterHalfOpen)
            BY <1>4, <2>1, <2>2, AfterPlans
            DEF TransitionToHalfOpen, Effect, Accounts, Slots, RestTyped,
                SdkTypes, States, Admits
        <3> QED
            BY <3>1
    <2>3. CASE Do(c, <<"call">>) /\ UNCHANGED state
        <3>1. Effect(c, <<"call">>)
            BY <1>4, <2>1, <2>3, NextStep
            DEF TransitionToHalfOpen, Effect, Accounts, Slots, RestTyped,
                SdkTypes, Steps, Stores, Requesting
        <3> QED
            BY <3>1
    <2> QED
        BY <1>4, <2>2, <2>3 DEF TransitionToHalfOpen
<1>5. CASE LoadRequests(c)
    <2>1. \/ half_open_requests < half_open_max_requests /\ Do(c, <<"add_request">>)
          \/ Do(c, <<"reject">>)
        BY <1>5 DEF LoadRequests
    <2>2. CASE half_open_requests < half_open_max_requests /\ Do(c, <<"add_request">>)
        <3>1. Effect(c, <<"add_request">>)
            BY <1>5, <2>2, NextStep
            DEF LoadRequests, Effect, Accounts, Slots, RestTyped, SdkTypes,
                Steps, Stores, Requesting
        <3> QED
            BY <3>1
    <2>3. CASE Do(c, <<"reject">>)
        <3>1. Effect(c, <<"reject">>)
            BY <1>5, <2>3, NextStep
            DEF LoadRequests, Effect, Accounts, Slots, RestTyped, SdkTypes,
                Steps, Stores, Requesting
        <3> QED
            BY <3>1
    <2> QED
        BY <2>1, <2>2, <2>3
<1>6. CASE AddRequest(c)
    <2>1. Effect(c, <<"call">>)
        BY <1>6, NextStep
        DEF AddRequest, At, Effect, Accounts, Slots, RestTyped, SdkTypes, Admits,
            Steps, Stores, Requesting
    <2> QED
        BY <2>1
<1>7. CASE RecordRejectedRequest(c)
    <2>1. Effect(c, <<>>)
        BY <1>7, NextStep
        DEF RecordRejectedRequest, Effect, Accounts, Slots, RestTyped, SdkTypes,
            Steps, Stores, Requesting
    <2> QED
        BY <2>1
<1> QED
    BY <1>1, <1>2, <1>3, <1>4, <1>5, <1>6, <1>7 DEF AllowStep

LEMMA RecordEffect ==
    ASSUME SdkTypes, NEW c \in Callers, RecordStep(c)
    PROVE  \E s : Effect(c, s)
<1> USE SdkAssumption DEF counters, historyVars
<1>1. CASE OperationEnds(c)
    <2>1. PICK new \in {"succeeded", "failed"} : Do(c, <<new>>)
        BY <1>1 DEF OperationEnds
    <2>2. /\ Plan(<<new>>) /\ ~Admits(<<new>>)
          /\ UnderWay(todo[c]) /\ UnderWay(<<new>>)
        BY <1>1, <2>1, NextStep DEF OperationEnds, Steps, Stores, Requesting
    <2>3. Effect(c, <<new>>)
        BY <1>1, <2>1, <2>2
        DEF OperationEnds, Effect, Accounts, Slots, RestTyped, SdkTypes
    <2> QED
        BY <2>3
<1>2. CASE ReadState(c)
    <2>1. PICK old \in {"succeeded", "failed"}, new \in {"add_success", "add_failure"} :
             At(c, old) /\ Do(c, <<new>>)
        BY <1>2 DEF ReadState
    <2>2. /\ Plan(<<new>>) /\ ~Admits(<<new>>)
          /\ UnderWay(todo[c]) /\ UnderWay(<<new>>)
        BY <2>1, NextStep DEF Steps, Stores, Requesting
    <2>3. Effect(c, <<new>>)
        BY <1>2, <2>1, <2>2
        DEF ReadState, Effect, Accounts, Slots, RestTyped, SdkTypes
    <2> QED
        BY <2>3
<1>3. CASE AddOutcome(c)
    <2>1. PICK old \in {"add_success", "add_failure"},
               new \in {"count_success", "count_failure"} :
             At(c, old) /\ Do(c, <<new>>)
        BY <1>3 DEF AddOutcome
    <2>2. /\ Plan(<<new>>) /\ ~Admits(<<new>>)
          /\ UnderWay(todo[c]) /\ UnderWay(<<new>>)
        BY <2>1, NextStep DEF Steps, Stores, Requesting
    <2>3. failure_count' \in Nat /\ success_count' \in Nat
        BY <1>3, UpToTyped DEF AddOutcome, SdkTypes
    <2>4. Effect(c, <<new>>)
        BY <1>3, <2>1, <2>2, <2>3
        DEF AddOutcome, Effect, Accounts, Slots, RestTyped, SdkTypes
    <2> QED
        BY <2>4
<1>4. CASE CountSuccess(c) \/ CountFailure(c)
    <2>1. PICK old \in {"count_success", "count_failure"} : At(c, old)
        BY <1>4 DEF CountSuccess, CountFailure
    <2>2. UnderWay(todo[c])
        BY <2>1, NextStep DEF Steps, Stores, Requesting
    <2>3. PICK s \in {<<>>, <<"zero_failures">>, <<"load_successes">>,
                      <<"load_failures">>, <<"to_open">>} : Do(c, s)
        BY <1>4 DEF CountSuccess, CountFailure, SdkTypes, States
    <2>4. Plan(s) /\ ~UnderWay(s) /\ ~Admits(s)
        BY ShortPlans DEF Admits, Steps, Requesting
    <2>5. current_state' \in [Callers -> States]
        BY <1>4 DEF CountSuccess, CountFailure, Forget, SdkTypes, States
    <2>6. Effect(c, s)
        BY <1>4, <2>2, <2>3, <2>4, <2>5
        DEF CountSuccess, CountFailure, Effect, Accounts, Slots, RestTyped, SdkTypes
    <2> QED
        BY <2>6
<1>5. CASE LoadOutcomes(c) \/ TransitionToOpen(c) \/ TransitionToClosed(c)
    <2>1. PICK old \in {"load_successes", "load_failures", "to_open", "to_closed"} :
             At(c, old)
        BY <1>5 DEF LoadOutcomes, TransitionToOpen, TransitionToClosed
    <2>2. ~UnderWay(todo[c])
        BY <2>1, NextStep DEF Steps, Stores, Requesting
    <2>3. PICK s \in {<<>>, <<"to_closed">>, <<"to_open">>, AfterOpen, AfterClosed} :
             Do(c, s)
        BY <1>5 DEF LoadOutcomes, TransitionToOpen, TransitionToClosed
    <2>4. Plan(s) /\ ~UnderWay(s) /\ ~Admits(s)
        BY ShortPlans, AfterPlans DEF Admits, Steps, Requesting
    <2>5. state' \in States
        BY <1>5
        DEF LoadOutcomes, TransitionToOpen, TransitionToClosed, SdkTypes, States
    <2>6. Effect(c, s)
        BY <1>5, <2>2, <2>3, <2>4, <2>5
        DEF LoadOutcomes, TransitionToOpen, TransitionToClosed, Effect, Accounts,
            Slots, RestTyped, SdkTypes
    <2> QED
        BY <2>6
<1> QED
    BY <1>1, <1>2, <1>3, <1>4, <1>5 DEF RecordStep

LEMMA StoreEffect ==
    ASSUME SdkTypes, NEW c \in Callers, StoreStep(c)
    PROVE  \E s : Effect(c, s)
<1> USE SdkAssumption DEF counters, historyVars
<1>1. /\ Plan(todo[c]) /\ todo[c] # <<>> /\ Head(todo[c]) \in Stores
      /\ Do(c, Tail(todo[c]))
    BY DEF StoreStep, Zero, Touch, ResetState, At, Done, SdkTypes, Stores
<1>2. /\ Plan(Tail(todo[c])) /\ ~Admits(Tail(todo[c]))
      /\ UnderWay(Tail(todo[c])) <=> UnderWay(todo[c])
    BY <1>1, StoreDone DEF Admits
<1>3. /\ half_open_requests' \in Nat /\ half_open_requests' <= half_open_requests
      /\ failure_count' \in Nat /\ success_count' \in Nat
    BY DEF StoreStep, Zero, Touch, ResetState, SdkTypes
<1>4. Effect(c, Tail(todo[c]))
    BY <1>1, <1>2, <1>3
    DEF StoreStep, Zero, Touch, ResetState, Effect, Accounts, Slots, RestTyped,
        SdkTypes, States
<1> QED
    BY <1>4

LEMMA UnrecordedIsUnderWay ==
    Unrecorded = {c \in Callers : UnderWay(todo[c])}
BY DEF Unrecorded, UnderWay, At, Requesting

\* A future that is dropped leaves nothing to do; if it was a request whose
\* outcome was not recorded, it counts as abandoned.
LEMMA InterruptEffect ==
    ASSUME SdkTypes, NEW c \in Callers, Abandon(c) \/ Reset(c)
    PROVE  \E s : Effect(c, s)
<1> USE SdkAssumption DEF counters, historyVars
<1>1. CASE Abandon(c)
    <2>1. Plan(<<>>) /\ ~UnderWay(<<>>) /\ ~Admits(<<>>)
        BY ShortPlans DEF Admits
    <2>2. c \in Unrecorded <=> UnderWay(todo[c])
        BY UnrecordedIsUnderWay
    <2>3. /\ abandoned' = IF UnderWay(todo[c]) THEN abandoned + 1 ELSE abandoned
          /\ Do(c, <<>>)
          /\ UNCHANGED <<state, counters, balance>>
          /\ current_state' = [current_state EXCEPT ![c] = "Closed"]
        BY <1>1, <2>2 DEF Abandon, Forget
    <2>4. Accounts(c, <<>>)
        BY <2>1, <2>3 DEF Accounts
    <2>5. Slots(c, <<>>) /\ RestTyped
        BY <2>1, <2>3 DEF Slots, RestTyped, SdkTypes, States
    <2>6. Effect(c, <<>>)
        BY <2>1, <2>3, <2>4, <2>5 DEF Effect
    <2> QED
        BY <2>6
<1>2. CASE Reset(c)
    <2>1. ~UnderWay(todo[c]) /\ ~Admits(ResetSteps)
        BY <1>2, ShortPlans, AfterPlans DEF Reset, Admits
    <2>2. Effect(c, ResetSteps)
        BY <1>2, <2>1, AfterPlans
        DEF Reset, Effect, Accounts, Slots, RestTyped, SdkTypes
    <2> QED
        BY <2>2
<1> QED
    BY <1>1, <1>2

LEMMA StepEffect ==
    ASSUME SdkTypes, SdkNext
    PROVE  \/ \E c \in Callers : \E s : Effect(c, s)
           \/ TimeoutElapses
BY AllowEffect, RecordEffect, StoreEffect, InterruptEffect DEF SdkNext, CallerStep

-----------------------------------------------------------------------------
(* The invariant.                                                          *)

LEMMA SdkInitTypes == SdkInit => SdkTypes /\ SlotsBounded /\ MetricsAccounted
<1> SUFFICES ASSUME SdkInit PROVE SdkTypes /\ SlotsBounded /\ MetricsAccounted
    OBVIOUS
<1> USE SdkAssumption
<1>1. SdkTypes
    BY ShortPlans DEF SdkInit, SdkTypes, Plan, States
<1>2. Unrecorded = {} /\ Admitting = {}
    BY ShortPlans, UnrecordedIsUnderWay DEF SdkInit, Admitting, At
<1>3. Cardinality(Unrecorded) = 0 /\ Cardinality(Admitting) = 0
    BY <1>2, FS_EmptySet
<1>4. Cardinality(Callers) \in Nat
    BY FS_CardinalityType
<1>5. SlotsBounded
    BY <1>3, <1>4 DEF SlotsBounded, SdkInit
<1>6. MetricsAccounted
    BY <1>3 DEF MetricsAccounted, SdkInit
<1> QED
    BY <1>1, <1>5, <1>6

LEMMA SdkTypesStep == SdkTypes /\ [SdkNext]_sdkVars => SdkTypes'
<1> SUFFICES ASSUME SdkTypes, [SdkNext]_sdkVars PROVE SdkTypes'
    OBVIOUS
<1>1. CASE UNCHANGED sdkVars \/ TimeoutElapses
    BY <1>1 DEF sdkVars, counters, historyVars, TimeoutElapses, SdkTypes
<1>2. ASSUME NEW c \in Callers, NEW s, Effect(c, s)
      PROVE  SdkTypes'
    <2>1. RestTyped /\ Plan(s) /\ Do(c, s) /\ Accounts(c, s)
        BY <1>2 DEF Effect
    <2>2. balance' \in Int /\ abandoned' \in Nat
        BY <2>1 DEF Accounts, CountRequest, CountOutcome, SdkTypes
    <2>3. /\ todo' \in [Callers -> Seq(Steps)]
          /\ \A d \in Callers : Plan(todo'[d])
        <3>1. s \in Seq(Steps)
            BY <2>1 DEF Plan
        <3>2. todo' = [todo EXCEPT ![c] = s] /\ todo \in [Callers -> Seq(Steps)]
            BY <2>1 DEF Do, SdkTypes
        <3>3. todo' \in [Callers -> Seq(Steps)]
            BY <3>1, <3>2
        <3>4. \A d \in Callers : todo'[d] = IF d = c THEN s ELSE todo[d]
            BY <3>2
        <3> QED
            BY <2>1, <3>3, <3>4 DEF SdkTypes
    <2> QED
        BY <2>1, <2>2, <2>3 DEF SdkTypes, RestTyped
<1> QED
    BY <1>1, <1>2, StepEffect

\* How many requests are under way after a step.
LEMMA UnrecordedCount ==
    ASSUME SdkTypes, NEW c \in Callers, NEW s, Do(c, s)
    PROVE  /\ Cardinality(Unrecorded) \in Nat
           /\ (UnderWay(s) <=> UnderWay(todo[c]))
                 => Cardinality(Unrecorded)' = Cardinality(Unrecorded)
           /\ ~UnderWay(todo[c]) /\ UnderWay(s)
                 => Cardinality(Unrecorded)' = Cardinality(Unrecorded) + 1
           /\ UnderWay(todo[c]) /\ ~UnderWay(s)
                 => Cardinality(Unrecorded)' = Cardinality(Unrecorded) - 1
<1>1. \A d \in Callers : todo'[d] = IF d = c THEN s ELSE todo[d]
    BY DEF Do, SdkTypes
<1>2. Unrecorded' = {d \in Callers : UnderWay(todo'[d])}
    BY DEF Unrecorded, UnderWay, At, Requesting
<1>3. Unrecorded = {d \in Callers : UnderWay(todo[d])}
    BY UnrecordedIsUnderWay
<1>4. IsFiniteSet(Unrecorded) /\ IsFiniteSet(Unrecorded')
    BY <1>2, <1>3, FS_Subset, SdkAssumption
<1>5. Cardinality(Unrecorded) \in Nat /\ Cardinality(Unrecorded)' = Cardinality(Unrecorded')
    BY <1>4, FS_CardinalityType
<1>6. ASSUME UnderWay(s) <=> UnderWay(todo[c])
      PROVE  Unrecorded' = Unrecorded
    BY <1>1, <1>2, <1>3, <1>6
<1>7. ASSUME ~UnderWay(todo[c]), UnderWay(s)
      PROVE  Unrecorded' = Unrecorded \cup {c} /\ c \notin Unrecorded
    BY <1>1, <1>2, <1>3, <1>7
<1>8. ASSUME UnderWay(todo[c]), ~UnderWay(s)
      PROVE  Unrecorded' = Unrecorded \ {c} /\ c \in Unrecorded
    BY <1>1, <1>2, <1>3, <1>8
<1> QED
    BY <1>4, <1>5, <1>6, <1>7, <1>8, FS_AddElement, FS_RemoveElement

LEMMA AccountedStep ==
    ASSUME SdkTypes, MetricsAccounted, [SdkNext]_sdkVars
    PROVE  MetricsAccounted'
<1>1. CASE UNCHANGED sdkVars \/ TimeoutElapses
    <2>1. UNCHANGED <<balance, todo, abandoned>>
        BY <1>1 DEF sdkVars, historyVars, TimeoutElapses
    <2>2. Unrecorded' = Unrecorded
        BY <2>1 DEF Unrecorded, At
    <2> QED
        BY <2>1, <2>2 DEF MetricsAccounted
<1>2. ASSUME NEW c \in Callers, NEW s, Effect(c, s)
      PROVE  MetricsAccounted'
    <2> DEFINE n == Cardinality(Unrecorded)
    <2>1. Do(c, s) /\ Accounts(c, s)
        BY <1>2 DEF Effect
    <2>2. /\ n \in Nat
          /\ (UnderWay(s) <=> UnderWay(todo[c])) => n' = n
          /\ ~UnderWay(todo[c]) /\ UnderWay(s) => n' = n + 1
          /\ UnderWay(todo[c]) /\ ~UnderWay(s) => n' = n - 1
        BY <2>1, UnrecordedCount
    <2>3. balance = n + abandoned /\ balance \in Int /\ abandoned \in Nat
        BY DEF MetricsAccounted, SdkTypes
    <2> HIDE DEF n
    <2>4. balance' = n' + abandoned'
        BY <2>1, <2>2, <2>3 DEF Accounts, CountRequest, CountOutcome
    <2> QED
        BY <2>4 DEF MetricsAccounted, n
<1> QED
    BY <1>1, <1>2, StepEffect

LEMMA SlotsStep ==
    ASSUME SdkTypes, SlotsBounded, [SdkNext]_sdkVars
    PROVE  SlotsBounded'
<1> DEFINE n == Cardinality(Admitting)
           h == half_open_requests
<1>1. /\ IsFiniteSet(Callers) /\ Cardinality(Callers) \in Nat
      /\ half_open_max_requests \in Nat /\ h \in Nat
    BY FS_CardinalityType, SdkAssumption DEF SdkTypes
<1>2. /\ IsFiniteSet(Admitting) /\ n \in Nat /\ n <= Cardinality(Callers)
      /\ IsFiniteSet(Admitting') /\ n' \in Nat /\ n' <= Cardinality(Callers)
      /\ n' = Cardinality(Admitting')
    <2>1. Admitting \subseteq Callers /\ Admitting' \subseteq Callers
        BY DEF Admitting
    <2> QED
        BY <1>1, <2>1, FS_Subset, FS_CardinalityType
<1>3. h + n <= half_open_max_requests - 1 + Cardinality(Callers)
    BY DEF SlotsBounded
<1>4. CASE UNCHANGED sdkVars \/ TimeoutElapses
    <2>1. UNCHANGED <<half_open_requests, todo>>
        BY <1>4 DEF sdkVars, counters, TimeoutElapses
    <2> QED
        BY <2>1 DEF SlotsBounded, Admitting, At
<1>5. ASSUME NEW c \in Callers, NEW s, Effect(c, s)
      PROVE  SlotsBounded'
    <2>1. Do(c, s) /\ Slots(c, s) /\ h' \in Nat
        BY <1>5 DEF Effect, RestTyped
    <2>2. \A d \in Callers : todo'[d] = IF d = c THEN s ELSE todo[d]
        BY <2>1 DEF Do, SdkTypes
    <2>3. /\ Admitting = {d \in Callers : Admits(todo[d])}
          /\ Admitting' = {d \in Callers : Admits(todo'[d])}
        BY DEF Admitting, Admits, At
    <2>4. CASE h' <= h /\ ~Admits(s)
        <3>1. Admitting' \subseteq Admitting
            BY <2>2, <2>3, <2>4
        <3>2. n' <= n
            BY <1>2, <3>1, FS_Subset
        <3> HIDE DEF n, h
        <3>3. h' + n' <= half_open_max_requests - 1 + Cardinality(Callers)
            BY <1>1, <1>2, <1>3, <2>1, <2>4, <3>2
        <3> QED
            BY <3>3 DEF SlotsBounded, n, h
    <2>5. CASE h < half_open_max_requests /\ h' = h
        <3> HIDE DEF n, h
        <3>1. h' + n' <= half_open_max_requests - 1 + Cardinality(Callers)
            BY <1>1, <1>2, <2>5
        <3> QED
            BY <3>1 DEF SlotsBounded, n, h
    <2>6. CASE Admits(todo[c]) /\ ~Admits(s) /\ h' = h + 1
        <3>1. Admitting' = Admitting \ {c} /\ c \in Admitting
            BY <2>2, <2>3, <2>6
        <3>2. n' = n - 1
            BY <1>2, <3>1, FS_RemoveElement
        <3> HIDE DEF n, h
        <3>3. h' + n' <= half_open_max_requests - 1 + Cardinality(Callers)
            BY <1>1, <1>2, <1>3, <2>6, <3>2
        <3> QED
            BY <3>3 DEF SlotsBounded, n, h
    <2> QED
        BY <2>1, <2>4, <2>5, <2>6 DEF Slots
<1> QED
    BY <1>4, <1>5, StepEffect
-----------------------------------------------------------------------------
\* The half-open slots are overshot by at most one request per other caller,
\* whatever the interleaving of the load and the fetch_add in allow_request
\* (circuit_breaker_sdk.rs:229-231), for any number of callers.
THEOREM SlotsBoundedAlways == SdkSpec => []SlotsBounded
<1>1. SdkInit => SdkTypes /\ SlotsBounded
    BY SdkInitTypes
<1>2. SdkTypes /\ SlotsBounded /\ [SdkNext]_sdkVars => (SdkTypes /\ SlotsBounded)'
    BY SdkTypesStep, SlotsStep
<1> QED
    BY <1>1, <1>2, PTL DEF SdkSpec

\* Every request shows up once in the metrics, as succeeded, failed or
\* rejected, when its outcome is recorded (circuit_breaker_sdk.rs record_success,
\* record_failure and record_rejected_request), for any number of callers.
THEOREM MetricsAccountedAlways == SdkSpec => []MetricsAccounted
<1>1. SdkInit => SdkTypes /\ MetricsAccounted
    BY SdkInitTypes
<1>2. SdkTypes /\ MetricsAccounted /\ [SdkNext]_sdkVars
        => (SdkTypes /\ MetricsAccounted)'
    BY SdkTypesStep, AccountedStep
<1> QED
    BY <1>1, <1>2, PTL DEF SdkSpec
=============================================================================
