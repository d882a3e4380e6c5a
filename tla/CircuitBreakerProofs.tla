------------------------ MODULE CircuitBreakerProofs ------------------------
(***************************************************************************)
(* Proofs about the circuit breaker, for any set of threads, any threshold *)
(* and any number of attempts and outages: type correctness, and that the  *)
(* breaker opens on the threshold only and never because of rejections.    *)
(***************************************************************************)
EXTENDS CircuitBreaker, TLAPS

USE LimitsAssumption

-----------------------------------------------------------------------------
(* What the breaker's methods do to its fields *)

\* A failure leaves the fields in their types and trips at the threshold, or when
\* the breaker was half-open.
LEMMA FailureRecorded ==
    ASSUME TypeOK, RecordFailure
    PROVE  /\ state' \in {"CLOSED", "OPEN", "HALF_OPEN"}
           /\ failures' \in 0..Threshold
           /\ cooling' \in BOOLEAN
           /\ failures = Threshold => failures' = Threshold
           /\ state' # "CLOSED" /\ failures' # Threshold => state # "CLOSED"
<1>1. failures' \in 0..Threshold /\ (failures = Threshold => failures' = Threshold)
  BY DEF TypeOK, RecordFailure
<1>2. CASE state = "HALF_OPEN" \/ failures' >= Threshold
  <2>1. state' = "OPEN" /\ cooling' = TRUE
    BY <1>2 DEF RecordFailure, Opens
  <2>2. state # "HALF_OPEN" => failures' = Threshold
    BY <1>1, <1>2
  <2>3. QED
    BY <1>1, <2>1, <2>2
<1>3. CASE ~(state = "HALF_OPEN" \/ failures' >= Threshold)
  BY <1>1, <1>3 DEF TypeOK, RecordFailure
<1>4. QED
  BY <1>2, <1>3

\* The Boolean fields, apart from the rest of the types.
Flags == cooling \in BOOLEAN /\ up \in BOOLEAN /\ lost \in BOOLEAN

\* No step of a thread, of the clock or of the server breaks the types.
LEMMA TypeOKStep == TypeOK /\ [Next]_vars => TypeOK'
<1> SUFFICES ASSUME TypeOK, [Next]_vars
             PROVE  TypeOK'
  OBVIOUS
<1>0. Flags
  BY DEF TypeOK, Flags
<1> USE DEF Goes
<1>1. ASSUME NEW t \in Threads, CallStep(t)
      PROVE  TypeOK'
  <2>0. CASE Admit(t)
    BY <2>0 DEF TypeOK, Admit, Promoted
  <2>1. CASE Refuse(t) \/ ReadState(t)
    BY <2>1 DEF TypeOK, Refuse, ReadState, breaker
  <2>2. CASE PromoteLate(t)
    <3>1. Flags'
      BY <1>0, <2>2, Zenon DEF Flags, PromoteLate
    <3>2. QED
      BY <2>2, <3>1 DEF TypeOK, Flags, PromoteLate
  <2>3. CASE AttemptSucceeds(t)
    <3>1. Flags'
      BY <1>0, <2>3, Zenon DEF Flags, AttemptSucceeds, RecordSuccess
    <3>2. QED
      BY <2>3, <3>1 DEF TypeOK, Flags, AttemptSucceeds, RecordSuccess
  <2>4. CASE AttemptRejected(t) \/ AttemptFails(t)
    BY <2>4 DEF TypeOK, AttemptRejected, AttemptFails, breaker
  <2>5. CASE CallFails(t)
    <3>1. Flags'
      BY <1>0, <2>5, FailureRecorded, Zenon DEF Flags, CallFails
    <3>2. QED
      BY <2>5, <3>1, FailureRecorded DEF TypeOK, Flags, CallFails
  <2>6. QED
    BY <1>1, <2>0, <2>1, <2>2, <2>3, <2>4, <2>5 DEF CallStep
<1>2. CASE CooldownElapses \/ ServerFails \/ ServerRecovers
  <2>1. Flags'
    BY <1>0, <1>2, Zenon DEF Flags, CooldownElapses, ServerFails, ServerRecovers, breaker
  <2>2. QED
    BY <1>2, <2>1 DEF TypeOK, Flags, CooldownElapses, ServerFails, ServerRecovers, breaker
<1>3. CASE UNCHANGED vars
  BY <1>3 DEF TypeOK, vars
<1>4. QED
  BY <1>1, <1>2, <1>3 DEF Next

\* The breaker, the threads and the server keep their types.
THEOREM TypeCorrect == Spec => []TypeOK
<1>1. Init => TypeOK
  <2>1. Init => Flags
    BY Zenon DEF Init, Flags
  <2>2. QED
    BY <2>1 DEF Init, Flags, TypeOK
<1>2. QED
  BY <1>1, TypeOKStep, PTL DEF Spec

-----------------------------------------------------------------------------
(* The inductive invariant *)

LEMMA IInvStep == TypeOK /\ IInv /\ [Next]_vars => IInv'
<1> SUFFICES ASSUME TypeOK, IInv, [Next]_vars
             PROVE  IInv'
  OBVIOUS
<1> USE DEF TypeOK, IInv, TrippedOnThreshold, NothingFailed, Goes
<1>1. ASSUME NEW t \in Threads, CallStep(t)
      PROVE  IInv'
  <2>1. CASE Admit(t)
    BY <2>1 DEF Admit, Promoted
  <2>2. CASE Refuse(t)
    BY <2>2 DEF Refuse, Promoted, breaker
  <2>3. CASE ReadState(t)
    BY <2>3 DEF ReadState, breaker
  <2>4. CASE PromoteLate(t)
    <3>1. outages # 0
      BY <2>4 DEF PromoteLate
    <3>2. TrippedOnThreshold'
      BY <2>4 DEF PromoteLate
    <3>3. QED
      BY <2>4, <3>1, <3>2 DEF PromoteLate
  <2>5. CASE AttemptSucceeds(t)
    BY <2>5 DEF AttemptSucceeds, RecordSuccess
  <2>6. CASE AttemptRejected(t) \/ AttemptFails(t)
    BY <2>6 DEF AttemptRejected, AttemptFails, breaker
  <2>7. CASE CallFails(t)
    <3>1. outages # 0
      BY <2>7 DEF CallFails
    <3>2. TrippedOnThreshold'
      BY <2>7, FailureRecorded DEF CallFails
    <3>3. QED
      BY <2>7, <3>1, <3>2 DEF CallFails
  <2>8. QED
    BY <1>1, <2>1, <2>2, <2>3, <2>4, <2>5, <2>6, <2>7 DEF CallStep
<1>2. CASE CooldownElapses \/ ServerFails \/ ServerRecovers
  BY <1>2 DEF CooldownElapses, ServerFails, ServerRecovers, breaker
<1>3. CASE UNCHANGED vars
  BY <1>3 DEF vars
<1>4. QED
  BY <1>1, <1>2, <1>3 DEF Next

\* The inductive invariant holds in every reachable state.
LEMMA IInvHolds == Spec => []IInv
<1>1. Init => IInv
  BY DEF Init, IInv, TrippedOnThreshold, NothingFailed
<1>2. QED
  BY <1>1, IInvStep, TypeCorrect, PTL DEF Spec

\* Calls are refused only after Threshold failures, whatever late outcomes the
\* threads report, unless an unlocked promotion has overwritten a newer state.
THEOREM OnlyFailuresOpen == Spec => []OpensOnThreshold
<1>1. IInv => OpensOnThreshold
  BY DEF IInv, TrippedOnThreshold, OpensOnThreshold
<1>2. QED
  BY <1>1, IInvHolds, PTL

\* 4xx answers alone never count and never refuse a call (D2211).
THEOREM RejectionsAreNoFailures == Spec => []RejectionsNeverTrip
<1>1. IInv => RejectionsNeverTrip
  BY DEF IInv, NothingFailed, RejectionsNeverTrip
<1>2. QED
  BY <1>1, IInvHolds, PTL
=============================================================================
