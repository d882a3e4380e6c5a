--------------------------- MODULE CircuitBreaker ---------------------------
(***************************************************************************)
(* The circuit breaker of pipeline/omlx_call.py and call_omlx, its only    *)
(* user, called from the workers of a ThreadPoolExecutor.  One call makes  *)
(* up to MaxRetries attempts and reports at most one outcome.  The breaker *)
(* guards its fields with a lock, except where a refused caller formats    *)
(* the state into its CircuitOpenError: that read may write.               *)
(***************************************************************************)
EXTENDS Naturals, FiniteSets

CONSTANTS Threads,
          Threshold,    \* OMLX_CB_FAILURE_THRESHOLD, after its floor
          MaxRetries,
          MaxOutages    \* bound on outages of the server

VARIABLES state,     \* _state
          failures,  \* _consecutive_failures, counted up to Threshold
          cooling,   \* time.time() < _open_until
          pc,        \* where each thread is in call_omlx
          attempt,   \* the attempt it is at
          up,        \* the server answers
          outages,   \* outages so far (bounded by MaxOutages)
          lost       \* an unlocked promotion has overwritten a newer state,
                     \* and no success has been recorded since

breaker == <<state, failures, cooling>>
vars == <<state, failures, cooling, pc, attempt, up, outages, lost>>

ASSUME ThreadsAssumption == IsFiniteSet(Threads)
ASSUME LimitsAssumption ==
    Threshold \in Nat \ {0} /\ MaxRetries \in Nat \ {0} /\ MaxOutages \in Nat

TypeOK ==
    /\ state \in {"CLOSED", "OPEN", "HALF_OPEN"}
    /\ failures \in 0..Threshold
    /\ cooling \in BOOLEAN
    /\ pc \in [Threads -> {"idle", "calling", "refused", "promoting"}]
    /\ attempt \in [Threads -> 1..MaxRetries]
    /\ up \in BOOLEAN
    /\ outages \in 0..MaxOutages
    /\ lost \in BOOLEAN

Init ==
    /\ state = "CLOSED"
    /\ failures = 0
    /\ cooling = FALSE
    /\ pc = [t \in Threads |-> "idle"]
    /\ attempt = [t \in Threads |-> 1]
    /\ up = TRUE
    /\ outages = 0
    /\ lost = FALSE

Goes(t, from, to) == pc[t] = from /\ pc' = [pc EXCEPT ![t] = to]

\* The property CircuitBreaker.state promotes an OPEN breaker that has cooled.
Promoted == IF state = "OPEN" /\ ~cooling THEN "HALF_OPEN" ELSE state

\* allow_request under the lock, answering yes...
Admit(t) ==
    /\ Promoted # "OPEN"
    /\ Goes(t, "idle", "calling")
    /\ state' = Promoted
    /\ attempt' = [attempt EXCEPT ![t] = 1]
    /\ UNCHANGED <<failures, cooling, up, outages, lost>>

\* ...or no.
Refuse(t) ==
    /\ Promoted = "OPEN"
    /\ Goes(t, "idle", "refused")
    /\ UNCHANGED <<breaker, attempt, up, outages, lost>>

\* The error message reads _breaker.state without the lock: the test...
ReadState(t) ==
    /\ Goes(t, "refused", IF Promoted # state THEN "promoting" ELSE "idle")
    /\ UNCHANGED <<breaker, attempt, up, outages, lost>>

\* ...and the assignment, which may come after other threads' assignments.
PromoteLate(t) ==
    /\ Goes(t, "promoting", "idle")
    /\ state' = "HALF_OPEN"
    /\ lost' = (lost \/ state = "CLOSED" \/ (state = "OPEN" /\ cooling))
    /\ UNCHANGED <<failures, cooling, attempt, up, outages>>

\* Mutation: a success leaves the breaker as it is.
ForgetSuccess == UNCHANGED breaker

RecordSuccess == state' = "CLOSED" /\ failures' = 0 /\ UNCHANGED cooling

Opens == state' = "OPEN" /\ cooling' = TRUE

\* Mutation: one failure too few.
TripEarly ==
    /\ failures' = IF failures < Threshold THEN failures + 1 ELSE failures
    /\ IF state = "HALF_OPEN" \/ failures' + 1 >= Threshold
       THEN Opens
       ELSE UNCHANGED <<state, cooling>>

\* Mutation: the count does not stop.
CountOn ==
    /\ failures' = failures + 1
    /\ IF state = "HALF_OPEN" \/ failures' >= Threshold
       THEN Opens
       ELSE UNCHANGED <<state, cooling>>

RecordFailure ==
    /\ failures' = IF failures < Threshold THEN failures + 1 ELSE failures
    /\ IF state = "HALF_OPEN" \/ failures' >= Threshold
       THEN Opens
       ELSE UNCHANGED <<state, cooling>>

AttemptSucceeds(t) ==
    /\ up
    /\ Goes(t, "calling", "idle")
    /\ RecordSuccess
    /\ lost' = FALSE
    /\ UNCHANGED <<attempt, up, outages>>

\* Mutation: every failed call counts, as before D2211.
CountRejection(t) ==
    /\ up
    /\ Goes(t, "calling", "idle")
    /\ RecordFailure
    /\ UNCHANGED <<attempt, up, outages, lost>>

\* HTTP 4xx: no retry, and the breaker does not hear of it.
AttemptRejected(t) ==
    /\ up
    /\ Goes(t, "calling", "idle")
    /\ UNCHANGED <<breaker, attempt, up, outages, lost>>

\* A timeout, a refused connection, HTTP 5xx or a useless body: try again...
AttemptFails(t) ==
    /\ ~up
    /\ pc[t] = "calling"
    /\ attempt[t] < MaxRetries
    /\ attempt' = [attempt EXCEPT ![t] = @ + 1]
    /\ UNCHANGED <<breaker, pc, up, outages, lost>>

\* ...until the attempts are used up.
CallFails(t) ==
    /\ ~up
    /\ attempt[t] = MaxRetries
    /\ Goes(t, "calling", "idle")
    /\ RecordFailure
    /\ UNCHANGED <<attempt, up, outages, lost>>

CooldownElapses ==
    /\ cooling
    /\ cooling' = FALSE
    /\ UNCHANGED <<state, failures, pc, attempt, up, outages, lost>>

ServerFails ==
    /\ up
    /\ outages < MaxOutages
    /\ up' = FALSE
    /\ outages' = outages + 1
    /\ UNCHANGED <<breaker, pc, attempt, lost>>

ServerRecovers ==
    /\ ~up
    /\ up' = TRUE
    /\ UNCHANGED <<breaker, pc, attempt, outages, lost>>

CallStep(t) ==
    \/ Admit(t) \/ Refuse(t) \/ ReadState(t) \/ PromoteLate(t)
    \/ AttemptSucceeds(t) \/ AttemptRejected(t) \/ AttemptFails(t) \/ CallFails(t)

Next ==
    \/ \E t \in Threads : CallStep(t)
    \/ CooldownElapses
    \/ ServerFails \/ ServerRecovers

Spec == Init /\ [][Next]_vars

\* The workers always have another call to make, every attempt ends (the
\* wall-clock deadline), not every call is rejected, and time passes.
Fairness ==
    /\ \A t \in Threads : WF_vars(CallStep(t)) /\ SF_vars(AttemptSucceeds(t))
    /\ WF_vars(CooldownElapses)

FairSpec == Spec /\ Fairness

-----------------------------------------------------------------------------
(* Properties *)

\* The breaker refuses calls only after Threshold failed calls with no success
\* among them; a call that a success of another thread has overtaken still
\* counts.  (An unlocked promotion can take the breaker to HALF_OPEN, and one
\* failure from there to OPEN; the next success repairs that.)
OpensOnThreshold == state = "OPEN" /\ ~lost => failures = Threshold

\* Calls that the server answers with 4xx never bring the breaker down (D2211).
RejectionsNeverTrip == outages = 0 => state = "CLOSED" /\ failures = 0

\* Once the server stays up, the breaker closes and stays closed, whatever late
\* failures and unlocked promotions were still on their way.
Heals == <>[]up => <>[](state = "CLOSED")
-----------------------------------------------------------------------------
(* The inductive invariant *)

\* A breaker that is not closed got there by Threshold failures, half-open too...
TrippedOnThreshold == state # "CLOSED" /\ ~lost => failures = Threshold

\* ...and before the first outage no call has failed, so none was refused.
NothingFailed ==
    outages = 0 =>
        /\ up
        /\ state = "CLOSED" /\ failures = 0
        /\ \A t \in Threads : pc[t] \in {"idle", "calling"}

IInv == TrippedOnThreshold /\ NothingFailed
=============================================================================
