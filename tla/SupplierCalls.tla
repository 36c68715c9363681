--------------------------- MODULE SupplierCalls ----------------------------
(***************************************************************************)
(* Concurrent searches of one supplier through its circuit breaker:        *)
(* _search_single_supplier of app/services/search_service.py, called by    *)
(* any number of searches at once.                                         *)
(*                                                                         *)
(* Between the check of the breaker and the record of the outcome the code *)
(* awaits the supplier, so outcomes are recorded in any order and long     *)
(* after the state that let the call through has changed.  A call is       *)
(* cancelled when the global timeout of its search strikes: CancelledError *)
(* is no Exception, so neither outcome is then recorded.                   *)
(***************************************************************************)
EXTENDS CircuitBreaker

CONSTANTS
    Calls       \* concurrent tasks, each searching the supplier again and again

VARIABLES
    breaker,    \* the supplier's entry in the CircuitBreakerRegistry
    call        \* per task: "none", "refused", or, while it awaits the
                \* supplier, the breaker state that let it through

vars == <<breaker, call>>

LetThrough == {"closed", "half_open"}
InFlight(c) == call[c] \in LetThrough

TypeOK ==
    /\ breaker \in Breaker
    /\ call \in [Calls -> {"none", "refused"} \cup LetThrough]

Init ==
    /\ breaker = NewBreaker
    /\ call = [c \in Calls |-> "none"]

-----------------------------------------------------------------------------

\* The breaker lets the task through: it checks the breaker and calls the supplier.
Admit(c) ==
    /\ call[c] = "none"
    /\ IsAvailable(breaker)
    /\ breaker' = Checked(breaker)
    /\ call' = [call EXCEPT ![c] = Checked(breaker).state]

Refuse_CountsAsFailure(c) ==
    /\ call[c] = "none"
    /\ ~IsAvailable(breaker)
    /\ breaker' = RecordFailure(breaker)
    /\ call' = [call EXCEPT ![c] = "refused"]

\* "Circuit breaker open": the supplier is not called.
Refuse(c) ==
    /\ call[c] = "none"
    /\ ~IsAvailable(breaker)
    /\ call' = [call EXCEPT ![c] = "refused"]
    /\ UNCHANGED breaker

\* The refused task returns its SupplierResult; a later search may start a new one.
ReturnRefusal(c) ==
    /\ call[c] = "refused"
    /\ call' = [call EXCEPT ![c] = "none"]
    /\ UNCHANGED breaker

Succeed(c) ==
    /\ InFlight(c)
    /\ breaker' = RecordSuccess(breaker)
    /\ call' = [call EXCEPT ![c] = "none"]

Fail(c) ==
    /\ InFlight(c)
    /\ breaker' = RecordFailure(breaker)
    /\ call' = [call EXCEPT ![c] = "none"]

\* The 55 s timeout of the search cancels the task.
Cancel(c) ==
    /\ InFlight(c)
    /\ call' = [call EXCEPT ![c] = "none"]
    /\ UNCHANGED breaker

Tick ==
    /\ ~Rested(breaker)
    /\ breaker' = Aged(breaker)
    /\ UNCHANGED call

Return(c) == Succeed(c) \/ Fail(c) \/ Cancel(c)

Next ==
    \/ \E c \in Calls :
          Admit(c) \/ Refuse(c) \/ ReturnRefusal(c) \/ Succeed(c) \/ Fail(c) \/ Cancel(c)
    \/ Tick

Spec == Init /\ [][Next]_vars

\* Time passes, and every call ends: by an answer, an error or the global timeout.
\* New searches are the users' choice and get no fairness.
Fairness ==
    /\ WF_vars(Tick)
    /\ \A c \in Calls : WF_vars(Return(c)) /\ WF_vars(ReturnRefusal(c))

FairSpec == Spec /\ Fairness

-----------------------------------------------------------------------------
(* Properties.                                                             *)

\* The state and the count never disagree: the breaker is closed exactly while
\* the failures recorded since the last success are below the threshold, in
\* whatever order old calls report (record_success, record_failure, is_available).
StateMatchesCount == breaker.state = "closed" <=> ~Tripped(breaker)

\* A breaker is half-open only while its supplier has been left alone for the
\* recovery timeout: the first failure in half-open shuts it again at once.
HalfOpenIsRested == breaker.state = "half_open" => Rested(breaker)

Gate == INSTANCE SupplierGate WITH
    Threshold <- FailureThreshold,
    Rest <- RecoveryTimeout,
    Cap <- FailureCap,
    failures <- breaker.failures,
    quiet <- breaker.quiet,
    call <- [c \in Calls |-> IF InFlight(c) THEN "inflight" ELSE call[c]]

\* The breaker keeps the promise of SupplierGate: a call goes through exactly
\* when fewer than FailureThreshold calls have failed in a row or none has
\* failed for RecoveryTimeout, whatever calls were in flight in between.
ImplementsGate == Gate!Spec

\* A supplier refused again and again is tried again and again: no order of
\* late failures and cancelled test calls keeps the breaker shut for ever.
RefusedIsRetried ==
    []<><<\E c \in Calls : Refuse(c)>>_vars => []<><<\E c \in Calls : Admit(c)>>_vars

\* circuit_breaker.py:21 says of the half-open state "One test request allowed".
\* The code keeps no note of the test request it has let through.
OneTestRequest ==
    [][\A c \in Calls : Admit(c) /\ call'[c] = "half_open"
          => \A d \in Calls : call[d] # "half_open"]_vars

=============================================================================
