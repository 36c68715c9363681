--------------------------- MODULE CircuitBreaker ---------------------------
(***************************************************************************)
(* The per-supplier circuit breaker, app/services/circuit_breaker.py.      *)
(*                                                                         *)
(* A breaker is a record; every method of the Python class is an operator  *)
(* from a breaker to a breaker.  The gateway runs one event loop and the   *)
(* methods never await, so each one is a single step of whoever calls it:  *)
(* SupplierCalls and SearchService use these operators in their actions.   *)
(*                                                                         *)
(* last_failure_time is kept as `quiet`, the time since it, because the    *)
(* code only ever compares that difference with recovery_timeout: quiet    *)
(* counts up to RecoveryTimeout and stays there.  failure_count is only    *)
(* compared with failure_threshold, so it too stops at FailureCap.         *)
(* last_success_time is written but only reported (to_dict), and left out. *)
(*                                                                         *)
(* Operators named X_<slip> are variants of X that no specification uses:  *)
(* each is a plausible slip in X that some property must notice.           *)
(***************************************************************************)
EXTENDS Integers

CONSTANTS
    FailureThreshold,   \* failures in a row that open the breaker (main.py passes 15)
    RecoveryTimeout,    \* how long it then stays shut (main.py passes 30 s)
    FailureCap          \* bound on failure_count, at or above the threshold

ASSUME FailureThresholdAssumption == FailureThreshold \in Nat \ {0}
ASSUME RecoveryTimeoutAssumption == RecoveryTimeout \in Nat \ {0}
ASSUME FailureCapAssumption == FailureCap \in Nat /\ FailureCap >= FailureThreshold

CircuitState == {"closed", "open", "half_open"}

Breaker == [state : CircuitState,
            failures : 0 .. FailureCap,
            quiet : 0 .. RecoveryTimeout]

\* A breaker that has seen nothing: last_failure_time = 0 is long ago.
NewBreaker == [state |-> "closed", failures |-> 0, quiet |-> RecoveryTimeout]

\* time.time() - last_failure_time >= recovery_timeout
Rested(b) == b.quiet = RecoveryTimeout

\* The answer of the is_available property...
IsAvailable(b) == b.state = "open" => Rested(b)

Checked_ForgetsFailures(b) ==
    IF b.state = "open" /\ Rested(b) THEN [b EXCEPT !.state = "half_open", !.failures = 0] ELSE b

\* ... and what reading it does: an open breaker that has rested turns half-open.
Checked(b) ==
    IF b.state = "open" /\ Rested(b) THEN [b EXCEPT !.state = "half_open"] ELSE b

RecordSuccess_Decays(b) == [b EXCEPT !.failures = @ - 1, !.state = "closed"]
RecordSuccess_KeepsCount(b) == [b EXCEPT !.state = "closed"]

RecordSuccess(b) == [state |-> "closed", failures |-> 0, quiet |-> b.quiet]

OneMore(n) == IF n < FailureCap THEN n + 1 ELSE n

RecordFailure_KeepsTime(b) ==
    LET n == OneMore(b.failures) IN
    [b EXCEPT !.failures = n, !.state = IF n >= FailureThreshold THEN "open" ELSE @]

\* The time of the failure is now, whatever the state, so a late failure of an
\* old call also prolongs an outage the breaker already knows of.
RecordFailure(b) ==
    LET n == OneMore(b.failures) IN
    [state |-> IF n >= FailureThreshold THEN "open" ELSE b.state,
     failures |-> n,
     quiet |-> 0]

\* One unit of time.time() passes.
Aged(b) == [b EXCEPT !.quiet = IF @ < RecoveryTimeout THEN @ + 1 ELSE @]

\* The supplier counts as down: the test the breaker's states stand for.
Tripped(b) == b.failures >= FailureThreshold

=============================================================================
