------------------------ MODULE SupplierCalls_proofs ------------------------
(***************************************************************************)
(* Proofs about SupplierCalls for any number of tasks, any threshold and   *)
(* any recovery timeout.  The inductive invariant is the conjunction of    *)
(* the three invariants the model checker sees: the type, the agreement of *)
(* state and count, and that half-open means rested.  The refinement of    *)
(* SupplierGate rests on the last two.                                     *)
(***************************************************************************)
EXTENDS SupplierCalls, TLAPS

IInv == TypeOK /\ StateMatchesCount /\ HalfOpenIsRested

-----------------------------------------------------------------------------
(* What the methods of the class do to a breaker.                          *)

\* The invariant of one breaker, by itself.
GoodBreaker(b) ==
    /\ b \in Breaker
    /\ b.state = "closed" <=> ~Tripped(b)
    /\ b.state = "half_open" => Rested(b)

\* A new breaker is good.
LEMMA NewIsGood == GoodBreaker(NewBreaker)
  BY FailureThresholdAssumption, RecoveryTimeoutAssumption, FailureCapAssumption
  DEF GoodBreaker, NewBreaker, Breaker, CircuitState, Tripped, Rested

\* Reading is_available keeps a breaker good, and touches only its state.
LEMMA CheckedIsGood ==
  ASSUME NEW b, GoodBreaker(b)
  PROVE  /\ GoodBreaker(Checked(b))
         /\ Checked(b).failures = b.failures
         /\ Checked(b).quiet = b.quiet
         /\ IsAvailable(b) => Checked(b).state \in LetThrough
  BY DEF GoodBreaker, Checked, Breaker, CircuitState, Tripped, Rested, IsAvailable, LetThrough

\* record_success keeps a breaker good: it is closed with no failures.
LEMMA SuccessIsGood ==
  ASSUME NEW b, GoodBreaker(b)
  PROVE  /\ GoodBreaker(RecordSuccess(b))
         /\ RecordSuccess(b).failures = 0
         /\ RecordSuccess(b).quiet = b.quiet
<1>1. b \in [state : CircuitState, failures : 0 .. FailureCap, quiet : 0 .. RecoveryTimeout]
  BY DEF GoodBreaker, Breaker
<1>2. /\ RecordSuccess(b) \in Breaker
      /\ RecordSuccess(b).state = "closed"
      /\ RecordSuccess(b).failures = 0
      /\ RecordSuccess(b).quiet = b.quiet
  BY <1>1, FailureThresholdAssumption, FailureCapAssumption DEF RecordSuccess, Breaker, CircuitState
<1> QED  BY <1>2, FailureThresholdAssumption DEF GoodBreaker, Tripped

\* record_failure keeps a breaker good: a half-open breaker has a count at the
\* threshold already, so its first failure opens it.
LEMMA FailureIsGood ==
  ASSUME NEW b, GoodBreaker(b)
  PROVE  /\ GoodBreaker(RecordFailure(b))
         /\ RecordFailure(b).failures = OneMore(b.failures)
         /\ RecordFailure(b).quiet = 0
<1> DEFINE n == OneMore(b.failures)
           f == RecordFailure(b)
<1>1. /\ b.failures \in 0 .. FailureCap
      /\ b.state \in CircuitState
  BY DEF GoodBreaker, Breaker
<1>2. n \in 0 .. FailureCap /\ n >= b.failures
  BY <1>1, FailureCapAssumption DEF OneMore
<1>3. f = [state |-> IF n >= FailureThreshold THEN "open" ELSE b.state, failures |-> n, quiet |-> 0]
  BY DEF RecordFailure
<1> HIDE DEF n
<1>4. f \in Breaker
  BY <1>1, <1>2, <1>3, RecoveryTimeoutAssumption DEF Breaker, CircuitState
<1>5. CASE n >= FailureThreshold
  <2>1. f.state = "open" /\ f.failures = n
    BY <1>3, <1>5
  <2> QED  BY <2>1, <1>3, <1>4, <1>5 DEF GoodBreaker, Tripped, n
<1>6. CASE ~(n >= FailureThreshold)
  <2>1. ~(b.failures >= FailureThreshold)
    BY <1>1, <1>2, <1>6, FailureThresholdAssumption, FailureCapAssumption
  <2>2. b.state = "closed"
    BY <2>1 DEF GoodBreaker, Tripped
  <2>3. f.state = "closed" /\ f.failures = n
    BY <1>3, <1>6, <2>2
  <2> QED  BY <2>3, <1>3, <1>4, <1>6 DEF GoodBreaker, Tripped, n
<1> QED  BY <1>5, <1>6

\* The passing of time keeps a breaker good.
LEMMA AgedIsGood ==
  ASSUME NEW b, GoodBreaker(b), ~Rested(b)
  PROVE  /\ GoodBreaker(Aged(b))
         /\ Aged(b).failures = b.failures
         /\ Aged(b).quiet = b.quiet + 1
         /\ b.quiet < RecoveryTimeout
  BY RecoveryTimeoutAssumption DEF GoodBreaker, Aged, Breaker, CircuitState, Tripped, Rested

-----------------------------------------------------------------------------
(* The invariant of the whole module.                                      *)

\* It is the goodness of the one breaker and the type of the calls.
LEMMA IInvIsGoodBreaker ==
  IInv <=> GoodBreaker(breaker) /\ call \in [Calls -> {"none", "refused"} \cup LetThrough]
  BY DEF IInv, TypeOK, StateMatchesCount, HalfOpenIsRested, GoodBreaker

\* The supplier starts behind a new breaker, with nothing in flight.
LEMMA InitIInv == Init => IInv
  BY NewIsGood, IInvIsGoodBreaker DEF Init

\* Every step keeps the invariant, one case per action.
LEMMA NextIInv == IInv /\ [Next]_vars => IInv'
<1> DEFINE CallOK == call \in [Calls -> {"none", "refused"} \cup LetThrough]
<1> SUFFICES ASSUME IInv, [Next]_vars PROVE GoodBreaker(breaker') /\ CallOK'
  BY DEF IInv, TypeOK, StateMatchesCount, HalfOpenIsRested, GoodBreaker, Tripped, Rested, Breaker
<1>1. GoodBreaker(breaker) /\ CallOK
  BY IInvIsGoodBreaker
<1>2. ASSUME NEW c \in Calls, Admit(c) PROVE GoodBreaker(breaker') /\ CallOK'
  <2>1. GoodBreaker(Checked(breaker)) /\ Checked(breaker).state \in LetThrough
    BY <1>1, <1>2, CheckedIsGood DEF Admit
  <2> QED  BY <2>1, <1>1, <1>2 DEF Admit
<1>3. ASSUME NEW c \in Calls, Refuse(c) PROVE GoodBreaker(breaker') /\ CallOK'
  BY <1>1, <1>3 DEF Refuse
<1>4. ASSUME NEW c \in Calls, ReturnRefusal(c) PROVE GoodBreaker(breaker') /\ CallOK'
  BY <1>1, <1>4 DEF ReturnRefusal
<1>5. ASSUME NEW c \in Calls, Succeed(c) PROVE GoodBreaker(breaker') /\ CallOK'
  BY <1>1, <1>5, SuccessIsGood DEF Succeed
<1>6. ASSUME NEW c \in Calls, Fail(c) PROVE GoodBreaker(breaker') /\ CallOK'
  BY <1>1, <1>6, FailureIsGood DEF Fail
<1>7. ASSUME NEW c \in Calls, Cancel(c) PROVE GoodBreaker(breaker') /\ CallOK'
  BY <1>1, <1>7 DEF Cancel
<1>8. ASSUME Tick PROVE GoodBreaker(breaker') /\ CallOK'
  BY <1>1, <1>8, AgedIsGood DEF Tick
<1>9. CASE UNCHANGED vars
  BY <1>1, <1>9 DEF vars
<1> QED  BY <1>2, <1>3, <1>4, <1>5, <1>6, <1>7, <1>8, <1>9 DEF Next

\* Every reachable state satisfies the inductive invariant.
LEMMA Invariance == Spec => []IInv
  BY InitIInv, NextIInv, PTL DEF Spec

\* Breaker and calls keep their types (circuit_breaker.py's fields).
THEOREM TypeCorrect == Spec => []TypeOK
<1>1. IInv => TypeOK  BY DEF IInv
<1> QED  BY <1>1, Invariance, PTL

\* The breaker is closed exactly while the failures recorded since the last
\* success are below the threshold, in whatever order calls report.
THEOREM StateAgreesWithCount == Spec => []StateMatchesCount
<1>1. IInv => StateMatchesCount  BY DEF IInv
<1> QED  BY <1>1, Invariance, PTL

\* A half-open breaker has had no failure for the recovery timeout.
THEOREM HalfOpenRests == Spec => []HalfOpenIsRested
<1>1. IInv => HalfOpenIsRested  BY DEF IInv
<1> QED  BY <1>1, Invariance, PTL

-----------------------------------------------------------------------------
(* Refinement of SupplierGate.                                             *)

\* A new breaker is a gate nobody has used.
LEMMA InitGate == Init => Gate!Init
  BY DEF Init, Gate!Init, NewBreaker, InFlight, LetThrough

\* What the caller sees of a task after its entry in call has changed.
LEMMA SeenCall ==
  ASSUME NEW c \in Calls, call \in [Calls -> {"none", "refused"} \cup LetThrough],
         NEW v, call' = [call EXCEPT ![c] = v]
  PROVE  [d \in Calls |-> IF InFlight(d) THEN "inflight" ELSE call[d]]'
       = [[d \in Calls |-> IF InFlight(d) THEN "inflight" ELSE call[d]]
             EXCEPT ![c] = IF v \in LetThrough THEN "inflight" ELSE v]
  BY DEF InFlight

\* Every step of the breaker and its callers is a step of the gate.
LEMMA StepGate == IInv /\ [Next]_vars => [Gate!Next]_(Gate!vars)
<1> DEFINE seen == [c \in Calls |-> IF InFlight(c) THEN "inflight" ELSE call[c]]
<1> SUFFICES ASSUME IInv, [Next]_vars PROVE [Gate!Next]_(Gate!vars)
  OBVIOUS
<1>1. GoodBreaker(breaker) /\ call \in [Calls -> {"none", "refused"} \cup LetThrough]
  BY IInvIsGoodBreaker
<1>2. ASSUME NEW c \in Calls, Admit(c) PROVE Gate!Enter(c)
  <2>1. /\ Checked(breaker).failures = breaker.failures
        /\ Checked(breaker).quiet = breaker.quiet
        /\ Checked(breaker).state \in LetThrough
    BY <1>1, <1>2, CheckedIsGood DEF Admit
  <2>2. Gate!Open
    BY <1>1, <1>2, FailureThresholdAssumption
    DEF Admit, IsAvailable, GoodBreaker, Breaker, CircuitState, Tripped, Rested, Gate!Open
  <2>3. seen[c] = "none"
    BY <1>2 DEF Admit, InFlight, LetThrough
  <2>4. seen' = [seen EXCEPT ![c] = "inflight"]
    BY <1>1, <1>2, <2>1, SeenCall DEF Admit
  <2> QED  BY <1>2, <2>1, <2>2, <2>3, <2>4 DEF Admit, Gate!Enter
<1>3. ASSUME NEW c \in Calls, Refuse(c) PROVE Gate!Enter(c)
  <2>1. ~Gate!Open
    BY <1>1, <1>3, FailureThresholdAssumption
    DEF Refuse, IsAvailable, GoodBreaker, Breaker, CircuitState, Tripped, Rested, Gate!Open
  <2>2. seen[c] = "none"
    BY <1>3 DEF Refuse, InFlight, LetThrough
  <2>3. seen' = [seen EXCEPT ![c] = "refused"]
    BY <1>1, <1>3, SeenCall DEF Refuse, LetThrough
  <2> QED  BY <1>3, <2>1, <2>2, <2>3 DEF Refuse, Gate!Enter
<1>4. ASSUME NEW c \in Calls, ReturnRefusal(c) PROVE Gate!Leave(c)
  <2>1. seen[c] = "refused"
    BY <1>4 DEF ReturnRefusal, InFlight, LetThrough
  <2>2. seen' = [seen EXCEPT ![c] = "none"]
    BY <1>1, <1>4, SeenCall DEF ReturnRefusal, LetThrough
  <2> QED  BY <1>4, <2>1, <2>2 DEF ReturnRefusal, Gate!Leave
<1>5. ASSUME NEW c \in Calls, Succeed(c) PROVE Gate!Succeed(c)
  <2>1. seen[c] = "inflight"
    BY <1>5 DEF Succeed
  <2>2. seen' = [seen EXCEPT ![c] = "none"]
    BY <1>1, <1>5, SeenCall DEF Succeed, LetThrough
  <2>3. breaker'.failures = 0 /\ breaker'.quiet = breaker.quiet
    BY <1>1, <1>5, SuccessIsGood DEF Succeed
  <2> QED  BY <2>1, <2>2, <2>3 DEF Gate!Succeed
<1>6. ASSUME NEW c \in Calls, Fail(c) PROVE Gate!Fail(c)
  <2>1. seen[c] = "inflight"
    BY <1>6 DEF Fail
  <2>2. seen' = [seen EXCEPT ![c] = "none"]
    BY <1>1, <1>6, SeenCall DEF Fail, LetThrough
  <2>3. breaker'.failures = OneMore(breaker.failures) /\ breaker'.quiet = 0
    BY <1>1, <1>6, FailureIsGood DEF Fail
  <2> QED  BY <2>1, <2>2, <2>3 DEF Gate!Fail, OneMore
<1>7. ASSUME NEW c \in Calls, Cancel(c) PROVE Gate!Leave(c)
  <2>1. seen[c] = "inflight"
    BY <1>7 DEF Cancel
  <2>2. seen' = [seen EXCEPT ![c] = "none"]
    BY <1>1, <1>7, SeenCall DEF Cancel, LetThrough
  <2> QED  BY <1>7, <2>1, <2>2 DEF Cancel, Gate!Leave
<1>8. ASSUME Tick PROVE Gate!Wait
  <2>1. seen' = seen
    BY <1>8 DEF Tick, InFlight
  <2> QED  BY <1>1, <1>8, <2>1, AgedIsGood DEF Tick, Gate!Wait
<1>9. CASE UNCHANGED vars
  BY <1>9 DEF vars, Gate!vars, InFlight
<1> QED  BY <1>2, <1>3, <1>4, <1>5, <1>6, <1>7, <1>8, <1>9 DEF Next, Gate!Next

\* The breaker implements the gate: with its three states and concurrent calls
\* it lets through exactly the calls that SupplierGate lets through.
THEOREM Refinement == Spec => ImplementsGate
<1>1. Spec => Gate!Spec
  BY InitGate, StepGate, Invariance, PTL DEF Spec, Gate!Spec
<1> QED  BY <1>1 DEF ImplementsGate

=============================================================================
