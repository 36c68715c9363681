---------------------------- MODULE SupplierGate ----------------------------
(***************************************************************************)
(* What a circuit breaker promises its callers, without its state machine: *)
(* no closed, open or half-open here, only the number of failures in a row *)
(* and the time since the last one.                                        *)
(*                                                                         *)
(*   A call goes through exactly when the supplier has not failed          *)
(*   Threshold times in a row, or has been left alone for Rest since its   *)
(*   last failure.  A call that ends without an answer leaves no trace.    *)
(*                                                                         *)
(* SupplierCalls implements it: its three states add nothing a caller can  *)
(* see.                                                                    *)
(***************************************************************************)
EXTENDS Integers

CONSTANTS
    Calls,      \* the callers
    Threshold,  \* failures in a row that shut the gate
    Rest,       \* how long it stays shut
    Cap         \* bound on the count of failures

VARIABLES
    failures,   \* failures since the last success
    quiet,      \* time since the last failure, up to Rest
    call        \* per caller: "none", "refused" or "inflight"

vars == <<failures, quiet, call>>

Init ==
    /\ failures = 0
    /\ quiet = Rest
    /\ call = [c \in Calls |-> "none"]

Open == failures < Threshold \/ quiet = Rest

Enter(c) ==
    /\ call[c] = "none"
    /\ call' = [call EXCEPT ![c] = IF Open THEN "inflight" ELSE "refused"]
    /\ UNCHANGED <<failures, quiet>>

Leave(c) ==
    /\ call[c] # "none"
    /\ call' = [call EXCEPT ![c] = "none"]
    /\ UNCHANGED <<failures, quiet>>

Succeed(c) ==
    /\ call[c] = "inflight"
    /\ call' = [call EXCEPT ![c] = "none"]
    /\ failures' = 0
    /\ UNCHANGED quiet

Fail(c) ==
    /\ call[c] = "inflight"
    /\ call' = [call EXCEPT ![c] = "none"]
    /\ failures' = IF failures < Cap THEN failures + 1 ELSE failures
    /\ quiet' = 0

Wait ==
    /\ quiet < Rest
    /\ quiet' = quiet + 1
    /\ UNCHANGED <<failures, call>>

Next ==
    \/ \E c \in Calls : Enter(c) \/ Leave(c) \/ Succeed(c) \/ Fail(c)
    \/ Wait

Spec == Init /\ [][Next]_vars

=============================================================================
