-------------------------- MODULE MCSupplierCalls ---------------------------
(* Model checking SupplierCalls: three tasks, three failures in a row open the breaker. *)
EXTENDS SupplierCalls, TLC

CONSTANTS c1, c2, c3

MCCalls == {c1, c2, c3}

=============================================================================
