--------------------------- MODULE MCAdapterCalls ---------------------------
(* Model checking AdapterCalls, with every adapter there is. *)
EXTENDS AdapterCalls

AllSuppliers == DOMAIN Adapters

=============================================================================
