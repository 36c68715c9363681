--------------------------- MODULE MCSearchService ---------------------------
(* Model checking SearchService: one supplier with two entries, or two with    *)
(* an entry each.                                                              *)
EXTENDS SearchService

CONSTANTS q1, q2, q3, e1, e2, e3, s1, s2

\* e1 and e2 are two entries of one supplier, and share its breaker.
MCSupplier == [e \in Entries |-> IF e \in {e1, e2} THEN s1 ELSE s2]

=============================================================================
