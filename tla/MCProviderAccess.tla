-------------------------- MODULE MCProviderAccess --------------------------
(* Model checking ProviderAccess: a key that expires and one to be issued,    *)
(* and the windows 0 and 1 of two ticks each.                                 *)
EXTENDS ProviderAccess, TLC

CONSTANTS k1, k2

MCExpiresAt == [k \in Keys |-> IF k = k1 THEN 2 ELSE None]
MCSymmetry == Permutations(Requests)

=============================================================================
