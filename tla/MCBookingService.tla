-------------------------- MODULE MCBookingService --------------------------
(* Model checking BookingService: two requests of up to two bookings. *)
EXTENDS BookingService

CONSTANTS b1, b2, r1, r2

=============================================================================
