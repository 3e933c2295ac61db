------------------------- MODULE BookingRefinement -------------------------
(* What Booking's variables are in PaygateAdapter. *)
EXTENDS PaygateAdapter

CONSTANT Overlap   \* see Booking

Paid == {r \in Refs : pay[r].status = "OK"}
Book == [r \in Refs |-> tx[r].status]

Abstract == INSTANCE Booking WITH paid <- Paid, book <- Book

\* The adapter implements Booking.
ImplementsBooking == Abstract!Spec
=============================================================================
