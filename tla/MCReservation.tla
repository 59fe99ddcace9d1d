--------------------------- MODULE MCReservation ----------------------------
(* Small instances of Reservation for TLC.                                 *)
EXTENDS Reservation, TLC

CONSTANTS r1, r2, r3, q1, q2

\* Two receptions of one customer exceed the customer's limit, those of the two
\* customers that of the reservation.
Customers == r1 :> "a" @@ r2 :> "a" @@ r3 :> "b"
Counts == r1 :> 1 @@ r2 :> 2 @@ r3 :> 2

Counter == q1 :> {"put", "deposit", "receive"}
        @@ q2 :> {"reserve", "deposit", "cancel", "return", "return_deposit", "sell"}

=============================================================================
