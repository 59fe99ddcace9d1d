--------------------------- MODULE MCProductStock ---------------------------
(* Values of ProductStock's constants for TLC. *)
EXTENDS ProductStock, TLC

CONSTANTS p1, p2, q1, q2

Symmetry == Permutations(Requests)

NoChange ==
    [mycalinks_ec_enabled |-> Keep, changesReserve |-> FALSE,
     pos_reserved_stock_number |-> Null, ecPublishStockNumber |-> 0,
     ecPublishToMaximum |-> FALSE, recalculateEcStockNumber |-> FALSE]

SetReserve(r) ==
    [NoChange EXCEPT !.changesReserve = TRUE, !.pos_reserved_stock_number = r]

\* What the web form and the workers send.
EnableOn == [NoChange EXCEPT !.mycalinks_ec_enabled = "on"]
EnableOff == [NoChange EXCEPT !.mycalinks_ec_enabled = "off"]
PublishOne == [NoChange EXCEPT !.ecPublishStockNumber = 1]
PublishAll == [NoChange EXCEPT !.ecPublishToMaximum = TRUE]
Recalculation == [NoChange EXCEPT !.recalculateEcStockNumber = TRUE]

\* None of these switches EC on and recalculates besides.
ListingUpdates == {EnableOn, PublishAll, SetReserve(0), SetReserve(Null)}

\* Every kind of update of a row, the reserve of the product included.
SharedUpdates ==
    {EnableOn, EnableOff, PublishOne, Recalculation, SetReserve(2),
     [SetReserve(0) EXCEPT !.mycalinks_ec_enabled = "on"]}

=============================================================================
