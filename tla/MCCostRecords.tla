--------------------------- MODULE MCCostRecords ----------------------------
(* A small instance of CostRecords for TLC.                                *)
EXTENDS CostRecords, TLC
=============================================================================
