---------------------------- MODULE MCExternalEc ----------------------------
(* Small instances of ExternalEc for TLC.                                  *)
EXTENDS ExternalEc

CONSTANTS p1, o1, w1, w2

=============================================================================
