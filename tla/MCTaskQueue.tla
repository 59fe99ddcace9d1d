---------------------------- MODULE MCTaskQueue -----------------------------
(* Small instances of TaskQueue for TLC.                                   *)
EXTENDS TaskQueue, TLC

CONSTANTS w1, w2

=============================================================================
