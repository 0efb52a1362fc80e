-------------------------- MODULE MCBulkheadThreads --------------------------
(* BulkheadThreads with three requests, the health and the discovery thread. *)
EXTENDS BulkheadThreads

CONSTANTS r1, r2, r3, health, discovery

MCRequests == {r1, r2, r3}
MCThreads  == {health, discovery}
MCTargets  == 1..2
=============================================================================
