----------------------------- MODULE MCBulkhead -----------------------------
(* Bulkhead on four requests and capacities 1 to 3: more requests than      *)
(* slots, growth and shrinkage, and a target of 0 that resize raises to 1.  *)
EXTENDS Bulkhead

CONSTANTS r1, r2, r3, r4

MCRequests == {r1, r2, r3, r4}
MCTargets  == 0..3
=============================================================================
