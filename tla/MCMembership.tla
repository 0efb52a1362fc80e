---------------------------- MODULE MCMembership ----------------------------
(* Membership with two backends: one configured, one that registers or is found. *)
EXTENDS Membership

CONSTANTS b1, b2

MCBackends == {b1, b2}
MCAll      == {"boot", "kill", "term", "lost", "proxy", "timeout", "age", "delete", "stats",
               "scan"}
=============================================================================
