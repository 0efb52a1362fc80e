----------------------------- MODULE MCLoadTest -----------------------------
(* LoadTest with two users, one slot for each kind of request, and any fault. *)
EXTENDS LoadTest, TLC

MCSlots  == [post |-> 1, feed |-> 1]
MCFaults == {"refuse", "late", "idle", "tunnel", "error", "close", "crash", "restart", "timeout",
              "deadline"}
=============================================================================
