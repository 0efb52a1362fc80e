----------------------------- MODULE MCSelector -----------------------------
(* Selector with three backends, two of which stay. *)
EXTENDS Selector, TLC

MCOrder  == <<"b1", "b2", "b3">>
MCWeight == ("b1" :> 1) @@ ("b2" :> 2) @@ ("b3" :> 1)
MCAlgorithms == Measures \union {"least_connections", "ip_hash", "weighted_round_robin", "round_robin"}
=============================================================================
