------------------------------ MODULE MCConfig ------------------------------
(* Config with a backend that registers and that the edit takes out of the   *)
(* file.                                                                     *)
EXTENDS Config, TLC

MCInFile == (0 :> {"b1", "b2"}) @@ (1 :> {"b1"})
=============================================================================
