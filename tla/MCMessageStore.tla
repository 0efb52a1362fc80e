--------------------------- MODULE MCMessageStore ---------------------------
(* MessageStore with public messages, which are queued and batched, and one *)
(* of another room that is posted by itself.                                *)
EXTENDS MessageStore, TLC

CONSTANTS m1, m2, m3, b1, b2, lobby, den

MCPublic == Msgs \ {m3}
MCRooms  == (m1 :> lobby) @@ (m2 :> lobby) @@ (m3 :> den)
=============================================================================
