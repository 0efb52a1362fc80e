---------------------------- MODULE MCFeedCache ----------------------------
(* FeedCache with two readers and one backend. *)
EXTENDS FeedCache

CONSTANTS r1, r2, b1
=============================================================================
