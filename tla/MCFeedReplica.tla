---------------------------- MODULE MCFeedReplica ----------------------------
(* FeedReplica on a room of a few messages; what may fail differs by run. *)
EXTENDS FeedReplica

MCFrames == {"frame", "poll"}
MCDrops  == {"drop"}
MCAll    == {"drop", "frame", "poll", "load"}
=============================================================================
