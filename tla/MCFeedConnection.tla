------------------------- MODULE MCFeedConnection -------------------------
(* Instances of FeedConnection for TLC.                                     *)
EXTENDS FeedConnection, TLC

CONSTANTS a, b
===========================================================================
