--------------------------- MODULE MCFeedBook ---------------------------
(* Instances of FeedBook for TLC.                                        *)
EXTENDS FeedBook
=========================================================================
