--------------------------- MODULE MCDistTracker ---------------------------
(* The tracker over the chain of one provider, which its list may leave to   *)
(* the indexer to name.                                                      *)
EXTENDS DistTracker, TLC

CONSTANT p1
=============================================================================
