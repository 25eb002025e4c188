---------------------------- MODULE MCAdDistance ----------------------------
(* AdDistance.Get on two short chains. *)
EXTENDS AdDistance, TLC
=============================================================================
