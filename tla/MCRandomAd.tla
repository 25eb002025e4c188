----------------------------- MODULE MCRandomAd -----------------------------
(* Additions and removals of two context IDs, with few or many multihashes.  *)
(* A removal ad may have entries too.                                        *)
EXTENDS RandomAd, TLC

CONSTANTS c1, c2

AdKinds == [rm : {FALSE}, ctx : {c1, c2}, mhs : 0..2]
             \cup [rm : {TRUE}, ctx : {c1, c2}, mhs : {0, 2}]
=============================================================================
