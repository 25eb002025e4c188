------------------------------ MODULE MCCrawl ------------------------------
(* A crawl of a short chain whose ads add and remove the entries of two     *)
(* context IDs, with entries or without.                                    *)
EXTENDS Crawl, TLC

CONSTANTS c1, c2

AdKinds == {[rm |-> FALSE, ctx |-> c1, mhs |-> 2],
            [rm |-> TRUE,  ctx |-> c1, mhs |-> 0],
            [rm |-> FALSE, ctx |-> c2, mhs |-> 1]}

(* All of the chain, over several batches, unless stopped; or a number that  *)
(* is no multiple of the batch size.                                         *)
SomeCrawls == {[n |-> 0, stopMhs |-> 4, skip |-> FALSE],
               [n |-> 3, stopMhs |-> 0, skip |-> TRUE]}

(* More than a segment, of a plain chain. *)
LongCrawl == {[n |-> 4, stopMhs |-> 0, skip |-> FALSE]}

PlainAds == {[rm |-> FALSE, ctx |-> c1, mhs |-> 1]}
=============================================================================
