----------------------------- MODULE MCAdEntries -----------------------------
(* Two or three ads whose entries may share chunks, shown by `ads get` with  *)
(* a depth limit or counted by `ads crawl`.                                  *)
EXTENDS AdEntries, TLC

Sizes == {Bad, 0, 1}

GetAndCrawl == {[depth |-> 1, retry |-> 0, del |-> FALSE],
                [depth |-> 2, retry |-> 0, del |-> FALSE],
                [depth |-> 0, retry |-> 0, del |-> TRUE]}
=============================================================================
