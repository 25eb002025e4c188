---------------------------- MODULE MCEntriesSync ----------------------------
(* Syncs and drains of a short entries chain, by clients that limit the      *)
(* depth, retry or delete what they read, or not.                            *)
EXTENDS EntriesSync, TLC

Sizes == {Bad, 0, 2}

Clients == {[depth |-> 2, retry |-> 2, del |-> FALSE],
            [depth |-> 0, retry |-> 1, del |-> TRUE],
            [depth |-> 1, retry |-> 0, del |-> FALSE]}
=============================================================================
