----------------------------- MODULE MCAdFetch -----------------------------
(* Calls on the chain of one publisher, by clients that delete what they     *)
(* read, as `ads list` does, or retry, or neither.                           *)
EXTENDS AdFetch, TLC

Clients == {[retry |-> 0, del |-> FALSE],
            [retry |-> 0, del |-> TRUE],
            [retry |-> 2, del |-> FALSE]}

(* None, some, and more than a segment and than the chain has. *)
SomeNumbers == {0, 2, 5}
=============================================================================
