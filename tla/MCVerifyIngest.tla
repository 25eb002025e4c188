--------------------------- MODULE MCVerifyIngest ---------------------------
(* Verifications of a short chain, and of a small CAR file. *)
EXTENDS VerifyIngest, TLC

CONSTANTS c1, c2

(* The third chunk of the first kind is beyond a limit of 2; the second chunk *)
(* of the next one is empty.                                                  *)
AdKinds == {[rm |-> FALSE, ctx |-> c1, ends |-> <<2, 3, 4>>],
            [rm |-> FALSE, ctx |-> c2, ends |-> <<1, 1, 2>>],
            [rm |-> FALSE, ctx |-> c2, ends |-> <<>>],
            [rm |-> TRUE,  ctx |-> c1, ends |-> <<>>]}
=============================================================================
