-------------------------- MODULE DistanceService --------------------------
(***************************************************************************)
(* What a caller of AdDistance.Get relies on: an answer is the distance,   *)
(* on a chain that only grows, from some head the publisher had while the  *)
(* call ran (or from the ad asked for) back to the oldest ad, or -1 when   *)
(* that is more than the limit; or the call fails.  The distance is exact  *)
(* unless a call that failed came right before: then it may be too long,   *)
(* but it is never too short.                                              *)
(***************************************************************************)
EXTENDS Integers, FiniteSets

CONSTANTS Publishers, MaxAds, DepthLimit

VARIABLES
  chain,     \* chain[p]: the number of ads publisher p has published
  pending,   \* the question that is being answered
  clean,     \* no failed call has left anything behind
  answer     \* the last answer

vars == <<chain, pending, clean, answer>>

Quiet == [busy |-> FALSE]
Refused == [ok |-> FALSE]

Init ==
  /\ chain = [p \in Publishers |-> 1]
  /\ pending = Quiet
  /\ clean = TRUE
  /\ answer = Refused

Grow(p) ==
  /\ chain[p] < MaxAds
  /\ chain' = [chain EXCEPT ![p] = @ + 1]
  /\ UNCHANGED <<pending, clean, answer>>

Ask(p, o, n) ==
  /\ ~pending.busy
  /\ pending' = [busy |-> TRUE, pub |-> p, oldest |-> o, asked |-> n,
                 since |-> chain[p]]
  /\ UNCHANGED <<chain, clean, answer>>

(* The distance between two ads: the ads that are newer than the oldest, or   *)
(* the whole chain if the oldest is not behind the newest.                    *)
Distance(newest, oldest) ==
  Cardinality({k \in 1..newest : oldest <= newest => k > oldest})

(* The distances a call may report where d is right.                          *)
Reports(d) ==
  LET within == IF d > DepthLimit THEN {} ELSE IF clean THEN {d} ELSE d..DepthLimit
  IN  within \cup IF clean /\ d <= DepthLimit THEN {} ELSE {-1}

Answer ==
  /\ pending.busy
  /\ \E newest \in IF pending.asked = 0
                   THEN pending.since .. chain[pending.pub]
                   ELSE {pending.asked} :
       \E dist \in Reports(Distance(newest, pending.oldest)) :
         answer' = [ok |-> TRUE, newest |-> newest, dist |-> dist]
  /\ pending' = Quiet
  /\ clean' = TRUE
  /\ UNCHANGED chain

Refuse ==
  /\ answer' = Refused
  /\ pending' = Quiet
  /\ clean' \in IF clean THEN BOOLEAN ELSE {FALSE}
  /\ UNCHANGED chain

Next ==
  \/ \E p \in Publishers : Grow(p)
  \/ \E p \in Publishers, o \in 1..MaxAds, n \in 0..MaxAds : Ask(p, o, n)
  \/ Answer
  \/ Refuse

Spec == Init /\ [][Next]_vars
=============================================================================
