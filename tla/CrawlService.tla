---------------------------- MODULE CrawlService ----------------------------
(***************************************************************************)
(* What a user of `ads crawl` is promised: the ads of a chain, newest      *)
(* first, each once and without a gap, no more than --number and none      *)
(* after --stop-mhs multihashes were counted; then one result, which is    *)
(* success only if nothing that was asked for is missing, and an error     *)
(* only if something has failed.                                           *)
(***************************************************************************)
EXTENDS Integers, Sequences

VARIABLES
  length,       \* ads on the chain
  number,       \* --number, 0 for all
  stopMhs,      \* --stop-mhs, 0 for no limit
  delivered,    \* the ads the user has been shown
  total,        \* the multihashes the user has been shown
  interrupted,  \* the user has interrupted the command
  faulty,       \* something has failed
  result        \* "none" until the command ends, then "ok" or "failed"

asked == <<length, number, stopMhs>>
vars == <<asked, delivered, total, interrupted, faulty, result>>

Init ==
  /\ length \in Nat /\ number \in Nat /\ stopMhs \in Nat
  /\ delivered = <<>> /\ total = 0
  /\ interrupted = FALSE /\ faulty = FALSE
  /\ result = "none"

Wanted == IF number # 0 /\ number < length THEN number ELSE length
Stopped == stopMhs # 0 /\ total >= stopMhs
Open == result = "none"

Deliver ==
  /\ Open /\ ~Stopped
  /\ Len(delivered) < Wanted
  /\ delivered' = Append(delivered, length - Len(delivered))
  /\ UNCHANGED <<asked, total, interrupted, faulty, result>>

(* The entries of the last ad, perhaps not all of them.                       *)
Count ==
  /\ Open /\ ~Stopped
  /\ total' \in Nat /\ total' >= total
  /\ faulty' \in {faulty, TRUE}
  /\ UNCHANGED <<asked, delivered, interrupted, result>>

Succeed ==
  /\ Open
  /\ Len(delivered) = Wanted \/ Stopped \/ interrupted
  /\ result' = "ok"
  /\ UNCHANGED <<asked, delivered, total, interrupted, faulty>>

Fail ==
  /\ Open
  /\ faulty' = TRUE
  /\ result' = "failed"
  /\ UNCHANGED <<asked, delivered, total, interrupted>>

Interrupt ==
  /\ interrupted' = TRUE
  /\ UNCHANGED <<asked, delivered, total, faulty, result>>

Fault ==
  /\ faulty' = TRUE
  /\ UNCHANGED <<asked, delivered, total, interrupted, result>>

Next == Deliver \/ Count \/ Succeed \/ Fail \/ Interrupt \/ Fault

Spec == Init /\ [][Next]_vars
=============================================================================
