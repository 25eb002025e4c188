----------------------------- MODULE MCProvider -----------------------------
(* Two providers, selected by every combination of the flags that select,    *)
(* and shown briefly or with their distance.                                 *)
EXTENDS Provider, TLC

CONSTANTS p1, p2

Listed(last, pub, err) == [last |-> last, pub |-> pub, err |-> err]
Listings ==
  {Listed(1, "other", FALSE), Listed(1, "other", TRUE), Listed(1, "provider", FALSE),
   Listed(1, "none", TRUE), Listed(Undef, "other", FALSE)}

Line(count, all, ids, invert, error, diffPub) ==
  [count |-> count, all |-> all, ids |-> ids, invert |-> invert, error |-> error,
   diffPub |-> diffPub, brief |-> TRUE, protocol |-> FALSE, distance |-> FALSE]

Selections ==
  {Line(TRUE, FALSE, {}, i, e, d) : i, e, d \in BOOLEAN}
  \cup {Line(FALSE, TRUE, {p1}, i, e, d) : i, e, d \in BOOLEAN}
  \cup {Line(FALSE, FALSE, ids, i, e, d) :
          ids \in {{p1}, {p1, p2}}, i, e, d \in BOOLEAN}

Distances ==
  {[Line(FALSE, all, {p1, p2}, FALSE, FALSE, FALSE) EXCEPT
      !.brief = FALSE, !.protocol = p, !.distance = TRUE] : all, p \in BOOLEAN}

Lines == Selections \cup Distances
=============================================================================
