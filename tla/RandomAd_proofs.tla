--------------------------- MODULE RandomAd_proofs ---------------------------
(***************************************************************************)
(* Proofs about `random`, for every chain, --number, --multihashes and     *)
(* number of failures: what it prints comes from a suitable ad, and it     *)
(* gives up only if there is nothing to choose from.                       *)
(***************************************************************************)
EXTENDS RandomAd, SequenceTheorems, TLAPS

(* Filtering goes down the latest ads: those at and below a place are left.   *)
First == Len(chain) - DepthCut(Len(chain), AdCount) + 1
Done == Latest \ lines
Below(m) == lines = First..m /\ m <= Len(chain)

Types ==
  /\ chain \in Seq(Kinds) /\ Len(chain) >= 1
  /\ missed \subseteq Latest /\ ads \subseteq Latest
  /\ pc \in {"list", "filter", "choose", "done"}

(* What is known of the ads that have been filtered.  Whether one of them is  *)
(* suitable depends on the ads above it only, which have been filtered too.   *)
Filtering ==
  pc = "filter" =>
    /\ \E m \in Int : Below(m)
    /\ missed \subseteq Done
    /\ removed = {chain[j].ctx : j \in {i \in Done \ missed : chain[i].rm}}
    /\ ads = {k \in Done \ missed : Suitable(k)}

(* What has been tried and is no longer there has too few multihashes.        *)
Choosing ==
  pc = "choose" =>
    /\ ads \subseteq {k \in Fetched : Suitable(k)}
    /\ \A k \in Fetched \ ads : Suitable(k) => chain[k].mhs < MhsCount

Inv ==
  /\ Types /\ Filtering /\ Choosing
  /\ pc = "list" => ads = {} /\ removed = {} /\ missed = {}
  /\ pc # "done" => result = [ad |-> Undef, err |-> "none"]
  /\ ChosenIsSuitable /\ GivesUpRightly

-----------------------------------------------------------------------------
LEMMA Numbers ==
  ASSUME Types
  PROVE  /\ Len(chain) \in Nat \ {0} /\ DOMAIN chain = 1..Len(chain)
         /\ First \in 1..Len(chain) /\ Latest = First..Len(chain)
         /\ \A k \in Latest : chain[k].rm \in BOOLEAN /\ chain[k].mhs \in Nat
         /\ MhsCount \in Nat \ {0}
<1>1. chain \in Seq(Kinds) /\ Len(chain) \in Nat \ {0} /\ DOMAIN chain = 1..Len(chain)
  BY DEF Types
<1>2. AdCount \in Nat \ {0} /\ MhsCount \in Nat \ {0}
  BY BoundsAssumption
<1>3. DepthCut(Len(chain), AdCount) \in 1..Len(chain)
  BY <1>1, <1>2 DEF DepthCut
<1>4. First \in 1..Len(chain) /\ Latest = First..Len(chain)
  BY <1>1, <1>3 DEF First, Latest
<1>5. ASSUME NEW k \in Latest PROVE chain[k].rm \in BOOLEAN /\ chain[k].mhs \in Nat
  <2>1. chain[k] \in Kinds
    BY <1>1, <1>4, ElementOfSeq
  <2> QED
    BY <2>1, BoundsAssumption
<1> QED
  BY <1>1, <1>2, <1>4, <1>5

(* The next line is the newest of those that are left.                        *)
LEMMA NextLine ==
  ASSUME Types, NEW m \in Int, Below(m), lines # {}
  PROVE  /\ Newest = m /\ m \in Latest /\ lines \ {m} = First..(m - 1) /\ m - 1 <= Len(chain)
         /\ Done = (m + 1)..Len(chain)
         /\ Latest \ (lines \ {m}) = Done \cup {m}
<1>1. First \in 1..Len(chain) /\ Latest = First..Len(chain) /\ Len(chain) \in Nat
  BY Numbers
<1>2. lines = First..m /\ m <= Len(chain) /\ m >= First
  BY <1>1 DEF Below
<1>3. m \in lines /\ \A j \in lines : j <= m
  BY <1>1, <1>2
<1>4. \A k \in lines : (\A j \in lines : j <= k) => k = m
  BY <1>1, <1>2, <1>3
<1>5. Newest = m
  BY <1>3, <1>4 DEF Newest
<1> QED
  BY <1>1, <1>2, <1>5 DEF Done

(* Whether an ad is suitable does not depend on a missed ad that is not above *)
(* it, or that is no removal.                                                 *)
LEMMA SuitableSame ==
  ASSUME Types, NEW k \in Latest, NEW m \in Latest, m <= k \/ ~chain[m].rm,
         UNCHANGED chain, missed' = missed \cup {m}
  PROVE  Suitable(k)' <=> Suitable(k)
<1>1. Latest \subseteq Int
  BY Numbers
<1>2. Latest' = Latest /\ Fetched' = Fetched \ {m}
  BY DEF Latest, Fetched
<1>3. \A j \in Fetched : j > k /\ chain[j].rm => j # m
  BY <1>1 DEF Fetched
<1>4. Removed(k)' <=> Removed(k)
  BY <1>2, <1>3 DEF Removed
<1> QED
  BY <1>4 DEF Suitable

LEMMA InvInit == Init => Inv
<1> SUFFICES ASSUME Init PROVE Inv
  OBVIOUS
<1>1. PICK len \in 1..MaxAds : chain \in [1..len -> Kinds]
  BY DEF Init
<1>2. chain \in Seq(Kinds) /\ Len(chain) >= 1
  BY <1>1, BoundsAssumption
<1> QED
  BY <1>2 DEF Init, Inv, Types, Filtering, Choosing, ChosenIsSuitable, GivesUpRightly

-----------------------------------------------------------------------------
LEMMA ListInv ==
  ASSUME Inv, List
  PROVE  Inv'
<1>1. /\ pc' = "filter" /\ lines' = Latest /\ ads = {} /\ removed = {} /\ missed = {}
      /\ UNCHANGED <<chain, removed, ads, result, missed>>
      /\ result = [ad |-> Undef, err |-> "none"]
  BY DEF List, Inv
<1>2. Len(chain) \in Nat /\ Latest = First..Len(chain)
  BY Numbers DEF Inv
<1>3. Types'
  BY <1>1 DEF Inv, Types, Latest
<1>4. Below(Len(chain))'
  BY <1>1, <1>2 DEF Below, First
<1>5. Done' = {} /\ Len(chain)' \in Int
  BY <1>1, <1>2 DEF Done, Latest
<1>6. Filtering'
  BY <1>1, <1>4, <1>5 DEF Filtering
<1> QED
  BY <1>1, <1>3, <1>6 DEF Inv, Choosing, ChosenIsSuitable, GivesUpRightly

(* An error that says nothing of the ads.                                     *)
LEMMA FailInv ==
  ASSUME Inv, NEW err, err \notin {"no suitable advertisements", "no multihashes"},
         Fail(err), UNCHANGED <<chain, ads, missed>>
  PROVE  Inv'
<1>1. pc' = "done" /\ result'.ad = Undef /\ result'.err = err
  BY DEF Fail
<1>2. Types'
  BY <1>1 DEF Inv, Types, Latest
<1> QED
  BY <1>1, <1>2 DEF Inv, Filtering, Choosing, ChosenIsSuitable, GivesUpRightly

(* While ads are filtered there is no result.                                 *)
LEMMA NoResultInv ==
  ASSUME Inv, pc = "filter", UNCHANGED <<pc, result>>, Types', Filtering'
  PROVE  Inv'
<1>1. pc' = "filter" /\ result' = [ad |-> Undef, err |-> "none"]
  BY DEF Inv
<1>2. result'.ad = Undef /\ result'.err = "none"
  BY <1>1
<1>3. Choosing'
  BY <1>1 DEF Choosing
<1>4. ChosenIsSuitable' /\ GivesUpRightly'
  BY <1>2 DEF ChosenIsSuitable, GivesUpRightly
<1> QED
  BY <1>1, <1>3, <1>4 DEF Inv

LEMMA FilterInv ==
  ASSUME Inv, Filter
  PROVE  Inv'
<1>1. Types /\ pc = "filter" /\ lines # {}
  BY DEF Filter, Inv
<1>2. PICK m \in Int : Below(m)
  BY <1>1 DEF Inv, Filtering
<1>3. /\ Newest = m /\ m \in Latest /\ lines \ {m} = First..(m - 1) /\ m - 1 <= Len(chain)
      /\ Done = (m + 1)..Len(chain) /\ Latest \ (lines \ {m}) = Done \cup {m}
  BY <1>1, <1>2, NextLine
<1>4. /\ Len(chain) \in Nat /\ Latest = First..Len(chain) /\ First \in Nat
      /\ chain[m].rm \in BOOLEAN /\ chain[m].mhs \in Nat
  BY <1>1, <1>3, Numbers
<1>5. /\ lines' = lines \ {m}
      /\ removed' = IF chain[m].rm THEN removed \cup {chain[m].ctx} ELSE removed
      /\ ads' = IF chain[m].rm \/ chain[m].mhs = 0 \/ chain[m].ctx \in removed
               THEN ads ELSE ads \cup {m}
      /\ UNCHANGED <<chain, pc, result, missed>>
  BY <1>3 DEF Filter
<1>6. /\ missed \subseteq Done
      /\ removed = {chain[j].ctx : j \in {i \in Done \ missed : chain[i].rm}}
      /\ ads = {k \in Done \ missed : Suitable(k)}
  BY <1>1 DEF Inv, Filtering
<1>7. Done' = Done \cup {m} /\ m \notin Done /\ m \notin missed /\ Latest' = Latest
  <2>1. Done' = Done \cup {m}
    BY <1>3, <1>5 DEF Done, Latest
  <2>2. m \notin Done
    BY <1>2, <1>3
  <2> QED
    BY <1>5, <1>6, <2>1, <2>2 DEF Latest
<1>8. \A k : Suitable(k)' <=> Suitable(k)
  BY <1>5 DEF Suitable, Removed, Fetched, Latest
<1>9. Removed(m) <=> chain[m].ctx \in removed
  <2>1. \A j \in Fetched : j > m <=> j \in Done \ missed
    BY <1>3, <1>4, <1>6 DEF Fetched
  <2>2. \A j \in Done \ missed : j \in Fetched
    BY DEF Done, Fetched
  <2> QED
    BY <1>6, <2>1, <2>2 DEF Removed
<1>10. Suitable(m) <=> ~(chain[m].rm \/ chain[m].mhs = 0 \/ chain[m].ctx \in removed)
  BY <1>4, <1>9 DEF Suitable
<1>11. ads' = {k \in Done' \ missed' : Suitable(k)'}
  <2>1. ads' = {k \in (Done \cup {m}) \ missed : Suitable(k)}
    BY <1>5, <1>6, <1>7, <1>10
  <2> QED
    BY <1>5, <1>7, <1>8, <2>1
<1>12. removed' = {chain[j].ctx : j \in {i \in (Done \cup {m}) \ missed : chain[i].rm}}
  BY <1>5, <1>6, <1>7
<1>13. Below(m - 1)'
  BY <1>3, <1>5 DEF Below, First
<1>14. Filtering'
  <2>1. m - 1 \in Int /\ missed' \subseteq Done'
    BY <1>2, <1>5, <1>6, <1>7
  <2>2. removed' = {chain'[j].ctx : j \in {i \in Done' \ missed' : chain'[i].rm}}
    BY <1>5, <1>7, <1>12
  <2> QED
    BY <1>11, <1>13, <2>1, <2>2 DEF Filtering
<1>15. Types'
  BY <1>3, <1>5, <1>7 DEF Inv, Types
<1> QED
  BY <1>1, <1>5, <1>14, <1>15, NoResultInv

LEMMA FilterFailsInv ==
  ASSUME Inv, FilterFails
  PROVE  Inv'
<1>1. Types /\ pc = "filter" /\ lines # {}
  BY DEF FilterFails, Inv
<1>2. PICK m \in Int : Below(m)
  BY <1>1 DEF Inv, Filtering
<1>3. /\ Newest = m /\ m \in Latest /\ lines \ {m} = First..(m - 1) /\ m - 1 <= Len(chain)
      /\ Done = (m + 1)..Len(chain) /\ Latest \ (lines \ {m}) = Done \cup {m}
  BY <1>1, <1>2, NextLine
<1>4. Len(chain) \in Nat /\ Latest = First..Len(chain) /\ First \in Nat
  BY <1>1, Numbers
<1>5. /\ lines' = lines \ {m} /\ missed' = missed \cup {m}
      /\ UNCHANGED <<chain, pc, removed, ads, result>>
  BY <1>3 DEF FilterFails
<1>6. /\ missed \subseteq Done
      /\ removed = {chain[j].ctx : j \in {i \in Done \ missed : chain[i].rm}}
      /\ ads = {k \in Done \ missed : Suitable(k)}
  BY <1>1 DEF Inv, Filtering
<1>7. Done' = Done \cup {m} /\ m \notin Done /\ Latest' = Latest
  <2>1. Done' = Done \cup {m}
    BY <1>3, <1>5 DEF Done, Latest
  <2>2. m \notin Done
    BY <1>2, <1>3
  <2> QED
    BY <1>5, <2>1, <2>2 DEF Latest
<1>8. Done' \ missed' = Done \ missed
  BY <1>5, <1>7
<1>9. \A k \in Done : Suitable(k)' <=> Suitable(k)
  <2> SUFFICES ASSUME NEW k \in Done PROVE Suitable(k)' <=> Suitable(k)
    OBVIOUS
  <2>1. k \in Latest /\ m <= k
    BY <1>2, <1>3, <1>4 DEF Done
  <2> QED
    BY <1>1, <1>3, <1>5, <2>1, SuitableSame
<1>10. Below(m - 1)'
  BY <1>3, <1>5 DEF Below, First
<1>11. Filtering'
  <2>1. m - 1 \in Int /\ missed' \subseteq Done'
    BY <1>2, <1>5, <1>6, <1>7
  <2>2. removed' = {chain'[j].ctx : j \in {i \in Done' \ missed' : chain'[i].rm}}
    BY <1>5, <1>6, <1>8
  <2>3. ads' = {k \in Done' \ missed' : Suitable(k)'}
    BY <1>5, <1>6, <1>8, <1>9
  <2> QED
    BY <1>10, <2>1, <2>2, <2>3 DEF Filtering
<1>12. Types'
  BY <1>3, <1>5, <1>7 DEF Inv, Types
<1> QED
  BY <1>1, <1>5, <1>11, <1>12, NoResultInv

(* When all lines are filtered, the ads are those that are suitable.          *)
LEMMA FilteredInv ==
  ASSUME Inv, Filtered
  PROVE  Inv'
<1>1. pc = "filter" /\ lines = {} /\ UNCHANGED <<chain, lines, removed, ads, missed>>
  BY DEF Filtered
<1>2. ads = {k \in Fetched : Suitable(k)}
  BY <1>1 DEF Inv, Filtering, Done, Fetched
<1>3. Fetched' = Fetched /\ \A k : Suitable(k)' <=> Suitable(k)
  BY <1>1 DEF Suitable, Removed, Fetched, Latest
<1>4. Types'
  BY <1>1 DEF Filtered, Fail, Inv, Types, Latest
<1>5. CASE ads = {}
  <2>0. Fail("no suitable advertisements")
    BY <1>5 DEF Filtered
  <2>1. pc' = "done" /\ result'.ad = Undef /\ result'.err = "no suitable advertisements"
    BY <2>0 DEF Fail
  <2>2. \A k \in Fetched : ~Suitable(k)
    BY <1>2, <1>5
  <2> QED
    BY <1>3, <1>4, <2>1, <2>2 DEF Inv, Filtering, Choosing, ChosenIsSuitable, GivesUpRightly
<1>6. CASE ads # {}
  <2>1. pc' = "choose" /\ result' = result /\ result = [ad |-> Undef, err |-> "none"]
    BY <1>1, <1>6 DEF Filtered, Inv
  <2>2. Choosing'
    BY <1>1, <1>2, <1>3 DEF Choosing
  <2> QED
    BY <1>4, <2>1, <2>2 DEF Inv, Filtering, ChosenIsSuitable, GivesUpRightly
<1> QED
  BY <1>5, <1>6

LEMMA ChooseInv ==
  ASSUME Inv, NEW k, Choose(k)
  PROVE  Inv'
<1>1. pc = "choose" /\ k \in ads /\ UNCHANGED <<chain, missed>>
  BY DEF Choose
<1>2. Fetched' = Fetched /\ \A j : Suitable(j)' <=> Suitable(j)
  BY <1>1 DEF Suitable, Removed, Fetched, Latest
<1>3. /\ ads \subseteq {j \in Fetched : Suitable(j)}
      /\ \A j \in Fetched \ ads : Suitable(j) => chain[j].mhs < MhsCount
      /\ result = [ad |-> Undef, err |-> "none"]
  BY <1>1 DEF Inv, Choosing
<1>4. CASE chain[k].mhs < MhsCount
  <2>1. ads' = ads \ {k} /\ pc' = pc /\ result' = result
    BY <1>4 DEF Choose
  <2>2. Types'
    BY <1>1, <2>1 DEF Inv, Types, Latest
  <2>3. Choosing'
    BY <1>1, <1>2, <1>3, <1>4, <2>1 DEF Choosing
  <2> QED
    BY <1>1, <1>3, <2>1, <2>2, <2>3 DEF Inv, Filtering, ChosenIsSuitable, GivesUpRightly
<1>5. CASE ~(chain[k].mhs < MhsCount)
  <2>1. ads' = ads /\ pc' = "done" /\ result'.ad = k /\ result'.err = "none"
    BY <1>5 DEF Choose
  <2>2. Types'
    BY <1>1, <2>1 DEF Inv, Types, Latest
  <2>3. chain[k].mhs >= MhsCount
    <3>1. k \in Latest
      BY <1>1 DEF Inv, Types
    <3>2. chain[k].mhs \in Nat /\ MhsCount \in Nat
      BY <3>1, Numbers DEF Inv
    <3> QED
      BY <1>5, <3>2
  <2>4. ChosenIsSuitable'
    BY <1>1, <1>2, <1>3, <2>1, <2>3 DEF ChosenIsSuitable
  <2> QED
    BY <2>1, <2>2, <2>4 DEF Inv, Filtering, Choosing, GivesUpRightly
<1> QED
  BY <1>4, <1>5

LEMMA ChooseFailsInv ==
  ASSUME Inv, NEW k, ChooseFails(k)
  PROVE  Inv'
<1>1. /\ pc = "choose" /\ k \in ads /\ ads' = ads \ {k} /\ missed' = missed \cup {k}
      /\ UNCHANGED <<chain, pc, result>>
  BY DEF ChooseFails
<1>2. /\ ads \subseteq {j \in Fetched : Suitable(j)}
      /\ \A j \in Fetched \ ads : Suitable(j) => chain[j].mhs < MhsCount
      /\ result = [ad |-> Undef, err |-> "none"]
  BY <1>1 DEF Inv, Choosing
<1>3. k \in Latest /\ ~chain[k].rm
  BY <1>1, <1>2 DEF Inv, Types, Suitable
<1>4. Fetched' = Fetched \ {k} /\ Latest' = Latest /\ Fetched \subseteq Latest
  BY <1>1 DEF Fetched, Latest
<1>5. \A j \in Fetched : Suitable(j)' <=> Suitable(j)
  BY <1>1, <1>3, <1>4, SuitableSame DEF Inv
<1>6. Types'
  BY <1>1, <1>3, <1>4 DEF Inv, Types
<1>7. Choosing'
  BY <1>1, <1>2, <1>4, <1>5 DEF Choosing
<1> QED
  BY <1>1, <1>2, <1>6, <1>7 DEF Inv, Filtering, ChosenIsSuitable, GivesUpRightly

LEMMA NoneLeftInv ==
  ASSUME Inv, NoneLeft
  PROVE  Inv'
<1>1. /\ pc = "choose" /\ ads = {} /\ UNCHANGED <<chain, ads, missed>>
      /\ pc' = "done" /\ result'.ad = Undef /\ result'.err = "no multihashes"
  BY DEF NoneLeft, Fail
<1>2. Fetched' = Fetched /\ \A j : Suitable(j)' <=> Suitable(j)
  BY <1>1 DEF Suitable, Removed, Fetched, Latest
<1>3. \A j \in Fetched : ~(Suitable(j) /\ chain[j].mhs >= MhsCount)
  <2> SUFFICES ASSUME NEW j \in Fetched, Suitable(j) PROVE ~(chain[j].mhs >= MhsCount)
    OBVIOUS
  <2>1. chain[j].mhs < MhsCount
    BY <1>1 DEF Inv, Choosing
  <2>2. chain[j].mhs \in Nat /\ MhsCount \in Nat
    BY Numbers DEF Inv, Fetched
  <2> QED
    BY <2>1, <2>2
<1>4. Types'
  BY <1>1 DEF Inv, Types, Latest
<1> QED
  BY <1>1, <1>2, <1>3, <1>4 DEF Inv, Filtering, Choosing, ChosenIsSuitable, GivesUpRightly

LEMMA InvNext == Inv /\ [Next]_vars => Inv'
<1> SUFFICES ASSUME Inv, [Next]_vars PROVE Inv'
  OBVIOUS
<1>1. CASE ListFails \/ \E k \in DOMAIN chain : DrainFails(k)
  BY <1>1, FailInv DEF ListFails, DrainFails
<1>2. CASE UNCHANGED vars
  <2>1. UNCHANGED <<chain, pc, lines, removed, ads, missed, result>>
    BY <1>2 DEF vars
  <2>2. /\ Latest' = Latest /\ Fetched' = Fetched /\ Done' = Done /\ First' = First
        /\ \A k : Suitable(k)' <=> Suitable(k)
    BY <2>1 DEF Suitable, Removed, Fetched, Latest, Done, First
  <2>3. Types' /\ Choosing' /\ ChosenIsSuitable' /\ GivesUpRightly'
    BY <2>1, <2>2 DEF Inv, Types, Choosing, ChosenIsSuitable, GivesUpRightly
  <2>4. Filtering'
    BY <2>1, <2>2 DEF Inv, Filtering, Below
  <2> QED
    BY <2>1, <2>3, <2>4 DEF Inv
<1> QED
  BY <1>1, <1>2, ListInv, FilterInv, FilterFailsInv, FilteredInv, ChooseInv,
     ChooseFailsInv, NoneLeftInv DEF Next

LEMMA InvHolds == Spec => []Inv
  BY InvInit, InvNext, PTL DEF Spec

(* What `random` prints comes from one of the latest ads that is suitable, in *)
(* any order of additions and removals, and whatever could not be fetched.    *)
THEOREM ChosenAdIsSuitable == Spec => []ChosenIsSuitable
<1>1. Inv => ChosenIsSuitable
  BY DEF Inv
<1> QED
  BY <1>1, InvHolds, PTL

(* It gives up only if no ad that was fetched is suitable, or none of them    *)
(* has enough multihashes.                                                    *)
THEOREM GivesUpOnlyRightly == Spec => []GivesUpRightly
<1>1. Inv => GivesUpRightly
  BY DEF Inv
<1> QED
  BY <1>1, InvHolds, PTL
=============================================================================
