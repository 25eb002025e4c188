------------------------------ MODULE RandomAd ------------------------------
(***************************************************************************)
(* `random`: RandomMultihashes (pkg/random/random.go) lists the newest ads *)
(* of a provider, filters them from newest to oldest down to the suitable  *)
(* ones, and tries these in a random order until one has enough            *)
(* multihashes in its first chunk of entries.  The counts it prints are    *)
(* left out.                                                               *)
(***************************************************************************)
EXTENDS AdChain, FiniteSets

CONSTANTS
  Kinds,      \* what an ad may be: [rm, ctx, mhs], mhs of the first chunk,
              \* 0 for no entries
  MaxAds,     \* bound: ads on the chain
  AdCount,    \* --number
  MhsCount,   \* --multihashes
  MaxFaults   \* bound: syncs that fail

ASSUME BoundsAssumption ==
  /\ AdCount \in Nat \ {0} /\ MhsCount \in Nat \ {0}    \* randomAction refuses less
  /\ {MaxAds, MaxFaults} \subseteq Nat
  /\ \A k \in Kinds : k.rm \in BOOLEAN /\ k.mhs \in Nat

VARIABLES
  chain,     \* chain[k]: what the k-th ad is; the last one is the head
  faults,    \* syncs that have failed
  pc,        \* "list", "filter", "choose" or "done"
  lines,     \* the ads listed and not yet filtered
  removed,   \* context IDs of the removal ads met
  ads,       \* the suitable ads that have not been tried
  missed,    \* history: the ads that could not be fetched, or their entries
  result     \* [ad, err]: the ad whose multihashes are printed, or an error

vars == <<chain, faults, pc, lines, removed, ads, missed, result>>

Init ==
  /\ chain \in UNION {[1..len -> Kinds] : len \in 1..MaxAds}
  /\ faults = 0
  /\ pc = "list"
  /\ lines = {} /\ removed = {} /\ ads = {}
  /\ missed = {}
  /\ result = [ad |-> Undef, err |-> "none"]

Fault == faults < MaxFaults /\ faults' = faults + 1

Fail(err) == pc' = "done" /\ result' = [ad |-> Undef, err |-> err]

Latest == Len(chain) - DepthCut(Len(chain), AdCount) + 1 .. Len(chain)

(* client.List. *)
List ==
  /\ pc = "list"
  /\ pc' = "filter"
  /\ lines' = Latest
  /\ UNCHANGED <<chain, faults, removed, ads, result, missed>>

ListFails ==
  /\ pc = "list"
  /\ Fault
  /\ Fail("sync failed")
  /\ UNCHANGED <<chain, lines, removed, ads, missed>>

(* The lines are read in the order they were written in, newest first. *)
Newest_oldest == CHOOSE k \in lines : \A j \in lines : k <= j
Newest == CHOOSE k \in lines : \A j \in lines : j <= k

Filter ==
  /\ pc = "filter" /\ lines # {}
  /\ LET k  == Newest
         ad == chain[k]
     IN  /\ lines' = lines \ {k}
         /\ removed' = IF ad.rm THEN removed \cup {ad.ctx} ELSE removed
         /\ ads' = IF ad.rm \/ ad.mhs = 0 \/ ad.ctx \in removed THEN ads ELSE ads \cup {k}
  /\ UNCHANGED <<chain, faults, pc, result, missed>>

(* GetAdvertisement fails: the ad is left out, whatever it was. *)
FilterFails ==
  /\ pc = "filter" /\ lines # {}
  /\ Fault
  /\ lines' = lines \ {Newest}
  /\ missed' = missed \cup {Newest}
  /\ UNCHANGED <<chain, pc, removed, ads, result>>

Filtered ==
  /\ pc = "filter" /\ lines = {}
  /\ IF ads = {}
     THEN Fail("no suitable advertisements")
     ELSE pc' = "choose" /\ UNCHANGED result
  /\ UNCHANGED <<chain, faults, lines, removed, ads, missed>>

(* The shuffled ads, one after the other. *)
Choose_exactly(k) ==
  /\ pc = "choose" /\ k \in ads
  /\ IF chain[k].mhs <= MhsCount
     THEN ads' = ads \ {k} /\ UNCHANGED <<pc, result>>
     ELSE pc' = "done" /\ result' = [ad |-> k, err |-> "none"] /\ UNCHANGED ads
  /\ UNCHANGED <<chain, faults, lines, removed, missed>>
Choose(k) ==
  /\ pc = "choose" /\ k \in ads
  /\ IF chain[k].mhs < MhsCount
     THEN ads' = ads \ {k} /\ UNCHANGED <<pc, result>>
     ELSE pc' = "done" /\ result' = [ad |-> k, err |-> "none"] /\ UNCHANGED ads
  /\ UNCHANGED <<chain, faults, lines, removed, missed>>

(* The entries cannot be synced. *)
ChooseFails(k) ==
  /\ pc = "choose" /\ k \in ads
  /\ Fault
  /\ ads' = ads \ {k}
  /\ missed' = missed \cup {k}
  /\ UNCHANGED <<chain, pc, lines, removed, result>>

(* The entries cannot be read back: that ends the command. *)
DrainFails(k) ==
  /\ pc = "choose" /\ k \in ads
  /\ Fault
  /\ Fail("drain failed")
  /\ UNCHANGED <<chain, lines, removed, ads, missed>>

NoneLeft ==
  /\ pc = "choose" /\ ads = {}
  /\ Fail("no multihashes")
  /\ UNCHANGED <<chain, faults, lines, removed, ads, missed>>

Next ==
  \/ List \/ ListFails
  \/ Filter \/ FilterFails \/ Filtered
  \/ \E k \in DOMAIN chain : Choose(k) \/ ChooseFails(k) \/ DrainFails(k)
  \/ NoneLeft
  \/ pc = "done" /\ UNCHANGED vars

Spec == Init /\ [][Next]_vars

-----------------------------------------------------------------------------
(* "suitable means the advertisement is not a removal and has content that    *)
(* has not been removed by a removal advertisement later in the ad chain", as *)
(* far as the latest ads could be fetched.                                    *)
Fetched == Latest \ missed
Removed(k) == \E j \in Fetched : j > k /\ chain[j].rm /\ chain[j].ctx = chain[k].ctx
Suitable(k) == ~chain[k].rm /\ chain[k].mhs > 0 /\ ~Removed(k)

(* What is printed comes from one of the latest ads that is suitable, in any  *)
(* order of additions and removals of one context ID, whatever else fails.    *)
ChosenIsSuitable ==
  result.ad # Undef =>
    /\ result.ad \in Fetched /\ Suitable(result.ad)
    /\ chain[result.ad].mhs >= MhsCount

(* It gives up only if there is nothing to choose from: "no suitable          *)
(* advertisements" and "no multihashes" are true of all that was fetched.     *)
GivesUpRightly ==
  /\ result.err = "no suitable advertisements" => \A k \in Fetched : ~Suitable(k)
  /\ result.err = "no multihashes" =>
       \A k \in Fetched : ~(Suitable(k) /\ chain[k].mhs >= MhsCount)
=============================================================================
