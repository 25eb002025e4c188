----------------------------- MODULE AdDistance -----------------------------
(***************************************************************************)
(* AdDistance.Get of pkg/dtrack/ad_distance.go, one block at a time.  One  *)
(* AdDistance serves one caller, which asks about the chains of several    *)
(* publishers in turn; the publishers go on publishing while a call runs,  *)
(* and any call may fail after some of its blocks have been read.          *)
(***************************************************************************)
EXTENDS AdChain, FiniteSets

CONSTANTS
  Publishers,   \* advertisement publishers a caller asks about
  MaxAds,       \* bound: ads on one chain
  DepthLimit,   \* AdDistance.depthLimit
  MaxPartial,   \* bound: blocks a sync that fails may have read (0: none)
  MaxFails      \* bound: syncs that fail

ASSUME DepthLimitAssumption == DepthLimit \in Nat
ASSUME BoundsAssumption ==
  /\ MaxAds \in Nat \ {0}
  /\ MaxPartial \in Nat
  /\ MaxFails \in Nat

VARIABLES
  chain,    \* chain[p]: the number of ads p has published, its head
  store,    \* the countStore: ads counted, last block written
  call,     \* the Get that is running
  result,   \* what the last Get returned
  fails     \* syncs that have failed

vars == <<chain, store, call, result, fails>>

Ads == 0..MaxAds

Idle == [pc |-> "idle"]
NoResult == [ok |-> FALSE]

Init ==
  /\ chain = [p \in Publishers |-> 1]
  /\ store = EmptyStore
  /\ call = Idle
  /\ result = NoResult
  /\ fails = 0

(* The environment: p appends one ad to its chain. *)
Publish(p) ==
  /\ chain[p] < MaxAds
  /\ chain' = [chain EXCEPT ![p] = @ + 1]
  /\ UNCHANGED <<store, call, result, fails>>

(* Get is called: o is oldestCid, n is newestCid (Undef asks for the head). *)
(* asked and started are a history of the call, for the properties: what it *)
(* asked for, and the head and the store when it began.                     *)
Call(p, o, n) ==
  /\ call = Idle
  /\ o # Undef
  /\ call' = [pc |-> "head", pub |-> p, oldest |-> o, newest |-> n,
              next |-> n, read |-> 0, asked |-> n,
              started |-> [head |-> chain[p], store |-> store]]
  /\ UNCHANGED <<chain, store, result, fails>>

(* Get refuses an undefined oldest CID before it syncs anything. *)
CallWithoutOldest(p, n) ==
  /\ call = Idle
  /\ result' = NoResult
  /\ UNCHANGED <<chain, store, call, fails>>

(* SyncAdChain asks the publisher for its head unless it was given one. *)
ResolveHead ==
  /\ call.pc = "head"
  /\ LET newest == IF call.newest = Undef THEN chain[call.pub] ELSE call.newest
     IN  call' = [call EXCEPT !.pc = "walk", !.newest = newest, !.next = newest]
  /\ UNCHANGED <<chain, store, result, fails>>

(* The walk goes on until the stop ad, the end of the chain or the depth. *)
MoreToRead_throughOldest ==
  /\ call.next # Undef
  /\ WalkDepth(DepthLimit) # 0 => call.read < WalkDepth(DepthLimit)
MoreToRead ==
  /\ call.next # Undef
  /\ call.next # call.oldest
  /\ WalkDepth(DepthLimit) # 0 => call.read < WalkDepth(DepthLimit)

ReadAd ==
  /\ call.pc = "walk"
  /\ MoreToRead
  /\ store' = LoadBlock(store, <<call.pub, call.next>>)
  /\ call' = [call EXCEPT !.next = @ - 1, !.read = @ + 1]
  /\ UNCHANGED <<chain, result, fails>>

(* SyncAdChain fails: Get returns the error and leaves the store as it is. *)
FailSync ==
  /\ \/ call.pc = "head"
     \/ call.pc = "walk" /\ MoreToRead
  /\ call.read <= MaxPartial
  /\ fails < MaxFails
  /\ fails' = fails + 1
  /\ call' = Idle
  /\ result' = NoResult
  /\ UNCHANGED <<chain, store>>

(* SyncAdChain is done: distance() takes the count and clears the store. *)
Return_keepsCount ==
  /\ call.pc = "walk"
  /\ ~MoreToRead
  /\ result' = [ok |-> TRUE, pub |-> call.pub, oldest |-> call.oldest,
                asked |-> call.asked, newest |-> call.newest,
                started |-> call.started,
                dist |-> ReportedDist(store.count, DepthLimit)]
  /\ store' = [store EXCEPT !.lastKey = NoKey]
  /\ call' = Idle
  /\ UNCHANGED <<chain, fails>>
Return ==
  /\ call.pc = "walk"
  /\ ~MoreToRead
  /\ result' = [ok |-> TRUE, pub |-> call.pub, oldest |-> call.oldest,
                asked |-> call.asked, newest |-> call.newest,
                started |-> call.started,
                dist |-> ReportedDist(store.count, DepthLimit)]
  /\ store' = EmptyStore
  /\ call' = Idle
  /\ UNCHANGED <<chain, fails>>

Next ==
  \/ \E p \in Publishers : Publish(p)
  \/ \E p \in Publishers, o, n \in Ads :
       o <= chain[p] /\ n <= chain[p] /\ Call(p, o, n)
  \/ \E p \in Publishers, n \in Ads : CallWithoutOldest(p, n)
  \/ ResolveHead
  \/ ReadAd
  \/ FailSync
  \/ Return

Spec == Init /\ [][Next]_vars

-----------------------------------------------------------------------------
(* Types: the store counts what has been read, and a running call walks      *)
(* ads of the chain it was called for.                                       *)
TypeOK ==
  /\ chain \in [Publishers -> 1..MaxAds]
  /\ store.count \in Nat
  /\ store.lastKey = NoKey \/ store.lastKey \in Publishers \X (1..MaxAds)
  /\ \/ call = Idle
     \/ /\ call.pc \in {"head", "walk"}
        /\ call.oldest \in Ads \ {Undef}
        /\ call.next \in 0..chain[call.pub]
        /\ call.read \in Ads
  /\ result.ok => result.dist \in -1..DepthLimit
  /\ fails \in 0..MaxFails

(* The ads a caller means by "from the newest to the oldest": those newer    *)
(* than oldest, or the whole chain if oldest is not behind newest.           *)
AdsBetween(newest, oldest) ==
  {k \in 1..newest : oldest \in 1..newest => k > oldest}

Distance(newest, oldest) == Cardinality(AdsBetween(newest, oldest))

(* The comment on Get: it returns the number of ads from the newest to the   *)
(* oldest (-1 beyond the limit), whatever earlier calls did.                 *)
GetCountsChain ==
  result.ok =>
    LET d == Distance(result.newest, result.oldest)
    IN  result.dist = IF d > DepthLimit THEN -1 ELSE d

(* A walk, block by block, leaves the store that AfterWalk computes for it    *)
(* at once: what lets DistTracker take each Get as a single step.            *)
WalkAgrees ==
  call.pc = "walk" /\ ~MoreToRead =>
    store = AfterWalk(call.started.store, call.pub, call.newest,
                      DepthCut(WalkLen(call.newest, call.oldest),
                               WalkDepth(DepthLimit)))

(* The abstract service; a call sees what the calls before it left behind.   *)
Service == INSTANCE DistanceService WITH
  pending <- IF call = Idle THEN [busy |-> FALSE]
             ELSE [busy |-> TRUE, pub |-> call.pub, oldest |-> call.oldest,
                   asked |-> call.asked, since |-> call.started.head],
  clean <- (IF call = Idle THEN store ELSE call.started.store).count = 0,
  answer <- IF result.ok
            THEN [ok |-> TRUE, newest |-> result.newest, dist |-> result.dist]
            ELSE [ok |-> FALSE]

(* Get, which reads block by block while the chain grows, implements the      *)
(* service: one atomic and exact look at the chain, which reads too far after *)
(* a failed one and never too short, and leaves nothing behind itself.        *)
ImplementsService == Service!Spec
=============================================================================
