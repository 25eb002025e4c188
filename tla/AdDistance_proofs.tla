------------------------- MODULE AdDistance_proofs -------------------------
(***************************************************************************)
(* Proofs about AdDistance.Get, for every set of publishers, length of     *)
(* chain, depth limit and number of failures.                              *)
(***************************************************************************)
EXTENDS AdDistance, FiniteSetTheorems, TLAPS

(* A store that has counted nothing holds no block either. *)
Keys == {NoKey} \cup (Publishers \X (1..MaxAds))
Stores == {s \in [count : Nat, lastKey : Keys] : s.count = 0 => s.lastKey = NoKey}

Calls == [pc : {"head", "walk"}, pub : Publishers, oldest : Ads \ {Undef},
          newest : Ads, next : Ads, read : Ads, asked : Ads,
          started : [head : Ads, store : Stores]]

(* The inductive invariant of a running call: the store is what AfterWalk says *)
(* of the blocks read so far, which reach from the newest ad, one that was the *)
(* head since the call began or the one asked for, back to next; and the walk  *)
(* has passed neither the oldest ad nor the depth.                             *)
Running ==
  /\ call \in Calls
  /\ call.started.head <= chain[call.pub] /\ call.newest <= chain[call.pub]
  /\ call.next = call.newest - call.read
  /\ call.pc = "head" => call.newest = call.asked /\ call.read = 0
  /\ call.pc = "walk" => IF call.asked = Undef THEN call.started.head <= call.newest
                         ELSE call.newest = call.asked
  /\ call.oldest \in 1..call.newest => call.next >= call.oldest
  /\ WalkDepth(DepthLimit) # 0 => call.read <= WalkDepth(DepthLimit)
  /\ store = AfterWalk(call.started.store, call.pub, call.newest, call.read)

IInv ==
  /\ chain \in [Publishers -> 1..MaxAds]
  /\ store \in Stores
  /\ fails \in 0..MaxFails
  /\ call = Idle \/ Running
  /\ result.ok => result.dist \in -1..DepthLimit

-----------------------------------------------------------------------------
LEMMA DepthType ==
  /\ DepthLimit \in Nat /\ WalkDepth(DepthLimit) \in Nat
  /\ WalkDepth(DepthLimit) = IF DepthLimit # 0 THEN DepthLimit + 1 ELSE 0
  BY DepthLimitAssumption DEF WalkDepth

LEMMA EmptyStoreType == EmptyStore \in Stores /\ EmptyStore.count = 0
  BY DEF EmptyStore, Stores, Keys

(* Reading one block keeps a store a store, and counts it unless the store     *)
(* already held it.                                                            *)
LEMMA LoadBlockType ==
  ASSUME NEW s \in Stores, NEW p \in Publishers, NEW k \in 1..MaxAds
  PROVE  LET t == LoadBlock(s, <<p, k>>)
         IN  /\ t \in Stores /\ t.lastKey = <<p, k>>
             /\ t.count = IF s.lastKey = <<p, k>> THEN s.count ELSE s.count + 1
             /\ t.count >= 1
<1>1. <<p, k>> \in Keys /\ <<p, k>> # NoKey
  BY DEF Keys, NoKey
<1>2. s.count \in Nat /\ (s.count = 0 => s.lastKey = NoKey)
  BY DEF Stores
<1>3. CASE s.lastKey = <<p, k>>
  BY <1>1, <1>2, <1>3 DEF LoadBlock
<1>4. CASE s.lastKey # <<p, k>>
  BY <1>1, <1>2, <1>4 DEF LoadBlock, Stores
<1> QED
  BY <1>3, <1>4

(* The store after a walk over n ads: it has counted them all, if it began     *)
(* empty, and no fewer, if it did not.                                         *)
LEMMA AfterWalkCount ==
  ASSUME NEW s \in Stores, NEW p \in Publishers, NEW newest \in Ads,
         NEW n \in 0..newest
  PROVE  LET t == AfterWalk(s, p, newest, n)
         IN  /\ t.count \in Nat
             /\ s.count = 0 => t.count = n
             /\ t.count >= n
             /\ t.count >= s.count
             /\ n > 0 => t.lastKey = <<p, newest - n + 1>>
<1>1. s.count \in Nat /\ (s.count = 0 => s.lastKey = NoKey)
  BY DEF Stores
<1>2. CASE n = 0
  BY <1>1, <1>2 DEF AfterWalk
<1>3. CASE n # 0
  <2>1. newest \in 1..MaxAds /\ n \in Nat \ {0}
    BY <1>3, BoundsAssumption DEF Ads
  <2> DEFINE l == LoadBlock(s, <<p, newest>>)
  <2>2. /\ l.count = IF s.lastKey = <<p, newest>> THEN s.count ELSE s.count + 1
        /\ l.count >= 1
    BY <2>1, LoadBlockType
  <2>3. NoKey # <<p, newest>>
    BY DEF NoKey
  <2>4. /\ AfterWalk(s, p, newest, n).count = l.count + n - 1
        /\ AfterWalk(s, p, newest, n).lastKey = <<p, newest - n + 1>>
    BY <1>3 DEF AfterWalk
  <2> QED
    BY <1>1, <2>1, <2>2, <2>3, <2>4
<1> QED
  BY <1>2, <1>3

(* One more block: AfterWalk is what reading block by block does. *)
LEMMA AfterWalkStep ==
  ASSUME NEW s \in Stores, NEW p \in Publishers, NEW newest \in Ads,
         NEW n \in 0..newest, n < newest
  PROVE  LoadBlock(AfterWalk(s, p, newest, n), <<p, newest - n>>)
           = AfterWalk(s, p, newest, n + 1)
<1> DEFINE t == AfterWalk(s, p, newest, n)
           l == LoadBlock(s, <<p, newest>>)
<1>1. newest \in Nat /\ n \in Nat /\ newest \in 1..MaxAds
  BY BoundsAssumption DEF Ads
<1>2. l \in Stores /\ l.lastKey = <<p, newest>> /\ l.count \in Nat
  BY <1>1, LoadBlockType DEF Stores
<1>3. CASE n = 0
  <2>1. AfterWalk(s, p, newest, n + 1) = [count |-> l.count, lastKey |-> <<p, newest>>]
    BY <1>1, <1>2, <1>3 DEF AfterWalk
  <2>2. l = [count |-> l.count, lastKey |-> l.lastKey]
    BY <1>2 DEF Stores
  <2> QED
    BY <1>1, <1>2, <1>3, <2>1, <2>2 DEF AfterWalk
<1>4. CASE n # 0
  <2>1. t = [count |-> l.count + n - 1, lastKey |-> <<p, newest - n + 1>>]
    BY <1>4 DEF AfterWalk
  <2>2. <<p, newest - n + 1>> # <<p, newest - n>>
    BY <1>1
  <2>3. LoadBlock(t, <<p, newest - n>>)
          = [count |-> l.count + n - 1 + 1, lastKey |-> <<p, newest - n>>]
    BY <2>1, <2>2 DEF LoadBlock
  <2>4. AfterWalk(s, p, newest, n + 1)
          = [count |-> l.count + (n + 1) - 1, lastKey |-> <<p, newest - (n + 1) + 1>>]
    BY <1>1 DEF AfterWalk
  <2>5. l.count + n - 1 + 1 = l.count + (n + 1) - 1 /\ newest - n = newest - (n + 1) + 1
    BY <1>1, <1>2
  <2> QED
    BY <2>3, <2>4, <2>5
<1> QED
  BY <1>3, <1>4

(* A running call is not idle. *)
LEMMA NotIdle ==
  /\ Idle.pc = "idle"
  /\ \A c \in Calls : c # Idle
  BY DEF Idle, Calls

-----------------------------------------------------------------------------
LEMMA IInvInit == Init => IInv
  BY BoundsAssumption, EmptyStoreType DEF Init, IInv, NoResult, Idle

LEMMA CallRuns ==
  ASSUME IInv, NEW p \in Publishers, NEW o \in Ads, NEW n \in Ads,
         o <= chain[p], n <= chain[p], Call(p, o, n)
  PROVE  IInv'
<1>1. /\ call' = [pc |-> "head", pub |-> p, oldest |-> o, newest |-> n,
                  next |-> n, read |-> 0, asked |-> n,
                  started |-> [head |-> chain[p], store |-> store]]
      /\ UNCHANGED <<chain, store, result, fails>> /\ o # Undef
  BY DEF Call
<1>2. chain[p] \in 1..MaxAds /\ store \in Stores
  BY DEF IInv
<1>3. call' \in Calls
  BY <1>1, <1>2, BoundsAssumption DEF Calls, Ads, Undef
<1>4. store = AfterWalk(store, p, n, 0)
  BY DEF AfterWalk
<1>5. WalkDepth(DepthLimit) >= 0
  BY DepthType
<1>6. Running'
  BY <1>1, <1>2, <1>3, <1>4, <1>5, BoundsAssumption DEF Running, Ads
<1> QED
  BY <1>1, <1>6 DEF IInv

LEMMA ResolveHeadRuns == ASSUME IInv, ResolveHead PROVE IInv'
<1> DEFINE newest == IF call.newest = Undef THEN chain[call.pub] ELSE call.newest
<1>1. /\ call.pc = "head"
      /\ call' = [call EXCEPT !.pc = "walk", !.newest = newest, !.next = newest]
      /\ UNCHANGED <<chain, store, result, fails>>
  BY DEF ResolveHead
<1>2. Running
  BY <1>1, NotIdle DEF IInv
<1>3. chain[call.pub] \in 1..MaxAds /\ newest \in Ads /\ newest <= chain[call.pub]
  BY <1>2, BoundsAssumption DEF IInv, Running, Calls, Ads
<1>4. call' \in Calls
  BY <1>1, <1>2, <1>3 DEF Running, Calls
<1>5. /\ call'.pc = "walk" /\ call'.newest = newest /\ call'.next = newest
      /\ call'.pub = call.pub /\ call'.oldest = call.oldest /\ call'.read = 0
      /\ call'.asked = call.asked /\ call'.started = call.started
  BY <1>1, <1>2 DEF Running, Calls
<1>6. store = AfterWalk(call.started.store, call.pub, newest, 0)
  BY <1>1, <1>2 DEF Running, AfterWalk
<1>7. call.started.head <= chain[call.pub] /\ call.newest = call.asked
  BY <1>1, <1>2 DEF Running
<1>8. WalkDepth(DepthLimit) >= 0
  BY DepthType
<1>9. Running'
  BY <1>1, <1>3, <1>4, <1>5, <1>6, <1>7, <1>8, BoundsAssumption DEF Running, Ads, Undef
<1> QED
  BY <1>1, <1>9 DEF IInv

LEMMA ReadAdRuns == ASSUME IInv, ReadAd PROVE IInv'
<1>1. /\ call.pc = "walk" /\ MoreToRead
      /\ store' = LoadBlock(store, <<call.pub, call.next>>)
      /\ call' = [call EXCEPT !.next = @ - 1, !.read = @ + 1]
      /\ UNCHANGED <<chain, result, fails>>
  BY DEF ReadAd
<1>2. Running
  BY <1>1, NotIdle DEF IInv
<1>3. /\ call.pub \in Publishers /\ call.newest \in Ads /\ call.next \in Ads
      /\ call.read \in Ads /\ call.oldest \in Ads /\ call.started.store \in Stores
  BY <1>2 DEF Running, Calls
<1>4. /\ call.next \in 1..MaxAds /\ call.next = call.newest - call.read
      /\ call.read \in 0..call.newest /\ call.read < call.newest
  BY <1>1, <1>2, <1>3, BoundsAssumption DEF Running, MoreToRead, Ads, Undef
<1>5. /\ call'.pc = "walk" /\ call'.newest = call.newest /\ call'.next = call.next - 1
      /\ call'.pub = call.pub /\ call'.oldest = call.oldest /\ call'.read = call.read + 1
      /\ call'.asked = call.asked /\ call'.started = call.started
      /\ call' \in Calls
  <2>1. call.next - 1 \in Ads /\ call.read + 1 \in Ads
    BY <1>3, <1>4, BoundsAssumption DEF Ads
  <2>2. call \in Calls
    BY <1>2 DEF Running
  <2>3. call' = [call EXCEPT !.next = call.next - 1, !.read = call.read + 1]
    BY <1>1
  <2> QED
    BY <1>1, <2>1, <2>2, <2>3 DEF Calls
<1>6. store' = AfterWalk(call.started.store, call.pub, call.newest, call.read + 1)
  BY <1>1, <1>2, <1>3, <1>4, AfterWalkStep DEF Running
<1>7. store' \in Stores
  BY <1>1, <1>3, <1>4, LoadBlockType DEF IInv
<1>8. call.oldest \in 1..call.newest => call.next - 1 >= call.oldest
  BY <1>1, <1>2, <1>3, <1>4, BoundsAssumption DEF Running, MoreToRead, Ads
<1>9. WalkDepth(DepthLimit) # 0 => call.read + 1 <= WalkDepth(DepthLimit)
  BY <1>1, <1>4, DepthType, BoundsAssumption DEF MoreToRead, Ads
<1>10. Running'
  BY <1>1, <1>2, <1>3, <1>4, <1>5, <1>6, <1>8, <1>9, BoundsAssumption DEF Running, Ads
<1> QED
  BY <1>1, <1>7, <1>10 DEF IInv

(* What a walk that is over has read of the way to the oldest ad. *)
LEMMA WalkOver ==
  ASSUME IInv, call.pc = "walk", ~MoreToRead
  PROVE  /\ Running
         /\ call.read = DepthCut(WalkLen(call.newest, call.oldest), WalkDepth(DepthLimit))
<1>1. Running
  BY NotIdle DEF IInv
<1>2. /\ call.newest \in Nat /\ call.next \in Nat /\ call.read \in Nat
      /\ call.oldest \in Nat \ {0} /\ DepthLimit \in Nat
  BY <1>1, DepthType, BoundsAssumption DEF Running, Calls, Ads, Undef
<1>3. CASE call.next = Undef \/ call.next = call.oldest
  <2>1. call.read = WalkLen(call.newest, call.oldest)
    BY <1>1, <1>2, <1>3 DEF Running, WalkLen, Undef
  <2> QED
    BY <1>1, <1>2, <2>1, DepthType DEF Running, DepthCut
<1>4. CASE /\ call.next # Undef /\ call.next # call.oldest
           /\ WalkDepth(DepthLimit) # 0 /\ ~(call.read < WalkDepth(DepthLimit))
  <2>1. call.read = WalkDepth(DepthLimit)
    BY <1>1, <1>2, <1>4, DepthType DEF Running
  <2>2. WalkLen(call.newest, call.oldest) > call.read
    BY <1>1, <1>2, <1>4 DEF Running, WalkLen, Undef
  <2> QED
    BY <1>1, <1>2, <1>4, <2>1, <2>2, DepthType DEF DepthCut
<1> QED
  BY <1>1, <1>3, <1>4 DEF MoreToRead

LEMMA ReturnRuns == ASSUME IInv, Return PROVE IInv'
<1>1. Running
  BY NotIdle DEF Return, IInv
<1>2. store.count \in Nat
  BY DEF IInv, Stores
<1>3. ReportedDist(store.count, DepthLimit) \in -1..DepthLimit
  BY <1>2, DepthType DEF ReportedDist
<1> QED
  BY <1>3, EmptyStoreType DEF Return, IInv

LEMMA IInvStep == IInv /\ [Next]_vars => IInv'
<1> SUFFICES ASSUME IInv, [Next]_vars PROVE IInv'
  OBVIOUS
<1>1. ASSUME NEW p \in Publishers, Publish(p) PROVE IInv'
  <2>1. /\ chain' \in [Publishers -> 1..MaxAds]
        /\ \A q \in Publishers : chain[q] \in Nat /\ chain'[q] \in Nat /\ chain[q] <= chain'[q]
    BY <1>1, BoundsAssumption DEF Publish, IInv
  <2>2. Running => Running'
    BY <1>1, <2>1, BoundsAssumption DEF Publish, Running, Calls, Ads
  <2> QED
    BY <1>1, <2>1, <2>2 DEF Publish, IInv
<1>2. ASSUME NEW p \in Publishers, NEW o \in Ads, NEW n \in Ads,
             o <= chain[p] /\ n <= chain[p] /\ Call(p, o, n)
      PROVE  IInv'
  BY <1>2, CallRuns
<1>3. ASSUME NEW p \in Publishers, NEW n \in Ads, CallWithoutOldest(p, n) PROVE IInv'
  BY <1>3 DEF CallWithoutOldest, IInv, NoResult, Running
<1>4. CASE ResolveHead
  BY <1>4, ResolveHeadRuns
<1>5. CASE ReadAd
  BY <1>5, ReadAdRuns
<1>6. CASE FailSync
  BY <1>6, BoundsAssumption DEF FailSync, IInv, NoResult
<1>7. CASE Return
  BY <1>7, ReturnRuns
<1>8. CASE UNCHANGED vars
  BY <1>8 DEF vars, IInv, Running
<1> QED
  BY <1>1, <1>2, <1>3, <1>4, <1>5, <1>6, <1>7, <1>8 DEF Next

LEMMA Invariance == Spec => []IInv
  BY IInvInit, IInvStep, PTL DEF Spec

LEMMA IInvType == IInv => TypeOK
  BY BoundsAssumption DEF IInv, TypeOK, Running, Calls, Stores, Keys, Ads, Undef

(* The types of Get are right in every reachable state: what it reports is -1  *)
(* or within the limit, and it reads ads of the chain it was asked about.      *)
THEOREM TypeCorrect == Spec => []TypeOK
  BY Invariance, IInvType, PTL

(* Reading block by block, between other steps and after calls that failed,    *)
(* ends with the store that AfterWalk computes at once.                        *)
THEOREM WalksAgree == Spec => []WalkAgrees
<1>1. IInv => WalkAgrees
  BY WalkOver DEF WalkAgrees, Running
<1> QED
  BY <1>1, Invariance, PTL

-----------------------------------------------------------------------------
(* The service and Get count sets alike. *)
LEMMA SameCardinality == ASSUME NEW S PROVE Service!Cardinality(S) = Cardinality(S)
  BY Zenon DEF Service!Cardinality, Cardinality

(* The walk from newest to oldest is as long as their distance. *)
LEMMA WalkLenIsDistance ==
  ASSUME NEW newest \in Nat, NEW oldest \in Nat \ {0}
  PROVE  /\ WalkLen(newest, oldest) \in Nat
         /\ Distance(newest, oldest) = WalkLen(newest, oldest)
         /\ Service!Distance(newest, oldest) = WalkLen(newest, oldest)
<1>1. CASE oldest <= newest
  <2>1. AdsBetween(newest, oldest) = (oldest + 1) .. newest
    BY <1>1 DEF AdsBetween
  <2>2. {k \in 1..newest : oldest <= newest => k > oldest} = (oldest + 1) .. newest
    BY <1>1
  <2>3. Cardinality((oldest + 1) .. newest) = newest - oldest
    BY <1>1, FS_Interval
  <2>4. WalkLen(newest, oldest) = newest - oldest /\ newest - oldest \in Nat
    BY <1>1 DEF WalkLen
  <2> QED
    BY <2>1, <2>2, <2>3, <2>4, SameCardinality DEF Distance, Service!Distance
<1>2. CASE oldest > newest
  <2>1. AdsBetween(newest, oldest) = 1..newest
    BY <1>2 DEF AdsBetween
  <2>2. {k \in 1..newest : oldest <= newest => k > oldest} = 1..newest
    BY <1>2
  <2>3. Cardinality(1..newest) = newest
    BY FS_Interval
  <2>4. WalkLen(newest, oldest) = newest
    BY <1>2 DEF WalkLen
  <2> QED
    BY <2>1, <2>2, <2>3, <2>4, SameCardinality DEF Distance, Service!Distance
<1> QED
  BY <1>1, <1>2

(* What a walk that is over has counted, next to the distance d it is to report: *)
(* exactly the ads it read if it began with an empty store, else at least those; *)
(* and it read fewer than d ads only beyond the limit.                           *)
LEMMA CountAtReturn ==
  ASSUME IInv, call.pc = "walk", ~MoreToRead,
         NEW d, d = WalkLen(call.newest, call.oldest)
  PROVE  /\ d \in Nat /\ store.count \in Nat /\ call.read \in Nat
         /\ store.count >= call.read
         /\ call.started.store.count = 0 => store.count = call.read
         /\ d <= DepthLimit => call.read = d
         /\ d > DepthLimit => call.read > DepthLimit
<1>1. Running /\ call.read = DepthCut(d, WalkDepth(DepthLimit))
  BY WalkOver
<1>2. /\ call.newest \in Ads /\ call.newest \in Nat /\ call.oldest \in Nat \ {0}
      /\ call.read \in Nat /\ call.next \in Nat /\ call.next = call.newest - call.read
      /\ call.started.store \in Stores /\ call.pub \in Publishers
      /\ store = AfterWalk(call.started.store, call.pub, call.newest, call.read)
  BY <1>1, BoundsAssumption DEF Running, Calls, Ads, Undef
<1>3. call.read \in 0..call.newest
  BY <1>2
<1>4. /\ store.count \in Nat /\ store.count >= call.read
      /\ call.started.store.count = 0 => store.count = call.read
  BY <1>2, <1>3, AfterWalkCount
<1>5. d \in Nat
  BY <1>2, WalkLenIsDistance
<1>6. /\ d <= DepthLimit => call.read = d
      /\ d > DepthLimit => call.read > DepthLimit
  BY <1>1, <1>5, DepthType DEF DepthCut
<1> QED
  BY <1>2, <1>4, <1>5, <1>6

-----------------------------------------------------------------------------
(* What the service sees of a state, by kind of state. *)
LEMMA ServiceInit == Init => Service!Init
  BY DEF Init, Service!Init, Service!Quiet, Service!Refused, EmptyStore, NoResult

(* Reading and asking for the head go on inside a call, out of the service's   *)
(* sight.                                                                      *)
LEMMA CallGoesOn ==
  ASSUME Running, call' \in Calls, UNCHANGED <<chain, result>>,
         call'.pub = call.pub, call'.oldest = call.oldest,
         call'.asked = call.asked, call'.started = call.started
  PROVE  UNCHANGED Service!vars
<1>1. call # Idle /\ call' # Idle
  BY NotIdle DEF Running
<1> QED
  BY <1>1 DEF Service!vars

LEMMA ResolveHeadHidden == ASSUME IInv, ResolveHead PROVE UNCHANGED Service!vars
<1>1. Running /\ call \in Calls
  BY NotIdle DEF IInv, ResolveHead, Running
<1>2. IInv' /\ call'.pc = "walk"
  BY <1>1, ResolveHeadRuns DEF ResolveHead, Calls
<1>3. call' \in Calls
  BY <1>2, NotIdle DEF IInv, Running
<1>4. /\ call'.pub = call.pub /\ call'.oldest = call.oldest
      /\ call'.asked = call.asked /\ call'.started = call.started
  BY <1>1 DEF ResolveHead, Calls
<1> QED
  BY <1>1, <1>3, <1>4, CallGoesOn DEF ResolveHead

LEMMA ReadAdHidden == ASSUME IInv, ReadAd PROVE UNCHANGED Service!vars
<1>1. Running /\ call \in Calls
  BY NotIdle DEF IInv, ReadAd, Running
<1>2. /\ call'.pub = call.pub /\ call'.oldest = call.oldest /\ call'.pc = "walk"
      /\ call'.asked = call.asked /\ call'.started = call.started
  BY <1>1 DEF ReadAd, Calls
<1>3. call' \in Calls
  BY <1>2, ReadAdRuns, NotIdle DEF IInv, Running
<1> QED
  BY <1>1, <1>2, <1>3, CallGoesOn DEF ReadAd

LEMMA PublishGrows ==
  ASSUME NEW p \in Publishers, Publish(p) PROVE Service!Grow(p)
  BY DEF Publish, Service!Grow

LEMMA CallAsks ==
  ASSUME IInv, NEW p \in Publishers, NEW o \in Ads, NEW n \in Ads, Call(p, o, n)
  PROVE  o \in 1..MaxAds /\ n \in 0..MaxAds /\ Service!Ask(p, o, n)
<1>1. o \in 1..MaxAds /\ n \in 0..MaxAds
  BY BoundsAssumption DEF Call, Ads, Undef
<1>2. call = Idle /\ call'.pc = "head"
  BY DEF Call
<1>3. call' # Idle
  BY <1>2 DEF Idle
<1> QED
  BY <1>1, <1>2, <1>3 DEF Call, Service!Ask

LEMMA CallWithoutOldestRefused ==
  ASSUME NEW p \in Publishers, NEW n \in Ads, CallWithoutOldest(p, n)
  PROVE  Service!Refuse
  BY DEF CallWithoutOldest, NoResult, Service!Refuse, Service!Refused, Service!Quiet

(* A call that fails leaves the store it found, or a longer count: it never    *)
(* cleans up after the one before it.                                          *)
LEMMA FailSyncRefused == ASSUME IInv, FailSync PROVE Service!Refuse
<1>1. Running /\ call # Idle
  BY NotIdle DEF IInv, FailSync, Running
<1>2. /\ call.newest \in Ads /\ call.read \in 0..call.newest
      /\ call.started.store \in Stores /\ call.pub \in Publishers
  BY <1>1, BoundsAssumption DEF Running, Calls, Ads
<1>3. store.count \in Nat /\ store.count >= call.started.store.count
  BY <1>1, <1>2, AfterWalkCount DEF Running
<1>4. call.started.store.count \in Nat
  BY <1>2 DEF Stores
<1>5. call.started.store.count # 0 => store.count # 0
  BY <1>3, <1>4
<1> QED
  BY <1>1, <1>5 DEF FailSync, NoResult, Service!Refuse, Service!Refused, Service!Quiet

(* A call that returns gives the answer the service allows. *)
LEMMA ReturnAnswers == ASSUME IInv, Return PROVE Service!Answer
<1> DEFINE d == WalkLen(call.newest, call.oldest)
           dist == ReportedDist(store.count, DepthLimit)
           clean == (IF call = Idle THEN store ELSE call.started.store).count = 0
<1>1. Running /\ call # Idle /\ call.pc = "walk" /\ ~MoreToRead
  BY NotIdle DEF IInv, Return, Running
<1>2. /\ call.newest \in Nat /\ call.oldest \in Nat \ {0} /\ call.asked \in Nat
      /\ call.newest <= chain[call.pub]
      /\ IF call.asked = 0 THEN call.started.head <= call.newest
         ELSE call.newest = call.asked
      /\ call.started.head \in Nat /\ chain[call.pub] \in Nat
  BY <1>1, BoundsAssumption DEF Running, Calls, Ads, Undef, IInv
<1>3. call.newest \in IF call.asked = 0 THEN call.started.head .. chain[call.pub]
                      ELSE {call.asked}
  BY <1>2
<1>4. d \in Nat /\ Service!Distance(call.newest, call.oldest) = d
  BY <1>2, WalkLenIsDistance
<1>5. /\ store.count \in Nat /\ call.read \in Nat /\ store.count >= call.read
      /\ clean => store.count = call.read
      /\ d <= DepthLimit => call.read = d
      /\ d > DepthLimit => call.read > DepthLimit
  BY <1>1, CountAtReturn
<1>6. dist \in Service!Reports(d)
  BY <1>4, <1>5, DepthType DEF ReportedDist, Service!Reports
<1>7. /\ result'.ok /\ result'.newest = call.newest /\ result'.dist = dist
      /\ call' = Idle /\ store'.count = 0 /\ chain' = chain
  BY DEF Return, EmptyStore
<1> QED
  BY <1>1, <1>3, <1>4, <1>6, <1>7 DEF Service!Answer, Service!Quiet

LEMMA ServiceStep == IInv /\ [Next]_vars => [Service!Next]_(Service!vars)
<1> SUFFICES ASSUME IInv, [Next]_vars PROVE Service!Next \/ UNCHANGED Service!vars
  OBVIOUS
<1>1. ASSUME NEW p \in Publishers, Publish(p) PROVE Service!Next
  BY <1>1, PublishGrows DEF Service!Next
<1>2. ASSUME NEW p \in Publishers, NEW o \in Ads, NEW n \in Ads, Call(p, o, n)
      PROVE  Service!Next
  BY <1>2, CallAsks DEF Service!Next
<1>3. ASSUME NEW p \in Publishers, NEW n \in Ads, CallWithoutOldest(p, n)
      PROVE  Service!Next
  BY <1>3, CallWithoutOldestRefused DEF Service!Next
<1>4. CASE ResolveHead
  BY <1>4, ResolveHeadHidden
<1>5. CASE ReadAd
  BY <1>5, ReadAdHidden
<1>6. CASE FailSync
  BY <1>6, FailSyncRefused DEF Service!Next
<1>7. CASE Return
  BY <1>7, ReturnAnswers DEF Service!Next
<1>8. CASE UNCHANGED vars
  BY <1>8 DEF vars, Service!vars
<1> QED
  BY <1>1, <1>2, <1>3, <1>4, <1>5, <1>6, <1>7, <1>8 DEF Next

(* Get implements the service it is used as: whatever is published and fails   *)
(* while it reads block by block, its callers see one atomic look at a chain,  *)
(* exact after a success and never too short after a failure.                  *)
THEOREM GetImplementsService == Spec => ImplementsService
  BY Invariance, ServiceInit, ServiceStep, PTL DEF Spec, ImplementsService, Service!Spec

-----------------------------------------------------------------------------
(* If a sync that fails never reads a block, then no call finds anything in    *)
(* the store, and every distance is exact.                                     *)
NothingLeft ==
  /\ IInv
  /\ (IF call = Idle THEN store ELSE call.started.store).count = 0
  /\ GetCountsChain

LEMMA NothingLeftStep ==
  ASSUME MaxPartial = 0 PROVE NothingLeft /\ [Next]_vars => NothingLeft'
<1> SUFFICES ASSUME NothingLeft, [Next]_vars PROVE NothingLeft'
  OBVIOUS
<1>1. IInv /\ IInv'
  BY IInvStep DEF NothingLeft
<1>2. CASE Return
  <2> DEFINE d == WalkLen(call.newest, call.oldest)
  <2>1. Running /\ call # Idle /\ call.pc = "walk" /\ ~MoreToRead
    BY <1>1, <1>2, NotIdle DEF IInv, Return, Running
  <2>2. call.newest \in Nat /\ call.oldest \in Nat \ {0}
    BY <2>1, BoundsAssumption DEF Running, Calls, Ads, Undef
  <2>3. d \in Nat /\ Distance(call.newest, call.oldest) = d
    BY <2>2, WalkLenIsDistance
  <2>4. /\ store.count \in Nat /\ store.count = call.read
        /\ d <= DepthLimit => call.read = d
        /\ d > DepthLimit => call.read > DepthLimit
    BY <1>1, <2>1, CountAtReturn DEF NothingLeft
  <2>5. ReportedDist(store.count, DepthLimit) = IF d > DepthLimit THEN -1 ELSE d
    BY <2>3, <2>4, DepthType DEF ReportedDist
  <2>6. /\ result'.newest = call.newest /\ result'.oldest = call.oldest
        /\ result'.dist = ReportedDist(store.count, DepthLimit)
        /\ call' = Idle /\ store'.count = 0
    BY <1>2 DEF Return, EmptyStore
  <2> QED
    BY <1>1, <2>3, <2>5, <2>6 DEF NothingLeft, GetCountsChain
<1>3. CASE FailSync
  <2>1. Running /\ call # Idle /\ call.read = 0
    BY <1>1, <1>3, NotIdle, BoundsAssumption DEF IInv, FailSync, Running, Calls, Ads
  <2>2. store = call.started.store
    BY <2>1 DEF Running, AfterWalk
  <2> QED
    BY <1>1, <1>3, <2>1, <2>2 DEF FailSync, NothingLeft, GetCountsChain, NoResult
<1>4. ASSUME UNCHANGED Service!vars, result' = result PROVE NothingLeft'
  BY <1>1, <1>4 DEF Service!vars, NothingLeft, GetCountsChain
<1>5. CASE ResolveHead
  BY <1>1, <1>4, <1>5, ResolveHeadHidden DEF ResolveHead
<1>6. CASE ReadAd
  BY <1>1, <1>4, <1>6, ReadAdHidden DEF ReadAd
<1>7. ASSUME NEW p \in Publishers, Publish(p) PROVE NothingLeft'
  BY <1>1, <1>7 DEF Publish, NothingLeft, GetCountsChain
<1>8. ASSUME NEW p \in Publishers, NEW o \in Ads, NEW n \in Ads, Call(p, o, n)
      PROVE  NothingLeft'
  <2>1. call = Idle /\ call'.started.store = store /\ call'.pc = "head"
    BY <1>8 DEF Call
  <2>2. call' # Idle
    BY <2>1 DEF Idle
  <2> QED
    BY <1>1, <1>8, <2>1, <2>2 DEF Call, NothingLeft, GetCountsChain
<1>9. ASSUME NEW p \in Publishers, NEW n \in Ads, CallWithoutOldest(p, n)
      PROVE  NothingLeft'
  BY <1>1, <1>9 DEF CallWithoutOldest, NothingLeft, GetCountsChain, NoResult
<1>10. CASE UNCHANGED vars
  BY <1>1, <1>10 DEF vars, NothingLeft, GetCountsChain
<1> QED
  BY <1>2, <1>3, <1>5, <1>6, <1>7, <1>8, <1>9, <1>10 DEF Next

(* The distance is the one the comment on Get promises, as long as a sync that *)
(* fails has read nothing; the run that lets it read a block refutes it.       *)
THEOREM ExactWithoutResidue ==
  ASSUME MaxPartial = 0 PROVE Spec => []GetCountsChain
<1>1. Init => NothingLeft
  BY IInvInit DEF Init, NothingLeft, GetCountsChain, EmptyStore, NoResult
<1>2. NothingLeft /\ [Next]_vars => NothingLeft'
  BY NothingLeftStep
<1>3. NothingLeft => GetCountsChain
  BY DEF NothingLeft
<1> QED
  BY <1>1, <1>2, <1>3, PTL DEF Spec
=============================================================================
