------------------------- MODULE DistTracker_proofs -------------------------
(***************************************************************************)
(* Proofs about the distance tracker, for every set of providers, length   *)
(* of chain and depth limit.                                               *)
(***************************************************************************)
EXTENDS DistTracker, FiniteSetTheorems, TLAPS

(* AdDistance.Get on a clean store: from newest back to an ad oldest that is *)
(* behind it, the count is the difference, or -1 if that is over the limit.  *)
(* With a limit of 0 every distance but 0 is over it.                        *)
LEMMA WalkDistance ==
  ASSUME NEW p, NEW newest \in Nat, NEW oldest \in 1..newest, store = EmptyStore
  PROVE  LET d == newest - oldest
         IN  GetDist(p, newest, oldest) = IF d > DepthLimit THEN -1 ELSE d
<1> DEFINE d == newest - oldest
           n == WalkOf(newest, oldest)
<1>1. d \in Nat /\ DepthLimit \in Nat
  BY BoundsAssumption
<1>2. n = IF DepthLimit # 0 /\ d > DepthLimit + 1 THEN DepthLimit + 1 ELSE d
  BY <1>1 DEF WalkOf, WalkLen, DepthCut, WalkDepth
<1>3. AfterWalk(store, p, newest, n).count = n
  <2>1. CASE n = 0
    BY <2>1 DEF AfterWalk, EmptyStore
  <2>2. CASE n # 0
    <3>1. NoKey # <<p, newest>>
      BY DEF NoKey
    <3>2. LoadBlock(store, <<p, newest>>).count = 1
      BY <3>1 DEF LoadBlock, EmptyStore
    <3> QED
      BY <1>1, <1>2, <2>2, <3>2 DEF AfterWalk
  <2> QED
    BY <2>1, <2>2
<1> QED
  BY <1>1, <1>2, <1>3 DEF GetDist, ReportedDist

-----------------------------------------------------------------------------
(* The inductive invariant behind DistExact.  Adding and subtracting keeps    *)
(* what is exact exact because a Get is always asked about a stretch of chain *)
(* that exists: the indexer is never ahead of the publisher, a distTrack is   *)
(* never ahead of either, and the ad a running update read is not behind the  *)
(* one it kept.  Fits says so of one provider's head h, ad a and distance d   *)
(* in its distTrack, last seen ad s and chain head c, whatever failed syncs   *)
(* have left in the store.                                                    *)
Fits(h, a, d, s, c) ==
  /\ s <= c /\ h <= c /\ a <= s
  /\ h # Undef => a \in 1..h
  /\ h = Undef /\ a # Undef => d = -1

TracksFit ==
  \A p \in Providers :
    Fits(track[p].head, track[p].ad, track[p].dist, seen[p], chain[p])

UpdateFits ==
  pc \in {"first", "head", "ad"} =>
    LET t == track[cur.pid]
    IN  /\ cur.lastAd \in t.ad..seen[cur.pid]
        /\ pc = "first" <=> t.head = Undef
        /\ pc = "ad" => cur.lastAd <= t.head

IInv ==
  /\ TypeOK
  /\ TracksFit
  /\ UpdateFits

(* By how much the distance kept of p is wrong. *)
Off(p) == track[p].dist - (track[p].head - track[p].ad)
Exact(p) == track[p].head # Undef => Off(p) = 0

-----------------------------------------------------------------------------
(* A walk over a chain, complete or not, leaves a count in the store. *)
LEMMA WalkType ==
  ASSUME NEW st, st.count \in Nat, NEW p, NEW newest, NEW n \in Nat
  PROVE  AfterWalk(st, p, newest, n).count \in Nat
  BY DEF AfterWalk, LoadBlock

LEMMA WalkOfType ==
  ASSUME NEW newest \in Nat, NEW oldest \in Nat
  PROVE  WalkOf(newest, oldest) \in Nat
  BY BoundsAssumption DEF WalkOf, WalkLen, DepthCut, WalkDepth

LEMMA GetDistType ==
  ASSUME store.count \in Nat, NEW p, NEW newest \in Nat, NEW oldest \in Nat
  PROVE  GetDist(p, newest, oldest) \in Int
<1> DEFINE count == AfterWalk(store, p, newest, WalkOf(newest, oldest)).count
<1>1. count \in Nat
  BY WalkOfType, WalkType
<1> QED
  BY <1>1, BoundsAssumption DEF GetDist, ReportedDist

(* Only providers are tracked, and a running update is about one of them. *)
LEMMA WantedProviders == Wanted \subseteq Providers
  BY ProvidersAssumption DEF Wanted

LEMMA CurType ==
  ASSUME TypeOK, pc \in {"first", "head", "ad"}
  PROVE  /\ cur.pid \in Providers /\ cur.pid \in tracked
         /\ cur.lastAd \in Ads \ {Undef}
         /\ track[cur.pid] \in Tracks
         /\ chain[cur.pid] \in 1..MaxAds
         /\ seen[cur.pid] \in Ads
  BY DEF TypeOK, Updates

(* What a Get makes of a distTrack is a distTrack. *)
LEMMA TrackOps ==
  ASSUME NEW t \in Tracks, NEW d \in Int, NEW a \in Ads, NEW b \in Ads
  PROVE  /\ Cleared(t) \in Tracks
         /\ Started(t, d, a, b) \in Tracks
         /\ TooFar(t) \in Tracks
         /\ HeadMoved(t, d, a) \in Tracks
         /\ AdMoved(t, d, a) \in Tracks
<1>1. Undef \in Ads
  BY BoundsAssumption DEF Ads, Undef
<1>2. t.dist \in Int /\ t.head \in Ads
  BY DEF Tracks
<1>3. PICK c \in Tracks : c = Cleared(t)
  BY DEF Tracks, Cleared
<1>4. c.dist \in Int /\ c.head \in Ads /\ -1 \in Int
  BY DEF Tracks
<1>5. Started(t, d, a, b) \in Tracks
  <2>1. Started(t, d, a, b) =
          [c EXCEPT !.dist = d, !.ad = b, !.head = IF d # -1 THEN a ELSE @]
    BY <1>3 DEF Started
  <2> QED
    BY <1>4, <2>1 DEF Tracks
<1>6. TooFar(t) \in Tracks
  <2>1. TooFar(t) = [c EXCEPT !.dist = -1, !.head = Undef]
    BY <1>3 DEF TooFar
  <2> QED
    BY <1>1, <1>4, <2>1 DEF Tracks
<1>7. HeadMoved(t, d, a) \in Tracks
  <2> DEFINE x == c.dist + d
  <2>1. x \in Int
    BY <1>4
  <2>2. HeadMoved(t, d, a) = [c EXCEPT !.dist = x, !.head = a]
    BY <1>3 DEF HeadMoved
  <2> HIDE DEF x
  <2> QED
    BY <2>1, <2>2 DEF Tracks
<1>8. AdMoved(t, d, a) \in Tracks
  <2> DEFINE x == c.dist - d
  <2>1. x \in Int
    BY <1>4
  <2>2. AdMoved(t, d, a) = [c EXCEPT !.dist = x, !.ad = a]
    BY <1>3 DEF AdMoved
  <2> HIDE DEF x
  <2> QED
    BY <2>1, <2>2 DEF Tracks
<1> QED
  BY <1>3, <1>5, <1>6, <1>7, <1>8

(* The parts of TypeOK that speak of a running update. *)
UpdateType ==
  /\ pc \in {"wait", "each", "first", "head", "ad", "send", "closed"}
  /\ pc \in {"first", "head", "ad"} =>
       cur \in Updates /\ cur.pid \in tracked
  /\ pc = "send" => out.id \in tracked

(* An update that ends with an error keeps the types. *)
LEMMA AnnounceType ==
  ASSUME TypeOK, NEW p \in tracked, NEW kind \in Errors, Announce(p, kind),
         tracked' = tracked
  PROVE  /\ UpdateType'
         /\ track' \in [Providers -> Tracks]
<1>1. p \in Providers
  BY WantedProviders DEF TypeOK
<1>2. track' \in [Providers -> Tracks]
  <2>1. CASE track' = track
    BY <2>1 DEF TypeOK
  <2>2. CASE track' = [track EXCEPT ![p].errType = kind]
    BY <1>1, <2>2 DEF TypeOK, Tracks
  <2> QED
    BY <2>1, <2>2 DEF Announce
<1>3. UpdateType'
  BY DEF TypeOK, Announce, Send, Silent, UpdateType
<1> QED
  BY <1>2, <1>3

LEMMA TypeInit == Init => TypeOK
<1> SUFFICES ASSUME Init PROVE TypeOK
  OBVIOUS
<1>1. track \in [Providers -> Tracks]
  BY BoundsAssumption DEF Init, Ads, Undef, NewTrack, Tracks, Errors
<1>2. tracked \subseteq Wanted
  BY ProvidersAssumption DEF Init, Wanted
<1>3. seen \in [Providers -> Ads] /\ chain \in [Providers -> 1..MaxAds]
  BY BoundsAssumption DEF Init, Ads, Undef
<1>4. store.count \in Nat /\ faults \in 0..MaxFaults
  BY BoundsAssumption DEF Init, EmptyStore
<1>5. listing \in [Providers -> {"absent", "nopub", "full"}]
  BY DEF Init
<1>6. pc = "wait" /\ todo \subseteq tracked /\ cancelled \in BOOLEAN
  BY DEF Init
<1> QED
  BY <1>1, <1>2, <1>3, <1>4, <1>5, <1>6 DEF TypeOK

LEMMA TypeStep == TypeOK /\ [Next]_vars => TypeOK'
<1> SUFFICES ASSUME TypeOK, [Next]_vars PROVE TypeOK'
  OBVIOUS
<1> USE DEF env
<1>1. ASSUME NEW p \in Providers, Publish(p) PROVE TypeOK'
  BY <1>1, BoundsAssumption DEF TypeOK, Publish
<1>2. ASSUME NEW p \in Providers, Ingest(p) PROVE TypeOK'
  BY <1>2 DEF TypeOK, Ingest
<1>3. ASSUME NEW p \in Providers, Relist(p) PROVE TypeOK'
  BY <1>3, BoundsAssumption DEF TypeOK, Relist
<1>4. CASE Cancel
  BY <1>4 DEF TypeOK, Cancel
<1>5. CASE Refresh
  BY <1>5 DEF TypeOK, Refresh, NewlyListed, Wanted
<1>6. CASE RefreshFails \/ Stop \/ EndRound
  BY <1>6, BoundsAssumption DEF TypeOK, RefreshFails, Fault, Stop, EndRound
<1>7. ASSUME NEW p \in Providers, LookupFails(p) PROVE TypeOK'
  BY <1>7, BoundsAssumption DEF TypeOK, LookupFails, Fault
<1>8. ASSUME NEW p \in Providers, LookupRejects(p) PROVE TypeOK'
  <2>1. p \in tracked /\ NoDistance(p) \in Errors
    BY <1>8 DEF LookupRejects, TypeOK, NoDistance, Errors
  <2>2. Announce(p, NoDistance(p)) /\ tracked' = tracked
    BY <1>8 DEF LookupRejects
  <2>3. UpdateType' /\ track' \in [Providers -> Tracks]
    BY <2>1, <2>2, AnnounceType
  <2> QED
    BY <1>8, <2>3 DEF LookupRejects, TypeOK, UpdateType, Wanted
<1>9. ASSUME NEW p \in Providers, Lookup(p) PROVE TypeOK'
  <2>1. seen[p] \in Ads \ {Undef} /\ p \in tracked
    BY <1>9 DEF TypeOK, Lookup, NoDistance
  <2>2. cur' \in Updates /\ cur'.pid \in tracked
    BY <1>9, <2>1 DEF Lookup, Updates
  <2> QED
    BY <1>9, <2>2 DEF TypeOK, Lookup, Wanted
<1>10. CASE FirstGet
  <2> DEFINE p == cur.pid
             d == GetDist(p, chain[p], cur.lastAd)
  <2>1. pc = "first"
    BY <1>10 DEF FirstGet
  <2>2. /\ p \in Providers /\ p \in tracked /\ chain[p] \in Ads
        /\ cur.lastAd \in Ads /\ track[p] \in Tracks
    BY <2>1, CurType, BoundsAssumption DEF Ads
  <2>3. d \in Int
    BY <2>2, GetDistType, BoundsAssumption DEF TypeOK, Ads
  <2>4. Started(track[p], d, chain[p], cur.lastAd) \in Tracks
    BY <2>2, <2>3, TrackOps
  <2>5. track' \in [Providers -> Tracks]
    BY <1>10, <2>2, <2>4 DEF TypeOK, FirstGet
  <2>6. UpdateType'
    BY <1>10, <2>2 DEF FirstGet, SendDist, Send, UpdateType
  <2> QED
    BY <1>10, <2>5, <2>6 DEF TypeOK, FirstGet, UpdateType, EmptyStore, Wanted
<1>11. CASE FirstGetFails \/ HeadGetFails \/ AdGetFails
  <2>1. pc \in {"first", "head", "ad"}
    BY <1>11 DEF FirstGetFails, HeadGetFails, AdGetFails
  <2>2. \E newest, oldest : GetFails(cur.pid, newest, oldest)
    BY <1>11 DEF FirstGetFails, HeadGetFails, AdGetFails
  <2>3. PICK newest, oldest : GetFails(cur.pid, newest, oldest)
    BY <2>2
  <2>4. cur.pid \in tracked /\ tracked' = tracked
    BY <1>11, <2>1, CurType DEF FirstGetFails, HeadGetFails, AdGetFails
  <2>5. store'.count \in Nat
    <3>1. PICK n \in 0..MaxPartial : store' = AfterWalk(store, cur.pid, newest, n)
      BY <2>3 DEF GetFails
    <3> QED
      BY <3>1, WalkType, BoundsAssumption DEF TypeOK
  <2>6. faults' \in 0..MaxFaults
    BY <2>3, BoundsAssumption DEF GetFails, Fault, TypeOK
  <2>7. UpdateType' /\ track' \in [Providers -> Tracks]
    <3>1. Announce(cur.pid, "update") /\ "update" \in Errors
      BY <2>3 DEF GetFails, Errors
    <3> QED
      BY <2>4, <3>1, AnnounceType
  <2>8. UNCHANGED <<chain, seen, listing, cancelled, tracked, todo>>
    BY <1>11 DEF FirstGetFails, HeadGetFails, AdGetFails
  <2> QED
    BY <2>5, <2>6, <2>7, <2>8 DEF TypeOK, UpdateType, Wanted
<1>12. CASE HeadGet
  <2> DEFINE p == cur.pid
             d == GetDist(p, chain[p], track[p].head)
  <2>1. pc = "head"
    BY <1>12 DEF HeadGet
  <2>2. /\ p \in Providers /\ p \in tracked /\ chain[p] \in Ads
        /\ track[p].head \in Ads /\ track[p] \in Tracks
    BY <2>1, CurType, BoundsAssumption DEF Ads, Tracks
  <2>3. d \in Int
    BY <2>2, GetDistType, BoundsAssumption DEF TypeOK, Ads
  <2>4. track' \in [Providers -> Tracks]
    <3>1. PICK u \in {TooFar(track[p]), HeadMoved(track[p], d, chain[p]), Cleared(track[p])} :
            track' = [track EXCEPT ![p] = u]
      BY <1>12 DEF HeadGet
    <3>2. u \in Tracks
      BY <2>2, <2>3, <3>1, TrackOps
    <3> QED
      BY <2>2, <3>1, <3>2 DEF TypeOK
  <2>5. UpdateType'
    <3>1. tracked' = tracked
      BY <1>12 DEF HeadGet
    <3>2. CASE d = -1
      BY <1>12, <2>2, <3>1, <3>2 DEF HeadGet, SendDist, Send, UpdateType
    <3>3. CASE d # -1
      <4>1. cur' = [cur EXCEPT !.updated = (chain[p] # track[p].head)]
        BY <1>12, <3>3 DEF HeadGet
      <4>2. cur' \in Updates /\ cur'.pid = p
        BY <2>1, <4>1 DEF TypeOK, Updates
      <4>3. \/ pc' = "ad" /\ out' = out
            \/ \E x : SendDist(p, x)
            \/ Silent
        BY <1>12, <3>3 DEF HeadGet
      <4> QED
        BY <2>2, <3>1, <4>2, <4>3 DEF SendDist, Send, Silent, UpdateType
    <3> QED
      BY <3>2, <3>3
  <2> QED
    BY <1>12, <2>4, <2>5 DEF TypeOK, HeadGet, UpdateType, EmptyStore, Wanted
<1>13. CASE AdGet
  <2> DEFINE p == cur.pid
             d == GetDist(p, cur.lastAd, track[p].ad)
  <2>1. pc = "ad"
    BY <1>13 DEF AdGet
  <2>2. /\ p \in Providers /\ p \in tracked /\ cur.lastAd \in Ads
        /\ track[p].ad \in Ads /\ track[p] \in Tracks
    BY <2>1, CurType DEF Tracks
  <2>3. d \in Int
    BY <2>2, GetDistType, BoundsAssumption DEF TypeOK, Ads
  <2>4. track' \in [Providers -> Tracks]
    <3>1. \E u \in {TooFar(track[p]), AdMoved(track[p], d, cur.lastAd)} :
            track' = [track EXCEPT ![p] = u]
      BY <1>13 DEF AdGet
    <3> QED
      BY <2>2, <2>3, <3>1, TrackOps DEF TypeOK
  <2>5. UpdateType'
    BY <1>13, <2>2 DEF AdGet, SendDist, Send, UpdateType
  <2> QED
    BY <1>13, <2>4, <2>5 DEF TypeOK, AdGet, UpdateType, EmptyStore, Wanted
<1>14. CASE Receive
  BY <1>14 DEF TypeOK, Receive
<1>15. CASE UNCHANGED vars
  BY <1>15 DEF TypeOK, vars, Wanted
<1> QED
  BY <1>1, <1>2, <1>3, <1>4, <1>5, <1>6, <1>7, <1>8, <1>9, <1>10, <1>11, <1>12,
     <1>13, <1>14, <1>15
  DEF Next, Visit, Updating

(* The tracker's types are right in every reachable state. *)
THEOREM TypeCorrect == Spec => []TypeOK
  BY TypeInit, TypeStep, PTL DEF Spec

-----------------------------------------------------------------------------
LEMMA IInvExact == IInv /\ (\A p \in Providers : Exact(p)) => DistExact
<1> SUFFICES ASSUME IInv, \A p \in Providers : Exact(p), NEW p \in Providers
             PROVE  LET t == track[p]
                    IN  /\ t.head # Undef => t.dist = t.head - t.ad /\ t.dist >= 0
                        /\ t.head = Undef /\ t.ad # Undef => t.dist = -1
  BY DEF DistExact
<1>1. Fits(track[p].head, track[p].ad, track[p].dist, seen[p], chain[p])
  BY DEF IInv, TracksFit
<1>2. track[p].head \in Nat /\ track[p].ad \in Nat /\ track[p].dist \in Int
  BY BoundsAssumption DEF IInv, TypeOK, Tracks, Ads
<1> QED
  BY <1>1, <1>2 DEF Fits, Undef, Exact, Off

LEMMA IInvInit == Init => IInv
<1> SUFFICES ASSUME Init PROVE IInv
  OBVIOUS
<1>1. TypeOK
  BY TypeInit
<1>2. \A p \in Providers :
        /\ chain[p] = 1 /\ seen[p] \in {0, 1}
        /\ track[p].head = 0 /\ track[p].ad = 0
  BY DEF Init, NewTrack, Undef
<1>3. TracksFit
  BY <1>2 DEF TracksFit, Fits, Undef
<1> QED
  BY <1>1, <1>3 DEF Init, IInv, UpdateFits

(* A step that leaves the chains and what a distTrack says of them alone. *)
SameTracks ==
  /\ UNCHANGED <<chain, seen>>
  /\ \A p \in Providers : /\ track'[p].head = track[p].head
                          /\ track'[p].ad = track[p].ad
                          /\ track'[p].dist = track[p].dist

LEMMA SameTracksFit ==
  ASSUME TracksFit, SameTracks
  PROVE  TracksFit'
  BY DEF TracksFit, SameTracks, Fits

LEMMA AnnounceSame ==
  ASSUME TypeOK, NEW p \in Providers, NEW kind, Announce(p, kind),
         UNCHANGED <<chain, seen>>
  PROVE  SameTracks /\ pc' \in {"each", "send"}
<1>1. pc' \in {"each", "send"}
  BY DEF Announce, Send, Silent
<1>2. CASE track' = track
  BY <1>1, <1>2 DEF SameTracks
<1>3. CASE track' = [track EXCEPT ![p].errType = kind]
  BY <1>1, <1>3 DEF SameTracks, TypeOK, Tracks
<1> QED
  BY <1>2, <1>3 DEF Announce

(* A Get that changes one distTrack, to one that fits. *)
LEMMA OneTrackFits ==
  ASSUME TypeOK, TracksFit, UNCHANGED <<chain, seen>>, NEW p \in Providers, NEW u,
         track' = [track EXCEPT ![p] = u],
         Fits(u.head, u.ad, u.dist, seen[p], chain[p])
  PROVE  TracksFit'
<1> SUFFICES ASSUME NEW q \in Providers
             PROVE  Fits(track'[q].head, track'[q].ad, track'[q].dist, seen[q], chain[q])
  BY DEF TracksFit
<1>1. CASE q = p
  BY <1>1 DEF TypeOK
<1>2. CASE q # p
  <2>1. track'[q] = track[q]
    BY <1>2 DEF TypeOK
  <2> QED
    BY <2>1 DEF TracksFit
<1> QED
  BY <1>1, <1>2

(* The numbers a running update works with. *)
LEMMA CurFits ==
  ASSUME IInv, pc \in {"first", "head", "ad"}
  PROVE  LET p == cur.pid
             t == track[p]
         IN  /\ p \in Providers /\ t \in Tracks
             /\ t.head \in Nat /\ t.ad \in Nat /\ t.dist \in Int
             /\ chain[p] \in Nat \ {0} /\ seen[p] \in Nat
             /\ cur.lastAd \in Nat \ {0}
             /\ Fits(t.head, t.ad, t.dist, seen[p], chain[p])
             /\ cur.lastAd \in t.ad..seen[p]
  BY CurType, BoundsAssumption DEF IInv, TracksFit, UpdateFits, Ads, Tracks, Undef

LEMMA FirstGetFits == ASSUME IInv, FirstGet PROVE TracksFit'
<1> DEFINE p == cur.pid
           t == track[p]
           d == GetDist(p, chain[p], cur.lastAd)
           u == Started(t, d, chain[p], cur.lastAd)
<1>1. pc = "first" /\ t.head = Undef
  BY DEF FirstGet, IInv, UpdateFits
<1>2. cur.lastAd \in 1..chain[p]
  BY <1>1, CurFits DEF Fits
<1>3. u.ad = cur.lastAd /\ u.dist = d /\ u.head = IF d # -1 THEN chain[p] ELSE Undef
  BY <1>1, CurFits DEF Started, Cleared, Tracks
<1>4. Fits(u.head, u.ad, u.dist, seen[p], chain[p])
  BY <1>1, <1>2, <1>3, CurFits DEF Fits, Undef
<1>5. track' = [track EXCEPT ![p] = u] /\ UNCHANGED <<chain, seen>>
  BY DEF FirstGet, env
<1> QED
  BY <1>1, <1>4, <1>5, CurFits, OneTrackFits DEF IInv

LEMMA HeadGetFits == ASSUME IInv, HeadGet PROVE TracksFit' /\ UpdateFits'
<1> DEFINE p == cur.pid
           t == track[p]
           d == GetDist(p, chain[p], t.head)
<1>1. pc = "head" /\ t.head # Undef
  BY DEF HeadGet, IInv, UpdateFits
<1>2. t.head \in 1..chain[p] /\ t.ad \in 1..t.head
  BY <1>1, CurFits DEF Fits, Undef
<1>3. UNCHANGED <<chain, seen>>
  BY DEF HeadGet, env
<1>4. CASE d = -1
  <2> DEFINE u == TooFar(t)
  <2>1. u.head = Undef /\ u.ad = t.ad /\ u.dist = -1
    BY <1>1, CurFits DEF TooFar, Cleared, Tracks
  <2>2. Fits(u.head, u.ad, u.dist, seen[p], chain[p])
    BY <1>1, <1>2, <2>1, CurFits DEF Fits, Undef
  <2>3. track' = [track EXCEPT ![p] = u] /\ pc' = "send"
    BY <1>4 DEF HeadGet, SendDist, Send
  <2> QED
    BY <1>1, <1>3, <2>2, <2>3, CurFits, OneTrackFits DEF IInv, UpdateFits
<1>5. CASE d # -1
  <2> DEFINE moved == chain[p] # t.head
             u == IF moved THEN HeadMoved(t, d, chain[p]) ELSE Cleared(t)
  <2>1. u.head = chain[p] /\ u.ad = t.ad
    BY <1>1, CurFits DEF HeadMoved, Cleared, Tracks
  <2>2. Fits(u.head, u.ad, u.dist, seen[p], chain[p])
    BY <1>1, <1>2, <2>1, CurFits DEF Fits, Undef
  <2>3. /\ track' = [track EXCEPT ![p] = u]
        /\ cur' = [cur EXCEPT !.updated = moved]
        /\ pc' \in {"ad", "send", "each"}
    BY <1>5 DEF HeadGet, SendDist, Send, Silent
  <2>4. track'[p] = u /\ cur'.pid = p /\ cur'.lastAd = cur.lastAd
    BY <1>1, <2>3, CurFits DEF IInv, TypeOK, Updates
  <2>5. UpdateFits'
    BY <1>1, <1>2, <1>3, <2>1, <2>3, <2>4, CurFits DEF UpdateFits, Fits, Undef
  <2> QED
    BY <1>1, <1>3, <2>2, <2>3, <2>5, CurFits, OneTrackFits DEF IInv
<1> QED
  BY <1>4, <1>5

LEMMA AdGetFits == ASSUME IInv, AdGet PROVE TracksFit'
<1> DEFINE p == cur.pid
           t == track[p]
           d == GetDist(p, cur.lastAd, t.ad)
           u == IF d = -1 THEN TooFar(t) ELSE AdMoved(t, d, cur.lastAd)
<1>1. pc = "ad" /\ t.head # Undef /\ cur.lastAd <= t.head
  BY DEF AdGet, IInv, UpdateFits
<1>2. t.ad \in 1..cur.lastAd
  BY <1>1, CurFits DEF Fits, Undef
<1>3. Fits(u.head, u.ad, u.dist, seen[p], chain[p])
  <2>1. CASE d = -1
    <3>1. u.head = Undef /\ u.ad = t.ad /\ u.dist = -1
      BY <1>1, <2>1, CurFits DEF TooFar, Cleared, Tracks
    <3> QED
      BY <1>1, <1>2, <3>1, CurFits DEF Fits, Undef
  <2>2. CASE d # -1
    <3>1. u.head = t.head /\ u.ad = cur.lastAd
      BY <1>1, <2>2, CurFits DEF AdMoved, Cleared, Tracks
    <3> QED
      BY <1>1, <1>2, <3>1, CurFits DEF Fits, Undef
  <2> QED
    BY <2>1, <2>2
<1>4. track' = [track EXCEPT ![p] = u] /\ UNCHANGED <<chain, seen>>
  BY DEF AdGet, env
<1> QED
  BY <1>1, <1>3, <1>4, CurFits, OneTrackFits DEF IInv

LEMMA IInvStep ==
  ASSUME IInv, [Next]_vars
  PROVE  IInv'
<1> USE DEF env
<1>1. TypeOK'
  BY TypeStep DEF IInv
<1>2. \A p \in Providers : chain[p] \in Nat /\ seen[p] \in Nat
  BY BoundsAssumption DEF IInv, TypeOK, Ads
<1>3. ASSUME NEW p \in Providers, Publish(p) PROVE IInv'
  <2>1. \A q \in Providers : chain'[q] \in Nat /\ chain[q] <= chain'[q]
    BY <1>2, <1>3 DEF Publish, IInv, TypeOK
  <2>2. TracksFit'
    BY <1>2, <1>3, <2>1, BoundsAssumption
    DEF Publish, IInv, TypeOK, Tracks, Ads, TracksFit, Fits
  <2> QED
    BY <1>1, <1>3, <2>2 DEF Publish, IInv, UpdateFits
<1>4. ASSUME NEW p \in Providers, Ingest(p) PROVE IInv'
  <2>1. PICK a \in Ads : seen[p] < a /\ a <= chain[p] /\ seen' = [seen EXCEPT ![p] = a]
    BY <1>4 DEF Ingest
  <2>2. \A q \in Providers : seen'[q] \in Nat /\ seen[q] <= seen'[q] /\ seen'[q] <= chain[q]
    BY <1>2, <2>1, BoundsAssumption DEF IInv, TypeOK, Ads, TracksFit, Fits
  <2>3. TracksFit'
    BY <1>2, <1>4, <2>2, BoundsAssumption
    DEF Ingest, IInv, TypeOK, Tracks, Ads, TracksFit, Fits
  <2>4. UpdateFits'
    <3> SUFFICES ASSUME pc \in {"first", "head", "ad"}
                 PROVE  cur.lastAd \in track[cur.pid].ad..seen'[cur.pid]
      BY <1>4 DEF Ingest, IInv, UpdateFits
    <3> QED
      BY <2>2, CurFits
  <2> QED
    BY <1>1, <1>4, <2>3, <2>4 DEF Ingest, IInv
<1>5. ASSUME NEW p \in Providers, Relist(p) PROVE IInv'
  BY <1>1, <1>5 DEF Relist, IInv, TracksFit, UpdateFits
<1>6. CASE Cancel
  BY <1>1, <1>6 DEF Cancel, IInv, TracksFit, UpdateFits
<1>7. CASE Refresh \/ RefreshFails \/ Stop \/ EndRound
  BY <1>1, <1>7 DEF Refresh, RefreshFails, Stop, EndRound, IInv, TracksFit, UpdateFits
<1>8. ASSUME NEW p \in Providers, LookupFails(p) PROVE IInv'
  BY <1>1, <1>8 DEF LookupFails, IInv, TracksFit, UpdateFits
<1>9. ASSUME NEW p \in Providers, LookupRejects(p) PROVE IInv'
  <2>1. Announce(p, NoDistance(p)) /\ UNCHANGED <<chain, seen, store>>
    BY <1>9 DEF LookupRejects
  <2>2. TracksFit' /\ pc' \in {"each", "send"}
    BY <2>1, AnnounceSame, SameTracksFit DEF IInv
  <2> QED
    BY <1>1, <2>1, <2>2 DEF IInv, UpdateFits
<1>10. ASSUME NEW p \in Providers, Lookup(p) PROVE IInv'
  <2>1. UNCHANGED <<chain, seen, track, store>> /\ cur'.pid = p /\ cur'.lastAd = seen[p]
    BY <1>10 DEF Lookup
  <2>2. /\ track[p].ad \in Nat /\ track[p].ad <= seen[p]
        /\ seen[p] \in Nat
    BY <1>2, BoundsAssumption DEF IInv, TypeOK, Tracks, Ads, TracksFit, Fits
  <2>3. pc' = IF track[p].head = Undef THEN "first" ELSE "head"
    BY <1>10 DEF Lookup
  <2>4. UpdateFits'
    BY <2>1, <2>2, <2>3 DEF UpdateFits
  <2> QED
    BY <1>1, <2>1, <2>4 DEF IInv, TracksFit
<1>11. CASE FirstGet
  BY <1>1, <1>11, FirstGetFits DEF FirstGet, SendDist, Send, IInv, UpdateFits
<1>12. CASE FirstGetFails \/ HeadGetFails \/ AdGetFails
  <2>1. UNCHANGED <<chain, seen>> /\ cur.pid \in Providers
    BY <1>12, CurType DEF FirstGetFails, HeadGetFails, AdGetFails, IInv
  <2>2. \E newest, oldest : GetFails(cur.pid, newest, oldest)
    BY <1>12 DEF FirstGetFails, HeadGetFails, AdGetFails
  <2>3. PICK newest, oldest : GetFails(cur.pid, newest, oldest)
    BY <2>2
  <2>4. TracksFit' /\ pc' \in {"each", "send"}
    BY <2>1, <2>3, AnnounceSame, SameTracksFit DEF GetFails, IInv
  <2> QED
    BY <1>1, <2>4 DEF IInv, UpdateFits
<1>13. CASE HeadGet
  BY <1>1, <1>13, HeadGetFits DEF HeadGet, IInv
<1>14. CASE AdGet
  BY <1>1, <1>14, AdGetFits DEF AdGet, SendDist, Send, IInv, UpdateFits
<1>15. CASE Receive
  BY <1>1, <1>15 DEF Receive, IInv, TracksFit, UpdateFits
<1>16. CASE UNCHANGED vars
  BY <1>1, <1>16 DEF vars, IInv, TracksFit, UpdateFits
<1> QED
  BY <1>3, <1>4, <1>5, <1>6, <1>7, <1>8, <1>9, <1>10, <1>11, <1>12, <1>13, <1>14,
     <1>15, <1>16
  DEF Next, Visit, Updating

-----------------------------------------------------------------------------
(* What a step does to the error of a distance: nothing, if the store is      *)
(* clean; and a head that is set again begins without one.                    *)
ErrorStep(p) ==
  store = EmptyStore =>
    /\ track[p].head # Undef /\ track'[p].head # Undef => Off(p)' = Off(p)
    /\ track[p].head = Undef /\ track'[p].head # Undef => Off(p)' = 0

LEMMA SameTracksErr ==
  ASSUME SameTracks, NEW p \in Providers
  PROVE  ErrorStep(p)
  BY DEF SameTracks, ErrorStep, Off

LEMMA FirstGetErr ==
  ASSUME IInv, FirstGet, NEW q \in Providers, store = EmptyStore
  PROVE  ErrorStep(q)
<1> DEFINE p == cur.pid
           t == track[p]
           d == GetDist(p, chain[p], cur.lastAd)
           u == Started(t, d, chain[p], cur.lastAd)
<1>1. pc = "first" /\ t.head = Undef
  BY DEF FirstGet, IInv, UpdateFits
<1>2. cur.lastAd \in 1..chain[p]
  BY <1>1, CurFits DEF Fits
<1>3. d = IF chain[p] - cur.lastAd > DepthLimit THEN -1 ELSE chain[p] - cur.lastAd
  BY <1>1, <1>2, CurFits, WalkDistance
<1>4. u.ad = cur.lastAd /\ u.dist = d /\ u.head = IF d # -1 THEN chain[p] ELSE Undef
  BY <1>1, CurFits DEF Started, Cleared, Tracks
<1>5. u.head # Undef => u.dist - (u.head - u.ad) = 0
  BY <1>1, <1>2, <1>3, <1>4, CurFits
<1>6. track' = [track EXCEPT ![p] = u]
  BY DEF FirstGet
<1>7. track'[q] = IF q = p THEN u ELSE track[q]
  BY <1>6 DEF IInv, TypeOK
<1> QED
  BY <1>1, <1>5, <1>7 DEF ErrorStep, Off

LEMMA HeadGetErr ==
  ASSUME IInv, HeadGet, NEW q \in Providers, store = EmptyStore
  PROVE  ErrorStep(q)
<1> DEFINE p == cur.pid
           t == track[p]
           d == GetDist(p, chain[p], t.head)
           moved == chain[p] # t.head
           u == IF d = -1 THEN TooFar(t)
                ELSE IF moved THEN HeadMoved(t, d, chain[p]) ELSE Cleared(t)
<1>1. pc = "head" /\ t.head # Undef
  BY DEF HeadGet, IInv, UpdateFits
<1>2. t.head \in 1..chain[p]
  BY <1>1, CurFits DEF Fits, Undef
<1>3. d = IF chain[p] - t.head > DepthLimit THEN -1 ELSE chain[p] - t.head
  BY <1>1, <1>2, CurFits, WalkDistance
<1>4. u.head # Undef => u.dist - (u.head - u.ad) = t.dist - (t.head - t.ad)
  <2>1. CASE d = -1
    BY <1>1, <2>1, CurFits DEF TooFar, Cleared, Tracks
  <2>2. CASE d # -1 /\ moved
    <3>1. u.head = chain[p] /\ u.ad = t.ad /\ u.dist = t.dist + d
      BY <1>1, <2>2, CurFits DEF HeadMoved, Cleared, Tracks
    <3> QED
      BY <1>1, <1>3, <2>2, <3>1, CurFits
  <2>3. CASE d # -1 /\ ~moved
    BY <1>1, <2>3, CurFits DEF Cleared, Tracks
  <2> QED
    BY <2>1, <2>2, <2>3
<1>5. track' = [track EXCEPT ![p] = u]
  BY DEF HeadGet
<1>6. track'[q] = IF q = p THEN u ELSE track[q]
  BY <1>5 DEF IInv, TypeOK
<1> QED
  BY <1>1, <1>4, <1>6 DEF ErrorStep, Off

LEMMA AdGetErr ==
  ASSUME IInv, AdGet, NEW q \in Providers, store = EmptyStore
  PROVE  ErrorStep(q)
<1> DEFINE p == cur.pid
           t == track[p]
           d == GetDist(p, cur.lastAd, t.ad)
           u == IF d = -1 THEN TooFar(t) ELSE AdMoved(t, d, cur.lastAd)
<1>1. pc = "ad" /\ t.head # Undef /\ cur.lastAd <= t.head
  BY DEF AdGet, IInv, UpdateFits
<1>2. t.ad \in 1..cur.lastAd
  BY <1>1, CurFits DEF Fits, Undef
<1>3. d = IF cur.lastAd - t.ad > DepthLimit THEN -1 ELSE cur.lastAd - t.ad
  BY <1>1, <1>2, CurFits, WalkDistance
<1>4. u.head # Undef => u.dist - (u.head - u.ad) = t.dist - (t.head - t.ad)
  <2>1. CASE d = -1
    BY <1>1, <2>1, CurFits DEF TooFar, Cleared, Tracks
  <2>2. CASE d # -1
    <3>1. u.head = t.head /\ u.ad = cur.lastAd /\ u.dist = t.dist - d
      BY <1>1, <2>2, CurFits DEF AdMoved, Cleared, Tracks
    <3> QED
      BY <1>1, <1>3, <2>2, <3>1, CurFits
  <2> QED
    BY <2>1, <2>2
<1>5. track' = [track EXCEPT ![p] = u]
  BY DEF AdGet
<1>6. track'[q] = IF q = p THEN u ELSE track[q]
  BY <1>5 DEF IInv, TypeOK
<1> QED
  BY <1>1, <1>4, <1>6 DEF ErrorStep, Off

(* Every step but a Get that succeeds leaves what is kept of the chains alone. *)
LEMMA ErrorNext ==
  ASSUME IInv, [Next]_vars, NEW p \in Providers
  PROVE  ErrorStep(p)
<1> SUFFICES ASSUME store = EmptyStore PROVE ErrorStep(p)
  BY DEF ErrorStep
<1> USE DEF env
<1>1. ASSUME track' = track PROVE ErrorStep(p)
  BY <1>1 DEF ErrorStep, Off
<1>2. ASSUME NEW q \in Providers, LookupRejects(q) PROVE ErrorStep(p)
  BY <1>2, AnnounceSame, SameTracksErr DEF LookupRejects, IInv
<1>3. CASE FirstGetFails \/ HeadGetFails \/ AdGetFails
  <2>1. UNCHANGED <<chain, seen>> /\ cur.pid \in Providers
    BY <1>3, CurType DEF FirstGetFails, HeadGetFails, AdGetFails, IInv
  <2>2. Announce(cur.pid, "update")
    BY <1>3 DEF FirstGetFails, HeadGetFails, AdGetFails, GetFails
  <2> QED
    BY <2>1, <2>2, AnnounceSame, SameTracksErr DEF IInv
<1>4. CASE FirstGet \/ HeadGet \/ AdGet
  BY <1>4, FirstGetErr, HeadGetErr, AdGetErr
<1>5. \/ track' = track
      \/ \E q \in Providers : LookupRejects(q)
      \/ FirstGetFails \/ HeadGetFails \/ AdGetFails
      \/ FirstGet \/ HeadGet \/ AdGet
  BY DEF Next, Publish, Ingest, Relist, Visit, LookupFails, Lookup, Cancel,
     Refresh, RefreshFails, Stop, EndRound, Updating, Receive, vars
<1> QED
  BY <1>1, <1>2, <1>3, <1>4, <1>5

LEMMA ExactNext ==
  ASSUME IInv, [Next]_vars, NEW p \in Providers, store = EmptyStore, Exact(p)
  PROVE  Exact(p)'
  BY ErrorNext DEF ErrorStep, Exact

(* The store is touched by a Get only: one that succeeds leaves it empty.      *)
LEMMA StoreStep ==
  ASSUME [Next]_vars
  PROVE  \/ store' \in {store, EmptyStore}
         \/ \E q, newest, oldest : GetFails(q, newest, oldest)
  BY DEF Next, Publish, Ingest, Relist, Visit, LookupFails, LookupRejects, Lookup, Cancel,
     Refresh, RefreshFails, Stop, EndRound, Updating, FirstGet, HeadGet, AdGet, Receive,
     FirstGetFails, HeadGetFails, AdGetFails, vars

ErrorsStay == [][\A p \in Providers : ErrorStep(p)]_vars

(* While the store is clean, the error of a distance is passed on as it is by *)
(* every update, however the head and the ad move and whatever fails: exact   *)
(* stays exact, and a distance that a failed sync's blocks have made wrong is *)
(* not put right until it has been dropped and is measured from scratch.      *)
THEOREM ErrorsArePassedOn == Spec => ErrorsStay
<1>1. IInv /\ [Next]_vars => [\A p \in Providers : ErrorStep(p)]_vars
  BY ErrorNext
<1>2. IInv /\ [Next]_vars => IInv'
  BY IInvStep
<1> QED
  BY <1>1, <1>2, IInvInit, PTL DEF Spec, ErrorsStay

(* If no sync fails half way, every distance the tracker keeps is exact: it   *)
(* is the number of ads between the head and the last seen ad it belongs to,  *)
(* whatever was published, ingested, delisted or failed in between, and for   *)
(* any limit; or it is -1 and no head is kept.                                *)
THEOREM TrackedDistancesExact ==
  ASSUME MaxPartial = 0
  PROVE  Spec => []DistExact
<1> DEFINE Inv == IInv /\ store = EmptyStore /\ \A p \in Providers : Exact(p)
<1>1. Init => Inv
  BY IInvInit DEF Init, Exact, NewTrack
<1>2. Inv /\ [Next]_vars => Inv'
  <2> SUFFICES ASSUME Inv, [Next]_vars PROVE Inv'
    OBVIOUS
  <2>1. store' = EmptyStore
    <3>1. ASSUME NEW q, NEW newest, NEW oldest, GetFails(q, newest, oldest)
          PROVE  store' = store
      BY <3>1 DEF GetFails, AfterWalk
    <3> QED
      BY <3>1, StoreStep
  <2> QED
    BY <2>1, IInvStep, ExactNext
<1>3. Inv => DistExact
  BY IInvExact
<1> QED
  BY <1>1, <1>2, <1>3, PTL DEF Spec

-----------------------------------------------------------------------------
(* The inductive invariant behind NeverMovesBack.  It needs no exact distance, *)
(* so failed syncs may leave blocks in the store: what a track is set to is    *)
(* the chain head, or the ad that was read of the indexer, and neither was     *)
(* ever behind what the track has.                                             *)
TracksBehind ==
  \A p \in Providers : track[p].head <= chain[p] /\ track[p].ad <= seen[p]

UpdateAhead ==
  pc \in {"first", "head", "ad"} =>
    /\ track[cur.pid].ad <= cur.lastAd
    /\ cur.lastAd <= seen[cur.pid]
    /\ pc = "first" => track[cur.pid].head = Undef

InOrder == TypeOK /\ TracksBehind /\ UpdateAhead

(* What NeverMovesBack says of one step. *)
NoneMovesBack ==
  \A p \in Providers :
    /\ \/ track'[p].head >= track[p].head
       \/ track'[p].head = Undef /\ track'[p].dist = -1
    /\ track'[p].ad >= track[p].ad

LEMMA InOrderInit == Init => InOrder
<1> SUFFICES ASSUME Init PROVE InOrder
  OBVIOUS
<1>1. TypeOK
  BY TypeInit
<1>2. TracksBehind
  BY BoundsAssumption DEF Init, NewTrack, TracksBehind, Undef
<1> QED
  BY <1>1, <1>2 DEF Init, InOrder, UpdateAhead

(* The numbers of a track, and of a running update. *)
LEMMA TrackNumbers ==
  ASSUME TypeOK, NEW p \in Providers
  PROVE  /\ track[p].head \in Nat /\ track[p].ad \in Nat /\ track[p].dist \in Int
         /\ chain[p] \in Nat /\ seen[p] \in Nat
  BY BoundsAssumption DEF TypeOK, Tracks, Ads

LEMMA CurNumbers ==
  ASSUME TypeOK, pc \in {"first", "head", "ad"}
  PROVE  cur.pid \in Providers /\ cur.lastAd \in Nat /\ track[cur.pid] \in Tracks
  BY CurType, BoundsAssumption DEF Ads

(* A step that leaves the heads and ads of the tracks alone. *)
LEMMA SameTracksBehind ==
  ASSUME TypeOK, TracksBehind, SameTracks
  PROVE  TracksBehind' /\ NoneMovesBack
  BY TrackNumbers DEF TracksBehind, SameTracks, NoneMovesBack

(* A Get that moves one track on, or drops its head. *)
LEMMA OneTrackBehind ==
  ASSUME TypeOK, TracksBehind, UNCHANGED <<chain, seen>>, NEW p \in Providers, NEW u,
         track' = [track EXCEPT ![p] = u],
         u.head <= chain[p] /\ u.ad <= seen[p],
         u.head >= track[p].head \/ (u.head = Undef /\ u.dist = -1),
         u.ad >= track[p].ad
  PROVE  TracksBehind' /\ NoneMovesBack
<1> SUFFICES ASSUME NEW q \in Providers
             PROVE  /\ track'[q].head <= chain[q] /\ track'[q].ad <= seen[q]
                    /\ \/ track'[q].head >= track[q].head
                       \/ track'[q].head = Undef /\ track'[q].dist = -1
                    /\ track'[q].ad >= track[q].ad
  BY DEF TracksBehind, NoneMovesBack
<1>1. CASE q = p
  BY <1>1 DEF TypeOK
<1>2. CASE q # p
  <2>1. track'[q] = track[q]
    BY <1>2 DEF TypeOK
  <2> QED
    BY <2>1, TrackNumbers DEF TracksBehind
<1> QED
  BY <1>1, <1>2

LEMMA FirstGetMovesOn ==
  ASSUME InOrder, FirstGet
  PROVE  TracksBehind' /\ NoneMovesBack
<1> DEFINE p == cur.pid
           t == track[p]
           d == GetDist(p, chain[p], cur.lastAd)
           u == Started(t, d, chain[p], cur.lastAd)
<1>1. pc = "first" /\ TypeOK /\ TracksBehind
  BY DEF FirstGet, InOrder
<1>2. p \in Providers /\ cur.lastAd \in Nat /\ t \in Tracks
  BY <1>1, CurNumbers
<1>3. t.head = Undef /\ t.ad <= cur.lastAd /\ cur.lastAd <= seen[p]
  BY <1>1 DEF InOrder, UpdateAhead
<1>4. u.ad = cur.lastAd /\ u.head = IF d # -1 THEN chain[p] ELSE Undef
  BY <1>2, <1>3 DEF Started, Cleared, Tracks
<1>5. u.head <= chain[p] /\ u.head >= t.head
  BY <1>1, <1>2, <1>3, <1>4, TrackNumbers DEF Undef
<1>6. track' = [track EXCEPT ![p] = u] /\ UNCHANGED <<chain, seen>>
  BY DEF FirstGet, env
<1> QED
  BY <1>1, <1>2, <1>3, <1>4, <1>5, <1>6, TrackNumbers, OneTrackBehind

LEMMA HeadGetMovesOn ==
  ASSUME InOrder, HeadGet
  PROVE  TracksBehind' /\ NoneMovesBack /\ UpdateAhead'
<1> DEFINE p == cur.pid
           t == track[p]
           d == GetDist(p, chain[p], t.head)
           moved == chain[p] # t.head
           u == IF d = -1 THEN TooFar(t)
                ELSE IF moved THEN HeadMoved(t, d, chain[p]) ELSE Cleared(t)
<1>1. pc = "head" /\ TypeOK /\ TracksBehind
  BY DEF HeadGet, InOrder
<1>2. p \in Providers /\ cur.lastAd \in Nat /\ t \in Tracks
  BY <1>1, CurNumbers
<1>3. t.ad <= cur.lastAd /\ cur.lastAd <= seen[p]
  BY <1>1 DEF InOrder, UpdateAhead
<1>4. u.ad = t.ad /\ \/ u.head = Undef /\ u.dist = -1
                     \/ u.head = chain[p]
  BY <1>2 DEF TooFar, HeadMoved, Cleared, Tracks
<1>5. /\ track' = [track EXCEPT ![p] = u]
      /\ UNCHANGED <<chain, seen>>
      /\ cur'.pid = p /\ cur'.lastAd = cur.lastAd
      /\ pc' \in {"ad", "send", "each"}
  BY <1>1 DEF HeadGet, SendDist, Send, Silent, env, TypeOK, Updates
<1>6. TracksBehind' /\ NoneMovesBack
  <2>1. /\ t.head \in Nat /\ t.ad \in Nat /\ chain[p] \in Nat /\ seen[p] \in Nat
        /\ t.head <= chain[p] /\ t.ad <= seen[p]
    BY <1>1, <1>2, TrackNumbers DEF TracksBehind
  <2>2. u.head <= chain[p] /\ u.ad <= seen[p] /\ u.ad >= t.ad
    BY <1>4, <2>1 DEF Undef
  <2>3. u.head >= t.head \/ (u.head = Undef /\ u.dist = -1)
    BY <1>4, <2>1
  <2> QED
    BY <1>1, <1>2, <1>5, <2>2, <2>3, OneTrackBehind
<1>7. UpdateAhead'
  <2>1. track'[p].ad = t.ad
    BY <1>1, <1>2, <1>4, <1>5 DEF TypeOK
  <2> QED
    BY <1>3, <1>5, <2>1 DEF UpdateAhead
<1> QED
  BY <1>6, <1>7

LEMMA AdGetMovesOn ==
  ASSUME InOrder, AdGet
  PROVE  TracksBehind' /\ NoneMovesBack
<1> DEFINE p == cur.pid
           t == track[p]
           d == GetDist(p, cur.lastAd, t.ad)
           u == IF d = -1 THEN TooFar(t) ELSE AdMoved(t, d, cur.lastAd)
<1>1. pc = "ad" /\ TypeOK /\ TracksBehind
  BY DEF AdGet, InOrder
<1>2. p \in Providers /\ cur.lastAd \in Nat /\ t \in Tracks
  BY <1>1, CurNumbers
<1>3. t.ad <= cur.lastAd /\ cur.lastAd <= seen[p]
  BY <1>1 DEF InOrder, UpdateAhead
<1>4. \/ u.ad = t.ad /\ u.head = Undef /\ u.dist = -1
      \/ u.ad = cur.lastAd /\ u.head = t.head
  BY <1>2 DEF TooFar, AdMoved, Cleared, Tracks
<1>5. /\ t.head \in Nat /\ t.ad \in Nat /\ chain[p] \in Nat /\ seen[p] \in Nat
      /\ t.head <= chain[p] /\ t.ad <= seen[p]
  BY <1>1, <1>2, TrackNumbers DEF TracksBehind
<1>6. /\ u.head <= chain[p] /\ u.ad <= seen[p] /\ u.ad >= t.ad
      /\ u.head >= t.head \/ (u.head = Undef /\ u.dist = -1)
  BY <1>2, <1>3, <1>4, <1>5 DEF Undef
<1>7. track' = [track EXCEPT ![p] = u] /\ UNCHANGED <<chain, seen>>
  BY DEF AdGet, env
<1> QED
  BY <1>1, <1>2, <1>6, <1>7, OneTrackBehind

LEMMA InOrderStep ==
  ASSUME InOrder, [Next]_vars
  PROVE  InOrder' /\ NoneMovesBack
<1> USE DEF env
<1>1. TypeOK /\ TypeOK' /\ TracksBehind /\ UpdateAhead
  BY TypeStep DEF InOrder
<1>2. ASSUME NEW p \in Providers, Publish(p) PROVE InOrder' /\ NoneMovesBack
  <2>1. \A q \in Providers : chain[q] \in Nat /\ chain'[q] \in Nat /\ chain[q] <= chain'[q]
    BY <1>1, <1>2, TrackNumbers DEF Publish, TypeOK
  <2>2. TracksBehind' /\ NoneMovesBack
    BY <1>1, <1>2, <2>1, TrackNumbers DEF Publish, TracksBehind, NoneMovesBack
  <2> QED
    BY <1>1, <1>2, <2>2 DEF Publish, InOrder, UpdateAhead
<1>3. ASSUME NEW p \in Providers, Ingest(p) PROVE InOrder' /\ NoneMovesBack
  <2>1. PICK a \in Ads : seen[p] < a /\ seen' = [seen EXCEPT ![p] = a]
    BY <1>3 DEF Ingest
  <2>2. \A q \in Providers : seen[q] \in Nat /\ seen'[q] \in Nat /\ seen[q] <= seen'[q]
    BY <1>1, <2>1, TrackNumbers, BoundsAssumption DEF TypeOK, Ads
  <2>3. TracksBehind' /\ NoneMovesBack
    BY <1>1, <1>3, <2>2, TrackNumbers DEF Ingest, TracksBehind, NoneMovesBack
  <2>4. UpdateAhead'
    BY <1>1, <1>3, <2>2, CurNumbers DEF Ingest, UpdateAhead
  <2> QED
    BY <1>1, <2>3, <2>4 DEF InOrder
<1>4. CASE \/ \E p \in Providers : Relist(p) \/ LookupFails(p)
           \/ Cancel \/ Refresh \/ RefreshFails \/ Stop \/ EndRound \/ Receive
           \/ UNCHANGED vars
  <2>1. UNCHANGED <<chain, seen, track, cur>> /\ (pc' = pc \/ pc' \in {"closed", "each", "wait"})
    BY <1>4 DEF Relist, LookupFails, Cancel, Refresh, RefreshFails, Stop, EndRound,
                Receive, vars
  <2>2. TracksBehind' /\ NoneMovesBack
    BY <1>1, <2>1, SameTracksBehind DEF SameTracks
  <2> QED
    BY <1>1, <2>1, <2>2 DEF InOrder, UpdateAhead
<1>5. ASSUME NEW p \in Providers, LookupRejects(p) PROVE InOrder' /\ NoneMovesBack
  <2>1. SameTracks /\ pc' \in {"each", "send"}
    BY <1>1, <1>5, AnnounceSame DEF LookupRejects
  <2> QED
    BY <1>1, <2>1, SameTracksBehind DEF InOrder, UpdateAhead
<1>6. ASSUME NEW p \in Providers, Lookup(p) PROVE InOrder' /\ NoneMovesBack
  <2>1. /\ UNCHANGED <<chain, seen, track>> /\ cur'.pid = p /\ cur'.lastAd = seen[p]
        /\ pc' = IF track[p].head = Undef THEN "first" ELSE "head"
    BY <1>6 DEF Lookup
  <2>2. TracksBehind' /\ NoneMovesBack
    BY <1>1, <2>1, SameTracksBehind DEF SameTracks
  <2>3. UpdateAhead'
    BY <1>1, <2>1, TrackNumbers DEF TracksBehind, UpdateAhead
  <2> QED
    BY <1>1, <2>2, <2>3 DEF InOrder
<1>7. CASE FirstGet
  BY <1>1, <1>7, FirstGetMovesOn DEF FirstGet, SendDist, Send, InOrder, UpdateAhead
<1>8. CASE FirstGetFails \/ HeadGetFails \/ AdGetFails
  <2>1. UNCHANGED <<chain, seen>> /\ cur.pid \in Providers
    BY <1>1, <1>8, CurNumbers DEF FirstGetFails, HeadGetFails, AdGetFails
  <2>2. Announce(cur.pid, "update")
    BY <1>8 DEF FirstGetFails, HeadGetFails, AdGetFails, GetFails
  <2>3. SameTracks /\ pc' \in {"each", "send"}
    BY <1>1, <2>1, <2>2, AnnounceSame
  <2> QED
    BY <1>1, <2>3, SameTracksBehind DEF InOrder, UpdateAhead
<1>9. CASE HeadGet
  BY <1>1, <1>9, HeadGetMovesOn DEF InOrder
<1>10. CASE AdGet
  BY <1>1, <1>10, AdGetMovesOn DEF AdGet, SendDist, Send, InOrder, UpdateAhead
<1> QED
  BY <1>2, <1>3, <1>4, <1>5, <1>6, <1>7, <1>8, <1>9, <1>10 DEF Next, Visit, Updating

(* Whatever fails, and whatever failed syncs leave behind, no step of the      *)
(* tracker moves a provider's head or ad back: it keeps or advances them, or   *)
(* drops the head of a distance that is too long.                              *)
THEOREM HeadsNeverMoveBack == Spec => NeverMovesBack
<1>1. Init => InOrder
  BY InOrderInit
<1>2. InOrder /\ [Next]_vars => InOrder' /\ NoneMovesBack
  BY InOrderStep
<1> QED
  BY <1>1, <1>2, PTL DEF Spec, NeverMovesBack, NoneMovesBack

-----------------------------------------------------------------------------
(* What the consumer has printed agrees with what the tracker holds, for      *)
(* every set of providers, length of chains and limit, and whatever failed    *)
(* syncs leave in the shared store.                                           *)
Lines == Errors \cup {"none", "dist"}
Shown == [dist : SUBSET Int, line : Lines]
Outs == [id : Providers, dist : Int, err : {"none"}] \cup [id : Providers, err : Errors]

(* What the user has been told of p, once an update that is being sent is     *)
(* received.                                                                  *)
Sending(p) == pc = "send" /\ out.id = p
ToldDist(p) == IF Sending(p) /\ out.err = "none" THEN {out.dist} ELSE shown[p].dist
ToldLine(p) == IF ~Sending(p) THEN shown[p].line
               ELSE IF out.err = "none" THEN "dist" ELSE out.err

(* An update that fails at its second Get has changed the distance without    *)
(* telling: then the ad of the track is behind the one the indexer has seen,  *)
(* and an error is recorded, or the second Get is still to be done.           *)
Owed(p) ==
  /\ track[p].ad < seen[p]
  /\ track[p].errType # "none" \/ (pc = "ad" /\ cur.pid = p)

Agrees(p) ==
  /\ track[p].ad # Undef => ToldDist(p) = {track[p].dist} \/ Owed(p)
  /\ track[p].errType # "none" => ToldLine(p) = track[p].errType

(* What is owed is told by this update, as it reads an ad beyond the track's. *)
UpdateTells ==
  LET t == track[cur.pid]
  IN  /\ pc = "ad" => t.ad < cur.lastAd
      /\ pc = "head" /\ t.ad # Undef /\ ToldDist(cur.pid) # {t.dist} => t.ad < cur.lastAd

ShownType ==
  /\ shown \in [Providers -> Shown]
  /\ pc = "send" => out \in Outs

Tells == ShownType /\ (\A p \in Providers : Agrees(p)) /\ UpdateTells

LEMMA ToldQuiet ==
  ASSUME NEW p \in Providers, pc # "send"
  PROVE  ToldDist(p) = shown[p].dist /\ ToldLine(p) = shown[p].line
  BY DEF ToldDist, ToldLine, Sending

LEMMA TellsInit == Init => Tells
<1> SUFFICES ASSUME Init PROVE Tells
  OBVIOUS
<1>1. ShownType
  <2>1. [dist |-> NoDist, line |-> "none"] \in Shown
    BY DEF Shown, NoDist, Lines
  <2> QED
    BY <2>1 DEF Init, ShownType
<1>2. \A p \in Providers : Agrees(p)
  BY DEF Init, Agrees, NewTrack
<1> QED
  BY <1>1, <1>2 DEF Init, Tells, UpdateTells

LEMMA TellsImply == TypeOK /\ Tells => ShownMatchesTrack
<1> SUFFICES ASSUME Tells, pc \in {"wait", "each", "closed"}, NEW p \in Providers
             PROVE  /\ track[p].errType = "none" /\ track[p].ad # Undef
                          => shown[p].dist = {track[p].dist}
                    /\ track[p].errType # "none" => shown[p].line = track[p].errType
  BY DEF ShownMatchesTrack
<1> QED
  BY ToldQuiet DEF Tells, Agrees, Owed

(* A step that neither changes a track nor tells anything.                    *)
LEMMA QuietStep ==
  ASSUME InOrder, Tells, UNCHANGED <<track, shown, out>>,
         \A q \in Providers : seen'[q] \in Nat /\ seen[q] <= seen'[q],
         \/ UNCHANGED <<pc, cur>>
         \/ pc \notin {"send", "head", "ad"} /\ pc' \notin {"send", "head", "ad"}
  PROVE  Tells'
<1>1. ShownType'
  BY DEF Tells, ShownType
<1>2. ASSUME NEW p \in Providers PROVE Agrees(p)'
  <2>1. ToldDist(p)' = ToldDist(p) /\ ToldLine(p)' = ToldLine(p)
    BY DEF ToldDist, ToldLine, Sending
  <2>2. Owed(p) => Owed(p)'
    BY <1>2, TrackNumbers DEF Owed, InOrder
  <2> QED
    BY <1>2, <2>1, <2>2 DEF Tells, Agrees
<1>3. UpdateTells'
  BY DEF Tells, UpdateTells, ToldDist, Sending
<1> QED
  BY <1>1, <1>2, <1>3 DEF Tells

(* A distance that is sent is the one the track has now.                      *)
LEMMA SentAgrees ==
  ASSUME InOrder, Tells, pc # "send", pc \in {"first", "head", "ad"},
         UNCHANGED <<shown, seen>>, NEW u \in Tracks, u.errType = "none",
         track' = [track EXCEPT ![cur.pid] = u], SendDist(cur.pid, u.dist)
  PROVE  Tells'
<1> DEFINE p == cur.pid
<1>1. p \in Providers /\ TypeOK
  BY CurNumbers DEF InOrder
<1>2. pc' = "send" /\ out' = [id |-> p, dist |-> u.dist, err |-> "none"] /\ u.dist \in Int
  BY DEF SendDist, Send, Tracks
<1>3. ShownType'
  BY <1>1, <1>2 DEF Tells, ShownType, Outs
<1>4. ASSUME NEW q \in Providers PROVE Agrees(q)'
  <2>1. CASE q = p
    <3>1. track'[q] = u
      BY <1>1, <2>1 DEF TypeOK
    <3>2. ToldDist(q)' = {u.dist}
      BY <1>2, <2>1 DEF ToldDist, Sending
    <3> QED
      BY <3>1, <3>2 DEF Agrees
  <2>2. CASE q # p
    <3>1. track'[q] = track[q] /\ seen'[q] = seen[q]
      BY <2>2 DEF TypeOK, InOrder
    <3>2. ToldDist(q)' = ToldDist(q) /\ ToldLine(q)' = ToldLine(q)
      BY <1>2, <2>2 DEF ToldDist, ToldLine, Sending
    <3>3. Owed(q) => Owed(q)'
      BY <2>2, <3>1 DEF Owed
    <3> QED
      BY <1>4, <3>1, <3>2, <3>3 DEF Tells, Agrees
  <2> QED
    BY <2>1, <2>2
<1>5. UpdateTells'
  BY <1>2 DEF UpdateTells
<1> QED
  BY <1>3, <1>4, <1>5 DEF Tells

(* An update that ends with an error: what it has not told is owed.           *)
LEMMA AnnouncedAgrees ==
  ASSUME InOrder, Tells, pc # "send", NEW p \in Providers, NEW kind \in Errors,
         Announce(p, kind), UNCHANGED <<shown, seen>>, pc = "ad" => cur.pid = p
  PROVE  Tells'
<1>1. TypeOK /\ kind # "none"
  BY DEF InOrder, Errors
<1>2. CASE track[p].errType # kind
  <2>1. /\ track' = [track EXCEPT ![p].errType = kind]
        /\ pc' = "send" /\ out' = [id |-> p, err |-> kind]
    BY <1>2 DEF Announce, Send
  <2>2. ShownType'
    BY <2>1 DEF Tells, ShownType, Outs
  <2>3. ASSUME NEW q \in Providers PROVE Agrees(q)'
    <3>1. /\ track'[q].dist = track[q].dist /\ track'[q].ad = track[q].ad
          /\ track'[q].errType = IF q = p THEN kind ELSE track[q].errType
      BY <1>1, <2>1 DEF TypeOK, Tracks
    <3>2. ToldDist(q) = shown[q].dist /\ ToldLine(q) = shown[q].line
      BY ToldQuiet
    <3>3. ToldDist(q)' = shown[q].dist
      BY <1>1, <2>1 DEF ToldDist, Sending
    <3>4. ToldLine(q)' = IF q = p THEN kind ELSE shown[q].line
      BY <1>1, <2>1 DEF ToldLine, Sending
    <3>5. Owed(q) => Owed(q)'
      BY <1>1, <3>1 DEF Owed
    <3> QED
      BY <1>1, <2>3, <3>1, <3>2, <3>3, <3>4, <3>5 DEF Tells, Agrees
  <2>4. UpdateTells'
    BY <2>1 DEF UpdateTells
  <2> QED
    BY <2>2, <2>3, <2>4 DEF Tells
<1>3. CASE track[p].errType = kind
  <2>1. UNCHANGED <<track, out>> /\ pc' = "each"
    BY <1>3 DEF Announce, Silent
  <2>2. ASSUME NEW q \in Providers PROVE Agrees(q)'
    <3>1. ToldDist(q)' = ToldDist(q) /\ ToldLine(q)' = ToldLine(q)
      BY <2>1 DEF ToldDist, ToldLine, Sending
    <3>2. Owed(q) => Owed(q)'
      BY <1>1, <1>3, <2>1 DEF Owed
    <3> QED
      BY <2>1, <2>2, <3>1, <3>2 DEF Tells, Agrees
  <2> QED
    BY <2>1, <2>2 DEF Tells, ShownType, UpdateTells
<1> QED
  BY <1>2, <1>3

(* The update is received: what was sent becomes what is shown.               *)
LEMMA ReceiveAgrees ==
  ASSUME InOrder, Tells, Receive
  PROVE  Tells'
<1>1. /\ pc = "send" /\ pc' = "each" /\ UNCHANGED <<track, seen, out, cur>>
      /\ out \in Outs /\ shown \in [Providers -> Shown]
  BY DEF Receive, env, Tells, ShownType
<1>2. PICK s \in Shown : /\ shown' = [shown EXCEPT ![out.id] = s]
                         /\ s.dist = IF out.err = "none" THEN {out.dist}
                                     ELSE shown[out.id].dist
                         /\ s.line = IF out.err = "none" THEN "dist" ELSE out.err
  <2>1. CASE out.err = "none"
    <3> DEFINE s == [dist |-> {out.dist}, line |-> "dist"]
    <3>1. s \in Shown
      BY <1>1, <2>1 DEF Outs, Errors, Shown, Lines
    <3> QED
      BY <2>1, <3>1 DEF Receive
  <2>2. CASE out.err # "none"
    <3> DEFINE s == [shown[out.id] EXCEPT !.line = out.err]
    <3>1. out.err \in Lines /\ shown[out.id] \in Shown
      BY <1>1, <2>2 DEF Outs, Lines
    <3>2. s \in Shown /\ s.dist = shown[out.id].dist /\ s.line = out.err
      BY <3>1 DEF Shown
    <3>3. shown' = [shown EXCEPT ![out.id] = s]
      BY <2>2 DEF Receive
    <3> QED
      BY <2>2, <3>2, <3>3
  <2> QED
    BY <2>1, <2>2
<1>3. ShownType'
  BY <1>1, <1>2 DEF ShownType
<1>4. ASSUME NEW p \in Providers PROVE Agrees(p)'
  <2>1. ToldDist(p)' = ToldDist(p) /\ ToldLine(p)' = ToldLine(p)
    BY <1>1, <1>2 DEF ToldDist, ToldLine, Sending
  <2>2. Owed(p) => Owed(p)'
    BY <1>1 DEF Owed
  <2> QED
    BY <1>1, <1>4, <2>1, <2>2 DEF Tells, Agrees
<1> QED
  BY <1>1, <1>3, <1>4 DEF Tells, UpdateTells

(* The update starts: what is owed to its provider is owed because the        *)
(* indexer has seen a later ad than the track has.                            *)
LEMMA LookupAgrees ==
  ASSUME InOrder, Tells, NEW p \in Providers, Lookup(p)
  PROVE  Tells'
<1>1. /\ pc = "each" /\ pc' \in {"first", "head"}
      /\ UNCHANGED <<track, seen, out, shown>>
      /\ cur'.pid = p /\ cur'.lastAd = seen[p]
  BY DEF Lookup, env
<1>2. ASSUME NEW q \in Providers PROVE Agrees(q)'
  <2>1. ToldDist(q)' = ToldDist(q) /\ ToldLine(q)' = ToldLine(q)
    BY <1>1 DEF ToldDist, ToldLine, Sending
  <2>2. Owed(q) => Owed(q)'
    BY <1>1 DEF Owed
  <2> QED
    BY <1>1, <1>2, <2>1, <2>2 DEF Tells, Agrees
<1>3. UpdateTells'
  <2>1. ToldDist(p)' = ToldDist(p)
    BY <1>1 DEF ToldDist, Sending
  <2>2. track[p].ad # Undef /\ ToldDist(p) # {track[p].dist} => track[p].ad < seen[p]
    BY DEF Tells, Agrees, Owed
  <2> QED
    BY <1>1, <2>1, <2>2 DEF UpdateTells
<1> QED
  BY <1>1, <1>2, <1>3 DEF Tells, ShownType

LEMMA FirstGetAgrees ==
  ASSUME InOrder, Tells, FirstGet
  PROVE  Tells'
<1> DEFINE p == cur.pid
           d == GetDist(p, chain[p], cur.lastAd)
           u == Started(track[p], d, chain[p], cur.lastAd)
<1>1. pc = "first" /\ TypeOK
  BY DEF FirstGet, InOrder
<1>2. p \in Providers /\ track[p] \in Tracks /\ cur.lastAd \in Ads /\ chain[p] \in Ads
  BY <1>1, CurType, BoundsAssumption DEF Ads
<1>3. d \in Int
  BY <1>1, <1>2, GetDistType, BoundsAssumption DEF TypeOK, Ads
<1>4. u \in Tracks
  BY <1>2, <1>3, TrackOps
<1>5. u.errType = "none" /\ u.dist = d
  BY <1>2 DEF Started, Cleared, Tracks
<1>6. track' = [track EXCEPT ![p] = u] /\ SendDist(p, d) /\ UNCHANGED <<shown, seen>>
  BY DEF FirstGet, env
<1> QED
  BY <1>1, <1>4, <1>5, <1>6, SentAgrees

LEMMA AdGetAgrees ==
  ASSUME InOrder, Tells, AdGet
  PROVE  Tells'
<1> DEFINE p == cur.pid
           t == track[p]
           d == GetDist(p, cur.lastAd, t.ad)
           u == IF d = -1 THEN TooFar(t) ELSE AdMoved(t, d, cur.lastAd)
<1>1. pc = "ad" /\ TypeOK
  BY DEF AdGet, InOrder
<1>2. p \in Providers /\ t \in Tracks /\ cur.lastAd \in Ads
  BY <1>1, CurType
<1>3. t.ad \in Nat /\ cur.lastAd \in Nat
  BY <1>2, BoundsAssumption DEF Tracks, Ads
<1>4. d \in Int
  BY <1>1, <1>3, GetDistType DEF TypeOK
<1>5. u \in Tracks
  BY <1>2, <1>4, TrackOps
<1>6. u.errType = "none"
  BY <1>2 DEF TooFar, AdMoved, Cleared, Tracks
<1>7. track' = [track EXCEPT ![p] = u] /\ SendDist(p, u.dist) /\ UNCHANGED <<shown, seen>>
  BY DEF AdGet, env
<1> QED
  BY <1>1, <1>5, <1>6, <1>7, SentAgrees

(* The first of an update's two Gets: too far and no more to do are told at   *)
(* once, or there is nothing to tell; else the second Get will tell.          *)
LEMMA HeadGetAgrees ==
  ASSUME InOrder, Tells, HeadGet
  PROVE  Tells'
<1> DEFINE p == cur.pid
           t == track[p]
           d == GetDist(p, chain[p], t.head)
           moved == chain[p] # t.head
           u == IF d = -1 THEN TooFar(t)
                ELSE IF moved THEN HeadMoved(t, d, chain[p]) ELSE Cleared(t)
<1>1. pc = "head" /\ TypeOK /\ UNCHANGED <<shown, seen>>
  BY DEF HeadGet, InOrder, env
<1>2. p \in Providers /\ t \in Tracks /\ cur \in Updates /\ chain[p] \in Ads
  BY <1>1, CurType, BoundsAssumption DEF Ads, TypeOK
<1>3. d \in Int
  BY <1>1, <1>2, GetDistType, TrackNumbers DEF TypeOK
<1>4. u \in Tracks
  BY <1>2, <1>3, TrackOps
<1>5. u.errType = "none" /\ u.ad = t.ad
  BY <1>2 DEF TooFar, HeadMoved, Cleared, Tracks
<1>6. track' = [track EXCEPT ![p] = u]
  BY DEF HeadGet
<1>7. t.ad <= cur.lastAd /\ cur.lastAd <= seen[p] /\ t.ad \in Nat /\ cur.lastAd \in Nat
      /\ seen[p] \in Nat
  BY <1>1, <1>2, CurNumbers, TrackNumbers DEF InOrder, UpdateAhead
<1>8. track'[p] = u /\ \A q \in Providers : q # p => track'[q] = track[q]
  BY <1>1, <1>2, <1>6 DEF TypeOK
<1>9. \A q \in Providers : Owed(q) => track[q].errType # "none"
  BY <1>1 DEF Owed
<1>10. CASE d = -1
  <2>1. u.dist = -1 /\ SendDist(p, -1)
    BY <1>2, <1>10 DEF HeadGet, TooFar, Cleared, Tracks
  <2> QED
    BY <1>1, <1>4, <1>5, <1>6, <2>1, SentAgrees
<1>11. CASE d # -1 /\ cur.lastAd = t.ad /\ moved
  <2>1. SendDist(p, u.dist)
    BY <1>11 DEF HeadGet
  <2> QED
    BY <1>1, <1>4, <1>5, <1>6, <2>1, SentAgrees
<1>12. CASE d # -1 /\ cur.lastAd = t.ad /\ ~moved
  <2>1. pc' = "each" /\ out' = out
    BY <1>12 DEF HeadGet, Silent
  <2>2. u.dist = t.dist
    BY <1>2, <1>12 DEF Cleared, Tracks
  <2>3. t.ad # Undef => ToldDist(p) = {t.dist}
    BY <1>1, <1>7, <1>12 DEF Tells, UpdateTells
  <2>4. ASSUME NEW q \in Providers PROVE Agrees(q)'
    <3>1. ToldDist(q)' = ToldDist(q) /\ ToldLine(q)' = ToldLine(q)
      BY <1>1, <2>1 DEF ToldDist, ToldLine, Sending
    <3>2. CASE q = p
      BY <1>5, <1>8, <2>2, <2>3, <3>1, <3>2 DEF Agrees
    <3>3. CASE q # p
      <4>1. Owed(q) => Owed(q)'
        BY <1>1, <1>8, <1>9, <2>4, <3>3 DEF Owed
      <4> QED
        BY <1>8, <2>4, <3>1, <3>3, <4>1 DEF Tells, Agrees
    <3> QED
      BY <3>2, <3>3
  <2> QED
    BY <1>1, <2>1, <2>4 DEF Tells, ShownType, UpdateTells
<1>13. CASE d # -1 /\ cur.lastAd # t.ad
  <2>1. pc' = "ad" /\ out' = out /\ cur'.pid = p /\ cur'.lastAd = cur.lastAd
    BY <1>2, <1>13 DEF HeadGet, Updates
  <2>2. t.ad < cur.lastAd /\ t.ad < seen[p]
    BY <1>7, <1>13
  <2>3. ASSUME NEW q \in Providers PROVE Agrees(q)'
    <3>1. ToldDist(q)' = ToldDist(q) /\ ToldLine(q)' = ToldLine(q)
      BY <1>1, <2>1 DEF ToldDist, ToldLine, Sending
    <3>2. CASE q = p
      <4>1. Owed(q)'
        BY <1>1, <1>5, <1>8, <2>1, <2>2, <3>2 DEF Owed
      <4> QED
        BY <1>5, <1>8, <3>2, <4>1 DEF Agrees
    <3>3. CASE q # p
      <4>1. Owed(q) => Owed(q)'
        BY <1>1, <1>8, <1>9, <2>3, <3>3 DEF Owed
      <4> QED
        BY <1>8, <2>3, <3>1, <3>3, <4>1 DEF Tells, Agrees
    <3> QED
      BY <3>2, <3>3
  <2>4. UpdateTells'
    BY <1>5, <1>8, <2>1, <2>2 DEF UpdateTells
  <2> QED
    BY <1>1, <2>1, <2>3, <2>4 DEF Tells, ShownType
<1> QED
  BY <1>10, <1>11, <1>12, <1>13

LEMMA TellsStep ==
  ASSUME InOrder, Tells, [Next]_vars
  PROVE  Tells'
<1> USE DEF env
<1>1. TypeOK /\ TypeOK'
  BY TypeStep DEF InOrder
<1>2. \A q \in Providers : seen[q] \in Nat
  BY <1>1, TrackNumbers
<1>3. ASSUME NEW p \in Providers, Ingest(p) PROVE Tells'
  <2>1. PICK a \in Ads : seen[p] < a /\ seen' = [seen EXCEPT ![p] = a]
    BY <1>3 DEF Ingest
  <2>2. \A q \in Providers : seen'[q] \in Nat /\ seen[q] <= seen'[q]
    BY <1>1, <1>2, <2>1, BoundsAssumption DEF TypeOK, Ads
  <2> QED
    BY <1>3, <2>2, QuietStep DEF Ingest
<1>4. CASE \/ \E p \in Providers : Publish(p) \/ Relist(p) \/ LookupFails(p)
           \/ Cancel \/ Refresh \/ RefreshFails \/ Stop \/ EndRound \/ UNCHANGED vars
  <2>1. /\ UNCHANGED <<track, shown, out, seen>>
        /\ \/ UNCHANGED <<pc, cur>>
           \/ pc \in {"wait", "each"} /\ pc' \in {"wait", "each", "closed"}
    BY <1>4 DEF Publish, Relist, LookupFails, Cancel, Refresh, RefreshFails, Stop,
                EndRound, vars
  <2> QED
    BY <1>2, <2>1, QuietStep
<1>5. ASSUME NEW p \in Providers, LookupRejects(p) PROVE Tells'
  <2>1. pc = "each" /\ NoDistance(p) \in Errors /\ Announce(p, NoDistance(p))
        /\ UNCHANGED <<shown, seen>>
    BY <1>5 DEF LookupRejects, NoDistance, Errors
  <2> QED
    BY <2>1, AnnouncedAgrees
<1>6. ASSUME NEW p \in Providers, Lookup(p) PROVE Tells'
  BY <1>6, LookupAgrees
<1>7. CASE FirstGet
  BY <1>7, FirstGetAgrees
<1>8. CASE HeadGet
  BY <1>8, HeadGetAgrees
<1>9. CASE AdGet
  BY <1>9, AdGetAgrees
<1>10. CASE FirstGetFails \/ HeadGetFails \/ AdGetFails
  <2>1. /\ pc \in {"first", "head", "ad"} /\ UNCHANGED <<shown, seen>>
        /\ Announce(cur.pid, "update")
    BY <1>10 DEF FirstGetFails, HeadGetFails, AdGetFails, GetFails
  <2>2. cur.pid \in Providers /\ "update" \in Errors
    BY <1>1, <2>1, CurNumbers DEF Errors
  <2> QED
    BY <2>1, <2>2, AnnouncedAgrees
<1>11. CASE Receive
  BY <1>11, ReceiveAgrees
<1> QED
  BY <1>3, <1>4, <1>5, <1>6, <1>7, <1>8, <1>9, <1>10, <1>11 DEF Next, Visit, Updating

(* Whatever fails between two Gets of an update, and whatever failed syncs     *)
(* leave in the store, the distance the user was told last is the one the      *)
(* tracker holds, and an error it holds is the last line the user has seen.    *)
THEOREM WhatIsShownAgrees == Spec => []ShownMatchesTrack
<1>1. Init => InOrder /\ Tells
  BY InOrderInit, TellsInit
<1>2. (InOrder /\ Tells) /\ [Next]_vars => (InOrder /\ Tells)'
  BY InOrderStep, TellsStep
<1>3. InOrder /\ Tells => ShownMatchesTrack
  BY TellsImply DEF InOrder
<1> QED
  BY <1>1, <1>2, <1>3, PTL DEF Spec
-----------------------------------------------------------------------------
(* Why the tracker converges, as far as a state and a step can say it.        *)
(* What is kept of a provider is right: the distance from the head to the     *)
(* last seen ad, or that it is too long to measure.                           *)
Right(p) ==
  LET t == track[p]
  IN  /\ t.errType = "none" /\ t.ad = seen[p] /\ seen[p] # Undef
      /\ \/ t.head = chain[p] /\ t.dist = Lag(p)
         \/ t.head = Undef /\ t.dist = -1 /\ Lag(p) > DepthLimit

(* The running update is about p, and what it has read still holds.           *)
Current(p) ==
  /\ pc \in {"first", "head", "ad"} /\ cur.pid = p /\ cur.lastAd = seen[p]
  /\ pc = "ad" => track[p].head = chain[p]

(* The store holds no block of a failed sync, and no earlier one has made the *)
(* distance kept of p wrong.                                                  *)
Unharmed(p) == store = EmptyStore /\ Exact(p)

(* A step in which p's publisher and the indexer rest, and no call fails.     *)
AtRest(p) ==
  /\ ~cancelled /\ listing[p] = "full" /\ seen[p] # Undef
  /\ chain'[p] = chain[p] /\ seen'[p] = seen[p] /\ faults' = faults

Drops(p) == track[p].head # Undef /\ track'[p].head = Undef

(* What is right stays right, an update begins with what holds, and it ends   *)
(* with what is right or, if it had a head, with none: the next one measures  *)
(* from scratch, and then ends with what is right.  All that after a failed   *)
(* sync too, unless its blocks are in the store or have got into the distance *)
(* kept of p: then it stays wrong (ErrorsArePassedOn).                        *)
SettlesStep(p) ==
  AtRest(p) /\ Unharmed(p) =>
    /\ Unharmed(p)'
    /\ Right(p) => Right(p)'
    /\ pc = "each" /\ pc' \in {"first", "head"} /\ cur'.pid = p => Current(p)'
    /\ Current(p) => Current(p)' \/ Right(p)' \/ Drops(p)

Settles == [][\A p \in Providers : SettlesStep(p)]_vars

(* A step that leaves the track of p alone, and is none of an update of p.    *)
LEMMA OtherSettles ==
  ASSUME NEW p, track'[p] = track[p], store' \in {store, EmptyStore},
         ~Current(p) \/ UNCHANGED <<pc, cur>>,
         ~(pc = "each" /\ pc' \in {"first", "head"} /\ cur'.pid = p)
  PROVE  SettlesStep(p)
<1>1. AtRest(p) /\ Right(p) => Right(p)'
  BY DEF AtRest, Right, Lag
<1>2. AtRest(p) /\ Current(p) => Current(p)'
  BY DEF AtRest, Current
<1>3. Unharmed(p) => Unharmed(p)'
  BY DEF Unharmed, Exact, Off
<1> QED
  BY <1>1, <1>2, <1>3 DEF SettlesStep

LEMMA FirstGetSettles ==
  ASSUME IInv, FirstGet, NEW p, cur.pid = p, AtRest(p), Unharmed(p),
         Right(p) \/ Current(p)
  PROVE  Right(p)'
<1> DEFINE t == track[p]
           d == GetDist(p, chain[p], cur.lastAd)
           u == Started(t, d, chain[p], cur.lastAd)
<1>1. pc = "first" /\ t.head = Undef
  BY DEF FirstGet, IInv, UpdateFits
<1>2. cur.lastAd = seen[p] /\ seen[p] \in 1..chain[p]
  BY <1>1, CurFits DEF Fits, Right, Current
<1>3. d = IF Lag(p) > DepthLimit THEN -1 ELSE Lag(p)
  BY <1>1, <1>2, CurFits, WalkDistance DEF Unharmed, Lag
<1>4. /\ u.errType = "none" /\ u.ad = cur.lastAd /\ u.dist = d
      /\ u.head = IF d # -1 THEN chain[p] ELSE Undef
  BY <1>1, CurFits DEF Started, Cleared, Tracks
<1>5. track'[p] = u /\ chain'[p] = chain[p] /\ seen'[p] = seen[p] /\ cur' = cur
  <2>1. track' = [track EXCEPT ![p] = u] /\ UNCHANGED <<chain, seen, cur>>
    BY DEF FirstGet, env
  <2> QED
    BY <1>1, <2>1, CurFits DEF IInv, TypeOK
<1>6. Lag(p) # -1 /\ seen[p] # Undef
  BY <1>1, <1>2, CurFits DEF Lag, Undef
<1> QED
  BY <1>2, <1>3, <1>4, <1>5, <1>6 DEF Right, Lag

LEMMA HeadGetSettles ==
  ASSUME IInv, HeadGet, NEW p, cur.pid = p, AtRest(p), Unharmed(p)
  PROVE  /\ Right(p) => Right(p)'
         /\ Current(p) => Current(p)' \/ Right(p)' \/ Drops(p)
<1> DEFINE t == track[p]
           d == GetDist(p, chain[p], t.head)
           moved == chain[p] # t.head
           u == IF d = -1 THEN TooFar(t)
                ELSE IF moved THEN HeadMoved(t, d, chain[p]) ELSE Cleared(t)
<1>1. pc = "head" /\ t.head # Undef /\ seen[p] # Undef
  BY DEF HeadGet, IInv, UpdateFits, AtRest
<1>2. t.head \in 1..chain[p] /\ t.ad \in 1..t.head /\ t.dist = t.head - t.ad
  BY <1>1, CurFits DEF Fits, Undef, Unharmed, Exact, Off
<1>3. d = IF chain[p] - t.head > DepthLimit THEN -1 ELSE chain[p] - t.head
  BY <1>1, <1>2, CurFits, WalkDistance DEF Unharmed
<1>4. track'[p] = u /\ chain'[p] = chain[p] /\ seen'[p] = seen[p]
  <2>1. track' = [track EXCEPT ![p] = u] /\ UNCHANGED <<chain, seen>>
    BY DEF HeadGet, env
  <2> QED
    BY <1>1, <2>1, CurFits DEF IInv, TypeOK
<1>5. CASE d = -1
  <2>1. u.head = Undef
    BY <1>1, <1>5, CurFits DEF TooFar, Cleared, Tracks
  <2>2. Drops(p)
    BY <1>1, <1>4, <2>1 DEF Drops
  <2>3. ~Right(p)
    <3>1. chain[p] # t.head
      BY <1>1, <1>2, <1>3, <1>5, BoundsAssumption, CurFits
    <3> QED
      BY <1>1, <3>1 DEF Right
  <2> QED
    BY <2>2, <2>3
<1>6. CASE d # -1
  <2>1. u.head = chain[p] /\ u.ad = t.ad /\ u.dist = chain[p] - t.ad /\ u.errType = "none"
    <3>1. CASE moved
      <4>1. /\ u.head = chain[p] /\ u.ad = t.ad /\ u.dist = t.dist + d
            /\ u.errType = "none"
        BY <1>1, <1>6, <3>1, CurFits DEF HeadMoved, Cleared, Tracks
      <4> QED
        BY <1>1, <1>2, <1>3, <1>6, <4>1, CurFits
    <3>2. CASE ~moved
      BY <1>1, <1>2, <1>6, <3>2, CurFits DEF Cleared, Tracks
    <3> QED
      BY <3>1, <3>2
  <2>2. cur'.pid = p /\ cur'.lastAd = cur.lastAd
    <3>1. cur' = [cur EXCEPT !.updated = moved]
      BY <1>6 DEF HeadGet
    <3> QED
      BY <1>1, <3>1 DEF IInv, TypeOK, Updates
  <2>3. t.ad = seen[p] => Right(p)'
    BY <1>1, <1>4, <2>1, <2>2 DEF Right, Lag
  <2>4. cur.lastAd # t.ad => pc' = "ad"
    BY <1>6 DEF HeadGet
  <2>5. cur.lastAd = seen[p] /\ cur.lastAd # t.ad => Current(p)'
    BY <1>4, <2>1, <2>2, <2>4 DEF Current
  <2> QED
    BY <2>2, <2>3, <2>5 DEF Right, Current
<1> QED
  BY <1>5, <1>6

LEMMA AdGetSettles ==
  ASSUME IInv, AdGet, NEW p, cur.pid = p, AtRest(p), Unharmed(p)
  PROVE  /\ Right(p) => Right(p)'
         /\ Current(p) => Right(p)' \/ Drops(p)
<1> DEFINE t == track[p]
           d == GetDist(p, cur.lastAd, t.ad)
           u == IF d = -1 THEN TooFar(t) ELSE AdMoved(t, d, cur.lastAd)
<1>1. pc = "ad" /\ t.head # Undef /\ cur.lastAd <= t.head /\ seen[p] # Undef
  BY DEF AdGet, IInv, UpdateFits, AtRest
<1>2. t.ad \in 1..cur.lastAd /\ t.dist = t.head - t.ad
  BY <1>1, CurFits DEF Fits, Undef, Unharmed, Exact, Off
<1>3. d = IF cur.lastAd - t.ad > DepthLimit THEN -1 ELSE cur.lastAd - t.ad
  BY <1>1, <1>2, CurFits, WalkDistance DEF Unharmed
<1>4. track'[p] = u /\ chain'[p] = chain[p] /\ seen'[p] = seen[p] /\ cur' = cur
  <2>1. track' = [track EXCEPT ![p] = u] /\ UNCHANGED <<chain, seen, cur>>
    BY DEF AdGet, env
  <2> QED
    BY <1>1, <2>1, CurFits DEF IInv, TypeOK
<1>5. CASE d = -1
  <2>1. u.head = Undef
    BY <1>1, <1>5, CurFits DEF TooFar, Cleared, Tracks
  <2>2. Drops(p)
    BY <1>1, <1>4, <2>1 DEF Drops
  <2>3. t.ad # seen[p]
    BY <1>1, <1>2, <1>3, <1>5, BoundsAssumption, CurFits
  <2> QED
    BY <2>2, <2>3 DEF Right
<1>6. CASE d # -1
  <2>1. /\ u.head = t.head /\ u.ad = cur.lastAd /\ u.dist = t.dist - d
        /\ u.errType = "none"
    BY <1>1, <1>6, CurFits DEF AdMoved, Cleared, Tracks
  <2>2. u.dist = t.head - cur.lastAd
    BY <1>1, <1>2, <1>3, <1>6, <2>1, CurFits
  <2>3. Right(p) \/ Current(p) => t.head = chain[p] /\ cur.lastAd = seen[p]
    BY <1>1, <1>2, CurFits DEF Right, Current
  <2> QED
    BY <1>1, <1>4, <2>1, <2>2, <2>3 DEF Right, Lag
<1> QED
  BY <1>5, <1>6

LEMMA SettlesNext ==
  ASSUME IInv, [Next]_vars, NEW p \in Providers
  PROVE  SettlesStep(p)
<1> SUFFICES ASSUME AtRest(p), Unharmed(p) PROVE SettlesStep(p)
  BY DEF SettlesStep
<1> USE DEF env
<1>1. TypeOK
  BY DEF IInv
<1>2. faults \in Nat
  BY <1>1, BoundsAssumption DEF TypeOK
<1>3. CASE \/ \E q \in Providers : Publish(q) \/ Ingest(q) \/ Relist(q)
           \/ Cancel \/ UNCHANGED vars
  <2>1. UNCHANGED <<track, pc, cur, store>>
    BY <1>3 DEF Publish, Ingest, Relist, Cancel, vars
  <2> QED
    BY <2>1, OtherSettles
<1>4. CASE Refresh \/ RefreshFails \/ Stop \/ EndRound \/ Receive
           \/ \E q \in Providers : LookupFails(q)
  <2>1. /\ UNCHANGED <<track, store>> /\ pc \notin {"first", "head", "ad"}
        /\ pc' \notin {"first", "head"}
    BY <1>4 DEF Refresh, RefreshFails, Stop, EndRound, Receive, LookupFails
  <2> QED
    BY <2>1, OtherSettles DEF Current
<1>5. ASSUME NEW q \in Providers, LookupRejects(q)
      PROVE  SettlesStep(p)
  <2>1. q # p
    BY <1>5 DEF LookupRejects, NoDistance, AtRest
  <2>2. /\ pc = "each" /\ pc' \in {"each", "send"} /\ store' = store
        /\ track' = track \/ track' = [track EXCEPT ![q].errType = NoDistance(q)]
    BY <1>5 DEF LookupRejects, Announce, Send, Silent
  <2>3. track'[p] = track[p]
    BY <1>1, <2>1, <2>2 DEF TypeOK
  <2> QED
    BY <2>2, <2>3, OtherSettles DEF Current
<1>6. ASSUME NEW q \in Providers, Lookup(q)
      PROVE  SettlesStep(p)
  <2>1. /\ pc = "each" /\ pc' \in {"first", "head"}
        /\ UNCHANGED <<track, seen, chain, store>>
        /\ cur'.pid = q /\ cur'.lastAd = seen[q]
    BY <1>6 DEF Lookup
  <2>2. Right(p) => Right(p)'
    BY <2>1 DEF Right, Lag
  <2>3. cur'.pid = p => Current(p)'
    BY <2>1 DEF Current
  <2>4. ~Current(p)
    BY <2>1 DEF Current
  <2>5. Unharmed(p)'
    BY <2>1 DEF Unharmed, Exact, Off
  <2> QED
    BY <2>2, <2>3, <2>4, <2>5 DEF SettlesStep
<1>7. CASE FirstGetFails \/ HeadGetFails \/ AdGetFails
  <2>1. Fault
    BY <1>7 DEF FirstGetFails, HeadGetFails, AdGetFails, GetFails
  <2> QED
    BY <1>2, <2>1 DEF Fault, AtRest
<1>8. CASE FirstGet \/ HeadGet \/ AdGet
  <2>1. pc \in {"first", "head", "ad"} /\ cur.pid \in Providers
    BY <1>1, <1>8, CurType DEF FirstGet, HeadGet, AdGet
  <2>2. CASE cur.pid # p
    <3>1. store' = EmptyStore /\ \E u : track' = [track EXCEPT ![cur.pid] = u]
      BY <1>8 DEF FirstGet, HeadGet, AdGet
    <3>2. track'[p] = track[p]
      BY <1>1, <2>2, <3>1 DEF TypeOK
    <3> QED
      BY <2>1, <2>2, <3>1, <3>2, OtherSettles DEF Current
  <2>3. CASE cur.pid = p
    <3>1. /\ Right(p) => Right(p)'
          /\ Current(p) => Current(p)' \/ Right(p)' \/ Drops(p)
      BY <1>8, <2>3, FirstGetSettles, HeadGetSettles, AdGetSettles
    <3>2. Unharmed(p)'
      BY <1>8, ExactNext DEF Unharmed, FirstGet, HeadGet, AdGet
    <3> QED
      BY <2>1, <3>1, <3>2 DEF SettlesStep
  <2> QED
    BY <2>2, <2>3
<1> QED
  BY <1>3, <1>4, <1>5, <1>6, <1>7, <1>8 DEF Next, Visit, Updating

(* The steps of Converges: while a publisher and the indexer rest and nothing *)
(* fails, two updates of a provider make what is kept of it right, and it     *)
(* stays so, whatever other providers do and whatever failed before, but for  *)
(* a sync that failed half way and whose blocks have got into the distance    *)
(* kept of it.                                                                *)
THEOREM TrackerSettles == Spec => Settles
<1>1. Init => IInv
  BY IInvInit
<1>2. IInv /\ [Next]_vars => IInv'
  BY IInvStep
<1>3. IInv /\ [Next]_vars => [\A p \in Providers : SettlesStep(p)]_vars
  BY SettlesNext
<1> QED
  BY <1>1, <1>2, <1>3, PTL DEF Spec, Settles

(* What is kept right is also what the user has been told, once the update is *)
(* over: the real lag, or that it exceeds the limit, which it then does.      *)
RightIsShown ==
  \A p \in Providers :
    pc \in {"wait", "each", "closed"} /\ Right(p) =>
      \/ shown[p].dist = {Lag(p)}
      \/ Lag(p) > DepthLimit /\ shown[p].dist = {-1}

(* With TrackerSettles, all of Converges but the scheduling; failed syncs may *)
(* leave blocks in the store here.                                            *)
THEOREM SettledIsShown == Spec => []RightIsShown
<1>1. ShownMatchesTrack => RightIsShown
  BY DEF ShownMatchesTrack, RightIsShown, Right
<1>2. Spec => []ShownMatchesTrack
  BY WhatIsShownAgrees
<1> QED
  BY <1>1, <1>2, PTL

-----------------------------------------------------------------------------
(* What is left of a round: for each provider still to visit, the visit, up   *)
(* to two Gets and a send; and then its end.                                  *)
AtLeft ==
  CASE pc = "wait" -> 1
    [] pc = "each" -> 2
    [] pc = "send" -> 3
    [] pc = "ad" -> 4
    [] pc \in {"first", "head"} -> 5
    [] pc = "closed" -> 0

RoundLeft == AtLeft + 5 * Cardinality(todo)

(* Whatever the publishers, the indexer and the user do, and whatever fails,  *)
(* a round ends: the tracker's own steps that do not begin a round leave less *)
(* of it.  So it always comes back to the select, where it sees ctx.Done.     *)
RoundStep ==
  \/ pc = "wait" /\ pc' = "each"
  \/ UNCHANGED <<pc, tracked, track, todo, cur, store, out, shown>>
  \/ RoundLeft \in Nat /\ RoundLeft' \in Nat /\ RoundLeft' < RoundLeft

RoundsEnd == [][RoundStep]_vars

LEMMA RoundProgress ==
  ASSUME IsFiniteSet(Providers), TypeOK, TypeOK', Next
  PROVE  RoundStep \/ UNCHANGED vars
<1> USE DEF env
<1>1. /\ IsFiniteSet(todo) /\ Cardinality(todo) \in Nat
      /\ IsFiniteSet(todo') /\ Cardinality(todo') \in Nat
  <2>1. todo \subseteq Providers /\ todo' \subseteq Providers
    BY ProvidersAssumption DEF TypeOK, Wanted
  <2> QED
    BY <2>1, FS_Subset, FS_CardinalityType
<1>2. AtLeft \in Nat /\ AtLeft' \in Nat
  BY DEF TypeOK, AtLeft
<1>3. ASSUME todo' = todo, AtLeft' < AtLeft
      PROVE  RoundStep
  BY <1>1, <1>2, <1>3 DEF RoundStep, RoundLeft
<1>4. ASSUME NEW p \in todo, todo' = todo \ {p}, AtLeft' < AtLeft + 5
      PROVE  RoundStep
  <2>1. PICK n \in Nat : n = Cardinality(todo') /\ Cardinality(todo) = n + 1
    BY <1>1, <1>4, FS_RemoveElement
  <2>2. PICK a \in Nat, b \in Nat : a = AtLeft /\ b = AtLeft' /\ b < a + 5
    BY <1>2, <1>4
  <2>3. \A i \in Nat, j \in Nat, m \in Nat :
          j < i + 5 => /\ i + 5 * (m + 1) \in Nat /\ j + 5 * m \in Nat
                       /\ j + 5 * m < i + 5 * (m + 1)
    OBVIOUS
  <2> QED
    BY <2>1, <2>2, <2>3 DEF RoundStep, RoundLeft
<1>5. CASE \/ \E p \in Providers : Publish(p) \/ Ingest(p) \/ Relist(p)
           \/ Cancel
  BY <1>5 DEF Publish, Ingest, Relist, Cancel, RoundStep
<1>6. CASE Refresh
  BY <1>6 DEF Refresh, RoundStep
<1>7. CASE RefreshFails \/ Stop \/ EndRound \/ Receive
  BY <1>3, <1>7 DEF RefreshFails, Stop, EndRound, Receive, AtLeft
<1>8. ASSUME NEW p \in Providers, Visit(p) PROVE RoundStep
  <2>1. p \in todo /\ todo' = todo \ {p} /\ pc = "each"
        /\ pc' \in {"each", "send", "first", "head"}
    BY <1>8 DEF Visit, LookupFails, LookupRejects, Lookup, Announce, Send, Silent
  <2>2. AtLeft' < AtLeft + 5
    BY <2>1 DEF AtLeft
  <2> QED
    BY <1>4, <2>1, <2>2
<1>9. CASE Updating
  <2>1. /\ todo' = todo
        /\ \/ pc \in {"first", "head"} /\ pc' \in {"ad", "each", "send"}
           \/ pc = "ad" /\ pc' \in {"each", "send"}
    BY <1>9 DEF Updating, FirstGet, FirstGetFails, HeadGet, HeadGetFails, AdGet, AdGetFails,
       GetFails, Announce, SendDist, Send, Silent
  <2>2. AtLeft' < AtLeft
    BY <2>1 DEF AtLeft
  <2> QED
    BY <1>3, <2>1, <2>2
<1> QED
  BY <1>5, <1>6, <1>7, <1>8, <1>9 DEF Next

(* For any finite number of providers: the part of CancelStops that is not    *)
(* scheduling.                                                                *)
THEOREM EveryRoundEnds ==
  ASSUME IsFiniteSet(Providers)
  PROVE  Spec => RoundsEnd
<1>1. TypeOK /\ TypeOK' /\ [Next]_vars => [RoundStep]_vars
  BY RoundProgress
<1>2. Spec => []TypeOK
  BY TypeCorrect
<1> QED
  BY <1>1, <1>2, PTL DEF Spec, RoundsEnd
-----------------------------------------------------------------------------
(* The tracker takes a Get for one step.  What it takes for the answer is one *)
(* that DistanceService allows, which AdDistance implements: exact if the     *)
(* store is empty, else not too short.                                        *)
Dist == INSTANCE DistanceService WITH
  Publishers <- Providers,
  pending <- cur,
  clean <- store = EmptyStore,
  answer <- out

Answered(p, newest, oldest) ==
  GetDist(p, newest, oldest) \in Dist!Reports(Dist!Distance(newest, oldest))

(* A store that is not empty has counted a block.                             *)
StoreCounts == store.count \in Nat /\ (store = EmptyStore \/ store.count >= 1)

(* The service and the tracker count sets alike. *)
LEMMA SameCardinality == ASSUME NEW S PROVE Dist!Cardinality(S) = Cardinality(S)
  BY Zenon DEF Dist!Cardinality, Cardinality

LEMMA DistanceIsWalk ==
  ASSUME NEW newest \in Nat, NEW oldest \in Nat
  PROVE  /\ WalkLen(newest, oldest) \in Nat
         /\ Dist!Distance(newest, oldest) = WalkLen(newest, oldest)
<1> DEFINE between == {k \in 1..newest : oldest <= newest => k > oldest}
<1>1. Dist!Distance(newest, oldest) = Cardinality(between)
  BY SameCardinality DEF Dist!Distance
<1>2. CASE oldest <= newest
  <2>1. between = (oldest + 1) .. newest
    BY <1>2
  <2>2. Cardinality((oldest + 1) .. newest) = newest - oldest
    <3> HIDE DEF between
    <3>1. PICK first \in Int : first = oldest + 1
      OBVIOUS
    <3>2. Cardinality(first..newest) = IF first > newest THEN 0 ELSE newest - first + 1
      BY <3>1, FS_Interval
    <3> QED
      BY <1>2, <3>1, <3>2
  <2>3. WalkLen(newest, oldest) = newest - oldest /\ newest - oldest \in Nat
    BY <1>2 DEF WalkLen
  <2> HIDE DEF between
  <2> QED
    BY <1>1, <2>1, <2>2, <2>3
<1>3. CASE oldest > newest
  <2>1. between = 1..newest
    BY <1>3
  <2>2. Cardinality(1..newest) = newest
    BY FS_Interval
  <2>3. WalkLen(newest, oldest) = newest
    BY <1>3 DEF WalkLen
  <2> HIDE DEF between
  <2> QED
    BY <1>1, <2>1, <2>2, <2>3
<1> QED
  BY <1>2, <1>3

LEMMA WalkCounts ==
  ASSUME NEW p, NEW newest, NEW n \in Nat, StoreCounts
  PROVE  LET st == AfterWalk(store, p, newest, n)
         IN  /\ st.count \in Nat /\ st.count >= n
             /\ store = EmptyStore => st.count = n
             /\ st = EmptyStore \/ st.count >= 1
<1> DEFINE st == AfterWalk(store, p, newest, n)
<1>1. CASE n = 0
  <2>1. st = store
    BY <1>1 DEF AfterWalk
  <2> QED
    BY <1>1, <2>1 DEF StoreCounts, EmptyStore
<1>2. CASE n # 0
  <2> DEFINE c == LoadBlock(store, <<p, newest>>).count
  <2>1. st.count = c + n - 1
    BY <1>2 DEF AfterWalk
  <2>2. EmptyStore.count = 0 /\ EmptyStore.lastKey # <<p, newest>>
    BY DEF EmptyStore, NoKey
  <2>3. c \in Nat /\ c >= 1 /\ (store = EmptyStore => c = 1)
    <3>1. CASE store.lastKey = <<p, newest>>
      BY <2>2, <3>1 DEF LoadBlock, StoreCounts
    <3>2. CASE store.lastKey # <<p, newest>>
      <4>1. c = store.count + 1
        BY <3>2 DEF LoadBlock
      <4> QED
        BY <2>2, <4>1 DEF StoreCounts
    <3> QED
      BY <3>1, <3>2
  <2> HIDE DEF c, st
  <2>4. st.count \in Nat /\ st.count >= n /\ st.count >= 1
        /\ (store = EmptyStore => st.count = n)
    BY <1>2, <2>1, <2>3
  <2> QED
    BY <2>4 DEF st
<1> QED
  BY <1>1, <1>2

LEMMA GetIsAnswered ==
  ASSUME NEW p, NEW newest \in Nat, NEW oldest \in Nat, StoreCounts
  PROVE  Answered(p, newest, oldest)
<1> DEFINE d == WalkLen(newest, oldest)
           n == WalkOf(newest, oldest)
           count == AfterWalk(store, p, newest, n).count
           clean == store = EmptyStore
<1>1. d \in Nat /\ Dist!Distance(newest, oldest) = d /\ DepthLimit \in Nat
  BY DistanceIsWalk, BoundsAssumption
<1>2. n \in Nat /\ (d <= DepthLimit => n = d) /\ (d > DepthLimit => n > DepthLimit)
  BY <1>1 DEF WalkOf, DepthCut, WalkDepth
<1>3. count \in Nat /\ count >= n /\ (clean => count = n)
  BY <1>2, WalkCounts
<1>4. GetDist(p, newest, oldest) = IF count > DepthLimit THEN -1 ELSE count
  BY DEF GetDist, ReportedDist
<1> HIDE DEF d, n, count
<1>5. GetDist(p, newest, oldest) \in Dist!Reports(d)
  BY <1>1, <1>2, <1>3, <1>4 DEF Dist!Reports
<1> QED
  BY <1>1, <1>5 DEF Answered

LEMMA StoreCountsStep ==
  ASSUME StoreCounts, [Next]_vars
  PROVE  StoreCounts'
<1>1. CASE store' = store \/ store' = EmptyStore
  BY <1>1 DEF StoreCounts, EmptyStore
<1>2. CASE FirstGetFails \/ HeadGetFails \/ AdGetFails
  <2>1. \E p, newest : \E n \in 0..MaxPartial : store' = AfterWalk(store, p, newest, n)
    BY <1>2 DEF FirstGetFails, HeadGetFails, AdGetFails, GetFails
  <2>2. PICK p, newest : \E n \in 0..MaxPartial : store' = AfterWalk(store, p, newest, n)
    BY <2>1
  <2>3. PICK n \in Nat : store' = AfterWalk(store, p, newest, n)
    BY <2>2, BoundsAssumption
  <2> QED
    BY <2>3, WalkCounts DEF StoreCounts
<1>3. \/ store' = store \/ store' = EmptyStore
      \/ FirstGetFails \/ HeadGetFails \/ AdGetFails
  BY DEF Next, Publish, Ingest, Relist, Visit, LookupFails, LookupRejects, Lookup, Cancel,
     Refresh, RefreshFails, Stop, EndRound, Updating, FirstGet, HeadGet, AdGet, Receive, vars
<1> QED
  BY <1>1, <1>2, <1>3

GetsAnswered ==
  LET p == cur.pid
  IN  /\ pc = "first" => Answered(p, chain[p], cur.lastAd)
      /\ pc = "head" => Answered(p, chain[p], track[p].head)
      /\ pc = "ad" => Answered(p, cur.lastAd, track[p].ad)

(* At each of its three Gets, whatever failed syncs have left in the store,    *)
(* what the tracker goes on with is an answer that DistanceService allows for  *)
(* that question, so that what is proved of AdDistance is what it relies on.   *)
THEOREM TrackerUsesService == Spec => []GetsAnswered
<1>1. Init => StoreCounts
  BY DEF Init, StoreCounts, EmptyStore
<1>2. StoreCounts /\ [Next]_vars => StoreCounts'
  BY StoreCountsStep
<1>3. TypeOK /\ StoreCounts => GetsAnswered
  <2> SUFFICES ASSUME TypeOK, StoreCounts, pc \in {"first", "head", "ad"}
               PROVE  GetsAnswered
    BY DEF GetsAnswered
  <2>1. /\ cur.lastAd \in Nat /\ chain[cur.pid] \in Nat
        /\ track[cur.pid].head \in Nat /\ track[cur.pid].ad \in Nat
    BY CurType, BoundsAssumption DEF Ads, Tracks
  <2> QED
    BY <2>1, GetIsAnswered DEF GetsAnswered
<1>4. Spec => []TypeOK
  BY TypeCorrect
<1> QED
  BY <1>1, <1>2, <1>3, <1>4, PTL DEF Spec
=============================================================================
