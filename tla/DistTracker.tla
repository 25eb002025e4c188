---------------------------- MODULE DistTracker ----------------------------
(***************************************************************************)
(* The distance tracker of pkg/dtrack/distance_tracker.go and its consumer *)
(* followDistance (pkg/provider/provider.go).  Each round the tracker      *)
(* refreshes its provider cache and looks at every tracked provider in     *)
(* turn: it measures how far the chain head and the last ad the indexer    *)
(* has seen have moved, adds and subtracts, and announces what changed on  *)
(* an unbuffered channel.  Publishers and the indexer move meanwhile.      *)
(* One AdDistance.Get is one step here (AdDistance!ImplementsService and   *)
(* WalkAgrees); what is read before it is a step of its own.               *)
(***************************************************************************)
EXTENDS AdChain, FiniteSets

CONSTANTS
  Providers,    \* providers the indexer may list
  Include,      \* RunDistanceTracker's include; {} means look for new ones
  Exclude,      \* RunDistanceTracker's exclude
  DepthLimit,   \* AdDistance.depthLimit
  MaxAds,       \* bound: ads on one chain
  MaxPartial,   \* bound: blocks a failed sync may have read (0: none)
  MaxFaults     \* bound: failed calls and changes of what the indexer lists

ASSUME ProvidersAssumption ==
  /\ Include \subseteq Providers
  /\ Exclude \subseteq Providers
ASSUME BoundsAssumption ==
  /\ DepthLimit \in Nat
  /\ MaxAds \in Nat \ {0}
  /\ MaxPartial \in Nat
  /\ MaxFaults \in Nat

VARIABLES
  chain,      \* chain[p]: ads published, the head of p's chain
  seen,       \* seen[p]: LastAdvertisement at the indexer
  listing,    \* listing[p]: what the indexer has of p besides that
  faults,     \* faults so far
  cancelled,  \* ctx is done
  pc,         \* where run is
  tracked,    \* the keys of tracks
  track,      \* tracks[p], a distTrack
  todo,       \* providers this round's updateTracks has still to visit
  cur,        \* updateTrack's pid, pinfo.LastAdvertisement and updated
  store,      \* the countStore of adDist
  out,        \* the DistanceUpdate being sent
  shown       \* what followDistance printed last of each provider

env == <<chain, seen, listing>>
vars == <<chain, seen, listing, faults, cancelled, pc, tracked, track, todo,
          cur, store, out, shown>>

Ads == 0..MaxAds
Errors == {"notfound", "nosync", "nopub", "update"}

(* A distTrack that has nothing yet, and a distance that was never printed. *)
NewTrack == [dist |-> 0, head |-> Undef, ad |-> Undef, errType |-> "none"]
NoDist == {}

Init ==
  /\ chain = [p \in Providers |-> 1]
  /\ seen \in [Providers -> {Undef, 1}]
  /\ listing \in [Providers -> {"absent", "full"}]
  /\ faults = 0
  /\ cancelled = FALSE
  /\ pc = "wait"
  /\ tracked = Include \ Exclude
  /\ track = [p \in Providers |-> NewTrack]
  /\ todo = {}
  /\ cur = [pid |-> "none"]
  /\ store = EmptyStore
  /\ out = [id |-> "none"]
  /\ shown = [p \in Providers |-> [dist |-> NoDist, line |-> "none"]]

-----------------------------------------------------------------------------
(* The environment: publishers publish, the indexer ingests, its record of   *)
(* a provider comes and goes, and the user interrupts.                       *)
Publish(p) ==
  /\ chain[p] < MaxAds
  /\ chain' = [chain EXCEPT ![p] = @ + 1]
  /\ UNCHANGED <<seen, listing, faults, cancelled, pc, tracked, track, todo,
                 cur, store, out, shown>>

Ingest(p) ==
  /\ \E a \in Ads : seen[p] < a /\ a <= chain[p] /\ seen' = [seen EXCEPT ![p] = a]
  /\ UNCHANGED <<chain, listing, faults, cancelled, pc, tracked, track, todo,
                 cur, store, out, shown>>

Relist(p) ==
  /\ \E l \in {"absent", "nopub", "full"} \ {listing[p]} :
       /\ l = "full" \/ faults < MaxFaults
       /\ faults' = IF l = "full" THEN faults ELSE faults + 1
       /\ listing' = [listing EXCEPT ![p] = l]
  /\ UNCHANGED <<chain, seen, cancelled, pc, tracked, track, todo, cur, store,
                 out, shown>>

Cancel ==
  /\ ~cancelled
  /\ cancelled' = TRUE
  /\ UNCHANGED <<chain, seen, listing, faults, pc, tracked, track, todo, cur,
                 store, out, shown>>

(* A call over the network fails: by a fault, or because ctx is done. *)
Fault ==
  \/ faults < MaxFaults /\ faults' = faults + 1
  \/ cancelled /\ faults' = faults

-----------------------------------------------------------------------------
(* run: a tick of the timer refreshes the cache, and picks up new providers. *)
NewlyListed_none == {}
NewlyListed == {p \in Providers : listing[p] # "absent"} \ Exclude

Refresh ==
  /\ pc = "wait"
  /\ tracked' = IF Include = {} THEN tracked \cup NewlyListed ELSE tracked
  /\ todo' = tracked'
  /\ pc' = "each"
  /\ UNCHANGED <<env, faults, cancelled, track, cur, store, out, shown>>

(* run returns, and closes the channel, when Refresh fails ... *)
RefreshFails ==
  /\ pc = "wait"
  /\ Fault
  /\ pc' = "closed"
  /\ UNCHANGED <<env, cancelled, tracked, track, todo, cur, store, out, shown>>

(* ... or ctx is done. *)
Stop ==
  /\ pc = "wait"
  /\ cancelled
  /\ pc' = "closed"
  /\ UNCHANGED <<env, faults, cancelled, tracked, track, todo, cur, store, out,
                 shown>>

EndRound_goesOn ==
  /\ pc = "each"
  /\ todo = {}
  /\ todo' = tracked
  /\ UNCHANGED <<env, faults, cancelled, pc, tracked, track, cur, store, out, shown>>
EndRound ==
  /\ pc = "each"
  /\ todo = {}
  /\ pc' = "wait"
  /\ UNCHANGED <<env, faults, cancelled, tracked, track, todo, cur, store, out,
                 shown>>

-----------------------------------------------------------------------------
(* updateTrack's two ways to end: with an update for the consumer, blocked   *)
(* until it is received, or without.                                         *)
Send(update) == out' = update /\ pc' = "send"
Silent == out' = out /\ pc' = "each"

SendDist(p, d) == Send([id |-> p, dist |-> d, err |-> "none"])

(* An error is recorded and announced unless it is the kind that is already *)
(* recorded.                                                                *)
Announce(p, kind) ==
  IF track[p].errType # kind
  THEN /\ track' = [track EXCEPT ![p].errType = kind]
       /\ Send([id |-> p, err |-> kind])
  ELSE Silent /\ UNCHANGED track

(* pcache.Get fails: this provider is left alone this round. *)
LookupFails(p) ==
  /\ pc = "each" /\ p \in todo
  /\ Fault
  /\ todo' = todo \ {p}
  /\ UNCHANGED <<env, cancelled, pc, tracked, track, cur, store, out, shown>>

(* pcache.Get answers with something that has no distance. *)
NoDistance_synced(p) ==
  IF listing[p] = "absent" THEN "notfound"
  ELSE IF listing[p] = "nopub" THEN "nopub"
  ELSE "none"
NoDistance(p) ==
  IF listing[p] = "absent" THEN "notfound"
  ELSE IF seen[p] = Undef THEN "nosync"
  ELSE IF listing[p] = "nopub" THEN "nopub"
  ELSE "none"

LookupRejects(p) ==
  /\ pc = "each" /\ p \in todo
  /\ NoDistance(p) # "none"
  /\ todo' = todo \ {p}
  /\ Announce(p, NoDistance(p))
  /\ UNCHANGED <<env, faults, cancelled, tracked, cur, store, shown>>

(* pcache.Get answers: what follows uses the ad the indexer had seen then.  *)
Lookup(p) ==
  /\ pc = "each" /\ p \in todo
  /\ NoDistance(p) = "none"
  /\ todo' = todo \ {p}
  /\ cur' = [pid |-> p, lastAd |-> seen[p], updated |-> FALSE]
  /\ pc' = IF track[p].head = Undef THEN "first" ELSE "head"
  /\ UNCHANGED <<env, faults, cancelled, tracked, track, store, out, shown>>

-----------------------------------------------------------------------------
(* AdDistance.Get, from newest back to oldest.                               *)
WalkOf(newest, oldest) == DepthCut(WalkLen(newest, oldest), WalkDepth(DepthLimit))

GetDist(p, newest, oldest) ==
  ReportedDist(AfterWalk(store, p, newest, WalkOf(newest, oldest)).count, DepthLimit)

(* A Get that fails leaves in the store the blocks it read before; one that *)
(* starts when ctx is done reads none.                                      *)
GetFails(p, newest, oldest) ==
  /\ Fault
  /\ \E n \in 0..MaxPartial :
       /\ n # 0 => faults' # faults /\ n < WalkOf(newest, oldest)
       /\ store' = AfterWalk(store, p, newest, n)
  /\ Announce(p, "update")

(* What a distTrack becomes after each kind of Get. *)
Cleared(t) == [t EXCEPT !.errType = "none"]
Started_keepsError(t, d, head, ad) ==
  [t EXCEPT !.dist = d, !.ad = ad, !.head = IF d # -1 THEN head ELSE @]
Started(t, d, head, ad) ==
  [Cleared(t) EXCEPT !.dist = d, !.ad = ad, !.head = IF d # -1 THEN head ELSE @]
TooFar(t) == [Cleared(t) EXCEPT !.dist = -1, !.head = Undef]
HeadMoved_replaces(t, d, head) == [Cleared(t) EXCEPT !.dist = d, !.head = head]
HeadMoved(t, d, head) == [Cleared(t) EXCEPT !.dist = @ + d, !.head = head]
AdMoved_movesHead(t, d, ad) ==
  [Cleared(t) EXCEPT !.dist = @ - d, !.ad = ad, !.head = ad]
AdMoved(t, d, ad) == [Cleared(t) EXCEPT !.dist = @ - d, !.ad = ad]

(* The first distance of a provider, or the first since it was too far. *)
FirstGet ==
  /\ pc = "first"
  /\ LET p == cur.pid
         d == GetDist(p, chain[p], cur.lastAd)
     IN  /\ track' = [track EXCEPT ![p] = Started(@, d, chain[p], cur.lastAd)]
         /\ SendDist(p, d)
  /\ store' = EmptyStore
  /\ UNCHANGED <<env, faults, cancelled, tracked, todo, cur, shown>>

FirstGetFails ==
  /\ pc = "first"
  /\ GetFails(cur.pid, chain[cur.pid], cur.lastAd)
  /\ UNCHANGED <<env, cancelled, tracked, todo, cur, shown>>

(* How far the head has moved since it was last measured. *)
HeadGet ==
  /\ pc = "head"
  /\ LET p == cur.pid
         t == track[p]
         d == GetDist(p, chain[p], t.head)
         moved == chain[p] # t.head
     IN  IF d = -1
         THEN /\ track' = [track EXCEPT ![p] = TooFar(@)]
              /\ SendDist(p, -1)
              /\ UNCHANGED cur
         ELSE LET u == IF moved THEN HeadMoved(t, d, chain[p]) ELSE Cleared(t)
              IN  /\ track' = [track EXCEPT ![p] = u]
                  /\ cur' = [cur EXCEPT !.updated = moved]
                  /\ IF cur.lastAd # t.ad THEN pc' = "ad" /\ UNCHANGED out
                     ELSE IF moved THEN SendDist(p, u.dist)
                     ELSE Silent
  /\ store' = EmptyStore
  /\ UNCHANGED <<env, faults, cancelled, tracked, todo, shown>>

HeadGetFails ==
  /\ pc = "head"
  /\ GetFails(cur.pid, chain[cur.pid], track[cur.pid].head)
  /\ UNCHANGED <<env, cancelled, tracked, todo, cur, shown>>

(* How far the indexer's last seen ad has moved since it was measured. *)
AdGet ==
  /\ pc = "ad"
  /\ LET p == cur.pid
         t == track[p]
         d == GetDist(p, cur.lastAd, t.ad)
         u == IF d = -1 THEN TooFar(t) ELSE AdMoved(t, d, cur.lastAd)
     IN  /\ track' = [track EXCEPT ![p] = u]
         /\ SendDist(p, u.dist)
  /\ store' = EmptyStore
  /\ UNCHANGED <<env, faults, cancelled, tracked, todo, cur, shown>>

AdGetFails ==
  /\ pc = "ad"
  /\ GetFails(cur.pid, cur.lastAd, track[cur.pid].ad)
  /\ UNCHANGED <<env, cancelled, tracked, todo, cur, shown>>

-----------------------------------------------------------------------------
(* followDistance receives the update, which unblocks the tracker, and prints *)
(* an error line or a distance line.                                          *)
Receive ==
  /\ pc = "send"
  /\ shown' = [shown EXCEPT ![out.id] =
                 IF out.err # "none" THEN [@ EXCEPT !.line = out.err]
                 ELSE [dist |-> {out.dist}, line |-> "dist"]]
  /\ pc' = "each"
  /\ UNCHANGED <<env, faults, cancelled, tracked, track, todo, cur, store, out>>

Updating == FirstGet \/ FirstGetFails \/ HeadGet \/ HeadGetFails \/ AdGet \/ AdGetFails
Visit(p) == LookupFails(p) \/ LookupRejects(p) \/ Lookup(p)

Next ==
  \/ \E p \in Providers : Publish(p) \/ Ingest(p) \/ Relist(p) \/ Visit(p)
  \/ Cancel
  \/ Refresh \/ RefreshFails \/ Stop \/ EndRound
  \/ Updating
  \/ Receive
  \/ pc = "closed" /\ UNCHANGED vars

Spec == Init /\ [][Next]_vars

(* The timer fires, the tracker goroutine is scheduled, every Get ends (its   *)
(* context has a timeout), and followDistance ranges over the channel until   *)
(* it is closed.  A select that finds ctx.Done ready again and again takes it.*)
Fairness ==
  /\ WF_vars(Refresh \/ RefreshFails)
  /\ WF_vars(EndRound)
  /\ WF_vars(\E p \in Providers : Visit(p))
  /\ WF_vars(Updating)
  /\ WF_vars(Receive)
  /\ SF_vars(Stop)

FairSpec == Spec /\ Fairness

-----------------------------------------------------------------------------
(* The providers the user asked to follow. *)
Wanted == (IF Include = {} THEN Providers ELSE Include) \ Exclude

(* What tracks and a running update hold. *)
Tracks == [dist : Int, head : Ads, ad : Ads, errType : Errors \cup {"none"}]
Updates == [pid : Providers, lastAd : Ads \ {Undef}, updated : BOOLEAN]

(* Types; only wanted providers are tracked, and updates are about those.     *)
TypeOK ==
  /\ chain \in [Providers -> 1..MaxAds]
  /\ seen \in [Providers -> Ads]
  /\ listing \in [Providers -> {"absent", "nopub", "full"}]
  /\ faults \in 0..MaxFaults
  /\ cancelled \in BOOLEAN
  /\ pc \in {"wait", "each", "first", "head", "ad", "send", "closed"}
  /\ tracked \subseteq Wanted
  /\ track \in [Providers -> Tracks]
  /\ todo \subseteq tracked
  /\ pc \in {"first", "head", "ad"} => cur \in Updates /\ cur.pid \in tracked
  /\ pc = "send" => out.id \in tracked
  /\ store.count \in Nat

(* Unless a sync failed half way (MaxPartial), the distance kept for a        *)
(* provider, by adding and subtracting what each Get measured, is exactly the *)
(* distance between the head and the ad it is kept with; -1 stands for a      *)
(* distance that was too long to measure, and is kept with no head.           *)
DistExact ==
  \A p \in Providers :
    LET t == track[p]
    IN  /\ t.head # Undef => t.dist = t.head - t.ad /\ t.dist >= 0
        /\ t.head = Undef /\ t.ad # Undef => t.dist = -1

(* Once a provider's update is over, what the user was told last agrees with  *)
(* what the tracker holds: its distance is the last one printed, and an error *)
(* it still holds is the last line printed.                                   *)
ShownMatchesTrack ==
  \A p \in Providers :
    LET t == track[p]
    IN  pc \in {"wait", "each", "closed"} =>
          /\ t.errType = "none" /\ t.ad # Undef => shown[p].dist = {t.dist}
          /\ t.errType # "none" => shown[p].line = t.errType

(* A step never moves the head or the ad of a distTrack back to an older one: *)
(* it only drops the head, when a distance is too long.                       *)
NeverMovesBack ==
  [][\A p \in Providers :
       /\ \/ track'[p].head >= track[p].head
          \/ track'[p].head = Undef /\ track'[p].dist = -1
       /\ track'[p].ad >= track[p].ad]_vars

(* An interrupt ends the tracker, whatever it was doing: the consumer keeps   *)
(* receiving, so that no send blocks it for ever.                             *)
CancelStops == cancelled ~> pc = "closed"

Lag(p) == chain[p] - seen[p]

(* Unless a sync failed half way (MaxPartial): when a provider's chain and the *)
(* indexer have come to rest, the last distance printed is the real one.  No  *)
(* error, no jump too long to measure and no update lost to a Get that failed *)
(* before it read a block leaves a wrong one standing; one that has read      *)
(* blocks does, for ever, as they are counted in the next Get.  Only a        *)
(* distance beyond the limit may read "exceeded limit".  A provider that is   *)
(* listed after the tracker started is picked up too.                         *)
Converges ==
  \A p \in Wanted :
    <>[](pc # "closed" /\ listing[p] = "full" /\ seen[p] # Undef)
      => <>[](\/ shown[p].dist = {Lag(p)}
              \/ Lag(p) > DepthLimit /\ shown[p].dist = {-1})
=============================================================================
