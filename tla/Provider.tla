------------------------------ MODULE Provider ------------------------------
(***************************************************************************)
(* `provider` (pkg/provider/provider.go) without --follow-dist, which is   *)
(* in DistTracker: which of the providers an indexer lists are counted or  *)
(* shown, what getProvider's errors come to, and, for each provider shown, *)
(* the libp2p hosts and the AdDistance that showProviderInfo and           *)
(* getLastSeenDistance open and close.  A walk of an AdDistance is one     *)
(* step here (AdDistance does it block by block), and every provider has a *)
(* publisher of its own.                                                   *)
(***************************************************************************)
EXTENDS AdChain, FiniteSets

CONSTANTS
  Providers,
  Infos,         \* what an indexer may tell of a provider: [last, pub, err], the
                 \* last ad it has seen, or Undef; whose its publisher is, "other",
                 \* "provider" or "none"; whether there is a LastError
  FirstAds,      \* ads of a publisher when the command begins
  MaxAds,        \* bound: ads of a publisher
  DepthLimit,    \* --ad-depth-limit, 0 for no limit of a walk
  Options,       \* command lines: brief is --id-only or --publisher, ids is what
                 \* --pid or stdin gives
  MaxFaults      \* bound: requests, syncs and hosts that fail

NotListed == [listed |-> FALSE]

ASSUME BoundsAssumption ==
  /\ FirstAds \in Nat \ {0} /\ MaxAds \in Nat /\ DepthLimit \in Nat /\ MaxFaults \in Nat
  /\ Infos \subseteq [last : 0..FirstAds, pub : {"provider", "other", "none"}, err : BOOLEAN]
  /\ Options \subseteq [count : BOOLEAN, all : BOOLEAN, invert : BOOLEAN, error : BOOLEAN,
                        diffPub : BOOLEAN, brief : BOOLEAN, protocol : BOOLEAN,
                        distance : BOOLEAN, ids : SUBSET Providers]
  /\ IsFiniteSet(Providers) /\ NotListed \notin Providers

VARIABLES
  chain,    \* chain[p]: the ads its publisher has published
  listed,   \* listed[p]: what the indexer tells of p, or NotListed
  opts,     \* the command line, a member of Options
  faults,   \* requests, syncs and hosts that have failed
  cache,    \* the provider cache: what pcache has read of listed
  cmd,      \* the command: [pc, left, at, since, dist, errCount, number, result];
            \* since is history: the heads when it began
  hosts,    \* libp2p hosts: the one of showProviderInfo and the one of an
            \* AdDistance are open or not, and how many were lost open
  store,    \* the count store of the AdDistance
  shown     \* history: [id, last, dist, since, now], what was shown, and the
            \* heads when the command began and then

environment == <<chain, listed>>
vars == <<environment, opts, faults, cache, cmd, hosts, store, shown>>

NoDist == -2      \* none is shown

Init ==
  /\ chain = [p \in Providers |-> FirstAds]
  /\ listed \in [Providers -> Infos \cup {NotListed}]
  /\ opts \in Options
  /\ faults = 0
  /\ cache = [p \in Providers |-> NotListed]
  /\ cmd = [pc |-> "start", left |-> {}, at |-> NotListed, since |-> chain,
            dist |-> NoDist, errCount |-> 0, number |-> 0, result |-> "none"]
  /\ hosts = [shared |-> FALSE, own |-> FALSE, lost |-> 0]
  /\ store = EmptyStore
  /\ shown = <<>>

(* Meanwhile publishers publish, and the indexer ingests.                     *)
Publish(p) ==
  /\ chain[p] < MaxAds
  /\ chain' = [chain EXCEPT ![p] = @ + 1]
  /\ UNCHANGED <<listed, opts, faults, cache, cmd, hosts, store, shown>>

Ingest(p) ==
  /\ listed[p] # NotListed
  /\ listed[p].last < chain[p]
  /\ listed' = [listed EXCEPT ![p].last = chain[p]]
  /\ UNCHANGED <<chain, opts, faults, cache, cmd, hosts, store, shown>>

Fault == faults < MaxFaults /\ faults' = faults + 1
Finish(result) == cmd' = [cmd EXCEPT !.pc = "done", !.result = result]

-----------------------------------------------------------------------------
(* providerAction: --count first, then --all, then --invert.                  *)
Listing == opts.all \/ opts.invert
Preloads == opts.count \/ Listing \/ Cardinality(opts.ids) > 1

(* pcache.New with a preload that fails.                                      *)
CacheFails ==
  /\ cmd.pc = "start" /\ Preloads
  /\ Fault
  /\ Finish("no cache")
  /\ UNCHANGED <<environment, opts, cache, hosts, store, shown>>

Known(c) == {p \in Providers : c[p] # NotListed}
Counted(c) == {p \in Known(c) : opts.error => c[p].err # opts.invert}

CountProviders ==
  /\ cmd.pc = "start" /\ opts.count
  /\ cache' = listed
  /\ cmd' = [cmd EXCEPT !.pc = "done", !.result = "ok",
                        !.number = Cardinality(Counted(listed))]
  /\ UNCHANGED <<environment, opts, faults, hosts, store, shown>>

(* listProviders goes through all of the cache, the loop of providerAction    *)
(* through the IDs, both in an order that is not defined.                     *)
Start ==
  /\ cmd.pc = "start" /\ ~opts.count
  /\ cache' = IF Preloads THEN listed ELSE cache
  /\ cmd' = [cmd EXCEPT !.pc = "next", !.since = chain,
                        !.left = IF Listing THEN Known(listed) ELSE opts.ids]
  /\ UNCHANGED <<environment, opts, faults, hosts, store, shown>>

Excluded(p) == ~opts.all /\ p \in opts.ids

(* The tests of listProviders; one of getProvider is among them.              *)
LastErrorSkips(p) ==
  LET onlyWithError == ~opts.invert
  IN  opts.error /\ onlyWithError = ~cache[p].err
DiffPub(p) == opts.diffPub /\ cache[p].pub # "other"

Take(p) == cmd' = [cmd EXCEPT !.left = @ \ {p}]
Show(p) == cmd' = [cmd EXCEPT !.left = @ \ {p}, !.at = p, !.pc = "show"]

(* --diff-pub reads the ID of a publisher that is not there.                  *)
Panic == Finish("panic")

ListNext ==
  /\ cmd.pc = "next" /\ Listing
  /\ \E p \in cmd.left :
       \/ (Excluded(p) \/ LastErrorSkips(p)) /\ Take(p)
       \/ /\ ~Excluded(p) /\ ~LastErrorSkips(p)
          /\ CASE DiffPub(p) /\ cache[p].pub = "none" -> Panic
               [] DiffPub(p) /\ cache[p].pub # "none" -> Take(p)
               [] OTHER -> Show(p)
  /\ UNCHANGED <<environment, opts, faults, cache, hosts, store, shown>>

(* getProvider: from the cache, or else from the indexer.                     *)
Lookup(p) == IF cache[p] # NotListed THEN cache[p] ELSE listed[p]

Failed_last(p) == cmd' = [cmd EXCEPT !.left = {}, !.errCount = @ + 1]
Failed(p) == cmd' = [cmd EXCEPT !.left = @ \ {p}, !.errCount = @ + 1]

GetNext ==
  /\ cmd.pc = "next" /\ ~Listing
  /\ \E p \in cmd.left :
       /\ cache' = [cache EXCEPT ![p] = Lookup(p)]
       /\ CASE Lookup(p) = NotListed -> Failed(p)
            [] Lookup(p) # NotListed /\ opts.diffPub /\ Lookup(p).pub = "none" -> Panic
            [] Lookup(p) # NotListed /\ opts.diffPub /\ Lookup(p).pub = "provider" -> Take(p)
            [] OTHER -> Show(p)
  /\ UNCHANGED <<environment, opts, faults, hosts, store, shown>>

GetFails ==
  /\ cmd.pc = "next" /\ ~Listing
  /\ \E p \in {q \in cmd.left : cache[q] = NotListed} : Fault /\ Failed(p)
  /\ UNCHANGED <<environment, opts, cache, hosts, store, shown>>

LoopDone ==
  /\ cmd.pc = "next" /\ cmd.left = {}
  /\ Finish(IF cmd.errCount # 0 THEN "failed" ELSE "ok")
  /\ UNCHANGED <<environment, opts, faults, cache, hosts, store, shown>>

-----------------------------------------------------------------------------
(* showProviderInfo of cmd.at. *)
Info == cache[cmd.at]
Goto(pc) == cmd' = [cmd EXCEPT !.pc = pc]

Shown(dist) == shown' = Append(shown, [id |-> cmd.at, last |-> Info.last,
                                       dist |-> dist,
                                       since |-> cmd.since[cmd.at],
                                       now |-> chain[cmd.at]])

ShowBrief ==
  /\ cmd.pc = "show" /\ opts.brief
  /\ Shown(NoDist)
  /\ Goto("next")
  /\ UNCHANGED <<environment, opts, faults, cache, hosts, store>>

(* --protocol opens a host, which is closed when showProviderInfo returns.    *)
WantsHost == Info.pub # "none" /\ opts.protocol

ShowProtocol ==
  /\ cmd.pc = "show" /\ ~opts.brief
  /\ \/ WantsHost /\ hosts' = [hosts EXCEPT !.shared = TRUE] /\ UNCHANGED faults
     \/ WantsHost /\ Fault /\ UNCHANGED hosts
     \/ ~WantsHost /\ UNCHANGED <<hosts, faults>>
  /\ cmd' = [cmd EXCEPT !.pc = "distance", !.dist = NoDist]
  /\ UNCHANGED <<environment, opts, cache, store, shown>>

(* Without a publisher or a last advertisement there is no distance.          *)
HasDistance == opts.distance /\ Info.pub # "none" /\ Info.last # Undef

NoDistance ==
  /\ cmd.pc = "distance" /\ ~HasDistance
  /\ Goto("return")
  /\ UNCHANGED <<environment, opts, faults, cache, hosts, store, shown>>

(* NewAdDistance makes a host of its own if it is given none.  If its         *)
(* subscriber fails, that host is not closed.                                 *)
NewAdDistance_reused ==
  /\ cmd.pc = "distance" /\ HasDistance
  /\ hosts' = [hosts EXCEPT !.own = ~hosts.shared]
  /\ UNCHANGED store
  /\ Goto("walk")
  /\ UNCHANGED <<environment, opts, faults, cache, shown>>
NewAdDistance ==
  /\ cmd.pc = "distance" /\ HasDistance
  /\ hosts' = [hosts EXCEPT !.own = ~hosts.shared]
  /\ store' = EmptyStore
  /\ Goto("walk")
  /\ UNCHANGED <<environment, opts, faults, cache, shown>>

NewAdDistanceFails ==
  /\ cmd.pc = "distance" /\ HasDistance
  /\ Fault
  /\ \/ ~hosts.shared /\ UNCHANGED hosts
     \/ hosts' = [hosts EXCEPT !.lost = IF hosts.shared THEN @ ELSE @ + 1]
  /\ Goto("return")
  /\ UNCHANGED <<environment, opts, cache, store, shown>>

(* Get, from the last ad the indexer has told of to the head; then Close.     *)
Walked(n) == AfterWalk(store, cmd.at, chain[cmd.at], n)
WalkSize == DepthCut(WalkLen(chain[cmd.at], Info.last), WalkDepth(DepthLimit))
CloseOwn == hosts' = [hosts EXCEPT !.own = FALSE]

GetDistance ==
  /\ cmd.pc = "walk"
  /\ cmd' = [cmd EXCEPT !.pc = "return",
               !.dist = ReportedDist(Walked(WalkSize).count, DepthLimit)]
  /\ store' = EmptyStore
  /\ CloseOwn
  /\ UNCHANGED <<environment, opts, faults, cache, shown>>

GetDistanceFails_open ==
  /\ cmd.pc = "walk"
  /\ Fault
  /\ \E n \in 0..WalkSize : store' = Walked(n)
  /\ Goto("return")
  /\ UNCHANGED <<environment, opts, cache, hosts, shown>>
GetDistanceFails ==
  /\ cmd.pc = "walk"
  /\ Fault
  /\ \E n \in 0..WalkSize : store' = Walked(n)
  /\ CloseOwn
  /\ Goto("return")
  /\ UNCHANGED <<environment, opts, cache, shown>>

ShowReturns ==
  /\ cmd.pc = "return"
  /\ Shown(cmd.dist)
  /\ hosts' = [hosts EXCEPT !.shared = FALSE]
  /\ Goto("next")
  /\ UNCHANGED <<environment, opts, faults, cache, store>>

-----------------------------------------------------------------------------
Command ==
  \/ CacheFails \/ CountProviders \/ Start
  \/ ListNext \/ GetNext \/ GetFails \/ LoopDone
  \/ ShowBrief \/ ShowProtocol
  \/ NoDistance \/ NewAdDistance \/ NewAdDistanceFails
  \/ GetDistance \/ GetDistanceFails
  \/ ShowReturns

Done == cmd.pc = "done"
Next ==
  \/ \E p \in Providers : Publish(p) \/ Ingest(p)
  \/ Command
  \/ Done /\ UNCHANGED vars

Spec == Init /\ [][Next]_vars

-----------------------------------------------------------------------------
TypeOK ==
  /\ faults \in 0..MaxFaults
  /\ cmd.pc \in {"start", "next", "show", "distance", "walk", "return", "done"}
  /\ cmd.left \subseteq Providers
  /\ cmd.dist \in {NoDist} \cup -1..DepthLimit
  /\ cmd.errCount \in 0..Cardinality(opts.ids)
  /\ cmd.at \in Providers => cache[cmd.at] # NotListed
  /\ store.count \in Nat /\ (DepthLimit # 0 => store.count <= DepthLimit + 1)
  /\ hosts.lost \in 0..MaxFaults

ShownIds == {shown[i].id : i \in DOMAIN shown}

(* What the flags promise: "all providers except those specified", those      *)
(* "that have a LastError" or, inverted, those without, and those whose       *)
(* publisher is another.                                                      *)
Selected ==
  {p \in Known(cache) :
     /\ opts.all \/ (p \in opts.ids <=> ~opts.invert)
     /\ opts.error => (cache[p].err # opts.invert)
     /\ opts.diffPub => cache[p].pub = "other"}

(* A command that does not end early has shown all of its selection and       *)
(* nothing else, each provider once, in whatever order; a provider that is    *)
(* not found or cannot be got hides none of the others, and the error counts  *)
(* exactly those.  --count shows how many of all providers there are, or of   *)
(* those with or without a LastError.  EXCEPT: a selection by ID that is not  *)
(* inverted is not filtered by --error, although that says "Only show         *)
(* providers that have a LastError"; nothing but the IDs bounds what it shows.*)
ShowsSelection ==
  /\ cmd.result \in {"ok", "failed"} /\ ~opts.count =>
       /\ Selected \subseteq ShownIds
       /\ IF opts.error /\ ~Listing THEN ShownIds \subseteq opts.ids ELSE ShownIds \subseteq Selected
       /\ Len(shown) = Cardinality(ShownIds)
       /\ cmd.errCount = IF Listing THEN 0
                         ELSE Cardinality({p \in opts.ids : cache[p] = NotListed})
       /\ (cmd.result = "ok") = (cmd.errCount = 0)
  /\ opts.count /\ cmd.result = "ok" =>
       cmd.number = Cardinality({p \in Known(cache) :
                                   opts.error => cache[p].err # opts.invert})

(* A distance as it may be shown: the exact one within the limit, -1 beyond.  *)
(* With the limit 0, "for unlimited", -1 is shown for any distance above 0.   *)
MayShow(dist, exact) ==
  \/ dist = exact /\ (DepthLimit # 0 => exact <= DepthLimit)
  \/ dist = -1 /\ exact > DepthLimit

(* The distance shown is that from the advertisement shown to a head the      *)
(* publisher had since the command began, exactly, or -1 beyond the limit,    *)
(* whatever failed for the providers before; so the indexer is never farther  *)
(* behind than is shown.  EXCEPT that --ad-depth-limit 0 does not mean no     *)
(* limit here, as it says: see MayShow.                                       *)
DistanceExact ==
  \A i \in DOMAIN shown :
    LET s == shown[i]
    IN  s.dist # NoDist => \E head \in s.since..s.now : MayShow(s.dist, head - s.last)

(* Hosts are opened for one provider at a time, never two for one provider,   *)
(* and closed before the next, also if a sync fails; only NewAdDistance       *)
(* loses one, if its subscriber cannot be made.                               *)
HostsClosed ==
  /\ ~(hosts.shared /\ hosts.own)
  /\ cmd.pc \in {"next", "done"} => ~hosts.shared /\ ~hosts.own
  /\ hosts.lost <= faults
=============================================================================
