--------------------------- MODULE Provider_proofs ---------------------------
(***************************************************************************)
(* Proofs about `provider`, for every set of providers, command line, what *)
(* an indexer may tell, limit, chain and number of failures: what is shown *)
(* is what was selected, distances are real, and hosts are closed.         *)
(***************************************************************************)
EXTENDS Provider, FiniteSetTheorems, SequenceTheorems, TLAPS

Places == {"start", "next", "show", "distance", "walk", "return", "done"}
Endings == {"none", "ok", "failed", "no cache", "panic"}
Flags == [count : BOOLEAN, all : BOOLEAN, invert : BOOLEAN, error : BOOLEAN,
          diffPub : BOOLEAN, brief : BOOLEAN, protocol : BOOLEAN,
          distance : BOOLEAN, ids : SUBSET Providers]
Tells == [last : Nat, pub : {"provider", "other", "none"}, err : BOOLEAN]
Known2 == Tells \cup {NotListed}
Commands == [pc : Places, left : SUBSET Providers, at : Providers \cup {NotListed},
             since : [Providers -> Nat], dist : {NoDist} \cup -1..DepthLimit,
             errCount : Nat, number : Nat, result : Endings]
Hosts == [shared : BOOLEAN, own : BOOLEAN, lost : Nat]
Lines == [id : Providers, last : Nat, dist : {NoDist} \cup -1..DepthLimit,
          since : Nat, now : Nat]

(* What a walk within the limit may count.                                    *)
Counts == {n \in Nat : DepthLimit # 0 => n <= DepthLimit + 1}

Types ==
  /\ chain \in [Providers -> Nat]
  /\ listed \in [Providers -> Known2] /\ cache \in [Providers -> Known2]
  /\ opts \in Flags
  /\ faults \in 0..MaxFaults
  /\ cmd \in Commands /\ hosts \in Hosts
  /\ store.count \in Counts
  /\ shown \in Seq(Lines)

(* The indexer, and what the cache has read of it, is never ahead of a chain. *)
NotAhead ==
  \A p \in Providers :
    /\ listed[p] # NotListed => listed[p].last <= chain[p]
    /\ cache[p] # NotListed => cache[p].last <= chain[p]
    /\ cmd.since[p] <= chain[p]

(* A distance from last that the publisher of p had since the command began.  *)
Real(dist, last, from, to) ==
  \E head \in from..to : dist = IF head - last > DepthLimit THEN -1 ELSE head - last

Exact ==
  \A i \in DOMAIN shown :
    LET s == shown[i] IN s.dist # NoDist => Real(s.dist, s.last, s.since, s.now)

Showing == cmd.pc \in {"show", "distance", "walk", "return"}
Current == IF Showing THEN {cmd.at} ELSE {}

Measuring ==
  /\ Showing => cmd.at \in Providers /\ cache[cmd.at] # NotListed
  /\ cmd.pc = "walk" => HasDistance /\ store = EmptyStore
  /\ cmd.pc \in {"distance", "walk"} => cmd.dist = NoDist
  /\ cmd.pc = "return" /\ cmd.dist # NoDist =>
       Real(cmd.dist, Info.last, cmd.since[cmd.at], chain[cmd.at])

Opened ==
  /\ cmd.pc \in {"start", "next", "show", "done"} => ~hosts.shared
  /\ cmd.pc # "walk" => ~hosts.own
  /\ cmd.pc = "walk" => (hosts.own = ~hosts.shared)
  /\ hosts.lost <= faults

(* What has been shown, and is being shown, is what the code chooses among    *)
(* those that have been gone through; the others were not found.              *)
Looping == cmd.pc # "start" /\ ~opts.count /\ cmd.result # "no cache"
NotFound == {p \in opts.ids \ cmd.left : cache[p] = NotListed}

Chosen ==
  {p \in Known(cache) :
     /\ opts.all \/ (p \in opts.ids <=> ~opts.invert)
     /\ opts.error /\ Listing => (cache[p].err # opts.invert)
     /\ opts.diffPub => cache[p].pub = "other"}

Selecting ==
  /\ cmd.pc = "start" => shown = <<>> /\ cmd.errCount = 0 /\ cmd.left = {}
  /\ opts.count => cmd.pc \in {"start", "done"} /\ shown = <<>> /\ cmd.errCount = 0
  /\ cmd.result = "no cache" => shown = <<>> /\ cmd.errCount = 0 /\ cmd.pc = "done"
  /\ Looping =>
       /\ IF Listing THEN cmd.left \subseteq Known(cache) ELSE cmd.left \subseteq opts.ids
       /\ ShownIds \cup Current = Chosen \ cmd.left
       /\ cmd.errCount = IF Listing THEN 0 ELSE Cardinality(NotFound)
  /\ ShownIds \cap Current = {}
  /\ Len(shown) = Cardinality(ShownIds)

Ending ==
  /\ (cmd.pc = "done") = (cmd.result # "none")
  /\ cmd.result \in {"ok", "failed"} /\ ~opts.count =>
       cmd.left = {} /\ ((cmd.result = "ok") = (cmd.errCount = 0))
  /\ opts.count /\ cmd.result = "ok" => cmd.number = Cardinality(Counted(cache))

Inv ==
  /\ Types /\ NotAhead /\ Measuring /\ Opened /\ Selecting /\ Ending
  /\ Exact

-----------------------------------------------------------------------------
(* What the types say of the fields.                                          *)
LEMMA Fields ==
  ASSUME Types
  PROVE  /\ cmd.pc \in Places /\ cmd.left \subseteq Providers
         /\ cmd.at \in Providers \cup {NotListed} /\ cmd.since \in [Providers -> Nat]
         /\ cmd.dist \in {NoDist} \cup -1..DepthLimit
         /\ cmd.errCount \in Nat /\ cmd.number \in Nat /\ cmd.result \in Endings
         /\ hosts.shared \in BOOLEAN /\ hosts.own \in BOOLEAN /\ hosts.lost \in Nat
         /\ faults \in Nat /\ MaxFaults \in Nat /\ DepthLimit \in Nat
         /\ \A p \in Providers : /\ chain[p] \in Nat
                                 /\ cache[p] # NotListed => cache[p] \in Tells
                                 /\ listed[p] # NotListed => listed[p] \in Tells
<1>1. cmd \in Commands /\ hosts \in Hosts /\ faults \in 0..MaxFaults
  BY DEF Types
<1>2. MaxFaults \in Nat /\ DepthLimit \in Nat
  BY BoundsAssumption
<1>3. /\ cmd.pc \in Places /\ cmd.left \subseteq Providers
      /\ cmd.at \in Providers \cup {NotListed} /\ cmd.since \in [Providers -> Nat]
      /\ cmd.dist \in {NoDist} \cup -1..DepthLimit
      /\ cmd.errCount \in Nat /\ cmd.number \in Nat /\ cmd.result \in Endings
  BY <1>1 DEF Commands
<1>4. hosts.shared \in BOOLEAN /\ hosts.own \in BOOLEAN /\ hosts.lost \in Nat
  BY <1>1, Zenon DEF Hosts
<1>5. \A p \in Providers : /\ chain[p] \in Nat
                           /\ cache[p] # NotListed => cache[p] \in Tells
                           /\ listed[p] # NotListed => listed[p] \in Tells
  BY DEF Types, Known2
<1> QED
  BY <1>1, <1>2, <1>3, <1>4, <1>5

LEMMA FlagsAre ==
  ASSUME Types
  PROVE  /\ opts.count \in BOOLEAN /\ opts.all \in BOOLEAN /\ opts.invert \in BOOLEAN
         /\ opts.error \in BOOLEAN /\ opts.diffPub \in BOOLEAN /\ opts.ids \subseteq Providers
         /\ Listing \in BOOLEAN
<1>1. opts \in Flags
  BY DEF Types
<1> QED
  BY <1>1, Zenon DEF Flags, Listing

LEMMA Finite ==
  ASSUME NEW S \in SUBSET Providers
  PROVE  IsFiniteSet(S) /\ Cardinality(S) \in Nat
<1>1. IsFiniteSet(S)
  BY BoundsAssumption, FS_Subset
<1> QED
  BY <1>1, FS_CardinalityType

(* Counts go down to 0.                                                       *)
LEMMA CountsAre ==
  /\ 0 \in Counts /\ Counts \subseteq Nat /\ EmptyStore.count \in Counts
  /\ \A n \in Counts : \A m \in 0..n : m \in Counts
<1>1. DepthLimit \in Nat
  BY BoundsAssumption
<1>2. 0 \in Counts /\ Counts \subseteq Nat
  BY <1>1 DEF Counts
<1>3. ASSUME NEW n \in Counts, NEW m \in 0..n PROVE m \in Counts
  BY <1>1, <1>3 DEF Counts
<1> QED
  BY <1>2, <1>3 DEF EmptyStore

(* A walk of a fresh AdDistance: what it counts, and what it reports.         *)
LEMMA FreshWalk ==
  ASSUME NEW p, NEW head \in Nat, NEW last \in Nat \ {0}, last <= head,
         NEW size, size = DepthCut(WalkLen(head, last), WalkDepth(DepthLimit))
  PROVE  /\ size \in Counts
         /\ \A n \in 0..size : AfterWalk(EmptyStore, p, head, n).count = n
         /\ ReportedDist(size, DepthLimit) = IF head - last > DepthLimit THEN -1 ELSE head - last
<1>1. DepthLimit \in Nat
  BY BoundsAssumption
<1>2. size = IF DepthLimit # 0 /\ head - last > DepthLimit + 1 THEN DepthLimit + 1 ELSE head - last
  BY <1>1 DEF DepthCut, WalkLen, WalkDepth
<1>3. size \in Counts
  BY <1>1, <1>2 DEF Counts
<1>4. ReportedDist(size, DepthLimit) = IF head - last > DepthLimit THEN -1 ELSE head - last
  BY <1>1, <1>2 DEF ReportedDist
<1>5. ASSUME NEW n \in 0..size PROVE AfterWalk(EmptyStore, p, head, n).count = n
  <2>0. n \in Nat
    BY <1>3
  <2>1. CASE n = 0
    BY <2>1 DEF AfterWalk, EmptyStore
  <2>2. CASE n # 0
    <3>1. NoKey # <<p, head>>
      BY DEF NoKey
    <3>2. LoadBlock(EmptyStore, <<p, head>>).count = 1
      BY <3>1 DEF LoadBlock, EmptyStore
    <3>3. 1 + n - 1 = n
      BY <2>0
    <3> QED
      BY <2>2, <3>2, <3>3 DEF AfterWalk
  <2> QED
    BY <2>1, <2>2
<1> QED
  BY <1>3, <1>4, <1>5

(* The tests of listProviders choose what the flags promise.                  *)
LEMMA ListSelects ==
  ASSUME Types, Listing, NEW p \in Providers, cache[p] # NotListed
  PROVE  p \in Chosen <=> ~Excluded(p) /\ ~LastErrorSkips(p) /\ ~DiffPub(p)
<1>1. /\ opts.all \in BOOLEAN /\ opts.invert \in BOOLEAN /\ opts.error \in BOOLEAN
      /\ opts.diffPub \in BOOLEAN /\ (opts.all \/ opts.invert)
  BY FlagsAre, Zenon DEF Listing
<1>2. cache[p].err \in BOOLEAN
  <2>1. cache[p] \in Tells
    BY Fields
  <2> QED
    BY <2>1, Zenon DEF Tells
<1>3. p \in Chosen <=> /\ opts.all \/ (p \in opts.ids <=> ~opts.invert)
                       /\ opts.error => (cache[p].err # opts.invert)
                       /\ opts.diffPub => cache[p].pub = "other"
  BY Zenon DEF Chosen, Known, Listing
<1>4. (opts.all \/ (p \in opts.ids <=> ~opts.invert)) <=> ~Excluded(p)
  BY <1>1, Zenon DEF Excluded
<1>5. (opts.error => (cache[p].err # opts.invert)) <=> ~LastErrorSkips(p)
  BY <1>1, <1>2, Zenon DEF LastErrorSkips
<1>6. (opts.diffPub => cache[p].pub = "other") <=> ~DiffPub(p)
  BY <1>1, Zenon DEF DiffPub
<1> QED
  BY <1>3, <1>4, <1>5, <1>6, Zenon

(* A selection by ID that is not inverted.                                    *)
LEMMA IdsSelect ==
  ASSUME Types, ~Listing, NEW p \in Providers, NEW c, c = cache[p]
  PROVE  p \in Chosen <=> c # NotListed /\ p \in opts.ids /\ (opts.diffPub => c.pub = "other")
<1>1. /\ opts.all \in BOOLEAN /\ opts.invert \in BOOLEAN /\ ~opts.all /\ ~opts.invert
  BY FlagsAre, Zenon DEF Listing
<1>2. p \in Chosen <=> /\ c # NotListed
                       /\ opts.all \/ (p \in opts.ids <=> ~opts.invert)
                       /\ opts.error /\ Listing => (c.err # opts.invert)
                       /\ opts.diffPub => c.pub = "other"
  BY Zenon DEF Chosen, Known
<1>3. (opts.all \/ (p \in opts.ids <=> ~opts.invert)) <=> p \in opts.ids
  BY <1>1, Zenon
<1> QED
  BY <1>2, <1>3, Zenon

-----------------------------------------------------------------------------
LEMMA InvInit == Init => Inv
<1> SUFFICES ASSUME Init PROVE Inv
  OBVIOUS
<1>1. /\ MaxFaults \in Nat /\ DepthLimit \in Nat /\ FirstAds \in Nat \ {0}
      /\ Infos \subseteq Tells /\ Options \subseteq Flags
  BY BoundsAssumption DEF Tells, Flags
<1>2. /\ cmd.pc = "start" /\ cmd.left = {} /\ cmd.at = NotListed /\ cmd.since = chain
      /\ cmd.dist = NoDist /\ cmd.errCount = 0 /\ cmd.number = 0 /\ cmd.result = "none"
  BY DEF Init
<1>3. /\ hosts = [shared |-> FALSE, own |-> FALSE, lost |-> 0] /\ shown = <<>>
      /\ chain = [p \in Providers |-> FirstAds] /\ faults = 0
      /\ listed \in [Providers -> Infos \cup {NotListed}] /\ opts \in Options
      /\ cache = [p \in Providers |-> NotListed] /\ store = EmptyStore
  BY DEF Init
<1>4. Types
  <2>1. cmd \in Commands
    <3>1. chain \in [Providers -> Nat]
      BY <1>1, <1>3
    <3>2. cmd = [pc |-> "start", left |-> {}, at |-> NotListed, since |-> chain,
                 dist |-> NoDist, errCount |-> 0, number |-> 0, result |-> "none"]
      BY DEF Init
    <3> QED
      BY <3>1, <3>2 DEF Commands, Places, Endings
  <2>2. hosts \in Hosts
    BY <1>3 DEF Hosts
  <2>3. store.count = 0
    BY <1>3 DEF EmptyStore
  <2>4. shown \in Seq(Lines)
    BY <1>3
  <2> QED
    BY <1>1, <1>3, <2>1, <2>2, <2>3, <2>4, CountsAre DEF Types, Known2
<1>5. NotAhead
  <2> SUFFICES ASSUME NEW p \in Providers
               PROVE  /\ listed[p] # NotListed => listed[p].last <= chain[p]
                      /\ cache[p] # NotListed => cache[p].last <= chain[p]
                      /\ cmd.since[p] <= chain[p]
    BY DEF NotAhead
  <2>1. chain[p] = FirstAds /\ cache[p] = NotListed /\ cmd.since[p] <= chain[p]
    BY <1>1, <1>2, <1>3
  <2>2. listed[p] # NotListed => listed[p].last \in 0..FirstAds
    BY <1>3, BoundsAssumption
  <2> QED
    BY <1>1, <2>1, <2>2
<1>6. Measuring
  BY <1>2 DEF Measuring, Showing
<1>7. Opened
  BY <1>2, <1>3 DEF Opened
<1>8. Selecting
  <2>1. ShownIds = {} /\ Current = {} /\ Len(shown) = 0
    BY <1>2, <1>3 DEF ShownIds, Current, Showing
  <2>2. Cardinality(ShownIds) = 0
    BY <2>1, FS_EmptySet
  <2> QED
    BY <1>2, <1>3, <2>1, <2>2 DEF Selecting, Looping
<1>9. Ending
  BY <1>2 DEF Ending
<1>10. Exact
  BY <1>3 DEF Exact
<1> QED
  BY <1>4, <1>5, <1>6, <1>7, <1>8, <1>9, <1>10 DEF Inv

-----------------------------------------------------------------------------
(* What happens meanwhile.                                                    *)
LEMMA Meanwhile ==
  ASSUME Inv, UNCHANGED <<opts, faults, cache, cmd, hosts, store, shown>>,
         chain' \in [Providers -> Nat], listed' \in [Providers -> Known2],
         \A p \in Providers : chain[p] <= chain'[p],
         \A p \in Providers : listed'[p] # NotListed => listed'[p].last <= chain'[p]
  PROVE  Inv'
<1>1. /\ Showing' = Showing /\ Current' = Current /\ ShownIds' = ShownIds /\ Chosen' = Chosen
      /\ Looping' = Looping /\ NotFound' = NotFound /\ Listing' = Listing /\ Info' = Info
      /\ HasDistance' = HasDistance
  BY DEF Showing, Current, ShownIds, Chosen, Looping, NotFound, Listing, Info, HasDistance, Known
<1>2. Types'
  BY DEF Inv, Types
<1>3. NotAhead'
  <2> SUFFICES ASSUME NEW p \in Providers
               PROVE  /\ cache[p] # NotListed => cache[p].last <= chain'[p]
                      /\ cmd.since[p] <= chain'[p]
    BY DEF NotAhead
  <2>1. chain[p] \in Nat /\ chain'[p] \in Nat /\ cmd.since[p] \in Nat /\ chain[p] <= chain'[p]
    BY Fields DEF Inv
  <2>2. cache[p] # NotListed => cache[p].last \in Nat
    BY Fields DEF Inv, Tells
  <2> QED
    BY <2>1, <2>2 DEF Inv, NotAhead
<1>4. Measuring'
  <2>1. ASSUME cmd.pc = "return", cmd.dist # NoDist
        PROVE  Real(cmd.dist, Info.last, cmd.since[cmd.at], chain'[cmd.at])
    <3>1. cmd.at \in Providers /\ Real(cmd.dist, Info.last, cmd.since[cmd.at], chain[cmd.at])
      BY <2>1 DEF Inv, Measuring, Showing
    <3>2. chain[cmd.at] \in Nat /\ chain'[cmd.at] \in Nat /\ cmd.since[cmd.at] \in Nat
          /\ chain[cmd.at] <= chain'[cmd.at]
      BY <3>1, Fields DEF Inv
    <3>3. PICK head \in cmd.since[cmd.at]..chain[cmd.at] :
            cmd.dist = IF head - Info.last > DepthLimit THEN -1 ELSE head - Info.last
      BY <3>1 DEF Real
    <3>4. head \in cmd.since[cmd.at]..chain'[cmd.at]
      BY <3>2
    <3> QED
      BY <3>3, <3>4 DEF Real
  <2> QED
    BY <1>1, <2>1 DEF Inv, Measuring
<1>5. Opened'
  BY DEF Inv, Opened
<1>6. Selecting'
  BY <1>1 DEF Inv, Selecting
<1>7. Ending'
  BY DEF Inv, Ending, Counted, Known
<1>8. Exact'
  BY DEF Inv, Exact
<1> QED
  BY <1>2, <1>3, <1>4, <1>5, <1>6, <1>7, <1>8 DEF Inv

LEMMA EnvironmentInv ==
  ASSUME Inv, NEW p \in Providers, Publish(p) \/ Ingest(p)
  PROVE  Inv'
<1>1. /\ chain \in [Providers -> Nat] /\ listed \in [Providers -> Known2]
      /\ \A q \in Providers : listed[q] # NotListed => listed[q].last <= chain[q] /\ listed[q] \in Tells
  BY Fields DEF Inv, Types, NotAhead
<1>2. CASE Publish(p)
  <2>1. /\ chain' = [chain EXCEPT ![p] = @ + 1]
        /\ UNCHANGED <<listed, opts, faults, cache, cmd, hosts, store, shown>>
    BY <1>2 DEF Publish
  <2>2. chain' \in [Providers -> Nat] /\ \A q \in Providers : chain[q] <= chain'[q]
    BY <1>1, <2>1
  <2>3. \A q \in Providers : listed'[q] # NotListed => listed'[q].last <= chain'[q]
    <3> SUFFICES ASSUME NEW q \in Providers, listed[q] # NotListed
                 PROVE  listed[q].last <= chain'[q]
      BY <2>1
    <3>1. listed[q].last \in Nat /\ chain[q] \in Nat /\ chain'[q] \in Nat
      BY <1>1, <2>2 DEF Tells
    <3> QED
      BY <1>1, <2>2, <3>1
  <2> QED
    BY <1>1, <2>1, <2>2, <2>3, Meanwhile
<1>3. CASE Ingest(p)
  <2>1. /\ listed[p] # NotListed /\ listed' = [listed EXCEPT ![p].last = chain[p]]
        /\ UNCHANGED <<chain, opts, faults, cache, cmd, hosts, store, shown>>
    BY <1>3 DEF Ingest
  <2>2. PICK t \in Tells : t = listed[p]
    BY <1>1, <2>1
  <2>3. listed' = [listed EXCEPT ![p] = [t EXCEPT !.last = chain[p]]]
    BY <2>1, <2>2
  <2>4. [t EXCEPT !.last = chain[p]] \in Tells /\ [t EXCEPT !.last = chain[p]].last = chain[p]
    BY <1>1 DEF Tells
  <2>5. listed' \in [Providers -> Known2]
    BY <1>1, <2>3, <2>4 DEF Known2
  <2>6. \A q \in Providers : chain[q] <= chain'[q]
    BY <1>1, <2>1
  <2>7. \A q \in Providers : listed'[q] # NotListed => listed'[q].last <= chain'[q]
    BY <1>1, <2>1, <2>3, <2>4, <2>6
  <2> QED
    BY <1>1, <2>1, <2>5, <2>6, <2>7, Meanwhile
<1> QED
  BY <1>2, <1>3

-----------------------------------------------------------------------------
(* Where the command shows nothing and has opened nothing, the parts of the   *)
(* invariant about the provider at hand are trivial.                          *)
LEMMA Between ==
  ASSUME Inv, UNCHANGED <<chain, listed, opts, hosts, store, shown>>,
         cmd.pc \in {"start", "next"}, cmd'.pc \in {"next", "show", "done"},
         cmd' \in Commands, cache' \in [Providers -> Known2],
         faults' \in faults..MaxFaults,
         \A p \in Providers : cache'[p] # NotListed => cache'[p].last <= chain[p],
         cmd'.since = cmd.since \/ cmd'.since = chain,
         cmd'.pc = "show" => cmd'.at \in Providers /\ cache'[cmd'.at] # NotListed,
         Selecting', Ending'
  PROVE  Inv'
<1>1. faults \in Nat /\ faults' \in 0..MaxFaults /\ faults <= faults'
  BY Fields DEF Inv
<1>2. Types'
  BY <1>1 DEF Inv, Types
<1>3. NotAhead'
  <2>1. \A p \in Providers : cmd'.since[p] <= chain[p]
    BY Fields DEF Inv, NotAhead
  <2> QED
    BY <2>1 DEF Inv, NotAhead
<1>4. Measuring'
  BY DEF Measuring, Showing
<1>5. Opened'
  <2>1. hosts.lost \in Nat /\ faults' \in Nat
    BY <1>1, Fields DEF Inv
  <2> QED
    BY <1>1, <2>1 DEF Inv, Opened
<1>6. Exact'
  BY DEF Inv, Exact
<1> QED
  BY <1>2, <1>3, <1>4, <1>5, <1>6 DEF Inv

LEMMA CacheFailsInv ==
  ASSUME Inv, CacheFails
  PROVE  Inv'
<1>1. /\ cmd.pc = "start" /\ faults < MaxFaults /\ faults' = faults + 1
      /\ cmd' = [cmd EXCEPT !.pc = "done", !.result = "no cache"]
      /\ UNCHANGED <<chain, listed, opts, cache, hosts, store, shown>>
  BY DEF CacheFails, Fault, Finish, environment
<1>2. cmd \in Commands /\ faults \in Nat /\ MaxFaults \in Nat /\ cache \in [Providers -> Known2]
  BY Fields DEF Inv, Types
<1>3. /\ cmd' \in Commands /\ cmd'.pc = "done" /\ cmd'.result = "no cache"
      /\ cmd'.left = cmd.left /\ cmd'.errCount = cmd.errCount /\ cmd'.since = cmd.since
  BY <1>1, <1>2 DEF Commands, Places, Endings
<1>4. Current' = {} /\ ShownIds' = ShownIds
  BY <1>1, <1>3 DEF Current, Showing, ShownIds
<1>5. Selecting'
  BY <1>1, <1>3, <1>4 DEF Inv, Selecting, Looping
<1>6. Ending'
  BY <1>3 DEF Ending
<1>7. \A p \in Providers : cache'[p] # NotListed => cache'[p].last <= chain[p]
  BY <1>1 DEF Inv, NotAhead
<1>8. faults' \in faults..MaxFaults
  BY <1>1, <1>2
<1> QED
  BY <1>1, <1>2, <1>3, <1>5, <1>6, <1>7, <1>8, Between

LEMMA CountProvidersInv ==
  ASSUME Inv, CountProviders
  PROVE  Inv'
<1>1. /\ cmd.pc = "start" /\ opts.count /\ cache' = listed
      /\ cmd' = [cmd EXCEPT !.pc = "done", !.result = "ok",
                            !.number = Cardinality(Counted(listed))]
      /\ UNCHANGED <<chain, listed, opts, faults, hosts, store, shown>>
  BY DEF CountProviders, environment
<1>2. cmd \in Commands /\ faults \in Nat /\ MaxFaults \in Nat /\ listed \in [Providers -> Known2]
  BY Fields DEF Inv, Types
<1>3. PICK n \in Nat : n = Cardinality(Counted(listed))
  <2>1. Counted(listed) \subseteq Providers
    BY DEF Counted, Known
  <2> QED
    BY <2>1, Finite
<1>4. /\ cmd' \in Commands /\ cmd'.pc = "done" /\ cmd'.result = "ok" /\ cmd'.number = n
      /\ cmd'.left = cmd.left /\ cmd'.errCount = cmd.errCount /\ cmd'.since = cmd.since
  BY <1>1, <1>2, <1>3 DEF Commands, Places, Endings
<1>5. Current' = {} /\ ShownIds' = ShownIds
  BY <1>1, <1>4 DEF Current, Showing, ShownIds
<1>6. Selecting'
  BY <1>1, <1>4, <1>5 DEF Inv, Selecting, Looping
<1>7. Ending'
  <2>1. Counted(cache)' = Counted(listed)
    BY <1>1 DEF Counted, Known
  <2> QED
    BY <1>1, <1>3, <1>4, <2>1 DEF Ending
<1>8. \A p \in Providers : cache'[p] # NotListed => cache'[p].last <= chain[p]
  BY <1>1 DEF Inv, NotAhead
<1>9. faults' \in faults..MaxFaults
  BY <1>1, Fields DEF Inv, Types
<1> QED
  BY <1>1, <1>2, <1>4, <1>6, <1>7, <1>8, <1>9, Between

LEMMA StartInv ==
  ASSUME Inv, Start
  PROVE  Inv'
<1>1. /\ cmd.pc = "start" /\ ~opts.count
      /\ cache' = IF Preloads THEN listed ELSE cache
      /\ cmd' = [cmd EXCEPT !.pc = "next", !.since = chain,
                            !.left = IF Listing THEN Known(listed) ELSE opts.ids]
      /\ UNCHANGED <<chain, listed, opts, faults, hosts, store, shown>>
  BY DEF Start, environment
<1>2. /\ cmd \in Commands /\ chain \in [Providers -> Nat]
      /\ listed \in [Providers -> Known2] /\ cache \in [Providers -> Known2]
      /\ opts.ids \subseteq Providers
  BY FlagsAre DEF Inv, Types
<1>3. PICK all \in SUBSET Providers : all = IF Listing THEN Known(listed) ELSE opts.ids
  BY <1>2 DEF Known
<1>4. /\ cmd' \in Commands /\ cmd'.pc = "next" /\ cmd'.result = cmd.result /\ cmd'.left = all
      /\ cmd'.errCount = cmd.errCount /\ cmd'.since = chain
  BY <1>1, <1>2, <1>3 DEF Commands, Places, Endings
<1>5. /\ Current' = {} /\ ShownIds' = ShownIds /\ shown = <<>> /\ ShownIds = {}
      /\ cmd.errCount = 0 /\ cmd.result = "none"
  <2>1. shown = <<>> /\ cmd.errCount = 0
    BY <1>1 DEF Inv, Selecting
  <2>2. cmd.result = "none"
    BY <1>1, Zenon DEF Inv, Ending
  <2>3. ShownIds = {} /\ ShownIds' = ShownIds
    BY <1>1, <2>1 DEF ShownIds
  <2>4. Current' = {}
    BY <1>4 DEF Current, Showing
  <2> QED
    BY <2>1, <2>2, <2>3, <2>4
<1>6. Selecting'
  <2>1. CASE Listing
    <3>1. cache' = listed /\ all = Known(cache') /\ Listing'
      BY <1>1, <1>3, <2>1 DEF Preloads, Listing
    <3>2. Chosen' \subseteq all
      BY <3>1 DEF Chosen, Known
    <3> QED
      BY <1>1, <1>4, <1>5, <3>1, <3>2 DEF Inv, Selecting, Looping
  <2>2. CASE ~Listing
    <3>1. ~Listing' /\ all = opts.ids
      BY <1>1, <1>3, <2>2 DEF Listing
    <3>2. Chosen' \subseteq all
      <4> SUFFICES ASSUME NEW p \in Chosen' PROVE p \in all
        OBVIOUS
      <4>1. p \in opts.ids
        <5>1. ~opts.all /\ ~opts.invert
          BY <2>2 DEF Listing
        <5>2. opts'.all \/ (p \in opts'.ids <=> ~opts'.invert)
          BY Zenon DEF Chosen
        <5> QED
          BY <1>1, <5>1, <5>2
      <4> QED
        BY <3>1, <4>1
    <3>3. NotFound' = {} /\ Cardinality({}) = 0
      BY <1>1, <1>4, <3>1, FS_EmptySet DEF NotFound
    <3> QED
      BY <1>1, <1>4, <1>5, <3>1, <3>2, <3>3 DEF Inv, Selecting, Looping
  <2> QED
    BY <2>1, <2>2
<1>7. Ending'
  BY <1>1, <1>4, <1>5 DEF Ending
<1>8. \A p \in Providers : cache'[p] # NotListed => cache'[p].last <= chain[p]
  BY <1>1 DEF Inv, NotAhead
<1>9. cache' \in [Providers -> Known2]
  BY <1>1, <1>2
<1>10. faults' \in faults..MaxFaults
  BY <1>1, Fields DEF Inv, Types
<1> QED
  BY <1>1, <1>2, <1>4, <1>6, <1>7, <1>8, <1>9, <1>10, Between

-----------------------------------------------------------------------------
(* The loop goes on from p: it is shown if it is selected, and counted as an  *)
(* error if it was asked for and is not found.                                *)
LEMMA GoneOn ==
  ASSUME Inv, NEW p \in cmd.left, cmd.pc = "next", UNCHANGED <<opts, shown>>,
         cmd'.pc \in {"next", "show"}, cmd'.left = cmd.left \ {p}, cmd'.result = cmd.result,
         \A q \in Providers : q # p => cache'[q] = cache[q],
         Listing => cache' = cache,
         Current' = IF p \in Chosen' THEN {p} ELSE {},
         cmd'.errCount = IF ~Listing /\ cache'[p] = NotListed THEN cmd.errCount + 1 ELSE cmd.errCount
  PROVE  Selecting' /\ Ending'
<1>1. /\ p \in Providers /\ cmd.left \subseteq Providers /\ opts.ids \subseteq Providers
      /\ cmd.errCount \in Nat
  BY Fields, FlagsAre DEF Inv
<1>2. ~opts.count /\ cmd.result = "none" /\ cmd'.result = "none"
  <2>1. ~opts.count
    BY DEF Inv, Selecting
  <2>2. cmd.result = "none"
    BY Zenon DEF Inv, Ending
  <2> QED
    BY <2>1, <2>2
<1>3. Looping /\ Looping' /\ Listing' = Listing /\ ShownIds' = ShownIds /\ Current = {}
  BY <1>2 DEF Looping, Listing, ShownIds, Current, Showing
<1>4. /\ IF Listing THEN cmd.left \subseteq Known(cache) ELSE cmd.left \subseteq opts.ids
      /\ ShownIds = Chosen \ cmd.left
      /\ cmd.errCount = IF Listing THEN 0 ELSE Cardinality(NotFound)
      /\ Len(shown) = Cardinality(ShownIds)
  BY <1>3 DEF Inv, Selecting
<1>5. Chosen \subseteq Providers /\ Chosen' \subseteq Providers
  BY DEF Chosen, Known
<1>6. \A q \in Providers : q # p => (q \in Chosen' <=> q \in Chosen)
  BY <1>3, Zenon DEF Chosen, Known
<1>7. ShownIds \cup Current' = Chosen' \ cmd'.left
  BY <1>4, <1>5, <1>6
<1>8. ShownIds \cap Current' = {}
  BY <1>4
<1>9. IF Listing THEN cmd'.left \subseteq Known(cache') ELSE cmd'.left \subseteq opts.ids
  BY <1>4
<1>10. cmd'.errCount = IF Listing THEN 0 ELSE Cardinality(NotFound')
  <2>1. CASE Listing
    BY <1>4, <2>1
  <2>2. CASE ~Listing
    <3>1. NotFound' = IF cache'[p] = NotListed THEN NotFound \cup {p} ELSE NotFound
      BY <1>1, <1>4, <2>2 DEF NotFound
    <3>2. p \notin NotFound /\ NotFound \subseteq Providers
      BY <1>1 DEF NotFound
    <3>3. IsFiniteSet(NotFound) /\ Cardinality(NotFound \cup {p}) = Cardinality(NotFound) + 1
      BY <3>2, Finite, FS_AddElement
    <3> QED
      BY <1>4, <2>2, <3>1, <3>3
  <2> QED
    BY <2>1, <2>2
<1>11. Selecting'
  BY <1>2, <1>3, <1>4, <1>7, <1>8, <1>9, <1>10 DEF Selecting
<1>12. Ending'
  BY <1>2 DEF Ending
<1> QED
  BY <1>11, <1>12

(* The loop ends.                                                             *)
LEMMA EndedSo ==
  ASSUME Inv, NEW end \in {"ok", "failed", "panic"}, cmd.pc = "next",
         cmd' = [cmd EXCEPT !.pc = "done", !.result = end],
         UNCHANGED <<chain, listed, opts, faults, hosts, store, shown>>,
         cache' \in [Providers -> Known2],
         \A q \in Providers : q \notin cmd.left => cache'[q] = cache[q],
         Listing => cache' = cache,
         \A q \in Providers : cache'[q] # NotListed => cache'[q].last <= chain[q],
         end = "panic" \/ (cmd.left = {} /\ ((end = "ok") = (cmd.errCount = 0)))
  PROVE  Inv'
<1>1. cmd \in Commands
  BY DEF Inv, Types
<1>2. /\ cmd' \in Commands /\ cmd'.pc = "done" /\ cmd'.result = end
      /\ cmd'.left = cmd.left /\ cmd'.errCount = cmd.errCount /\ cmd'.since = cmd.since
  BY <1>1 DEF Commands, Places, Endings
<1>3. ~opts.count /\ cmd.result = "none"
  <2>1. ~opts.count
    BY DEF Inv, Selecting
  <2>2. cmd.result = "none"
    BY Zenon DEF Inv, Ending
  <2> QED
    BY <2>1, <2>2
<1>4. /\ Looping /\ Looping' /\ Listing' = Listing /\ ShownIds' = ShownIds
      /\ Current = {} /\ Current' = {}
  BY <1>2, <1>3 DEF Looping, Listing, ShownIds, Current, Showing
<1>5. Chosen \subseteq Providers /\ Chosen' \subseteq Providers
  BY DEF Chosen, Known
<1>6. \A q \in Providers : q \notin cmd.left => (q \in Chosen' <=> q \in Chosen)
  BY <1>4, Zenon DEF Chosen, Known
<1>7. Chosen' \ cmd'.left = Chosen \ cmd.left
  BY <1>2, <1>5, <1>6
<1>8. NotFound' = NotFound
  BY <1>2, FlagsAre DEF NotFound, Inv
<1>9. Selecting'
  BY <1>2, <1>3, <1>4, <1>7, <1>8 DEF Inv, Selecting
<1>10. Ending'
  BY <1>2, <1>3 DEF Ending
<1>11. faults' \in faults..MaxFaults
  BY Fields DEF Inv, Types
<1> QED
  BY <1>2, <1>9, <1>10, <1>11, Between

LEMMA ListNextInv ==
  ASSUME Inv, ListNext
  PROVE  Inv'
<1>1. PICK p \in cmd.left :
        \/ (Excluded(p) \/ LastErrorSkips(p)) /\ Take(p)
        \/ /\ ~Excluded(p) /\ ~LastErrorSkips(p)
           /\ CASE DiffPub(p) /\ cache[p].pub = "none" -> Panic
                [] DiffPub(p) /\ cache[p].pub # "none" -> Take(p)
                [] OTHER -> Show(p)
  BY DEF ListNext
<1>2. /\ cmd.pc = "next" /\ Listing
      /\ UNCHANGED <<chain, listed, opts, faults, cache, hosts, store, shown>>
  BY DEF ListNext, environment
<1>3. /\ cmd \in Commands /\ p \in Providers /\ cache \in [Providers -> Known2]
      /\ cmd.errCount \in Nat /\ cmd.left \subseteq Providers
      /\ \A q \in Providers : cache[q] # NotListed => cache[q].last <= chain[q]
  BY Fields DEF Inv, Types, NotAhead
<1>4. cache[p] # NotListed
  <2>1. Looping
    <3>1. cmd.result = "none"
      BY <1>2, Zenon DEF Inv, Ending
    <3> QED
      BY <1>2, <3>1 DEF Inv, Selecting, Looping
  <2> QED
    BY <1>2, <2>1 DEF Inv, Selecting, Known
<1>5. p \in Chosen <=> ~Excluded(p) /\ ~LastErrorSkips(p) /\ ~DiffPub(p)
  BY <1>2, <1>3, <1>4, ListSelects DEF Inv
<1>6. Chosen' = Chosen /\ faults' \in faults..MaxFaults
  <2>1. Chosen' = Chosen
    BY <1>2 DEF Chosen, Known, Listing
  <2> QED
    BY <1>2, <2>1, Fields DEF Inv, Types
<1>7. CASE Take(p) /\ p \notin Chosen
  <2>1. /\ cmd' \in Commands /\ cmd'.pc = "next" /\ cmd'.left = cmd.left \ {p}
        /\ cmd'.result = cmd.result /\ cmd'.errCount = cmd.errCount /\ cmd'.since = cmd.since
    BY <1>2, <1>3, <1>7 DEF Take, Commands
  <2>2. Current' = {}
    BY <2>1 DEF Current, Showing
  <2>3. Selecting' /\ Ending'
    BY <1>2, <1>3, <1>6, <1>7, <2>1, <2>2, GoneOn
  <2> QED
    BY <1>2, <1>3, <1>6, <2>1, <2>3, Between
<1>8. CASE Show(p) /\ p \in Chosen
  <2>1. /\ cmd' \in Commands /\ cmd'.pc = "show" /\ cmd'.left = cmd.left \ {p} /\ cmd'.at = p
        /\ cmd'.result = cmd.result /\ cmd'.errCount = cmd.errCount /\ cmd'.since = cmd.since
    BY <1>2, <1>3, <1>8 DEF Show, Commands, Places
  <2>2. Current' = {p}
    BY <2>1 DEF Current, Showing
  <2>3. Selecting' /\ Ending'
    BY <1>2, <1>3, <1>6, <1>8, <2>1, <2>2, GoneOn
  <2> QED
    BY <1>2, <1>3, <1>4, <1>6, <2>1, <2>3, Between
<1>9. CASE Panic
  BY <1>2, <1>3, <1>9, EndedSo DEF Panic, Finish
<1> QED
  BY <1>1, <1>5, <1>7, <1>8, <1>9

(* The cache after p was looked up.                                           *)
LEMMA LookedUp ==
  ASSUME Inv, NEW p \in Providers, cache' = [cache EXCEPT ![p] = Lookup(p)], UNCHANGED chain
  PROVE  /\ cache' \in [Providers -> Known2] /\ cache'[p] = Lookup(p)
         /\ \A q \in Providers : q # p => cache'[q] = cache[q]
         /\ \A q \in Providers : cache'[q] # NotListed => cache'[q].last <= chain[q]
<1>1. cache \in [Providers -> Known2] /\ listed \in [Providers -> Known2]
  BY DEF Inv, Types
<1>2. Lookup(p) \in Known2 /\ (Lookup(p) # NotListed => Lookup(p).last <= chain[p])
  BY <1>1 DEF Lookup, Inv, NotAhead
<1>3. /\ cache' \in [Providers -> Known2] /\ cache'[p] = Lookup(p)
      /\ \A q \in Providers : q # p => cache'[q] = cache[q]
  BY <1>1, <1>2
<1> QED
  BY <1>2, <1>3 DEF Inv, NotAhead

LEMMA FailsOn ==
  ASSUME Types, cmd.pc = "next", NEW p \in cmd.left, Failed(p)
  PROVE  /\ cmd' \in Commands /\ cmd'.pc = "next" /\ cmd'.left = cmd.left \ {p}
         /\ cmd'.result = cmd.result /\ cmd'.errCount = cmd.errCount + 1 /\ cmd'.since = cmd.since
<1>1. cmd \in Commands /\ cmd.errCount \in Nat
  BY Fields DEF Types
<1>2. PICK n \in Nat : n = cmd.errCount + 1
  BY <1>1
<1>3. cmd' = [cmd EXCEPT !.left = cmd.left \ {p}, !.errCount = n]
  BY <1>2 DEF Failed
<1>4. /\ cmd' \in Commands /\ cmd'.pc = "next" /\ cmd'.left = cmd.left \ {p}
      /\ cmd'.result = cmd.result /\ cmd'.errCount = n /\ cmd'.since = cmd.since
  BY <1>1, <1>3 DEF Commands
<1> QED
  BY <1>2, <1>4

LEMMA GetNextInv ==
  ASSUME Inv, GetNext
  PROVE  Inv'
<1>1. PICK p \in cmd.left :
        /\ cache' = [cache EXCEPT ![p] = Lookup(p)]
        /\ CASE Lookup(p) = NotListed -> Failed(p)
             [] Lookup(p) # NotListed /\ opts.diffPub /\ Lookup(p).pub = "none" -> Panic
             [] Lookup(p) # NotListed /\ opts.diffPub /\ Lookup(p).pub = "provider" -> Take(p)
             [] OTHER -> Show(p)
  BY DEF GetNext
<1>2. /\ cmd.pc = "next" /\ ~Listing
      /\ UNCHANGED <<chain, listed, opts, faults, hosts, store, shown>>
  BY DEF GetNext, environment
<1>3. /\ cmd \in Commands /\ p \in Providers /\ cmd.errCount \in Nat /\ cmd.left \subseteq Providers
      /\ faults' \in faults..MaxFaults
  BY <1>2, Fields DEF Inv, Types
<1>4. /\ cache' \in [Providers -> Known2] /\ cache'[p] = Lookup(p)
      /\ \A q \in Providers : q # p => cache'[q] = cache[q]
      /\ \A q \in Providers : cache'[q] # NotListed => cache'[q].last <= chain[q]
  BY <1>1, <1>2, <1>3, LookedUp
<1>5. p \in opts.ids
  <2>1. cmd.result = "none"
    BY <1>2, Zenon DEF Inv, Ending
  <2> QED
    BY <1>2, <2>1 DEF Inv, Selecting, Looping
<1>6. p \in Chosen' <=> Lookup(p) # NotListed /\ (opts.diffPub => Lookup(p).pub = "other")
  <2>1. ~opts.all /\ ~opts.invert /\ ~Listing'
    BY <1>2 DEF Listing
  <2>2. p \in Chosen' <=> /\ cache'[p] # NotListed
                          /\ opts'.all \/ (p \in opts'.ids <=> ~opts'.invert)
                          /\ opts'.error /\ Listing' => (cache'[p].err # opts'.invert)
                          /\ opts'.diffPub => cache'[p].pub = "other"
    BY <1>3, Zenon DEF Chosen, Known
  <2> QED
    BY <1>2, <1>4, <1>5, <2>1, <2>2, Zenon
<1>7. Lookup(p) # NotListed => Lookup(p).pub \in {"provider", "other", "none"}
  BY <1>3, <1>4 DEF Known2, Tells
<1>8. CASE Lookup(p) = NotListed
  <2>1. Failed(p)
    BY <1>1, <1>8
  <2>2. /\ cmd' \in Commands /\ cmd'.pc = "next" /\ cmd'.left = cmd.left \ {p}
        /\ cmd'.result = cmd.result /\ cmd'.errCount = cmd.errCount + 1 /\ cmd'.since = cmd.since
    BY <1>2, <2>1, FailsOn DEF Inv
  <2>3. Current' = {} /\ p \notin Chosen'
    BY <1>6, <1>8, <2>2 DEF Current, Showing
  <2>4. Selecting' /\ Ending'
    BY <1>2, <1>3, <1>4, <1>8, <2>2, <2>3, GoneOn
  <2> QED
    BY <1>2, <1>3, <1>4, <2>2, <2>4, Between
<1>9. CASE Lookup(p) # NotListed /\ opts.diffPub /\ Lookup(p).pub = "provider"
  <2>1. Take(p)
    BY <1>1, <1>9
  <2>2. /\ cmd' \in Commands /\ cmd'.pc = "next" /\ cmd'.left = cmd.left \ {p}
        /\ cmd'.result = cmd.result /\ cmd'.errCount = cmd.errCount /\ cmd'.since = cmd.since
    BY <1>2, <1>3, <2>1 DEF Take, Commands
  <2>3. Current' = {} /\ p \notin Chosen'
    BY <1>6, <1>9, <2>2 DEF Current, Showing
  <2>4. Selecting' /\ Ending'
    BY <1>2, <1>3, <1>4, <1>9, <2>2, <2>3, GoneOn
  <2> QED
    BY <1>2, <1>3, <1>4, <2>2, <2>4, Between
<1>10. CASE Lookup(p) # NotListed /\ opts.diffPub /\ Lookup(p).pub = "none"
  <2>1. Panic
    BY <1>1, <1>10
  <2>2. \A q \in Providers : q \notin cmd.left => cache'[q] = cache[q]
    BY <1>4
  <2> QED
    BY <1>2, <1>4, <2>1, <2>2, EndedSo DEF Panic, Finish
<1>11. CASE Lookup(p) # NotListed /\ (opts.diffPub => Lookup(p).pub = "other")
  <2>1. Show(p)
    BY <1>1, <1>11
  <2>2. /\ cmd' \in Commands /\ cmd'.pc = "show" /\ cmd'.left = cmd.left \ {p} /\ cmd'.at = p
        /\ cmd'.result = cmd.result /\ cmd'.errCount = cmd.errCount /\ cmd'.since = cmd.since
    BY <1>2, <1>3, <2>1 DEF Show, Commands, Places
  <2>3. Current' = {p} /\ p \in Chosen'
    BY <1>6, <1>11, <2>2 DEF Current, Showing
  <2>4. Selecting' /\ Ending'
    BY <1>2, <1>3, <1>4, <1>11, <2>2, <2>3, GoneOn
  <2> QED
    BY <1>2, <1>3, <1>4, <1>11, <2>2, <2>4, Between
<1> QED
  BY <1>7, <1>8, <1>9, <1>10, <1>11

LEMMA GetFailsInv ==
  ASSUME Inv, GetFails
  PROVE  Inv'
<1>1. PICK p \in cmd.left : cache[p] = NotListed /\ Fault /\ Failed(p)
  BY DEF GetFails
<1>2. /\ cmd.pc = "next" /\ ~Listing /\ faults < MaxFaults /\ faults' = faults + 1
      /\ UNCHANGED <<chain, listed, opts, cache, hosts, store, shown>>
  BY <1>1 DEF GetFails, Fault, environment
<1>3. /\ cmd \in Commands /\ p \in Providers /\ cmd.errCount \in Nat /\ cmd.left \subseteq Providers
      /\ faults' \in faults..MaxFaults /\ cache \in [Providers -> Known2]
  BY <1>2, Fields DEF Inv, Types
<1>4. /\ cmd' \in Commands /\ cmd'.pc = "next" /\ cmd'.left = cmd.left \ {p}
      /\ cmd'.result = cmd.result /\ cmd'.errCount = cmd.errCount + 1 /\ cmd'.since = cmd.since
  BY <1>1, <1>2, FailsOn DEF Inv
<1>5. Current' = {} /\ p \notin Chosen'
  BY <1>1, <1>2, <1>4 DEF Current, Showing, Chosen, Known
<1>6. Selecting' /\ Ending'
  BY <1>1, <1>2, <1>3, <1>4, <1>5, GoneOn
<1>7. \A q \in Providers : cache'[q] # NotListed => cache'[q].last <= chain[q]
  BY <1>2 DEF Inv, NotAhead
<1> QED
  BY <1>2, <1>3, <1>4, <1>6, <1>7, Between

LEMMA LoopDoneInv ==
  ASSUME Inv, LoopDone
  PROVE  Inv'
<1>1. /\ cmd.pc = "next" /\ cmd.left = {}
      /\ cmd' = [cmd EXCEPT !.pc = "done", !.result = IF cmd.errCount # 0 THEN "failed" ELSE "ok"]
      /\ UNCHANGED <<chain, listed, opts, faults, cache, hosts, store, shown>>
  BY DEF LoopDone, Finish, environment
<1>2. PICK end \in {"ok", "failed"} : end = IF cmd.errCount # 0 THEN "failed" ELSE "ok"
  OBVIOUS
<1>3. cache \in [Providers -> Known2]
      /\ \A q \in Providers : cache[q] # NotListed => cache[q].last <= chain[q]
  BY DEF Inv, Types, NotAhead
<1> QED
  BY <1>1, <1>2, <1>3, EndedSo

-----------------------------------------------------------------------------
(* Steps of showProviderInfo.                                                 *)
LEMMA ShowsOn ==
  ASSUME Inv, Showing, Showing', UNCHANGED <<chain, listed, opts, cache, shown>>,
         cmd' \in Commands, cmd'.left = cmd.left, cmd'.at = cmd.at, cmd'.since = cmd.since,
         cmd'.errCount = cmd.errCount, cmd'.result = cmd.result,
         faults' \in faults..MaxFaults, hosts' \in Hosts, store'.count \in Counts,
         Measuring', Opened'
  PROVE  Inv'
<1>1. faults' \in 0..MaxFaults
  BY Fields DEF Inv
<1>2. Types'
  BY <1>1 DEF Inv, Types
<1>3. NotAhead'
  BY DEF Inv, NotAhead
<1>4. cmd.pc \notin {"start", "done"} /\ cmd'.pc \notin {"start", "done"}
  BY DEF Showing
<1>5. cmd.result = "none"
  BY <1>4, Zenon DEF Inv, Ending
<1>6. /\ Listing' = Listing /\ ShownIds' = ShownIds /\ Chosen' = Chosen /\ Current' = Current
      /\ NotFound' = NotFound
  BY DEF Listing, ShownIds, Chosen, Known, Current, NotFound
<1>7. Looping /\ Looping' /\ ~opts.count
  <2>1. ~opts.count
    BY <1>4 DEF Inv, Selecting
  <2> QED
    BY <1>4, <1>5, <2>1 DEF Looping
<1>8. Selecting'
  BY <1>4, <1>5, <1>6, <1>7 DEF Inv, Selecting
<1>9. Ending'
  BY <1>4, <1>5 DEF Ending
<1>10. Exact'
  BY DEF Inv, Exact
<1> QED
  BY <1>2, <1>3, <1>8, <1>9, <1>10 DEF Inv

LEMMA ShownOn ==
  ASSUME Inv, Showing, NEW dist \in {NoDist} \cup -1..DepthLimit, Shown(dist),
         UNCHANGED <<chain, listed, opts, cache, faults, store>>,
         cmd' = [cmd EXCEPT !.pc = "next"],
         hosts' \in Hosts, ~hosts'.shared, ~hosts'.own, hosts'.lost = hosts.lost,
         dist # NoDist => Real(dist, Info.last, cmd.since[cmd.at], chain[cmd.at])
  PROVE  Inv'
<1>1. /\ cmd \in Commands /\ cmd.at \in Providers /\ cache[cmd.at] \in Tells
      /\ chain[cmd.at] \in Nat /\ cmd.since[cmd.at] \in Nat /\ shown \in Seq(Lines)
  BY Fields DEF Inv, Types, Measuring
<1>2. /\ cmd' \in Commands /\ cmd'.pc = "next" /\ cmd'.left = cmd.left /\ cmd'.since = cmd.since
      /\ cmd'.errCount = cmd.errCount /\ cmd'.result = cmd.result
  BY <1>1 DEF Commands, Places
<1>3. PICK line : line = [id |-> cmd.at, last |-> Info.last, dist |-> dist,
                          since |-> cmd.since[cmd.at], now |-> chain[cmd.at]]
  OBVIOUS
<1>4. /\ line \in Lines /\ line.id = cmd.at /\ line.last = Info.last /\ line.dist = dist
      /\ line.since = cmd.since[cmd.at] /\ line.now = chain[cmd.at]
  <2>1. Info.last \in Nat
    BY <1>1 DEF Info, Tells
  <2> QED
    BY <1>1, <1>3, <2>1 DEF Lines
<1>5. shown' = Append(shown, line)
  BY <1>3 DEF Shown
<1>6. PICK len \in Nat : len = Len(shown)
  BY <1>1
<1>7. /\ shown' \in Seq(Lines) /\ Len(shown') = len + 1 /\ DOMAIN shown' = 1..(len + 1)
      /\ shown'[len + 1] = line /\ \A i \in 1..len : shown'[i] = shown[i]
      /\ DOMAIN shown = 1..len
  BY <1>1, <1>4, <1>5, <1>6, AppendProperties, LenProperties
<1>8. \A i \in 1..(len + 1) : i = len + 1 \/ i \in 1..len
  OBVIOUS
<1>8a. (len + 1) \in 1..(len + 1) /\ \A i \in 1..len : i \in 1..(len + 1)
  OBVIOUS
<1>9. ShownIds' = ShownIds \cup {cmd.at}
  <2>1. ShownIds' \subseteq ShownIds \cup {cmd.at}
    BY <1>4, <1>7, <1>8 DEF ShownIds
  <2>2. ShownIds \cup {cmd.at} \subseteq ShownIds'
    <3>1. ShownIds \subseteq ShownIds'
      BY <1>7, <1>8a DEF ShownIds
    <3>2. cmd.at \in ShownIds'
      BY <1>4, <1>7, <1>8a DEF ShownIds
    <3> QED
      BY <3>1, <3>2
  <2> QED
    BY <2>1, <2>2
<1>10. cmd.pc \notin {"start", "done"} /\ Current = {cmd.at} /\ Current' = {}
  BY <1>2 DEF Showing, Current
<1>11. cmd.result = "none"
  BY <1>10, Zenon DEF Inv, Ending
<1>12. /\ Listing' = Listing /\ Chosen' = Chosen /\ NotFound' = NotFound
  BY <1>2 DEF Listing, Chosen, Known, NotFound
<1>13. Looping /\ Looping' /\ ~opts.count
  <2>1. ~opts.count
    BY <1>10 DEF Inv, Selecting
  <2> QED
    BY <1>2, <1>10, <1>11, <2>1 DEF Looping
<1>14. Len(shown') = Cardinality(ShownIds')
  <2>1. cmd.at \notin ShownIds /\ len = Cardinality(ShownIds)
    BY <1>6, <1>10 DEF Inv, Selecting
  <2>2. ShownIds \subseteq Providers
    <3> SUFFICES ASSUME NEW i \in 1..len PROVE shown[i].id \in Providers
      BY <1>7 DEF ShownIds
    <3>1. shown[i] \in Lines
      BY <1>1, <1>6, ElementOfSeq
    <3> QED
      BY <3>1 DEF Lines
  <2>3. Cardinality(ShownIds \cup {cmd.at}) = Cardinality(ShownIds) + 1
    BY <2>1, <2>2, Finite, FS_AddElement
  <2> QED
    BY <1>7, <1>9, <2>1, <2>3
<1>15. Selecting'
  <2>1. ShownIds' \cup Current' = Chosen' \ cmd'.left
    BY <1>2, <1>9, <1>10, <1>12, <1>13 DEF Inv, Selecting
  <2> QED
    BY <1>2, <1>10, <1>11, <1>12, <1>13, <1>14, <2>1 DEF Inv, Selecting
<1>16. Ending'
  BY <1>2, <1>11 DEF Ending
<1>17. Types'
  BY <1>2, <1>7 DEF Inv, Types
<1>18. NotAhead'
  BY <1>2 DEF Inv, NotAhead
<1>19. Measuring'
  BY <1>2 DEF Measuring, Showing
<1>20. Opened'
  BY <1>2 DEF Inv, Opened
<1>21. Exact'
  <2> SUFFICES ASSUME NEW i \in 1..(len + 1), shown'[i].dist # NoDist
               PROVE  Real(shown'[i].dist, shown'[i].last, shown'[i].since, shown'[i].now)
    BY <1>7 DEF Exact, Real
  <2>1. CASE i = len + 1
    <3>1. shown'[i] = line
      BY <1>7, <2>1
    <3> QED
      BY <1>4, <3>1
  <2>2. CASE i \in 1..len
    BY <1>7, <2>2 DEF Inv, Exact
  <2> QED
    BY <1>8, <2>1, <2>2
<1> QED
  BY <1>15, <1>16, <1>17, <1>18, <1>19, <1>20, <1>21 DEF Inv

LEMMA ShowBriefInv ==
  ASSUME Inv, ShowBrief
  PROVE  Inv'
<1>1. /\ cmd.pc = "show" /\ Shown(NoDist) /\ cmd' = [cmd EXCEPT !.pc = "next"]
      /\ UNCHANGED <<chain, listed, opts, faults, cache, hosts, store>>
  BY DEF ShowBrief, Goto, environment
<1>2. Showing /\ NoDist \in {NoDist} \cup -1..DepthLimit
  BY <1>1 DEF Showing
<1>3. hosts' \in Hosts /\ ~hosts'.shared /\ ~hosts'.own /\ hosts'.lost = hosts.lost
  BY <1>1 DEF Inv, Types, Opened
<1> QED
  BY <1>1, <1>2, <1>3, ShownOn

LEMMA ShowReturnsInv ==
  ASSUME Inv, ShowReturns
  PROVE  Inv'
<1>1. /\ cmd.pc = "return" /\ Shown(cmd.dist) /\ cmd' = [cmd EXCEPT !.pc = "next"]
      /\ hosts' = [hosts EXCEPT !.shared = FALSE]
      /\ UNCHANGED <<chain, listed, opts, faults, cache, store>>
  BY DEF ShowReturns, Goto, environment
<1>2. Showing /\ cmd.dist \in {NoDist} \cup -1..DepthLimit
  BY <1>1, Fields DEF Showing, Inv
<1>3. hosts' \in Hosts /\ ~hosts'.shared /\ ~hosts'.own /\ hosts'.lost = hosts.lost
  <2>1. hosts \in Hosts /\ ~hosts.own
    BY <1>1 DEF Inv, Types, Opened
  <2> QED
    BY <1>1, <2>1 DEF Hosts
<1>4. cmd.dist # NoDist => Real(cmd.dist, Info.last, cmd.since[cmd.at], chain[cmd.at])
  BY <1>1 DEF Inv, Measuring
<1> QED
  BY <1>1, <1>2, <1>3, <1>4, ShownOn

LEMMA ShowProtocolInv ==
  ASSUME Inv, ShowProtocol
  PROVE  Inv'
<1>1. /\ cmd.pc = "show" /\ cmd' = [cmd EXCEPT !.pc = "distance", !.dist = NoDist]
      /\ UNCHANGED <<chain, listed, opts, cache, store, shown>>
      /\ \/ hosts' = [hosts EXCEPT !.shared = TRUE] /\ UNCHANGED faults
         \/ faults < MaxFaults /\ faults' = faults + 1 /\ UNCHANGED hosts
         \/ UNCHANGED <<hosts, faults>>
  BY DEF ShowProtocol, Fault, environment
<1>2. /\ cmd \in Commands /\ hosts \in Hosts /\ faults \in Nat /\ MaxFaults \in Nat
      /\ hosts.lost \in Nat /\ faults <= MaxFaults
  BY Fields DEF Inv, Types
<1>3. /\ cmd' \in Commands /\ cmd'.pc = "distance" /\ cmd'.dist = NoDist
      /\ cmd'.left = cmd.left /\ cmd'.at = cmd.at /\ cmd'.since = cmd.since
      /\ cmd'.errCount = cmd.errCount /\ cmd'.result = cmd.result
  BY <1>1, <1>2 DEF Commands, Places
<1>4. faults' \in faults..MaxFaults
  BY <1>1, <1>2
<1>5. hosts' \in Hosts /\ ~hosts'.own /\ hosts'.lost = hosts.lost
  <2>1. ~hosts.own
    BY <1>1 DEF Inv, Opened
  <2> QED
    BY <1>1, <1>2, <2>1 DEF Hosts
<1>6. Opened'
  <2>1. hosts.lost <= faults' 
    BY <1>2, <1>4 DEF Inv, Opened
  <2> QED
    BY <1>3, <1>5, <2>1 DEF Opened
<1>7. Measuring'
  BY <1>1, <1>3 DEF Inv, Measuring, Showing
<1>8. Showing /\ Showing' /\ store'.count \in Counts
  BY <1>1, <1>3 DEF Showing, Inv, Types
<1> QED
  BY <1>1, <1>3, <1>4, <1>5, <1>6, <1>7, <1>8, ShowsOn

LEMMA NoDistanceInv ==
  ASSUME Inv, NoDistance
  PROVE  Inv'
<1>1. /\ cmd.pc = "distance" /\ cmd' = [cmd EXCEPT !.pc = "return"]
      /\ UNCHANGED <<chain, listed, opts, faults, cache, hosts, store, shown>>
  BY DEF NoDistance, Goto, environment
<1>2. cmd \in Commands
  BY DEF Inv, Types
<1>3. /\ cmd' \in Commands /\ cmd'.pc = "return" /\ cmd'.dist = cmd.dist
      /\ cmd'.left = cmd.left /\ cmd'.at = cmd.at /\ cmd'.since = cmd.since
      /\ cmd'.errCount = cmd.errCount /\ cmd'.result = cmd.result
  BY <1>1, <1>2 DEF Commands, Places
<1>4. faults' \in faults..MaxFaults
  BY <1>1, Fields DEF Inv, Types
<1>5. Opened'
  BY <1>1, <1>3 DEF Inv, Opened
<1>6. Measuring'
  BY <1>1, <1>3 DEF Inv, Measuring, Showing
<1>7. Showing /\ Showing' /\ store'.count \in Counts /\ hosts' \in Hosts
  BY <1>1, <1>3 DEF Showing, Inv, Types
<1> QED
  BY <1>1, <1>3, <1>4, <1>5, <1>6, <1>7, ShowsOn

LEMMA NewAdDistanceInv ==
  ASSUME Inv, NewAdDistance
  PROVE  Inv'
<1>1. /\ cmd.pc = "distance" /\ HasDistance /\ cmd' = [cmd EXCEPT !.pc = "walk"]
      /\ hosts' = [hosts EXCEPT !.own = ~hosts.shared] /\ store' = EmptyStore
      /\ UNCHANGED <<chain, listed, opts, faults, cache, shown>>
  BY DEF NewAdDistance, Goto, environment
<1>2. cmd \in Commands /\ hosts \in Hosts /\ hosts.shared \in BOOLEAN
  BY Fields DEF Inv, Types
<1>3. /\ cmd' \in Commands /\ cmd'.pc = "walk" /\ cmd'.dist = cmd.dist
      /\ cmd'.left = cmd.left /\ cmd'.at = cmd.at /\ cmd'.since = cmd.since
      /\ cmd'.errCount = cmd.errCount /\ cmd'.result = cmd.result
  BY <1>1, <1>2 DEF Commands, Places
<1>4. faults' \in faults..MaxFaults
  BY <1>1, Fields DEF Inv, Types
<1>5. /\ hosts' \in Hosts /\ hosts'.lost = hosts.lost /\ hosts'.shared = hosts.shared
      /\ hosts'.own = ~hosts.shared
  BY <1>1, <1>2, Zenon DEF Hosts
<1>6. Opened'
  BY <1>1, <1>3, <1>5 DEF Inv, Opened
<1>7. HasDistance'
  BY <1>1, <1>3 DEF HasDistance, Info
<1>8. Measuring'
  BY <1>1, <1>3, <1>7 DEF Inv, Measuring, Showing
<1>9. Showing /\ Showing' /\ store'.count \in Counts
  BY <1>1, <1>3, CountsAre DEF Showing
<1> QED
  BY <1>1, <1>3, <1>4, <1>5, <1>6, <1>8, <1>9, ShowsOn

LEMMA NewAdDistanceFailsInv ==
  ASSUME Inv, NewAdDistanceFails
  PROVE  Inv'
<1>1. /\ cmd.pc = "distance" /\ cmd' = [cmd EXCEPT !.pc = "return"]
      /\ faults < MaxFaults /\ faults' = faults + 1
      /\ \/ UNCHANGED hosts
         \/ hosts' = [hosts EXCEPT !.lost = IF hosts.shared THEN @ ELSE @ + 1]
      /\ UNCHANGED <<chain, listed, opts, cache, store, shown>>
  BY DEF NewAdDistanceFails, Fault, Goto, environment
<1>2. /\ cmd \in Commands /\ hosts \in Hosts /\ faults \in Nat /\ MaxFaults \in Nat
      /\ hosts.lost \in Nat
  BY Fields DEF Inv, Types
<1>3. /\ cmd' \in Commands /\ cmd'.pc = "return" /\ cmd'.dist = cmd.dist
      /\ cmd'.left = cmd.left /\ cmd'.at = cmd.at /\ cmd'.since = cmd.since
      /\ cmd'.errCount = cmd.errCount /\ cmd'.result = cmd.result
  BY <1>1, <1>2 DEF Commands, Places
<1>4. faults' \in faults..MaxFaults
  BY <1>1, <1>2
<1>5. PICK lost \in Nat : /\ lost \in {hosts.lost, hosts.lost + 1}
                          /\ hosts' = [hosts EXCEPT !.lost = lost]
  <2>1. hosts = [hosts EXCEPT !.lost = hosts.lost]
    BY <1>2 DEF Hosts
  <2>2. CASE UNCHANGED hosts
    BY <1>2, <2>1, <2>2
  <2>3. CASE hosts' = [hosts EXCEPT !.lost = IF hosts.shared THEN @ ELSE @ + 1]
    <3>1. hosts.lost + 1 \in Nat
      BY <1>2
    <3>2. CASE hosts.shared
      BY <1>2, <2>3, <3>2
    <3>3. CASE ~hosts.shared
      BY <2>3, <3>1, <3>3
    <3> QED
      BY <3>2, <3>3
  <2> QED
    BY <1>1, <2>2, <2>3
<1>6. hosts' \in Hosts /\ hosts'.lost = lost /\ hosts'.own = hosts.own
  BY <1>2, <1>5 DEF Hosts
<1>7. Opened'
  <2>1. lost <= faults'
    BY <1>1, <1>2, <1>5 DEF Inv, Opened
  <2> QED
    BY <1>1, <1>3, <1>6, <2>1 DEF Inv, Opened
<1>8. Measuring'
  BY <1>1, <1>3 DEF Inv, Measuring, Showing
<1>9. Showing /\ Showing' /\ store'.count \in Counts
  BY <1>1, <1>3 DEF Showing, Inv, Types
<1> QED
  BY <1>1, <1>3, <1>4, <1>6, <1>7, <1>8, <1>9, ShowsOn

(* A walk that begins: of how many blocks, and what they count.               *)
LEMMA Walking ==
  ASSUME Inv, cmd.pc = "walk"
  PROVE  /\ WalkSize \in Counts
         /\ \A n \in 0..WalkSize : Walked(n).count = n
         /\ Real(ReportedDist(WalkSize, DepthLimit), Info.last, cmd.since[cmd.at], chain[cmd.at])
         /\ ReportedDist(WalkSize, DepthLimit) \in -1..DepthLimit
<1>1. /\ cmd.at \in Providers /\ Info \in Tells /\ Info.last # Undef /\ store = EmptyStore
      /\ cmd.since[cmd.at] \in Nat /\ cmd.since[cmd.at] <= chain[cmd.at]
      /\ chain[cmd.at] \in Nat /\ Info.last <= chain[cmd.at]
  BY Fields DEF Inv, Measuring, Showing, HasDistance, Info, NotAhead
<1>2. PICK last \in Nat \ {0}, head \in Nat :
        last = Info.last /\ head = chain[cmd.at] /\ last <= head
  BY <1>1 DEF Tells, Undef
<1>3. PICK p, size : p = cmd.at /\ size = WalkSize
  OBVIOUS
<1>4. size = DepthCut(WalkLen(head, last), WalkDepth(DepthLimit))
  BY <1>2, <1>3 DEF WalkSize
<1>5. /\ size \in Counts
      /\ \A n \in 0..size : AfterWalk(EmptyStore, p, head, n).count = n
      /\ ReportedDist(size, DepthLimit) = IF head - last > DepthLimit THEN -1 ELSE head - last
  <2>1. last <= head
    BY <1>2
  <2> QED
    BY <1>4, <2>1, FreshWalk
<1>6. \A n \in 0..size : Walked(n).count = n
  BY <1>1, <1>2, <1>3, <1>5, Zenon DEF Walked
<1>7. head \in cmd.since[cmd.at]..chain[cmd.at]
  BY <1>1, <1>2
<1>8. Real(ReportedDist(size, DepthLimit), last, cmd.since[cmd.at], chain[cmd.at])
  BY <1>5, <1>7 DEF Real
<1>9. ReportedDist(size, DepthLimit) \in -1..DepthLimit
  <2>1. size \in Nat /\ DepthLimit \in Nat
    BY <1>5, CountsAre, BoundsAssumption
  <2> QED
    BY <2>1 DEF ReportedDist
<1> QED
  BY <1>2, <1>3, <1>5, <1>6, <1>8, <1>9, Zenon

LEMMA GetDistanceInv ==
  ASSUME Inv, GetDistance
  PROVE  Inv'
<1>1. /\ cmd.pc = "walk" /\ store' = EmptyStore /\ hosts' = [hosts EXCEPT !.own = FALSE]
      /\ cmd' = [cmd EXCEPT !.pc = "return",
                            !.dist = ReportedDist(Walked(WalkSize).count, DepthLimit)]
      /\ UNCHANGED <<chain, listed, opts, faults, cache, shown>>
  BY DEF GetDistance, CloseOwn, environment
<1>2. cmd \in Commands /\ hosts \in Hosts /\ DepthLimit \in Nat
  BY Fields DEF Inv, Types
<1>3. PICK dist \in -1..DepthLimit :
        /\ dist = ReportedDist(Walked(WalkSize).count, DepthLimit)
        /\ Real(dist, Info.last, cmd.since[cmd.at], chain[cmd.at])
  <2>1. WalkSize \in 0..WalkSize
    <3>1. WalkSize \in Nat
      BY <1>1, Walking, CountsAre
    <3> QED
      BY <3>1
  <2>2. Walked(WalkSize).count = WalkSize
    BY <1>1, <2>1, Walking
  <2> QED
    BY <1>1, <2>2, Walking
<1>4. /\ cmd' \in Commands /\ cmd'.pc = "return" /\ cmd'.dist = dist
      /\ cmd'.left = cmd.left /\ cmd'.at = cmd.at /\ cmd'.since = cmd.since
      /\ cmd'.errCount = cmd.errCount /\ cmd'.result = cmd.result
  BY <1>1, <1>2, <1>3 DEF Commands, Places
<1>5. faults' \in faults..MaxFaults
  BY <1>1, Fields DEF Inv, Types
<1>6. hosts' \in Hosts /\ ~hosts'.own /\ hosts'.lost = hosts.lost
  BY <1>1, <1>2 DEF Hosts
<1>7. Opened'
  BY <1>1, <1>4, <1>6 DEF Inv, Opened
<1>8. Measuring'
  <2>1. Info' = Info
    BY <1>1, <1>4 DEF Info
  <2> QED
    BY <1>1, <1>3, <1>4, <2>1 DEF Inv, Measuring, Showing
<1>9. Showing /\ Showing' /\ store'.count \in Counts
  BY <1>1, <1>2, <1>4, CountsAre DEF Showing
<1> QED
  BY <1>1, <1>4, <1>5, <1>6, <1>7, <1>8, <1>9, ShowsOn

LEMMA GetDistanceFailsInv ==
  ASSUME Inv, GetDistanceFails
  PROVE  Inv'
<1>1. /\ cmd.pc = "walk" /\ hosts' = [hosts EXCEPT !.own = FALSE]
      /\ faults < MaxFaults /\ faults' = faults + 1
      /\ cmd' = [cmd EXCEPT !.pc = "return"]
      /\ \E n \in 0..WalkSize : store' = Walked(n)
      /\ UNCHANGED <<chain, listed, opts, cache, shown>>
  BY DEF GetDistanceFails, CloseOwn, Fault, Goto, environment
<1>2. /\ cmd \in Commands /\ hosts \in Hosts /\ DepthLimit \in Nat /\ cmd.dist = NoDist
      /\ faults \in Nat /\ MaxFaults \in Nat /\ hosts.lost \in Nat
  BY <1>1, Fields DEF Inv, Types, Measuring
<1>3. store'.count \in Counts
  <2>1. PICK n \in 0..WalkSize : store' = Walked(n)
    BY <1>1
  <2>2. WalkSize \in Counts /\ store'.count = n
    BY <1>1, <2>1, Walking
  <2>3. n \in 0..WalkSize
    OBVIOUS
  <2> QED
    BY <2>2, <2>3, CountsAre
<1>4. /\ cmd' \in Commands /\ cmd'.pc = "return" /\ cmd'.dist = NoDist
      /\ cmd'.left = cmd.left /\ cmd'.at = cmd.at /\ cmd'.since = cmd.since
      /\ cmd'.errCount = cmd.errCount /\ cmd'.result = cmd.result
  BY <1>1, <1>2 DEF Commands, Places
<1>5. faults' \in faults..MaxFaults
  BY <1>1, <1>2
<1>6. hosts' \in Hosts /\ ~hosts'.own /\ hosts'.lost = hosts.lost
  BY <1>1, <1>2 DEF Hosts
<1>7. Opened'
  <2>1. hosts.lost <= faults'
    BY <1>1, <1>2 DEF Inv, Opened
  <2> QED
    BY <1>1, <1>4, <1>6, <2>1 DEF Inv, Opened
<1>8. Measuring'
  BY <1>1, <1>4 DEF Inv, Measuring, Showing
<1>9. Showing /\ Showing'
  BY <1>1, <1>4 DEF Showing
<1> QED
  BY <1>1, <1>3, <1>4, <1>5, <1>6, <1>7, <1>8, <1>9, ShowsOn

-----------------------------------------------------------------------------
LEMMA InvNext ==
  ASSUME Inv, [Next]_vars
  PROVE  Inv'
<1>1. CASE UNCHANGED vars
  <2>1. UNCHANGED <<chain, listed, opts, faults, cache, cmd, hosts, store, shown>>
    BY <1>1 DEF vars, environment
  <2>2. /\ chain' \in [Providers -> Nat] /\ listed' \in [Providers -> Known2]
        /\ \A p \in Providers : chain[p] <= chain'[p]
        /\ \A p \in Providers : listed'[p] # NotListed => listed'[p].last <= chain'[p]
    BY <2>1, Fields DEF Inv, Types, NotAhead
  <2> QED
    BY <2>1, <2>2, Meanwhile
<1>2. CASE \E p \in Providers : Publish(p) \/ Ingest(p)
  BY <1>2, EnvironmentInv
<1>3. CASE Command
  <2>1. CASE CacheFails \/ CountProviders \/ Start
    BY <2>1, CacheFailsInv, CountProvidersInv, StartInv
  <2>2. CASE ListNext \/ GetNext \/ GetFails \/ LoopDone
    BY <2>2, ListNextInv, GetNextInv, GetFailsInv, LoopDoneInv
  <2>3. CASE ShowBrief \/ ShowProtocol \/ ShowReturns
    BY <2>3, ShowBriefInv, ShowProtocolInv, ShowReturnsInv
  <2>4. CASE NoDistance \/ NewAdDistance \/ NewAdDistanceFails
    BY <2>4, NoDistanceInv, NewAdDistanceInv, NewAdDistanceFailsInv
  <2>5. CASE GetDistance \/ GetDistanceFails
    BY <2>5, GetDistanceInv, GetDistanceFailsInv
  <2> QED
    BY <1>3, <2>1, <2>2, <2>3, <2>4, <2>5 DEF Command
<1> QED
  BY <1>1, <1>2, <1>3 DEF Next

LEMMA InvHolds == Spec => []Inv
<1>1. Init => Inv
  BY InvInit
<1>2. Inv /\ [Next]_vars => Inv'
  BY InvNext
<1> QED
  BY <1>1, <1>2, PTL DEF Spec

(* The provider shown last stays known to the cache.                          *)
AtKnown ==
  /\ cmd.pc = "start" => cmd.at = NotListed
  /\ cmd.at \in Providers => cache[cmd.at] # NotListed

LEMMA AtKnownNext ==
  ASSUME Inv, Inv', AtKnown, [Next]_vars
  PROVE  AtKnown'
<1>1. /\ cmd \in Commands /\ NotListed \notin Providers
      /\ cache \in [Providers -> Known2]
  BY BoundsAssumption DEF Inv, Types
<1>2. CASE Showing'
  BY <1>2 DEF Inv, Measuring, Showing, AtKnown
<1>3. ASSUME cmd'.at = cmd.at, cmd'.pc # "start",
             cmd.pc = "start" \/ \A p \in Providers : cache[p] # NotListed => cache'[p] = cache[p]
      PROVE  AtKnown'
  BY <1>1, <1>3 DEF AtKnown
<1>4. CASE cmd' = cmd /\ cache' = cache
  BY <1>4 DEF AtKnown
<1>5. CASE CacheFails \/ CountProviders \/ Start
  <2>1. CASE CacheFails
    BY <1>1, <1>3, <2>1 DEF CacheFails, Finish, Commands
  <2>2. CASE CountProviders
    BY <1>1, <1>3, <2>2 DEF CountProviders, Commands
  <2>3. CASE Start
    BY <1>1, <1>3, <2>3 DEF Start, Commands
  <2> QED
    BY <1>5, <2>1, <2>2, <2>3
<1>6. CASE ListNext
  <2>1. PICK p : Take(p) \/ Panic \/ Show(p)
    BY <1>6 DEF ListNext
  <2>2. cmd.pc = "next" /\ cache' = cache
    BY <1>6 DEF ListNext
  <2>3. CASE Show(p)
    BY <1>1, <1>2, <2>3 DEF Show, Showing, Commands
  <2>4. CASE Take(p) \/ Panic
    <3>1. cmd'.at = cmd.at /\ cmd'.pc # "start"
      BY <1>1, <2>2, <2>4 DEF Take, Panic, Finish, Commands
    <3> QED
      BY <1>3, <2>2, <3>1
  <2> QED
    BY <2>1, <2>3, <2>4
<1>7. CASE GetNext
  <2>1. PICK p \in Providers : /\ cache' = [cache EXCEPT ![p] = Lookup(p)]
                              /\ (Failed(p) \/ Panic \/ Take(p) \/ Show(p))
    BY <1>1, <1>7 DEF GetNext, Commands
  <2>2. cmd.pc = "next" /\ \A q \in Providers : cache[q] # NotListed => cache'[q] = cache[q]
    BY <1>1, <1>7, <2>1 DEF GetNext, Lookup
  <2>3. CASE Show(p)
    BY <1>1, <1>2, <2>3 DEF Show, Showing, Commands
  <2>4. CASE Failed(p) \/ Take(p) \/ Panic
    <3>1. cmd'.at = cmd.at /\ cmd'.pc # "start"
      BY <1>1, <2>2, <2>4 DEF Failed, Take, Panic, Finish, Commands
    <3> QED
      BY <1>3, <2>2, <3>1
  <2> QED
    BY <2>1, <2>3, <2>4
<1>8. CASE GetFails \/ LoopDone \/ ShowBrief \/ ShowReturns
  <2>1. cmd'.at = cmd.at /\ cmd'.pc # "start" /\ cache' = cache
    BY <1>1, <1>8 DEF GetFails, LoopDone, ShowBrief, ShowReturns, Failed, Finish, Goto, Commands
  <2> QED
    BY <1>3, <2>1
<1>9. CASE ShowProtocol \/ NoDistance \/ NewAdDistance \/ NewAdDistanceFails
           \/ GetDistance \/ GetDistanceFails
  <2>1. cmd'.pc \in {"distance", "walk", "return"}
    BY <1>1, <1>9 DEF ShowProtocol, NoDistance, NewAdDistance, NewAdDistanceFails,
                      GetDistance, GetDistanceFails, Goto, Commands
  <2> QED
    BY <1>2, <2>1 DEF Showing
<1>10. CASE (\E p \in Providers : Publish(p) \/ Ingest(p)) \/ UNCHANGED vars
  BY <1>4, <1>10 DEF Publish, Ingest, vars
<1> QED
  BY <1>5, <1>6, <1>7, <1>8, <1>9, <1>10 DEF Next, Command

LEMMA AtKnownHolds == Spec => []AtKnown
<1>1. Init => AtKnown
  BY BoundsAssumption DEF Init, AtKnown
<1>2. Inv /\ Inv' /\ AtKnown /\ [Next]_vars => AtKnown'
  BY AtKnownNext
<1> QED
  BY <1>1, <1>2, InvHolds, PTL DEF Spec

(* The types of the state hold of every run of provider: no more errors are   *)
(* counted than there are IDs, and a walk stays within the depth limit.       *)
THEOREM ProviderTypeCorrect == Spec => []TypeOK
<1>1. Inv /\ AtKnown => TypeOK
  <2> SUFFICES ASSUME Inv, AtKnown PROVE TypeOK
    OBVIOUS
  <2>1. cmd.errCount \in 0..Cardinality(opts.ids)
    <3>1. opts.ids \subseteq Providers /\ Cardinality(opts.ids) \in Nat /\ IsFiniteSet(opts.ids)
      BY FlagsAre, Finite DEF Inv
    <3>2. CASE cmd.errCount = 0
      BY <3>1, <3>2
    <3>3. CASE cmd.errCount # 0
      <4>1. Looping
        BY <3>3 DEF Inv, Selecting, Looping
      <4>2. ~Listing /\ cmd.errCount = Cardinality(NotFound)
        BY <3>3, <4>1 DEF Inv, Selecting
      <4>3. NotFound \subseteq opts.ids
        BY DEF NotFound
      <4>4. Cardinality(NotFound) <= Cardinality(opts.ids) /\ Cardinality(NotFound) \in Nat
        BY <3>1, <4>3, FS_Subset, FS_CardinalityType
      <4> QED
        BY <3>1, <4>2, <4>4
    <3> QED
      BY <3>2, <3>3
  <2>2. cmd.at \in Providers => cache[cmd.at] # NotListed
    BY DEF AtKnown
  <2>3. hosts.lost \in 0..MaxFaults
    <3>1. hosts.lost \in Nat /\ faults \in 0..MaxFaults /\ hosts.lost <= faults /\ MaxFaults \in Nat
      BY Fields DEF Inv, Types, Opened
    <3> QED
      BY <3>1
  <2> QED
    BY <2>1, <2>2, <2>3, Fields DEF TypeOK, Inv, Types, Places, Counts
<1> QED
  BY <1>1, InvHolds, AtKnownHolds, PTL

(* What the code chooses is what the flags promise, but for a selection by ID *)
(* that --error does not filter.                                              *)
LEMMA ChosenAreSelected ==
  ASSUME Types
  PROVE  /\ Selected \subseteq Chosen
         /\ ~(opts.error /\ ~Listing) => Chosen \subseteq Selected
         /\ ~Listing => Chosen \subseteq opts.ids
<1>1. Selected \subseteq Chosen
  <2> SUFFICES ASSUME NEW p \in Selected PROVE p \in Chosen
    OBVIOUS
  <2> QED
    BY Zenon DEF Selected, Chosen
<1>2. ASSUME ~(opts.error /\ ~Listing), NEW p \in Chosen PROVE p \in Selected
  BY <1>2, Zenon DEF Selected, Chosen
<1>3. ASSUME ~Listing, NEW p \in Chosen PROVE p \in opts.ids
  <2>1. p \in Providers
    BY <1>3 DEF Chosen, Known
  <2> QED
    BY <1>3, <2>1, IdsSelect
<1> QED
  BY <1>1, <1>2, <1>3

(* A provider command that does not end early has shown all of its selection, *)
(* and nothing else but for the selection by ID that --error does not filter, *)
(* and counts as errors exactly those that could not be got.                  *)
THEOREM SelectionIsShown == Spec => []ShowsSelection
<1>1. Inv => ShowsSelection
  <2> SUFFICES ASSUME Inv PROVE ShowsSelection
    OBVIOUS
  <2>1. ASSUME cmd.result \in {"ok", "failed"}, ~opts.count
        PROVE  /\ Selected \subseteq ShownIds
               /\ IF opts.error /\ ~Listing THEN ShownIds \subseteq opts.ids
                  ELSE ShownIds \subseteq Selected
               /\ Len(shown) = Cardinality(ShownIds)
               /\ cmd.errCount = IF Listing THEN 0
                                 ELSE Cardinality({p \in opts.ids : cache[p] = NotListed})
               /\ (cmd.result = "ok") = (cmd.errCount = 0)
    <3>1. cmd.pc = "done" /\ cmd.left = {} /\ ((cmd.result = "ok") = (cmd.errCount = 0))
      <4>1. cmd.result # "none"
        BY <2>1
      <4>2. cmd.pc = "done"
        BY <4>1, Zenon DEF Inv, Ending
      <4> QED
        BY <2>1, <4>2 DEF Inv, Ending
    <3>2. Looping /\ Current = {}
      BY <2>1, <3>1 DEF Looping, Current, Showing
    <3>3. /\ ShownIds = Chosen /\ Len(shown) = Cardinality(ShownIds)
          /\ cmd.errCount = IF Listing THEN 0 ELSE Cardinality(NotFound)
      BY <3>1, <3>2 DEF Inv, Selecting
    <3>4. NotFound = {p \in opts.ids : cache[p] = NotListed}
      BY <3>1 DEF NotFound
    <3>5. /\ Selected \subseteq Chosen
          /\ ~(opts.error /\ ~Listing) => Chosen \subseteq Selected
          /\ ~Listing => Chosen \subseteq opts.ids
      BY ChosenAreSelected DEF Inv
    <3>6. IF opts.error /\ ~Listing THEN ShownIds \subseteq opts.ids ELSE ShownIds \subseteq Selected
      <4>1. CASE opts.error /\ ~Listing
        BY <3>3, <3>5, <4>1, Zenon
      <4>2. CASE ~(opts.error /\ ~Listing)
        BY <3>3, <3>5, <4>2, Zenon
      <4> QED
        BY <4>1, <4>2, Zenon
    <3> QED
      BY <3>1, <3>3, <3>4, <3>5, <3>6, Zenon
  <2>2. opts.count /\ cmd.result = "ok" =>
          cmd.number = Cardinality({p \in Known(cache) : opts.error => cache[p].err # opts.invert})
    BY DEF Inv, Ending, Counted
  <2> QED
    BY <2>1, <2>2 DEF ShowsSelection
<1> QED
  BY <1>1, InvHolds, PTL

(* Every distance shown is one that the publisher really had since the        *)
(* command began, for every limit; what -1 stands for with the limit 0 is in  *)
(* MayShow.                                                                   *)
THEOREM DistancesAreReal == Spec => []DistanceExact
<1>1. Inv => DistanceExact
  <2> SUFFICES ASSUME Inv, NEW i \in DOMAIN shown, shown[i].dist # NoDist
               PROVE  \E head \in shown[i].since..shown[i].now :
                        MayShow(shown[i].dist, head - shown[i].last)
    BY DEF DistanceExact
  <2>1. shown[i] \in Lines
    BY DEF Inv, Types
  <2>2. PICK from \in Nat, to \in Nat, last \in Nat,
                dist \in {NoDist} \cup -1..DepthLimit :
          from = shown[i].since /\ to = shown[i].now /\ last = shown[i].last /\ dist = shown[i].dist
    BY <2>1 DEF Lines
  <2>3. Real(dist, last, from, to)
    BY <2>2 DEF Inv, Exact
  <2>4. PICK head \in from..to : dist = IF head - last > DepthLimit THEN -1 ELSE head - last
    BY <2>3 DEF Real
  <2>5. MayShow(dist, head - last)
    <3>1. DepthLimit \in Nat /\ head - last \in Int
      BY BoundsAssumption
    <3> QED
      BY <2>4, <3>1 DEF MayShow
  <2> QED
    BY <2>2, <2>5
<1> QED
  BY <1>1, InvHolds, PTL

(* Hosts are closed before the next provider, and never two are open.         *)
THEOREM HostsAreClosed == Spec => []HostsClosed
<1>1. Inv => HostsClosed
  <2> SUFFICES ASSUME Inv PROVE HostsClosed
    OBVIOUS
  <2>1. hosts.shared \in BOOLEAN /\ hosts.own \in BOOLEAN
    BY Fields DEF Inv
  <2>2. ~(hosts.shared /\ hosts.own)
    <3>1. CASE cmd.pc = "walk"
      BY <2>1, <3>1, Zenon DEF Inv, Opened
    <3>2. CASE cmd.pc # "walk"
      BY <3>2 DEF Inv, Opened
    <3> QED
      BY <3>1, <3>2
  <2> QED
    BY <2>2 DEF Inv, Opened, HostsClosed
<1> QED
  BY <1>1, InvHolds, PTL
=============================================================================
