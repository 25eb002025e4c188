# A formal model of ipni-cli

`ipni` is a command line tool for IPNI, the network of indexers that records
which provider has which content. A *publisher* offers a chain of signed
*advertisements* (ads), each linked to the one before it; an ad adds the
multihashes of a linked chain of *entry chunks* under a context ID, or removes
a context ID. An *indexer* follows these chains. The tool reads chains from
publishers and answers from indexers, and compares the two.

This directory holds TLA+ modules of the parts of the tool that have state, the
TLC configurations that check them on small instances, and proofs, checked by
TLAPS, that hold for every value of the constants: of all safety properties, and of
what liveness rests on besides scheduling. `PROJECT.json` lists the runs, the mutant of the code that breaks each
property, the source lines of every definition, and the hazards the properties are
for.

Paths below are relative to `src/`.

## 1. Inventory

| Part | Source | State | Operations |
|---|---|---|---|
| AdDistance | `pkg/dtrack/ad_distance.go` | `countStore`: a count and the last block | `Get` |
| Distance tracker | `pkg/dtrack/distance_tracker.go`, `followDistance` in `pkg/provider/provider.go` | a `distTrack` per provider, the provider cache, an unbuffered channel | `run`, `updateTracks`, `updateTrack`; receive and print |
| Ads crawl | `pkg/ads/crawl.go`, `Crawl` in `pkg/adpub/client.go`, `crawl` in `client_store.go` | two goroutines, a channel of ads, a channel of an error, a context, the client's store, counters | sync a batch, send its ads; receive, count, cancel |
| Entries | `SyncEntriesWithRetry` in `client.go`, `entries_iter.go`, `client_store.go` | the client's store, what is left of retries and depth, the iterator | sync with retries, `Next`, `Drain` |
| Ad fetch and list | `GetAdvertisement`, `List` in `client.go`, `client_store.go`, `pkg/ads/list.go` | the client's store | fetch one ad, list the newest |
| Verify ingest | `pkg/verify/ingest.go`, `Sample` in `pkg/adpub/ad_stats.go` | the walk, context IDs removed, results of batches | sample, look up, add up, print a verdict |
| Random | `pkg/random/random.go` | ads listed, removed context IDs, suitable ads | list, filter, choose |
| Provider command | `pkg/provider/provider.go` | the provider cache, the selection, libp2p hosts, an `AdDistance` for each provider shown | count, list, look up, one distance, follow |
| Ads get | `pkg/ads/get.go` | the loop over CIDs, one client and its store | fetch an ad, sync and drain its entries, describe it |
| Ads dist, find, spaddr | `pkg/ads/dist.go`, `pkg/find`, `pkg/spaddr` | none | one request and its printing |
| Main program | `cmd/ipni`, `version.go` | none | declares commands and flags |

How they interact. `provider --follow-dist` starts the tracker's goroutine and
ranges over its channel; the tracker calls the provider cache and one
`AdDistance`, shared by all providers. `ads crawl` starts a goroutine that runs
`client.Crawl` and ranges over the ads it sends, and for each syncs and drains
entries on the *same* client, hence the same store; so does `ads get` for the ads it
is given. `provider --distance` makes one `AdDistance` for each provider it shows.
`verify ingest` and `random` call `GetAdvertisement` or `List`, then `SyncEntriesWithRetry` and `Drain`, in one
goroutine. `dagsync` (the sync of chains), `pcache` (the provider cache), the
find client and `go-datastore` are libraries whose source is not in the
repository; they are modelled from how the code uses them.

What is hard, and what makes each part correct:

* **AdDistance.** The chain grows and calls fail while blocks are counted. An
  answer must be the distance from some head the publisher had during the call.
* **Tracker.** The distance is measured once and then kept up by adding and
  subtracting, from readings of different times. It must stay exact; what the
  user was told must agree with it; after the system has come to rest, it must be
  right; and an interrupt must end it.
* **Crawl.** Two goroutines, bounded channels and a context: no deadlock, no
  error lost, no ad lost or repeated at the border of a batch, removals applied
  to older ads only, a store that stays small.
* **Entries.** Syncs fail anywhere and are resumed; chains share chunks; chunks
  are deleted as they are read. No gap, no limit exceeded, the right end.
* **Ads get, and the entries of a crawl.** Ads share chunks and a store. What
  earlier ads have left there may add chunks that they asked for to what is listed
  of one, but nothing they did may take away from it; one that cannot be synced must
  not hide the others.
* **Provider command.** Selection by flags that combine; one provider that fails
  must not hide the others; a distance shown must be real; hosts must be closed.
* **Ad fetch and list.** The head moves; retries; short chains; deletion.
* **Verify ingest.** Failures of batches must show; verdict and counts agree;
  "passed" must be said of what was looked up, and it matters how much that is.
* **Random.** Only suitable ads are chosen, in every order and with failures.

The full list of hazards, each with its line and the properties against it, is
under `hazards` in `PROJECT.json`.

## 2. Modules

Each module's head comment says what it is about; here is how state and actions
correspond to the code. In all of them an ad (or a chunk) is its position in its
chain: ad `k` links to ad `k - 1`, the newest ad is the length of the chain, and
`Undef = 0` is `cid.Undef`. A chunk `k` of entries links to chunk `k + 1`.

**`AdChain`** holds what several modules share: the length of the walk that
`SyncAdChain` does (stop ad, end of chain, depth limit), `LoadBlock` for one
block through the link system of `countStore`, and `AfterWalk` for a whole walk.

**`AdDistance`** is `AdDistance.Get`, block by block, called about several
publishers in turn while they publish. `Call` enters; `ResolveHead`, `ReadAd` are
the parts of `SyncAdChain` that others can come between; `Return` is
`distance()`, which clears the store; `FailSync` is the error return, which does
not.

**`DistanceService`** is the abstract specification of that: a question is
pending, publishers grow their chains, and `Answer` in one step gives the
distance from some head the publisher had while the question was pending. It has
one extra variable, `clean`: no failed call came right before. When clean, the
answer is exact; otherwise it may be too long, but never too short, and it is
clean again afterwards. `AdDistance!ImplementsService` is the refinement.

**`DistTracker`** is `run`, `updateTrack` and `followDistance`. The program
counter `pc` is where the goroutine is: waiting in the select (`wait`), between
two providers (`each`), before one of the three `Get`s (`first`, `head`, `ad`),
blocked in the send (`send`), returned (`closed`). `tracked` and `track` are the
map of `distTrack`s. `cur` holds the locals of `updateTrack`: what was read from
the cache stays as it was while the chain and the indexer move on. A `Get` is one
step here: `ImplementsService` says that it looks at one moment of the chain,
`WalkAgrees` that the store it leaves is the one `AfterWalk` computes, and the theorem
`TrackerUsesService` that the answers the tracker goes on with are those of the service.
`Announce` is the pattern of all error branches: record the kind of the error,
send it unless that kind is recorded already. `Receive` is the consumer. The
environment publishes, ingests, lists and delists providers, loses a publisher,
and cancels.

**`Crawl`** has the `producer` (the goroutine of `client.Crawl` and
`ClientStore.crawl`) and the `action` (`adsCrawlAction`), with `ads` and `errCh`
the channels of capacity 1, `closed`, and `ended` for the context and who ended
it. `NextBatch` ... `BatchDone` are the loop of `Crawl`, `Report` and `CloseAds` the two
lines after it, in the order of the code. `seen` is a history of what was
received and counted.

**`CrawlService`** is its abstract specification: ads are delivered newest first,
each once and without a gap, no more than asked for and none after `--stop-mhs` is
reached; then one result: `Succeed` only if nothing asked for is missing or the
user has interrupted, `Fail` only if something has failed. No goroutines, batches,
channels or store. `Crawl!ImplementsService` is the refinement: `delivered` is what
`seen` lists, and any error message is `failed`.

**`EntriesSync`** has `SyncEntriesWithRetry` (`sync`) and `Drain` (`iter`) called in
turn, by clients with different options, on chains whose tails are shared: a call
may start at any chunk. `NextMissing` is `findNextMissingChunkLink`, including
that an error other than "not found" ends its walk.

**`AdEntries`** extends it to the commands: the loop of `ads get`, and of the consumer
of `ads crawl`, over a list of ads whose entries begin anywhere on the shared
chains. `cmd` is the loop, `SyncAd` and `DrainAd` make the calls of `EntriesSync` and
`Working` lets them run; `outcomes` is a history of what was shown of each ad, `kept`
of what failed syncs have fetched.

**`AdFetch`** has `GetAdvertisement` and `List`, called in turn.

**`Provider`** is `providerAction` without `--follow-dist`: `CountProviders`; `ListNext`
with the tests of `listProviders` in their order; `GetNext` and `GetFails` for the loop
over IDs, which counts errors and goes on; and `showProviderInfo` from `ShowBrief` or
`ShowProtocol` to `ShowReturns`. Between its steps publishers publish and the indexer
ingests. `hosts` is what is open: the host of `--protocol` and the one an `AdDistance`
makes for itself.

**`VerifyIngest`** is `verifyIngestAction` from the start to the verdict. `walk` is
the loop over the ads, `pending` the multihashes still to be looked up, `result`
and `agg` the two `verifyResult`s; the indexer answers each multihash in any of
four ways. `asked` and `visited` are histories.

**`RandomAd`** is `RandomMultihashes`; shuffling is a choice of any ad that is left.

**`MC*`** instantiate these for TLC. The proofs about a module `M` are in **`M_proofs`**:
of `AdDistance`, `DistTracker`, `Crawl`, `AdEntries`, `AdFetch`, `VerifyIngest`,
`RandomAd` and `Provider`; those of `EntriesSync` are in `AdEntries_proofs`, which uses them.

An operator `X_suffix` just before an operator `X` is `X` with a plausible bug:
one that a property is known to find. `PROJECT.json` pairs them.

## 3. Runs

Bounds are constants of the modules; each is tested in a guard and named in the
comment of its declaration.

| Run | Question | Bounds |
|---|---|---|
| `addistance` | Does `Get` implement `DistanceService`? | two publishers, 4 ads, limit 2, two failures that leave up to 3 blocks: chains shorter and longer than the limit and the cut, and failures of both chains before a call |
| `addistance_residue` | Does `Get` count the chain, as its comment says? It does not after a failure. | the same |
| `disttracker_exact` | Exact distances, agreement with what is shown, and the two liveness properties | one provider, picked up at the start or later, 4 ads, limit 2, two faults; failed syncs leave nothing behind (`MaxPartial = 0`) |
| `crawl` | Does `ads crawl` implement `CrawlService`, count right, keep its store small, and end? | up to 5 ads of three kinds, batches of 2: chains that end inside a batch and at its border, and up to three batches; all of the chain with `--stop-mhs`, or 3 without entries; one fault; an interrupt anywhere |
| `crawl_segments` | Does `-n` work for any number? Not beyond a segment. | 4 ads, segment of 3 |
| `entriessync` | All of the entries | chains of up to 3 chunks that are empty, full or broken; three clients; three calls; failures at any chunk |
| `adfetch` | Fetching and listing | 4 ads, three clients, three calls, listing 0, 2 or 5 ads |
| `adentries` | What `ads get` and `ads crawl` list of ads that share chunks, and what they leave in the store | up to 3 ads, removals or with entries from any of up to 3 chunks (full, empty or broken); depth limits of 1, 2 and none; each ad, sync and drain may fail |
| `provider` | Selection, one-shot distances and hosts of `provider` | two providers, each unlisted or listed in five ways; every combination of the selecting flags; distances with a limit of 1 on chains of 2 to 3 ads; one failure |
| `verifyingest` | All of `verify ingest` | up to 2 ads of four kinds: entries of three chunks that a limit of 2 cuts, entries whose second chunk is empty, no entries, a removal; a CAR file of 3, batches of 2, one failure |
| `verifyingest_removed` | Are removed ads skipped? They are not. | the same |
| `randomad` | The choice of `random` | up to 4 ads of ten kinds, the latest 3 listed, two failures |

Why the bounds are enough. Every branch of the code depends on whether a number
is below, at or above another (a limit, a batch, a segment, the end of a chain);
the bounds have all of these. `crawl` has a border of batches before, at and after
the end of the chain. The tracker's update reads a chain at most twice, and 4
ads with a limit of 2 have a jump that is too long, one that just fits, and a
recovery after each. Several providers on one tracker share nothing but its
store; what holds of them, and with a store that failed syncs have dirtied, is
proved for any number of them (section 5). In `adentries` a third ad is the first
whose chain can have been reached into by two earlier ones, from two sides. In
`provider` the second provider is the one that the failure of the first could
hide, in either order.

What the properties say is in the comment above each of them. The ones that
carry the most:

* `ImplementsService`: above. The residue of a failed call is inside the abstract
  specification, as `clean`, so that the refinement says how far it can reach.
* `DistExact`, `ShownMatchesTrack`, `NeverMovesBack`: the tracker's bookkeeping by
  increments.
* `Converges`: once a provider is listed and has been seen for good, and chain and
  indexer have stopped (both are bounded, so they do), the last distance shown is
  the real one, provided that no failed sync has left blocks behind (the run has
  `MaxPartial = 0`): such blocks get into a distance and stay there (section 5). Only beyond the limit may "exceeded limit" stand: the code keeps
  measuring from scratch then.
* `CancelStops`, `Terminates`, `Returns`: nothing hangs.
* `Crawl!ImplementsService`, `CountsMatchChain`: what `ads crawl` reports.
* `SyncedAll`, `LimitFromRoot`, `DrainExact`: entries under retries and deletion; how a
  drain ends says what was there.
* `ListsUpToLimit`, `NoteMeansMore`, `LeftoversExplained`: the entries of one ad against
  whatever other ads have left in the store, or deleted from it: never less than the
  limit allows, more only by what those ads asked for.
* `ShowsSelection`, `OkMeansAllTried`: one failure hides nothing else.
* `Provider!DistanceExact`: a distance is real though chain, indexer and failures go
  on around it.
* `PassedMeansPresent`, `CountsMatchAnswers`: a verdict hides nothing of what was looked
  up, and without failures that is all of the entries up to the depth limit and the
  first empty chunk, not more.

`MCEntriesSync.cfg` and `MCAdFetch.cfg` do not check for deadlock: the number of
calls is bounded and a client that is not called again rests. In the other
modules an ended command stutters explicitly, so a deadlock would be found.

## 4. Fairness

* `DistTracker!FairSpec`: weak fairness of the timer's branch, of the end of a
  round, of a visit, of a `Get` (`update-timeout`, 5 minutes by default, ends it
  through its context) and of `followDistance` receiving (its loop does nothing
  but print). Strong fairness of the select's `ctx.Done` branch: between two
  rounds the timer may be ready too, and Go's select picks at random among ready
  cases, so it cannot pass over one for ever. Nothing is assumed of publishers,
  the indexer or faults.
* `Crawl!FairSpec`: weak fairness of each goroutine as a whole. Whichever step
  it can take, it takes some step: the scheduler's promise, and every network
  call ends by the client's HTTP timeout.
* `EntriesSync!FairSpec`: weak fairness of a call that is running, for the same
  reason.
* `AdEntries!FairCommandSpec`: weak fairness of the one goroutine that runs the loop
  and the calls it makes.
* `Provider!Spec` has none: what it promises is safety.

## 5. Proofs

### The distance between two ads

`AdDistance_proofs` proves for all sets of publishers, depth limits, chain lengths and
numbers of failures:

* `TypeCorrect`: `Spec => []TypeOK`.
* `WalksAgree`: `Spec => []WalkAgrees`. A walk, block by block, leaves the store that
  `AfterWalk` computes at once: what `DistTracker` takes as the effect of a `Get`.
* `GetImplementsService`: `Spec => ImplementsService`. `Init` maps to the service's
  `Init`; `Publish` to `Grow`, `Call` to `Ask`, `Return` to `Answer`, the two ways to
  fail to `Refuse`; `ResolveHead` and `ReadAd` leave the service's variables alone.
* `ExactWithoutResidue`: `Spec => []GetCountsChain`, assuming `MaxPartial = 0`.

`IInv` is what all four rest on. Its part `Running` says of a call: the store is what
`AfterWalk` gives for the blocks read so far, which reach from `newest` back to `next`;
`newest` is the ad asked for, or was the head at some time since the call began; and
neither the oldest ad nor the depth has been passed. `AfterWalkStep` is why reading one
more block keeps this; `WalkOver` what it gives when there is nothing more to read;
`AfterWalkCount` and `CountAtReturn` compare the count with the distance. A store that
was not empty can only make the count larger, and only a first block that the store
already holds is not counted: that is why the residue of a failure never makes a distance
too short. `NothingLeft` adds, for the last theorem, that no call ever finds anything in
the store.

### The tracker

`DistTracker_proofs` proves for all sets of providers, include and exclude lists,
depth limits, chain lengths and bounds:

* `TypeCorrect`: `Spec => []TypeOK`. `TypeOK` is inductive as it stands. It
  includes that only wanted providers are tracked, looked at and announced, which
  the runs see for an empty and a full include list only.
* `TrackedDistancesExact`: `Spec => []DistExact`, assuming `MaxPartial = 0` (a
  failed sync has read no block). Without the assumption it is false: that is the
  finding of `addistance_residue`.
* `HeadsNeverMoveBack`: `Spec => NeverMovesBack`, an action property, with no such
  assumption: what a failed sync leaves may spoil a distance, never the head or ad a
  track keeps. Its invariant, `InOrder`, is the part of `TracksFit` and `UpdateFits` below
  that it needs.
* `WhatIsShownAgrees`: `Spec => []ShownMatchesTrack`, with no
  such assumption either, so also when several providers share a dirty store.

`DistExact` is not inductive: that `dist + d` is the new distance when the head
has moved by `d` needs to know that the walk from the head back to the old head
really meets it, that is, that the old head is on the chain. The strengthening
`IInv` adds:

* `TracksFit`: for each provider, the indexer is not ahead of the chain
  (`seen <= chain`), a track's head is not ahead of the chain, its ad is not ahead
  of `seen`, and if there is a head, the ad is not ahead of it; no head but an ad
  means a distance of -1.
* `UpdateFits`: the ad a running update has read lies between the track's ad and
  what the indexer has seen by now; the update is in its first `Get` just when the
  track has no head; and when it comes to the third `Get`, the ad read is not ahead
  of the head it has just measured. This is where the order of the two `Get`s
  matters: the head is read *after* the ad, so it cannot be behind it.

Neither says whether a distance is right, so `IInv` holds whatever failed syncs leave.
By how much a distance is wrong is `Off`. `ErrorsArePassedOn` (`Spec => ErrorsStay`) says what
becomes of that: while the store is clean, every step leaves it as it is, and a distance
measured from scratch begins with none. So exact (`Exact`) stays exact, which with an empty
store is `TrackedDistancesExact`; and a distance that the blocks of a failed sync have got
into stays wrong until it is dropped, however long nothing fails.

`WalkDistance` computes a `Get` on a clean store (the difference, or -1 beyond the
limit, for any limit); `FirstGetFits`, `HeadGetFits`, `AdGetFits` are the three
steps that matter, `SameTracksFit` covers those that leave tracks alone.
`OneTrackFits` reduces each to the one track it changes.

`ShownMatchesTrack` speaks of the moments between two updates only, and is not
inductive: an update that fails at its second `Get` has already moved the head and
the distance, and tells the user nothing but the error, or not even that if an
error of that kind was told before. `Tells` adds what is `Owed` then: the ad of the
track is behind the one the indexer has seen, and an error is recorded or the second
`Get` is still to come. As an error is cleared only by an update that reads an ad
ahead of the track's (`UpdateTells`) and ends in a send, the distance is told before
the error is forgotten.

What the other theorems add is why the tracker's liveness holds, up to scheduling:

* `TrackerSettles`: `Spec => Settles`. While a provider's
  chain and the indexer are at rest and no step fails (`AtRest`), what is kept of it
  stays `Right` once it is; an update of it begins with what is `Current`, and ends with
  what is right, or, if a distance was too long to add, with no head. The next update
  then measures from scratch. So two updates are enough, from any state in which the
  provider is `Unharmed`: the store is empty and the distance kept of it, if any, exact. That
  leaves out only what a failed sync's blocks do, which is the finding.
* `SettledIsShown`: `Spec => []RightIsShown`. What is right is what was shown last.
* `EveryRoundEnds` (for finitely many providers): `Spec => RoundsEnd`. Every step of the tracker
  that does not begin a round leaves less of it (`RoundLeft`), whatever the environment
  does in between: it always comes back to the select, where an interrupt ends it.
* `TrackerUsesService`: at each of the three `Get`s, whatever failed syncs have left in the
  store, the answer is one that `DistanceService` allows.

### The crawl

`Crawl_proofs` proves for every chain, set of kinds of ads, command line, batch size,
segment size and number of failures:

* `TypeCorrect`: `Spec => []TypeOK`, the capacities of both channels among it.
* `StoreStaysSmall`: `Spec => []StoreBounded`.
* `CrawlImplementsService`: `Spec => ImplementsService`, assuming that no command line
  asks for more than a segment. Without the assumption it is false: that is the
  finding of `crawl_segments`.

`Inv` relates the two goroutines. `Position`: what was received and what is in the
channel are the newest `Sent` ads, and the goroutine stands at the next one. `Progress`:
what it has left to do (`ToSend`) and what it has sent make up `--number`; once it has
ended without an error, all is sent or the context had ended. `StoreHolds`: the store
is exactly what is left of the batch (or nothing, if the hook for segments has been
there), so an ad that is not found means a segment. `Channels`: what is in the
channels is the next ad and the goroutine's error. `Reading`: while the action still reads it
has not ended the context itself, so if it finds the channel closed without an error,
nothing is missing or the user has interrupted; this is what makes the error it then
takes an honest result. The steps of the goroutine are stutters or `Fault` of the
service; `Receive`, `CountEntries`, `TakeError`, `DrainFails` and `Interrupt` are its `Deliver`,
`Count`, `Succeed` or `Fail`, `Fail`, and `Interrupt`.

Further theorems, from the same invariant:

* `CountersMatch`: `Spec => []CountsMatchChain`. The property adds up numbers over a set
  with a fold. The induction theorems of the library cannot be used for that here, so that the
  sum lemmas argue by a smallest counterexample: `AddingUp` shows that there is a function that
  adds up over all subsets of a finite set, `OneSum` and `SumsAgree` that the order does
  not matter, `SumGrows` what one more ad adds. `Remembers` and `Counters` are the invariant:
  the context IDs held are those of the removals received, and the two counters are the sums.
* `CrawlIsBounded`: `Spec => BoundedSteps`. At most 7 steps for each ad of the chain and 10
  more: `StepsLeft` begins there and every step that changes anything makes it smaller.
* `CrawlNeverStuck`: `Spec => []NeverStuck`. Until both goroutines have ended, the guard of
  a step of one of them holds (`CrawlerCan`, `ConsumerCan`). `Waiting` is why: the action waits for an
  error only once it has ended the context, and the error is there before the ads are closed.
* `SegmentedCrawlFails`: `Spec => []SegmentedIsEmpty`. Beyond a segment no ad reaches the
  user, and the command succeeds only if interrupted: the finding of `crawl_segments` for every
  chain and number.

### Entries, and the loop over ads

`AdEntries_proofs` first proves of `EntriesSync`, for every chain, client, depth limit, number of
retries and of calls, `TypeCorrect`, `SyncLeavesNoGap` (`SyncedAll`), `SyncKeepsLimit` (`LimitFromRoot`)
and `DrainIsExact` (`DrainExact`), all by one invariant. `SyncPosition`: whatever lies
between the root and the chunk the sync is at can be read from the store, and the limit
has been reduced by just that much, so what a retry has left is what the first attempt
would have had. `FromRoot`: an attempt whose root was not stored never begins at a chunk
that is, so its limit stays positive; this is what fails for a root that was stored
before (section 6). `IterPosition`: what the iterator has read was stored when it began,
and what it has still to read is untouched, deletion or not. The end of the search for a
missing chunk is a least number; `LeastNatural` proves that there is one.

The loop over ads builds on it. `CommandUsesClient` is `CommandSpec => Spec`, where `Spec`
is that of `EntriesSync`: the loop calls the client one call at a time and for chunks of
the chain only, so what is proved of the client holds inside the commands. Its invariant
`LoopInv` adds to that of the client where the loop stands (`InStep`); that an end
the iterator reports is one, or a chunk without multihashes, is part of `DrainExact`. Then:

* `CommandTypeCorrect`, and `OkTriesEveryAd` (`OkMeansAllTried`), from `TriedInOrder`: the
  outcomes are those of the ads with entries behind the one the loop is at.
* `NoteIsRight` (`NoteMeansMore`) and `LimitIsReached` (`ListsUpToLimit`), from `AskedStored`:
  a drain begins with everything in the store that the ad asked for, whatever other ads
  have left there or deleted; and from `StoreAsked`: the store holds nothing but what the
  ads so far asked for, as a sync without retries, which the
  commands make (`NoRetry`), goes on from its root.
* `LeftoversAreExplained` (`LeftoversExplained`), from `FetchedFollows` (what a sync has
  fetched is stored without a gap behind its root, so a drain comes to all of it) and
  `StoreExplained`.

Both always get on. `CallsAreBounded`: a call of the client has never more than `CallMost` steps to go,
`2 * Len(chunks) + 4` for each attempt, each of its steps leaves less (`CallLeft`), and until it
has returned one can be taken (`StepCan`); a retry costs an attempt, wherever it starts, and in an
attempt a chunk is fetched at most once and then read. `CommandIsBounded` says the same of the loop, from
`LoopLeft`, which is `Len(list) * PerAd + 1` at the start: `CallsInTurn` ties the number of calls
to the place in the list, which also shows that the bound `MaxCalls` never stops the loop.

### Fetching and listing

`AdFetch_proofs` proves `FetchTypeCorrect`, `GetIsRight` (`GetsAsked`), `ListIsExact` (`ListExact`)
and `FetchSucceeds` (`FaultFreeSucceeds`) for every chain, client, number of ads to list and
segment size. `Getting` says which ad a call is after: the one asked for, or, after a retry, any
head since the call began. `Listing` says that there is a first ad from which what is written
goes down without a gap, and that what is still to be written is in the store (`Reading`);
the latter needs the premise `Served`, that a client that deletes what it reads lists no
more than a segment, which is why `FaultFreeSucceeds` leaves those clients out.

### Verify ingest

`VerifyIngest_proofs` proves `VerifyTypeCorrect`, `VisitsAreRight` (`VisitsInOrder`), `CountsAreRight`
(`CountsMatchAnswers`), `PrintedIsRight` (`PrintedAreAbsent`), `PassedIsRight`
(`PassedMeansPresent`) and `RemovalsAreIgnored` for every chain, CAR file, depth, batch size, sampling and number of failures.
`Visiting` keeps the loop's counter, the ad it is at and the ads visited in step.
`LookingUp` is what makes adding up sound: no multihash is looked up twice, since those
pending are distinct, belong to the ad at hand, and those of other ads have been looked up; `Split`
proves that a batch and the rest divide what is pending, for any batch size. So a batch
adds to each count as many lookups as have that answer (`BatchInv`), which is what
`verifyIngest` counts (`VerifiedBatch`, `Counted`). `Covered` adds that with all sampled and no
failure nothing that is `Due` of the ads visited is neither looked up nor pending: due is what
lies within `--entries-depth-limit` and not behind an empty chunk, and a drain that stops
where nothing more can be reached has all of it (`DrainedAll`). `RemovalsAreIgnored` is
the finding of `verifyingest_removed` for every chain: the statistics never hold a removal, so
what is due of every ad visited is looked up, removed or not, and the verification fails
if the indexer, rightly, does not have one of those multihashes.

### Random

`RandomAd_proofs` proves `ChosenAdIsSuitable` (`ChosenIsSuitable`) and `GivesUpOnlyRightly`
(`GivesUpRightly`) for every chain, `--number`, `--multihashes` and number of failures.
`Filtering`: the ads are gone through from the newest down, so the context IDs removed so far
are those of all newer ads that could be fetched, and decide which ads are suitable.
`Choosing`: what has been tried and put aside had too few multihashes.

### The provider command

`Provider_proofs` proves `ProviderTypeCorrect`, `SelectionIsShown` (`ShowsSelection`), `DistancesAreReal`
(`DistanceExact`) and `HostsAreClosed` (`HostsClosed`) for every finite set of providers,
command line, answer of the indexer, depth limit and number of failures. `Selecting` says at
every step what the property says at the end: the providers shown, with the one being shown,
are the chosen ones (`Chosen`) among those the loop has gone through, each once, and the errors
are as many as those it has gone through and not found. `ListSelects` and `IdsSelect` show that
the tests of the two loops amount to `Chosen`; `ChosenAreSelected` that this is `Selected`, what the
flags promise, but for a selection by ID that `--error` does not filter. A lookup adds to the
cache while the loop runs, so `Chosen` itself grows; it grows only by the provider looked up. `Measuring` says that the
store is empty whenever a walk begins (each provider has an `AdDistance` of its own), and that
what a walk reports is `Real`: a distance to a head since the command began, which stays true
as the chain grows. The limit is any natural number; a positive one bounds what the store can
count (`Counts`); with 0 the count has no bound, and -1 is shown for any distance but 0.
`Opened` ties `hosts` to where the command is; `AtKnown`, which rests on all of this, says that
the provider being shown remains known.

### Assumptions, and what is only model-checked

The assumptions of all these are those the modules declare of their constants:
include and exclude lists name providers; limits, bounds and counts are natural
numbers, with at least one ad in a batch, a segment and a chain, and at least one
multihash in a batch; the providers of `Provider` are finitely many. TLC evaluates them in every run.

Some theorems assume more: `TrackedDistancesExact` and `ExactWithoutResidue`
that a failed sync has read nothing, without which both are false (a finding); `CrawlImplementsService` that no crawl asks for more than a segment, without which it is
false (another); and `EveryRoundEnds` that there are finitely many providers.

Only model-checked: liveness (`Converges`, `CancelStops`, `Terminates`, `Returns`, `Ends`). What is
out of the prover's reach there is the step from fairness to progress, which needs
`ENABLED`. What can be said without is proved: that there are finitely many steps to take
(`CrawlIsBounded`, `EveryRoundEnds`, `CallsAreBounded`, `CommandIsBounded`), that one can be taken until
the end (`CrawlNeverStuck`, and the last two), and that two updates at rest are enough for the
right distance to be shown, where no failed sync's blocks are in the way (`TrackerSettles`,
`SettledIsShown`). The guards that these theorems name
in place of `ENABLED` are those of the actions.

## 6. Where code and words disagree

Three runs show a violation on purpose; each finding in `PROJECT.json` quotes the
words.

1. `pkg/dtrack/ad_distance.go:81`: a failed `Get` leaves its blocks counted.
2. `pkg/adpub/client.go:110`: with more than 2048 ads, the hook for segments reads,
   and so deletes, the ads that the crawl (or, at line 89, `ads list`) then looks
   for. This assumes that `dagsync` calls a block hook for the ads it syncs.
3. `pkg/verify/ingest.go:362`: removal ads never reach `AdStats.Sample`.

Found while reading, not run:

* A retry of a failed ad sync fetches the head of the chain instead of the ad that
  was asked for: `syncAdWithRetry` assigns the `cid.Undef` that comes with an error
  to `adCid` (`client.go:191`). No command sets retries. `AdFetch` models it, and
  `GetsAsked` leaves clients with retries out for this reason.
* A depth limit of 0 is "unlimited" (`pkg/provider/provider.go:109`), but
  `ad_distance.go:85` reports -1 for every distance above it. The `MoreToRead` of
  the model has no cut then either, and `WalkDistance` is proved for that limit too. In
  `Provider`, `DistanceExact` states it as its exception (`MayShow`).
* `ads list -n 0` prints nothing (`client_store.go:167`; `list.go:34`: "Specify 0
  for all."). `verify ingest --ad-depth-limit 0` verifies nothing
  (`ingest.go:347`; it is announced as "∞", `ingest.go:267`). `ListExact` and `VisitsInOrder` are
  stated for positive numbers.
* A retry of an entries sync whose first chunks were stored before can bring the
  depth limit to 0 or less, which means none (`client.go:233`).
* An undecodable chunk ends the search for the next missing one, and the sync
  succeeds (`client.go:246`).
* An empty chunk reads as the end of the entries, whatever follows it
  (`entries_iter.go:75`; line 17: `io.EOF` "when there are no more elements to return").
  `DrainExact` and `NoteMeansMore` state it as their exception.
* `verify ingest` says that the verification passed although it has looked up only the
  entries within `--entries-depth-limit`, 100 chunks by default (`ingest.go:164`, `331`), and
  up to the first empty chunk. At the limit it prints that the ad is partially synced
  (`ad_stats.go:78`), which the verdict does not take into account; `--sampling-prob` says
  "100% of multihashes will be checked for verification" (`ingest.go:133`). `PassedMeansPresent` states
  it as its exception.
* `WithMaxSyncRetry` "Defaults to 10 if unset" (`options.go:54`); it is 0.
* `--print-unindexed-mhs` leaves out the multihashes of an answer with no results
  (`ingest.go:664`).
* `--ad-cid` with `--ad-last-seen` is not refused with "Cannot specify both ad-cid and
  ad-last-seen.", as the test asks for a flag `last-seen` (`ingest.go:255`); the last seen ad
  wins (`ingest.go:339`). `VisitsInOrder` says nothing of the first ad then.
* `random` skips a removal ad that it cannot fetch, so an ad it removes may be
  chosen (`random.go:178`). With `--quiet` it prints the first multihashes, not
  random ones (`random.go:245`).
* `--batch-size 0` never ends (`ingest.go:625`).
* `--diff-pub` reads a publisher that may be missing (`provider.go:212`, `282`).
  `--pid X --error` does not filter by error, `--count` ignores `--diff-pub` and, without
  `--error`, `--invert`; `--all --invert` lists as `--all` does. The first is against "Only show
  providers that have a LastError" (`provider.go:78`), and `ShowsSelection` excepts it; of the others,
  on which the flags say nothing, it states what the code does.
* `NewAdDistance` does not close the host it has made if the subscriber cannot be
  (`ad_distance.go:50`).
* `ads get`: the set of CIDs seen is never filled, so duplicates are not skipped
  (`get.go:80`, `104`); "Output shows partially synced ad" (`get.go:145`) is never
  reached, as an ad never comes with an error.

## 7. What is abstracted

* Encoding, signatures, addresses, metadata, printing and statistics.
* `SyncAdChain`: walks from the newest ad back to and excluding the stop ad, at
  most so many ads (0 for no limit), reading a block from the local store before
  fetching it; returns `cid.Undef` with an error. A block is stored before it is decoded.
* The cache of providers is read when `Get` asks it; a refresh and a later read of
  the snapshot commute with the other steps, so the value read is one the indexer
  had. The indexer never goes back on a chain, and never sees an ad not yet
  published.
* A failed sync of ads keeps some of the newest ads it asked for. A sync that starts
  after the context has ended reads nothing.
* `ads crawl --latest` is a crawl of a shorter chain. Entries of an ad are a number
  there; chunks are the matter of `EntriesSync`. An interrupted crawl prints what it
  has and reports success, as the code does.
* Negative numbers of ads, multihashes that repeat within one verification, and
  an empty first chunk in `random` are left out.
* No command sets `WithMaxSyncRetry`; the retry paths are modelled because the
  package exports it.

* `VerifyIngest` has the entries of an ad as the numbers of multihashes its chunks add.
  Chunks that two ads share are in `AdEntries` only: what an earlier ad has left in the
  store can make a later drain go beyond the depth limit.
* `AdEntries` lets the next ad fail to be fetched at any time, in place of the fetch
  itself, which `AdFetch` has. Removal ads have no entries there: the commands never
  look at them.
* `Provider` walks a chain in one step (`AdDistance` does it block by block); each
  provider has a publisher of its own; a cache that is not preloaded asks the
  indexer once per provider. What `--protocol` and `--spid` ask others is left out,
  the host that `--protocol` opens is not.

Not modelled, with nothing left that has an order of steps or a state to get wrong:
`ads dist` (one `Get`, which is modelled, and a line), `find` (one request, whose
answer is sorted and printed), `spaddr` (one remote call), reading CAR files, and
the main program, which declares commands and flags.

## 8. Plan

Done, in this order: `AdChain`, `AdDistance` with `DistanceService`, `DistTracker`, the
proofs of both, `Crawl`, `EntriesSync`, `AdFetch`, `VerifyIngest`, `RandomAd`; then
`AdEntries`, `CrawlService`, `Provider`; then the proofs of `ShownMatchesTrack`, of the crawl and
its refinement, of entries and the loop over ads, of fetching and listing, of `verify
ingest`, of `random` and of the provider command; then those of the crawl's counters, of what
liveness rests on, and of how far the findings reach.

What could come next: that `ads list`, `verify ingest`, `random` and `provider` take a bounded number of
steps, as is proved of the other commands; what an unindexed multihash in `verify ingest` says when the indexer
goes on ingesting between two batches; the deletion of a client that `ads crawl`
shares between its two goroutines, down to the datastore.
