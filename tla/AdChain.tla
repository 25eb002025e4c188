------------------------------ MODULE AdChain ------------------------------
(***************************************************************************)
(* Advertisement chains, and the walk that dagsync.Subscriber.SyncAdChain  *)
(* does over one of them.  A publisher's chain is linear and append-only,  *)
(* so an advertisement is its position: the first one published is 1, the  *)
(* PreviousID of ad k is k - 1, and cid.Undef is 0.  The walk is external  *)
(* code; it is stated here as ipni-cli uses it: from the newest ad back,   *)
(* excluding the stop ad, at most depth ads (0 for no limit), reading each *)
(* block from the local store before fetching and storing it.              *)
(***************************************************************************)
EXTENDS Integers, Sequences

Undef == 0

(* An empty store: nothing counted, and no block that can be read back. *)
NoKey == <<>>
EmptyStore == [count |-> 0, lastKey |-> NoKey]

(* Ads from newest back to, and excluding, oldest.  A walk that never meets *)
(* oldest runs through the first ad of the chain.                           *)
WalkLen(newest, oldest) ==
  IF oldest \in 1..newest THEN newest - oldest ELSE newest

(* The same walk cut off by a depth limit. *)
DepthCut(len, depth) ==
  IF depth # 0 /\ len > depth THEN depth ELSE len

(* The depth limit AdDistance.Get passes on: one more than it will report, *)
(* so that a walk that is too long can be told from one that just fits.    *)
WalkDepth(limit) == IF limit # 0 THEN limit + 1 ELSE 0

(* Reading one block through countStore's link system: the read opener only *)
(* knows the last block written, any other block is fetched and written.    *)
LoadBlock(store, key) ==
  IF store.lastKey = key
  THEN store
  ELSE [count |-> store.count + 1, lastKey |-> key]

(* The store after a walk has read the n newest ads back from newest.  Only *)
(* the first of them can be the block the store already holds.              *)
AfterWalk(store, pub, newest, n) ==
  IF n = 0
  THEN store
  ELSE [count   |-> LoadBlock(store, <<pub, newest>>).count + n - 1,
        lastKey |-> <<pub, newest - n + 1>>]

(* The distance Get reports for a count: -1 beyond the limit.              *)
ReportedDist_unbounded(count, limit) == count
ReportedDist(count, limit) == IF count > limit THEN -1 ELSE count
=============================================================================
