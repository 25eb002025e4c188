-------------------------- MODULE AdEntries_proofs --------------------------
(***************************************************************************)
(* Proofs about the client's sync and drain of entries (EntriesSync), for  *)
(* every chain, set of clients and number of calls; and then about the     *)
(* loop of `ads get` and `ads crawl` that uses them, for every list of     *)
(* ads, depth limit and way the requests fail.                             *)
(***************************************************************************)
EXTENDS AdEntries, FiniteSetTheorems, SequenceTheorems, WellFoundedInduction, TLAPS

(* First, the client: a sync that succeeds leaves no gap, one that starts at  *)
(* its root keeps the depth limit, and a drain returns what the store held.   *)

SyncResults == {"none", "ok", "exceeded", "content not found"}
IterResults == {"none", "eof", "not found", "bad chunk"}

Syncs == [pc : {"idle", "connect", "walk"}, root : Nat, id : Nat, limit : Int,
          attempt : Nat, at : Nat, left : Int, result : SyncResults]
Iters == [pc : {"idle", "next"}, root : Nat, next : Nat, chunkCount : Nat,
          mhs : SUBSET (Int \X Int), result : IterResults]

Types ==
  /\ chunks \in Seq(ChunkSizes) /\ Len(chunks) >= 1
  /\ opts \in Options
  /\ stored \subseteq Chain /\ before \subseteq Chain /\ fetched \subseteq Chain
  /\ sync \in Syncs /\ sync.attempt <= opts.retry
  /\ iter \in Iters
  /\ calls \in 0..MaxCalls

(* One call at a time: only the last one made has a result. *)
OneCall ==
  /\ sync.pc # "idle" => iter.pc = "idle" /\ sync.result = "none"
  /\ iter.pc # "idle" => sync.result = "none" /\ iter.result = "none"
  /\ sync.pc # "idle" => iter.result = "none"

Present(first, last) == \A k \in first..last : k \in stored /\ ~Broken(k)

(* Where the sync is on the chain: everything behind id, where the attempt    *)
(* began, and behind at, where it is, can be read from the store, and the     *)
(* limit has been reduced by what lies behind.                                *)
SyncPosition ==
  /\ sync.root \in Chain /\ sync.id \in Chain /\ sync.at \in 1..End
  /\ sync.root <= sync.id
  /\ sync.pc # "idle" =>
       /\ Present(sync.root, sync.id - 1)
       /\ sync.limit = opts.depth - (sync.id - sync.root)
  /\ sync.pc = "walk" =>
       /\ sync.id <= sync.at
       /\ Present(sync.id, sync.at - 1)
       /\ sync.left = sync.limit - (sync.at - sync.id)
       /\ sync.limit > 0 => sync.left >= 0

(* A sync whose root was not stored never finds a chunk that it has not       *)
(* fetched, but the one it is about to look at.                               *)
FromRoot ==
  sync.pc # "idle" /\ sync.root \notin before =>
    /\ sync.pc = "connect" => sync.id \notin stored
    /\ opts.depth > 0 => sync.limit > 0

(* Where the drain is: what it has read is what was stored, and it has not    *)
(* touched what it has still to read.                                         *)
IterPosition ==
  /\ iter.root \in Chain /\ iter.next \in 1..End
  /\ iter.root <= iter.next /\ iter.chunkCount = iter.next - iter.root
  /\ iter.pc = "next" =>
       /\ iter.root..(iter.next - 1) \subseteq before
       /\ \A k \in Chain : k >= iter.next => (k \in stored <=> k \in before)

Inv ==
  /\ Types /\ OneCall /\ SyncPosition /\ FromRoot /\ IterPosition
  /\ SyncedAll /\ LimitFromRoot /\ DrainExact

-----------------------------------------------------------------------------
LEMMA Numbers ==
  ASSUME Types
  PROVE  /\ Len(chunks) \in Nat \ {0} /\ Chain = 1..Len(chunks)
         /\ End = Len(chunks) + 1 /\ End \notin Chain
         /\ opts.depth \in Nat /\ opts.retry \in Nat
         /\ \A k \in Chain : chunks[k] \in Int
<1>1. chunks \in Seq(ChunkSizes) /\ Len(chunks) >= 1 /\ opts \in Options
  BY DEF Types
<1>2. ChunkSizes \subseteq Int
  BY BoundsAssumption DEF Bad
<1>3. opts.depth \in Nat /\ opts.retry \in Nat
  BY <1>1, BoundsAssumption
<1>4. Len(chunks) \in Nat \ {0} /\ Chain = 1..Len(chunks)
  BY <1>1 DEF Chain
<1>5. \A k \in Chain : chunks[k] \in Int
  <2> SUFFICES ASSUME NEW k \in Chain PROVE chunks[k] \in Int
    OBVIOUS
  <2>1. chunks[k] \in ChunkSizes
    BY <1>1, <1>4, ElementOfSeq
  <2> QED
    BY <1>2, <2>1
<1> QED
  BY <1>3, <1>4, <1>5 DEF End

LEMMA Reflexive == \A n \in Nat : n >= n
  OBVIOUS

LEMMA OneFurther ==
  \A at \in Nat, id \in Nat, limit \in Int : \A left, next :
    left = limit - (at + 1 - id) /\ next = at + 1
      => next - 1 = at /\ left = limit - (next - id)
  OBVIOUS

(* Every set of naturals that is not empty has a least element.               *)
LEMMA LeastNatural ==
  ASSUME NEW S \in SUBSET Nat, NEW n \in S
  PROVE  \E m \in S : \A k \in S : m <= k
<1> DEFINE Below == {0..k : k \in S}
<1>1. IsWellFoundedOn(StrictSubsetOrdering(Nat), FiniteSubsetsOf(Nat))
  BY FS_StrictSubsetOrderingWellFounded
<1>2. Below \subseteq FiniteSubsetsOf(Nat)
  <2> SUFFICES ASSUME NEW k \in S PROVE 0..k \in FiniteSubsetsOf(Nat)
    OBVIOUS
  <2>1. IsFiniteSet(0..k)
    BY FS_Interval
  <2> QED
    BY <2>1 DEF FiniteSubsetsOf
<1>3. Below # {}
  OBVIOUS
<1>4. PICK x \in Below : \A y \in Below : <<y, x>> \notin StrictSubsetOrdering(Nat)
  <2> HIDE DEF Below
  <2> QED
    BY <1>1, <1>2, <1>3, WFMin
<1>5. PICK m \in S : x = 0..m
  OBVIOUS
<1>6. ASSUME NEW k \in S PROVE m <= k
  <2>1. SUFFICES ASSUME k < m PROVE FALSE
    OBVIOUS
  <2>2. 0..k \in Below /\ 0..k \subseteq 0..m /\ m \in 0..m /\ m \notin 0..k
    BY <2>1
  <2>3. <<0..k, 0..m>> \in StrictSubsetOrdering(Nat)
    BY <2>2 DEF StrictSubsetOrdering
  <2> QED
    BY <1>4, <1>5, <2>2, <2>3
<1> QED
  BY <1>6

(* findNextMissingChunkLink: what it returns is missing, with nothing missing *)
(* and nothing that does not decode before it, and it returns the end only if *)
(* no chunk is missing that can be reached.                                   *)
LEMMA NextMissingFirst ==
  ASSUME Types, NEW id \in Chain, NEW next, next = NextMissing(id)
  PROVE  /\ next # End =>
              next \in Chain \ stored /\ id <= next /\ Present(id, next - 1)
         /\ next = End =>
              \A k \in Chain :
                id <= k /\ (\A j \in id..k : ~Broken(j)) => k \in stored
<1>1. /\ Len(chunks) \in Nat \ {0} /\ Chain = 1..Len(chunks)
      /\ End \notin Chain
  BY Numbers
<1>2. CASE Missings(id) # {}
  <2>1. next \in Missings(id)
    BY <1>2 DEF NextMissing
  <2>2. next \in Chain /\ next >= id /\ Missing(next)
        /\ \A j \in id..(next - 1) : ~Missing(j) /\ ~Broken(j)
    BY <2>1 DEF Missings
  <2>3. ASSUME NEW j \in id..(next - 1) PROVE j \in stored /\ ~Broken(j)
    BY <1>1, <2>2, <2>3 DEF Missing
  <2> QED
    BY <1>1, <2>2, <2>3 DEF Missing, Present
<1>3. CASE Missings(id) = {}
  <2>1. next = End
    BY <1>3 DEF NextMissing
  <2>2. ASSUME NEW k \in Chain, id <= k, \A j \in id..k : ~Broken(j), k \notin stored
        PROVE  FALSE
    <3> DEFINE Gone == {j \in id..k : j \notin stored}
    <3>1. Gone \in SUBSET Nat /\ k \in Gone
      BY <1>1, <2>2
    <3>2. PICK m \in Gone : \A j \in Gone : m <= j
      <4> HIDE DEF Gone
      <4> QED
        BY <3>1, LeastNatural
    <3>3. m \in Chain /\ m >= id /\ Missing(m)
      BY <1>1, <3>2 DEF Missing
    <3>4. ASSUME NEW j \in id..(m - 1) PROVE ~Missing(j) /\ ~Broken(j)
      <4>1. j \in id..k /\ j < m
        BY <1>1, <3>2
      <4>2. j \in stored
        BY <1>1, <3>2, <4>1
      <4> QED
        BY <2>2, <4>1, <4>2 DEF Missing
    <3>5. m \in Missings(id)
      BY <3>3, <3>4 DEF Missings
    <3> QED
      BY <1>3, <3>5
  <2> QED
    BY <2>1, <2>2
<1> QED
  BY <1>2, <1>3

LEMMA InitInv == Init => Inv
<1> SUFFICES ASSUME Init PROVE Inv
  OBVIOUS
<1>1. PICK len \in 1..MaxChunks : chunks \in [1..len -> ChunkSizes]
  BY DEF Init
<1>2. chunks \in Seq(ChunkSizes) /\ Len(chunks) = len
  BY <1>1, BoundsAssumption
<1>3. Len(chunks) >= 1 /\ Chain = 1..Len(chunks) /\ End = Len(chunks) + 1
  BY <1>1, <1>2, BoundsAssumption DEF Chain, End
<1>4. opts.depth \in Nat /\ opts.retry \in Nat /\ MaxCalls \in Nat
  BY BoundsAssumption DEF Init
<1>5. Types
  BY <1>2, <1>3, <1>4 DEF Init, Types, Syncs, Iters, SyncResults, IterResults
<1>6. OneCall /\ FromRoot /\ SyncedAll /\ LimitFromRoot
  BY DEF Init, OneCall, FromRoot, SyncedAll, LimitFromRoot
<1>7. SyncPosition /\ IterPosition
  BY <1>2, <1>3 DEF Init, SyncPosition, IterPosition
<1>8. DrainExact
  BY DEF Init, DrainExact, MhsOf
<1> QED
  BY <1>5, <1>6, <1>7, <1>8 DEF Inv

(* An action of the sync keeps the drain's part of the invariant, and an      *)
(* action of the drain the sync's.                                            *)
LEMMA SyncKeepsDrain ==
  ASSUME Inv, sync.pc # "idle", UNCHANGED <<input, iter, before>>
  PROVE  IterPosition' /\ DrainExact'
<1>1. iter.pc = "idle" /\ iter.result = "none"
  BY DEF Inv, OneCall
<1>2. IterPosition'
  BY <1>1 DEF Inv, IterPosition, input, Chain, End
<1>3. DrainExact'
  BY <1>1 DEF Inv, DrainExact, input, MhsOf
<1> QED
  BY <1>2, <1>3

LEMMA DrainKeepsSync ==
  ASSUME Inv, iter.pc # "idle", UNCHANGED <<input, sync, before, fetched>>
  PROVE  SyncPosition' /\ FromRoot' /\ SyncedAll' /\ LimitFromRoot'
<1>1. sync.pc = "idle" /\ sync.result = "none"
  BY DEF Inv, OneCall
<1>2. SyncPosition'
  BY <1>1 DEF Inv, SyncPosition, input, Chain, End
<1>3. FromRoot' /\ SyncedAll'
  BY <1>1 DEF FromRoot, SyncedAll
<1>4. LimitFromRoot'
  BY DEF Inv, LimitFromRoot, input, Asked, Chain
<1> QED
  BY <1>2, <1>3, <1>4

-----------------------------------------------------------------------------
LEMMA SyncBegins ==
  ASSUME Inv, NEW root \in Chain, SyncEntriesWithRetry(root)
  PROVE  Inv'
<1>1. /\ Len(chunks) \in Nat \ {0} /\ Chain = 1..Len(chunks)
      /\ End = Len(chunks) + 1 /\ opts.depth \in Nat /\ opts.retry \in Nat
  BY Numbers DEF Inv
<1>2. /\ Idle /\ calls < MaxCalls /\ calls' = calls + 1
      /\ sync' = [pc |-> "connect", root |-> root, id |-> root, limit |-> opts.depth,
                  attempt |-> 0, at |-> root, left |-> opts.depth, result |-> "none"]
      /\ iter' = [iter EXCEPT !.result = "none"]
      /\ before' = stored /\ fetched' = {}
      /\ UNCHANGED <<chunks, opts, stored>>
  BY DEF SyncEntriesWithRetry, input
<1>3. Types'
  <2>1. sync' \in Syncs /\ sync'.attempt <= opts.retry
    BY <1>1, <1>2 DEF Syncs, SyncResults
  <2>2. iter' \in Iters
    BY <1>2 DEF Inv, Types, Iters, IterResults
  <2>3. calls' \in 0..MaxCalls
    BY <1>2, BoundsAssumption DEF Inv, Types
  <2> QED
    BY <1>2, <2>1, <2>2, <2>3 DEF Inv, Types, Chain
<1>4. iter'.pc = "idle" /\ iter'.result = "none" /\ iter'.root = iter.root
      /\ iter'.next = iter.next /\ iter'.chunkCount = iter.chunkCount
      /\ iter'.mhs = iter.mhs
  BY <1>2 DEF Inv, Types, Iters, Idle
<1>5. OneCall'
  BY <1>2, <1>4 DEF OneCall
<1>6. SyncPosition'
  BY <1>1, <1>2 DEF SyncPosition, Present, Chain, End
<1>7. FromRoot' /\ SyncedAll' /\ LimitFromRoot'
  BY <1>1, <1>2 DEF FromRoot, SyncedAll, LimitFromRoot
<1>8. IterPosition' /\ DrainExact'
  BY <1>2, <1>4 DEF Inv, IterPosition, DrainExact, MhsOf, Chain, End
<1> QED
  BY <1>3, <1>5, <1>6, <1>7, <1>8 DEF Inv

LEMMA DrainBegins ==
  ASSUME Inv, NEW root \in Chain, Drain(root)
  PROVE  Inv'
<1>1. /\ Len(chunks) \in Nat \ {0} /\ Chain = 1..Len(chunks)
      /\ End = Len(chunks) + 1 /\ opts.depth \in Nat /\ opts.retry \in Nat
  BY Numbers DEF Inv
<1>2. /\ Idle /\ calls < MaxCalls /\ calls' = calls + 1
      /\ iter' = [pc |-> "next", root |-> root, next |-> root, chunkCount |-> 0,
                  mhs |-> {}, result |-> "none"]
      /\ sync' = [sync EXCEPT !.result = "none"]
      /\ before' = stored /\ fetched' = {}
      /\ UNCHANGED <<chunks, opts, stored>>
  BY DEF Drain, input
<1>3. sync' \in Syncs /\ sync'.attempt <= opts.retry
      /\ sync'.pc = "idle" /\ sync'.result = "none" /\ sync'.root = sync.root
      /\ sync'.id = sync.id /\ sync'.at = sync.at
  BY <1>2 DEF Inv, Types, Syncs, SyncResults, Idle
<1>4. Types'
  <2>1. iter' \in Iters
    BY <1>1, <1>2 DEF Iters, IterResults
  <2>2. calls' \in 0..MaxCalls
    BY <1>2, BoundsAssumption DEF Inv, Types
  <2> QED
    BY <1>2, <1>3, <2>1, <2>2 DEF Inv, Types, Chain
<1>5. OneCall'
  BY <1>2, <1>3 DEF OneCall
<1>6. SyncPosition'
  BY <1>2, <1>3 DEF Inv, SyncPosition, Chain, End
<1>7. FromRoot' /\ SyncedAll' /\ LimitFromRoot'
  BY <1>2, <1>3 DEF FromRoot, SyncedAll, LimitFromRoot
<1>8. IterPosition'
  BY <1>1, <1>2 DEF IterPosition, Chain, End
<1>9. DrainExact'
  <2>1. root..(root - 1) = {}
    BY <1>1
  <2> QED
    BY <1>2, <2>1 DEF DrainExact, MhsOf
<1> QED
  BY <1>4, <1>5, <1>6, <1>7, <1>8, <1>9 DEF Inv

-----------------------------------------------------------------------------
LEMMA ConnectInv ==
  ASSUME Inv, Connect
  PROVE  Inv'
<1>1. /\ Len(chunks) \in Nat \ {0} /\ Chain = 1..Len(chunks)
      /\ End = Len(chunks) + 1 /\ opts.depth \in Nat
  BY Numbers DEF Inv
<1>2. /\ sync.pc = "connect"
      /\ sync' = [sync EXCEPT !.pc = "walk", !.at = sync.id, !.left = sync.limit]
      /\ UNCHANGED <<chunks, opts, stored, iter, before, fetched, calls>>
  BY DEF Connect, input
<1>3. sync' \in Syncs /\ sync'.attempt = sync.attempt /\ sync'.pc = "walk"
      /\ sync'.result = sync.result /\ sync'.root = sync.root /\ sync'.id = sync.id
      /\ sync'.limit = sync.limit /\ sync'.at = sync.id /\ sync'.left = sync.limit
      /\ sync.limit \in Int /\ sync.id \in Nat
  BY <1>2 DEF Inv, Types, Syncs
<1>4. Types'
  BY <1>2, <1>3 DEF Inv, Types, Chain
<1>5. OneCall'
  BY <1>2, <1>3 DEF Inv, OneCall
<1>6. SyncPosition'
  BY <1>1, <1>2, <1>3 DEF Inv, SyncPosition, Present, Chain, End, Broken
<1>7. FromRoot' /\ SyncedAll' /\ LimitFromRoot'
  BY <1>2, <1>3 DEF Inv, OneCall, FromRoot, SyncedAll, LimitFromRoot, Asked, Chain
<1>8. IterPosition' /\ DrainExact'
  BY <1>2, SyncKeepsDrain DEF input
<1> QED
  BY <1>4, <1>5, <1>6, <1>7, <1>8 DEF Inv

(* A call that returns, having left nothing out if it says so.                *)
LEMMA ReturnInv ==
  ASSUME Inv, sync.pc # "idle", NEW result \in SyncResults, Return(result),
         result = "ok" =>
           \A k \in Asked(sync.root) :
             (\A j \in sync.root..k : ~Broken(j)) => k \in stored,
         UNCHANGED <<input, stored, iter, before, fetched, calls>>
  PROVE  Inv'
<1>1. /\ sync' = [sync EXCEPT !.pc = "idle", !.result = result]
      /\ UNCHANGED <<chunks, opts, stored, iter, before, fetched, calls>>
  BY DEF Return, input
<1>2. sync' \in Syncs /\ sync'.attempt = sync.attempt /\ sync'.pc = "idle"
      /\ sync'.result = result /\ sync'.root = sync.root /\ sync'.id = sync.id
      /\ sync'.at = sync.at
  BY <1>1 DEF Inv, Types, Syncs
<1>3. Types'
  BY <1>1, <1>2 DEF Inv, Types, Chain
<1>4. OneCall' /\ FromRoot'
  BY <1>1, <1>2 DEF Inv, OneCall, FromRoot
<1>5. SyncPosition'
  BY <1>1, <1>2 DEF Inv, SyncPosition, Chain, End
<1>6. SyncedAll'
  BY <1>1, <1>2 DEF SyncedAll, Asked, Broken, Chain
<1>7. LimitFromRoot'
  BY <1>1, <1>2 DEF Inv, LimitFromRoot, Asked, Chain
<1>8. IterPosition' /\ DrainExact'
  BY <1>1, SyncKeepsDrain DEF input
<1> QED
  BY <1>3, <1>4, <1>5, <1>6, <1>7, <1>8 DEF Inv

(* What a sync has left of its limit when an attempt fails: nothing that it   *)
(* could go on with is stored at or behind the chunk it has come to.          *)
LEMMA RetryResumes ==
  ASSUME Inv, sync.pc # "idle", sync.root \notin before, opts.depth > 0,
         sync.pc = "walk" => Walking /\ (Missing(sync.at) \/ Broken(sync.at)),
         NEW next, next = NextMissing(sync.id), next # End
  PROVE  next - sync.id < sync.limit
<1>1. /\ Len(chunks) \in Nat \ {0} /\ Chain = 1..Len(chunks)
      /\ opts.depth \in Nat
  BY Numbers DEF Inv
<1>2. sync.root \in Chain /\ sync.id \in Chain /\ sync.root <= sync.id
      /\ sync.limit \in Int /\ sync.left \in Int /\ sync.at \in Nat
      /\ sync.pc \in {"connect", "walk"}
  BY DEF Inv, SyncPosition, Types, Syncs
<1>3. next \in Chain \ stored /\ sync.id <= next /\ Present(sync.id, next - 1)
  BY <1>2, NextMissingFirst DEF Inv
<1>4. sync.limit > 0
  BY DEF Inv, FromRoot
<1>5. CASE sync.pc = "connect"
  <2>1. sync.id \notin stored
    BY <1>5 DEF Inv, FromRoot
  <2>2. next = sync.id
    BY <1>1, <1>2, <1>3, <2>1 DEF Present
  <2> QED
    BY <1>1, <1>2, <1>4, <2>2
<1>6. CASE sync.pc = "walk"
  <2>1. /\ sync.id <= sync.at /\ Present(sync.id, sync.at - 1)
        /\ sync.left = sync.limit - (sync.at - sync.id) /\ sync.left >= 0
    BY <1>4, <1>6 DEF Inv, SyncPosition
  <2>2. sync.left # 0 /\ sync.at \in Chain
    BY <1>4, <1>6 DEF Walking
  <2>3. next <= sync.at
    <3>1. SUFFICES ASSUME sync.at < next PROVE FALSE
      BY <1>1, <1>2, <1>3
    <3>2. sync.at \in sync.id..(next - 1)
      BY <1>1, <1>2, <1>3, <2>1, <3>1
    <3>3. sync.at \in stored /\ ~Broken(sync.at)
      BY <1>3, <3>2 DEF Present
    <3> QED
      BY <1>6, <3>3 DEF Missing
  <2> QED
    BY <1>1, <1>2, <1>3, <2>1, <2>2, <2>3
<1> QED
  BY <1>2, <1>5, <1>6

LEMMA RetryInv ==
  ASSUME Inv, sync.pc # "idle", Retry,
         sync.pc = "walk" => Walking /\ (Missing(sync.at) \/ Broken(sync.at)),
         UNCHANGED <<input, stored, iter, before, fetched, calls>>
  PROVE  Inv'
<1> DEFINE next == NextMissing(sync.id)
<1>1. /\ Len(chunks) \in Nat \ {0} /\ Chain = 1..Len(chunks)
      /\ End = Len(chunks) + 1 /\ opts.depth \in Nat /\ opts.retry \in Nat
  BY Numbers DEF Inv
<1>2. /\ sync \in Syncs /\ sync.root \in Chain /\ sync.id \in Chain
      /\ sync.root <= sync.id /\ Present(sync.root, sync.id - 1)
      /\ sync.limit = opts.depth - (sync.id - sync.root)
      /\ sync.at \in 1..End /\ sync.attempt <= opts.retry
  BY DEF Inv, Types, SyncPosition
<1>3. CASE sync.attempt = opts.retry
  <2>1. Return("exceeded")
    BY <1>3 DEF Retry
  <2> QED
    BY <2>1, ReturnInv DEF SyncResults
<1>4. CASE sync.attempt # opts.retry /\ next = End
  <2>1. Return("ok")
    BY <1>4 DEF Retry
  <2>2. ASSUME NEW k \in Asked(sync.root), \A j \in sync.root..k : ~Broken(j)
        PROVE  k \in stored
    <3>1. k \in Chain /\ k >= sync.root
      BY DEF Asked
    <3>2. CASE k < sync.id
      BY <1>1, <1>2, <3>1, <3>2 DEF Present
    <3>3. CASE k >= sync.id
      <4>1. \A j \in sync.id..k : ~Broken(j)
        BY <1>1, <1>2, <2>2, <3>1
      <4> QED
        BY <1>2, <1>4, <3>1, <3>3, <4>1, <1>1, NextMissingFirst DEF Inv
    <3> QED
      BY <1>1, <1>2, <3>1, <3>2, <3>3
  <2> QED
    BY <2>1, <2>2, ReturnInv DEF SyncResults
<1>5. CASE sync.attempt # opts.retry /\ next # End
  <2>1. next \in Chain \ stored /\ sync.id <= next /\ Present(sync.id, next - 1)
    BY <1>2, <1>5, NextMissingFirst DEF Inv
  <2>2. sync' = [sync EXCEPT !.pc = "connect", !.attempt = @ + 1, !.id = next,
                             !.limit = @ - (next - sync.id)]
        /\ UNCHANGED <<chunks, opts, stored, iter, before, fetched, calls>>
    BY <1>5 DEF Retry, input
  <2> HIDE DEF next
  <2>3. /\ sync' \in Syncs /\ sync'.pc = "connect" /\ sync'.root = sync.root
        /\ sync'.id = next /\ sync'.at = sync.at /\ sync'.result = sync.result
        /\ sync'.attempt = sync.attempt + 1
        /\ sync'.limit = sync.limit - (next - sync.id)
    <3>1. next \in Nat /\ sync.id \in Nat
      BY <1>1, <1>2, <2>1
    <3>2. sync.limit \in Int /\ sync.attempt \in Nat
      BY <1>2 DEF Syncs
    <3>3. sync.limit - (next - sync.id) \in Int /\ sync.attempt + 1 \in Nat
      BY <3>1, <3>2
    <3> QED
      BY <1>2, <2>2, <3>1, <3>3 DEF Syncs
  <2>4. Types'
    <3>1. sync.attempt \in Nat
      BY <1>2 DEF Syncs
    <3>2. sync.attempt + 1 <= opts.retry
      BY <1>1, <1>2, <1>5, <3>1
    <3> QED
      BY <2>2, <2>3, <3>2 DEF Inv, Types, Chain
  <2>5. OneCall'
    BY <2>2, <2>3 DEF Inv, OneCall
  <2>6. Present(sync.root, next - 1)
    BY <1>1, <1>2, <2>1 DEF Present
  <2>7. SyncPosition'
    BY <1>1, <1>2, <2>1, <2>2, <2>3, <2>6 DEF SyncPosition, Present, Broken, Chain, End
  <2>8. FromRoot'
    <3>1. sync.root \notin before /\ opts.depth > 0 => next - sync.id < sync.limit
      BY <1>5, RetryResumes DEF next
    <3>2. sync.root \notin before /\ opts.depth > 0 => sync'.limit > 0
      BY <1>1, <1>2, <2>1, <2>3, <3>1
    <3> QED
      BY <2>1, <2>2, <2>3, <3>2 DEF FromRoot
  <2>9. SyncedAll' /\ LimitFromRoot'
    BY <2>2, <2>3 DEF Inv, OneCall, SyncedAll, LimitFromRoot, Asked, Chain
  <2>10. IterPosition' /\ DrainExact'
    BY <2>2, SyncKeepsDrain DEF input
  <2> QED
    BY <2>4, <2>5, <2>7, <2>8, <2>9, <2>10 DEF Inv
<1> QED
  BY <1>3, <1>4, <1>5

-----------------------------------------------------------------------------
LEMMA ReadChunkInv ==
  ASSUME Inv, ReadChunk
  PROVE  Inv'
<1>1. /\ Len(chunks) \in Nat \ {0} /\ Chain = 1..Len(chunks)
      /\ End = Len(chunks) + 1 /\ opts.depth \in Nat
  BY Numbers DEF Inv
<1>2. /\ sync.pc = "walk" /\ sync.at \in Chain /\ ~(sync.limit > 0 /\ sync.left = 0)
      /\ sync.at \in stored /\ ~Broken(sync.at)
      /\ sync' = [sync EXCEPT !.at = @ + 1, !.left = @ - 1]
      /\ UNCHANGED <<chunks, opts, stored, iter, before, fetched, calls>>
  BY DEF ReadChunk, Walking, input
<1>3. sync \in Syncs /\ sync.limit \in Int /\ sync.left \in Int /\ sync.at \in Nat
      /\ sync.id \in Chain
  BY DEF Inv, Types, Syncs, SyncPosition
<1>4. sync' \in Syncs /\ sync'.attempt = sync.attempt /\ sync'.pc = "walk"
      /\ sync'.result = sync.result /\ sync'.root = sync.root /\ sync'.id = sync.id
      /\ sync'.limit = sync.limit /\ sync'.at = sync.at + 1
      /\ sync'.left = sync.left - 1
  <2>1. sync.at + 1 \in Nat /\ sync.left - 1 \in Int
    BY <1>3
  <2> QED
    BY <1>2, <1>3, <2>1 DEF Syncs
<1>5. Types'
  BY <1>2, <1>4 DEF Inv, Types, Chain
<1>6. OneCall'
  BY <1>2, <1>4 DEF Inv, OneCall
<1>7. SyncPosition'
  <2>1. /\ sync.root \in Chain /\ sync.root <= sync.id /\ sync.id <= sync.at
        /\ Present(sync.root, sync.id - 1) /\ Present(sync.id, sync.at - 1)
        /\ sync.limit = opts.depth - (sync.id - sync.root)
        /\ sync.left = sync.limit - (sync.at - sync.id)
        /\ sync.limit > 0 => sync.left >= 0
    BY <1>2 DEF Inv, SyncPosition
  <2>2. sync'.id = sync.id /\ sync'.root = sync.root /\ sync'.at = sync.at + 1
        /\ sync'.limit = sync.limit /\ opts' = opts
        /\ Chain' = Chain /\ End' = End
    BY <1>2, <1>4 DEF Chain, End
  <2>3. /\ sync'.left = sync.limit - (sync.at + 1 - sync.id)
        /\ sync.limit > 0 => sync'.left >= 0
        /\ sync.id <= sync.at + 1
    <3>1. /\ sync.id <= sync.at /\ sync.left = sync.limit - (sync.at - sync.id)
          /\ sync.limit > 0 => sync.left >= 0
      BY <2>1
    <3>2. sync.id \in Nat /\ sync.at \in Nat /\ sync.limit \in Int /\ sync.left \in Int
      BY <1>1, <1>3
    <3>3. sync'.left = sync.left - 1
      BY <1>4
    <3>4. ~(sync.limit > 0 /\ sync.left = 0)
      BY <1>2
    <3> QED
      BY <3>1, <3>2, <3>3, <3>4
  <2>4. sync'.at - 1 = sync.at /\ sync'.left = sync.limit - (sync'.at - sync.id)
    <3>1. sync.at \in Nat /\ sync.id \in Nat /\ sync.limit \in Int
      BY <1>1, <1>3
    <3>2. \A left, next :
            left = sync.limit - (sync.at + 1 - sync.id) /\ next = sync.at + 1
              => next - 1 = sync.at /\ left = sync.limit - (next - sync.id)
      BY <3>1, OneFurther, Zenon
    <3>3. sync'.at - 1 = sync.at
      BY <2>2, <2>3, <3>2, Zenon
    <3>4. sync'.left = sync.limit - (sync'.at - sync.id)
      BY <2>2, <2>3, <3>2, Zenon
    <3> QED
      BY <3>3, <3>4
  <2>5. Present(sync.root, sync.id - 1)' /\ Present(sync.id, sync.at - 1)'
    <3> DEFINE Good(k) == k \in stored' /\ ~Broken(k)'
    <3>1. /\ \A k \in sync.root..(sync.id - 1) : Good(k)
          /\ \A k \in sync.id..sync.at : Good(k)
      BY <1>1, <1>2, <1>3, <2>1 DEF Present, Broken, Chain
    <3>2. /\ sync'.root..(sync'.id - 1) = sync.root..(sync.id - 1)
          /\ sync'.id..(sync'.at - 1) = sync.id..sync.at
      BY <2>2, <2>4, Zenon
    <3> HIDE DEF Good
    <3>3. /\ \A k \in sync'.root..(sync'.id - 1) : Good(k)
          /\ \A k \in sync'.id..(sync'.at - 1) : Good(k)
      BY <3>1, <3>2
    <3> QED
      BY <3>3, Zenon DEF Good, Present
  <2>6. sync'.root \in Chain' /\ sync'.id \in Chain' /\ sync'.root <= sync'.id
        /\ sync'.at \in (1..End)' /\ sync'.id <= sync'.at
    <3>1. sync.at + 1 \in 1..End
      BY <1>1, <1>2
    <3> QED
      BY <1>3, <2>1, <2>2, <2>3, <3>1
  <2>7. sync'.limit = opts'.depth - (sync'.id - sync'.root)
    BY <2>1, <2>2, Zenon
  <2>8. sync'.left = sync'.limit - (sync'.at - sync'.id)
    BY <2>2, <2>4, Zenon
  <2>9. sync'.limit > 0 => sync'.left >= 0
    BY <2>2, <2>3, Zenon
  <2> QED
    BY <2>5, <2>6, <2>7, <2>8, <2>9 DEF SyncPosition
<1>8. FromRoot' /\ SyncedAll' /\ LimitFromRoot'
  BY <1>2, <1>4 DEF Inv, OneCall, FromRoot, SyncedAll, LimitFromRoot, Asked, Chain
<1>9. IterPosition' /\ DrainExact'
  BY <1>2, SyncKeepsDrain DEF input
<1> QED
  BY <1>5, <1>6, <1>7, <1>8, <1>9 DEF Inv

LEMMA FetchChunkInv ==
  ASSUME Inv, FetchChunk
  PROVE  Inv'
<1>1. /\ Len(chunks) \in Nat \ {0} /\ Chain = 1..Len(chunks)
      /\ End = Len(chunks) + 1 /\ opts.depth \in Nat
  BY Numbers DEF Inv
<1>2. /\ sync.pc = "walk" /\ sync.at \in Chain /\ ~(sync.limit > 0 /\ sync.left = 0)
      /\ stored' = stored \cup {sync.at} /\ fetched' = fetched \cup {sync.at}
      /\ UNCHANGED <<chunks, opts, sync, iter, before, calls>>
  BY DEF FetchChunk, Walking, input
<1>3. Types'
  BY <1>2 DEF Inv, Types, Chain
<1>4. OneCall'
  BY <1>2 DEF Inv, OneCall
<1>5. SyncPosition'
  BY <1>2 DEF Inv, SyncPosition, Present, Broken, Chain, End
<1>6. FromRoot' /\ SyncedAll'
  BY <1>2 DEF Inv, OneCall, FromRoot, SyncedAll
<1>7. LimitFromRoot'
  <2>1. SUFFICES ASSUME sync.root \notin before PROVE sync.at \in Asked(sync.root)
    BY <1>2, <2>1 DEF Inv, LimitFromRoot, Asked, Chain
  <2>2. /\ sync.root \in Chain /\ sync.id \in Chain /\ sync.root <= sync.id
        /\ sync.limit = opts.depth - (sync.id - sync.root)
        /\ sync.id <= sync.at /\ sync.left = sync.limit - (sync.at - sync.id)
        /\ sync.limit > 0 => sync.left >= 0
    BY <1>2 DEF Inv, SyncPosition
  <2>3. opts.depth > 0 => sync.limit > 0
    BY <1>2, <2>1 DEF Inv, FromRoot
  <2>4. sync.root \in Nat /\ sync.id \in Nat /\ sync.at \in Nat
    BY <1>1, <1>2, <2>2
  <2>5. opts.depth = 0 \/ sync.at < sync.root + opts.depth
    BY <1>1, <1>2, <2>2, <2>3, <2>4
  <2> QED
    BY <1>2, <2>2, <2>4, <2>5 DEF Asked
<1>8. IterPosition' /\ DrainExact'
  BY <1>2, SyncKeepsDrain DEF input
<1> QED
  BY <1>3, <1>4, <1>5, <1>6, <1>7, <1>8 DEF Inv

LEMMA SyncedInv ==
  ASSUME Inv, Synced
  PROVE  Inv'
<1>1. /\ Len(chunks) \in Nat \ {0} /\ Chain = 1..Len(chunks)
      /\ End = Len(chunks) + 1 /\ opts.depth \in Nat
  BY Numbers DEF Inv
<1>2. sync.pc = "walk" /\ (sync.at \notin Chain \/ (sync.limit > 0 /\ sync.left = 0))
  BY DEF Synced, Walking
<1>3. /\ sync.root \in Chain /\ sync.id \in Chain /\ sync.root <= sync.id
      /\ sync.at \in 1..End /\ sync.id <= sync.at
      /\ sync.limit = opts.depth - (sync.id - sync.root)
      /\ sync.left = sync.limit - (sync.at - sync.id)
      /\ Present(sync.root, sync.id - 1) /\ Present(sync.id, sync.at - 1)
  BY <1>2 DEF Inv, SyncPosition
<1>4. ASSUME NEW k \in Asked(sync.root) PROVE k \in stored
  <2>1. k \in Chain /\ k >= sync.root /\ (opts.depth = 0 \/ k < sync.root + opts.depth)
    BY DEF Asked
  <2>2. k < sync.at
    BY <1>1, <1>2, <1>3, <2>1
  <2> QED
    BY <1>1, <1>3, <2>1, <2>2 DEF Present
<1> QED
  BY <1>2, <1>4, ReturnInv DEF Synced, SyncResults

-----------------------------------------------------------------------------
LEMMA MhsOfNext ==
  ASSUME NEW first \in Nat, NEW last \in Nat, first <= last
  PROVE  MhsOf(first, last) = MhsOf(first, last - 1) \cup ({last} \X (1..chunks[last]))
<1>1. first..last = (first..(last - 1)) \cup {last}
  OBVIOUS
<1> QED
  BY <1>1 DEF MhsOf

LEMMA NextChunkInv ==
  ASSUME Inv, NextChunk
  PROVE  Inv'
<1>1. /\ Len(chunks) \in Nat \ {0} /\ Chain = 1..Len(chunks)
      /\ End = Len(chunks) + 1 /\ \A k \in Chain : chunks[k] \in Int
  BY Numbers DEF Inv
<1>2. /\ iter.pc = "next" /\ iter.next \in stored /\ iter.next \in Chain
      /\ iter' = [iter EXCEPT
           !.next = @ + 1, !.chunkCount = @ + 1,
           !.mhs = @ \cup ({iter.next} \X (1..chunks[iter.next])),
           !.pc = IF chunks[iter.next] = 0 THEN "idle" ELSE "next",
           !.result = IF chunks[iter.next] = 0 THEN "eof" ELSE "none"]
      /\ stored' \in {stored, stored \ {iter.next}}
      /\ UNCHANGED <<chunks, opts, sync, before, fetched, calls>>
  BY DEF NextChunk, input, Inv, Types
<1>3. iter \in Iters /\ iter.next \in Nat /\ iter.root \in Chain
      /\ iter.root <= iter.next /\ iter.chunkCount = iter.next - iter.root
      /\ iter.root..(iter.next - 1) \subseteq before /\ iter.next \in before
      /\ \A k \in Chain : k >= iter.next => (k \in stored <=> k \in before)
      /\ iter.mhs = MhsOf(iter.root, iter.next - 1)
  BY <1>1, <1>2 DEF Inv, Types, Iters, IterPosition, DrainExact
<1>4. /\ iter'.next = iter.next + 1 /\ iter'.chunkCount = iter.chunkCount + 1
      /\ iter'.root = iter.root
      /\ iter'.mhs = iter.mhs \cup ({iter.next} \X (1..chunks[iter.next]))
      /\ iter'.pc = IF chunks[iter.next] = 0 THEN "idle" ELSE "next"
      /\ iter'.result = IF chunks[iter.next] = 0 THEN "eof" ELSE "none"
      /\ iter' \in Iters
  <2>1. {iter.next} \X (1..chunks[iter.next]) \in SUBSET (Int \X Int)
    BY <1>1, <1>2, <1>3
  <2>2. iter.chunkCount + 1 \in Nat /\ iter.next + 1 \in Nat
    BY <1>3 DEF Iters
  <2>3. iter.mhs \cup ({iter.next} \X (1..chunks[iter.next])) \in SUBSET (Int \X Int)
    BY <1>3, <2>1 DEF Iters
  <2> QED
    BY <1>2, <1>3, <2>2, <2>3 DEF Iters, IterResults
<1>5. Types'
  BY <1>2, <1>4 DEF Inv, Types, Chain
<1>6. OneCall'
  BY <1>2, <1>4 DEF Inv, OneCall
<1>7. IterPosition'
  <2>1. iter.root..iter.next \subseteq before
    BY <1>1, <1>2, <1>3
  <2>2. \A k \in Chain : k >= iter.next + 1 => (k \in stored' <=> k \in before)
    BY <1>1, <1>2, <1>3
  <2> QED
    BY <1>1, <1>2, <1>3, <1>4, <2>1, <2>2 DEF IterPosition, Chain, End
<1>8. DrainExact'
  <2>1. iter'.mhs = MhsOf(iter.root, iter.next)
    <3>1. iter.root \in Nat
      BY <1>1, <1>3
    <3>2. MhsOf(iter.root, iter.next)
          = MhsOf(iter.root, iter.next - 1) \cup ({iter.next} \X (1..chunks[iter.next]))
      BY <1>3, <3>1, MhsOfNext
    <3>3. iter.mhs = MhsOf(iter.root, iter.next - 1)
      BY DEF Inv, DrainExact
    <3>4. iter'.mhs = iter.mhs \cup ({iter.next} \X (1..chunks[iter.next]))
      BY <1>4
    <3> QED
      BY <3>2, <3>3, <3>4, Zenon
  <2>2. iter'.mhs = MhsOf(iter.root, iter.next - 1)'
    BY <1>2, <1>3, <1>4, <2>1 DEF MhsOf
  <2>3. iter.root..iter.next \subseteq before
    BY <1>1, <1>2, <1>3
  <2>4. iter'.root..(iter'.next - 1) \subseteq before'
    BY <1>2, <1>3, <1>4, <2>3
  <2>5. iter'.result # "none" =>
          /\ iter'.result = "eof" /\ iter'.next > iter'.root
          /\ chunks'[iter'.next - 1] = 0
    <3>1. \A next \in Nat : next + 1 - 1 = next
      OBVIOUS
    <3>2. iter'.next - 1 = iter.next
      BY <1>3, <1>4, <3>1
    <3>3. iter'.next > iter'.root
      BY <1>1, <1>3, <1>4
    <3> QED
      BY <1>2, <1>4, <3>2, <3>3
  <2> QED
    BY <2>2, <2>4, <2>5 DEF DrainExact
<1>9. SyncPosition' /\ FromRoot' /\ SyncedAll' /\ LimitFromRoot'
  BY <1>2, DrainKeepsSync DEF input
<1> QED
  BY <1>5, <1>6, <1>7, <1>8, <1>9 DEF Inv

(* A drain that ends where the chain does, where a chunk is missing, or where *)
(* one does not decode.                                                       *)
LEMMA DrainEndsInv ==
  ASSUME Inv, iter.pc = "next", NEW result \in IterResults, DrainEnds(result),
         result = "not found" => Missing(iter.next),
         result = "bad chunk" => Broken(iter.next) /\ ~Missing(iter.next),
         result = "eof" => iter.next = End,
         UNCHANGED <<input, stored, sync, before, fetched, calls>>
  PROVE  Inv'
<1>1. /\ iter' = [iter EXCEPT !.pc = "idle", !.result = result]
      /\ UNCHANGED <<chunks, opts, stored, sync, before, fetched, calls>>
  BY DEF DrainEnds, input
<1>2. iter' \in Iters /\ iter'.pc = "idle" /\ iter'.result = result
      /\ iter'.root = iter.root /\ iter'.next = iter.next
      /\ iter'.chunkCount = iter.chunkCount /\ iter'.mhs = iter.mhs
  BY <1>1 DEF Inv, Types, Iters
<1>3. Types'
  BY <1>1, <1>2 DEF Inv, Types, Chain
<1>4. OneCall'
  BY <1>1, <1>2 DEF Inv, OneCall
<1>5. IterPosition'
  BY <1>1, <1>2 DEF Inv, IterPosition, Chain, End
<1>6. DrainExact'
  <2>1. /\ iter.mhs = MhsOf(iter.root, iter.next - 1)
        /\ iter.root..(iter.next - 1) \subseteq before
        /\ \A k \in Chain : k >= iter.next => (k \in stored <=> k \in before)
    BY DEF Inv, IterPosition, DrainExact
  <2>2. iter.next \in Chain => (iter.next \in stored <=> iter.next \in before)
    <3>1. iter.next >= iter.next
      <4>1. iter.next \in Nat
        BY DEF Inv, Types, Iters
      <4> QED
        BY <4>1, Reflexive
    <3>2. \A k \in Chain : k >= iter.next => (k \in stored <=> k \in before)
      BY <2>1
    <3> QED
      BY <3>1, <3>2, Zenon
  <2>3. result # "none" =>
          \/ result = "not found" /\ iter.next \in Chain \ before
          \/ result = "bad chunk" /\ iter.next \in before /\ Broken(iter.next)
          \/ result = "eof" /\ iter.next = End
    BY <2>2 DEF Missing, Broken, IterResults
  <2> QED
    BY <1>1, <1>2, <2>1, <2>3 DEF DrainExact, MhsOf, Chain, End, Broken
<1>7. SyncPosition' /\ FromRoot' /\ SyncedAll' /\ LimitFromRoot'
  BY <1>1, DrainKeepsSync DEF input
<1> QED
  BY <1>3, <1>4, <1>5, <1>6, <1>7 DEF Inv

-----------------------------------------------------------------------------
LEMMA StepInv ==
  ASSUME Inv, Step
  PROVE  Inv'
<1>1. CASE Connect
  BY <1>1, ConnectInv
<1>2. CASE ConnectFails
  BY <1>2, RetryInv DEF ConnectFails
<1>3. CASE ReadChunk
  BY <1>3, ReadChunkInv
<1>4. CASE DecodeFails
  BY <1>4, RetryInv DEF DecodeFails, Walking
<1>5. CASE FetchChunk
  BY <1>5, FetchChunkInv
<1>6. CASE FetchFails
  BY <1>6, RetryInv DEF FetchFails, Walking
<1>7. CASE ContentNotFound
  BY <1>7, ReturnInv DEF ContentNotFound, Walking, SyncResults
<1>8. CASE Synced
  BY <1>8, SyncedInv
<1>9. CASE NextChunk
  BY <1>9, NextChunkInv
<1>10. CASE NextEnd
  BY <1>10, DrainEndsInv DEF NextEnd, IterResults
<1>11. CASE NextFails
  <2>1. CASE Missing(iter.next)
    BY <1>11, <2>1, DrainEndsInv DEF NextFails, IterResults
  <2>2. CASE ~Missing(iter.next)
    BY <1>11, <2>2, DrainEndsInv DEF NextFails, IterResults
  <2> QED
    BY <2>1, <2>2
<1> QED
  BY <1>1, <1>2, <1>3, <1>4, <1>5, <1>6, <1>7, <1>8, <1>9, <1>10, <1>11 DEF Step

LEMMA NextInv == Inv /\ [Next]_vars => Inv'
<1> SUFFICES ASSUME Inv, [Next]_vars PROVE Inv'
  OBVIOUS
<1>1. CASE \E root \in Chain : SyncEntriesWithRetry(root) \/ Drain(root)
  BY <1>1, SyncBegins, DrainBegins
<1>2. CASE Step
  BY <1>2, StepInv
<1>3. CASE UNCHANGED vars
  <2>1. UNCHANGED <<chunks, opts, stored, sync, iter, before, fetched, calls>>
    BY <1>3 DEF vars, input
  <2>2. Types' /\ OneCall' /\ FromRoot'
    BY <2>1 DEF Inv, Types, OneCall, FromRoot, Chain
  <2>3. SyncPosition' /\ IterPosition'
    BY <2>1 DEF Inv, SyncPosition, IterPosition, Present, Broken, Chain, End
  <2>4. SyncedAll' /\ LimitFromRoot' /\ DrainExact'
    BY <2>1 DEF Inv, SyncedAll, LimitFromRoot, DrainExact, Asked, Broken, Chain, End, MhsOf
  <2> QED
    BY <2>2, <2>3, <2>4 DEF Inv
<1> QED
  BY <1>1, <1>2, <1>3 DEF Next

LEMMA InvHolds == Spec => []Inv
  BY InitInv, NextInv, PTL DEF Spec

LEMMA InvTypes == Inv => TypeOK
<1> SUFFICES ASSUME Inv PROVE TypeOK
  OBVIOUS
<1>1. /\ Len(chunks) \in Nat \ {0} /\ Chain = 1..Len(chunks)
      /\ End = Len(chunks) + 1 /\ opts.retry \in Nat
  BY Numbers DEF Inv
<1>2. sync.attempt \in 0..opts.retry /\ sync.pc \in {"idle", "connect", "walk"}
  BY <1>1 DEF Inv, Types, Syncs
<1>3. iter.pc \in {"idle", "next"} /\ iter.chunkCount \in 0..Len(chunks)
  BY <1>1 DEF Inv, Types, Iters, IterPosition
<1> QED
  BY <1>1, <1>2, <1>3 DEF Inv, Types, SyncPosition, IterPosition, TypeOK

(* Types and capacities, for every chain and every client: a sync never goes  *)
(* beyond its retries, an iterator never beyond the end of the chain.         *)
THEOREM TypeCorrect == Spec => []TypeOK
  BY InvTypes, InvHolds, PTL

(* A sync that succeeds has left no gap in what was asked for, wherever its   *)
(* attempts have failed and whatever was stored before.                       *)
THEOREM SyncLeavesNoGap == Spec => []SyncedAll
<1>1. Inv => SyncedAll
  BY DEF Inv
<1> QED
  BY <1>1, InvHolds, PTL

(* A sync that has to fetch its root fetches nothing beyond its depth limit,  *)
(* however many retries it makes.                                             *)
THEOREM SyncKeepsLimit == Spec => []LimitFromRoot
<1>1. Inv => LimitFromRoot
  BY DEF Inv
<1> QED
  BY <1>1, InvHolds, PTL

(* A drain returns exactly what was stored of the chain, up to the chunk that *)
(* its result names, also when it deletes what it reads.                      *)
THEOREM DrainIsExact == Spec => []DrainExact
<1>1. Inv => DrainExact
  BY DEF Inv
<1> QED
  BY <1>1, InvHolds, PTL

-----------------------------------------------------------------------------
(* The loop uses the client as EntriesSync says, tries every ad it says it    *)
(* has tried, and shows of each what it has asked for.                        *)

Commands == [pc : {"ad", "sync", "drain", "done"}, pos : Nat,
             result : {"none", "ok", "ad failed", "drain failed"}]
Outcomes == [pos : Nat, synced : BOOLEAN, mhs : SUBSET (Int \X Int),
             chunkCount : Nat, note : BOOLEAN]

CommandTypes ==
  /\ list \in Seq(AdKinds)
  /\ cmd \in Commands /\ cmd.pos \in 1..(Len(list) + 1)
  /\ outcomes \in Seq(Outcomes)
  /\ kept \subseteq Chain

(* The loop waits for the call it has made, for the ad it is at.              *)
InStep ==
  /\ cmd.pc \in {"ad", "done"} => Idle
  /\ sync.pc # "idle" => cmd.pc = "sync"
  /\ iter.pc # "idle" => cmd.pc = "drain"
  /\ cmd.pc \in {"sync", "drain"} => cmd.pos \in DOMAIN list /\ HasWork(Ad)
  /\ cmd.pc = "sync" => sync.root = Ad.root
  /\ cmd.pc = "drain" => iter.root = Ad.root

(* The loop at rest, with types: what everything else rests on.               *)
LoopInv == Inv /\ CommandTypes /\ InStep

-----------------------------------------------------------------------------
LEMMA LoopInit == CommandInit => LoopInv
<1> SUFFICES ASSUME CommandInit PROVE LoopInv
  OBVIOUS
<1>1. Inv
  BY InitInv DEF CommandInit
<1>2. PICK n \in 1..MaxAds : list \in [1..n -> AdKinds]
  BY DEF CommandInit
<1>3. list \in Seq(AdKinds) /\ Len(list) \in Nat
  BY <1>2, CallsAssumption
<1>4. cmd \in Commands /\ cmd.pos \in 1..(Len(list) + 1) /\ cmd.pc = "ad"
  BY <1>3 DEF CommandInit, Commands
<1>5. outcomes \in Seq(Outcomes) /\ kept \subseteq Chain
  BY DEF CommandInit
<1>6. InStep
  BY <1>4 DEF CommandInit, Init, InStep, Idle
<1> QED
  BY <1>1, <1>3, <1>4, <1>5, <1>6 DEF LoopInv, CommandTypes

(* The ads that the loop syncs begin in the chain.                            *)
LEMMA WorkInChain ==
  ASSUME Types, CommandTypes, cmd.pos <= Len(list), HasWork(Ad)
  PROVE  cmd.pos \in DOMAIN list /\ Ad \in AdKinds /\ Ad.root \in Chain
<1>1. cmd.pos \in 1..Len(list) /\ list \in Seq(AdKinds)
  BY DEF CommandTypes
<1>2. list[cmd.pos] \in AdKinds
  BY <1>1, ElementOfSeq
<1>3. Len(chunks) \in Nat \ {0} /\ Chain = 1..Len(chunks)
  BY Numbers
<1> QED
  BY <1>1, <1>2, <1>3 DEF Ad, AdKinds, HasWork

(* What a step of a call does to the other state: nothing.                    *)
LEMMA StepEffect ==
  ASSUME Inv, Step
  PROVE  /\ chunks' = chunks /\ opts' = opts /\ before' = before /\ ~Idle
         /\ sync'.root = sync.root /\ iter'.root = iter.root
         /\ sync.pc = "idle" => sync' = sync
         /\ iter.pc = "idle" => iter' = iter
<1>1. sync \in Syncs /\ iter \in Iters /\ OneCall /\ SyncPosition /\ IterPosition
  BY DEF Inv, Types
<1>2. CASE sync.pc # "idle"
  <2>1. iter.pc = "idle" /\ iter.result = "none"
    BY <1>1, <1>2 DEF OneCall
  <2>2. chunks' = chunks /\ opts' = opts /\ before' = before /\ iter' = iter
    BY <2>1 DEF Step, Connect, ConnectFails, ReadChunk, DecodeFails, FetchChunk,
                FetchFails, ContentNotFound, Synced, NextChunk, NextEnd, NextFails, input
  <2>3. sync'.root = sync.root
    BY <1>1, <2>1 DEF Step, Connect, ConnectFails, ReadChunk, DecodeFails, FetchChunk,
                FetchFails, ContentNotFound, Synced, NextChunk, NextEnd, NextFails,
                Retry, Return, Syncs
  <2> QED
    BY <1>2, <2>1, <2>2, <2>3 DEF Idle
<1>3. CASE sync.pc = "idle"
  <2>1. NextChunk \/ NextEnd \/ NextFails
    BY <1>3 DEF Step, Connect, ConnectFails, ReadChunk, DecodeFails, FetchChunk,
                FetchFails, ContentNotFound, Synced, Walking
  <2>2. /\ chunks' = chunks /\ opts' = opts /\ before' = before /\ sync' = sync
        /\ iter.pc = "next"
    BY <2>1 DEF NextChunk, NextEnd, NextFails, input
  <2>3. iter'.root = iter.root
    BY <1>1, <2>1 DEF NextChunk, NextEnd, NextFails, DrainEnds, Iters
  <2> QED
    BY <2>2, <2>3 DEF Idle
<1> QED
  BY <1>2, <1>3

-----------------------------------------------------------------------------
LEMMA WorkingLoop ==
  ASSUME LoopInv, Working
  PROVE  LoopInv'
<1>1. Inv' /\ Step /\ UNCHANGED <<list, cmd, outcomes, kept>>
  BY StepInv DEF LoopInv, Working
<1>2. /\ chunks' = chunks /\ opts' = opts /\ before' = before /\ ~Idle
      /\ sync'.root = sync.root /\ iter'.root = iter.root
      /\ sync.pc = "idle" => sync' = sync
      /\ iter.pc = "idle" => iter' = iter
  BY <1>1, StepEffect DEF LoopInv
<1>3. CommandTypes'
  BY <1>1, <1>2 DEF LoopInv, CommandTypes, AdKinds, Chain
<1>4. InStep'
  BY <1>1, <1>2 DEF LoopInv, InStep, Ad, HasWork, Idle
<1> QED
  BY <1>1, <1>3, <1>4 DEF LoopInv

(* Between calls the client is left alone.                                    *)
LEMMA ClientSame ==
  ASSUME LoopInv, UNCHANGED entriesVars
  PROVE  Inv' /\ AdKinds' = AdKinds /\ Chain' = Chain
<1>1. UNCHANGED <<chunks, opts, stored, sync, iter, before, fetched, calls>>
  BY DEF entriesVars, vars, input
<1>2. Inv'
  BY NextInv DEF entriesVars, LoopInv
<1> QED
  BY <1>1, <1>2 DEF AdKinds, Chain

LEMMA AtRestLoop ==
  ASSUME LoopInv, UNCHANGED <<entriesVars, list>>,
         Idle, cmd'.pc \in {"ad", "done"}, CommandTypes'
  PROVE  LoopInv'
<1>1. Inv'
  BY ClientSame
<1>2. Idle' /\ sync'.pc = "idle" /\ iter'.pc = "idle"
  BY DEF entriesVars, vars, Idle
<1>3. InStep'
  BY <1>2 DEF InStep
<1> QED
  BY <1>1, <1>3 DEF LoopInv

LEMMA ContinueTypes ==
  ASSUME CommandTypes, Continue, cmd.pos <= Len(list), UNCHANGED list
  PROVE  cmd' \in Commands /\ cmd'.pos \in 1..(Len(list') + 1) /\ cmd'.pc = "ad"
         /\ cmd'.pos = cmd.pos + 1 /\ cmd'.result = cmd.result
<1>1. cmd.pos \in Nat /\ Len(list) \in Nat /\ cmd.pos >= 1 /\ cmd \in Commands
  <2>1. Len(list) \in Nat /\ cmd.pos \in 1..(Len(list) + 1) /\ cmd \in Commands
    BY DEF CommandTypes
  <2> QED
    BY <2>1
<1>2. cmd.pos + 1 \in Nat /\ cmd.pos + 1 \in 1..(Len(list) + 1)
  BY <1>1
<1> QED
  BY <1>1, <1>2 DEF Continue, Commands

LEMMA FinishTypes ==
  ASSUME CommandTypes, NEW result \in {"ok", "ad failed", "drain failed"},
         Finish(result), UNCHANGED list
  PROVE  cmd' \in Commands /\ cmd'.pos \in 1..(Len(list') + 1) /\ cmd'.pc = "done"
         /\ cmd'.pos = cmd.pos /\ cmd'.result = result
  BY DEF CommandTypes, Commands, Finish

LEMMA ShownTypes ==
  ASSUME Inv, CommandTypes
  PROVE  /\ NotSynced \in Outcomes
         /\ \A result : Shown(result) \in Outcomes
<1>1. cmd.pos \in Nat
  BY DEF CommandTypes, Commands
<1>2. iter.mhs \in SUBSET (Int \X Int) /\ iter.chunkCount \in Nat
  BY DEF Inv, Types, Iters
<1> QED
  BY <1>1, <1>2 DEF NotSynced, Shown, Outcomes

LEMMA AdFailsLoop ==
  ASSUME LoopInv, AdFails
  PROVE  LoopInv'
<1>1. Idle /\ UNCHANGED <<entriesVars, list, outcomes, kept>> /\ Finish("ad failed")
  BY DEF AdFails, LoopInv, InStep
<1>2. CommandTypes'
  BY <1>1, FinishTypes, ClientSame DEF LoopInv, CommandTypes
<1> QED
  BY <1>1, <1>2, AtRestLoop, FinishTypes DEF LoopInv

LEMMA LoopDoneLoop ==
  ASSUME LoopInv, LoopDone
  PROVE  LoopInv'
<1>1. Idle /\ UNCHANGED <<entriesVars, list, outcomes, kept>> /\ Finish("ok")
  BY DEF LoopDone, LoopInv, InStep
<1>2. CommandTypes'
  BY <1>1, FinishTypes, ClientSame DEF LoopInv, CommandTypes
<1> QED
  BY <1>1, <1>2, AtRestLoop, FinishTypes DEF LoopInv

LEMMA DrainErrorLoop ==
  ASSUME LoopInv, DrainError
  PROVE  LoopInv'
<1>1. Idle /\ UNCHANGED <<entriesVars, list, outcomes, kept>> /\ Finish("drain failed")
  BY DEF DrainError
<1>2. CommandTypes'
  BY <1>1, FinishTypes, ClientSame DEF LoopInv, CommandTypes
<1> QED
  BY <1>1, <1>2, AtRestLoop, FinishTypes DEF LoopInv

LEMMA SkipAdLoop ==
  ASSUME LoopInv, SkipAd
  PROVE  LoopInv'
<1>1. Idle /\ UNCHANGED <<entriesVars, list, outcomes, kept>> /\ Continue
      /\ cmd.pos <= Len(list)
  BY DEF SkipAd, LoopInv, InStep
<1>2. CommandTypes'
  BY <1>1, ContinueTypes, ClientSame DEF LoopInv, CommandTypes
<1> QED
  BY <1>1, <1>2, AtRestLoop, ContinueTypes DEF LoopInv

LEMMA SyncFailedLoop ==
  ASSUME LoopInv, SyncFailed
  PROVE  LoopInv'
<1>1. /\ Idle /\ UNCHANGED <<entriesVars, list>> /\ Continue
      /\ outcomes' = Append(outcomes, NotSynced) /\ kept' = kept \cup fetched
      /\ cmd.pos \in DOMAIN list
  BY DEF SyncFailed, LoopInv, InStep
<1>2. cmd.pos <= Len(list)
  BY <1>1 DEF LoopInv, CommandTypes
<1>3. outcomes' \in Seq(Outcomes)
  BY <1>1, ShownTypes DEF LoopInv, CommandTypes
<1>4. kept' \subseteq Chain'
  BY <1>1, ClientSame DEF LoopInv, CommandTypes, Inv, Types
<1>5. CommandTypes'
  BY <1>1, <1>2, <1>3, <1>4, ContinueTypes, ClientSame DEF LoopInv, CommandTypes
<1> QED
  BY <1>1, <1>2, <1>5, AtRestLoop, ContinueTypes DEF LoopInv

LEMMA ShowEntriesLoop ==
  ASSUME LoopInv, ShowEntries
  PROVE  LoopInv'
<1>1. /\ Idle /\ UNCHANGED <<entriesVars, list, kept>> /\ Continue
      /\ outcomes' = Append(outcomes, Shown(iter.result))
      /\ cmd.pos \in DOMAIN list
  BY DEF ShowEntries, LoopInv, InStep
<1>2. cmd.pos <= Len(list)
  BY <1>1 DEF LoopInv, CommandTypes
<1>3. outcomes' \in Seq(Outcomes)
  BY <1>1, ShownTypes DEF LoopInv, CommandTypes
<1>4. CommandTypes'
  BY <1>1, <1>2, <1>3, ContinueTypes, ClientSame DEF LoopInv, CommandTypes
<1> QED
  BY <1>1, <1>2, <1>4, AtRestLoop, ContinueTypes DEF LoopInv

LEMMA SyncAdLoop ==
  ASSUME LoopInv, SyncAd
  PROVE  LoopInv'
<1>1. /\ cmd.pc = "ad" /\ cmd.pos <= Len(list) /\ HasWork(Ad)
      /\ SyncEntriesWithRetry(Ad.root) /\ cmd' = [cmd EXCEPT !.pc = "sync"]
      /\ UNCHANGED <<list, outcomes, kept>>
  BY DEF SyncAd
<1>2. cmd.pos \in DOMAIN list /\ Ad.root \in Chain
  BY <1>1, WorkInChain DEF LoopInv, Inv
<1>3. Inv'
  BY <1>1, <1>2, SyncBegins DEF LoopInv
<1>4. /\ chunks' = chunks /\ iter'.result = "none" /\ iter'.pc = "idle"
      /\ sync'.root = Ad.root
  BY <1>1 DEF LoopInv, Inv, Types, Iters, SyncEntriesWithRetry, input, Idle
<1>5. cmd' \in Commands /\ cmd'.pos = cmd.pos /\ cmd'.pc = "sync"
  BY <1>1 DEF LoopInv, CommandTypes, Commands
<1>6. CommandTypes'
  BY <1>1, <1>4, <1>5 DEF LoopInv, CommandTypes, AdKinds, Chain
<1>7. InStep'
  BY <1>1, <1>2, <1>4, <1>5 DEF InStep, Ad, HasWork, Idle
<1> QED
  BY <1>3, <1>6, <1>7 DEF LoopInv

LEMMA DrainAdLoop ==
  ASSUME LoopInv, DrainAd
  PROVE  LoopInv'
<1>1. /\ cmd.pc = "sync" /\ Drain(Ad.root) /\ cmd' = [cmd EXCEPT !.pc = "drain"]
      /\ UNCHANGED <<list, outcomes, kept>>
  BY DEF DrainAd
<1>2. cmd.pos \in DOMAIN list /\ HasWork(Ad) /\ sync.root = Ad.root
  BY <1>1 DEF LoopInv, InStep
<1>3. Ad.root \in Chain
  BY <1>2 DEF LoopInv, Inv, SyncPosition
<1>4. Inv'
  BY <1>1, <1>3, DrainBegins DEF LoopInv
<1>5. /\ chunks' = chunks /\ iter'.result = "none" /\ iter'.root = Ad.root
      /\ sync'.pc = "idle"
  BY <1>1 DEF LoopInv, Inv, Types, Syncs, Drain, input, Idle
<1>6. cmd' \in Commands /\ cmd'.pos = cmd.pos /\ cmd'.pc = "drain"
  BY <1>1 DEF LoopInv, CommandTypes, Commands
<1>7. CommandTypes'
  BY <1>1, <1>5, <1>6 DEF LoopInv, CommandTypes, AdKinds, Chain
<1>8. InStep'
  BY <1>1, <1>2, <1>5, <1>6 DEF InStep, Ad, HasWork, Idle
<1> QED
  BY <1>4, <1>7, <1>8 DEF LoopInv

LEMMA LoopNext == LoopInv /\ [CommandNext]_allVars => LoopInv'
<1> SUFFICES ASSUME LoopInv, [CommandNext]_allVars PROVE LoopInv'
  OBVIOUS
<1>1. CASE Working
  BY <1>1, WorkingLoop
<1>2. CASE Command
  BY <1>2, AdFailsLoop, SkipAdLoop, SyncAdLoop, SyncFailedLoop, DrainAdLoop,
     ShowEntriesLoop, DrainErrorLoop, LoopDoneLoop DEF Command
<1>3. CASE UNCHANGED allVars
  <2>1. UNCHANGED <<list, cmd, outcomes, kept>> /\ UNCHANGED entriesVars
    BY <1>3 DEF allVars, entriesVars
  <2>2. Inv' /\ AdKinds' = AdKinds /\ Chain' = Chain
    BY <2>1, ClientSame
  <2>3. CommandTypes'
    BY <2>1, <2>2 DEF LoopInv, CommandTypes
  <2>4. InStep'
    BY <2>1 DEF LoopInv, InStep, entriesVars, vars, Ad, HasWork, Idle
  <2> QED
    BY <2>2, <2>3, <2>4 DEF LoopInv
<1> QED
  BY <1>1, <1>2, <1>3 DEF CommandNext, Done

LEMMA LoopHolds == CommandSpec => []LoopInv
  BY LoopInit, LoopNext, PTL DEF CommandSpec

(* Types of the loop, and that it is in step with the call it waits for.      *)
THEOREM CommandTypeCorrect == CommandSpec => []CommandTypeOK
<1>1. Inv => TypeOK
  BY InvTypes
<1>2. LoopInv => CommandTypeOK
  BY <1>1 DEF LoopInv, CommandTypes, InStep, CommandTypeOK, Commands
<1> QED
  BY <1>2, LoopHolds, PTL

(* The commands call the client as EntriesSync says it may be called, one     *)
(* call at a time and for chunks of the chain only: whatever is proved of the *)
(* client holds for them.                                                     *)
THEOREM CommandUsesClient == CommandSpec => Spec
<1>1. CommandInit => Init
  BY DEF CommandInit
<1>2. LoopInv /\ [CommandNext]_allVars => [Next]_vars
  <2> SUFFICES ASSUME LoopInv, [CommandNext]_allVars PROVE [Next]_vars
    OBVIOUS
  <2>1. CASE Working
    BY <2>1 DEF Working, Next
  <2>2. CASE SyncAd
    <3>1. Ad.root \in Chain /\ SyncEntriesWithRetry(Ad.root)
      BY <2>2, WorkInChain DEF SyncAd, LoopInv, Inv
    <3> QED
      BY <3>1 DEF Next
  <2>3. CASE DrainAd
    <3>1. Ad.root \in Chain /\ Drain(Ad.root)
      BY <2>3 DEF DrainAd, LoopInv, InStep, Inv, SyncPosition
    <3> QED
      BY <3>1 DEF Next
  <2>4. CASE AdFails \/ SkipAd \/ SyncFailed \/ ShowEntries \/ DrainError \/ LoopDone
    BY <2>4 DEF AdFails, SkipAd, SyncFailed, ShowEntries, DrainError, LoopDone, entriesVars
  <2>5. CASE UNCHANGED allVars
    BY <2>5 DEF allVars
  <2> QED
    BY <2>1, <2>2, <2>3, <2>4, <2>5 DEF CommandNext, Command, Done
<1> QED
  BY <1>1, <1>2, LoopHolds, PTL DEF CommandSpec, Spec

-----------------------------------------------------------------------------
(* The outcomes are those of the ads with entries behind the one the loop is  *)
(* at, in order.                                                              *)
Pos(i) == outcomes[i].pos
TriedInOrder ==
  /\ \A i \in DOMAIN outcomes :
       Pos(i) \in DOMAIN list /\ Pos(i) < cmd.pos /\ HasWork(list[Pos(i)])
  /\ \A i, j \in DOMAIN outcomes : i < j => Pos(i) < Pos(j)
  /\ \A p \in DOMAIN list : p < cmd.pos /\ HasWork(list[p]) => \E i \in DOMAIN outcomes : Pos(i) = p
  /\ cmd.result = "ok" => cmd.pc = "done" /\ cmd.pos > Len(list)

LEMMA TriedInit == CommandInit => TriedInOrder
<1> SUFFICES ASSUME CommandInit PROVE TriedInOrder
  OBVIOUS
<1>1. DOMAIN outcomes = {} /\ cmd.pos = 1 /\ cmd.result = "none"
  BY DEF CommandInit
<1>2. PICK n \in 1..MaxAds : list \in [1..n -> AdKinds]
  BY DEF CommandInit
<1>3. \A p \in DOMAIN list : ~(p < 1)
  BY <1>2, CallsAssumption
<1> QED
  BY <1>1, <1>3 DEF TriedInOrder

LEMMA PosType ==
  ASSUME outcomes \in Seq(Outcomes)
  PROVE  \A i \in DOMAIN outcomes : Pos(i) \in Nat
<1> SUFFICES ASSUME NEW i \in DOMAIN outcomes PROVE Pos(i) \in Nat
  OBVIOUS
<1>1. outcomes[i] \in Outcomes
  BY ElementOfSeq
<1> QED
  BY <1>1 DEF Outcomes, Pos

(* One more outcome, of the ad the loop is at.                                *)
LEMMA TriedAppend ==
  ASSUME LoopInv, TriedInOrder, NEW o \in Outcomes, o.pos = cmd.pos,
         outcomes' = Append(outcomes, o), UNCHANGED list, Continue,
         cmd.pos \in DOMAIN list, HasWork(Ad), cmd.pc # "done"
  PROVE  TriedInOrder'
<1>1. outcomes \in Seq(Outcomes) /\ list \in Seq(AdKinds) /\ cmd.pos <= Len(list)
  BY DEF LoopInv, CommandTypes
<1>2. cmd'.pos = cmd.pos + 1 /\ cmd'.result = cmd.result /\ cmd.pos \in Nat
  BY <1>1, ContinueTypes DEF LoopInv, CommandTypes, Commands
<1>3. PICK n \in Nat :
        /\ DOMAIN outcomes = 1..n /\ DOMAIN outcomes' = (1..n) \cup {n + 1}
        /\ \A i \in 1..n : outcomes'[i] = outcomes[i]
        /\ outcomes'[n + 1] = o
  <2>1. Len(outcomes) \in Nat /\ DOMAIN outcomes = 1..Len(outcomes)
    BY <1>1
  <2>2. /\ Len(outcomes') = Len(outcomes) + 1 /\ outcomes' \in Seq(Outcomes)
        /\ \A i \in 1..Len(outcomes) : outcomes'[i] = outcomes[i]
        /\ outcomes'[Len(outcomes) + 1] = o
    BY <1>1, AppendProperties
  <2>3. DOMAIN outcomes' = (1..Len(outcomes)) \cup {Len(outcomes) + 1}
    BY <2>1, <2>2
  <2> QED
    BY <2>1, <2>2, <2>3
<1>4. \A i \in DOMAIN outcomes : Pos(i) \in Nat
  BY <1>1, PosType
<1>5. /\ \A i \in DOMAIN outcomes : Pos(i)' = Pos(i)
      /\ Pos(n + 1)' = cmd.pos
  BY <1>3 DEF Pos
<1>6. DOMAIN outcomes' = DOMAIN outcomes \cup {n + 1}
  BY <1>3
<1>7. ASSUME NEW i \in DOMAIN outcomes'
      PROVE  Pos(i)' \in DOMAIN list /\ Pos(i)' < cmd'.pos /\ HasWork(list[Pos(i)'])
  <2>1. CASE i \in DOMAIN outcomes
    <3>1. Pos(i)' = Pos(i) /\ Pos(i) \in Nat /\ Pos(i) < cmd.pos
          /\ Pos(i) \in DOMAIN list /\ HasWork(list[Pos(i)])
      BY <1>4, <1>5, <2>1 DEF TriedInOrder
    <3>2. \A k \in Nat : k < cmd.pos => k < cmd.pos + 1
      BY <1>2
    <3> QED
      BY <1>2, <3>1, <3>2, Zenon
  <2>2. CASE i = n + 1
    <3>1. cmd.pos < cmd.pos + 1
      BY <1>2
    <3> QED
      BY <1>2, <1>5, <2>2, <3>1, Zenon DEF Ad
  <2> QED
    BY <1>6, <2>1, <2>2
<1>8. ASSUME NEW i \in DOMAIN outcomes', NEW j \in DOMAIN outcomes', i < j
      PROVE  Pos(i)' < Pos(j)'
  <2>1. i \in DOMAIN outcomes
    BY <1>3, <1>8
  <2>2. CASE j \in DOMAIN outcomes
    BY <1>5, <1>8, <2>1, <2>2, Zenon DEF TriedInOrder
  <2>3. CASE j = n + 1
    BY <1>5, <2>1, <2>3, Zenon DEF TriedInOrder
  <2> QED
    BY <1>6, <2>2, <2>3
<1>9. ASSUME NEW p \in DOMAIN list, p < cmd'.pos, HasWork(list[p])
      PROVE  \E i \in DOMAIN outcomes' : Pos(i)' = p
  <2>1. p < cmd.pos \/ p = cmd.pos
    <3>1. p \in Nat /\ p < cmd.pos + 1
      BY <1>1, <1>2, <1>9
    <3> QED
      BY <1>2, <3>1
  <2>2. CASE p < cmd.pos
    <3>1. PICK i \in DOMAIN outcomes : Pos(i) = p
      BY <1>9, <2>2 DEF TriedInOrder
    <3> QED
      BY <1>5, <1>6, <3>1, Zenon
  <2>3. CASE p = cmd.pos
    BY <1>5, <1>6, <2>3, Zenon
  <2> QED
    BY <2>1, <2>2, <2>3
<1>10. cmd'.result # "ok"
  BY <1>2 DEF TriedInOrder
<1>11. DOMAIN list' = DOMAIN list /\ \A p : HasWork(list[p])' <=> HasWork(list[p])
  BY DEF HasWork
<1> QED
  BY <1>7, <1>8, <1>9, <1>10, <1>11, Zenon DEF TriedInOrder, HasWork

LEMMA TriedNext ==
  LoopInv /\ TriedInOrder /\ [CommandNext]_allVars => TriedInOrder'
<1> SUFFICES ASSUME LoopInv, TriedInOrder, [CommandNext]_allVars PROVE TriedInOrder'
  OBVIOUS
<1>1. CASE SyncFailed
  <2>1. cmd.pc = "sync" /\ outcomes' = Append(outcomes, NotSynced) /\ list' = list /\ Continue
    BY <1>1 DEF SyncFailed
  <2>2. NotSynced \in Outcomes /\ NotSynced.pos = cmd.pos
    BY ShownTypes DEF LoopInv, NotSynced
  <2>3. cmd.pos \in DOMAIN list /\ HasWork(Ad)
    BY <2>1 DEF LoopInv, InStep
  <2> QED
    BY <2>1, <2>2, <2>3, TriedAppend
<1>2. CASE ShowEntries
  <2>1. cmd.pc = "drain" /\ outcomes' = Append(outcomes, Shown(iter.result))
        /\ list' = list /\ Continue
    BY <1>2 DEF ShowEntries
  <2>2. Shown(iter.result) \in Outcomes /\ Shown(iter.result).pos = cmd.pos
    BY ShownTypes DEF LoopInv, Shown
  <2>3. cmd.pos \in DOMAIN list /\ HasWork(Ad)
    BY <2>1 DEF LoopInv, InStep
  <2> QED
    BY <2>1, <2>2, <2>3, TriedAppend
<1>3. CASE SkipAd
  <2>1. cmd.pc = "ad" /\ cmd.pos <= Len(list) /\ ~HasWork(Ad) /\ Continue
        /\ outcomes' = outcomes /\ list' = list
    BY <1>3 DEF SkipAd
  <2>2. cmd'.pos = cmd.pos + 1 /\ cmd'.result = cmd.result /\ cmd.pos \in Nat
        /\ list \in Seq(AdKinds)
    BY <2>1, ContinueTypes DEF LoopInv, CommandTypes, Commands
  <2>3. outcomes \in Seq(Outcomes)
    BY DEF LoopInv, CommandTypes
  <2>4. \A i \in DOMAIN outcomes : Pos(i) \in Nat
    BY <2>3, PosType
  <2>5. \A i \in DOMAIN outcomes : Pos(i) < cmd.pos + 1
    BY <2>2, <2>4 DEF TriedInOrder
  <2>6. \A p \in DOMAIN list : p < cmd.pos + 1 => p < cmd.pos \/ p = cmd.pos
    BY <2>2
  <2> QED
    BY <2>1, <2>2, <2>5, <2>6 DEF TriedInOrder, Pos, HasWork, Ad
<1>4. CASE LoopDone
  <2>1. cmd.pc = "ad" /\ cmd.pos > Len(list) /\ Finish("ok")
        /\ outcomes' = outcomes /\ list' = list
    BY <1>4 DEF LoopDone
  <2>2. cmd'.pos = cmd.pos /\ cmd'.pc = "done"
    BY <2>1, FinishTypes DEF LoopInv
  <2> QED
    BY <2>1, <2>2 DEF TriedInOrder, Pos, HasWork
<1>5. CASE AdFails \/ DrainError
  <2>1. outcomes' = outcomes /\ list' = list
        /\ (Finish("ad failed") \/ Finish("drain failed"))
    BY <1>5 DEF AdFails, DrainError
  <2>2. cmd'.pos = cmd.pos /\ cmd'.result # "ok"
    BY <2>1, FinishTypes DEF LoopInv
  <2> QED
    BY <2>1, <2>2 DEF TriedInOrder, Pos, HasWork
<1>6. CASE SyncAd \/ DrainAd
  <2>1. outcomes' = outcomes /\ list' = list /\ cmd.pc \in {"ad", "sync"}
        /\ (cmd' = [cmd EXCEPT !.pc = "sync"] \/ cmd' = [cmd EXCEPT !.pc = "drain"])
    BY <1>6 DEF SyncAd, DrainAd
  <2>2. cmd'.pos = cmd.pos /\ cmd'.result = cmd.result
    BY <2>1 DEF LoopInv, CommandTypes, Commands
  <2> QED
    BY <2>1, <2>2 DEF TriedInOrder, Pos, HasWork
<1>7. CASE Working \/ UNCHANGED allVars
  <2>1. outcomes' = outcomes /\ list' = list /\ cmd' = cmd
    BY <1>7 DEF Working, allVars
  <2> QED
    BY <2>1 DEF TriedInOrder, Pos, HasWork
<1> QED
  BY <1>1, <1>2, <1>3, <1>4, <1>5, <1>6, <1>7 DEF CommandNext, Command, Done

(* A command that ends without an error has tried the entries of every ad     *)
(* that has some, in the order of the list and once, however many of them     *)
(* could not be synced.                                                       *)
THEOREM OkTriesEveryAd == CommandSpec => []OkMeansAllTried
<1>1. LoopInv /\ TriedInOrder => OkMeansAllTried
  <2> SUFFICES ASSUME LoopInv, TriedInOrder PROVE OkMeansAllTried
    OBVIOUS
  <2> DEFINE tried == [i \in DOMAIN outcomes |-> outcomes[i].pos]
  <2>1. DOMAIN tried = DOMAIN outcomes /\ \A i \in DOMAIN outcomes : tried[i] = Pos(i)
    BY DEF Pos
  <2>2. list \in Seq(AdKinds) /\ cmd.pos \in Nat
    BY DEF LoopInv, CommandTypes, Commands
  <2>3. \A p \in DOMAIN list : cmd.pos > Len(list) => p < cmd.pos
    BY <2>2
  <2> HIDE DEF tried
  <2>4. \A i, j \in DOMAIN tried : i < j => tried[i] < tried[j]
    BY <2>1 DEF TriedInOrder
  <2>5. ASSUME cmd.result = "ok"
        PROVE  {p \in DOMAIN list : HasWork(list[p])} = {tried[i] : i \in DOMAIN tried}
    <3>1. \A p \in DOMAIN list : HasWork(list[p]) => \E i \in DOMAIN outcomes : Pos(i) = p
      BY <2>3, <2>5 DEF TriedInOrder
    <3>2. \A i \in DOMAIN outcomes : Pos(i) \in DOMAIN list /\ HasWork(list[Pos(i)])
      BY DEF TriedInOrder
    <3> QED
      BY <2>1, <3>1, <3>2
  <2> QED
    BY <2>4, <2>5 DEF OkMeansAllTried, tried
<1>2. CommandSpec => []TriedInOrder
  BY TriedInit, TriedNext, LoopHolds, PTL DEF CommandSpec
<1> QED
  BY <1>1, <1>2, LoopHolds, PTL

-----------------------------------------------------------------------------
(* The drain of an ad begins with everything stored that the ad asked for.    *)
AskedStored ==
  cmd.pc = "drain" =>
    \A k \in Asked(iter.root) :
      (\A j \in iter.root..k : ~Broken(j)) => k \in before

LEMMA AskedNext ==
  LoopInv /\ AskedStored /\ [CommandNext]_allVars => AskedStored'
<1> SUFFICES ASSUME LoopInv, AskedStored, [CommandNext]_allVars, cmd'.pc = "drain"
             PROVE  AskedStored'
  BY DEF AskedStored
<1>1. cmd \in Commands /\ CommandTypes
  BY DEF LoopInv, CommandTypes
<1>2. CASE DrainAd
  <2>1. /\ sync.result = "ok" /\ Drain(Ad.root) /\ sync.root = Ad.root
    BY <1>2 DEF DrainAd, LoopInv, InStep
  <2>2. iter'.root = sync.root /\ before' = stored /\ chunks' = chunks /\ opts' = opts
    BY <2>1 DEF Drain, input
  <2>3. \A k \in Asked(sync.root) : (\A j \in sync.root..k : ~Broken(j)) => k \in stored
    BY <2>1 DEF LoopInv, Inv, SyncedAll
  <2> QED
    BY <2>2, <2>3 DEF AskedStored, Asked, Broken, Chain
<1>3. CASE Working
  <2>1. cmd' = cmd /\ chunks' = chunks /\ opts' = opts /\ before' = before
        /\ iter'.root = iter.root
    BY <1>3, StepEffect DEF Working, LoopInv
  <2> QED
    BY <2>1 DEF AskedStored, Asked, Broken, Chain
<1>4. CASE SyncAd
  BY <1>1, <1>4 DEF SyncAd, Commands
<1>5. CASE AdFails \/ SkipAd \/ SyncFailed \/ ShowEntries \/ DrainError \/ LoopDone
  BY <1>1, <1>5 DEF AdFails, SkipAd, SyncFailed, ShowEntries, DrainError, LoopDone,
     Continue, Finish, Commands
<1>6. CASE UNCHANGED allVars
  BY <1>6 DEF allVars, vars, input, AskedStored, Asked, Broken, Chain
<1> QED
  BY <1>2, <1>3, <1>4, <1>5, <1>6 DEF CommandNext, Command, Done

(* A sync, which has no retries here, goes on from its root, and what the     *)
(* store holds was asked for, by the ad the loop is at or one before.         *)
StoreAsked ==
  /\ sync.pc # "idle" => sync.id = sync.root
  /\ stored \cup before \subseteq AskedUpTo(cmd.pos)

LEMMA AskedGrows ==
  ASSUME CommandTypes
  PROVE  AskedUpTo(cmd.pos) \subseteq AskedUpTo(cmd.pos + 1)
<1>1. cmd.pos \in Nat
  BY DEF CommandTypes, Commands
<1>2. \A q \in Nat : q <= cmd.pos => q <= cmd.pos + 1
  BY <1>1
<1>0. DOMAIN list \subseteq Nat
  <2>1. Len(list) \in Nat /\ DOMAIN list = 1..Len(list)
    BY DEF CommandTypes
  <2> QED
    BY <2>1
<1>3. \A q \in DOMAIN list : q <= cmd.pos => q <= cmd.pos + 1
  BY <1>0, <1>2, Zenon
<1> QED
  BY <1>3 DEF AskedUpTo

LEMMA AskedNow ==
  ASSUME LoopInv, cmd.pc \in {"sync", "drain"}
  PROVE  Asked(Ad.root) \subseteq AskedUpTo(cmd.pos)
<1>1. cmd.pos \in DOMAIN list /\ HasWork(list[cmd.pos])
  BY DEF LoopInv, InStep, Ad
<1>2. cmd.pos \in Nat
  BY DEF LoopInv, CommandTypes, Commands
<1>3. cmd.pos <= cmd.pos
  BY <1>2
<1> QED
  BY <1>1, <1>3 DEF AskedUpTo, Ad

(* An attempt that fails is the last.                                         *)
LEMMA NoRetry ==
  ASSUME Inv, Retry
  PROVE  sync'.pc = "idle"
<1>1. sync \in Syncs /\ sync.attempt \in Nat /\ sync.attempt <= opts.retry /\ opts.retry = 0
  BY CallsAssumption DEF Inv, Types, Syncs
<1>2. sync.attempt = opts.retry
  BY <1>1
<1> QED
  BY <1>1, <1>2 DEF Retry, Return, Syncs

(* What a step of a call adds to the store is within the limit of its ad.     *)
LEMMA StepAsked ==
  ASSUME LoopInv, StoreAsked, Step
  PROVE  /\ sync'.pc # "idle" => sync'.id = sync'.root
         /\ stored' \subseteq AskedUpTo(cmd.pos)
<1>1. sync \in Syncs /\ Inv /\ SyncPosition
  BY DEF LoopInv, Inv, Types
<1>2. ASSUME sync'.pc # "idle" PROVE sync'.id = sync'.root
  <2>1. sync.pc # "idle"
    BY <1>1, <1>2, StepEffect
  <2>2. ~Retry
    BY <1>1, <1>2, NoRetry
  <2>3. sync'.id = sync.id /\ sync'.root = sync.root
    BY <1>1, <2>2 DEF Step, Connect, ConnectFails, ReadChunk, DecodeFails, FetchChunk,
       FetchFails, ContentNotFound, Synced, Return, NextChunk, NextEnd, NextFails, Syncs
  <2> QED
    BY <2>1, <2>3 DEF StoreAsked
<1>3. CASE FetchChunk
  <2>1. /\ sync.pc = "walk" /\ sync.at \in Chain /\ ~(sync.limit > 0 /\ sync.left = 0)
        /\ stored' = stored \cup {sync.at}
    BY <1>3 DEF FetchChunk, Walking
  <2>2. cmd.pc = "sync" /\ sync.root = Ad.root
    BY <2>1 DEF LoopInv, InStep
  <2>3. /\ sync.id = sync.root /\ sync.limit = opts.depth - (sync.id - sync.root)
        /\ sync.id <= sync.at /\ sync.left = sync.limit - (sync.at - sync.id)
        /\ sync.limit > 0 => sync.left >= 0
    BY <1>1, <2>1 DEF SyncPosition, StoreAsked
  <2>4. /\ opts.depth \in Nat /\ sync.root \in Nat /\ sync.at \in Nat
    <3>1. Chain = 1..Len(chunks) /\ Len(chunks) \in Nat /\ opts.depth \in Nat
      BY <1>1, Numbers DEF Inv
    <3> QED
      BY <1>1, <2>1, <3>1 DEF Syncs
  <2>5. sync.at \in Asked(sync.root)
    <3>1. PICK r \in Nat, a \in Nat, d \in Nat : r = sync.root /\ a = sync.at /\ d = opts.depth
      BY <2>4
    <3>2. sync.limit = d - (r - r) /\ sync.left = sync.limit - (a - r) /\ r <= a
      BY <2>3, <3>1
    <3>3. d = 0 \/ a < r + d
      BY <2>1, <2>3, <3>1, <3>2
    <3> QED
      BY <2>1, <3>1, <3>2, <3>3 DEF Asked
  <2>6. sync.at \in AskedUpTo(cmd.pos)
    BY <2>2, <2>5, AskedNow
  <2> QED
    BY <1>2, <2>1, <2>6 DEF StoreAsked
<1>4. CASE ~FetchChunk
  <2>1. stored' \subseteq stored
    BY <1>4 DEF Step, Connect, ConnectFails, ReadChunk, DecodeFails,
       FetchFails, ContentNotFound, Synced, NextChunk, NextEnd, NextFails
  <2> QED
    BY <1>2, <2>1 DEF StoreAsked
<1> QED
  BY <1>3, <1>4

LEMMA StoreAskedNext ==
  LoopInv /\ StoreAsked /\ [CommandNext]_allVars => StoreAsked'
<1> SUFFICES ASSUME LoopInv, StoreAsked, [CommandNext]_allVars PROVE StoreAsked'
  OBVIOUS
<1>1. chunks' = chunks /\ opts' = opts /\ list' = list
  BY StepEffect DEF LoopInv, CommandNext, Command, Done, Working, AdFails, SkipAd, SyncAd,
     SyncFailed, DrainAd, ShowEntries, DrainError, LoopDone, SyncEntriesWithRetry, Drain,
     entriesVars, allVars, vars, input
<1>2. AskedUpTo(cmd.pos)' = AskedUpTo(cmd'.pos)
  BY <1>1 DEF AskedUpTo, Asked, HasWork, Chain
<1>3. CASE Working
  <2>1. before' = before /\ cmd' = cmd
    BY <1>3, StepEffect DEF LoopInv, Working
  <2>2. /\ sync'.pc # "idle" => sync'.id = sync'.root
        /\ stored' \subseteq AskedUpTo(cmd.pos)
    BY <1>3, StepAsked DEF Working
  <2> QED
    BY <1>2, <2>1, <2>2 DEF StoreAsked
<1>4. CASE SyncAd
  <2>1. /\ sync'.id = sync'.root /\ before' = stored /\ stored' = stored
        /\ cmd' = [cmd EXCEPT !.pc = "sync"]
    BY <1>4 DEF SyncAd, SyncEntriesWithRetry
  <2>2. cmd'.pos = cmd.pos
    BY <2>1 DEF LoopInv, CommandTypes, Commands
  <2> QED
    BY <1>2, <2>1, <2>2 DEF StoreAsked
<1>5. CASE DrainAd
  <2>1. /\ sync' = [sync EXCEPT !.result = "none"] /\ sync.pc = "idle"
        /\ before' = stored /\ stored' = stored /\ cmd' = [cmd EXCEPT !.pc = "drain"]
    BY <1>5 DEF DrainAd, Drain, Idle
  <2>2. cmd'.pos = cmd.pos /\ sync'.pc = "idle"
    BY <2>1 DEF LoopInv, CommandTypes, Commands, Inv, Types, Syncs
  <2> QED
    BY <1>2, <2>1, <2>2 DEF StoreAsked
<1>6. ASSUME UNCHANGED <<sync, stored, before>>,
             cmd'.pos = cmd.pos \/ cmd'.pos = cmd.pos + 1
      PROVE  StoreAsked'
  BY <1>2, <1>6, AskedGrows DEF StoreAsked, LoopInv
<1>7. CASE SkipAd \/ SyncFailed \/ ShowEntries
  <2>1. UNCHANGED <<sync, stored, before>> /\ Continue
    BY <1>7 DEF SkipAd, SyncFailed, ShowEntries, entriesVars, vars
  <2>2. cmd'.pos = cmd.pos + 1
    BY <2>1 DEF Continue, LoopInv, CommandTypes, Commands
  <2> QED
    BY <1>6, <2>1, <2>2
<1>8. CASE AdFails \/ DrainError \/ LoopDone
  <2>1. UNCHANGED <<sync, stored, before>> /\ \E result : Finish(result)
    BY <1>8 DEF AdFails, DrainError, LoopDone, entriesVars, vars
  <2>2. cmd'.pos = cmd.pos
    BY <2>1 DEF Finish, LoopInv, CommandTypes, Commands
  <2> QED
    BY <1>6, <2>1, <2>2
<1>9. CASE UNCHANGED allVars
  BY <1>6, <1>9 DEF allVars, vars
<1> QED
  BY <1>3, <1>4, <1>5, <1>7, <1>8, <1>9 DEF CommandNext, Command, Done

(* What is shown of an ad: what the drain has read of its chain, the note     *)
(* that tells how it has ended, never less than the ad asked for, and nothing *)
(* that neither it nor an ad before it has asked for.                         *)
LEMMA ShownIsRight ==
  ASSUME LoopInv, AskedStored, StoreAsked, ShowEntries, NEW o, o = Shown(iter.result)
  PROVE  /\ o.mhs = MhsOf(Root(o), LastShown(o))
         /\ o.note => LastShown(o) < Len(chunks)
         /\ ~o.note => LastShown(o) = Len(chunks) \/ chunks[LastShown(o)] = 0
         /\ \A k \in Asked(Root(o)) :
              (\A j \in Root(o)..k : chunks[j] > 0)
                => {k} \X (1..chunks[k]) \subseteq o.mhs
         /\ Root(o)..LastShown(o) \subseteq AskedUpTo(o.pos)
<1>1. /\ Len(chunks) \in Nat \ {0} /\ Chain = 1..Len(chunks)
      /\ End = Len(chunks) + 1 /\ opts.depth \in Nat
      /\ \A k \in Chain : chunks[k] \in Int
  BY Numbers DEF LoopInv, Inv
<1>2. cmd.pc = "drain" /\ iter.pc = "idle" /\ iter.result \in {"eof", "not found"}
  BY DEF ShowEntries, Idle
<1>3. /\ iter.root = Ad.root /\ iter.root \in Chain /\ iter.next \in 1..End
      /\ iter.root <= iter.next /\ iter.chunkCount = iter.next - iter.root
      /\ iter.root \in Nat /\ iter.next \in Nat
  BY <1>2 DEF LoopInv, Inv, Types, Iters, InStep, IterPosition
<1>4. /\ iter.mhs = MhsOf(iter.root, iter.next - 1)
      /\ iter.result = "not found" => iter.next \in Chain \ before
      /\ iter.result = "eof" =>
           iter.next = End \/ (iter.next > iter.root /\ chunks[iter.next - 1] = 0)
  BY <1>2 DEF LoopInv, Inv, DrainExact
<1>5. /\ Root(o) = iter.root /\ o.mhs = iter.mhs /\ o.note = (iter.result = "not found")
      /\ o.chunkCount = iter.chunkCount
  BY <1>3 DEF Shown, Root, Ad
<1>6. LastShown(o) = iter.next - 1
  <2>1. iter.root + (iter.next - iter.root) - 1 = iter.next - 1
    BY <1>3
  <2> QED
    BY <1>3, <1>5, <2>1, Zenon DEF LastShown
<1>7. o.note => iter.next - 1 < Len(chunks)
  <2>1. ASSUME iter.result = "not found" PROVE iter.next - 1 < Len(chunks)
    <3>1. iter.next \in 1..Len(chunks)
      BY <1>1, <1>4, <2>1
    <3> QED
      BY <1>1, <3>1
  <2> QED
    BY <1>5, <2>1, Zenon
<1>8. ~o.note => iter.next - 1 = Len(chunks) \/ chunks[iter.next - 1] = 0
  <2>1. iter.result = "eof" => iter.next - 1 = Len(chunks) \/ chunks[iter.next - 1] = 0
    BY <1>1, <1>3, <1>4
  <2> QED
    BY <1>2, <1>5, <2>1, Zenon
<1>9. ASSUME NEW k \in Asked(iter.root), \A j \in iter.root..k : chunks[j] > 0
      PROVE  {k} \X (1..chunks[k]) \subseteq iter.mhs
  <2>1. k \in Chain /\ k >= iter.root /\ (opts.depth = 0 \/ k < iter.root + opts.depth)
    BY DEF Asked
  <2>2. k < iter.next
    <3>1. SUFFICES ASSUME k >= iter.next PROVE FALSE
      BY <1>1, <1>3, <2>1
    <3>2. CASE iter.result = "eof"
      <4>1. iter.next > iter.root /\ chunks[iter.next - 1] = 0
        BY <1>1, <1>4, <2>1, <3>1, <3>2
      <4>2. iter.next - 1 \in iter.root..k
        BY <1>1, <1>3, <2>1, <3>1, <4>1
      <4>3. chunks[iter.next - 1] > 0
        BY <1>9, <4>2
      <4> QED
        BY <4>1, <4>3
    <3>3. CASE iter.result = "not found"
      <4>1. iter.next \in Chain \ before
        BY <1>4, <3>3
      <4>2. iter.next \in Asked(iter.root)
        BY <1>1, <1>3, <2>1, <3>1, <4>1 DEF Asked
      <4>3. ASSUME NEW j \in iter.root..iter.next PROVE ~Broken(j)
        <5>1. j \in iter.root..k
          BY <1>1, <1>3, <2>1, <3>1
        <5>2. chunks[j] > 0
          BY <1>9, <5>1
        <5> QED
          BY <5>2 DEF Broken, Bad
      <4> QED
        BY <1>2, <4>1, <4>2, <4>3 DEF AskedStored
    <3> QED
      BY <1>2, <3>2, <3>3
  <2>3. k \in iter.root..(iter.next - 1)
    BY <1>1, <1>3, <2>1, <2>2
  <2> QED
    BY <1>4, <2>3 DEF MhsOf
<1>10. Root(o)..LastShown(o) \subseteq AskedUpTo(o.pos)
  <2>1. iter.root..(iter.next - 1) \subseteq before
    BY <1>2 DEF LoopInv, Inv, DrainExact
  <2>2. o.pos = cmd.pos
    BY DEF Shown
  <2> QED
    BY <1>5, <1>6, <2>1, <2>2, Zenon DEF StoreAsked
<1> QED
  BY <1>4, <1>5, <1>6, <1>7, <1>8, <1>9, <1>10

LEMMA ShowsAppend ==
  ASSUME outcomes \in Seq(Outcomes), NEW o \in Outcomes, outcomes' = Append(outcomes, o)
  PROVE  Shows' \subseteq Shows \cup {o} /\ (~o.synced => Shows' \subseteq Shows)
<1>1. PICK n \in Nat :
        /\ DOMAIN outcomes = 1..n /\ DOMAIN outcomes' = (1..n) \cup {n + 1}
        /\ \A i \in 1..n : outcomes'[i] = outcomes[i]
        /\ outcomes'[n + 1] = o
  <2>1. Len(outcomes) \in Nat /\ DOMAIN outcomes = 1..Len(outcomes)
    OBVIOUS
  <2>2. /\ Len(outcomes') = Len(outcomes) + 1 /\ outcomes' \in Seq(Outcomes)
        /\ \A i \in 1..Len(outcomes) : outcomes'[i] = outcomes[i]
        /\ outcomes'[Len(outcomes) + 1] = o
    BY AppendProperties
  <2>3. DOMAIN outcomes' = (1..Len(outcomes)) \cup {Len(outcomes) + 1}
    BY <2>1, <2>2
  <2> QED
    BY <2>1, <2>2, <2>3
<1> QED
  BY <1>1 DEF Shows

LEMMA ShownNext ==
  LoopInv /\ AskedStored /\ StoreAsked /\ NoteMeansMore /\ ListsUpToLimit
    /\ [CommandNext]_allVars => NoteMeansMore' /\ ListsUpToLimit'
<1> SUFFICES ASSUME LoopInv, AskedStored, StoreAsked, NoteMeansMore, ListsUpToLimit,
                    [CommandNext]_allVars
             PROVE  NoteMeansMore' /\ ListsUpToLimit'
  OBVIOUS
<1>1. chunks' = chunks /\ opts' = opts /\ list' = list
  BY StepEffect DEF LoopInv, CommandNext, Command, Done, Working, AdFails, SkipAd, SyncAd,
     SyncFailed, DrainAd, ShowEntries, DrainError, LoopDone, SyncEntriesWithRetry, Drain,
     entriesVars, allVars, vars, input
<1> DEFINE Right(o) ==
      /\ o.mhs = MhsOf(Root(o), LastShown(o))
      /\ o.note => LastShown(o) < Len(chunks)
      /\ ~o.note => LastShown(o) = Len(chunks) \/ chunks[LastShown(o)] = 0
      /\ \A k \in Asked(Root(o)) :
           (\A j \in Root(o)..k : chunks[j] > 0)
             => {k} \X (1..chunks[k]) \subseteq o.mhs
      /\ Root(o)..LastShown(o) \subseteq AskedUpTo(o.pos)
<1>2. \A o \in Shows : Right(o)
  BY DEF NoteMeansMore, ListsUpToLimit
<1>3. \A o \in Shows' : Right(o)
  <2>1. outcomes \in Seq(Outcomes)
    BY DEF LoopInv, CommandTypes
  <2>2. CASE ShowEntries
    <3>1. Shown(iter.result) \in Outcomes /\ outcomes' = Append(outcomes, Shown(iter.result))
      BY <2>2, ShownTypes DEF LoopInv, ShowEntries
    <3>2. Shows' \subseteq Shows \cup {Shown(iter.result)}
      BY <2>1, <3>1, ShowsAppend
    <3>3. Right(Shown(iter.result))
      BY <2>2, ShownIsRight
    <3> HIDE DEF Right
    <3> QED
      BY <1>2, <3>2, <3>3
  <2>3. CASE SyncFailed
    <3>1. NotSynced \in Outcomes /\ outcomes' = Append(outcomes, NotSynced) /\ ~NotSynced.synced
      BY <2>3, ShownTypes DEF LoopInv, SyncFailed, NotSynced
    <3> HIDE DEF Right
    <3> QED
      BY <1>2, <2>1, <3>1, ShowsAppend
  <2>4. CASE UNCHANGED outcomes
    <3>1. Shows' = Shows
      BY <2>4 DEF Shows
    <3> HIDE DEF Right
    <3> QED
      BY <1>2, <3>1
  <2> QED
    BY <2>2, <2>3, <2>4 DEF CommandNext, Command, Done, Working, AdFails, SkipAd, SyncAd,
       DrainAd, DrainError, LoopDone, allVars
<1>4. NoteMeansMore'
  BY <1>1, <1>3 DEF NoteMeansMore, MhsOf, Root, LastShown
<1>5. ListsUpToLimit'
  BY <1>1, <1>3 DEF ListsUpToLimit, Asked, AskedUpTo, HasWork, Root, LastShown, Chain
<1> QED
  BY <1>4, <1>5

LEMMA ShownHolds == CommandSpec => [](NoteMeansMore /\ ListsUpToLimit)
<1>1. CommandInit => AskedStored /\ NoteMeansMore /\ ListsUpToLimit
  BY DEF CommandInit, AskedStored, NoteMeansMore, ListsUpToLimit, Shows
<1>2. CommandInit => StoreAsked
  BY DEF CommandInit, Init, StoreAsked
<1>3. CommandSpec => []AskedStored
  BY <1>1, AskedNext, LoopHolds, PTL DEF CommandSpec
<1>4. CommandSpec => []StoreAsked
  BY <1>2, StoreAskedNext, LoopHolds, PTL DEF CommandSpec
<1> QED
  BY <1>1, <1>3, <1>4, ShownNext, LoopHolds, PTL DEF CommandSpec

(* The note under a list of entries is there exactly if chunks of that ad     *)
(* were left out, and missing otherwise only behind a chunk without           *)
(* multihashes, wherever earlier ads that share the chain have stopped.       *)
THEOREM NoteIsRight == CommandSpec => []NoteMeansMore
  BY ShownHolds, PTL

(* What is shown of an ad is never less than its first chunks up to the depth *)
(* limit, whatever earlier ads have left in the store or deleted from it, and *)
(* more only by chunks that an earlier ad has asked for within its limit.     *)
THEOREM LimitIsReached == CommandSpec => []ListsUpToLimit
  BY ShownHolds, PTL

-----------------------------------------------------------------------------
(* Everything that a sync has fetched is stored without a gap behind its      *)
(* root: a drain comes to it.                                                 *)
FetchedFollows ==
  /\ \A k \in fetched : k >= sync.root /\ sync.root..k \subseteq stored
  /\ iter.pc # "idle" => fetched = {}

LEMMA FetchedStep ==
  ASSUME Inv, FetchedFollows, Step
  PROVE  /\ FetchedFollows'
         /\ iter.pc # "next" => stored' \subseteq stored \cup fetched'
         /\ fetched \subseteq fetched'
<1>1. sync \in Syncs /\ iter \in Iters /\ OneCall
  BY DEF Inv, Types
<1>2. CASE FetchChunk
  <2>1. /\ Len(chunks) \in Nat \ {0} /\ Chain = 1..Len(chunks)
    BY Numbers DEF Inv
  <2>2. /\ sync.pc = "walk" /\ sync.at \in Chain
        /\ stored' = stored \cup {sync.at} /\ fetched' = fetched \cup {sync.at}
        /\ sync' = sync /\ iter' = iter
    BY <1>2 DEF FetchChunk, Walking
  <2>3. /\ sync.root \in Chain /\ sync.id \in Chain /\ sync.root <= sync.id /\ sync.id <= sync.at
        /\ Present(sync.root, sync.id - 1) /\ Present(sync.id, sync.at - 1)
    BY <2>2 DEF Inv, SyncPosition
  <2>4. sync.at >= sync.root /\ sync.root..sync.at \subseteq stored \cup {sync.at}
    BY <2>1, <2>2, <2>3 DEF Present
  <2>5. iter.pc = "idle"
    BY <1>1, <2>2 DEF OneCall
  <2>6. \A k \in fetched : k >= sync.root /\ sync.root..k \subseteq stored
    BY DEF FetchedFollows
  <2>7. FetchedFollows'
    BY <2>2, <2>4, <2>5, <2>6 DEF FetchedFollows
  <2> QED
    BY <2>2, <2>7
<1>3. CASE NextChunk \/ NextEnd \/ NextFails
  <2>1. iter.pc = "next" /\ fetched = {} /\ fetched' = fetched
    BY <1>3 DEF NextChunk, NextEnd, NextFails, FetchedFollows
  <2> QED
    BY <2>1 DEF FetchedFollows
<1>4. CASE ~(FetchChunk \/ NextChunk \/ NextEnd \/ NextFails)
  <2>1. stored' = stored /\ fetched' = fetched /\ iter' = iter
    BY <1>4 DEF Step, Connect, ConnectFails, ReadChunk, DecodeFails,
                FetchFails, ContentNotFound, Synced
  <2>2. sync'.root = sync.root
    BY StepEffect
  <2> QED
    BY <2>1, <2>2 DEF FetchedFollows
<1> QED
  BY <1>2, <1>3, <1>4

LEMMA FetchedNext == LoopInv /\ FetchedFollows /\ [CommandNext]_allVars => FetchedFollows'
<1> SUFFICES ASSUME LoopInv, FetchedFollows, [CommandNext]_allVars PROVE FetchedFollows'
  OBVIOUS
<1>1. CASE Working
  BY <1>1, FetchedStep DEF LoopInv, Working
<1>2. CASE SyncAd \/ DrainAd
  BY <1>2 DEF SyncAd, DrainAd, SyncEntriesWithRetry, Drain, FetchedFollows
<1>3. CASE AdFails \/ SkipAd \/ SyncFailed \/ ShowEntries \/ DrainError \/ LoopDone
           \/ UNCHANGED allVars
  <2>1. UNCHANGED vars
    BY <1>3 DEF AdFails, SkipAd, SyncFailed, ShowEntries, DrainError, LoopDone,
                entriesVars, allVars
  <2> QED
    BY <2>1 DEF vars, FetchedFollows
<1> QED
  BY <1>1, <1>2, <1>3 DEF CommandNext, Command, Done

(* Why a chunk is in the store of a client that deletes what it reads: a sync *)
(* that failed has fetched it, or it lies behind a chunk without multihashes; *)
(* or the sync of the ad the loop is at has, and the drain of the ad is going *)
(* to come to it.                                                             *)
Explained(k) == k \in kept \/ \E j \in 1..(k - 1) : chunks[j] = 0
StoreExplained ==
  opts.del =>
    /\ cmd.pc = "ad" => \A k \in stored : Explained(k)
    /\ cmd.pc = "sync" => \A k \in stored : Explained(k) \/ k \in fetched
    /\ cmd.pc = "drain" =>
         \A k \in stored :
           /\ k \notin iter.root..(iter.next - 1)
           /\ Explained(k) \/ (k >= iter.root /\ iter.root..k \subseteq before)

LEMMA WorkingExplained ==
  ASSUME LoopInv, FetchedFollows, StoreExplained, Working
  PROVE  StoreExplained'
<1>1. Step /\ cmd' = cmd /\ kept' = kept
  BY DEF Working
<1>2. chunks' = chunks /\ opts' = opts /\ before' = before /\ iter'.root = iter.root
      /\ (sync.pc = "idle" => sync' = sync) /\ (iter.pc = "idle" => iter' = iter) /\ ~Idle
  BY <1>1, StepEffect DEF LoopInv
<1>3. SUFFICES ASSUME opts.del PROVE StoreExplained'
  BY <1>2 DEF StoreExplained
<1>4. cmd.pc \in {"sync", "drain"}
  BY <1>2 DEF LoopInv, InStep, Idle
<1>5. \A k : Explained(k)' <=> Explained(k)
  BY <1>1, <1>2 DEF Explained
<1>6. CASE cmd.pc = "sync"
  <2>1. iter.pc # "next"
    BY <1>6 DEF LoopInv, InStep
  <2>2. stored' \subseteq stored \cup fetched' /\ fetched \subseteq fetched'
    BY <1>1, <2>1, FetchedStep DEF LoopInv
  <2>3. \A k \in stored : Explained(k) \/ k \in fetched
    BY <1>3, <1>6 DEF StoreExplained
  <2>4. \A k \in stored' : Explained(k) \/ k \in fetched'
    BY <2>2, <2>3
  <2> QED
    BY <1>1, <1>5, <1>6, <2>4 DEF StoreExplained
<1>7. CASE cmd.pc = "drain"
  <2>1. NextChunk \/ NextEnd \/ NextFails
    BY <1>1, <1>7 DEF LoopInv, InStep, Step, Connect, ConnectFails, ReadChunk, DecodeFails,
       FetchChunk, FetchFails, ContentNotFound, Synced, Walking
  <2>2. iter \in Iters /\ iter.next \in Nat /\ iter.root \in Nat
    BY DEF LoopInv, Inv, Types, Iters
  <2>3. \A k \in stored :
          /\ k \notin iter.root..(iter.next - 1)
          /\ Explained(k) \/ (k >= iter.root /\ iter.root..k \subseteq before)
    BY <1>3, <1>7 DEF StoreExplained
  <2>4. CASE NextChunk
    <3>1. stored' = stored \ {iter.next} /\ iter'.next = iter.next + 1
      BY <1>3, <2>2, <2>4 DEF NextChunk, Iters
    <3>2. \A next : next = iter.next + 1
            => iter.root..(next - 1) \subseteq (iter.root..(iter.next - 1)) \cup {iter.next}
      BY <2>2
    <3>3. iter.root..(iter'.next - 1) \subseteq (iter.root..(iter.next - 1)) \cup {iter.next}
      BY <3>1, <3>2, Zenon
    <3>4. \A k \in stored' :
            /\ k \notin iter.root..(iter'.next - 1)
            /\ Explained(k) \/ (k >= iter.root /\ iter.root..k \subseteq before)
      BY <2>3, <3>1, <3>3, Zenon
    <3> QED
      BY <1>1, <1>2, <1>5, <1>7, <3>4, Zenon DEF StoreExplained
  <2>5. CASE NextEnd \/ NextFails
    <3>1. stored' = stored /\ iter'.next = iter.next
      BY <2>2, <2>5 DEF NextEnd, NextFails, DrainEnds, Iters
    <3> QED
      BY <1>1, <1>2, <1>5, <1>7, <2>3, <3>1, Zenon DEF StoreExplained
  <2> QED
    BY <2>1, <2>4, <2>5
<1> QED
  BY <1>4, <1>6, <1>7

LEMMA DrainAdExplained ==
  ASSUME LoopInv, FetchedFollows, StoreExplained, DrainAd
  PROVE  StoreExplained'
<1>1. /\ cmd.pc = "sync" /\ Drain(Ad.root) /\ cmd'.pc = "drain" /\ kept' = kept
      /\ sync.root = Ad.root
  BY DEF DrainAd, LoopInv, InStep, CommandTypes, Commands
<1>2. /\ iter'.root = sync.root /\ iter'.next = sync.root /\ before' = stored
      /\ stored' = stored /\ chunks' = chunks /\ opts' = opts
  BY <1>1 DEF Drain, input
<1>3. SUFFICES ASSUME opts.del PROVE StoreExplained'
  BY <1>2 DEF StoreExplained
<1>4. sync.root..(sync.root - 1) = {}
  <2>1. sync.root \in Nat
    BY DEF LoopInv, Inv, Types, Syncs
  <2> QED
    BY <2>1
<1>5. iter'.root..(iter'.next - 1) = {}
  BY <1>2, <1>4, Zenon
<1>6. \A k \in stored :
        Explained(k) \/ (k >= sync.root /\ sync.root..k \subseteq stored)
  BY <1>1, <1>3 DEF StoreExplained, FetchedFollows
<1>7. \A k : Explained(k)' <=> Explained(k)
  BY <1>1, <1>2 DEF Explained
<1>8. \A k \in stored' :
        /\ k \notin iter'.root..(iter'.next - 1)
        /\ Explained(k)' \/ (k >= iter'.root /\ iter'.root..k \subseteq before')
  BY <1>2, <1>5, <1>6, <1>7, Zenon
<1> QED
  BY <1>1, <1>8, Zenon DEF StoreExplained

LEMMA ShowEntriesExplained ==
  ASSUME LoopInv, StoreExplained, ShowEntries
  PROVE  StoreExplained'
<1>1. /\ cmd.pc = "drain" /\ iter.pc = "idle" /\ iter.result \in {"eof", "not found"}
      /\ cmd'.pc = "ad" /\ stored' = stored /\ chunks' = chunks /\ opts' = opts /\ kept' = kept
  BY DEF ShowEntries, Idle, entriesVars, vars, input, Continue, LoopInv, CommandTypes, Commands
<1>2. SUFFICES ASSUME opts.del, NEW k \in stored PROVE Explained(k)
  BY <1>1 DEF StoreExplained, Explained
<1>3. /\ k \notin iter.root..(iter.next - 1)
      /\ Explained(k) \/ (k >= iter.root /\ iter.root..k \subseteq before)
  BY <1>1, <1>2 DEF StoreExplained
<1>4. SUFFICES ASSUME k >= iter.root, iter.root..k \subseteq before PROVE Explained(k)
  BY <1>3
<1>5. /\ Len(chunks) \in Nat \ {0} /\ Chain = 1..Len(chunks) /\ End = Len(chunks) + 1
      /\ k \in Chain /\ iter.root \in Chain /\ iter.next \in Nat
  BY Numbers DEF LoopInv, Inv, Types, IterPosition, Iters
<1>6. k >= iter.next
  BY <1>3, <1>4, <1>5
<1>7. iter.root <= iter.next
  BY DEF LoopInv, Inv, IterPosition
<1>8. CASE iter.result = "not found"
  <2>1. iter.next \notin before
    BY <1>1, <1>8 DEF LoopInv, Inv, DrainExact
  <2>2. iter.next \in iter.root..k
    BY <1>5, <1>6, <1>7
  <2> QED
    BY <1>4, <2>1, <2>2
<1>9. CASE iter.result = "eof"
  <2>1. iter.next > iter.root /\ chunks[iter.next - 1] = 0
    <3>1. iter.next # End
      BY <1>5, <1>6
    <3> QED
      BY <1>1, <1>9, <3>1 DEF LoopInv, Inv, DrainExact
  <2>2. iter.next - 1 \in 1..(k - 1)
    BY <1>5, <1>6, <2>1
  <2> QED
    BY <2>1, <2>2 DEF Explained
<1> QED
  BY <1>1, <1>8, <1>9

LEMMA ExplainedNext ==
  LoopInv /\ FetchedFollows /\ StoreExplained /\ [CommandNext]_allVars => StoreExplained'
<1> SUFFICES ASSUME LoopInv, FetchedFollows, StoreExplained, [CommandNext]_allVars
             PROVE  StoreExplained'
  OBVIOUS
<1>1. cmd \in Commands
  BY DEF LoopInv, CommandTypes
<1>2. CASE SyncAd
  <2>1. cmd.pc = "ad" /\ cmd'.pc = "sync" /\ stored' = stored /\ kept' = kept
        /\ chunks' = chunks /\ opts' = opts
    BY <1>1, <1>2 DEF SyncAd, SyncEntriesWithRetry, input, Commands
  <2> QED
    BY <2>1 DEF StoreExplained, Explained
<1>3. CASE SyncFailed
  <2>1. cmd.pc = "sync" /\ cmd'.pc = "ad" /\ stored' = stored /\ kept' = kept \cup fetched
        /\ chunks' = chunks /\ opts' = opts
    BY <1>1, <1>3 DEF SyncFailed, Continue, Commands, entriesVars, vars, input
  <2> QED
    BY <2>1 DEF StoreExplained, Explained
<1>4. CASE SkipAd
  <2>1. cmd.pc = "ad" /\ cmd'.pc = "ad" /\ stored' = stored /\ kept' = kept
        /\ chunks' = chunks /\ opts' = opts
    BY <1>1, <1>4 DEF SkipAd, Continue, Commands, entriesVars, vars, input
  <2> QED
    BY <2>1 DEF StoreExplained, Explained
<1>5. CASE AdFails \/ DrainError \/ LoopDone
  <2>1. cmd'.pc = "done"
    BY <1>1, <1>5 DEF AdFails, DrainError, LoopDone, Finish, Commands
  <2> QED
    BY <2>1 DEF StoreExplained
<1>6. CASE UNCHANGED allVars
  BY <1>6 DEF allVars, vars, input, StoreExplained, Explained
<1> QED
  BY <1>2, <1>3, <1>4, <1>5, <1>6, WorkingExplained, DrainAdExplained, ShowEntriesExplained
  DEF CommandNext, Command, Done

(* A client that deletes what it reads keeps no chunk of an ad that it has    *)
(* synced and drained, but those behind a chunk without multihashes: the rest *)
(* of its store was fetched by syncs that failed.                             *)
THEOREM LeftoversAreExplained == CommandSpec => []LeftoversExplained
<1>1. CommandInit => FetchedFollows /\ StoreExplained
  BY DEF CommandInit, Init, FetchedFollows, StoreExplained
<1>2. CommandSpec => []FetchedFollows
  BY <1>1, FetchedNext, LoopHolds, PTL DEF CommandSpec
<1>3. CommandSpec => []StoreExplained
  BY <1>1, <1>2, ExplainedNext, LoopHolds, PTL DEF CommandSpec
<1>4. StoreExplained => LeftoversExplained
  BY DEF StoreExplained, Explained, LeftoversExplained
<1> QED
  BY <1>3, <1>4, PTL
-----------------------------------------------------------------------------
(* How much of a call is left: for a sync, its attempts, and of the attempt   *)
(* that runs the chunks it has still to read, each of which it may have to    *)
(* fetch before; for a drain, the chunks it has still to read.                *)
PerAttempt == 2 * Len(chunks) + 4
LaterAttempts == (opts.retry - sync.attempt) * PerAttempt
AttemptLeft ==
  CASE sync.pc = "idle" -> 0
    [] sync.pc = "connect" -> 2 * Len(chunks) + 3
    [] sync.pc = "walk" -> 2 * (End - sync.at) + (IF Missing(sync.at) THEN 2 ELSE 1)
SyncLeft == IF sync.pc = "idle" THEN 0 ELSE LaterAttempts + AttemptLeft
DrainLeft == IF iter.pc = "next" THEN End - iter.next + 1 ELSE 0
CallLeft == SyncLeft + DrainLeft

LEMMA NaturalSums == \A a, b \in Nat : a + b \in Nat
  OBVIOUS

LEMMA SameSums == \A later, a, b \in Int : a < b => later + a < later + b
  OBVIOUS

LEMMA Attempts ==
  \A retry, attempt, per \in Nat :
    attempt <= retry =>
      /\ (retry - attempt) * per \in Nat
      /\ (retry - attempt) * per <= retry * per
      /\ attempt < retry => (retry - attempt) * per = (retry - (attempt + 1)) * per + per
<1> SUFFICES ASSUME NEW retry \in Nat, NEW attempt \in Nat, NEW per \in Nat,
                    attempt <= retry
             PROVE  /\ (retry - attempt) * per \in Nat
                    /\ (retry - attempt) * per <= retry * per
                    /\ attempt < retry =>
                         (retry - attempt) * per = (retry - (attempt + 1)) * per + per
  OBVIOUS
<1>1. PICK more \in Nat : retry = attempt + more
  <2> WITNESS retry - attempt \in Nat
  <2> QED
    OBVIOUS
<1>2. retry - attempt = more /\ more * per \in Nat /\ attempt * per \in Nat
  BY <1>1
<1>3. retry * per = attempt * per + more * per
  BY <1>1
<1>4. attempt < retry => more - 1 \in Nat /\ more * per = (more - 1) * per + per
                         /\ retry - (attempt + 1) = more - 1
  BY <1>1
<1> QED
  BY <1>2, <1>3, <1>4

CallTypes ==
  /\ Len(chunks) \in Nat \ {0} /\ End = Len(chunks) + 1
  /\ PerAttempt \in Nat /\ LaterAttempts \in Nat
  /\ LaterAttempts <= opts.retry * PerAttempt
  /\ AttemptLeft \in 0..(2 * Len(chunks) + 3)
  /\ sync.pc # "idle" => AttemptLeft >= 1
  /\ DrainLeft \in 0..(Len(chunks) + 1)

LEMMA CallTypesHold == Inv => CallTypes
<1> SUFFICES ASSUME Inv PROVE CallTypes
  OBVIOUS
<1>1. /\ Len(chunks) \in Nat \ {0} /\ End = Len(chunks) + 1
      /\ Chain = 1..Len(chunks) /\ opts.retry \in Nat
  BY Numbers DEF Inv
<1>2. /\ sync.pc \in {"idle", "connect", "walk"} /\ sync.attempt \in Nat
      /\ sync.attempt <= opts.retry /\ sync.at \in 1..End
  BY DEF Inv, Types, Syncs, SyncPosition
<1>3. iter.pc \in {"idle", "next"} /\ iter.next \in 1..End
  BY DEF Inv, Types, Iters, IterPosition
<1>4. PerAttempt \in Nat
  BY <1>1 DEF PerAttempt
<1>5. LaterAttempts \in Nat /\ LaterAttempts <= opts.retry * PerAttempt
  BY <1>1, <1>2, <1>4, Attempts DEF LaterAttempts
<1>6. AttemptLeft \in 0..(2 * Len(chunks) + 3)
      /\ (sync.pc # "idle" => AttemptLeft >= 1)
  <2>1. CASE sync.pc = "idle"
    BY <1>1, <2>1 DEF AttemptLeft
  <2>2. CASE sync.pc = "connect"
    BY <1>1, <2>2 DEF AttemptLeft
  <2>3. CASE sync.pc = "walk"
    <3>1. AttemptLeft = 2 * (End - sync.at) + (IF Missing(sync.at) THEN 2 ELSE 1)
      BY <2>3 DEF AttemptLeft
    <3>2. 2 * (End - sync.at) \in 0..(2 * Len(chunks))
      BY <1>1, <1>2
    <3> QED
      BY <1>1, <3>1, <3>2
  <2> QED
    BY <1>2, <2>1, <2>2, <2>3
<1>7. DrainLeft \in 0..(Len(chunks) + 1)
  BY <1>1, <1>3 DEF DrainLeft
<1> QED
  BY <1>1, <1>4, <1>5, <1>6, <1>7 DEF CallTypes

(* The bound: all attempts for a sync, the chain once for a drain.            *)
CallMost == (opts.retry + 1) * PerAttempt

LEMMA CallLeftBound == Inv => CallLeft \in 0..CallMost
<1> SUFFICES ASSUME Inv PROVE CallLeft \in 0..CallMost
  OBVIOUS
<1>1. CallTypes /\ opts.retry \in Nat
  BY CallTypesHold, Numbers DEF Inv
<1>2. sync.pc # "idle" => iter.pc = "idle"
  BY DEF Inv, OneCall
<1>3. \A retry, per \in Nat : retry * per \in Nat /\ (retry + 1) * per = retry * per + per
  OBVIOUS
<1>4. opts.retry * PerAttempt \in Nat /\ CallMost = opts.retry * PerAttempt + PerAttempt
  BY <1>1, <1>3 DEF CallTypes, CallMost
<1>5. PerAttempt = 2 * Len(chunks) + 4
  BY DEF PerAttempt
<1> HIDE DEF PerAttempt
<1>6. CASE sync.pc = "idle"
  BY <1>1, <1>4, <1>5, <1>6 DEF CallTypes, CallLeft, SyncLeft
<1>7. CASE sync.pc # "idle"
  <2>1. CallLeft = LaterAttempts + AttemptLeft
    BY <1>1, <1>2, <1>7 DEF CallTypes, CallLeft, SyncLeft, DrainLeft
  <2> QED
    BY <1>1, <1>4, <1>5, <2>1 DEF CallTypes
<1> QED
  BY <1>6, <1>7

(* An attempt that fails costs an attempt: a client that is at its last has   *)
(* nothing left.                                                              *)
LEMMA RetryProgress ==
  ASSUME Inv, sync.pc # "idle", Retry, UNCHANGED <<chunks, opts, stored, iter>>
  PROVE  SyncLeft' < SyncLeft
<1>1. /\ sync \in Syncs /\ sync.attempt \in Nat /\ sync.attempt <= opts.retry
      /\ opts.retry \in Nat
  BY Numbers DEF Inv, Types, Syncs
<1>2. CallTypes
  BY CallTypesHold
<1>3. SyncLeft = LaterAttempts + AttemptLeft /\ AttemptLeft >= 1
  BY <1>2 DEF SyncLeft, CallTypes
<1>4. CASE sync'.pc = "idle"
  BY <1>2, <1>3, <1>4 DEF SyncLeft, CallTypes
<1>5. CASE sync'.pc # "idle"
  <2>1. /\ sync'.pc = "connect" /\ sync'.attempt = sync.attempt + 1
        /\ sync.attempt # opts.retry
    BY <1>1, <1>5 DEF Retry, Return, Syncs
  <2>2. LaterAttempts = (opts.retry - (sync.attempt + 1)) * PerAttempt + PerAttempt
    <3>1. sync.attempt < opts.retry
      BY <1>1, <2>1
    <3> QED
      BY <1>1, <1>2, <3>1, Attempts DEF LaterAttempts, CallTypes
  <2>3. PerAttempt' = PerAttempt
    BY DEF PerAttempt
  <2>4. LaterAttempts' = (opts.retry - (sync.attempt + 1)) * PerAttempt
    BY <2>1, <2>3 DEF LaterAttempts
  <2>5. AttemptLeft' = 2 * Len(chunks) + 3 /\ PerAttempt = 2 * Len(chunks) + 4
    BY <2>1 DEF AttemptLeft, PerAttempt
  <2>6. SyncLeft' = LaterAttempts' + AttemptLeft'
    BY <1>5 DEF SyncLeft
  <2>7. LaterAttempts' \in Nat
    <3>1. \A retry, per \in Nat : retry * per \in Nat
      OBVIOUS
    <3>2. opts.retry - (sync.attempt + 1) \in Nat /\ PerAttempt \in Nat
      BY <1>1, <1>2, <2>1 DEF CallTypes
    <3> QED
      BY <2>4, <3>1, <3>2, Zenon
  <2> DEFINE later == LaterAttempts'
  <2>8. LaterAttempts = later + PerAttempt /\ SyncLeft' = later + (2 * Len(chunks) + 3)
        /\ later \in Nat
    BY <2>2, <2>4, <2>5, <2>6, <2>7
  <2> HIDE DEF later, PerAttempt
  <2> QED
    BY <1>2, <1>3, <2>5, <2>8 DEF CallTypes
<1> QED
  BY <1>4, <1>5

(* A step of an attempt that does not end it.                                 *)
LEMMA AttemptProgress ==
  ASSUME Inv, Connect \/ ReadChunk \/ FetchChunk
  PROVE  SyncLeft' < SyncLeft
<1>1. /\ sync \in Syncs /\ sync.at \in 1..End /\ sync.id \in Chain /\ sync.at \in Nat
      /\ Chain = 1..Len(chunks) /\ End = Len(chunks) + 1 /\ Len(chunks) \in Nat \ {0}
      /\ CallTypes
  BY CallTypesHold, Numbers DEF Inv, Types, Syncs, SyncPosition
<1>2. chunks' = chunks /\ opts' = opts /\ sync.pc # "idle"
  BY DEF Connect, ReadChunk, FetchChunk, Walking, input
<1>3. sync'.attempt = sync.attempt /\ sync'.pc = "walk"
  BY <1>1 DEF Connect, ReadChunk, FetchChunk, Walking, Syncs
<1>4. LaterAttempts' = LaterAttempts /\ SyncLeft = LaterAttempts + AttemptLeft
      /\ SyncLeft' = LaterAttempts' + AttemptLeft'
  BY <1>2, <1>3 DEF LaterAttempts, PerAttempt, SyncLeft
<1>5. AttemptLeft' = 2 * (End - sync'.at)
                       + (IF sync'.at \in Chain \ stored' THEN 2 ELSE 1)
  BY <1>2, <1>3 DEF AttemptLeft, Missing, Chain, End
<1>6. PICK at \in 1..(Len(chunks) + 1) : at = sync.at
  BY <1>1
<1>7. AttemptLeft' < AttemptLeft /\ AttemptLeft' \in Int
  <2>1. CASE Connect
    <3>1. sync'.at = sync.id /\ AttemptLeft = 2 * Len(chunks) + 3
      BY <1>1, <2>1 DEF Connect, AttemptLeft, Syncs
    <3> QED
      BY <1>1, <1>5, <3>1
  <2>2. CASE ReadChunk
    <3>1. sync'.at = at + 1 /\ sync.pc = "walk" /\ ~Missing(at)
      BY <1>1, <1>6, <2>2 DEF ReadChunk, Walking, Syncs, Missing
    <3>2. AttemptLeft = 2 * (End - at) + 1
      BY <1>6, <3>1 DEF AttemptLeft
    <3> QED
      BY <1>1, <1>5, <3>1, <3>2
  <2>3. CASE FetchChunk
    <3>1. sync'.at = at /\ sync.pc = "walk" /\ Missing(at) /\ at \in stored'
      BY <1>1, <1>6, <2>3 DEF FetchChunk, Walking, Missing
    <3>2. AttemptLeft = 2 * (End - at) + 2
      BY <1>6, <3>1 DEF AttemptLeft
    <3>3. AttemptLeft' = 2 * (End - at) + 1
      BY <1>5, <3>1
    <3> QED
      BY <1>1, <3>2, <3>3
  <2> QED
    BY <2>1, <2>2, <2>3
<1>8. LaterAttempts \in Int /\ AttemptLeft \in Int
  BY <1>1 DEF CallTypes
<1> QED
  BY <1>4, <1>7, <1>8, SameSums

LEMMA CallProgress ==
  ASSUME Inv, Step
  PROVE  CallLeft' < CallLeft
<1>1. /\ sync \in Syncs /\ iter \in Iters /\ OneCall /\ CallTypes
      /\ iter.next \in 1..End /\ End = Len(chunks) + 1 /\ Len(chunks) \in Nat
  BY CallTypesHold, Numbers DEF Inv, Types, IterPosition
<1>2. chunks' = chunks /\ opts' = opts
  BY StepEffect
<1>3. CASE sync.pc # "idle"
  <2>1. iter.pc = "idle" /\ iter' = iter
    BY <1>1, <1>3, StepEffect DEF OneCall, Iters
  <2>2. SyncLeft' < SyncLeft
    <3>1. CASE Connect \/ ReadChunk \/ FetchChunk
      BY <3>1, AttemptProgress
    <3>2. CASE ConnectFails \/ DecodeFails \/ FetchFails
      <4>1. Retry /\ stored' = stored
        BY <3>2 DEF ConnectFails, DecodeFails, FetchFails
      <4> QED
        BY <1>2, <1>3, <2>1, <4>1, RetryProgress
    <3>3. CASE ContentNotFound \/ Synced
      <4>1. sync'.pc = "idle"
        BY <1>1, <3>3 DEF ContentNotFound, Synced, Return, Syncs
      <4>2. SyncLeft' = 0 /\ SyncLeft = LaterAttempts + AttemptLeft
        BY <1>3, <4>1 DEF SyncLeft
      <4> QED
        BY <1>1, <1>3, <4>2 DEF CallTypes
    <3> QED
      BY <2>1, <3>1, <3>2, <3>3 DEF Step, NextChunk, NextEnd, NextFails
  <2>3. DrainLeft = 0 /\ DrainLeft' = 0
    BY <2>1 DEF DrainLeft
  <2>4. SyncLeft = LaterAttempts + AttemptLeft /\ SyncLeft \in Nat
    BY <1>1, <1>3 DEF SyncLeft, CallTypes
  <2>5. SyncLeft' \in Nat
    <3>1. Inv'
      BY StepInv
    <3>2. CallTypes'
      BY <3>1, CallTypesHold, PTL
    <3>3. LaterAttempts' \in Nat /\ AttemptLeft' \in Nat
      BY <3>2 DEF CallTypes
    <3>4. LaterAttempts' + AttemptLeft' \in Nat
      BY <3>3, NaturalSums
    <3> QED
      BY <3>4, Zenon DEF SyncLeft
  <2> QED
    BY <2>2, <2>3, <2>4, <2>5 DEF CallLeft
<1>4. CASE sync.pc = "idle"
  <2>1. NextChunk \/ NextEnd \/ NextFails
    BY <1>4 DEF Step, Connect, ConnectFails, ReadChunk, DecodeFails, FetchChunk,
                FetchFails, ContentNotFound, Synced, Walking
  <2>2. sync' = sync /\ iter.pc = "next"
    BY <1>4, <2>1, StepEffect DEF NextChunk, NextEnd, NextFails
  <2>3. SyncLeft = 0 /\ SyncLeft' = 0
    BY <1>4, <2>2 DEF SyncLeft
  <2>4. PICK next \in 1..(Len(chunks) + 1) : next = iter.next
    BY <1>1
  <2>5. DrainLeft = End - next + 1
    BY <2>2, <2>4 DEF DrainLeft
  <2>6. DrainLeft' = 0 \/ DrainLeft' = End - (next + 1) + 1
    <3>1. CASE NextChunk
      <4>1. iter'.next = next + 1
        BY <1>1, <2>4, <3>1 DEF NextChunk, Iters
      <4> QED
        BY <1>2, <4>1 DEF DrainLeft, End
    <3>2. CASE NextEnd \/ NextFails
      <4>1. iter'.pc = "idle"
        BY <1>1, <3>2 DEF NextEnd, NextFails, DrainEnds, Iters
      <4> QED
        BY <4>1 DEF DrainLeft
    <3> QED
      BY <2>1, <3>1, <3>2
  <2> QED
    BY <1>1, <2>3, <2>5, <2>6 DEF CallLeft
<1> QED
  BY <1>3, <1>4

(* A call takes a bounded number of steps, however its requests fail: for a   *)
(* sync 2 for each chunk of the chain and 4 more, in each of its attempts.    *)
BoundedCall ==
  /\ [](CallLeft \in 0..CallMost)
  /\ [][Step => CallLeft' < CallLeft]_vars

(* When a step of a call can be taken: the guards of its actions.             *)
StepCan ==
  \/ sync.pc = "connect"
  \/ Walking /\ (sync.at \in stored \/ Missing(sync.at))
  \/ sync.pc = "walk" /\ ~Walking
  \/ iter.pc = "next" /\ (iter.next \in stored \/ iter.next = End \/ Missing(iter.next))

LEMMA CallGoesOn == Inv => (Idle \/ StepCan)
<1> SUFFICES ASSUME Inv, ~Idle PROVE StepCan
  OBVIOUS
<1>1. /\ sync.pc \in {"idle", "connect", "walk"} /\ iter.pc \in {"idle", "next"}
      /\ iter.next \in 1..End
      /\ Chain = 1..Len(chunks) /\ End = Len(chunks) + 1 /\ Len(chunks) \in Nat
  BY Numbers DEF Inv, Types, Syncs, Iters, IterPosition
<1>2. iter.next = End \/ iter.next \in Chain
  BY <1>1
<1> QED
  BY <1>1, <1>2 DEF Idle, StepCan, Walking, Missing

(* For every client, chain and way that requests fail, a call that is made    *)
(* returns if it is given its bounded number of steps: one can always be      *)
(* taken until it has.  All of Returns but the scheduling.                    *)
THEOREM CallsAreBounded == Spec => BoundedCall /\ [](Idle \/ StepCan)
<1>1. Inv => CallLeft \in 0..CallMost
  BY CallLeftBound
<1>2. Inv /\ [Next]_vars => [Step => CallLeft' < CallLeft]_vars
  BY CallProgress
<1>3. Inv => (Idle \/ StepCan)
  BY CallGoesOn
<1>4. Spec => []Inv
  BY InvHolds, PTL
<1> QED
  BY <1>1, <1>2, <1>3, <1>4, PTL DEF Spec, BoundedCall

-----------------------------------------------------------------------------
(* How much of the command is left: each ad may take a sync, whose one        *)
(* attempt visits each chunk twice, a drain and the steps of the loop.        *)
PerAd == 3 * Len(chunks) + 7
LaterAds == (Len(list) - cmd.pos) * PerAd
AdLeft ==
  CASE cmd.pc = "ad" -> PerAd + 1
    [] cmd.pc = "sync" -> CallLeft + Len(chunks) + 4
    [] cmd.pc = "drain" -> CallLeft + 2
    [] cmd.pc = "done" -> 0
LoopLeft == IF Done THEN 0 ELSE LaterAds + AdLeft

LEMMA AdsLeft ==
  \A len, pos, per \in Nat :
    /\ pos <= len => (len - pos) * per \in Nat
    /\ (len - (pos + 1)) * per + per = (len - pos) * per
    /\ (len - pos) * per \in Int
<1> SUFFICES ASSUME NEW len \in Nat, NEW pos \in Nat, NEW per \in Nat
             PROVE  /\ pos <= len => (len - pos) * per \in Nat
                    /\ (len - (pos + 1)) * per + per = (len - pos) * per
                    /\ (len - pos) * per \in Int
  OBVIOUS
<1>1. PICK more \in Int : more = len - pos
  OBVIOUS
<1>2. len - (pos + 1) = more - 1 /\ (more - 1) * per + per = more * per
  BY <1>1
<1>3. pos <= len => more \in Nat /\ more * per \in Nat
  BY <1>1
<1> QED
  BY <1>1, <1>2, <1>3

(* What the loop's measure is made of; behind the last ad it has gone one ad  *)
(* too far.                                                                   *)
LoopTypes ==
  /\ Len(chunks) \in Nat \ {0} /\ Len(list) \in Nat /\ PerAd \in Nat
  /\ cmd.pos \in Nat /\ cmd.pos >= 1 /\ cmd.pos <= Len(list) + 1
  /\ cmd.pc \in {"ad", "sync", "drain", "done"}
  /\ cmd.pc \in {"sync", "drain"} => cmd.pos <= Len(list)
  /\ CallLeft \in Nat /\ AdLeft \in Nat /\ (Done \/ AdLeft >= 1)
  /\ LaterAds \in Int /\ (cmd.pos <= Len(list) => LaterAds \in Nat)
  /\ cmd.pos = Len(list) + 1 => LaterAds = -PerAd

LEMMA LoopTypesHold == LoopInv => LoopTypes
<1> SUFFICES ASSUME LoopInv PROVE LoopTypes
  OBVIOUS
<1>1. Len(chunks) \in Nat \ {0} /\ opts.retry \in Nat
  BY Numbers DEF LoopInv, Inv
<1>2. /\ Len(list) \in Nat /\ cmd.pos \in 1..(Len(list) + 1) /\ DOMAIN list = 1..Len(list)
      /\ cmd.pc \in {"ad", "sync", "drain", "done"}
  <2>1. list \in Seq(AdKinds) /\ cmd \in Commands /\ cmd.pos \in 1..(Len(list) + 1)
    BY DEF LoopInv, CommandTypes
  <2> HIDE DEF AdKinds
  <2>2. Len(list) \in Nat /\ DOMAIN list = 1..Len(list)
    BY <2>1
  <2>3. cmd.pc \in {"ad", "sync", "drain", "done"}
    BY <2>1 DEF Commands
  <2> QED
    BY <2>1, <2>2, <2>3
<1>3. PerAd \in Nat
  BY <1>1 DEF PerAd
<1>4. cmd.pc \in {"sync", "drain"} => cmd.pos <= Len(list)
  BY <1>2 DEF LoopInv, InStep
<1>5. CallLeft \in Nat
  <2>1. CallTypes
    BY CallTypesHold DEF LoopInv
  <2>2. SyncLeft \in Nat /\ DrainLeft \in Nat
    BY <2>1 DEF CallTypes, SyncLeft
  <2> QED
    BY <2>2 DEF CallLeft
<1>6. AdLeft \in Nat /\ (Done \/ AdLeft >= 1)
  BY <1>1, <1>2, <1>3, <1>5 DEF AdLeft, Done
<1> HIDE DEF PerAd
<1>7. PICK pos \in Nat : pos = cmd.pos /\ pos >= 1 /\ pos <= Len(list) + 1
  BY <1>2
<1>8. LaterAds \in Int /\ (cmd.pos <= Len(list) => LaterAds \in Nat)
  BY <1>2, <1>3, <1>7, AdsLeft DEF LaterAds
<1>9. cmd.pos = Len(list) + 1 => LaterAds = -PerAd
  <2>1. \A len, per \in Nat : (len - (len + 1)) * per = -per
    OBVIOUS
  <2> QED
    BY <1>2, <1>3, <2>1 DEF LaterAds
<1> QED
  BY <1>1, <1>2, <1>3, <1>4, <1>5, <1>6, <1>7, <1>8, <1>9 DEF LoopTypes

LEMMA LoopLeftType == LoopInv => LoopLeft \in Nat /\ (Done \/ LoopLeft >= 1)
<1> SUFFICES ASSUME LoopInv PROVE LoopLeft \in Nat /\ (Done \/ LoopLeft >= 1)
  OBVIOUS
<1>1. LoopTypes
  BY LoopTypesHold
<1>2. CASE Done
  BY <1>2 DEF LoopLeft
<1>3. CASE ~Done /\ cmd.pos <= Len(list)
  BY <1>1, <1>3 DEF LoopLeft, LoopTypes
<1>4. CASE ~Done /\ cmd.pos = Len(list) + 1
  <2>1. cmd.pc = "ad" /\ AdLeft = PerAd + 1 /\ LaterAds = -PerAd
    BY <1>1, <1>4 DEF LoopTypes, Done, AdLeft
  <2> QED
    BY <1>1, <1>4, <2>1 DEF LoopLeft, LoopTypes
<1> QED
  BY <1>1, <1>2, <1>3, <1>4 DEF LoopTypes

(* Neither command retries, so that a call has one attempt.                   *)
LEMMA OneAttempt ==
  Inv => /\ sync.pc = "connect" => SyncLeft = 2 * Len(chunks) + 3
         /\ Idle => CallLeft = 0
<1> SUFFICES ASSUME Inv
             PROVE  /\ sync.pc = "connect" => SyncLeft = 2 * Len(chunks) + 3
                    /\ Idle => CallLeft = 0
  OBVIOUS
<1>1. /\ opts.retry = 0 /\ sync.attempt \in Nat /\ sync.attempt <= opts.retry
      /\ sync.pc \in {"idle", "connect", "walk"} /\ iter.pc \in {"idle", "next"}
      /\ Len(chunks) \in Nat
  BY CallsAssumption, Numbers DEF Inv, Types, Syncs, Iters
<1>2. LaterAttempts = 0
  <2>1. opts.retry - sync.attempt = 0 /\ PerAttempt \in Nat
    BY <1>1 DEF PerAttempt
  <2> QED
    BY <2>1 DEF LaterAttempts
<1>3. Idle => SyncLeft = 0 /\ DrainLeft = 0
  BY DEF Idle, SyncLeft, DrainLeft
<1>4. sync.pc = "connect" => SyncLeft = 2 * Len(chunks) + 3
  BY <1>1, <1>2 DEF SyncLeft, AttemptLeft
<1> QED
  BY <1>3, <1>4 DEF CallLeft

(* A call goes on while the loop waits for it.                                *)
LEMMA WorkingProgress ==
  ASSUME LoopInv, LoopInv', Working
  PROVE  LoopLeft' < LoopLeft
<1>1. LoopTypes /\ LoopTypes'
  BY LoopTypesHold, PTL
<1>2. /\ cmd' = cmd /\ list' = list /\ chunks' = chunks /\ ~Idle
      /\ CallLeft' < CallLeft
  BY StepEffect, CallProgress DEF LoopInv, Working
<1>3. cmd.pc \in {"sync", "drain"}
  BY <1>1, <1>2 DEF LoopInv, InStep, LoopTypes
<1>4. LaterAds' = LaterAds /\ ~Done /\ ~Done'
  BY <1>2, <1>3 DEF LaterAds, PerAd, Done
<1>5. PICK left \in Nat, was \in Nat, len \in Nat :
        left = CallLeft' /\ was = CallLeft /\ len = Len(chunks)
  BY <1>1 DEF LoopTypes
<1>6. AdLeft' < AdLeft /\ AdLeft' \in Int
  <2>0. left < was
    BY <1>2, <1>5
  <2>1. CASE cmd.pc = "sync"
    <3>1. AdLeft = was + len + 4 /\ AdLeft' = left + len + 4
      BY <1>2, <1>5, <2>1 DEF AdLeft
    <3> QED
      BY <2>0, <3>1
  <2>2. CASE cmd.pc = "drain"
    <3>1. AdLeft = was + 2 /\ AdLeft' = left + 2
      BY <1>2, <1>5, <2>2 DEF AdLeft
    <3> QED
      BY <2>0, <3>1
  <2> QED
    BY <1>3, <2>1, <2>2
<1>7. LaterAds \in Int /\ AdLeft \in Int
  BY <1>1 DEF LoopTypes
<1>8. LoopLeft = LaterAds + AdLeft /\ LoopLeft' = LaterAds + AdLeft'
  BY <1>4 DEF LoopLeft
<1> QED
  BY <1>6, <1>7, <1>8, SameSums

(* On to the next ad, from whatever is left of this one.                      *)
LEMMA ContinueProgress ==
  ASSUME LoopInv, Continue, cmd.pos <= Len(list), UNCHANGED <<chunks, list>>,
         AdLeft > 1
  PROVE  LoopLeft' < LoopLeft \/ cmd.pc = "done"
<1>1. LoopTypes
  BY LoopTypesHold
<1>2. cmd'.pos = cmd.pos + 1 /\ cmd'.pc = "ad"
  BY ContinueTypes DEF LoopInv
<1>3. ~Done'
  BY <1>2 DEF Done
<1>4. PerAd' = PerAd
  BY DEF PerAd
<1>5. LaterAds' = (Len(list) - (cmd.pos + 1)) * PerAd /\ AdLeft' = PerAd + 1
  BY <1>2, <1>4 DEF LaterAds, AdLeft
<1>6. PICK later \in Nat : later = LaterAds
  BY <1>1 DEF LoopTypes
<1>7. LaterAds' + PerAd = later
  BY <1>1, <1>5, <1>6, AdsLeft DEF LoopTypes, LaterAds
<1>8. PICK next \in Int : next = LaterAds'
  <2>1. LaterAds' \in Int
    BY <1>1, <1>5, AdsLeft DEF LoopTypes
  <2> QED
    BY <2>1
<1>9. LoopLeft' = next + (PerAd + 1)
  BY <1>3, <1>5, <1>8 DEF LoopLeft
<1>10. cmd.pc # "done" => LoopLeft = later + AdLeft
  BY <1>6 DEF LoopLeft, Done
<1>11. PICK per \in Nat, left \in Nat : per = PerAd /\ left = AdLeft
  BY <1>1 DEF LoopTypes
<1>12. later + left > next + (per + 1)
  <2>1. left > 1 /\ next + per = later
    BY <1>7, <1>8, <1>11
  <2> QED
    BY <2>1
<1> QED
  BY <1>9, <1>10, <1>11, <1>12

LEMMA FinishProgress ==
  ASSUME LoopInv, ~Done, Done'
  PROVE  LoopLeft' < LoopLeft
<1>1. LoopLeft' = 0
  BY DEF LoopLeft
<1>2. LoopLeft \in Nat /\ LoopLeft >= 1
  BY LoopLeftType
<1> QED
  BY <1>1, <1>2

LEMMA SyncAdProgress ==
  ASSUME LoopInv, LoopInv', SyncAd
  PROVE  LoopLeft' < LoopLeft
<1>1. LoopTypes
  BY LoopTypesHold
<1>2. /\ cmd.pc = "ad" /\ cmd' = [cmd EXCEPT !.pc = "sync"] /\ list' = list
      /\ chunks' = chunks /\ Idle
      /\ sync'.pc = "connect" /\ iter' = [iter EXCEPT !.result = "none"]
  BY DEF SyncAd, SyncEntriesWithRetry, input
<1>3. cmd'.pc = "sync" /\ cmd'.pos = cmd.pos /\ iter'.pc = "idle"
  BY <1>2 DEF LoopInv, CommandTypes, Commands, Inv, Types, Iters, Idle
<1>4. LaterAds' = LaterAds
  BY <1>2, <1>3 DEF LaterAds, PerAd
<1>5. CallLeft' = 2 * Len(chunks) + 3
  <2>1. (sync.pc = "connect" => SyncLeft = 2 * Len(chunks) + 3)'
    <3>1. Inv'
      BY DEF LoopInv
    <3> QED
      BY <3>1, OneAttempt, PTL
  <2>2. SyncLeft' = 2 * Len(chunks) + 3 /\ DrainLeft' = 0
    BY <1>2, <1>3, <2>1 DEF DrainLeft
  <2> QED
    BY <1>1, <2>2 DEF LoopTypes, CallLeft
<1>6. AdLeft = 3 * Len(chunks) + 8 /\ AdLeft' = 2 * Len(chunks) + 3 + Len(chunks) + 4
  BY <1>1, <1>2, <1>3, <1>5 DEF AdLeft, PerAd, LoopTypes
<1>7. LoopLeft = LaterAds + AdLeft /\ LoopLeft' = LaterAds + AdLeft'
  BY <1>2, <1>3, <1>4 DEF LoopLeft, Done
<1>8. LaterAds \in Int /\ Len(chunks) \in Nat
  BY <1>1 DEF LoopTypes
<1> QED
  BY <1>6, <1>7, <1>8

LEMMA DrainAdProgress ==
  ASSUME LoopInv, LoopInv', DrainAd
  PROVE  LoopLeft' < LoopLeft
<1>1. LoopTypes /\ LoopTypes'
  BY LoopTypesHold, PTL
<1>2. /\ cmd.pc = "sync" /\ cmd' = [cmd EXCEPT !.pc = "drain"] /\ list' = list
      /\ chunks' = chunks /\ Idle
      /\ sync' = [sync EXCEPT !.result = "none"]
  BY DEF DrainAd, Drain, input
<1>3. cmd'.pc = "drain" /\ cmd'.pos = cmd.pos /\ sync'.pc = "idle"
  BY <1>2 DEF LoopInv, CommandTypes, Commands, Inv, Types, Syncs, Idle
<1>4. LaterAds' = LaterAds
  BY <1>2, <1>3 DEF LaterAds, PerAd
<1>5. CallLeft = 0
  BY <1>2, OneAttempt DEF LoopInv
<1>6. PICK left \in Nat : left = CallLeft' /\ left <= Len(chunks) + 1
  <2>1. Inv'
    BY DEF LoopInv
  <2>2. CallTypes'
    BY <2>1, CallTypesHold, PTL
  <2>3. DrainLeft' \in 0..(Len(chunks') + 1)
    BY <2>2 DEF CallTypes
  <2>4. SyncLeft' = 0
    BY <1>3 DEF SyncLeft
  <2>5. PICK left \in 0..(Len(chunks) + 1) : left = DrainLeft'
    BY <1>2, <2>3
  <2>6. left \in Nat /\ left <= Len(chunks) + 1 /\ 0 + left = left
    <3>1. Len(chunks) \in Nat
      BY <1>1 DEF LoopTypes
    <3> QED
      BY <3>1
  <2>7. CallLeft' = left
    BY <2>4, <2>5, <2>6 DEF CallLeft
  <2> QED
    BY <2>6, <2>7
<1>7. AdLeft = Len(chunks) + 4 /\ AdLeft' = left + 2
  <2>1. AdLeft = CallLeft + Len(chunks) + 4 /\ AdLeft' = CallLeft' + 2
    BY <1>2, <1>3 DEF AdLeft
  <2> QED
    BY <1>1, <1>5, <1>6, <2>1 DEF LoopTypes
<1>8. LoopLeft = LaterAds + AdLeft /\ LoopLeft' = LaterAds + AdLeft'
  BY <1>2, <1>3, <1>4 DEF LoopLeft, Done
<1>9. LaterAds \in Int /\ Len(chunks) \in Nat
  BY <1>1 DEF LoopTypes
<1> QED
  BY <1>6, <1>7, <1>8, <1>9

LEMMA CommandProgress ==
  ASSUME LoopInv, LoopInv', CommandNext
  PROVE  LoopLeft' < LoopLeft \/ UNCHANGED allVars
<1>1. CASE Working
  BY <1>1, WorkingProgress
<1>2. CASE AdFails \/ DrainError \/ LoopDone
  <2>1. cmd \in Commands
    BY DEF LoopInv, CommandTypes
  <2>2. ~Done /\ Done'
    BY <1>2, <2>1 DEF AdFails, DrainError, LoopDone, Finish, Done, Commands
  <2> QED
    BY <2>2, FinishProgress
<1>3. CASE SkipAd \/ SyncFailed \/ ShowEntries
  <2>1. LoopTypes
    BY LoopTypesHold
  <2>2. chunks' = chunks /\ list' = list /\ Continue /\ cmd.pc \in {"ad", "sync", "drain"}
    BY <1>3 DEF SkipAd, SyncFailed, ShowEntries, entriesVars, vars, input
  <2>3. cmd.pos <= Len(list)
    BY <1>3, <2>1 DEF SkipAd, SyncFailed, ShowEntries, LoopTypes
  <2>4. AdLeft > 1
    <3>1. PICK left \in Nat, len \in Nat : left = CallLeft /\ len = Len(chunks)
      BY <2>1 DEF LoopTypes
    <3>2. AdLeft = (3 * len + 7) + 1 \/ AdLeft = left + len + 4 \/ AdLeft = left + 2
      BY <2>2, <3>1 DEF AdLeft, PerAd
    <3> QED
      BY <3>1, <3>2
  <2> QED
    BY <2>2, <2>3, <2>4, ContinueProgress
<1>4. CASE SyncAd
  BY <1>4, SyncAdProgress
<1>5. CASE DrainAd
  BY <1>5, DrainAdProgress
<1> QED
  BY <1>1, <1>2, <1>3, <1>4, <1>5 DEF CommandNext, Command

(* What the loop may still ask of the client: it makes two calls for an ad,   *)
(* and a drain that has ended has a result.                                   *)
CallsMade == IF cmd.pc = "ad" THEN 0 ELSE IF cmd.pc = "sync" THEN 1 ELSE 2
CallsInTurn ==
  /\ Len(list) <= MaxAds
  /\ ~Done => calls <= 2 * (cmd.pos - 1) + CallsMade
  /\ cmd.pc = "drain" /\ Idle => iter.result # "none"

LEMMA CallsInTurnInit == CommandInit => CallsInTurn
<1> SUFFICES ASSUME CommandInit PROVE CallsInTurn
  OBVIOUS
<1>1. PICK n \in 1..MaxAds : list \in [1..n -> AdKinds]
  BY DEF CommandInit
<1>2. Len(list) = n /\ n <= MaxAds
  BY <1>1, CallsAssumption
<1>3. cmd.pc = "ad" /\ cmd.pos = 1 /\ calls = 0
  BY DEF CommandInit, Init
<1> QED
  BY <1>2, <1>3 DEF CallsInTurn, CallsMade

LEMMA StepAnswers ==
  ASSUME Inv, Step
  PROVE  /\ calls' = calls
         /\ iter.pc = "next" /\ iter'.pc = "idle" => iter'.result # "none"
<1>1. iter \in Iters
  BY DEF Inv, Types
<1>2. calls' = calls
  BY DEF Step, Connect, ConnectFails, ReadChunk, DecodeFails, FetchChunk,
         FetchFails, ContentNotFound, Synced, NextChunk, NextEnd, NextFails
<1>3. ASSUME iter.pc = "next", iter'.pc = "idle" PROVE iter'.result # "none"
  <2>1. NextChunk \/ NextEnd \/ NextFails
    BY <1>3, StepEffect DEF Step, Connect, ConnectFails, ReadChunk, DecodeFails, FetchChunk,
         FetchFails, ContentNotFound, Synced, Inv, OneCall, Walking
  <2>2. CASE NextChunk
    BY <1>1, <1>3, <2>2 DEF NextChunk, Iters
  <2>3. CASE NextEnd \/ NextFails
    BY <1>1, <1>3, <2>3 DEF NextEnd, NextFails, DrainEnds, Iters
  <2> QED
    BY <2>1, <2>2, <2>3
<1> QED
  BY <1>2, <1>3

LEMMA CallsInTurnNext ==
  LoopInv /\ CallsInTurn /\ [CommandNext]_allVars => CallsInTurn'
<1> SUFFICES ASSUME LoopInv, CallsInTurn, [CommandNext]_allVars PROVE CallsInTurn'
  OBVIOUS
<1>1. LoopTypes /\ calls \in Nat /\ cmd \in Commands
  BY LoopTypesHold DEF LoopInv, Inv, Types, CommandTypes
<1>2. CASE Working
  <2>1. UNCHANGED <<list, cmd, calls>> /\ ~Idle
    BY <1>2, StepAnswers, StepEffect DEF Working, LoopInv
  <2>2. cmd.pc = "drain" /\ Idle' => iter'.result # "none"
    <3> SUFFICES ASSUME cmd.pc = "drain", Idle' PROVE iter'.result # "none"
      OBVIOUS
    <3>1. sync.pc = "idle" /\ iter.pc = "next"
      BY <2>1 DEF LoopInv, InStep, Idle, Inv, Types, Iters
    <3> QED
      BY <1>2, <3>1, StepAnswers DEF Working, LoopInv, Idle
  <2> QED
    BY <2>1, <2>2 DEF CallsInTurn, CallsMade, Done
<1>3. CASE AdFails \/ DrainError \/ LoopDone
  <2>1. cmd'.pc = "done" /\ list' = list
    BY <1>1, <1>3 DEF AdFails, DrainError, LoopDone, Finish, Commands
  <2> QED
    BY <2>1 DEF CallsInTurn, Done
<1>4. CASE SkipAd \/ SyncFailed \/ ShowEntries
  <2>1. /\ cmd'.pc = "ad" /\ cmd'.pos = cmd.pos + 1 /\ list' = list /\ calls' = calls
        /\ ~Done
    BY <1>1, <1>4 DEF SkipAd, SyncFailed, ShowEntries, Continue, Commands, entriesVars,
                      vars, Done
  <2>2. PICK pos \in Nat, made \in 0..2 : pos = cmd.pos /\ made = CallsMade
    BY <1>1 DEF LoopTypes, CallsMade
  <2>3. calls <= 2 * (pos - 1) + made
    BY <2>1, <2>2 DEF CallsInTurn
  <2>4. calls' <= 2 * ((pos + 1) - 1) + 0
    BY <1>1, <2>1, <2>2, <2>3
  <2> QED
    BY <2>1, <2>2, <2>4 DEF CallsInTurn, CallsMade
<1>5. CASE SyncAd \/ DrainAd
  <2>1. /\ list' = list /\ calls' = calls + 1 /\ cmd'.pos = cmd.pos
        /\ ~Done /\ CallsMade' = CallsMade + 1 /\ ~Idle'
    <3>1. CASE SyncAd
      <4>1. list' = list /\ calls' = calls + 1 /\ sync'.pc = "connect"
        BY <3>1 DEF SyncAd, SyncEntriesWithRetry
      <4>2. cmd.pc = "ad" /\ cmd'.pc = "sync" /\ cmd'.pos = cmd.pos
        BY <1>1, <3>1 DEF SyncAd, Commands
      <4> QED
        BY <4>1, <4>2 DEF Done, CallsMade, Idle
    <3>2. CASE DrainAd
      <4>1. list' = list /\ calls' = calls + 1 /\ iter'.pc = "next"
        BY <3>2 DEF DrainAd, Drain
      <4>2. cmd.pc = "sync" /\ cmd'.pc = "drain" /\ cmd'.pos = cmd.pos
        BY <1>1, <3>2 DEF DrainAd, Commands
      <4> QED
        BY <4>1, <4>2 DEF Done, CallsMade, Idle
    <3> QED
      BY <1>5, <3>1, <3>2
  <2>2. PICK pos \in Nat, made \in 0..2 : pos = cmd.pos /\ made = CallsMade
    BY <1>1 DEF LoopTypes, CallsMade
  <2>3. calls <= 2 * (pos - 1) + made
    BY <2>1, <2>2 DEF CallsInTurn
  <2>4. calls + 1 <= 2 * (pos - 1) + (made + 1)
    BY <1>1, <2>2, <2>3
  <2> QED
    BY <2>1, <2>2, <2>4 DEF CallsInTurn
<1>6. CASE UNCHANGED allVars
  BY <1>6 DEF allVars, vars, CallsInTurn, CallsMade, Done, Idle
<1> QED
  BY <1>2, <1>3, <1>4, <1>5, <1>6 DEF CommandNext, Command

(* When the loop can take a step of its own: the guards of its actions.       *)
LoopCan ==
  \/ cmd.pc = "ad" /\ (cmd.pos > Len(list) \/ ~HasWork(Ad) \/ calls < MaxCalls)
  \/ cmd.pc = "sync" /\ Idle /\ (sync.result # "ok" \/ calls < MaxCalls)
  \/ cmd.pc = "drain" /\ Idle /\ iter.result \in {"eof", "not found", "bad chunk"}

LEMMA LoopGoesOn == LoopInv /\ CallsInTurn => (Done \/ StepCan \/ LoopCan)
<1> SUFFICES ASSUME LoopInv, CallsInTurn, ~Done, Idle PROVE LoopCan
  BY CallGoesOn DEF LoopInv
<1>1. /\ LoopTypes /\ calls \in Nat /\ MaxCalls = 2 * MaxAds /\ MaxAds \in Nat
      /\ iter.result \in IterResults
  BY LoopTypesHold, CallsAssumption DEF LoopInv, Inv, Types, Iters
<1>2. cmd.pc \in {"ad", "sync"} /\ cmd.pos <= Len(list) => calls < MaxCalls
  <2> SUFFICES ASSUME cmd.pc \in {"ad", "sync"}, cmd.pos <= Len(list)
               PROVE  calls < MaxCalls
    OBVIOUS
  <2>1. PICK pos \in Nat, len \in Nat, made \in 0..1 :
          pos = cmd.pos /\ len = Len(list) /\ made = CallsMade
    BY <1>1 DEF LoopTypes, CallsMade
  <2>2. calls <= 2 * (pos - 1) + made /\ len <= MaxAds /\ pos <= len
    BY <2>1 DEF CallsInTurn
  <2> QED
    BY <1>1, <2>1, <2>2
<1>3. CASE cmd.pc = "ad"
  BY <1>1, <1>2, <1>3 DEF LoopCan, LoopTypes
<1>4. CASE cmd.pc = "sync"
  BY <1>1, <1>2, <1>4 DEF LoopCan, LoopTypes
<1>5. CASE cmd.pc = "drain"
  BY <1>1, <1>5 DEF LoopCan, CallsInTurn, IterResults
<1> QED
  BY <1>1, <1>3, <1>4, <1>5 DEF LoopTypes, Done

(* The command takes a bounded number of steps, in the ads it goes through    *)
(* and in the chunks of their chain, and can take one until it is done.       *)
BoundedCommand ==
  /\ LoopLeft = Len(list) * PerAd + 1
  /\ [](LoopLeft \in Nat)
  /\ [][LoopLeft' < LoopLeft]_allVars
  /\ [](Done \/ StepCan \/ LoopCan)

(* For every list of ads, chain and client that does not retry, however its   *)
(* requests fail: all of Ends but the scheduling.                             *)
THEOREM CommandIsBounded == CommandSpec => BoundedCommand
<1>1. CommandInit => LoopLeft = Len(list) * PerAd + 1
  <2> SUFFICES ASSUME CommandInit PROVE LoopLeft = Len(list) * PerAd + 1
    OBVIOUS
  <2>1. LoopTypes
    BY LoopInit, LoopTypesHold
  <2>2. cmd.pc = "ad" /\ cmd.pos = 1
    BY DEF CommandInit
  <2>3. LoopLeft = (Len(list) - 1) * PerAd + (PerAd + 1)
    BY <2>2 DEF LoopLeft, LaterAds, AdLeft, Done
  <2>4. \A len, per \in Nat : (len - 1) * per + (per + 1) = len * per + 1
    OBVIOUS
  <2> QED
    BY <2>1, <2>3, <2>4 DEF LoopTypes
<1>2. LoopInv => LoopLeft \in Nat
  BY LoopLeftType
<1>3. LoopInv /\ LoopInv' /\ [CommandNext]_allVars => [LoopLeft' < LoopLeft]_allVars
  BY CommandProgress
<1>4. LoopInv /\ CallsInTurn => (Done \/ StepCan \/ LoopCan)
  BY LoopGoesOn
<1>5. CommandSpec => [](LoopInv /\ CallsInTurn)
  BY LoopHolds, CallsInTurnInit, CallsInTurnNext, PTL DEF CommandSpec
<1> QED
  BY <1>1, <1>2, <1>3, <1>4, <1>5, PTL DEF CommandSpec, BoundedCommand
=============================================================================
