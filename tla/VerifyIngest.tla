---------------------------- MODULE VerifyIngest ----------------------------
(***************************************************************************)
(* `verify ingest` (pkg/verify/ingest.go): the multihashes of some ads of  *)
(* a provider's chain, or of a CAR file, are sampled (AdStats.Sample,      *)
(* pkg/adpub/ad_stats.go), looked up at the indexer batch by batch, and    *)
(* counted; the counts decide whether the verification passes.             *)
(***************************************************************************)
EXTENDS AdChain, FiniteSets, Functions

CONSTANTS
  Kinds,        \* what an ad may be: [rm, ctx, ends], ends[c] the multihashes of
                \* its first c chunks of entries, <<>> for no entries
  MaxAds,       \* bound: ads on the chain
  CarMhs,       \* multihashes of the CAR file
  Depths,       \* what --ad-depth-limit may be
  EntriesDepth, \* --entries-depth-limit, 0 for none
  BatchSize,    \* --batch-size
  MaxFaults     \* bound: calls to the publisher and the indexer that fail

ASSUME BoundsAssumption ==
  /\ {MaxAds, CarMhs, MaxFaults, EntriesDepth} \subseteq Nat
  /\ Depths \subseteq Nat           \* verifyIngestFromProvider refuses less
  /\ BatchSize \in Nat \ {0}       \* nobody refuses 0: the batches never end
  /\ \A k \in Kinds : k.rm \in BOOLEAN /\ k.ends \in Seq(Nat)
  /\ \A k \in Kinds : \A c, d \in DOMAIN k.ends : c <= d => k.ends[c] <= k.ends[d]

VARIABLES
  chain,     \* chain[k]: what the k-th ad is; the last one is the head
  opts,      \* the source of the multihashes, the ad to start at, Undef if it is
             \* not given, how many ads to verify, and whether the sampling
             \* probability is 1: [source, adCid, lastSeen, depth, sampleAll]
  seen,      \* the indexer's last seen ad
  faults,    \* calls that have failed
  walk,      \* verifyIngestFromProvider: [pc, i, adCid, ad, verdict]
  stats,     \* AdStats: [rm, noLonger, nonRm, removed], the counts of
             \* removal, no longer provided and other ads, and ctxIDRm
  pending,   \* multihashes sampled and not yet looked up, a sequence
  result,    \* the verifyResult of the multihashes of one ad
  agg,       \* the verifyResult of all
  asked,     \* history: the lookups, a set of [mh, answer]
  visited    \* history: the ads verified or skipped, a sequence

vars == <<chain, opts, seen, faults, walk, stats, pending, result, agg, asked,
          visited>>
input == <<chain, opts, seen>>

Answers == {"present", "mismatch", "no providers", "no result"}

NoResult == [total |-> 0, present |-> 0, mismatch |-> 0, absent |-> 0,
             failed |-> 0, absentMhs |-> {}]

Init ==
  /\ chain \in UNION {[1..len -> Kinds] : len \in 1..MaxAds}
  /\ opts \in [source : {"provider", "car"}, adCid : 0..Len(chain),
              lastSeen : BOOLEAN, depth : Depths, sampleAll : BOOLEAN]
  /\ opts.source = "car" => opts.adCid = Undef /\ ~opts.lastSeen
  /\ seen \in 0..Len(chain)
  /\ faults = 0
  /\ walk = [pc |-> "start", i |-> 1, adCid |-> Undef, ad |-> Undef, verdict |-> "none"]
  /\ stats = [rm |-> 0, noLonger |-> 0, nonRm |-> 0, removed |-> {}]
  /\ pending = <<>>
  /\ result = NoResult /\ agg = NoResult
  /\ asked = {} /\ visited = <<>>

Fault == faults < MaxFaults /\ faults' = faults + 1

MhsOf(k, n) == [j \in 1..n |-> <<k, j>>]

(* The chunks that can be read back: a sync stops at --entries-depth-limit,   *)
(* and a chunk with no multihashes ends the iterator.                         *)
MhsThrough(ad, c) == IF c = 0 THEN 0 ELSE ad.ends[c]
Empty(ad, c) == MhsThrough(ad, c) = MhsThrough(ad, c - 1)
Reached(ad) == {c \in 1..DepthCut(Len(ad.ends), EntriesDepth) : \A b \in 1..c : ~Empty(ad, b)}

(* The sampler of beforeVerifyIngest: it includes all, or some by chance. *)
Samples(mhs) ==
  IF opts.sampleAll THEN {mhs}
  ELSE LET Picks(n) == {f \in [1..n -> DOMAIN mhs] : \A i, j \in 1..n : i < j => f[i] < f[j]}
       IN  {[i \in DOMAIN f |-> mhs[f[i]]] : f \in UNION {Picks(n) : n \in 0..Len(mhs)}}

-----------------------------------------------------------------------------
(* verifyIngestAction: where the multihashes come from.  ad-last-seen wins:   *)
(* the test for both options asks for a flag that there is not, "last-seen".  *)
StartAt_adCid == opts.adCid
StartAt == IF opts.lastSeen THEN seen ELSE opts.adCid

StartProvider ==
  /\ walk.pc = "start" /\ opts.source = "provider"
  /\ walk' = [walk EXCEPT !.pc = "ad", !.adCid = StartAt]
  /\ UNCHANGED <<input, faults, stats, pending, result, agg, asked, visited>>

StartCar ==
  /\ walk.pc = "start" /\ opts.source = "car"
  /\ pending' \in Samples(MhsOf(Undef, CarMhs))
  /\ walk' = [walk EXCEPT !.pc = "lookup"]
  /\ UNCHANGED <<input, faults, stats, result, agg, asked, visited>>

(* The loop over the ads goes on. *)
More == walk.i <= opts.depth

(* An error before the end: nothing is printed about what was verified. *)
Aborts ==
  /\ walk.pc = "start" \/ (walk.pc = "ad" /\ More)
  /\ Fault
  /\ walk' = [walk EXCEPT !.pc = "aborted"]
  /\ UNCHANGED <<input, stats, pending, result, agg, asked, visited>>

-----------------------------------------------------------------------------
GetAd ==
  /\ walk.pc = "ad" /\ More
  /\ LET k == IF walk.adCid = Undef THEN Len(chain) ELSE walk.adCid
     IN  /\ walk' = [walk EXCEPT !.ad = k, !.pc =
                       IF chain[k].rm \/ chain[k].ends = <<>> THEN "next" ELSE "sample"]
         /\ visited' = Append(visited, k)
  /\ UNCHANGED <<input, faults, stats, pending, result, agg, asked>>

(* AdStats.Sample: an ad whose context ID a newer one has removed is not       *)
(* sampled.                                                                    *)
Recorded(st, ad) ==
  IF ad.rm THEN [st EXCEPT !.rm = @ + 1, !.removed = @ \cup {ad.ctx}]
  ELSE IF ad.ctx \in st.removed THEN [st EXCEPT !.nonRm = @ + 1, !.noLonger = @ + 1]
  ELSE [st EXCEPT !.nonRm = @ + 1]

NoSample(st, ad) == ad.rm \/ ad.ctx \in st.removed \/ ad.ends = <<>>

(* The loop calls it for ads that add entries only.  They are drained as far   *)
(* as they were synced and can be read back: a sync that fails, or a chunk     *)
(* that does not decode, leaves less, and Sample goes on with what there is.   *)
SampleAd ==
  /\ walk.pc = "sample"
  /\ LET ad == chain[walk.ad]
     IN  /\ stats' = Recorded(stats, ad)
         /\ IF NoSample(stats, ad)
            THEN UNCHANGED <<faults, pending>>
            ELSE \E c \in {0} \cup Reached(ad) :
                   /\ IF c + 1 \in Reached(ad) THEN Fault ELSE UNCHANGED faults
                   /\ pending' \in Samples(MhsOf(walk.ad, MhsThrough(ad, c)))
  /\ walk' = [walk EXCEPT !.pc = IF pending' = <<>> THEN "next" ELSE "lookup"]
  /\ UNCHANGED <<input, result, agg, asked, visited>>

(* No link to a previous ad ends the loop. *)
NextAd_fromHead ==
  /\ walk.pc = "next"
  /\ walk' = [walk EXCEPT !.pc = "ad", !.i = @ + 1, !.adCid = walk.ad - 1]
  /\ UNCHANGED <<input, faults, stats, pending, result, agg, asked, visited>>
NextAd ==
  /\ walk.pc = "next"
  /\ walk' = IF walk.ad - 1 = Undef
             THEN [walk EXCEPT !.pc = "print"]
             ELSE [walk EXCEPT !.pc = "ad", !.i = @ + 1, !.adCid = walk.ad - 1]
  /\ UNCHANGED <<input, faults, stats, pending, result, agg, asked, visited>>

LoopDone ==
  /\ walk.pc = "ad" /\ ~More
  /\ walk' = [walk EXCEPT !.pc = "print"]
  /\ UNCHANGED <<input, faults, stats, pending, result, agg, asked, visited>>

-----------------------------------------------------------------------------
(* verifyIngestFromMhs: full batches, and then the rest. *)
Batch == SubSeq(pending, 1, IF Len(pending) > BatchSize THEN BatchSize ELSE Len(pending))
Rest == SubSeq(pending, BatchSize + 1, Len(pending))

Add(r, s) ==
  [total     |-> r.total + s.total,       present |-> r.present + s.present,
   mismatch  |-> r.mismatch + s.mismatch, absent  |-> r.absent + s.absent,
   failed    |-> r.failed + s.failed,     absentMhs |-> r.absentMhs \cup s.absentMhs]

(* verifyIngest: the result of a batch the indexer answers.  An answer with   *)
(* no results at all is nil or empty, and takes an early return.              *)
Verified_anyProvider(mhs, answer) ==
  LET With(A) == {mh \in Range(mhs) : answer[mh] \in A}
      absent  == With({"no providers", "no result"})
  IN  [NoResult EXCEPT !.total = Len(mhs), !.absent = Cardinality(absent),
         !.present = Cardinality(With({"present", "mismatch"})), !.absentMhs = absent]
Verified_listsMismatch(mhs, answer) ==
  LET With(A) == {mh \in Range(mhs) : answer[mh] \in A}
      absent  == With({"mismatch", "no providers", "no result"})
  IN  [NoResult EXCEPT !.total = Len(mhs), !.absent = Cardinality(absent),
         !.present = Cardinality(With({"present"})), !.absentMhs = absent]
Verified(mhs, answer) ==
  LET With(A) == {mh \in Range(mhs) : answer[mh] \in A}
      absent  == With({"no providers", "no result"})
  IN  IF With({"no result"}) = Range(mhs)
      THEN [NoResult EXCEPT !.total = Len(mhs), !.absent = Len(mhs)]
      ELSE [NoResult EXCEPT !.total = Len(mhs), !.absent = Cardinality(absent),
              !.present = Cardinality(With({"present"})),
              !.mismatch = Cardinality(With({"mismatch"})), !.absentMhs = absent]

(* verifyIngest: the lookup fails. *)
Unverified(mhs) == [NoResult EXCEPT !.total = Len(mhs), !.failed = Len(mhs)]

Lookup ==
  /\ walk.pc = "lookup" /\ pending # <<>>
  /\ \E answer \in [Range(Batch) -> Answers] :
       /\ result' = Add(result, Verified(Batch, answer))
       /\ asked' = asked \cup {[mh |-> mh, answer |-> answer[mh]] : mh \in Range(Batch)}
  /\ pending' = Rest
  /\ UNCHANGED <<input, faults, walk, stats, agg, visited>>

LookupFails ==
  /\ walk.pc = "lookup" /\ pending # <<>>
  /\ Fault
  /\ result' = Add(result, Unverified(Batch))
  /\ asked' = asked \cup {[mh |-> mh, answer |-> "failed"] : mh \in Range(Batch)}
  /\ pending' = Rest
  /\ UNCHANGED <<input, walk, stats, agg, visited>>

AddResult_keeps ==
  /\ walk.pc = "lookup" /\ pending = <<>>
  /\ agg' = Add(agg, result)
  /\ walk' = [walk EXCEPT !.pc = IF opts.source = "car" THEN "print" ELSE "next"]
  /\ UNCHANGED <<input, faults, stats, pending, result, asked, visited>>
AddResult ==
  /\ walk.pc = "lookup" /\ pending = <<>>
  /\ agg' = Add(agg, result)
  /\ result' = NoResult
  /\ walk' = [walk EXCEPT !.pc = IF opts.source = "car" THEN "print" ELSE "next"]
  /\ UNCHANGED <<input, faults, stats, pending, asked, visited>>

(* verifyResult.print. *)
Verdict ==
  IF agg.total = 0 THEN "inconclusive"
  ELSE IF agg.present = agg.total THEN "passed" ELSE "failed"

PrintResult ==
  /\ walk.pc = "print"
  /\ walk' = [walk EXCEPT !.pc = "done", !.verdict = Verdict]
  /\ UNCHANGED <<input, faults, stats, pending, result, agg, asked, visited>>

-----------------------------------------------------------------------------
Step ==
  \/ StartProvider \/ StartCar \/ Aborts
  \/ GetAd \/ SampleAd \/ NextAd \/ LoopDone
  \/ Lookup \/ LookupFails \/ AddResult
  \/ PrintResult

Ended == walk.pc \in {"done", "aborted"}

Next == Step \/ (Ended /\ UNCHANGED vars)

Spec == Init /\ [][Next]_vars

-----------------------------------------------------------------------------
TypeOK ==
  /\ faults \in 0..MaxFaults
  /\ walk.pc \in {"start", "ad", "sample", "lookup", "next", "print", "done", "aborted"}
  /\ walk.i \in 1..(opts.depth + 1)
  /\ {walk.adCid, walk.ad} \subseteq 0..Len(chain)
  /\ walk.verdict \in {"none", "inconclusive", "passed", "failed"}
  /\ Len(visited) <= Len(chain)
  /\ \A q \in asked : q.answer \in Answers \cup {"failed"}

Count(A) == Cardinality({q \in asked : q.answer \in A})
All(field) == agg[field] + result[field]

(* The counts the user is shown tell the lookups apart, over all batches and  *)
(* ads: each multihash looked up is counted once, as what the indexer said.   *)
CountsMatchAnswers ==
  /\ All("total") = Cardinality(asked)
  /\ All("present") = Count({"present"})
  /\ All("mismatch") = Count({"mismatch"})
  /\ All("absent") = Count({"no providers", "no result"})
  /\ All("failed") = Count({"failed"})

(* What ad adds within --entries-depth-limit, up to its first empty chunk.    *)
Due(ad) == UNION {1..ad.ends[c] : c \in Reached(ad)}

(* "Passed" is said when something was looked up and the indexer confirmed    *)
(* every one of the multihashes: no failed batch and no skipped one hides     *)
(* behind it.  If all are to be sampled and nothing fails, those are the      *)
(* multihashes of all ads visited, EXCEPT what lies beyond                    *)
(* --entries-depth-limit, 100 chunks by default, or behind a chunk with no    *)
(* multihashes: that is never looked up, and "passed" is said all the same.   *)
PassedMeansPresent ==
  walk.verdict = "passed" =>
    /\ asked # {}
    /\ \A q \in asked : q.answer = "present"
    /\ opts.sampleAll /\ faults = 0 =>
         \A i \in DOMAIN visited :
           LET ad == chain[visited[i]]
           IN  ~ad.rm => \A j \in Due(ad) : [mh |-> <<visited[i], j>>,
                                            answer |-> "present"] \in asked

(* The ads verified are consecutive, as many as a positive --ad-depth-limit   *)
(* asks for unless the chain is shorter, and the first is the ad given, or    *)
(* the last ad the indexer has seen if that is asked for and it has seen any, *)
(* or else the head.  Where both are given nothing is said of the first: the  *)
(* code means to refuse that ("Cannot specify both ad-cid and ad-last-seen.") *)
(* and goes on.                                                               *)
VisitsInOrder ==
  /\ \A i \in DOMAIN visited : i > 1 => visited[i] = visited[i - 1] - 1
  /\ visited # <<>> /\ ~(opts.lastSeen /\ opts.adCid # Undef) =>
       visited[1] = IF opts.lastSeen /\ seen # Undef THEN seen
                    ELSE IF opts.adCid # Undef THEN opts.adCid
                    ELSE Len(chain)
  /\ Len(visited) <= opts.depth
  /\ walk.pc = "done" /\ opts.source = "provider" /\ opts.depth > 0 =>
       Len(visited) = DepthCut(visited[1], opts.depth)

(* --print-unindexed-mhs: what is printed as not indexed was looked up and is *)
(* counted as absent, and nothing the indexer knows without a provider is     *)
(* left out.  (The multihashes of an answer with no results at all are.)      *)
PrintedAreAbsent ==
  LET printed == agg.absentMhs \cup result.absentMhs
      With(A) == {q.mh : q \in {r \in asked : r.answer \in A}}
  IN  With({"no providers"}) \subseteq printed
      /\ printed \subseteq With({"no providers", "no result"})

(* "Removed in later advertisements; skipping verification.": what a newer ad *)
(* that was visited has removed is not looked up.                             *)
RemovedSkipped ==
  \A q \in asked : \A i, j \in DOMAIN visited :
    (i < j /\ visited[j] = q.mh[1] /\ chain[visited[i]].rm)
      => chain[visited[i]].ctx # chain[visited[j]].ctx
=============================================================================
