--------------------------- MODULE AdFetch_proofs ---------------------------
(***************************************************************************)
(* Proofs about GetAdvertisement and List, for every chain, every client,  *)
(* every n and segment size, and any number of calls: what they return is  *)
(* what was asked for, and without a failure they succeed.                 *)
(***************************************************************************)
EXTENDS AdFetch, SequenceTheorems, TLAPS

CallType ==
  [op : Ops, pc : {"idle", "sync", "load"}, want : Nat, n : Nat, adCid : Nat,
   attempt : Nat, left : Nat, result : {"none", "ok", "failed", "not found"}]

Types ==
  /\ head \in 0..MaxAds /\ opts \in Options /\ stored \subseteq 1..head
  /\ call \in CallType /\ out \in Seq(Int)
  /\ since \in 0..head /\ faulty \in BOOLEAN /\ calls \in 0..MaxCalls

Ranges ==
  /\ call.want <= head /\ call.adCid <= head
  /\ call.attempt <= opts.retry /\ call.left <= call.n
  /\ call.pc # "idle" => call.result = "none"

(* The ad that a call without an ad is answered from, or the ad of the call.  *)
Answers(first) ==
  IF call.want = Undef THEN first \in since..head ELSE first = call.want

(* A retry asks for the head instead of the ad.                               *)
Getting ==
  call.op = "get" =>
    /\ call.n = 0 /\ Len(out) <= head
    /\ call.pc = "sync" => call.adCid = call.want \/ (call.adCid = Undef /\ opts.retry > 0)
    /\ call.pc = "load" =>
         /\ IF call.want = Undef THEN call.adCid \in since..head
            ELSE opts.retry = 0 => call.adCid = call.want
         /\ since > 0 => call.adCid > 0
         /\ call.adCid > 0 => call.adCid \in stored

(* What has been written goes from the first ad down.                         *)
Follows(first) ==
  /\ Answers(first)
  /\ Len(out) <= first
  /\ \A i \in 1..Len(out) : out[i] = first - i + 1

Served == opts.del => call.n <= SegmentSize

(* What is still to be written is in the store, if it is not deleted by the   *)
(* hook between two segments.                                                 *)
Reading(first) ==
  /\ Len(out) + call.left = call.n
  /\ call.adCid = first - Len(out)
  /\ Len(out) > 0 => call.adCid > 0
  /\ Served => \A k \in 1..call.adCid : k > first - DepthCut(first, call.n) => k \in stored

Complete(first) ==
  call.result = "ok" /\ call.n > 0 => Len(out) > 0 /\ Len(out) = DepthCut(first, call.n)

Listing ==
  call.op = "list" =>
    /\ call.pc = "sync" => out = <<>> /\ call.left = call.n /\ call.adCid = call.want
    /\ \E first \in 0..head :
         /\ Follows(first)
         /\ call.pc = "load" => Reading(first)
         /\ call.pc = "idle" => Complete(first)

Inv ==
  /\ Types /\ Ranges /\ Getting /\ Listing
  /\ GetsAsked /\ FaultFreeSucceeds

-----------------------------------------------------------------------------
LEMMA Fields ==
  ASSUME call \in CallType
  PROVE  /\ call.op \in Ops /\ call.pc \in {"idle", "sync", "load"}
         /\ call.want \in Nat /\ call.n \in Nat /\ call.adCid \in Nat
         /\ call.attempt \in Nat /\ call.left \in Nat
         /\ call.result \in {"none", "ok", "failed", "not found"}
  BY DEF CallType

LEMMA Known ==
  ASSUME Types
  PROVE  /\ call \in CallType /\ call.op \in {"get", "list"}
         /\ call.pc \in {"idle", "sync", "load"}
         /\ call.want \in Nat /\ call.n \in Nat /\ call.adCid \in Nat
         /\ call.attempt \in Nat /\ call.left \in Nat
         /\ out \in Seq(Int) /\ Len(out) \in Nat
         /\ MaxAds \in Nat /\ MaxCalls \in Nat /\ SegmentSize \in Nat
         /\ head \in Nat /\ head <= MaxAds /\ since \in Nat /\ since <= head
         /\ opts.retry \in Nat
<1>1. call \in CallType /\ opts \in Options /\ out \in Seq(Int)
  BY DEF Types
<1>2. opts.retry \in Nat
  BY <1>1, BoundsAssumption
<1>3. MaxAds \in Nat /\ MaxCalls \in Nat /\ SegmentSize \in Nat
  BY BoundsAssumption
<1>4. head \in Nat /\ head <= MaxAds /\ since \in Nat /\ since <= head
  BY <1>3 DEF Types
<1>5. /\ call.op \in {"get", "list"} /\ call.pc \in {"idle", "sync", "load"}
      /\ call.want \in Nat /\ call.n \in Nat /\ call.adCid \in Nat
      /\ call.attempt \in Nat /\ call.left \in Nat
  BY <1>1, Fields DEF Ops
<1>6. Len(out) \in Nat
  BY <1>1
<1> QED
  BY <1>1, <1>2, <1>3, <1>4, <1>5, <1>6

(* Arithmetic on positions of the chain.                                      *)
LEMMA Cut ==
  ASSUME NEW first \in Nat, NEW n \in Nat
  PROVE  /\ DepthCut(first, n) \in 0..first
         /\ \A len \in Nat : len < n /\ len < first => first - len > first - DepthCut(first, n)
         /\ \A len \in Nat : len = first /\ len <= n => len = DepthCut(first, n)
         /\ n > 0 /\ n < first => n = DepthCut(first, n)
  BY DEF DepthCut

LEMMA SyncedIsPublished ==
  ASSUME Types, NEW newest \in 0..head
  PROVE  /\ Synced(newest) \subseteq 1..head
         /\ call.op = "get" => Synced(newest) = {newest} \ {Undef}
         /\ call.op = "list" /\ Served =>
              Synced(newest) = newest - DepthCut(newest, call.n) + 1 .. newest
<1>1. head \in Nat /\ newest \in Nat /\ newest <= head /\ call.n \in Nat /\ SegmentSize \in Nat
  BY Known
<1>2. DepthCut(newest, call.n) \in 0..newest
  BY <1>1, Cut
<1>3. {newest} \ {Undef} \subseteq 1..head
  BY <1>1 DEF Undef
<1>4. newest - DepthCut(newest, call.n) + 1 .. newest \subseteq 1..head
  BY <1>1, <1>2
<1>5. call.op = "list" /\ Served => ~(opts.del /\ call.n > SegmentSize)
  BY <1>1 DEF Served
<1> QED
  BY <1>3, <1>4, <1>5 DEF Synced

LEMMA NewestIsPublished ==
  ASSUME Types, Ranges
  PROVE  /\ Newest \in 0..head
         /\ since > 0 => Newest > 0
         /\ call.adCid = Undef => Newest \in since..head
         /\ call.adCid # Undef => Newest = call.adCid
  BY Known DEF Ranges, Newest, Undef

LEMMA InvInit == Init => Inv
<1> SUFFICES ASSUME Init PROVE Inv
  OBVIOUS
<1>1. MaxAds \in Nat /\ MaxCalls \in Nat /\ opts.retry \in Nat
  BY BoundsAssumption DEF Init
<1>2. call = [op |-> "get", pc |-> "idle", want |-> Undef, n |-> 0, adCid |-> Undef,
              attempt |-> 0, left |-> 0, result |-> "none"]
  BY DEF Init
<1>3. Types
  <2>1. call \in CallType
    BY <1>2 DEF CallType, Ops, Undef
  <2> QED
    <3>1. head \in 0..head /\ 0 \in 0..MaxCalls /\ <<>> \in Seq(Int)
      BY <1>1 DEF Init
    <3> QED
      BY <2>1, <3>1 DEF Init, Types
<1>4. Ranges
  BY <1>1, <1>2 DEF Init, Ranges, Undef
<1> QED
  <2>1. /\ call.op = "get" /\ call.pc = "idle" /\ call.n = 0 /\ call.result = "none"
        /\ Len(out) = 0 /\ head \in Nat
    BY <1>1, <1>2 DEF Init
  <2> QED
    BY <1>3, <1>4, <2>1 DEF Inv, Getting, Listing, GetsAsked, FaultFreeSucceeds

-----------------------------------------------------------------------------
(* A chain that grows disturbs nothing that was asked for before.             *)
LEMMA PublishInv ==
  ASSUME Inv, Publish
  PROVE  Inv'
<1>1. /\ head \in Nat /\ head < MaxAds /\ MaxAds \in Nat /\ head' = head + 1
      /\ UNCHANGED <<opts, stored, call, out, since, faulty, calls>>
  BY Known DEF Inv, Publish
<1>2. 1..head \subseteq 1..head' /\ 0..head \subseteq 0..head' /\ since..head \subseteq since..head'
  BY <1>1 DEF Inv, Types
<1>3. Types'
  <2>1. head' \in 0..MaxAds /\ since \in 0..head' /\ stored \subseteq 1..head'
    BY <1>1, <1>2 DEF Inv, Types
  <2> QED
    BY <1>1, <2>1 DEF Inv, Types, CallType
<1>4. Ranges'
  <2>1. call.want \in Nat /\ call.adCid \in Nat
    BY Known DEF Inv
  <2>2. call.want <= head' /\ call.adCid <= head'
    BY <1>1, <2>1 DEF Inv, Ranges
  <2> QED
    BY <1>1, <2>2 DEF Inv, Ranges
<1>5. \A f : Answers(f) => Answers(f)'
  BY <1>1, <1>2 DEF Answers
<1>6. Getting'
  <2>1. Len(out) \in Nat /\ (Len(out) <= head => Len(out) <= head')
    BY <1>1, Known DEF Inv
  <2> QED
    BY <1>1, <1>2, <2>1 DEF Inv, Getting
<1>7. \A f : Follows(f) => Follows(f)'
  BY <1>1, <1>5 DEF Follows
<1>8. \A f : (Reading(f) => Reading(f)') /\ (Complete(f) => Complete(f)')
  BY <1>1 DEF Reading, Complete, Served
<1>9. Listing'
  BY <1>1, <1>2, <1>7, <1>8 DEF Inv, Listing
<1>10. GetsAsked' /\ FaultFreeSucceeds'
  BY <1>1, <1>2 DEF Inv, GetsAsked, FaultFreeSucceeds
<1> QED
  BY <1>3, <1>4, <1>6, <1>9, <1>10 DEF Inv

LEMMA CallInv ==
  ASSUME Inv, NEW op \in Ops, Call(op)
  PROVE  Inv'
<1>1. PICK want \in 0..head, n \in IF op = "list" THEN Numbers ELSE {0} :
        call' = [op |-> op, pc |-> "sync", want |-> want, n |-> n, adCid |-> want,
                 attempt |-> 0, left |-> n, result |-> "none"]
  BY DEF Call
<1>2. /\ out' = <<>> /\ since' = head /\ faulty' = FALSE /\ calls' = calls + 1
      /\ calls < MaxCalls /\ UNCHANGED <<head, opts, stored>>
  BY DEF Call
<1>3. /\ n \in Nat /\ want \in Nat /\ want <= head /\ head \in Nat /\ opts.retry \in Nat
      /\ MaxCalls \in Nat
  BY <1>1, BoundsAssumption DEF Inv, Types
<1>4. Types'
  <2>1. call' \in CallType
    BY <1>1, <1>3 DEF CallType
  <2>2. head \in 0..head /\ calls' \in 0..MaxCalls /\ out' \in Seq(Int)
    BY <1>2, <1>3 DEF Inv, Types
  <2> QED
    BY <1>2, <2>1, <2>2 DEF Inv, Types, CallType
<1>5. /\ call'.op = op /\ call'.pc = "sync" /\ call'.want = want /\ call'.n = n
      /\ call'.adCid = want /\ call'.attempt = 0 /\ call'.left = n /\ call'.result = "none"
  BY <1>1
<1>6. Ranges'
  BY <1>2, <1>3, <1>5 DEF Ranges
<1>7. Getting'
  <2>1. op = "get" => n = 0
    BY <1>1
  <2>2. Len(out') <= head
    BY <1>2, <1>3
  <2> QED
    BY <1>2, <1>5, <2>1, <2>2 DEF Getting
<1>8. PICK f \in 0..head : f = IF want = Undef THEN head ELSE want
  BY <1>3
<1>9. Follows(f)'
  BY <1>2, <1>3, <1>5, <1>8 DEF Follows, Answers
<1>10. Listing'
  BY <1>2, <1>5, <1>9 DEF Listing
<1>11. GetsAsked' /\ FaultFreeSucceeds'
  BY <1>5 DEF GetsAsked, FaultFreeSucceeds
<1> QED
  BY <1>4, <1>6, <1>7, <1>10, <1>11 DEF Inv

-----------------------------------------------------------------------------
(* The fields of the call when it has returned.                               *)
LEMMA Returned ==
  ASSUME call \in CallType, NEW r \in {"none", "ok", "failed", "not found"}, Return(r)
  PROVE  /\ call' \in CallType
         /\ call'.pc = "idle" /\ call'.result = r /\ call'.op = call.op
         /\ call'.want = call.want /\ call'.n = call.n /\ call'.adCid = call.adCid
         /\ call'.attempt = call.attempt /\ call'.left = call.left
  BY DEF Return, CallType

(* A call that fails, because something has.                                  *)
LEMMA FailInv ==
  ASSUME Inv, call.pc # "idle", NEW r \in {"failed", "not found"}, Return(r),
         stored' \subseteq 1..head, faulty' \in BOOLEAN,
         ~faulty' /\ since > 0 /\ Served => FALSE,
         UNCHANGED <<head, opts, out, since, calls>>
  PROVE  Inv'
<1>1. /\ call' \in CallType
      /\ call'.pc = "idle" /\ call'.result = r /\ call'.op = call.op
      /\ call'.want = call.want /\ call'.n = call.n /\ call'.adCid = call.adCid
      /\ call'.attempt = call.attempt /\ call'.left = call.left
  BY Returned DEF Inv, Types
<1>2. Types'
  BY <1>1 DEF Inv, Types, CallType
<1>3. Ranges'
  BY <1>1 DEF Inv, Ranges
<1>4. Getting'
  BY <1>1 DEF Inv, Getting
<1>5. \A f : Follows(f) => Follows(f)'
  BY <1>1 DEF Follows, Answers
<1>6. \A f : Complete(f)'
  BY <1>1 DEF Complete
<1>7. Listing'
  BY <1>1, <1>5, <1>6 DEF Inv, Listing
<1>8. GetsAsked' /\ FaultFreeSucceeds'
  BY <1>1 DEF GetsAsked, FaultFreeSucceeds, Served
<1> QED
  BY <1>2, <1>3, <1>4, <1>7, <1>8 DEF Inv

LEMMA SyncInv ==
  ASSUME Inv, Sync
  PROVE  Inv'
<1>1. /\ call.pc = "sync" /\ stored' = stored \cup Synced(Newest)
      /\ call' = [call EXCEPT !.pc = "load", !.adCid = Newest]
      /\ UNCHANGED <<head, opts, out, since, faulty, calls>>
  BY DEF Sync
<1>2. PICK newest \in 0..head : newest = Newest
  BY NewestIsPublished DEF Inv
<1>3. /\ call \in CallType /\ newest \in Nat /\ newest <= head /\ head \in Nat
      /\ since \in Nat /\ stored \subseteq 1..head
  BY <1>2 DEF Inv, Types
<1>4. /\ call' \in CallType /\ call'.pc = "load" /\ call'.adCid = newest
      /\ call'.op = call.op /\ call'.want = call.want /\ call'.n = call.n
      /\ call'.attempt = call.attempt /\ call'.left = call.left /\ call'.result = call.result
  BY <1>1, <1>2, <1>3 DEF CallType
<1>5. /\ Synced(newest) \subseteq 1..head
      /\ call.op = "get" => Synced(newest) = {newest} \ {Undef}
      /\ call.op = "list" /\ Served =>
           Synced(newest) = newest - DepthCut(newest, call.n) + 1 .. newest
  BY <1>2, SyncedIsPublished DEF Inv
<1>6. /\ since > 0 => newest > 0
      /\ call.adCid = Undef => newest \in since..head
      /\ call.adCid # Undef => newest = call.adCid
  BY <1>2, NewestIsPublished DEF Inv
<1>7. Types'
  BY <1>1, <1>2, <1>3, <1>4, <1>5 DEF Inv, Types, CallType
<1>8. Ranges'
  BY <1>1, <1>3, <1>4 DEF Inv, Ranges
<1>9. Getting'
  <2> SUFFICES ASSUME call.op = "get" PROVE Getting'
    BY <1>4 DEF Getting
  <2>1. call.n = 0 /\ Len(out) <= head /\ (call.adCid = call.want \/ (call.adCid = Undef /\ opts.retry > 0))
    BY <1>1 DEF Inv, Getting
  <2>2. newest > 0 => newest \in stored'
    BY <1>1, <1>2, <1>3, <1>5 DEF Undef
  <2>3. IF call.want = Undef THEN newest \in since..head ELSE opts.retry = 0 => newest = call.want
    BY <1>6, <2>1
  <2> QED
    BY <1>1, <1>4, <1>6, <2>1, <2>2, <2>3 DEF Getting
<1>10. Listing'
  <2> SUFFICES ASSUME call.op = "list" PROVE Listing'
    BY <1>4 DEF Listing
  <2>1. out = <<>> /\ call.left = call.n /\ call.adCid = call.want
    BY <1>1 DEF Inv, Listing
  <2>2. Answers(newest)'
    BY <1>1, <1>4, <1>6, <2>1 DEF Answers
  <2>3. Follows(newest)'
    BY <1>1, <1>3, <2>1, <2>2 DEF Follows
  <2>4. Served => \A k \in 1..newest : k > newest - DepthCut(newest, call.n) => k \in stored'
    <3> SUFFICES ASSUME Served, NEW k \in 1..newest, k > newest - DepthCut(newest, call.n)
                 PROVE  k \in Synced(newest)
      BY <1>1, <1>2
    <3>1. call.n \in Nat
      BY <1>3 DEF CallType
    <3>2. DepthCut(newest, call.n) \in 0..newest
      BY <1>3, <3>1, Cut
    <3> QED
      BY <1>3, <1>5, <3>2
  <2>5. call.n \in Nat
    BY <1>3 DEF CallType
  <2>6. Reading(newest)'
    BY <1>1, <1>3, <1>4, <2>1, <2>4, <2>5 DEF Reading, Served
  <2> QED
    BY <1>1, <1>2, <1>4, <2>3, <2>6 DEF Listing
<1>11. GetsAsked' /\ FaultFreeSucceeds'
  BY <1>1, <1>4 DEF Inv, Ranges, GetsAsked, FaultFreeSucceeds
<1> QED
  BY <1>7, <1>8, <1>9, <1>10, <1>11 DEF Inv

LEMMA SyncFailsInv ==
  ASSUME Inv, SyncFails
  PROVE  Inv'
<1>1. /\ call.pc = "sync" /\ faulty' = TRUE
      /\ UNCHANGED <<head, opts, out, since, calls>>
  BY DEF SyncFails
<1>2. PICK kept \in Kept : stored' = stored \cup kept
  BY DEF SyncFails
<1>3. stored' \subseteq 1..head
  <2>1. Synced(Newest) \subseteq 1..head
    BY NewestIsPublished, SyncedIsPublished DEF Inv
  <2> QED
    BY <1>2, <2>1 DEF Kept, Inv, Types
<1>4. CASE call.op = "list" \/ call.attempt = opts.retry
  <2>1. Return("failed")
    BY <1>4 DEF SyncFails
  <2> QED
    BY <1>1, <1>3, <2>1, FailInv
<1>5. CASE ~(call.op = "list" \/ call.attempt = opts.retry)
  <2>1. call' = [call EXCEPT !.adCid = Undef, !.attempt = @ + 1] /\ call.op = "get"
    BY <1>5, Known DEF SyncFails, Inv
  <2>2. call \in CallType /\ opts.retry \in Nat /\ head \in Nat /\ call.attempt \in Nat
    BY Known DEF Inv
  <2>3. call.attempt \in Nat /\ call.attempt < opts.retry
    <3>1. call.attempt <= opts.retry /\ call.attempt # opts.retry
      BY <1>5 DEF Inv, Ranges
    <3> QED
      BY <2>2, <3>1
  <2>4. /\ call' \in CallType /\ call'.adCid = Undef /\ call'.attempt = call.attempt + 1
        /\ call'.op = "get" /\ call'.pc = "sync" /\ call'.want = call.want
        /\ call'.n = call.n /\ call'.left = call.left /\ call'.result = call.result
    <3>1. Undef \in Nat /\ call.attempt + 1 \in Nat
      BY <2>2 DEF Undef
    <3> QED
      BY <1>1, <2>1, <2>2, <3>1 DEF CallType
  <2>5. Types'
    BY <1>1, <1>3, <2>4 DEF Inv, Types, CallType
  <2>6. Ranges'
    BY <1>1, <2>2, <2>3, <2>4 DEF Inv, Ranges, Undef
  <2>7. opts.retry > 0
    BY <2>2, <2>3
  <2>8. Getting'
    BY <1>1, <2>1, <2>4, <2>7 DEF Inv, Getting
  <2> QED
    BY <1>1, <2>1, <2>4, <2>5, <2>6, <2>8
       DEF Inv, Ranges, Listing, GetsAsked, FaultFreeSucceeds
<1> QED
  BY <1>4, <1>5

-----------------------------------------------------------------------------
LEMMA GetAdInv ==
  ASSUME Inv, GetAd
  PROVE  Inv'
<1>1. /\ call.op = "get" /\ call.pc = "load" /\ out' = <<call.adCid>> /\ Return("ok")
      /\ UNCHANGED <<head, opts, since, faulty, calls>>
  BY DEF GetAd
<1>2. /\ call' \in CallType
      /\ call'.pc = "idle" /\ call'.result = "ok" /\ call'.op = "get"
      /\ call'.want = call.want /\ call'.n = call.n /\ call'.adCid = call.adCid
      /\ call'.attempt = call.attempt /\ call'.left = call.left
  BY <1>1, Returned DEF Inv, Types
<1>3. out' \in Seq(Int) /\ out'[1] = call.adCid
  <2>1. call.adCid \in Int
    BY Known DEF Inv
  <2> QED
    BY <1>1, <2>1
<1>4. Types'
  BY <1>1, <1>2, <1>3 DEF GetAd, Delete, Inv, Types, CallType
<1>5. Ranges'
  BY <1>1, <1>2 DEF Inv, Ranges
<1>6. Getting' /\ Listing'
  <2>1. call.adCid \in 1..head /\ head \in Nat
    BY Known DEF GetAd, Inv, Types
  <2>2. Len(out') <= head
    BY <1>1, <2>1
  <2> QED
    BY <1>1, <1>2, <2>2 DEF Inv, Getting, Listing
<1>7. GetsAsked'
  BY <1>1, <1>2, <1>3 DEF Inv, Getting, GetsAsked
<1>8. FaultFreeSucceeds'
  BY <1>2 DEF FaultFreeSucceeds
<1> QED
  BY <1>4, <1>5, <1>6, <1>7, <1>8 DEF Inv

LEMMA ListAdInv ==
  ASSUME Inv, ListAd
  PROVE  Inv'
<1>1. /\ call.op = "list" /\ call.pc = "load" /\ call.left > 0 /\ call.adCid \in stored
      /\ out' = Append(out, call.adCid) /\ Delete(call.adCid)
      /\ UNCHANGED <<head, opts, since, faulty, calls>>
  BY DEF ListAd
<1>2. PICK first \in 0..head : Follows(first) /\ Reading(first)
  BY <1>1 DEF Inv, Listing
<1>3. PICK len \in Nat, n \in Nat, left \in Nat, ad \in Nat :
        len = Len(out) /\ n = call.n /\ left = call.left /\ ad = call.adCid
  BY Known DEF Inv
<1>4. /\ head \in Nat /\ first \in Nat /\ first <= head /\ out \in Seq(Int) /\ ad <= head
      /\ stored \subseteq 1..head /\ call \in CallType /\ left <= n
  BY <1>2, <1>3 DEF Inv, Types, Ranges
<1>5. len + left = n /\ ad = first - len /\ left > 0 /\ ad >= 1
  BY <1>1, <1>2, <1>3, <1>4 DEF Reading
<1>6. /\ out' \in Seq(Int) /\ Len(out') = len + 1
      /\ \A i \in 1..(len + 1) : out'[i] = IF i = len + 1 THEN ad ELSE out[i]
  BY <1>1, <1>3, <1>4
<1>7. len + 1 <= first /\ \A i \in 1..(len + 1) : out'[i] = first - i + 1
  <2>1. len + 1 <= first
    BY <1>4, <1>5
  <2>2. \A i \in 1..len : out[i] = first - i + 1
    BY <1>2, <1>3 DEF Follows
  <2>3. ad = first - (len + 1) + 1
    BY <1>4, <1>5
  <2>4. \A i \in 1..(len + 1) : i # len + 1 => i \in 1..len
    OBVIOUS
  <2> QED
    BY <1>6, <2>1, <2>2, <2>3, <2>4
<1>8. stored' \subseteq stored /\ \A k \in stored : k # ad => k \in stored'
  BY <1>1, <1>3 DEF Delete
<1>9. CASE call.adCid - 1 = Undef
  <2>1. Return("ok")
    BY <1>9 DEF ListAd
  <2>2. /\ call' \in CallType
        /\ call'.pc = "idle" /\ call'.result = "ok" /\ call'.op = "list"
        /\ call'.want = call.want /\ call'.n = n /\ call'.adCid = ad
        /\ call'.attempt = call.attempt /\ call'.left = left
    BY <1>1, <1>3, <1>4, <2>1, Returned
  <2>3. Types'
    BY <1>1, <1>6, <1>8, <2>2 DEF Inv, Types, CallType
  <2>4. Ranges'
    BY <1>1, <1>3, <2>2 DEF Inv, Ranges
  <2>5. Follows(first)'
    BY <1>1, <1>2, <1>6, <1>7, <2>2 DEF Follows, Answers
  <2>6. Complete(first)'
    <3>1. len + 1 = first /\ len + 1 <= n
      BY <1>3, <1>4, <1>5, <1>9 DEF Undef
    <3>2. len + 1 = DepthCut(first, n)
      BY <1>4, <3>1, Cut
    <3> QED
      BY <1>3, <1>6, <2>2, <3>2 DEF Complete
  <2>7. Listing'
    BY <1>1, <1>2, <2>2, <2>5, <2>6 DEF Listing
  <2> QED
    BY <2>2, <2>3, <2>4, <2>7 DEF Inv, Getting, GetsAsked, FaultFreeSucceeds
<1>10. CASE call.adCid - 1 # Undef
  <2>1. call' = [call EXCEPT !.adCid = @ - 1, !.left = @ - 1]
    BY <1>10 DEF ListAd
  <2>2. ad - 1 \in Nat /\ left - 1 \in Nat /\ ad - 1 > 0
    BY <1>3, <1>5, <1>10 DEF Undef
  <2>3. /\ call' \in CallType /\ call'.adCid = ad - 1 /\ call'.left = left - 1
        /\ call'.pc = "load" /\ call'.op = "list" /\ call'.result = call.result
        /\ call'.want = call.want /\ call'.n = n /\ call'.attempt = call.attempt
    BY <1>1, <1>3, <1>4, <2>1, <2>2 DEF CallType
  <2>4. Types'
    BY <1>1, <1>6, <1>8, <2>3 DEF Inv, Types, CallType
  <2>5. Ranges'
    <3>1. ad - 1 <= head /\ left - 1 <= n
      BY <1>4, <2>2
    <3> QED
      BY <1>1, <2>3, <3>1 DEF Inv, Ranges
  <2>6. Follows(first)'
    BY <1>1, <1>2, <1>6, <1>7, <2>3 DEF Follows, Answers
  <2>7. Reading(first)'
    <3>1. len + 1 + (left - 1) = n /\ ad - 1 = first - (len + 1)
      BY <1>4, <1>5
    <3>2. Served => \A k \in 1..(ad - 1) : k > first - DepthCut(first, n) => k \in stored'
      <4>1. \A k \in 1..(ad - 1) : k \in 1..ad /\ k # ad
        OBVIOUS
      <4> QED
        BY <1>2, <1>3, <1>8, <4>1 DEF Reading
    <3>3. Served' <=> Served
      BY <1>1, <1>3, <2>3 DEF Served
    <3> QED
      BY <1>6, <2>2, <2>3, <3>1, <3>2, <3>3 DEF Reading
  <2>8. Listing'
    BY <1>1, <1>2, <2>3, <2>6, <2>7 DEF Listing
  <2> QED
    BY <1>1, <2>3, <2>4, <2>5, <2>8 DEF Inv, Ranges, Getting, GetsAsked, FaultFreeSucceeds
<1> QED
  BY <1>9, <1>10

LEMMA ListDoneInv ==
  ASSUME Inv, ListDone
  PROVE  Inv'
<1>1. /\ call.op = "list" /\ call.pc = "load" /\ call.left = 0 /\ Return("ok")
      /\ UNCHANGED <<head, opts, stored, out, since, faulty, calls>>
  BY DEF ListDone
<1>2. /\ call' \in CallType
      /\ call'.pc = "idle" /\ call'.result = "ok" /\ call'.op = "list"
      /\ call'.want = call.want /\ call'.n = call.n /\ call'.adCid = call.adCid
      /\ call'.attempt = call.attempt /\ call'.left = call.left
  BY <1>1, Returned DEF Inv, Types
<1>3. PICK first \in 0..head : Follows(first) /\ Reading(first)
  BY <1>1 DEF Inv, Listing
<1>4. PICK len \in Nat, n \in Nat, ad \in Nat :
        len = Len(out) /\ n = call.n /\ ad = call.adCid
  BY Known DEF Inv
<1>5. first \in Nat
  BY <1>3 DEF Inv, Types
<1>6. len = n /\ ad = first - len /\ (len > 0 => ad > 0)
  BY <1>1, <1>3, <1>4 DEF Reading
<1>7. n > 0 => len > 0 /\ len = DepthCut(first, n)
  BY <1>5, <1>6, Cut
<1>8. Complete(first)' /\ Follows(first)'
  BY <1>1, <1>2, <1>3, <1>4, <1>7 DEF Complete, Follows, Answers
<1>9. Listing'
  BY <1>1, <1>2, <1>3, <1>8 DEF Listing
<1>10. Types'
  BY <1>1, <1>2 DEF Inv, Types, CallType
<1>11. Ranges'
  BY <1>1, <1>2 DEF Inv, Ranges
<1> QED
  BY <1>2, <1>9, <1>10, <1>11 DEF Inv, Getting, GetsAsked, FaultFreeSucceeds

(* What a call without a failure looks for has been synced.                   *)
LEMMA LoadFailsInv ==
  ASSUME Inv, LoadFails
  PROVE  Inv'
<1>1. /\ call.pc = "load" /\ (call.op = "list" => call.left > 0)
      /\ call.adCid \notin stored /\ Return("not found")
      /\ UNCHANGED <<head, opts, stored, out, since, faulty, calls>>
  BY DEF LoadFails
<1>2. ASSUME ~faulty, since > 0, Served PROVE FALSE
  <2>1. CASE call.op = "get"
    BY <1>1, <1>2, <2>1 DEF Inv, Getting
  <2>2. CASE call.op = "list"
    <3>1. PICK first \in 0..head : Follows(first) /\ Reading(first)
      BY <1>1, <2>2 DEF Inv, Listing
    <3>2. PICK len \in Nat, n \in Nat, left \in Nat, ad \in Nat :
            len = Len(out) /\ n = call.n /\ left = call.left /\ ad = call.adCid
      BY Known DEF Inv
    <3>3. first \in Nat /\ call.want \in Nat /\ since \in Nat
      BY <3>1, Known DEF Inv
    <3>4. first > 0
      <4>1. call.want = Undef => first >= since
        BY <3>1, <3>3 DEF Follows, Answers, Inv, Types
      <4>2. call.want # Undef => first > 0
        BY <3>1, <3>3 DEF Follows, Answers, Undef
      <4> QED
        BY <1>2, <3>3, <4>1, <4>2
    <3>5. len + left = n /\ ad = first - len /\ (len > 0 => ad > 0) /\ left > 0
      BY <1>1, <2>2, <3>1, <3>2 DEF Reading
    <3>6. ad > 0 /\ len < n /\ len < first
      BY <3>2, <3>3, <3>4, <3>5
    <3>7. ad > first - DepthCut(first, n)
      BY <3>3, <3>5, <3>6, Cut
    <3>8. ad \in 1..ad
      BY <3>6
    <3> QED
      BY <1>1, <1>2, <3>1, <3>2, <3>7, <3>8 DEF Reading
  <2> QED
    BY <2>1, <2>2, Known DEF Inv
<1> QED
  BY <1>1, <1>2, FailInv DEF Inv, Types

LEMMA BadAdInv ==
  ASSUME Inv, BadAd
  PROVE  Inv'
<1>1. stored' \subseteq 1..head
  BY DEF BadAd, Delete, Inv, Types
<1> QED
  BY <1>1, FailInv DEF BadAd

LEMMA InvNext == Inv /\ [Next]_vars => Inv'
<1> SUFFICES ASSUME Inv, [Next]_vars PROVE Inv'
  OBVIOUS
<1>1. CASE UNCHANGED vars
  <2>1. UNCHANGED <<head, opts, stored, call, out, since, faulty, calls>>
    BY <1>1 DEF vars
  <2>2. Types' /\ Ranges' /\ Getting' /\ GetsAsked' /\ FaultFreeSucceeds'
    BY <2>1 DEF Inv, Types, CallType, Ranges, Getting, GetsAsked, FaultFreeSucceeds
  <2>3. Listing'
    BY <2>1 DEF Inv, Listing, Follows, Answers, Reading, Served, Complete
  <2> QED
    BY <2>2, <2>3 DEF Inv
<1> QED
  BY <1>1, PublishInv, CallInv, SyncInv, SyncFailsInv, GetAdInv, ListAdInv, ListDoneInv,
     LoadFailsInv, BadAdInv DEF Next, Step

LEMMA InvHolds == Spec => []Inv
  BY InvInit, InvNext, PTL DEF Spec

-----------------------------------------------------------------------------
(* The client's state is well-formed: no ad is stored that was never          *)
(* published, and List writes no more ads than there are.                     *)
THEOREM FetchTypeCorrect == Spec => []TypeOK
<1>1. Inv => TypeOK
  <2> SUFFICES ASSUME Inv PROVE TypeOK
    OBVIOUS
  <2>1. /\ call.want \in 0..head /\ call.adCid \in 0..head
        /\ call.attempt \in 0..opts.retry /\ call.left \in 0..call.n
    BY Known DEF Inv, Ranges
  <2>2. Len(out) <= MaxAds
    <3>1. PICK len \in Nat : len = Len(out)
      BY DEF Inv, Types
    <3>2. CASE call.op = "get"
      BY <3>1, <3>2, Known DEF Inv, Getting
    <3>3. CASE call.op = "list"
      <4>1. PICK first \in 0..head : Len(out) <= first
        BY <3>3 DEF Inv, Listing, Follows
      <4> QED
        BY <3>1, <4>1, Known DEF Inv
    <3> QED
      BY <3>2, <3>3, Known DEF Inv
  <2> QED
    BY <2>1, <2>2, Known DEF TypeOK, Inv, Types, Ops
<1> QED
  BY <1>1, InvHolds, PTL

(* GetAdvertisement returns the ad it was asked for, or a head of the time of *)
(* the call, whatever failed before and whatever earlier calls have left in   *)
(* the store.                                                                 *)
THEOREM GetIsRight == Spec => []GetsAsked
<1>1. Inv => GetsAsked
  BY DEF Inv
<1> QED
  BY <1>1, InvHolds, PTL

(* List writes the ads from the one asked for back, without a gap, and, when  *)
(* it succeeds, n of them or all there are.                                   *)
THEOREM ListIsExact == Spec => []ListExact
<1>1. Inv => ListExact
  <2> SUFFICES ASSUME Inv, call.op = "list", call.n > 0 PROVE Listed(call.n)
    BY DEF ListExact
  <2>1. PICK first \in 0..head :
          Follows(first) /\ (call.pc = "idle" => Complete(first))
    BY DEF Inv, Listing
  <2>2. PICK len \in Nat : len = Len(out)
    BY DEF Inv, Types
  <2>3. first \in Nat /\ DOMAIN out = 1..len /\ (out # <<>> <=> len > 0)
    BY <2>1, <2>2 DEF Inv, Types
  <2>4. \A i \in 1..len : out[i] = first - i + 1
    BY <2>1, <2>2 DEF Follows
  <2>5. \A i \in DOMAIN out : i > 1 => out[i] = out[i - 1] - 1
    <3>1. \A i \in 1..len : i > 1 => i - 1 \in 1..len /\ first - i + 1 = first - (i - 1) + 1 - 1
      BY <2>3
    <3> QED
      BY <2>3, <2>4, <3>1
  <2>6. out # <<>> => out[1] = first
    BY <2>3, <2>4
  <2>7. call.result = "ok" => Len(out) > 0 /\ Len(out) = DepthCut(first, call.n)
    BY <2>1 DEF Inv, Ranges, Complete
  <2> QED
    BY <2>1, <2>2, <2>3, <2>5, <2>6, <2>7 DEF Listed, Follows, Answers
<1> QED
  BY <1>1, InvHolds, PTL

(* Without a failure, ads that were published are fetched and listed, by all  *)
(* clients but those that delete what they read and list more than a segment. *)
THEOREM FetchSucceeds == Spec => []FaultFreeSucceeds
<1>1. Inv => FaultFreeSucceeds
  BY DEF Inv
<1> QED
  BY <1>1, InvHolds, PTL
=============================================================================
