------------------------------ MODULE AdFetch ------------------------------
(***************************************************************************)
(* client.GetAdvertisement, with syncAdWithRetry, and client.List          *)
(* (pkg/adpub/client.go), with the store's getAdvertisement and list       *)
(* (pkg/adpub/client_store.go): fetching one ad of a chain, or the newest  *)
(* ones, called in turn on one client while the publisher goes on          *)
(* publishing.                                                             *)
(***************************************************************************)
EXTENDS AdChain, FiniteSets

CONSTANTS
  MaxAds,        \* bound: ads the publisher publishes
  Options,       \* clients: [retry, del] are maxSyncRetry and delAfterRead
  Numbers,       \* the n that List is called with
  SegmentSize,   \* syncSegmentSize
  MaxCalls       \* bound: calls of GetAdvertisement and List

ASSUME BoundsAssumption ==
  /\ {MaxAds, MaxCalls} \subseteq Nat /\ Numbers \subseteq Nat
  /\ SegmentSize \in Nat \ {0}
  /\ \A o \in Options : o.retry \in Nat /\ o.del \in BOOLEAN

VARIABLES
  head,     \* the newest ad of the publisher, Undef if it has none
  opts,     \* the client's options, a member of Options
  stored,   \* ads in the client's store
  call,     \* the call: [op, pc, want, n, adCid, attempt, left,
            \* result]
  out,      \* what it has returned or written: a sequence of ads
  since,    \* history: the head when the call began
  faulty,   \* history: a sync of the call has failed, or its ad is bad
  calls     \* calls so far

vars == <<head, opts, stored, call, out, since, faulty, calls>>

Ops == {"get", "list"}

Init ==
  /\ head \in 0..MaxAds
  /\ opts \in Options
  /\ stored = {}
  /\ call = [op |-> "get", pc |-> "idle", want |-> Undef, n |-> 0, adCid |-> Undef,
             attempt |-> 0, left |-> 0, result |-> "none"]
  /\ out = <<>>
  /\ since = head
  /\ faulty = FALSE
  /\ calls = 0

Publish ==
  /\ head < MaxAds
  /\ head' = head + 1
  /\ UNCHANGED <<opts, stored, call, out, since, faulty, calls>>

(* GetAdvertisement and List, of an ad that the publisher has or has had (its *)
(* CID was found somewhere), or of the head if none is given.                 *)
Call(op) ==
  /\ call.pc = "idle" /\ calls < MaxCalls
  /\ \E want \in 0..head, n \in IF op = "list" THEN Numbers ELSE {0} :
       call' = [op |-> op, pc |-> "sync", want |-> want, n |-> n, adCid |-> want,
                attempt |-> 0, left |-> n, result |-> "none"]
  /\ out' = <<>>
  /\ since' = head
  /\ faulty' = FALSE
  /\ calls' = calls + 1
  /\ UNCHANGED <<head, opts, stored>>

Return(result) == call' = [call EXCEPT !.pc = "idle", !.result = result]

-----------------------------------------------------------------------------
(* The ad SyncAdChain starts at: the head if it is given cid.Undef. *)
Newest_head == head
Newest == IF call.adCid = Undef THEN head ELSE call.adCid

(* The ads a sync leaves in the store: one, or as many as List asks for.  For *)
(* more than a segment, List installs a block hook that reads each ad with    *)
(* loadAd, which deletes it if the client deletes what it reads.              *)
Synced_pastFirst(newest) ==
  IF call.op = "get" THEN {newest} \ {Undef} ELSE newest - call.n + 1 .. newest
Synced_oneLess(newest) ==
  IF call.op = "get" THEN {newest} \ {Undef}
  ELSE newest - DepthCut(newest, call.n) + 2 .. newest
Synced(newest) ==
  IF call.op = "get" THEN {newest} \ {Undef}
  ELSE IF opts.del /\ call.n > SegmentSize THEN {}
  ELSE newest - DepthCut(newest, call.n) + 1 .. newest

Sync ==
  /\ call.pc = "sync"
  /\ stored' = stored \cup Synced(Newest)
  /\ call' = [call EXCEPT !.pc = "load", !.adCid = Newest]
  /\ UNCHANGED <<head, opts, out, since, faulty, calls>>

(* SyncAdChain fails, after it has stored some ads, and returns cid.Undef.    *)
(* syncAdWithRetry assigns that to adCid, the ad it then retries with.        *)
Kept == {kept \in SUBSET Synced(Newest) : \A k \in kept : k..Newest \subseteq kept}

SyncFails ==
  /\ call.pc = "sync"
  /\ faulty' = TRUE
  /\ \E kept \in Kept : stored' = stored \cup kept
  /\ IF call.op = "list" \/ call.attempt = opts.retry
     THEN Return("failed")
     ELSE call' = [call EXCEPT !.adCid = Undef, !.attempt = @ + 1]
  /\ UNCHANGED <<head, opts, out, since, calls>>

Delete(k) == stored' = IF opts.del THEN stored \ {k} ELSE stored

(* getAdvertisement. *)
GetAd ==
  /\ call.op = "get" /\ call.pc = "load"
  /\ call.adCid \in stored
  /\ Delete(call.adCid)
  /\ out' = <<call.adCid>>
  /\ Return("ok")
  /\ UNCHANGED <<head, opts, since, faulty, calls>>

(* list: read the next ad, write it, and go on to the one before. *)
ListAd_skipsFirst ==
  /\ call.op = "list" /\ call.pc = "load"
  /\ call.left > 0
  /\ call.adCid \in stored
  /\ Delete(call.adCid)
  /\ IF call.adCid - 1 = Undef
     THEN Return("ok") /\ UNCHANGED out
     ELSE /\ call' = [call EXCEPT !.adCid = @ - 1, !.left = @ - 1]
          /\ out' = Append(out, call.adCid)
  /\ UNCHANGED <<head, opts, since, faulty, calls>>
ListAd ==
  /\ call.op = "list" /\ call.pc = "load"
  /\ call.left > 0
  /\ call.adCid \in stored
  /\ Delete(call.adCid)
  /\ out' = Append(out, call.adCid)
  /\ IF call.adCid - 1 = Undef
     THEN Return("ok")
     ELSE call' = [call EXCEPT !.adCid = @ - 1, !.left = @ - 1]
  /\ UNCHANGED <<head, opts, since, faulty, calls>>

ListDone ==
  /\ call.op = "list" /\ call.pc = "load"
  /\ call.left = 0
  /\ Return("ok")
  /\ UNCHANGED <<head, opts, stored, out, since, faulty, calls>>

(* loadAd does not find the ad: the publisher has none, or it was deleted. *)
LoadFails ==
  /\ call.pc = "load"
  /\ call.op = "list" => call.left > 0
  /\ call.adCid \notin stored
  /\ Return("not found")
  /\ UNCHANGED <<head, opts, stored, out, since, faulty, calls>>

(* It finds the ad, and deletes it, but the ad does not decode. *)
BadAd ==
  /\ call.pc = "load"
  /\ call.op = "list" => call.left > 0
  /\ call.adCid \in stored
  /\ Delete(call.adCid)
  /\ faulty' = TRUE
  /\ Return("failed")
  /\ UNCHANGED <<head, opts, out, since, calls>>

-----------------------------------------------------------------------------
Step == Sync \/ SyncFails \/ GetAd \/ ListAd \/ ListDone \/ LoadFails \/ BadAd

Next ==
  \/ Publish
  \/ \E op \in Ops : Call(op)
  \/ Step

Spec == Init /\ [][Next]_vars

-----------------------------------------------------------------------------
TypeOK ==
  /\ head \in 0..MaxAds
  /\ stored \subseteq 1..head
  /\ call.op \in Ops /\ call.pc \in {"idle", "sync", "load"}
  /\ {call.want, call.adCid} \subseteq 0..head
  /\ call.attempt \in 0..opts.retry /\ call.left \in 0..call.n
  /\ Len(out) <= MaxAds
  /\ since \in 0..head /\ faulty \in BOOLEAN /\ calls \in 0..MaxCalls

(* GetAdvertisement returns the ad it was asked for, whatever fails or is     *)
(* published meanwhile, by a client without retries, as all commands use it   *)
(* (a retry asks for the head instead); asked for the head, it returns an ad  *)
(* that was the head during the call, never an older one that an earlier call *)
(* has left in the store.                                                     *)
GetsAsked ==
  call.op = "get" /\ call.result = "ok" =>
    IF call.want = Undef THEN out[1] \in since..head
    ELSE opts.retry = 0 => out = <<call.want>>

(* The ads from the one asked for back, without a gap, and n of them, or all  *)
(* there are, if the call succeeds.                                           *)
Listed(n) ==
  /\ \A i \in DOMAIN out : i > 1 => out[i] = out[i - 1] - 1
  /\ out # <<>> => IF call.want = Undef THEN out[1] \in since..head
                   ELSE out[1] = call.want
  /\ call.result = "ok" =>
       Len(out) = DepthCut(IF out = <<>> THEN call.adCid ELSE out[1], n)

(* What List writes for a positive n, also when it fails half way.  (It       *)
(* writes nothing for an n of 0.)                                             *)
ListExact == call.op = "list" /\ call.n > 0 => Listed(call.n)

(* Without a failure, an ad that was published is fetched and listed,     *)
(* except that a client which deletes what it reads cannot list more than a   *)
(* segment: the hook between the segments has deleted what list looks for.    *)
FaultFreeSucceeds ==
  ~faulty /\ since > 0 /\ (opts.del => call.n <= SegmentSize) =>
    call.result \in {"none", "ok"}
=============================================================================
