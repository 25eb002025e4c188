------------------------------- MODULE Crawl -------------------------------
(***************************************************************************)
(* `ads crawl`: the goroutine that runs client.Crawl (pkg/adpub/client.go) *)
(* and ClientStore.crawl (pkg/adpub/client_store.go), which sync a chain   *)
(* batch by batch and send its ads on a channel, and adsCrawlAction        *)
(* (pkg/ads/crawl.go), which receives them, syncs and counts the entries   *)
(* of each, and cancels the goroutine when it has enough.  The client      *)
(* deletes what it reads from its store.                                   *)
(***************************************************************************)
EXTENDS AdChain, FiniteSets, FiniteSetsExt

CONSTANTS
  Kinds,         \* what an ad may be: [rm, ctx, mhs], mhs = 0 for no entries
  MaxAds,        \* bound: ads on the chain
  Options,       \* command lines: [n, stopMhs, skip] are --number (0 for all),
                 \* --stop-mhs (0 for no limit) and --skip-entries
  BatchSize,     \* crawlBatchSize
  SegmentSize,   \* syncSegmentSize
  MaxFaults      \* bound: syncs that fail

ASSUME BoundsAssumption ==
  /\ MaxAds \in Nat /\ MaxFaults \in Nat
  /\ \A k \in Kinds : k.mhs \in Nat
  /\ BatchSize \in Nat \ {0} /\ SegmentSize \in Nat \ {0}
  /\ \A o \in Options :
       /\ o.n \in Nat /\ o.stopMhs \in Nat /\ o.skip \in BOOLEAN
       /\ o.skip => o.stopMhs = 0    \* adsCrawlAction refuses both

VARIABLES
  chain,      \* chain[k]: what the k-th ad is; the last one is the head
  opts,       \* the command line, a member of Options
  ended,      \* who ended ctx: "nobody", "user" or "action"
  faults,     \* syncs that have failed
  producer,   \* the goroutine: [pc, latest, n, batch, left, err]
  stored,     \* ads in the client's store
  ads,        \* the channel of ads, of capacity 1
  closed,     \* ads is closed
  errCh,      \* the channel of the goroutine's error, of capacity 1
  action,     \* adsCrawlAction: [pc, ad, removed, active, total, result]
  seen        \* history: the ads received, and how many of its entries were
              \* counted, a sequence of [ad, mhs]

input == <<chain, opts>>
vars == <<chain, opts, ended, faults, producer, stored, ads, closed, errCh,
          action, seen>>

All == -1

Init ==
  /\ chain \in UNION {[1..len -> Kinds] : len \in 1..MaxAds}
  /\ opts \in Options
  /\ ended = "nobody"
  /\ faults = 0
  /\ producer = [pc |-> "loop", latest |-> Undef, n |-> IF opts.n = 0 THEN All ELSE opts.n,
                 batch |-> BatchSize, left |-> 0, err |-> "none"]
  /\ stored = {}
  /\ ads = <<>>
  /\ closed = FALSE
  /\ errCh = <<>>
  /\ action = [pc |-> "receive", ad |-> Undef, removed |-> {},
               active |-> 0, total |-> 0, result |-> "none"]
  /\ seen = <<>>

(* The user interrupts the command, which ends its context. *)
Interrupt ==
  /\ ended = "nobody"
  /\ ended' = "user"
  /\ UNCHANGED <<input, faults, producer, stored, ads, closed, errCh, action, seen>>

(* The deferred and the explicit cancel of adsCrawlAction. *)
EndCtx == ended' = IF ended = "nobody" THEN "action" ELSE ended
Cancelled == ended # "nobody"

Fault == faults < MaxFaults /\ faults' = faults + 1

-----------------------------------------------------------------------------
(* client.Crawl. *)
Finish(err) == producer' = [producer EXCEPT !.pc = "report", !.err = err]

(* The size of the next batch. *)
Batch(n, batch) == IF n # All /\ n < BatchSize THEN n ELSE batch

NextBatch ==
  /\ producer.pc = "loop"
  /\ producer.n # 0
  /\ LET b == Batch(producer.n, producer.batch)
     IN  producer' = [producer EXCEPT !.pc = "sync", !.batch = b,
                        !.n = IF @ = All THEN All ELSE @ - b]
  /\ UNCHANGED <<input, ended, faults, stored, ads, closed, errCh, action, seen>>

LoopDone ==
  /\ producer.pc = "loop"
  /\ producer.n = 0
  /\ Finish("none")
  /\ UNCHANGED <<input, ended, faults, stored, ads, closed, errCh, action, seen>>

(* The ad SyncAdChain starts at: the head of the chain if none is given. *)
Newest == IF producer.latest = Undef THEN Len(chain) ELSE producer.latest

(* The ads a sync of a batch leaves in the store.  A request for more than a *)
(* segment installs a block hook that reads each ad it gets with loadAd,     *)
(* which deletes it.                                                         *)
Synced_pastFirst(newest, batch) == newest - batch + 1 .. newest
Synced(newest, batch) ==
  IF opts.n > SegmentSize THEN {}
  ELSE newest - DepthCut(newest, batch) + 1 .. newest

SyncBatch ==
  /\ producer.pc = "sync"
  /\ stored' = stored \cup Synced(Newest, producer.batch)
  /\ producer' = [producer EXCEPT !.pc = "load", !.latest = Newest,
                    !.left = producer.batch]
  /\ UNCHANGED <<input, ended, faults, ads, closed, errCh, action, seen>>

(* A sync that does not succeed may have stored some of the ads. *)
PartlySynced ==
  \/ UNCHANGED stored
  \/ \E k \in Synced(Newest, producer.batch) : stored' = stored \cup k..Newest

(* A sync that ctx ends is no error of Crawl's. *)
SyncCancelled ==
  /\ producer.pc = "sync"
  /\ Cancelled
  /\ PartlySynced
  /\ Finish("none")
  /\ UNCHANGED <<input, ended, faults, ads, closed, errCh, action, seen>>

SyncFails ==
  /\ producer.pc = "sync"
  /\ Fault
  /\ PartlySynced
  /\ Finish("sync failed")
  /\ UNCHANGED <<input, ended, ads, closed, errCh, action, seen>>

(* ClientStore.crawl: read the next ad of the batch and delete it ... *)
LoadAd_keeps ==
  /\ producer.pc = "load"
  /\ producer.left > 0
  /\ IF producer.latest \in stored
     THEN producer' = [producer EXCEPT !.pc = "send"]
     ELSE Finish("not found")
  /\ UNCHANGED <<input, ended, faults, stored, ads, closed, errCh, action, seen>>
LoadAd ==
  /\ producer.pc = "load"
  /\ producer.left > 0
  /\ IF producer.latest \in stored
     THEN /\ stored' = stored \ {producer.latest}
          /\ producer' = [producer EXCEPT !.pc = "send"]
     ELSE /\ Finish("not found")
          /\ UNCHANGED stored
  /\ UNCHANGED <<input, ended, faults, ads, closed, errCh, action, seen>>

(* ... which does not decode, perhaps, and is deleted all the same ... *)
BadAd ==
  /\ producer.pc = "load"
  /\ producer.left > 0
  /\ producer.latest \in stored
  /\ Fault
  /\ stored' = stored \ {producer.latest}
  /\ Finish("bad ad")
  /\ UNCHANGED <<input, ended, ads, closed, errCh, action, seen>>

(* ... send it, and go on to the one before, if there is one ... *)
SendAd_returnsLast ==
  /\ producer.pc = "send"
  /\ ads = <<>>
  /\ ads' = <<producer.latest>>
  /\ IF producer.latest - 1 = Undef
     THEN Finish("none")
     ELSE producer' = [producer EXCEPT !.pc = "load", !.left = @ - 1,
                         !.latest = IF producer.left = 1 THEN @ ELSE @ - 1]
  /\ UNCHANGED <<input, ended, faults, stored, closed, errCh, action, seen>>
SendAd ==
  /\ producer.pc = "send"
  /\ ads = <<>>
  /\ ads' = <<producer.latest>>
  /\ IF producer.latest - 1 = Undef
     THEN Finish("none")
     ELSE producer' = [producer EXCEPT !.pc = "load", !.latest = @ - 1, !.left = @ - 1]
  /\ UNCHANGED <<input, ended, faults, stored, closed, errCh, action, seen>>

(* ... or give up when ctx is done. *)
SendCancelled_resumes ==
  /\ producer.pc = "send"
  /\ Cancelled
  /\ producer' = [producer EXCEPT !.pc = "loop"]
  /\ UNCHANGED <<input, ended, faults, stored, ads, closed, errCh, action, seen>>
SendCancelled ==
  /\ producer.pc = "send"
  /\ Cancelled
  /\ Finish("none")
  /\ UNCHANGED <<input, ended, faults, stored, ads, closed, errCh, action, seen>>

BatchDone ==
  /\ producer.pc = "load"
  /\ producer.left = 0
  /\ producer' = [producer EXCEPT !.pc = "loop"]
  /\ UNCHANGED <<input, ended, faults, stored, ads, closed, errCh, action, seen>>

(* The goroutine reports Crawl's error, then closes the channel of ads. *)
Report ==
  /\ producer.pc = "report"
  /\ errCh = <<>>
  /\ errCh' = <<producer.err>>
  /\ producer' = [producer EXCEPT !.pc = "close"]
  /\ UNCHANGED <<input, ended, faults, stored, ads, closed, action, seen>>

CloseAds ==
  /\ producer.pc = "close"
  /\ closed' = TRUE
  /\ producer' = [producer EXCEPT !.pc = "done"]
  /\ UNCHANGED <<input, ended, faults, stored, ads, errCh, action, seen>>

-----------------------------------------------------------------------------
(* adsCrawlAction. *)

(* Entries are only synced for an ad that adds some. *)
HasWork(k) == ~chain[k].rm /\ chain[k].mhs > 0 /\ ~opts.skip

Receive ==
  /\ action.pc = "receive"
  /\ ads # <<>>
  /\ LET k == Head(ads)
     IN  /\ action' = [action EXCEPT
                         !.pc = IF HasWork(k) THEN "entries" ELSE "receive",
                         !.ad = k,
                         !.removed = IF chain[k].rm THEN @ \cup {chain[k].ctx} ELSE @]
         /\ seen' = Append(seen, [ad |-> k, mhs |-> 0])
  /\ ads' = Tail(ads)
  /\ UNCHANGED <<input, ended, faults, producer, stored, closed, errCh>>

ReceiveEnd ==
  /\ action.pc = "receive"
  /\ ads = <<>> /\ closed
  /\ action' = [action EXCEPT !.pc = "cancel"]
  /\ UNCHANGED <<input, ended, faults, producer, stored, ads, closed, errCh, seen>>

(* SyncEntriesWithRetry fails: the ad is not counted. *)
EntriesFail ==
  /\ action.pc = "entries"
  /\ Fault \/ (Cancelled /\ faults' = faults)
  /\ action' = [action EXCEPT !.pc = "receive"]
  /\ UNCHANGED <<input, ended, producer, stored, ads, closed, errCh, seen>>

(* The entries are drained, all of them unless a chunk is missing.           *)
Counted_ignoresRemovals(a, mhs) ==
  [a EXCEPT !.active = @ + mhs, !.total = @ + mhs,
            !.pc = IF opts.stopMhs # 0 /\ a.total + mhs >= opts.stopMhs
                   THEN "cancel" ELSE "receive"]
Counted(a, mhs) ==
  LET wasRm == chain[a.ad].ctx \in a.removed
      total == a.total + mhs
  IN  [a EXCEPT !.active = IF wasRm THEN @ ELSE @ + mhs,
                !.total = total,
                !.pc = IF opts.stopMhs # 0 /\ total >= opts.stopMhs THEN "cancel" ELSE "receive"]

CountEntries ==
  /\ action.pc = "entries"
  /\ \E mhs \in 0..chain[action.ad].mhs :
       /\ IF mhs = chain[action.ad].mhs THEN UNCHANGED faults ELSE Fault
       /\ action' = Counted(action, mhs)
       /\ seen' = [seen EXCEPT ![Len(seen)].mhs = mhs]
  /\ UNCHANGED <<input, ended, producer, stored, ads, closed, errCh>>

(* Drain fails in another way: the action returns that error, and its        *)
(* deferred cancel ends ctx.                                                 *)
DrainFails ==
  /\ action.pc = "entries"
  /\ Fault
  /\ action' = [action EXCEPT !.pc = "done", !.result = "drain failed"]
  /\ EndCtx
  /\ UNCHANGED <<input, producer, stored, ads, closed, errCh, seen>>

(* The action has enough ads: it ends ctx and waits for Crawl's error. *)
CancelCrawl ==
  /\ action.pc = "cancel"
  /\ EndCtx
  /\ action' = [action EXCEPT !.pc = "wait"]
  /\ UNCHANGED <<input, faults, producer, stored, ads, closed, errCh, seen>>

TakeError ==
  /\ action.pc = "wait"
  /\ errCh # <<>>
  /\ action' = [action EXCEPT !.pc = "done",
                  !.result = IF Head(errCh) = "none" THEN "ok" ELSE Head(errCh)]
  /\ errCh' = Tail(errCh)
  /\ UNCHANGED <<input, ended, faults, producer, stored, ads, closed, seen>>

-----------------------------------------------------------------------------
Crawler ==
  \/ NextBatch \/ LoopDone
  \/ SyncBatch \/ SyncCancelled \/ SyncFails
  \/ LoadAd \/ BadAd \/ SendAd \/ SendCancelled \/ BatchDone
  \/ Report \/ CloseAds

Consumer ==
  \/ Receive \/ ReceiveEnd
  \/ EntriesFail \/ CountEntries \/ DrainFails
  \/ CancelCrawl \/ TakeError

Terminated == action.pc = "done" /\ producer.pc = "done"

Next ==
  \/ Interrupt
  \/ Crawler
  \/ Consumer
  \/ Terminated /\ UNCHANGED vars

Spec == Init /\ [][Next]_vars

(* Both goroutines are scheduled, and every sync ends (its client has a       *)
(* timeout).                                                                  *)
FairSpec == Spec /\ WF_vars(Crawler) /\ WF_vars(Consumer)

-----------------------------------------------------------------------------
(* Types, and the capacities of the channels and the store.                   *)
TypeOK ==
  /\ ended \in {"nobody", "user", "action"} /\ closed \in BOOLEAN
  /\ faults \in 0..MaxFaults
  /\ producer.pc \in {"loop", "sync", "load", "send", "report", "close", "done"}
  /\ producer.latest \in 0..Len(chain)
  /\ producer.n = All \/ producer.n \in 0..opts.n
  /\ producer.left \in 0..producer.batch
  /\ stored \subseteq 1..Len(chain)
  /\ Len(ads) <= 1 /\ Len(errCh) <= 1
  /\ action.pc \in {"receive", "entries", "cancel", "wait", "done"}
  /\ action.ad \in 0..Len(chain)

(* The crawl the user sees is one of CrawlService: whatever fails, whenever   *)
(* it is interrupted and however its two goroutines race, ads arrive newest   *)
(* first across the borders of the batches, none twice, none left out and     *)
(* none after --stop-mhs is reached; no failure of the goroutine ends the     *)
(* channel quietly; and no error is reported that is only the cancellation.   *)
Service == INSTANCE CrawlService WITH
  length <- Len(chain),
  number <- opts.n,
  stopMhs <- opts.stopMhs,
  delivered <- [i \in DOMAIN seen |-> seen[i].ad],
  total <- action.total,
  interrupted <- ended = "user",
  faulty <- faults > 0,
  result <- IF action.result \in {"none", "ok"} THEN action.result ELSE "failed"

ImplementsService == Service!Spec

(* What -n promises, "Number of advertisements to crawl", for any number: if  *)
(* no sync fails, the crawl does not fail.                                    *)
FaultFreeSucceeds ==
  faults = 0 => action.result \in {"none", "ok"}

Removed(i) ==
  \E j \in 1..(i - 1) :
    LET k == seen[j].ad
    IN  chain[k].rm /\ chain[k].ctx = chain[seen[i].ad].ctx
MhsOf(I) == MapThenSumSet(LAMBDA i : seen[i].mhs, I)

(* The counters the user is shown against the chain: the total is what was    *)
(* counted of each ad, and the active ones are those of ads that no later     *)
(* (newer) removal seen has taken back.                                       *)
CountsMatchChain ==
  /\ action.total = MhsOf(DOMAIN seen)
  /\ action.active = MhsOf({i \in DOMAIN seen : ~Removed(i)})

(* Deleting what is read keeps the store small: however long the chain, it    *)
(* never holds more than a batch of ads.                                      *)
StoreBounded == Cardinality(stored) <= BatchSize

(* However the action ends, by success, an error, --stop-mhs or an interrupt, *)
(* the goroutine ends too: it is never left blocked on a full channel.        *)
Terminates == <>[]Terminated
=============================================================================
