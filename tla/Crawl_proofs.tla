----------------------------- MODULE Crawl_proofs -----------------------------
(***************************************************************************)
(* Proofs about `ads crawl`, for every length of chain, size of batch,     *)
(* command line and number of failures: types and capacities, the bound on *)
(* the store, that what the user sees is a behaviour of CrawlService,      *)
(* unless the crawl asks for more than a segment, and then has no ad, that *)
(* its counts are right, and that it takes a bounded number of steps and   *)
(* is never stuck.                                                         *)
(***************************************************************************)
EXTENDS Crawl, FiniteSetTheorems, SequenceTheorems, WellFoundedInduction, TLAPS

Errs == {"none", "sync failed", "not found", "bad ad"}
Contexts == {k.ctx : k \in Kinds}
Running == {"loop", "sync", "load", "send"}
Ended == {"report", "close", "done"}

Producers == [pc : Running \cup Ended, latest : Nat, n : Int, batch : Nat,
              left : Nat, err : Errs]
Actions == [pc : {"receive", "entries", "cancel", "wait", "done"}, ad : Nat,
            removed : SUBSET Contexts, active : Nat, total : Nat,
            result : Errs \cup {"ok", "drain failed"}]

InputType ==
  /\ chain \in Seq(Kinds) /\ Len(chain) >= 1
  /\ opts \in Options
  /\ ended \in {"nobody", "user", "action"} /\ faults \in 0..MaxFaults

ChannelType ==
  /\ ads \in Seq(Nat) /\ Len(ads) <= 1
  /\ errCh \in Seq(Errs) /\ Len(errCh) <= 1
  /\ closed \in BOOLEAN
  /\ seen \in Seq([ad : Nat, mhs : Nat])

Types ==
  /\ InputType
  /\ ChannelType
  /\ producer \in Producers
  /\ action \in Actions
  /\ stored \subseteq 1..Len(chain)

(* The ads that have been sent, the ads that are asked for, and what is still *)
(* to be sent of those that --number asks for.                                *)
Sent == Len(seen) + Len(ads)
Wanted == IF opts.n # 0 /\ opts.n < Len(chain) THEN opts.n ELSE Len(chain)
ToSend ==
  IF producer.pc = "loop" THEN producer.n
  ELSE IF producer.pc = "sync" THEN producer.n + producer.batch
  ELSE producer.n + producer.left
Segmented == opts.n > SegmentSize

(* Where the goroutine is on the chain.                                       *)
Position ==
  /\ Sent <= Wanted
  /\ producer.pc \in {"loop", "sync"} =>
       \/ producer.latest = Undef /\ Sent = 0
       \/ producer.latest >= 1 /\ producer.latest = Len(chain) - Sent
  /\ producer.pc \in {"load", "send"} =>
       producer.latest >= 1 /\ producer.latest = Len(chain) - Sent

(* What it has left to do.                                                    *)
Progress ==
  /\ producer.batch \in 1..BatchSize /\ producer.left <= producer.batch
  /\ producer.pc = "send" => producer.left >= 1
  /\ producer.pc = "loop" => producer.left = 0
  /\ producer.pc \in Running =>
       IF opts.n = 0 THEN producer.n = All
       ELSE producer.n >= 0 /\ ToSend = opts.n - Sent
  /\ producer.pc \in Running => producer.err = "none"
  /\ producer.pc \in Ended /\ producer.err = "none" => Sent = Wanted \/ Cancelled
  /\ producer.err # "none" => faults > 0 \/ Segmented

(* What it finds in the store: exactly the rest of the batch, unless the hook *)
(* for segments has deleted it.                                               *)
Within(S, top) == \A k \in S : top - BatchSize < k /\ k <= top
Rest == {k \in 1..producer.latest : k > producer.latest - producer.left}
StoreHolds ==
  /\ producer.pc \in {"loop", "sync"} => stored = {}
  /\ producer.pc = "load" => stored \subseteq Rest /\ (Segmented \/ stored = Rest)
  /\ producer.pc = "send" => stored \subseteq Rest \ {producer.latest}
                             /\ (Segmented \/ stored = Rest \ {producer.latest})
  /\ \E top \in Int : Within(stored, top)

(* What is in the channels, and what has come out of them.                    *)
Channels ==
  /\ \A i \in 1..Len(seen) : seen[i].ad = Len(chain) - i + 1
  /\ ads # <<>> => Head(ads) = Len(chain) - Len(seen)
  /\ producer.pc \notin {"close", "done"} => errCh = <<>>
  /\ errCh # <<>> => Head(errCh) = producer.err
  /\ closed => producer.pc = "done"

Stopped == opts.stopMhs # 0 /\ action.total >= opts.stopMhs

(* What the action knows when it has stopped reading: that it has enough, or  *)
(* that the goroutine has ended, and why, before ctx was ended by itself.     *)
Reading ==
  /\ action.pc = "done" <=> action.result # "none"
  /\ action.pc \in {"receive", "entries"} => ~Stopped /\ ended # "action"
  /\ action.ad <= Len(chain)
  /\ action.pc = "entries" => Len(seen) >= 1 /\ action.ad >= 1
  /\ action.pc \in {"cancel", "wait"} =>
       \/ Stopped
       \/ /\ producer.pc = "done" /\ ads = <<>>
          /\ producer.err = "none" => Len(seen) = Wanted \/ ended = "user"

Inv == Types /\ Position /\ Progress /\ StoreHolds /\ Channels /\ Reading

-----------------------------------------------------------------------------
LEMMA OptionTypes ==
  ASSUME Types
  PROVE  opts.n \in Nat /\ opts.stopMhs \in Nat /\ BatchSize \in Nat \ {0}
         /\ SegmentSize \in Nat \ {0}
  BY BoundsAssumption DEF Types, InputType

LEMMA Numbers ==
  ASSUME Types
  PROVE  /\ Len(chain) \in Nat /\ Len(chain) >= 1
         /\ Len(seen) \in Nat /\ Len(ads) \in Nat /\ Len(ads) <= 1 /\ Sent \in Nat
         /\ Wanted \in Nat /\ Wanted <= Len(chain)
         /\ opts.n # 0 => Wanted <= opts.n
<1>1. /\ Len(chain) \in Nat /\ Len(chain) >= 1
      /\ Len(seen) \in Nat /\ Len(ads) \in Nat /\ Len(ads) <= 1
  BY DEF Types, InputType, ChannelType
<1>2. Sent \in Nat
  BY <1>1 DEF Sent
<1>3. /\ Wanted \in Nat /\ Wanted <= Len(chain)
      /\ opts.n # 0 => Wanted <= opts.n
  <2>1. opts.n \in Nat
    BY OptionTypes
  <2> QED
    BY <1>1, <2>1 DEF Wanted
<1> QED
  BY <1>1, <1>2, <1>3

LEMMA ProducerTypes ==
  ASSUME Types
  PROVE  /\ producer.pc \in Running \cup Ended /\ producer.latest \in Nat
         /\ producer.n \in Int /\ producer.batch \in Nat /\ producer.left \in Nat
         /\ producer.err \in Errs
  BY DEF Types, Producers

LEMMA FaultCount ==
  ASSUME Types, Fault
  PROVE  faults' > 0 /\ faults' \in 0..MaxFaults
<1>1. faults \in 0..MaxFaults /\ MaxFaults \in Nat
  BY BoundsAssumption DEF Types, InputType
<1> QED
  BY <1>1 DEF Fault

(* A step of the goroutine that sends nothing leaves to the action what it has.*)
LEMMA NothingSent ==
  ASSUME Inv, UNCHANGED <<chain, opts, ended, action, seen, ads, errCh, closed>>,
         producer.pc \in Running, producer'.pc \in Running \cup {"report"},
         faults' \in 0..MaxFaults
  PROVE  InputType' /\ ChannelType' /\ Channels' /\ Reading'
         /\ Sent' = Sent /\ Wanted' = Wanted
<1>1. InputType' /\ ChannelType'
  BY DEF Inv, Types, InputType, ChannelType
<1>2. Channels'
  <2>1. errCh = <<>> /\ ~closed
    BY DEF Inv, Channels, Running, Ended
  <2> QED
    BY <2>1 DEF Inv, Channels
<1>3. Reading'
  BY DEF Inv, Reading, Running, Stopped
<1> QED
  BY <1>1, <1>2, <1>3 DEF Sent, Wanted

(* The goroutine gives up, or has sent all.                                   *)
LEMMA Finishes ==
  ASSUME Inv, producer.pc \in Running, NEW e \in Errs, Finish(e),
         UNCHANGED <<chain, opts>>, Sent' <= Wanted,
         e = "none" => Sent' = Wanted \/ Cancelled',
         e # "none" => faults' > 0 \/ Segmented,
         NEW top \in Int, Within(stored', top)
  PROVE  producer' \in Producers /\ producer'.pc = "report"
         /\ Position' /\ Progress' /\ StoreHolds'
<1>1. producer \in Producers /\ Progress
  BY DEF Inv, Types
<1>2. /\ producer' \in Producers
      /\ producer'.pc = "report" /\ producer'.err = e
      /\ producer'.batch = producer.batch /\ producer'.left = producer.left
  BY <1>1 DEF Finish, Producers, Ended
<1>3. Wanted' = Wanted
  BY DEF Wanted
<1>4. Position'
  BY <1>2, <1>3 DEF Position
<1>5. Progress'
  BY <1>1, <1>2, <1>3 DEF Progress, Running, Ended, Segmented
<1>6. StoreHolds'
  BY <1>2 DEF StoreHolds
<1> QED
  BY <1>2, <1>4, <1>5, <1>6

LEMMA InvInit == Init => Inv
<1> SUFFICES ASSUME Init PROVE Inv
  OBVIOUS
<1>1. PICK len \in 1..MaxAds : chain \in [1..len -> Kinds]
  BY DEF Init
<1>2. len \in Nat /\ len >= 1
  BY <1>1, BoundsAssumption
<1>3. chain \in Seq(Kinds) /\ Len(chain) = len
  BY <1>1, <1>2
<1>4. opts \in Options /\ opts.n \in Nat
  BY BoundsAssumption DEF Init
<1>5. BatchSize \in Nat \ {0}
  BY BoundsAssumption
<1>6. Types
  <2>1. InputType
    BY <1>2, <1>3, BoundsAssumption DEF Init, InputType
  <2>2. ChannelType
    <3>1. /\ <<>> \in Seq(Nat) /\ <<>> \in Seq(Errs)
          /\ <<>> \in Seq([ad : Nat, mhs : Nat]) /\ Len(<<>>) = 0
      BY EmptySeq
    <3>2. ads = <<>> /\ errCh = <<>> /\ seen = <<>> /\ closed = FALSE
      BY DEF Init
    <3>3. Len(ads) <= 1 /\ Len(errCh) <= 1
      BY <3>1, <3>2
    <3> QED
      BY <3>1, <3>2, <3>3 DEF ChannelType
  <2>3. producer \in Producers
    BY <1>4, <1>5 DEF Init, Producers, Running, Undef, All, Errs
  <2>4. action \in Actions
    BY DEF Init, Actions, Undef, Errs
  <2> QED
    BY <2>1, <2>2, <2>3, <2>4 DEF Init, Types
<1>7. Sent = 0 /\ Wanted \in Nat
  <2>1. Len(seen) = 0 /\ Len(ads) = 0
    BY DEF Init
  <2> QED
    BY <1>6, <2>1, Numbers DEF Sent
<1>8. Position
  BY <1>7 DEF Init, Position
<1>9. Progress
  BY <1>4, <1>5, <1>7 DEF Init, Progress, ToSend, Running, Ended, All
<1>10. StoreHolds
  BY DEF Init, StoreHolds, Within
<1>11. Channels
  BY DEF Init, Channels
<1>12. Reading
  <2>1. ~Stopped
    BY <1>6, OptionTypes DEF Init, Stopped
  <2> QED
    BY <1>2, <1>3, <2>1 DEF Init, Reading, Undef
<1> QED
  BY <1>6, <1>8, <1>9, <1>10, <1>11, <1>12 DEF Inv

-----------------------------------------------------------------------------
(* client.Crawl. *)
LEMMA NextBatchInv == ASSUME Inv, NextBatch PROVE Inv'
<1> DEFINE b == Batch(producer.n, producer.batch)
<1>1. /\ Types /\ Position /\ Progress /\ StoreHolds
      /\ producer.pc = "loop" /\ producer.n # 0
      /\ UNCHANGED <<chain, opts, ended, faults, stored, ads, closed, errCh, action, seen>>
  BY DEF Inv, NextBatch, input
<1>2. opts.n \in Nat /\ BatchSize \in Nat \ {0} /\ Sent \in Nat
  BY <1>1, OptionTypes, Numbers
<1>3. producer.n = All \/ (producer.n \in Nat /\ producer.n >= 1)
  BY <1>1, <1>2, ProducerTypes DEF Progress, Running
<1>4. /\ b \in 1..BatchSize
      /\ producer.n # All => b <= producer.n
  BY <1>1, <1>2, <1>3, ProducerTypes DEF Batch, Progress, All
<1>5. /\ producer' \in Producers
      /\ producer'.pc = "sync" /\ producer'.batch = b
      /\ producer'.n = IF producer.n = All THEN All ELSE producer.n - b
      /\ producer'.latest = producer.latest /\ producer'.left = producer.left
      /\ producer'.err = producer.err
  <2>1. producer' = [producer EXCEPT !.pc = "sync", !.batch = b,
                       !.n = IF producer.n = All THEN All ELSE producer.n - b]
    BY DEF NextBatch
  <2>2. producer \in Producers
    BY <1>1 DEF Types
  <2>3. b \in Nat /\ producer.n \in Int
    BY <1>2, <1>3, <1>4 DEF All
  <2> DEFINE n == IF producer.n = All THEN All ELSE producer.n - b
  <2>4. n \in Int
    BY <2>3 DEF All
  <2>5. producer' = [producer EXCEPT !.pc = "sync", !.batch = b, !.n = n]
    BY <2>1
  <2> HIDE DEF b, n
  <2>6. /\ producer' \in Producers
        /\ producer'.pc = "sync" /\ producer'.batch = b /\ producer'.n = n
        /\ producer'.latest = producer.latest /\ producer'.left = producer.left
        /\ producer'.err = producer.err
    BY <2>2, <2>3, <2>4, <2>5 DEF Producers, Running
  <2> QED
    BY <1>1, <2>6 DEF n
<1>6. InputType' /\ ChannelType' /\ Channels' /\ Reading' /\ Sent' = Sent /\ Wanted' = Wanted
  BY <1>1, <1>5, NothingSent DEF Running, Types, InputType
<1>7. Types'
  BY <1>1, <1>5, <1>6 DEF Types
<1>8. Position'
  BY <1>1, <1>5, <1>6 DEF Position
<1>9. Progress'
  <2>1. IF opts.n = 0 THEN producer'.n = All
        ELSE producer'.n >= 0 /\ producer'.n + producer'.batch = opts.n - Sent
    BY <1>1, <1>2, <1>3, <1>4, <1>5 DEF Progress, ToSend, Running, All
  <2>2. producer'.left <= producer'.batch
    BY <1>1, <1>4, <1>5 DEF Progress
  <2>3. producer'.err = "none"
    BY <1>1, <1>5 DEF Progress, Running
  <2> QED
    BY <1>1, <1>4, <1>5, <1>6, <2>1, <2>2, <2>3 DEF Progress, ToSend, Running, Ended
<1>10. StoreHolds'
  BY <1>1, <1>5 DEF StoreHolds
<1> QED
  BY <1>6, <1>7, <1>8, <1>9, <1>10 DEF Inv

LEMMA LoopDoneInv == ASSUME Inv, LoopDone PROVE Inv'
<1>1. /\ Types /\ Position /\ Progress /\ StoreHolds
      /\ producer.pc = "loop" /\ producer.n = 0 /\ Finish("none")
      /\ UNCHANGED <<chain, opts, ended, faults, stored, ads, closed, errCh, action, seen>>
  BY DEF Inv, LoopDone, input
<1>2. Sent = Wanted
  BY <1>1, OptionTypes, Numbers DEF Progress, Position, ToSend, Running, All, Wanted
<1>3. PICK top \in Int : Within(stored, top)
  BY <1>1 DEF StoreHolds
<1>4. producer'.pc = "report" /\ faults' \in 0..MaxFaults
  BY <1>1 DEF Finish, Types, Producers, InputType
<1>5. InputType' /\ ChannelType' /\ Channels' /\ Reading' /\ Sent' = Sent
  BY <1>1, <1>4, NothingSent DEF Running
<1>6. producer' \in Producers /\ Position' /\ Progress' /\ StoreHolds'
  BY <1>1, <1>2, <1>3, <1>5, Finishes DEF Running, Position, Errs
<1> QED
  BY <1>1, <1>5, <1>6 DEF Inv, Types

(* Where a sync begins, and what it can leave in the store.                   *)
LEMMA SyncFrom ==
  ASSUME Inv, producer.pc = "sync"
  PROVE  /\ Newest \in Nat /\ Newest >= 1 /\ Newest = Len(chain) - Sent
         /\ producer.batch \in Nat /\ producer.batch >= 1 /\ producer.batch <= BatchSize
         /\ BatchSize \in Nat
<1>1. Types /\ Position /\ Progress
  BY DEF Inv
<1>2. /\ Len(chain) \in Nat /\ Len(chain) >= 1 /\ producer.latest \in Nat /\ Sent \in Nat
      /\ BatchSize \in Nat
  BY <1>1, Numbers, ProducerTypes, OptionTypes
<1>3. Newest \in Nat /\ Newest >= 1 /\ Newest = Len(chain) - Sent
  BY <1>1, <1>2 DEF Newest, Position, Undef
<1> QED
  BY <1>1, <1>2, <1>3 DEF Progress

LEMMA SyncedRange ==
  ASSUME NEW newest \in Nat, NEW batch \in Nat \ {0}
  PROVE  LET all == {k \in 1..newest : k > newest - batch}
         IN  /\ Synced(newest, batch) \subseteq all
             /\ Segmented \/ Synced(newest, batch) = all
<1>1. newest - DepthCut(newest, batch) + 1 .. newest = {k \in 1..newest : k > newest - batch}
  BY DEF DepthCut
<1> QED
  BY <1>1 DEF Synced, Segmented

LEMMA PartlySyncedRange ==
  ASSUME Inv, producer.pc = "sync", PartlySynced
  PROVE  /\ stored' \subseteq 1..Len(chain)
         /\ Within(stored', Newest)
<1>1. /\ Newest \in Nat /\ Newest <= Len(chain) /\ Len(chain) \in Nat
      /\ producer.batch \in Nat \ {0} /\ producer.batch <= BatchSize /\ BatchSize \in Nat
      /\ stored = {}
  <2>1. Sent \in Nat /\ Len(chain) \in Nat
    BY Numbers DEF Inv
  <2> QED
    BY <2>1, SyncFrom DEF Inv, StoreHolds
<1>2. CASE stored' = stored
  BY <1>1, <1>2 DEF Within
<1>3. ASSUME NEW k \in Synced(Newest, producer.batch), stored' = stored \cup k..Newest
      PROVE  /\ stored' \subseteq 1..Len(chain)
             /\ Within(stored', Newest)
  <2>1. k \in 1..Newest /\ k > Newest - producer.batch
    BY <1>1, <1>3, SyncedRange
  <2> QED
    BY <1>1, <1>3, <2>1 DEF Within
<1> QED
  BY <1>2, <1>3 DEF PartlySynced

LEMMA SyncBatchInv == ASSUME Inv, SyncBatch PROVE Inv'
<1>1. /\ Types /\ Position /\ Progress /\ StoreHolds
      /\ producer.pc = "sync"
      /\ stored' = stored \cup Synced(Newest, producer.batch)
      /\ producer' = [producer EXCEPT !.pc = "load", !.latest = Newest,
                        !.left = producer.batch]
      /\ UNCHANGED <<chain, opts, ended, faults, ads, closed, errCh, action, seen>>
  BY DEF Inv, SyncBatch, input
<1>2. opts.n \in Nat /\ Sent \in Nat /\ Len(chain) \in Nat
  BY <1>1, OptionTypes, Numbers
<1>3. /\ Newest \in Nat /\ Newest >= 1 /\ Newest = Len(chain) - Sent
      /\ producer.batch \in Nat \ {0} /\ producer.batch <= BatchSize /\ BatchSize \in Nat
  BY <1>1, SyncFrom
<1>4. /\ producer' \in Producers
      /\ producer'.pc = "load" /\ producer'.latest = Newest
      /\ producer'.left = producer.batch /\ producer'.batch = producer.batch
      /\ producer'.n = producer.n /\ producer'.err = producer.err
  <2>1. producer \in Producers
    BY <1>1 DEF Types
  <2> QED
    BY <1>1, <1>3, <2>1 DEF Producers, Running
<1>5. InputType' /\ ChannelType' /\ Channels' /\ Reading' /\ Sent' = Sent /\ Wanted' = Wanted
  BY <1>1, <1>4, NothingSent DEF Running, Types, InputType
<1>6. /\ stored' \subseteq Rest' /\ (Segmented' \/ stored' = Rest')
      /\ stored' \subseteq 1..Len(chain)
      /\ Within(stored', Newest)
  <2> DEFINE all == {k \in 1..Newest : k > Newest - producer.batch}
  <2>1. stored' = Synced(Newest, producer.batch)
    BY <1>1 DEF StoreHolds
  <2>2. stored' \subseteq all /\ (Segmented \/ stored' = all)
    BY <1>3, <2>1, SyncedRange
  <2>3. Rest' = all /\ Segmented' = Segmented
    BY <1>1, <1>4 DEF Rest, Segmented
  <2> QED
    BY <1>2, <1>3, <2>2, <2>3 DEF Within
<1>7. Types'
  BY <1>1, <1>4, <1>5, <1>6 DEF Types
<1>8. Position'
  BY <1>1, <1>3, <1>4, <1>5 DEF Position
<1>9. Progress'
  <2>1. IF opts.n = 0 THEN producer'.n = All
        ELSE producer'.n >= 0 /\ producer'.n + producer'.left = opts.n - Sent
    BY <1>1, <1>4 DEF Progress, ToSend, Running
  <2>2. producer'.left <= producer'.batch /\ producer'.batch \in 1..BatchSize
    BY <1>1, <1>3, <1>4 DEF Progress
  <2>3. producer'.err = "none"
    BY <1>1, <1>4 DEF Progress, Running
  <2> QED
    BY <1>1, <1>4, <1>5, <2>1, <2>2, <2>3 DEF Progress, ToSend, Running, Ended
<1>10. StoreHolds'
  <2>1. \E top \in Int : Within(stored', top)
    BY <1>3, <1>6
  <2> QED
    BY <1>4, <1>6, <2>1 DEF StoreHolds
<1> QED
  BY <1>5, <1>7, <1>8, <1>9, <1>10 DEF Inv

(* A sync that does not succeed.                                              *)
LEMMA SyncStops ==
  ASSUME Inv, producer.pc = "sync", PartlySynced, NEW e \in Errs, Finish(e),
         e = "none" => Cancelled, e # "none" => faults' > 0, faults' \in 0..MaxFaults,
         UNCHANGED <<chain, opts, ended, ads, closed, errCh, action, seen>>
  PROVE  Inv'
<1>2. Newest \in Int
  BY SyncFrom
<1>7. stored' \subseteq 1..Len(chain) /\ Within(stored', Newest)
  BY PartlySyncedRange
<1>3. producer'.pc = "report"
  <2>1. producer \in Producers
    BY DEF Inv, Types
  <2> QED
    BY <2>1 DEF Finish, Producers, Ended
<1>4. InputType' /\ ChannelType' /\ Channels' /\ Reading' /\ Sent' = Sent
  BY <1>3, NothingSent DEF Running
<1>5. Cancelled' = Cancelled
  BY DEF Cancelled
<1>6. producer' \in Producers /\ Position' /\ Progress' /\ StoreHolds'
  <2>1. producer.pc \in Running
    BY DEF Running
  <2>2. Sent' <= Wanted
    BY <1>4 DEF Inv, Position
  <2>3. e = "none" => Cancelled'
    BY <1>5
  <2>4. Newest \in Int /\ Within(stored', Newest)
    BY <1>2, <1>7
  <2> QED
    BY <2>1, <2>2, <2>3, <2>4, Finishes
<1> QED
  BY <1>4, <1>6, <1>7 DEF Inv, Types

LEMMA SyncEndsInv == ASSUME Inv, SyncCancelled \/ SyncFails PROVE Inv'
<1>1. faults \in 0..MaxFaults /\ MaxFaults \in Nat
  BY BoundsAssumption DEF Inv, Types, InputType
<1>2. CASE SyncCancelled
  BY <1>1, <1>2, SyncStops DEF SyncCancelled, input, Errs
<1>3. CASE SyncFails
  <2>1. faults' > 0 /\ faults' \in 0..MaxFaults
    BY <1>3, FaultCount DEF SyncFails, Inv
  <2> QED
    BY <1>3, <2>1, SyncStops DEF SyncFails, input, Errs
<1> QED
  BY <1>2, <1>3

-----------------------------------------------------------------------------
(* ClientStore.crawl. *)
LEMMA InBatch ==
  ASSUME Inv, producer.pc \in {"load", "send"}
  PROVE  /\ producer.latest \in Nat /\ producer.latest >= 1 /\ producer.left \in Nat
         /\ producer.latest = Len(chain) - Sent /\ Sent \in Nat /\ Len(chain) \in Nat
         /\ producer \in Producers
         /\ stored \subseteq Rest /\ stored \subseteq 1..Len(chain)
         /\ \E top \in Int : Within(stored, top)
<1>1. Types /\ Position /\ StoreHolds
  BY DEF Inv
<1>2. producer.latest >= 1 /\ producer.latest = Len(chain) - Sent
  BY <1>1 DEF Position
<1>3. /\ producer.latest \in Nat /\ producer.left \in Nat
      /\ Sent \in Nat /\ Len(chain) \in Nat
  BY <1>1, Numbers, ProducerTypes
<1>4. producer \in Producers /\ stored \subseteq 1..Len(chain)
  BY <1>1 DEF Types
<1>5. stored \subseteq Rest /\ \E top \in Int : Within(stored, top)
  BY <1>1 DEF StoreHolds
<1> QED
  BY <1>2, <1>3, <1>4, <1>5

(* The batch is not read to its end.                                          *)
LEMMA BatchStops ==
  ASSUME Inv, producer.pc \in {"load", "send"}, NEW e \in Errs, Finish(e),
         e = "none" => Cancelled, e # "none" => faults' > 0 \/ Segmented,
         faults' \in 0..MaxFaults, stored' \subseteq stored,
         UNCHANGED <<chain, opts, ended, ads, closed, errCh, action, seen>>
  PROVE  Inv'
<1>1. producer.pc \in Running /\ producer'.pc = "report"
  BY InBatch DEF Finish, Producers, Ended, Running
<1>2. InputType' /\ ChannelType' /\ Channels' /\ Reading' /\ Sent' = Sent
  BY <1>1, NothingSent
<1>3. PICK top \in Int : Within(stored, top)
  BY InBatch
<1>4. Within(stored', top)
  BY <1>3 DEF Within
<1>5. Sent' <= Wanted
  BY <1>2 DEF Inv, Position
<1>6. Cancelled' = Cancelled
  BY DEF Cancelled
<1>7. producer' \in Producers /\ Position' /\ Progress' /\ StoreHolds'
  BY <1>1, <1>4, <1>5, <1>6, Finishes
<1>8. stored' \subseteq 1..Len(chain)
  BY InBatch
<1> QED
  BY <1>2, <1>7, <1>8 DEF Inv, Types

LEMMA LoadAdInv == ASSUME Inv, LoadAd PROVE Inv'
<1>1. /\ producer.pc = "load" /\ producer.left > 0
      /\ UNCHANGED <<chain, opts, ended, faults, ads, closed, errCh, action, seen>>
  BY DEF LoadAd, input
<1>2. /\ producer.latest \in Nat /\ producer.latest >= 1 /\ producer.left \in Nat
      /\ producer \in Producers /\ stored \subseteq Rest /\ stored \subseteq 1..Len(chain)
  BY <1>1, InBatch
<1>3. faults' \in 0..MaxFaults
  BY <1>1 DEF Inv, Types, InputType
<1>4. CASE producer.latest \notin stored
  <2>1. Segmented
    <3>1. producer.latest \in Rest
      BY <1>1, <1>2 DEF Rest
    <3> QED
      BY <1>1, <1>4, <3>1 DEF Inv, StoreHolds
  <2>2. Finish("not found") /\ stored' = stored
    BY <1>4 DEF LoadAd
  <2> QED
    BY <1>1, <1>3, <2>1, <2>2, BatchStops DEF Errs
<1>5. CASE producer.latest \in stored
  <2>1. /\ stored' = stored \ {producer.latest}
        /\ producer' = [producer EXCEPT !.pc = "send"]
    BY <1>5 DEF LoadAd
  <2>2. /\ producer' \in Producers
        /\ producer'.pc = "send" /\ producer'.latest = producer.latest
        /\ producer'.left = producer.left /\ producer'.batch = producer.batch
        /\ producer'.n = producer.n /\ producer'.err = producer.err
    BY <1>2, <2>1 DEF Producers, Running
  <2>3. InputType' /\ ChannelType' /\ Channels' /\ Reading'
        /\ Sent' = Sent /\ Wanted' = Wanted
    BY <1>1, <1>3, <2>2, NothingSent DEF Running
  <2>4. Position'
    BY <1>1, <2>2, <2>3 DEF Inv, Position
  <2>5. Progress'
    <3>1. producer.left >= 1
      BY <1>1, <1>2
    <3> QED
      BY <1>1, <2>2, <2>3, <3>1 DEF Inv, Progress, ToSend, Running, Ended
  <2>6. StoreHolds'
    <3>1. Rest' = Rest /\ Segmented' = Segmented
      BY <1>1, <2>2 DEF Rest, Segmented
    <3>2. PICK top \in Int : Within(stored, top)
      BY <1>1, InBatch
    <3>3. Within(stored', top)
      BY <2>1, <3>2 DEF Within
    <3> QED
      BY <1>1, <2>1, <2>2, <3>1, <3>3 DEF Inv, StoreHolds
  <2>7. Types'
    BY <1>1, <1>2, <2>1, <2>2, <2>3 DEF Inv, Types
  <2> QED
    BY <2>3, <2>4, <2>5, <2>6, <2>7 DEF Inv
<1> QED
  BY <1>4, <1>5

LEMMA BadAdInv == ASSUME Inv, BadAd PROVE Inv'
<1>1. /\ producer.pc = "load" /\ Finish("bad ad") /\ stored' \subseteq stored
      /\ UNCHANGED <<chain, opts, ended, ads, closed, errCh, action, seen>>
  BY DEF BadAd, input
<1>2. faults' > 0 /\ faults' \in 0..MaxFaults
  BY FaultCount DEF BadAd, Inv
<1> QED
  BY <1>1, <1>2, BatchStops DEF Errs

LEMMA SendCancelledInv == ASSUME Inv, SendCancelled PROVE Inv'
<1>1. /\ producer.pc = "send" /\ Cancelled /\ Finish("none")
      /\ UNCHANGED <<chain, opts, ended, faults, stored, ads, closed, errCh, action, seen>>
  BY DEF SendCancelled, input
<1>2. faults' \in 0..MaxFaults
  BY <1>1 DEF Inv, Types, InputType
<1> QED
  BY <1>1, <1>2, BatchStops DEF Errs

(* The goroutine puts an ad into the empty channel.                           *)
LEMMA OneSent ==
  ASSUME Inv, producer.pc = "send", ads = <<>>, ads' = <<producer.latest>>,
         UNCHANGED <<chain, opts, ended, faults, closed, errCh, action, seen>>,
         producer'.pc \in Running \cup {"report"}
  PROVE  /\ InputType' /\ ChannelType' /\ Channels' /\ Reading'
         /\ Sent' = Sent + 1 /\ Sent' <= Wanted /\ Wanted' = Wanted
<1> DEFINE latest == producer.latest
<1>1. /\ latest \in Nat /\ latest >= 1 /\ latest = Len(chain) - Sent
      /\ Sent \in Nat /\ Len(chain) \in Nat
  BY InBatch
<1>2. Types /\ Channels /\ Reading /\ Progress
  BY DEF Inv
<1>3. /\ ads' \in Seq(Nat) /\ Len(ads') = 1 /\ Head(ads') = latest
      /\ Len(ads) = 0 /\ Len(seen) \in Nat
  <2>1. ads' \in Seq(Nat) /\ Len(ads') = 1 /\ Head(ads') = latest
    BY <1>1
  <2>2. Len(ads) = 0
    BY EmptySeq
  <2>3. Len(seen) \in Nat
    BY <1>2, Numbers
  <2> QED
    BY <2>1, <2>2, <2>3
<1>4. Sent = Len(seen) /\ Sent' = Sent + 1
  BY <1>3 DEF Sent
<1>5. InputType'
  BY <1>2 DEF Types, InputType
<1>6. ChannelType'
  BY <1>2, <1>3 DEF Types, ChannelType
<1>7. Channels'
  <2>1. ~closed /\ errCh = <<>>
    BY <1>2 DEF Channels
  <2> QED
    BY <1>1, <1>2, <1>3, <1>4, <2>1 DEF Channels
<1>8. Reading'
  BY <1>2 DEF Reading, Stopped
<1>9. Wanted' = Wanted
  BY DEF Wanted
<1>10. Sent < Wanted
  <2>1. opts.n \in Nat /\ producer.left \in Nat /\ producer.n \in Int
    BY <1>2, OptionTypes, ProducerTypes
  <2>2. producer.left >= 1
    BY <1>2 DEF Progress
  <2>3. opts.n # 0 => producer.n >= 0 /\ producer.n + producer.left = opts.n - Sent
    BY <1>2 DEF Progress, ToSend, Running
  <2>4. opts.n # 0 => Sent < opts.n
    BY <1>1, <2>1, <2>2, <2>3
  <2> QED
    BY <1>1, <2>1, <2>4 DEF Wanted
<1>11. Sent' <= Wanted
  BY <1>1, <1>4, <1>10, <1>2, Numbers
<1> QED
  BY <1>4, <1>5, <1>6, <1>7, <1>8, <1>9, <1>11

LEMMA SendAdInv == ASSUME Inv, SendAd PROVE Inv'
<1>1. /\ producer.pc = "send" /\ ads = <<>> /\ ads' = <<producer.latest>>
      /\ UNCHANGED <<chain, opts, ended, faults, stored, closed, errCh, action, seen>>
  BY DEF SendAd, input
<1>2. /\ producer.latest \in Nat /\ producer.latest >= 1 /\ producer.left \in Nat
      /\ producer.latest = Len(chain) - Sent /\ Sent \in Nat /\ Len(chain) \in Nat
      /\ producer \in Producers /\ stored \subseteq 1..Len(chain)
  BY <1>1, InBatch
<1>3. PICK top \in Int : Within(stored, top)
  BY <1>1, InBatch
<1>4. Within(stored', top)
  BY <1>1, <1>3
<1>5. /\ opts.n \in Nat /\ producer.left >= 1 /\ producer.batch \in Nat
      /\ producer.n \in Int /\ BatchSize \in Nat
  BY <1>1, OptionTypes, ProducerTypes DEF Inv, Progress
<1>6. CASE producer.latest - 1 = Undef
  <2>1. Finish("none")
    BY <1>6 DEF SendAd
  <2>2. producer'.pc = "report"
    BY <1>2, <2>1 DEF Finish, Producers, Ended
  <2>3. /\ InputType' /\ ChannelType' /\ Channels' /\ Reading'
        /\ Sent' = Sent + 1 /\ Sent' <= Wanted
    BY <1>1, <2>2, OneSent
  <2>4. Sent' = Wanted
    BY <1>2, <1>5, <1>6, <2>3 DEF Wanted, Undef
  <2>5. producer' \in Producers /\ Position' /\ Progress' /\ StoreHolds'
    BY <1>1, <1>4, <2>1, <2>3, <2>4, Finishes DEF Errs, Running
  <2> QED
    BY <1>1, <1>2, <2>3, <2>5 DEF Inv, Types
<1>7. CASE producer.latest - 1 # Undef
  <2>1. producer' = [producer EXCEPT !.pc = "load", !.latest = producer.latest - 1,
                       !.left = producer.left - 1]
    BY <1>7 DEF SendAd
  <2>2. producer.latest - 1 \in Nat /\ producer.latest - 1 >= 1 /\ producer.left - 1 \in Nat
    BY <1>2, <1>5, <1>7 DEF Undef
  <2>3. /\ producer' \in Producers
        /\ producer'.pc = "load" /\ producer'.latest = producer.latest - 1
        /\ producer'.left = producer.left - 1 /\ producer'.batch = producer.batch
        /\ producer'.n = producer.n /\ producer'.err = producer.err
    BY <1>2, <2>1, <2>2 DEF Producers, Running
  <2>4. /\ InputType' /\ ChannelType' /\ Channels' /\ Reading'
        /\ Sent' = Sent + 1 /\ Sent' <= Wanted /\ Wanted' = Wanted
    BY <1>1, <2>3, OneSent DEF Running
  <2>5. Position'
    BY <1>1, <1>2, <2>2, <2>3, <2>4 DEF Position
  <2>6. Progress'
    <3>1. /\ producer'.left <= producer'.batch /\ producer'.batch \in 1..BatchSize
          /\ producer'.err = "none"
      BY <1>1, <1>2, <1>5, <2>3 DEF Inv, Progress, Running
    <3>2. IF opts.n = 0 THEN producer.n = All
          ELSE producer.n >= 0 /\ producer.n + producer.left = opts.n - Sent
      BY <1>1 DEF Inv, Progress, ToSend, Running
    <3>3. IF opts.n = 0 THEN producer'.n = All
          ELSE producer'.n >= 0 /\ producer'.n + producer'.left = opts.n - Sent'
      <4> DEFINE n == producer.n  left == producer.left  sent == Sent
      <4>1. /\ producer'.n = n /\ producer'.left = left - 1 /\ Sent' = sent + 1
            /\ n \in Int /\ left \in Nat /\ sent \in Nat /\ opts.n \in Nat
            /\ IF opts.n = 0 THEN n = All ELSE n >= 0 /\ n + left = opts.n - sent
        BY <1>2, <1>5, <2>3, <2>4, <3>2
      <4> HIDE DEF n, left, sent
      <4> QED
        BY <4>1
    <3> QED
      BY <1>1, <2>3, <3>1, <3>3 DEF Progress, ToSend, Running, Ended
  <2>7. StoreHolds'
    <3>1. Rest' = Rest \ {producer.latest}
      <4> DEFINE latest == producer.latest  left == producer.left
      <4>1. /\ producer'.latest = latest - 1 /\ producer'.left = left - 1
            /\ latest \in Nat /\ latest >= 1 /\ left \in Nat /\ left >= 1
            /\ Rest = {k \in 1..latest : k > latest - left}
        BY <1>2, <1>5, <2>3 DEF Rest
      <4>2. Rest' = {k \in 1..(latest - 1) : k > (latest - 1) - (left - 1)}
        BY <4>1 DEF Rest
      <4> HIDE DEF latest, left
      <4>3. Rest' = Rest \ {latest}
        BY <4>1, <4>2
      <4> QED
        BY <4>3 DEF latest
    <3>2. Segmented' = Segmented
      BY <1>1 DEF Segmented
    <3>3. stored' \subseteq Rest' /\ (Segmented' \/ stored' = Rest')
      BY <1>1, <3>1, <3>2 DEF Inv, StoreHolds
    <3> QED
      BY <1>4, <2>3, <3>3 DEF StoreHolds
  <2>8. Types'
    <3>1. stored' \subseteq 1..Len(chain') /\ action' \in Actions
      BY <1>1, <1>2 DEF Inv, Types
    <3> QED
      BY <2>3, <2>4, <3>1 DEF Types
  <2> QED
    BY <2>4, <2>5, <2>6, <2>7, <2>8 DEF Inv
<1> QED
  BY <1>6, <1>7

LEMMA BatchDoneInv == ASSUME Inv, BatchDone PROVE Inv'
<1>1. /\ producer.pc = "load" /\ producer.left = 0
      /\ producer' = [producer EXCEPT !.pc = "loop"]
      /\ UNCHANGED <<chain, opts, ended, faults, stored, ads, closed, errCh, action, seen>>
  BY DEF BatchDone, input
<1>2. /\ producer.latest \in Nat /\ producer.latest >= 1 /\ producer \in Producers
      /\ producer.latest = Len(chain) - Sent /\ Sent \in Nat
      /\ stored \subseteq Rest /\ \E top \in Int : Within(stored, top)
  BY <1>1, InBatch
<1>3. /\ producer' \in Producers
      /\ producer'.pc = "loop" /\ producer'.latest = producer.latest
      /\ producer'.left = 0 /\ producer'.batch = producer.batch
      /\ producer'.n = producer.n /\ producer'.err = producer.err
  BY <1>1, <1>2 DEF Producers, Running
<1>4. InputType' /\ ChannelType' /\ Channels' /\ Reading' /\ Sent' = Sent /\ Wanted' = Wanted
  BY <1>1, <1>3, NothingSent DEF Running, Inv, Types, InputType
<1>5. stored' = {}
  BY <1>1, <1>2 DEF Rest
<1>6. Position'
  BY <1>1, <1>2, <1>3, <1>4 DEF Inv, Position
<1>7. Progress'
  <2>1. /\ producer.batch \in 1..BatchSize /\ BatchSize \in Nat /\ producer.n \in Int
        /\ producer.err = "none"
    BY <1>1, OptionTypes, ProducerTypes DEF Inv, Progress, Running
  <2>2. IF opts.n = 0 THEN producer.n = All
        ELSE producer.n >= 0 /\ producer.n = opts.n - Sent
    BY <1>1, <2>1 DEF Inv, Progress, ToSend, Running
  <2> QED
    BY <1>1, <1>3, <1>4, <2>1, <2>2 DEF Progress, ToSend, Running, Ended
<1>8. StoreHolds'
  BY <1>1, <1>2, <1>3, <1>5 DEF StoreHolds
<1>9. Types'
  <2>1. stored' \subseteq 1..Len(chain') /\ action' \in Actions
    BY <1>1, <1>5 DEF Inv, Types
  <2> QED
    BY <1>3, <1>4, <2>1 DEF Types
<1> QED
  BY <1>4, <1>6, <1>7, <1>8, <1>9 DEF Inv

-----------------------------------------------------------------------------
(* The goroutine ends.                                                        *)
LEMMA ReportInv == ASSUME Inv, Report PROVE Inv'
<1>1. /\ producer.pc = "report" /\ errCh' = <<producer.err>>
      /\ producer' = [producer EXCEPT !.pc = "close"]
      /\ UNCHANGED <<chain, opts, ended, faults, stored, ads, closed, action, seen>>
  BY DEF Report, input
<1>2. /\ Types /\ Position /\ Progress /\ StoreHolds /\ Channels /\ Reading
      /\ producer \in Producers /\ producer.err \in Errs
  BY ProducerTypes DEF Inv, Types
<1>3. /\ producer' \in Producers
      /\ producer'.pc = "close" /\ producer'.latest = producer.latest
      /\ producer'.left = producer.left /\ producer'.batch = producer.batch
      /\ producer'.n = producer.n /\ producer'.err = producer.err
  BY <1>1, <1>2 DEF Producers, Ended
<1>4. errCh' \in Seq(Errs) /\ Len(errCh') = 1 /\ Head(errCh') = producer.err
  BY <1>1, <1>2
<1>5. Types'
  <2>1. InputType' /\ ChannelType'
    BY <1>1, <1>2, <1>4 DEF Types, InputType, ChannelType
  <2> QED
    BY <1>1, <1>2, <1>3, <2>1 DEF Types
<1>6. Sent' = Sent /\ Wanted' = Wanted /\ Segmented' = Segmented /\ Cancelled' = Cancelled
  BY <1>1 DEF Sent, Wanted, Segmented, Cancelled
<1>7. Position'
  BY <1>2, <1>3, <1>6 DEF Position
<1>8. Progress'
  BY <1>1, <1>2, <1>3, <1>6 DEF Progress, Running, Ended
<1>9. StoreHolds'
  BY <1>1, <1>2, <1>3 DEF StoreHolds
<1>10. Channels'
  BY <1>1, <1>2, <1>3, <1>4 DEF Channels
<1>11. Reading'
  BY <1>1, <1>2 DEF Reading, Stopped
<1> QED
  BY <1>5, <1>7, <1>8, <1>9, <1>10, <1>11 DEF Inv

LEMMA CloseAdsInv == ASSUME Inv, CloseAds PROVE Inv'
<1>1. /\ producer.pc = "close" /\ closed' = TRUE
      /\ producer' = [producer EXCEPT !.pc = "done"]
      /\ UNCHANGED <<chain, opts, ended, faults, stored, ads, errCh, action, seen>>
  BY DEF CloseAds, input
<1>2. /\ Types /\ Position /\ Progress /\ StoreHolds /\ Channels /\ Reading
      /\ producer \in Producers
  BY DEF Inv, Types
<1>3. /\ producer' \in Producers
      /\ producer'.pc = "done" /\ producer'.latest = producer.latest
      /\ producer'.left = producer.left /\ producer'.batch = producer.batch
      /\ producer'.n = producer.n /\ producer'.err = producer.err
  BY <1>1, <1>2 DEF Producers, Ended
<1>4. Types'
  <2>1. InputType' /\ ChannelType'
    BY <1>1, <1>2 DEF Types, InputType, ChannelType
  <2> QED
    BY <1>1, <1>2, <1>3, <2>1 DEF Types
<1>6. Sent' = Sent /\ Wanted' = Wanted /\ Segmented' = Segmented /\ Cancelled' = Cancelled
  BY <1>1 DEF Sent, Wanted, Segmented, Cancelled
<1>7. Position'
  BY <1>2, <1>3, <1>6 DEF Position
<1>8. Progress'
  BY <1>1, <1>2, <1>3, <1>6 DEF Progress, Running, Ended
<1>9. StoreHolds'
  BY <1>1, <1>2, <1>3 DEF StoreHolds
<1>10. Channels'
  BY <1>1, <1>2, <1>3 DEF Channels
<1>11. Reading'
  BY <1>1, <1>2 DEF Reading, Stopped
<1> QED
  BY <1>4, <1>7, <1>8, <1>9, <1>10, <1>11 DEF Inv

-----------------------------------------------------------------------------
(* adsCrawlAction leaves the goroutine where it is.                           *)
LEMMA GoroutineKept ==
  ASSUME Inv, UNCHANGED <<chain, opts, producer, stored>>, Sent' = Sent,
         faults > 0 => faults' > 0, Cancelled => Cancelled'
  PROVE  Position' /\ Progress' /\ StoreHolds'
<1>1. Position /\ Progress /\ StoreHolds
  BY DEF Inv
<1>2. Wanted' = Wanted /\ Segmented' = Segmented /\ Rest' = Rest /\ ToSend' = ToSend
  BY DEF Wanted, Segmented, Rest, ToSend
<1>3. Position'
  BY <1>1, <1>2 DEF Position
<1>4. Progress'
  BY <1>1, <1>2 DEF Progress
<1>5. StoreHolds'
  BY <1>1, <1>2 DEF StoreHolds
<1> QED
  BY <1>3, <1>4, <1>5

LEMMA ActionTypes ==
  ASSUME Types
  PROVE  /\ action \in Actions
         /\ action.pc \in {"receive", "entries", "cancel", "wait", "done"}
         /\ action.ad \in Nat /\ action.active \in Nat /\ action.total \in Nat
         /\ action.removed \in SUBSET Contexts
         /\ action.result \in Errs \cup {"ok", "drain failed"}
  BY DEF Types, Actions

(* The ad in the channel is the next one below those received.                *)
LEMMA NextAd ==
  ASSUME Inv, ads # <<>>
  PROVE  /\ Head(ads) \in Nat /\ Head(ads) >= 1 /\ Head(ads) <= Len(chain)
         /\ Head(ads) = Len(chain) - Len(seen)
         /\ Tail(ads) = <<>> /\ Len(ads) = 1 /\ Len(seen) < Wanted
         /\ chain[Head(ads)] \in Kinds
<1>1. Types /\ Channels /\ Position
  BY DEF Inv
<1>2. /\ ads \in Seq(Nat) /\ Len(ads) <= 1 /\ Len(seen) \in Nat
      /\ Len(chain) \in Nat /\ Wanted <= Len(chain) /\ Wanted \in Nat
      /\ Sent = Len(seen) + Len(ads) /\ Sent <= Wanted
  BY <1>1, Numbers DEF Types, ChannelType, Sent, Position
<1>3. Len(ads) = 1
  <2>1. Len(ads) \in Nat /\ Len(ads) # 0
    BY <1>2, EmptySeq, LenProperties
  <2> DEFINE n == Len(ads)
  <2>2. n \in Nat /\ n # 0 /\ n <= 1
    BY <1>2, <2>1
  <2> HIDE DEF n
  <2>3. n = 1
    BY <2>2
  <2> QED
    BY <2>3 DEF n
<1>4. Head(ads) = Len(chain) - Len(seen)
  BY <1>1 DEF Channels
<1>5. Tail(ads) = <<>>
  <2>1. Len(Tail(ads)) = 0 /\ Tail(ads) \in Seq(Nat)
    BY <1>2, <1>3, HeadTailProperties
  <2> QED
    BY <2>1, EmptySeq
<1>6. Head(ads) \in Nat /\ Head(ads) >= 1 /\ Head(ads) <= Len(chain) /\ Len(seen) < Wanted
  BY <1>2, <1>3, <1>4
<1>7. chain[Head(ads)] \in Kinds
  <2>1. chain \in Seq(Kinds)
    BY <1>1 DEF Types, InputType
  <2> DEFINE k == Head(ads)
  <2>2. k \in 1..Len(chain)
    BY <1>2, <1>6
  <2> HIDE DEF k
  <2>3. chain[k] \in Kinds
    BY <2>1, <2>2, LenProperties
  <2> QED
    BY <2>3 DEF k
<1> QED
  BY <1>3, <1>4, <1>5, <1>6, <1>7

LEMMA ReceiveInv == ASSUME Inv, Receive PROVE Inv'
<1> DEFINE k == Head(ads)
           removed == IF chain[k].rm THEN action.removed \cup {chain[k].ctx}
                      ELSE action.removed
           pc == IF HasWork(k) THEN "entries" ELSE "receive"
           r == [ad |-> k, mhs |-> 0]
<1>1. /\ action.pc = "receive" /\ ads # <<>> /\ ads' = Tail(ads) /\ seen' = Append(seen, r)
      /\ action' = [action EXCEPT !.pc = pc, !.ad = k, !.removed = removed]
      /\ UNCHANGED <<chain, opts, ended, faults, producer, stored, closed, errCh>>
  BY DEF Receive, input
<1>2. /\ Types /\ Channels /\ Reading
  BY DEF Inv
<1>3. /\ k \in Nat /\ k >= 1 /\ k <= Len(chain) /\ k = Len(chain) - Len(seen)
      /\ Tail(ads) = <<>> /\ Len(ads) = 1 /\ chain[k] \in Kinds
  BY <1>1, NextAd
<1>4. pc \in {"receive", "entries"} /\ removed \in SUBSET Contexts
  BY <1>2, <1>3, ActionTypes DEF Contexts
<1> HIDE DEF k, removed, pc
<1>5. /\ action' \in Actions /\ action'.pc = pc /\ action'.ad = k
      /\ action'.total = action.total /\ action'.result = action.result
  BY <1>1, <1>2, <1>3, <1>4, ActionTypes DEF Actions
<1>6. /\ seen \in Seq([ad : Nat, mhs : Nat]) /\ r \in [ad : Nat, mhs : Nat]
      /\ r.ad = k /\ Len(seen) \in Nat
  BY <1>2, <1>3, Numbers DEF Types, ChannelType
<1> HIDE DEF r
<1>7. /\ seen' \in Seq([ad : Nat, mhs : Nat]) /\ Len(seen') = Len(seen) + 1
      /\ \A i \in 1..Len(seen) : seen'[i] = seen[i]
      /\ seen'[Len(seen) + 1] = r
  BY <1>1, <1>6, AppendProperties
<1>8. ads' = <<>> /\ ads' \in Seq(Nat) /\ Len(ads') = 0
  BY <1>1, <1>3, EmptySeq
<1>9. Sent' = Sent
  BY <1>3, <1>6, <1>7, <1>8 DEF Sent
<1>10. Position' /\ Progress' /\ StoreHolds'
  BY <1>1, <1>9, GoroutineKept DEF Cancelled
<1>11. Types'
  <2>1. InputType'
    BY <1>1, <1>2 DEF Types, InputType
  <2>2. ChannelType'
    BY <1>1, <1>2, <1>7, <1>8 DEF Types, ChannelType
  <2> QED
    BY <1>1, <1>2, <1>5, <2>1, <2>2 DEF Types
<1>12. Channels'
  <2>1. \A i \in 1..Len(seen') : seen'[i].ad = Len(chain) - i + 1
    <3> SUFFICES ASSUME NEW i \in 1..Len(seen') PROVE seen'[i].ad = Len(chain) - i + 1
      OBVIOUS
    <3>0. Len(chain) \in Nat
      BY <1>2, Numbers
    <3>1. CASE i \in 1..Len(seen)
      BY <1>2, <1>7, <3>1 DEF Channels
    <3>2. CASE i = Len(seen) + 1
      BY <1>3, <1>6, <1>7, <3>0, <3>2
    <3> QED
      BY <1>6, <1>7, <3>1, <3>2
  <2> QED
    BY <1>1, <1>2, <1>8, <2>1 DEF Channels
<1>13. Reading'
  <2>1. Stopped' = Stopped
    BY <1>1, <1>5 DEF Stopped
  <2> QED
    BY <1>1, <1>2, <1>3, <1>4, <1>5, <1>6, <1>7, <2>1 DEF Reading
<1> QED
  BY <1>10, <1>11, <1>12, <1>13 DEF Inv

LEMMA ReceiveEndInv == ASSUME Inv, ReceiveEnd PROVE Inv'
<1>1. /\ action.pc = "receive" /\ ads = <<>> /\ closed
      /\ action' = [action EXCEPT !.pc = "cancel"]
      /\ UNCHANGED <<chain, opts, ended, faults, producer, stored, ads, closed, errCh, seen>>
  BY DEF ReceiveEnd, input
<1>2. /\ Types /\ Channels /\ Reading /\ Progress
  BY DEF Inv
<1>3. /\ action' \in Actions /\ action'.pc = "cancel" /\ action'.ad = action.ad
      /\ action'.total = action.total /\ action'.result = action.result
  BY <1>1, <1>2, ActionTypes DEF Actions
<1>4. Position' /\ Progress' /\ StoreHolds'
  BY <1>1, GoroutineKept DEF Cancelled, Sent
<1>5. Types'
  <2>1. InputType' /\ ChannelType'
    BY <1>1, <1>2 DEF Types, InputType, ChannelType
  <2> QED
    BY <1>1, <1>2, <1>3, <2>1 DEF Types
<1>6. Channels'
  BY <1>1, <1>2 DEF Channels
<1>7. Reading'
  <2>1. producer.pc = "done"
    BY <1>1, <1>2 DEF Channels
  <2>2. producer.err = "none" => Len(seen) = Wanted \/ ended = "user"
    <3>1. Sent = Len(seen)
      <4>1. Len(ads) = 0 /\ Len(seen) \in Nat
        BY <1>1, <1>2, EmptySeq, Numbers
      <4> QED
        BY <4>1 DEF Sent
    <3>2. Cancelled => ended = "user"
      BY <1>1, <1>2 DEF Cancelled, Reading, Types, InputType
    <3> QED
      BY <1>2, <2>1, <3>1, <3>2 DEF Progress, Ended
  <2>3. Wanted' = Wanted
    BY <1>1 DEF Wanted
  <2> QED
    BY <1>1, <1>2, <1>3, <2>1, <2>2, <2>3 DEF Reading
<1> QED
  BY <1>4, <1>5, <1>6, <1>7 DEF Inv

LEMMA EntriesFailInv == ASSUME Inv, EntriesFail PROVE Inv'
<1>1. /\ action.pc = "entries"
      /\ action' = [action EXCEPT !.pc = "receive"]
      /\ UNCHANGED <<chain, opts, ended, producer, stored, ads, closed, errCh, seen>>
  BY DEF EntriesFail, input
<1>2. /\ Types /\ Channels /\ Reading
  BY DEF Inv
<1>3. faults' \in 0..MaxFaults /\ (faults > 0 => faults' > 0)
  <2>1. CASE Fault
    BY <1>2, <2>1, FaultCount
  <2>2. CASE faults' = faults
    BY <1>2, <2>2 DEF Types, InputType
  <2> QED
    BY <2>1, <2>2 DEF EntriesFail
<1>4. /\ action' \in Actions /\ action'.pc = "receive" /\ action'.ad = action.ad
      /\ action'.total = action.total /\ action'.result = action.result
  BY <1>1, <1>2, ActionTypes DEF Actions
<1>5. Position' /\ Progress' /\ StoreHolds'
  BY <1>1, <1>3, GoroutineKept DEF Cancelled, Sent
<1>6. Types'
  <2>1. InputType' /\ ChannelType'
    BY <1>1, <1>2, <1>3 DEF Types, InputType, ChannelType
  <2> QED
    BY <1>1, <1>2, <1>4, <2>1 DEF Types
<1>7. Channels'
  BY <1>1, <1>2 DEF Channels
<1>8. Reading'
  <2>1. Stopped' = Stopped
    BY <1>1, <1>4 DEF Stopped
  <2> QED
    BY <1>1, <1>2, <1>4, <2>1 DEF Reading
<1> QED
  BY <1>5, <1>6, <1>7, <1>8 DEF Inv

(* What counting the entries of an ad does to the counters.                   *)
LEMMA CountedProperties ==
  ASSUME Types, NEW mhs \in Nat
  PROVE  LET c == Counted(action, mhs)
             total == action.total + mhs
         IN  /\ c \in Actions /\ c.ad = action.ad /\ c.result = action.result
             /\ c.total = total /\ total \in Nat /\ total >= action.total
             /\ c.pc = IF opts.stopMhs # 0 /\ total >= opts.stopMhs THEN "cancel" ELSE "receive"
<1> DEFINE total == action.total + mhs
           wasRm == chain[action.ad].ctx \in action.removed
           active == IF wasRm THEN action.active ELSE action.active + mhs
           pc == IF opts.stopMhs # 0 /\ total >= opts.stopMhs THEN "cancel" ELSE "receive"
<1>1. action.total \in Nat /\ action.active \in Nat /\ action \in Actions
  BY ActionTypes
<1>2. /\ total \in Nat /\ total >= action.total /\ active \in Nat
      /\ pc \in {"receive", "cancel"}
  BY <1>1
<1>3. Counted(action, mhs) = [action EXCEPT !.active = active, !.total = total, !.pc = pc]
  BY DEF Counted
<1> HIDE DEF active, total, pc
<1>4. LET c == Counted(action, mhs)
      IN  c \in Actions /\ c.ad = action.ad /\ c.result = action.result
          /\ c.total = total /\ c.pc = pc
  BY <1>1, <1>2, <1>3 DEF Actions
<1> QED
  BY <1>2, <1>4 DEF total, pc

LEMMA EntriesCounted ==
  ASSUME Inv, action.pc = "entries", NEW mhs \in 0..chain[action.ad].mhs
  PROVE  mhs \in Nat
<1>1. Types /\ Reading
  BY DEF Inv
<1>2. action.ad \in Nat /\ action.ad >= 1 /\ action.ad <= Len(chain) /\ Len(chain) \in Nat
  BY <1>1, ActionTypes, Numbers DEF Reading
<1>3. action.ad \in 1..Len(chain)
  BY <1>2
<1>4. chain[action.ad] \in Kinds
  BY <1>1, <1>3, LenProperties DEF Types, InputType
<1>5. chain[action.ad].mhs \in Nat
  BY <1>4, BoundsAssumption
<1> QED
  BY <1>5

LEMMA CountEntriesInv == ASSUME Inv, CountEntries PROVE Inv'
<1>1. /\ action.pc = "entries"
      /\ UNCHANGED <<chain, opts, ended, producer, stored, ads, closed, errCh>>
  BY DEF CountEntries, input
<1>2. /\ Types /\ Channels /\ Reading
  BY DEF Inv
<1>3. PICK mhs \in 0..chain[action.ad].mhs :
        /\ UNCHANGED faults \/ Fault
        /\ action' = Counted(action, mhs)
        /\ seen' = [seen EXCEPT ![Len(seen)].mhs = mhs]
  BY DEF CountEntries
<1>4. faults' \in 0..MaxFaults /\ (faults > 0 => faults' > 0)
  <2>1. CASE Fault
    BY <1>2, <2>1, FaultCount
  <2>2. CASE UNCHANGED faults
    BY <1>2, <2>2 DEF Types, InputType
  <2> QED
    BY <1>3, <2>1, <2>2
<1>5. mhs \in Nat
  BY <1>1, EntriesCounted
<1>6. /\ action' \in Actions /\ action'.ad = action.ad /\ action'.result = action.result
      /\ action'.total = action.total + mhs /\ action'.total \in Nat
      /\ action'.pc = IF opts.stopMhs # 0 /\ action'.total >= opts.stopMhs
                      THEN "cancel" ELSE "receive"
  BY <1>2, <1>3, <1>5, CountedProperties
<1>7. /\ Len(seen) \in Nat /\ Len(seen) >= 1 /\ seen \in Seq([ad : Nat, mhs : Nat])
  BY <1>1, <1>2, Numbers DEF Reading, Types, ChannelType
<1>8. /\ seen' \in Seq([ad : Nat, mhs : Nat]) /\ Len(seen') = Len(seen)
      /\ \A i \in 1..Len(seen) : seen'[i].ad = seen[i].ad
  <2> DEFINE l == Len(seen)
             r == [seen[l] EXCEPT !.mhs = mhs]
  <2>1. seen' = [seen EXCEPT ![l] = r]
    BY <1>3
  <2>2. l \in 1..Len(seen) /\ seen[l] \in [ad : Nat, mhs : Nat]
    <3>1. l \in 1..Len(seen)
      BY <1>7
    <3> HIDE DEF l
    <3> QED
      BY <1>7, <3>1, ElementOfSeq
  <2>3. r \in [ad : Nat, mhs : Nat] /\ r.ad = seen[l].ad
    BY <1>5, <2>2
  <2> HIDE DEF l, r
  <2>4. /\ seen' \in Seq([ad : Nat, mhs : Nat]) /\ Len(seen') = Len(seen)
        /\ \A i \in 1..Len(seen) : seen'[i] = IF i = l THEN r ELSE seen[i]
    BY <1>7, <2>1, <2>2, <2>3, ExceptSeq
  <2> QED
    BY <2>3, <2>4
<1>9. Position' /\ Progress' /\ StoreHolds'
  BY <1>1, <1>4, <1>8, GoroutineKept DEF Cancelled, Sent
<1>10. Types'
  <2>1. InputType' /\ ChannelType'
    BY <1>1, <1>2, <1>4, <1>8 DEF Types, InputType, ChannelType
  <2> QED
    BY <1>1, <1>2, <1>6, <2>1 DEF Types
<1>11. Channels'
  <2>1. \A i \in 1..Len(seen') : seen'[i].ad = Len(chain') - i + 1
    BY <1>1, <1>2, <1>8 DEF Channels
  <2> QED
    BY <1>1, <1>2, <1>8, <2>1 DEF Channels
<1>12. Reading'
  <2>1. Stopped' <=> action'.pc = "cancel"
    BY <1>1, <1>6 DEF Stopped
  <2> QED
    BY <1>1, <1>2, <1>6, <2>1 DEF Reading
<1> QED
  BY <1>9, <1>10, <1>11, <1>12 DEF Inv

(* Ending ctx loses no interrupt.                                             *)
LEMMA EndCtxKeeps ==
  ASSUME Types, EndCtx
  PROVE  /\ ended' \in {"nobody", "user", "action"} /\ Cancelled'
         /\ ended = "user" <=> ended' = "user"
  BY DEF Types, InputType, EndCtx, Cancelled

LEMMA DrainFailsInv == ASSUME Inv, DrainFails PROVE Inv'
<1>1. /\ action.pc = "entries" /\ Fault /\ EndCtx
      /\ action' = [action EXCEPT !.pc = "done", !.result = "drain failed"]
      /\ UNCHANGED <<chain, opts, producer, stored, ads, closed, errCh, seen>>
  BY DEF DrainFails, input
<1>2. /\ Types /\ Channels /\ Reading
  BY DEF Inv
<1>3. faults' \in 0..MaxFaults /\ faults' > 0
  BY <1>1, <1>2, FaultCount
<1>4. /\ action' \in Actions /\ action'.pc = "done" /\ action'.ad = action.ad
      /\ action'.result = "drain failed"
  BY <1>1, <1>2, ActionTypes DEF Actions
<1>5. ended' \in {"nobody", "user", "action"} /\ Cancelled'
  BY <1>1, <1>2, EndCtxKeeps
<1>6. Position' /\ Progress' /\ StoreHolds'
  BY <1>1, <1>3, <1>5, GoroutineKept DEF Sent
<1>7. Types'
  <2>1. InputType' /\ ChannelType'
    BY <1>1, <1>2, <1>3, <1>5 DEF Types, InputType, ChannelType
  <2> QED
    BY <1>1, <1>2, <1>4, <2>1 DEF Types
<1>8. Channels'
  BY <1>1, <1>2 DEF Channels
<1>9. Reading'
  BY <1>1, <1>2, <1>4 DEF Reading
<1> QED
  BY <1>6, <1>7, <1>8, <1>9 DEF Inv

LEMMA CancelCrawlInv == ASSUME Inv, CancelCrawl PROVE Inv'
<1>1. /\ action.pc = "cancel" /\ EndCtx
      /\ action' = [action EXCEPT !.pc = "wait"]
      /\ UNCHANGED <<chain, opts, faults, producer, stored, ads, closed, errCh, seen>>
  BY DEF CancelCrawl, input
<1>2. /\ Types /\ Channels /\ Reading
  BY DEF Inv
<1>3. /\ action' \in Actions /\ action'.pc = "wait" /\ action'.ad = action.ad
      /\ action'.result = action.result /\ action'.total = action.total
  BY <1>1, <1>2, ActionTypes DEF Actions
<1>4. /\ ended' \in {"nobody", "user", "action"} /\ Cancelled'
      /\ ended = "user" <=> ended' = "user"
  BY <1>1, <1>2, EndCtxKeeps
<1>5. Position' /\ Progress' /\ StoreHolds'
  BY <1>1, <1>4, GoroutineKept DEF Sent
<1>6. Types'
  <2>1. InputType' /\ ChannelType'
    BY <1>1, <1>2, <1>4 DEF Types, InputType, ChannelType
  <2> QED
    BY <1>1, <1>2, <1>3, <2>1 DEF Types
<1>7. Channels'
  BY <1>1, <1>2 DEF Channels
<1>8. Reading'
  <2>1. Stopped' = Stopped /\ Wanted' = Wanted
    BY <1>1, <1>3 DEF Stopped, Wanted
  <2> QED
    BY <1>1, <1>2, <1>3, <1>4, <2>1 DEF Reading
<1> QED
  BY <1>5, <1>6, <1>7, <1>8 DEF Inv

(* The error in its channel is the goroutine's.                               *)
LEMMA ErrorSent ==
  ASSUME Inv, errCh # <<>>
  PROVE  /\ errCh \in Seq(Errs) /\ Len(errCh) = 1 /\ Head(errCh) = producer.err
         /\ producer.err \in Errs /\ Tail(errCh) = <<>>
         /\ producer.pc \in {"close", "done"}
<1>1. errCh \in Seq(Errs) /\ Len(errCh) <= 1
  BY DEF Inv, Types, ChannelType
<1>2. Len(errCh) = 1
  <2> DEFINE n == Len(errCh)
  <2>1. n \in Nat /\ n # 0 /\ n <= 1
    BY <1>1, EmptySeq, LenProperties
  <2> HIDE DEF n
  <2>2. n = 1
    BY <2>1
  <2> QED
    BY <2>2 DEF n
<1>3. Tail(errCh) = <<>>
  <2>1. Len(Tail(errCh)) = 0 /\ Tail(errCh) \in Seq(Errs)
    BY <1>1, <1>2, HeadTailProperties
  <2> QED
    BY <2>1, EmptySeq
<1>4. Head(errCh) = producer.err /\ producer.pc \in {"close", "done"}
  BY DEF Inv, Channels
<1>5. producer.err \in Errs
  BY ProducerTypes DEF Inv
<1> QED
  BY <1>1, <1>2, <1>3, <1>4, <1>5

LEMMA TakeErrorInv == ASSUME Inv, TakeError PROVE Inv'
<1> DEFINE result == IF Head(errCh) = "none" THEN "ok" ELSE Head(errCh)
<1>1. /\ action.pc = "wait" /\ errCh # <<>> /\ errCh' = Tail(errCh)
      /\ action' = [action EXCEPT !.pc = "done", !.result = result]
      /\ UNCHANGED <<chain, opts, ended, faults, producer, stored, ads, closed, seen>>
  BY DEF TakeError, input
<1>2. /\ Types /\ Channels /\ Reading
  BY DEF Inv
<1>3. result \in (Errs \cup {"ok"}) \ {"none"} /\ errCh' = <<>>
  BY <1>1, ErrorSent
<1> HIDE DEF result
<1>4. /\ action' \in Actions /\ action'.pc = "done" /\ action'.ad = action.ad
      /\ action'.result # "none"
  <2>1. /\ action'.pc = "done" /\ action'.ad = action.ad /\ action'.result = result
        /\ action' \in Actions
    BY <1>1, <1>2, <1>3, ActionTypes DEF Actions
  <2> QED
    BY <1>3, <2>1
<1>5. Position' /\ Progress' /\ StoreHolds'
  BY <1>1, GoroutineKept DEF Sent, Cancelled
<1>6. Types'
  <2>1. InputType'
    BY <1>1, <1>2 DEF Types, InputType
  <2>2. errCh' \in Seq(Errs) /\ Len(errCh') <= 1
    BY <1>3, EmptySeq
  <2>3. ChannelType'
    BY <1>1, <1>2, <2>2 DEF Types, ChannelType
  <2> QED
    BY <1>1, <1>2, <1>4, <2>1, <2>3 DEF Types
<1>7. Channels'
  BY <1>1, <1>2, <1>3 DEF Channels
<1>8. Reading'
  BY <1>1, <1>2, <1>4 DEF Reading
<1> QED
  BY <1>5, <1>6, <1>7, <1>8 DEF Inv

LEMMA InterruptInv == ASSUME Inv, Interrupt PROVE Inv'
<1>1. /\ ended = "nobody" /\ ended' = "user"
      /\ UNCHANGED <<chain, opts, faults, producer, stored, ads, closed, errCh, action, seen>>
  BY DEF Interrupt, input
<1>2. /\ Types /\ Channels /\ Reading
  BY DEF Inv
<1>3. Position' /\ Progress' /\ StoreHolds'
  BY <1>1, GoroutineKept DEF Sent, Cancelled
<1>4. Types'
  BY <1>1, <1>2 DEF Types, InputType, ChannelType
<1>5. Channels'
  BY <1>1, <1>2 DEF Channels
<1>6. Reading'
  BY <1>1, <1>2 DEF Reading, Stopped, Wanted
<1> QED
  BY <1>3, <1>4, <1>5, <1>6 DEF Inv

LEMMA InvStep == Inv /\ [Next]_vars => Inv'
<1> SUFFICES ASSUME Inv, [Next]_vars PROVE Inv'
  OBVIOUS
<1>1. CASE Interrupt
  BY <1>1, InterruptInv
<1>2. CASE Crawler
  BY <1>2, NextBatchInv, LoopDoneInv, SyncBatchInv, SyncEndsInv, LoadAdInv, BadAdInv,
     SendAdInv, SendCancelledInv, BatchDoneInv, ReportInv, CloseAdsInv DEF Crawler
<1>3. CASE Consumer
  BY <1>3, ReceiveInv, ReceiveEndInv, EntriesFailInv, CountEntriesInv, DrainFailsInv,
     CancelCrawlInv, TakeErrorInv DEF Consumer
<1>4. CASE UNCHANGED vars
  <2>1. UNCHANGED <<chain, opts, ended, faults, producer, stored, ads, closed, errCh,
                    action, seen>>
    BY <1>4 DEF vars, input
  <2>2. Types' /\ Channels' /\ Reading'
    BY <2>1 DEF Inv, Types, InputType, ChannelType, Channels, Reading, Stopped, Wanted
  <2>3. Position' /\ Progress' /\ StoreHolds'
    BY <2>1, GoroutineKept DEF Sent, Cancelled
  <2> QED
    BY <2>2, <2>3 DEF Inv
<1> QED
  BY <1>1, <1>2, <1>3, <1>4 DEF Next

(* Where the goroutine stood when it stopped is still on the chain.           *)
Bounds ==
  /\ producer.latest <= Len(chain)
  /\ producer.n = All \/ producer.n \in 0..opts.n

AtWork == producer.pc \in Running

LEMMA RunningBounds == Inv /\ AtWork => Bounds
<1> SUFFICES ASSUME Inv, producer.pc \in Running PROVE Bounds
  BY DEF AtWork
<1>1. /\ Len(chain) \in Nat /\ Sent \in Nat /\ opts.n \in Nat /\ producer.n \in Int
      /\ producer.batch \in Nat /\ producer.left \in Nat
  BY Numbers, OptionTypes, ProducerTypes DEF Inv
<1>2. producer.latest <= Len(chain)
  BY <1>1 DEF Inv, Position, Running, Undef
<1>3. opts.n # 0 => producer.n >= 0 /\ ToSend = opts.n - Sent
  BY DEF Inv, Progress
<1>4. opts.n # 0 => producer.n >= 0 /\ producer.n <= opts.n
  <2> DEFINE n == producer.n  batch == producer.batch  left == producer.left  sent == Sent
  <2>1. ToSend = n \/ ToSend = n + batch \/ ToSend = n + left
    BY DEF ToSend
  <2>2. /\ n \in Int /\ batch \in Nat /\ left \in Nat /\ sent \in Nat /\ opts.n \in Nat
        /\ opts.n # 0 => n >= 0 /\ ToSend = opts.n - sent
    BY <1>1, <1>3
  <2> HIDE DEF n, batch, left, sent
  <2>3. opts.n # 0 => n >= 0 /\ n <= opts.n
    BY <2>1, <2>2
  <2> QED
    BY <2>3 DEF n
<1>5. opts.n = 0 => producer.n = All
  BY DEF Inv, Progress
<1> QED
  BY <1>1, <1>2, <1>4, <1>5 DEF Bounds

LEMMA BoundsInit == Init => Bounds
<1> SUFFICES ASSUME Init PROVE Bounds
  OBVIOUS
<1>1. Inv /\ AtWork
  BY InvInit DEF Init, Running, AtWork
<1> QED
  BY <1>1, RunningBounds

LEMMA BoundsStep == Inv /\ Bounds /\ [Next]_vars => Bounds' \/ AtWork'
<1> SUFFICES ASSUME Inv, Bounds, [Next]_vars, ~AtWork' PROVE Bounds'
  OBVIOUS
<1>1. producer'.pc \notin Running
  BY DEF AtWork
<1>2. UNCHANGED <<chain, opts>>
  BY DEF Next, Crawler, Consumer, Interrupt, NextBatch, LoopDone, SyncBatch, SyncCancelled,
     SyncFails, LoadAd, BadAd, SendAd, SendCancelled, BatchDone, Report, CloseAds,
     Receive, ReceiveEnd, EntriesFail, CountEntries, DrainFails, CancelCrawl, TakeError,
     vars, input
<1>3. producer \in Producers
  BY DEF Inv, Types
<1>4. ASSUME NEW e, Finish(e)
      PROVE  producer'.latest = producer.latest /\ producer'.n = producer.n
  BY <1>3, <1>4 DEF Finish, Producers
<1>5. CASE Report \/ CloseAds
  BY <1>2, <1>3, <1>5 DEF Report, CloseAds, Producers, Bounds
<1>6. CASE Interrupt \/ Consumer \/ UNCHANGED vars
  <2>1. producer' = producer
    BY <1>6 DEF Interrupt, Consumer, Receive, ReceiveEnd, EntriesFail, CountEntries,
       DrainFails, CancelCrawl, TakeError, vars
  <2> QED
    BY <1>2, <2>1 DEF Bounds
<1>7. CASE LoopDone \/ SyncCancelled \/ SyncFails \/ LoadAd \/ BadAd \/ SendAd
           \/ SendCancelled
  <2>1. (\E e : Finish(e)) \/ producer'.pc \in Running
    BY <1>3, <1>7 DEF LoopDone, SyncCancelled, SyncFails, LoadAd, BadAd, SendAd,
       SendCancelled, Producers, Running
  <2> QED
    BY <1>1, <1>2, <1>4, <2>1 DEF Bounds
<1>8. CASE NextBatch \/ SyncBatch \/ BatchDone
  <2>1. producer'.pc \in Running
    BY <1>3, <1>8 DEF NextBatch, SyncBatch, BatchDone, Producers, Running
  <2> QED
    BY <1>1, <2>1
<1> QED
  BY <1>5, <1>6, <1>7, <1>8 DEF Next, Crawler

(* The invariant, of every behaviour.                                         *)
LEMMA InvHolds == Spec => []Inv /\ []Bounds
<1>1. Init => Inv /\ Bounds
  BY InvInit, BoundsInit
<1>2. Inv /\ [Next]_vars => Inv'
  BY InvStep
<1>3. Inv /\ Bounds /\ [Next]_vars => Bounds' \/ AtWork'
  BY BoundsStep
<1>4. Inv /\ AtWork => Bounds
  BY RunningBounds
<1> QED
  BY <1>1, <1>2, <1>3, <1>4, PTL DEF Spec

-----------------------------------------------------------------------------
(* The types and the capacities of the channels: neither goroutine can put a  *)
(* second ad or a second error into a channel of one, and what the crawler    *)
(* reads next never leaves the chain or the batch.                            *)
THEOREM TypeCorrect == Spec => []TypeOK
<1>1. Inv /\ Bounds => TypeOK
  <2> SUFFICES ASSUME Inv, Bounds PROVE TypeOK
    OBVIOUS
  <2>1. /\ ended \in {"nobody", "user", "action"} /\ closed \in BOOLEAN
        /\ faults \in 0..MaxFaults /\ stored \subseteq 1..Len(chain)
        /\ Len(ads) <= 1 /\ Len(errCh) <= 1
    BY DEF Inv, Types, InputType, ChannelType
  <2>2. producer.latest \in 0..Len(chain)
    BY Numbers, ProducerTypes DEF Inv, Bounds
  <2>3. producer.left \in 0..producer.batch
    BY ProducerTypes DEF Inv, Progress
  <2>4. action.ad \in 0..Len(chain)
    <3>1. action.ad \in Nat /\ action.ad <= Len(chain) /\ Len(chain) \in Nat
      BY Numbers, ActionTypes DEF Inv, Reading
    <3> QED
      BY <3>1
  <2> QED
    BY <2>1, <2>2, <2>3, <2>4, ProducerTypes, ActionTypes
    DEF Inv, Bounds, TypeOK, Running, Ended
<1> QED
  BY <1>1, InvHolds, PTL

(* However long the chain and whatever the number asked for, the client never *)
(* keeps more than one batch of ads in its store.                             *)
THEOREM StoreStaysSmall == Spec => []StoreBounded
<1>1. Inv => StoreBounded
  <2> SUFFICES ASSUME Inv PROVE StoreBounded
    OBVIOUS
  <2>1. BatchSize \in Nat \ {0}
    BY BoundsAssumption
  <2>2. PICK top \in Int : Within(stored, top)
    BY DEF Inv, StoreHolds
  <2> DEFINE range == (top - BatchSize + 1)..top
  <2>3. IsFiniteSet(range) /\ Cardinality(range) = BatchSize
    BY <2>1, FS_Interval
  <2>4. stored \subseteq range
    BY <2>1, <2>2 DEF Within, Inv, Types
  <2>5. Cardinality(stored) <= Cardinality(range)
    BY <2>3, <2>4, FS_Subset
  <2> QED
    BY <2>3, <2>5 DEF StoreBounded
<1> QED
  BY <1>1, InvHolds, PTL

-----------------------------------------------------------------------------
(* CrawlService, with the history of what was received in place of what was   *)
(* delivered.                                                                 *)
Ads(s) == [i \in DOMAIN s |-> s[i].ad]
Seen == [ad : Nat, mhs : Nat]

LEMMA AdsAppend ==
  ASSUME NEW s \in Seq(Seen), NEW r \in Seen
  PROVE  Ads(s) \in Seq(Nat) /\ Len(Ads(s)) = Len(s)
         /\ Ads(Append(s, r)) = Append(Ads(s), r.ad)
<1>1. Len(s) \in Nat /\ DOMAIN s = 1..Len(s) /\ \A i \in 1..Len(s) : s[i] \in Seen
  BY LenProperties, ElementOfSeq
<1>2. Ads(s) \in Seq(Nat) /\ Len(Ads(s)) = Len(s)
  BY <1>1 DEF Ads, Seen
<1>3. /\ DOMAIN Append(s, r) = 1..(Len(s) + 1)
      /\ \A i \in 1..Len(s) : Append(s, r)[i] = s[i]
      /\ Append(s, r)[Len(s) + 1] = r
  BY <1>1
<1>4. /\ DOMAIN Append(Ads(s), r.ad) = 1..(Len(s) + 1)
      /\ \A i \in 1..Len(s) : Append(Ads(s), r.ad)[i] = s[i].ad
      /\ Append(Ads(s), r.ad)[Len(s) + 1] = r.ad
  BY <1>1, <1>2 DEF Ads, Seen
<1>5. Ads(Append(s, r)) = Append(Ads(s), r.ad)
  <2>1. \A i \in 1..(Len(s) + 1) : Ads(Append(s, r))[i] = Append(Ads(s), r.ad)[i]
    BY <1>1, <1>3, <1>4 DEF Ads
  <2> QED
    BY <1>2, <1>3, <1>4, <2>1 DEF Ads
<1> QED
  BY <1>2, <1>5

(* A step that changes none of what the user sees.                            *)
LEMMA Unseen ==
  ASSUME UNCHANGED <<chain, opts, ended, action, seen>>, faults' = faults
  PROVE  UNCHANGED Service!vars
BY DEF Service!vars, Service!asked

LEMMA OnlyFault ==
  ASSUME UNCHANGED <<chain, opts, ended, action, seen>>, faults' > 0
  PROVE  Service!Next
<1>1. Service!Fault
  BY DEF Service!Fault, Service!asked
<1> QED
  BY <1>1 DEF Service!Next

LEMMA ServiceInit == Init => Service!Init
<1> SUFFICES ASSUME Init PROVE Service!Init
  OBVIOUS
<1>1. Types
  BY InvInit DEF Inv
<1>2. Len(chain) \in Nat /\ opts.n \in Nat /\ opts.stopMhs \in Nat
  BY <1>1, Numbers, OptionTypes
<1>3. seen = <<>> /\ ended = "nobody" /\ faults = 0 /\ action.total = 0 /\ action.result = "none"
  BY DEF Init
<1>4. [i \in DOMAIN seen |-> seen[i].ad] = <<>>
  BY <1>3
<1> QED
  BY <1>2, <1>3, <1>4 DEF Service!Init

LEMMA CrawlerServes ==
  ASSUME Inv, Crawler
  PROVE  Service!Next \/ UNCHANGED Service!vars
<1>1. UNCHANGED <<chain, opts, ended, action, seen>>
  BY DEF Crawler, NextBatch, LoopDone, SyncBatch, SyncCancelled, SyncFails, LoadAd, BadAd,
     SendAd, SendCancelled, BatchDone, Report, CloseAds, input
<1>2. CASE faults' = faults
  BY <1>1, <1>2, Unseen
<1>3. CASE Fault
  <2>1. faults' > 0
    BY <1>3, FaultCount DEF Inv
  <2> QED
    BY <1>1, <2>1, OnlyFault
<1>4. faults' = faults \/ Fault
  BY DEF Crawler, NextBatch, LoopDone, SyncBatch, SyncCancelled, SyncFails, LoadAd, BadAd,
     SendAd, SendCancelled, BatchDone, Report, CloseAds
<1> QED
  BY <1>2, <1>3, <1>4

LEMMA InterruptServes == ASSUME Interrupt PROVE Service!Next
<1>1. ended' = "user" /\ UNCHANGED <<chain, opts, faults, action, seen>>
  BY DEF Interrupt, input
<1>2. Service!Interrupt
  BY <1>1 DEF Service!Interrupt, Service!asked
<1> QED
  BY <1>2 DEF Service!Next

LEMMA ReceiveServes == ASSUME Inv, Receive PROVE Service!Next
<1> DEFINE k == Head(ads)
           r == [ad |-> k, mhs |-> 0]
<1>1. /\ action.pc = "receive" /\ ads # <<>> /\ seen' = Append(seen, r)
      /\ action'.total = action.total /\ action'.result = action.result
      /\ UNCHANGED <<chain, opts, ended, faults>>
  BY ActionTypes DEF Receive, input, Inv, Actions
<1>2. k \in Nat /\ k = Len(chain) - Len(seen) /\ Len(seen) < Wanted
  BY <1>1, NextAd
<1>3. seen \in Seq(Seen)
  BY DEF Inv, Types, ChannelType, Seen
<1>4. Len(Ads(seen)) = Len(seen) /\ Ads(seen') = Append(Ads(seen), k)
  <2>1. r \in Seen /\ r.ad = k
    BY <1>2 DEF Seen
  <2> HIDE DEF r, k
  <2>2. Len(Ads(seen)) = Len(seen) /\ Ads(Append(seen, r)) = Append(Ads(seen), r.ad)
    BY <1>3, <2>1, AdsAppend
  <2> QED
    BY <1>1, <2>1, <2>2
<1>5. action.result = "none" /\ ~Stopped
  BY <1>1 DEF Inv, Reading
<1> HIDE DEF k, r
<1>6. Ads(seen') = Append(Ads(seen), Len(chain) - Len(Ads(seen)))
  BY <1>2, <1>4
<1>7. Len(Ads(seen)) < Wanted
  BY <1>2, <1>4
<1>8. Service!Deliver
  BY <1>1, <1>5, <1>6, <1>7
  DEF Service!Deliver, Service!Open, Service!Stopped, Service!Wanted, Service!asked,
      Ads, Stopped, Wanted
<1> QED
  BY <1>8 DEF Service!Next

LEMMA EntriesServe ==
  ASSUME Inv, ReceiveEnd \/ EntriesFail
  PROVE  Service!Next \/ UNCHANGED Service!vars
<1>1. /\ UNCHANGED <<chain, opts, ended, seen>>
      /\ action'.total = action.total /\ action'.result = action.result
  BY ActionTypes DEF ReceiveEnd, EntriesFail, input, Inv, Actions
<1>2. CASE faults' = faults
  BY <1>1, <1>2 DEF Service!vars, Service!asked
<1>3. CASE Fault
  <2>1. faults' > 0
    BY <1>3, FaultCount DEF Inv
  <2>2. Service!Fault
    BY <1>1, <2>1 DEF Service!Fault, Service!asked
  <2> QED
    BY <2>2 DEF Service!Next
<1> QED
  BY <1>2, <1>3 DEF ReceiveEnd, EntriesFail

LEMMA CountEntriesServes == ASSUME Inv, CountEntries PROVE Service!Next
<1>1. action.pc = "entries" /\ UNCHANGED <<chain, opts, ended>>
  BY DEF CountEntries, input
<1>2. PICK mhs \in 0..chain[action.ad].mhs :
        /\ UNCHANGED faults \/ Fault
        /\ action' = Counted(action, mhs)
        /\ seen' = [seen EXCEPT ![Len(seen)].mhs = mhs]
  BY DEF CountEntries
<1>3. mhs \in Nat
  BY <1>1, EntriesCounted
<1>4. /\ action'.result = action.result /\ action'.total \in Nat
      /\ action'.total >= action.total
  BY <1>2, <1>3, CountedProperties DEF Inv
<1>5. Ads(seen') = Ads(seen)
  BY <1>2 DEF Ads
<1>6. action.result = "none" /\ ~Stopped
  BY <1>1 DEF Inv, Reading
<1>7. (faults' > 0) \in {faults > 0, TRUE}
  <2>1. CASE Fault
    BY <2>1, FaultCount DEF Inv
  <2>2. CASE UNCHANGED faults
    BY <2>2
  <2> QED
    BY <1>2, <2>1, <2>2
<1>8. Service!Count
  BY <1>1, <1>4, <1>5, <1>6, <1>7
  DEF Service!Count, Service!Open, Service!Stopped, Service!asked, Ads, Stopped
<1> QED
  BY <1>8 DEF Service!Next

LEMMA DrainFailsServes == ASSUME Inv, DrainFails PROVE Service!Next
<1>1. /\ action.pc = "entries" /\ Fault /\ EndCtx /\ UNCHANGED <<chain, opts, seen>>
      /\ action'.total = action.total /\ action'.result = "drain failed"
  BY ActionTypes DEF DrainFails, input, Inv, Actions
<1>2. faults' > 0 /\ (ended = "user" <=> ended' = "user")
  BY <1>1, FaultCount, EndCtxKeeps DEF Inv
<1>3. action.result = "none"
  BY <1>1 DEF Inv, Reading
<1>4. Service!Fail
  BY <1>1, <1>2, <1>3 DEF Service!Fail, Service!Open, Service!asked
<1> QED
  BY <1>4 DEF Service!Next

LEMMA CancelCrawlServes == ASSUME Inv, CancelCrawl PROVE UNCHANGED Service!vars
<1>1. /\ EndCtx /\ UNCHANGED <<chain, opts, faults, seen>>
      /\ action'.total = action.total /\ action'.result = action.result
  BY ActionTypes DEF CancelCrawl, input, Inv, Actions
<1>2. ended = "user" <=> ended' = "user"
  BY <1>1, EndCtxKeeps DEF Inv
<1> QED
  BY <1>1, <1>2 DEF Service!vars, Service!asked

(* Success is told when nothing is missing; an error when something failed.   *)
LEMMA TakeErrorServes ==
  ASSUME Inv, TakeError, ~Segmented
  PROVE  Service!Next
<1>1. /\ action.pc = "wait" /\ errCh # <<>>
      /\ UNCHANGED <<chain, opts, ended, faults, seen>>
      /\ action'.total = action.total
      /\ action'.result = IF Head(errCh) = "none" THEN "ok" ELSE Head(errCh)
  BY ActionTypes DEF TakeError, input, Inv, Actions
<1>2. Head(errCh) = producer.err /\ producer.err \in Errs
  BY <1>1, ErrorSent
<1>3. action.result = "none"
  BY <1>1 DEF Inv, Reading
<1>4. CASE producer.err = "none"
  <2>1. Stopped \/ Len(seen) = Wanted \/ ended = "user"
    BY <1>1, <1>4 DEF Inv, Reading
  <2>2. Len(Ads(seen)) = Len(seen)
    <3>1. seen \in Seq(Seen) /\ [ad |-> 0, mhs |-> 0] \in Seen
      BY DEF Inv, Types, ChannelType, Seen
    <3> QED
      BY <3>1, AdsAppend
  <2>3. action'.result = "ok"
    BY <1>1, <1>2, <1>4
  <2>4. Stopped \/ Len(Ads(seen)) = Wanted \/ ended = "user"
    BY <2>1, <2>2
  <2>5. Service!Succeed
    BY <1>1, <1>3, <2>3, <2>4
    DEF Service!Succeed, Service!Open, Service!Stopped, Service!Wanted, Service!asked,
        Ads, Stopped, Wanted
  <2> QED
    BY <2>5 DEF Service!Next
<1>5. CASE producer.err # "none"
  <2>1. faults > 0
    BY <1>5 DEF Inv, Progress
  <2>2. action'.result \notin {"none", "ok"}
    BY <1>1, <1>2, <1>5 DEF Errs
  <2>3. Service!Fail
    BY <1>1, <1>3, <2>1, <2>2 DEF Service!Fail, Service!Open, Service!asked
  <2> QED
    BY <2>3 DEF Service!Next
<1> QED
  BY <1>4, <1>5

LEMMA ServiceStep ==
  ASSUME \A o \in Options : o.n <= SegmentSize
  PROVE  Inv /\ [Next]_vars => [Service!Next]_(Service!vars)
<1> SUFFICES ASSUME Inv, [Next]_vars PROVE Service!Next \/ UNCHANGED Service!vars
  OBVIOUS
<1>1. ~Segmented
  <2>1. opts \in Options /\ opts.n \in Nat /\ SegmentSize \in Nat
    BY OptionTypes DEF Inv, Types, InputType
  <2> QED
    BY <2>1 DEF Segmented
<1>2. CASE Interrupt
  BY <1>2, InterruptServes
<1>3. CASE Crawler
  BY <1>3, CrawlerServes
<1>4. CASE Consumer
  BY <1>1, <1>4, ReceiveServes, EntriesServe, CountEntriesServes, DrainFailsServes,
     CancelCrawlServes, TakeErrorServes DEF Consumer
<1>5. CASE UNCHANGED vars
  BY <1>5, Unseen DEF vars, input
<1> QED
  BY <1>2, <1>3, <1>4, <1>5 DEF Next

(* The crawl implements its service for every chain, number, --stop-mhs and   *)
(* batch size, and whatever fails, unless it asks for more than a segment:    *)
(* then Crawl fails with nothing wrong, as the hook of a segmented sync has   *)
(* deleted what it is about to read.                                          *)
THEOREM CrawlImplementsService ==
  ASSUME \A o \in Options : o.n <= SegmentSize
  PROVE  Spec => ImplementsService
<1>1. Inv /\ [Next]_vars => [Service!Next]_(Service!vars)
  BY ServiceStep
<1>2. Init => Service!Init
  BY ServiceInit
<1>3. Spec => []Inv
  BY InvHolds, PTL
<1> QED
  BY <1>1, <1>2, <1>3, PTL DEF Spec, ImplementsService, Service!Spec
-----------------------------------------------------------------------------
(* The sum of seq[i].mhs over the i of a set, as MapThenSumSet computes it.   *)
Chosen(s) == CHOOSE x \in s : TRUE
Sums(seq, S) ==
  LET iter[s \in SUBSET S] ==
        IF s = {} THEN 0
        ELSE LET x == CHOOSE x \in s : TRUE
             IN  seq[x].mhs + iter[s \ {x}]
  IN  iter
SumOver(seq, S) == Sums(seq, S)[S]

(* f adds up seq[i].mhs over every set of Ss, one chosen member at a time.    *)
AddsUp(f, seq, Ss) ==
  f = [s \in Ss |-> IF s = {} THEN 0 ELSE seq[Chosen(s)].mhs + f[s \ {Chosen(s)}]]

(* A set of subsets of a finite set that is not empty has a smallest member.  *)
LEMMA SmallestSet ==
  ASSUME NEW S, IsFiniteSet(S), NEW Ss \in SUBSET SUBSET S, Ss # {}
  PROVE  \E s \in Ss : \A t \in Ss : ~(t \subseteq s /\ t # s)
<1>1. IsWellFoundedOn(StrictSubsetOrdering(S), FiniteSubsetsOf(S))
  BY FS_StrictSubsetOrderingWellFounded
<1>2. Ss \subseteq FiniteSubsetsOf(S)
  BY FS_Subset DEF FiniteSubsetsOf
<1>3. PICK s \in Ss : \A t \in Ss : <<t, s>> \notin StrictSubsetOrdering(S)
  BY <1>1, <1>2, WFMin
<1>4. ASSUME NEW t \in Ss PROVE ~(t \subseteq s /\ t # s)
  BY <1>3, <1>4 DEF StrictSubsetOrdering
<1> QED
  BY <1>4

(* Adding up over all subsets of a finite set is well defined: for larger and *)
(* larger families of small subsets, there is a function that does.           *)
LEMMA AddingUp ==
  ASSUME NEW seq, NEW S, IsFiniteSet(S)
  PROVE  AddsUp(Sums(seq, S), seq, SUBSET S)
<1> DEFINE Without == {T \in SUBSET S : ~\E f : AddsUp(f, seq, {s \in SUBSET S : Cardinality(s) <= Cardinality(T)})}
<1>1. S \notin Without
  <2>1. SUFFICES ASSUME Without # {} PROVE FALSE
    OBVIOUS
  <2>2. PICK T \in Without : \A U \in Without : ~(U \subseteq T /\ U # T)
    <3>1. Without \in SUBSET SUBSET S
      OBVIOUS
    <3> HIDE DEF Without
    <3> QED
      BY <2>1, <3>1, SmallestSet
  <2> DEFINE Small(n) == {s \in SUBSET S : Cardinality(s) <= n}
  <2>3. \A s \in SUBSET S : IsFiniteSet(s) /\ Cardinality(s) \in Nat
    BY FS_Subset, FS_CardinalityType
  <2>4. CASE T = {}
    <3>1. Small(Cardinality(T)) = {{}}
      BY <2>3, <2>4, FS_EmptySet
    <3>2. AddsUp([s \in {{}} |-> 0], seq, {{}})
      BY DEF AddsUp
    <3> QED
      BY <2>2, <3>1, <3>2
  <2>5. CASE T # {}
    <3>1. PICK x \in T : TRUE
      BY <2>5
    <3>2. T \ {x} \in SUBSET S /\ T \ {x} \notin Without
      BY <2>2, <3>1
    <3>3. PICK n \in Nat : n = Cardinality(T \ {x}) /\ Cardinality(T) = n + 1
      BY <2>2, <2>3, <3>1, <3>2, FS_RemoveElement
    <3>4. PICK g : AddsUp(g, seq, Small(n))
      BY <3>2, <3>3
    <3> DEFINE f == [s \in Small(n + 1) |-> IF s = {} THEN 0
                                            ELSE seq[Chosen(s)].mhs + g[s \ {Chosen(s)}]]
    <3>5. ASSUME NEW s \in Small(n + 1), s # {}
          PROVE  s \ {Chosen(s)} \in Small(n)
      <4>1. Chosen(s) \in s /\ IsFiniteSet(s) /\ Cardinality(s) \in Nat
        BY <2>3, <3>5 DEF Chosen
      <4>2. Cardinality(s \ {Chosen(s)}) = Cardinality(s) - 1
        BY <4>1, FS_RemoveElement
      <4> QED
        BY <3>3, <4>1, <4>2
    <3>6. ASSUME NEW s \in Small(n) PROVE f[s] = g[s] /\ s \in Small(n + 1)
      <4>1. s \in Small(n + 1)
        BY <2>3, <3>3
      <4>2. g[s] = IF s = {} THEN 0 ELSE seq[Chosen(s)].mhs + g[s \ {Chosen(s)}]
        BY <3>4, <3>6 DEF AddsUp
      <4> QED
        BY <4>1, <4>2
    <3>7. \A s \in Small(n + 1) : s # {} => g[s \ {Chosen(s)}] = f[s \ {Chosen(s)}]
      <4> HIDE DEF f, Small
      <4> QED
        BY <3>5, <3>6
    <3>8. f = [s \in Small(n + 1) |-> IF s = {} THEN 0
                                      ELSE seq[Chosen(s)].mhs + f[s \ {Chosen(s)}]]
      <4> HIDE DEF Small
      <4>1. \A s \in Small(n + 1) :
              (IF s = {} THEN 0 ELSE seq[Chosen(s)].mhs + g[s \ {Chosen(s)}])
                = (IF s = {} THEN 0 ELSE seq[Chosen(s)].mhs + f[s \ {Chosen(s)}])
        <5> HIDE DEF f
        <5> QED
          BY <3>7
      <4> DEFINE h == f
      <4>2. h = [s \in Small(n + 1) |-> IF s = {} THEN 0
                                      ELSE seq[Chosen(s)].mhs + g[s \ {Chosen(s)}]]
        OBVIOUS
      <4> HIDE DEF f, h
      <4>3. h = [s \in Small(n + 1) |-> IF s = {} THEN 0
                                      ELSE seq[Chosen(s)].mhs + f[s \ {Chosen(s)}]]
        BY <4>1, <4>2
      <4> QED
        BY <4>3 DEF h
    <3>9. AddsUp(f, seq, Small(Cardinality(T)))
      <4> HIDE DEF f, Small
      <4> QED
        BY <3>3, <3>8 DEF AddsUp
    <3> QED
      <4> HIDE DEF f
      <4> QED
        BY <2>2, <3>9
  <2> QED
    BY <2>4, <2>5
<1>2. {s \in SUBSET S : Cardinality(s) <= Cardinality(S)} = SUBSET S
  BY FS_Subset
<1>3. PICK f : AddsUp(f, seq, SUBSET S)
  BY <1>1, <1>2
<1> QED
  BY <1>3 DEF AddsUp, Sums, Chosen

(* Two functions that add up the same numbers are the same.                   *)
LEMMA OneSum ==
  ASSUME NEW S, IsFiniteSet(S), NEW T \in SUBSET S, NEW seq1, NEW seq2, NEW f, NEW g,
         AddsUp(f, seq1, SUBSET S), AddsUp(g, seq2, SUBSET T),
         \A i \in T : seq1[i].mhs = seq2[i].mhs
  PROVE  \A s \in SUBSET T : f[s] = g[s]
<1> DEFINE Differ == {s \in SUBSET T : f[s] # g[s]}
<1>1. SUFFICES ASSUME Differ # {} PROVE FALSE
  OBVIOUS
<1>2. IsFiniteSet(T) /\ Differ \in SUBSET SUBSET T
  BY FS_Subset
<1>3. PICK s \in Differ : \A t \in Differ : ~(t \subseteq s /\ t # s)
  <2> HIDE DEF Differ
  <2> QED
    BY <1>1, <1>2, SmallestSet
<1>4. /\ f[s] = IF s = {} THEN 0 ELSE seq1[Chosen(s)].mhs + f[s \ {Chosen(s)}]
      /\ g[s] = IF s = {} THEN 0 ELSE seq2[Chosen(s)].mhs + g[s \ {Chosen(s)}]
  BY DEF AddsUp
<1>5. s # {} /\ Chosen(s) \in s
  BY <1>3, <1>4 DEF Chosen
<1>6. s \ {Chosen(s)} \in SUBSET T /\ s \ {Chosen(s)} \subseteq s /\ s \ {Chosen(s)} # s
  BY <1>3, <1>5
<1>7. f[s \ {Chosen(s)}] = g[s \ {Chosen(s)}]
  BY <1>3, <1>6
<1>8. seq1[Chosen(s)].mhs = seq2[Chosen(s)].mhs
  BY <1>3, <1>5
<1> QED
  BY <1>3, <1>4, <1>5, <1>7, <1>8

(* What SumOver computes: a number, and whichever member is taken out first.  *)
LEMMA SumOf ==
  ASSUME NEW seq, NEW S, IsFiniteSet(S), \A i \in S : seq[i].mhs \in Nat
  PROVE  \A s \in SUBSET S : /\ Sums(seq, S)[s] = SumOver(seq, s)
                             /\ SumOver(seq, s) \in Nat
                             /\ \A x \in s : SumOver(seq, s) = seq[x].mhs + SumOver(seq, s \ {x})
<1>1. PICK f : f = Sums(seq, S)
  OBVIOUS
<1>2. AddsUp(f, seq, SUBSET S)
  BY <1>1, AddingUp
<1>3. ASSUME NEW s \in SUBSET S PROVE f[s] = SumOver(seq, s)
  <2>1. IsFiniteSet(s)
    BY FS_Subset
  <2>2. AddsUp(Sums(seq, s), seq, SUBSET s)
    BY <2>1, AddingUp
  <2>3. f[s] = Sums(seq, s)[s]
    BY <1>2, <2>2, OneSum
  <2> QED
    BY <2>3 DEF SumOver
<1>4. \A s \in SUBSET S : s # {} => Chosen(s) \in s
  BY DEF Chosen
<1>5. \A s \in SUBSET S : f[s] = IF s = {} THEN 0 ELSE seq[Chosen(s)].mhs + f[s \ {Chosen(s)}]
  BY <1>2 DEF AddsUp
<1>6. \A s \in SUBSET S : f[s] \in Nat
  <2> DEFINE Wrong == {s \in SUBSET S : f[s] \notin Nat}
  <2>1. SUFFICES ASSUME Wrong # {} PROVE FALSE
    OBVIOUS
  <2>2. PICK s \in Wrong : \A t \in Wrong : ~(t \subseteq s /\ t # s)
    <3>1. Wrong \in SUBSET SUBSET S
      OBVIOUS
    <3> HIDE DEF Wrong
    <3> QED
      BY <2>1, <3>1, SmallestSet
  <2>3. CASE s = {}
    BY <1>5, <2>2, <2>3
  <2>4. CASE s # {}
    <3>1. Chosen(s) \in s /\ s \ {Chosen(s)} \subseteq s /\ s \ {Chosen(s)} # s
      BY <1>4, <2>2, <2>4
    <3>2. f[s \ {Chosen(s)}] \in Nat
      BY <2>2, <3>1
    <3>3. seq[Chosen(s)].mhs \in Nat
      BY <2>2, <3>1
    <3>4. f[s] = seq[Chosen(s)].mhs + f[s \ {Chosen(s)}]
      BY <1>5, <2>2, <2>4
    <3> QED
      BY <2>2, <3>2, <3>3, <3>4
  <2> QED
    BY <2>3, <2>4
<1>7. \A s \in SUBSET S : \A x \in s : f[s] = seq[x].mhs + f[s \ {x}]
  <2> DEFINE Wrong == {s \in SUBSET S : \E x \in s : f[s] # seq[x].mhs + f[s \ {x}]}
  <2>1. SUFFICES ASSUME Wrong # {} PROVE FALSE
    OBVIOUS
  <2>2. PICK s \in Wrong : \A t \in Wrong : ~(t \subseteq s /\ t # s)
    <3>1. Wrong \in SUBSET SUBSET S
      OBVIOUS
    <3> HIDE DEF Wrong
    <3> QED
      BY <2>1, <3>1, SmallestSet
  <2>3. PICK x \in s : f[s] # seq[x].mhs + f[s \ {x}]
    BY <2>2
  <2>4. PICK y : y = Chosen(s)
    OBVIOUS
  <2>5. y \in s /\ f[s] = seq[y].mhs + f[s \ {y}]
    BY <1>4, <1>5, <2>2, <2>3, <2>4
  <2>6. x # y
    BY <2>3, <2>5
  <2>7. f[s \ {y}] = seq[x].mhs + f[(s \ {y}) \ {x}]
    <3>1. s \ {y} \in SUBSET S /\ s \ {y} \subseteq s /\ s \ {y} # s /\ x \in s \ {y}
      BY <2>2, <2>5, <2>6
    <3> QED
      BY <2>2, <3>1
  <2>8. f[s \ {x}] = seq[y].mhs + f[(s \ {x}) \ {y}]
    <3>1. s \ {x} \in SUBSET S /\ s \ {x} \subseteq s /\ s \ {x} # s /\ y \in s \ {x}
      BY <2>2, <2>3, <2>5, <2>6
    <3> QED
      BY <2>2, <3>1
  <2>9. (s \ {x}) \ {y} = (s \ {y}) \ {x}
    OBVIOUS
  <2>10. PICK a \in Nat, b \in Nat, c \in Nat :
           a = seq[x].mhs /\ b = seq[y].mhs /\ c = f[(s \ {y}) \ {x}]
    <3>1. (s \ {y}) \ {x} \in SUBSET S
      BY <2>2
    <3> QED
      BY <1>6, <2>2, <2>5, <3>1
  <2>11. b + (a + c) = a + (b + c)
    OBVIOUS
  <2>12. f[s] = b + (a + c) /\ f[s \ {x}] = b + c
    BY <2>5, <2>7, <2>8, <2>9, <2>10, Zenon
  <2> QED
    BY <2>3, <2>10, <2>11, <2>12, Zenon
<1>8. ASSUME NEW s \in SUBSET S, NEW x \in s PROVE s \ {x} \in SUBSET S
  OBVIOUS
<1> QED
  BY <1>1, <1>3, <1>6, <1>7, <1>8

LEMMA SumsAgree ==
  ASSUME NEW S, IsFiniteSet(S), NEW seq1, NEW seq2, \A i \in S : seq1[i].mhs = seq2[i].mhs
  PROVE  SumOver(seq1, S) = SumOver(seq2, S)
<1>1. AddsUp(Sums(seq1, S), seq1, SUBSET S) /\ AddsUp(Sums(seq2, S), seq2, SUBSET S)
  BY AddingUp
<1> QED
  BY <1>1, OneSum DEF SumOver

(* One number that was 0 becomes mhs.                                         *)
LEMMA SumGrows ==
  ASSUME NEW S, IsFiniteSet(S), NEW seq1, NEW seq2, NEW n \in S, NEW mhs \in Nat,
         \A i \in S : seq1[i].mhs \in Nat /\ (i # n => seq2[i].mhs = seq1[i].mhs),
         seq1[n].mhs = 0, seq2[n].mhs = mhs
  PROVE  SumOver(seq2, S) = SumOver(seq1, S) + mhs
<1>1. \A i \in S : seq2[i].mhs \in Nat
  OBVIOUS
<1>2. SumOver(seq1, S) = 0 + SumOver(seq1, S \ {n})
  BY SumOf
<1>3. SumOver(seq2, S) = mhs + SumOver(seq2, S \ {n})
  BY <1>1, SumOf
<1>4. SumOver(seq2, S \ {n}) = SumOver(seq1, S \ {n})
  BY FS_Subset, SumsAgree
<1>5. SumOver(seq1, S \ {n}) \in Nat
  BY SumOf
<1>6. PICK rest \in Nat : rest = SumOver(seq1, S \ {n})
  BY <1>5
<1>7. mhs + rest = (0 + rest) + mhs
  OBVIOUS
<1> QED
  BY <1>2, <1>3, <1>4, <1>6, <1>7, Zenon

LEMMA NoSum ==
  ASSUME NEW seq
  PROVE  SumOver(seq, {}) = 0
<1>1. IsFiniteSet({})
  BY FS_EmptySet
<1>2. AddsUp(Sums(seq, {}), seq, SUBSET {})
  BY <1>1, AddingUp
<1> QED
  BY <1>2 DEF AddsUp, SumOver

LEMMA MhsAreSums ==
  ASSUME NEW I
  PROVE  MhsOf(I) = SumOver(seen, I)
BY DEF MhsOf, MapThenSumSet, MapThenFoldSet, SumOver, Sums

-----------------------------------------------------------------------------
(* What the action remembers of the ads received: whose entries were removed, *)
(* and that those of the last one are not counted yet.                        *)
Removals == {chain[seen[j].ad].ctx : j \in {i \in DOMAIN seen : chain[seen[i].ad].rm}}
Kept == {i \in DOMAIN seen : ~Removed(i)}

Remembers ==
  /\ action.removed = Removals
  /\ action.pc = "entries" =>
       /\ seen # <<>> /\ seen[Len(seen)] = [ad |-> action.ad, mhs |-> 0]
       /\ ~chain[action.ad].rm

Counters ==
  /\ action.total = SumOver(seen, DOMAIN seen)
  /\ action.active = SumOver(seen, Kept)

LEMMA SeenTypes ==
  ASSUME Types
  PROVE  /\ Len(seen) \in Nat /\ DOMAIN seen = 1..Len(seen) /\ IsFiniteSet(DOMAIN seen)
         /\ \A i \in DOMAIN seen : seen[i] \in [ad : Nat, mhs : Nat] /\ seen[i].mhs \in Nat
         /\ Kept \subseteq DOMAIN seen /\ IsFiniteSet(Kept)
<1>1. seen \in Seq([ad : Nat, mhs : Nat])
  BY DEF Types, ChannelType
<1>2. Len(seen) \in Nat /\ DOMAIN seen = 1..Len(seen)
  BY <1>1, LenProperties
<1>3. IsFiniteSet(1..Len(seen))
  BY <1>2, FS_Interval
<1>4. \A i \in DOMAIN seen : seen[i] \in [ad : Nat, mhs : Nat]
  BY <1>1, <1>2, ElementOfSeq
<1>5. Kept \subseteq DOMAIN seen
  BY DEF Kept
<1> QED
  BY <1>2, <1>3, <1>4, <1>5, FS_Subset

(* A step that receives and counts nothing.                                   *)
LEMMA CountersKept ==
  ASSUME Types, Remembers, Counters, UNCHANGED <<chain, seen>>,
         action'.removed = action.removed, action'.total = action.total,
         action'.active = action.active,
         action'.pc = "entries" => action.pc = "entries" /\ action'.ad = action.ad
  PROVE  Remembers' /\ Counters'
<1>1. Removals' = Removals
  BY DEF Removals
<1>2. Kept' = Kept
  BY DEF Kept, Removed
<1> QED
  BY <1>1, <1>2 DEF Remembers, Counters

LEMMA ReceiveCounts ==
  ASSUME Inv, Remembers, Counters, Receive
  PROVE  Remembers' /\ Counters'
<1> DEFINE k == Head(ads)
           removed == IF chain[k].rm THEN action.removed \cup {chain[k].ctx}
                      ELSE action.removed
           pc == IF HasWork(k) THEN "entries" ELSE "receive"
           r == [ad |-> k, mhs |-> 0]
           n == Len(seen)
<1>1. /\ seen' = Append(seen, r) /\ chain' = chain
      /\ action' = [action EXCEPT !.pc = pc, !.ad = k, !.removed = removed]
  BY DEF Receive, input
<1>2. Types /\ action \in Actions
  BY ActionTypes DEF Inv
<1>3. /\ n \in Nat /\ DOMAIN seen = 1..n /\ IsFiniteSet(DOMAIN seen)
      /\ \A i \in DOMAIN seen : seen[i].mhs \in Nat
      /\ Kept \subseteq DOMAIN seen /\ IsFiniteSet(Kept)
  BY <1>2, SeenTypes
<1>4. /\ action'.pc = pc /\ action'.ad = k /\ action'.removed = removed
      /\ action'.total = action.total /\ action'.active = action.active
  <2> HIDE DEF pc, k, removed
  <2> QED
    BY <1>1, <1>2 DEF Actions
<1>5. /\ Len(seen') = n + 1 /\ DOMAIN seen' = 1..(n + 1)
      /\ \A i \in 1..n : seen'[i] = seen[i]
      /\ seen'[n + 1] = r
  <2>1. seen \in Seq([ad : Nat, mhs : Nat]) /\ k \in Nat
    BY <1>2, NextAd DEF Types, ChannelType, Receive
  <2>2. r \in [ad : Nat, mhs : Nat]
    BY <2>1
  <2> HIDE DEF r
  <2>3. seen' \in Seq([ad : Nat, mhs : Nat]) /\ Len(seen') = n + 1
    BY <1>1, <2>1, <2>2, AppendProperties
  <2> QED
    BY <1>1, <2>1, <2>2, <2>3, AppendProperties, LenProperties
<1> HIDE DEF n
<1>6. DOMAIN seen' = DOMAIN seen \cup {n + 1} /\ n + 1 \notin DOMAIN seen
  BY <1>3, <1>5
<1>7. Remembers'
  <2>1. Removals' = removed
    <3>1. \A i \in DOMAIN seen : seen'[i].ad = seen[i].ad
      BY <1>3, <1>5
    <3>2. seen'[n + 1].ad = k
      BY <1>5
    <3>3. action.removed = Removals
      BY DEF Remembers
    <3> HIDE DEF k
    <3>4. \A c : c \in Removals' <=> \E i \in DOMAIN seen' : /\ chain[seen'[i].ad].rm
                                                          /\ c = chain[seen'[i].ad].ctx
      BY <1>1 DEF Removals
    <3>5. \A c : c \in action.removed <=> \E i \in DOMAIN seen : /\ chain[seen[i].ad].rm
                                                               /\ c = chain[seen[i].ad].ctx
      BY <3>3 DEF Removals
    <3>6. \A c : c \in removed <=> c \in action.removed \/ (chain[k].rm /\ c = chain[k].ctx)
      OBVIOUS
    <3> HIDE DEF removed
    <3>7. ASSUME NEW c PROVE c \in Removals' <=> c \in removed
      <4>1. c \in Removals' <=> \/ \E i \in DOMAIN seen : /\ chain[seen'[i].ad].rm
                                                       /\ c = chain[seen'[i].ad].ctx
                               \/ (chain[k].rm /\ c = chain[k].ctx)
        BY <1>6, <3>2, <3>4
      <4>2. c \in Removals' <=> \/ \E i \in DOMAIN seen : /\ chain[seen[i].ad].rm
                                                       /\ c = chain[seen[i].ad].ctx
                               \/ (chain[k].rm /\ c = chain[k].ctx)
        BY <3>1, <4>1
      <4> QED
        BY <3>5, <3>6, <4>2
    <3>8. Removals' \subseteq removed /\ removed \subseteq Removals'
      BY <3>7
    <3> QED
      BY <3>8
  <2>2. pc = "entries" => ~chain[k].rm
    BY DEF HasWork
  <2>3. seen' # <<>> /\ seen'[Len(seen')] = [ad |-> k, mhs |-> 0]
    <3>1. n + 1 # 0
      BY <1>3 DEF n
    <3> QED
      BY <1>5, <3>1
  <2> HIDE DEF k, removed, pc
  <2> QED
    BY <1>1, <1>4, <2>1, <2>2, <2>3 DEF Remembers
<1>8. \A i \in DOMAIN seen : Removed(i)' <=> Removed(i)
  <2> SUFFICES ASSUME NEW i \in DOMAIN seen PROVE Removed(i)' <=> Removed(i)
    OBVIOUS
  <2>1. seen'[i] = seen[i] /\ \A j \in 1..(i - 1) : seen'[j] = seen[j]
    BY <1>3, <1>5 DEF n
  <2> QED
    BY <1>1, <2>1 DEF Removed
<1>9. Kept' = Kept \/ Kept' = Kept \cup {n + 1}
  <2>1. Kept' = {i \in DOMAIN seen' : ~Removed(i)'}
    BY DEF Kept
  <2> QED
    BY <1>6, <1>8, <2>1 DEF Kept
<1>10. ASSUME NEW S \in SUBSET DOMAIN seen
       PROVE  SumOver(seen', S) = SumOver(seen, S)
              /\ SumOver(seen', S \cup {n + 1}) = SumOver(seen, S)
  <2>1. IsFiniteSet(S) /\ IsFiniteSet(S \cup {n + 1})
    BY <1>3, FS_Subset, FS_AddElement
  <2>2. \A i \in S : seen'[i].mhs = seen[i].mhs
    BY <1>3, <1>5
  <2>3. SumOver(seen', S) = SumOver(seen, S)
    BY <2>1, <2>2, SumsAgree
  <2>4. \A i \in S \cup {n + 1} : seen'[i].mhs \in Nat
    BY <1>3, <1>5, <2>2
  <2>5. SumOver(seen', S \cup {n + 1}) = seen'[n + 1].mhs + SumOver(seen', (S \cup {n + 1}) \ {n + 1})
    BY <2>1, <2>4, SumOf
  <2>6. (S \cup {n + 1}) \ {n + 1} = S
    BY <1>6
  <2>7. SumOver(seen', S) \in Nat
    BY <2>1, <2>4, <2>6, SumOf
  <2>8. seen'[n + 1].mhs = 0
    BY <1>5
  <2>9. PICK sum \in Nat : sum = SumOver(seen', S)
    BY <2>7
  <2>10. 0 + sum = sum
    OBVIOUS
  <2> QED
    BY <2>3, <2>5, <2>6, <2>8, <2>9, <2>10, Zenon
<1>11. Counters'
  <2>1. SumOver(seen', DOMAIN seen') = SumOver(seen, DOMAIN seen)
    BY <1>6, <1>10
  <2>2. SumOver(seen', Kept') = SumOver(seen, Kept)
    BY <1>3, <1>9, <1>10
  <2> QED
    BY <1>4, <2>1, <2>2 DEF Counters
<1> QED
  BY <1>7, <1>11

LEMMA CountEntriesCounts ==
  ASSUME Inv, Remembers, Counters, CountEntries
  PROVE  Remembers' /\ Counters'
<1> DEFINE n == Len(seen)
           wasRm == chain[action.ad].ctx \in action.removed
<1>1. action.pc = "entries" /\ chain' = chain
  BY DEF CountEntries, input
<1>2. PICK mhs \in 0..chain[action.ad].mhs :
        /\ action' = Counted(action, mhs)
        /\ seen' = [seen EXCEPT ![Len(seen)].mhs = mhs]
  BY DEF CountEntries
<1>3. mhs \in Nat /\ Types /\ action \in Actions
  BY <1>1, EntriesCounted, ActionTypes DEF Inv
<1>4. /\ n \in Nat /\ DOMAIN seen = 1..n /\ IsFiniteSet(DOMAIN seen)
      /\ \A i \in DOMAIN seen : seen[i] \in [ad : Nat, mhs : Nat] /\ seen[i].mhs \in Nat
      /\ Kept \subseteq DOMAIN seen /\ IsFiniteSet(Kept)
  BY <1>3, SeenTypes
<1>5. /\ n \in DOMAIN seen /\ seen[n] = [ad |-> action.ad, mhs |-> 0]
      /\ ~chain[action.ad].rm
  <2>1. n # 0
    BY <1>1, <1>3, EmptySeq DEF Remembers, Types, ChannelType
  <2> QED
    BY <1>1, <1>4, <2>1 DEF Remembers
<1> HIDE DEF n
<1>6. /\ DOMAIN seen' = DOMAIN seen /\ Len(seen') = Len(seen)
      /\ seen'[n].mhs = mhs
      /\ \A i \in DOMAIN seen : seen'[i].ad = seen[i].ad /\ (i # n => seen'[i] = seen[i])
  <2>1. seen' = [seen EXCEPT ![n] = [seen[n] EXCEPT !.mhs = mhs]]
    BY <1>2 DEF n
  <2>2. seen \in Seq([ad : Nat, mhs : Nat]) /\ [seen[n] EXCEPT !.mhs = mhs] \in [ad : Nat, mhs : Nat]
    BY <1>3, <1>4, <1>5 DEF Types, ChannelType
  <2>3. Len(seen') = Len(seen)
    BY <1>4, <1>5, <2>1, <2>2, ExceptSeq
  <2> QED
    BY <1>4, <1>5, <2>1, <2>3
<1>7. /\ action'.removed = action.removed /\ action'.pc \in {"receive", "cancel"}
      /\ action'.total = action.total + mhs
      /\ action'.active = IF wasRm THEN action.active ELSE action.active + mhs
  <2> DEFINE active == IF wasRm THEN action.active ELSE action.active + mhs
             total == action.total + mhs
             pc == IF opts.stopMhs # 0 /\ total >= opts.stopMhs THEN "cancel" ELSE "receive"
  <2>1. action' = [action EXCEPT !.active = active, !.total = total, !.pc = pc]
    BY <1>2 DEF Counted
  <2>2. pc \in {"receive", "cancel"}
    OBVIOUS
  <2> HIDE DEF active, total, pc
  <2>3. /\ action'.removed = action.removed /\ action'.pc = pc
        /\ action'.total = total /\ action'.active = active
    BY <1>3, <2>1 DEF Actions
  <2> QED
    BY <2>2, <2>3 DEF active, total
<1>8. Remembers'
  <2>1. Removals' = Removals
    BY <1>1, <1>6 DEF Removals
  <2> QED
    BY <1>7, <2>1 DEF Remembers
<1>9. Kept' = Kept
  <2>1. \A i \in DOMAIN seen : Removed(i)' <=> Removed(i)
    <3> SUFFICES ASSUME NEW i \in DOMAIN seen PROVE Removed(i)' <=> Removed(i)
      OBVIOUS
    <3>1. seen'[i].ad = seen[i].ad /\ \A j \in 1..(i - 1) : seen'[j].ad = seen[j].ad
      BY <1>4, <1>6
    <3> QED
      BY <1>1, <3>1 DEF Removed
  <2>2. Kept' = {i \in DOMAIN seen' : ~Removed(i)'}
    BY DEF Kept
  <2> QED
    BY <1>6, <2>1, <2>2 DEF Kept
<1>10. n \in Kept <=> ~wasRm
  <2>1. Removed(n) <=> \E j \in 1..(n - 1) : chain[seen[j].ad].rm
                                           /\ chain[seen[j].ad].ctx = chain[action.ad].ctx
    BY <1>5 DEF Removed
  <2>2. wasRm <=> \E j \in DOMAIN seen : chain[seen[j].ad].rm
                                       /\ chain[seen[j].ad].ctx = chain[action.ad].ctx
    BY DEF Remembers, Removals
  <2>3. \A j \in DOMAIN seen : chain[seen[j].ad].rm => j \in 1..(n - 1)
    <3> SUFFICES ASSUME NEW j \in DOMAIN seen, chain[seen[j].ad].rm PROVE j \in 1..(n - 1)
      OBVIOUS
    <3>1. j # n
      BY <1>5
    <3> QED
      BY <1>4, <1>5, <3>1
  <2>4. 1..(n - 1) \subseteq DOMAIN seen
    BY <1>4
  <2> QED
    BY <1>5, <2>1, <2>2, <2>3, <2>4 DEF Kept
<1>11. SumOver(seen', DOMAIN seen) = SumOver(seen, DOMAIN seen) + mhs
  BY <1>3, <1>4, <1>5, <1>6, SumGrows
<1>12. CASE wasRm
  <2>1. \A i \in Kept : seen'[i].mhs = seen[i].mhs
    BY <1>4, <1>6, <1>10, <1>12
  <2>2. SumOver(seen', Kept) = SumOver(seen, Kept)
    BY <1>4, <2>1, SumsAgree
  <2> QED
    BY <1>6, <1>7, <1>8, <1>9, <1>11, <1>12, <2>2 DEF Counters
<1>13. CASE ~wasRm
  <2>1. n \in Kept /\ \A i \in Kept : /\ seen[i].mhs \in Nat
                                      /\ i # n => seen'[i].mhs = seen[i].mhs
    BY <1>4, <1>6, <1>10, <1>13
  <2>2. seen[n].mhs = 0
    BY <1>5
  <2>3. SumOver(seen', Kept) = SumOver(seen, Kept) + mhs
    BY <1>3, <1>4, <1>6, <2>1, <2>2, SumGrows
  <2> QED
    BY <1>6, <1>7, <1>8, <1>9, <1>11, <1>13, <2>3 DEF Counters
<1> QED
  BY <1>12, <1>13

LEMMA CountersStep ==
  ASSUME Inv, Remembers, Counters, [Next]_vars
  PROVE  Remembers' /\ Counters'
<1>1. Types /\ action \in Actions
  BY ActionTypes DEF Inv
<1>2. CASE Interrupt \/ Crawler \/ UNCHANGED vars
  <2>1. UNCHANGED <<chain, seen, action>>
    BY <1>2 DEF Interrupt, Crawler, NextBatch, LoopDone, SyncBatch, SyncCancelled, SyncFails,
                LoadAd, BadAd, SendAd, SendCancelled, BatchDone, Report, CloseAds, vars, input
  <2> QED
    BY <1>1, <2>1, CountersKept
<1>3. CASE ReceiveEnd \/ EntriesFail \/ DrainFails \/ CancelCrawl \/ TakeError
  <2>1. /\ UNCHANGED <<chain, seen>>
        /\ action'.removed = action.removed /\ action'.total = action.total
        /\ action'.active = action.active /\ action'.pc # "entries"
    <3>1. CASE ReceiveEnd
      BY <1>1, <3>1 DEF ReceiveEnd, Actions, input
    <3>2. CASE EntriesFail
      BY <1>1, <3>2 DEF EntriesFail, Actions, input
    <3>3. CASE DrainFails
      BY <1>1, <3>3 DEF DrainFails, Actions, input
    <3>4. CASE CancelCrawl
      BY <1>1, <3>4 DEF CancelCrawl, Actions, input
    <3>5. CASE TakeError
      BY <1>1, <3>5 DEF TakeError, Actions, input
    <3> QED
      BY <1>3, <3>1, <3>2, <3>3, <3>4, <3>5
  <2> QED
    BY <1>1, <2>1, CountersKept
<1>4. CASE Receive
  BY <1>4, ReceiveCounts
<1>5. CASE CountEntries
  BY <1>5, CountEntriesCounts
<1> QED
  BY <1>2, <1>3, <1>4, <1>5 DEF Next, Consumer

LEMMA CountersInit == Init => Remembers /\ Counters
<1> SUFFICES ASSUME Init PROVE Remembers /\ Counters
  OBVIOUS
<1>1. seen = <<>> /\ DOMAIN seen = {} /\ action.removed = {} /\ action.total = 0
      /\ action.active = 0 /\ action.pc = "receive"
  BY DEF Init
<1>2. Kept = {} /\ Removals = {}
  BY <1>1 DEF Kept, Removals
<1> QED
  BY <1>1, <1>2, NoSum DEF Remembers, Counters

(* The counters the user is shown agree with the ads received, for every      *)
(* chain and order of additions and removals: the total is the sum of what    *)
(* was counted of each, and the active ones leave out those a newer ad        *)
(* removes, whether or not an entry could be read and whatever was stopped.   *)
THEOREM CountersMatch == Spec => []CountsMatchChain
<1>1. Init => Remembers /\ Counters
  BY CountersInit
<1>2. Inv /\ Remembers /\ Counters /\ [Next]_vars => Remembers' /\ Counters'
  BY CountersStep
<1>3. Counters => CountsMatchChain
  <2>1. MhsOf(DOMAIN seen) = SumOver(seen, DOMAIN seen)
    BY MhsAreSums
  <2>2. MhsOf({i \in DOMAIN seen : ~Removed(i)}) = SumOver(seen, Kept)
    BY MhsAreSums DEF Kept
  <2> QED
    BY <2>1, <2>2 DEF Counters, CountsMatchChain
<1>4. Spec => []Inv
  BY InvHolds, PTL
<1> QED
  BY <1>1, <1>2, <1>3, <1>4, PTL DEF Spec
-----------------------------------------------------------------------------
(* Why the crawl ends, as far as a state and a step can say it: no step can   *)
(* be taken for ever, and until the end some step can be taken.  What is left *)
(* to the goroutine: for each ad at most a turn of the loop, a sync, a read, a*)
(* send and what the action does with it.                                     *)
GoroutineLeft ==
  CASE producer.pc = "loop" -> 7 * Newest + 6
    [] producer.pc = "sync" -> 7 * Newest + 5
    [] producer.pc = "load" -> 7 * Newest + (IF producer.left = 0 THEN 7 ELSE 4)
    [] producer.pc = "send" -> 7 * Newest + 3
    [] producer.pc = "report" -> 2
    [] producer.pc = "close" -> 1
    [] producer.pc = "done" -> 0

ActionLeft ==
  CASE action.pc = "entries" -> 4
    [] action.pc = "receive" -> 3
    [] action.pc = "cancel" -> 2
    [] action.pc = "wait" -> 1
    [] action.pc = "done" -> 0

InterruptLeft == IF ended = "nobody" THEN 1 ELSE 0

StepsLeft == GoroutineLeft + 2 * Len(ads) + ActionLeft + InterruptLeft

LEMMA NewestIsAd ==
  ASSUME Inv
  PROVE  Newest \in Nat /\ (producer.pc \in Running => Newest >= 1)
<1>1. producer.latest \in Nat /\ Len(chain) \in Nat /\ Len(chain) >= 1
  BY ProducerTypes, Numbers DEF Inv
<1> QED
  BY <1>1 DEF Newest, Undef, Inv, Position, Running

LeftType ==
  /\ GoroutineLeft \in Nat /\ ActionLeft \in Nat /\ InterruptLeft \in Nat
  /\ Len(ads) \in Nat

LEMMA LeftTypes == Inv => LeftType
<1> SUFFICES ASSUME Inv PROVE LeftType
  OBVIOUS
<1>1. Newest \in Nat /\ Len(ads) \in Nat
  BY NewestIsAd, Numbers DEF Inv
<1>2. producer.pc \in Running \cup Ended
  BY ProducerTypes DEF Inv
<1>3. action.pc \in {"receive", "entries", "cancel", "wait", "done"}
  BY ActionTypes DEF Inv
<1>4. GoroutineLeft \in Nat
  BY <1>1, <1>2 DEF GoroutineLeft, Running, Ended
<1>5. ActionLeft \in Nat
  BY <1>3 DEF ActionLeft
<1> QED
  BY <1>1, <1>4, <1>5 DEF InterruptLeft, LeftType

LEMMA LeftTypesNext == Inv' => LeftType'
BY LeftTypes, PTL

(* Whatever the goroutine does brings it nearer to its end, by more than the  *)
(* action gets to do if it sends an ad.                                       *)
LEMMA GoroutineProgress ==
  ASSUME Inv, Inv', Crawler
  PROVE  /\ UNCHANGED <<ended, action>>
         /\ GoroutineLeft' + 2 * Len(ads') < GoroutineLeft + 2 * Len(ads)
<1>1. producer \in Producers /\ chain' = chain /\ UNCHANGED <<ended, action>>
  BY DEF Inv, Types, Crawler, NextBatch, LoopDone, SyncBatch, SyncCancelled,
     SyncFails, LoadAd, BadAd, SendAd, SendCancelled, BatchDone, Report, CloseAds, input
<1>2. /\ Newest \in Nat /\ (producer.pc \in Running => Newest >= 1)
      /\ Len(ads) \in Nat /\ Len(ads') \in Nat /\ Len(ads') <= 1
      /\ GoroutineLeft \in Nat /\ GoroutineLeft' \in Nat
  BY NewestIsAd, LeftTypes, LeftTypesNext DEF LeftType, Inv, Types, ChannelType
<1>3. ASSUME producer.pc \in Running, producer'.pc = "report"
      PROVE  GoroutineLeft' + 2 * Len(ads') < GoroutineLeft + 2 * Len(ads)
  <2>1. GoroutineLeft' = 2
    BY <1>3 DEF GoroutineLeft
  <2>2. GoroutineLeft >= 10
    BY <1>2, <1>3 DEF GoroutineLeft, Running
  <2> QED
    BY <1>2, <2>1, <2>2
<1>4. ASSUME NEW e, Finish(e)
      PROVE  producer'.pc = "report"
  BY <1>1, <1>4 DEF Finish, Producers
<1>5. CASE LoopDone \/ SyncCancelled \/ SyncFails \/ BadAd \/ SendCancelled
  <2>1. producer.pc \in Running /\ \E e : Finish(e)
    BY <1>5 DEF LoopDone, SyncCancelled, SyncFails, BadAd, SendCancelled, Running
  <2> QED
    BY <1>1, <1>3, <1>4, <2>1
<1>6. CASE NextBatch
  <2>1. /\ producer.pc = "loop" /\ producer'.pc = "sync"
        /\ producer'.latest = producer.latest /\ ads' = ads
    BY <1>1, <1>6 DEF NextBatch, Producers
  <2>2. Newest' = Newest
    BY <1>1, <2>1 DEF Newest
  <2> QED
    BY <1>1, <1>2, <2>1, <2>2 DEF GoroutineLeft
<1>7. CASE SyncBatch
  <2>1. /\ producer.pc = "sync" /\ producer'.pc = "load" /\ ads' = ads
        /\ producer'.latest = Newest /\ producer'.left = producer.batch
    BY <1>1, <1>7 DEF SyncBatch, Producers
  <2>2. Newest' = Newest
    BY <1>1, <1>2, <2>1 DEF Newest, Running, Undef
  <2>3. producer'.left # 0
    BY <2>1 DEF Inv, Progress
  <2> QED
    BY <1>1, <1>2, <2>1, <2>2, <2>3 DEF GoroutineLeft
<1>8. CASE LoadAd
  <2>1. CASE producer.latest \in stored
    <3>1. /\ producer.pc = "load" /\ producer.left # 0 /\ producer'.pc = "send"
          /\ producer'.latest = producer.latest /\ ads' = ads
      BY <1>1, <1>8, <2>1 DEF LoadAd, Producers
    <3>2. Newest' = Newest
      BY <1>1, <3>1 DEF Newest
    <3> QED
      BY <1>1, <1>2, <3>1, <3>2 DEF GoroutineLeft
  <2>2. CASE producer.latest \notin stored
    <3>1. producer.pc \in Running /\ Finish("not found")
      BY <1>8, <2>2 DEF LoadAd, Running
    <3> QED
      BY <1>1, <1>3, <1>4, <3>1
  <2> QED
    BY <2>1, <2>2
<1>9. CASE SendAd
  <2>1. CASE producer.latest - 1 = Undef
    <3>1. producer.pc \in Running /\ Finish("none")
      BY <1>9, <2>1 DEF SendAd, Running
    <3> QED
      BY <1>1, <1>3, <1>4, <3>1
  <2>2. CASE producer.latest - 1 # Undef
    <3>1. /\ producer.pc = "send" /\ producer'.pc = "load"
          /\ producer'.latest = producer.latest - 1
      BY <1>1, <1>9, <2>2 DEF SendAd, Producers
    <3>2. producer.latest \in Nat /\ producer.latest >= 1
      BY <3>1, InBatch
    <3>3. Newest = producer.latest /\ Newest' = Newest - 1
      BY <2>2, <3>1, <3>2 DEF Newest, Undef
    <3>4. Newest' \in Nat /\ Newest = Newest' + 1
      BY <1>2, <2>2, <3>2, <3>3 DEF Undef
    <3>5. GoroutineLeft' <= 7 * Newest' + 7
      BY <3>1, <3>4 DEF GoroutineLeft
    <3>6. GoroutineLeft = 7 * Newest + 3
      BY <3>1 DEF GoroutineLeft
    <3>7. Len(ads) = 0 /\ Len(ads') = 1
      BY <1>9 DEF SendAd
    <3>8. \A n \in Nat, m \in Nat : m <= 7 * n + 7 => m + 2 * 1 < 7 * (n + 1) + 3 + 2 * 0
      OBVIOUS
    <3> QED
      BY <1>1, <1>2, <3>4, <3>5, <3>6, <3>7, <3>8
  <2> QED
    BY <2>1, <2>2
<1>10. CASE BatchDone
  <2>1. /\ producer.pc = "load" /\ producer.left = 0 /\ producer'.pc = "loop"
        /\ producer'.latest = producer.latest /\ ads' = ads
    BY <1>1, <1>10 DEF BatchDone, Producers
  <2>2. Newest' = Newest
    BY <1>1, <2>1 DEF Newest
  <2> QED
    BY <1>1, <1>2, <2>1, <2>2 DEF GoroutineLeft
<1>11. CASE Report
  <2>1. producer.pc = "report" /\ producer'.pc = "close" /\ ads' = ads
    BY <1>1, <1>11 DEF Report, Producers
  <2> QED
    BY <1>1, <1>2, <2>1 DEF GoroutineLeft
<1>12. CASE CloseAds
  <2>1. producer.pc = "close" /\ producer'.pc = "done" /\ ads' = ads
    BY <1>1, <1>12 DEF CloseAds, Producers
  <2> QED
    BY <1>1, <1>2, <2>1 DEF GoroutineLeft
<1> QED
  BY <1>1, <1>5, <1>6, <1>7, <1>8, <1>9, <1>10, <1>11, <1>12 DEF Crawler

(* So does the action, which may take one ad to do more work, and only ever   *)
(* ends the context.                                                          *)
LEMMA ActionProgress ==
  ASSUME Inv, Inv', Consumer
  PROVE  /\ UNCHANGED <<chain, producer>> /\ InterruptLeft' <= InterruptLeft
         /\ ActionLeft' + 2 * Len(ads') < ActionLeft + 2 * Len(ads)
<1>1. /\ UNCHANGED <<chain, producer>> /\ action \in Actions
      /\ ended' = ended \/ ended' # "nobody"
  BY ActionTypes DEF Inv, Consumer, Receive, ReceiveEnd, EntriesFail, CountEntries,
     DrainFails, CancelCrawl, TakeError, EndCtx, input
<1>2. InterruptLeft' <= InterruptLeft
  BY <1>1 DEF InterruptLeft
<1>3. ActionLeft \in Nat /\ ActionLeft' \in Nat /\ Len(ads) \in Nat
  BY LeftTypes, LeftTypesNext DEF LeftType
<1>4. CASE Receive
  <2> DEFINE k == Head(ads)
             pc == IF HasWork(k) THEN "entries" ELSE "receive"
             removed == IF chain[k].rm THEN action.removed \cup {chain[k].ctx}
                        ELSE action.removed
  <2>1. action.pc = "receive" /\ ads # <<>> /\ ads' = Tail(ads)
        /\ action' = [action EXCEPT !.pc = pc, !.ad = k, !.removed = removed]
    BY <1>4 DEF Receive
  <2>2. action'.pc = pc
    <3> HIDE DEF k, pc, removed
    <3> QED
      BY <1>1, <2>1 DEF Actions
  <2>3. ActionLeft = 3 /\ ActionLeft' <= 4
    BY <2>1, <2>2 DEF ActionLeft
  <2>4. Len(ads) = 1 /\ Len(ads') = 0
    BY <2>1, NextAd
  <2>5. \A n \in Nat : n <= 4 => n + 2 * 0 < 3 + 2 * 1
    OBVIOUS
  <2> QED
    BY <1>1, <1>2, <1>3, <2>3, <2>4, <2>5
<1>5. CASE CountEntries
  <2>1. PICK mhs \in 0..chain[action.ad].mhs : action' = Counted(action, mhs)
    BY <1>5 DEF CountEntries
  <2>2. action.pc = "entries" /\ ads' = ads
    BY <1>5 DEF CountEntries
  <2>3. mhs \in Nat
    BY <2>2, EntriesCounted
  <2>4. action'.pc \in {"cancel", "receive"}
    BY <2>1, <2>3, CountedProperties DEF Inv
  <2>5. ActionLeft = 4 /\ ActionLeft' <= 3
    BY <2>2, <2>4 DEF ActionLeft
  <2> QED
    BY <1>1, <1>2, <1>3, <2>2, <2>5
<1>6. CASE ReceiveEnd \/ EntriesFail \/ DrainFails \/ CancelCrawl \/ TakeError
  <2>1. /\ ads' = ads
        /\ \/ action.pc = "receive" /\ action'.pc = "cancel"
           \/ action.pc = "entries" /\ action'.pc \in {"receive", "done"}
           \/ action.pc = "cancel" /\ action'.pc = "wait"
           \/ action.pc = "wait" /\ action'.pc = "done"
    BY <1>1, <1>6 DEF ReceiveEnd, EntriesFail, DrainFails, CancelCrawl, TakeError, Actions
  <2>2. ActionLeft' < ActionLeft
    BY <2>1 DEF ActionLeft
  <2> QED
    BY <1>1, <1>2, <1>3, <2>1, <2>2
<1> QED
  BY <1>4, <1>5, <1>6 DEF Consumer

LEMMA InterruptProgress ==
  ASSUME Interrupt
  PROVE  UNCHANGED <<chain, producer, ads, action>> /\ InterruptLeft' < InterruptLeft
BY DEF Interrupt, InterruptLeft, input

LEMMA StepProgress ==
  ASSUME Inv, Inv', Next
  PROVE  StepsLeft' < StepsLeft \/ UNCHANGED vars
<1>1. /\ GoroutineLeft \in Nat /\ ActionLeft \in Nat /\ InterruptLeft \in Nat
      /\ Len(ads) \in Nat
      /\ GoroutineLeft' \in Nat /\ ActionLeft' \in Nat /\ InterruptLeft' \in Nat
      /\ Len(ads') \in Nat
  BY LeftTypes, LeftTypesNext DEF LeftType
<1>2. CASE Interrupt
  <2>1. /\ GoroutineLeft' = GoroutineLeft /\ ActionLeft' = ActionLeft
        /\ InterruptLeft' < InterruptLeft /\ ads' = ads
    BY <1>2, InterruptProgress DEF GoroutineLeft, Newest, ActionLeft
  <2> QED
    BY <1>1, <2>1 DEF StepsLeft
<1>3. CASE Crawler
  <2>1. ActionLeft' = ActionLeft /\ InterruptLeft' = InterruptLeft
    BY <1>3, GoroutineProgress DEF ActionLeft, InterruptLeft
  <2>2. GoroutineLeft' + 2 * Len(ads') < GoroutineLeft + 2 * Len(ads)
    BY <1>3, GoroutineProgress
  <2> QED
    BY <1>1, <2>1, <2>2 DEF StepsLeft
<1>4. CASE Consumer
  <2>1. GoroutineLeft' = GoroutineLeft
    BY <1>4, ActionProgress DEF GoroutineLeft, Newest
  <2>2. /\ ActionLeft' + 2 * Len(ads') < ActionLeft + 2 * Len(ads)
        /\ InterruptLeft' <= InterruptLeft
    BY <1>4, ActionProgress
  <2> QED
    BY <1>1, <2>1, <2>2 DEF StepsLeft
<1> QED
  BY <1>2, <1>3, <1>4 DEF Next

(* A crawl takes a bounded number of steps, 7 for each ad on the chain and 10 *)
(* more, however its goroutines are scheduled and whatever fails: every step  *)
(* that changes anything brings the end nearer.                               *)
BoundedSteps ==
  /\ StepsLeft = 7 * Len(chain) + 10
  /\ [](StepsLeft \in Nat)
  /\ [][StepsLeft' < StepsLeft]_vars

(* For every chain and command line: with CrawlNeverStuck, all of Terminates  *)
(* but the scheduling.                                                        *)
THEOREM CrawlIsBounded == Spec => BoundedSteps
<1>1. Init => StepsLeft = 7 * Len(chain) + 10
  <2> SUFFICES ASSUME Init PROVE StepsLeft = 7 * Len(chain) + 10
    OBVIOUS
  <2>1. /\ GoroutineLeft = 7 * Len(chain) + 6 /\ ActionLeft = 3 /\ InterruptLeft = 1
        /\ Len(ads) = 0
    BY DEF Init, GoroutineLeft, Newest, ActionLeft, InterruptLeft
  <2>2. Len(chain) \in Nat
    BY InvInit, Numbers DEF Inv
  <2> QED
    BY <2>1, <2>2 DEF StepsLeft
<1>2. Inv => StepsLeft \in Nat
  BY LeftTypes DEF LeftType, StepsLeft
<1>3. Inv /\ Inv' /\ [Next]_vars => [StepsLeft' < StepsLeft]_vars
  BY StepProgress
<1>4. Spec => []Inv
  BY InvHolds, PTL
<1> QED
  BY <1>1, <1>2, <1>3, <1>4, PTL DEF Spec, BoundedSteps

(* When each of the two has a step to take: the guards of their actions.      *)
CrawlerCan ==
  \/ producer.pc \in {"loop", "sync", "load", "close"}
  \/ producer.pc = "send" /\ (ads = <<>> \/ Cancelled)
  \/ producer.pc = "report" /\ errCh = <<>>
ConsumerCan ==
  \/ action.pc \in {"entries", "cancel"}
  \/ action.pc = "receive" /\ (ads # <<>> \/ closed)
  \/ action.pc = "wait" /\ errCh # <<>>

(* The action waits for the goroutine's error only after it has ended the     *)
(* context, and the error is there before the channel of ads is closed.       *)
Waiting ==
  /\ action.pc \in {"wait", "done"} => Cancelled
  /\ producer.pc \in {"close", "done"} /\ action.pc # "done" => errCh # <<>>
  /\ producer.pc = "done" => closed

LEMMA WaitingStep ==
  ASSUME Inv, Waiting, [Next]_vars
  PROVE  Waiting'
<1>1. producer \in Producers /\ action \in Actions
  BY ActionTypes DEF Inv, Types
<1>2. CASE UNCHANGED vars \/ Interrupt
  BY <1>2 DEF vars, Interrupt, Waiting, Cancelled
<1>3. CASE NextBatch \/ LoopDone \/ SyncBatch \/ SyncCancelled \/ SyncFails \/ LoadAd
           \/ BadAd \/ SendAd \/ SendCancelled \/ BatchDone
  <2>1. /\ producer'.pc \in Running \cup {"report"}
        /\ UNCHANGED <<action, ended>>
    BY <1>1, <1>3 DEF NextBatch, LoopDone, SyncBatch, SyncCancelled, SyncFails, LoadAd,
       BadAd, SendAd, SendCancelled, BatchDone, Finish, Producers, Running
  <2> QED
    BY <2>1 DEF Waiting, Cancelled, Running
<1>4. CASE Report
  <2>1. /\ producer'.pc = "close" /\ errCh' # <<>> /\ UNCHANGED <<action, ended>>
    BY <1>1, <1>4 DEF Report, Producers
  <2> QED
    BY <2>1 DEF Waiting, Cancelled
<1>5. CASE CloseAds
  <2>1. /\ producer.pc = "close" /\ producer'.pc = "done" /\ closed'
        /\ UNCHANGED <<action, ended, errCh>>
    BY <1>1, <1>5 DEF CloseAds, Producers
  <2> QED
    BY <2>1 DEF Waiting, Cancelled
<1>6. CASE Receive \/ ReceiveEnd \/ EntriesFail \/ CountEntries
  <2>1. UNCHANGED <<producer, ended, errCh, closed>> /\ action.pc \in {"receive", "entries"}
    BY <1>6 DEF Receive, ReceiveEnd, EntriesFail, CountEntries
  <2>2. action'.pc \in {"entries", "receive", "cancel"}
    <3>1. CASE Receive
      <4>1. \/ (HasWork(Head(ads)) /\ action'.pc = "entries")
            \/ (~HasWork(Head(ads)) /\ action'.pc = "receive")
        BY <1>1, <3>1 DEF Receive, Actions
      <4> QED
        BY <4>1
    <3>2. CASE ReceiveEnd \/ EntriesFail
      BY <1>1, <3>2 DEF ReceiveEnd, EntriesFail, Actions
    <3>3. CASE CountEntries
      <4>1. PICK mhs \in 0..chain[action.ad].mhs : action' = Counted(action, mhs)
        BY <3>3 DEF CountEntries
      <4>2. mhs \in Nat
        BY <3>3, EntriesCounted DEF CountEntries
      <4> QED
        BY <4>1, <4>2, CountedProperties DEF Inv
    <3> QED
      BY <1>6, <3>1, <3>2, <3>3
  <2> QED
    BY <2>1, <2>2 DEF Waiting, Cancelled
<1>7. CASE DrainFails \/ CancelCrawl
  <2>1. /\ UNCHANGED <<producer, errCh, closed>> /\ ended' # "nobody"
        /\ action.pc # "done"
    BY <1>7 DEF DrainFails, CancelCrawl, EndCtx
  <2> QED
    BY <2>1 DEF Waiting, Cancelled
<1>8. CASE TakeError
  <2>1. /\ UNCHANGED <<producer, ended, closed>> /\ action.pc = "wait"
        /\ action'.pc = "done"
    BY <1>1, <1>8 DEF TakeError, Actions
  <2> QED
    BY <2>1 DEF Waiting, Cancelled
<1> QED
  BY <1>2, <1>3, <1>4, <1>5, <1>6, <1>7, <1>8 DEF Next, Crawler, Consumer

(* Until both goroutines have ended, one of them has a step to take, and      *)
(* needs neither an interrupt nor a failure for it: the goroutine is not left *)
(* blocked on a full channel, nor the action on an empty one.                 *)
NeverStuck == Terminated \/ CrawlerCan \/ ConsumerCan

(* No deadlock between the goroutine, its two channels and the action, for    *)
(* every chain, command line and failure.                                     *)
THEOREM CrawlNeverStuck == Spec => []NeverStuck
<1>1. Init => Waiting
  BY DEF Init, Waiting
<1>2. Inv /\ Waiting /\ [Next]_vars => Waiting'
  BY WaitingStep
<1>3. Inv /\ Waiting => NeverStuck
  <2> SUFFICES ASSUME Inv, Waiting PROVE NeverStuck
    OBVIOUS
  <2>1. producer.pc \in Running \cup Ended
        /\ action.pc \in {"receive", "entries", "cancel", "wait", "done"}
    BY ProducerTypes, ActionTypes DEF Inv
  <2>2. producer.pc = "report" => errCh = <<>>
    BY DEF Inv, Channels
  <2> QED
    BY <2>1, <2>2 DEF Waiting, NeverStuck, CrawlerCan, ConsumerCan, Terminated, Running, Ended
<1>4. Spec => []Inv
  BY InvHolds, PTL
<1> QED
  BY <1>1, <1>2, <1>3, <1>4, PTL DEF Spec
-----------------------------------------------------------------------------
(* What run crawl_segments shows of one number holds of all: a crawl that     *)
(* asks for more than a segment gives the user no ad, and does not succeed    *)
(* unless the user has interrupted it.                                        *)
SegmentedIsEmpty ==
  opts.n > SegmentSize => seen = <<>> /\ (action.result = "ok" => ended = "user")

NothingSegmented ==
  Segmented =>
    /\ stored = {} /\ producer.pc # "send" /\ ads = <<>>
    /\ seen = <<>> /\ action.total = 0 /\ action.pc # "entries"
    /\ action.result = "ok" => ended = "user"

LEMMA NothingSegmentedStep ==
  ASSUME Inv, NothingSegmented, [Next]_vars
  PROVE  NothingSegmented'
<1>1. producer \in Producers /\ action \in Actions /\ UNCHANGED opts
  BY ActionTypes DEF Inv, Types, Next, Crawler, Consumer, Interrupt, NextBatch, LoopDone,
     SyncBatch, SyncCancelled, SyncFails, LoadAd, BadAd, SendAd, SendCancelled, BatchDone,
     Report, CloseAds, Receive, ReceiveEnd, EntriesFail, CountEntries, DrainFails,
     CancelCrawl, TakeError, vars, input
<1> SUFFICES ASSUME Segmented, ~UNCHANGED vars
             PROVE  /\ stored' = {} /\ producer'.pc # "send" /\ ads' = <<>>
                    /\ seen' = <<>> /\ action'.total = 0 /\ action'.pc # "entries"
                    /\ action'.result = "ok" => ended' = "user"
  BY <1>1 DEF NothingSegmented, Segmented, vars
<1>2. /\ stored = {} /\ producer.pc # "send" /\ ads = <<>>
      /\ seen = <<>> /\ action.total = 0 /\ action.pc # "entries"
      /\ action.result = "ok" => ended = "user"
  BY DEF NothingSegmented
<1>3. \A newest, batch : Synced(newest, batch) = {}
  BY DEF Synced, Segmented
<1>4. CASE Interrupt
  BY <1>2, <1>4 DEF Interrupt
<1>5. CASE Crawler
  <2>1. stored' = {}
    BY <1>2, <1>3, <1>5 DEF Crawler, NextBatch, LoopDone, SyncBatch, SyncCancelled, SyncFails,
       PartlySynced, LoadAd, BadAd, SendAd, SendCancelled, BatchDone, Report, CloseAds
  <2>2. producer'.pc # "send"
    BY <1>1, <1>2, <1>5 DEF Crawler, NextBatch, LoopDone, SyncBatch, SyncCancelled, SyncFails,
       LoadAd, BadAd, SendAd, SendCancelled, BatchDone, Report, CloseAds, Finish, Producers
  <2>3. UNCHANGED <<ads, seen, action, ended>>
    BY <1>2, <1>5 DEF Crawler, NextBatch, LoopDone, SyncBatch, SyncCancelled, SyncFails,
       LoadAd, BadAd, SendAd, SendCancelled, BatchDone, Report, CloseAds
  <2> QED
    BY <1>2, <2>1, <2>2, <2>3
<1>6. CASE ReceiveEnd
  <2>1. /\ UNCHANGED <<producer, stored, ads, seen, ended>>
        /\ action'.pc = "cancel" /\ action'.total = action.total
        /\ action'.result = action.result
    BY <1>1, <1>6 DEF ReceiveEnd, Actions
  <2> QED
    BY <1>2, <2>1
<1>7. CASE CancelCrawl
  <2>1. /\ UNCHANGED <<producer, stored, ads, seen>> /\ action.pc = "cancel"
        /\ action'.pc = "wait" /\ action'.total = action.total
        /\ action'.result = action.result
    BY <1>1, <1>7 DEF CancelCrawl, Actions
  <2>2. action.result = "none"
    BY <2>1 DEF Inv, Reading
  <2> QED
    BY <1>2, <2>1, <2>2
<1>8. CASE TakeError
  <2> DEFINE result == IF Head(errCh) = "none" THEN "ok" ELSE Head(errCh)
  <2>1. /\ UNCHANGED <<producer, stored, ads, seen, ended>> /\ action.pc = "wait"
        /\ errCh # <<>> /\ action' = [action EXCEPT !.pc = "done", !.result = result]
    BY <1>8 DEF TakeError
  <2>2. action'.pc = "done" /\ action'.total = action.total /\ action'.result = result
    <3> HIDE DEF result
    <3> QED
      BY <1>1, <2>1 DEF Actions
  <2>3. ~Stopped
    <3>1. opts.stopMhs \in Nat
      BY OptionTypes DEF Inv
    <3> QED
      BY <1>2, <3>1 DEF Stopped
  <2>4. producer.err = "none" => Len(seen) = Wanted \/ ended = "user"
    BY <2>1, <2>3 DEF Inv, Reading
  <2>5. Len(seen) = 0 /\ Wanted # 0
    <3>1. opts.n \in Nat /\ SegmentSize \in Nat /\ Len(chain) \in Nat /\ Len(chain) >= 1
      BY OptionTypes, Numbers DEF Inv
    <3> QED
      BY <1>2, <3>1 DEF Wanted, Segmented
  <2>6. result = "ok" => producer.err = "none"
    <3>1. Head(errCh) = producer.err /\ producer.err \in Errs
      BY <2>1, ProducerTypes DEF Inv, Channels
    <3> QED
      BY <3>1 DEF Errs
  <2>7. action'.result = "ok" => ended' = "user"
    BY <2>1, <2>2, <2>4, <2>5, <2>6
  <2> HIDE DEF result
  <2> QED
    BY <1>2, <2>1, <2>2, <2>7
<1> QED
  BY <1>2, <1>4, <1>5, <1>6, <1>7, <1>8 DEF Next, Consumer, Terminated, Receive, EntriesFail,
     CountEntries, DrainFails

(* The finding of that run, for every chain, segment and number beyond it.    *)
THEOREM SegmentedCrawlFails == Spec => []SegmentedIsEmpty
<1>1. Init => NothingSegmented
  BY DEF Init, NothingSegmented
<1>2. Inv /\ NothingSegmented /\ [Next]_vars => NothingSegmented'
  BY NothingSegmentedStep
<1>3. NothingSegmented => SegmentedIsEmpty
  BY DEF NothingSegmented, SegmentedIsEmpty, Segmented
<1>4. Spec => []Inv
  BY InvHolds, PTL
<1> QED
  BY <1>1, <1>2, <1>3, <1>4, PTL DEF Spec
=============================================================================
