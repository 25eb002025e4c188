----------------------------- MODULE AdEntries -----------------------------
(***************************************************************************)
(* What `ads get` (adsGetAction, pkg/ads/get.go) and `ads crawl`           *)
(* (adsCrawlAction, pkg/ads/crawl.go) do with the entries of one           *)
(* advertisement after another: sync them, drain them, show what came of   *)
(* it, all on one client, whose store holds what earlier advertisements    *)
(* have left.  The client of `ads crawl` deletes what it reads, that of    *)
(* `ads get` does not: opts.del tells the commands apart.  Neither sets a  *)
(* number of retries.  How the advertisements themselves are fetched is in *)
(* AdFetch and Crawl.                                                      *)
(***************************************************************************)
EXTENDS EntriesSync

CONSTANT MaxAds     \* bound: advertisements the command goes through

ASSUME CallsAssumption ==
  /\ MaxAds \in Nat /\ MaxCalls = 2 * MaxAds   \* a sync and a drain for each
  /\ \A o \in Options : o.retry = 0

VARIABLES
  list,      \* the advertisements, in the order the command takes them, each
             \* [rm, root]: a removal or not, and where its entries begin,
             \* 0 for none
  cmd,       \* the loop: [pc, pos, result]
  outcomes,  \* history: what was shown of each ad whose entries were asked
             \* for, a sequence of [pos, synced, mhs, chunkCount, note]
  kept       \* history: chunks fetched by syncs that failed

entriesVars == vars
allVars == <<vars, list, cmd, outcomes, kept>>

AdKinds == {a \in [rm : BOOLEAN, root : 0..Len(chunks)] : a.rm => a.root = 0}

CommandInit ==
  /\ Init
  /\ list \in UNION {[1..n -> AdKinds] : n \in 1..MaxAds}
  /\ cmd = [pc |-> "ad", pos |-> 1, result |-> "none"]
  /\ outcomes = <<>>
  /\ kept = {}

Ad == list[cmd.pos]

(* Removals, whose entries are never looked at, and ads without entries are   *)
(* only described (as are all ads with --skip-entries).                       *)
HasWork_anyAddition(ad) == ~ad.rm
HasWork(ad) == ~ad.rm /\ ad.root # 0

Continue == cmd' = [cmd EXCEPT !.pc = "ad", !.pos = @ + 1]
Finish(result) == cmd' = [cmd EXCEPT !.pc = "done", !.result = result]

-----------------------------------------------------------------------------
(* The next advertisement cannot be fetched: `ads get` returns the error, and *)
(* leaves the ads after it alone; the goroutine of `ads crawl` ends.          *)
AdFails ==
  /\ cmd.pc = "ad" /\ cmd.pos <= Len(list)
  /\ Finish("ad failed")
  /\ UNCHANGED <<entriesVars, list, outcomes, kept>>

SkipAd ==
  /\ cmd.pc = "ad" /\ cmd.pos <= Len(list)
  /\ ~HasWork(Ad)
  /\ Continue
  /\ UNCHANGED <<entriesVars, list, outcomes, kept>>

SyncAd ==
  /\ cmd.pc = "ad" /\ cmd.pos <= Len(list)
  /\ HasWork(Ad)
  /\ SyncEntriesWithRetry(Ad.root)
  /\ cmd' = [cmd EXCEPT !.pc = "sync"]
  /\ UNCHANGED <<list, outcomes, kept>>

(* The sync has failed: on to the next ad, with whatever it has fetched left  *)
(* in the store.                                                              *)
NotSynced == [pos |-> cmd.pos, synced |-> FALSE, mhs |-> {},
              chunkCount |-> 0, note |-> FALSE]
SyncFailed_breaks ==
  /\ cmd.pc = "sync" /\ Idle
  /\ sync.result # "ok"
  /\ outcomes' = Append(outcomes, NotSynced)
  /\ kept' = kept \cup fetched
  /\ Finish("ok")
  /\ UNCHANGED <<entriesVars, list>>
SyncFailed ==
  /\ cmd.pc = "sync" /\ Idle
  /\ sync.result # "ok"
  /\ outcomes' = Append(outcomes, NotSynced)
  /\ kept' = kept \cup fetched
  /\ Continue
  /\ UNCHANGED <<entriesVars, list>>

DrainAd_alsoFailed ==
  /\ cmd.pc = "sync" /\ Idle
  /\ Drain(Ad.root)
  /\ cmd' = [cmd EXCEPT !.pc = "drain"]
  /\ UNCHANGED <<list, outcomes, kept>>
DrainAd ==
  /\ cmd.pc = "sync" /\ Idle
  /\ sync.result = "ok"
  /\ Drain(Ad.root)
  /\ cmd' = [cmd EXCEPT !.pc = "drain"]
  /\ UNCHANGED <<list, outcomes, kept>>

(* What was read is shown, with a note (which `ads crawl` does not print) if  *)
(* the chain goes on where it is not stored; any other error ends the command.*)
Shown_silent(result) ==
  [pos |-> cmd.pos, synced |-> TRUE, mhs |-> iter.mhs,
   chunkCount |-> iter.chunkCount, note |-> FALSE]
Shown(result) ==
  [pos |-> cmd.pos, synced |-> TRUE, mhs |-> iter.mhs,
   chunkCount |-> iter.chunkCount, note |-> result = "not found"]

ShowEntries ==
  /\ cmd.pc = "drain" /\ Idle
  /\ iter.result \in {"eof", "not found"}
  /\ outcomes' = Append(outcomes, Shown(iter.result))
  /\ Continue
  /\ UNCHANGED <<entriesVars, list, kept>>

DrainError ==
  /\ cmd.pc = "drain" /\ Idle
  /\ iter.result = "bad chunk"
  /\ Finish("drain failed")
  /\ UNCHANGED <<entriesVars, list, outcomes, kept>>

LoopDone ==
  /\ cmd.pc = "ad" /\ cmd.pos > Len(list)
  /\ Finish("ok")
  /\ UNCHANGED <<entriesVars, list, outcomes, kept>>

-----------------------------------------------------------------------------
Working == Step /\ UNCHANGED <<list, cmd, outcomes, kept>>
Command ==
  \/ AdFails \/ SkipAd
  \/ SyncAd \/ SyncFailed
  \/ DrainAd \/ ShowEntries \/ DrainError
  \/ LoopDone

Done == cmd.pc = "done"
CommandNext ==
  \/ Working
  \/ Command
  \/ Done /\ UNCHANGED allVars

CommandSpec == CommandInit /\ [][CommandNext]_allVars

(* One goroutine runs the loop, and its requests end by an answer or by the   *)
(* client's timeout.                                                          *)
FairCommandSpec == CommandSpec /\ WF_allVars(Working \/ Command)

-----------------------------------------------------------------------------
(* Types of the loop, and that it is in step with the call it waits for.      *)
CommandTypeOK ==
  /\ TypeOK
  /\ list \in Seq(AdKinds)
  /\ cmd.pc \in {"ad", "sync", "drain", "done"}
  /\ cmd.pos \in 1..(Len(list) + 1)
  /\ cmd.pc \in {"ad", "done"} => Idle
  /\ sync.pc # "idle" => cmd.pc = "sync"
  /\ iter.pc # "idle" => cmd.pc = "drain"
  /\ kept \subseteq Chain

Shows == {outcomes[i] : i \in {j \in DOMAIN outcomes : outcomes[j].synced}}
Root(o) == list[o.pos].root
LastShown(o) == Root(o) + o.chunkCount - 1

(* The note under a list of entries, "More entries were available but not     *)
(* synced", is there exactly if chunks of that ad were left out, wherever the *)
(* syncs of earlier ads have stopped in the chain it shares with them; it is  *)
(* missing only behind a chunk without multihashes.                           *)
NoteMeansMore ==
  \A o \in Shows :
    /\ o.mhs = MhsOf(Root(o), LastShown(o))
    /\ o.note => LastShown(o) < Len(chunks)
    /\ ~o.note => LastShown(o) = Len(chunks) \/ chunks[LastShown(o)] = 0

(* The chunks that the ads up to position n ask for. *)
AskedUpTo(n) ==
  UNION {Asked(list[p].root) : p \in {q \in DOMAIN list : q <= n /\ HasWork(list[q])}}

(* --entries-depth-limit is the "maximum depth to fetch" for one ad.  What is *)
(* shown of an ad is never less than its first chunks up to that limit (all   *)
(* of them without one), whatever the ads before it, which share its chunks,  *)
(* have left in the store or deleted from it.  It is more only by chunks that *)
(* those ads have asked for: what is fetched for one is within its limit.     *)
ListsUpToLimit ==
  \A o \in Shows :
    /\ \A k \in Asked(Root(o)) :
         (\A j \in Root(o)..k : chunks[j] > 0) => {k} \X (1..chunks[k]) \subseteq o.mhs
    /\ Root(o)..LastShown(o) \subseteq AskedUpTo(o.pos)

(* A client that deletes what it reads keeps no chunk of an ad that it has    *)
(* synced and drained: what is left in the store between two ads was fetched  *)
(* by a sync that failed, or lies behind a chunk without multihashes.         *)
LeftoversExplained ==
  opts.del /\ cmd.pc = "ad" =>
    \A k \in stored : k \in kept \/ \E j \in 1..(k - 1) : chunks[j] = 0

(* One ad whose entries cannot be synced does not hide the others: a command  *)
(* that ends without an error has tried every ad that has entries, in order   *)
(* and once.                                                                  *)
OkMeansAllTried ==
  LET tried == [i \in DOMAIN outcomes |-> outcomes[i].pos]
  IN  /\ \A i, j \in DOMAIN tried : i < j => tried[i] < tried[j]
      /\ cmd.result = "ok" =>
           {p \in DOMAIN list : HasWork(list[p])} = {tried[i] : i \in DOMAIN tried}

(* The command ends, however its requests fail.                               *)
Ends == <>Done
=============================================================================
