---------------------------- MODULE EntriesSync ----------------------------
(***************************************************************************)
(* The entries of advertisements: client.SyncEntriesWithRetry              *)
(* (pkg/adpub/client.go), which fetches the chunks of an entries chain     *)
(* into the client's store and resumes after a failure at the first chunk  *)
(* that is missing, and EntriesIterator.Drain (pkg/adpub/entries_iter.go), *)
(* which reads them back, possibly deleting them.  Both are called in turn *)
(* on one client, for ads whose entries may share the tail of a chain.     *)
(* dagsync.Subscriber.SyncEntries is external: it follows the chain from   *)
(* its root, reading each chunk from the local store before it fetches and *)
(* stores it, until it has read as many as the depth limit (0 or less for  *)
(* no limit).                                                              *)
(***************************************************************************)
EXTENDS Integers, Sequences, FiniteSets

CONSTANTS
  ChunkSizes,    \* multihashes a chunk may hold; Bad: it does not decode
  MaxChunks,     \* bound: chunks in the chain
  Options,       \* clients: [depth, retry, del] are entriesDepthLimit (0 for no
                 \* limit), maxSyncRetry and delAfterRead
  MaxCalls       \* bound: calls of SyncEntriesWithRetry and Drain

Bad == -1

ASSUME BoundsAssumption ==
  /\ ChunkSizes \subseteq Nat \cup {Bad}
  /\ MaxChunks \in Nat /\ MaxCalls \in Nat
  /\ \A o \in Options :           \* WithEntriesDepthLimit refuses less than 0
       o.depth \in Nat /\ o.retry \in Nat /\ o.del \in BOOLEAN

VARIABLES
  chunks,   \* the chain: chunk k links to k + 1, chunks[k] is its size
  opts,     \* the client's options, a member of Options
  stored,   \* chunks in the client's store
  sync,     \* SyncEntriesWithRetry: [pc, root, id, limit, attempt, at, left,
            \* result]; only the last call made has a result
  iter,     \* the iterator of Drain: [pc, root, next, chunkCount, mhs, result]
  before,   \* history: what was stored when the call began
  fetched,  \* history: the chunks fetched by the call
  calls     \* calls so far

input == <<chunks, opts>>
vars == <<chunks, opts, stored, sync, iter, before, fetched, calls>>

Init ==
  /\ chunks \in UNION {[1..len -> ChunkSizes] : len \in 1..MaxChunks}
  /\ opts \in Options
  /\ stored = {}
  /\ sync = [pc |-> "idle", root |-> 1, id |-> 1, limit |-> 0, attempt |-> 0,
             at |-> 1, left |-> 0, result |-> "none"]
  /\ iter = [pc |-> "idle", root |-> 1, next |-> 1, chunkCount |-> 0,
             mhs |-> {}, result |-> "none"]
  /\ before = {} /\ fetched = {}
  /\ calls = 0

Chain == DOMAIN chunks
End == Len(chunks) + 1        \* cid.Undef, the link of the last chunk
Idle == sync.pc = "idle" /\ iter.pc = "idle"

(* getNextChunkLink finds the chunk, or a datastore.ErrNotFound ... *)
Missing(k) == k \in Chain \ stored
(* ... or another error, with no link. *)
Broken(k) == k \in Chain /\ chunks[k] = Bad

(* findNextMissingChunkLink: how many chunks it visits from id on before the *)
(* first missing one, or Len(chunks) + 1 if there is none: an error other    *)
(* than not found comes with no link, which ends the chain.                  *)
Missings(id) == {k \in Chain : /\ k >= id
                               /\ Missing(k)
                               /\ \A j \in id..(k - 1) : ~Missing(j) /\ ~Broken(j)}
NextMissing_latest(id) ==
  IF Missings(id) = {} THEN End
  ELSE CHOOSE k \in {j \in Chain : Missing(j)} :
         \A j \in Chain : Missing(j) => j <= k
NextMissing(id) ==
  IF Missings(id) = {} THEN End ELSE CHOOSE k \in Missings(id) : TRUE

-----------------------------------------------------------------------------
(* SyncEntriesWithRetry. *)
SyncEntriesWithRetry(root) ==
  /\ Idle /\ calls < MaxCalls
  /\ calls' = calls + 1
  /\ sync' = [pc |-> "connect", root |-> root, id |-> root, limit |-> opts.depth,
              attempt |-> 0, at |-> root, left |-> opts.depth, result |-> "none"]
  /\ iter' = [iter EXCEPT !.result = "none"]
  /\ before' = stored /\ fetched' = {}
  /\ UNCHANGED <<input, stored>>

Return(result) == sync' = [sync EXCEPT !.pc = "idle", !.result = result]

(* A failed attempt: give up, or go on at the first missing chunk. *)
Retry_endless ==
  LET next == NextMissing(sync.id)
  IN  IF next = End THEN Return("ok")
      ELSE sync' = [sync EXCEPT !.pc = "connect", !.attempt = @ + 1, !.id = next,
                                !.limit = @ - (next - sync.id)]
Retry_sameLimit ==
  LET next == NextMissing(sync.id)
  IN  IF sync.attempt = opts.retry THEN Return("exceeded")
      ELSE IF next = End THEN Return("ok")
      ELSE sync' = [sync EXCEPT !.pc = "connect", !.attempt = @ + 1, !.id = next]
Retry_uncounted ==
  LET next == NextMissing(sync.id)
  IN  IF next = End THEN Return("ok")
      ELSE sync' = [sync EXCEPT !.pc = "connect", !.id = next,
                                !.limit = @ - (next - sync.id)]
Retry ==
  LET next == NextMissing(sync.id)
  IN  IF sync.attempt = opts.retry THEN Return("exceeded")
      ELSE IF next = End THEN Return("ok")
      ELSE sync' = [sync EXCEPT !.pc = "connect", !.attempt = @ + 1, !.id = next,
                                !.limit = @ - (next - sync.id)]

Connect ==
  /\ sync.pc = "connect"
  /\ sync' = [sync EXCEPT !.pc = "walk", !.at = sync.id, !.left = sync.limit]
  /\ UNCHANGED <<input, stored, iter, before, fetched, calls>>

ConnectFails ==
  /\ sync.pc = "connect"
  /\ Retry
  /\ UNCHANGED <<input, stored, iter, before, fetched, calls>>

(* The walk has not come to the end, nor to its depth limit. *)
Walking ==
  /\ sync.pc = "walk"
  /\ sync.at \in Chain
  /\ ~(sync.limit > 0 /\ sync.left = 0)

ReadChunk ==
  /\ Walking
  /\ sync.at \in stored /\ ~Broken(sync.at)
  /\ sync' = [sync EXCEPT !.at = @ + 1, !.left = @ - 1]
  /\ UNCHANGED <<input, stored, iter, before, fetched, calls>>

DecodeFails ==
  /\ Walking
  /\ sync.at \in stored /\ Broken(sync.at)
  /\ Retry
  /\ UNCHANGED <<input, stored, iter, before, fetched, calls>>

FetchChunk ==
  /\ Walking
  /\ Missing(sync.at)
  /\ stored' = stored \cup {sync.at}
  /\ fetched' = fetched \cup {sync.at}
  /\ UNCHANGED <<input, sync, iter, before, calls>>

FetchFails ==
  /\ Walking
  /\ Missing(sync.at)
  /\ Retry
  /\ UNCHANGED <<input, stored, iter, before, fetched, calls>>

(* The publisher has no such content: ErrContentNotFound, with no retry. *)
ContentNotFound ==
  /\ Walking
  /\ Missing(sync.at)
  /\ Return("content not found")
  /\ UNCHANGED <<input, stored, iter, before, fetched, calls>>

Synced ==
  /\ sync.pc = "walk"
  /\ ~Walking
  /\ Return("ok")
  /\ UNCHANGED <<input, stored, iter, before, fetched, calls>>

-----------------------------------------------------------------------------
(* Drain of a new iterator, chunk by chunk. *)
Drain(root) ==
  /\ Idle /\ calls < MaxCalls
  /\ calls' = calls + 1
  /\ iter' = [pc |-> "next", root |-> root, next |-> root, chunkCount |-> 0,
              mhs |-> {}, result |-> "none"]
  /\ sync' = [sync EXCEPT !.result = "none"]
  /\ before' = stored /\ fetched' = {}
  /\ UNCHANGED <<input, stored>>

DrainEnds(result) == iter' = [iter EXCEPT !.pc = "idle", !.result = result]

(* Next: the next chunk, which getEntriesChunk may delete, and all of its     *)
(* multihashes, or io.EOF if it has none.                                     *)
NextChunk_deletesTail ==
  /\ iter.pc = "next"
  /\ iter.next \in stored /\ ~Broken(iter.next)
  /\ iter' = [iter EXCEPT
       !.next = @ + 1, !.chunkCount = @ + 1,
       !.mhs = @ \cup ({iter.next} \X (1..chunks[iter.next])),
       !.pc = IF chunks[iter.next] = 0 THEN "idle" ELSE "next",
       !.result = IF chunks[iter.next] = 0 THEN "eof" ELSE "none"]
  /\ stored' = IF opts.del THEN stored \ {iter.next, iter.next + 1} ELSE stored
  /\ UNCHANGED <<input, sync, before, fetched, calls>>
NextChunk_keepsLast ==
  /\ iter.pc = "next"
  /\ iter.next \in stored /\ ~Broken(iter.next)
  /\ iter' = [iter EXCEPT
       !.next = @ + 1, !.chunkCount = @ + 1,
       !.mhs = @ \cup ({iter.next} \X (1..chunks[iter.next])),
       !.pc = IF chunks[iter.next] = 0 THEN "idle" ELSE "next",
       !.result = IF chunks[iter.next] = 0 THEN "eof" ELSE "none"]
  /\ stored' = IF opts.del /\ iter.next # Len(chunks)
             THEN stored \ {iter.next} ELSE stored
  /\ UNCHANGED <<input, sync, before, fetched, calls>>
NextChunk ==
  /\ iter.pc = "next"
  /\ iter.next \in stored /\ ~Broken(iter.next)
  /\ iter' = [iter EXCEPT
       !.next = @ + 1, !.chunkCount = @ + 1,
       !.mhs = @ \cup ({iter.next} \X (1..chunks[iter.next])),
       !.pc = IF chunks[iter.next] = 0 THEN "idle" ELSE "next",
       !.result = IF chunks[iter.next] = 0 THEN "eof" ELSE "none"]
  /\ stored' = IF opts.del THEN stored \ {iter.next} ELSE stored
  /\ UNCHANGED <<input, sync, before, fetched, calls>>

NextEnd ==
  /\ iter.pc = "next"
  /\ iter.next = End
  /\ DrainEnds("eof")
  /\ UNCHANGED <<input, stored, sync, before, fetched, calls>>

NextFails ==
  /\ iter.pc = "next"
  /\ Missing(iter.next) \/ Broken(iter.next)
  /\ DrainEnds(IF Missing(iter.next) THEN "not found" ELSE "bad chunk")
  /\ UNCHANGED <<input, stored, sync, before, fetched, calls>>

-----------------------------------------------------------------------------
Step ==
  \/ Connect \/ ConnectFails
  \/ ReadChunk \/ DecodeFails \/ FetchChunk \/ FetchFails \/ ContentNotFound
  \/ Synced
  \/ NextChunk \/ NextEnd \/ NextFails

Next ==
  \/ \E root \in Chain : SyncEntriesWithRetry(root) \/ Drain(root)
  \/ Step

Spec == Init /\ [][Next]_vars

(* A call once made goes on: requests end, by an answer or by a timeout. *)
FairSpec == Spec /\ WF_vars(Step)

-----------------------------------------------------------------------------
TypeOK ==
  /\ stored \subseteq Chain
  /\ sync.pc \in {"idle", "connect", "walk"}
  /\ {sync.root, sync.id, iter.root} \subseteq Chain
  /\ sync.at \in 1..End /\ iter.next \in 1..End
  /\ sync.attempt \in 0..opts.retry
  /\ iter.pc \in {"idle", "next"} /\ iter.chunkCount \in 0..Len(chunks)
  /\ calls \in 0..MaxCalls

(* The chunks a call for root asks for. *)
Asked(root) ==
  {k \in Chain : k >= root /\ (opts.depth = 0 \/ k < root + opts.depth)}

(* "Synced everything asked for": whatever was stored before, and wherever    *)
(* attempts failed, a sync that succeeds has left no gap in what was asked,   *)
(* up to the first chunk that does not decode: findNextMissingChunkLink takes *)
(* that one for the end of the chain.                                         *)
SyncedAll ==
  sync.result = "ok" =>
    \A k \in Asked(sync.root) :
      (\A j \in sync.root..k : ~Broken(j)) => k \in stored

(* A retry goes on where the last attempt stopped with what is left of the    *)
(* limit: a sync that has to start at its root never fetches beyond the       *)
(* limit, however often it fails.                                             *)
LimitFromRoot ==
  sync.root \notin before => fetched \subseteq Asked(sync.root)

MhsOf(first, last) == UNION {{k} \X (1..chunks[k]) : k \in first..last}

(* Drain returns what the store holds, without a gap or a repetition, also    *)
(* when it deletes what it reads, and its error tells why it ends where it    *)
(* does: the next chunk was not stored, or does not decode.  Without an error *)
(* that is the end of the chain or, although Next promises io.EOF only if     *)
(* there are no more elements, a chunk without multihashes, whatever follows. *)
DrainExact ==
  /\ iter.mhs = MhsOf(iter.root, iter.next - 1)
  /\ iter.pc = "idle" /\ iter.result # "none" =>
       /\ iter.root..(iter.next - 1) \subseteq before
       /\ \/ iter.result = "not found" /\ iter.next \in Chain \ before
          \/ iter.result = "bad chunk" /\ iter.next \in before /\ Broken(iter.next)
          \/ iter.result = "eof" /\ iter.next = End
          \/ iter.result = "eof" /\ iter.next > iter.root /\ chunks[iter.next - 1] = 0

(* Every call returns, even if the publisher never answers. *)
Returns == []<>Idle
=============================================================================
