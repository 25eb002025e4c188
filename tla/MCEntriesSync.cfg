\* Syncs and drains in any order, each failing anywhere.
SPECIFICATION FairSpec
CONSTANTS
  ChunkSizes <- Sizes
  MaxChunks = 3
  Options <- Clients
  MaxCalls = 3
CHECK_DEADLOCK FALSE
INVARIANTS TypeOK SyncedAll LimitFromRoot DrainExact
PROPERTY Returns
