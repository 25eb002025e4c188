\* The entries of one ad after another, by ads get and by ads crawl.
SPECIFICATION FairCommandSpec
CONSTANTS
  ChunkSizes <- Sizes
  MaxChunks = 3
  Options <- GetAndCrawl
  MaxCalls = 6
  MaxAds = 3
INVARIANTS CommandTypeOK NoteMeansMore ListsUpToLimit LeftoversExplained
  OkMeansAllTried
PROPERTY Ends
