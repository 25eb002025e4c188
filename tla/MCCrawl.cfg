\* All of a chain, or some of it, stopped or interrupted or failing anywhere.
SPECIFICATION FairSpec
CONSTANTS
  c1 = c1
  c2 = c2
  Kinds <- AdKinds
  MaxAds = 5
  Options <- SomeCrawls
  BatchSize = 2
  SegmentSize = 8
  MaxFaults = 1
INVARIANTS TypeOK CountsMatchChain StoreBounded
PROPERTIES ImplementsService Terminates
