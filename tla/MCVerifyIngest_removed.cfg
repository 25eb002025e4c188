\* Ads that a newer ad has removed.
SPECIFICATION Spec
CONSTANTS
  c1 = c1
  c2 = c2
  Kinds <- AdKinds
  MaxAds = 2
  CarMhs = 3
  Depths = {1, 2}
  EntriesDepth = 2
  BatchSize = 2
  MaxFaults = 1
INVARIANT RemovedSkipped
