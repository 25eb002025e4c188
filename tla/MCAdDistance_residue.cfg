\* A Get after one that failed in the middle.
SPECIFICATION Spec
CONSTANTS
  p1 = p1
  p2 = p2
  Publishers = {p1, p2}
  MaxAds = 4
  DepthLimit = 2
  MaxPartial = 2
  MaxFails = 2
INVARIANT GetCountsChain
