\* Calls about two chains, failing before or after some blocks are read.
SPECIFICATION Spec
CONSTANTS
  p1 = p1
  p2 = p2
  Publishers = {p1, p2}
  MaxAds = 4
  DepthLimit = 2
  MaxPartial = 2
  MaxFails = 2
INVARIANTS TypeOK WalkAgrees
PROPERTY ImplementsService
