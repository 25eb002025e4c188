\* Two providers, listed or not, shown while ads are published and ingested.
SPECIFICATION Spec
CONSTANTS
  p1 = p1
  p2 = p2
  Providers = {p1, p2}
  Infos <- Listings
  FirstAds = 2
  MaxAds = 3
  DepthLimit = 1
  Options <- Lines
  MaxFaults = 1
INVARIANTS TypeOK ShowsSelection DistanceExact HostsClosed
