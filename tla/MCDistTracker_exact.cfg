\* One provider, found after the start or not, a long chain, clean failures:
\* exact distances, and liveness.
SPECIFICATION FairSpec
CONSTANTS
  p1 = p1
  Providers = {p1}
  Include = {}
  Exclude = {}
  DepthLimit = 2
  MaxAds = 4
  MaxPartial = 0
  MaxFaults = 2
INVARIANTS TypeOK DistExact ShownMatchesTrack
PROPERTIES NeverMovesBack CancelStops Converges
