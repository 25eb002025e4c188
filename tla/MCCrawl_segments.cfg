\* ads crawl with a number of more than a segment.
SPECIFICATION Spec
CONSTANTS
  c1 = c1
  c2 = c2
  Kinds <- PlainAds
  MaxAds = 4
  Options <- LongCrawl
  BatchSize = 2
  SegmentSize = 3
  MaxFaults = 1
INVARIANT FaultFreeSucceeds
