\* Fetches and lists in any order, while ads are published.
SPECIFICATION Spec
CONSTANTS
  MaxAds = 4
  Options <- Clients
  Numbers <- SomeNumbers
  SegmentSize = 3
  MaxCalls = 3
CHECK_DEADLOCK FALSE
INVARIANTS TypeOK GetsAsked ListExact FaultFreeSucceeds
