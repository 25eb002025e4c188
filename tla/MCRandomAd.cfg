\* A random choice among the newest ads.
SPECIFICATION Spec
CONSTANTS
  c1 = c1
  c2 = c2
  Kinds <- AdKinds
  MaxAds = 4
  AdCount = 3
  MhsCount = 2
  MaxFaults = 2
INVARIANTS ChosenIsSuitable GivesUpRightly
