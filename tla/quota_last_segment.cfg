CONSTANTS
  Registry <- OneSeries
  Capacity = 1
  SegmentMaxBytes = 2
  BlockSizes = {2}
  NamedIds = {1, 2, 3, 4, 5, 6, 7, 8}
  Times = {1, 2, 3, 4}
  MaxPoints = 4
  Cutoffs = {3}
  Quotas = {1}
  MaxCrashes = 0
  MaxFaults = 1
  Failing = {"flush"}
SPECIFICATION Spec
PROPERTIES LastSegmentKept
