CONSTANTS
  Registry <- OneSeries
  Capacity = 1
  SegmentMaxBytes = 2
  BlockSizes = {1, 2}
  NamedIds = {1, 2, 3, 4, 5, 6, 7, 8}
  Times = {1, 2, 3}
  MaxPoints = 3
  Cutoffs = {3}
  Quotas = {3}
  MaxCrashes = 1
  MaxFaults = 1
  Failing <- AllSteps
SPECIFICATION Spec
INVARIANTS TypeOK OpenRepairs SegmentBound GoneNotReplayed
