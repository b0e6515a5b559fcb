CONSTANTS
  Registry <- MCRegistry
  Capacity = 1
  SegmentMaxBytes = 2
  BlockSizes = {1, 2}
  NamedIds = {1, 2, 3, 4, 5, 6, 7, 8}
  Times = {1, 2, 3}
  MaxPoints = 4
  Cutoffs = {3}
  Quotas = {3}
  MaxCrashes = 0
  MaxFaults = 0
  Failing <- AllSteps
SPECIFICATION Spec
INVARIANTS IndexMatchesDisk
PROPERTIES NewestFileKept BlocksInOrder EvictsOldest QuotaVerdict RetentionExact
