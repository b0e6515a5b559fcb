CONSTANTS
  Series = {s1}
  NoSeries = NoSeries
  Selected = {}
  Capacity = 2
  BalancedLimit = 2
  BufferLimit = 4
  MaxBatch = 2
  MaxPoints = 2
  MaxCrashes = 2
  MaxFaults = 0
  TornWrites = TRUE
SPECIFICATION Spec
INVARIANTS WholeRecordsReplayed
