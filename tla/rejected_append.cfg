CONSTANTS
  Series = {s1}
  NoSeries = NoSeries
  Selected = {}
  Capacity = 2
  BalancedLimit = 2
  BufferLimit = 4
  MaxBatch = 2
  MaxPoints = 2
  MaxCrashes = 1
  MaxFaults = 1
  TornWrites = FALSE
SPECIFICATION Spec
INVARIANTS RejectedStaysOut
