CONSTANTS
  Series = {s1, s2}
  NoSeries = NoSeries
  Selected = {}
  Capacity = 2
  BalancedLimit = 2
  BufferLimit = 4
  MaxBatch = 2
  MaxPoints = 2
  MaxCrashes = 1
  MaxFaults = 0
  TornWrites = FALSE
SPECIFICATION Spec
SYMMETRY Symmetry
PROPERTIES PromiseKept
