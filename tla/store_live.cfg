CONSTANTS
  Series = {s1}
  NoSeries = NoSeries
  Selected = {"FAST", "BALANCED"}
  Capacity = 2
  BalancedLimit = 2
  BufferLimit = 4
  MaxBatch = 2
  MaxPoints = 3
  MaxCrashes = 1
  MaxFaults = 1
  TornWrites = TRUE
SPECIFICATION FairSpec
INVARIANTS TypeOK DeletedStaysDeleted CopiesBounded TornTailAccepted WalBufferBounded
PROPERTIES CallsReturn
