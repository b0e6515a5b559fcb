CONSTANTS
  ByteBits = 3
  WordBytes = 5
  Corrupt = Corrupt
  Points <- MCPoints
  Garbage <- MCGarbage
  NaN = NaN
  NaNBits <- MCNaNBits
  Capacity = 3
  HeaderSize = 4
  MaxWindows = 12
  MaxPoints = 4
  MaxSegments = 2
  Damages = {"torn", "unlinked"}
  ReadRanges <- MCReadRanges
  Bounds <- MCBounds
  WindowSizes <- MCWindowSizes
SPECIFICATION Spec
INVARIANTS TypeOK LosslessBlocks DamagedStreamsRejected ReadOnceInOrder OkMeansEverything AggregateMatchesPoints WindowsMatchPoints StatsMatchPoints
