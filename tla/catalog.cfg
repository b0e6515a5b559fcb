CONSTANTS
  Names = {s1, s2}
  Hidden = {s2}
  NoName = NoName
  MaxBirths = 3
  MaxAppends = 2
  MaxCrashes = 1
  MaxFaults = 1
SPECIFICATION Spec
INVARIANTS TypeOK HandleReachesItsSeries OneHandlePerSeries PointsStayHome CleanVerifies ManifestCurrent VerifiedRecovers
