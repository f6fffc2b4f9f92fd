CONSTANTS
  Angles <- MCAngles
  Speeds <- MCSpeeds
  Torques <- MCTorques
  Segments <- MCSegments
  LimitRanges <- MCLimits
  TempLimits <- MCTempLimits
  Temps <- MCTemps
  NegInf <- MCNegInf
  Inf = 99
SPECIFICATION FairSpec
INVARIANT FaultBrakes
INVARIANT AbortHolds
INVARIANT SetpointMatchesMode
INVARIANT ExecutorInsideSegment
INVARIANT ReferencesInHull
PROPERTY FaultFreezesTrajectory
PROPERTY AbortTakesEffect
PROPERTY TrajectoryEnds
