CONSTANTS
  Clients = {c1, c2}
  Hottest = 1
  Durations = {0, 1}
  Angles = {}
  Speeds = {}
  Torques = {}
  Segments <- MCSegments
  LimitRanges = {}
  TempLimits = {0}
  NegInf <- MCNegInf
  Inf = 99
SPECIFICATION Spec
SYMMETRY Symmetry
INVARIANT PlantSeesBrake
INVARIANT TorqueHasTicks
INVARIANT PauseFollowsLastOp
PROPERTY ImplementsCore
