CONSTANTS
  MaxRequests = 4
  MaxInFlight = 2
  MaxPoses = 2
SPECIFICATION Spec
PROPERTY CaptureAppends
CHECK_DEADLOCK FALSE
