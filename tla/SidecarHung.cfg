CONSTANTS
  Actuators = {a1, a2}
  Rpcs = {r1}
  NoRpc = NoRpc
  Kinds = {"estop"}
SPECIFICATION FairSpec
PROPERTY BroadcastReachesAll
CHECK_DEADLOCK FALSE
