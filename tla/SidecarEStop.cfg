CONSTANTS
  Actuators = {a1, a2}
  Rpcs = {r1, r2}
  NoRpc = NoRpc
  Kinds = {"command", "estop"}
SPECIFICATION Spec
PROPERTY EStopHolds
CHECK_DEADLOCK FALSE
