CONSTANTS
  Actuators = {a1, a2}
  Rpcs = {r1, r2}
  Stop = r1
  NoRpc = NoRpc
  Kinds = {"command", "trajectory", "estop", "register", "deregister"}
  Timeout = 20
  Interval = 6
  Enabled = TRUE
SPECIFICATION SidecarSpec
INVARIANT DisarmsInTime
PROPERTY EStopCoversPool
PROPERTY CallsTimeOut
PROPERTY RpcsReturn
PROPERTY StaysArmed
PROPERTY Rearms
CHECK_DEADLOCK FALSE
