CONSTANTS
  Lengths = {0, 1}
  Turns = {0, 1}
  MaxJoints = 2
SPECIFICATION Spec
INVARIANT MirrorsAgree
CHECK_DEADLOCK FALSE
