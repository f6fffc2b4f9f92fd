CONSTANTS
  Tasks = {t1, t2}
  NoTask = none
  Kinds = {command, reading}
  MaxCalls = 3
  MaxConns = 3
SPECIFICATION Spec
INVARIANT CleanStart
CHECK_DEADLOCK FALSE
