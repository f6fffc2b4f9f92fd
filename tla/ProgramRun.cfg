CONSTANTS
  Runs = {r1, r2}
  Commands <- Program
  MaxCrashes = 1
SPECIFICATION FairSpec
INVARIANT StopsWithinStep
INVARIANT NothingAhead
INVARIANT RunningIsExecuted
PROPERTY ImplementsRegister
PROPERTY RunsEnd
PROPERTY StopEndsTask
CHECK_DEADLOCK FALSE
