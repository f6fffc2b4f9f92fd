CONSTANTS
  Tasks = {t1, t2}
  NoTask = none
  Kinds = {command, reading}
  MaxCalls = 3
  MaxConns = 3
SPECIFICATION FairSpec
INVARIANT AnswersOwnCall
INVARIANT OneInFlight
INVARIANT ExecutedAtMostTwice
INVARIANT NoAnswerTwice
PROPERTY CallsReturn
CHECK_DEADLOCK FALSE
