CONSTANTS
  o1 = o1
  e1 = e1
  e2 = e2
  NoKey = NoKey
  w1 = w1
  w2 = w2
  Keys <- MCKeys
  MaxHandlers = 2
  NumHandlers <- MCNumHandlers
  AbortKeys <- MCAbortKeys
  Workers <- MCWorkers
  Operators = {o1}
  MaxAttempts = 2
  BatchSize = 2
  BackoffBase = 1
  BackoffCap = 2
  PublishDelay = 0
  Lag = 0
  MaxInterventions = 2
  MaxCrashes = 1
SPECIFICATION FairSpec
INVARIANT DispatchedWasHandled
PROPERTIES MarkedWithWrites EventuallySettled
