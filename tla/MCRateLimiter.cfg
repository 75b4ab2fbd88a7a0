\* trakt: a budget of nested retries smaller than the number of slots, and more calls than slots.
CONSTANTS
  g1 = g1
  g2 = g2
  g3 = g3
  nobody = nobody
  Calls <- MCCalls
  Nobody = nobody
  Limit = 2
  Interval = 2
  Parallel = 2
  RetryAfter <- MCRetryAfter
  Retries = 1
  Decrements = TRUE
SPECIFICATION FairSpec
INVARIANTS TypeOK WindowRespected NothingLeftBehind ClogNeedsRace
PROPERTIES EveryCallReturns
\* All calls may be over.
CHECK_DEADLOCK FALSE
