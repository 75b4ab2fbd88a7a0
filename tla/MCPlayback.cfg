\* One request, foreground or background, with every goroutine interleaved.
SPECIFICATION FairSpec
CONSTANTS
  MaxTicks <- mcMaxTicks
  FinishedCap <- mcFinishedCap
INVARIANTS
  RedirectOnlyBuffered
  TornDownOnlyAfterPlayback
  GivenUpIsDropped
PROPERTIES
  EveryRequestAnswered
  LoopEnds
\* The request ends: all its goroutines return.
CHECK_DEADLOCK FALSE
