\* A search with a progress dialog.
SPECIFICATION FairSearchSpec
CONSTANTS
  p1 = p1
  p2 = p2
  a = a
  b = b
  c = c
  Providers <- mcProviders
  Links <- mcLinks
  ProviderOf <- mcProviderOf
  HashOf <- mcHashOf
  Private <- mcPrivate
  Magnets <- mcMagnets
  Known <- mcKnown
  Quality <- mcQuality
  Seeds <- mcSeeds
  Timeout = 2
  Silent = FALSE
  NoDialog = FALSE
INVARIANTS
  NothingInTimeIsLost
  MergedIsBest
  NoReportAfterClose
PROPERTIES
  PostsReturn
  SearchEnds
\* The search ends.
CHECK_DEADLOCK FALSE
