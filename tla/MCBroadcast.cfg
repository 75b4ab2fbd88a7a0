\* Two receivers of a broadcaster with one writer, which also closes it.
CONSTANTS
  w1 = w1
  r1 = r1
  r2 = r2
  v1 = v1
  v2 = v2
  none = none
  Writers <- MCWriters
  Receivers <- MCReceivers
  Values <- MCValues
  Empty = none
  Owner = w1
  MaxWrites = 3
SPECIFICATION FairSpec
INVARIANTS TypeOK MessageInOnePlace NoSendOnClosed
PROPERTIES ImplementsLog EveryValueArrives CloseEndsReaders
\* The writer need not write: the system may stop.
CHECK_DEADLOCK FALSE
