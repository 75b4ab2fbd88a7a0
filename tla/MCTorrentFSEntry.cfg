SPECIFICATION FairSpec
CONSTANTS
  r1 = r1
  r2 = r2
  Readers <- mcReaders
  NoSetter = none
INVARIANTS SetWakes DiesOnlyInDrop
PROPERTY DropWakes
\* a torrent that is gone, its requests over
CHECK_DEADLOCK FALSE
