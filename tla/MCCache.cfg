\* A list of trakt and a menu, two callers and one background deletion.
SPECIFICATION FairSpec
CONSTANTS
  t1 = t1
  t2 = t2
  d1 = d1
  watched = watched
  menu = menu
  None = None
  Tasks = {t1, t2}
  Deleters = {d1}
  Keys = {watched}
  PlainKeys = {menu}
  MaxChanges = 1
INVARIANTS TypeOK DeletesOnlyExpired StaleOnlyByOverlap
PROPERTIES ReturnsUnlessSelfLocked
\* nobody need call; the process may die
CHECK_DEADLOCK FALSE
