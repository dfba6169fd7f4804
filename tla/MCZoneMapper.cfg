SPECIFICATION MapperSpec
CONSTANTS
  t1 = t1
  t2 = t2
  t3 = t3
  Threads = {t1, t2, t3}
  MaxSaves = 4
CHECK_DEADLOCK FALSE
INVARIANT CachedIsCurrent
PROPERTY GeometryForward
PROPERTY ReloadSettles
