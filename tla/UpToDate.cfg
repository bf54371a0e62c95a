CONSTANTS
  t1 = t1
  t2 = t2
  Threads = {t1, t2}
  MaxRelease = 2
  Current = 0
  Ttl = 1
  MaxTime = 1
  Untagged = {}
  Unlisted = {}
  Free = Free
SPECIFICATION SSpec
INVARIANT UpToDateMeansCurrent
CHECK_DEADLOCK FALSE
