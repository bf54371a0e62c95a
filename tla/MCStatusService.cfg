CONSTANTS
  t1 = t1
  t2 = t2
  Threads = {t1, t2}
  MaxRelease = 3
  Current = 1
  Ttl = 1
  MaxTime = 1
  Untagged = {}
  Unlisted = {}
  Free = Free
SPECIFICATION SSpec
INVARIANT STypeOK
INVARIANT NotesMatchAnnouncement
INVARIANT OnlyFreshUpdates
PROPERTY EveryRequestEnds
PROPERTY KeepsPromise
CHECK_DEADLOCK FALSE
