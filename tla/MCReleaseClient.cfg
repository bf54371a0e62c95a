CONSTANTS
  t1 = t1
  t2 = t2
  Threads = {t1, t2}
  MaxRelease = 3
  Current = 1
  Ttl = 2
  MaxTime = 3
  Untagged = {2}
  Unlisted = {3}
  Free = Free
SPECIFICATION Spec
SYMMETRY ThreadSymmetry
INVARIANT TypeOK
INVARIANT SingleFlight
INVARIANT FreshAnswers
INVARIANT MonotoneAnswers
PROPERTY AttemptsSpaced
CHECK_DEADLOCK FALSE
