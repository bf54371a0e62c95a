CONSTANTS
  r1 = r1
  r2 = r2
  r3 = r3
  good = good
  better = better
  bad = bad
  Requests = {r1, r2, r3}
  Earlier = {r2, r3}
  Images = {good, better, bad}
  Sound = {good, better}
  FirstImage = good
  NoImage = NoImage
  Free = Free
SPECIFICATION DSpec
INVARIANT DTypeOK
INVARIANT OneAtATime
INVARIANT RollbackTagHeld
INVARIANT NoBadImageLeft
INVARIANT AcceptedIsScheduled
PROPERTY RestoredIsOld
PROPERTY LockGivenBack
PROPERTY Transactional
PROPERTY AcceptedEnds
CHECK_DEADLOCK FALSE
