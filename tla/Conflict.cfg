CONSTANTS
  r1 = r1
  r2 = r2
  r3 = r3
  good = good
  better = better
  bad = bad
  Requests = {r1, r2, r3}
  Images = {good, better, bad}
  Sound = {good, better}
  FirstImage = good
  NoImage = NoImage
  Free = Free
SPECIFICATION Spec
PROPERTY ConflictMeansRunning
CHECK_DEADLOCK FALSE
