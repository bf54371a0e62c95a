CONSTANTS
  l1 = l1
  l2 = l2
  d1 = d1
  d2 = d2
  a1 = a1
  Domains = {d1, d2}
  Addresses = {a1}
  OutboundTag <- Tags
  Lists = {l1, l2}
  UpstreamTexts = {"up"}
  LocalTexts = {"local"}
  g1 = g1
  g2 = g2
  GeoipVersions = {g1, g2}
  Policies <- SomePolicies
  Absent = Absent
  Missing = Missing
  Partial = Partial
  NoClone = NoClone
  MaxChanges = 2
  MaxRuns = 3
SPECIFICATION Spec
INVARIANT OnlyKnownLists
SYMMETRY Names
CHECK_DEADLOCK FALSE
