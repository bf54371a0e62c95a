CONSTANTS
  a = a
  b = b
  c = c
  org = org
  example = example
  attr = attr
  Old = Old
  Partial = Partial
  Lists = {a, b, c}
  Domains = {org, example}
  Attributes = {attr}
  Above <- MCAbove
  Snapshots <- MCSnapshots
  Requested <- MCRequested
SPECIFICATION KSpec
INVARIANT NothingWidened
CHECK_DEADLOCK FALSE
