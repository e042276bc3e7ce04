\* Three turns share one vendor's server, which may die, until the process ends.
SPECIFICATION FairSpec
CONSTANTS
  t1 = t1
  t2 = t2
  t3 = t3
  v1 = v1
  v2 = v2
  NoTurn = NoTurn
  Turns = {t1, t2, t3}
  Vendors = {v1}
  MaxChildren = 2
  MaxSaves = 1
INVARIANTS
  OneServerPerVendor
  ClosedLeavesNoChild
PROPERTIES
  AcquireEnds
CHECK_DEADLOCK FALSE
