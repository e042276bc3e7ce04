\* Three runs for two slots: the cap, and that every run gets its turn.
SPECIFICATION FairSpec
CONSTANTS
  r1 = r1
  r2 = r2
  r3 = r3
  v1 = v1
  v2 = v2
  NoVendor = NoVendor
  Runs = {r1, r2, r3}
  Vendors = {v1}
  MaxConcurrent = 2
  BackoffSteps <- MCBackoffSteps
  MaxTime = 0
  MaxAdmin = 0
INVARIANTS
  SlotsMatchHolders
PROPERTIES
  RunEnds
CHECK_DEADLOCK FALSE
