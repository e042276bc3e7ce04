\* Two concurrent runs and the operator on the same two vendors, against VendorService.
SPECIFICATION Spec
CONSTANTS
  r1 = r1
  r2 = r2
  r3 = r3
  v1 = v1
  v2 = v2
  NoVendor = NoVendor
  Runs = {r1, r2}
  Vendors = {v1, v2}
  MaxConcurrent = 2
  BackoffSteps <- MCBackoffSteps
  MaxTime = 1
  MaxAdmin = 1
SYMMETRY RunSymmetry
INVARIANTS
  OneVendorSpeaks
PROPERTIES
  
  ImplementsService
CHECK_DEADLOCK FALSE
