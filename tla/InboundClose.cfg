\* A Discord connection is stopped.
SPECIFICATION Spec
CONSTANTS
  Kinds = {"discord"}
  NMessages = 1
  Echoes = {}
  Capacity = 1
  MaxGateway = 1
  MaxLogins = 2
INVARIANTS
  NoPanic
CHECK_DEADLOCK FALSE
