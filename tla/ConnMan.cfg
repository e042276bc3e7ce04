\* Three requests side by side on one connection that may end by itself.
SPECIFICATION FairSpec
CONSTANTS
  q1 = q1
  q2 = q2
  q3 = q3
  q4 = q4
  c1 = c1
  Nobody = Nobody
  Conns = {c1}
  Requests = {q1, q2, q3}
  MayEnd = {c1}
INVARIANTS
  NoOrphan
  NoStaleRegistration
PROPERTIES
  RequestsEnd
CHECK_DEADLOCK FALSE
