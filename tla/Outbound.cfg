\* Two turns post twice through either adapter.
SPECIFICATION FairSpec
CONSTANTS
  Chars = {"n", "s", "q", "x", "y"}
  Kinds = {"discord", "wechat"}
  Turns = 2
  Posts = 2
  Bodies <- MCBodies
  MaxChunk = 3
  Retries = 1
  MaxLost = 1
INVARIANTS
  DeliveredInOrder
  
  
PROPERTIES
  CallsEnd
CHECK_DEADLOCK FALSE
