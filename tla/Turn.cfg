\* One turn of two messages, a channel for one event, a stream that breaks once.
SPECIFICATION FairSpec
CONSTANTS
  Parts <- TwoAndOne
  ChanCap = 1
  MaxWire = 2
  MaxBreaks = 1
INVARIANTS
  
  SuccessIsComplete
  ErrorIsNotSuccess
PROPERTIES
  TurnEnds
CHECK_DEADLOCK FALSE
