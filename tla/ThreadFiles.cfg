\* Three messages, a save, a reset, a torn line and a crash.
SPECIFICATION Spec
CONSTANTS
  Messages = 3
  TailN = 1
  Saves = 1
  MaxResets = 1
  MaxTorn = 1
  MaxCrashes = 1
INVARIANTS
  SystemPartKept
  RecordsKept
  ContextComplete
PROPERTIES
  InstructionsKept
CHECK_DEADLOCK FALSE
