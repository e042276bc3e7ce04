\* The end of a drain that the deadline cuts off, against shutdown.dog.md.
SPECIFICATION SFairSpec
CONSTANTS
  m1 = m1
  m2 = m2
  t1 = t1
  p1 = p1
  NoMsg = NoMsg
  Messages <- MCMessages
  Mentions = {m1, m2}
  Threads = {t1}
  Platforms = {p1}
  ThreadOf <- MCThreadOf
  PlatformOf <- MCPlatformOf
  TailN = 1
  MaxStream = 0
  MaxCrashes = 0
  MaxSignals = 2
  MayCrashWeb = FALSE
PROPERTIES
  DeadlineEndsProcess
CHECK_DEADLOCK FALSE
