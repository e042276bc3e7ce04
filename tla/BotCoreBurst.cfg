\* A burst on one thread with a restart in it: the queue's safety.
SPECIFICATION Spec
CONSTANTS
  m1 = m1
  m2 = m2
  m3 = m3
  n1 = n1
  t1 = t1
  t2 = t2
  p1 = p1
  NoMsg = NoMsg
  Messages <- BurstMessages
  Mentions <- BurstMentions
  Threads = {t1, t2}
  Platforms = {p1}
  ThreadOf <- BurstThreadOf
  PlatformOf <- BurstPlatformOf
  TailN = 2
  MaxStream = 1
  MaxCrashes = 1
SYMMETRY BurstSymmetry
INVARIANTS
  TypeOK
  SerialPerThread
  InflightCountsWorkers
  AtMostOneRun
  OneOwner
  NoMentionLost
  CoalescedNeverRun
  
PROPERTIES
  DrainIsFinal
  ImplementsService
CHECK_DEADLOCK FALSE
