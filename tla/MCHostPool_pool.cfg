SPECIFICATION FairSpec
CONSTANTS
  t1 = t1
  t2 = t2
  t3 = t3
  a1 = a1
  a2 = a2
  b1 = b1
  b2 = b2
  b3 = b3
  NoThread = NoThread
  NoArena = NoArena
  Threads = {t1, t2}
  Arenas = {a1, a2}
  Blocks = {b1, b2}
  Requests = {1, 3}
  RawRequests = {3}
  GrowBy = {}
  MemLimit = 5
  BlockSize = 2
  SizeMax = 31
INVARIANTS
  EveryByteCounted
  TrackerOutlivesCall
  PinnedCoveredAtRest
PROPERTIES
  CreditIsExact
  SurplusOnlyFromStaleTracker
  ImplementsLedger
  StarvesOnlyBehindOthers
