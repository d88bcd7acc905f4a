SPECIFICATION FairSpaceSpec
CONSTANTS
  t1 = t1
  t2 = t2
  t3 = t3
  s1 = s1
  s2 = s2
  h1 = h1
  h2 = h2
  h3 = h3
  Threads = {t1, t2, t3}
  Spaces = {s1}
  Handles = {h1, h2}
  NoSpace = NoSpace
  InitialLimit <- OneSpace
  NewLimits = {}
  Requests = {0, 2}
  UptoRequests = {}
INVARIANTS
  ReservedIsHeld
PROPERTIES
  EachSpaceIsALedger
  LoopsStarveOnlyBehindOthers
