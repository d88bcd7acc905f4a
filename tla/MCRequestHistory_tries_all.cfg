SPECIFICATION HistorySpec
CONSTANTS
  t1 = t1
  t2 = t2
  t3 = t3
  s1 = s1
  s2 = s2
  h1 = h1
  h2 = h2
  Threads = {t1, t2}
  Spaces = {s1, s2}
  Handles = {h1, h2}
  NoSpace = NoSpace
  InitialLimit <- Single
  NewLimits = {}
  Requests = {1}
  UptoRequests = {}
  Order <- FirstThenSecond
  Strategies <- AnySpace
  CountMax = 7
INVARIANTS
  NullMeansAllWereFull
SYMMETRY Interchangeable
CHECK_DEADLOCK FALSE
