SPECIFICATION Spec
CONSTANTS
  t1 = t1
  t2 = t2
  t3 = t3
  a1 = a1
  a2 = a2
  b1 = b1
  b2 = b2
  b3 = b3
  NoThread = NoThread
  NoArena = NoArena
  Threads = {t1, t2}
  Arenas = {a1}
  Blocks = {b1}
  Requests = {1}
  RawRequests = {1}
  GrowBy = {2}
  MemLimit = 0
  BlockSize = 2
  SizeMax = 7
INVARIANTS
  TypeOK
  PeakCoversTotal
SYMMETRY Interchangeable
