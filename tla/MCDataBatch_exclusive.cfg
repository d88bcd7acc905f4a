SPECIFICATION Spec
CONSTANTS
  b1 = b1
  b2 = b2
  p1 = p1
  p2 = p2
  t1 = t1
  t2 = t2
  r1 = r1
  r2 = r2
  v1 = v1
  v2 = v2
  Batches = {b1, b2}
  Ports = {p1, p2}
  Partitions = {0}
  NoRepository = NoRepository
  MaxArrivals = 1
  Threads = {t1, t2}
  Reprs = {r1, r2}
  Kinds = {"gpu", "host"}
  Pairs <- Spilling
  Views = {v1, v2}
  Null = Null
SYMMETRY Interchangeable
INVARIANTS
  MutableIsExclusive
