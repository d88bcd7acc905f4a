SPECIFICATION Parts
CONSTANTS
  A = A
  B = B
  Wrappers = {w1, w2, w3, w4}
  PoolSize = 2
  PrioritySupported = TRUE
  Users = {u1, u2, u3}
  MaxConcurrent = 2
  MaxStrays = 2
  Batches = {b1, b2, b3}
  Ports = {p1, p2}
  Partitions = {0, 1}
  NoRepository = NoRepository
  MaxArrivals = 4
  Machines <- AllMachines
  Boards = {A, B}
  MaxGpus = 3
  Renders = {128, 129}
  Cards = {0, 1}
  None = None
  Garbage = Garbage
  Setups <- AllSetups
INVARIANTS
  LentOnce
  BusyIsHeld
  GrowsOnDemandOnly
  CountIsSlots
  NeverLocksUp
  ServedInOrder
  NumaIsItsOwn
  LinksAreMutual
  GpuAndHostSpacesAreTheRequested
  LookupsAndRequestsAgree
  NoDanglingView
PROPERTY
  LossIsReported
