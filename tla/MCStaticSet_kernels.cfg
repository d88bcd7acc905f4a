SPECIFICATION Spec
CONSTANTS
  k1 = k1
  k2 = k2
  k3 = k3
  k4 = k4
  p1 = p1
  i1 = i1
  i2 = i2
  Inserters = {i1, i2}
  Probers = {p1}
  Keys = {k1, k2, k3, k4}
  Empty = Empty
  Capacity = 3
  Hash <- Hashes
  Half = 4
  Word = 16
INVARIANTS
  NoDuplicates
  AbsentWasAbsent
  KeptOrCrowdedOut
SYMMETRY Interchangeable
