SPECIFICATION Spec
CONSTANTS
  f1 = f1
  f2 = f2
  k1 = k1
  k2 = k2
  k3 = k3
  c1 = c1
  c2 = c2
  Kernels = {f1, f2}
  Streams = {c1, c2}
  Default = c1
  Clear = Clear
  Keys = {k1, k2, k3}
  KeyRanges <- Ranges
  Extents = {0, 2, 9, 17}
  Hash <- Hashes
  Golden = 11
  Shift = 2
  NumHashes = 3
  MaxHashes = 2
  WordsPerBlock = 2
  BitsPerWord = 2
  WordBytes = 2
  BlockDim = 2
  IndexWord = 2
  Half = 4
  Word = 16
  SizeMax = 31
SYMMETRY Interchangeable
INVARIANTS
  NoFalseNegative
  KernelsStayInside
  FoundIsExplained
