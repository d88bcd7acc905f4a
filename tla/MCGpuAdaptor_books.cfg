SPECIFICATION Spec
CONSTANTS
  t1 = t1
  t2 = t2
  t3 = t3
  s1 = s1
  s2 = s2
  a1 = a1
  a2 = a2
  a3 = a3
  Nobody = Nobody
  NoStream = NoStream
  NoAddress = NoAddress
  Threads = {t1, t2}
  Streams = {s1, s2}
  Addresses = {a1, a2}
  Limit = 3
  Sizes = {2}
  Policies = {"throws", "retries"}
  Resettable = {s1}
INVARIANTS
  BooksAreExact
  SpillMapIsExact
  NothingLeaks
PROPERTIES
  PolicyOutlivesItsCall
SYMMETRY Interchangeable
