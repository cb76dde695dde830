SPECIFICATION Spec
CONSTANTS
  i1 = i1
  i2 = i2
  p1 = p1
  p2 = p2
  NoAttempt = NoAttempt
  NoPort = NoPort
  Ids = {i1}
  Ports = {p1, p2}
  Configs <- ConfigsOneId
  Attempts = {a1, a2}
  Stops = {s1, s2}
  Conns = {c1}
SYMMETRY Symmetry
CHECK_DEADLOCK FALSE
INVARIANTS TypeOK TableEntryLive TeardownOrdered
