SPECIFICATION FairSpec
CONSTANTS
  i1 = i1
  i2 = i2
  p1 = p1
  p2 = p2
  NoAttempt = NoAttempt
  NoPort = NoPort
  Ids = {i1}
  Ports = {p1, p2}
  Configs <- ConfigsReaders
  Attempts = {a1, a2}
  Stops = {s1}
  Conns = {c1}

CHECK_DEADLOCK FALSE
PROPERTY EndedWindDown
