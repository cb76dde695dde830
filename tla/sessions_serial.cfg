SPECIFICATION SerialSpec
CONSTANTS
  i1 = i1
  i2 = i2
  p1 = p1
  p2 = p2
  NoAttempt = NoAttempt
  NoPort = NoPort
  Ids = {i1, i2}
  Ports = {p1, p2}
  Configs <- ConfigsTwoIds
  Attempts = {a1, a2, a3}
  Stops = {s1, s2}
  Conns = {}
SYMMETRY Symmetry
CHECK_DEADLOCK FALSE
INVARIANTS RunningIsReachable IdleIdHoldsNothing 
PROPERTY StatusForward ImplementsSlots
