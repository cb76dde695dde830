SPECIFICATION Spec
CONSTANTS
  c1 = c1
  c2 = c2
  i1 = i1
  Conns <- OneConn
  Calls <- OneCall
  InjetorConn = c1
  Kinds <- TwoKinds
  MaxSends = 1
  MaxPuts = 0
  Retention = 2
CHECK_DEADLOCK FALSE
INVARIANT FramesIntact
