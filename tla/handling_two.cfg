SPECIFICATION Spec
CONSTANTS
  c1 = c1
  c2 = c2
  i1 = i1
  Conns <- TwoConns
  Calls <- NoCalls
  InjetorConn = c1
  Kinds <- TwoKinds
  MaxSends = 3
  MaxPuts = 1
  Retention = 2
SYMMETRY ConnSymmetry
CHECK_DEADLOCK FALSE
INVARIANTS TypeOK FramesIntact LogInOrder EmvFresh
