SPECIFICATION FairSpec
CONSTANTS
  c1 = c1
  c2 = c2
  i1 = i1
  Conns <- OneConn
  Calls <- OneCall
  InjetorConn = c1
  Kinds <- LenientKinds
  MaxSends = 3
  MaxPuts = 1
  Retention = 2
CHECK_DEADLOCK FALSE
INVARIANT CountersExact
PROPERTY RequestsAnswered
