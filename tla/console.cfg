SPECIFICATION Spec
CONSTANTS
  Sessions = {s1, s2}
  MaxDrops = 1
  MaxCalls = 1
  Nothing = Nothing
  Pending = Pending
  MaxEntries = 4
  LogCap = 3
  LogLimit = 2
  LogAsked = LogAsked
  LogLanded = LogLanded
  Urls = {u1, u2}
  NoUrl = NoUrl
  c1 = c1
  EmvConfigs = {c1, c2}
  NoConfig = NoConfig
  EmvIdle = EmvIdle
  EmvAsked = EmvAsked
  MaxEmvSaves = 2
  Uploads = {a, b, c}
  x1 = x1
  x2 = x2
  n1 = n1
  n2 = n2
  Namespaces = {n1, n2}
  Paths = {x1, x2}
  Requests <- MCRequests
  Shipped <- MCShipped
  MaxCrashes = 2
SYMMETRY Symmetry
CHECK_DEADLOCK FALSE
INVARIANTS ConsoleTypeOK SessionsAreFollowed  ConnectionIsProbed RowIsAgents FilesAreWhole  
