SPECIFICATION StoreSpec
CONSTANTS
  Uploads = {a, b}
  x1 = x1
  x2 = x2
  n1 = n1
  n2 = n2
  Namespaces = {n1, n2}
  Paths = {x1, x2}
  Requests <- MCRequests
  Shipped <- MCShipped
  MaxCrashes = 1
SYMMETRY Symmetry
CHECK_DEADLOCK FALSE
INVARIANTS FilesAreWhole
