CONSTANTS
  capacity = 3
  u = u
  v = v
  NoOne = NoOne
  Clients <- TwoClients
  User = u
  MaxTyped = 4
  MaxUnsent = 3
  NulTyped = {}
  NulPut = {}
  Workloads <- AllWorkloads
  StringLen = 2
  LineLen = 2
SPECIFICATION FairSpec
PROPERTIES
  PutIsPrinted
\* The machine is stopped when main returns.
CHECK_DEADLOCK FALSE
