SPECIFICATION FairSpec
CONSTANTS
  Nodes = {n1}
  Handlers = {h1}
  Admins = {a1}
  StaleLimit = 1
  UnhealthyLimit = 2
  Postgres = TRUE

PROPERTIES SilentNodesAreFlagged FreshNodesRecover
