SPECIFICATION Spec
CONSTANTS
  Nodes = {n1}
  Handlers = {h1, h2}
  Admins = {}
  StaleLimit = 1
  UnhealthyLimit = 2
  Postgres = FALSE

PROPERTY RemovesOwnConnection
