SPECIFICATION Spec
CONSTANTS
  Nodes = {n1}
  Handlers = {h1, h2}
  Admins = {a1}
  StaleLimit = 0
  UnhealthyLimit = 0
  Postgres = FALSE
SYMMETRY Symmetry
INVARIANTS TypeOK MapHoldsOpenStream
PROPERTY RevocationSticks
