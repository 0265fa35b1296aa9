CONSTANTS
  r1 = r1 r2 = r2 r3 = r3 r4 = r4 n1 = n1 m1 = m1
  Reqs = {r1, r2, r3}
  Names = {r1, r2, r3}
  NameOf <- OwnNames
  Nodes = {n1}
  Sizes = {1}
  Limit = 2
  Resize = TRUE
  Faults = TRUE
SPECIFICATION Spec
SYMMETRY Symmetry
INVARIANTS BackedRows DeleteOnce
PROPERTY NoResurrection
