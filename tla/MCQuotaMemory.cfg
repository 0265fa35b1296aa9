CONSTANTS
  p1 = p1 p2 = p2 p3 = p3 s1 = s1 s2 = s2
  Callers = {p1, p2, p3}
  Servers = {s1}
  ServerOf <- OneServer
  NumMetrics = 3
  Specs <- MCSpecs
  Plans <- MCPlans
  Repo = "memory"
  Cancellation = TRUE
SPECIFICATION Spec
INVARIANTS Accounting GrantFits RefusalJustified
