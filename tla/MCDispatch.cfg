SPECIFICATION FairSpec
CONSTANTS
  Nodes = {n1, n2}
  Calls = {c1, c2}
  Unbounded = {c1}
INVARIANTS OwnAnswer PendingIsExact AtMostOnce
PROPERTIES AnswersWakeCallers CallsReturn
