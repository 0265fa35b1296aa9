SPECIFICATION Spec
CONSTANTS
  Paths = {"p"}
  Granted = {"instance:read", "instance:update", "instance:files:read", "instance:files:write"}
  MaxCalls = 3
INVARIANT CreatedIsListed
CHECK_DEADLOCK FALSE
