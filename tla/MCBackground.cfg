SPECIFICATION BackgroundSpec
CONSTANTS
  Events = {"e1", "e2"}
  TypeOf <- MCTypeOf
  TenantOf <- MCTenantOf
  Handlers = {"h"}
  PatternOf <- MCPatternOf
  Workers = {"w1"}
  Buffer = 1
  StreamCap = 1
  User = "alice"
  Admin = TRUE
  HookEvents = {"e1"}
  Slots = {"g1", "g2"}
  HookReqs = {"r1"}
  MaxSent = 1
  MaxAttempts = 2
  MaxCrashes = 1
  Inputs = 3
  Window = 1
  InboundCap = 1
  ResizeCap = 1
  Beats = 2
  Plans = {"p1", "p2"}
  Seeded = {"p1"}
  BillCalls = {"c1"}
  Meters = {"m1"}
  Generators = {"g1", "g2"}
  Quantity = 2
  Included = 1
  Overage = 3
  Period <- MCPeriod
  MaxSubs = 2
  MaxTries = 1
  Migs = {"m1", "m2"}
  Insts = {"i1"}
  SizeOf <- MCSizeOf
  NodeFacts <- MCNodeFacts
  Home <- MCHome
  Asked = {""}
  Drained = {"n1"}
  DefaultCap <- MCDefaultCap
  Unit = 2
  Tmpls = {"t1"}
  Slugs = {"s1"}
  Images = {"i1", "i2"}
  Sound = {"i1"}
  ImageNodes = {"n1"}
  Editors = {"e1"}
  Syncs = {"g1"}
  Migrators = {"a", "b", "c"}
  FilesOf <- MCFilesOf
  Broken = {4}
  LockMayDrop = TRUE
  MaxRestarts = 1
INVARIANTS
  DeliveredOnce BilledExactly VerifiedIsComplete
PROPERTIES
   AcceptedIsCarriedOut OperationsEnd SyncSettles
CHECK_DEADLOCK FALSE
