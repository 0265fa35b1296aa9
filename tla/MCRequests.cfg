SPECIFICATION RequestsSpec
CONSTANTS
  Recorders = {1, 2, 3}
  Clock <- MCClock
  Micro = 2
  Targets = {"d1"}
  SiemBuffer = 1
  Notices = {"e1", "e2"}
  OwnerOf <- MCOwnerOf
  Readers = {"u1", "u2"}
  ApiKeys = {"k1", "k2"}
  KeyUser <- MCKeyUser
  RolesOf <- MCRolesOf
  PermsOf <- MCPermsOf
  Wanted = {"read", "write"}
  ScopeSets = {{}, {"read"}}
  KeyRequests = {1, 2}
  Users = {"u1", "u2"}
  Servers = {"s1"}
  Calls = {"c1", "c2"}
  Secrets = {"x"}
  MaxSessions = 1
  OneUser = {"u1"}
  MaxRotated = 3
  Limit = 2
  LimitWindow = 3
  MaxTime = 7
  MaxCalls = 9
  Callers = {"p1", "p2", "p3"}
  QuotaServers = {"s1", "s2"}
  ServerOf <- MCServerOf
  NumMetrics = 2
  Specs <- MCSpecs
  QuotaPlans <- MCQuotaPlans
  Repo = "postgres"
  Cancellation = FALSE
  ListRows = 3
  PageSizes = {0, 1}
  DefaultSize = 2
  ListClock = 2
  Names = {"mem_audit", "sql_jobs", "mem_jobs", "sql_backups", "sql_invoices"}
  BackupIds = {"b1"}
  Checkers = {"c1"}
  Deleters = {"d1"}
  Keys = {1, 2, 3}
  MaxPlans = 1
  MaxFaults = 1
  MemBackupIds = {"b1", "b2"}
  MemCheckers = {}
  MemDeleters = {"d1", "d2"}
  HostBits = 3
  Gateway = 1
  Allocators = {"a1", "a2"}
  Firewalls = {"f1", "f2"}
  Configurers = {"k1", "k2"}
  MaxRows = 5
  MaxPower = 1
  Vols = {"v1", "v2"}
  NameOf <- MCNameOf
  Guests = {"i1", "i2"}
  Sizes = {1, 2}
  SnapNames = {"s"}
  Clients = {"c1", "c2"}
  MaxStorageCalls = 3
  MemClients = {"c1"}
  MemStorageCalls = 5
  Capacity = 2
  Times = {1, 2}
  Values = {1, 2}
  MaxBatches = 3
  Thresholds <- MCThresholds
  Hosts = {"h1", "h2"}
  Tokens = {"k1"}
  TokenOf <- MCTokenOf
  MaxKeys = 2
  MaxBoots = 2
INVARIANTS
  TrailIsSound AccountsConsistent WithinLimits ViewsComplete RecoveryPossible StoresAgree
  EnrolledIsAccepted
PROPERTIES
  DeletedStaysDeleted
CHECK_DEADLOCK FALSE
