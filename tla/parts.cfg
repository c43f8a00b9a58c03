\* Every part but the two chats, which parts_live.cfg runs.
SPECIFICATION MCSpec
CONSTANTS
  Parts = {"jobs", "resources", "ops", "shop", "proxy", "monitor", "retain", "memory"}
  a = a
  b = b
  t1 = t1
  t2 = t2
  r1 = r1
  Nothing = Nothing
  NoMessage = NoMessage
  NoKey = NoKey
  MaxActions = 4
  MaxRuns = 3
  MaxChanges = 3
  MonitorCalls = 2
  MaxProbes = 2
  MaxWire = 2
  Keys = {a, b}
  Commits = {"good", "degrading", "failing", "rejected"}
  FirstCommit = "good"
  Fixture <- MCFixture
  Accounts = {a, b}
  Entitled = {a}
  FirstAccount = a
  Regions = {"us", "eu"}
  FirstRegion = "us"
  Items = {"x", "y"}
  Stock <- MCStock
  MaxQuantity = 2
  RouteTables <- MCRouteTables
  Routes <- MCRoutes
  PoolTables <- MCPoolTables
  Upstreams <- MCUpstreams
  Paths <- MCPaths
  Demo <- MCDemo
  Requests = {r1}
  MonitorJobs <- MCMonitorJobs
  MonitorSteps = 2
  MaxDrops = 1
  Turns = {t1, t2}
  PlanSize = 2
  Messages = {a, b}
  MaxMessages = 1
  Chunks = 3
  InterruptAt = 2
  Interrupted = {2}
  MaxPrompts = 3
  Clients = {a, b}
  Steps = 1
  MaxRetries = 1
INVARIANTS
  StatesAreEarned LastEventIsCurrent FreshResult
  PromotesOnOwnVerdicts CheckoutIsForThisCart
  RotationIsFair NothingIsHeld
  Converged AtomicRetain ContextIsCurrent
CHECK_DEADLOCK FALSE
