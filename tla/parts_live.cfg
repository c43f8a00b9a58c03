SPECIFICATION FairMCSpec
CONSTANTS
  Parts = {"jobs", "resources", "ops", "proxy", "monitor", "kernel chat", "plain chat"}
  a = a
  b = b
  t1 = t1
  t2 = t2
  r1 = r1
  Nothing = Nothing
  NoMessage = NoMessage
  NoKey = NoKey
  MaxActions = 3
  MaxRuns = 2
  MaxChanges = 2
  MonitorCalls = 1
  MaxProbes = 2
  MaxWire = 2
  Keys = {a, b}
  Commits = {"good", "degrading", "failing", "rejected"}
  FirstCommit = "good"
  Fixture <- MCFixture
  Accounts = {a, b}
  Entitled = {a}
  FirstAccount = a
  Regions = {"us", "eu"}
  FirstRegion = "us"
  Items = {"x", "y"}
  Stock <- MCStock
  MaxQuantity = 2
  RouteTables <- MCRouteTables
  Routes <- MCRoutes
  PoolTables <- MCPoolTables
  Upstreams <- MCUpstreams
  Paths <- MCPaths
  Demo <- MCDemo
  Requests = {r1}
  MonitorJobs <- MCMonitorJobs
  MonitorSteps = 2
  MaxDrops = 1
  Turns = {t1, t2}
  PlanSize = 2
  Messages = {a, b}
  MaxMessages = 1
  Chunks = 3
  InterruptAt = 2
  Interrupted = {2}
  MaxPrompts = 3
  Clients = {a}
  Steps = 1
  MaxRetries = 1
INVARIANT
  RouteIsLongest
PROPERTIES
  EventsEnd RefetchEnds RolloutEnds HealthSettles RetryingEnds
  KernelKeepsPolicy PlainKeepsPolicy
CHECK_DEADLOCK FALSE
