SPECIFICATION Spec
CONSTANTS
  Subjects = {"ConfigVersions", "Retrying", "TimeoutBudget", "EventBus", "AsyncHelpers", "SqlStore",
              "SharedCache", "ConfigLoader", "Lifetimes", "RequestPipeline", "Middleware"}
  Callers = {p, q}
  Configs = {c1, c2}
  Nothing = nothing
  MaxVersions = 1
  MaxNumber = 3
  MaxMishaps = 1
  Retriers = {x, y}
  MaxRetries = 2
  Delay = 1
  MaxDelay = 2
  Deadline = 2
  Threshold = 2
  ResetTimeout = 2
  MaxDeadlines = 3
  Timeouts = {3, 6}
  Buffer = 2
  HeaderBuffer = 1
  MaxTransit = 2
  MaxNow = 6
  Handlers = {h1, h2}
  MaxSubscriptions = 3
  MaxDepth = 2
  MaxEmits = 2
  Pause = 2
  Jobs = 4
  MaxInvoked = 4
  MaxClock = 5
  Calls = {t1, t2}
  Clients = {d1, d2}
  NoClient = noClient
  Getters = {1, 2}
  MaxValues = 2
  MaxQueued = 2
  Ttls = {0, 1, 3}
  MaxCacheTime = 3
  Loads = {1, 2}
  RemoteKeys = {"n"}
  Tasks = {n1}
  Values = {1, 2}
  Invalid = {2}
  MaxEdits = 2
  Starts = {1, 2, 3}
  Traced = {f}
  Meshed = {u}
  MaxSilence = 1
  Metrics = {a, b}
  Requests = {r1, r2, r3}
  Plugins = {a, b}
  Faults = {f, g}
  Types = {"latency", "error", "drop"}
  Times = {1}
  Places = 1
  QueueLength = 1
  MaxChanges = 4
  Arrivals = {1, 2}
  Chains <- MCChains
  Urls = {"u", "v"}
  Routes <- MCRoutes
  CacheTtl = 1
  MaxTicks = 2
INVARIANTS
  TypeOK
  StorageTold
  CachesAgree
  NobodyIsSkipped
PROPERTIES
  DeadlinesHold
  CallsInOrder
  ConfigurationFollowed
  RequestsSettled
CHECK_DEADLOCK FALSE
