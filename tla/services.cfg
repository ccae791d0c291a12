SPECIFICATION ServicesSpec
CONSTANTS
  \* printer observation
  w1 = w1
  w2 = w2
  c1 = c1
  c2 = c2
  s1 = s1
  s2 = s2
  Observers = {w1, w2}
  Clients = {c1}
  NoObserver = NoObserver
  Reports = {s1, s2}
  NoSnapshot = NoSnapshot
  Lease = 1
  Interval = 1
  MaxBackoff = 2
  MaxFailures = 2
  Window = 2
  MaxQueries = 3
  \* approvals of operations
  i1 = i1
  i2 = i2
  Callers = {c1, c2}
  Identities = {i1, i2}
  p1 = p1
  p2 = p2
  p3 = p3
  Approvals = {p1, p2}
  NoApproval = NoApproval
  MaxHolds = 2
  Reasons = {1}
  \* admission of requests
  Preflights = {p1, p2, p3}
  Pipelined = {p2}
  Retries = {p3}
  q1 = q1
  Requests = {q1}
  NoRequest = NoRequest
  RequestOf <- RequestMap
  u1 = u1
  u2 = u2
  Uploads = {u1, u2}
  NoUpload = NoUpload
  NoPreflight = NoPreflight
  MaxCapability = 1
  \* event streams
  Followers = {c1, c2}
  PageLimit = 2
  StreamPermits = 1
  MaxEvents = 5
  \* rate limit
  PerMinute = 4
  Burst = 2
  Minute = 15
  SecondTicks = 2
  MaxTicks = 14
  MaxWait = 4
  \* MCP sessions
  Sessions = {s1}
  NoSession = NoSession
  t1 = t1
  Tokens = {t1}
  x1 = x1
  k1 = k1
  Exchanges = {x1, k1}
  r1 = r1
  r2 = r2
  Resources = {r1, r2}
  MaxSessions = 1
  MaxSubscriptions = 1
  PageSize = 1
  MaxHistory = 2
  MaxRestarts = 1
  \* color attempts and retention
  j1 = j1
  a1 = a1
  SourceJobs = {j1}
  Attempts = {a1}
  Dependents = {c1}
  NoAttempt = NoAttempt
  Total = 1
  MaxDay = 1
  MaxFaults = 1
  MaxHold = 1
  \* page selection
  MaxPages = 4
  MaxPosition = 5
  MaxRanges = 2
INVARIANTS
  ObservationIsTrue
  EffectIsApproved
  OneJobPerRequest
  AcceptedIsWhole
  EachEventOnce
  RateIsKept
  NothingIsSkipped
  PurgeIsSafe
  PagesAsAsked
PROPERTY ColorKeepsPromise
CHECK_DEADLOCK FALSE
