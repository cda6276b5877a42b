SPECIFICATION Spec
CONSTANTS
  alice = alice  bob = bob  general = general  random = random
  r1 = r1  r2 = r2  r3 = r3  r4 = r4
  Requests <- MCRequests
  UserOf <- MCUserOf
  ChannelOf <- MCChannelOf
  GlobalLimit = 2
  PerUserLimit = 2
  PerChannelLimit = 2
  Backends = {"local", "redis"}
  MaxFailures = 1
  None = None
  s1 = s1  s2 = s2  s3 = s3  global = global  u1 = u1  u2 = u2
  RsRequests = {s1, s2, s3}
  RsScopes = {global, u1, u2}
  RsGlobal = global
  RsScopesOf <- MCScopesOf
  RsLimit <- MCLimit
  LockTtl = 3
  k1 = k1  k2 = k2
  Conversations = {k1, k2}
  MaxEntries = 2
  SummarizeThreshold = 1
  KeepRecent = 1
  MinSummarized = 1
  MaxMessages = 3
  MaxDigests = 1
  MaxClears = 1
  MaxFaults = 1
  MaxRestarts = 1
  MaxExpiries = 1
  SbConversations = {k1, k2}
  SbMaxPings = 2
  SbMaxOutages = 2
  c1 = c1  c2 = c2  p1 = p1  p2 = p2  ha = ha  hb = hb  everyone = everyone
  BusProcs = {p1, p2}
  BusHandlers <- MCHandlers
  BusCalls = {c1, c2}
  BusTo <- MCTo
  Everyone = everyone
  BusHome <- MCHome
  MaxProcessed = 1
  RemoveCount = 1
  MaxRepeats = 1
  d1 = d1
  DiscAgents = {d1}
  FailureThreshold = 3
  SuccessThreshold = 2
  DiscCooldown = 1
  MaxChecks = 2
  MaxOutages = 2
INVARIANTS SlotsKept QuietHeals CopiesAgree NotRepeatedSoon
PROPERTIES WaitersResolved LeaseSpec Settles BridgeFollowsRedis ResponseHeard CloseEarned AgentReturns
\* A request, a call and a bridge come to an end: the system stops when they have.
CHECK_DEADLOCK FALSE
