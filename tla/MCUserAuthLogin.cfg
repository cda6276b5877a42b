SPECIFICATION Spec
CONSTANTS
  a1 = a1  r1 = r1  r2 = r2
  Requests = {r1, r2}
  t1 = t1  t2 = t2  t3 = t3
  m1 = m1  m2 = m2  m3 = m3
  u1 = u1
  Users = {u1}
  MaxPerMinute = 2
  Minute = 3
  MaxLog = 8
  x = x  y = y
  MbMessages = {m1, m2, m3}
  MbTo <- MCTo
  MbMaxPerAgent = 1
  MbMaxQueue = 2
  MbMaxRetry = 1
  MbMaxPersists = 1
  MbMaxLives = 2
  MbMaxWriting = 1
  NotPending = NotPending
  A2ATaskIds = {t1, t2, t3}
  MaxTasks = 2
  EvictCount = 1
  s1 = s1  s2 = s2
  CmSessions = {s1, s2}
  MaxConcurrent = 1
  MaxQueue = 2
  CmMaxJobs = 4
  LmRuns = {r1, r2}
  MaxIterations = 2
  MaxRetries = 1
  TriggerAfter = 2
  LmCooldown = 1
  OpenFor = 1
  LmHorizon = 2
  i1 = i1  i2 = i2  topic1 = topic1  topic2 = topic2  c1 = c1  p1 = p1  p2 = p2
  InIds = {i1, i2}
  InOrder <- MCOrder
  TopicOf <- MCTopicOf
  ChannelOfInsight <- MCChannelOf
  Confident = {i1}
  MaxInsights = 2
  InsightTtl = 1
  MaxDaily = 1
  InCooldown = 1
  DayLength = 2
  InCalls = {p1, p2}
  InHorizon = 2
  g1 = g1  g2 = g2
  ChangeIds = {g1, g2}
  CcChannels = {c1}
  ObserveAll = FALSE
  BatchSize = 2
  DismissThreshold = 2
  ChangeExpiry = 0
  NoChange = NoChange
  j1 = j1  j2 = j2  j3 = j3  j4 = j4  o1 = o1
  UaJobs = {j1, j2, j3, j4}
  UaKind <- MCKind
  OAuthStates = {o1}
  StateTtl = 1
  NoRow = NoRow
  n1 = n1  n2 = n2  n3 = n3  n4 = n4  ad = ad
  ObMessages = {n1, n2, n3, n4}
  SenderOf <- MCSenderOf
  Keyword <- MCKeyword
  Admins = {ad}
  Named = {n2}
  MaxDepts = 2
  MaxDialogues = 2
  NoQuestion = NoQuestion
  l1 = l1  l2 = l2
  SkIds = {l1, l2}
  Catalog = {l1, l2}
  SkAgents = {a1}
  PreInstall = {l1}
  AgentSkills <- MCAgentSkills
  MaxVersions = 2
  MaxStarts = 2
  ShRequests = {r1, r2}
  Signals = {s1, s2}
  Grace = 2
  SerializeTimeout = 1
  ShHorizon = 3
  q1 = q1  q2 = q2  q3 = q3  e1 = e1  e2 = e2
  Asks = {q1, q2, q3}
  AskKey <- MCAskKey
  MaxAsks = 2
  CacheMax = 1
  CacheTtl = 1
  AskHorizon = 2
  k1 = k1  k2 = k2  k3 = k3  k4 = k4  k5 = k5
  d1 = d1  f1 = f1  f2 = f2  f3 = f3  f4 = f4  team = team  fact = fact  taste = taste
  KnJobs = {k1, k2, k3, k4, k5}
  KnKind <- MCKnKind
  KnContents <- MCKnContents
  KnUserOf <- MCKnUserOf
  KnChannelOf <- MCKnChannelOf
  KnPoolOf <- MCKnPoolOf
  Writable <- MCWritable
  KnType <- MCKnType
  KnTypes <- MCKnTypes
  Decided = {d1}
  KnReaders = {r1}
  KnViews <- MCKnViews
  ChannelLimit = 1
  UserLimit = 1
  TotalLimit = 1
  Nowhere = Nowhere
  hello = hello  bye = bye
  TextOf <- MCTexts
  Versions = {"V1"}
  MaxSlots = 2
  Faulty = {"reply", "context", "agent"}
  MaxFaults = 1
  MaxRestarts = 1
PROPERTY LoginKept
\* Jobs, messages and requests are made a bounded number of times: a component
\* stops after them.
CHECK_DEADLOCK FALSE
