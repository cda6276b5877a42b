SPECIFICATION Spec
CONSTANTS
  alice = alice  bob = bob  general = general
  NoChannel = NoChannel
  g1 = g1  g2 = g2  g3 = g3  g4 = g4  g5 = g5
  Users = {alice, bob}
  Channels = {general}
  SlotRequests = {g1, g2, g3, g4, g5}
  UserOf <- MCUserOf
  ChannelOf <- MCChannelOf
  GlobalLimit = 3
  PerUserLimit = 2
  PerChannelLimit = 2
  GovMaxQueueDepth = 2
  a1 = a1  a2 = a2  r1 = r1  r2 = r2  r3 = r3
  auth = auth  server = server  unknown = unknown
  Agents = {a1, a2}
  Requests = {r1, r2, r3}
  AgentOf <- MCAgentOf
  Categories = {auth, server, unknown}
  Weight <- MCWeight
  Immediate <- MCImmediate
  Threshold = 3
  Cooldown = 2
  StaleAfter = 0
  Never = Never
  t1 = t1  t2 = t2  t3 = t3  t4 = t4  t5 = t5
  Tasks <- MCTasks
  Limits <- MCLimits
  InitialLimit = 2
  MaxQueueDepth = 2
  m1 = m1  m2 = m2  m3 = m3  m4 = m4  dm = dm  k1 = k1  k2 = k2  kd = kd
  Messages <- MCMessages
  KeyOf <- MCKeyOf
  Direct <- MCDirect
  DebounceMs = 2
  MaxCoalesceMs = 3
  MaxTotalPending = 3
  BrRequests = {r1, r2}
  MaxBranches = 2
  MaxResults = 2
  NoAnswer = NoAnswer
  ai = ai  h1 = h1  h2 = h2
  AiMembers = {ai}
  People = {h1, h2}
  Configured = {h1}
  HumanWeight = 2
  MaxPending = 1
  CmtMaxProposals = 2
  CmtMaxJoins = 1
  v1 = v1  v2 = v2  w1 = w1  w2 = w2  x1 = x1  x2 = x2
  Servers = {v1, v2}
  Stdio = {v2}
  McpTools = {w1, w2}
  Offers <- MCOffers
  McpCalls = {x1, x2}
  ToolOf <- MCToolOf
  McpList = McpList
  MaxStrays = 1
INVARIANTS TypeOK NoAdmissibleWaiter CooldownKept SomebodyDrains AcceptedVotesCount AnswersRight
PROPERTIES FifoPerKey WaitersResolved PoolSpec TripsOnStreak NotTornApart AllDelivered AnsweredInTheEnd
\* Jobs, messages and requests are made a bounded number of times: a component
\* stops after them.
CHECK_DEADLOCK FALSE
