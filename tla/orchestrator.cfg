SPECIFICATION TasksSpec
CONSTANTS
  a = a
  b = b
  c = c
  e1 = e1
  llm = llm
  tool = tool
  Unknown = Unknown
  Node <- Nodes3
  Executors <- OneExecutor
  AgentTypes <- BothAgents
  Definitions <- AllDefinitions
  MaxLoads = 2
  MaxExecutes = 2
  MaxPauses = 1
  InvMaxAttempts = 2
  InvMaxTools = 2
  ReactMaxIterations = 2
  ReactMaxRuns = 2
  ReactMaxClears = 1
  h1 = h1
  p1 = p1
  p2 = p2
  doc = doc
  search = search
  Publishers <- TwoPublishers
  Handlers <- OneHandler
  Types <- TwoTypes
  Accepts <- OnlyDocs
  Capacity = 2
  RetryMax = 1
  MaxPublishes = 3
  c1 = c1
  c2 = c2
  d1 = d1
  Conns <- TwoConns
  Docs <- OneDoc
  HubConnLimit = 2
  HubSubLimit = 1
  HubRoomKeeps = 1
  HubOutbound = 1
  HubMaxRequests = 2
  HubMaxSent = 2
CHECK_DEADLOCK FALSE
INVARIANTS
  DependenciesFirst
  OneRunPerLoad
  AnswersAreHonest
  StopsHold
  
  EveryEventAccounted
PROPERTY
  TasksEnd
