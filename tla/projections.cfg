SPECIFICATION ReadsSpec
CONSTANTS
  d1 = d1
  d2 = d2
  t1 = t1
  n1 = n1
  NoId = NoId
  Blank = Blank
  Null = Null
  Keep = Keep
  NoView = NoView
  Untitled = Untitled
  DocumentIds <- TwoStreams
  Streams <- TwoStreams
  Texts <- OneText
  Requests <- SomeRequests
  GraphTypes <- OneType
  MaxEvents = 4
  MaxRedeliveries = 1
  MaxRebuilds = 1
  x1 = x1
  x2 = x2
  cc1 = cc1
  cc2 = cc2
  CacheKeys <- TwoCacheKeys
  CacheCallers <- TwoCacheCallers
  CacheMaxSets = 2
  CacheMaxRemoves = 1
  CacheMaxFailures = 1
  sc1 = sc1
  sc2 = sc2
  NoSession = NoSession
  SessCallers <- TwoSessCallers
  SessTokens <- SmallAndLarge
  SessMaxMessages = 1
  SessMaxTokens = 3
  SessMaxAdds = 2
  SessMaxFailures = 1
  gc1 = gc1
  gc2 = gc2
  GateClients <- TwoClients
  GateUsers <- OneUser
  GateMax = 3
  GateWindow = 1
  GateLockout = 2
  GateExpiry = 1
  GateLeeway = 1
  GateMaxTime = 2
  GateMaxAttempts = 5
  GateMaxTokens = 1
  GateMaxRequests = 1
  pc1 = pc1
  PolNodes <- TestNodes
  PolCallers <- OneEvaluator
  PolRequests <- TwoReads
  PolLists <- ThreeLists
  PolCapacity = 1
  PolTTL = 1
  PolMaxBatch = 2
  PolMaxTime = 1
  PolMaxCalls = 2
  rc1 = rc1
  rc2 = rc2
  u1 = u1
  RbCallers <- TwoRbCallers
  RbUsers <- OneRbUser
  RbTemplates <- TwoRoles
  RbSystem <- OnlyViewer
  RbUntil <- SoonAndNever
  RbNever = 9
  RbTTL = 1
  RbMaxTime = 1
  RbMaxCalls = 5
  lc1 = lc1
  lc2 = lc2
  LtCallers <- TwoLtCallers
  LtEntries <- ThreeMemories
  LtReflected <- OneReflection
  LtCriteria <- EachCriterion
  LtMaxTime = 1
  LtMaxCalls = 4
  WmMaxEntries = 3
  WmMaxTokens = 5
  WmTexts = {2}
  ToolCallers <- TwoSessCallers
  ToolMaxGiven = 2
  ToolMaxCalls = 3
  PrmCallers <- TwoSessCallers
  PrmTop = 2
  PrmCapacity = 1
  PrmMaxCalls = 4
  en1 = en1
  en2 = en2
  en3 = en3
  ExtBlocks <- TwoBlocks
  ExtAnswers <- TwoAnswers
  ExtMatches <- SameEntity
  ExtDuplicates <- NearlyAlike
  ExtRetries = 2
  ExtConcurrency = 2
  ExtMaxFailures = 2
  ExtMaxRuns = 1
  DagNames = {1, 2, 3}
  DagMaxDeps = 2
  DagNotRegistered = DagNotRegistered
  ChkSizes = {30, 60, 120}
  ChkMaxSentences = 4
  ChkMax = 100
  ChkMin = 50
  ChkOverlap = 3
  ChkTexts <- ShortTexts
  ChkSeparators <- ThreeSeparators
  ChkTextMax = 3
  ChkTextMin = 1
  LdnGraphs <- SmallGraphs
  LdnMaxPasses = 100
  PiiPatterns <- ThreePatterns
  PiiLength = 4
  PiiFixed = 2
  PiiHits <- SomeHits
  RetDocs <- ThreeDocs
  RetK = 60
  RetWeights <- SomeWeights
  RetThresholds = {0, 70}
  RetTopK = 2
  RetReranked = 2
  RetFinal = 1
  RetScores = {30, 70, 90}
  RetLength <- ThreeLengths
  RetMaxContext = 6
  SymFiles <- ShortFiles
  SymMaxFiles = 2
  FlowGraphs <- CallGraphs
  FlowDepths = {0, 1, 3}
SYMMETRY ReadsSymmetry
CHECK_DEADLOCK FALSE
INVARIANTS
  ViewsFollowEvents
  CacheCoherent
  McpSound
  PolDecisionsCurrent
  RoleChecksCurrent
  GateSound
  MemoriesAgree
  
  RedactionExact
  
PROPERTY
  SummariesSurviveRebuild
