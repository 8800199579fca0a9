SPECIFICATION CallsSpec
CONSTANTS
  root = root
  child = child
  leaf = leaf
  sibling = sibling
  w1 = w1
  w2 = w2
  k1 = k1
  k2 = k2
  NoToken = NoToken
  Tokens <- Tree
  Parent <- TreeUp
  Chain <- TreeChain
  Waiters <- TwoWaiters
  TokenOf <- OnTree
  Cancellers <- TwoThreads
  g1 = g1
  g2 = g2
  RecCallers <- TwoGuarded
  RecThreshold = 2
  RecReset = 1
  RecMaxAttempts = 2
  RecDelays <- SlowDelays
  RecMaxTime = 5
  RecMaxRequests = 6
  lc1 = lc1
  lc2 = lc2
  LlmCallers <- TwoLlmCallers
  LlmPermits = 1
  LlmProviderPermits = 1
  LlmAttempts = 2
  LlmMaxTokens = 2
  LlmMaxCalls = 2
  SseKinds <- AllLines
  SseMaxLines = 3
  RateCallers <- TwoLlmCallers
  RateKeys = {k1}
  RateConfigs <- TwoRates
  RateDefault <- SlowRate
  RateCosts = {1, 2}
  RateExpiry = 3
  RateMaxTime = 4
  RateMaxCalls = 4
  EmbCallers <- TwoLlmCallers
  EmbWorkers = 2
  EmbLists <- OneOrTwoTexts
  EmbTexts = {""}
  EmbCapacity = 1
  EmbBatch = 2
  EmbMaxTexts = 3
  EmbMaxFailures = 1
CHECK_DEADLOCK FALSE
INVARIANTS
  CancellationSafe
  
  LlmCallsSafe
  SseChunkingBlind
  
  EmbeddingsSound
PROPERTY
  CallsReturn
