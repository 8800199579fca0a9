SPECIFICATION RecordsSpec
CONSTANTS
  l1 = l1
  l2 = l2
  NoHash = NoHash
  Newline = Newline
  Torn = Torn
  Loggers <- TwoLoggers
  Details <- AnyDetails
  Window = 0
  MaxEntries = 3
  MaxTime = 1
  MaxAborts = 2
  c1 = c1
  c2 = c2
  d1 = d1
  d2 = d2
  Conns <- TwoConns
  Docs <- TwoDocs
  HubConnLimit = 2
  HubSubLimit = 1
  HubRoomKeeps = 1
  HubOutbound = 1
  HubMaxRequests = 3
  HubMaxSent = 2
  k1 = k1
  t1 = t1
  t2 = t2
  NoKey = NoKey
  TornKey = TornKey
  Keys <- OneKey
  Tasks <- TwoTasks
  MaxPrevious = 2
  MaxCalls = 6
  MaxCrashes = 2
  MaxFailures = 1
  r1 = r1
  r2 = r2
  s1 = s1
  s2 = s2
  rc = rc
  RotKeys <- TwoRotKeys
  RotWorkers <- TwoSchedulers
  RotCallers <- OneRotCaller
  RotInterval = 1
  RotMaxTime = 1
  RotMaxVersions = 3
  v1 = v1
  v2 = v2
  EnvTasks <- TwoEncryptors
  EnvCapacity = 2
  EnvTtl = 1
  EnvPiece = 2
  EnvSizes = {0, 3}
  EnvMaxDeks = 3
  EnvMaxTime = 1
  m1 = m1
  m2 = m2
  MdlTasks <- TwoDownloads
  MdlPieces = 2
  MdlEditions = {1, 2}
  MdlMaxFiles = 3
  MdlMaxCalls = 3
SYMMETRY RecordsSymmetry
CHECK_DEADLOCK FALSE
INVARIANTS
  
  ChainSound
  AcknowledgedStay
  HubDelivers
  LineagesAgree
  Durable
  KeysSound
  ModelFilesSound
