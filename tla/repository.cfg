SPECIFICATION Spec
CONSTANTS
  d1 = d1
  d2 = d2
  t1 = t1
  c1 = c1
  c2 = c2
  NoId = NoId
  Blank = Blank
  Null = Null
  Keep = Keep
  AnyVersion = AnyVersion
  DocumentIds <- OneStream
  Streams <- OneStream
  Texts <- OneText
  Clients <- TwoClients
  WithSnapshots = TRUE
  CreateIds <- OwnId
  MetadataInputs <- NullInputs
  MaxCommands = 3
CHECK_DEADLOCK FALSE
INVARIANTS
  CreatedOnce
  AuditTrailChains
  LoadEqualsReplay
  LifecycleRespected
  RepositoryInv
PROPERTIES
  ConflictIffOvertaken
  ImplementsStore
