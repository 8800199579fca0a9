SPECIFICATION Spec
CONSTANTS
  d1 = d1
  d2 = d2
  t1 = t1
  c1 = c1
  c2 = c2
  NoId = NoId
  Blank = Blank
  Null = Null
  Keep = Keep
  AnyVersion = AnyVersion
  DocumentIds <- TwoStreams
  Streams <- TwoStreams
  Texts <- OneText
  Clients <- TwoClients
  WithSnapshots = TRUE
  CreateIds <- AnyId
  MetadataInputs <- OneText
  MaxCommands = 3
CHECK_DEADLOCK FALSE
INVARIANT
  LoadEqualsReplay
