SPECIFICATION Spec
CONSTANTS
  d1 = d1
  d2 = d2
  t1 = t1
  n1 = n1
  NoId = NoId
  Blank = Blank
  Null = Null
  Keep = Keep
  NoView = NoView
  Untitled = Untitled
  DocumentIds <- OneStream
  Streams <- OneStream
  Texts <- OneText
  Requests <- SomeRequests
  GraphTypes <- OneType
  MaxEvents = 3
  MaxRedeliveries = 0
  MaxRebuilds = 1
CHECK_DEADLOCK FALSE
INVARIANT
  RebuildRestoresSummaries
