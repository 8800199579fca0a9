SPECIFICATION Spec
CONSTANTS
  NoHash = NoHash
  Newline = Newline
  Torn = Torn
  Loggers = {l1, l2}
  Details = {"one"}
  Window = 2
  MaxEntries = 3
  MaxTime = 1
  MaxAborts = 0
CHECK_DEADLOCK FALSE
INVARIANT
  HonestLogVerifies
