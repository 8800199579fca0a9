SPECIFICATION KmsSpec
CONSTANTS
  NoKey = NoKey
  TornKey = TornKey
  Keys = {k1}
  Tasks = {t1, t2}
  MaxPrevious = 1
  MaxCalls = 3
  MaxCrashes = 1
  MaxFailures = 0
CHECK_DEADLOCK FALSE
INVARIANT
  DestroyedStaysDestroyed
