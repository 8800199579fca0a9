SPECIFICATION FairSpec
CONSTANTS
  root = root
  child = child
  leaf = leaf
  sibling = sibling
  w1 = w1
  w2 = w2
  k1 = k1
  k2 = k2
  NoToken = NoToken
  Tokens <- Tree
  Parent <- TreeUp
  Chain <- TreeChain
  Waiters <- OneWaiter
  TokenOf <- OnRoot
  Cancellers <- OneThread
CHECK_DEADLOCK FALSE
PROPERTY
  CancelWakesAll
