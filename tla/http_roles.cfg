SPECIFICATION GateSpec
CONSTANTS
  gc1 = gc1
  gc2 = gc2
  GateClients <- TwoClients
  GateUsers <- TwoUsers
  PolNodes <- DefaultNodes
  GateMax = 3
  GateWindow = 1
  GateLockout = 2
  GateExpiry = 1
  GateLeeway = 1
  GateMaxTime = 1
  GateMaxAttempts = 3
  GateMaxTokens = 3
  GateMaxRequests = 2
CHECK_DEADLOCK FALSE
INVARIANT
  RolesCanWork
