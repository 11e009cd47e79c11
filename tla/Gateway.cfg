CONSTANTS
  x = x
  y = y
  g1 = g1
  g2 = g2
  p1 = p1
  p2 = p2
  get = get
  a = a
  b = b
  NONE = NONE
  Sessions = {p1, p2, get}
  TaskIDs = {x, y, g1, g2}
  TaskResponses <- AnyResponse
  MaxConns = 2
  MaxFaults = 1
  AgentIDs = {a, b}
  Leads <- LeadsTo
  Capable = b
  SecurityEnabled = TRUE
  AllowedAgents <- KeysOf
  Requests <- TwoPostsAndGet
  AdapterTaskIDs = {x, y, NONE}
  GeneratedTaskID <- Generated
SPECIFICATION GatewaySpec
CHECK_DEADLOCK FALSE
INVARIANTS
  StoredOrTold
  ReadsWhatWasAnswered
  DeadlockNeedsCrossedKeys
PROPERTIES
  ImplementsTaskStore
  RequestsEnd
