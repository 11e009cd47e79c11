CONSTANTS
  a = a
  b = b
  c = c
  NONE = NONE
  UnknownID = unknown
  UnknownAgent = unknown
  AgentIDs = {a, b, c}
  Agents <- ThreeAgents
  MaxFallbacks = 2
  Configs <- AllConfigs
SPECIFICATION ServeSpec
CHECK_DEADLOCK FALSE
INVARIANTS
  AcceptsExactlyAcyclic
  CallsWithinBudget
  FailsOnlyWhenAllTried
PROPERTIES
  NoCallAfterEmission
  Answered
