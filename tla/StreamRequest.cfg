CONSTANTS
  a = a
  b = b
  NONE = NONE
  UnknownID = unknown
  AgentIDs = {a, b}
  Configs <- TwoAgents
  AgentTypes <- OfEachType
  LinesOf <- ToldApart
  MaxLines = 3
SPECIFICATION StreamSpec
CHECK_DEADLOCK FALSE
INVARIANTS
  WellFormedStream
  StreamConcluded
  WholeOrError
PROPERTIES
  StreamEnds
