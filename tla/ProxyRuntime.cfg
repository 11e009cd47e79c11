CONSTANTS
  NONE = NONE
  Processes = {p1, p2}
  This = p1
  Binaries <- Releases
  Roles = {"api", "worker", "all"}
  MaxRequests = 2
SPECIFICATION FairSpec
CHECK_DEADLOCK FALSE
INVARIANTS
  SchemaAsRecorded
  NoLeakedPool
  ClosedUnderUseHasCause
  ResultMatchesCauses
PROPERTIES
  StartsOnKnownSchema
  ProcessEnds
