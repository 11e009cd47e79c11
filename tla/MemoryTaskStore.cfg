CONSTANTS
  TaskIDs = {t1, t2, t3, t4}
  TaskResponses = {r1, r2}
  NoID = none
  MaxTasks = 2
  MaxAliases = 2
  MaxSaves = 4
SPECIFICATION Spec
CHECK_DEADLOCK FALSE
INVARIANTS
  StoreConsistent
  EvictsOldestFirst
PROPERTIES
  SaveIsAtomic
