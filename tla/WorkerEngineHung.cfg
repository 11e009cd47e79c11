CONSTANTS
  t1 = t1
  NULL = NULL
  Tenants = {t1}
  JobIDs = {j1}
  IdempotencyKeys = {j1}
  Requests = {j1}
  Owners = {o1}
  Responses = {resp}
  FailureCodes = {code}
  LeaseDurations = {2}
  Backoffs = {1}
  CreateInputs <- JobInputs
  MaxAllowedAttempts = 2
  BatchSize = 1
  NowLag = 0
  MaxPending = 0
  Concurrency = 1
  MayStop = {o1}
  MayCrash = {o1}
  MaxFaults = 1
SPECIFICATION FairEngineSpec
PROPERTIES
  CancellationSettles
  ShutdownCompletes
