CONSTANTS
  t1 = t1
  t2 = t2
  j1 = j1
  j2 = j2
  NULL = NULL
  Tenants = {t1}
  JobIDs = {j1, j2}
  IdempotencyKeys = {j1, j2}
  Requests = {j1, j2}
  Owners = {o1, o2}
  Responses = {resp}
  FailureCodes = {code}
  LeaseDurations = {2}
  Backoffs = {1}
  CreateInputs <- LifecycleInputs
  MaxAllowedAttempts = 2
  BatchSize = 2
  NowLag = 1
  MaxPending = 0
SPECIFICATION Spec
INVARIANTS
  MarkRunningReportsLoss
