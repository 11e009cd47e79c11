CONSTANTS
  t1 = t1
  t2 = t2
  j1 = j1
  j2 = j2
  NULL = NULL
  Tenants = {t1, t2}
  JobIDs = {j1, j2}
  IdempotencyKeys = {i1, i2}
  Requests = {r1, r2}
  Owners = {}
  Responses = {resp}
  FailureCodes = {code}
  LeaseDurations = {1}
  Backoffs = {0}
  CreateInputs <- CreateInputsAll
  MaxAllowedAttempts = 2
  BatchSize = 2
  NowLag = 0
  MaxPending = 1
SPECIFICATION Spec
INVARIANTS
  CreateJobAnswers
PROPERTIES
  RetryAnswersAlike
SYMMETRY CreateSymmetry
