----------------------------- MODULE MCJobLedger -----------------------------
(***************************************************************************)
(* Instances of JobLedger for TLC.                                         *)
(***************************************************************************)
EXTENDS JobLedger, TLC

CONSTANTS j1, j2, t1, t2

\* One job per idempotency key, ready at once; two jobs with one and with two
\* attempts.
LifecycleInputs ==
  {[tenant_id |-> t1, id |-> j, idempotency_key |-> j, request |-> j,
    max_attempts |-> IF j = j1 THEN 2 ELSE 1, next_run_in |-> 0]
     : j \in JobIDs}

\* Every way two tenants can reuse job IDs, idempotency keys and requests.
CreateInputsAll ==
  [tenant_id : Tenants, id : JobIDs, idempotency_key : IdempotencyKeys,
   request : Requests, max_attempts : 1..MaxAllowedAttempts,
   next_run_in : {0}]

\* Nothing tells tenants, IDs, keys or requests of that instance apart.
CreateSymmetry ==
  Permutations(Tenants) \cup Permutations(JobIDs)
    \cup Permutations(IdempotencyKeys) \cup Permutations(Requests)
=============================================================================
