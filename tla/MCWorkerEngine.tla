---------------------------- MODULE MCWorkerEngine ----------------------------
(***************************************************************************)
(* Instances of WorkerEngine for TLC.                                      *)
(***************************************************************************)
EXTENDS WorkerEngine

CONSTANTS t1

\* One job per job ID, ready at once, with the most attempts allowed.
JobInputs ==
  {[tenant_id |-> t1, id |-> j, idempotency_key |-> j, request |-> j,
    max_attempts |-> MaxAllowedAttempts, next_run_in |-> 0] : j \in JobIDs}
=============================================================================
