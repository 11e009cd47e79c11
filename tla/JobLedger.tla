------------------------------ MODULE JobLedger ------------------------------
(***************************************************************************)
(* The durable job ledger: the durable_jobs table and the operations of    *)
(* PostgresJobRepository on it (pkg/storage/postgres_jobs.go).             *)
(*                                                                         *)
(* Every SQL statement of the repository is one atomic action: an UPDATE   *)
(* that waits for a row lock re-evaluates its WHERE clause on the newest   *)
(* row.  What is not atomic is kept apart: CreateJob is an INSERT and,     *)
(* after a conflict, a SELECT of its own.                                  *)
(*                                                                         *)
(* Time.  A timestamp column is kept as its offset from the database's     *)
(* current time, so time passes (Tick) without a bound on the clock.       *)
(* NOW() is the start of the statement's transaction and may lag the       *)
(* moment the row is locked by up to NowLag: `lag' is that delay, and with *)
(* x = column - current time, "column <= NOW()" is x <= -lag and           *)
(* "column > NOW()" is x > -lag.  Offsets stop at -NowLag, where every     *)
(* statement reads the same answer.                                        *)
(*                                                                         *)
(* Left out: updated_at, created_at, failure_message (no guard reads       *)
(* them), and ORDER BY, which constrains nothing when SKIP LOCKED may skip *)
(* any row.                                                                *)
(***************************************************************************)
EXTENDS Integers, FiniteSets

CONSTANTS
  Tenants, JobIDs,      \* primary key of durable_jobs
  IdempotencyKeys,
  Requests,             \* request, agent and capability: what is hashed
  Owners,               \* lease owners, one per worker engine
  Responses, FailureCodes,
  LeaseDurations,       \* durations the callers pass
  Backoffs,             \* retry delays the callers pass
  CreateInputs,         \* the CreateJob inputs of this instance
  MaxAllowedAttempts,   \* model.MaxAllowedAttempts
  BatchSize,            \* LIMIT of AcquireLeases and ReclaimExpiredLeases
  NowLag,               \* how far NOW() may lag the row lock
  MaxPending,           \* bound: CreateJob calls between their statements
  NULL

Keys == Tenants \X JobIDs

\* Offsets from the current database time.
Offsets == {x \in Int : x >= -NowLag}

\* A CreateJobInput that passed Validate; next_run_in is NextRunAt, or the
\* statement's NOW() when it is nil.
CreateJobInput ==
  [tenant_id : Tenants, id : JobIDs, idempotency_key : IdempotencyKeys,
   request : Requests, max_attempts : 1..MaxAllowedAttempts,
   next_run_in : Offsets]

ASSUME LagAssumption == NowLag \in Nat
ASSUME AttemptsAssumption == MaxAllowedAttempts \in Nat \ {0}
ASSUME BatchAssumption == BatchSize \in Nat \ {0}
ASSUME DurationAssumption ==
  /\ LeaseDurations \subseteq Nat \ {0}
  /\ Backoffs \subseteq Nat
ASSUME InputAssumption == CreateInputs \subseteq CreateJobInput
ASSUME NullAssumption == NULL \notin Owners /\ NULL \notin Int
                         /\ NULL \notin Responses

VARIABLES
  jobs,        \* the table, by primary key
  conflicted,  \* CreateJob calls whose INSERT conflicted, before their SELECT
  granted      \* history: every fence AcquireLeases ever committed

vars == <<jobs, conflicted, granted>>

-----------------------------------------------------------------------------
(* Rows.                                                                   *)

LeaseStates    == {"leased", "running"}
TerminalStates == {"succeeded", "failed", "canceled", "dead_letter"}
JobStates      == {"queued"} \cup LeaseStates \cup TerminalStates

\* A key without a row has state "absent".
Row ==
  [state : JobStates \cup {"absent"},
   idempotency_key : IdempotencyKeys \cup {NULL},
   request : Requests \cup {NULL},
   attempt : Nat, max_attempts : Nat, next_run_in : Offsets,
   lease_owner : Owners \cup {NULL}, lease_token : Nat,
   lease_expires_in : Offsets \cup {NULL},
   response : Responses \cup {NULL},
   failure_code : FailureCodes \cup {NULL}, cancel_requested : BOOLEAN]

AbsentRow ==
  [state |-> "absent", idempotency_key |-> NULL, request |-> NULL,
   attempt |-> 0, max_attempts |-> 0, next_run_in |-> 0,
   lease_owner |-> NULL, lease_token |-> 0, lease_expires_in |-> NULL,
   response |-> NULL, failure_code |-> NULL, cancel_requested |-> FALSE]

LeaseFence == [key : Keys, lease_owner : Owners, lease_token : Nat]

Fence(k, row) ==
  [key |-> k, lease_owner |-> row.lease_owner, lease_token |-> row.lease_token]

Exists(k)   == jobs[k].state # "absent"
Leased(k)   == jobs[k].state \in LeaseStates
Terminal(k) == jobs[k].state \in TerminalStates
Lags        == 0..NowLag

TypeOK ==
  /\ jobs \in [Keys -> Row]
  /\ conflicted \subseteq CreateJobInput
  /\ granted \subseteq LeaseFence

Init ==
  /\ jobs = [k \in Keys |-> AbsentRow]
  /\ conflicted = {}
  /\ granted = {}

-----------------------------------------------------------------------------
(* CreateJob.                                                              *)

InputKey(in) == <<in.tenant_id, in.id>>

\* The idempotency hash covers the request, its routing and max_attempts.
SameFingerprint(in, row) ==
  row.request = in.request /\ row.max_attempts = in.max_attempts

\* Mutant: the lookup forgets the tenant.
WithKeyOfAnyTenant(in) ==
  {k \in Keys : Exists(k) /\ jobs[k].idempotency_key = in.idempotency_key}

WithIdempotencyKey(in) ==
  {k \in Keys : /\ Exists(k) /\ k[1] = in.tenant_id
                /\ jobs[k].idempotency_key = in.idempotency_key}

\* Mutant: no UNIQUE (tenant_id, idempotency_key).
PrimaryKeyConflicts(in) == Exists(InputKey(in))

\* A unique violation: PRIMARY KEY (tenant_id, id) or
\* UNIQUE (tenant_id, idempotency_key).
InsertConflicts(in) == Exists(InputKey(in)) \/ WithIdempotencyKey(in) # {}

NewRow(in) ==
  [AbsentRow EXCEPT !.state = "queued", !.request = in.request,
                    !.idempotency_key = in.idempotency_key,
                    !.max_attempts = in.max_attempts,
                    !.next_run_in = in.next_run_in]

CreateJobInsert(in) ==
  /\ ~InsertConflicts(in)
  /\ jobs' = [jobs EXCEPT ![InputKey(in)] = NewRow(in)]
  /\ UNCHANGED <<conflicted, granted>>

CreateJobConflict(in) ==
  /\ InsertConflicts(in)
  /\ Cardinality(conflicted) < MaxPending
  /\ conflicted' = conflicted \cup {in}
  /\ UNCHANGED <<jobs, granted>>

\* What the SELECT by (tenant_id, idempotency_key) makes CreateJob return.
CreateJobOutcome(in) ==
  LET found == WithIdempotencyKey(in)
  IN  IF found = {} THEN [error |-> "ErrJobIDConflict", job |-> NULL]
      ELSE LET k == CHOOSE x \in found : TRUE
           IN  IF SameFingerprint(in, jobs[k])
               THEN [error |-> "nil", job |-> k]
               ELSE [error |-> "ErrIdempotencyConflict", job |-> NULL]

CreateJobLoad(in) ==
  /\ in \in conflicted
  /\ conflicted' = conflicted \ {in}
  /\ UNCHANGED <<jobs, granted>>

-----------------------------------------------------------------------------
(* AcquireLeases: one transaction over at most BatchSize ready rows, minus *)
(* any rows that SKIP LOCKED passes over.                                  *)

Ready(k, lag) ==
  /\ jobs[k].state = "queued"
  /\ jobs[k].next_run_in <= -lag
  /\ jobs[k].attempt < jobs[k].max_attempts

\* Mutants: the token stays or starts over.
LeasedRowSameToken(row, owner, expires) ==
  [row EXCEPT !.state = "leased", !.attempt = @ + 1, !.lease_owner = owner,
              !.lease_expires_in = expires]

LeasedRowFirstToken(row, owner, expires) ==
  [row EXCEPT !.state = "leased", !.attempt = @ + 1, !.lease_owner = owner,
              !.lease_token = 1, !.lease_expires_in = expires]

LeasedRow(row, owner, expires) ==
  [row EXCEPT !.state = "leased", !.attempt = @ + 1, !.lease_owner = owner,
              !.lease_token = @ + 1, !.lease_expires_in = expires]

AcquireLeases(owner, picked, duration, lag) ==
  /\ picked # {} /\ IsFiniteSet(picked) /\ Cardinality(picked) <= BatchSize
  /\ \A k \in picked : Ready(k, lag)
  /\ jobs' = [k \in Keys |-> IF k \in picked
                             THEN LeasedRow(jobs[k], owner, duration - lag)
                             ELSE jobs[k]]
  /\ granted' = granted \cup
                {Fence(k, LeasedRow(jobs[k], owner, duration - lag))
                   : k \in picked}
  /\ UNCHANGED conflicted

-----------------------------------------------------------------------------
(* Fenced mutations, called with any fence ever granted: a worker that     *)
(* lost its lease still holds its copy.                                    *)

\* Mutant: the WHERE clause leaves out the token.
HoldsLeaseAnyToken(f, lag) ==
  LET row == jobs[f.key]
  IN  /\ row.lease_owner = f.lease_owner
      /\ row.state \in LeaseStates
      /\ row.lease_expires_in > -lag

\* The WHERE clause shared by the fenced UPDATEs.
HoldsLease(f, lag) ==
  LET row == jobs[f.key]
  IN  /\ row.lease_owner = f.lease_owner
      /\ row.lease_token = f.lease_token
      /\ row.state \in LeaseStates
      /\ row.lease_expires_in > -lag

SetRow(k, row) ==
  /\ jobs' = [jobs EXCEPT ![k] = row]
  /\ UNCHANGED <<conflicted, granted>>

\* A row that leaves the lease states drops its owner and expiry.
Released(row, state) ==
  [row EXCEPT !.state = state, !.lease_owner = NULL, !.lease_expires_in = NULL]

\* Mutant: intent is not looked at.
MarkRunningAnyway(f, lag) ==
  /\ HoldsLease(f, lag)
  /\ jobs[f.key].state = "leased"
  /\ SetRow(f.key, [jobs[f.key] EXCEPT !.state = "running"])

MarkRunning(f, lag) ==
  /\ HoldsLease(f, lag)
  /\ jobs[f.key].state = "leased"
  /\ ~jobs[f.key].cancel_requested
  /\ SetRow(f.key, [jobs[f.key] EXCEPT !.state = "running"])

RenewLease(f, duration, lag) ==
  /\ HoldsLease(f, lag)
  /\ SetRow(f.key, [jobs[f.key] EXCEPT !.lease_expires_in = duration - lag])

CompleteJob(f, response, lag) ==
  /\ HoldsLease(f, lag)
  /\ SetRow(f.key, [Released(jobs[f.key], "succeeded")
                      EXCEPT !.response = response])

AttemptsRemain(row) == row.attempt < row.max_attempts

\* The CASE of FailJob.  Cancellation intent is not consulted.
FailedRow(row, retryable, delay, code) ==
  LET state == IF ~retryable THEN "failed"
               ELSE IF AttemptsRemain(row) THEN "queued" ELSE "dead_letter"
  IN  [Released(row, state) EXCEPT
         !.next_run_in = IF state = "queued" THEN delay ELSE @,
         !.failure_code = code]

FailJob(f, retryable, backoff, code, lag) ==
  /\ HoldsLease(f, lag)
  /\ SetRow(f.key, FailedRow(jobs[f.key], retryable, backoff - lag, code))

AcknowledgeCancellation(f, lag) ==
  /\ HoldsLease(f, lag)
  /\ jobs[f.key].cancel_requested
  /\ SetRow(f.key, Released(jobs[f.key], "canceled"))

\* handleLeaseMutationMiss: the error reported for a fenced UPDATE that hit
\* no row, from a SELECT of its own that looks at the key alone.
MissError(k, reportCancellation) ==
  IF ~Exists(k) THEN "ErrJobNotFound"
  ELSE IF reportCancellation /\ jobs[k].cancel_requested
       THEN "ErrCancellationRequested" ELSE "ErrLeaseLost"

-----------------------------------------------------------------------------
(* CancelJob and ReclaimExpiredLeases are not fenced.                      *)

\* Mutant: intent is noted on any row.
CanceledRowAlways(row) ==
  [row EXCEPT !.state = IF @ = "queued" THEN "canceled" ELSE @,
              !.cancel_requested = TRUE]

CanceledRow(row) ==
  [row EXCEPT !.state = IF @ = "queued" THEN "canceled" ELSE @,
              !.cancel_requested =
                @ \/ row.state \in {"queued"} \cup LeaseStates]

CancelJob(k) ==
  /\ Exists(k)
  /\ SetRow(k, CanceledRow(jobs[k]))

\* Mutants: expiry is not looked at; only jobs with attempts left are swept.
ExpiredAnyLease(k, lag) == Leased(k)

ExpiredRetryable(k, lag) ==
  /\ Leased(k) /\ jobs[k].lease_expires_in <= -lag
  /\ AttemptsRemain(jobs[k])

Expired(k, lag) == Leased(k) /\ jobs[k].lease_expires_in <= -lag

\* Mutant: the budget is ignored.
ReclaimedRowRequeues(row, delay) ==
  LET state == IF row.cancel_requested THEN "canceled" ELSE "queued"
  IN  [Released(row, state) EXCEPT
         !.next_run_in = IF state = "queued" THEN delay ELSE @,
         !.lease_token = @ + 1]

ReclaimedRow(row, delay) ==
  LET state == IF row.cancel_requested THEN "canceled"
               ELSE IF AttemptsRemain(row) THEN "queued" ELSE "dead_letter"
  IN  [Released(row, state) EXCEPT
         !.next_run_in = IF state = "queued" THEN delay ELSE @,
         !.lease_token = @ + 1]

ReclaimExpiredLeases(picked, backoff, lag) ==
  /\ picked # {} /\ IsFiniteSet(picked) /\ Cardinality(picked) <= BatchSize
  /\ \A k \in picked : Expired(k, lag)
  /\ jobs' = [k \in Keys |-> IF k \in picked
                             THEN ReclaimedRow(jobs[k], backoff - lag)
                             ELSE jobs[k]]
  /\ UNCHANGED <<conflicted, granted>>

-----------------------------------------------------------------------------
(* Database time passes.  Only the offset some statement may still read    *)
(* moves: next_run_at of a queued row, lease_expires_at of a leased one.   *)

Elapse(x) == IF x > -NowLag THEN x - 1 ELSE x

AgedRow(row) ==
  CASE row.state = "queued" -> [row EXCEPT !.next_run_in = Elapse(@)]
    [] row.state \in LeaseStates ->
         [row EXCEPT !.lease_expires_in = Elapse(@)]
    [] OTHER -> row

Tick ==
  /\ jobs' = [k \in Keys |-> AgedRow(jobs[k])]
  /\ UNCHANGED <<conflicted, granted>>

-----------------------------------------------------------------------------

CreateJobStep ==
  \/ \E in \in CreateInputs : CreateJobInsert(in)
  \/ \E in \in CreateInputs : CreateJobConflict(in)
  \/ \E in \in conflicted : CreateJobLoad(in)

AcquireStep ==
  \E owner \in Owners, picked \in SUBSET Keys,
     duration \in LeaseDurations, lag \in Lags :
    AcquireLeases(owner, picked, duration, lag)

MarkRunningStep == \E f \in granted, lag \in Lags : MarkRunning(f, lag)

RenewStep ==
  \E f \in granted, duration \in LeaseDurations, lag \in Lags :
    RenewLease(f, duration, lag)

CompleteStep ==
  \E f \in granted, response \in Responses, lag \in Lags :
    CompleteJob(f, response, lag)

FailStep ==
  \E f \in granted, retryable \in BOOLEAN, backoff \in Backoffs,
     code \in FailureCodes, lag \in Lags :
    FailJob(f, retryable, backoff, code, lag)

AcknowledgeStep ==
  \E f \in granted, lag \in Lags : AcknowledgeCancellation(f, lag)

CancelStep == \E k \in Keys : CancelJob(k)

ReclaimStep ==
  \E picked \in SUBSET Keys, backoff \in Backoffs, lag \in Lags :
    ReclaimExpiredLeases(picked, backoff, lag)

Next ==
  \/ CreateJobStep
  \/ AcquireStep
  \/ MarkRunningStep
  \/ RenewStep
  \/ CompleteStep
  \/ FailStep
  \/ AcknowledgeStep
  \/ CancelStep
  \/ ReclaimStep
  \/ Tick

Spec == Init /\ [][Next]_vars
-----------------------------------------------------------------------------
(* Safety.                                                                 *)

\* f is the fence of the lease in force on this row, expired or not.
HasLease(f, row) == row.state \in LeaseStates /\ f = Fence(f.key, row)

GrantsOf(k) == {f \in granted : f.key = k}

\* Every statement leaves each row inside chk_durable_jobs_lease_state: a row
\* is leased or running exactly when it carries an owner, a positive token and
\* an expiry.  Were it not so, an UPDATE of the repository would be refused by
\* the table and the job would be stuck where it is.
LeaseStateCheck ==
  \A k \in Keys :
    /\ Leased(k) => /\ jobs[k].lease_owner \in Owners
                    /\ jobs[k].lease_token > 0
                    /\ jobs[k].lease_expires_in \in Int
    /\ ~Leased(k) => /\ jobs[k].lease_owner = NULL
                     /\ jobs[k].lease_expires_in = NULL

\* No queued job is stranded: AcquireLeases skips rows with attempt =
\* max_attempts, so a retry or a reclamation that returned such a row to the
\* queue would leave a job no worker can ever take.
NoStrandedJob ==
  \A k \in Keys : jobs[k].state = "queued" => AttemptsRemain(jobs[k])

\* Over its whole life, through retries, expiries and reclamations, a job is
\* leased exactly `attempt' times and never more than max_attempts times.
GrantsWithinBudget ==
  \A k \in Keys : /\ Cardinality(GrantsOf(k)) = jobs[k].attempt
                  /\ jobs[k].attempt <= jobs[k].max_attempts

\* A fencing token names one lease: AcquireLeases never gives two workers, nor
\* one worker twice, the same token of a job, whatever was reclaimed between.
TokensNeverReused ==
  \A f, g \in granted :
    f.key = g.key /\ f.lease_token = g.lease_token => f = g

\* The lease in force is the newest one granted, and it was granted by
\* AcquireLeases: every older copy of a fence is stale.
CurrentLeaseIsNewest ==
  \A k \in Keys :
    Leased(k) => /\ Fence(k, jobs[k]) \in granted
                 /\ \A f \in GrantsOf(k) : f.lease_token <= jobs[k].lease_token

\* A tenant's idempotency key names at most one job, however the INSERTs and
\* SELECTs of concurrent CreateJob calls interleave.
UniqueIdempotency ==
  \A j, k \in Keys :
    /\ Exists(j) /\ Exists(k) /\ j[1] = k[1]
    /\ jobs[j].idempotency_key = jobs[k].idempotency_key
    => j = k

\* CreateJob's second statement still finds what made the first one conflict:
\* it returns a job of the caller's tenant, stored under the caller's key and
\* fingerprint; ErrIdempotencyConflict only when the key is taken by a
\* different request; ErrJobIDConflict only when the job ID itself is taken.
CreateJobAnswers ==
  \A in \in conflicted :
    LET out == CreateJobOutcome(in)
    IN  CASE out.error = "nil" ->
               /\ Exists(out.job) /\ out.job[1] = in.tenant_id
               /\ jobs[out.job].idempotency_key = in.idempotency_key
               /\ SameFingerprint(in, jobs[out.job])
          [] out.error = "ErrIdempotencyConflict" ->
               \E id \in JobIDs :
                 LET row == jobs[<<in.tenant_id, id>>]
                 IN  /\ row.idempotency_key = in.idempotency_key
                     /\ ~SameFingerprint(in, row)
          [] out.error = "ErrJobIDConflict" -> Exists(InputKey(in))

\* A response is stored exactly for the jobs that succeeded: no later retry,
\* reclamation or cancellation keeps or loses one.
ResponseIffSucceeded ==
  \A k \in Keys : (jobs[k].response # NULL) <=> (jobs[k].state = "succeeded")

\* What every operation leaves in each row: the lease columns match the state, a
\* queued row can still be leased, only a succeeded row has a response, and a
\* missing key has no data.
RowOK(row) ==
  /\ row.state \in LeaseStates =>
       /\ row.lease_owner \in Owners /\ row.lease_token > 0
       /\ row.lease_expires_in \in Int
  /\ row.state \notin LeaseStates =>
       row.lease_owner = NULL /\ row.lease_expires_in = NULL
  /\ row.attempt <= row.max_attempts
  /\ row.state = "queued" => AttemptsRemain(row)
  /\ row.response # NULL <=> row.state = "succeeded"
  /\ row.state = "absent" => row = AbsentRow
  /\ row.state # "absent" => row.max_attempts > 0

\* How the fences handed out relate to the row: as many as attempts, none newer
\* than the row's token, the lease in force among them.
GrantsOK(k) ==
  /\ IsFiniteSet(GrantsOf(k))
  /\ Cardinality(GrantsOf(k)) = jobs[k].attempt
  /\ \A f \in GrantsOf(k) : f.lease_token <= jobs[k].lease_token
  /\ Leased(k) => Fence(k, jobs[k]) \in granted

\* The inductive invariant: fencing is safe because AcquireLeases and
\* ReclaimExpiredLeases only ever raise a row's token above every fence handed
\* out, and every other operation leaves the token and the lease columns alone
\* or drops the lease.
LedgerInv ==
  /\ TypeOK
  /\ \A k \in Keys : RowOK(jobs[k])
  /\ \A k \in Keys : GrantsOK(k)
  /\ TokensNeverReused
  /\ UniqueIdempotency

-----------------------------------------------------------------------------
(* What a step may never do.                                               *)

\* A terminal job never changes again: late completions and failures, stale
\* fences, reclamation and CancelJob all leave it as it is.
TerminalFrozen ==
  [][\A k \in Keys : Terminal(k) => jobs'[k] = jobs[k]]_vars

\* A fence that lost its lease never gets it back: whether the job was settled,
\* requeued or reclaimed, no later lease of any worker makes the old copy match
\* the row again, so a late write of the old holder can never hit.
StaleStaysStale ==
  [][\A f \in granted :
       ~HasLease(f, jobs[f.key]) => ~HasLease(f, jobs'[f.key])]_vars

\* Cancellation intent is durable, and once it is recorded the job is never
\* started again: it may finish the run it is in, but no later lease takes it
\* to running.
IntentBlocksStart ==
  [][\A k \in Keys :
       jobs[k].cancel_requested =>
         /\ jobs'[k].cancel_requested
         /\ jobs'[k].state = "running" => jobs[k].state = "running"]_vars

\* A CreateJob that is repeated gets its first answer again: the caller whose
\* INSERT committed is given the job it created, and an answer that found the
\* idempotency key, the job or ErrIdempotencyConflict, stays the same whatever
\* becomes of the job and whatever else is created.  Only ErrJobIDConflict may
\* change, when somebody takes the caller's idempotency key.
RetryAnswersAlike ==
  [][\A in \in CreateInputs :
       /\ CreateJobInsert(in) =>
            CreateJobOutcome(in)' = [error |-> "nil", job |-> InputKey(in)]
       /\ WithIdempotencyKey(in) # {} =>
            CreateJobOutcome(in)' = CreateJobOutcome(in)]_vars

-----------------------------------------------------------------------------
(* The ledger implements the abstract lease queue.                         *)

Phase(row) ==
  CASE row.state = "absent" -> "absent"
    [] row.state = "queued" -> "waiting"
    [] row.state \in LeaseStates -> "held"
    [] OTHER -> "done"

\* The refinement mapping: a lease is named by its fence.
QueuePhase  == [k \in Keys |-> Phase(jobs[k])]
QueueHolder == [k \in Keys |-> IF jobs[k].state \in LeaseStates
                               THEN Fence(k, jobs[k]) ELSE NULL]
QueueIssued == [k \in Keys |-> GrantsOf(k)]
QueueLeft   == [k \in Keys |-> jobs[k].max_attempts - jobs[k].attempt]

Queue ==
  INSTANCE LeaseQueue WITH
    Leases <- LeaseFence, NoLease <- NULL, phase <- QueuePhase,
    holder <- QueueHolder, issued <- QueueIssued, left <- QueueLeft

\* Seen through its fences, the ledger is a lease queue: every lease of a job is
\* new, at most max_attempts are given out, a held job changes hands only by way
\* of the queue, and a finished one never comes back.
ImplementsLeaseQueue == Queue!Spec

-----------------------------------------------------------------------------
(* A statement of the interface's documentation that the code breaks.      *)

\* job_repository.go, MarkRunning: "Returns ErrLeaseLost if the lease was
\* lost, expired, or modified."  The error a worker gets for a fence whose
\* lease is gone.
MarkRunningReportsLoss ==
  \A f \in granted :
    (\A lag \in Lags : ~HoldsLease(f, lag)) =>
      MissError(f.key, TRUE) = "ErrLeaseLost"

=============================================================================
