--------------------------- MODULE JobLedgerProofs ---------------------------
(***************************************************************************)
(* Proofs about the job ledger for any number of tenants, jobs, workers,   *)
(* attempts and any lag of NOW().                                          *)
(***************************************************************************)
EXTENDS JobLedger, FiniteSetTheorems, TLAPS

-----------------------------------------------------------------------------
(* The row operators preserve the type of rows.                            *)

\* Each state name the operations write is a state of the table.
LEMMA StateNames ==
  /\ "queued" \in JobStates
  /\ "leased" \in JobStates /\ "running" \in JobStates
  /\ \A s \in TerminalStates : s \in JobStates
  /\ \A s \in {"succeeded", "failed", "canceled", "dead_letter"} :
       s \in TerminalStates
BY DEF JobStates, LeaseStates, TerminalStates

\* The row of a missing key has the type of a row.
LEMMA AbsentRowType == AbsentRow \in Row
BY LagAssumption DEF AbsentRow, Row, Offsets

\* A valid CreateJob input makes a well-typed row.
LEMMA NewRowType ==
  ASSUME NEW in \in CreateJobInput
  PROVE  NewRow(in) \in Row
<1>1. /\ in.request \in Requests
      /\ in.idempotency_key \in IdempotencyKeys
      /\ in.next_run_in \in Offsets
  BY DEF CreateJobInput
<1>2. in.max_attempts \in Nat
  BY AttemptsAssumption DEF CreateJobInput
<1> QED
  BY <1>1, <1>2, AbsentRowType, StateNames DEF NewRow, Row

\* Leasing a row keeps its type.
LEMMA LeasedRowType ==
  ASSUME NEW row \in Row, NEW owner \in Owners, NEW x \in Offsets
  PROVE  LeasedRow(row, owner, x) \in Row
<1>1. row.attempt + 1 \in Nat /\ row.lease_token + 1 \in Nat
  BY DEF Row
<1> QED
  BY <1>1, StateNames DEF LeasedRow, Row

\* Dropping the lease fields keeps the type.
LEMMA ReleasedType ==
  ASSUME NEW row \in Row, NEW s \in JobStates
  PROVE  Released(row, s) \in Row
BY DEF Released, Row

\* Every branch of FailJob's CASE keeps the type.
LEMMA FailedRowType ==
  ASSUME NEW row \in Row, NEW retryable \in BOOLEAN, NEW x \in Offsets,
         NEW code \in FailureCodes
  PROVE  FailedRow(row, retryable, x, code) \in Row
<1> DEFINE s == IF ~retryable THEN "failed"
                ELSE IF AttemptsRemain(row) THEN "queued" ELSE "dead_letter"
           rel == Released(row, s)
<1>1. s \in JobStates
  BY StateNames
<1>2. rel \in Row
  BY <1>1, ReleasedType
<1>3. (IF s = "queued" THEN x ELSE rel.next_run_in) \in Offsets
  BY <1>2 DEF Row
<1>4. FailedRow(row, retryable, x, code) =
        [rel EXCEPT !.next_run_in = IF s = "queued" THEN x ELSE rel.next_run_in,
                    !.failure_code = code]
  BY DEF FailedRow
<1> HIDE DEF s, rel
<1> QED
  BY <1>2, <1>3, <1>4 DEF Row

\* Every branch of ReclaimExpiredLeases' CASE keeps the type.
LEMMA ReclaimedRowType ==
  ASSUME NEW row \in Row, NEW x \in Offsets
  PROVE  ReclaimedRow(row, x) \in Row
<1> DEFINE s == IF row.cancel_requested THEN "canceled"
                ELSE IF AttemptsRemain(row) THEN "queued" ELSE "dead_letter"
           rel == Released(row, s)
<1>1. s \in JobStates
  BY StateNames
<1>2. rel \in Row
  BY <1>1, ReleasedType
<1>3. /\ (IF s = "queued" THEN x ELSE rel.next_run_in) \in Offsets
      /\ rel.lease_token + 1 \in Nat
  BY <1>2 DEF Row
<1>4. ReclaimedRow(row, x) =
        [rel EXCEPT !.next_run_in = IF s = "queued" THEN x ELSE rel.next_run_in,
                    !.lease_token = rel.lease_token + 1]
  BY DEF ReclaimedRow
<1> HIDE DEF s, rel
<1> QED
  BY <1>2, <1>3, <1>4 DEF Row

\* CancelJob keeps the type.
LEMMA CanceledRowType ==
  ASSUME NEW row \in Row
  PROVE  CanceledRow(row) \in Row
<1> DEFINE s == IF row.state = "queued" THEN "canceled" ELSE row.state
           c == row.cancel_requested \/ row.state \in {"queued"} \cup LeaseStates
<1>1. s \in JobStates \cup {"absent"}
  BY StateNames DEF Row
<1>2. c \in BOOLEAN
  OBVIOUS
<1>3. CanceledRow(row) = [row EXCEPT !.state = s, !.cancel_requested = c]
  BY DEF CanceledRow
<1> HIDE DEF s, c
<1> QED
  BY <1>1, <1>2, <1>3 DEF Row

\* Saturated countdown stays an offset.
LEMMA ElapseType ==
  ASSUME NEW x \in Offsets
  PROVE  Elapse(x) \in Offsets
BY LagAssumption DEF Elapse, Offsets

\* A duration counted from a lagging NOW() is an offset.
LEMMA LagOffset ==
  ASSUME NEW d \in Nat, NEW lag \in Lags
  PROVE  d - lag \in Offsets
BY LagAssumption DEF Lags, Offsets

-----------------------------------------------------------------------------
(* What one operation may do to a row that exists, other than leasing it.  *)

RowStep(r, s) ==
  /\ s.idempotency_key = r.idempotency_key
  /\ s.attempt = r.attempt /\ s.max_attempts = r.max_attempts
  /\ s.request = r.request
  /\ s.lease_token >= r.lease_token
  /\ s.state = "absent" <=> r.state = "absent"
  /\ r.state \in TerminalStates => s = r
  /\ s.state \in LeaseStates =>
       /\ r.state \in LeaseStates
       /\ s.lease_owner = r.lease_owner /\ s.lease_token = r.lease_token
  /\ r.cancel_requested =>
       s.cancel_requested /\ (s.state = "running" => r.state = "running")

\* A row that is left alone has made a (stuttering) row step.
LEMMA RowStepStutter ==
  ASSUME NEW r \in Row, RowOK(r)
  PROVE  RowStep(r, r)
BY DEF RowStep, Row

\* States are disjoint: a leased row is neither queued, nor terminal, nor absent.
LEMMA LeasedDisjoint ==
  ASSUME NEW s \in LeaseStates
  PROVE  /\ s \notin TerminalStates /\ s # "queued" /\ s # "absent"
         /\ s # "succeeded"
BY DEF LeaseStates, TerminalStates

\* MarkRunning makes a row step.
LEMMA MarkRunningRow ==
  ASSUME NEW r \in Row, RowOK(r), r.state = "leased", ~r.cancel_requested
  PROVE  LET s == [r EXCEPT !.state = "running"]
         IN  s \in Row /\ RowOK(s) /\ RowStep(r, s)
<1> DEFINE s == [r EXCEPT !.state = "running"]
<1>1. s \in Row
  BY StateNames DEF Row
<1>2. /\ s.state = "running" /\ s.idempotency_key = r.idempotency_key
      /\ s.attempt = r.attempt /\ s.max_attempts = r.max_attempts
      /\ s.request = r.request
      /\ s.lease_token = r.lease_token /\ s.lease_owner = r.lease_owner
      /\ s.lease_expires_in = r.lease_expires_in /\ s.response = r.response
      /\ s.cancel_requested = r.cancel_requested
  BY DEF Row
<1>3. r.lease_token \in Nat
  BY DEF Row
<1> HIDE DEF s
<1>4. RowOK(s)
  BY <1>2 DEF RowOK, LeaseStates, AttemptsRemain
<1>5. RowStep(r, s)
  BY <1>2, <1>3 DEF RowStep, LeaseStates, TerminalStates
<1> QED
  BY <1>1, <1>4, <1>5 DEF s

\* So does RenewLease.
LEMMA RenewLeaseRow ==
  ASSUME NEW r \in Row, RowOK(r), r.state \in LeaseStates, NEW x \in Offsets
  PROVE  LET s == [r EXCEPT !.lease_expires_in = x]
         IN  s \in Row /\ RowOK(s) /\ RowStep(r, s)
<1> DEFINE s == [r EXCEPT !.lease_expires_in = x]
<1>1. s \in Row
  BY DEF Row
<1>2. /\ s.state = r.state /\ s.idempotency_key = r.idempotency_key
      /\ s.attempt = r.attempt /\ s.max_attempts = r.max_attempts
      /\ s.request = r.request
      /\ s.lease_token = r.lease_token /\ s.lease_owner = r.lease_owner
      /\ s.lease_expires_in = x /\ s.response = r.response
      /\ s.cancel_requested = r.cancel_requested
  BY DEF Row
<1>3. r.lease_token \in Nat /\ x \in Int
  BY DEF Row, Offsets
<1> HIDE DEF s
<1>4. RowOK(s)
  BY <1>2, <1>3, LeasedDisjoint DEF RowOK, AttemptsRemain
<1>5. RowStep(r, s)
  BY <1>2, <1>3, LeasedDisjoint DEF RowStep
<1> QED
  BY <1>1, <1>4, <1>5 DEF s

\* A leased row that is settled or requeued with its attempts in order makes a
\* row step.  This is the common part of CompleteJob, FailJob,
\* AcknowledgeCancellation and ReclaimExpiredLeases.
LEMMA ReleaseRow ==
  ASSUME NEW r \in Row, RowOK(r), r.state \in LeaseStates,
         NEW s \in Row,
         s.state \in TerminalStates \cup {"queued"},
         s.idempotency_key = r.idempotency_key,
         s.attempt = r.attempt, s.max_attempts = r.max_attempts,
         s.request = r.request,
         s.lease_owner = NULL, s.lease_expires_in = NULL,
         s.lease_token >= r.lease_token,
         r.lease_expires_in > 0 => s.lease_token = r.lease_token,
         s.cancel_requested = r.cancel_requested,
         s.state = "queued" => AttemptsRemain(s),
         s.response # NULL <=> s.state = "succeeded"
  PROVE  RowOK(s) /\ RowStep(r, s)
<1>1. /\ s.state \notin LeaseStates /\ s.state # "absent"
      /\ s.state # "running"
  BY DEF TerminalStates, LeaseStates
<1>2. RowOK(s)
  BY <1>1, LeasedDisjoint DEF RowOK
<1>3. RowStep(r, s)
  BY <1>1, LeasedDisjoint DEF RowStep
<1> QED
  BY <1>2, <1>3

\* What dropping the lease leaves of a row.
LEMMA ReleasedFields ==
  ASSUME NEW r \in Row, NEW st \in JobStates
  PROVE  LET s == Released(r, st)
         IN  /\ s.state = st /\ s.idempotency_key = r.idempotency_key
             /\ s.attempt = r.attempt /\ s.max_attempts = r.max_attempts
             /\ s.request = r.request
             /\ s.lease_owner = NULL /\ s.lease_expires_in = NULL
             /\ s.lease_token = r.lease_token /\ s.response = r.response
             /\ s.cancel_requested = r.cancel_requested
             /\ s.next_run_in = r.next_run_in
BY DEF Released, Row

\* CompleteJob makes a row step.
LEMMA CompleteRow ==
  ASSUME NEW r \in Row, RowOK(r), r.state \in LeaseStates,
         NEW response \in Responses
  PROVE  LET s == [Released(r, "succeeded") EXCEPT !.response = response]
         IN  s \in Row /\ RowOK(s) /\ RowStep(r, s)
<1> DEFINE rel == Released(r, "succeeded")
           s == [rel EXCEPT !.response = response]
<1>1. rel \in Row
  BY StateNames, ReleasedType
<1>2. s \in Row
  BY <1>1 DEF Row
<1>3. /\ s.state = rel.state /\ s.idempotency_key = rel.idempotency_key
      /\ s.attempt = rel.attempt /\ s.max_attempts = rel.max_attempts
      /\ s.request = rel.request
      /\ s.lease_token = rel.lease_token /\ s.lease_owner = rel.lease_owner
      /\ s.lease_expires_in = rel.lease_expires_in /\ s.response = response
      /\ s.cancel_requested = rel.cancel_requested
  BY <1>1 DEF Row
<1>4. /\ s.state = "succeeded" /\ s.idempotency_key = r.idempotency_key
      /\ s.attempt = r.attempt /\ s.max_attempts = r.max_attempts
      /\ s.request = r.request
      /\ s.lease_token = r.lease_token /\ s.lease_owner = NULL
      /\ s.lease_expires_in = NULL
      /\ s.cancel_requested = r.cancel_requested
  BY <1>3, ReleasedFields, StateNames
<1>5. s.response # NULL
  BY <1>3, NullAssumption
<1>6. r.lease_token \in Nat
  BY DEF Row
<1> HIDE DEF s
<1>7. RowOK(s) /\ RowStep(r, s)
  BY <1>2, <1>4, <1>5, <1>6, ReleaseRow, StateNames
<1> QED
  BY <1>2, <1>7 DEF s

\* FailJob makes a row step in each of its branches.
LEMMA FailRow ==
  ASSUME NEW r \in Row, RowOK(r), r.state \in LeaseStates,
         NEW retryable \in BOOLEAN, NEW x \in Offsets, NEW code \in FailureCodes
  PROVE  LET s == FailedRow(r, retryable, x, code)
         IN  s \in Row /\ RowOK(s) /\ RowStep(r, s)
<1> DEFINE st == IF ~retryable THEN "failed"
                 ELSE IF AttemptsRemain(r) THEN "queued" ELSE "dead_letter"
           rel == Released(r, st)
           s == FailedRow(r, retryable, x, code)
<1>1. /\ st \in JobStates /\ st \in TerminalStates \cup {"queued"}
      /\ st # "succeeded"
      /\ st = "queued" => AttemptsRemain(r)
  BY StateNames
<1>2. rel \in Row
  BY <1>1, ReleasedType
<1>3. s \in Row
  BY FailedRowType
<1>4. s = [rel EXCEPT !.next_run_in = IF st = "queued" THEN x ELSE @,
                      !.failure_code = code]
  BY DEF FailedRow
<1>5. /\ s.state = rel.state /\ s.idempotency_key = rel.idempotency_key
      /\ s.attempt = rel.attempt /\ s.max_attempts = rel.max_attempts
      /\ s.request = rel.request
      /\ s.lease_token = rel.lease_token /\ s.lease_owner = rel.lease_owner
      /\ s.lease_expires_in = rel.lease_expires_in
      /\ s.response = rel.response
      /\ s.cancel_requested = rel.cancel_requested
  <2> HIDE DEF st, rel, s
  <2> QED BY <1>2, <1>4 DEF Row
<1> HIDE DEF st, s
<1>6. /\ s.state = st /\ s.idempotency_key = r.idempotency_key
      /\ s.attempt = r.attempt /\ s.max_attempts = r.max_attempts
      /\ s.request = r.request
      /\ s.lease_token = r.lease_token /\ s.lease_owner = NULL
      /\ s.lease_expires_in = NULL /\ s.response = r.response
      /\ s.cancel_requested = r.cancel_requested
  BY <1>5, <1>1, ReleasedFields
<1>7. r.lease_token \in Nat /\ r.response = NULL
  BY LeasedDisjoint DEF Row, RowOK
<1>8. s.state = "queued" => AttemptsRemain(s)
  BY <1>1, <1>6 DEF AttemptsRemain
<1>9. RowOK(s) /\ RowStep(r, s)
  BY <1>1, <1>3, <1>6, <1>7, <1>8, ReleaseRow
<1> QED
  BY <1>3, <1>9 DEF s

\* AcknowledgeCancellation makes a row step.
LEMMA AcknowledgeRow ==
  ASSUME NEW r \in Row, RowOK(r), r.state \in LeaseStates
  PROVE  LET s == Released(r, "canceled")
         IN  s \in Row /\ RowOK(s) /\ RowStep(r, s)
<1> DEFINE s == Released(r, "canceled")
<1>1. "canceled" \in JobStates /\ "canceled" \in TerminalStates
  BY StateNames
<1>2. s \in Row
  BY <1>1, ReleasedType
<1>3. /\ s.state = "canceled" /\ s.idempotency_key = r.idempotency_key
      /\ s.attempt = r.attempt /\ s.max_attempts = r.max_attempts
      /\ s.request = r.request
      /\ s.lease_token = r.lease_token /\ s.lease_owner = NULL
      /\ s.lease_expires_in = NULL /\ s.response = r.response
      /\ s.cancel_requested = r.cancel_requested
  BY <1>1, ReleasedFields
<1>4. r.lease_token \in Nat /\ r.response = NULL
  BY LeasedDisjoint DEF Row, RowOK
<1> HIDE DEF s
<1>5. RowOK(s) /\ RowStep(r, s)
  BY <1>1, <1>2, <1>3, <1>4, ReleaseRow
<1> QED
  BY <1>2, <1>5 DEF s

\* ReclaimExpiredLeases makes a row step of each row whose lease has expired.
LEMMA ReclaimRow ==
  ASSUME NEW r \in Row, RowOK(r), r.state \in LeaseStates,
         ~(r.lease_expires_in > 0), NEW x \in Offsets
  PROVE  LET s == ReclaimedRow(r, x)
         IN  s \in Row /\ RowOK(s) /\ RowStep(r, s)
<1> DEFINE st == IF r.cancel_requested THEN "canceled"
                 ELSE IF AttemptsRemain(r) THEN "queued" ELSE "dead_letter"
           rel == Released(r, st)
           s == ReclaimedRow(r, x)
<1>1. /\ st \in JobStates /\ st \in TerminalStates \cup {"queued"}
      /\ st # "succeeded"
      /\ st = "queued" => AttemptsRemain(r)
  BY StateNames
<1>2. rel \in Row
  BY <1>1, ReleasedType
<1>3. s \in Row
  BY ReclaimedRowType
<1>4. s = [rel EXCEPT !.next_run_in = IF st = "queued" THEN x ELSE @,
                      !.lease_token = @ + 1]
  BY DEF ReclaimedRow
<1>5. /\ s.state = rel.state /\ s.idempotency_key = rel.idempotency_key
      /\ s.attempt = rel.attempt /\ s.max_attempts = rel.max_attempts
      /\ s.request = rel.request
      /\ s.lease_token = rel.lease_token + 1
      /\ s.lease_owner = rel.lease_owner
      /\ s.lease_expires_in = rel.lease_expires_in
      /\ s.response = rel.response
      /\ s.cancel_requested = rel.cancel_requested
  <2> HIDE DEF st, rel, s
  <2> QED BY <1>2, <1>4 DEF Row
<1> HIDE DEF st, s
<1>6. /\ s.state = st /\ s.idempotency_key = r.idempotency_key
      /\ s.attempt = r.attempt /\ s.max_attempts = r.max_attempts
      /\ s.request = r.request
      /\ s.lease_token = r.lease_token + 1 /\ s.lease_owner = NULL
      /\ s.lease_expires_in = NULL /\ s.response = r.response
      /\ s.cancel_requested = r.cancel_requested
  BY <1>5, <1>1, ReleasedFields
<1>7. r.lease_token \in Nat /\ r.response = NULL
  BY LeasedDisjoint DEF Row, RowOK
<1>8. s.state = "queued" => AttemptsRemain(s)
  BY <1>1, <1>6 DEF AttemptsRemain
<1>9. s.lease_token >= r.lease_token
  BY <1>6, <1>7
<1>10. RowOK(s) /\ RowStep(r, s)
  BY <1>1, <1>3, <1>6, <1>7, <1>8, <1>9, ReleaseRow
<1> QED
  BY <1>3, <1>10 DEF s

\* CancelJob makes a row step of any row that exists.
LEMMA CancelRow ==
  ASSUME NEW r \in Row, RowOK(r), r.state # "absent"
  PROVE  LET s == CanceledRow(r)
         IN  s \in Row /\ RowOK(s) /\ RowStep(r, s)
<1> DEFINE s == CanceledRow(r)
           st == IF r.state = "queued" THEN "canceled" ELSE r.state
           c == r.cancel_requested \/ r.state \in {"queued"} \cup LeaseStates
<1>1. s \in Row
  BY CanceledRowType
<1>2. s = [r EXCEPT !.state = st, !.cancel_requested = c]
  BY DEF CanceledRow
<1>3. /\ s.state = st /\ s.idempotency_key = r.idempotency_key
      /\ s.attempt = r.attempt /\ s.max_attempts = r.max_attempts
      /\ s.request = r.request
      /\ s.lease_token = r.lease_token /\ s.lease_owner = r.lease_owner
      /\ s.lease_expires_in = r.lease_expires_in /\ s.response = r.response
      /\ s.cancel_requested = c
  <2> HIDE DEF st, c, s
  <2> QED BY <1>2 DEF Row
<1>4. r.lease_token \in Nat /\ r.cancel_requested \in BOOLEAN
  BY DEF Row
<1>5. CASE r.state \in TerminalStates
  <2>1. /\ st = r.state /\ c = r.cancel_requested
    BY <1>4, <1>5 DEF TerminalStates, LeaseStates
  <2>2. s = r
    <3> HIDE DEF st, c, s
    <3> QED BY <1>2, <2>1 DEF Row
  <2> QED
    BY <1>1, <2>2, RowStepStutter
<1>6. CASE r.state \notin TerminalStates
  <2>1. \/ r.state = "queued" /\ st = "canceled"
        \/ r.state \in LeaseStates /\ st = r.state
    BY <1>6 DEF Row, JobStates
  <2> HIDE DEF st, c, s
  <2>2. RowOK(s)
    BY <1>3, <2>1, LeasedDisjoint
       DEF RowOK, AttemptsRemain, LeaseStates
  <2>3. r.cancel_requested => s.cancel_requested
    BY <1>3 DEF c
  <2>4. RowStep(r, s)
    BY <1>3, <1>4, <1>6, <2>1, <2>3, LeasedDisjoint
       DEF RowStep, LeaseStates
  <2> QED
    BY <1>1, <2>2, <2>4 DEF s
<1> QED
  BY <1>5, <1>6

\* The passage of time makes a row step of every row.
LEMMA AgedRowStep ==
  ASSUME NEW r \in Row, RowOK(r)
  PROVE  LET s == AgedRow(r)
         IN  s \in Row /\ RowOK(s) /\ RowStep(r, s)
<1>1. CASE r.state = "queued"
  <2> DEFINE x == Elapse(r.next_run_in)
             s == [r EXCEPT !.next_run_in = x]
  <2>1. AgedRow(r) = s
    BY <1>1 DEF AgedRow, LeaseStates
  <2>2. x \in Offsets
    BY ElapseType DEF Row
  <2> HIDE DEF x
  <2>3. s \in Row
    BY <2>2 DEF Row
  <2>4. /\ s.state = r.state /\ s.idempotency_key = r.idempotency_key
        /\ s.attempt = r.attempt /\ s.max_attempts = r.max_attempts
        /\ s.request = r.request
        /\ s.lease_token = r.lease_token /\ s.lease_owner = r.lease_owner
        /\ s.lease_expires_in = r.lease_expires_in /\ s.response = r.response
        /\ s.cancel_requested = r.cancel_requested
    BY DEF Row
  <2>5. r.lease_token \in Nat
    BY DEF Row
  <2> HIDE DEF s
  <2>6. RowOK(s)
    BY <1>1, <2>4 DEF RowOK, AttemptsRemain, LeaseStates
  <2>7. RowStep(r, s)
    BY <1>1, <2>4, <2>5 DEF RowStep, LeaseStates, TerminalStates
  <2> QED
    BY <2>1, <2>3, <2>6, <2>7
<1>2. CASE r.state \in LeaseStates
  <2> DEFINE x == Elapse(r.lease_expires_in)
  <2>1. AgedRow(r) = [r EXCEPT !.lease_expires_in = x]
    BY <1>2, LeasedDisjoint DEF AgedRow
  <2>2. r.lease_expires_in \in Offsets
    BY <1>2, NullAssumption DEF RowOK, Row
  <2>3. x \in Offsets
    BY <2>2, ElapseType
  <2> HIDE DEF x
  <2> QED
    BY <1>2, <2>1, <2>3, RenewLeaseRow
<1>3. CASE r.state # "queued" /\ r.state \notin LeaseStates
  <2>1. AgedRow(r) = r
    BY <1>3 DEF AgedRow
  <2> QED
    BY <2>1, RowStepStutter
<1> QED
  BY <1>1, <1>2, <1>3

-----------------------------------------------------------------------------
(* From rows to the table.                                                 *)

\* A step of the table that leases nothing and adds nothing.
RowsStep ==
  /\ jobs' \in [Keys -> Row]
  /\ \A k \in Keys : RowOK(jobs'[k]) /\ RowStep(jobs[k], jobs'[k])
  /\ granted' = granted

\* An UPDATE of one row whose new value is a row step is a step of the table.
LEMMA SetRowStep ==
  ASSUME LedgerInv, NEW k \in Keys, NEW row,
         row \in Row /\ RowOK(row) /\ RowStep(jobs[k], row), SetRow(k, row)
  PROVE  RowsStep /\ UNCHANGED conflicted
<1>1. /\ jobs \in [Keys -> Row] /\ jobs' = [jobs EXCEPT ![k] = row]
      /\ UNCHANGED <<conflicted, granted>>
  BY DEF LedgerInv, TypeOK, SetRow
<1>2. jobs' \in [Keys -> Row]
  BY <1>1
<1>3. ASSUME NEW j \in Keys
      PROVE  RowOK(jobs'[j]) /\ RowStep(jobs[j], jobs'[j])
  <2>1. CASE j = k
    BY <1>1, <2>1
  <2>2. CASE j # k
    <3>1. jobs'[j] = jobs[j] /\ jobs[j] \in Row /\ RowOK(jobs[j])
      BY <1>1, <2>2 DEF LedgerInv
    <3> QED
      BY <3>1, RowStepStutter
  <2> QED
    BY <2>1, <2>2
<1> QED
  BY <1>1, <1>2, <1>3 DEF RowsStep

\* Who holds the lease is looking at a well-formed leased row of the table.
LEMMA HolderRow ==
  ASSUME LedgerInv, NEW f \in granted, NEW lag \in Lags, HoldsLease(f, lag)
  PROVE  /\ f.key \in Keys /\ jobs[f.key] \in Row /\ RowOK(jobs[f.key])
         /\ jobs[f.key].state \in LeaseStates
<1>1. f.key \in Keys
  BY DEF LedgerInv, TypeOK, LeaseFence
<1> QED
  BY <1>1 DEF LedgerInv, TypeOK, HoldsLease

\* MarkRunning is a step of the table, like the other operations below that
\* neither insert nor lease a row.
LEMMA MarkRunningTable ==
  ASSUME LedgerInv, MarkRunningStep
  PROVE  RowsStep /\ UNCHANGED conflicted
<1> PICK f \in granted, lag \in Lags : MarkRunning(f, lag)
  BY DEF MarkRunningStep
<1>1. /\ HoldsLease(f, lag) /\ jobs[f.key].state = "leased"
      /\ ~jobs[f.key].cancel_requested
      /\ SetRow(f.key, [jobs[f.key] EXCEPT !.state = "running"])
  BY DEF MarkRunning
<1>2. f.key \in Keys /\ jobs[f.key] \in Row /\ RowOK(jobs[f.key])
  BY <1>1, HolderRow
<1> QED
  BY <1>1, <1>2, MarkRunningRow, SetRowStep

\* RenewLease is a step of the table: it moves one row, and its fence stays
\* in force.
LEMMA RenewTable ==
  ASSUME LedgerInv, RenewStep
  PROVE  RowsStep /\ UNCHANGED conflicted
<1> PICK f \in granted, duration \in LeaseDurations, lag \in Lags :
           RenewLease(f, duration, lag)
  BY DEF RenewStep
<1>1. /\ HoldsLease(f, lag)
      /\ SetRow(f.key, [jobs[f.key] EXCEPT !.lease_expires_in = duration - lag])
  BY DEF RenewLease
<1>2. /\ f.key \in Keys /\ jobs[f.key] \in Row /\ RowOK(jobs[f.key])
      /\ jobs[f.key].state \in LeaseStates
  BY <1>1, HolderRow
<1>3. duration - lag \in Offsets
  BY DurationAssumption, LagOffset
<1> QED
  BY <1>1, <1>2, <1>3, RenewLeaseRow, SetRowStep

\* CompleteJob is a step of the table.
LEMMA CompleteTable ==
  ASSUME LedgerInv, CompleteStep
  PROVE  RowsStep /\ UNCHANGED conflicted
<1> PICK f \in granted, response \in Responses, lag \in Lags :
           CompleteJob(f, response, lag)
  BY DEF CompleteStep
<1>1. /\ HoldsLease(f, lag)
      /\ SetRow(f.key, [Released(jobs[f.key], "succeeded")
                          EXCEPT !.response = response])
  BY DEF CompleteJob
<1>2. /\ f.key \in Keys /\ jobs[f.key] \in Row /\ RowOK(jobs[f.key])
      /\ jobs[f.key].state \in LeaseStates
  BY <1>1, HolderRow
<1> QED
  BY <1>1, <1>2, CompleteRow, SetRowStep

\* FailJob is a step of the table, whatever branch of its CASE applies.
LEMMA FailTable ==
  ASSUME LedgerInv, FailStep
  PROVE  RowsStep /\ UNCHANGED conflicted
<1> PICK f \in granted, retryable \in BOOLEAN, backoff \in Backoffs,
         code \in FailureCodes, lag \in Lags :
           FailJob(f, retryable, backoff, code, lag)
  BY DEF FailStep
<1>1. /\ HoldsLease(f, lag)
      /\ SetRow(f.key, FailedRow(jobs[f.key], retryable, backoff - lag, code))
  BY DEF FailJob
<1>2. /\ f.key \in Keys /\ jobs[f.key] \in Row /\ RowOK(jobs[f.key])
      /\ jobs[f.key].state \in LeaseStates
  BY <1>1, HolderRow
<1>3. backoff - lag \in Offsets
  BY DurationAssumption, LagOffset
<1> QED
  BY <1>1, <1>2, <1>3, FailRow, SetRowStep

\* AcknowledgeCancellation is a step of the table.
LEMMA AcknowledgeTable ==
  ASSUME LedgerInv, AcknowledgeStep
  PROVE  RowsStep /\ UNCHANGED conflicted
<1> PICK f \in granted, lag \in Lags : AcknowledgeCancellation(f, lag)
  BY DEF AcknowledgeStep
<1>1. /\ HoldsLease(f, lag)
      /\ SetRow(f.key, Released(jobs[f.key], "canceled"))
  BY DEF AcknowledgeCancellation
<1>2. /\ f.key \in Keys /\ jobs[f.key] \in Row /\ RowOK(jobs[f.key])
      /\ jobs[f.key].state \in LeaseStates
  BY <1>1, HolderRow
<1> QED
  BY <1>1, <1>2, AcknowledgeRow, SetRowStep

\* CancelJob is a step of the table.
LEMMA CancelTable ==
  ASSUME LedgerInv, CancelStep
  PROVE  RowsStep /\ UNCHANGED conflicted
<1> PICK k \in Keys : CancelJob(k)
  BY DEF CancelStep
<1>1. /\ jobs[k].state # "absent" /\ SetRow(k, CanceledRow(jobs[k]))
      /\ jobs[k] \in Row /\ RowOK(jobs[k])
  BY DEF CancelJob, Exists, LedgerInv, TypeOK
<1> QED
  BY <1>1, CancelRow, SetRowStep

\* ReclaimExpiredLeases is a step of the table: each picked row is a row
\* step, the others stay.
LEMMA ReclaimTable ==
  ASSUME LedgerInv, ReclaimStep
  PROVE  RowsStep /\ UNCHANGED conflicted
<1> PICK picked \in SUBSET Keys, backoff \in Backoffs, lag \in Lags :
           ReclaimExpiredLeases(picked, backoff, lag)
  BY DEF ReclaimStep
<1>1. /\ \A k \in picked : Expired(k, lag)
      /\ jobs' = [k \in Keys |-> IF k \in picked
                                 THEN ReclaimedRow(jobs[k], backoff - lag)
                                 ELSE jobs[k]]
      /\ UNCHANGED <<conflicted, granted>>
  BY DEF ReclaimExpiredLeases
<1>2. backoff - lag \in Offsets
  BY DurationAssumption, LagOffset
<1>3. ASSUME NEW k \in Keys
      PROVE  /\ jobs'[k] \in Row /\ RowOK(jobs'[k])
             /\ RowStep(jobs[k], jobs'[k])
  <2>1. jobs[k] \in Row /\ RowOK(jobs[k])
    BY DEF LedgerInv, TypeOK
  <2>2. CASE k \in picked
    <3>1. jobs[k].state \in LeaseStates /\ jobs[k].lease_expires_in <= -lag
      BY <1>1, <2>2 DEF Expired, Leased
    <3>2. jobs[k].lease_expires_in \in Int /\ lag \in Nat
      BY <2>1, <3>1, LagAssumption DEF RowOK, Lags
    <3>3. ~(jobs[k].lease_expires_in > 0)
      BY <3>1, <3>2
    <3>4. jobs'[k] = ReclaimedRow(jobs[k], backoff - lag)
      BY <1>1, <2>2
    <3> QED
      BY <1>2, <2>1, <3>1, <3>3, <3>4, ReclaimRow
  <2>3. CASE k \notin picked
    BY <1>1, <2>1, <2>3, RowStepStutter
  <2> QED
    BY <2>2, <2>3
<1>4. jobs' \in [Keys -> Row]
  BY <1>1, <1>3
<1> QED
  BY <1>1, <1>3, <1>4 DEF RowsStep

\* The passage of time is a step of the table.
LEMMA TickTable ==
  ASSUME LedgerInv, Tick
  PROVE  RowsStep /\ UNCHANGED conflicted
<1>1. /\ jobs' = [k \in Keys |-> AgedRow(jobs[k])]
      /\ UNCHANGED <<conflicted, granted>>
  BY DEF Tick
<1>2. ASSUME NEW k \in Keys
      PROVE  /\ jobs'[k] \in Row /\ RowOK(jobs'[k])
             /\ RowStep(jobs[k], jobs'[k])
  BY <1>1, AgedRowStep DEF LedgerInv, TypeOK
<1>3. jobs' \in [Keys -> Row]
  BY <1>1, <1>2
<1> QED
  BY <1>1, <1>2, <1>3 DEF RowsStep

\* Such steps preserve the invariant: tokens only grow, leases are not created,
\* grants and attempts stay as they are.
LEMMA RowsStepInv ==
  ASSUME LedgerInv, RowsStep, conflicted' \subseteq CreateJobInput
  PROVE  LedgerInv'
<1>1. TypeOK'
  BY DEF TypeOK, LedgerInv, RowsStep
<1>2. \A k \in Keys : RowOK(jobs'[k])
  BY DEF RowsStep
<1>3. ASSUME NEW k \in Keys PROVE GrantsOK(k)'
  <2>1. GrantsOK(k) /\ RowStep(jobs[k], jobs'[k]) /\ granted' = granted
    BY DEF LedgerInv, RowsStep
  <2>2. GrantsOf(k)' = GrantsOf(k)
    BY <2>1 DEF GrantsOf
  <2>3. Cardinality(GrantsOf(k)') = jobs'[k].attempt /\ IsFiniteSet(GrantsOf(k)')
    BY <2>1, <2>2 DEF GrantsOK, RowStep
  <2>4. ASSUME NEW f \in GrantsOf(k)'
        PROVE  f.lease_token <= jobs'[k].lease_token
    <3>1. /\ f.lease_token \in Nat
          /\ jobs[k].lease_token \in Nat /\ jobs'[k].lease_token \in Nat
      BY <2>2 DEF GrantsOf, LedgerInv, TypeOK, LeaseFence, RowsStep, Row
    <3>2. f.lease_token <= jobs[k].lease_token
      BY <2>1, <2>2 DEF GrantsOK
    <3>3. jobs'[k].lease_token >= jobs[k].lease_token
      BY <2>1 DEF RowStep
    <3> QED
      BY <3>1, <3>2, <3>3
  <2>5. ASSUME jobs'[k].state \in LeaseStates
        PROVE  Fence(k, jobs'[k]) \in granted'
    BY <2>1, <2>5 DEF GrantsOK, RowStep, Leased, Fence
  <2> QED
    BY <2>3, <2>4, <2>5 DEF GrantsOK, Leased
<1>4. TokensNeverReused'
  BY DEF LedgerInv, RowsStep, TokensNeverReused
<1>5. UniqueIdempotency'
  BY DEF LedgerInv, RowsStep, UniqueIdempotency, RowStep, Exists
<1> QED
  BY <1>1, <1>2, <1>3, <1>4, <1>5 DEF LedgerInv

-----------------------------------------------------------------------------
(* CreateJob and AcquireLeases.                                            *)

\* The fields of a newly inserted row.
LEMMA NewRowFields ==
  ASSUME NEW in \in CreateJobInput
  PROVE  LET s == NewRow(in)
         IN  /\ s.state = "queued" /\ s.idempotency_key = in.idempotency_key
             /\ s.attempt = 0 /\ s.max_attempts = in.max_attempts
             /\ s.request = in.request
             /\ s.lease_owner = NULL /\ s.lease_expires_in = NULL
             /\ s.lease_token = 0 /\ s.response = NULL
BY DEF NewRow, AbsentRow

\* An INSERT that does not conflict preserves the invariant.
LEMMA InsertInv ==
  ASSUME LedgerInv, NEW in \in CreateInputs, CreateJobInsert(in)
  PROVE  LedgerInv'
<1> DEFINE k == InputKey(in)
           row == NewRow(in)
<1>1. in \in CreateJobInput
  BY InputAssumption
<1>2. k \in Keys /\ k[1] = in.tenant_id
  BY <1>1 DEF CreateJobInput, InputKey, Keys
<1>3. /\ ~Exists(k) /\ WithIdempotencyKey(in) = {}
      /\ jobs' = [jobs EXCEPT ![k] = row]
      /\ conflicted' = conflicted /\ granted' = granted
  BY DEF CreateJobInsert, InsertConflicts
<1>4. jobs \in [Keys -> Row] /\ row \in Row
  BY <1>1, NewRowType DEF LedgerInv, TypeOK
<1>5. in.max_attempts \in Nat /\ in.max_attempts > 0
  BY <1>1, AttemptsAssumption DEF CreateJobInput
<1>6. RowOK(row)
  <2> HIDE DEF row
  <2>1. /\ row.state = "queued" /\ row.attempt = 0
        /\ row.max_attempts = in.max_attempts /\ row.lease_owner = NULL
        /\ row.lease_expires_in = NULL /\ row.response = NULL
    BY <1>1, NewRowFields DEF row
  <2> QED
    BY <2>1, <1>5 DEF RowOK, LeaseStates, AttemptsRemain
<1>7. jobs[k].attempt = 0 /\ jobs[k].lease_token = 0
  <2>1. jobs[k] = AbsentRow
    BY <1>2, <1>3 DEF LedgerInv, RowOK, Exists
  <2> QED
    BY <2>1 DEF AbsentRow
<1>8. /\ row.state = "queued" /\ row.attempt = 0 /\ row.lease_token = 0
      /\ row.idempotency_key = in.idempotency_key
  BY <1>1, NewRowFields
<1> HIDE DEF k, row
<1>9. TypeOK'
  BY <1>3, <1>4 DEF TypeOK, LedgerInv
<1>10. \A j \in Keys : RowOK(jobs'[j])
  BY <1>3, <1>4, <1>6 DEF LedgerInv
<1>11. ASSUME NEW j \in Keys PROVE GrantsOK(j)'
  <2>1. GrantsOf(j)' = GrantsOf(j) /\ GrantsOK(j)
    BY <1>3 DEF GrantsOf, LedgerInv
  <2>2. /\ jobs'[j].attempt = jobs[j].attempt
        /\ jobs'[j].lease_token = jobs[j].lease_token
        /\ jobs'[j].state \in LeaseStates => jobs'[j] = jobs[j]
    BY <1>3, <1>4, <1>7, <1>8 DEF LeaseStates
  <2> QED
    BY <1>3, <2>1, <2>2 DEF GrantsOK, Leased
<1>12. TokensNeverReused'
  BY <1>3 DEF LedgerInv, TokensNeverReused
<1>13. ASSUME NEW i \in Keys, NEW j \in Keys, Exists(i)', Exists(j)',
              i[1] = j[1],
              jobs'[i].idempotency_key = jobs'[j].idempotency_key
       PROVE  i = j
  <2>1. \A x \in Keys : x # k => jobs'[x] = jobs[x]
    BY <1>3, <1>4
  <2>2. jobs'[k] = row
    BY <1>2, <1>3, <1>4
  <2>3. \A x \in Keys :
          x # k /\ x[1] = in.tenant_id /\ jobs[x].state # "absent" =>
            jobs[x].idempotency_key # in.idempotency_key
    BY <1>3 DEF WithIdempotencyKey, Exists
  <2>4. CASE i # k /\ j # k
    BY <1>13, <2>1, <2>4 DEF LedgerInv, UniqueIdempotency, Exists
  <2>5. CASE i = k /\ j # k
    BY <1>13, <1>2, <1>8, <2>1, <2>2, <2>3, <2>5 DEF Exists
  <2>6. CASE i # k /\ j = k
    BY <1>13, <1>2, <1>8, <2>1, <2>2, <2>3, <2>6 DEF Exists
  <2> QED
    BY <2>4, <2>5, <2>6
<1>14. UniqueIdempotency'
  BY <1>13 DEF UniqueIdempotency
<1> QED
  BY <1>9, <1>10, <1>11, <1>12, <1>14 DEF LedgerInv

\* The fields of a leased row.
LEMMA LeasedRowFields ==
  ASSUME NEW r \in Row, NEW owner \in Owners, NEW x \in Offsets
  PROVE  LET s == LeasedRow(r, owner, x)
         IN  /\ s.state = "leased" /\ s.idempotency_key = r.idempotency_key
             /\ s.attempt = r.attempt + 1 /\ s.max_attempts = r.max_attempts
             /\ s.request = r.request
             /\ s.lease_owner = owner /\ s.lease_expires_in = x
             /\ s.lease_token = r.lease_token + 1 /\ s.response = r.response
             /\ s.cancel_requested = r.cancel_requested
BY DEF LeasedRow, Row

\* What AcquireLeases does, row by row: the picked rows were queued and get a
\* token above the old one, and exactly their new fences are added.
LEMMA AcquireTable ==
  ASSUME LedgerInv, NEW owner \in Owners, NEW picked \in SUBSET Keys,
         NEW duration \in LeaseDurations, NEW lag \in Lags,
         AcquireLeases(owner, picked, duration, lag)
  PROVE  /\ jobs' \in [Keys -> Row] /\ conflicted' = conflicted
         /\ granted' = granted \cup {Fence(k, jobs'[k]) : k \in picked}
         /\ \A k \in Keys \ picked : jobs'[k] = jobs[k]
         /\ \A k \in picked :
              /\ jobs[k].state = "queued" /\ RowOK(jobs'[k])
              /\ jobs'[k].state = "leased" /\ jobs'[k].lease_owner = owner
              /\ jobs'[k].attempt = jobs[k].attempt + 1
              /\ jobs'[k].max_attempts = jobs[k].max_attempts
              /\ jobs'[k].request = jobs[k].request
              /\ jobs[k].attempt < jobs[k].max_attempts
              /\ jobs'[k].lease_token = jobs[k].lease_token + 1
              /\ jobs'[k].idempotency_key = jobs[k].idempotency_key
              /\ jobs'[k].cancel_requested = jobs[k].cancel_requested
<1> DEFINE new(k) == LeasedRow(jobs[k], owner, duration - lag)
<1>1. duration - lag \in Offsets
  BY DurationAssumption, LagOffset
<1>2. /\ \A k \in picked : Ready(k, lag)
      /\ jobs' = [k \in Keys |-> IF k \in picked THEN new(k) ELSE jobs[k]]
      /\ granted' = granted \cup {Fence(k, new(k)) : k \in picked}
      /\ conflicted' = conflicted
  BY DEF AcquireLeases
<1>3. \A k \in Keys : jobs[k] \in Row /\ RowOK(jobs[k])
  BY DEF LedgerInv, TypeOK
<1>4. \A k \in picked : new(k) \in Row
  BY <1>1, <1>3, LeasedRowType
<1>5. ASSUME NEW k \in picked
      PROVE  /\ jobs[k].state = "queued" /\ RowOK(jobs'[k])
             /\ jobs'[k].state = "leased" /\ jobs'[k].lease_owner = owner
             /\ jobs'[k].attempt = jobs[k].attempt + 1
             /\ jobs'[k].max_attempts = jobs[k].max_attempts
             /\ jobs'[k].request = jobs[k].request
             /\ jobs[k].attempt < jobs[k].max_attempts
             /\ jobs'[k].lease_token = jobs[k].lease_token + 1
             /\ jobs'[k].idempotency_key = jobs[k].idempotency_key
             /\ jobs'[k].cancel_requested = jobs[k].cancel_requested
  <2>1. k \in Keys /\ jobs[k] \in Row /\ RowOK(jobs[k])
    BY <1>3
  <2>2. /\ jobs[k].state = "queued"
        /\ jobs[k].attempt < jobs[k].max_attempts
    BY <1>2 DEF Ready
  <2>3. jobs'[k] = new(k)
    BY <1>2, <2>1
  <2>4. /\ jobs'[k].state = "leased"
        /\ jobs'[k].idempotency_key = jobs[k].idempotency_key
        /\ jobs'[k].attempt = jobs[k].attempt + 1
        /\ jobs'[k].max_attempts = jobs[k].max_attempts
        /\ jobs'[k].request = jobs[k].request
        /\ jobs'[k].lease_owner = owner
        /\ jobs'[k].lease_expires_in = duration - lag
        /\ jobs'[k].lease_token = jobs[k].lease_token + 1
        /\ jobs'[k].response = jobs[k].response
        /\ jobs'[k].cancel_requested = jobs[k].cancel_requested
    BY <1>1, <2>1, <2>3, LeasedRowFields
  <2>5. /\ jobs[k].attempt \in Nat /\ jobs[k].max_attempts \in Nat
        /\ jobs[k].lease_token \in Nat /\ duration - lag \in Int
    BY <1>1, <2>1 DEF Row, Offsets
  <2>6. RowOK(jobs'[k])
    BY <2>1, <2>2, <2>4, <2>5 DEF RowOK, LeaseStates
  <2> QED
    BY <2>2, <2>4, <2>6
<1> HIDE DEF new
<1>6. jobs' \in [Keys -> Row]
  BY <1>2, <1>3, <1>4
<1>7. \A k \in picked : jobs'[k] = new(k)
  BY <1>2
<1>8. {Fence(k, new(k)) : k \in picked} = {Fence(k, jobs'[k]) : k \in picked}
  BY <1>7
<1> QED
  BY <1>2, <1>5, <1>6, <1>8

\* AcquireLeases preserves the invariant: each new fence carries a token above
\* every fence handed out before for its job.
LEMMA AcquireInv ==
  ASSUME LedgerInv, NEW owner \in Owners, NEW picked \in SUBSET Keys,
         NEW duration \in LeaseDurations, NEW lag \in Lags,
         AcquireLeases(owner, picked, duration, lag)
  PROVE  LedgerInv'
<1>1. /\ jobs' \in [Keys -> Row] /\ conflicted' = conflicted
      /\ granted' = granted \cup {Fence(k, jobs'[k]) : k \in picked}
      /\ \A k \in Keys \ picked : jobs'[k] = jobs[k]
      /\ \A k \in picked :
           /\ jobs[k].state = "queued" /\ RowOK(jobs'[k])
           /\ jobs'[k].state = "leased" /\ jobs'[k].lease_owner = owner
           /\ jobs'[k].attempt = jobs[k].attempt + 1
           /\ jobs'[k].max_attempts = jobs[k].max_attempts
           /\ jobs'[k].request = jobs[k].request
           /\ jobs[k].attempt < jobs[k].max_attempts
           /\ jobs'[k].lease_token = jobs[k].lease_token + 1
           /\ jobs'[k].idempotency_key = jobs[k].idempotency_key
           /\ jobs'[k].cancel_requested = jobs[k].cancel_requested
  BY AcquireTable
<1>2. \A k \in Keys : /\ jobs[k] \in Row /\ RowOK(jobs[k])
                      /\ jobs[k].lease_token \in Nat /\ GrantsOK(k)
  BY DEF LedgerInv, TypeOK, Row
<1>3. \A f \in granted : f \in LeaseFence /\ f.key \in Keys
                         /\ f.lease_token \in Nat
  BY DEF LedgerInv, TypeOK, LeaseFence
<1>4. \A k \in picked : /\ Fence(k, jobs'[k]) \in LeaseFence
                        /\ Fence(k, jobs'[k]).key = k
                        /\ Fence(k, jobs'[k]).lease_token =
                             jobs[k].lease_token + 1
  BY <1>1, <1>2 DEF Fence, LeaseFence
<1>5. \A f \in granted : f.lease_token <= jobs[f.key].lease_token
  BY <1>2, <1>3 DEF GrantsOK, GrantsOf
<1>6. TypeOK'
  BY <1>1, <1>3, <1>4 DEF TypeOK, LedgerInv
<1>7. \A k \in Keys : RowOK(jobs'[k])
  BY <1>1, <1>2
<1>8. ASSUME NEW k \in Keys PROVE GrantsOK(k)'
  <2>1. CASE k \in picked
    <3> DEFINE new == Fence(k, jobs'[k])
    <3>1. GrantsOf(k)' = GrantsOf(k) \cup {new}
      BY <1>1, <1>4, <2>1 DEF GrantsOf
    <3>2. new \notin GrantsOf(k)
      BY <1>2, <1>4, <1>5, <1>3, <2>1 DEF GrantsOf
    <3>3. IsFiniteSet(GrantsOf(k)) /\ Cardinality(GrantsOf(k)) = jobs[k].attempt
      BY <1>2 DEF GrantsOK
    <3>4. /\ IsFiniteSet(GrantsOf(k)')
          /\ Cardinality(GrantsOf(k)') = jobs'[k].attempt
      <4> HIDE DEF new
      <4>1. /\ IsFiniteSet(GrantsOf(k) \cup {new})
            /\ Cardinality(GrantsOf(k) \cup {new}) = Cardinality(GrantsOf(k)) + 1
        BY <3>2, <3>3, FS_AddElement
      <4> QED
        BY <1>1, <2>1, <3>1, <3>3, <4>1
    <3>5. ASSUME NEW f \in GrantsOf(k)'
          PROVE  f.lease_token <= jobs'[k].lease_token
      <4>1. CASE f = new
        BY <1>1, <1>2, <1>4, <2>1, <4>1
      <4>2. CASE f \in GrantsOf(k)
        <5>1. f \in granted /\ f.key = k
          BY <4>2 DEF GrantsOf
        <5>2. f.lease_token <= jobs[k].lease_token
          BY <5>1, <1>5
        <5> QED
          BY <5>1, <5>2, <1>1, <1>2, <1>3, <2>1
      <4> QED
        BY <3>1, <4>1, <4>2
    <3>6. new \in granted'
      BY <1>1, <2>1
    <3> QED
      BY <3>4, <3>5, <3>6 DEF GrantsOK
  <2>2. CASE k \notin picked
    <3>1. GrantsOf(k)' = GrantsOf(k)
      BY <1>1, <1>4, <2>2 DEF GrantsOf
    <3>2. jobs'[k] = jobs[k] /\ granted \subseteq granted'
      BY <1>1, <2>2
    <3> QED
      BY <1>2, <3>1, <3>2 DEF GrantsOK, Leased
  <2> QED
    BY <2>1, <2>2
<1>9. ASSUME NEW f \in granted', NEW g \in granted', f.key = g.key,
             f.lease_token = g.lease_token
      PROVE  f = g
  <2>1. ASSUME NEW h \in granted'
        PROVE  \/ h \in granted /\ h.lease_token <= jobs[h.key].lease_token
               \/ /\ h.key \in picked /\ h = Fence(h.key, jobs'[h.key])
                  /\ h.lease_token = jobs[h.key].lease_token + 1
    <3>1. CASE h \in granted
      BY <1>5, <3>1
    <3>2. CASE h \in {Fence(k, jobs'[k]) : k \in picked}
      <4>1. PICK k \in picked : h = Fence(k, jobs'[k])
        BY <3>2
      <4>2. h.key = k /\ h.lease_token = jobs[k].lease_token + 1
        BY <4>1, <1>4
      <4> QED
        BY <4>1, <4>2
    <3> QED
      BY <1>1, <3>1, <3>2
  <2>2. CASE f \in granted /\ g \in granted
    BY <1>9, <2>2 DEF LedgerInv, TokensNeverReused
  <2>3. CASE f \notin granted /\ g \notin granted
    BY <1>9, <2>1, <2>3
  <2>4. CASE f \in granted /\ g \notin granted
    <3>1. g.key \in picked /\ g.lease_token = jobs[g.key].lease_token + 1
      BY <2>1, <2>4
    <3>2. f.lease_token <= jobs[f.key].lease_token /\ f.lease_token \in Nat
      BY <1>3, <1>5, <2>4
    <3> QED
      BY <3>1, <3>2, <1>2, <1>9
  <2>5. CASE f \notin granted /\ g \in granted
    <3>1. f.key \in picked /\ f.lease_token = jobs[f.key].lease_token + 1
      BY <2>1, <2>5
    <3>2. g.lease_token <= jobs[g.key].lease_token /\ g.lease_token \in Nat
      BY <1>3, <1>5, <2>5
    <3> QED
      BY <3>1, <3>2, <1>2, <1>9
  <2> QED
    BY <2>2, <2>3, <2>4, <2>5
<1>10. UniqueIdempotency'
  <2>1. \A k \in Keys : /\ jobs'[k].idempotency_key = jobs[k].idempotency_key
                        /\ jobs'[k].state # "absent" => jobs[k].state # "absent"
    BY <1>1
  <2> QED
    BY <2>1 DEF LedgerInv, UniqueIdempotency, Exists
<1> QED
  BY <1>6, <1>7, <1>8, <1>9, <1>10 DEF LedgerInv, TokensNeverReused

-----------------------------------------------------------------------------
(* The invariant holds.                                                    *)

\* The empty table satisfies the invariant.
LEMMA InitInv == Init => LedgerInv
<1> SUFFICES ASSUME Init PROVE LedgerInv
  OBVIOUS
<1>1. /\ \A k \in Keys : jobs[k] = AbsentRow
      /\ conflicted = {} /\ granted = {}
  BY DEF Init
<1>2. TypeOK
  BY AbsentRowType DEF Init, TypeOK
<1>3. RowOK(AbsentRow)
  BY DEF RowOK, AbsentRow, LeaseStates
<1>4. \A k \in Keys : GrantsOK(k)
  <2> TAKE k \in Keys
  <2>1. GrantsOf(k) = {}
    BY <1>1 DEF GrantsOf
  <2>2. jobs[k].attempt = 0 /\ jobs[k].state = "absent"
    BY <1>1 DEF AbsentRow
  <2> QED
    BY <2>1, <2>2, FS_EmptySet DEF GrantsOK, Leased, LeaseStates
<1>5. TokensNeverReused
  BY <1>1 DEF TokensNeverReused
<1>6. UniqueIdempotency
  <2>1. \A k \in Keys : ~Exists(k)
    BY <1>1 DEF Exists, AbsentRow
  <2> QED
    BY <2>1 DEF UniqueIdempotency
<1> QED
  BY <1>1, <1>2, <1>3, <1>4, <1>5, <1>6 DEF LedgerInv

\* Every operation preserves it.
LEMMA NextInv ==
  ASSUME LedgerInv, [Next]_vars
  PROVE  LedgerInv'
<1>0. conflicted \subseteq CreateJobInput
  BY DEF LedgerInv, TypeOK
<1>1. CASE CreateJobStep
  <2>1. CASE \E in \in CreateInputs : CreateJobInsert(in)
    BY <2>1, InsertInv
  <2>2. ASSUME NEW in \in CreateInputs, CreateJobConflict(in)
        PROVE  LedgerInv'
    <3>1. /\ jobs' = jobs /\ granted' = granted
          /\ conflicted' \subseteq CreateJobInput
      BY <1>0, <2>2, InputAssumption DEF CreateJobConflict
    <3>2. RowsStep
      BY <3>1, RowStepStutter DEF RowsStep, LedgerInv, TypeOK
    <3> QED
      BY <3>1, <3>2, RowsStepInv
  <2>3. ASSUME NEW in \in conflicted, CreateJobLoad(in)
        PROVE  LedgerInv'
    <3>1. /\ jobs' = jobs /\ granted' = granted
          /\ conflicted' \subseteq CreateJobInput
      BY <1>0, <2>3 DEF CreateJobLoad
    <3>2. RowsStep
      BY <3>1, RowStepStutter DEF RowsStep, LedgerInv, TypeOK
    <3> QED
      BY <3>1, <3>2, RowsStepInv
  <2> QED
    BY <1>1, <2>1, <2>2, <2>3 DEF CreateJobStep
<1>2. CASE AcquireStep
  BY <1>2, AcquireInv DEF AcquireStep
<1>3. CASE MarkRunningStep
  BY <1>0, <1>3, MarkRunningTable, RowsStepInv
<1>4. CASE RenewStep
  BY <1>0, <1>4, RenewTable, RowsStepInv
<1>5. CASE CompleteStep
  BY <1>0, <1>5, CompleteTable, RowsStepInv
<1>6. CASE FailStep
  BY <1>0, <1>6, FailTable, RowsStepInv
<1>7. CASE AcknowledgeStep
  BY <1>0, <1>7, AcknowledgeTable, RowsStepInv
<1>8. CASE CancelStep
  BY <1>0, <1>8, CancelTable, RowsStepInv
<1>9. CASE ReclaimStep
  BY <1>0, <1>9, ReclaimTable, RowsStepInv
<1>10. CASE Tick
  BY <1>0, <1>10, TickTable, RowsStepInv
<1>11. CASE UNCHANGED vars
  <2>1. jobs' = jobs /\ granted' = granted /\ conflicted' = conflicted
    BY <1>11 DEF vars
  <2>2. RowsStep
    BY <2>1, RowStepStutter DEF RowsStep, LedgerInv, TypeOK
  <2> QED
    BY <1>0, <2>1, <2>2, RowsStepInv
<1> QED
  BY <1>1, <1>2, <1>3, <1>4, <1>5, <1>6, <1>7, <1>8, <1>9, <1>10, <1>11
     DEF Next

\* The ledger keeps its inductive invariant: rows stay well formed, tokens stay
\* above every fence handed out, and tenants' idempotency keys stay unique.
THEOREM LedgerInvariant == Spec => []LedgerInv
<1>1. Init => LedgerInv
  BY InitInv
<1>2. LedgerInv /\ [Next]_vars => LedgerInv'
  BY NextInv
<1> QED
  BY <1>1, <1>2, PTL DEF Spec

\* The table always satisfies its types.
THEOREM TypeCorrect == Spec => []TypeOK
<1>1. LedgerInv => TypeOK
  BY DEF LedgerInv
<1> QED
  BY <1>1, LedgerInvariant, PTL

\* No UPDATE of the repository can violate chk_durable_jobs_lease_state.
THEOREM LeaseStateCheckHolds == Spec => []LeaseStateCheck
<1>1. LedgerInv => LeaseStateCheck
  BY DEF LedgerInv, LeaseStateCheck, RowOK, Leased
<1> QED
  BY <1>1, LedgerInvariant, PTL

\* A queued job can always still be acquired.
THEOREM NoJobStranded == Spec => []NoStrandedJob
<1>1. LedgerInv => NoStrandedJob
  BY DEF LedgerInv, NoStrandedJob, RowOK
<1> QED
  BY <1>1, LedgerInvariant, PTL

\* AcquireLeases gives out exactly `attempt' leases of a job, at most
\* max_attempts of them.
THEOREM BudgetKept == Spec => []GrantsWithinBudget
<1>1. LedgerInv => GrantsWithinBudget
  BY DEF LedgerInv, GrantsWithinBudget, GrantsOK, RowOK
<1> QED
  BY <1>1, LedgerInvariant, PTL

\* AcquireLeases never gives the same token of a job out twice.
THEOREM TokensUnique == Spec => []TokensNeverReused
<1>1. LedgerInv => TokensNeverReused
  BY DEF LedgerInv
<1> QED
  BY <1>1, LedgerInvariant, PTL

\* The lease in force was granted, and no other fence is as new.
THEOREM NewestLeaseInForce == Spec => []CurrentLeaseIsNewest
<1>1. LedgerInv => CurrentLeaseIsNewest
  BY DEF LedgerInv, CurrentLeaseIsNewest, GrantsOK
<1> QED
  BY <1>1, LedgerInvariant, PTL

\* A tenant's idempotency key names at most one job.
THEOREM IdempotencyUnique == Spec => []UniqueIdempotency
<1>1. LedgerInv => UniqueIdempotency
  BY DEF LedgerInv
<1> QED
  BY <1>1, LedgerInvariant, PTL

\* Only succeeded jobs have a response, and all of them do.
THEOREM ResponsesMatch == Spec => []ResponseIffSucceeded
<1>1. LedgerInv => ResponseIffSucceeded
  BY DEF LedgerInv, ResponseIffSucceeded, RowOK
<1> QED
  BY <1>1, LedgerInvariant, PTL

-----------------------------------------------------------------------------
(* What a step may never do.                                               *)

\* A step leaves each row alone, makes a row step of it, creates it, or leases
\* it from the queue under the next token.
Inserted(r, s) == r.state = "absent" /\ s.state = "queued"
Acquired(r, s) == /\ r.state = "queued" /\ s.state = "leased"
                  /\ s.lease_token = r.lease_token + 1
                  /\ s.cancel_requested = r.cancel_requested
                  /\ s.idempotency_key = r.idempotency_key
                  /\ s.request = r.request /\ s.max_attempts = r.max_attempts

\* Every step of the ledger treats each row in one of these ways.
LEMMA StepOfRow ==
  ASSUME LedgerInv, [Next]_vars, NEW k \in Keys
  PROVE  \/ RowStep(jobs[k], jobs'[k])
         \/ Inserted(jobs[k], jobs'[k])
         \/ Acquired(jobs[k], jobs'[k])
<1>0. jobs \in [Keys -> Row] /\ jobs[k] \in Row /\ RowOK(jobs[k])
  BY DEF LedgerInv, TypeOK
<1>1. CASE jobs' = jobs
  BY <1>0, <1>1, RowStepStutter
<1>2. ASSUME NEW in \in CreateInputs, CreateJobInsert(in)
      PROVE  RowStep(jobs[k], jobs'[k]) \/ Inserted(jobs[k], jobs'[k])
  <2>1. in \in CreateJobInput /\ InputKey(in) \in Keys
    BY InputAssumption DEF CreateJobInput, InputKey, Keys
  <2>2. /\ jobs[InputKey(in)].state = "absent"
        /\ jobs' = [jobs EXCEPT ![InputKey(in)] = NewRow(in)]
    BY <1>2 DEF CreateJobInsert, InsertConflicts, Exists
  <2>3. NewRow(in).state = "queued"
    BY <2>1, NewRowFields
  <2>4. CASE k = InputKey(in)
    BY <1>0, <2>2, <2>3, <2>4 DEF Inserted
  <2>5. CASE k # InputKey(in)
    BY <1>0, <2>2, <2>5, RowStepStutter
  <2> QED
    BY <2>4, <2>5
<1>3. CASE AcquireStep
  <2>1. PICK owner \in Owners, picked \in SUBSET Keys,
             duration \in LeaseDurations, lag \in Lags :
               AcquireLeases(owner, picked, duration, lag)
    BY <1>3 DEF AcquireStep
  <2>2. CASE k \in picked
    <3>1. \A j \in picked :
            /\ jobs[j].state = "queued" /\ RowOK(jobs'[j])
            /\ jobs'[j].state = "leased" /\ jobs'[j].lease_owner = owner
            /\ jobs'[j].attempt = jobs[j].attempt + 1
            /\ jobs'[j].max_attempts = jobs[j].max_attempts
            /\ jobs'[j].request = jobs[j].request
            /\ jobs[j].attempt < jobs[j].max_attempts
            /\ jobs'[j].lease_token = jobs[j].lease_token + 1
            /\ jobs'[j].idempotency_key = jobs[j].idempotency_key
            /\ jobs'[j].cancel_requested = jobs[j].cancel_requested
      BY <2>1, AcquireTable
    <3> QED
      BY <2>2, <3>1 DEF Acquired
  <2>3. CASE k \notin picked
    <3>1. jobs' = [j \in Keys |-> IF j \in picked
                                  THEN LeasedRow(jobs[j], owner, duration - lag)
                                  ELSE jobs[j]]
      BY <2>1 DEF AcquireLeases
    <3>2. jobs'[k] = jobs[k]
      BY <2>3, <3>1
    <3> QED
      BY <1>0, <3>2, RowStepStutter
  <2> QED
    BY <2>2, <2>3
<1>4. CASE \/ MarkRunningStep \/ RenewStep \/ CompleteStep \/ FailStep
           \/ AcknowledgeStep \/ CancelStep \/ ReclaimStep \/ Tick
  <2>1. RowsStep
    BY <1>4, MarkRunningTable, RenewTable, CompleteTable, FailTable,
       AcknowledgeTable, CancelTable, ReclaimTable, TickTable
  <2> QED
    BY <2>1 DEF RowsStep
<1> QED
  BY <1>1, <1>2, <1>3, <1>4
     DEF Next, CreateJobStep, CreateJobConflict, CreateJobLoad, vars

\* Terminal jobs never change.
THEOREM TerminalStaysFrozen == Spec => TerminalFrozen
<1>1. ASSUME LedgerInv, [Next]_vars, NEW k \in Keys, Terminal(k)
      PROVE  jobs'[k] = jobs[k]
  BY <1>1, StepOfRow
     DEF Terminal, RowStep, Inserted, Acquired, TerminalStates
<1>2. LedgerInv /\ [Next]_vars =>
        [\A k \in Keys : Terminal(k) => jobs'[k] = jobs[k]]_vars
  BY <1>1
<1> QED
  BY <1>2, LedgerInvariant, PTL DEF Spec, TerminalFrozen

\* A step of the ledger never makes a fence match its row again.
LEMMA StaleKept ==
  ASSUME LedgerInv, [Next]_vars, NEW f \in granted, ~HasLease(f, jobs[f.key])
  PROVE  ~HasLease(f, jobs'[f.key])
<1> DEFINE k == f.key
           r == jobs[k]
           s == jobs'[k]
<1>1. /\ k \in Keys /\ f.lease_token \in Nat
      /\ f.lease_token <= r.lease_token /\ r.lease_token \in Nat
  <2>1. f \in LeaseFence
    BY DEF LedgerInv, TypeOK
  <2>2. k \in Keys /\ f.lease_token \in Nat
    BY <2>1 DEF LeaseFence
  <2>3. f \in GrantsOf(k) /\ GrantsOK(k)
    BY <2>2 DEF GrantsOf, LedgerInv
  <2> QED
    BY <2>2, <2>3 DEF GrantsOK, LedgerInv, TypeOK, Row
<1>2. HasLease(f, s) => s.state \in LeaseStates /\ s.lease_token = f.lease_token
                        /\ f = Fence(k, s)
  BY DEF HasLease, Fence
<1>3. CASE RowStep(r, s)
  BY <1>2, <1>3 DEF RowStep, HasLease, Fence
<1>4. CASE Inserted(r, s)
  BY <1>2, <1>4 DEF Inserted, LeaseStates
<1>5. CASE Acquired(r, s)
  <2>1. s.lease_token = r.lease_token + 1
    BY <1>5 DEF Acquired
  <2> QED
    BY <1>1, <1>2, <2>1
<1> QED
  BY <1>1, <1>3, <1>4, <1>5, StepOfRow

\* A fence that lost its lease never gets it back.
THEOREM StaleFencesStayStale == Spec => StaleStaysStale
<1> DEFINE Stale == \A f \in granted :
             ~HasLease(f, jobs[f.key]) => ~HasLease(f, jobs'[f.key])
<1>1. ASSUME LedgerInv, [Next]_vars, NEW f \in granted,
             ~HasLease(f, jobs[f.key])
      PROVE  ~HasLease(f, jobs'[f.key])
  BY <1>1, StaleKept
<1>2. LedgerInv /\ [Next]_vars => [Stale]_vars
  BY <1>1
<1> QED
  BY <1>2, LedgerInvariant, PTL DEF Spec, StaleStaysStale

\* A step of the ledger keeps cancellation intent and does not start such a job.
LEMMA IntentKept ==
  ASSUME LedgerInv, [Next]_vars, NEW k \in Keys, jobs[k].cancel_requested
  PROVE  /\ jobs'[k].cancel_requested
         /\ jobs'[k].state = "running" => jobs[k].state = "running"
<1>1. ~Inserted(jobs[k], jobs'[k])
  <2>1. jobs[k].state # "absent"
    BY DEF LedgerInv, RowOK, AbsentRow
  <2> QED
    BY <2>1 DEF Inserted
<1>2. CASE RowStep(jobs[k], jobs'[k])
  BY <1>2 DEF RowStep
<1>3. CASE Acquired(jobs[k], jobs'[k])
  BY <1>3 DEF Acquired
<1> QED
  BY <1>1, <1>2, <1>3, StepOfRow

\* Cancellation intent stays, and no lease takes such a job to running.
THEOREM IntentStopsStarts == Spec => IntentBlocksStart
<1> DEFINE Blocked == \A k \in Keys :
             jobs[k].cancel_requested =>
               /\ jobs'[k].cancel_requested
               /\ jobs'[k].state = "running" => jobs[k].state = "running"
<1>1. ASSUME LedgerInv, [Next]_vars, NEW k \in Keys, jobs[k].cancel_requested
      PROVE  /\ jobs'[k].cancel_requested
             /\ jobs'[k].state = "running" => jobs[k].state = "running"
  BY <1>1, IntentKept
<1>2. LedgerInv /\ [Next]_vars => [Blocked]_vars
  BY <1>1
<1> QED
  BY <1>2, LedgerInvariant, PTL DEF Spec, IntentBlocksStart

\* What made the INSERT of a CreateJob call conflict is there as long as the call
\* is between its statements: rows are neither deleted nor renamed.
ConflictsRemain == \A in \in conflicted : InsertConflicts(in)

\* A row that exists keeps existing under its idempotency key.
LEMMA ConflictPersists ==
  ASSUME LedgerInv, [Next]_vars, NEW in \in CreateJobInput, InsertConflicts(in)
  PROVE  InsertConflicts(in)'
<1>1. ASSUME NEW k \in Keys, jobs[k].state # "absent"
      PROVE  /\ jobs'[k].state # "absent"
             /\ jobs'[k].idempotency_key = jobs[k].idempotency_key
  BY <1>1, StepOfRow DEF RowStep, Inserted, Acquired
<1>2. InputKey(in) \in Keys
  BY DEF InputKey, CreateJobInput, Keys
<1>3. CASE jobs[InputKey(in)].state # "absent"
  BY <1>1, <1>2, <1>3 DEF InsertConflicts, Exists
<1>4. CASE WithIdempotencyKey(in) # {}
  <2>1. PICK k \in Keys : /\ jobs[k].state # "absent" /\ k[1] = in.tenant_id
                          /\ jobs[k].idempotency_key = in.idempotency_key
    BY <1>4 DEF WithIdempotencyKey, Exists
  <2>2. k \in WithIdempotencyKey(in)'
    BY <1>1, <2>1 DEF WithIdempotencyKey, Exists
  <2> QED
    BY <2>2 DEF InsertConflicts
<1> QED
  BY <1>3, <1>4 DEF InsertConflicts, Exists

\* The SELECT of CreateJob still finds what made the INSERT conflict, and the
\* answer is the right one.
THEOREM CreateJobAnswersHold == Spec => []CreateJobAnswers
<1>1. Init => ConflictsRemain
  BY DEF Init, ConflictsRemain
<1>2. ASSUME LedgerInv, ConflictsRemain, [Next]_vars PROVE ConflictsRemain'
  <2> SUFFICES ASSUME NEW in \in conflicted' PROVE InsertConflicts(in)'
    BY DEF ConflictsRemain
  <2>1. CASE in \in conflicted
    BY <1>2, <2>1, ConflictPersists DEF ConflictsRemain, LedgerInv, TypeOK
  <2>2. CASE in \notin conflicted
    <3>1. PICK i \in CreateInputs : CreateJobConflict(i)
      <4>1. ~Tick /\ ~AcquireStep /\ ~MarkRunningStep /\ ~RenewStep /\ ~CompleteStep
        BY <2>2 DEF Tick, AcquireStep, AcquireLeases, MarkRunningStep, MarkRunning,
              RenewStep, RenewLease, CompleteStep, CompleteJob, SetRow
      <4>2. ~FailStep /\ ~AcknowledgeStep /\ ~CancelStep /\ ~ReclaimStep
        BY <2>2 DEF FailStep, FailJob, AcknowledgeStep, AcknowledgeCancellation,
              CancelStep, CancelJob, ReclaimStep, ReclaimExpiredLeases, SetRow
      <4>3. ~UNCHANGED vars
        BY <2>2 DEF vars
      <4> QED
        BY <1>2, <2>2, <4>1, <4>2, <4>3
        DEF Next, CreateJobStep, CreateJobInsert, CreateJobLoad
    <3>2. in = i /\ InsertConflicts(in) /\ in \in CreateJobInput
      BY <2>2, <3>1, InputAssumption DEF CreateJobConflict
    <3> QED
      BY <1>2, <3>2, ConflictPersists
  <2> QED
    BY <2>1, <2>2
<1>3. ASSUME LedgerInv, ConflictsRemain PROVE CreateJobAnswers
  <2> SUFFICES ASSUME NEW in \in conflicted
               PROVE  LET out == CreateJobOutcome(in)
                      IN  CASE out.error = "nil" ->
                                 /\ Exists(out.job) /\ out.job[1] = in.tenant_id
                                 /\ jobs[out.job].idempotency_key = in.idempotency_key
                                 /\ SameFingerprint(in, jobs[out.job])
                            [] out.error = "ErrIdempotencyConflict" ->
                                 \E id \in JobIDs :
                                   LET row == jobs[<<in.tenant_id, id>>]
                                   IN  /\ row.idempotency_key = in.idempotency_key
                                       /\ ~SameFingerprint(in, row)
                            [] out.error = "ErrJobIDConflict" -> Exists(InputKey(in))
    BY DEF CreateJobAnswers
  <2> DEFINE found == WithIdempotencyKey(in)
             k == CHOOSE x \in found : TRUE
             out == CreateJobOutcome(in)
  <2>1. CASE found = {}
    <3>1. out = [error |-> "ErrJobIDConflict", job |-> NULL]
      BY <2>1 DEF CreateJobOutcome
    <3>2. Exists(InputKey(in))
      BY <1>3, <2>1 DEF ConflictsRemain, InsertConflicts
    <3> QED
      BY <3>1, <3>2
  <2>2. CASE found # {}
    <3>1. k \in found
      BY <2>2
    <3>2. /\ k \in Keys /\ Exists(k) /\ k[1] = in.tenant_id
          /\ jobs[k].idempotency_key = in.idempotency_key
      BY <3>1 DEF WithIdempotencyKey
    <3>3. k[2] \in JobIDs /\ k = <<in.tenant_id, k[2]>>
      BY <3>2 DEF Keys
    <3>4. out = IF SameFingerprint(in, jobs[k]) THEN [error |-> "nil", job |-> k]
                ELSE [error |-> "ErrIdempotencyConflict", job |-> NULL]
      BY <2>2 DEF CreateJobOutcome
    <3> HIDE DEF k, out
    <3>5. CASE SameFingerprint(in, jobs[k])
      BY <3>2, <3>4, <3>5 DEF out
    <3>6. CASE ~SameFingerprint(in, jobs[k])
      <4>1. out.error = "ErrIdempotencyConflict"
        BY <3>4, <3>6
      <4>2. \E id \in JobIDs :
              /\ jobs[<<in.tenant_id, id>>].idempotency_key = in.idempotency_key
              /\ ~SameFingerprint(in, jobs[<<in.tenant_id, id>>])
        BY <3>2, <3>3, <3>6
      <4> QED
        BY <4>1, <4>2 DEF out
    <3> QED
      BY <3>5, <3>6
  <2> QED
    BY <2>1, <2>2
<1> QED
  BY <1>1, <1>2, <1>3, LedgerInvariant, PTL DEF Spec

\* A row that exists keeps its idempotency key and its fingerprint.
LEMMA IdentityKept ==
  ASSUME LedgerInv, [Next]_vars, NEW k \in Keys, Exists(k)
  PROVE  /\ Exists(k)'
         /\ jobs'[k].idempotency_key = jobs[k].idempotency_key
         /\ \A in \in CreateJobInput :
              SameFingerprint(in, jobs'[k]) <=> SameFingerprint(in, jobs[k])
<1>1. \/ RowStep(jobs[k], jobs'[k]) \/ Inserted(jobs[k], jobs'[k])
      \/ Acquired(jobs[k], jobs'[k])
  BY StepOfRow
<1> QED
  BY <1>1 DEF RowStep, Inserted, Acquired, Exists, SameFingerprint

\* What CreateJob answers once the one job of the caller's key is known.
LEMMA OutcomeOfKey ==
  ASSUME NEW in \in CreateJobInput, NEW k, WithIdempotencyKey(in) = {k}
  PROVE  CreateJobOutcome(in) =
           IF SameFingerprint(in, jobs[k]) THEN [error |-> "nil", job |-> k]
           ELSE [error |-> "ErrIdempotencyConflict", job |-> NULL]
<1>1. (CHOOSE x \in WithIdempotencyKey(in) : TRUE) = k
  OBVIOUS
<1> QED
  BY <1>1 DEF CreateJobOutcome

\* A tenant's idempotency key finds one job at most.
LEMMA KeyFindsOne ==
  ASSUME UniqueIdempotency, NEW in \in CreateJobInput,
         NEW k \in WithIdempotencyKey(in)
  PROVE  WithIdempotencyKey(in) = {k}
BY DEF UniqueIdempotency, WithIdempotencyKey

\* A repeated CreateJob is answered alike: rows are never deleted, a row keeps
\* what identifies it, and nobody else gets the key.
THEOREM RetriesAnsweredAlike == Spec => RetryAnswersAlike
<1> DEFINE Alike == \A in \in CreateInputs :
             /\ CreateJobInsert(in) =>
                  CreateJobOutcome(in)' = [error |-> "nil", job |-> InputKey(in)]
             /\ WithIdempotencyKey(in) # {} =>
                  CreateJobOutcome(in)' = CreateJobOutcome(in)
<1>1. ASSUME LedgerInv, LedgerInv', NEW in \in CreateInputs, CreateJobInsert(in)
      PROVE  CreateJobOutcome(in)' = [error |-> "nil", job |-> InputKey(in)]
  <2>1. in \in CreateJobInput /\ InputKey(in) \in Keys
        /\ InputKey(in)[1] = in.tenant_id
    BY InputAssumption DEF CreateJobInput, InputKey, Keys
  <2>2. jobs'[InputKey(in)] = NewRow(in)
    BY <1>1, <2>1 DEF CreateJobInsert, LedgerInv, TypeOK
  <2>3. /\ NewRow(in).state = "queued" /\ SameFingerprint(in, NewRow(in))
        /\ NewRow(in).idempotency_key = in.idempotency_key
    BY <2>1, NewRowFields DEF SameFingerprint
  <2>4. InputKey(in) \in WithIdempotencyKey(in)'
    BY <2>1, <2>2, <2>3 DEF WithIdempotencyKey, Exists
  <2>5. WithIdempotencyKey(in)' = {InputKey(in)}
    BY <1>1, <2>1, <2>4 DEF LedgerInv, UniqueIdempotency, WithIdempotencyKey
  <2>6. (CHOOSE x \in WithIdempotencyKey(in)' : TRUE) = InputKey(in)
    BY <2>5
  <2> QED
    BY <2>2, <2>3, <2>5, <2>6 DEF CreateJobOutcome
<1>2. ASSUME LedgerInv, LedgerInv', [Next]_vars, NEW in \in CreateInputs,
             WithIdempotencyKey(in) # {}
      PROVE  CreateJobOutcome(in)' = CreateJobOutcome(in)
  <2>1. PICK k : k \in WithIdempotencyKey(in)
    BY <1>2
  <2>2. /\ in \in CreateJobInput /\ k \in Keys /\ Exists(k)
        /\ k[1] = in.tenant_id /\ jobs[k].idempotency_key = in.idempotency_key
    BY <2>1, InputAssumption DEF WithIdempotencyKey
  <2>3. k \in WithIdempotencyKey(in)'
    BY <1>2, <2>2, IdentityKept DEF WithIdempotencyKey
  <2>4. WithIdempotencyKey(in) = {k}
    BY <1>2, <2>1, <2>2, KeyFindsOne DEF LedgerInv
  <2>5. WithIdempotencyKey(in)' = {k}
    BY <1>2, <2>2, <2>3 DEF LedgerInv, UniqueIdempotency, WithIdempotencyKey
  <2>6. SameFingerprint(in, jobs'[k]) <=> SameFingerprint(in, jobs[k])
    BY <1>2, <2>2, IdentityKept
  <2>7. (CHOOSE x \in WithIdempotencyKey(in)' : TRUE) = k
    BY <2>5
  <2>8. CreateJobOutcome(in)' =
          IF SameFingerprint(in, jobs'[k]) THEN [error |-> "nil", job |-> k]
          ELSE [error |-> "ErrIdempotencyConflict", job |-> NULL]
    BY <2>5, <2>7 DEF CreateJobOutcome, SameFingerprint
  <2> QED
    BY <2>2, <2>4, <2>6, <2>8, OutcomeOfKey
<1>3. LedgerInv /\ LedgerInv' /\ [Next]_vars => [Alike]_vars
  BY <1>1, <1>2
<1> QED
  BY <1>3, LedgerInvariant, PTL DEF Spec, RetryAnswersAlike

-----------------------------------------------------------------------------
(* The ledger implements the lease queue.                                  *)

\* Only CancelJob takes a job out of the queue without leasing it.
LEMMA QueuedStays ==
  ASSUME LedgerInv,
         \/ MarkRunningStep \/ RenewStep \/ CompleteStep \/ FailStep
         \/ AcknowledgeStep \/ ReclaimStep \/ Tick,
         NEW k \in Keys, jobs[k].state = "queued"
  PROVE  jobs'[k].state = "queued"
<1>0. jobs \in [Keys -> Row] /\ "queued" \notin LeaseStates
  BY DEF LedgerInv, TypeOK, LeaseStates
<1>1. ASSUME NEW f \in granted, NEW lag \in Lags, NEW row, HoldsLease(f, lag),
             SetRow(f.key, row)
      PROVE  jobs'[k] = jobs[k]
  <2>1. f.key # k
    BY <1>0, <1>1 DEF HoldsLease
  <2> QED
    BY <1>0, <1>1, <2>1 DEF SetRow
<1>2. CASE MarkRunningStep
  BY <1>1, <1>2 DEF MarkRunningStep, MarkRunning
<1>3. CASE RenewStep
  BY <1>1, <1>3 DEF RenewStep, RenewLease
<1>4. CASE CompleteStep
  BY <1>1, <1>4 DEF CompleteStep, CompleteJob
<1>5. CASE FailStep
  BY <1>1, <1>5 DEF FailStep, FailJob
<1>6. CASE AcknowledgeStep
  BY <1>1, <1>6 DEF AcknowledgeStep, AcknowledgeCancellation
<1>7. CASE ReclaimStep
  <2>1. PICK picked \in SUBSET Keys, backoff \in Backoffs, lag \in Lags :
               ReclaimExpiredLeases(picked, backoff, lag)
    BY <1>7 DEF ReclaimStep
  <2>2. k \notin picked
    BY <1>0, <2>1 DEF ReclaimExpiredLeases, Expired, Leased
  <2> QED
    BY <2>1, <2>2 DEF ReclaimExpiredLeases
<1>8. CASE Tick
  <2>1. jobs'[k] = [jobs[k] EXCEPT !.next_run_in = Elapse(@)]
    BY <1>0, <1>8 DEF Tick, AgedRow
  <2> QED
    BY <1>0, <2>1 DEF Row
<1> QED
  BY <1>2, <1>3, <1>4, <1>5, <1>6, <1>7, <1>8

\* Steps that leave the queue alone release some leases, perhaps none.
LEMMA ReleaseSimulated ==
  ASSUME LedgerInv, LedgerInv', RowsStep,
         \A k \in Keys : jobs[k].state = "queued" => jobs'[k].state = "queued"
  PROVE  Queue!Next
<1> DEFINE S == {k \in Keys : /\ jobs[k].state \in LeaseStates
                           /\ jobs'[k].state \notin LeaseStates}
<1>1. ASSUME NEW k \in Keys
      PROVE  /\ RowStep(jobs[k], jobs'[k]) /\ RowOK(jobs'[k])
             /\ jobs[k] \in Row /\ jobs'[k] \in Row
  BY DEF RowsStep, LedgerInv, TypeOK
<1>2. ASSUME NEW k \in S
      PROVE  /\ Phase(jobs[k]) = "held"
             /\ Phase(jobs'[k]) \in {"waiting", "done"}
             /\ Phase(jobs'[k]) = "waiting" =>
                  jobs[k].max_attempts - jobs[k].attempt > 0
  <2>1. /\ jobs[k].state \in LeaseStates /\ jobs'[k].state \notin LeaseStates
        /\ jobs[k].state # "absent" /\ jobs[k].state # "queued"
    BY LeasedDisjoint DEF Leased
  <2>2. Phase(jobs[k]) = "held"
    BY <2>1 DEF Phase
  <2>3. jobs'[k].state # "absent"
    BY <1>1, <2>1 DEF RowStep
  <2>4. Phase(jobs'[k]) \in {"waiting", "done"}
    BY <2>1, <2>3 DEF Phase
  <2>5. Phase(jobs'[k]) = "waiting" => jobs'[k].state = "queued"
    BY <2>1, <2>3 DEF Phase
  <2>6. jobs'[k].state = "queued" => jobs[k].max_attempts - jobs[k].attempt > 0
    BY <1>1 DEF RowOK, AttemptsRemain, RowStep, Row
  <2> QED
    BY <2>2, <2>4, <2>5, <2>6
<1>3. ASSUME NEW k \in Keys, k \notin S
      PROVE  /\ Phase(jobs'[k]) = Phase(jobs[k])
             /\ jobs'[k].state \in LeaseStates <=> jobs[k].state \in LeaseStates
             /\ jobs[k].state \in LeaseStates =>
                  Fence(k, jobs'[k]) = Fence(k, jobs[k])
  <2>1. RowStep(jobs[k], jobs'[k])
    BY <1>1
  <2>2. CASE jobs[k].state \in LeaseStates
    <3>1. jobs'[k].state \in LeaseStates
      BY <1>3, <2>2 DEF Leased
    <3> QED
      BY <2>1, <2>2, <3>1, LeasedDisjoint DEF Phase, Leased, Fence, RowStep
  <2>3. CASE jobs[k].state = "queued"
    BY <2>3 DEF Phase, Leased, LeaseStates
  <2>4. CASE jobs[k].state = "absent"
    BY <2>1, <2>4 DEF Phase, Leased, LeaseStates, RowStep
  <2>5. CASE jobs[k].state \in TerminalStates
    BY <2>1, <2>5, LeasedDisjoint DEF Leased, RowStep
  <2> QED
    BY <1>1, <2>2, <2>3, <2>4, <2>5 DEF Row, JobStates
<1>4. /\ \A k \in Keys : /\ jobs'[k].max_attempts = jobs[k].max_attempts
                         /\ jobs'[k].attempt = jobs[k].attempt
      /\ granted' = granted
  BY <1>1 DEF RowStep, RowsStep
<1>5. S \in SUBSET Keys
  OBVIOUS
<1>6. \A k \in S : k \in Keys /\ jobs'[k].state \notin LeaseStates
  OBVIOUS
<1> HIDE DEF S
<1>7. QueuePhase' = [k \in Keys |-> IF k \in S THEN QueuePhase'[k]
                                      ELSE QueuePhase[k]]
  BY <1>3 DEF QueuePhase
<1>8. QueueHolder' = [k \in Keys |-> IF k \in S THEN NULL ELSE QueueHolder[k]]
  <2>1. ASSUME NEW k \in Keys
        PROVE  QueueHolder'[k] = IF k \in S THEN NULL ELSE QueueHolder[k]
    BY <1>3, <1>6 DEF QueueHolder
  <2> QED
    BY <2>1 DEF QueueHolder
<1>9. UNCHANGED <<QueueIssued, QueueLeft>>
  BY <1>4 DEF QueueIssued, QueueLeft, GrantsOf
<1>10. \A k \in S : /\ QueuePhase[k] = "held"
                    /\ QueuePhase'[k] \in {"waiting", "done"}
                    /\ QueuePhase'[k] = "waiting" => QueueLeft[k] > 0
  BY <1>2, <1>6 DEF QueuePhase, QueueLeft
<1>11. Queue!Release(S)
  BY <1>7, <1>8, <1>9, <1>10 DEF Queue!Release
<1>12. \E T \in SUBSET Keys : Queue!Release(T)
  <2> WITNESS S \in SUBSET Keys
  <2> QED
    BY <1>11
<1> QED
  BY <1>12 DEF Queue!Next

\* A row that was missing and is now queued is a job submitted.
LEMMA InsertSimulated ==
  ASSUME LedgerInv, LedgerInv', NEW in \in CreateInputs, CreateJobInsert(in)
  PROVE  Queue!Next
<1> DEFINE k == InputKey(in)
<1>1. in \in CreateJobInput /\ k \in Keys
  BY InputAssumption DEF CreateJobInput, InputKey, Keys
<1>2. /\ jobs[k].state = "absent" /\ jobs' = [jobs EXCEPT ![k] = NewRow(in)]
      /\ granted' = granted
  BY DEF CreateJobInsert, InsertConflicts, Exists
<1>3. /\ jobs \in [Keys -> Row]
      /\ NewRow(in).state = "queued" /\ NewRow(in).attempt = 0
      /\ NewRow(in).max_attempts \in Nat \ {0}
  <2>1. jobs \in [Keys -> Row]
    BY DEF LedgerInv, TypeOK
  <2>2. in.max_attempts \in Nat \ {0}
    BY <1>1, AttemptsAssumption DEF CreateJobInput
  <2> QED
    BY <1>1, <2>1, <2>2, NewRowFields
<1> HIDE DEF k
<1>4. jobs'[k] = NewRow(in) /\ \A j \in Keys : j # k => jobs'[j] = jobs[j]
  BY <1>1, <1>2, <1>3
<1>5. QueuePhase[k] = "absent" /\ QueuePhase'[k] = "waiting"
  BY <1>1, <1>2, <1>3, <1>4 DEF QueuePhase, Phase, LeaseStates
<1>6. QueueLeft'[k] \in Nat \ {0}
  BY <1>1, <1>3, <1>4 DEF QueueLeft
<1>7. QueuePhase' = [QueuePhase EXCEPT ![k] = "waiting"]
  BY <1>1, <1>4, <1>5 DEF QueuePhase
<1>8. QueueLeft' = [QueueLeft EXCEPT ![k] = QueueLeft'[k]]
  BY <1>1, <1>4 DEF QueueLeft
<1>9. UNCHANGED <<QueueHolder, QueueIssued>>
  <2>1. jobs[k].state \notin LeaseStates /\ jobs'[k].state \notin LeaseStates
    BY <1>2, <1>3, <1>4 DEF LeaseStates
  <2> QED
    BY <1>2, <1>4, <2>1 DEF QueueHolder, QueueIssued, GrantsOf
<1>10. Queue!Submit(k)
  BY <1>5, <1>6, <1>7, <1>8, <1>9 DEF Queue!Submit
<1>11. \E j \in Keys : Queue!Submit(j)
  <2> USE <1>1
  <2> WITNESS k \in Keys
  <2> QED
    BY <1>10
<1> QED
  BY <1>11 DEF Queue!Next

\* AcquireLeases grants leases that are new: their tokens exceed the token of
\* the row, which exceeds that of every fence handed out before.
LEMMA AcquireSimulated ==
  ASSUME LedgerInv, LedgerInv', AcquireStep
  PROVE  Queue!Next
<1>1. PICK owner \in Owners, S \in SUBSET Keys,
           duration \in LeaseDurations, lag \in Lags :
             AcquireLeases(owner, S, duration, lag)
  BY DEF AcquireStep
<1>2. /\ jobs' \in [Keys -> Row] /\ conflicted' = conflicted
      /\ granted' = granted \cup {Fence(k, jobs'[k]) : k \in S}
      /\ \A k \in Keys \ S : jobs'[k] = jobs[k]
      /\ \A k \in S :
           /\ jobs[k].state = "queued" /\ RowOK(jobs'[k])
           /\ jobs'[k].state = "leased" /\ jobs'[k].lease_owner = owner
           /\ jobs'[k].attempt = jobs[k].attempt + 1
           /\ jobs'[k].max_attempts = jobs[k].max_attempts
           /\ jobs'[k].request = jobs[k].request
           /\ jobs[k].attempt < jobs[k].max_attempts
           /\ jobs'[k].lease_token = jobs[k].lease_token + 1
           /\ jobs'[k].idempotency_key = jobs[k].idempotency_key
           /\ jobs'[k].cancel_requested = jobs[k].cancel_requested
  BY <1>1, AcquireTable
<1>3. ASSUME NEW k \in S
      PROVE  /\ Fence(k, jobs'[k]) \in LeaseFence
             /\ Fence(k, jobs'[k]) \notin GrantsOf(k)
  <2>1. /\ k \in Keys /\ jobs[k] \in Row /\ jobs'[k] \in Row
        /\ \A f \in GrantsOf(k) : f.lease_token <= jobs[k].lease_token
    BY <1>2 DEF LedgerInv, TypeOK, GrantsOK
  <2>2. jobs[k].lease_token \in Nat /\ jobs'[k].lease_token \in Nat
    BY <2>1 DEF Row
  <2>3. Fence(k, jobs'[k]).lease_token = jobs[k].lease_token + 1
    BY <1>2 DEF Fence
  <2>4. Fence(k, jobs'[k]) \in LeaseFence
    BY <1>2, <2>1, <2>2 DEF Fence, LeaseFence
  <2> QED
    BY <2>1, <2>2, <2>3, <2>4
<1>4. /\ \A k \in S : /\ QueuePhase[k] = "waiting"
                      /\ QueuePhase'[k] = "held"
                      /\ QueueHolder'[k] = Fence(k, jobs'[k])
                      /\ QueueLeft[k] > 0
                      /\ QueueLeft'[k] = QueueLeft[k] - 1
  <2>1. ASSUME NEW k \in S
        PROVE  /\ k \in Keys /\ jobs[k].attempt \in Nat
               /\ jobs[k].max_attempts \in Nat /\ jobs'[k].state \in LeaseStates
               /\ jobs'[k].state # "absent" /\ jobs'[k].state # "queued"
    BY <1>2 DEF LedgerInv, TypeOK, Row, LeaseStates
  <2>2. ASSUME NEW k \in S
        PROVE  QueuePhase[k] = "waiting" /\ QueuePhase'[k] = "held"
    BY <1>2, <2>1 DEF QueuePhase, Phase, LeaseStates
  <2>3. ASSUME NEW k \in S
        PROVE  QueueHolder'[k] = Fence(k, jobs'[k])
    BY <2>1 DEF QueueHolder
  <2>4. ASSUME NEW k \in S
        PROVE  QueueLeft[k] > 0 /\ QueueLeft'[k] = QueueLeft[k] - 1
    BY <1>2, <2>1 DEF QueueLeft
  <2> QED
    BY <2>2, <2>3, <2>4
<1>5. QueuePhase' = [k \in Keys |-> IF k \in S THEN "held" ELSE QueuePhase[k]]
  BY <1>2, <1>4 DEF QueuePhase
<1>6. QueueHolder' = [k \in Keys |-> IF k \in S THEN QueueHolder'[k]
                                     ELSE QueueHolder[k]]
  BY <1>2 DEF QueueHolder
<1>7. QueueIssued' = [k \in Keys |-> IF k \in S
                                     THEN QueueIssued[k] \cup {QueueHolder'[k]}
                                     ELSE QueueIssued[k]]
  <2>1. ASSUME NEW k \in S
        PROVE  GrantsOf(k)' = GrantsOf(k) \cup {Fence(k, jobs'[k])}
    BY <1>2 DEF GrantsOf, Fence
  <2>2. ASSUME NEW k \in Keys, k \notin S
        PROVE  GrantsOf(k)' = GrantsOf(k)
    BY <1>2, <2>2 DEF GrantsOf, Fence
  <2>3. ASSUME NEW k \in Keys
        PROVE  QueueIssued'[k] = IF k \in S
                                 THEN QueueIssued[k] \cup {QueueHolder'[k]}
                                 ELSE QueueIssued[k]
    BY <1>4, <2>1, <2>2 DEF QueueIssued
  <2> QED
    BY <2>3 DEF QueueIssued
<1>8. QueueLeft' = [k \in Keys |-> IF k \in S THEN QueueLeft[k] - 1
                                   ELSE QueueLeft[k]]
  BY <1>2, <1>4 DEF QueueLeft
<1>9. \A k \in S : QueueHolder'[k] \in LeaseFence \ QueueIssued[k]
  BY <1>3, <1>4 DEF QueueIssued
<1>10. Queue!Grant(S)
  BY <1>4, <1>5, <1>6, <1>7, <1>8, <1>9 DEF Queue!Grant
<1>11. \E T \in SUBSET Keys : Queue!Grant(T)
  <2> WITNESS S \in SUBSET Keys
  <2> QED
    BY <1>10
<1> QED
  BY <1>11 DEF Queue!Next

\* CancelJob withdraws a queued job and otherwise only notes the intent.
LEMMA CancelSimulated ==
  ASSUME LedgerInv, LedgerInv', CancelStep
  PROVE  Queue!Next
<1>1. PICK k \in Keys : CancelJob(k)
  BY DEF CancelStep
<1>2. /\ jobs \in [Keys -> Row] /\ granted' = granted
      /\ jobs' = [jobs EXCEPT ![k] = CanceledRow(jobs[k])]
  BY <1>1 DEF CancelJob, SetRow, LedgerInv, TypeOK
<1>3. jobs'[k] = CanceledRow(jobs[k])
      /\ \A j \in Keys : j # k => jobs'[j] = jobs[j]
  BY <1>2
<1>4. CASE jobs[k].state # "queued"
  <2>1. \A j \in Keys : jobs[j].state = "queued" => jobs'[j].state = "queued"
    BY <1>3, <1>4
  <2>2. RowsStep
    BY CancelTable
  <2> QED
    BY <2>1, <2>2, ReleaseSimulated
<1>5. CASE jobs[k].state = "queued"
  <2>1. /\ CanceledRow(jobs[k]).state = "canceled"
        /\ CanceledRow(jobs[k]).attempt = jobs[k].attempt
        /\ CanceledRow(jobs[k]).max_attempts = jobs[k].max_attempts
    BY <1>2, <1>5 DEF CanceledRow, Row
  <2>2. QueuePhase[k] = "waiting" /\ QueuePhase'[k] = "done"
    BY <1>3, <1>5, <2>1 DEF QueuePhase, Phase, LeaseStates
  <2>3. QueuePhase' = [QueuePhase EXCEPT ![k] = "done"]
    BY <1>3, <2>2 DEF QueuePhase
  <2>4. jobs[k].state \notin LeaseStates /\ jobs'[k].state \notin LeaseStates
    BY <1>3, <1>5, <2>1 DEF LeaseStates
  <2>5. UNCHANGED <<QueueHolder, QueueIssued, QueueLeft>>
    BY <1>2, <1>3, <2>1, <2>4 DEF QueueHolder, QueueIssued, QueueLeft, GrantsOf
  <2>6. Queue!Withdraw(k)
    BY <2>2, <2>3, <2>5 DEF Queue!Withdraw
  <2>7. \E j \in Keys : Queue!Withdraw(j)
    <3> WITNESS k \in Keys
    <3> QED
      BY <2>6
  <2> QED
    BY <2>7 DEF Queue!Next
<1> QED
  BY <1>4, <1>5

\* Every step of the ledger is a step of the lease queue or none at all.
LEMMA NextSimulated ==
  ASSUME LedgerInv, LedgerInv', [Next]_vars
  PROVE  [Queue!Next]_(Queue!vars)
<1>1. CASE jobs' = jobs /\ granted' = granted
  BY <1>1 DEF Queue!vars, QueuePhase, QueueHolder, QueueIssued, QueueLeft,
              GrantsOf
<1>2. ASSUME NEW in \in CreateInputs, CreateJobInsert(in)
      PROVE  Queue!Next
  BY <1>2, InsertSimulated
<1>3. CASE AcquireStep
  BY <1>3, AcquireSimulated
<1>4. CASE \/ MarkRunningStep \/ RenewStep \/ CompleteStep \/ FailStep
           \/ AcknowledgeStep \/ ReclaimStep \/ Tick
  <2>1. RowsStep
    BY <1>4, MarkRunningTable, RenewTable, CompleteTable, FailTable,
       AcknowledgeTable, ReclaimTable, TickTable
  <2>2. \A k \in Keys : jobs[k].state = "queued" => jobs'[k].state = "queued"
    BY <1>4, QueuedStays
  <2> QED
    BY <2>1, <2>2, ReleaseSimulated
<1>5. CASE CancelStep
  BY <1>5, CancelSimulated
<1> QED
  BY <1>1, <1>2, <1>3, <1>4, <1>5
     DEF Next, CreateJobStep, CreateJobConflict, CreateJobLoad, vars

\* The empty table is the empty queue.
LEMMA InitSimulated == Init => Queue!Init
<1> SUFFICES ASSUME Init PROVE Queue!Init
  OBVIOUS
<1>1. /\ \A k \in Keys : jobs[k] = AbsentRow
      /\ granted = {}
  BY DEF Init
<1>2. /\ AbsentRow.state = "absent" /\ AbsentRow.state \notin LeaseStates
      /\ AbsentRow.max_attempts - AbsentRow.attempt = 0
  BY DEF AbsentRow, LeaseStates
<1> QED
  BY <1>1, <1>2 DEF Queue!Init, QueuePhase, QueueHolder, QueueIssued, QueueLeft,
                    GrantsOf, Phase

\* The table with its tokens, expiries and unfenced operations implements the
\* abstract lease queue.
THEOREM LedgerRefinesQueue == Spec => ImplementsLeaseQueue
<1>1. LedgerInv /\ LedgerInv' /\ [Next]_vars => [Queue!Next]_(Queue!vars)
  BY NextSimulated
<1> QED
  BY <1>1, InitSimulated, LedgerInvariant, PTL
     DEF Spec, ImplementsLeaseQueue, Queue!Spec
=============================================================================
