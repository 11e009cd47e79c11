-------------------------- MODULE WorkerEngineProofs --------------------------
(***************************************************************************)
(* Proofs about the worker engines, for any number of engines, jobs, leases*)
(* and faults.  The ledger's invariant is taken over from JobLedgerProofs: *)
(* every step of the engines makes a step of the ledger or leaves it alone.*)
(***************************************************************************)
EXTENDS WorkerEngine, JobLedgerProofs

-----------------------------------------------------------------------------
(* The inductive invariant.                                                *)

\* One engine: what the iteration holds matches where it is, its batch is made
\* of its own fences that no goroutine has yet, and no token is lost.
EngineOK(o) ==
  LET e == engines[o]
  IN  /\ e.pc \notin {"acquire", "acquired"} => e.tokens = 0
      /\ e.pc # "acquired" => e.batch = {}
      /\ IsFiniteSet(e.batch) /\ Cardinality(e.batch) <= e.tokens
      /\ e.batch \subseteq granted
      /\ \A f \in e.batch : f \notin DOMAIN procs /\ f.lease_owner = o
      /\ \A k \in Keys : e.cancelFuncs[k] # NULL =>
                           e.cancelFuncs[k].lease_owner = o
      /\ e.free + e.tokens + Cardinality(ActiveOf(o)) = Concurrency
      /\ e.pc \in {"stopping", "stopped"} /\ ~e.forced => ActiveOf(o) = {}

\* A cause that stays: nothing takes it back while the goroutine lives.
Cause(f) ==
  \/ engines[f.lease_owner].forced
  \/ jobs[f.key].cancel_requested
  \/ ~HasLease(f, jobs[f.key])

\* The lease lapsed.  Database clocks lag, so that a renewal could still hit
\* such a row: the cause stays because the goroutine that would renew has ended
\* and no other holds this fence.
Lapsed(f) ==
  /\ jobs[f.key].lease_expires_in <= 0
  /\ procs[f].renewal = "off"
  /\ procs[f].pc \in {"execute", "join", "write", "exit"}

\* One goroutine: renewal lives within execution, an outcome is there when it
\* is written, and a canceled context has a cause.
ProcOK(f) ==
  /\ procs[f].renewal # "off" => procs[f].pc \in {"execute", "join"}
  /\ procs[f].pc \in {"join", "write"} => procs[f].outcome # "none"
  /\ Active(f) /\ procs[f].ctxDone => Cause(f) \/ Lapsed(f)

EngineInv ==
  /\ EngineTypeOK
  /\ LedgerInv
  /\ IsFiniteSet(DOMAIN procs)
  /\ \A o \in Owners : EngineOK(o)
  /\ \A f \in DOMAIN procs : ProcOK(f)

-----------------------------------------------------------------------------
(* What the statements do to a row: only CompleteJob makes it succeed, only *)
(* RenewLease puts its expiry off.                                         *)

QuietRow(r, s) ==
  /\ s.state = "succeeded" => r.state = "succeeded"
  /\ r.state \in LeaseStates /\ s.state \in LeaseStates =>
       s.lease_expires_in <= r.lease_expires_in

QuietStep == \A k \in Keys : QuietRow(jobs[k], jobs'[k])

\* The steps of the ledger that end no live lease, and all but those two.
SparingStep ==
  \/ UNCHANGED vars
  \/ \E in \in CreateInputs : CreateJobInsert(in)
  \/ AcquireStep \/ MarkRunningStep \/ CancelStep \/ ReclaimStep \/ Tick

OtherLedgerStep == SparingStep \/ FailStep \/ AcknowledgeStep

\* A row that stays as it is neither succeeds nor gains time.
LEMMA QuietStutter ==
  ASSUME NEW r \in Row, RowOK(r)
  PROVE  QuietRow(r, r)
BY DEF QuietRow, RowOK

\* A row that ends up outside the lease states and not succeeded.
LEMMA QuietRelease ==
  ASSUME NEW r, NEW s, s.state \notin LeaseStates, s.state # "succeeded"
  PROVE  QuietRow(r, s)
BY DEF QuietRow

\* Nor do the rows when one of them changes quietly.
LEMMA QuietSetRow ==
  ASSUME LedgerInv, NEW k \in Keys, NEW row, SetRow(k, row),
         QuietRow(jobs[k], row)
  PROVE  QuietStep
BY QuietStutter DEF SetRow, QuietStep, LedgerInv, TypeOK

\* MarkRunning starts the job and leaves its expiry alone.
LEMMA QuietMark ==
  ASSUME LedgerInv, MarkRunningStep
  PROVE  QuietStep
<1> PICK f \in granted, lag \in Lags : MarkRunning(f, lag)
  BY DEF MarkRunningStep
<1>1. /\ HoldsLease(f, lag)
      /\ SetRow(f.key, [jobs[f.key] EXCEPT !.state = "running"])
  BY DEF MarkRunning
<1>2. f.key \in Keys /\ jobs[f.key] \in Row /\ RowOK(jobs[f.key])
  BY <1>1, HolderRow
<1>3. QuietRow(jobs[f.key], [jobs[f.key] EXCEPT !.state = "running"])
  BY <1>2 DEF QuietRow, Row, RowOK
<1> QED
  BY <1>1, <1>2, <1>3, QuietSetRow

\* FailJob ends the job or sends it back.
LEMMA QuietFail ==
  ASSUME LedgerInv, FailStep
  PROVE  QuietStep
<1> PICK f \in granted, retryable \in BOOLEAN, backoff \in Backoffs,
         code \in FailureCodes, lag \in Lags :
           FailJob(f, retryable, backoff, code, lag)
  BY DEF FailStep
<1> DEFINE r == jobs[f.key]
           s == FailedRow(r, retryable, backoff - lag, code)
<1>1. HoldsLease(f, lag) /\ SetRow(f.key, s)
  BY DEF FailJob
<1>2. f.key \in Keys /\ r \in Row
  BY <1>1, HolderRow
<1>3. s.state \in {"failed", "queued", "dead_letter"}
  BY <1>2 DEF FailedRow, Released, Row
<1>4. QuietRow(r, s)
  BY <1>3, QuietRelease DEF LeaseStates
<1> HIDE DEF s
<1> QED
  BY <1>1, <1>2, <1>4, QuietSetRow

\* AcknowledgeCancellation ends the job as canceled.
LEMMA QuietAcknowledge ==
  ASSUME LedgerInv, AcknowledgeStep
  PROVE  QuietStep
<1> PICK f \in granted, lag \in Lags : AcknowledgeCancellation(f, lag)
  BY DEF AcknowledgeStep
<1> DEFINE r == jobs[f.key]
           s == Released(r, "canceled")
<1>1. HoldsLease(f, lag) /\ SetRow(f.key, s)
  BY DEF AcknowledgeCancellation
<1>2. f.key \in Keys /\ r \in Row
  BY <1>1, HolderRow
<1>3. s.state = "canceled"
  BY <1>2 DEF Released, Row
<1>4. QuietRow(r, s)
  BY <1>3, QuietRelease DEF LeaseStates
<1> HIDE DEF s
<1> QED
  BY <1>1, <1>2, <1>4, QuietSetRow

\* CancelJob marks the row, or ends a job that no worker has.
LEMMA QuietCancel ==
  ASSUME LedgerInv, CancelStep
  PROVE  QuietStep
<1> PICK k \in Keys : CancelJob(k)
  BY DEF CancelStep
<1> DEFINE r == jobs[k]
           s == CanceledRow(r)
<1>1. SetRow(k, s) /\ r \in Row /\ RowOK(r)
  BY DEF CancelJob, LedgerInv, TypeOK
<1>2. /\ s.state = IF r.state = "queued" THEN "canceled" ELSE r.state
      /\ s.lease_expires_in = r.lease_expires_in
  BY <1>1 DEF CanceledRow, Row
<1>3. QuietRow(r, s)
  BY <1>1, <1>2 DEF QuietRow, RowOK, LeaseStates
<1> HIDE DEF s
<1> QED
  BY <1>1, <1>3, QuietSetRow

\* ReclaimExpiredJobs takes leases away.
LEMMA QuietReclaim ==
  ASSUME LedgerInv, ReclaimStep
  PROVE  QuietStep
<1> PICK picked \in SUBSET Keys, backoff \in Backoffs, lag \in Lags :
           ReclaimExpiredLeases(picked, backoff, lag)
  BY DEF ReclaimStep
<1>1. jobs' = [k \in Keys |-> IF k \in picked
                              THEN ReclaimedRow(jobs[k], backoff - lag)
                              ELSE jobs[k]]
  BY DEF ReclaimExpiredLeases
<1>2. \A k \in Keys : jobs[k] \in Row /\ RowOK(jobs[k])
  BY DEF LedgerInv, TypeOK
<1>3. ASSUME NEW r \in Row, NEW x PROVE QuietRow(r, ReclaimedRow(r, x))
  <2>1. ReclaimedRow(r, x).state \in {"canceled", "queued", "dead_letter"}
    BY <1>3 DEF ReclaimedRow, Released, Row
  <2> QED
    BY <2>1, QuietRelease DEF LeaseStates
<1> QED
  BY <1>1, <1>2, <1>3, QuietStutter DEF QuietStep

\* Time only takes from what a lease has left.
LEMMA QuietTick ==
  ASSUME LedgerInv, Tick
  PROVE  QuietStep
<1>1. \A k \in Keys : jobs'[k] = AgedRow(jobs[k])
  BY DEF Tick
<1>2. ASSUME NEW r \in Row, RowOK(r) PROVE QuietRow(r, AgedRow(r))
  <2>1. CASE r.state = "queued"
    BY <1>2, <2>1, QuietRelease DEF AgedRow, Row, LeaseStates
  <2>2. CASE r.state \in LeaseStates
    <3>1. AgedRow(r) = [r EXCEPT !.lease_expires_in = Elapse(@)]
      BY <2>2 DEF AgedRow, LeaseStates
    <3>2. r.lease_expires_in \in Int
      BY <1>2, <2>2 DEF RowOK
    <3>3. Elapse(r.lease_expires_in) <= r.lease_expires_in
      BY <3>2, LagAssumption DEF Elapse
    <3> QED
      BY <1>2, <2>2, <3>1, <3>3, LeasedDisjoint DEF QuietRow, Row
  <2>3. CASE r.state # "queued" /\ r.state \notin LeaseStates
    BY <1>2, <2>3, QuietStutter DEF AgedRow
  <2> QED
    BY <2>1, <2>2, <2>3
<1> QED
  BY <1>1, <1>2 DEF QuietStep, LedgerInv, TypeOK

\* CreateJob adds a queued row.
LEMMA QuietInsert ==
  ASSUME LedgerInv, NEW in \in CreateInputs, CreateJobInsert(in)
  PROVE  QuietStep
<1>1. in \in CreateJobInput
  BY InputAssumption
<1>2. InputKey(in) \in Keys
  BY <1>1 DEF CreateJobInput, InputKey, Keys
<1>3. NewRow(in).state = "queued"
  BY <1>1, NewRowFields
<1>4. QuietRow(jobs[InputKey(in)], NewRow(in))
  BY <1>3, QuietRelease DEF LeaseStates
<1>5. SetRow(InputKey(in), NewRow(in))
  BY DEF CreateJobInsert, SetRow
<1> QED
  BY <1>2, <1>4, <1>5, QuietSetRow

\* AcquireJobs leases rows that had no lease.
LEMMA QuietAcquire ==
  ASSUME LedgerInv, AcquireStep
  PROVE  QuietStep
<1>0. PICK owner \in Owners, picked \in SUBSET Keys,
           duration \in LeaseDurations, lag \in Lags :
             AcquireLeases(owner, picked, duration, lag)
  BY DEF AcquireStep
<1>1. \A k \in Keys : k \notin picked => jobs'[k] = jobs[k]
  BY <1>0 DEF AcquireLeases
<1>2. \A k \in picked : jobs[k].state = "queued" /\ jobs'[k].state = "leased"
  BY <1>0 DEF AcquireLeases, Ready, LeasedRow, LedgerInv, TypeOK, Row
<1>3. \A k \in Keys : jobs[k] \in Row /\ RowOK(jobs[k])
  BY DEF LedgerInv, TypeOK
<1>4. \A k \in picked : QuietRow(jobs[k], jobs'[k])
  BY <1>2 DEF QuietRow, LeaseStates
<1> QED
  BY <1>1, <1>3, <1>4, QuietStutter DEF QuietStep

\* Together: the statements other than CompleteJob and RenewLease.
LEMMA OthersAreQuiet ==
  ASSUME LedgerInv, OtherLedgerStep
  PROVE  QuietStep
<1>1. CASE UNCHANGED vars
  BY <1>1, QuietStutter DEF vars, QuietStep, LedgerInv, TypeOK
<1> QED
  BY <1>1, QuietInsert, QuietAcquire, QuietMark, QuietFail, QuietAcknowledge,
     QuietCancel, QuietReclaim, QuietTick DEF OtherLedgerStep, SparingStep

-----------------------------------------------------------------------------
(* Every step of the engines is a step of the ledger or leaves it alone.   *)

\* RenewLease on behalf of f.
RenewalHit(f) ==
  /\ procs[f].renewal = "renew"
  /\ \E duration \in LeaseDurations, lag \in Lags : RenewLease(f, duration, lag)

\* CompleteJob on behalf of f.
CompletionHit(f) ==
  /\ procs[f].pc = "write" /\ procs[f].outcome = "ok"
  /\ \E response \in Responses, lag \in Lags : CompleteJob(f, response, lag)

LedgerEffect ==
  \/ OtherLedgerStep
  \/ \E f \in DOMAIN procs : RenewalHit(f) \/ CompletionHit(f)

\* What the loops of Run, the signal and a crash do to the ledger.
LEMMA LoopEffect ==
  ASSUME NEW o \in Owners, LoopStep(o) \/ ReclaimerStep(o) \/ Signal(o) \/ Crash(o)
  PROVE  SparingStep
<1>1. CASE \/ PollTop(o) \/ AcquireCanceled(o) \/ AcquireEmpty(o) \/ Dispatch(o)
           \/ PollWait(o) \/ BeginDrain(o) \/ DrainDone(o) \/ DrainDeadline(o)
           \/ RunReturns(o) \/ ReclaimerExit(o) \/ Signal(o) \/ Crash(o)
  <2>1. UNCHANGED vars
    BY <1>1 DEF PollTop, AcquireCanceled, AcquireEmpty, Dispatch, PollWait,
         BeginDrain, DrainDone, DrainDeadline, RunReturns, ReclaimerExit, Signal,
         Crash
  <2> QED
    BY <2>1 DEF SparingStep
<1>2. CASE AcquireGranted(o) \/ AcquireFault(o)
  <2>1. UNCHANGED vars \/ AcquireStep
    BY <1>2 DEF AcquireGranted, AcquireFault, AcquireStep
  <2> QED
    BY <2>1 DEF SparingStep
<1>3. CASE Sweep(o)
  BY <1>3 DEF Sweep, ReclaimStep, SparingStep
<1> QED
  BY <1>1, <1>2, <1>3 DEF LoopStep, ReclaimerStep

\* What AcknowledgeCancellation called by a goroutine does to it.
LEMMA AckEffect ==
  ASSUME NEW f \in granted, AckCall(f)
  PROVE  OtherLedgerStep
<1>1. UNCHANGED vars \/ AcknowledgeStep
  BY DEF AckCall, Call, AcknowledgeStep
<1> QED
  BY <1>1 DEF OtherLedgerStep, SparingStep

\* What the write of an outcome does to it: only a hit completes.
LEMMA OutcomeEffect ==
  ASSUME NEW f \in granted, procs[f] \in Proc, procs[f].pc = "write",
         procs[f].outcome # "none", OutcomeCall(f)
  PROVE  OtherLedgerStep \/ CompletionHit(f)
<1> DEFINE Ok(lag) == \E response \in Responses : CompleteJob(f, response, lag)
           Fails(lag) == \E retryable \in BOOLEAN, backoff \in Backoffs,
                            code \in FailureCodes :
                           FailJob(f, retryable, backoff, code, lag)
<1>1. \/ UNCHANGED vars
      \/ \E lag \in Lags :
           CASE procs[f].outcome = "ok" -> Ok(lag)
             [] procs[f].outcome = "retryable" ->
                  \E backoff \in Backoffs, code \in FailureCodes :
                    FailJob(f, TRUE, backoff, code, lag)
             [] procs[f].outcome = "failed" ->
                  \E backoff \in Backoffs, code \in FailureCodes :
                    FailJob(f, FALSE, backoff, code, lag)
  BY DEF OutcomeCall, Call
<1>2. CASE UNCHANGED vars
  BY <1>2 DEF OtherLedgerStep, SparingStep
<1>3. CASE \E lag \in Lags : procs[f].outcome = "ok" /\ Ok(lag)
  BY <1>3 DEF CompletionHit
<1>4. CASE \E lag \in Lags : Fails(lag)
  BY <1>4 DEF OtherLedgerStep, SparingStep, FailStep
<1>5. procs[f].outcome \in {"ok", "retryable", "failed"}
  BY DEF Proc, Outcomes
<1> QED
  BY <1>1, <1>2, <1>3, <1>4, <1>5

\* What a job's goroutine and its renewal do to it.
LEMMA ProcEffect ==
  ASSUME EngineInv, NEW f \in DOMAIN procs,
         ProcStep(f) \/ ExecuteReturns(f) \/ RenewalStep(f)
  PROVE  OtherLedgerStep \/ RenewalHit(f) \/ CompletionHit(f)
<1>0. f \in granted /\ procs[f] \in Proc /\ ProcOK(f)
  BY DEF EngineInv, EngineTypeOK
<1>1. CASE \/ Begin(f) \/ MarkMiss(f) \/ MarkMissExplained(f) \/ JoinRenewal(f)
           \/ Exit(f) \/ ExecuteReturns(f) \/ RenewalTick(f) \/ RenewalCheck(f)
           \/ RenewalExit(f)
  <2>1. UNCHANGED vars
    BY <1>1 DEF Begin, MarkMiss, MarkMissExplained, JoinRenewal, Exit,
         ExecuteReturns, RenewalTick, RenewalCheck, RenewalExit
  <2> QED
    BY <2>1 DEF OtherLedgerStep, SparingStep
<1>2. CASE MarkHit(f) \/ MarkFault(f)
  <2>1. UNCHANGED vars \/ MarkRunningStep
    BY <1>0, <1>2 DEF MarkHit, MarkFault, MarkRunningStep
  <2> QED
    BY <2>1 DEF OtherLedgerStep, SparingStep
<1>3. CASE AckBeforeStart(f) \/ RenewalAck(f)
  BY <1>0, <1>3, AckEffect DEF AckBeforeStart, RenewalAck
<1>4. CASE WriteOutcome(f)
  BY <1>0, <1>4, OutcomeEffect DEF WriteOutcome, ProcOK
<1>5. CASE RenewalRenew(f)
  <2>1. RenewalHit(f) \/ UNCHANGED vars
    BY <1>5 DEF RenewalRenew, RenewalHit
  <2> QED
    BY <2>1 DEF OtherLedgerStep, SparingStep
<1> QED
  BY <1>1, <1>2, <1>3, <1>4, <1>5 DEF ProcStep, RenewalStep

\* Every step of the engines has one of these effects.
LEMMA EngineEffect ==
  ASSUME EngineInv, [EngineNext]_engineVars
  PROVE  LedgerEffect
<1>1. CASE \E o \in Owners : LoopStep(o) \/ ReclaimerStep(o) \/ Signal(o) \/ Crash(o)
  BY <1>1, LoopEffect DEF LedgerEffect, OtherLedgerStep
<1>2. CASE \E f \in DOMAIN procs : ProcStep(f) \/ ExecuteReturns(f) \/ RenewalStep(f)
  BY <1>2, ProcEffect DEF LedgerEffect
<1>3. CASE Submit \/ ClientCancel \/ Time \/ UNCHANGED engineVars
  <2>1. OtherLedgerStep
    BY <1>3 DEF Submit, ClientCancel, Time, engineVars, OtherLedgerStep, SparingStep
  <2> QED
    BY <2>1 DEF LedgerEffect
<1> QED
  BY <1>1, <1>2, <1>3 DEF EngineNext

\* And each effect is a step of the ledger.
LEMMA EffectIsLedgerStep ==
  ASSUME DOMAIN procs \subseteq granted, LedgerEffect
  PROVE  [Next]_vars
<1>1. OtherLedgerStep => [Next]_vars
  BY DEF OtherLedgerStep, SparingStep, Next, CreateJobStep
<1>2. ASSUME NEW f \in DOMAIN procs, RenewalHit(f) PROVE RenewStep
  BY <1>2 DEF RenewalHit, RenewStep
<1>3. ASSUME NEW f \in DOMAIN procs, CompletionHit(f) PROVE CompleteStep
  BY <1>3 DEF CompletionHit, CompleteStep
<1> QED
  BY <1>1, <1>2, <1>3 DEF LedgerEffect, Next

\* Whatever an engine does to the ledger is a step of the ledger.
LEMMA LedgerKept ==
  ASSUME EngineInv, LedgerEffect
  PROVE  [Next]_vars /\ LedgerInv'
BY EffectIsLedgerStep, NextInv DEF EngineInv, EngineTypeOK

-----------------------------------------------------------------------------
(* Causes stay.                                                            *)

\* A cause for which a context was canceled stays.
LEMMA CauseKept ==
  ASSUME EngineInv, LedgerEffect, NEW f \in DOMAIN procs,
         engines[f.lease_owner].forced => engines'[f.lease_owner].forced,
         Cause(f)
  PROVE  Cause(f)'
<1>1. [Next]_vars /\ LedgerInv
  BY LedgerKept DEF EngineInv
<1>2. f \in granted /\ f.key \in Keys
  BY DEF EngineInv, EngineTypeOK, TypeOK, LeaseFence
<1>3. CASE jobs[f.key].cancel_requested
  BY <1>1, <1>2, <1>3, IntentKept DEF Cause
<1>4. CASE ~HasLease(f, jobs[f.key])
  BY <1>1, <1>2, <1>4, StaleKept DEF Cause
<1> QED
  BY <1>3, <1>4 DEF Cause

\* A lapsed lease stays lapsed unless its own goroutine renews it.
LEMMA LapseKept ==
  ASSUME EngineInv, LedgerEffect, NEW f \in DOMAIN procs,
         HasLease(f, jobs[f.key]), jobs[f.key].lease_expires_in <= 0,
         procs[f].renewal # "renew"
  PROVE  ~HasLease(f, jobs'[f.key]) \/ jobs'[f.key].lease_expires_in <= 0
<1> SUFFICES ASSUME HasLease(f, jobs'[f.key])
             PROVE  jobs'[f.key].lease_expires_in <= 0
  OBVIOUS
<1>1. f \in LeaseFence /\ f \in granted /\ f.key \in Keys
  BY DEF EngineInv, EngineTypeOK, TypeOK, LeaseFence
<1>2. LedgerInv /\ LedgerInv'
  BY LedgerKept DEF EngineInv
<1>3. /\ jobs[f.key].state \in LeaseStates /\ jobs'[f.key].state \in LeaseStates
      /\ jobs[f.key].lease_expires_in \in Int /\ jobs'[f.key].lease_expires_in \in Int
  BY <1>1, <1>2 DEF HasLease, LedgerInv, RowOK
<1>4. CASE OtherLedgerStep
  <2>1. QuietRow(jobs[f.key], jobs'[f.key])
    BY <1>1, <1>2, <1>4, OthersAreQuiet DEF QuietStep
  <2> QED
    BY <1>3, <2>1 DEF QuietRow
<1>5. ASSUME NEW g \in DOMAIN procs, NEW lag \in Lags, HoldsLease(g, lag),
             NEW row, SetRow(g.key, row), g # f
      PROVE  jobs'[f.key].lease_expires_in <= 0
  <2>1. g \in LeaseFence
    BY DEF EngineInv, EngineTypeOK, TypeOK
  <2>2. g.key # f.key
    <3> SUFFICES ASSUME g.key = f.key PROVE g = f
      BY <1>5
    <3>1. g.lease_owner = f.lease_owner /\ g.lease_token = f.lease_token
      BY <1>1, <1>5 DEF HoldsLease, HasLease, Fence
    <3> QED
      BY <1>1, <2>1, <3>1 DEF LeaseFence
  <2>3. jobs'[f.key] = jobs[f.key]
    BY <1>1, <1>2, <1>5, <2>1, <2>2 DEF SetRow, LedgerInv, TypeOK
  <2> QED
    BY <2>3
<1>6. ASSUME NEW g \in DOMAIN procs, RenewalHit(g)
      PROVE  jobs'[f.key].lease_expires_in <= 0
  <2>1. g # f
    BY <1>6 DEF RenewalHit
  <2> QED
    BY <1>5, <1>6, <2>1 DEF RenewalHit, RenewLease
<1>7. ASSUME NEW g \in DOMAIN procs, CompletionHit(g)
      PROVE  jobs'[f.key].lease_expires_in <= 0
  <2>1. PICK response \in Responses, lag \in Lags : CompleteJob(g, response, lag)
    BY <1>7 DEF CompletionHit
  <2>2. CASE g # f
    BY <1>5, <2>1, <2>2 DEF CompleteJob
  <2>3. CASE g = f
    <3>1. jobs' = [jobs EXCEPT ![f.key] = [Released(jobs[f.key], "succeeded")
                                             EXCEPT !.response = response]]
      BY <2>1, <2>3 DEF CompleteJob, SetRow
    <3>2. jobs'[f.key].state = "succeeded"
      BY <1>1, <1>2, <3>1 DEF LedgerInv, TypeOK, Released, Row
    <3> QED
      BY <1>3, <3>2 DEF LeaseStates
  <2> QED
    BY <2>2, <2>3
<1> QED
  BY <1>4, <1>6, <1>7 DEF LedgerEffect

\* What a step has to do to a goroutine for its part of the invariant.
LEMMA ProcKept ==
  ASSUME EngineInv, LedgerEffect, NEW f \in DOMAIN procs,
         engines[f.lease_owner].forced => engines'[f.lease_owner].forced,
         procs'[f].renewal # "off" => procs'[f].pc \in {"execute", "join"},
         procs'[f].pc \in {"join", "write"} => procs'[f].outcome # "none",
         Active(f)' => Active(f),
         Active(f)' /\ procs'[f].ctxDone => procs[f].ctxDone \/ Cause(f)' \/ Lapsed(f)',
         procs[f].pc \in {"execute", "join", "write", "exit"} /\ Active(f)' =>
           procs'[f].pc \in {"execute", "join", "write", "exit"},
         procs[f].renewal = "off" /\ procs[f].pc \in {"execute", "join", "write", "exit"} =>
           procs'[f].renewal = "off"
  PROVE  ProcOK(f)'
<1> SUFFICES ASSUME Active(f)', procs'[f].ctxDone, procs[f].ctxDone
             PROVE  Cause(f)' \/ Lapsed(f)'
  BY DEF ProcOK
<1>1. Cause(f) \/ Lapsed(f)
  BY DEF EngineInv, ProcOK
<1>2. CASE Cause(f)
  BY <1>2, CauseKept
<1>3. CASE Lapsed(f) /\ HasLease(f, jobs[f.key])
  <2>1. procs[f].renewal # "renew"
    BY <1>3 DEF Lapsed
  <2>2. ~HasLease(f, jobs'[f.key]) \/ jobs'[f.key].lease_expires_in <= 0
    BY <1>3, <2>1, LapseKept DEF Lapsed
  <2> QED
    BY <1>3, <2>2 DEF Lapsed, Cause
<1> QED
  BY <1>1, <1>2, <1>3 DEF Cause

-----------------------------------------------------------------------------
(* What a step leaves alone.                                               *)

\* A fence that was granted stays granted.
LEMMA GrantedGrows ==
  ASSUME LedgerEffect
  PROVE  granted \subseteq granted'
<1>1. CASE UNCHANGED vars \/ (\E in \in CreateInputs : CreateJobInsert(in))
  BY <1>1 DEF vars, CreateJobInsert
<1>2. CASE AcquireStep
  BY <1>2 DEF AcquireStep, AcquireLeases
<1>3. CASE MarkRunningStep \/ FailStep \/ AcknowledgeStep
  BY <1>3 DEF MarkRunningStep, MarkRunning, FailStep, FailJob, AcknowledgeStep,
              AcknowledgeCancellation, SetRow
<1>4. CASE CancelStep \/ ReclaimStep \/ Tick
  BY <1>4 DEF CancelStep, CancelJob, SetRow, ReclaimStep, ReclaimExpiredLeases, Tick
<1>5. CASE \E f \in DOMAIN procs : RenewalHit(f) \/ CompletionHit(f)
  BY <1>5 DEF RenewalHit, RenewLease, CompletionHit, CompleteJob, SetRow
<1> QED
  BY <1>1, <1>2, <1>3, <1>4, <1>5 DEF LedgerEffect, OtherLedgerStep, SparingStep

\* The invariant from its parts, for the lemmas on single steps.
LEMMA Assemble ==
  ASSUME EngineInv, LedgerEffect, engines' \in [Owners -> Engine],
         \A o \in Owners : EngineOK(o)',
         IsFiniteSet(DOMAIN procs'), DOMAIN procs' \subseteq granted',
         \A f \in DOMAIN procs' : procs'[f] \in Proc /\ ProcOK(f)',
         UNCHANGED faults \/ Fault
  PROVE  EngineInv'
<1>1. LedgerInv'
  BY LedgerKept
<1>2. faults' \in 0..MaxFaults
  BY FaultsAssumption DEF Fault, EngineInv, EngineTypeOK
<1> QED
  BY <1>1, <1>2 DEF EngineInv, EngineTypeOK, LedgerInv

\* A step of engine o leaves the other engines in order.
LEMMA EngineFrame ==
  ASSUME EngineInv, NEW o \in Owners, NEW e \in Engine, SetEngine(o, e),
         granted \subseteq granted', DOMAIN procs \subseteq DOMAIN procs',
         \A g \in DOMAIN procs' : g \notin DOMAIN procs => g.lease_owner = o,
         \A g \in DOMAIN procs : g.lease_owner # o => procs'[g] = procs[g],
         EngineOK(o)'
  PROVE  engines' \in [Owners -> Engine] /\ \A q \in Owners : EngineOK(q)'
<1>1. engines \in [Owners -> Engine] /\ engines' = [engines EXCEPT ![o] = e]
  BY DEF EngineInv, EngineTypeOK, SetEngine
<1>2. ASSUME NEW q \in Owners, q # o PROVE EngineOK(q)'
  <2>1. engines'[q] = engines[q]
    BY <1>1, <1>2
  <2>2. ActiveOf(q)' = ActiveOf(q)
    BY <1>2 DEF ActiveOf, Active
  <2>3. EngineOK(q)
    BY DEF EngineInv
  <2>4. \A f \in engines[q].batch : f \notin DOMAIN procs' /\ f.lease_owner = q
    BY <1>2, <2>3 DEF EngineOK
  <2>5. engines[q].batch \subseteq granted'
    BY <2>3 DEF EngineOK
  <2> QED
    BY <2>1, <2>2, <2>3, <2>4, <2>5 DEF EngineOK
<1>3. engines' \in [Owners -> Engine]
  BY <1>1
<1> QED
  BY <1>2, <1>3

\* A step within the goroutines leaves the engines in order.
LEMMA EnginesKept ==
  ASSUME EngineInv, engines' = engines, granted \subseteq granted',
         DOMAIN procs' = DOMAIN procs,
         \A g \in DOMAIN procs : Active(g)' <=> Active(g)
  PROVE  engines' \in [Owners -> Engine] /\ \A q \in Owners : EngineOK(q)'
<1>1. ASSUME NEW q \in Owners PROVE EngineOK(q)'
  <2>1. ActiveOf(q)' = ActiveOf(q)
    BY DEF ActiveOf
  <2>2. EngineOK(q)
    BY DEF EngineInv
  <2>3. engines[q].batch \subseteq granted'
    BY <2>2 DEF EngineOK
  <2> QED
    BY <2>1, <2>2, <2>3 DEF EngineOK
<1> QED
  BY <1>1 DEF EngineInv, EngineTypeOK

\* A step of one goroutine, or of its renewal, that does not end it.
LEMMA GoroutineStep ==
  ASSUME EngineInv, LedgerEffect, NEW f \in DOMAIN procs, NEW p \in Proc,
         SetProc(f, p), UNCHANGED engines, UNCHANGED faults \/ Fault,
         Active(f), p.pc \notin {"done", "dead"},
         p.renewal # "off" => p.pc \in {"execute", "join"},
         p.pc \in {"join", "write"} => p.outcome # "none",
         p.ctxDone => procs[f].ctxDone \/ Cause(f)'
                        \/ (jobs'[f.key].lease_expires_in <= 0 /\ p.renewal = "off"
                            /\ p.pc \in {"execute", "join", "write", "exit"}),
         procs[f].pc \in {"execute", "join", "write", "exit"} =>
           p.pc \in {"execute", "join", "write", "exit"},
         procs[f].renewal = "off" /\ procs[f].pc \in {"execute", "join", "write", "exit"} =>
           p.renewal = "off"
  PROVE  EngineInv'
<1>1. /\ DOMAIN procs' = DOMAIN procs /\ procs'[f] = p
      /\ \A g \in DOMAIN procs : g # f => procs'[g] = procs[g]
  BY DEF SetProc
<1>2. granted \subseteq granted'
  BY GrantedGrows
<1>3. \A g \in DOMAIN procs : Active(g)' <=> Active(g)
  BY <1>1 DEF Active
<1>4. engines' \in [Owners -> Engine] /\ \A q \in Owners : EngineOK(q)'
  BY <1>1, <1>2, <1>3, EnginesKept
<1>5. ASSUME NEW g \in DOMAIN procs, g # f PROVE procs'[g] \in Proc /\ ProcOK(g)'
  <2>1. procs'[g] = procs[g] /\ procs[g] \in Proc /\ ProcOK(g)
    BY <1>1, <1>5 DEF EngineInv, EngineTypeOK
  <2>2. ProcOK(g)'
    BY <2>1, ProcKept DEF ProcOK, Active
  <2> QED
    BY <2>1, <2>2
<1>6. ProcOK(f)'
  <2>1. p.ctxDone => procs[f].ctxDone \/ Cause(f)' \/ Lapsed(f)'
    BY <1>1 DEF Lapsed
  <2> QED
    BY <1>1, <2>1, ProcKept
<1>7. DOMAIN procs' \subseteq granted' /\ IsFiniteSet(DOMAIN procs')
  BY <1>1, <1>2 DEF EngineInv, EngineTypeOK
<1> QED
  BY <1>1, <1>4, <1>5, <1>6, <1>7, Assemble

-----------------------------------------------------------------------------
(* The steps of processJob and of runLeaseRenewal.                         *)

\* A goroutine that calls MarkRunning, in each of its answers.
LEMMA MarkSteps ==
  ASSUME EngineInv, LedgerEffect, NEW f \in DOMAIN procs,
         \/ MarkHit(f) \/ MarkMiss(f) \/ MarkMissExplained(f) \/ MarkFault(f)
         \/ AckBeforeStart(f)
  PROVE  EngineInv'
<1>0. procs[f] \in Proc /\ ProcOK(f)
  BY DEF EngineInv, EngineTypeOK
<1>1. CASE MarkHit(f)
  <2> DEFINE p == [procs[f] EXCEPT !.pc = "execute", !.renewal = "idle"]
  <2>1. SetProc(f, p) /\ UNCHANGED engines /\ (UNCHANGED faults \/ Fault)
    BY <1>1 DEF MarkHit
  <2>2. p \in Proc
    BY <1>0, <1>1 DEF MarkHit, Proc, ProcPCs, RenewalPCs, Outcomes
  <2> QED
    BY <1>0, <1>1, <2>1, <2>2, GoroutineStep DEF MarkHit, Proc, Active, ProcOK
<1>2. CASE MarkMiss(f)
  <2> DEFINE p == [procs[f] EXCEPT !.pc = "miss"]
  <2>1. SetProc(f, p) /\ UNCHANGED engines /\ (UNCHANGED faults \/ Fault)
    BY <1>2 DEF MarkMiss, ProcGoto
  <2>2. p \in Proc
    BY <1>0, <1>2 DEF MarkMiss, Proc, ProcPCs, RenewalPCs, Outcomes
  <2> QED
    BY <1>0, <1>2, <2>1, <2>2, GoroutineStep DEF MarkMiss, Proc, Active, ProcOK
<1>3. CASE MarkMissExplained(f)
  <2>1. PICK c \in {"ack", "exit"} : ProcGoto(f, c)
    BY <1>3 DEF MarkMissExplained
  <2> DEFINE p == [procs[f] EXCEPT !.pc = c]
  <2>2. SetProc(f, p) /\ UNCHANGED engines /\ UNCHANGED faults
    BY <1>3, <2>1 DEF MarkMissExplained, ProcGoto
  <2>3. p \in Proc
    BY <1>0, <2>1 DEF Proc, ProcPCs
  <2> QED
    BY <1>0, <1>3, <2>1, <2>2, <2>3, GoroutineStep
    DEF MarkMissExplained, Proc, Active, ProcOK
<1>4. CASE MarkFault(f)
  <2> DEFINE p == [procs[f] EXCEPT !.pc = "exit"]
  <2>1. SetProc(f, p) /\ UNCHANGED engines /\ (UNCHANGED faults \/ Fault)
    BY <1>4 DEF MarkFault, ProcGoto
  <2>2. p \in Proc
    BY <1>0, <1>4 DEF MarkFault, Proc, ProcPCs, RenewalPCs, Outcomes
  <2> QED
    BY <1>0, <1>4, <2>1, <2>2, GoroutineStep DEF MarkFault, Proc, Active, ProcOK
<1>5. CASE AckBeforeStart(f)
  <2> DEFINE p == [procs[f] EXCEPT !.pc = "exit"]
  <2>1. SetProc(f, p) /\ UNCHANGED engines /\ (UNCHANGED faults \/ Fault)
    BY <1>5 DEF AckBeforeStart, ProcGoto, AckCall, Call
  <2>2. p \in Proc
    BY <1>0, <1>5 DEF AckBeforeStart, Proc, ProcPCs, RenewalPCs, Outcomes
  <2> QED
    BY <1>0, <1>5, <2>1, <2>2, GoroutineStep DEF AckBeforeStart, Proc, Active, ProcOK
<1> QED
  BY <1>1, <1>2, <1>3, <1>4, <1>5

\* A goroutine from the end of Execute to the written outcome.
LEMMA OutcomeSteps ==
  ASSUME EngineInv, LedgerEffect, NEW f \in DOMAIN procs,
         ExecuteReturns(f) \/ JoinRenewal(f) \/ WriteOutcome(f)
  PROVE  EngineInv'
<1>0. procs[f] \in Proc /\ ProcOK(f)
  BY DEF EngineInv, EngineTypeOK
<1>1. CASE ExecuteReturns(f)
  <2>1. PICK outcome \in {"ok", "failed", "retryable"} :
          SetProc(f, [procs[f] EXCEPT !.pc = "join", !.outcome = outcome])
    BY <1>1 DEF ExecuteReturns, ExecutionOutcomes
  <2> DEFINE p == [procs[f] EXCEPT !.pc = "join", !.outcome = outcome]
  <2>2. p \in Proc
    BY <1>0, <2>1 DEF Proc, ProcPCs, Outcomes
  <2> QED
    BY <1>0, <1>1, <2>1, <2>2, GoroutineStep
    DEF ExecuteReturns, Proc, Active, ProcOK
<1>2. CASE JoinRenewal(f)
  <2>1. PICK c \in {"exit", "write"} : ProcGoto(f, c)
    BY <1>2 DEF JoinRenewal
  <2> DEFINE p == [procs[f] EXCEPT !.pc = c]
  <2>2. SetProc(f, p) /\ UNCHANGED engines /\ UNCHANGED faults
    BY <1>2, <2>1 DEF JoinRenewal, ProcGoto
  <2>3. p \in Proc
    BY <1>0, <2>1 DEF Proc, ProcPCs
  <2> QED
    BY <1>0, <1>2, <2>1, <2>2, <2>3, GoroutineStep
    DEF JoinRenewal, Proc, Active, ProcOK
<1>3. CASE WriteOutcome(f)
  <2> DEFINE p == [procs[f] EXCEPT !.pc = "exit"]
  <2>1. SetProc(f, p) /\ UNCHANGED engines /\ (UNCHANGED faults \/ Fault)
    BY <1>3 DEF WriteOutcome, ProcGoto, OutcomeCall, Call
  <2>2. p \in Proc
    BY <1>0, <1>3 DEF WriteOutcome, Proc, ProcPCs, RenewalPCs, Outcomes
  <2> QED
    BY <1>0, <1>3, <2>1, <2>2, GoroutineStep DEF WriteOutcome, Proc, Active, ProcOK
<1> QED
  BY <1>1, <1>2, <1>3

\* The renewal goroutine of a job.
LEMMA RenewalSteps ==
  ASSUME EngineInv, LedgerEffect, NEW f \in DOMAIN procs, RenewalStep(f)
  PROVE  EngineInv'
<1>0. procs[f] \in Proc /\ ProcOK(f)
  BY DEF EngineInv, EngineTypeOK
<1>r. ASSUME NEW x \in RenewalPCs, SetRenewal(f, x), procs[f].renewal # "off",
             UNCHANGED engines, UNCHANGED faults \/ Fault
      PROVE  EngineInv'
  <2> DEFINE p == [procs[f] EXCEPT !.renewal = x]
  <2>1. p \in Proc
    BY <1>0 DEF Proc
  <2> QED
    BY <1>0, <1>r, <2>1, GoroutineStep DEF SetRenewal, Proc, Active, ProcOK
<1>c. ASSUME NEW x \in RenewalPCs, CancelAndGoto(f, x), procs[f].renewal # "off",
             UNCHANGED engines, UNCHANGED faults \/ Fault,
             Cause(f)' \/ (x = "off" /\ jobs'[f.key].lease_expires_in <= 0)
      PROVE  EngineInv'
  <2> DEFINE p == [procs[f] EXCEPT !.renewal = x, !.ctxDone = TRUE]
  <2>1. p \in Proc
    BY <1>0 DEF Proc
  <2> QED
    BY <1>0, <1>c, <2>1, GoroutineStep DEF CancelAndGoto, Proc, Active, ProcOK
<1>x. {"off", "idle", "check", "ack", "renew"} = RenewalPCs
  BY DEF RenewalPCs
<1>1. CASE RenewalTick(f)
  BY <1>1, <1>r, <1>x DEF RenewalTick
<1>2. CASE RenewalCheck(f)
  <2>1. CASE CancelAndGoto(f, "ack") /\ jobs[f.key].cancel_requested
    <3>1. Cause(f)'
      BY <1>2, <2>1 DEF RenewalCheck, vars, Cause
    <3> QED
      BY <1>2, <2>1, <3>1, <1>c, <1>x DEF RenewalCheck, Fault
  <2>2. CASE SetRenewal(f, "renew")
    BY <1>2, <2>2, <1>r, <1>x DEF RenewalCheck
  <2> QED
    BY <1>2, <2>1, <2>2 DEF RenewalCheck
<1>3. CASE RenewalAck(f)
  <2>1. UNCHANGED faults \/ Fault
    BY <1>3 DEF RenewalAck, AckCall, Call
  <2> QED
    BY <1>3, <2>1, <1>r, <1>x DEF RenewalAck
<1>4. CASE RenewalRenew(f)
  <2>1. CASE SetRenewal(f, "idle")
    BY <1>4, <2>1, <1>r, <1>x DEF RenewalRenew
  <2>2. ASSUME NEW lag \in Lags, ~HoldsLease(f, lag), CancelAndGoto(f, "off"),
               UNCHANGED <<vars, faults>>
        PROVE  EngineInv'
    <3>1. f \in LeaseFence /\ f.key \in Keys
      BY DEF EngineInv, EngineTypeOK, TypeOK, LeaseFence
    <3>2. CASE ~HasLease(f, jobs[f.key])
      <4>1. Cause(f)'
        BY <2>2, <3>2 DEF Cause, vars
      <4> QED
        BY <1>4, <2>2, <4>1, <1>c, <1>x DEF RenewalRenew
    <3>3. CASE HasLease(f, jobs[f.key])
      <4>1. jobs[f.key].lease_expires_in \in Int
        BY <3>1, <3>3 DEF HasLease, EngineInv, LedgerInv, RowOK
      <4>2. ~(jobs[f.key].lease_expires_in > -lag)
        BY <2>2, <3>1, <3>3 DEF HoldsLease, HasLease, Fence
      <4>3. jobs'[f.key].lease_expires_in <= 0
        BY <2>2, <4>1, <4>2, LagAssumption DEF vars, Lags
      <4> QED
        BY <1>4, <2>2, <4>3, <1>c, <1>x DEF RenewalRenew
    <3> QED
      BY <3>2, <3>3
  <2> QED
    BY <1>4, <2>1, <2>2 DEF RenewalRenew
<1>5. CASE RenewalExit(f)
  BY <1>5, <1>r, <1>x DEF RenewalExit
<1> QED
  BY <1>1, <1>2, <1>3, <1>4, <1>5 DEF RenewalStep

-----------------------------------------------------------------------------
(* The steps of Run.                                                       *)

\* The counts of an engine are natural numbers.
LEMMA Counts ==
  ASSUME EngineInv, NEW o \in Owners
  PROVE  /\ engines[o] \in Engine /\ EngineOK(o)
         /\ engines[o].free \in Nat /\ engines[o].tokens \in Nat
         /\ IsFiniteSet(ActiveOf(o)) /\ Cardinality(ActiveOf(o)) \in Nat
         /\ Cardinality(engines[o].batch) \in Nat
<1>1. engines[o] \in Engine /\ EngineOK(o)
  BY DEF EngineInv, EngineTypeOK
<1>2. engines[o].free \in Nat /\ engines[o].tokens \in Nat
  BY <1>1, ConcurrencyAssumption DEF Engine
<1>3. ActiveOf(o) \subseteq DOMAIN procs /\ IsFiniteSet(DOMAIN procs)
  BY DEF ActiveOf, EngineInv
<1>4. IsFiniteSet(ActiveOf(o))
  BY <1>3, FS_Subset
<1>5. Cardinality(engines[o].batch) \in Nat
  BY <1>1, FS_CardinalityType DEF EngineOK
<1> QED
  BY <1>1, <1>2, <1>4, <1>5, FS_CardinalityType

\* A step of the loop that leaves the goroutines alone.
LEMMA LoopKept ==
  ASSUME EngineInv, LedgerEffect, NEW o \in Owners, NEW e \in Engine,
         SetEngine(o, e), procs' = procs, UNCHANGED faults \/ Fault,
         engines[o].forced => e.forced,
         EngineOK(o)'
  PROVE  EngineInv'
<1>1. granted \subseteq granted'
  BY GrantedGrows
<1>2. engines' \in [Owners -> Engine] /\ \A q \in Owners : EngineOK(q)'
  BY <1>1, EngineFrame
<1>3. ASSUME NEW f \in DOMAIN procs PROVE ProcOK(f)'
  <2>1. engines[f.lease_owner].forced => engines'[f.lease_owner].forced
    BY DEF SetEngine, EngineInv, EngineTypeOK
  <2>2. ProcOK(f) /\ procs'[f] = procs[f]
    BY DEF EngineInv
  <2> QED
    BY <2>1, <2>2, ProcKept DEF ProcOK, Active
<1>4. \A f \in DOMAIN procs : procs[f] \in Proc
  BY DEF EngineInv, EngineTypeOK
<1>5. DOMAIN procs' \subseteq granted' /\ IsFiniteSet(DOMAIN procs')
  BY <1>1 DEF EngineInv, EngineTypeOK
<1> QED
  BY <1>2, <1>3, <1>4, <1>5, Assemble

\* A step of the loop that leaves its counts alone or moves tokens between the
\* channel and the iteration.
LEMMA TokenStep ==
  ASSUME EngineInv, LedgerEffect, NEW o \in Owners, NEW e \in Engine,
         SetEngine(o, e), procs' = procs, UNCHANGED faults \/ Fault,
         e.forced = engines[o].forced, e.batch = {},
         e.cancelFuncs = engines[o].cancelFuncs,
         e.free + e.tokens = engines[o].free + engines[o].tokens,
         e.pc # "acquire" => e.tokens = 0,
         e.pc \in {"stopping", "stopped"} /\ ~e.forced => ActiveOf(o) = {}
  PROVE  EngineInv'
<1>1. engines'[o] = e
  BY DEF SetEngine, EngineInv, EngineTypeOK
<1>2. ActiveOf(o)' = ActiveOf(o)
  BY DEF ActiveOf, Active
<1>3. EngineOK(o)
  BY DEF EngineInv
<1>4. IsFiniteSet({}) /\ Cardinality({}) = 0
  BY FS_EmptySet
<1>5. e.tokens >= 0
  BY ConcurrencyAssumption DEF Engine
<1>6. EngineOK(o)'
  BY <1>1, <1>2, <1>3, <1>4, <1>5 DEF EngineOK
<1> QED
  BY <1>6, LoopKept

\* The poll loop before a batch is there.
LEMMA PollSteps ==
  ASSUME EngineInv, LedgerEffect, NEW o \in Owners,
         PollTop(o) \/ AcquireCanceled(o) \/ AcquireEmpty(o) \/ AcquireFault(o)
           \/ PollWait(o)
  PROVE  EngineInv'
<1>0. /\ engines[o] \in Engine /\ EngineOK(o)
      /\ engines[o].free \in Nat /\ engines[o].tokens \in Nat
      /\ Cardinality(ActiveOf(o)) \in Nat
  BY Counts
<1>1. engines[o].free + engines[o].tokens <= Concurrency
  BY <1>0, ConcurrencyAssumption DEF EngineOK
<1>b. ASSUME NEW c \in {"break", "wait"}, SetEngine(o, TokensBack(engines[o], c)),
             procs' = procs, UNCHANGED faults \/ Fault
      PROVE  EngineInv'
  <2> DEFINE e == TokensBack(engines[o], c)
  <2>1. engines[o].free + engines[o].tokens \in 0..Concurrency
    BY <1>0, <1>1, ConcurrencyAssumption
  <2>2. /\ e.pc = c /\ e.free = engines[o].free + engines[o].tokens
        /\ e.tokens = 0 /\ e.batch = {} /\ e.forced = engines[o].forced
        /\ e.cancelFuncs = engines[o].cancelFuncs
    BY <1>0 DEF TokensBack, Engine
  <2>3. e \in Engine
    <3>1. 0 \in 0..Concurrency /\ c \in LoopPCs /\ {} \in SUBSET LeaseFence
      BY ConcurrencyAssumption DEF LoopPCs
    <3> QED
      BY <1>0, <2>1, <3>1 DEF TokensBack, Engine
  <2> HIDE DEF e
  <2> QED
    BY <1>0, <1>b, <2>2, <2>3, TokenStep DEF e
<1>2. CASE PollTop(o) /\ engines[o].ctxDone
  <2> DEFINE e == [engines[o] EXCEPT !.pc = "break"]
  <2>1. SetEngine(o, e)
    BY <1>2 DEF PollTop
  <2>2. e \in Engine
    BY <1>0 DEF Engine, LoopPCs
  <2> QED
    BY <1>0, <1>2, <2>1, <2>2, TokenStep DEF PollTop, Engine, EngineOK
<1>3. CASE PollTop(o) /\ ~engines[o].ctxDone
  <2>1. /\ Taken(o) \in Nat /\ Taken(o) <= engines[o].free
        /\ engines[o].free > 0
    BY <1>0, <1>3, BatchAssumption DEF Taken, PollTop
  <2>2. engines[o].tokens = 0 /\ engines[o].batch = {}
    BY <1>0, <1>3 DEF EngineOK, PollTop
  <2> DEFINE e == [engines[o] EXCEPT !.pc = "acquire", !.tokens = Taken(o),
                                     !.free = @ - Taken(o)]
  <2>3. SetEngine(o, e)
    BY <1>3 DEF PollTop
  <2>4. engines[o].free - Taken(o) \in 0..Concurrency /\ Taken(o) \in 0..Concurrency
    BY <1>0, <1>1, <2>1, ConcurrencyAssumption
  <2>5. e \in Engine
    BY <1>0, <2>4 DEF Engine, LoopPCs
  <2>6. /\ e.pc = "acquire" /\ e.tokens = Taken(o) /\ e.batch = {}
        /\ e.free = engines[o].free - Taken(o)
        /\ e.forced = engines[o].forced /\ e.cancelFuncs = engines[o].cancelFuncs
    BY <1>0, <2>2 DEF Engine
  <2>7. e.free + e.tokens = engines[o].free + engines[o].tokens
    BY <1>0, <2>1, <2>2, <2>6
  <2> HIDE DEF e
  <2> QED
    BY <1>3, <2>3, <2>5, <2>6, <2>7, TokenStep DEF PollTop
<1>4. CASE AcquireCanceled(o) \/ AcquireEmpty(o) \/ AcquireFault(o)
  BY <1>4, <1>b DEF AcquireCanceled, AcquireEmpty, AcquireFault
<1>5. CASE PollWait(o)
  <2>1. PICK c \in {"break", "poll"} :
          SetEngine(o, [engines[o] EXCEPT !.pc = c])
    BY <1>5 DEF PollWait
  <2> DEFINE e == [engines[o] EXCEPT !.pc = c]
  <2>2. e \in Engine
    BY <1>0, <2>1 DEF Engine, LoopPCs
  <2> QED
    BY <1>0, <1>5, <2>1, <2>2, TokenStep DEF PollWait, Engine, EngineOK
<1> QED
  BY <1>2, <1>3, <1>4, <1>5

\* The drain and the return of Run.
LEMMA ShutdownSteps ==
  ASSUME EngineInv, LedgerEffect, NEW o \in Owners,
         \/ BeginDrain(o) \/ DrainDone(o) \/ RunReturns(o)
  PROVE  EngineInv'
<1>0. engines[o] \in Engine /\ EngineOK(o)
  BY Counts
<1>1. CASE BeginDrain(o)
  <2> DEFINE e == [engines[o] EXCEPT !.pc = "drain", !.shuttingDown = TRUE]
  <2>1. e \in Engine
    BY <1>0 DEF Engine, LoopPCs
  <2> QED
    BY <1>0, <1>1, <2>1, TokenStep DEF BeginDrain, Engine, EngineOK
<1>2. CASE DrainDone(o)
  <2> DEFINE e == [engines[o] EXCEPT !.pc = "stopping"]
  <2>1. e \in Engine
    BY <1>0 DEF Engine, LoopPCs
  <2> QED
    BY <1>0, <1>2, <2>1, TokenStep DEF DrainDone, Engine, EngineOK
<1>3. CASE RunReturns(o)
  <2> DEFINE e == [engines[o] EXCEPT !.pc = "stopped"]
  <2>1. e \in Engine
    BY <1>0 DEF Engine, LoopPCs
  <2> QED
    BY <1>0, <1>3, <2>1, TokenStep DEF RunReturns, Engine, EngineOK
<1> QED
  BY <1>1, <1>2, <1>3

\* A signal, or the end of the reclamation loop: only a flag moves.
LEMMA FlagSteps ==
  ASSUME EngineInv, LedgerEffect, NEW o \in Owners, ReclaimerExit(o) \/ Signal(o)
  PROVE  EngineInv'
<1>0. engines[o] \in Engine /\ EngineOK(o)
  BY Counts
<1>1. PICK e \in Engine :
        /\ SetEngine(o, e)
        /\ e.pc = engines[o].pc /\ e.free = engines[o].free
        /\ e.tokens = engines[o].tokens /\ e.batch = engines[o].batch
        /\ e.forced = engines[o].forced /\ e.cancelFuncs = engines[o].cancelFuncs
  <2>1. CASE ReclaimerExit(o)
    <3> DEFINE e == [engines[o] EXCEPT !.reclaimer = FALSE]
    <3>1. e \in Engine /\ SetEngine(o, e)
      BY <1>0, <2>1 DEF ReclaimerExit, Engine
    <3> QED
      BY <1>0, <3>1 DEF Engine
  <2>2. CASE Signal(o)
    <3> DEFINE e == [engines[o] EXCEPT !.ctxDone = TRUE]
    <3>1. e \in Engine /\ SetEngine(o, e)
      BY <1>0, <2>2 DEF Signal, Engine
    <3> QED
      BY <1>0, <3>1 DEF Engine
  <2> QED
    BY <2>1, <2>2
<1>2. procs' = procs /\ UNCHANGED faults /\ granted' = granted
  BY DEF ReclaimerExit, Signal, vars
<1>3. engines'[o] = e
  BY <1>1 DEF SetEngine, EngineInv, EngineTypeOK
<1>4. ActiveOf(o)' = ActiveOf(o)
  BY <1>2 DEF ActiveOf, Active
<1>5. EngineOK(o)'
  BY <1>0, <1>1, <1>2, <1>3, <1>4 DEF EngineOK
<1> QED
  BY <1>1, <1>2, <1>5, LoopKept

\* AcquireLeases hands the loop at most as many new fences as it has tokens.
LEMMA GrantedStep ==
  ASSUME EngineInv, LedgerEffect, NEW o \in Owners, AcquireGranted(o)
  PROVE  EngineInv'
<1>0. /\ engines[o] \in Engine /\ EngineOK(o)
      /\ engines[o].free \in Nat /\ engines[o].tokens \in Nat
  BY Counts
<1>1. PICK picked \in SUBSET Keys, duration \in LeaseDurations, lag \in Lags :
        /\ Cardinality(picked) <= engines[o].tokens
        /\ AcquireLeases(o, picked, duration, lag)
  BY DEF AcquireGranted
<1> DEFINE new(k) == Fence(k, LeasedRow(jobs[k], o, duration - lag))
           T == {new(k) : k \in picked}
           B == granted' \ granted
<1>2. IsFiniteSet(picked) /\ granted' = granted \cup T
  BY <1>1 DEF AcquireLeases
<1>3. IsFiniteSet(T) /\ Cardinality(T) <= Cardinality(picked)
  <2> DEFINE h == [k \in picked |-> new(k)]
  <2>1. h \in Surjection(picked, T)
    BY DEF Surjection
  <2> QED
    BY <1>2, <2>1, FS_Surjection
<1>4. B \subseteq T
  BY <1>2
<1>5. /\ IsFiniteSet(B) /\ Cardinality(B) <= Cardinality(T)
      /\ Cardinality(B) \in Nat /\ Cardinality(T) \in Nat
      /\ Cardinality(picked) \in Nat
  BY <1>2, <1>3, <1>4, FS_Subset, FS_CardinalityType
<1>6. Cardinality(B) <= engines[o].tokens
  BY <1>0, <1>1, <1>3, <1>5
<1>7. \A f \in B : f.lease_owner = o
  <2>1. ASSUME NEW k \in picked PROVE new(k).lease_owner = o
    BY DEF Fence, LeasedRow, EngineInv, LedgerInv, TypeOK, Row
  <2> QED
    BY <1>4, <2>1
<1>8. \A f \in B : f \notin DOMAIN procs
  BY DEF EngineInv, EngineTypeOK
<1>9. B \subseteq LeaseFence
  BY LedgerKept DEF LedgerInv, TypeOK
<1> DEFINE e == [engines[o] EXCEPT !.pc = "acquired", !.batch = B]
<1>10. SetEngine(o, e) /\ procs' = procs /\ UNCHANGED faults
  BY DEF AcquireGranted
<1>11. e \in Engine
  BY <1>0, <1>9 DEF Engine, LoopPCs
<1>12. /\ e.pc = "acquired" /\ e.free = engines[o].free
       /\ e.tokens = engines[o].tokens /\ e.batch = B
       /\ e.forced = engines[o].forced /\ e.cancelFuncs = engines[o].cancelFuncs
  BY <1>0 DEF Engine
<1> HIDE DEF e, B
<1>13. engines'[o] = e
  BY <1>10 DEF SetEngine, EngineInv, EngineTypeOK
<1>14. ActiveOf(o)' = ActiveOf(o)
  BY <1>10 DEF ActiveOf, Active
<1>15. B \subseteq granted'
  BY DEF B
<1>16. EngineOK(o)'
  BY <1>0, <1>5, <1>6, <1>7, <1>8, <1>10, <1>12, <1>13, <1>14, <1>15
  DEF EngineOK
<1> QED
  BY <1>10, <1>11, <1>12, <1>16, LoopKept

\* A batch is handed to goroutines, one token each.
LEMMA DispatchStep ==
  ASSUME EngineInv, LedgerEffect, NEW o \in Owners, Dispatch(o)
  PROVE  EngineInv'
<1>0. /\ engines[o] \in Engine /\ EngineOK(o)
      /\ engines[o].free \in Nat /\ engines[o].tokens \in Nat
      /\ IsFiniteSet(ActiveOf(o)) /\ Cardinality(ActiveOf(o)) \in Nat
      /\ Cardinality(engines[o].batch) \in Nat
  BY Counts
<1> DEFINE B == engines[o].batch
           n == Cardinality(B)
<1>1. /\ engines[o].pc = "acquired" /\ UNCHANGED vars /\ UNCHANGED faults
  BY DEF Dispatch
<1>2. /\ IsFiniteSet(B) /\ n <= engines[o].tokens /\ B \subseteq granted
      /\ \A f \in B : f \notin DOMAIN procs /\ f.lease_owner = o
      /\ engines[o].free + engines[o].tokens + Cardinality(ActiveOf(o)) = Concurrency
  BY <1>0 DEF EngineOK
<1>3. CASE engines[o].ctxDone
  <2> DEFINE e == TokensBack(engines[o], "break")
  <2>1. SetEngine(o, e) /\ procs' = procs
    BY <1>3 DEF Dispatch
  <2>2. engines[o].free + engines[o].tokens \in 0..Concurrency
    BY <1>0, <1>2, ConcurrencyAssumption
  <2>3. /\ e.pc = "break" /\ e.free = engines[o].free + engines[o].tokens
        /\ e.tokens = 0 /\ e.batch = {} /\ e.forced = engines[o].forced
        /\ e.cancelFuncs = engines[o].cancelFuncs
    BY <1>0 DEF TokensBack, Engine
  <2>4. e \in Engine
    <3>1. 0 \in 0..Concurrency /\ "break" \in LoopPCs /\ {} \in SUBSET LeaseFence
      BY ConcurrencyAssumption DEF LoopPCs
    <3> QED
      BY <1>0, <2>2, <3>1 DEF TokensBack, Engine
  <2> HIDE DEF e
  <2> QED
    BY <1>0, <1>1, <2>1, <2>3, <2>4, TokenStep
<1>4. CASE ~engines[o].ctxDone
  <2> DEFINE e == [engines[o] EXCEPT !.pc = "poll", !.tokens = 0,
                                     !.free = @ + engines[o].tokens - n,
                                     !.batch = {}]
  <2>1. /\ SetEngine(o, e)
        /\ procs' = [f \in DOMAIN procs \cup B |->
                       IF f \in B THEN NewProc ELSE procs[f]]
    BY <1>4 DEF Dispatch
  <2>2. engines[o].free + engines[o].tokens - n \in 0..Concurrency
    BY <1>0, <1>2, ConcurrencyAssumption
  <2>3. e \in Engine
    <3>1. 0 \in 0..Concurrency /\ "poll" \in LoopPCs /\ {} \in SUBSET LeaseFence
      BY ConcurrencyAssumption DEF LoopPCs
    <3> QED
      BY <1>0, <2>2, <3>1 DEF Engine
  <2>4. /\ e.pc = "poll" /\ e.free = engines[o].free + engines[o].tokens - n
        /\ e.tokens = 0 /\ e.batch = {} /\ e.forced = engines[o].forced
        /\ e.cancelFuncs = engines[o].cancelFuncs
    BY <1>0 DEF Engine
  <2> HIDE DEF e
  <2>5. engines'[o] = e
    BY <2>1 DEF SetEngine, EngineInv, EngineTypeOK
  <2>6. /\ DOMAIN procs' = DOMAIN procs \cup B
        /\ \A f \in B : procs'[f] = NewProc
        /\ \A f \in DOMAIN procs : procs'[f] = procs[f]
    BY <1>2, <2>1
  <2>7. ActiveOf(o)' = ActiveOf(o) \cup B
    BY <1>2, <2>6 DEF ActiveOf, Active, NewProc
  <2>8. ActiveOf(o) \cap B = {}
    BY <1>2 DEF ActiveOf
  <2>9. Cardinality(ActiveOf(o)') = Cardinality(ActiveOf(o)) + n
    <3> DEFINE A == ActiveOf(o)
    <3>1. IsFiniteSet(A) /\ IsFiniteSet(B)
      BY <1>0, <1>2
    <3>2. Cardinality(A \cup B) = Cardinality(A) + Cardinality(B) - Cardinality(A \cap B)
      BY <3>1, FS_Union, Zenon
    <3>3. Cardinality(A \cap B) = 0
      BY <2>8, FS_EmptySet
    <3>4. Cardinality(A) \in Nat /\ Cardinality(B) \in Nat
      BY <1>0
    <3>5. Cardinality(ActiveOf(o)') = Cardinality(A \cup B)
      BY <2>7
    <3> HIDE DEF A, B
    <3> QED
      BY <3>2, <3>3, <3>4, <3>5 DEF n, A
  <2>10. EngineOK(o)'
    <3>1. e.free + e.tokens + Cardinality(ActiveOf(o)') = Concurrency
      BY <1>0, <1>2, <2>4, <2>9, ConcurrencyAssumption
    <3>2. IsFiniteSet({}) /\ Cardinality({}) = 0
      BY FS_EmptySet
    <3>3. \A k \in Keys : e.cancelFuncs[k] # NULL => e.cancelFuncs[k].lease_owner = o
      BY <1>0, <2>4 DEF EngineOK
    <3> HIDE DEF B
    <3> QED
      BY <2>4, <2>5, <3>1, <3>2, <3>3 DEF EngineOK
  <2>11. engines' \in [Owners -> Engine] /\ \A q \in Owners : EngineOK(q)'
    BY <1>1, <1>2, <2>1, <2>3, <2>6, <2>10, EngineFrame DEF vars
  <2>12. ASSUME NEW f \in DOMAIN procs PROVE procs'[f] \in Proc /\ ProcOK(f)'
    <3>1. engines[f.lease_owner].forced => engines'[f.lease_owner].forced
      BY <2>1, <2>4 DEF SetEngine, EngineInv, EngineTypeOK
    <3>2. ProcOK(f) /\ procs'[f] = procs[f] /\ procs[f] \in Proc
      BY <2>6 DEF EngineInv, EngineTypeOK
    <3> QED
      BY <3>1, <3>2, ProcKept DEF ProcOK, Active
  <2>13. ASSUME NEW f \in B PROVE procs'[f] \in Proc /\ ProcOK(f)'
    <3>1. procs'[f] = NewProc
      BY <2>6
    <3>2. NewProc \in Proc
      BY DEF NewProc, Proc, ProcPCs, RenewalPCs, Outcomes
    <3>3. NewProc.pc = "start" /\ NewProc.renewal = "off" /\ NewProc.ctxDone = FALSE
      BY DEF NewProc
    <3>4. ProcOK(f)'
      BY <3>1, <3>3 DEF ProcOK
    <3> QED
      BY <3>1, <3>2, <3>4
  <2>14. DOMAIN procs' \subseteq granted' /\ IsFiniteSet(DOMAIN procs')
    <3>1. DOMAIN procs \subseteq granted /\ IsFiniteSet(DOMAIN procs)
      BY DEF EngineInv, EngineTypeOK
    <3>2. IsFiniteSet(DOMAIN procs \cup B)
      BY <1>2, <3>1, FS_Union, Zenon
    <3> QED
      BY <1>1, <1>2, <2>6, <3>1, <3>2 DEF vars
  <2> QED
    BY <1>1, <2>6, <2>11, <2>12, <2>13, <2>14, Assemble
<1> QED
  BY <1>3, <1>4

\* The drain timer: the registered goroutines are this engine's own, and from
\* now on their contexts have a cause.
LEMMA DeadlineStep ==
  ASSUME EngineInv, LedgerEffect, NEW o \in Owners, DrainDeadline(o)
  PROVE  EngineInv'
<1>0. engines[o] \in Engine /\ EngineOK(o)
  BY Counts
<1> DEFINE e == [engines[o] EXCEPT !.pc = "stopping", !.forced = TRUE]
<1>1. /\ SetEngine(o, e) /\ UNCHANGED vars /\ UNCHANGED faults
      /\ engines[o].pc = "drain"
      /\ procs' = [f \in DOMAIN procs |->
                     IF f \in Registered(o) THEN [procs[f] EXCEPT !.ctxDone = TRUE]
                     ELSE procs[f]]
  BY DEF DrainDeadline
<1>2. e \in Engine
  BY <1>0 DEF Engine, LoopPCs
<1>3. /\ e.pc = "stopping" /\ e.free = engines[o].free
      /\ e.tokens = engines[o].tokens /\ e.batch = engines[o].batch
      /\ e.forced = TRUE /\ e.cancelFuncs = engines[o].cancelFuncs
  BY <1>0 DEF Engine
<1> HIDE DEF e
<1>4. engines'[o] = e
  BY <1>1 DEF SetEngine, EngineInv, EngineTypeOK
<1>5. \A f \in Registered(o) : f.lease_owner = o
  BY <1>0 DEF Registered, EngineOK
<1>6. \A f \in DOMAIN procs :
        /\ procs'[f] \in Proc /\ procs'[f].pc = procs[f].pc
        /\ procs'[f].renewal = procs[f].renewal
        /\ procs'[f].outcome = procs[f].outcome
        /\ f \notin Registered(o) => procs'[f] = procs[f]
  BY <1>1 DEF Proc, EngineInv, EngineTypeOK
<1>7. ActiveOf(o)' = ActiveOf(o)
  BY <1>1, <1>6 DEF ActiveOf, Active
<1>8. DOMAIN procs' = DOMAIN procs /\ granted' = granted
  BY <1>1 DEF vars
<1>9. EngineOK(o)'
  BY <1>0, <1>1, <1>3, <1>4, <1>7, <1>8 DEF EngineOK
<1>10. engines' \in [Owners -> Engine] /\ \A q \in Owners : EngineOK(q)'
  BY <1>1, <1>2, <1>5, <1>6, <1>8, <1>9, EngineFrame
<1>11. ASSUME NEW f \in DOMAIN procs PROVE ProcOK(f)'
  <2>1. engines[f.lease_owner].forced => engines'[f.lease_owner].forced
    BY <1>1, <1>3 DEF SetEngine, EngineInv, EngineTypeOK
  <2>2. f \in Registered(o) => Cause(f)'
    BY <1>3, <1>4, <1>5 DEF Cause
  <2>3. ProcOK(f)
    BY DEF EngineInv
  <2> QED
    BY <1>6, <2>1, <2>2, <2>3, ProcKept DEF ProcOK, Active
<1>12. DOMAIN procs' \subseteq granted' /\ IsFiniteSet(DOMAIN procs')
  BY <1>8 DEF EngineInv, EngineTypeOK
<1> QED
  BY <1>1, <1>6, <1>8, <1>10, <1>11, <1>12, Assemble

\* An engine that starts has its type.
LEMMA NewEngineType == NewEngine \in Engine
<1>1. 0 \in 0..Concurrency /\ Concurrency \in 0..Concurrency
  BY ConcurrencyAssumption
<1> QED
  BY <1>1 DEF NewEngine, Engine, LoopPCs

\* An engine without goroutines that starts over.
LEMMA NewEngineOK ==
  ASSUME NEW o \in Owners, engines[o] = NewEngine, ActiveOf(o) = {}
  PROVE  EngineOK(o)
<1>1. /\ NewEngine.pc = "poll" /\ NewEngine.free = Concurrency
      /\ NewEngine.tokens = 0 /\ NewEngine.batch = {}
      /\ \A k \in Keys : NewEngine.cancelFuncs[k] = NULL
  BY DEF NewEngine
<1>2. IsFiniteSet({}) /\ Cardinality({}) = 0
  BY FS_EmptySet
<1> QED
  BY <1>1, <1>2, ConcurrencyAssumption DEF EngineOK

\* A crash loses the engine's goroutines and nothing of the ledger.
LEMMA CrashStep ==
  ASSUME EngineInv, LedgerEffect, NEW o \in Owners, Crash(o)
  PROVE  EngineInv'
<1> DEFINE d == [NewProc EXCEPT !.pc = "dead"]
<1>1. /\ SetEngine(o, NewEngine) /\ UNCHANGED vars /\ Fault
      /\ procs' = [f \in DOMAIN procs |->
                     IF f.lease_owner = o THEN d ELSE procs[f]]
  BY DEF Crash
<1>2. d \in Proc /\ d.pc = "dead" /\ d.renewal = "off"
  BY DEF NewProc, Proc, ProcPCs, RenewalPCs, Outcomes
<1> HIDE DEF d
<1>3. /\ DOMAIN procs' = DOMAIN procs /\ granted' = granted
      /\ \A f \in DOMAIN procs : f.lease_owner = o => procs'[f] = d
      /\ \A f \in DOMAIN procs : f.lease_owner # o => procs'[f] = procs[f]
  BY <1>1 DEF vars
<1>4. ActiveOf(o)' = {}
  BY <1>2, <1>3 DEF ActiveOf, Active
<1>5. engines'[o] = NewEngine
  BY <1>1 DEF SetEngine, EngineInv, EngineTypeOK
<1>6. EngineOK(o)'
  <2>1. /\ NewEngine.pc = "poll" /\ NewEngine.free = Concurrency
        /\ NewEngine.tokens = 0 /\ NewEngine.batch = {}
        /\ \A k \in Keys : NewEngine.cancelFuncs[k] = NULL
    BY DEF NewEngine
  <2>2. IsFiniteSet({}) /\ Cardinality({}) = 0
    BY FS_EmptySet
  <2> QED
    BY <1>4, <1>5, <2>1, <2>2, ConcurrencyAssumption DEF EngineOK
<1>7. engines' \in [Owners -> Engine] /\ \A q \in Owners : EngineOK(q)'
  BY <1>1, <1>3, <1>6, NewEngineType, EngineFrame
<1>8. ASSUME NEW f \in DOMAIN procs PROVE procs'[f] \in Proc /\ ProcOK(f)'
  <2>1. CASE f.lease_owner = o
    BY <1>2, <1>3, <2>1 DEF ProcOK, Active
  <2>2. CASE f.lease_owner # o
    <3>1. engines[f.lease_owner].forced => engines'[f.lease_owner].forced
      BY <1>1, <2>2 DEF SetEngine, EngineInv, EngineTypeOK
    <3>2. ProcOK(f) /\ procs'[f] = procs[f] /\ procs[f] \in Proc
      BY <1>3, <2>2 DEF EngineInv, EngineTypeOK
    <3> QED
      BY <3>1, <3>2, ProcKept DEF ProcOK, Active
  <2> QED
    BY <2>1, <2>2
<1>9. DOMAIN procs' \subseteq granted' /\ IsFiniteSet(DOMAIN procs')
  BY <1>3 DEF EngineInv, EngineTypeOK
<1> QED
  BY <1>1, <1>3, <1>7, <1>8, <1>9, Assemble

\* A goroutine and its engine step together.
LEMMA TogetherStep ==
  ASSUME EngineInv, LedgerEffect, NEW f \in DOMAIN procs, NEW p \in Proc,
         SetProc(f, p), NEW e \in Engine, SetEngine(f.lease_owner, e),
         UNCHANGED vars, UNCHANGED faults,
         e.forced = engines[f.lease_owner].forced,
         EngineOK(f.lease_owner)', ProcOK(f)'
  PROVE  EngineInv'
<1>1. /\ DOMAIN procs' = DOMAIN procs /\ procs'[f] = p /\ granted' = granted
      /\ \A g \in DOMAIN procs : g # f => procs'[g] = procs[g]
  BY DEF SetProc, vars
<1>2. f.lease_owner \in Owners
  BY DEF EngineInv, EngineTypeOK, TypeOK, LeaseFence
<1>3. engines' \in [Owners -> Engine] /\ \A q \in Owners : EngineOK(q)'
  BY <1>1, <1>2, EngineFrame
<1>4. ASSUME NEW g \in DOMAIN procs, g # f PROVE procs'[g] \in Proc /\ ProcOK(g)'
  <2>1. engines[g.lease_owner].forced => engines'[g.lease_owner].forced
    BY <1>2 DEF SetEngine, EngineInv, EngineTypeOK
  <2>2. ProcOK(g) /\ procs'[g] = procs[g] /\ procs[g] \in Proc
    BY <1>1, <1>4 DEF EngineInv, EngineTypeOK
  <2> QED
    BY <2>1, <2>2, ProcKept DEF ProcOK, Active
<1>5. DOMAIN procs' \subseteq granted' /\ IsFiniteSet(DOMAIN procs')
  BY <1>1 DEF EngineInv, EngineTypeOK
<1> QED
  BY <1>1, <1>3, <1>4, <1>5, Assemble

\* A goroutine that returns gives its token back.
LEMMA ReturnsToken ==
  ASSUME EngineInv, NEW f \in DOMAIN procs, Active(f), NEW p \in Proc,
         p.pc = "done", SetProc(f, p), UNCHANGED vars
  PROVE  /\ engines[f.lease_owner].free + 1 \in 0..Concurrency
         /\ Cardinality(ActiveOf(f.lease_owner)') =
              Cardinality(ActiveOf(f.lease_owner)) - 1
         /\ ~(/\ engines[f.lease_owner].pc \in {"stopping", "stopped"}
              /\ ~engines[f.lease_owner].forced)
<1> DEFINE o == f.lease_owner
<1>1. o \in Owners
  BY DEF EngineInv, EngineTypeOK, TypeOK, LeaseFence
<1>2. /\ engines[o] \in Engine /\ EngineOK(o)
      /\ engines[o].free \in Nat /\ engines[o].tokens \in Nat
      /\ IsFiniteSet(ActiveOf(o)) /\ Cardinality(ActiveOf(o)) \in Nat
  BY <1>1, Counts
<1>3. f \in ActiveOf(o)
  BY DEF ActiveOf
<1>4. ActiveOf(o)' = ActiveOf(o) \ {f}
  BY DEF ActiveOf, Active, SetProc
<1>5. Cardinality(ActiveOf(o) \ {f}) = Cardinality(ActiveOf(o)) - 1
  BY <1>2, <1>3, FS_RemoveElement
<1>6. Cardinality(ActiveOf(o)) # 0
  BY <1>2, <1>3, FS_EmptySet
<1>7. engines[o].free + engines[o].tokens + Cardinality(ActiveOf(o)) = Concurrency
  BY <1>2 DEF EngineOK
<1>8. engines[o].free + 1 \in 0..Concurrency
  BY <1>2, <1>6, <1>7, ConcurrencyAssumption
<1> QED
  BY <1>2, <1>3, <1>4, <1>5, <1>8 DEF EngineOK

\* A goroutine registers its cancel function.
LEMMA BeginStep ==
  ASSUME EngineInv, LedgerEffect, NEW f \in DOMAIN procs, Begin(f)
  PROVE  EngineInv'
<1> DEFINE o == f.lease_owner
<1>0. /\ o \in Owners /\ f \in LeaseFence /\ f.key \in Keys
      /\ procs[f] \in Proc /\ ProcOK(f)
  BY DEF EngineInv, EngineTypeOK, TypeOK, LeaseFence
<1>1. /\ engines[o] \in Engine /\ EngineOK(o)
      /\ engines[o].free \in Nat /\ engines[o].tokens \in Nat
      /\ Cardinality(ActiveOf(o)) \in Nat
  BY <1>0, Counts
<1>2. /\ procs[f].pc = "start" /\ procs[f].renewal = "off" /\ Active(f)
      /\ UNCHANGED vars /\ UNCHANGED faults
  BY <1>0 DEF Begin, ProcOK, Active
<1>3. granted' = granted
  BY <1>2 DEF vars
<1>4. CASE engines[o].shuttingDown
  <2> DEFINE p == [procs[f] EXCEPT !.pc = "done"]
             e == [engines[o] EXCEPT !.free = @ + 1]
  <2>1. SetProc(f, p) /\ SetEngine(o, e)
    BY <1>4 DEF Begin, ProcGoto
  <2>2. p \in Proc /\ p.pc = "done" /\ p.renewal = "off"
    BY <1>0, <1>2 DEF Proc, ProcPCs
  <2> HIDE DEF p
  <2>3. /\ engines[o].free + 1 \in 0..Concurrency
        /\ Cardinality(ActiveOf(o)') = Cardinality(ActiveOf(o)) - 1
        /\ ~(engines[o].pc \in {"stopping", "stopped"} /\ ~engines[o].forced)
    BY <1>2, <2>1, <2>2, ReturnsToken
  <2>4. e \in Engine
    BY <1>1, <2>3 DEF Engine
  <2>5. /\ e.pc = engines[o].pc /\ e.free = engines[o].free + 1
        /\ e.tokens = engines[o].tokens /\ e.batch = engines[o].batch
        /\ e.forced = engines[o].forced /\ e.cancelFuncs = engines[o].cancelFuncs
    BY <1>1 DEF Engine
  <2> HIDE DEF e
  <2>6. engines'[o] = e /\ DOMAIN procs' = DOMAIN procs /\ procs'[f] = p
    BY <1>0, <2>1 DEF SetEngine, SetProc, EngineInv, EngineTypeOK
  <2>7. e.free + e.tokens + Cardinality(ActiveOf(o)') = Concurrency
    <3>1. engines[o].free + engines[o].tokens + Cardinality(ActiveOf(o)) = Concurrency
      BY <1>1 DEF EngineOK
    <3> QED
      BY <1>1, <2>3, <2>5, <3>1
  <2>8. EngineOK(o)'
    BY <1>1, <1>3, <2>3, <2>5, <2>6, <2>7 DEF EngineOK
  <2>9. ProcOK(f)'
    BY <2>2, <2>6 DEF ProcOK, Active
  <2> QED
    BY <1>2, <2>1, <2>2, <2>4, <2>5, <2>8, <2>9, TogetherStep
<1>5. CASE ~engines[o].shuttingDown
  <2> DEFINE p == [procs[f] EXCEPT !.pc = "mark"]
             c == [engines[o].cancelFuncs EXCEPT ![f.key] = f]
             e == [engines[o] EXCEPT !.cancelFuncs[f.key] = f]
  <2>1. SetProc(f, p) /\ SetEngine(o, e)
    BY <1>5 DEF Begin, ProcGoto
  <2>2. /\ p \in Proc /\ p.pc = "mark" /\ p.renewal = "off"
        /\ p.ctxDone = procs[f].ctxDone
    BY <1>0, <1>2 DEF Proc, ProcPCs
  <2> HIDE DEF p
  <2>3. engines[o].cancelFuncs \in [Keys -> LeaseFence \cup {NULL}]
    BY <1>1 DEF Engine
  <2>4. /\ c \in [Keys -> LeaseFence \cup {NULL}]
        /\ \A k \in Keys : c[k] # NULL => c[k].lease_owner = o
    BY <1>0, <1>1, <2>3 DEF EngineOK
  <2>5. /\ e.pc = engines[o].pc /\ e.free = engines[o].free
        /\ e.tokens = engines[o].tokens /\ e.batch = engines[o].batch
        /\ e.forced = engines[o].forced /\ e.cancelFuncs = c
    BY <1>1 DEF Engine
  <2>6. e \in Engine
    BY <1>1, <2>4 DEF Engine
  <2> HIDE DEF e, c
  <2>7. engines'[o] = e /\ DOMAIN procs' = DOMAIN procs /\ procs'[f] = p
    BY <1>0, <2>1 DEF SetEngine, SetProc, EngineInv, EngineTypeOK
  <2>8. ActiveOf(o)' = ActiveOf(o)
    BY <1>2, <2>1, <2>2 DEF ActiveOf, Active, SetProc
  <2>9. EngineOK(o)'
    BY <1>1, <1>3, <2>4, <2>5, <2>7, <2>8 DEF EngineOK
  <2>10. ProcOK(f)'
    BY <1>2, <2>2, <2>5, <2>7, ProcKept DEF Active
  <2> QED
    BY <1>2, <2>1, <2>2, <2>5, <2>6, <2>9, <2>10, TogetherStep
<1> QED
  BY <1>4, <1>5

\* A goroutine ends and gives its token back.
LEMMA ExitStep ==
  ASSUME EngineInv, LedgerEffect, NEW f \in DOMAIN procs, Exit(f)
  PROVE  EngineInv'
<1> DEFINE o == f.lease_owner
           p == [NewProc EXCEPT !.pc = "done"]
           c == [engines[o].cancelFuncs EXCEPT ![f.key] = NULL]
           e == [engines[o] EXCEPT !.cancelFuncs[f.key] = NULL, !.free = @ + 1]
<1>0. o \in Owners /\ f.key \in Keys
  BY DEF EngineInv, EngineTypeOK, TypeOK, LeaseFence
<1>1. /\ engines[o] \in Engine /\ EngineOK(o)
      /\ engines[o].free \in Nat /\ engines[o].tokens \in Nat
      /\ Cardinality(ActiveOf(o)) \in Nat
  BY <1>0, Counts
<1>2. /\ Active(f) /\ SetProc(f, p) /\ SetEngine(o, e)
      /\ UNCHANGED vars /\ UNCHANGED faults
  BY DEF Exit, Active
<1>3. granted' = granted
  BY <1>2 DEF vars
<1>4. p \in Proc /\ p.pc = "done" /\ p.renewal = "off"
  BY DEF NewProc, Proc, ProcPCs, RenewalPCs, Outcomes
<1> HIDE DEF p
<1>5. /\ engines[o].free + 1 \in 0..Concurrency
      /\ Cardinality(ActiveOf(o)') = Cardinality(ActiveOf(o)) - 1
      /\ ~(engines[o].pc \in {"stopping", "stopped"} /\ ~engines[o].forced)
  BY <1>2, <1>4, ReturnsToken
<1>6. engines[o].cancelFuncs \in [Keys -> LeaseFence \cup {NULL}]
  BY <1>1 DEF Engine
<1>7. /\ c \in [Keys -> LeaseFence \cup {NULL}]
      /\ \A k \in Keys : c[k] # NULL => c[k].lease_owner = o
  BY <1>0, <1>1, <1>6 DEF EngineOK
<1>8. e \in Engine
  BY <1>1, <1>5, <1>7 DEF Engine
<1>9. /\ e.pc = engines[o].pc /\ e.free = engines[o].free + 1
      /\ e.tokens = engines[o].tokens /\ e.batch = engines[o].batch
      /\ e.forced = engines[o].forced /\ e.cancelFuncs = c
  BY <1>1 DEF Engine
<1> HIDE DEF e, c
<1>10. engines'[o] = e /\ DOMAIN procs' = DOMAIN procs /\ procs'[f] = p
  BY <1>0, <1>2 DEF SetEngine, SetProc, EngineInv, EngineTypeOK
<1>11. e.free + e.tokens + Cardinality(ActiveOf(o)') = Concurrency
  <2>1. engines[o].free + engines[o].tokens + Cardinality(ActiveOf(o)) = Concurrency
    BY <1>1 DEF EngineOK
  <2> QED
    BY <1>1, <1>5, <1>9, <2>1
<1>12. EngineOK(o)'
  BY <1>1, <1>3, <1>5, <1>7, <1>9, <1>10, <1>11 DEF EngineOK
<1>13. ProcOK(f)'
  BY <1>4, <1>10 DEF ProcOK, Active
<1> QED
  BY <1>2, <1>4, <1>8, <1>9, <1>12, <1>13, TogetherStep

\* A step outside the engines: clients, database time, or a sweep.
LEMMA OutsideStep ==
  ASSUME EngineInv, LedgerEffect, UNCHANGED <<engines, procs, faults>>
  PROVE  EngineInv'
<1>1. granted \subseteq granted'
  BY GrantedGrows
<1>2. engines' \in [Owners -> Engine] /\ \A q \in Owners : EngineOK(q)'
  BY <1>1, EnginesKept DEF Active
<1>3. ASSUME NEW f \in DOMAIN procs PROVE procs'[f] \in Proc /\ ProcOK(f)'
  <2>1. ProcOK(f) /\ procs'[f] = procs[f] /\ procs[f] \in Proc
    BY DEF EngineInv, EngineTypeOK
  <2> QED
    BY <2>1, ProcKept DEF ProcOK, Active
<1>4. DOMAIN procs' \subseteq granted' /\ IsFiniteSet(DOMAIN procs')
  BY <1>1 DEF EngineInv, EngineTypeOK
<1> QED
  BY <1>2, <1>3, <1>4, Assemble

-----------------------------------------------------------------------------
(* The theorems.                                                           *)

\* Engines that have not started satisfy the invariant.
LEMMA EngineInitInv == EngineInit => EngineInv
<1> HAVE EngineInit
<1>1. LedgerInv /\ TypeOK
  BY InitInv DEF EngineInit, LedgerInv
<1>2. /\ engines = [o \in Owners |-> NewEngine] /\ procs = <<>> /\ faults = 0
  BY DEF EngineInit
<1>3. DOMAIN procs = {}
  BY <1>2
<1>4. \A o \in Owners : EngineOK(o)
  BY <1>2, <1>3, NewEngineOK DEF ActiveOf
<1>5. engines \in [Owners -> Engine] /\ faults \in 0..MaxFaults
  BY <1>2, NewEngineType, FaultsAssumption
<1>6. IsFiniteSet(DOMAIN procs)
  BY <1>3, FS_EmptySet
<1> QED
  BY <1>1, <1>3, <1>4, <1>5, <1>6 DEF EngineInv, EngineTypeOK

\* Every step keeps it.
LEMMA EngineNextInv ==
  ASSUME EngineInv, [EngineNext]_engineVars
  PROVE  EngineInv'
<1>0. LedgerEffect
  BY EngineEffect
<1>1. ASSUME NEW o \in Owners,
             LoopStep(o) \/ ReclaimerStep(o) \/ Signal(o) \/ Crash(o)
      PROVE  EngineInv'
  <2>1. CASE Sweep(o)
    BY <1>0, <2>1, OutsideStep DEF Sweep
  <2> QED
    BY <1>0, <1>1, <2>1, PollSteps, GrantedStep, DispatchStep, ShutdownSteps,
       DeadlineStep, FlagSteps, CrashStep
    DEF LoopStep, ReclaimerStep
<1>2. ASSUME NEW f \in DOMAIN procs,
             ProcStep(f) \/ ExecuteReturns(f) \/ RenewalStep(f)
      PROVE  EngineInv'
  BY <1>0, <1>2, BeginStep, MarkSteps, OutcomeSteps, ExitStep, RenewalSteps
  DEF ProcStep
<1>3. CASE Submit \/ ClientCancel \/ Time \/ UNCHANGED engineVars
  BY <1>0, <1>3, OutsideStep DEF Submit, ClientCancel, Time, engineVars
<1> QED
  BY <1>1, <1>2, <1>3 DEF EngineNext

\* The inductive invariant of the engines.
THEOREM EngineInvariance == EngineSpec => []EngineInv
<1>1. EngineInit => EngineInv
  BY EngineInitInv
<1>2. EngineInv /\ [EngineNext]_engineVars => EngineInv'
  BY EngineNextInv
<1> QED
  BY <1>1, <1>2, PTL DEF EngineSpec

\* What is proved of the ledger holds of the ledger the engines work on:
\* seen through its table, each of their steps is one of the repository's.
THEOREM EnginesUseTheLedger == EngineSpec => Spec
<1>1. EngineInit => Init
  BY DEF EngineInit
<1>2. EngineInv /\ [EngineNext]_engineVars => [Next]_vars
  BY EngineEffect, LedgerKept
<1> QED
  BY <1>1, <1>2, EngineInvariance, PTL DEF EngineSpec, Spec

\* No path of Run or of processJob loses or duplicates a capacity token.
THEOREM CapacityIsConserved == EngineSpec => []CapacityConserved
<1>1. EngineInv => CapacityConserved
  BY DEF EngineInv, EngineOK, CapacityConserved
<1> QED
  BY <1>1, EngineInvariance, PTL

\* Run that returns without forcing leaves no goroutine and all tokens.
THEOREM DrainLeavesNothing == EngineSpec => []GracefulDrainComplete
<1>1. EngineInv => GracefulDrainComplete
  <2> SUFFICES ASSUME EngineInv, NEW o \in Owners,
                      engines[o].pc \in {"stopping", "stopped"},
                      ~engines[o].forced
               PROVE  ActiveOf(o) = {} /\ engines[o].free = Concurrency
    BY DEF GracefulDrainComplete
  <2>1. EngineOK(o) /\ engines[o].free \in Nat
    BY Counts
  <2>2. ActiveOf(o) = {} /\ engines[o].tokens = 0
    BY <2>1 DEF EngineOK
  <2>3. engines[o].free + 0 + 0 = Concurrency
    BY <2>1, <2>2, FS_EmptySet DEF EngineOK
  <2> QED
    BY <2>1, <2>2, <2>3, ConcurrencyAssumption
<1> QED
  BY <1>1, EngineInvariance, PTL

\* A job context is canceled only by a forced drain, a recorded cancellation or
\* the loss of the lease.
THEOREM CancelsForCause == EngineSpec => []CanceledForCause
<1>1. EngineInv => CanceledForCause
  BY DEF EngineInv, ProcOK, Cause, Lapsed, CanceledForCause
<1> QED
  BY <1>1, EngineInvariance, PTL

\* Only the goroutine that holds the lease in force completes its job.
THEOREM HolderCompletes == EngineSpec => OnlyHolderCompletes
<1> DEFINE Holder == \A k \in Keys :
             jobs'[k].state = "succeeded" /\ jobs[k].state # "succeeded" =>
               \E f \in DOMAIN procs :
                 /\ f.key = k /\ HasLease(f, jobs[k])
                 /\ procs[f].pc = "write" /\ procs[f].outcome = "ok"
<1>1. ASSUME EngineInv, [EngineNext]_engineVars, NEW k \in Keys,
             jobs'[k].state = "succeeded", jobs[k].state # "succeeded"
      PROVE  \E f \in DOMAIN procs :
               /\ f.key = k /\ HasLease(f, jobs[k])
               /\ procs[f].pc = "write" /\ procs[f].outcome = "ok"
  <2>1. LedgerEffect /\ LedgerInv
    BY <1>1, EngineEffect DEF EngineInv
  <2>2. ~OtherLedgerStep
    BY <1>1, <2>1, OthersAreQuiet DEF QuietStep, QuietRow
  <2>3. ASSUME NEW f \in DOMAIN procs, NEW lag \in Lags, HoldsLease(f, lag)
        PROVE  f.key \in Keys /\ f \in LeaseFence /\ jobs[f.key] \in Row
               /\ HasLease(f, jobs[f.key])
    <3>1. f \in LeaseFence /\ f.key \in Keys /\ jobs[f.key] \in Row
      BY <1>1 DEF EngineInv, EngineTypeOK, TypeOK, LeaseFence
    <3> QED
      BY <2>3, <3>1 DEF HoldsLease, HasLease, Fence, LeaseFence
  <2>4. ASSUME NEW f \in DOMAIN procs, RenewalHit(f) PROVE FALSE
    <3>1. PICK duration \in LeaseDurations, lag \in Lags :
            RenewLease(f, duration, lag)
      BY <2>4 DEF RenewalHit
    <3>2. jobs'[k].state = jobs[k].state
      BY <2>1, <2>3, <3>1 DEF RenewLease, SetRow, LedgerInv, TypeOK, Row
    <3> QED
      BY <1>1, <3>2
  <2>5. PICK f \in DOMAIN procs : CompletionHit(f)
    BY <2>1, <2>2, <2>4 DEF LedgerEffect
  <2>6. PICK response \in Responses, lag \in Lags : CompleteJob(f, response, lag)
    BY <2>5 DEF CompletionHit
  <2>7. HoldsLease(f, lag)
    BY <2>6 DEF CompleteJob
  <2>8. f.key = k
    BY <1>1, <2>1, <2>6 DEF CompleteJob, SetRow, LedgerInv, TypeOK
  <2> QED
    BY <2>3, <2>5, <2>7, <2>8 DEF CompletionHit
<1>2. EngineInv /\ [EngineNext]_engineVars => [Holder]_engineVars
  BY <1>1
<1> QED
  BY <1>2, EngineInvariance, PTL DEF EngineSpec, OnlyHolderCompletes

-----------------------------------------------------------------------------
(* Who ends a lease.                                                       *)

\* A lease that goes on: the row keeps its owner and its token.
LEMMA LeaseGoesOn ==
  ASSUME LedgerInv, [Next]_vars, NEW k \in Keys, Leased(k),
         jobs'[k].state \in LeaseStates
  PROVE  HasLease(Fence(k, jobs[k]), jobs'[k])
<1>1. RowStep(jobs[k], jobs'[k])
  BY StepOfRow DEF Leased, LeaseStates, Inserted, Acquired
<1>2. jobs'[k].lease_owner = jobs[k].lease_owner
      /\ jobs'[k].lease_token = jobs[k].lease_token
  BY <1>1 DEF RowStep
<1> QED
  BY <1>2 DEF HasLease, Fence

\* The steps that end no live lease leave a leased row in the lease states.
LEMMA SparedRow ==
  ASSUME LedgerInv, SparingStep \/ RenewStep, NEW k \in Keys, Leased(k),
         jobs[k].lease_expires_in > 0
  PROVE  jobs'[k].state \in LeaseStates
<1>0. /\ jobs \in [Keys -> Row] /\ jobs[k] \in Row /\ RowOK(jobs[k])
      /\ jobs[k].state \in LeaseStates
      /\ jobs[k].state # "queued" /\ jobs[k].state # "absent"
      /\ jobs[k].lease_expires_in \in Int
  BY DEF LedgerInv, TypeOK, Leased, LeaseStates, RowOK
<1>1. CASE UNCHANGED vars
  BY <1>0, <1>1 DEF vars
<1>2. ASSUME NEW in \in CreateInputs, CreateJobInsert(in)
      PROVE  jobs'[k].state \in LeaseStates
  <2>1. InputKey(in) # k
    BY <1>0, <1>2 DEF CreateJobInsert, InsertConflicts, Exists
  <2>2. jobs' = [jobs EXCEPT ![InputKey(in)] = NewRow(in)]
    BY <1>2 DEF CreateJobInsert
  <2> QED
    BY <1>0, <2>1, <2>2
<1>3. CASE AcquireStep
  <2>1. PICK owner \in Owners, picked \in SUBSET Keys,
             duration \in LeaseDurations, lag \in Lags :
               AcquireLeases(owner, picked, duration, lag)
    BY <1>3 DEF AcquireStep
  <2>2. k \notin picked
    BY <1>0, <2>1 DEF AcquireLeases, Ready
  <2> QED
    BY <1>0, <2>1, <2>2 DEF AcquireLeases
<1>4. CASE MarkRunningStep
  <2>1. PICK f \in granted, lag \in Lags : MarkRunning(f, lag)
    BY <1>4 DEF MarkRunningStep
  <2>2. jobs' = [jobs EXCEPT ![f.key] = [jobs[f.key] EXCEPT !.state = "running"]]
    BY <2>1 DEF MarkRunning, SetRow
  <2>3. CASE f.key = k
    BY <1>0, <2>2, <2>3 DEF Row, LeaseStates
  <2>4. CASE f.key # k
    BY <1>0, <2>2, <2>4
  <2> QED
    BY <2>3, <2>4
<1>5. CASE RenewStep
  <2>1. PICK f \in granted, duration \in LeaseDurations, lag \in Lags :
          RenewLease(f, duration, lag)
    BY <1>5 DEF RenewStep
  <2>2. jobs' = [jobs EXCEPT ![f.key] =
                   [jobs[f.key] EXCEPT !.lease_expires_in = duration - lag]]
    BY <2>1 DEF RenewLease, SetRow
  <2>3. CASE f.key = k
    BY <1>0, <2>2, <2>3 DEF Row
  <2>4. CASE f.key # k
    BY <1>0, <2>2, <2>4
  <2> QED
    BY <2>3, <2>4
<1>6. CASE CancelStep
  <2>1. PICK j \in Keys : CancelJob(j)
    BY <1>6 DEF CancelStep
  <2>2. jobs' = [jobs EXCEPT ![j] = CanceledRow(jobs[j])]
    BY <2>1 DEF CancelJob, SetRow
  <2>3. CASE j = k
    <3>1. CanceledRow(jobs[k]).state = jobs[k].state
      BY <1>0 DEF CanceledRow, Row
    <3> QED
      BY <1>0, <2>2, <2>3, <3>1
  <2>4. CASE j # k
    BY <1>0, <2>2, <2>4
  <2> QED
    BY <2>3, <2>4
<1>7. CASE ReclaimStep
  <2>1. PICK picked \in SUBSET Keys, backoff \in Backoffs, lag \in Lags :
          ReclaimExpiredLeases(picked, backoff, lag)
    BY <1>7 DEF ReclaimStep
  <2>2. ~Expired(k, lag)
    BY <1>0, LagAssumption DEF Expired, Lags
  <2>3. k \notin picked
    BY <2>1, <2>2 DEF ReclaimExpiredLeases
  <2> QED
    BY <1>0, <2>1, <2>3 DEF ReclaimExpiredLeases
<1>8. CASE Tick
  <2>1. jobs'[k] = [jobs[k] EXCEPT !.lease_expires_in = Elapse(@)]
    BY <1>0, <1>8 DEF Tick, AgedRow
  <2> QED
    BY <1>0, <2>1 DEF Row
<1> QED
  BY <1>1, <1>2, <1>3, <1>4, <1>5, <1>6, <1>7, <1>8 DEF SparingStep

\* A fenced statement of f changes the row of f's own lease or no leased row.
LEMMA FencedRow ==
  ASSUME LedgerInv, NEW f \in granted, NEW lag \in Lags, HoldsLease(f, lag),
         NEW row, SetRow(f.key, row), NEW k \in Keys, f # Fence(k, jobs[k])
  PROVE  jobs'[k] = jobs[k]
<1>1. f \in LeaseFence /\ jobs \in [Keys -> Row]
  BY DEF LedgerInv, TypeOK
<1>2. f = Fence(f.key, jobs[f.key])
  BY <1>1 DEF HoldsLease, Fence, LeaseFence
<1>3. f.key # k
  BY <1>2
<1> QED
  BY <1>1, <1>3 DEF SetRow

\* Acknowledgement and outcome of f, as fenced statements.
LEMMA CallIsFenced ==
  ASSUME NEW f \in granted, procs[f] \in Proc,
         \/ AckCall(f)
         \/ procs[f].outcome # "none" /\ OutcomeCall(f)
  PROVE  \/ UNCHANGED vars
         \/ \E lag \in Lags : HoldsLease(f, lag) /\ \E row : SetRow(f.key, row)
<1> DEFINE Fenced(lag) == HoldsLease(f, lag) /\ \E row : SetRow(f.key, row)
<1>1. CASE AckCall(f)
  <2>1. \A lag \in Lags : AcknowledgeCancellation(f, lag) => Fenced(lag)
    BY DEF AcknowledgeCancellation
  <2>2. UNCHANGED vars \/ \E lag \in Lags : AcknowledgeCancellation(f, lag)
    BY <1>1 DEF AckCall, Call
  <2> QED
    BY <2>1, <2>2
<1>2. CASE procs[f].outcome # "none" /\ OutcomeCall(f)
  <2>1. \A lag \in Lags : \A response \in Responses :
          CompleteJob(f, response, lag) => Fenced(lag)
    BY DEF CompleteJob
  <2>2. \A lag \in Lags : \A retryable \in BOOLEAN, backoff \in Backoffs,
            code \in FailureCodes :
          FailJob(f, retryable, backoff, code, lag) => Fenced(lag)
    BY DEF FailJob
  <2>3. \/ UNCHANGED vars
        \/ \E lag \in Lags :
             CASE procs[f].outcome = "ok" ->
                    \E response \in Responses : CompleteJob(f, response, lag)
               [] procs[f].outcome = "retryable" ->
                    \E backoff \in Backoffs, code \in FailureCodes :
                      FailJob(f, TRUE, backoff, code, lag)
               [] procs[f].outcome = "failed" ->
                    \E backoff \in Backoffs, code \in FailureCodes :
                      FailJob(f, FALSE, backoff, code, lag)
    BY <1>2 DEF OutcomeCall, Call
  <2>4. procs[f].outcome \in {"ok", "retryable", "failed"}
    BY <1>2 DEF Proc, Outcomes
  <2> HIDE DEF Fenced
  <2> QED
    BY <2>1, <2>2, <2>3, <2>4 DEF Fenced
<1> QED
  BY <1>1, <1>2

\* What the goroutines of f do to the ledger: they end no lease, or they are at
\* the outcome or the acknowledgement and make a fenced statement of f.
LEMMA ProcSparesOrEnds ==
  ASSUME EngineInv, NEW f \in DOMAIN procs,
         ProcStep(f) \/ ExecuteReturns(f) \/ RenewalStep(f)
  PROVE  \/ SparingStep \/ RenewStep
         \/ /\ \E lag \in Lags : HoldsLease(f, lag) /\ \E row : SetRow(f.key, row)
            /\ procs'[f] # procs[f]
            /\ procs[f].pc \in {"write", "ack"} \/ procs[f].renewal = "ack"
<1>0. f \in granted /\ procs[f] \in Proc /\ ProcOK(f)
  BY DEF EngineInv, EngineTypeOK
<1>1. CASE \/ Begin(f) \/ MarkMiss(f) \/ MarkMissExplained(f) \/ JoinRenewal(f)
           \/ Exit(f) \/ ExecuteReturns(f) \/ RenewalTick(f) \/ RenewalCheck(f)
           \/ RenewalExit(f)
  <2>1. UNCHANGED vars
    BY <1>1 DEF Begin, MarkMiss, MarkMissExplained, JoinRenewal, Exit,
         ExecuteReturns, RenewalTick, RenewalCheck, RenewalExit
  <2> QED
    BY <2>1 DEF SparingStep
<1>2. CASE MarkHit(f) \/ MarkFault(f)
  <2>1. UNCHANGED vars \/ MarkRunningStep
    BY <1>0, <1>2 DEF MarkHit, MarkFault, MarkRunningStep
  <2> QED
    BY <2>1 DEF SparingStep
<1>3. CASE RenewalRenew(f)
  <2>1. RenewStep \/ UNCHANGED vars
    BY <1>0, <1>3 DEF RenewalRenew, RenewStep
  <2> QED
    BY <2>1 DEF SparingStep
<1>4. CASE AckBeforeStart(f) \/ WriteOutcome(f)
  <2>1. /\ AckCall(f) \/ (procs[f].outcome # "none" /\ OutcomeCall(f))
        /\ procs[f].pc \in {"ack", "write"} /\ ProcGoto(f, "exit")
    BY <1>0, <1>4 DEF AckBeforeStart, WriteOutcome, ProcOK
  <2>2. procs'[f].pc = "exit"
    BY <1>0, <2>1 DEF ProcGoto, SetProc, Proc
  <2>3. procs'[f] # procs[f]
    BY <2>1, <2>2
  <2>4. \/ UNCHANGED vars
        \/ \E lag \in Lags : HoldsLease(f, lag) /\ \E row : SetRow(f.key, row)
    BY <1>0, <2>1, CallIsFenced
  <2> QED
    BY <2>1, <2>3, <2>4 DEF SparingStep
<1>5. CASE RenewalAck(f)
  <2>1. AckCall(f) /\ procs[f].renewal = "ack" /\ SetRenewal(f, "off")
    BY <1>5 DEF RenewalAck
  <2>2. procs'[f].renewal = "off"
    BY <1>0, <2>1 DEF SetRenewal, SetProc, Proc
  <2>3. procs'[f] # procs[f]
    BY <2>1, <2>2
  <2>4. \/ UNCHANGED vars
        \/ \E lag \in Lags : HoldsLease(f, lag) /\ \E row : SetRow(f.key, row)
    BY <1>0, <2>1, CallIsFenced
  <2> QED
    BY <2>1, <2>3, <2>4 DEF SparingStep
<1> QED
  BY <1>1, <1>2, <1>3, <1>4, <1>5 DEF ProcStep, RenewalStep

\* Only its holder's own goroutine ends a lease that has not expired.
THEOREM LiveLeaseIsKept == EngineSpec => LiveLeaseKept
<1> DEFINE Kept == \A k \in Keys :
             LET f == Fence(k, jobs[k])
             IN  Leased(k) /\ jobs[k].lease_expires_in > 0
                 /\ ~HasLease(f, jobs'[k]) =>
                   /\ f \in DOMAIN procs /\ procs'[f] # procs[f]
                   /\ procs[f].pc \in {"write", "ack"} \/ procs[f].renewal = "ack"
<1>1. ASSUME EngineInv, [EngineNext]_engineVars, NEW k \in Keys, Leased(k),
             jobs[k].lease_expires_in > 0, ~HasLease(Fence(k, jobs[k]), jobs'[k])
      PROVE  /\ Fence(k, jobs[k]) \in DOMAIN procs
             /\ procs'[Fence(k, jobs[k])] # procs[Fence(k, jobs[k])]
             /\ \/ procs[Fence(k, jobs[k])].pc \in {"write", "ack"}
                \/ procs[Fence(k, jobs[k])].renewal = "ack"
  <2>1. LedgerInv /\ [Next]_vars
    BY <1>1, EngineEffect, LedgerKept DEF EngineInv
  <2>2. jobs'[k].state \notin LeaseStates
    BY <1>1, <2>1, LeaseGoesOn
  <2>3. ~(SparingStep \/ RenewStep)
    BY <1>1, <2>1, <2>2, SparedRow
  <2>4. ~(\E o \in Owners :
            LoopStep(o) \/ ReclaimerStep(o) \/ Signal(o) \/ Crash(o))
    BY <2>3, LoopEffect
  <2>5. ~(Submit \/ ClientCancel \/ Time \/ UNCHANGED engineVars)
    BY <2>3 DEF Submit, ClientCancel, Time, engineVars, SparingStep
  <2>6. PICK f \in DOMAIN procs : ProcStep(f) \/ ExecuteReturns(f) \/ RenewalStep(f)
    BY <1>1, <2>4, <2>5 DEF EngineNext
  <2>7. /\ \E lag \in Lags : HoldsLease(f, lag) /\ \E row : SetRow(f.key, row)
        /\ procs'[f] # procs[f]
        /\ procs[f].pc \in {"write", "ack"} \/ procs[f].renewal = "ack"
    BY <1>1, <2>3, <2>6, ProcSparesOrEnds
  <2>8. PICK lag \in Lags : HoldsLease(f, lag) /\ \E row : SetRow(f.key, row)
    BY <2>7
  <2>9. PICK row : SetRow(f.key, row)
    BY <2>8
  <2>10. f \in granted
    BY <1>1 DEF EngineInv, EngineTypeOK
  <2>11. f = Fence(k, jobs[k])
    <3>1. jobs'[k] # jobs[k]
      BY <1>1, <2>2 DEF Leased
    <3> QED
      BY <2>1, <2>8, <2>9, <2>10, <3>1, FencedRow
  <2> QED
    BY <2>7, <2>11
<1>2. EngineInv /\ [EngineNext]_engineVars => [Kept]_engineVars
  BY <1>1
<1> QED
  BY <1>2, EngineInvariance, PTL DEF EngineSpec, LiveLeaseKept
=============================================================================
