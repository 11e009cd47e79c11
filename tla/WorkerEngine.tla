----------------------------- MODULE WorkerEngine -----------------------------
(***************************************************************************)
(* The durable worker engines (pkg/worker/worker.go) on the job ledger.    *)
(*                                                                         *)
(* Each owner is one Engine.  Its poll loop, its reclamation loop and, for *)
(* each leased job, a processJob goroutine with a lease-renewal goroutine  *)
(* interleave; a step ends at every repository call, lock and context      *)
(* check, where the others may run.  A repository call may fail before or  *)
(* after its statement took effect, a process may crash and come back      *)
(* under the same worker_id; `faults' bounds both together.                *)
(*                                                                         *)
(* Timers (poll, renewal, drain) may fire at any moment.  Left out: the    *)
(* tests' hooks (onJobRunning and so on), logging, and the guards against  *)
(* nil jobs and oversized batches, which AcquireLeases never returns.      *)
(***************************************************************************)
EXTENDS JobLedger

CONSTANTS
  Concurrency,   \* capacity tokens of one engine
  MayStop,       \* engines that may be signalled to shut down
  MayCrash,      \* engines whose process may crash and be restarted
  MaxFaults      \* bound: storage faults and crashes together

ASSUME ConcurrencyAssumption == Concurrency \in Nat \ {0}
ASSUME FaultsAssumption == MaxFaults \in Nat
ASSUME MayStopAssumption ==
  MayStop \subseteq Owners /\ MayCrash \subseteq Owners

VARIABLES
  engines,   \* one record per engine
  procs,     \* one processJob goroutine per dispatched fence
  faults

engineVars == <<vars, engines, procs, faults>>

-----------------------------------------------------------------------------
(* State.                                                                  *)

\* Where Run is: at the top of the poll loop, in AcquireLeases, after it,
\* waiting for the poll timer, out of the loop, draining, waiting for the
\* reclamation loop, returned.
LoopPCs == {"poll", "acquire", "acquired", "wait", "break", "drain",
            "stopping", "stopped"}

\* cancelFuncs is activeCancelFuncs: by job key, the goroutine whose cancel
\* function is registered.
Engine ==
  [pc : LoopPCs, ctxDone : BOOLEAN, free : 0..Concurrency,
   tokens : 0..Concurrency, batch : SUBSET LeaseFence,
   shuttingDown : BOOLEAN, forced : BOOLEAN, reclaimer : BOOLEAN,
   cancelFuncs : [Keys -> LeaseFence \cup {NULL}]]

NewEngine ==
  [pc |-> "poll", ctxDone |-> FALSE, free |-> Concurrency, tokens |-> 0,
   batch |-> {}, shuttingDown |-> FALSE, forced |-> FALSE,
   reclaimer |-> TRUE, cancelFuncs |-> [k \in Keys |-> NULL]]

\* Where processJob is.  "done" has returned, "dead" was in a crashed process.
ProcPCs == {"start", "mark", "miss", "ack", "execute", "join", "write",
            "exit", "done", "dead"}
RenewalPCs == {"off", "idle", "check", "ack", "renew"}
Outcomes == {"none", "ok", "retryable", "failed"}

Proc == [pc : ProcPCs, ctxDone : BOOLEAN, renewal : RenewalPCs,
         outcome : Outcomes]

NewProc ==
  [pc |-> "start", ctxDone |-> FALSE, renewal |-> "off", outcome |-> "none"]

Active(f) == procs[f].pc \notin {"done", "dead"}
ActiveOf(o) == {f \in DOMAIN procs : f.lease_owner = o /\ Active(f)}

EngineTypeOK ==
  /\ TypeOK
  /\ engines \in [Owners -> Engine]
  /\ DOMAIN procs \subseteq granted
  /\ \A f \in DOMAIN procs : procs[f] \in Proc
  /\ faults \in 0..MaxFaults

EngineInit ==
  /\ Init
  /\ engines = [o \in Owners |-> NewEngine]
  /\ procs = <<>>
  /\ faults = 0

Fault == faults < MaxFaults /\ faults' = faults + 1

SetEngine(o, e) == engines' = [engines EXCEPT ![o] = e]
SetProc(f, p)   == procs' = [procs EXCEPT ![f] = p]
ProcGoto(f, pc) == SetProc(f, [procs[f] EXCEPT !.pc = pc])

-----------------------------------------------------------------------------
(* Run: the poll loop.                                                     *)

\* A loop iteration starts: stop, or take up to BatchSize capacity tokens,
\* waiting for one if there is none.
Taken(o) == IF BatchSize < engines[o].free THEN BatchSize ELSE engines[o].free

PollTop(o) ==
  LET e == engines[o]
  IN  /\ e.pc = "poll"
      /\ \/ /\ e.ctxDone
            /\ SetEngine(o, [e EXCEPT !.pc = "break"])
         \/ /\ ~e.ctxDone /\ e.free > 0
            /\ SetEngine(o, [e EXCEPT !.pc = "acquire", !.tokens = Taken(o),
                                      !.free = @ - Taken(o)])
      /\ UNCHANGED <<vars, procs, faults>>

\* All tokens of the iteration go back, and the loop goes on at pc.
TokensBack(e, pc) ==
  [e EXCEPT !.pc = pc, !.free = @ + e.tokens, !.tokens = 0, !.batch = {}]

\* ctx is done before AcquireLeases is called, or makes it fail.
AcquireCanceled(o) ==
  /\ engines[o].pc = "acquire" /\ engines[o].ctxDone
  /\ SetEngine(o, TokensBack(engines[o], "break"))
  /\ UNCHANGED <<vars, procs, faults>>

AcquireGranted(o) ==
  /\ engines[o].pc = "acquire"
  /\ \E picked \in SUBSET Keys, duration \in LeaseDurations, lag \in Lags :
       /\ Cardinality(picked) <= engines[o].tokens
       /\ AcquireLeases(o, picked, duration, lag)
  /\ SetEngine(o, [engines[o] EXCEPT !.pc = "acquired",
                                     !.batch = granted' \ granted])
  /\ UNCHANGED <<procs, faults>>

\* No row is ready.  (A batch that SKIP LOCKED leaves empty ends like
\* AcquireFault without effect.)
AcquireEmpty(o) ==
  /\ engines[o].pc = "acquire"
  /\ \E lag \in Lags : \A k \in Keys : ~Ready(k, lag)
  /\ SetEngine(o, TokensBack(engines[o], "wait"))
  /\ UNCHANGED <<vars, procs, faults>>

\* AcquireLeases returns an error although, perhaps, its transaction was
\* committed: then the leases are lost until they expire.
AcquireFault(o) ==
  /\ engines[o].pc = "acquire"
  /\ Fault
  /\ \/ UNCHANGED vars
     \/ \E picked \in SUBSET Keys, duration \in LeaseDurations, lag \in Lags :
          /\ Cardinality(picked) <= engines[o].tokens
          /\ AcquireLeases(o, picked, duration, lag)
  /\ SetEngine(o, TokensBack(engines[o], "wait"))
  /\ UNCHANGED procs

\* Mutant: tokens without a job are not returned.
DispatchKeepsUnused(o) ==
  LET e == engines[o]
  IN  /\ e.pc = "acquired"
      /\ IF e.ctxDone
         THEN /\ SetEngine(o, TokensBack(e, "break"))
              /\ UNCHANGED procs
         ELSE /\ SetEngine(o, [e EXCEPT !.pc = "poll", !.tokens = 0,
                                       !.batch = {}])
              /\ procs' = [f \in DOMAIN procs \cup e.batch |->
                             IF f \in e.batch THEN NewProc ELSE procs[f]]
      /\ UNCHANGED <<vars, faults>>

\* Shutdown during AcquireLeases discards the jobs; otherwise the unused
\* tokens go back and a goroutine is started for every job.
Dispatch(o) ==
  LET e == engines[o]
  IN  /\ e.pc = "acquired"
      /\ IF e.ctxDone
         THEN /\ SetEngine(o, TokensBack(e, "break"))
              /\ UNCHANGED procs
         ELSE /\ SetEngine(o, [e EXCEPT !.pc = "poll", !.tokens = 0,
                                 !.free = @ + e.tokens - Cardinality(e.batch),
                                 !.batch = {}])
              /\ procs' = [f \in DOMAIN procs \cup e.batch |->
                             IF f \in e.batch THEN NewProc ELSE procs[f]]
      /\ UNCHANGED <<vars, faults>>

PollWait(o) ==
  /\ engines[o].pc = "wait"
  /\ SetEngine(o, [engines[o] EXCEPT !.pc = IF engines[o].ctxDone THEN "break"
                                            ELSE "poll"])
  /\ UNCHANGED <<vars, procs, faults>>

-----------------------------------------------------------------------------
(* Run: shutdown.                                                          *)

BeginDrain(o) ==
  /\ engines[o].pc = "break"
  /\ SetEngine(o, [engines[o] EXCEPT !.pc = "drain", !.shuttingDown = TRUE])
  /\ UNCHANGED <<vars, procs, faults>>

\* Mutant: the goroutines are not waited for.
DrainAtOnce(o) ==
  /\ engines[o].pc = "drain"
  /\ SetEngine(o, [engines[o] EXCEPT !.pc = "stopping"])
  /\ UNCHANGED <<vars, procs, faults>>

DrainDone(o) ==
  /\ engines[o].pc = "drain"
  /\ ActiveOf(o) = {}
  /\ SetEngine(o, [engines[o] EXCEPT !.pc = "stopping"])
  /\ UNCHANGED <<vars, procs, faults>>

Registered(o) == {engines[o].cancelFuncs[k] : k \in Keys} \ {NULL}

\* Mutant: the deadline still waits for the goroutines.
DeadlineWaits(o) ==
  /\ engines[o].pc = "drain"
  /\ ActiveOf(o) = {}
  /\ SetEngine(o, [engines[o] EXCEPT !.pc = "stopping", !.forced = TRUE])
  /\ UNCHANGED <<vars, procs, faults>>

\* The drain timer fires: every registered cancel function is called, and Run
\* does not wait for the goroutines any more.
DrainDeadline(o) ==
  /\ engines[o].pc = "drain"
  /\ procs' = [f \in DOMAIN procs |->
                 IF f \in Registered(o) THEN [procs[f] EXCEPT !.ctxDone = TRUE]
                 ELSE procs[f]]
  /\ SetEngine(o, [engines[o] EXCEPT !.pc = "stopping", !.forced = TRUE])
  /\ UNCHANGED <<vars, faults>>

\* loopsWg.Wait, then Run returns.
RunReturns(o) ==
  /\ engines[o].pc = "stopping" /\ ~engines[o].reclaimer
  /\ SetEngine(o, [engines[o] EXCEPT !.pc = "stopped"])
  /\ UNCHANGED <<vars, procs, faults>>

-----------------------------------------------------------------------------
(* The reclamation loop.  A sweep in flight when ctx ends may still apply. *)

Sweep(o) ==
  /\ engines[o].reclaimer
  /\ \E picked \in SUBSET Keys, backoff \in Backoffs, lag \in Lags :
       ReclaimExpiredLeases(picked, backoff, lag)
  /\ UNCHANGED <<engines, procs, faults>>

ReclaimerExit(o) ==
  /\ engines[o].reclaimer /\ engines[o].ctxDone
  /\ SetEngine(o, [engines[o] EXCEPT !.reclaimer = FALSE])
  /\ UNCHANGED <<vars, procs, faults>>

-----------------------------------------------------------------------------
(* processJob, for the lease of fence f.                                   *)

\* Under the mutex: give up if shutdown began, else register the cancel
\* function under the job's key.  The capacity token of a goroutine that
\* returns goes back.
Begin(f) ==
  LET o == f.lease_owner
      e == engines[o]
  IN  /\ procs[f].pc = "start"
      /\ IF e.shuttingDown
         THEN /\ ProcGoto(f, "done")
              /\ SetEngine(o, [e EXCEPT !.free = @ + 1])
         ELSE /\ ProcGoto(f, "mark")
              /\ SetEngine(o, [e EXCEPT !.cancelFuncs[f.key] = f])
      /\ UNCHANGED <<vars, faults>>

\* MarkRunning succeeded: execution starts, and lease renewal with it.
MarkHit(f) ==
  /\ procs[f].pc = "mark"
  /\ \E lag \in Lags : MarkRunning(f, lag)
  /\ SetProc(f, [procs[f] EXCEPT !.pc = "execute", !.renewal = "idle"])
  /\ UNCHANGED <<engines, faults>>

CanMark(f, lag) ==
  /\ HoldsLease(f, lag)
  /\ jobs[f.key].state = "leased" /\ ~jobs[f.key].cancel_requested

\* MarkRunning hit no row; the SELECT that explains why comes later.
MarkMiss(f) ==
  /\ procs[f].pc = "mark"
  /\ \E lag \in Lags : ~CanMark(f, lag)
  /\ ProcGoto(f, "miss")
  /\ UNCHANGED <<vars, engines, faults>>

MarkMissExplained(f) ==
  /\ procs[f].pc = "miss"
  /\ ProcGoto(f, IF MissError(f.key, TRUE) = "ErrCancellationRequested"
                 THEN "ack" ELSE "exit")
  /\ UNCHANGED <<vars, engines, faults>>

\* An error of the store, or jobCtx canceled during the call (at no cost in
\* faults): execution is skipped although the row may say running.
MarkFault(f) ==
  /\ procs[f].pc \in {"mark", "miss"}
  /\ \/ procs[f].ctxDone /\ UNCHANGED faults
     \/ Fault
  /\ \/ UNCHANGED vars
     \/ procs[f].pc = "mark" /\ \E lag \in Lags : MarkRunning(f, lag)
  /\ ProcGoto(f, "exit")
  /\ UNCHANGED engines

\* A fenced call on behalf of f, in any of its endings: it applies, it hits no
\* row, or it fails with or without having applied.
Call(Op(_), Hits(_)) ==
  \/ (\E lag \in Lags : Op(lag)) /\ (UNCHANGED faults \/ Fault)
  \/ (\E lag \in Lags : ~Hits(lag)) /\ UNCHANGED <<vars, faults>>
  \/ Fault /\ UNCHANGED vars

AckCall(f) ==
  LET Op(lag)   == AcknowledgeCancellation(f, lag)
      Hits(lag) == HoldsLease(f, lag) /\ jobs[f.key].cancel_requested
  IN  Call(Op, Hits)

\* Cancellation found before the start: acknowledge it, never execute.
AckBeforeStart(f) ==
  /\ procs[f].pc = "ack"
  /\ AckCall(f)
  /\ ProcGoto(f, "exit")
  /\ UNCHANGED engines

\* What Execute may come back with, after SanitizeFailure: a response, a
\* failure to retry, which only jobs with several attempts have, or a final one
\* (a recovered panic included).
ExecutionOutcomes(k) ==
  {"ok", "failed"}
    \cup (IF jobs[k].max_attempts > 1 THEN {"retryable"} ELSE {})

\* Execute returns, and renewal is told to stop.
ExecuteReturns(f) ==
  /\ procs[f].pc = "execute"
  /\ \E outcome \in ExecutionOutcomes(f.key) :
       SetProc(f, [procs[f] EXCEPT !.pc = "join", !.outcome = outcome])
  /\ UNCHANGED <<vars, engines, faults>>

\* Renewal has ended: a canceled jobCtx suppresses the outcome.
JoinRenewal(f) ==
  /\ procs[f].pc = "join" /\ procs[f].renewal = "off"
  /\ ProcGoto(f, IF procs[f].ctxDone THEN "exit" ELSE "write")
  /\ UNCHANGED <<vars, engines, faults>>

OutcomeCall(f) ==
  LET Op(lag) ==
        CASE procs[f].outcome = "ok" ->
               \E response \in Responses : CompleteJob(f, response, lag)
          [] procs[f].outcome = "retryable" ->
               \E backoff \in Backoffs, code \in FailureCodes :
                 FailJob(f, TRUE, backoff, code, lag)
          [] procs[f].outcome = "failed" ->
               \E backoff \in Backoffs, code \in FailureCodes :
                 FailJob(f, FALSE, backoff, code, lag)
      Hits(lag) == HoldsLease(f, lag)
  IN  Call(Op, Hits)

WriteOutcome(f) ==
  /\ procs[f].pc = "write"
  /\ OutcomeCall(f)
  /\ ProcGoto(f, "exit")
  /\ UNCHANGED engines

\* The deferred calls: whatever is registered under the job's key is deleted,
\* and the capacity token goes back.
Exit(f) ==
  LET o == f.lease_owner
  IN  /\ procs[f].pc = "exit"
      /\ SetEngine(o, [engines[o] EXCEPT !.cancelFuncs[f.key] = NULL,
                                         !.free = @ + 1])
      /\ SetProc(f, [NewProc EXCEPT !.pc = "done"])
      /\ UNCHANGED <<vars, faults>>

-----------------------------------------------------------------------------
(* runLeaseRenewal, the second goroutine of f.                             *)

SetRenewal(f, pc) == SetProc(f, [procs[f] EXCEPT !.renewal = pc])

CancelAndGoto(f, pc) ==
  SetProc(f, [procs[f] EXCEPT !.renewal = pc, !.ctxDone = TRUE])

\* The select may take the ticker although renewal was told to stop.
RenewalTick(f) ==
  /\ procs[f].renewal = "idle"
  /\ SetRenewal(f, "check")
  /\ UNCHANGED <<vars, engines, faults>>

\* Mutant: intent is not looked at.
RenewalCheckNothing(f) ==
  /\ procs[f].renewal = "check"
  /\ SetRenewal(f, "renew")
  /\ UNCHANGED <<vars, engines, faults>>

\* GetJob: intent cancels jobCtx and is acknowledged; an error of the store
\* is passed over and the lease renewed all the same.
RenewalCheck(f) ==
  /\ procs[f].renewal = "check"
  /\ \/ /\ jobs[f.key].cancel_requested
        /\ CancelAndGoto(f, "ack") /\ UNCHANGED faults
     \/ /\ ~jobs[f.key].cancel_requested
        /\ SetRenewal(f, "renew") /\ UNCHANGED faults
     \/ SetRenewal(f, "renew") /\ Fault
  /\ UNCHANGED <<vars, engines>>

RenewalAck(f) ==
  /\ procs[f].renewal = "ack"
  /\ AckCall(f)
  /\ SetRenewal(f, "off")
  /\ UNCHANGED engines

\* Mutant: any error of RenewLease cancels the job.
RenewalGivesUp(f) ==
  /\ procs[f].renewal = "renew"
  /\ \/ /\ \E duration \in LeaseDurations, lag \in Lags :
             RenewLease(f, duration, lag)
        /\ SetRenewal(f, "idle") /\ UNCHANGED faults
     \/ /\ \E lag \in Lags : ~HoldsLease(f, lag)
        /\ CancelAndGoto(f, "off")
        /\ UNCHANGED <<vars, faults>>
     \/ Fault /\ CancelAndGoto(f, "off") /\ UNCHANGED vars
  /\ UNCHANGED engines

\* RenewLease: a lost lease cancels jobCtx, an error of the store is retried
\* at the next tick.
RenewalRenew(f) ==
  /\ procs[f].renewal = "renew"
  /\ \/ /\ \E duration \in LeaseDurations, lag \in Lags :
             RenewLease(f, duration, lag)
        /\ (UNCHANGED faults \/ Fault)
        /\ SetRenewal(f, "idle")
     \/ /\ \E lag \in Lags : ~HoldsLease(f, lag)
        /\ CancelAndGoto(f, "off")
        /\ UNCHANGED <<vars, faults>>
     \/ Fault /\ SetRenewal(f, "idle") /\ UNCHANGED vars
  /\ UNCHANGED engines

RenewalExit(f) ==
  /\ procs[f].renewal = "idle"
  /\ procs[f].pc = "join" \/ procs[f].ctxDone
  /\ SetRenewal(f, "off")
  /\ UNCHANGED <<vars, engines, faults>>

-----------------------------------------------------------------------------
(* The environment: clients, signals, crashes and database time.           *)

Submit ==
  /\ \E in \in CreateInputs : CreateJobInsert(in)
  /\ UNCHANGED <<engines, procs, faults>>

ClientCancel ==
  /\ CancelStep
  /\ UNCHANGED <<engines, procs, faults>>

Signal(o) ==
  /\ o \in MayStop /\ ~engines[o].ctxDone
  /\ SetEngine(o, [engines[o] EXCEPT !.ctxDone = TRUE])
  /\ UNCHANGED <<vars, procs, faults>>

\* The process dies with its goroutines and is started again under the same
\* worker_id.
Crash(o) ==
  /\ o \in MayCrash
  /\ Fault
  /\ SetEngine(o, NewEngine)
  /\ procs' = [f \in DOMAIN procs |->
                 IF f.lease_owner = o THEN [NewProc EXCEPT !.pc = "dead"]
                 ELSE procs[f]]
  /\ UNCHANGED vars

Time == Tick /\ UNCHANGED <<engines, procs, faults>>

-----------------------------------------------------------------------------

LoopStep(o) ==
  \/ PollTop(o)
  \/ AcquireCanceled(o)
  \/ AcquireGranted(o)
  \/ AcquireEmpty(o)
  \/ AcquireFault(o)
  \/ Dispatch(o)
  \/ PollWait(o)
  \/ BeginDrain(o)
  \/ DrainDone(o)
  \/ DrainDeadline(o)
  \/ RunReturns(o)

ReclaimerStep(o) == Sweep(o) \/ ReclaimerExit(o)

\* The steps of processJob but for the return of Execute.
ProcStep(f) ==
  \/ Begin(f)
  \/ MarkHit(f)
  \/ MarkMiss(f)
  \/ MarkMissExplained(f)
  \/ MarkFault(f)
  \/ AckBeforeStart(f)
  \/ JoinRenewal(f)
  \/ WriteOutcome(f)
  \/ Exit(f)

RenewalStep(f) ==
  \/ RenewalTick(f)
  \/ RenewalCheck(f)
  \/ RenewalAck(f)
  \/ RenewalRenew(f)
  \/ RenewalExit(f)

EngineNext ==
  \/ \E o \in Owners : LoopStep(o) \/ ReclaimerStep(o) \/ Signal(o) \/ Crash(o)
  \/ \E f \in DOMAIN procs : ProcStep(f) \/ ExecuteReturns(f) \/ RenewalStep(f)
  \/ Submit
  \/ ClientCancel
  \/ Time

EngineSpec == EngineInit /\ [][EngineNext]_engineVars

\* Fairness: every goroutine that can run is scheduled again, timers fire,
\* database time passes and sweeps recur.  Nothing is assumed of clients,
\* signals or crashes.  Execute only has to return once its context is
\* canceled.  A select takes each of its ready cases sooner or later: renewal
\* that was told to stop does not tick for ever.  Tokens stay below
\* 2 * max_attempts (JobLedger).
Fences == [key : Keys, lease_owner : Owners,
           lease_token : 1..(2 * MaxAllowedAttempts)]

Fairness ==
  /\ WF_engineVars(Time)
  /\ \A o \in Owners : /\ WF_engineVars(LoopStep(o))
                       /\ WF_engineVars(Sweep(o))
                       /\ WF_engineVars(ReclaimerExit(o))
  /\ \A f \in Fences :
       /\ WF_engineVars(f \in DOMAIN procs /\ ProcStep(f))
       /\ WF_engineVars(f \in DOMAIN procs /\ RenewalStep(f))
       /\ SF_engineVars(f \in DOMAIN procs /\ RenewalExit(f))
       /\ WF_engineVars(/\ f \in DOMAIN procs
                        /\ procs[f].ctxDone
                        /\ ExecuteReturns(f))

FairEngineSpec == EngineSpec /\ Fairness

\* The same with downstream calls that always end.
ExecutionEnds ==
  \A f \in Fences : WF_engineVars(f \in DOMAIN procs /\ ExecuteReturns(f))

FairExecutingSpec == FairEngineSpec /\ ExecutionEnds

-----------------------------------------------------------------------------
(* Safety.                                                                 *)

\* No path of the poll loop or of processJob loses or duplicates a capacity
\* token: tokens in the channel, tokens held by the iteration and running
\* goroutines always add up to `concurrency', so an engine neither exceeds its
\* limit nor starves itself.
CapacityConserved ==
  /\ EngineTypeOK
  /\ \A o \in Owners :
       engines[o].free + engines[o].tokens + Cardinality(ActiveOf(o)) = Concurrency

\* A goroutine's job context is canceled only by a forced drain, by a recorded
\* cancellation or because its lease is expired or gone (the comment before
\* the terminal writes of processJob): no outcome is suppressed while the
\* worker still rightfully holds the job.
CanceledForCause ==
  \A f \in DOMAIN procs :
    Active(f) /\ procs[f].ctxDone =>
      \/ engines[f.lease_owner].forced
      \/ jobs[f.key].cancel_requested
      \/ ~HasLease(f, jobs[f.key])
      \/ jobs[f.key].lease_expires_in <= 0

\* Run that returns without forcing leaves nothing behind: no goroutine of the
\* engine is running and all capacity tokens are back.
GracefulDrainComplete ==
  \A o \in Owners :
    engines[o].pc \in {"stopping", "stopped"} /\ ~engines[o].forced =>
      ActiveOf(o) = {} /\ engines[o].free = Concurrency

\* A job only becomes succeeded by the write of a goroutine whose own execution
\* succeeded under the lease in force at that moment: a worker that was
\* reclaimed, restarted or overtaken by a newer lease of its own engine never
\* records its late result.
OnlyHolderCompletes ==
  [][\A k \in Keys :
       jobs'[k].state = "succeeded" /\ jobs[k].state # "succeeded" =>
         \E f \in DOMAIN procs :
           /\ f.key = k /\ HasLease(f, jobs[k])
           /\ procs[f].pc = "write" /\ procs[f].outcome = "ok"]_engineVars

\* A lease that has not expired is ended by its holder alone: by a step of the
\* goroutine it was dispatched to, at its outcome or at its acknowledgement of
\* a cancellation.  No CancelJob, sweep, other engine, restarted process or
\* goroutine of an older lease of the same engine takes it away.
LiveLeaseKept ==
  [][\A k \in Keys :
       LET f == Fence(k, jobs[k])
       IN  Leased(k) /\ jobs[k].lease_expires_in > 0 /\ ~HasLease(f, jobs'[k]) =>
             /\ f \in DOMAIN procs /\ procs'[f] # procs[f]
             /\ procs[f].pc \in {"write", "ack"} \/ procs[f].renewal = "ack"]_engineVars

-----------------------------------------------------------------------------
(* Liveness.                                                               *)

\* Run returns after the signal even when downstream calls hang, unless the
\* process dies first.
ShutdownCompletes ==
  \A o \in Owners :
    engines[o].ctxDone ~> (engines[o].pc = "stopped" \/ ~engines[o].ctxDone)

\* A requested cancellation settles the job although its downstream call would
\* never end on its own: through the renewal check, the acknowledgement before
\* start, or reclamation after the acknowledgement was lost. Only the shutdown
\* of every engine may leave it for later.
CancellationSettles ==
  \A k \in Keys :
    jobs[k].cancel_requested ~>
      (Terminal(k) \/ \A o \in Owners : engines[o].ctxDone)

\* While the engine keeps coming back, every job reaches a terminal state,
\* whatever crashes, lost replies and expired leases came between.
JobsSettle == \A k \in Keys : Exists(k) ~> Terminal(k)

-----------------------------------------------------------------------------
(* A statement of the code that the code breaks.                           *)

\* worker.go, at the drain deadline: "canceling remaining active jobs".
ForcedDrainCancelsAll ==
  \A o \in Owners :
    engines[o].forced =>
      \A f \in ActiveOf(o) : procs[f].pc = "execute" => procs[f].ctxDone
=============================================================================
