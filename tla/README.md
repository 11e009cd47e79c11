# progo-a2a: TLA+ models, checks and proofs

progo-a2a is a proxy between A2A clients and agent back ends. It runs in three
roles: an HTTP gateway (`api`), a worker that executes durable jobs (`worker`),
or both in one process (`all`). This directory models the parts whose
correctness depends on interleavings, failures and orderings, checks them with
TLC and proves their safety with TLAPS.

Contents: [inventory](#1-inventory), [modules](#2-modules-and-the-code),
[runs](#3-runs), [fairness](#4-fairness), [proofs](#5-proofs),
[findings](#6-findings), [what is left out](#7-what-is-not-modelled),
[plan](#8-plan). `PROJECT.json` has the same as data: the line of the code for
every definition, the hazards with the properties that watch them, and a mutant
for every property.

## 1. Inventory

| component | state | operations | hard behaviour | what makes it correct |
|---|---|---|---|---|
| durable job ledger `pkg/storage/postgres_jobs.go`, `migrations/002`, `pkg/model/job.go` | rows of `durable_jobs`: state, attempt, lease owner/token/expiry, cancel intent, response | CreateJob, AcquireLeases, MarkRunning, RenewLease, CompleteJob, FailJob, CancelJob, AcknowledgeCancellation, ReclaimExpiredLeases, GetJob | every worker and client writes the same rows; fences go stale; NOW() lags row locks; CreateJob is two statements | tokens are never reused, stale fences never hit, terminal rows are final, no job is stranded, a repeated CreateJob gets the same answer |
| worker engine `pkg/worker/worker.go` | capacity channel, `activeCancelFuncs`, `shuttingDown`, goroutines | poll loop, reclamation loop, processJob, lease renewal, drain | four kinds of goroutine, storage faults, crashes, shutdown at any moment, the same job twice in one engine | capacity is conserved, outcomes are suppressed only for cause, a live lease is ended by its holder alone, jobs and cancellations settle, Run returns |
| job executor `pkg/worker/executor.go` | none | Execute, mapDispatcherError, SanitizeFailure | downstream calls that hang or panic | one of three outcomes |
| dispatcher `pkg/dispatcher` | per request: visited agents, attempt, emitted flag | Dispatch, DispatchSingleAttempt, DispatchStream | retries x fallbacks x cancellation; recursion over a graph | bounded calls, all fallbacks tried, nothing after the first event |
| configuration validator `pkg/config/validator.go` | marks of a depth-first search | Validate | accepts or refuses whole graphs, by order of listing | accepts exactly the acyclic fallback graphs |
| in-memory task store `pkg/storage/memory.go` | map and FIFO list | Save, Load | one Save updates, inserts and evicts | bounded, consistent, oldest first, atomic |
| process runtime `cmd/proxy/main.go`, `pkg/storage/bundle.go`, `pkg/server/server.go` | pool, server, worker, two result channels | run, runAPI, runWorker, runAllComponents | signals, ends of components and deadlines in any order | pool closed on every way out, result tells what happened (but for a drain that was cut off), the process ends |
| PostgreSQL task store `pkg/storage/postgres.go`, `task_store.go`, `migrations/001` | `task_results`, the pool | Save (upsert of all lookup IDs), Load, Close | row locks of overlapping Saves, replies lost after the commit, commits after the caller gave up, a pool smaller than its callers | a Save is all or nothing and never reported before its commit; every call returns |
| schema migrations `pkg/storage/migrations.go` | `schema_migrations`, advisory lock | LoadMigrations, runMigrations | concurrent starts of different releases, a start that dies halfway | each version applied once, in order and as recorded; a process that migrates (`migrate_on_start`, off by default) serves only on a schema that is its own |
| HTTP handlers and middleware `pkg/server` | per request | DispatchTask, InvokeAgent, GetTask, DispatchTaskStream, StreamAgent; AuthMiddleware, RecoveryMiddleware | client, agent and store fail between dispatch, save and reply; three layers can each report a stream's error | 200 means stored, what was answered can be read back, a stream has exactly one ending |
| adapters `pkg/adapter`, SSE writer `pkg/stream` | per stream: the scanner, `currentEvent` | TranslateStream, Emit (the other translations are mappings of JSON fields) | bodies that break off, fail, end early or never end; a client that is gone but not noticed, or stays and does not read | output in order and without gaps, `task_completed` only for a whole answer |
| metrics, data model, mock agents | none, or counters nothing reads | counting, declarations | | not modelled |

How they interact. A handler calls the dispatcher and saves the answer in a task
store. The worker engine takes leases from the ledger, executes each job with
`DispatchSingleAttempt`, renews the lease while it runs and writes the outcome
back under the fence of its lease; other engines see the job only through the
ledger. The dispatcher relies on the validator for fallback graphs without
cycles. `main` owns the storage, gives it to server and worker, and closes it
after both.

## 2. Modules and the code

| module | models | built on |
|---|---|---|
| `LeaseQueue` | the contract of `JobRepository`: a job waits, is held under a new lease, is released or done; abstract specification | |
| `JobLedger` | `PostgresJobRepository` on `durable_jobs` | refines `LeaseQueue` |
| `JobLedgerProofs` | theorems about `JobLedger` | extends `JobLedger` |
| `WorkerEngine` | any number of engines on one ledger | extends `JobLedger` and calls its operations |
| `Dispatcher` | one request, from routing to its answer | |
| `FallbackCheck` | reference check and cycle search of `Validate` | |
| `ValidatedDispatch` | a process that validates its configuration and serves a request on it | extends `FallbackCheck` and `Dispatcher` |
| `StreamRequest` | a streamed request: the handler's tail, the adapter's TranslateStream, the SSE writer | extends `Dispatcher` |
| `TaskStore` | the contract of `storage.TaskStore`; abstract specification | |
| `PostgresTaskStore` | Save, Load and Close on a pool, and the server behind it | refines `TaskStore` |
| `Gateway` | DispatchTask, InvokeAgent and GetTask behind the middleware | extends `PostgresTaskStore` and calls its operations |
| `MemoryTaskStore` | `Save` | |
| `Migrations` | `runMigrations` of processes that start together | |
| `ProxyRuntime` | `run` in its three roles | extends `Migrations`; uses what `WorkerEngine` shows (Run returns) |
| `WorkerEngineProofs` | theorems about `WorkerEngine` | extends `WorkerEngine` and `JobLedgerProofs` |
| `DispatcherProofs` | what every step of `Dispatcher` preserves | extends `Dispatcher` |
| `ValidatedDispatchProofs`, `StreamRequestProofs` | theorems about validation with dispatch, and about streams | extend their modules and `DispatcherProofs` |
| `GatewayProofs`, `MemoryTaskStoreProofs`, `ProxyRuntimeProofs` | theorems about the gateway with its store, the memory store, and the process with the migrations | extend their modules |
| `MCJobLedger`, `MCWorkerEngine`, `MCValidatedDispatch`, `MCStreamRequest`, `MCGateway`, `MCProxyRuntime` | instances for TLC | |

**JobLedger.** `jobs` is the table; a missing row has state "absent".
`conflicted` are CreateJob calls between their INSERT and their SELECT;
`granted` is a history of all fences, used as the set of fences callers may
present, so that a worker with a lost lease stays able to call. One SQL
statement is one action: under READ COMMITTED an UPDATE that waited for a row
lock evaluates its WHERE clause again on the row it finds. AcquireLeases and
ReclaimExpiredLeases select and update in one transaction with `FOR UPDATE SKIP
LOCKED`, hence any subset of the eligible rows. Timestamps are offsets from the
present; `Tick` lowers the ones a statement can still read, so time has no bound.
`NOW()` is fixed at the start of a transaction and may be up to `NowLag` older
than the moment the row is locked; each statement has its own `lag`. The
idempotency hash is equality of what is hashed (`SameFingerprint`).

**WorkerEngine.** A step ends wherever another goroutine may come between: a
repository call, a lock, a context check, a `select`. `engines[o]` is the engine
of one `worker_id`: where Run is, the capacity channel (`free`), the tokens an
iteration holds, the batch AcquireLeases returned, `shuttingDown`,
`activeCancelFuncs`, and whether the reclamation loop lives. `procs` has one
processJob goroutine for each dispatched fence, with the state of its renewal
goroutine and of `jobCtx`. A repository call applies, hits no row, or fails
before or after its effect (`Call`). `Crash` kills the goroutines and restarts
the engine under the same `worker_id`. After a forced drain the goroutines go
on, as they do in the code until the process exits.

**Dispatcher.** The recursion of `dispatchWithFallback` is `stack`, one frame
per call with its position in the fallback list. `calls` and `lateCalls` are
histories. The streaming variant shares the steps and differs by `EmitEvent`.
A call that is started with its context done gets no answer.

**FallbackCheck.** The recursion of `checkCycle` is `path`. Every fallback list,
also with unknown and repeated IDs, is an initial state.

**ValidatedDispatch.** The dispatcher's model is only right for the
configurations that reach it, so the two are run as one: the validator decides
on the graph, and a request arrives only when it has accepted. What the
dispatcher relies on is thereby checked, not assumed.

**StreamRequest.** Starts when the SSE headers are sent (the checks before them
repeat those of `DispatchTask` and `InvokeAgent`). A line of the agent's body is
the class of what the adapter tells apart in it (`openai`, `autogen`, `crewai`,
`custom`, `langgraph` give the verdict on a line); the body is chosen line by
line while it is read. The scanner returns what it has before it reports a read
error, so the last line may be cut (`broken`). `wire` is what the client has
received; a client that is `gone` receives nothing, and Emit notices at once,
later or never, as writes to a buffered connection do. The context ends some time
after that. A client may also stay and stop reading (`stalled`): the Emit that is
due does not return until it reads on or its connection is lost, because both
handlers clear the write deadline and no context reaches a write. When
`MaxLines` lines are recorded the agent may go on sending for ever
(`KeepsSending`). Payloads that
JSON cannot express (a number beyond a double, which `gjson` reads as infinite)
make Emit fail with the client present. The steps of `DispatchStream` around the
adapter are those of `Dispatcher`.

**PostgresTaskStore.** A session is one call with its context. `call` is the
caller's side (waiting for a connection, statement sent, returned) and `backend`
the server's: the upsert locks its rows one after the other in the order of the
keys, waits for locks of others, commits everything at once or is aborted, by
the deadlock detector, by pgx's cancel request or by a failure. The two sides
part when the context ends or the connection is lost: the caller has an error,
the server may still commit. `log` is a history of commits. PostgreSQL and pgx
are external and modelled as far as the code depends on them.

**Gateway.** A request is a session of the store. The checks of the middleware
and of the handler depend on the request and the configuration only and are one
step; what `Dispatch` returns is left open within what `Dispatcher` allows: an
answer of an agent that the fallbacks lead to, or an error. Then Save with its
aliases, then the reply. The five built-in adapters never set a task ID, so in
the shipped binary a Save has one key; adapters that set one can be registered
through the exported registry, and the alias branch of `DispatchTask` and its
test (`pkg/server/task_store_test.go`) are about them, hence `AdapterTaskIDs`.
`before` is a history: the POSTs that were answered when a GET began.

**MemoryTaskStore.** `ll` is the list, `tasks` the map; one Save is one action
because it runs under the mutex. `lastSaved` is a history.

**Migrations.** `txs[p]` is the transaction of one process: what it read from
`schema_migrations`, where its loop is, what it has written. Writes are seen at
COMMIT, and the lock goes with COMMIT or ROLLBACK; a COMMIT whose reply is lost
has taken effect all the same. A program is the sequence of its migrations (file
name and checksum), and each process has its own. `schema` is a history of the
SQL that took effect. The primary key of `schema_migrations` is left out, which
allows more than PostgreSQL does: without the advisory lock the second of two
processes would in practice fail at its INSERT, here it would run a migration
twice.

**ProxyRuntime.** The modelled process is one of those in `Migrations`, and
starts, migrates and serves while the others migrate. `serverDone` and `workerDone` are the channels of
`runAllComponents`; each `select` is an action per ready case; each deadline is
an action that may always be taken while its wait lasts. `causes` is a history
of what really went wrong, against which the result is compared. A pool is
created, tried with a Ping and closed again if that fails, before the migration
or the components get it. Engine.Run returns nil after a drain that was cut off
too (cause "forced"); the goroutines it leaves behind are `stray`. `busy` says
whose statements are under way: the deferred close refuses new ones (pool
"closing") and waits for these.

## 3. Runs

Bounds are named in the modules: `MaxPending` (CreateJob calls between
statements), `MaxFaults` (storage faults and crashes together), `MaxRequests`,
`MaxSaves`, `MaxAliases`, `MaxFallbacks`, `MaxLines` (of a streamed body). Attempts are bounded by
`MaxAllowedAttempts`, as in the code, so tokens are bounded too.

| run | instance | states | what it shows |
|---|---|---|---|
| `ledger_lifecycle` | 2 jobs, 2 owners, up to 2 attempts, lag 1 | 54,000 | `TerminalFrozen`, `StaleStaysStale`, `IntentBlocksStart`, the refinement `ImplementsLeaseQueue`, and `LedgerInv`, the invariant of the proofs, of which the budget of leases (`GrantsWithinBudget`), `TokensNeverReused`, `UniqueIdempotency`, `LeaseStateCheck`, `NoStrandedJob` and `CurrentLeaseIsNewest` are parts or consequences |
| `ledger_create` | 2 tenants x 2 IDs, 2 keys, 2 requests, 2 budgets, one call between its statements | 50,000 | the answer after a conflict is right although it comes from a later SELECT (`CreateJobAnswers`); a repeated call is answered as the first one was, whatever happened in between (`RetryAnswersAlike`) |
| `ledger_mark_running_miss` | as `ledger_lifecycle` | | expected violation, see findings |
| `engine_safety` | 1 engine, 2 slots, 1 job, 2 attempts, lag 1, 2 faults or crashes, shutdown | 1.2 million | `CapacityConserved` (with the types), `GracefulDrainComplete`, `CanceledForCause`; `OnlyHolderCompletes` with the goroutine of an expired lease next to the holder's in the same engine; `LiveLeaseKept`: only a step of the holder's own goroutine ends a live lease |
| `engine_jobs_settle` | 1 engine, 2 slots, 2 faults or crashes, lag 1 | 149,000 | `JobsSettle` |
| `engine_hung_call` | 1 engine, 1 slot, 1 fault or crash, shutdown; Execute returns only when canceled | 30,000 | `CancellationSettles`, `ShutdownCompletes` |
| `engine_forced_drain` | 1 engine, 2 slots, 1 job | | expected violation, see findings |
| `validated_dispatch` | all lists of up to 2 over 3 agents and an unknown one; on the accepted graphs 3 modes, agents with 0 and 1 retries, cancellation | 0.8 million | `AcceptsExactlyAcyclic` against a closure definition, `CallsWithinBudget` (and at most one call that was started before the caller left), `FailsOnlyWhenAllTried`, `NoCallAfterEmission`, `Answered` |
| `stream_request` | an agent of each type with 1 retry and a custom fallback, bodies of up to 3 lines that end, break off or go on for ever, a client that leaves or stops reading | 1.4 million | `WellFormedStream`: one stream with at most one ending; `StreamConcluded`: a client that stays gets the ending that tells what happened; `WholeOrError`: output in order without gaps, and `task_completed` only for all of it; `StreamEnds`, but for a client that stays and reads no more |
| `gateway` | 2 POSTs over IDs they may have in common, 1 GET, 2 connections, 1 fault (client leaves, connection lost, statement fails, store closes) | 228,000 | `StoredOrTold`, `ReadsWhatWasAnswered`, `DeadlockNeedsCrossedKeys`, the refinement `ImplementsTaskStore`, `RequestsEnd` |
| `memory_store` | 4 IDs, capacity 2, lists of up to 2 aliases, 4 Saves | 2,700 | `StoreConsistent`, `EvictsOldestFirst`, `SaveIsAtomic` |
| `proxy_runtime` | 3 roles, 2 requests, another process that starts, 4 releases (one extends another, one edits and one renames a migration); every failure of the start, a drain that is cut off, statements under way at the close | 759,000 | `SchemaAsRecorded`, `StartsOnKnownSchema`, `NoLeakedPool`, `ClosedUnderUseHasCause`, `ResultMatchesCauses`, `ProcessEnds` |

Why the bounds are enough. Two owners and two attempts give every relation
between a stale and a current fence (other owner, same owner with an older
token), two jobs make batches of two and batches that are smaller than their
tokens, and a lag of one lets two statements disagree about an expiry. A lease
lasts two ticks so that a renewal can come before it expires: the configuration
demands a renewal interval of at most half the lease. Two slots are the fewest
in which one engine can run two leases of a job, which is also how
`engine_safety` has a stale goroutine: to the table it does not matter in which
engine the holder of an old fence lives, and two owners are in
`ledger_lifecycle`. One fault suffices for any single lost reply, and
`engine_safety` and `engine_jobs_settle` combine two. Three agents give
chains, diamonds, repeated fallbacks and cycles of length two and three. A store
of two with batches of up to three has Saves that update, insert, evict and are
refused. Three lines are an event name, data under it and an empty line or an
end mark, or two outputs and how the body ends; the three requests of `gateway`
are a circle of two upserts and a reader, with one connection less than
requests. One fault there is any one thing that goes wrong; the invariants hold
with two as well (0.9 million states), which is too slow for the liveness
property. Time in the ledger, and retries of the renewal ticker are
not bounded.

Symmetry is used in `ledger_create` only (tenants, IDs, keys and requests are
never compared with anything but themselves).

Deadlock checking is off where the modelled thing ends: a request, a stream, a
validation, a process, and the store at its bound of Saves.

## 4. Fairness

- `WorkerEngine`: weak fairness for each loop and goroutine that can run (the Go
  scheduler), for the sweeps of the reclamation ticker and for database time.
  Strong fairness for `RenewalExit` only: a `select` chooses uniformly among its
  ready cases, so a renewal that was told to stop does not take its ticker for
  ever. `Execute` has to return only once its context is canceled (net/http
  honours it); `JobsSettle` alone also assumes that downstream calls end, which
  the agents' timeouts see to. Nothing is assumed about clients, signals,
  crashes or faults, which are bounded by `MaxFaults`: a store that is down for
  ever settles nothing.
- `Dispatcher`: weak fairness of its steps; the loader gives every agent a
  positive timeout that bounds the call and the reading of its answer. Nothing
  about cancellation.
- `ValidatedDispatch`: in addition the validator, which runs on one goroutine
  and waits for nothing; a request need not arrive.
- `StreamRequest`: fairness of what the proxy does by itself, its attempt
  deadlines included: `applyDefaults` turns a missing timeout into 60 s and
  `Validate` refuses negative ones, so every attempt has one, and it bounds the
  reading of a body too. The agent need send nothing, and its body need not end.
  The client need neither leave nor, when it has left, be noticed, nor read:
  `StreamEnds` excepts the client that stays and reads no more, for which the
  handler waits as long as the connection lasts. Strong fairness, because an Emit
  that waits for a client and goes on again is a finite write.
- `Gateway`: weak fairness of the handler (`Dispatch` returns: `Answered`) and of
  the store's side of each call: the pool serves its callers in turn, the server
  runs its statements and breaks circles of waiting ones. No client has to leave
  and nothing has to fail. Without the context of a client that leaves a
  statement has no deadline of its own, so that the server answers is an
  assumption, not a consequence of the code.
- `ProxyRuntime`: weak fairness of the main goroutine, whose waits have
  deadlines (Ping and the wait for the migration lock have the connect timeout),
  with one exception: `pool.Close()` waits without a deadline for the connections
  in use. That statements under way end is therefore an assumption, made
  explicit as the fairness of `StatementEnds`; the code does not guarantee it.
  Weak fairness of the engine, which returns once its context is done
  (`ShutdownCompletes`). None for handlers and left goroutines: outside a
  statement they may hang.

## 5. Proofs

Every safety property that a run checks is also a theorem, for every value of the
constants; both refinements are. TLC checks each on the small instances of
section 3, where a wrong formula shows a counterexample; TLAPS then proves it
for any number of jobs, workers, agents, requests, lines or entries. The bounds
of the runs (`MaxPending`, `MaxFaults`, `MaxLines`, ...) are constants of which
the proofs assume no more than that they are numbers.

| module | inductive invariant | proves |
|---|---|---|
| `JobLedgerProofs` | `LedgerInv`; `ConflictsRemain` for the calls between two statements | the properties of `ledger_lifecycle` and `ledger_create`, and `LedgerRefinesQueue` |
| `WorkerEngineProofs` | `EngineInv`, on top of `LedgerInv` | `CapacityConserved`, `GracefulDrainComplete`, `CanceledForCause`, `OnlyHolderCompletes`, `LiveLeaseKept`; `EngineSpec => Spec` |
| `DispatcherProofs` | `DispatchInv`, `Exploration` (lemmas for the next two) | |
| `ValidatedDispatchProofs` | `ServeInv`: `CheckInv` of the search, then `DispatchInv` and `Exploration` | `AcceptsExactlyAcyclic`, `CallsWithinBudget`, `FailsOnlyWhenAllTried`, `NoCallAfterEmission` |
| `StreamRequestProofs` | `StreamInv`, on top of `DispatchInv` | `WellFormedStream`, `StreamConcluded`, `WholeOrError` |
| `GatewayProofs` | `GatewayInv` | `StoredOrTold`, `ReadsWhatWasAnswered`, `DeadlockNeedsCrossedKeys`, `ImplementsTaskStore` |
| `MemoryTaskStoreProofs` | `StoreInv` | `StoreConsistent`, `EvictsOldestFirst`, `SaveIsAtomic` |
| `ProxyRuntimeProofs` | `MigrationInv`, `RuntimeInv` | `SchemaAsRecorded`, `StartsOnKnownSchema`, `NoLeakedPool`, `ClosedUnderUseHasCause`, `ResultMatchesCauses` |

**The ledger.** The invariants are not inductive one by one. That a stale fence
never hits needs that tokens grow above every fence given out, which needs that
the lease in force is the newest; `GrantsWithinBudget` needs that a new fence is
really new. The inductive invariant `LedgerInv` joins them:

- `RowOK`: in each row the lease columns match the state, attempt <=
  max_attempts, a queued row has an attempt left, exactly succeeded rows have a
  response, a missing row has no data;
- `GrantsOK`: a job has finitely many fences, as many as attempts, none with a
  token above the row's, the lease in force among them;
- `TokensNeverReused` and `UniqueIdempotency`.

AcquireLeases raises the token by one, above all fences of the job by
`GrantsOK`, so the fence it hands out is new, the count of fences grows with
`attempt`, and tokens stay unique. Reclamation raises the token too, without a
fence. All other operations leave the token alone and keep or drop the lease.
Each operation has a lemma about the row it makes (`RowOK` is kept, the token
does not fall), and the preservation proof has one step per action.
`CreateJobAnswers` needs in addition that what an INSERT met is still there at
the SELECT: rows are never deleted, and their key, idempotency key and
fingerprint never change. `RetryAnswersAlike` rests on the same and on
`UniqueIdempotency`: the row an idempotency key finds is one row, and it stays
that one. `LedgerRefinesQueue` proves `Spec => Queue!Spec`: a
lease is named by its fence, what a job may still use is max_attempts - attempt;
AcquireLeases maps to Grant, the ends of leases to Release, creation to Submit,
cancellation of a queued job to Withdraw, everything else to a stutter.

**The engines.** `EnginesUseTheLedger` (`EngineSpec => Spec`) shows that every
step of an engine, with lost replies and crashes, is a step of the ledger or
leaves it alone, so all theorems about the ledger hold under the engines.
`EngineInv` adds for each engine that its tokens, its batch and its goroutines
add up, and for each goroutine why its context is done. The difficulty is
`CanceledForCause`: a cause has to last. Cancellation intent, a lost lease and a
forced drain are never taken back (`StaleStaysStale`, `IntentBlocksStart`), but
a lapsed lease could be renewed by a statement with an older NOW(); `Lapsed`
says that the only goroutine that would renew it has ended. `LiveLeaseKept` is a
statement about engines, not about the ledger, whose operations anybody may call
with any fence: each step is shown to spare all live leases (acquisition,
sweeps, cancellation, crashes, time) or to be a fenced call of one goroutine, and a
fenced call that matches a row with another's lease does not exist.

**Validation and dispatch.** `CheckInv` is the invariant of a depth-first search:
the path is a path of the graph, visited agents have only visited neighbours and
are on no cycle. `ValidatorIsExact` compares it with the definition of a cycle
by closed sets, in both directions. For a request, `BudgetOK` counts its calls
and `CutOK` says where a request can be once it was canceled or has emitted.
`FailsOnlyWhenAllTried` follows from `Exploration`: each frame has tried the
fallbacks before its position, and an agent whose frame is gone has tried all of
its own, so that the visited agents are closed under fallbacks when the last
frame returns.

**A streamed request.** Each step is a step of `Dispatcher` or leaves its
variables alone, so `DispatchInv` is inherited. `PlaceOK` ties the place in
TranslateStream to the dispatcher's, `WireOK` says what a client that stayed has
received at each place, and `OutputOK` that the relayed lines are exactly the
lines with output so far. `EventIn` defines the event name that applies to a
line by the lines before it; `EventFollows` shows that the scanner's
`currentEvent` is that.

**The gateway and the PostgreSQL store.** `SidesOK` relates the caller's side of
a call to the server's, `LogOK` and `RowsOK` the rows to the history of commits,
`ReadOK` what a GET has read to what was answered before it. A circle of waiting
upserts with keys in a common order would be a circle of growing ranks
(`CirclesNeedCrossedKeys`). `StoreKeepsContract` is the refinement: the effect of
a call on the contract is its COMMIT, or for a Load its reading of the row; its
answer is the caller's return; everything between is a stutter.

**The in-memory store.** `OldestFirst` says that the list is in the order of the
Saves. `Parts` splits it at a Save into what stays, what is updated and what is
new, and counts: what is evicted is at most what the batch does not name, because
the batch fits into the store. That is why a Save never evicts its own IDs.

**Migrations and the process.** `TxOK` says that a transaction that holds the
advisory lock has read the committed table and nobody has changed it since. It
needs no assumption about the programs: a process meets the records of any
other. `RuntimeInv` follows errors from where they arise through the channels
to the result. `UsesOK` says whose statements may be under way: those of handlers
that are there, of a running engine or of goroutines a cut off drain left.

**Loops over lists.** The keys of a Save (`Keys`, `UniqueKeys`) and the parts of
a list (`Within`) are recursive functions. What they compute for every input is
proved by induction on the number of rounds, stated for sets of numbers
(`LeastNumber`, `UpTo`), because the library's induction rules take a predicate
as parameter, which the provers cannot instantiate; that the recursive function
exists at all is a lemma of its own (`KeysDefined`, `Course`).

**Assumptions.** All are named ASSUMEs that TLC evaluates on every run, and say
what the code sees to:

- numbers: capacities, connections, attempts and batches are at least one, bounds
  and `NowLag` natural numbers, lease durations positive and backoffs not
  negative (`Validate` and the callers refuse others);
- sets: the configurations, requests, programs and agent types offered are of
  their type; task IDs are finitely many; agents are listed once each, which an
  earlier check of `Validate` sees to;
- values that stand for "nothing" (NULL, NONE, NoID) are not values;
- requests (`Gateway`): `InvokeAgent` carries no task ID of the client's and
  `GetTask` always has one, as the handler and the route pattern see to;
- `ValidatedDispatch`: validator and dispatcher work on the same configuration.

**Only model-checked.** The liveness properties `JobsSettle`,
`CancellationSettles`, `ShutdownCompletes`, `Answered`, `StreamEnds`,
`RequestsEnd` and `ProcessEnds`: fairness and ENABLED are outside what the prover
handles. The two expected violations are TLC's by nature.

## 6. Findings

- `engine_forced_drain` (worker.go): cancel functions are registered by job key.
  If an engine leases a job again while the goroutine of its expired lease still
  runs, the second registration overwrites the first, and whichever goroutine
  ends first deletes the entry. At the drain deadline the other one is not
  canceled, although the log says "canceling remaining active jobs", and it
  executes on after Run has returned. The table stays safe: the fence refuses
  the late write of the stale goroutine.
- `ledger_mark_running_miss` (postgres_jobs.go): after a miss
  `handleLeaseMutationMiss` looks the job up by its key alone, so a worker whose
  lease is gone gets ErrCancellationRequested when intent is recorded, where the
  interface promises ErrLeaseLost. The acknowledgement it then tries is refused
  by the fence.

Observations that have no run of their own:

Engine.Run returns nil, and logs "durable worker engine stopped cleanly", also
after its drain deadline has cut jobs off (worker.go:337-354). The process then
exits without an error, unlike after the other deadlines;
`ResultMatchesCauses` states this exception.

A streaming handler has no deadline for its writes, so that a client which stays
connected and reads no more holds it, and at shutdown the server's deadline is
what ends the wait. `StreamEnds` states this exception.

docs/deployment/postgresql.md says of
a failed Save that "The `503` tells callers that the result was not durably
recorded". The store cannot know that. When the reply of a committed upsert is
lost, or the statement outlives its caller, 503 is said of a result that a later
GET finds; `StoredOrTold` therefore states the direction that holds (no 200
without a commit), and `TaskStore` lets a failed Save take effect.

## 7. What is not modelled

- Text, JSON, hashing, sanitizing and logging; lengths and formats of fields.
- Durations of the exponential backoff (floating point with jitter): a backoff
  is any delay the callers may pass.
- ORDER BY in AcquireLeases: SKIP LOCKED may pass over any row, so no order is
  promised. Starvation of a ready row by an endless stream of others is outside
  the instances, which create finitely many jobs.
- Isolation below READ COMMITTED statements, and failovers in PostgreSQL other
  than as failing calls. Deadlocks of row locks are in `PostgresTaskStore`; the
  job ledger's statements lock one row or skip locked ones.
- TranslateRequest and TranslateResponse of the adapters: mappings of JSON fields
  without state, which `Dispatcher` lets succeed or fail.
- Request IDs, access logs, metrics, health checks and the listing of agents:
  they read, or count what nothing reads back.
- The other checks of `Validate` (single fields against constants) and the
  loader (YAML and defaults).
- The components listed without a module in section 1, for the reasons given in
  `PROJECT.json`.

## 8. Plan

Done, in this order: the ledger with its contract and proofs, the engine on top
of it, the dispatcher composed with the validator's graph check, the memory
store, the migrations and the process, the PostgreSQL task store with its
contract, the gateway over it, and streamed requests through the adapters; then
the proofs of all safety properties the runs check, and of the two refinements.

What could still be modelled: the composition of `WorkerEngine` with
`ProxyRuntime`, where the goroutines a cut off drain leaves behind are now one
flag. The rest of the code has no state to model (section 7).

What could still be proved: safety parts of the liveness arguments, such as that
in a circle of waiting upserts the deadlock detector always finds one to abort,
or that in an engine a job that is not terminal always has somebody who will
act on it.
