---------------------------- MODULE ProxyRuntime ----------------------------
(***************************************************************************)
(* The process (cmd/proxy/main.go): it opens the storage of its role,      *)
(* starts the HTTP server, the worker engine or both, and takes them down  *)
(* again on a signal or when one of them ends.  What the engine does is in *)
(* WorkerEngine; here it runs, uses the pool and returns, after a drain    *)
(* that was completed or cut off.  The process is This of Migrations, and  *)
(* the others there start at the same time.                                *)
(*                                                                         *)
(* serverDone and workerDone are channels with room for one error, NONE    *)
(* when empty.  An error is "nil" or "err".                                *)
(***************************************************************************)
EXTENDS Migrations

CONSTANTS
  This,
  Roles,        \* subset of {"api", "worker", "all"}
  MaxRequests   \* bound: HTTP requests in flight

ASSUME ThisAssumption == This \in Processes
ASSUME RoleAssumption == Roles \subseteq {"api", "worker", "all"}
ASSUME RequestsAssumption == MaxRequests \in Nat
ASSUME NoneAssumption == NONE \notin {"nil", "err"}

VARIABLES
  role, pc,
  pool,          \* the connection pool: none, open, closing or closed
  ctxDone,       \* a signal arrived
  runDone,       \* runCtx of the engine is done
  server,        \* off, serving, closing (Shutdown was called) or exited
  requests,      \* handlers at work
  worker,        \* off, starting, running or exited
  stray,         \* goroutines of jobs outlived the engine's drain deadline
  busy,          \* whose statements are under way in the pool
  serverDone, workerDone,
  serverExited, workerExited,   \* locals of runAllComponents
  failed,        \* an error to return was recorded
  result,        \* what run returned
  causes         \* history: what went wrong

procVars == <<role, pc, pool, ctxDone, runDone, server, requests, worker, stray,
          busy, serverDone, workerDone, serverExited, workerExited, failed,
          result, causes>>
runtimeVars == <<procVars, migrationVars>>

uses == <<stray, busy>>
comps == <<server, requests, worker, serverDone, workerDone, uses>>
locals == <<serverExited, workerExited>>

TypeOK ==
  /\ MigrationTypeOK
  /\ role \in Roles
  /\ pc \in {"load", "build", "ping", "migrate", "run", "shutdown", "stopping",
             "awaitServer", "awaitWorker", "close", "closing", "returned"}
  /\ pool \in {"none", "open", "closing", "closed"}
  /\ server \in {"off", "serving", "closing", "exited"}
  /\ worker \in {"off", "starting", "running", "exited"}
  /\ requests \in 0..MaxRequests
  /\ serverDone \in {NONE, "nil", "err"} /\ workerDone \in {NONE, "nil", "err"}
  /\ {ctxDone, runDone, serverExited, workerExited, failed, stray} \subseteq BOOLEAN
  /\ busy \subseteq {"handler", "engine"}
  /\ result \in {NONE, "nil", "err"}
  /\ causes \subseteq {"config", "build", "server", "worker", "shutdown", "drain",
                      "forced"}

Init ==
  /\ MigrationInit
  /\ role \in Roles /\ pc = "load" /\ pool = "none"
  /\ ctxDone = FALSE /\ runDone = FALSE
  /\ server = "off" /\ requests = 0 /\ worker = "off"
  /\ stray = FALSE /\ busy = {}
  /\ serverDone = NONE /\ workerDone = NONE
  /\ serverExited = FALSE /\ workerExited = FALSE
  /\ failed = FALSE /\ result = NONE /\ causes = {}

-----------------------------------------------------------------------------
(* Configuration and storage.                                              *)

\* The flags, the file or the validator end run before anything is opened, or
\* the role's storage is built.
LoadConfig ==
  /\ pc = "load"
  /\ \/ pc' = "build" /\ UNCHANGED <<result, causes>>
     \/ pc' = "returned" /\ result' = "err" /\ causes' = causes \cup {"config"}
  /\ UNCHANGED <<role, pool, ctxDone, runDone, comps, locals, failed,
                 migrationVars>>

\* The storage is there, and the role's components are started.
Started ==
  /\ server' = IF role = "worker" THEN "off" ELSE "serving"
  /\ worker' = IF role = "api" THEN "off" ELSE "starting"
  /\ pc' = "run"
  /\ UNCHANGED <<result, causes>>

BuildFailed ==
  /\ pc' = "returned" /\ result' = "err"
  /\ causes' = causes \cup {"build"}
  /\ UNCHANGED <<server, worker>>

BuildRest == UNCHANGED <<role, ctxDone, runDone, requests, serverDone,
                         workerDone, uses, locals, failed>>

\* There is no pool, or the one NewWithConfig returned next to its error is
\* closed; or there is one, still to be tried.
Connect ==
  /\ \/ pool' \in {"none", "closed"} /\ BuildFailed
     \/ /\ pool' = "open" /\ pc' = "ping"
        /\ UNCHANGED <<server, worker, result, causes>>
  /\ BuildRest /\ UNCHANGED migrationVars

\* The task store of the api role may be in memory.
buildTaskStore ==
  /\ pc = "build" /\ role = "api"
  /\ \/ Connect
     \/ Started /\ BuildRest /\ UNCHANGED <<pool, migrationVars>>

buildJobRepository == pc = "build" /\ role = "worker" /\ Connect

buildStorageBundle == pc = "build" /\ role = "all" /\ Connect

\* Mutant: a database that does not answer leaves the new pool open.
PingLeaky ==
  /\ pc = "ping"
  /\ \/ UNCHANGED <<pool, migrationVars>> /\ BuildFailed
     \/ /\ Begin(This) /\ pc' = "migrate"
        /\ UNCHANGED <<pool, server, worker, result, causes>>
     \/ Started /\ UNCHANGED <<pool, migrationVars>>
  /\ BuildRest

\* The database does not answer; or it does, and the migration starts unless
\* migrate_on_start is off.
Ping ==
  /\ pc = "ping"
  /\ \/ pool' = "closed" /\ BuildFailed /\ UNCHANGED migrationVars
     \/ /\ Begin(This) /\ pc' = "migrate"
        /\ UNCHANGED <<pool, server, worker, result, causes>>
     \/ Started /\ UNCHANGED <<pool, migrationVars>>
  /\ BuildRest

Migrating ==
  /\ pc = "migrate"
  /\ MigrationStep(This)
  /\ UNCHANGED procVars

MigrateReturns ==
  /\ pc = "migrate"
  /\ \/ txs[This].pc = "migrated" /\ Started /\ UNCHANGED pool
     \/ txs[This].pc = "failed" /\ BuildFailed /\ pool' = "closed"
  /\ BuildRest /\ UNCHANGED migrationVars

OthersMigrate ==
  /\ \E p \in Processes \ {This} : MigrationStep(p)
  /\ UNCHANGED procVars

\* The deferred close function.  From here on the stores refuse every call.
BeginClose ==
  /\ pc = "close"
  /\ pool' = IF pool = "open" THEN "closing" ELSE pool
  /\ pc' = "closing"
  /\ UNCHANGED <<role, ctxDone, runDone, comps, locals, failed, result, causes>>

\* pool.Close waits, without a deadline, for the connections in use; then run
\* returns.
CloseReturns ==
  /\ pc = "closing" /\ busy = {}
  /\ pool' = IF pool = "closing" THEN "closed" ELSE pool
  /\ pc' = "returned"
  /\ result' = IF failed THEN "err" ELSE "nil"
  /\ UNCHANGED <<role, ctxDone, runDone, comps, locals, failed, causes>>

-----------------------------------------------------------------------------
(* The components and the environment.                                     *)

\* Start returns: with an error of the listener, or because of Shutdown.
ServerFails ==
  /\ server = "serving"
  /\ server' = "exited" /\ serverDone' = "err"
  /\ causes' = causes \cup {"server"}
  /\ UNCHANGED <<role, pc, pool, ctxDone, runDone, requests, worker, workerDone,
                 uses, locals, failed, result>>

ServerClosed ==
  /\ server = "closing"
  /\ server' = "exited" /\ serverDone' = "nil"
  /\ UNCHANGED <<role, pc, pool, ctxDone, runDone, requests, worker, workerDone,
                 uses, locals, failed, result, causes>>

\* A handler starts while the server listens, and ends.
RequestArrives ==
  /\ server = "serving" /\ requests < MaxRequests
  /\ requests' = requests + 1
  /\ UNCHANGED <<role, pc, pool, ctxDone, runDone, server, worker, serverDone,
                 workerDone, uses, locals, failed, result, causes>>

RequestEnds ==
  /\ requests > 0 /\ ("handler" \in busy => requests > 1)
  /\ requests' = requests - 1
  /\ UNCHANGED <<role, pc, pool, ctxDone, runDone, server, worker, serverDone,
                 workerDone, uses, locals, failed, result, causes>>

\* Engine.Run: refuses its configuration, or runs until its context is done.
WorkerStarts ==
  /\ worker = "starting"
  /\ \/ worker' = "running" /\ UNCHANGED <<workerDone, causes>>
     \/ /\ worker' = "exited" /\ workerDone' = "err"
        /\ causes' = causes \cup {"worker"}
  /\ UNCHANGED <<role, pc, pool, ctxDone, runDone, server, requests, serverDone,
                 uses, locals, failed, result>>

\* Run returns nil in either case: once its goroutines have ended, or after the
\* drain deadline, which it logs, with goroutines still at work.
WorkerStops ==
  /\ worker = "running" /\ (ctxDone \/ runDone)
  /\ worker' = "exited" /\ workerDone' = "nil"
  /\ \/ "engine" \notin busy /\ UNCHANGED <<stray, causes>>
     \/ stray' = TRUE /\ causes' = causes \cup {"forced"}
  /\ UNCHANGED <<role, pc, pool, ctxDone, runDone, server, requests, serverDone,
                 busy, locals, failed, result>>

StrayEnds ==
  /\ stray /\ "engine" \notin busy
  /\ stray' = FALSE
  /\ UNCHANGED <<role, pc, pool, ctxDone, runDone, server, requests, worker,
                 serverDone, workerDone, busy, locals, failed, result, causes>>

\* A handler or a goroutine of the engine has a connection of the open pool.
StatementBegins ==
  /\ pool = "open"
  /\ \/ requests > 0 /\ busy' = busy \cup {"handler"}
     \/ (worker = "running" \/ stray) /\ busy' = busy \cup {"engine"}
  /\ UNCHANGED <<role, pc, pool, ctxDone, runDone, server, requests, worker,
                 serverDone, workerDone, stray, locals, failed, result, causes>>

StatementEnds ==
  /\ \E user \in busy : busy' = busy \ {user}
  /\ UNCHANGED <<role, pc, pool, ctxDone, runDone, server, requests, worker,
                 serverDone, workerDone, stray, locals, failed, result, causes>>

Signal ==
  /\ ~ctxDone /\ pc # "returned"
  /\ ctxDone' = TRUE
  /\ UNCHANGED <<role, pc, pool, runDone, comps, locals, failed, result, causes>>

-----------------------------------------------------------------------------
(* runAPI, runWorker and runAllComponents.                                 *)

\* runWorker: Run is called on this goroutine.
WorkerReturned ==
  /\ pc = "run" /\ role = "worker" /\ workerDone # NONE
  /\ failed' = (workerDone = "err")
  /\ pc' = "close"
  /\ UNCHANGED <<role, pool, ctxDone, runDone, comps, locals, result, causes>>

\* Mutant: every end of a component is unexpected.
AlwaysUnexpected(err) == TRUE

\* The first select.  An end without error that raced with the signal is no
\* failure for runAllComponents, while runAPI takes any end for one.
Unexpected(err) == ~(ctxDone /\ err = "nil")

SelectServer ==
  /\ pc = "run" /\ role # "worker" /\ serverDone # NONE
  /\ serverDone' = NONE /\ serverExited' = TRUE
  /\ IF role = "api"
     THEN failed' = TRUE /\ pc' = "close" /\ UNCHANGED runDone
     ELSE failed' = Unexpected(serverDone) /\ pc' = "awaitWorker" /\ runDone' = TRUE
  /\ UNCHANGED <<role, pool, ctxDone, server, requests, worker, workerDone,
                 uses, workerExited, result, causes>>

SelectWorker ==
  /\ pc = "run" /\ role = "all" /\ workerDone # NONE
  /\ workerDone' = NONE /\ workerExited' = TRUE
  /\ failed' = Unexpected(workerDone)
  /\ pc' = "shutdown" /\ runDone' = TRUE
  /\ UNCHANGED <<role, pool, ctxDone, server, requests, worker, serverDone,
                 uses, serverExited, result, causes>>

SelectSignal ==
  /\ pc = "run" /\ role # "worker" /\ ctxDone
  /\ pc' = "shutdown" /\ runDone' = (role = "all")
  /\ UNCHANGED <<role, pool, ctxDone, comps, locals, failed, result, causes>>

\* Where the function goes on once the server is dealt with.
AfterServer ==
  IF role = "all" /\ ~workerExited THEN "awaitWorker" ELSE "close"

\* srv.Shutdown closes the listeners, waits for the handlers and gives up at
\* its deadline.
BeginShutdown ==
  /\ pc = "shutdown"
  /\ server' = IF server = "serving" THEN "closing" ELSE server
  /\ pc' = "stopping"
  /\ UNCHANGED <<role, pool, ctxDone, runDone, requests, worker, serverDone,
                 workerDone, uses, locals, failed, result, causes>>

\* Mutant: Shutdown does not wait for the handlers.
ShutdownAtOnce ==
  /\ pc = "stopping"
  /\ pc' = "awaitServer"
  /\ UNCHANGED <<role, pool, ctxDone, runDone, comps, locals, failed, result,
                 causes>>

ShutdownReturns ==
  /\ pc = "stopping" /\ requests = 0
  /\ pc' = "awaitServer"
  /\ UNCHANGED <<role, pool, ctxDone, runDone, comps, locals, failed, result,
                 causes>>

\* Mutant: the deadline still waits for the handlers.
ShutdownWaits ==
  /\ pc = "stopping" /\ requests = 0
  /\ failed' = TRUE /\ causes' = causes \cup {"shutdown"}
  /\ pc' = "awaitServer"
  /\ UNCHANGED <<role, pool, ctxDone, runDone, comps, locals, result>>

ShutdownTimesOut ==
  /\ pc = "stopping"
  /\ failed' = TRUE /\ causes' = causes \cup {"shutdown"}
  /\ pc' = "awaitServer"
  /\ UNCHANGED <<role, pool, ctxDone, runDone, comps, locals, result>>

AwaitServer ==
  /\ pc = "awaitServer" /\ serverDone # NONE
  /\ serverDone' = NONE
  /\ failed' = (failed \/ serverDone = "err")
  /\ pc' = AfterServer
  /\ UNCHANGED <<role, pool, ctxDone, runDone, server, requests, worker,
                 workerDone, uses, locals, result, causes>>

\* shutdownCtx ends before Start has returned.
AwaitServerTimesOut ==
  /\ pc = "awaitServer"
  /\ failed' = TRUE /\ causes' = causes \cup {"shutdown"}
  /\ pc' = AfterServer
  /\ UNCHANGED <<role, pool, ctxDone, runDone, comps, locals, result>>

AwaitWorker ==
  /\ pc = "awaitWorker" /\ workerDone # NONE
  /\ workerDone' = NONE
  /\ failed' = (failed \/ workerDone = "err")
  /\ pc' = "close"
  /\ UNCHANGED <<role, pool, ctxDone, runDone, server, requests, worker,
                 serverDone, uses, locals, result, causes>>

\* The engine has not returned drain_timeout + 5 s after the server was down.
DrainTimesOut ==
  /\ pc = "awaitWorker"
  /\ failed' = TRUE /\ causes' = causes \cup {"drain"}
  /\ pc' = "close"
  /\ UNCHANGED <<role, pool, ctxDone, runDone, comps, locals, result>>

-----------------------------------------------------------------------------

Build ==
  \/ LoadConfig
  \/ buildTaskStore
  \/ buildJobRepository
  \/ buildStorageBundle
  \/ Ping
  \/ Migrating
  \/ MigrateReturns

Main ==
  \/ WorkerReturned
  \/ SelectServer
  \/ SelectWorker
  \/ SelectSignal
  \/ BeginShutdown
  \/ ShutdownReturns
  \/ ShutdownTimesOut
  \/ AwaitServer
  \/ AwaitServerTimesOut
  \/ AwaitWorker
  \/ DrainTimesOut
  \/ BeginClose
  \/ CloseReturns

Components ==
  \/ ServerFails
  \/ ServerClosed
  \/ RequestArrives
  \/ RequestEnds
  \/ WorkerStarts
  \/ WorkerStops
  \/ StrayEnds
  \/ StatementBegins
  \/ StatementEnds

Next ==
  \/ Build
  \/ OthersMigrate
  \/ (Main \/ Components \/ Signal) /\ UNCHANGED migrationVars

Spec == Init /\ [][Next]_runtimeVars

\* The main goroutine and the engine run on.  The waits of the former are
\* bounded by timers (those for the database at the start by the connect
\* timeout) with one exception: pool.Close waits for statements under way, of
\* which it is ASSUMED that they end.  The engine returns once its context is
\* done (ShutdownCompletes of WorkerEngine).
FairSpec ==
  /\ Spec
  /\ WF_runtimeVars(Build)
  /\ WF_runtimeVars(Main /\ UNCHANGED migrationVars)
  /\ WF_runtimeVars(WorkerStarts /\ UNCHANGED migrationVars)
  /\ WF_runtimeVars(WorkerStops /\ UNCHANGED migrationVars)
  /\ WF_runtimeVars(StatementEnds /\ UNCHANGED migrationVars)

-----------------------------------------------------------------------------
(* Properties.                                                             *)

\* No way out of run leaves the connection pool open: neither a database that
\* does not answer the Ping, nor a failed migration, nor any end of the
\* components.
NoLeakedPool ==
  /\ TypeOK
  /\ pc = "returned" => pool \in {"none", "closed"}

\* The storage is taken from under a handler or a running engine only after a
\* failure or a missed deadline that run reports, and pool.Close finds a
\* statement to wait for only then or after the engine's drain deadline.
ClosedUnderUseHasCause ==
  pool \in {"closing", "closed"} =>
    /\ requests > 0 \/ worker = "running" => causes \ {"forced"} # {}
    /\ busy # {} \/ stray => causes # {}

\* run succeeds exactly when nothing went wrong, with one exception: each
\* failure and each deadline that main sets surfaces in the result, and a
\* signal that races with the ends of the components in the selects is no
\* failure; but Engine.Run only logs that its own drain deadline cut jobs off
\* and returns nil, and run succeeds.
ResultMatchesCauses ==
  pc = "returned" => (result = "nil" <=> causes \subseteq {"forced"})

\* Every start comes to an end, whatever the database or the migration of
\* another process do, and a signal, or the end of a component, brings the
\* process down.
ProcessEnds ==
  /\ pc = "load" ~> pc \in {"run", "returned"}
  /\ (pc = "run" /\ (ctxDone \/ serverDone # NONE \/ workerDone # NONE))
       ~> pc = "returned"
=============================================================================
