------------------------- MODULE ProxyRuntimeProofs -------------------------
(***************************************************************************)
(* Proofs about migrations that start together, for any number of          *)
(* processes and any programs, and about the process in each of its roles, *)
(* for any number of requests in flight.                                   *)
(***************************************************************************)
EXTENDS ProxyRuntime, SequenceTheorems, TLAPS

-----------------------------------------------------------------------------
(* Migrations: the inductive invariant.                                    *)

Transaction ==
  [pc : {"idle", "lock", "read", "check", "apply", "migrated", "failed"},
   applied : Seq(Migration), version : Nat \ {0},
   writes : Seq([version : Nat, migration : Migration])]

InTransaction == {"read", "check", "apply"}

\* How far the loop of p has come beyond what was recorded before it.
Progress(p) ==
  IF txs[p].version > Len(records) THEN txs[p].version - 1 - Len(records) ELSE 0

\* The transaction of p: nobody else can have changed what it has read, the
\* versions it has passed are those of its program, and what it has written
\* are the versions after the recorded ones.
TxOK(p) ==
  /\ txs[p].pc \in InTransaction => lock = p
  /\ txs[p].pc \in {"check", "apply"} => txs[p].applied = records
  /\ txs[p].pc # "apply" => txs[p].version = 1 /\ txs[p].writes = <<>>
  /\ txs[p].pc = "apply" =>
       /\ txs[p].version <= Len(binary[p]) + 1
       /\ Len(records) <= Len(binary[p])
       /\ \A v \in 1..Len(records) : records[v].name = binary[p][v].name
       /\ \A v \in 1..Len(records) :
            v < txs[p].version => records[v] = binary[p][v]
       /\ txs[p].writes =
            [i \in 1..Progress(p) |->
               [version |-> Len(records) + i,
                migration |-> binary[p][Len(records) + i]]]

MigrationInv ==
  /\ binary \in [Processes -> Binaries]
  /\ records \in Seq(Migration)
  /\ schema = records
  /\ lock \in Processes \cup {NONE}
  /\ txs \in [Processes -> Transaction]
  /\ \A p \in Processes : TxOK(p)

-----------------------------------------------------------------------------
(* The process: the inductive invariant.                                   *)

\* Before the components are started there is nothing to go wrong with them.
NotStarted ==
  /\ server = "off" /\ worker = "off" /\ requests = 0
  /\ stray = FALSE /\ busy = {}
  /\ serverDone = NONE /\ workerDone = NONE
  /\ runDone = FALSE /\ failed = FALSE

\* An error that is recorded or waits in a channel.
Pending == failed \/ serverDone = "err" \/ workerDone = "err"

\* The components by the role.
RolesOK ==
  /\ role = "worker" => server = "off"
  /\ role = "api" => worker = "off"
  /\ server = "off" => serverDone = NONE /\ requests = 0
  /\ worker = "off" => workerDone = NONE

\* Before run's select, and what may be in the channels by then.
StartOK ==
  /\ pc \in {"load", "build"} => NotStarted /\ pool = "none"
  /\ pc \in {"ping", "migrate"} => NotStarted /\ pool = "open"
  /\ pc \in {"load", "build", "ping", "migrate"} => causes = {}
  /\ pc = "run" =>
       /\ runDone = FALSE /\ failed = FALSE
       /\ server # "closing"
       /\ server = "off" => role = "worker"
       /\ worker = "off" => role = "api"
       /\ serverDone # "nil"
       /\ server = "serving" => serverDone = NONE

\* The server and the channel of its error.
ServerOK ==
  /\ server \in {"serving", "closing"} => serverDone = NONE
  /\ pc \in {"shutdown", "stopping", "awaitServer", "awaitWorker"} =>
       role # "worker" /\ server # "off"
  /\ pc \in {"stopping", "awaitServer", "awaitWorker", "close", "closing"} =>
       server # "serving"
  /\ pc \in {"awaitServer", "awaitWorker", "close", "closing"} /\ causes \subseteq {"forced"} =>
       requests = 0
  /\ pc \in {"awaitWorker", "close", "closing"} /\ ~failed =>
       serverDone = NONE /\ server # "closing"

\* The engine and the channel of its result.
WorkerOK ==
  /\ worker \in {"starting", "running"} => workerDone = NONE
  /\ workerDone = "nil" => ctxDone \/ runDone
  /\ workerExited => worker = "exited" /\ workerDone = NONE
  /\ pc \in {"shutdown", "stopping", "awaitServer", "awaitWorker"} =>
       (role = "all" <=> worker # "off")
  /\ pc = "awaitWorker" => role = "all"
  /\ pc \in {"close", "closing"} /\ ~failed =>
       workerDone # "err" /\ worker \notin {"starting", "running"}

\* What went wrong is recorded, or will be found in a channel, except for the
\* engine's drain deadline; and when the pool closes.
CausesOK ==
  /\ pc # "returned" => (~(causes \subseteq {"forced"}) <=> Pending)
  /\ pc # "returned" => result = NONE /\ pool # "closed"
  /\ pool = "closing" => pc = "closing"
  /\ pc = "closing" => pool # "open"
  /\ pc = "returned" =>
       /\ pool \in {"none", "closed"}
       /\ result = "nil" <=> causes \subseteq {"forced"}
       /\ causes \subseteq {"forced"} =>
            /\ requests = 0
            /\ server \notin {"serving", "closing"}
            /\ worker \notin {"starting", "running"}

\* Who has a statement under way, and who was left behind by the engine.
UsesOK ==
  /\ "handler" \in busy => requests > 0
  /\ "engine" \in busy => worker = "running" \/ stray
  /\ stray => "forced" \in causes

RuntimeInv ==
  /\ TypeOK /\ RolesOK /\ StartOK /\ ServerOK /\ WorkerOK /\ CausesOK /\ UsesOK

-----------------------------------------------------------------------------
(* The process: each step keeps the invariant.  NONE is no error.          *)

\* The parts of the invariant, expanded together.
Parts == RolesOK /\ StartOK /\ ServerOK /\ WorkerOK /\ CausesOK /\ UsesOK

ProcTypeOK ==
  /\ role \in Roles
  /\ pc \in {"load", "build", "ping", "migrate", "run", "shutdown", "stopping",
             "awaitServer", "awaitWorker", "close", "closing", "returned"}
  /\ pool \in {"none", "open", "closing", "closed"}
  /\ server \in {"off", "serving", "closing", "exited"}
  /\ worker \in {"off", "starting", "running", "exited"}
  /\ requests \in 0..MaxRequests
  /\ serverDone \in {NONE, "nil", "err"} /\ workerDone \in {NONE, "nil", "err"}
  /\ ctxDone \in BOOLEAN /\ runDone \in BOOLEAN /\ serverExited \in BOOLEAN
  /\ workerExited \in BOOLEAN /\ failed \in BOOLEAN /\ stray \in BOOLEAN
  /\ busy \subseteq {"handler", "engine"}
  /\ result \in {NONE, "nil", "err"}
  /\ causes \subseteq {"config", "build", "server", "worker", "shutdown", "drain",
                      "forced"}

\* A step of the main goroutine, of a component or of the environment keeps
\* the invariant of the process.
LEMMA MainStep ==
  ASSUME ProcTypeOK, Parts, Main
  PROVE  ProcTypeOK' /\ Parts'
<1> DEFINE Kept == ProcTypeOK' /\ Parts'
<1> SUFFICES Kept
  OBVIOUS
<1> USE NoneAssumption, RequestsAssumption, RoleAssumption
    DEF ProcTypeOK, Parts, RolesOK, StartOK, ServerOK, WorkerOK, CausesOK, UsesOK,
        NotStarted, Pending, comps, uses, locals
<1>1. ASSUME WorkerReturned PROVE Kept
  <2>1. ProcTypeOK'
    BY <1>1 DEF WorkerReturned
  <2>2. RolesOK' /\ StartOK'
    BY <1>1 DEF WorkerReturned
  <2>3. ServerOK'
    BY <1>1 DEF WorkerReturned
  <2>4. WorkerOK'
    BY <1>1 DEF WorkerReturned
  <2>5. CausesOK'
    BY <1>1 DEF WorkerReturned
  <2>6. UsesOK'
    BY <1>1 DEF WorkerReturned
  <2> QED
    BY <2>1, <2>2, <2>3, <2>4, <2>5, <2>6
<1>2. ASSUME SelectServer PROVE Kept
  <2>1. ProcTypeOK'
    BY <1>2 DEF SelectServer, Unexpected
  <2>2. RolesOK' /\ StartOK'
    BY <1>2 DEF SelectServer, Unexpected
  <2>3. ServerOK'
    BY <1>2 DEF SelectServer, Unexpected
  <2>4. WorkerOK'
    BY <1>2 DEF SelectServer, Unexpected
  <2>5. CausesOK'
    BY <1>2 DEF SelectServer, Unexpected
  <2>6. UsesOK'
    BY <1>2 DEF SelectServer, Unexpected
  <2> QED
    BY <2>1, <2>2, <2>3, <2>4, <2>5, <2>6
<1>3. ASSUME SelectWorker PROVE Kept
  <2>1. ProcTypeOK'
    BY <1>3 DEF SelectWorker, Unexpected
  <2>2. RolesOK' /\ StartOK'
    BY <1>3 DEF SelectWorker, Unexpected
  <2>3. ServerOK'
    BY <1>3 DEF SelectWorker, Unexpected
  <2>4. WorkerOK'
    BY <1>3 DEF SelectWorker, Unexpected
  <2>5. CausesOK'
    BY <1>3 DEF SelectWorker, Unexpected
  <2>6. UsesOK'
    BY <1>3 DEF SelectWorker, Unexpected
  <2> QED
    BY <2>1, <2>2, <2>3, <2>4, <2>5, <2>6
<1>4. ASSUME SelectSignal PROVE Kept
  <2>1. ProcTypeOK'
    BY <1>4 DEF SelectSignal
  <2>2. RolesOK' /\ StartOK'
    BY <1>4 DEF SelectSignal
  <2>3. ServerOK'
    BY <1>4 DEF SelectSignal
  <2>4. WorkerOK'
    BY <1>4 DEF SelectSignal
  <2>5. CausesOK'
    BY <1>4 DEF SelectSignal
  <2>6. UsesOK'
    BY <1>4 DEF SelectSignal
  <2> QED
    BY <2>1, <2>2, <2>3, <2>4, <2>5, <2>6
<1>5. ASSUME BeginShutdown PROVE Kept
  <2>1. ProcTypeOK'
    BY <1>5 DEF BeginShutdown
  <2>2. RolesOK' /\ StartOK'
    BY <1>5 DEF BeginShutdown
  <2>3. ServerOK'
    BY <1>5 DEF BeginShutdown
  <2>4. WorkerOK'
    BY <1>5 DEF BeginShutdown
  <2>5. CausesOK'
    BY <1>5 DEF BeginShutdown
  <2>6. UsesOK'
    BY <1>5 DEF BeginShutdown
  <2> QED
    BY <2>1, <2>2, <2>3, <2>4, <2>5, <2>6
<1>6. ASSUME ShutdownReturns PROVE Kept
  <2>1. ProcTypeOK'
    BY <1>6 DEF ShutdownReturns
  <2>2. RolesOK' /\ StartOK'
    BY <1>6 DEF ShutdownReturns
  <2>3. ServerOK'
    BY <1>6 DEF ShutdownReturns
  <2>4. WorkerOK'
    BY <1>6 DEF ShutdownReturns
  <2>5. CausesOK'
    BY <1>6 DEF ShutdownReturns
  <2>6. UsesOK'
    BY <1>6 DEF ShutdownReturns
  <2> QED
    BY <2>1, <2>2, <2>3, <2>4, <2>5, <2>6
<1>7. ASSUME ShutdownTimesOut PROVE Kept
  <2>1. ProcTypeOK'
    BY <1>7 DEF ShutdownTimesOut
  <2>2. RolesOK' /\ StartOK'
    BY <1>7 DEF ShutdownTimesOut
  <2>3. ServerOK'
    BY <1>7 DEF ShutdownTimesOut
  <2>4. WorkerOK'
    BY <1>7 DEF ShutdownTimesOut
  <2>5. CausesOK'
    BY <1>7 DEF ShutdownTimesOut
  <2>6. UsesOK'
    BY <1>7 DEF ShutdownTimesOut
  <2> QED
    BY <2>1, <2>2, <2>3, <2>4, <2>5, <2>6
<1>8. ASSUME AwaitServer PROVE Kept
  <2>1. ProcTypeOK'
    BY <1>8 DEF AwaitServer, AfterServer
  <2>2. RolesOK' /\ StartOK'
    BY <1>8 DEF AwaitServer, AfterServer
  <2>3. ServerOK'
    BY <1>8 DEF AwaitServer, AfterServer
  <2>4. WorkerOK'
    BY <1>8 DEF AwaitServer, AfterServer
  <2>5. CausesOK'
    BY <1>8 DEF AwaitServer, AfterServer
  <2>6. UsesOK'
    BY <1>8 DEF AwaitServer, AfterServer
  <2> QED
    BY <2>1, <2>2, <2>3, <2>4, <2>5, <2>6
<1>9. ASSUME AwaitServerTimesOut PROVE Kept
  <2>1. ProcTypeOK'
    BY <1>9 DEF AwaitServerTimesOut, AfterServer
  <2>2. RolesOK' /\ StartOK'
    BY <1>9 DEF AwaitServerTimesOut, AfterServer
  <2>3. ServerOK'
    BY <1>9 DEF AwaitServerTimesOut, AfterServer
  <2>4. WorkerOK'
    BY <1>9 DEF AwaitServerTimesOut, AfterServer
  <2>5. CausesOK'
    BY <1>9 DEF AwaitServerTimesOut, AfterServer
  <2>6. UsesOK'
    BY <1>9 DEF AwaitServerTimesOut, AfterServer
  <2> QED
    BY <2>1, <2>2, <2>3, <2>4, <2>5, <2>6
<1>10. ASSUME AwaitWorker PROVE Kept
  <2>1. ProcTypeOK'
    BY <1>10 DEF AwaitWorker
  <2>2. RolesOK' /\ StartOK'
    BY <1>10 DEF AwaitWorker
  <2>3. ServerOK'
    BY <1>10 DEF AwaitWorker
  <2>4. WorkerOK'
    BY <1>10 DEF AwaitWorker
  <2>5. CausesOK'
    BY <1>10 DEF AwaitWorker
  <2>6. UsesOK'
    BY <1>10 DEF AwaitWorker
  <2> QED
    BY <2>1, <2>2, <2>3, <2>4, <2>5, <2>6
<1>11. ASSUME DrainTimesOut PROVE Kept
  <2>1. ProcTypeOK'
    BY <1>11 DEF DrainTimesOut
  <2>2. RolesOK' /\ StartOK'
    BY <1>11 DEF DrainTimesOut
  <2>3. ServerOK'
    BY <1>11 DEF DrainTimesOut
  <2>4. WorkerOK'
    BY <1>11 DEF DrainTimesOut
  <2>5. CausesOK'
    BY <1>11 DEF DrainTimesOut
  <2>6. UsesOK'
    BY <1>11 DEF DrainTimesOut
  <2> QED
    BY <2>1, <2>2, <2>3, <2>4, <2>5, <2>6
<1>12. ASSUME BeginClose PROVE Kept
  <2>1. ProcTypeOK'
    BY <1>12 DEF BeginClose
  <2>2. RolesOK' /\ StartOK'
    BY <1>12 DEF BeginClose
  <2>3. ServerOK'
    BY <1>12 DEF BeginClose
  <2>4. WorkerOK'
    BY <1>12 DEF BeginClose
  <2>5. CausesOK'
    BY <1>12 DEF BeginClose
  <2>6. UsesOK'
    BY <1>12 DEF BeginClose
  <2> QED
    BY <2>1, <2>2, <2>3, <2>4, <2>5, <2>6
<1>13. ASSUME CloseReturns PROVE Kept
  <2>1. ProcTypeOK'
    BY <1>13 DEF CloseReturns
  <2>2. RolesOK' /\ StartOK'
    BY <1>13 DEF CloseReturns
  <2>3. ServerOK'
    BY <1>13 DEF CloseReturns
  <2>4. WorkerOK'
    BY <1>13 DEF CloseReturns
  <2>5. CausesOK'
    BY <1>13 DEF CloseReturns
  <2>6. UsesOK'
    BY <1>13 DEF CloseReturns
  <2> QED
    BY <2>1, <2>2, <2>3, <2>4, <2>5, <2>6
<1> HIDE DEF Kept
<1> QED
  BY <1>1, <1>2, <1>3, <1>4, <1>5, <1>6, <1>7, <1>8, <1>9, <1>10, <1>11, <1>12, <1>13 DEF Main

\* The HTTP server, the worker engine, their statements and a signal keep the
\* parts consistent.
LEMMA ComponentStep ==
  ASSUME ProcTypeOK, Parts, Components \/ Signal
  PROVE  ProcTypeOK' /\ Parts'
<1> DEFINE Kept == ProcTypeOK' /\ Parts'
<1> SUFFICES Kept
  OBVIOUS
<1> USE NoneAssumption, RequestsAssumption, RoleAssumption
    DEF ProcTypeOK, Parts, RolesOK, StartOK, ServerOK, WorkerOK, CausesOK, UsesOK,
        NotStarted, Pending, comps, uses, locals
<1>1. ASSUME ServerFails PROVE Kept
  <2>1. ProcTypeOK'
    BY <1>1 DEF ServerFails
  <2>2. RolesOK' /\ StartOK'
    BY <1>1 DEF ServerFails
  <2>3. ServerOK'
    BY <1>1 DEF ServerFails
  <2>4. WorkerOK'
    BY <1>1 DEF ServerFails
  <2>5. CausesOK'
    BY <1>1 DEF ServerFails
  <2>6. UsesOK'
    BY <1>1 DEF ServerFails
  <2> QED
    BY <2>1, <2>2, <2>3, <2>4, <2>5, <2>6
<1>2. ASSUME ServerClosed PROVE Kept
  <2>1. ProcTypeOK'
    BY <1>2 DEF ServerClosed
  <2>2. RolesOK' /\ StartOK'
    BY <1>2 DEF ServerClosed
  <2>3. ServerOK'
    BY <1>2 DEF ServerClosed
  <2>4. WorkerOK'
    BY <1>2 DEF ServerClosed
  <2>5. CausesOK'
    BY <1>2 DEF ServerClosed
  <2>6. UsesOK'
    BY <1>2 DEF ServerClosed
  <2> QED
    BY <2>1, <2>2, <2>3, <2>4, <2>5, <2>6
<1>3. ASSUME RequestArrives PROVE Kept
  <2>1. ProcTypeOK'
    BY <1>3 DEF RequestArrives
  <2>2. RolesOK' /\ StartOK'
    BY <1>3 DEF RequestArrives
  <2>3. ServerOK'
    BY <1>3 DEF RequestArrives
  <2>4. WorkerOK'
    BY <1>3 DEF RequestArrives
  <2>5. CausesOK'
    BY <1>3 DEF RequestArrives
  <2>6. UsesOK'
    BY <1>3 DEF RequestArrives
  <2> QED
    BY <2>1, <2>2, <2>3, <2>4, <2>5, <2>6
<1>4. ASSUME RequestEnds PROVE Kept
  <2>1. ProcTypeOK'
    BY <1>4 DEF RequestEnds
  <2>2. RolesOK' /\ StartOK'
    BY <1>4 DEF RequestEnds
  <2>3. ServerOK'
    BY <1>4 DEF RequestEnds
  <2>4. WorkerOK'
    BY <1>4 DEF RequestEnds
  <2>5. CausesOK'
    BY <1>4 DEF RequestEnds
  <2>6. UsesOK'
    BY <1>4 DEF RequestEnds
  <2> QED
    BY <2>1, <2>2, <2>3, <2>4, <2>5, <2>6
<1>5. ASSUME WorkerStarts PROVE Kept
  <2>1. ProcTypeOK'
    <3>1. causes' \subseteq {"config", "build", "server", "worker", "shutdown", "drain",
                            "forced"}
      BY <1>5 DEF WorkerStarts
    <3>2. worker' \in {"running", "exited"} /\ workerDone' \in {NONE, "nil", "err"}
      BY <1>5 DEF WorkerStarts
    <3>3. UNCHANGED <<role, pc, pool, ctxDone, runDone, server, requests, serverDone,
                    uses, locals, failed, result>>
      BY <1>5 DEF WorkerStarts
    <3> HIDE DEF Parts
    <3> QED
      BY <3>1, <3>2, <3>3
  <2>2. RolesOK' /\ StartOK'
    BY <1>5 DEF WorkerStarts
  <2>3. ServerOK'
    BY <1>5 DEF WorkerStarts
  <2>4. WorkerOK'
    BY <1>5 DEF WorkerStarts
  <2>5. CausesOK'
    BY <1>5 DEF WorkerStarts
  <2>6. UsesOK'
    BY <1>5 DEF WorkerStarts
  <2> QED
    BY <2>1, <2>2, <2>3, <2>4, <2>5, <2>6
<1>6. ASSUME WorkerStops PROVE Kept
  <2>1. ProcTypeOK'
    <3>1. causes' \subseteq {"config", "build", "server", "worker", "shutdown", "drain",
                            "forced"}
      BY <1>6 DEF WorkerStops
    <3>2. worker' = "exited" /\ workerDone' = "nil" /\ stray' \in BOOLEAN
      BY <1>6 DEF WorkerStops
    <3>3. UNCHANGED <<role, pc, pool, ctxDone, runDone, server, requests, serverDone,
                    busy, locals, failed, result>>
      BY <1>6 DEF WorkerStops
    <3> HIDE DEF Parts
    <3> QED
      BY <3>1, <3>2, <3>3
  <2>2. RolesOK' /\ StartOK'
    BY <1>6 DEF WorkerStops
  <2>3. ServerOK'
    BY <1>6 DEF WorkerStops
  <2>4. WorkerOK'
    BY <1>6 DEF WorkerStops
  <2>5. CausesOK'
    BY <1>6 DEF WorkerStops
  <2>6. UsesOK'
    BY <1>6 DEF WorkerStops
  <2> QED
    BY <2>1, <2>2, <2>3, <2>4, <2>5, <2>6
<1>7. ASSUME StrayEnds PROVE Kept
  <2>1. ProcTypeOK'
    <3>1. stray' \in BOOLEAN
      BY <1>7 DEF StrayEnds
    <3>2. UNCHANGED <<role, pc, pool, ctxDone, runDone, server, requests, serverDone,
                    worker, workerDone, busy, locals, failed, result, causes>>
      BY <1>7 DEF StrayEnds
    <3> HIDE DEF Parts
    <3> QED
      BY <3>1, <3>2
  <2>2. RolesOK' /\ StartOK'
    BY <1>7 DEF StrayEnds
  <2>3. ServerOK'
    BY <1>7 DEF StrayEnds
  <2>4. WorkerOK'
    BY <1>7 DEF StrayEnds
  <2>5. CausesOK'
    BY <1>7 DEF StrayEnds
  <2>6. UsesOK'
    BY <1>7 DEF StrayEnds
  <2> QED
    BY <2>1, <2>2, <2>3, <2>4, <2>5, <2>6
<1>8. ASSUME StatementBegins PROVE Kept
  <2>1. ProcTypeOK'
    <3>1. busy' \subseteq {"handler", "engine"}
      BY <1>8 DEF StatementBegins
    <3>2. UNCHANGED <<role, pc, pool, ctxDone, runDone, server, requests, serverDone,
                    worker, workerDone, stray, locals, failed, result, causes>>
      BY <1>8 DEF StatementBegins
    <3> HIDE DEF Parts
    <3> QED
      BY <3>1, <3>2
  <2>2. RolesOK' /\ StartOK'
    BY <1>8 DEF StatementBegins
  <2>3. ServerOK'
    BY <1>8 DEF StatementBegins
  <2>4. WorkerOK'
    BY <1>8 DEF StatementBegins
  <2>5. CausesOK'
    BY <1>8 DEF StatementBegins
  <2>6. UsesOK'
    BY <1>8 DEF StatementBegins
  <2> QED
    BY <2>1, <2>2, <2>3, <2>4, <2>5, <2>6
<1>9. ASSUME StatementEnds PROVE Kept
  <2>1. ProcTypeOK'
    BY <1>9 DEF StatementEnds
  <2>2. RolesOK' /\ StartOK'
    BY <1>9 DEF StatementEnds
  <2>3. ServerOK'
    BY <1>9 DEF StatementEnds
  <2>4. WorkerOK'
    BY <1>9 DEF StatementEnds
  <2>5. CausesOK'
    BY <1>9 DEF StatementEnds
  <2>6. UsesOK'
    BY <1>9 DEF StatementEnds
  <2> QED
    BY <2>1, <2>2, <2>3, <2>4, <2>5, <2>6
<1>10. ASSUME Signal PROVE Kept
  <2>1. ProcTypeOK'
    BY <1>10 DEF Signal
  <2>2. RolesOK' /\ StartOK'
    BY <1>10 DEF Signal
  <2>3. ServerOK'
    BY <1>10 DEF Signal
  <2>4. WorkerOK'
    BY <1>10 DEF Signal
  <2>5. CausesOK'
    BY <1>10 DEF Signal
  <2>6. UsesOK'
    BY <1>10 DEF Signal
  <2> QED
    BY <2>1, <2>2, <2>3, <2>4, <2>5, <2>6
<1> HIDE DEF Kept
<1> QED
  BY <1>1, <1>2, <1>3, <1>4, <1>5, <1>6, <1>7, <1>8, <1>9, <1>10 DEF Components

\* So does every step of the start-up, a failing one included.
LEMMA BuildStep ==
  ASSUME ProcTypeOK, Parts, Build
  PROVE  ProcTypeOK' /\ Parts'
<1> DEFINE Kept == ProcTypeOK' /\ Parts'
<1> SUFFICES Kept
  OBVIOUS
<1> USE NoneAssumption, RequestsAssumption, RoleAssumption
    DEF ProcTypeOK, Parts, RolesOK, StartOK, ServerOK, WorkerOK, CausesOK, UsesOK,
        NotStarted, Pending, comps, uses, locals
<1>1. ASSUME LoadConfig PROVE Kept
  <2>1. ProcTypeOK'
    BY <1>1 DEF LoadConfig
  <2>2. RolesOK' /\ StartOK'
    BY <1>1 DEF LoadConfig
  <2>3. ServerOK'
    BY <1>1 DEF LoadConfig
  <2>4. WorkerOK'
    BY <1>1 DEF LoadConfig
  <2>5. CausesOK'
    BY <1>1 DEF LoadConfig
  <2>6. UsesOK'
    BY <1>1 DEF LoadConfig
  <2> QED
    BY <2>1, <2>2, <2>3, <2>4, <2>5, <2>6
<1>2. ASSUME buildTaskStore PROVE Kept
  <2>1. ProcTypeOK'
    BY <1>2 DEF buildTaskStore, Connect, Started, BuildFailed, BuildRest
  <2>2. RolesOK' /\ StartOK'
    BY <1>2 DEF buildTaskStore, Connect, Started, BuildFailed, BuildRest
  <2>3. ServerOK'
    BY <1>2 DEF buildTaskStore, Connect, Started, BuildFailed, BuildRest
  <2>4. WorkerOK'
    BY <1>2 DEF buildTaskStore, Connect, Started, BuildFailed, BuildRest
  <2>5. CausesOK'
    <3>1. /\ pc = "build" /\ causes = {} /\ result = NONE /\ ~Pending
          /\ UNCHANGED <<failed, serverDone, workerDone>>
      BY <1>2 DEF buildTaskStore, Connect, Started, BuildFailed, BuildRest
    <3>2. CASE pc' \in {"ping", "run"}
      <4>1. causes' = {} /\ result' = NONE /\ pool' \in {"none", "open"}
        BY <1>2, <3>1, <3>2 DEF buildTaskStore, Connect, Started, BuildFailed, BuildRest
      <4> QED
        BY <3>1, <3>2, <4>1
    <3>3. CASE pc' = "returned"
      <4>1. pool' \in {"none", "closed"} /\ result' = "err" /\ "build" \in causes'
        BY <1>2, <3>3 DEF buildTaskStore, Connect, Started, BuildFailed, BuildRest
      <4> QED
        BY <3>1, <3>3, <4>1
    <3> QED
      BY <1>2, <3>2, <3>3 DEF buildTaskStore, Connect, Started, BuildFailed, BuildRest
  <2>6. UsesOK'
    BY <1>2 DEF buildTaskStore, Connect, Started, BuildFailed, BuildRest
  <2> QED
    BY <2>1, <2>2, <2>3, <2>4, <2>5, <2>6
<1>3. ASSUME buildJobRepository PROVE Kept
  <2>1. ProcTypeOK'
    BY <1>3 DEF buildJobRepository, Connect, Started, BuildFailed, BuildRest
  <2>2. RolesOK' /\ StartOK'
    BY <1>3 DEF buildJobRepository, Connect, Started, BuildFailed, BuildRest
  <2>3. ServerOK'
    BY <1>3 DEF buildJobRepository, Connect, Started, BuildFailed, BuildRest
  <2>4. WorkerOK'
    BY <1>3 DEF buildJobRepository, Connect, Started, BuildFailed, BuildRest
  <2>5. CausesOK'
    BY <1>3 DEF buildJobRepository, Connect, Started, BuildFailed, BuildRest
  <2>6. UsesOK'
    BY <1>3 DEF buildJobRepository, Connect, Started, BuildFailed, BuildRest
  <2> QED
    BY <2>1, <2>2, <2>3, <2>4, <2>5, <2>6
<1>4. ASSUME buildStorageBundle PROVE Kept
  <2>1. ProcTypeOK'
    BY <1>4 DEF buildStorageBundle, Connect, Started, BuildFailed, BuildRest
  <2>2. RolesOK' /\ StartOK'
    BY <1>4 DEF buildStorageBundle, Connect, Started, BuildFailed, BuildRest
  <2>3. ServerOK'
    BY <1>4 DEF buildStorageBundle, Connect, Started, BuildFailed, BuildRest
  <2>4. WorkerOK'
    BY <1>4 DEF buildStorageBundle, Connect, Started, BuildFailed, BuildRest
  <2>5. CausesOK'
    BY <1>4 DEF buildStorageBundle, Connect, Started, BuildFailed, BuildRest
  <2>6. UsesOK'
    BY <1>4 DEF buildStorageBundle, Connect, Started, BuildFailed, BuildRest
  <2> QED
    BY <2>1, <2>2, <2>3, <2>4, <2>5, <2>6
<1>5. ASSUME Ping PROVE Kept
  <2>1. ProcTypeOK'
    BY <1>5 DEF Ping, Started, BuildFailed, BuildRest
  <2>2. RolesOK' /\ StartOK'
    BY <1>5 DEF Ping, Started, BuildFailed, BuildRest
  <2>3. ServerOK'
    BY <1>5 DEF Ping, Started, BuildFailed, BuildRest
  <2>4. WorkerOK'
    BY <1>5 DEF Ping, Started, BuildFailed, BuildRest
  <2>5. CausesOK'
    BY <1>5 DEF Ping, Started, BuildFailed, BuildRest
  <2>6. UsesOK'
    BY <1>5 DEF Ping, Started, BuildFailed, BuildRest
  <2> QED
    BY <2>1, <2>2, <2>3, <2>4, <2>5, <2>6
<1>6. ASSUME Migrating PROVE Kept
  <2>1. ProcTypeOK'
    BY <1>6 DEF Migrating, procVars
  <2>2. RolesOK' /\ StartOK'
    BY <1>6 DEF Migrating, procVars
  <2>3. ServerOK'
    BY <1>6 DEF Migrating, procVars
  <2>4. WorkerOK'
    BY <1>6 DEF Migrating, procVars
  <2>5. CausesOK'
    BY <1>6 DEF Migrating, procVars
  <2>6. UsesOK'
    BY <1>6 DEF Migrating, procVars
  <2> QED
    BY <2>1, <2>2, <2>3, <2>4, <2>5, <2>6
<1>7. ASSUME MigrateReturns PROVE Kept
  <2>1. ProcTypeOK'
    BY <1>7 DEF MigrateReturns, Started, BuildFailed, BuildRest
  <2>2. RolesOK' /\ StartOK'
    BY <1>7 DEF MigrateReturns, Started, BuildFailed, BuildRest
  <2>3. ServerOK'
    BY <1>7 DEF MigrateReturns, Started, BuildFailed, BuildRest
  <2>4. WorkerOK'
    BY <1>7 DEF MigrateReturns, Started, BuildFailed, BuildRest
  <2>5. CausesOK'
    BY <1>7 DEF MigrateReturns, Started, BuildFailed, BuildRest
  <2>6. UsesOK'
    BY <1>7 DEF MigrateReturns, Started, BuildFailed, BuildRest
  <2> QED
    BY <2>1, <2>2, <2>3, <2>4, <2>5, <2>6
<1> HIDE DEF Kept
<1> QED
  BY <1>1, <1>2, <1>3, <1>4, <1>5, <1>6, <1>7 DEF Build

\* The two ways of stating the types.
LEMMA ProcTypes == TypeOK <=> MigrationTypeOK /\ ProcTypeOK
<1>1. {ctxDone, runDone, serverExited, workerExited, failed, stray} \subseteq BOOLEAN
        <=> /\ ctxDone \in BOOLEAN /\ runDone \in BOOLEAN
            /\ serverExited \in BOOLEAN /\ workerExited \in BOOLEAN
            /\ failed \in BOOLEAN /\ stray \in BOOLEAN
  OBVIOUS
<1> QED
  BY <1>1 DEF TypeOK, ProcTypeOK

-----------------------------------------------------------------------------
(* Migrations: each step keeps the invariant.                              *)

\* What the steps of p do to the transactions: those of the others stay.
LEMMA OthersKept ==
  ASSUME MigrationInv, NEW p \in Processes, NEW q \in Processes, q # p,
         NEW tx, SetTx(p, tx),
         records' = records, binary' = binary,
         lock' = lock \/ (lock = NONE /\ lock' = p) \/ (lock = p /\ lock' = NONE)
  PROVE  TxOK(q)'
<1>1. txs'[q] = txs[q]
  BY DEF SetTx, MigrationInv
<1>2. TxOK(q)
  BY DEF MigrationInv
<1>3. txs[q].pc \in InTransaction => lock = q /\ lock' = q
  BY <1>2, ProcessesAssumption DEF TxOK
<1>4. Progress(q)' = Progress(q)
  BY <1>1 DEF Progress
<1> QED
  BY <1>1, <1>2, <1>3, <1>4 DEF TxOK

\* A step that does not commit keeps the invariant when it leaves the
\* transaction of its own process in order.
LEMMA OwnStep ==
  ASSUME MigrationInv, NEW p \in Processes, NEW tx \in Transaction, SetTx(p, tx),
         UNCHANGED <<binary, records, schema>>,
         lock' = lock \/ (lock = NONE /\ lock' = p) \/ (lock = p /\ lock' = NONE),
         txs'[p] = tx => TxOK(p)'
  PROVE  MigrationInv'
<1>1. \A q \in Processes : q # p => TxOK(q)'
  BY OthersKept
<1>2. txs'[p] = tx /\ txs' \in [Processes -> Transaction]
  BY DEF SetTx, MigrationInv
<1>3. lock' \in Processes \cup {NONE}
  BY DEF MigrationInv
<1> QED
  BY <1>1, <1>2, <1>3 DEF MigrationInv

\* The empty list is a list of migrations and of records.
LEMMA EmptySeqs ==
  <<>> \in Seq(Migration) /\ <<>> \in Seq([version : Nat, migration : Migration])
OBVIOUS

\* A rolled back transaction leaves table and schema as they were.
LEMMA RolledBackStep ==
  ASSUME MigrationInv, NEW p \in Processes, RolledBack(p)
  PROVE  MigrationInv'
<1> DEFINE tx == [Idle EXCEPT !.pc = "failed"]
<1>1. tx \in Transaction /\ tx.pc = "failed" /\ tx.version = 1 /\ tx.writes = <<>>
  <2>1. tx = [pc |-> "failed", applied |-> <<>>, version |-> 1, writes |-> <<>>]
    BY DEF Idle
  <2> HIDE DEF tx
  <2> QED
    BY <2>1, EmptySeqs DEF Transaction
<1>2. txs'[p] = tx => TxOK(p)'
  BY <1>1 DEF TxOK, Transaction, InTransaction
<1>3. lock' = lock \/ (lock = p /\ lock' = NONE)
  BY DEF RolledBack
<1> HIDE DEF tx
<1> QED
  BY <1>1, <1>2, <1>3, OwnStep DEF RolledBack, tx

\* A step before the loop over the migrations.
LEMMA BeforeLoopStep ==
  ASSUME MigrationInv, NEW p \in Processes,
         Begin(p) \/ TakeLock(p) \/ ReadApplied(p)
  PROVE  MigrationInv'
<1>0. TxOK(p) /\ txs[p] \in Transaction /\ records \in Seq(Migration)
  BY DEF MigrationInv
<1>1. CASE Begin(p)
  <2> DEFINE tx == [txs[p] EXCEPT !.pc = "lock"]
  <2>1. tx \in Transaction
    BY <1>0 DEF Transaction
  <2>2. txs'[p] = tx => TxOK(p)'
    BY <1>0, <1>1, <2>1 DEF TxOK, Begin, Transaction, InTransaction
  <2> QED
    BY <1>1, <2>1, <2>2, OwnStep DEF Begin
<1>2. CASE TakeLock(p)
  <2> DEFINE tx == [txs[p] EXCEPT !.pc = "read"]
  <2>1. tx \in Transaction
    BY <1>0 DEF Transaction
  <2>2. txs'[p] = tx => TxOK(p)'
    BY <1>0, <1>2, <2>1 DEF TxOK, TakeLock, Transaction, InTransaction
  <2> QED
    BY <1>2, <2>1, <2>2, OwnStep DEF TakeLock
<1>3. CASE ReadApplied(p)
  <2> DEFINE tx == [txs[p] EXCEPT !.pc = "check", !.applied = records]
  <2>1. tx \in Transaction
    BY <1>0 DEF Transaction
  <2>2. txs'[p] = tx => TxOK(p)'
    BY <1>0, <1>3, <2>1 DEF TxOK, ReadApplied, Transaction, InTransaction
  <2> QED
    BY <1>3, <2>1, <2>2, OwnStep DEF ReadApplied
<1> QED
  BY <1>1, <1>2, <1>3

\* The comparison with the program's migrations changes neither.
LEMMA CheckKnownStep ==
  ASSUME MigrationInv, NEW p \in Processes, CheckKnown(p)
  PROVE  MigrationInv'
<1>0. /\ TxOK(p) /\ txs[p] \in Transaction /\ records \in Seq(Migration)
      /\ binary[p] \in Seq(Migration)
  BY BinariesAssumption DEF MigrationInv, LoadMigrations
<1>1. CASE RolledBack(p)
  BY <1>1, RolledBackStep
<1>2. CASE ~RolledBack(p)
  <2> DEFINE tx == [txs[p] EXCEPT !.pc = "apply"]
  <2>1. Known(p) /\ SetTx(p, tx) /\ UNCHANGED <<binary, records, schema, lock>>
    BY <1>2 DEF CheckKnown
  <2>2. tx \in Transaction
    BY <1>0 DEF Transaction
  <2>3. /\ Len(records) <= Len(binary[p])
        /\ \A v \in 1..Len(records) : records[v].name = binary[p][v].name
    <3>1. txs[p].applied = records
      BY <1>0 DEF CheckKnown, TxOK
    <3>2. \A v \in 1..Len(records) :
            v \in 1..Len(binary[p]) /\ records[v].name = binary[p][v].name
      BY <2>1, <3>1, <1>0 DEF Known
    <3>3. Len(records) \in Nat /\ Len(binary[p]) \in Nat
      BY <1>0
    <3>4. Len(records) > 0 => Len(records) \in 1..Len(records)
      BY <3>3
    <3> QED
      BY <3>2, <3>3, <3>4
  <2>4. txs[p].version = 1 /\ txs[p].writes = <<>> /\ txs[p].applied = records
        /\ lock = p
    BY <1>0 DEF CheckKnown, TxOK, InTransaction
  <2>5. txs'[p] = tx => TxOK(p)'
    <3> HAVE txs'[p] = tx
    <3>1. txs'[p].pc = "apply" /\ txs'[p].version = 1 /\ txs'[p].writes = <<>>
          /\ txs'[p].applied = records
      BY <1>0, <2>4 DEF Transaction
    <3>2. Progress(p)' = 0
      BY <3>1, <2>1, <1>0 DEF Progress
    <3>3. <<>> = [i \in 1..0 |->
                   [version |-> Len(records) + i,
                    migration |-> binary[p][Len(records) + i]]]
      OBVIOUS
    <3>4. \A v \in 1..Len(records) : ~(v < 1)
      BY <1>0
    <3>5. 1 <= Len(binary[p]) + 1
      BY <1>0
    <3> QED
      BY <3>1, <3>2, <3>3, <3>4, <3>5, <2>1, <2>2, <2>3, <2>4
      DEF TxOK, InTransaction, Transaction
  <2> HIDE DEF tx
  <2> QED
    BY <2>1, <2>2, <2>5, OwnStep
<1> QED
  BY <1>1, <1>2

\* An iteration of the loop.
LEMMA ApplyNextStep ==
  ASSUME MigrationInv, NEW p \in Processes, ApplyNext(p)
  PROVE  MigrationInv'
<1>0. /\ TxOK(p) /\ txs[p] \in Transaction /\ records \in Seq(Migration)
      /\ binary[p] \in Seq(Migration)
  BY BinariesAssumption DEF MigrationInv, LoadMigrations
<1> DEFINE n == txs[p].version
           m == binary[p][n]
           Next1(w) == [txs[p] EXCEPT !.version = @ + 1, !.writes = w]
           W(k) == [i \in 1..k |-> [version |-> Len(records) + i,
                                    migration |-> binary[p][Len(records) + i]]]
<1>1. /\ n \in Nat \ {0} /\ n <= Len(binary[p]) /\ txs[p].pc = "apply"
      /\ txs[p].applied = records /\ lock = p
      /\ Len(records) \in Nat /\ Len(binary[p]) \in Nat
      /\ Len(records) <= Len(binary[p])
      /\ \A v \in 1..Len(records) : records[v].name = binary[p][v].name
      /\ \A v \in 1..Len(records) : v < n => records[v] = binary[p][v]
      /\ txs[p].writes = W(Progress(p))
      /\ txs[p].writes \in Seq([version : Nat, migration : Migration])
  BY <1>0 DEF ApplyNext, TxOK, Transaction, InTransaction
<1>2. m \in Migration
  BY <1>0, <1>1
<1>3. CASE RolledBack(p)
  BY <1>3, RolledBackStep
<1>4. ASSUME NEW w \in Seq([version : Nat, migration : Migration]),
             SetTx(p, Next1(w)), UNCHANGED <<binary, records, schema, lock>>,
             \A v \in 1..Len(records) : v < n + 1 => records[v] = binary[p][v],
             w = W(IF n + 1 > Len(records) THEN n - Len(records) ELSE 0)
      PROVE  MigrationInv'
  <2>1. Next1(w) \in Transaction
    <3>1. n + 1 \in Nat \ {0}
      BY <1>1
    <3> QED
      BY <1>0, <1>4, <3>1 DEF Transaction
  <2>2. ASSUME txs'[p] = Next1(w) PROVE TxOK(p)'
    <3>1. /\ txs'[p].pc = "apply" /\ txs'[p].version = n + 1
          /\ txs'[p].writes = w /\ txs'[p].applied = records
      BY <1>0, <1>1, <2>2 DEF Transaction
    <3>2. Progress(p)' = IF n + 1 > Len(records) THEN n - Len(records) ELSE 0
      BY <3>1, <1>1, <1>4 DEF Progress
    <3>3. txs'[p].writes = W(Progress(p)')
      BY <3>1, <3>2, <1>4
    <3>4. n + 1 <= Len(binary[p]) + 1
      BY <1>1
    <3> QED
      BY <3>1, <3>3, <3>4, <1>1, <1>4 DEF TxOK, InTransaction
  <2>3. lock' = lock
    BY <1>4
  <2> QED
    BY <2>1, <2>2, <2>3, <1>4, OwnStep
<1>5. CASE n \notin DOMAIN txs[p].applied
  <2>1. n > Len(records)
    BY <1>0, <1>1, <1>5
  <2>2. Progress(p) = n - 1 - Len(records) /\ Progress(p) \in Nat
    BY <1>1, <2>1 DEF Progress
  <2> DEFINE e == [version |-> n, migration |-> m]
             w == Append(txs[p].writes, e)
  <2>3. SetTx(p, Next1(w)) /\ UNCHANGED <<binary, records, schema, lock>>
    BY <1>5 DEF ApplyNext
  <2>4. e \in [version : Nat, migration : Migration]
    BY <1>1, <1>2
  <2>5. w \in Seq([version : Nat, migration : Migration])
    BY <1>1, <2>4
  <2>6. w = W(n - Len(records))
    <3>1. Len(txs[p].writes) = n - 1 - Len(records)
      BY <1>1, <2>2
    <3>2. /\ DOMAIN w = 1..(n - Len(records))
          /\ \A i \in 1..(n - 1 - Len(records)) : w[i] = txs[p].writes[i]
          /\ w[n - Len(records)] = e
      <4>1. txs[p].writes \in Seq([version : Nat, migration : Migration])
        BY <1>1
      <4>2. n \in Nat /\ Len(records) \in Nat /\ n - 1 - Len(records) \in Nat
        BY <1>1, <2>2
      <4>3. Len(txs[p].writes) + 1 = n - Len(records)
        BY <3>1, <4>2
      <4> HIDE DEF e, n
      <4> QED
        BY <2>4, <3>1, <4>1, <4>2, <4>3, AppendProperties
    <3>3. \A i \in 1..(n - 1 - Len(records)) :
            w[i] = [version |-> Len(records) + i,
                    migration |-> binary[p][Len(records) + i]]
      BY <1>1, <2>2, <3>2
    <3>4. Len(records) + (n - Len(records)) = n
      BY <1>1
    <3>5. w[n - Len(records)] =
            [version |-> Len(records) + (n - Len(records)),
             migration |-> binary[p][Len(records) + (n - Len(records))]]
      BY <3>2, <3>4
    <3>6. \A i \in 1..(n - Len(records)) :
            w[i] = [version |-> Len(records) + i,
                    migration |-> binary[p][Len(records) + i]]
      <4>1. \A i \in 1..(n - Len(records)) :
              i \in 1..(n - 1 - Len(records)) \/ i = n - Len(records)
        <5>1. n \in Nat /\ Len(records) \in Nat
          BY <1>1
        <5> HIDE DEF n, w, W
        <5> QED
          BY <5>1
      <4> QED
        BY <3>3, <3>5, <4>1
    <3>7. w = [i \in DOMAIN w |-> w[i]]
      BY <2>5
    <3> HIDE DEF w
    <3> QED
      BY <3>2, <3>6, <3>7
  <2>7. \A v \in 1..Len(records) : v < n + 1 => records[v] = binary[p][v]
    BY <1>1, <2>1
  <2>8. n + 1 > Len(records)
    BY <1>1, <2>1
  <2> HIDE DEF w, W, Next1
  <2> QED
    BY <2>3, <2>5, <2>6, <2>7, <2>8, <1>4
<1>6. CASE n \in DOMAIN txs[p].applied /\ records[n].checksum = m.checksum
  <2>1. n <= Len(records) /\ n \in 1..Len(records)
    BY <1>0, <1>1, <1>6
  <2>2. SetTx(p, Next1(txs[p].writes)) /\ UNCHANGED <<binary, records, schema, lock>>
    BY <1>1, <1>6 DEF ApplyNext
  <2>3. records[n] = binary[p][n]
    <3>1. records[n].name = m.name /\ records[n] \in Migration
      BY <1>0, <1>1, <2>1
    <3> QED
      BY <1>2, <1>6, <3>1 DEF Migration
  <2>4. \A v \in 1..Len(records) : v < n + 1 => records[v] = binary[p][v]
    <3>1. n \in Nat /\ Len(records) \in Nat
      BY <1>1
    <3>2. \A v \in 1..Len(records) : v < n => records[v] = binary[p][v]
      BY <1>1
    <3> HIDE DEF n, m, W, Next1
    <3>3. \A v \in 1..Len(records) : v < n + 1 => v < n \/ v = n
      BY <3>1
    <3> QED
      BY <2>3, <3>2, <3>3
  <2>5. Progress(p) = 0
    BY <1>1, <2>1 DEF Progress
  <2>6. (IF n + 1 > Len(records) THEN n - Len(records) ELSE 0) = 0
    BY <1>1, <2>1
  <2> HIDE DEF W, Next1
  <2> QED
    BY <1>1, <2>2, <2>4, <2>5, <2>6, <1>4
<1>7. RolledBack(p) \/ n \notin DOMAIN txs[p].applied
        \/ (n \in DOMAIN txs[p].applied /\ records[n].checksum = m.checksum)
  BY <1>1 DEF ApplyNext
<1> QED
  BY <1>3, <1>5, <1>6, <1>7

\* What COMMIT makes of the records and of the schema: the program's own.
LEMMA CommitIsOwn ==
  ASSUME MigrationInv, NEW p \in Processes, Commit(p)
  PROVE  records' = binary[p] /\ schema' = binary[p]
<1>0. /\ TxOK(p) /\ txs[p] \in Transaction /\ records \in Seq(Migration)
      /\ binary[p] \in Seq(Migration) /\ schema = records
  BY BinariesAssumption DEF MigrationInv, LoadMigrations
<1> DEFINE L == Len(records)
           B == Len(binary[p])
           w == txs[p].writes
<1>1. /\ txs[p].pc = "apply" /\ txs[p].version > B /\ txs[p].version \in Nat
      /\ txs[p].version <= B + 1
      /\ L \in Nat /\ B \in Nat /\ L <= B
      /\ \A v \in 1..L : v < txs[p].version => records[v] = binary[p][v]
      /\ w = [i \in 1..Progress(p) |->
                [version |-> L + i, migration |-> binary[p][L + i]]]
  BY <1>0 DEF Commit, TxOK, Transaction
<1>2. Progress(p) = B - L
  <2>1. txs[p].version = B + 1
    BY <1>1
  <2>2. L \in Nat /\ B \in Nat /\ L <= B
    BY <1>1
  <2>3. Progress(p) = IF B + 1 > L THEN (B + 1) - 1 - L ELSE 0
    BY <2>1 DEF Progress
  <2> HIDE DEF L, B, w
  <2> QED
    BY <2>2, <2>3
<1>3. \A v \in 1..L : records[v] = binary[p][v]
  BY <1>1
<1>4. DOMAIN w = 1..(B - L)
      /\ \A i \in 1..(B - L) : w[i].version = L + i /\ w[i].migration = binary[p][L + i]
  BY <1>1, <1>2
<1>5. Written(p) = (L + 1)..B
  <2>1. ASSUME NEW v \in Written(p) PROVE v \in (L + 1)..B
    <3>1. PICK i \in 1..(B - L) : v = w[i].version
      BY <1>4 DEF Written
    <3> QED
      BY <1>1, <1>4, <3>1
  <2>2. ASSUME NEW v \in (L + 1)..B PROVE v \in Written(p)
    <3>1. (v - L) \in 1..(B - L) /\ L + (v - L) = v
      BY <1>1
    <3> QED
      BY <1>4, <3>1 DEF Written
  <2> QED
    BY <2>1, <2>2
<1>6. DOMAIN records \cup Written(p) = 1..B
  BY <1>0, <1>1, <1>5
<1>7. records' = [v \in 1..B |-> IF v \in Written(p) THEN binary[p][v] ELSE records[v]]
  BY <1>6 DEF Commit
<1>8. \A v \in 1..B : v \notin Written(p) => records[v] = binary[p][v]
  BY <1>1, <1>3, <1>5
<1>9. records' = [v \in 1..B |-> binary[p][v]]
  BY <1>7, <1>8
<1>10. binary[p] = [v \in 1..B |-> binary[p][v]]
  <2>1. binary[p] \in Seq(Migration)
    BY <1>0
  <2> QED
    BY <2>1
<1>11. schema' = binary[p]
  <2> DEFINE t == [i \in DOMAIN w |-> w[i].migration]
  <2>1. t = [i \in 1..(B - L) |-> binary[p][L + i]]
    BY <1>4
  <2>2. t \in Seq(Migration) /\ Len(t) = B - L
    <3>1. \A i \in 1..(B - L) : binary[p][L + i] \in Migration
      BY <1>0, <1>1
    <3>2. B - L \in Nat
      BY <1>1
    <3> HIDE DEF t, L, B
    <3>3. t \in [1..(B - L) -> Migration]
      BY <2>1, <3>1
    <3> QED
      BY <3>2, <3>3
  <2>3. \A i \in 1..(B - L) : t[i] = binary[p][L + i]
    BY <2>1
  <2>4. schema' = records \o t
    BY <1>0 DEF Commit
  <2> HIDE DEF t
  <2>5. schema' \in Seq(Migration) /\ Len(schema') = B
    BY <1>0, <1>1, <2>2, <2>4
  <2>6. ASSUME NEW v \in 1..B PROVE schema'[v] = binary[p][v]
    <3>1. CASE v <= L
      BY <1>0, <1>1, <1>3, <2>2, <2>4, <3>1
    <3>2. CASE v > L
      <4>1. v - L \in 1..(B - L) /\ L + (v - L) = v
        BY <1>1, <3>2
      <4>2. schema'[v] = t[v - L]
        BY <1>0, <1>1, <2>2, <2>4, <3>2
      <4> QED
        BY <2>3, <4>1, <4>2
    <3> QED
      BY <1>1, <3>1, <3>2
  <2> QED
    BY <1>0, <1>10, <2>5, <2>6
<1> QED
  BY <1>9, <1>10, <1>11

\* A commit writes table and schema together.
LEMMA CommitStep ==
  ASSUME MigrationInv, NEW p \in Processes, Commit(p)
  PROVE  MigrationInv'
<1>1. PICK o \in {"migrated", "failed"} : SetTx(p, [Idle EXCEPT !.pc = o])
  BY DEF Commit
<1> DEFINE tx == [Idle EXCEPT !.pc = o]
<1>2. tx \in Transaction /\ tx.pc = o /\ tx.version = 1 /\ tx.writes = <<>>
  <2>1. tx = [pc |-> o, applied |-> <<>>, version |-> 1, writes |-> <<>>]
    BY DEF Idle
  <2> HIDE DEF tx
  <2> QED
    BY <1>1, <2>1, EmptySeqs DEF Transaction
<1> HIDE DEF tx
<1>3. txs' \in [Processes -> Transaction] /\ txs'[p] = tx
      /\ \A q \in Processes : q # p => txs'[q] = txs[q]
  BY <1>1, <1>2 DEF SetTx, MigrationInv, tx
<1>4. TxOK(p)'
  BY <1>2, <1>3 DEF TxOK, InTransaction
<1>5. lock = p
  BY DEF Commit, MigrationInv, TxOK, InTransaction
<1>6. ASSUME NEW q \in Processes, q # p PROVE TxOK(q)'
  <2>1. TxOK(q) /\ txs'[q] = txs[q]
    BY <1>3, <1>6 DEF MigrationInv
  <2>2. txs[q].pc \notin InTransaction
    BY <1>5, <1>6, <2>1 DEF TxOK
  <2> QED
    BY <2>1, <2>2 DEF TxOK, InTransaction
<1>7. records' = binary[p] /\ schema' = binary[p]
  BY CommitIsOwn
<1>8. binary[p] \in Seq(Migration)
  BY BinariesAssumption DEF MigrationInv, LoadMigrations
<1>9. binary' = binary /\ lock' = NONE
  BY DEF Commit
<1> QED
  BY <1>3, <1>4, <1>6, <1>7, <1>8, <1>9 DEF MigrationInv

\* Every step of a migration keeps the invariant, and so does leaving the
\* migrations alone.
LEMMA MigrationKept ==
  ASSUME MigrationInv,
         (\E p \in Processes : MigrationStep(p)) \/ UNCHANGED migrationVars
  PROVE  MigrationInv'
<1>1. ASSUME NEW p \in Processes, MigrationStep(p) PROVE MigrationInv'
  <2>1. CASE Abort(p)
    BY <2>1, RolledBackStep DEF Abort
  <2> QED
    BY <1>1, <2>1, BeforeLoopStep, CheckKnownStep, ApplyNextStep, CommitStep
    DEF MigrationStep
<1>2. ASSUME UNCHANGED migrationVars PROVE MigrationInv'
  <2>1. \A p \in Processes : TxOK(p)' <=> TxOK(p)
    BY <1>2 DEF TxOK, Progress, migrationVars
  <2> QED
    BY <1>2, <2>1 DEF MigrationInv, migrationVars
<1> QED
  BY <1>1, <1>2

\* An empty database satisfies the invariant.
LEMMA MigrationStart == MigrationInit => MigrationInv
<1> HAVE MigrationInit
<1>1. Idle \in Transaction
  BY EmptySeqs DEF Idle, Transaction
<1>2. \A p \in Processes : txs[p] = Idle
  BY DEF MigrationInit
<1>3. Idle.pc = "idle" /\ Idle.version = 1 /\ Idle.writes = <<>>
  BY DEF Idle
<1>4. ASSUME NEW p \in Processes PROVE TxOK(p)
  <2>1. txs[p].pc = "idle" /\ txs[p].version = 1 /\ txs[p].writes = <<>>
    BY <1>2, <1>3
  <2> QED
    BY <2>1 DEF TxOK, InTransaction
<1> QED
  BY <1>1, <1>4, EmptySeqs DEF MigrationInit, MigrationInv

\* The invariant includes the type invariant.
LEMMA MigrationTypes == MigrationInv => MigrationTypeOK
  BY DEF MigrationInv, MigrationTypeOK, Transaction

-----------------------------------------------------------------------------
(* The theorems.                                                           *)

\* The processes of Next: This and the others.
LEMMA NextMigrates ==
  [Next]_runtimeVars =>
    (\E p \in Processes : MigrationStep(p)) \/ UNCHANGED migrationVars
<1> HAVE [Next]_runtimeVars
<1>1. CASE Build
  <2>1. Ping => MigrationStep(This) \/ UNCHANGED migrationVars
    BY DEF Ping, MigrationStep
  <2>2. Connect => UNCHANGED migrationVars
    BY DEF Connect
  <2>3. LoadConfig => UNCHANGED migrationVars
    BY DEF LoadConfig, migrationVars
  <2> QED
    BY <1>1, <2>1, <2>2, <2>3, ThisAssumption
    DEF Build, buildTaskStore, buildJobRepository, buildStorageBundle, Migrating,
        MigrateReturns
<1>2. CASE OthersMigrate
  BY <1>2 DEF OthersMigrate
<1>3. CASE UNCHANGED runtimeVars
  BY <1>3 DEF runtimeVars
<1> QED
  BY <1>1, <1>2, <1>3 DEF Next

\* The inductive invariant of the migrations.
THEOREM MigrationInvariance == Spec => []MigrationInv
<1>1. Init => MigrationInv
  BY MigrationStart DEF Init
<1>2. MigrationInv /\ [Next]_runtimeVars => MigrationInv'
  BY NextMigrates, MigrationKept
<1> QED
  BY <1>1, <1>2, PTL DEF Spec

\* schema_migrations tells what happened to the schema, for any number of
\* processes of any programs that run runMigrations together.
THEOREM RecordsTellTheSchema == Spec => []SchemaAsRecorded
<1>1. MigrationInv => SchemaAsRecorded
  BY DEF MigrationInv, SchemaAsRecorded
<1> QED
  BY <1>1, MigrationInvariance, PTL

\* A process that migrates goes on only when the recorded schema is the
\* one its program embeds.
THEOREM ServesOwnSchema == Spec => StartsOnKnownSchema
<1>1. ASSUME MigrationInv, [Next]_runtimeVars,
             NEW p \in Processes, txs[p].pc # "migrated", txs'[p].pc = "migrated"
      PROVE  records' = binary[p]
  <2>1. PICK q \in Processes : MigrationStep(q)
    <3>1. ~UNCHANGED migrationVars
      BY <1>1 DEF migrationVars
    <3> QED
      BY <1>1, <3>1, NextMigrates
  <2>2. \A tx : SetTx(q, tx) /\ q # p => txs'[p] = txs[p]
    BY <1>1 DEF SetTx, MigrationInv
  <2>3. \A tx : SetTx(q, tx) => tx.pc = "migrated" /\ q = p
    <3>1. \A tx : SetTx(q, tx) => txs'[q] = tx
      BY <1>1 DEF SetTx, MigrationInv
    <3> QED
      BY <1>1, <2>2, <3>1
  <2>4. ~RolledBack(q)
    BY <2>3 DEF RolledBack, Idle
  <2>5. txs[q] \in Transaction
    BY <1>1 DEF MigrationInv
  <2>6. \A w : [txs[q] EXCEPT !.version = @ + 1, !.writes = w].pc = txs[q].pc
    BY <2>5 DEF Transaction
  <2>7. [txs[q] EXCEPT !.pc = "lock"].pc = "lock"
        /\ [txs[q] EXCEPT !.pc = "read"].pc = "read"
        /\ [txs[q] EXCEPT !.pc = "apply"].pc = "apply"
        /\ [txs[q] EXCEPT !.pc = "check", !.applied = records].pc = "check"
    BY <2>5 DEF Transaction
  <2>8. ~Begin(q) /\ ~TakeLock(q) /\ ~ReadApplied(q)
    BY <2>3, <2>7 DEF Begin, TakeLock, ReadApplied
  <2>9. ~CheckKnown(q) /\ ~Abort(q)
    BY <2>3, <2>4, <2>7 DEF CheckKnown, Abort
  <2>10. ~ApplyNext(q)
    BY <2>3, <2>4, <2>6 DEF ApplyNext
  <2>11. Commit(q)
    BY <2>1, <2>8, <2>9, <2>10 DEF MigrationStep
  <2>12. q = p
    BY <2>3, <2>11 DEF Commit
  <2> QED
    BY <1>1, <2>11, <2>12, CommitIsOwn
<1>2. MigrationInv /\ [Next]_runtimeVars =>
        [\A p \in Processes :
           txs[p].pc # "migrated" /\ txs'[p].pc = "migrated" =>
             records' = binary[p]]_migrationVars
  BY <1>1
<1> QED
  BY <1>2, MigrationInvariance, PTL DEF Spec, StartsOnKnownSchema

\* The inductive invariant of the process.
THEOREM RuntimeInvariance == Spec => []RuntimeInv
<1>1. ASSUME Init PROVE ProcTypeOK /\ Parts
  <2>1. ProcTypeOK
    <3>1. requests \in 0..MaxRequests
      BY <1>1, RequestsAssumption DEF Init
    <3> QED
      BY <1>1, <3>1, Zenon DEF Init, ProcTypeOK
  <2>2. RolesOK /\ ServerOK /\ WorkerOK
    BY <1>1, NoneAssumption DEF Init, RolesOK, ServerOK, WorkerOK
  <2>3. StartOK
    BY <1>1, RoleAssumption, NoneAssumption DEF Init, StartOK, NotStarted
  <2>4. CausesOK
    BY <1>1, NoneAssumption DEF Init, CausesOK, Pending
  <2>5. UsesOK
    BY <1>1 DEF Init, UsesOK
  <2> QED
    BY <2>1, <2>2, <2>3, <2>4, <2>5 DEF Parts
<1>2. ASSUME ProcTypeOK, Parts, [Next]_runtimeVars
      PROVE  ProcTypeOK' /\ Parts'
  <2>1. CASE UNCHANGED procVars
    BY <1>2, <2>1
    DEF procVars, ProcTypeOK, Parts, RolesOK, StartOK, ServerOK, WorkerOK,
        CausesOK, UsesOK, NotStarted, Pending
  <2>2. CASE OthersMigrate
    BY <2>1, <2>2 DEF OthersMigrate
  <2>3. CASE UNCHANGED runtimeVars
    BY <2>1, <2>3 DEF runtimeVars
  <2>4. CASE Build
    BY <1>2, <2>4, BuildStep
  <2>5. CASE Main
    BY <1>2, <2>5, MainStep
  <2>6. CASE Components \/ Signal
    BY <1>2, <2>6, ComponentStep
  <2> QED
    BY <1>2, <2>2, <2>3, <2>4, <2>5, <2>6 DEF Next
<1>3. ProcTypeOK /\ Parts /\ MigrationInv => RuntimeInv
  BY ProcTypes, MigrationTypes DEF RuntimeInv, Parts
<1> QED
  BY <1>1, <1>2, <1>3, MigrationInvariance, PTL DEF Spec

\* No way out of run leaves the connection pool open: the failed Ping, the
\* failed migration and every end of the components close it.
THEOREM PoolClosedOnReturn == Spec => []NoLeakedPool
<1>1. RuntimeInv => NoLeakedPool
  BY DEF RuntimeInv, CausesOK, NoLeakedPool
<1> QED
  BY <1>1, RuntimeInvariance, PTL

\* The deferred close takes the storage from a handler or from the engine only
\* after a failure or a missed deadline that run reports, and waits for
\* statements only then or after the engine's drain deadline.
THEOREM ClosedUnderUseOnlyForCause == Spec => []ClosedUnderUseHasCause
<1>1. RuntimeInv => ClosedUnderUseHasCause
  <2> SUFFICES ASSUME RuntimeInv, pool \in {"closing", "closed"}
               PROVE  /\ requests > 0 \/ worker = "running" => causes \ {"forced"} # {}
                      /\ busy # {} \/ stray => causes # {}
    BY DEF ClosedUnderUseHasCause
  <2>1. pc \in {"closing", "returned"}
    BY DEF RuntimeInv, CausesOK
  <2>2. causes \subseteq {"forced"} => requests = 0 /\ worker # "running"
    BY <2>1 DEF RuntimeInv, CausesOK, ServerOK, WorkerOK, Pending
  <2>3. requests > 0 \/ worker = "running" => ~(causes \subseteq {"forced"})
    BY <2>2
  <2>4. ~(causes \subseteq {"forced"}) => causes \ {"forced"} # {}
    OBVIOUS
  <2>5. busy # {} => requests > 0 \/ worker = "running" \/ stray
    BY DEF RuntimeInv, TypeOK, UsesOK
  <2>6. stray => causes # {}
    BY DEF RuntimeInv, UsesOK
  <2> QED
    BY <2>3, <2>4, <2>5, <2>6
<1> QED
  BY <1>1, RuntimeInvariance, PTL

\* run returns an error exactly when something went wrong, the drain deadline
\* that Engine.Run only logs excepted.
THEOREM ResultIsExact == Spec => []ResultMatchesCauses
<1>1. RuntimeInv => ResultMatchesCauses
  BY DEF RuntimeInv, CausesOK, ResultMatchesCauses
<1> QED
  BY <1>1, RuntimeInvariance, PTL
=============================================================================
