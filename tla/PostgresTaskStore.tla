-------------------------- MODULE PostgresTaskStore --------------------------
(***************************************************************************)
(* The PostgreSQL task store (pkg/storage/postgres.go): Save, Load and     *)
(* Close on a connection pool, and the server that runs their statements.  *)
(* The client of a call and the server's side of it are separate: a call   *)
(* whose context ends, or whose connection is lost, fails while the server *)
(* may still commit.  The upsert locks the row of each key in turn, in the *)
(* order of the keys; PostgreSQL breaks a circle of waiting statements by  *)
(* aborting one of them.                                                   *)
(*                                                                         *)
(* A session is one call, made with its own context.  The Gateway module   *)
(* makes the calls.                                                        *)
(***************************************************************************)
EXTENDS Integers, SequencesExt

CONSTANTS
  Sessions, TaskIDs, TaskResponses,
  MaxConns,    \* pool size
  MaxFaults,   \* bound: contexts that end, connections and statements that
               \* fail, and the closing of the store
  NONE         \* no ID, no response

ASSUME MaxConnsAssumption == MaxConns \in Nat \ {0}
ASSUME MaxFaultsAssumption == MaxFaults \in Nat
ASSUME TaskIDsAssumption == IsFiniteSet(TaskIDs)
ASSUME NoneAssumption ==
  NONE \notin TaskIDs /\ NONE \notin TaskResponses /\ NONE \notin {"ok", "err"}

VARIABLES
  rows,      \* committed task_results: response of each lookup ID
  call,      \* the caller's side of each session
  backend,   \* the server's side
  ctxDone,   \* the context of each call
  closed,    \* the store was closed
  log,       \* history: Saves in the order of their commits
  faults     \* history: how many faults there were

storeVars == <<rows, call, backend, ctxDone, closed, log, faults>>

\* place: not called, waiting for a connection, statement sent, or returned.
Places == {"idle", "pool", "sent", "ok", "notfound", "err"}

NotCalled  == [op |-> "none", keys |-> <<>>, resp |-> NONE, place |-> "idle"]
NotRunning == [state |-> "none", next |-> 1, got |-> NONE]

StoreInit ==
  /\ rows = [id \in TaskIDs |-> NONE]
  /\ call = [s \in Sessions |-> NotCalled]
  /\ backend = [s \in Sessions |-> NotRunning]
  /\ ctxDone = [s \in Sessions |-> FALSE]
  /\ closed = FALSE
  /\ log = <<>> /\ faults = 0

Fault == faults < MaxFaults /\ faults' = faults + 1

-----------------------------------------------------------------------------
(* The caller.                                                             *)

\* The canonical ID and the aliases, each once, without empty ones.
Keys(canonical, aliases) ==
  LET keys[n \in 0..Len(aliases)] ==
        IF n = 0 THEN <<canonical>>
        ELSE IF aliases[n] = NONE \/ Contains(keys[n - 1], aliases[n])
             THEN keys[n - 1] ELSE Append(keys[n - 1], aliases[n])
  IN  keys[Len(aliases)]

\* Where a call goes after its checks.
Admitted(s) == IF ctxDone[s] \/ closed THEN "err" ELSE "pool"

\* json.Marshal may refuse the response: an agent's number may be beyond what
\* it can express.
Save(s, canonical, resp, aliases) ==
  /\ call[s].place = "idle"
  /\ \E place \in {Admitted(s), "err"} :
       call' = [call EXCEPT ![s] =
                  [op |-> "save", keys |-> Keys(canonical, aliases),
                   resp |-> resp, place |-> place]]
  /\ UNCHANGED <<rows, backend, ctxDone, closed, log, faults>>

Load(s, id) ==
  /\ call[s].place = "idle"
  /\ call' = [call EXCEPT ![s] =
                [op |-> "load", keys |-> <<id>>, resp |-> NONE,
                 place |-> Admitted(s)]]
  /\ UNCHANGED <<rows, backend, ctxDone, closed, log, faults>>

Fails(s) == call' = [call EXCEPT ![s].place = "err"]

\* The pool hands over a connection and the statement is sent.
Acquire(s) ==
  /\ call[s].place = "pool" /\ ~closed
  /\ Cardinality({t \in Sessions : call[t].place = "sent"}) < MaxConns
  /\ call' = [call EXCEPT ![s].place = "sent"]
  /\ backend' = [backend EXCEPT ![s].state = "run"]
  /\ UNCHANGED <<rows, ctxDone, closed, log, faults>>

\* Mutant: closing the pool does not wake those that wait.
PoolFailsLate(s) ==
  /\ call[s].place = "pool" /\ ctxDone[s]
  /\ Fails(s)
  /\ UNCHANGED <<rows, backend, ctxDone, closed, log, faults>>

\* Close has closed the pool under a waiting call, or its context is done.
PoolFails(s) ==
  /\ call[s].place = "pool" /\ (closed \/ ctxDone[s])
  /\ Fails(s)
  /\ UNCHANGED <<rows, backend, ctxDone, closed, log, faults>>

\* The context of a call is done while its statement runs.
Abandon(s) ==
  /\ call[s].place = "sent" /\ ctxDone[s]
  /\ Fails(s)
  /\ UNCHANGED <<rows, backend, ctxDone, closed, log, faults>>

ConnectionLost(s) ==
  /\ call[s].place = "sent"
  /\ Fails(s) /\ Fault
  /\ UNCHANGED <<rows, backend, ctxDone, closed, log>>

Receive(s) ==
  /\ call[s].place = "sent" /\ backend[s].state \in {"done", "aborted"}
  /\ \/ backend[s].state = "aborted" /\ Fails(s)
     \/ /\ backend[s].state = "done" /\ call[s].op = "save"
        /\ call' = [call EXCEPT ![s].place = "ok"]
     \/ /\ backend[s].state = "done" /\ call[s].op = "load"
        /\ call' = [call EXCEPT ![s].resp = backend[s].got,
                                ![s].place = IF backend[s].got = NONE
                                             THEN "notfound" ELSE "ok"]
  /\ UNCHANGED <<rows, backend, ctxDone, closed, log, faults>>

Close ==
  /\ ~closed
  /\ closed' = TRUE /\ Fault
  /\ UNCHANGED <<rows, call, backend, ctxDone, log>>

-----------------------------------------------------------------------------
(* The server.                                                             *)

Running(s, op) == backend[s].state = "run" /\ call[s].op = op

\* Mutant: the rows come in another order for one of the sessions.
LockOrderVaries(s) ==
  IF s = CHOOSE t \in Sessions : TRUE THEN Reverse(call[s].keys) ELSE call[s].keys

\* The upsert takes its rows as unnest($1) lists them.
LockOrder(s) == call[s].keys

\* Row locks are kept until the statement ends.
Locked(s) ==
  IF backend[s].state = "run"
  THEN {LockOrder(s)[i] : i \in 1..(backend[s].next - 1)} ELSE {}

Wanted(s) == LockOrder(s)[backend[s].next]

\* The sessions that keep s waiting.
Blockers(s) ==
  IF Running(s, "save") /\ backend[s].next <= Len(call[s].keys)
  THEN {t \in Sessions \ {s} : Wanted(s) \in Locked(t)} ELSE {}

\* INSERT ... ON CONFLICT DO UPDATE comes to its next row.
LockRow(s) ==
  /\ Running(s, "save") /\ backend[s].next <= Len(call[s].keys)
  /\ Blockers(s) = {}
  /\ backend' = [backend EXCEPT ![s].next = @ + 1]
  /\ UNCHANGED <<rows, call, ctxDone, closed, log, faults>>

\* Mutant: aliases are not written.
CommitFirst(s) ==
  /\ Running(s, "save") /\ backend[s].next > Len(call[s].keys)
  /\ rows' = [rows EXCEPT ![call[s].keys[1]] = call[s].resp]
  /\ backend' = [backend EXCEPT ![s].state = "done"]
  /\ log' = Append(log, s)
  /\ UNCHANGED <<call, ctxDone, closed, faults>>

Commit(s) ==
  /\ Running(s, "save") /\ backend[s].next > Len(call[s].keys)
  /\ rows' = [id \in TaskIDs |-> IF Contains(call[s].keys, id)
                                 THEN call[s].resp ELSE rows[id]]
  /\ backend' = [backend EXCEPT ![s].state = "done"]
  /\ log' = Append(log, s)
  /\ UNCHANGED <<call, ctxDone, closed, faults>>

\* SELECT sees what is committed and waits for nobody.
Read(s) ==
  /\ Running(s, "load")
  /\ backend' = [backend EXCEPT ![s].state = "done",
                                ![s].got = rows[call[s].keys[1]]]
  /\ UNCHANGED <<rows, call, ctxDone, closed, log, faults>>

\* A circle of statements that wait for each other goes through s.
InDeadlock(s) ==
  \E circle \in SUBSET Sessions :
    /\ s \in circle
    /\ \A t \in circle : Blockers(t) # {}
    /\ UNION {Blockers(t) : t \in circle} = circle

Aborts(s) ==
  /\ backend' = [backend EXCEPT ![s].state = "aborted"]
  /\ UNCHANGED <<rows, call, ctxDone, closed, log>>

DeadlockDetected(s) == InDeadlock(s) /\ Aborts(s) /\ UNCHANGED faults

\* pgx asks the server to cancel a statement that its caller has abandoned.
CancelArrives(s) ==
  /\ backend[s].state = "run" /\ call[s].place = "err"
  /\ Aborts(s) /\ UNCHANGED faults

\* A server error or a restart.
StatementFails(s) == backend[s].state = "run" /\ Aborts(s) /\ Fault

ContextDone(s) ==
  /\ ~ctxDone[s]
  /\ ctxDone' = [ctxDone EXCEPT ![s] = TRUE] /\ Fault
  /\ UNCHANGED <<rows, call, backend, closed, log>>

\* What happens by itself once a call is made.
CallProceeds(s) ==
  \/ Acquire(s) \/ PoolFails(s) \/ Abandon(s) \/ Receive(s)
  \/ LockRow(s) \/ Commit(s) \/ Read(s) \/ DeadlockDetected(s)
  \/ CancelArrives(s)

CallBreaks(s) == ConnectionLost(s) \/ StatementFails(s)
-----------------------------------------------------------------------------
(* Properties.                                                             *)

\* What the contract knows of a call, from its two sides.
TaskCall(c, b) ==
  [op     |-> c.op,
   ids    |-> ToSet(c.keys),
   resp   |-> IF c.op = "save" \/ c.place \in {"ok", "notfound"} THEN c.resp ELSE b.got,
   effect |-> IF b.state = "done" THEN "done" ELSE "due",
   answer |-> IF c.place \in {"ok", "notfound"} THEN "ok"
              ELSE IF c.place = "err" THEN "err" ELSE NONE]

TaskCalls == [s \in Sessions |-> TaskCall(call[s], backend[s])]

TS == INSTANCE TaskStore WITH results <- rows, calls <- TaskCalls

\* The store keeps the contract of TaskStore although a statement locks row by
\* row, statements are aborted to break a circle, callers give up, and answers
\* are lost: a Save is all or nothing over the canonical ID and the aliases, a
\* Load that succeeds has the committed response, and success is only reported
\* after the commit.
ImplementsTaskStore == TS!Spec

\* Statements wait in a circle only if no order of the IDs agrees with the
\* keys of all of them: Saves of one ID each never fail this way, nor do Saves
\* that name their common IDs in the same order.
DeadlockNeedsCrossedKeys ==
  \A circle \in SUBSET Sessions :
    /\ circle # {}
    /\ \A t \in circle : Blockers(t) # {}
    /\ UNION {Blockers(t) : t \in circle} = circle
    => ~ \E rank \in [TaskIDs -> 1..Cardinality(TaskIDs)] :
           /\ IsInjective(rank)
           /\ \A t \in circle : \A i, j \in DOMAIN call[t].keys :
                i < j => rank[call[t].keys[i]] < rank[call[t].keys[j]]
=============================================================================
