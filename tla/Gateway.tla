------------------------------- MODULE Gateway -------------------------------
(***************************************************************************)
(* Requests of the HTTP surface that make or look up task results: POST    *)
(* /a2a/v1/tasks (DispatchTask), POST /api/v1/invoke/{agent_id}            *)
(* (InvokeAgent) and GET /a2a/v1/tasks/{task_id} (GetTask), behind the     *)
(* middleware, over the shared PostgreSQL store.  What comes before the    *)
(* dispatch depends on the request and the configuration only and is one   *)
(* step; Dispatch is what the Dispatcher module makes of it: an answer of  *)
(* an agent that the fallbacks lead to, or an error.                       *)
(*                                                                         *)
(* A request is a session of the store, and its context is the context of  *)
(* the session's call.                                                     *)
(***************************************************************************)
EXTENDS PostgresTaskStore

CONSTANTS
  AgentIDs,         \* configured agents
  Leads,            \* Leads[a]: a and the agents its fallbacks lead to
  Capable,          \* first agent with the one capability that is asked for,
                    \* or NONE
  SecurityEnabled,
  AllowedAgents,    \* AllowedAgents[c]: the allowed_agents of client c's key
  Requests,         \* Requests[r]: what request r may be
  AdapterTaskIDs,   \* task IDs adapters set themselves; NONE is in it
  GeneratedTaskID   \* GeneratedTaskID[r]: generateTaskID() in request r

VARIABLES
  request,   \* the request, once it is here
  stage,     \* "new", "dispatch", "store" or "done"
  status,    \* HTTP status of the reply
  before     \* history, of a GET: the POSTs that were answered 200 before it

gatewayVars == <<storeVars, request, stage, status, before>>

\* agent: agent_id of the body or the path.  query: agent_id of the query.
\* id: the task ID of the body or the path.  body: how reading it ends.
Request ==
  [kind : {"DispatchTask", "InvokeAgent", "GetTask"},
   client : DOMAIN AllowedAgents \cup {NONE},
   agent : AgentIDs \cup {"unknown", NONE}, byCapability : BOOLEAN,
   query : AgentIDs \cup {NONE}, id : TaskIDs \cup {NONE},
   body : {"good", "large", "bad"}]

\* InvokeAgent takes no task ID; the path of a GET has one.
ASSUME RequestsAssumption ==
  /\ Requests \in [Sessions -> SUBSET Request]
  /\ \A r \in Sessions : \A q \in Requests[r] :
       /\ q.kind = "InvokeAgent" => q.id = NONE
       /\ q.kind = "GetTask" => q.id # NONE
ASSUME GeneratedAssumption ==
  /\ AdapterTaskIDs \subseteq TaskIDs \cup {NONE}
  /\ GeneratedTaskID \in [Sessions -> TaskIDs]
ASSUME ResponsesAssumption == [by : Sessions, agent : AgentIDs] \subseteq TaskResponses
ASSUME NotStatusAssumption == NONE # 200 /\ NONE # 404 /\ NONE \notin Request
ASSUME LeadsAssumption ==
  Leads \in [AgentIDs -> SUBSET AgentIDs] /\ \A a \in AgentIDs : a \in Leads[a]

GatewayInit ==
  /\ StoreInit
  /\ request = [r \in Sessions |-> NONE]
  /\ stage = [r \in Sessions |-> "new"]
  /\ status = [r \in Sessions |-> NONE]
  /\ before = [r \in Sessions |-> {}]

-----------------------------------------------------------------------------
(* Before the dispatch.  Each check gives the status it refuses with, or   *)
(* NONE.                                                                   *)

Allows(q, agent) == AllowedAgents[q.client] \cap {"*", agent} # {}

extractAgentID(q) ==
  IF q.query # NONE THEN q.query
  ELSE IF q.kind = "InvokeAgent" THEN q.agent ELSE NONE

AuthMiddleware(q) ==
  IF ~SecurityEnabled THEN NONE
  ELSE IF q.client = NONE THEN 401
  ELSE IF extractAgentID(q) # NONE /\ ~Allows(q, extractAgentID(q)) THEN 403
  ELSE NONE

ReadBody(q) ==
  CASE q.body = "large" -> 413 [] q.body = "bad" -> 400 [] q.body = "good" -> NONE

\* The agent a request names, by ID or by capability.
Target(q) ==
  IF q.agent # NONE THEN q.agent
  ELSE IF q.byCapability THEN Capable ELSE NONE

DispatchTaskChecks(q) ==
  IF ReadBody(q) # NONE THEN ReadBody(q)
  ELSE IF ~SecurityEnabled THEN NONE
  ELSE IF q.agent = NONE /\ q.byCapability /\ Capable = NONE THEN 404
  ELSE IF Target(q) # NONE /\ ~Allows(q, Target(q)) THEN 403
  ELSE NONE

InvokeAgentChecks(q) ==
  IF q.agent \notin AgentIDs THEN 404
  ELSE IF SecurityEnabled /\ ~Allows(q, q.agent) THEN 403
  ELSE ReadBody(q)

Checks(q) ==
  IF AuthMiddleware(q) # NONE THEN AuthMiddleware(q)
  ELSE CASE q.kind = "DispatchTask" -> DispatchTaskChecks(q)
         [] q.kind = "InvokeAgent"  -> InvokeAgentChecks(q)
         [] q.kind = "GetTask"      -> NONE

\* The ID of the task: InvokeAgent always generates one.
TaskID(r, q) ==
  IF q.kind = "DispatchTask" /\ q.id # NONE THEN q.id ELSE GeneratedTaskID[r]

Reply(r, code) ==
  /\ stage' = [stage EXCEPT ![r] = "done"]
  /\ status' = [status EXCEPT ![r] = code]

Refuse(r, q) ==
  /\ stage[r] = "new" /\ Checks(q) # NONE
  /\ request' = [request EXCEPT ![r] = q]
  /\ Reply(r, Checks(q))
  /\ UNCHANGED <<storeVars, before>>

AdmitTask(r, q) ==
  /\ stage[r] = "new" /\ Checks(q) = NONE /\ q.kind # "GetTask"
  /\ request' = [request EXCEPT ![r] = q]
  /\ stage' = [stage EXCEPT ![r] = "dispatch"]
  /\ UNCHANGED <<storeVars, status, before>>

\* The IDs the client of a POST knows: the one it sent and the one in the reply.
KnownIDs(r) == {call[r].keys[1]} \cup ({request[r].id} \ {NONE})

\* GetTask calls Load.
GetTask(r, q) ==
  /\ stage[r] = "new" /\ Checks(q) = NONE /\ q.kind = "GetTask"
  /\ request' = [request EXCEPT ![r] = q]
  /\ stage' = [stage EXCEPT ![r] = "store"]
  /\ before' = [before EXCEPT ![r] =
                  {p \in Sessions : /\ status[p] = 200
                                    /\ request[p].kind # "GetTask"
                                    /\ q.id \in KnownIDs(p)}]
  /\ Load(r, q.id)
  /\ UNCHANGED status

-----------------------------------------------------------------------------
(* Dispatch and what follows.                                              *)

\* Mutant: no aliases.
NoAliases(r, q, taskID) == <<>>

\* DispatchTask also stores the result under the ID the client knows.
Aliases(r, q, taskID) ==
  IF q.kind = "DispatchTask" /\ taskID # TaskID(r, q)
  THEN <<TaskID(r, q)>> ELSE <<>>

\* Dispatch succeeds: the dispatcher fills in the task ID unless the adapter
\* has set one.  saveTask follows.
DispatchSucceeds(r) ==
  LET q == request[r]
  IN  /\ stage[r] = "dispatch" /\ Target(q) \in AgentIDs
      /\ \E agent \in Leads[Target(q)], given \in AdapterTaskIDs :
           LET taskID == IF given = NONE THEN TaskID(r, q) ELSE given
           IN  Save(r, taskID, [by |-> r, agent |-> agent], Aliases(r, q, taskID))
      /\ stage' = [stage EXCEPT ![r] = "store"]
      /\ UNCHANGED <<request, status, before>>

\* The status of the error that Dispatch returns: those of resolveAgent, of
\* the agents, and 500 for the error of the context.
DispatchErrors(r) ==
  LET q == request[r]
  IN  IF Target(q) \in AgentIDs THEN {502, 504} \cup (IF ctxDone[r] THEN {500} ELSE {})
      ELSE IF q.agent = NONE /\ ~q.byCapability THEN {400} ELSE {404}

DispatchFails(r) ==
  /\ stage[r] = "dispatch"
  /\ \E code \in DispatchErrors(r) : Reply(r, code)
  /\ UNCHANGED <<storeVars, request, before>>

\* RecoveryMiddleware, for an adapter that panics.
Panic(r) ==
  /\ stage[r] = "dispatch"
  /\ Reply(r, 500)
  /\ UNCHANGED <<storeVars, request, before>>

\* Mutant: a failed Save is only logged.
SaveReturnsLogged(r) ==
  /\ stage[r] = "store" /\ request[r].kind # "GetTask"
  /\ call[r].place \in {"ok", "err"} /\ Reply(r, 200)
  /\ UNCHANGED <<storeVars, request, before>>

SaveReturns(r) ==
  /\ stage[r] = "store" /\ request[r].kind # "GetTask"
  /\ \/ call[r].place = "ok" /\ Reply(r, 200)
     \/ call[r].place = "err" /\ Reply(r, 503)
  /\ UNCHANGED <<storeVars, request, before>>

LoadReturns(r) ==
  /\ stage[r] = "store" /\ request[r].kind = "GetTask"
  /\ \/ call[r].place = "notfound" /\ Reply(r, 404)
     \/ call[r].place = "err" /\ Reply(r, 503)
     \/ /\ call[r].place = "ok"
        /\ Reply(r, IF SecurityEnabled /\ ~Allows(request[r], call[r].resp.agent)
                    THEN 403 ELSE 200)
  /\ UNCHANGED <<storeVars, request, before>>

\* The client goes away while its request is handled.
ClientLeaves(r) ==
  /\ stage[r] \in {"dispatch", "store"}
  /\ ContextDone(r)
  /\ UNCHANGED <<request, stage, status, before>>

\* The process shuts down by force: the store is closed under the requests.
StoreCloses ==
  /\ Close
  /\ UNCHANGED <<request, stage, status, before>>

-----------------------------------------------------------------------------

Arrives(r) ==
  \E q \in Requests[r] : Refuse(r, q) \/ AdmitTask(r, q) \/ GetTask(r, q)

StoreProceeds(r) == CallProceeds(r) /\ UNCHANGED <<request, stage, status, before>>
StoreBreaks(r)   == CallBreaks(r) /\ UNCHANGED <<request, stage, status, before>>

Handles(r) ==
  \/ DispatchSucceeds(r)
  \/ DispatchFails(r)
  \/ Panic(r)
  \/ SaveReturns(r)
  \/ LoadReturns(r)

GatewayNext ==
  \/ \E r \in Sessions : Arrives(r)
  \/ \E r \in Sessions : Handles(r)
  \/ \E r \in Sessions : StoreProceeds(r)
  \/ \E r \in Sessions : StoreBreaks(r)
  \/ \E r \in Sessions : ClientLeaves(r)
  \/ StoreCloses

\* Dispatch returns (Dispatcher's Answered); the pool serves its callers in
\* order; the server runs every statement and breaks every circle.  No client
\* has to leave and nothing has to fail.
GatewaySpec ==
  /\ GatewayInit /\ [][GatewayNext]_gatewayVars
  /\ \A r \in Sessions :
       WF_gatewayVars(Handles(r)) /\ WF_gatewayVars(StoreProceeds(r))
-----------------------------------------------------------------------------
(* Properties.                                                             *)

Posted(r) == request[r] # NONE /\ request[r].kind # "GetTask"

Position(s) == CHOOSE i \in DOMAIN log : log[i] = s

\* The agent has done the work and the store, or the client, fails afterwards:
\* 200 is only said of a result that is committed, and a client that stays is
\* told 503 of one that is not.
StoredOrTold ==
  \A r \in Sessions : stage[r] = "done" /\ call[r].op = "save" =>
    /\ status[r] = 200 => Contains(log, r)
    /\ ~Contains(log, r) => status[r] = 503

\* A GET that starts after a POST was answered 200 finds a result under every
\* ID of that POST (the one it sent and the one it was told), and not one that
\* was replaced before: the POST's own, or that of a later commit.
ReadsWhatWasAnswered ==
  \A r \in Sessions : stage[r] = "done" /\ before[r] # {} =>
    /\ status[r] # 404
    /\ status[r] = 200 => \A p \in before[r] : Position(call[r].resp.by) >= Position(p)

\* Every request that is here is answered, with a pool that is smaller than
\* the number of requests, statements that lock each other out, and a store
\* that closes: again and again there is no request under way.
RequestsEnd == []<>(\A r \in Sessions : stage[r] \in {"new", "done"})
=============================================================================
