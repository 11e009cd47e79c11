-------------------------- MODULE ValidatedDispatch --------------------------
(***************************************************************************)
(* A process that validates its configuration and then serves a request:   *)
(* FallbackCheck on what the file holds, and Dispatcher on what passed.    *)
(***************************************************************************)
EXTENDS Dispatcher, FallbackCheck

\* Validate and the dispatcher see one configuration.
ASSUME SameAgentsAssumption ==
  /\ AgentSet = AgentIDs /\ UnknownAgent = UnknownID
  /\ \A c \in Configs : c.agents = Agents

serveVars == <<vars, checkVars>>

\* The configuration is loaded; there is no request yet.
ServeInit ==
  /\ cfg \in Configs /\ mode = NONE /\ request = NONE
  /\ pc = "idle" /\ Unserved
  /\ adj = cfg.fallbacks /\ CheckInit

Validates == CheckNext /\ UNCHANGED vars

\* Only a process whose configuration is valid gets as far as its first request.
RequestArrives ==
  /\ pc = "idle" /\ verdict = "ok"
  /\ mode' \in Modes /\ request' \in Request
  /\ pc' = "resolve"
  /\ UNCHANGED <<cfg, stack, visited, attempt, ctxDone, hasEmitted, result,
                 calls, lateCalls, checkVars>>

Serves == pc # "idle" /\ Next /\ UNCHANGED checkVars

ServeNext == Validates \/ RequestArrives \/ Serves

\* Validate runs on one goroutine without waiting for anything.  Every call
\* ends: the loader gives each agent a positive timeout, which bounds client.Do
\* and the reading of the response.
ServeSpec ==
  /\ ServeInit /\ [][ServeNext]_serveVars
  /\ WF_serveVars(Validates)
  /\ WF_serveVars(Step /\ UNCHANGED checkVars)
-----------------------------------------------------------------------------

\* The search ends on every graph, the cyclic ones included, and every request
\* is answered, whatever way through retries and fallbacks it takes.
Answered == []<>(stage = "done" /\ pc \in {"idle", "done"})
=============================================================================
