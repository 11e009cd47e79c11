------------------------------ MODULE Dispatcher ------------------------------
(***************************************************************************)
(* One request through the dispatcher (pkg/dispatcher/dispatcher.go):      *)
(* routing, retries with backoff, fallback agents, and cancellation of the *)
(* caller's context at any moment.  The recursion of dispatchWithFallback  *)
(* and dispatchStreamWithFallback is an explicit stack of frames; both     *)
(* share their steps and differ in what reading the response does.         *)
(*                                                                         *)
(* Requests share no state (visited is made for each), so one is enough.   *)
(* cfg is a configuration whose agent IDs are distinct and whose agent     *)
(* types have adapters.  ValidatedDispatch puts Validate's search for      *)
(* missing and cyclic fallbacks in front.                                  *)
(***************************************************************************)
EXTENDS Integers, Sequences, FiniteSets

CONSTANTS
  AgentIDs,
  Configs,      \* the configurations of this instance
  UnknownID,    \* an agent ID of a request that no configuration has
  NONE

\* Entry points: Dispatch, DispatchStream, DispatchSingleAttempt.
Modes == {"sync", "stream", "single"}

\* agents is in configuration order; capable are the agents that advertise the
\* one capability requests ask for.
Config ==
  [agents : Seq(AgentIDs), retries : [AgentIDs -> Nat],
   fallbacks : [AgentIDs -> Seq(AgentIDs \cup {UnknownID})],
   capable : SUBSET AgentIDs]

\* agent_id and required_capability of a request.
Request == [agent : AgentIDs \cup {UnknownID, NONE}, byCapability : BOOLEAN]

ASSUME ConfigAssumption == Configs \subseteq Config
ASSUME UnknownAssumption ==
  UnknownID \notin AgentIDs /\ NONE \notin AgentIDs /\ UnknownID # NONE

VARIABLES
  cfg, mode, request,
  pc,
  stack,       \* one frame per nested dispatchWithFallback
  visited,     \* agents this request was sent to
  attempt,     \* of the invocation under way
  ctxDone,     \* the caller's context
  hasEmitted,  \* trackingEmitter.hasEmitted
  result,      \* what the innermost call returned
  calls,       \* history: client.Do calls to each agent
  lateCalls    \* history: client.Do calls made with the context done

vars == <<cfg, mode, request, pc, stack, visited, attempt, ctxDone, hasEmitted,
          result, calls, lateCalls>>
inputs == <<cfg, mode, request>>

-----------------------------------------------------------------------------

PCs == {"resolve", "enter", "backoff", "send", "await", "read", "invoked",
        "cascade", "returned", "done"}

\* How an invocation fails: with an error that mentions the deadline, with
\* another one, or with the error of the caller's context.
Failures == {"timeout", "error", "ctx"}

\* next is the position in the agent's fallback list.
FrameOf(a) == [agent |-> a, next |-> 1, err |-> NONE]
Top == stack[Len(stack)]

Ok          == [code |-> "ok", agent |-> NONE]
Error(c, a) == [code |-> c, agent |-> a]
Codes == {"ok", "ctx", "raw", "INVALID_REQUEST", "AGENT_NOT_FOUND",
          "CAPABILITY_NOT_FOUND", "CYCLE_DETECTED", "DOWNSTREAM_TIMEOUT",
          "DOWNSTREAM_UNAVAILABLE"}
Downstream == {"DOWNSTREAM_TIMEOUT", "DOWNSTREAM_UNAVAILABLE"}

ASSUME NoneAssumption == NONE \notin Codes \cup Failures

TypeOK ==
  /\ mode \in Modes /\ request \in Request /\ pc \in PCs
  /\ stack \in Seq([agent : AgentIDs, next : Nat,
                    err : Failures \cup {NONE}])
  /\ visited \subseteq AgentIDs /\ attempt \in Nat
  /\ ctxDone \in BOOLEAN /\ hasEmitted \in BOOLEAN
  /\ result \in [code : Codes \cup {NONE},
                 agent : AgentIDs \cup {UnknownID, NONE}]
  /\ calls \in [AgentIDs -> Nat] /\ lateCalls \in Nat

Unserved ==
  /\ stack = <<>> /\ visited = {} /\ attempt = 0
  /\ ctxDone = FALSE /\ hasEmitted = FALSE
  /\ result = Error(NONE, NONE)
  /\ calls = [a \in AgentIDs |-> 0] /\ lateCalls = 0

Init ==
  /\ cfg \in Configs /\ mode \in Modes /\ request \in Request
  /\ pc = "resolve" /\ Unserved

\* DispatchSingleAttempt works on a copy of the agent without retries and
\* fallbacks.
RetriesOf(a)   == IF mode = "single" THEN 0 ELSE cfg.retries[a]
FallbacksOf(a) == IF mode = "single" THEN <<>> ELSE cfg.fallbacks[a]

-----------------------------------------------------------------------------
(* Routing.                                                                *)

Configured == {cfg.agents[i] : i \in DOMAIN cfg.agents}

GetAgent(id) ==
  IF id \in Configured THEN Error("ok", id) ELSE Error("AGENT_NOT_FOUND", id)

\* The first agent in configuration order.
FindAgentByCapability ==
  LET able == {i \in DOMAIN cfg.agents : cfg.agents[i] \in cfg.capable}
  IN  IF able = {} THEN Error("CAPABILITY_NOT_FOUND", NONE)
      ELSE Error("ok", cfg.agents[CHOOSE i \in able : \A j \in able : i <= j])

resolveAgent ==
  IF request.agent # NONE THEN GetAgent(request.agent)
  ELSE IF request.byCapability THEN FindAgentByCapability
       ELSE Error("INVALID_REQUEST", NONE)

Resolve ==
  /\ pc = "resolve"
  /\ IF resolveAgent.code = "ok"
     THEN /\ stack' = <<FrameOf(resolveAgent.agent)>>
          /\ pc' = "enter"
          /\ UNCHANGED result
     ELSE /\ pc' = "done"
          /\ result' = resolveAgent
          /\ UNCHANGED stack
  /\ UNCHANGED <<inputs, visited, attempt, ctxDone, hasEmitted, calls, lateCalls>>

-----------------------------------------------------------------------------
(* Steps shared by the actions.                                            *)

\* The innermost dispatchWithFallback returns res to its caller.
Return(res) ==
  /\ stack' = SubSeq(stack, 1, Len(stack) - 1)
  /\ pc' = IF Len(stack) = 1 THEN "done" ELSE "returned"
  /\ result' = res

\* invokeAgentWithRetries returns an error.
Invoked(failure) ==
  /\ stack' = [stack EXCEPT ![Len(stack)].err = failure]
  /\ pc' = "invoked"
  /\ UNCHANGED <<attempt, result>>

\* `continue' in the retry loop, with lastErr = failure.
NextAttempt(failure) ==
  \/ /\ attempt < RetriesOf(Top.agent)
     /\ attempt' = attempt + 1
     /\ pc' = "backoff"
     /\ UNCHANGED <<stack, result>>
  \/ attempt >= RetriesOf(Top.agent) /\ Invoked(failure)

-----------------------------------------------------------------------------
(* invokeAgentWithRetries, invokeAgentStreamWithRetries.                   *)

Enter ==
  /\ pc = "enter"
  /\ IF Top.agent \in visited
     THEN /\ Return(Error("CYCLE_DETECTED", Top.agent))
          /\ UNCHANGED <<visited, attempt>>
     ELSE /\ visited' = visited \cup {Top.agent}
          /\ attempt' = 0
          /\ pc' = "send"
          /\ UNCHANGED <<stack, result>>
  /\ UNCHANGED <<inputs, ctxDone, hasEmitted, calls, lateCalls>>

\* Sleep: when the timer and the context are both ready, select takes either.
Backoff ==
  /\ pc = "backoff"
  /\ \/ ctxDone /\ Invoked("ctx")
     \/ pc' = "send" /\ UNCHANGED <<stack, attempt, result>>
  /\ UNCHANGED <<inputs, visited, ctxDone, hasEmitted, calls, lateCalls>>

\* TranslateRequest fails at once or client.Do is called.
Send ==
  /\ pc = "send"
  /\ \/ Invoked("error") /\ UNCHANGED <<calls, lateCalls>>
     \/ /\ pc' = "await"
        /\ calls' = [calls EXCEPT ![Top.agent] = @ + 1]
        /\ lateCalls' = lateCalls + IF ctxDone THEN 1 ELSE 0
        /\ UNCHANGED <<stack, attempt, result>>
  /\ UNCHANGED <<inputs, visited, ctxDone, hasEmitted>>

\* Mutant: the caller's context is not looked at.
DoFailsRetries ==
  /\ pc = "await"
  /\ \E failure \in {"timeout", "error"} : NextAttempt(failure)
  /\ UNCHANGED <<inputs, visited, ctxDone, hasEmitted, calls, lateCalls>>

\* client.Do fails, by the attempt's timeout or otherwise.
DoFails ==
  /\ pc = "await"
  /\ IF ctxDone THEN Invoked("ctx")
     ELSE \E failure \in {"timeout", "error"} : NextAttempt(failure)
  /\ UNCHANGED <<inputs, visited, ctxDone, hasEmitted, calls, lateCalls>>

\* A status of 500 or more.  A call made with the context done has no answer.
ServerError ==
  /\ pc = "await" /\ lateCalls = 0
  /\ NextAttempt("error")
  /\ UNCHANGED <<inputs, visited, ctxDone, hasEmitted, calls, lateCalls>>

Responds ==
  /\ pc = "await" /\ lateCalls = 0
  /\ pc' = "read"
  /\ UNCHANGED <<inputs, stack, visited, attempt, ctxDone, hasEmitted, result,
                 calls, lateCalls>>

\* TranslateStream passes an event on.
EmitEvent ==
  /\ pc = "read" /\ mode = "stream"
  /\ hasEmitted' = TRUE
  /\ UNCHANGED <<inputs, pc, stack, visited, attempt, ctxDone, result, calls,
                 lateCalls>>

\* TranslateResponse or TranslateStream ends well.
ReadSucceeds ==
  /\ pc = "read"
  /\ Return(Ok)
  /\ UNCHANGED <<inputs, visited, attempt, ctxDone, hasEmitted, calls, lateCalls>>

\* Mutant: a failed read is retried.
ReadRetries ==
  /\ pc = "read"
  /\ \E failure \in {"timeout", "error"} : NextAttempt(failure)
  /\ UNCHANGED <<inputs, visited, ctxDone, hasEmitted, calls, lateCalls>>

\* It fails: not retried.
ReadFails ==
  /\ pc = "read"
  /\ \E failure \in {"timeout", "error"} : Invoked(failure)
  /\ UNCHANGED <<inputs, visited, ctxDone, hasEmitted, calls, lateCalls>>

-----------------------------------------------------------------------------
(* dispatchWithFallback, dispatchStreamWithFallback after the invocation.  *)

AfterInvoke ==
  /\ pc = "invoked"
  /\ IF hasEmitted THEN Return(Error("raw", NONE))
     ELSE IF ctxDone THEN Return(Error("ctx", NONE))
     ELSE pc' = "cascade" /\ UNCHANGED <<stack, result>>
  /\ UNCHANGED <<inputs, visited, attempt, ctxDone, hasEmitted, calls, lateCalls>>

\* Mutant: the loop does not move on.
SkipNothing == stack

Skip == [stack EXCEPT ![Len(stack)].next = @ + 1]

\* One iteration of the loop over FallbackAgentIDs.
TryFallback ==
  /\ pc = "cascade"
  /\ Top.next <= Len(FallbacksOf(Top.agent))
  /\ LET fallback == FallbacksOf(Top.agent)[Top.next]
     IN  IF ctxDone THEN Return(Error("ctx", NONE))
         ELSE IF hasEmitted THEN Return(Error("raw", NONE))
         ELSE IF fallback \in visited \/ GetAgent(fallback).code # "ok"
              THEN stack' = Skip /\ UNCHANGED <<pc, result>>
              ELSE /\ stack' = Append(stack, FrameOf(fallback))
                   /\ pc' = "enter"
                   /\ UNCHANGED result
  /\ UNCHANGED <<inputs, visited, attempt, ctxDone, hasEmitted, calls, lateCalls>>

\* Mutant: the error of the first fallback is returned.
FirstFallbackDecides ==
  /\ pc = "returned"
  /\ Return(result)
  /\ UNCHANGED <<inputs, visited, attempt, ctxDone, hasEmitted, calls, lateCalls>>

\* The fallback's dispatchWithFallback has returned.
FallbackReturned ==
  /\ pc = "returned"
  /\ IF result.code = "ok" \/ hasEmitted THEN Return(result)
     ELSE stack' = Skip /\ pc' = "cascade" /\ UNCHANGED result
  /\ UNCHANGED <<inputs, visited, attempt, ctxDone, hasEmitted, calls, lateCalls>>

\* The list is exhausted.
GiveUp ==
  /\ pc = "cascade"
  /\ Top.next > Len(FallbacksOf(Top.agent))
  /\ Return(IF ctxDone THEN Error("ctx", NONE)
            ELSE IF Top.err = "timeout"
                 THEN Error("DOWNSTREAM_TIMEOUT", Top.agent)
                 ELSE Error("DOWNSTREAM_UNAVAILABLE", Top.agent))
  /\ UNCHANGED <<inputs, visited, attempt, ctxDone, hasEmitted, calls, lateCalls>>

-----------------------------------------------------------------------------

\* The client goes away, or the caller's deadline passes.
Cancel ==
  /\ pc # "done" /\ ~ctxDone
  /\ ctxDone' = TRUE
  /\ UNCHANGED <<inputs, pc, stack, visited, attempt, hasEmitted, result, calls,
                 lateCalls>>

Step ==
  \/ Resolve
  \/ Enter
  \/ Backoff
  \/ Send
  \/ DoFails
  \/ ServerError
  \/ Responds
  \/ EmitEvent
  \/ ReadSucceeds
  \/ ReadFails
  \/ AfterInvoke
  \/ TryFallback
  \/ FallbackReturned
  \/ GiveUp

Next == Step \/ Cancel

-----------------------------------------------------------------------------
(* Properties.                                                             *)

\* Agents that fallbacks lead to from a: the least set that has a and every
\* fallback of its members.
ReachableFrom(a) ==
  {b \in AgentIDs :
     \A S \in SUBSET AgentIDs :
       /\ a \in S
       /\ \A c \in S : \A i \in DOMAIN FallbacksOf(c) : FallbacksOf(c)[i] \in S
       => b \in S}

\* In one request no agent is invoked more often than its own retries allow,
\* although several paths of the fallback graph may lead to it; a durable
\* attempt invokes one agent once.  The CYCLE_DETECTED branch is never taken:
\* the loop over the fallbacks skips visited agents before the recursion could
\* meet one.  After the caller's context is done, at most one more call is
\* started, of all the calls that retries and fallbacks have left.
CallsWithinBudget ==
  /\ \A a \in AgentIDs : calls[a] <= RetriesOf(a) + 1
  /\ result.code # "CYCLE_DETECTED"
  /\ lateCalls <= 1
  /\ mode = "single" => \A a \in AgentIDs : calls[a] > 0 => a = resolveAgent.agent

\* Once an event has reached the client, no agent is invoked again: the
\* stream of one agent is never continued by another attempt.
NoCallAfterEmission == [][hasEmitted => calls' = calls]_vars

\* A request that fails downstream, with its caller still there, has tried
\* every agent the fallbacks lead to, and reports the agent it was routed to.
FailsOnlyWhenAllTried ==
  pc = "done" /\ result.code \in Downstream =>
    /\ result.agent = resolveAgent.agent
    /\ visited = ReachableFrom(resolveAgent.agent)
=============================================================================
