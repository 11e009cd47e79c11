--------------------------- MODULE DispatcherProofs ---------------------------
(***************************************************************************)
(* What every step of Dispatcher preserves: DispatchInv, from which the    *)
(* properties of a request follow, and Exploration, which describes the    *)
(* depth-first walk over the fallbacks.  ValidatedDispatchProofs and       *)
(* StreamRequestProofs build on the lemmas of this module.                 *)
(***************************************************************************)
EXTENDS Dispatcher, SequenceTheorems, WellFoundedInduction, TLAPS

Frames == [agent : AgentIDs, next : Nat, err : Failures \cup {NONE}]

\* The frames are there while dispatchWithFallback runs; the outermost one is
\* that of the agent the request was routed to.  All their agents are visited
\* but the one that is about to be, and that one is not.
StackOK ==
  /\ stack = <<>> <=> pc \in {"resolve", "done"}
  /\ pc = "resolve" => visited = {}
  /\ visited # {} => resolveAgent.code = "ok"
  /\ stack # <<>> =>
       resolveAgent.code = "ok" /\ stack[1].agent = resolveAgent.agent
  /\ mode = "single" => Len(stack) <= 1
  /\ \A i \in 1..Len(stack) :
       /\ stack[i].next \in Nat \ {0}
       /\ stack[i].agent \in visited <=> ~(pc = "enter" /\ i = Len(stack))

\* The calls of the invocation under way are at most its attempts.
BudgetOK ==
  /\ \A a \in AgentIDs : calls[a] <= RetriesOf(a) + 1
  /\ \A a \in AgentIDs \ visited : calls[a] = 0
  /\ pc \in {"send", "backoff"} =>
       attempt <= RetriesOf(Top.agent) /\ calls[Top.agent] <= attempt
  /\ pc = "await" =>
       attempt <= RetriesOf(Top.agent) /\ calls[Top.agent] <= attempt + 1

\* Where a request can be once its context was done at a call, or once an event
\* was emitted, and what its calls return then.
CutOK ==
  /\ lateCalls <= 1
  /\ lateCalls > 0 =>
       ctxDone /\ pc \in {"await", "invoked", "cascade", "returned", "done"}
  /\ hasEmitted => pc \in {"read", "invoked", "returned", "done"}
  /\ hasEmitted /\ pc \in {"returned", "done"} => result.code \in {"ok", "raw"}
  /\ result.code # "CYCLE_DETECTED"
  /\ result.code = "ok" => pc \in {"returned", "done"}
  /\ pc = "done" /\ result.code \in Downstream =>
       /\ ~ctxDone /\ ~hasEmitted
       /\ result.agent = resolveAgent.agent /\ resolveAgent.agent \in visited

\* Only agents the fallbacks lead to are visited, and one that is on its own
\* when an attempt has no fallbacks.
ReachOK ==
  /\ visited \subseteq ReachableFrom(resolveAgent.agent)
  /\ \A i \in 1..Len(stack) :
       stack[i].agent \in ReachableFrom(resolveAgent.agent)

DispatchInv == cfg \in Configs /\ TypeOK /\ StackOK /\ BudgetOK /\ CutOK /\ ReachOK

-----------------------------------------------------------------------------
(* The walk over the fallbacks, in a configuration that Validate accepts.  *)

ReferencesExist ==
  \A a \in AgentIDs : \A i \in DOMAIN cfg.fallbacks[a] :
    cfg.fallbacks[a][i] \in Configured

\* The fallback list of each agent.
Lists == [a \in AgentIDs |-> FallbacksOf(a)]

\* The first n fallbacks of agent a are in v.
Tried(F, v, a, n) == \A j \in DOMAIN F[a] : j <= n => F[a][j] \in v

\* A depth-first walk over F with stack s that has visited v: each frame has
\* tried the fallbacks before its position, the frame above it is that of the
\* fallback at its position, and an agent whose frame is gone has tried all.
Walk(F, v, s) ==
  /\ \A i \in 1..Len(s) : Tried(F, v, s[i].agent, s[i].next - 1)
  /\ \A i \in 1..Len(s) : i < Len(s) =>
       /\ s[i].next \in DOMAIN F[s[i].agent]
       /\ F[s[i].agent][s[i].next] = s[i + 1].agent
  /\ \A a \in v :
       \/ \E i \in 1..Len(s) : s[i].agent = a
       \/ \A j \in DOMAIN F[a] : F[a][j] \in v

\* The request is neither cut short nor served.
Alive == ~ctxDone /\ ~hasEmitted /\ result.code # "ok"

Exploration ==
  Alive =>
    /\ Walk(Lists, visited, stack)
    /\ pc = "returned" => Tried(Lists, visited, Top.agent, Top.next)

-----------------------------------------------------------------------------
(* What the steps do to the stack.                                         *)

\* Stack t has the agents of stack s, none of which went back in its list.
SameAgents(s, t) ==
  /\ t \in Seq(Frames) /\ Len(t) = Len(s)
  /\ \A i \in 1..Len(s) :
       t[i].agent = s[i].agent /\ t[i].next \in {s[i].next, s[i].next + 1}

\* A sequence that is not empty has a last element.
LEMMA LastOfSeq ==
  ASSUME NEW S, NEW s \in Seq(S)
  PROVE  /\ Len(s) \in Nat
         /\ s = <<>> <=> Len(s) = 0
         /\ \A i \in 1..Len(s) : s[i] \in S
         /\ s # <<>> => Len(s) \in 1..Len(s) /\ 1 \in 1..Len(s)
OBVIOUS

\* Without it, the others stay.
LEMMA FrontOfSeq ==
  ASSUME NEW S, NEW s \in Seq(S), s # <<>>
  PROVE  LET t == SubSeq(s, 1, Len(s) - 1)
         IN  /\ t \in Seq(S) /\ Len(t) = Len(s) - 1
             /\ \A i \in 1..Len(t) : i \in 1..Len(s) /\ t[i] = s[i]
<1>1. Len(s) \in Nat \ {0}
  BY EmptySeq
<1>2. \A i \in 1..(Len(s) - 1) : s[i] \in S
  BY <1>1, LastOfSeq
<1> DEFINE t == SubSeq(s, 1, Len(s) - 1)
<1>3. t \in Seq(S) /\ Len(t) = Len(s) - 1
  <2>1. Len(t) = Len(s) - 1
    <3>1. CASE Len(s) = 1
      BY <3>1, SubSeqEmpty, EmptySeq
    <3>2. CASE Len(s) > 1
      <4>1. Len(s) - 1 \in 1..Len(s)
        BY <1>1, <3>2
      <4>2. QED
        BY <1>1, <3>2, <4>1
    <3>3. QED
      BY <1>1, <3>1, <3>2
  <2>2. t \in Seq(S)
    BY <1>1, <1>2, SubSeqProperties
  <2>3. QED
    BY <2>1, <2>2
<1>4. \A i \in 1..Len(t) : i \in 1..Len(s) /\ t[i] = s[i]
  BY <1>1, <1>2, <1>3
<1>5. QED
  BY <1>3, <1>4

\* A stack of frames that is not empty has a top, and it is a frame.
LEMMA TopFacts ==
  ASSUME NEW s \in Seq(Frames)
  PROVE  /\ Len(s) \in Nat
         /\ s = <<>> <=> Len(s) = 0
         /\ \A i \in 1..Len(s) : s[i] \in Frames
         /\ s # <<>> => Len(s) \in 1..Len(s) /\ 1 \in 1..Len(s)
BY LastOfSeq

\* A pop keeps the frames below.
LEMMA PopFacts ==
  ASSUME NEW s \in Seq(Frames), s # <<>>
  PROVE  LET t == SubSeq(s, 1, Len(s) - 1)
         IN  /\ t \in Seq(Frames) /\ Len(t) = Len(s) - 1
             /\ \A i \in 1..Len(t) : i \in 1..Len(s) /\ t[i] = s[i]
BY FrontOfSeq

\* A push leaves the frames below and puts a fresh one on top.
LEMMA PushFacts ==
  ASSUME NEW s \in Seq(Frames), NEW a \in AgentIDs
  PROVE  LET t == Append(s, FrameOf(a))
         IN  /\ t \in Seq(Frames) /\ t # <<>> /\ Len(t) = Len(s) + 1
             /\ \A i \in 1..Len(s) : t[i] = s[i]
             /\ t[Len(t)] = FrameOf(a)
<1>1. FrameOf(a) \in Frames
  BY DEF FrameOf, Frames
<1>2. QED
  BY <1>1, AppendProperties

\* Recording the error of an invocation changes neither agents nor positions.
LEMMA MarkFacts ==
  ASSUME NEW s \in Seq(Frames), s # <<>>, NEW f \in Failures
  PROVE  LET t == [s EXCEPT ![Len(s)].err = f]
         IN  /\ SameAgents(s, t) /\ t # <<>>
             /\ \A i \in 1..Len(s) : t[i].next = s[i].next
<1>1. Len(s) \in 1..Len(s) /\ s[Len(s)] \in Frames /\ Len(s) \in Nat
  BY TopFacts
<1>2. [s[Len(s)] EXCEPT !.err = f] \in Frames
  BY <1>1 DEF Frames
<1>3. QED
  BY <1>1, <1>2, ExceptSeq DEF SameAgents, Frames

\* Moving on moves the top only.
LEMMA SkipFacts ==
  ASSUME NEW s \in Seq(Frames), s # <<>>
  PROVE  LET t == [s EXCEPT ![Len(s)].next = @ + 1]
         IN  /\ SameAgents(s, t) /\ t # <<>>
             /\ \A i \in 1..Len(s) :
                  t[i].next = IF i = Len(s) THEN s[i].next + 1 ELSE s[i].next
<1>1. Len(s) \in 1..Len(s) /\ s[Len(s)] \in Frames /\ Len(s) \in Nat
  BY TopFacts
<1>2. [s[Len(s)] EXCEPT !.next = @ + 1] \in Frames
  BY <1>1 DEF Frames
<1>3. QED
  BY <1>1, <1>2, ExceptSeq DEF SameAgents, Frames

-----------------------------------------------------------------------------
(* Routing and the configuration, which no step changes.                   *)

\* The inputs of a request decide how it is routed, and its budget.
LEMMA InputsKept ==
  ASSUME UNCHANGED inputs
  PROVE  /\ cfg' = cfg /\ mode' = mode /\ request' = request
         /\ resolveAgent' = resolveAgent
         /\ \A a : RetriesOf(a)' = RetriesOf(a)
         /\ \A a : FallbacksOf(a)' = FallbacksOf(a)
         /\ \A a : ReachableFrom(a)' = ReachableFrom(a)
<1>1. cfg' = cfg /\ mode' = mode /\ request' = request
  BY DEF inputs
<1>2. resolveAgent' = resolveAgent
  BY <1>1 DEF resolveAgent, GetAgent, FindAgentByCapability, Configured, Error
<1>3. \A a : RetriesOf(a)' = RetriesOf(a)
  BY <1>1 DEF RetriesOf
<1>4. \A a : FallbacksOf(a)' = FallbacksOf(a)
  BY <1>1 DEF FallbacksOf
<1>5. \A a : ReachableFrom(a)' = ReachableFrom(a)
  BY <1>1 DEF ReachableFrom, FallbacksOf
<1>6. QED
  BY <1>1, <1>2, <1>3, <1>4, <1>5

\* The least-number principle, for CHOOSE of a first position.
LEMMA LeastNumber ==
  ASSUME NEW T \in SUBSET Nat, T # {}
  PROVE  \E n \in T : \A m \in T : n <= m
<1> DEFINE R == OpToRel(<, Nat)
<1>1. IsWellFoundedOn(R, Nat)
  BY NatLessThanWellFounded
<1> HIDE DEF R
<1>2. PICK n \in T : \A m \in T : ~(<<m, n>> \in R)
  BY <1>1, WFMin
<1>3. \A m \in T : ~(m < n)
  <2>1. ASSUME NEW x \in Nat, NEW y \in Nat, x < y
        PROVE  <<x, y>> \in R
    BY <2>1 DEF R, OpToRel
  <2>2. QED
    BY <1>2, <2>1
<1>4. QED
  BY <1>2, <1>3

RoutingErrors == {"AGENT_NOT_FOUND", "CAPABILITY_NOT_FOUND", "INVALID_REQUEST"}

\* A request is routed to a configured agent or refused.
LEMMA RoutingFacts ==
  ASSUME cfg \in Configs, request \in Request
  PROVE  /\ resolveAgent \in [code : {"ok"} \cup RoutingErrors,
                              agent : AgentIDs \cup {UnknownID, NONE}]
         /\ resolveAgent.code = "ok" => resolveAgent.agent \in AgentIDs
<1>1. cfg.agents \in Seq(AgentIDs)
  BY ConfigAssumption DEF Config
<1>2. Configured \subseteq AgentIDs
  BY <1>1 DEF Configured
<1>3. CASE request.agent # NONE
  BY <1>2, <1>3 DEF resolveAgent, GetAgent, Error, Request, RoutingErrors
<1>4. CASE request.agent = NONE /\ request.byCapability
  <2> DEFINE able == {i \in DOMAIN cfg.agents : cfg.agents[i] \in cfg.capable}
  <2>1. able \in SUBSET Nat
    BY <1>1
  <2>2. able # {} => \E n \in able : \A m \in able : n <= m
    BY <2>1, LeastNumber
  <2>3. able # {} => cfg.agents[CHOOSE i \in able : \A j \in able : i <= j] \in AgentIDs
    <3>1. ASSUME NEW i \in able PROVE cfg.agents[i] \in AgentIDs
      BY <1>1
    <3> HIDE DEF able
    <3>2. QED
      BY <2>2, <3>1
  <2>4. resolveAgent = IF able = {} THEN Error("CAPABILITY_NOT_FOUND", NONE)
                       ELSE Error("ok", cfg.agents[CHOOSE i \in able : \A j \in able : i <= j])
    BY <1>4 DEF resolveAgent, FindAgentByCapability
  <2> HIDE DEF able
  <2>5. QED
    BY <2>3, <2>4 DEF Error, RoutingErrors
<1>5. CASE request.agent = NONE /\ ~request.byCapability
  BY <1>5 DEF resolveAgent, Error, RoutingErrors
<1>6. QED
  BY <1>3, <1>4, <1>5

\* A fallback that is tried is an agent; it can be reached if its agent can.
LEMMA FallbackFacts ==
  ASSUME cfg \in Configs, request \in Request,
         NEW a \in AgentIDs, NEW n \in DOMAIN FallbacksOf(a)
  PROVE  LET f == FallbacksOf(a)[n]
         IN  /\ mode # "single"
             /\ FallbacksOf(a) = cfg.fallbacks[a]
             /\ GetAgent(f).code = "ok" <=> f \in Configured
             /\ f \in Configured => f \in AgentIDs
             /\ f \in Configured /\ a \in ReachableFrom(resolveAgent.agent) =>
                  f \in ReachableFrom(resolveAgent.agent)
<1>1. cfg.agents \in Seq(AgentIDs)
  BY ConfigAssumption DEF Config
<1>2. Configured \subseteq AgentIDs
  BY <1>1 DEF Configured
<1>3. mode # "single" /\ FallbacksOf(a) = cfg.fallbacks[a]
  BY DEF FallbacksOf
<1> DEFINE f == FallbacksOf(a)[n]
<1>4. GetAgent(f).code = "ok" <=> f \in Configured
  BY DEF GetAgent, Error
<1>5. f \in Configured /\ a \in ReachableFrom(resolveAgent.agent) =>
        f \in ReachableFrom(resolveAgent.agent)
  BY <1>2, Zenon DEF ReachableFrom
<1>6. QED
  BY <1>2, <1>3, <1>4, <1>5

\* The agent a request was routed to is reached.
LEMMA RootReached ==
  ASSUME NEW a \in AgentIDs
  PROVE  a \in ReachableFrom(a)
BY DEF ReachableFrom

-----------------------------------------------------------------------------
(* Every step preserves DispatchInv: first what the actions share.         *)

others == <<visited, attempt, ctxDone, hasEmitted, calls, lateCalls>>

Results == [code : Codes \cup {NONE}, agent : AgentIDs \cup {UnknownID, NONE}]

\* A request that has just arrived.
LEMMA InitKeeps ==
  ASSUME Init
  PROVE  DispatchInv
<1> USE DEF Init, Unserved
<1>1. TypeOK
  BY EmptySeq DEF TypeOK, PCs, Error
<1>2. StackOK /\ BudgetOK /\ CutOK /\ ReachOK
  <2>1. \A a \in AgentIDs : RetriesOf(a) \in Nat
    BY ConfigAssumption DEF RetriesOf, Config
  <2>2. Error(NONE, NONE).code # "ok" /\ Error(NONE, NONE).code # "CYCLE_DETECTED"
    BY NoneAssumption DEF Error, Codes
  <2>3. QED
    BY <2>1, <2>2 DEF StackOK, BudgetOK, CutOK, ReachOK
<1>3. QED
  BY <1>1, <1>2 DEF DispatchInv

\* The innermost call returns res.
LEMMA ReturnKeeps ==
  ASSUME DispatchInv, stack # <<>>, pc # "enter", NEW res \in Results,
         Return(res), UNCHANGED <<inputs, others>>,
         res.code # "CYCLE_DETECTED",
         hasEmitted => res.code \in {"ok", "raw"},
         Len(stack) = 1 /\ res.code \in Downstream =>
           ~ctxDone /\ ~hasEmitted /\ res.agent = resolveAgent.agent
  PROVE  DispatchInv'
<1> USE DEF DispatchInv, others
<1>1. stack \in Seq(Frames)
  BY DEF TypeOK, Frames
<1>2. /\ stack' \in Seq(Frames) /\ Len(stack') = Len(stack) - 1
      /\ \A i \in 1..Len(stack') : i \in 1..Len(stack) /\ stack'[i] = stack[i]
  BY <1>1, PopFacts DEF Return
<1>3. Len(stack) \in Nat \ {0} /\ Len(stack') \in Nat
  BY <1>1, <1>2, TopFacts
<1>4. /\ pc' \in {"done", "returned"} /\ result' = res
      /\ stack' = <<>> <=> pc' = "done"
      /\ pc' = "done" <=> Len(stack) = 1
  <2>1. pc' = (IF Len(stack) = 1 THEN "done" ELSE "returned") /\ result' = res
    BY DEF Return
  <2>2. stack' = <<>> <=> Len(stack') = 0
    BY <1>2, TopFacts
  <2>3. QED
    BY <1>2, <1>3, <2>1, <2>2
<1>5. UNCHANGED inputs
  OBVIOUS
<1>6. TypeOK'
  BY <1>2, <1>4, <1>5, InputsKept DEF TypeOK, PCs, Frames, Results
<1>7. StackOK'
  <2>1. 1 \in 1..Len(stack') \/ stack' = <<>>
    BY <1>2, <1>3, TopFacts
  <2>2. stack' # <<>> => stack'[1] = stack[1]
    BY <1>2, <2>1
  <2>3. \A i \in 1..Len(stack') :
          stack'[i].next \in Nat \ {0} /\ stack'[i].agent \in visited'
    BY <1>2, <1>3 DEF StackOK
  <2>4. QED
    BY <1>2, <1>3, <1>4, <1>5, <2>2, <2>3, InputsKept DEF StackOK
<1>8. BudgetOK'
  BY <1>4, <1>5, InputsKept DEF BudgetOK
<1>9. CutOK'
  <2>1. Len(stack) = 1 => resolveAgent.agent \in visited
    BY <1>3 DEF StackOK
  <2>2. QED
    BY <1>4, <1>5, <2>1, InputsKept DEF CutOK
<1>10. ReachOK'
  BY <1>2, <1>5, InputsKept DEF ReachOK
<1>11. QED
  BY <1>5, <1>6, <1>7, <1>8, <1>9, <1>10, InputsKept

\* The top keeps its agent, in a place where nothing is promised of it.
LEMMA SettleKeeps ==
  ASSUME DispatchInv, stack # <<>>, pc # "enter",
         SameAgents(stack, stack'), pc' \in {"invoked", "cascade"},
         pc' = "cascade" => ~hasEmitted,
         result' = result, result.code # "ok",
         UNCHANGED <<inputs, others>>
  PROVE  DispatchInv'
<1> USE DEF DispatchInv, others
<1>1. stack \in Seq(Frames)
  BY DEF TypeOK, Frames
<1>2. /\ stack' \in Seq(Frames) /\ Len(stack') = Len(stack)
      /\ \A i \in 1..Len(stack') :
           /\ stack'[i].agent = stack[i].agent
           /\ stack'[i].next \in {stack[i].next, stack[i].next + 1}
  BY <1>1 DEF SameAgents
<1>3. Len(stack) \in Nat \ {0} /\ stack' # <<>>
  BY <1>1, <1>2, TopFacts
<1>4. UNCHANGED inputs
  OBVIOUS
<1>6. TypeOK'
  BY <1>2, <1>4, InputsKept DEF TypeOK, PCs, Frames
<1>7. StackOK'
  BY <1>2, <1>3, <1>4, InputsKept DEF StackOK
<1>8. BudgetOK'
  BY <1>4, InputsKept DEF BudgetOK
<1>9. CutOK'
  BY <1>4, InputsKept DEF CutOK
<1>10. ReachOK'
  BY <1>2, <1>4, InputsKept DEF ReachOK
<1>11. QED
  BY <1>4, <1>6, <1>7, <1>8, <1>9, <1>10, InputsKept

\* An invocation ends in an error.
LEMMA InvokedKeeps ==
  ASSUME DispatchInv, pc \in {"backoff", "send", "await", "read"},
         NEW failure \in Failures, Invoked(failure),
         UNCHANGED <<inputs, others>>
  PROVE  DispatchInv'
<1>1. stack \in Seq(Frames) /\ stack # <<>> /\ result.code # "ok"
  BY DEF DispatchInv, TypeOK, Frames, StackOK, CutOK
<1>2. SameAgents(stack, stack') /\ pc' = "invoked" /\ result' = result
  BY <1>1, MarkFacts DEF Invoked
<1>3. QED
  BY <1>1, <1>2, SettleKeeps

\* The loop over the fallbacks moves on.
LEMMA SkipKeeps ==
  ASSUME DispatchInv, pc \in {"cascade", "returned"}, ~hasEmitted,
         stack' = Skip, pc' = "cascade", result' = result, result.code # "ok",
         UNCHANGED <<inputs, others>>
  PROVE  DispatchInv'
<1>1. stack \in Seq(Frames) /\ stack # <<>>
  BY DEF DispatchInv, TypeOK, Frames, StackOK
<1>2. SameAgents(stack, stack')
  BY <1>1, SkipFacts DEF Skip
<1>3. QED
  BY <1>1, <1>2, SettleKeeps

\* The stack stays and so do the calls: what is left to show.
LEMMA MoveKeeps ==
  ASSUME DispatchInv, UNCHANGED <<inputs, stack, result, calls, lateCalls>>,
         pc \notin {"enter", "resolve", "done"},
         pc' \in PCs \ {"resolve", "enter", "done"},
         visited' = visited, attempt' \in Nat,
         ctxDone' \in BOOLEAN, hasEmitted' \in BOOLEAN,
         BudgetOK', CutOK'
  PROVE  DispatchInv'
<1> USE DEF DispatchInv
<1>1. UNCHANGED inputs
  OBVIOUS
<1>2. TypeOK'
  BY <1>1, InputsKept DEF TypeOK
<1>3. StackOK'
  BY <1>1, InputsKept DEF StackOK
<1>4. ReachOK'
  BY <1>1, InputsKept DEF ReachOK
<1>5. QED
  BY <1>1, <1>2, <1>3, <1>4, InputsKept

\* The frame of the call under way.
LEMMA TopIsFrame ==
  ASSUME DispatchInv, stack # <<>>
  PROVE  /\ stack \in Seq(Frames) /\ Len(stack) \in Nat \ {0}
         /\ Len(stack) \in 1..Len(stack)
         /\ Top \in Frames /\ Top.agent \in AgentIDs /\ Top.next \in Nat \ {0}
         /\ Top.agent \in ReachableFrom(resolveAgent.agent)
         /\ Top.agent \in visited <=> pc # "enter"
         /\ RetriesOf(Top.agent) \in Nat /\ attempt \in Nat
         /\ calls \in [AgentIDs -> Nat] /\ lateCalls \in Nat
<1>1. stack \in Seq(Frames)
  BY DEF DispatchInv, TypeOK, Frames
<1>2. Len(stack) \in Nat \ {0} /\ Len(stack) \in 1..Len(stack) /\ Top \in Frames
  BY <1>1, TopFacts DEF Top
<1>3. Top.agent \in AgentIDs
  BY <1>2 DEF Frames
<1>4. RetriesOf(Top.agent) \in Nat
  BY <1>3, ConfigAssumption DEF RetriesOf, Config, DispatchInv
<1>5. /\ Top.agent \in ReachableFrom(resolveAgent.agent)
      /\ Top.agent \in visited <=> pc # "enter"
      /\ Top.next \in Nat \ {0}
  BY <1>2 DEF DispatchInv, StackOK, ReachOK, Top
<1>6. QED
  BY <1>1, <1>2, <1>3, <1>4, <1>5 DEF DispatchInv, TypeOK

\* Another attempt, or the last one failed.
LEMMA NextAttemptKeeps ==
  ASSUME DispatchInv, pc = "await", lateCalls = 0,
         NEW failure \in Failures, NextAttempt(failure),
         UNCHANGED <<inputs, visited, ctxDone, hasEmitted, calls, lateCalls>>
  PROVE  DispatchInv'
<1>1. CASE attempt >= RetriesOf(Top.agent) /\ Invoked(failure)
  BY <1>1, InvokedKeeps DEF Invoked, others
<1>2. CASE /\ attempt < RetriesOf(Top.agent) /\ attempt' = attempt + 1
           /\ pc' = "backoff" /\ UNCHANGED <<stack, result>>
  <2>1. stack # <<>>
    BY DEF DispatchInv, StackOK
  <2>2. BudgetOK'
    BY <1>2, <2>1, TopIsFrame, InputsKept DEF BudgetOK, DispatchInv, Top
  <2>3. CutOK'
    BY <1>2, InputsKept DEF CutOK, DispatchInv
  <2>4. QED
    BY <1>2, <2>1, <2>2, <2>3, TopIsFrame, MoveKeeps DEF PCs, DispatchInv, TypeOK
<1>3. QED
  BY <1>1, <1>2 DEF NextAttempt

-----------------------------------------------------------------------------
(* One lemma per action.                                                   *)

\* Routing.
LEMMA ResolveKeeps ==
  ASSUME DispatchInv, Resolve
  PROVE  DispatchInv'
<1> USE DEF DispatchInv, Resolve
<1>1. stack = <<>> /\ visited = {} /\ UNCHANGED inputs
  BY DEF StackOK
<1>2. /\ resolveAgent \in [code : {"ok"} \cup RoutingErrors,
                           agent : AgentIDs \cup {UnknownID, NONE}]
      /\ resolveAgent.code = "ok" => resolveAgent.agent \in AgentIDs
  BY RoutingFacts DEF TypeOK
<1>3. CASE resolveAgent.code = "ok"
  <2> DEFINE f == FrameOf(resolveAgent.agent)
  <2>1. stack' = <<f>> /\ f \in Frames /\ f.agent = resolveAgent.agent /\ f.next = 1
    BY <1>2, <1>3 DEF FrameOf, Frames
  <2>2. stack' \in Seq(Frames) /\ Len(stack') = 1 /\ stack'[1] = f /\ stack' # <<>>
    <3> HIDE DEF f
    <3>1. QED
      BY <2>1
  <2>3. pc' = "enter" /\ result' = result /\ result.code # "ok"
    BY <1>3 DEF CutOK
  <2> HIDE DEF f
  <2>4. TypeOK'
    BY <1>1, <2>2, <2>3, InputsKept DEF TypeOK, PCs, Frames
  <2>5. StackOK'
    BY <1>1, <1>3, <2>1, <2>2, <2>3, InputsKept DEF StackOK
  <2>6. BudgetOK'
    BY <1>1, <2>3, InputsKept DEF BudgetOK
  <2>7. CutOK'
    BY <1>1, <2>3, InputsKept DEF CutOK
  <2>8. ReachOK'
    BY <1>1, <1>2, <1>3, <2>1, <2>2, RootReached, InputsKept DEF ReachOK
  <2>9. QED
    BY <1>1, <2>4, <2>5, <2>6, <2>7, <2>8, InputsKept
<1>4. CASE resolveAgent.code # "ok"
  <2>1. stack' = stack /\ pc' = "done" /\ result' = resolveAgent
    BY <1>4
  <2>2. result'.code \in RoutingErrors /\ RoutingErrors \subseteq Codes
    BY <1>2, <1>4, <2>1 DEF RoutingErrors, Codes
  <2>3. result' \in Results
    BY <1>2, <2>1, <2>2 DEF Results
  <2>4. TypeOK'
    BY <1>1, <2>1, <2>3, InputsKept DEF TypeOK, PCs, Results
  <2>5. StackOK'
    BY <1>1, <2>1, InputsKept DEF StackOK
  <2>6. BudgetOK'
    BY <1>1, <2>1, InputsKept DEF BudgetOK
  <2>7. CutOK'
    BY <1>1, <2>1, <2>2, InputsKept DEF CutOK, RoutingErrors, Downstream
  <2>8. ReachOK'
    BY <1>1, <2>1, InputsKept DEF ReachOK
  <2>9. QED
    BY <1>1, <2>4, <2>5, <2>6, <2>7, <2>8, InputsKept
<1>5. QED
  BY <1>3, <1>4

\* An agent is entered for the first time: CYCLE_DETECTED is not returned.
LEMMA EnterKeeps ==
  ASSUME DispatchInv, Enter
  PROVE  DispatchInv'
<1> USE DEF DispatchInv
<1>1. pc = "enter" /\ stack # <<>> /\ UNCHANGED inputs
  BY DEF Enter, StackOK
<1>2. Top.agent \notin visited
  BY <1>1, TopIsFrame
<1>3. /\ visited' = visited \cup {Top.agent} /\ attempt' = 0 /\ pc' = "send"
      /\ UNCHANGED <<stack, result, ctxDone, hasEmitted, calls, lateCalls>>
  BY <1>2 DEF Enter
<1>4. TypeOK'
  BY <1>1, <1>3, TopIsFrame, InputsKept DEF TypeOK, PCs
<1>5. StackOK'
  BY <1>1, <1>3, TopIsFrame, InputsKept DEF StackOK, Top
<1>6. BudgetOK'
  BY <1>1, <1>2, <1>3, TopIsFrame, InputsKept DEF BudgetOK, Top
<1>7. CutOK'
  BY <1>1, <1>3, InputsKept DEF CutOK
<1>8. ReachOK'
  BY <1>1, <1>3, TopIsFrame, InputsKept DEF ReachOK
<1>9. QED
  BY <1>1, <1>4, <1>5, <1>6, <1>7, <1>8, InputsKept

\* The pause between attempts.
LEMMA BackoffKeeps ==
  ASSUME DispatchInv, Backoff
  PROVE  DispatchInv'
<1>1. pc = "backoff" /\ stack # <<>>
  BY DEF Backoff, DispatchInv, StackOK
<1>2. CASE ctxDone /\ Invoked("ctx")
  BY <1>1, <1>2, InvokedKeeps DEF Backoff, Invoked, others, Failures
<1>3. CASE pc' = "send" /\ UNCHANGED <<stack, attempt, result>>
  <2>1. BudgetOK'
    BY <1>1, <1>3, InputsKept DEF Backoff, BudgetOK, DispatchInv, Top
  <2>2. CutOK'
    BY <1>1, <1>3, InputsKept DEF Backoff, CutOK, DispatchInv
  <2>3. QED
    BY <1>1, <1>3, <2>1, <2>2, MoveKeeps DEF Backoff, PCs, DispatchInv, TypeOK
<1>4. QED
  BY <1>2, <1>3 DEF Backoff

\* A call is made within the budget, and at most one after cancellation.
LEMMA SendKeeps ==
  ASSUME DispatchInv, Send
  PROVE  DispatchInv'
<1>1. pc = "send" /\ stack # <<>> /\ UNCHANGED inputs
  BY DEF Send, DispatchInv, StackOK
<1>2. CASE Invoked("error") /\ UNCHANGED <<calls, lateCalls>>
  BY <1>1, <1>2, InvokedKeeps DEF Send, Invoked, others, Failures
<1>3. CASE /\ pc' = "await"
           /\ calls' = [calls EXCEPT ![Top.agent] = @ + 1]
           /\ lateCalls' = lateCalls + IF ctxDone THEN 1 ELSE 0
           /\ UNCHANGED <<stack, attempt, result>>
  <2> USE DEF DispatchInv
  <2>1. UNCHANGED <<visited, ctxDone, hasEmitted>>
    BY DEF Send
  <2>2. lateCalls = 0
    BY <1>1, TopIsFrame DEF CutOK
  <2>3. lateCalls' \in Nat /\ lateCalls' <= 1 /\ (lateCalls' > 0 => ctxDone)
    BY <1>3, <2>2
  <2>4. calls' \in [AgentIDs -> Nat]
    BY <1>1, <1>3, TopIsFrame
  <2>5. TypeOK'
    BY <1>1, <1>3, <2>1, <2>3, <2>4, InputsKept DEF TypeOK, PCs
  <2>6. StackOK'
    BY <1>1, <1>3, <2>1, InputsKept DEF StackOK
  <2>7. BudgetOK'
    BY <1>1, <1>3, <2>1, TopIsFrame, InputsKept DEF BudgetOK, Top
  <2>8. CutOK'
    BY <1>1, <1>3, <2>1, <2>3, InputsKept DEF CutOK
  <2>9. ReachOK'
    BY <1>1, <1>3, <2>1, InputsKept DEF ReachOK
  <2>10. QED
    BY <1>1, <2>5, <2>6, <2>7, <2>8, <2>9, InputsKept
<1>4. QED
  BY <1>2, <1>3 DEF Send

\* A call fails.
LEMMA DoFailsKeeps ==
  ASSUME DispatchInv, DoFails
  PROVE  DispatchInv'
<1>1. pc = "await"
  BY DEF DoFails
<1>2. CASE ctxDone
  BY <1>1, <1>2, InvokedKeeps DEF DoFails, Invoked, others, Failures
<1>3. CASE ~ctxDone
  <2>1. lateCalls = 0
    BY <1>3 DEF DispatchInv, CutOK, TypeOK
  <2>2. PICK failure \in {"timeout", "error"} : NextAttempt(failure)
    BY <1>3 DEF DoFails
  <2>3. QED
    BY <1>1, <2>1, <2>2, NextAttemptKeeps DEF DoFails, Failures
<1>4. QED
  BY <1>2, <1>3

\* A call is answered, by an error of the agent or by a response to read.
LEMMA AnswersKeep ==
  ASSUME DispatchInv, ServerError \/ Responds
  PROVE  DispatchInv'
<1>1. CASE ServerError
  BY <1>1, NextAttemptKeeps DEF ServerError, Failures
<1>2. CASE Responds
  <2>1. BudgetOK'
    BY <1>2, InputsKept DEF Responds, BudgetOK, DispatchInv
  <2>2. CutOK'
    BY <1>2, InputsKept DEF Responds, CutOK, DispatchInv
  <2>3. QED
    BY <1>2, <2>1, <2>2, MoveKeeps DEF Responds, PCs, DispatchInv, TypeOK
<1>3. QED
  BY <1>1, <1>2

\* The response is read.
LEMMA ReadingKeeps ==
  ASSUME DispatchInv, EmitEvent \/ ReadSucceeds \/ ReadFails
  PROVE  DispatchInv'
<1>1. CASE EmitEvent
  <2>1. BudgetOK'
    BY <1>1, InputsKept DEF EmitEvent, BudgetOK, DispatchInv
  <2>2. CutOK'
    BY <1>1, InputsKept DEF EmitEvent, CutOK, DispatchInv
  <2>3. QED
    BY <1>1, <2>1, <2>2, MoveKeeps DEF EmitEvent, PCs, DispatchInv, TypeOK
<1>2. CASE ReadSucceeds
  <2>1. pc = "read" /\ stack # <<>>
    BY <1>2 DEF ReadSucceeds, DispatchInv, StackOK
  <2>2. Ok \in Results /\ Ok.code = "ok"
    BY DEF Ok, Results, Codes
  <2>3. QED
    BY <1>2, <2>1, <2>2, ReturnKeeps DEF ReadSucceeds, others, Downstream
<1>3. CASE ReadFails
  BY <1>3, InvokedKeeps DEF ReadFails, Invoked, others, Failures
<1>4. QED
  BY <1>1, <1>2, <1>3

\* The caller's context is done.
LEMMA CancelKeeps ==
  ASSUME DispatchInv, Cancel
  PROVE  DispatchInv'
<1> USE DEF DispatchInv, Cancel
<1>1. UNCHANGED inputs
  OBVIOUS
<1>2. TypeOK'
  BY <1>1, InputsKept DEF TypeOK
<1>3. StackOK'
  BY <1>1, InputsKept DEF StackOK
<1>4. BudgetOK'
  BY <1>1, InputsKept DEF BudgetOK, Top
<1>5. CutOK'
  BY <1>1, InputsKept DEF CutOK
<1>6. ReachOK'
  BY <1>1, InputsKept DEF ReachOK
<1>7. QED
  BY <1>1, <1>2, <1>3, <1>4, <1>5, <1>6, InputsKept

\* What the dispatcher returns when it is cut short.
LEMMA CutResults ==
  /\ Error("ctx", NONE) \in Results /\ Error("raw", NONE) \in Results
  /\ Error("ctx", NONE).code = "ctx" /\ Error("raw", NONE).code = "raw"
BY DEF Error, Results, Codes

\* The invocation has failed: is the request cut short?
LEMMA AfterInvokeKeeps ==
  ASSUME DispatchInv, AfterInvoke
  PROVE  DispatchInv'
<1>1. pc = "invoked" /\ stack # <<>> /\ result.code # "ok"
  BY DEF AfterInvoke, DispatchInv, StackOK, CutOK
<1>2. UNCHANGED <<inputs, others>>
  BY DEF AfterInvoke, others
<1>3. CASE hasEmitted
  BY <1>1, <1>2, <1>3, CutResults, ReturnKeeps DEF AfterInvoke, Downstream
<1>4. CASE ~hasEmitted /\ ctxDone
  BY <1>1, <1>2, <1>4, CutResults, ReturnKeeps DEF AfterInvoke, Downstream
<1>5. CASE ~hasEmitted /\ ~ctxDone
  <2>1. stack' = stack /\ pc' = "cascade" /\ result' = result
    BY <1>5 DEF AfterInvoke
  <2>2. SameAgents(stack, stack')
    BY <1>1, <2>1, TopIsFrame DEF SameAgents
  <2>3. QED
    BY <1>1, <1>2, <1>5, <2>1, <2>2, SettleKeeps
<1>6. QED
  BY <1>3, <1>4, <1>5

\* A fallback is pushed: it is an agent that was not visited.
LEMMA PushKeeps ==
  ASSUME DispatchInv, pc = "cascade", stack # <<>>, ~ctxDone, ~hasEmitted,
         Top.next \in DOMAIN FallbacksOf(Top.agent),
         NEW fallback, fallback = FallbacksOf(Top.agent)[Top.next],
         fallback \notin visited, GetAgent(fallback).code = "ok",
         stack' = Append(stack, FrameOf(fallback)), pc' = "enter",
         result' = result, UNCHANGED <<inputs, others>>
  PROVE  DispatchInv'
<1> USE DEF DispatchInv, others
<1>1. /\ fallback \in AgentIDs /\ mode # "single"
      /\ fallback \in ReachableFrom(resolveAgent.agent)
  BY TopIsFrame, FallbackFacts DEF TypeOK
<1>2. /\ stack' \in Seq(Frames) /\ stack' # <<>> /\ Len(stack') = Len(stack) + 1
      /\ \A i \in 1..Len(stack) : stack'[i] = stack[i]
      /\ stack'[Len(stack')] = FrameOf(fallback)
  BY <1>1, TopIsFrame, PushFacts
<1>3. /\ Len(stack) \in Nat \ {0}
      /\ \A i \in 1..Len(stack') : i \in 1..Len(stack) \/ i = Len(stack')
      /\ FrameOf(fallback).agent = fallback /\ FrameOf(fallback).next = 1
      /\ stack'[1] = stack[1]
  BY <1>2, TopIsFrame DEF FrameOf
<1>4. UNCHANGED inputs
  OBVIOUS
<1>5. TypeOK'
  BY <1>2, <1>4, InputsKept DEF TypeOK, PCs, Frames
<1>6. StackOK'
  BY <1>1, <1>2, <1>3, <1>4, InputsKept DEF StackOK
<1>7. BudgetOK'
  BY <1>4, InputsKept DEF BudgetOK
<1>8. CutOK'
  BY <1>4, InputsKept DEF CutOK
<1>9. ReachOK'
  BY <1>1, <1>2, <1>3, <1>4, InputsKept DEF ReachOK
<1>10. QED
  BY <1>4, <1>5, <1>6, <1>7, <1>8, <1>9, InputsKept

\* The positions of a fallback list.
LEMMA ListFacts ==
  ASSUME cfg \in Configs, NEW a \in AgentIDs
  PROVE  /\ DOMAIN FallbacksOf(a) = 1..Len(FallbacksOf(a))
         /\ Len(FallbacksOf(a)) \in Nat
<1>1. FallbacksOf(a) \in Seq(AgentIDs \cup {UnknownID})
  BY ConfigAssumption, EmptySeq DEF FallbacksOf, Config
<1>2. QED
  BY <1>1, LenProperties

\* One iteration of the loop over the fallbacks.
LEMMA TryFallbackKeeps ==
  ASSUME DispatchInv, TryFallback
  PROVE  DispatchInv'
<1>1. pc = "cascade" /\ stack # <<>> /\ ~hasEmitted /\ result.code # "ok"
  BY DEF TryFallback, DispatchInv, StackOK, CutOK
<1>2. UNCHANGED <<inputs, others>>
  BY DEF TryFallback, others
<1>3. Top.next \in DOMAIN FallbacksOf(Top.agent)
  BY <1>1, TopIsFrame, ListFacts DEF TryFallback, DispatchInv
<1> DEFINE fallback == FallbacksOf(Top.agent)[Top.next]
<1>4. CASE ctxDone
  BY <1>1, <1>2, <1>4, CutResults, ReturnKeeps DEF TryFallback, Downstream
<1>5. CASE ~ctxDone /\ (fallback \in visited \/ GetAgent(fallback).code # "ok")
  BY <1>1, <1>2, <1>5, SkipKeeps DEF TryFallback
<1>6. CASE ~ctxDone /\ fallback \notin visited /\ GetAgent(fallback).code = "ok"
  BY <1>1, <1>2, <1>3, <1>6, PushKeeps DEF TryFallback
<1>7. QED
  BY <1>4, <1>5, <1>6

\* A fallback has returned.
LEMMA FallbackReturnedKeeps ==
  ASSUME DispatchInv, FallbackReturned
  PROVE  DispatchInv'
<1>1. pc = "returned" /\ stack # <<>> /\ UNCHANGED <<inputs, others>>
  BY DEF FallbackReturned, DispatchInv, StackOK, others
<1>2. CASE result.code = "ok" \/ hasEmitted
  <2>1. result \in Results /\ result.code \in {"ok", "raw"}
    BY <1>1, <1>2 DEF DispatchInv, TypeOK, CutOK, Results
  <2>2. QED
    BY <1>1, <1>2, <2>1, ReturnKeeps DEF FallbackReturned, Downstream
<1>3. CASE ~(result.code = "ok" \/ hasEmitted)
  BY <1>1, <1>3, SkipKeeps DEF FallbackReturned
<1>4. QED
  BY <1>2, <1>3

\* The list of fallbacks is exhausted.
LEMMA GiveUpKeeps ==
  ASSUME DispatchInv, GiveUp
  PROVE  DispatchInv'
<1>1. pc = "cascade" /\ stack # <<>> /\ ~hasEmitted /\ UNCHANGED <<inputs, others>>
  BY DEF GiveUp, DispatchInv, StackOK, CutOK, others
<1>2. CASE ctxDone
  BY <1>1, <1>2, CutResults, ReturnKeeps DEF GiveUp, Downstream
<1>3. CASE ~ctxDone
  <2>1. PICK code \in Downstream : Return(Error(code, Top.agent))
    BY <1>3 DEF GiveUp, Downstream
  <2>2. /\ Error(code, Top.agent) \in Results
        /\ Error(code, Top.agent).code = code
        /\ Error(code, Top.agent).agent = Top.agent
    BY <1>1, TopIsFrame DEF Error, Results, Downstream, Codes
  <2>3. Len(stack) = 1 => Top.agent = resolveAgent.agent
    BY <1>1 DEF DispatchInv, StackOK, Top
  <2>4. code # "CYCLE_DETECTED"
    BY DEF Downstream
  <2>5. QED
    BY <1>1, <1>3, <2>1, <2>2, <2>3, <2>4, ReturnKeeps
<1>4. QED
  BY <1>2, <1>3

\* DispatchInv is inductive.
LEMMA NextKeeps ==
  ASSUME DispatchInv, [Next]_vars
  PROVE  DispatchInv'
<1>1. CASE UNCHANGED vars
  <2>1. UNCHANGED inputs
    BY <1>1 DEF vars, inputs
  <2>2. TypeOK'
    BY <1>1, <2>1, InputsKept DEF vars, DispatchInv, TypeOK
  <2>3. StackOK'
    BY <1>1, <2>1, InputsKept DEF vars, DispatchInv, StackOK
  <2>4. BudgetOK'
    BY <1>1, <2>1, InputsKept DEF vars, DispatchInv, BudgetOK, Top
  <2>5. CutOK'
    BY <1>1, <2>1, InputsKept DEF vars, DispatchInv, CutOK
  <2>6. ReachOK'
    BY <1>1, <2>1, InputsKept DEF vars, DispatchInv, ReachOK
  <2>7. QED
    BY <2>1, <2>2, <2>3, <2>4, <2>5, <2>6, InputsKept DEF DispatchInv
<1>2. CASE Step
  BY <1>2, ResolveKeeps, EnterKeeps, BackoffKeeps, SendKeeps, DoFailsKeeps,
     AnswersKeep, ReadingKeeps, AfterInvokeKeeps, TryFallbackKeeps,
     FallbackReturnedKeeps, GiveUpKeeps DEF Step
<1>3. CASE Cancel
  BY <1>3, CancelKeeps
<1>4. QED
  BY <1>1, <1>2, <1>3 DEF Next

\* An inductive state is within the budget.
LEMMA BudgetFollows ==
  ASSUME DispatchInv
  PROVE  CallsWithinBudget
<1> USE DEF DispatchInv
<1>1. \A a \in AgentIDs : calls[a] > 0 => a \in visited
  BY DEF BudgetOK
<1>2. mode = "single" => visited \subseteq {resolveAgent.agent}
  <2>1. ASSUME mode = "single", NEW a \in AgentIDs,
               a \in ReachableFrom(resolveAgent.agent), a # resolveAgent.agent,
               resolveAgent.agent \in AgentIDs
        PROVE  FALSE
    <3> DEFINE S == {resolveAgent.agent}
    <3>1. S \in SUBSET AgentIDs
      BY <2>1
    <3>2. \A c \in S : \A i \in DOMAIN FallbacksOf(c) : FallbacksOf(c)[i] \in S
      BY <2>1 DEF FallbacksOf
    <3>3. a \in S
      BY <2>1, <3>1, <3>2, Zenon DEF ReachableFrom
    <3>4. QED
      BY <2>1, <3>3
  <2>2. visited # {} => resolveAgent.agent \in AgentIDs
    BY RoutingFacts DEF StackOK, TypeOK
  <2>3. QED
    BY <2>1, <2>2 DEF ReachOK, TypeOK
<1>3. QED
  BY <1>1, <1>2 DEF CallsWithinBudget, BudgetOK, CutOK

\* While an event is out, no step calls an agent.
LEMMA EmittedIsQuiet ==
  ASSUME DispatchInv, [Next]_vars, hasEmitted
  PROVE  calls' = calls
<1>1. pc # "send"
  BY DEF DispatchInv, CutOK
<1>2. QED
  BY <1>1 DEF vars, Next, Step, Resolve, Enter, Backoff, Send, DoFails, ServerError,
     Responds, EmitEvent, ReadSucceeds, ReadFails, AfterInvoke, TryFallback,
     FallbackReturned, GiveUp, Cancel

-----------------------------------------------------------------------------
(* Every step preserves Exploration.                                       *)

\* The lists are those of the configuration.
LEMMA ListsFacts ==
  ASSUME cfg \in Configs
  PROVE  /\ \A a \in AgentIDs : Lists[a] = FallbacksOf(a)
         /\ \A a \in AgentIDs : DOMAIN Lists[a] = 1..Len(Lists[a])
         /\ \A a \in AgentIDs : Len(Lists[a]) \in Nat
BY ListFacts DEF Lists

\* No step changes them.
LEMMA ListsKept ==
  ASSUME UNCHANGED inputs
  PROVE  Lists' = Lists
BY InputsKept DEF Lists

\* The walk goes on with other records of errors, and with its top visited.
LEMMA WalkStays ==
  ASSUME NEW F, NEW v, NEW w, NEW s, NEW t, Walk(F, v, s),
         Len(s) \in Nat, Len(t) = Len(s),
         \A i \in 1..Len(s) : t[i].agent = s[i].agent /\ t[i].next = s[i].next,
         v \subseteq w,
         \A a \in w \ v : \E i \in 1..Len(s) : s[i].agent = a
  PROVE  Walk(F, w, t)
<1>1. \A i \in 1..Len(t) : Tried(F, w, t[i].agent, t[i].next - 1)
  BY DEF Walk, Tried
<1>2. ASSUME NEW i \in 1..Len(t), i < Len(t)
      PROVE  /\ t[i].next \in DOMAIN F[t[i].agent]
             /\ F[t[i].agent][t[i].next] = t[i + 1].agent
  <2>1. i \in 1..Len(s) /\ i + 1 \in 1..Len(s) /\ i < Len(s)
    BY <1>2
  <2>2. QED
    BY <2>1 DEF Walk
<1>3. ASSUME NEW a \in w
      PROVE  \/ \E i \in 1..Len(t) : t[i].agent = a
             \/ \A j \in DOMAIN F[a] : F[a][j] \in w
  BY DEF Walk
<1>4. QED
  BY <1>1, <1>2, <1>3 DEF Walk

\* The top moves on past a fallback that was tried.
LEMMA WalkSkips ==
  ASSUME NEW F, NEW v, NEW s, NEW t, Walk(F, v, s),
         Len(s) \in Nat \ {0}, Len(t) = Len(s),
         \A i \in 1..Len(s) :
           /\ t[i].agent = s[i].agent
           /\ t[i].next = IF i = Len(s) THEN s[i].next + 1 ELSE s[i].next,
         s[Len(s)].next \in Nat,
         Tried(F, v, s[Len(s)].agent, s[Len(s)].next)
  PROVE  Walk(F, v, t)
<1>1. ASSUME NEW i \in 1..Len(t)
      PROVE  Tried(F, v, t[i].agent, t[i].next - 1)
  <2>1. CASE i = Len(s)
    BY <2>1
  <2>2. CASE i # Len(s)
    BY <2>2 DEF Walk
  <2>3. QED
    BY <2>1, <2>2
<1>2. ASSUME NEW i \in 1..Len(t), i < Len(t)
      PROVE  /\ t[i].next \in DOMAIN F[t[i].agent]
             /\ F[t[i].agent][t[i].next] = t[i + 1].agent
  <2>1. i \in 1..Len(s) /\ i + 1 \in 1..Len(s) /\ i < Len(s)
    BY <1>2
  <2>2. QED
    BY <2>1 DEF Walk
<1>3. ASSUME NEW a \in v
      PROVE  \/ \E i \in 1..Len(t) : t[i].agent = a
             \/ \A j \in DOMAIN F[a] : F[a][j] \in v
  BY DEF Walk
<1>4. QED
  BY <1>1, <1>2, <1>3 DEF Walk

\* The fallback at the position of the top gets a frame.
LEMMA WalkPushes ==
  ASSUME NEW F, NEW v, NEW s, NEW t, Walk(F, v, s),
         Len(s) \in Nat \ {0}, Len(t) = Len(s) + 1,
         \A i \in 1..Len(s) : t[i] = s[i], t[Len(t)].next = 1,
         \A j \in DOMAIN F[t[Len(t)].agent] : j \in Nat \ {0},
         s[Len(s)].next \in DOMAIN F[s[Len(s)].agent],
         F[s[Len(s)].agent][s[Len(s)].next] = t[Len(t)].agent
  PROVE  Walk(F, v, t)
<1>1. ASSUME NEW i \in 1..Len(t)
      PROVE  Tried(F, v, t[i].agent, t[i].next - 1)
  <2>1. CASE i = Len(t)
    BY <2>1 DEF Tried
  <2>2. CASE i # Len(t)
    BY <2>2 DEF Walk
  <2>3. QED
    BY <2>1, <2>2
<1>2. ASSUME NEW i \in 1..Len(t), i < Len(t)
      PROVE  /\ t[i].next \in DOMAIN F[t[i].agent]
             /\ F[t[i].agent][t[i].next] = t[i + 1].agent
  <2>1. CASE i = Len(s)
    BY <2>1
  <2>2. CASE i < Len(s)
    <3>1. i \in 1..Len(s) /\ i + 1 \in 1..Len(s)
      BY <2>2
    <3>2. QED
      BY <2>2, <3>1 DEF Walk
  <2>3. QED
    BY <1>2, <2>1, <2>2
<1>3. ASSUME NEW a \in v
      PROVE  \/ \E i \in 1..Len(t) : t[i].agent = a
             \/ \A j \in DOMAIN F[a] : F[a][j] \in v
  <2>1. \A i \in 1..Len(s) : i \in 1..Len(t) /\ t[i] = s[i]
    OBVIOUS
  <2>2. QED
    BY <2>1 DEF Walk
<1>4. QED
  BY <1>1, <1>2, <1>3 DEF Walk

\* The top has tried its whole list and goes; it was the fallback at the
\* position of the frame below, which is the new top.
LEMMA WalkPops ==
  ASSUME NEW F, NEW v, NEW s, NEW t, Walk(F, v, s),
         Len(s) \in Nat \ {0}, Len(t) = Len(s) - 1,
         \A i \in 1..Len(t) : t[i] = s[i] /\ s[i].next \in Nat,
         \A i \in 1..Len(t) : \A j \in DOMAIN F[s[i].agent] : j \in Nat,
         s[Len(s)].agent \in v,
         \A j \in DOMAIN F[s[Len(s)].agent] : F[s[Len(s)].agent][j] \in v
  PROVE  /\ Walk(F, v, t)
         /\ Len(t) # 0 => Tried(F, v, t[Len(t)].agent, t[Len(t)].next)
<1>1. \A i \in 1..Len(t) : Tried(F, v, t[i].agent, t[i].next - 1)
  BY DEF Walk
<1>2. ASSUME NEW i \in 1..Len(t), i < Len(t)
      PROVE  /\ t[i].next \in DOMAIN F[t[i].agent]
             /\ F[t[i].agent][t[i].next] = t[i + 1].agent
  <2>1. i + 1 \in 1..Len(t) /\ i \in 1..Len(s) /\ i < Len(s)
    BY <1>2
  <2>2. QED
    BY <2>1 DEF Walk
<1>3. ASSUME NEW a \in v
      PROVE  \/ \E i \in 1..Len(t) : t[i].agent = a
             \/ \A j \in DOMAIN F[a] : F[a][j] \in v
  <2>1. \A i \in 1..Len(s) : i = Len(s) \/ (i \in 1..Len(t) /\ t[i] = s[i])
    OBVIOUS
  <2>2. QED
    BY <2>1 DEF Walk
<1>4. ASSUME Len(t) # 0
      PROVE  Tried(F, v, t[Len(t)].agent, t[Len(t)].next)
  <2>1. /\ Len(t) \in 1..Len(s) /\ Len(t) < Len(s) /\ Len(t) + 1 = Len(s)
        /\ Len(t) \in 1..Len(t) /\ t[Len(t)] = s[Len(t)]
    BY <1>4
  <2>2. F[t[Len(t)].agent][t[Len(t)].next] \in v
    BY <2>1 DEF Walk
  <2> DEFINE f == t[Len(t)]
  <2>3. Tried(F, v, f.agent, f.next - 1) /\ f.next \in Nat
    BY <1>1, <2>1
  <2>4. \A j \in DOMAIN F[f.agent] : j \in Nat
    BY <2>1
  <2> HIDE DEF f
  <2>5. ASSUME NEW j \in DOMAIN F[f.agent], j <= f.next
        PROVE  F[f.agent][j] \in v
    <3>1. j = f.next \/ j <= f.next - 1
      BY <2>3, <2>4, <2>5
    <3>2. F[f.agent][f.next] \in v
      BY <2>2 DEF f
    <3>3. QED
      BY <2>3, <3>1, <3>2 DEF Tried
  <2>6. QED
    BY <2>5 DEF Tried, f
<1>5. QED
  BY <1>1, <1>2, <1>3, <1>4 DEF Walk

\* The frames keep their agents and positions, and the call does not return.
LEMMA QuietExplores ==
  ASSUME DispatchInv, Exploration, Alive' => Alive, UNCHANGED inputs,
         Len(stack') = Len(stack),
         \A i \in 1..Len(stack) :
           stack'[i].agent = stack[i].agent /\ stack'[i].next = stack[i].next,
         visited \subseteq visited',
         \A a \in visited' \ visited : \E i \in 1..Len(stack) : stack[i].agent = a,
         pc' # "returned"
  PROVE  Exploration'
<1>1. Len(stack) \in Nat
  BY DEF DispatchInv, TypeOK
<1>2. Alive' => Walk(Lists', visited', stack')
  BY <1>1, ListsKept, WalkStays DEF Exploration
<1>3. QED
  BY <1>2 DEF Exploration

\* An invocation ends in an error.
LEMMA InvokedExplores ==
  ASSUME DispatchInv, Exploration, stack # <<>>, NEW failure \in Failures,
         Invoked(failure), UNCHANGED <<inputs, visited, ctxDone, hasEmitted>>
  PROVE  Exploration'
<1>1. /\ SameAgents(stack, stack')
      /\ \A i \in 1..Len(stack) : stack'[i].next = stack[i].next
  <2>1. stack \in Seq(Frames)
    BY TopIsFrame
  <2>2. stack' = [stack EXCEPT ![Len(stack)].err = failure]
    BY DEF Invoked
  <2>3. QED
    BY <2>1, <2>2, MarkFacts
<1>2. QED
  BY <1>1, QuietExplores DEF SameAgents, Invoked, Alive

\* A call that returns because the request is cut short or served.
LEMMA CutExplores ==
  ASSUME ~Alive'
  PROVE  Exploration'
BY DEF Exploration

\* The call moves on past a fallback that was tried.
LEMMA SkipExplores ==
  ASSUME DispatchInv, Exploration, stack # <<>>, Alive' => Alive,
         stack' = Skip, pc' # "returned", UNCHANGED <<inputs, visited>>,
         Alive => Tried(Lists, visited, Top.agent, Top.next)
  PROVE  Exploration'
<1>1. /\ Len(stack') = Len(stack) /\ Len(stack) \in Nat \ {0}
      /\ \A i \in 1..Len(stack) :
           /\ stack'[i].agent = stack[i].agent
           /\ stack'[i].next = IF i = Len(stack) THEN stack[i].next + 1
                               ELSE stack[i].next
  BY TopIsFrame, SkipFacts DEF SameAgents, Skip
<1>2. Alive' => Walk(Lists', visited', stack')
  <2>1. Top.next \in Nat
    BY TopIsFrame
  <2>2. QED
    BY <1>1, <2>1, ListsKept, WalkSkips DEF Exploration, Top
<1>3. QED
  BY <1>2 DEF Exploration

\* A fallback is called.
LEMMA PushExplores ==
  ASSUME DispatchInv, Exploration, stack # <<>>, Alive' => Alive,
         NEW fallback \in AgentIDs,
         Top.next \in DOMAIN FallbacksOf(Top.agent),
         fallback = FallbacksOf(Top.agent)[Top.next],
         stack' = Append(stack, FrameOf(fallback)), pc' # "returned",
         UNCHANGED <<inputs, visited>>
  PROVE  Exploration'
<1>1. /\ Len(stack') = Len(stack) + 1 /\ Len(stack) \in Nat \ {0}
      /\ \A i \in 1..Len(stack) : stack'[i] = stack[i]
      /\ stack'[Len(stack')].agent = fallback /\ stack'[Len(stack')].next = 1
  BY TopIsFrame, PushFacts DEF FrameOf
<1>2. /\ Top.next \in DOMAIN Lists[Top.agent]
      /\ Lists[Top.agent][Top.next] = fallback
      /\ \A j \in DOMAIN Lists[fallback] : j \in Nat \ {0}
  <2>1. cfg \in Configs
    BY DEF DispatchInv
  <2>2. Top.agent \in AgentIDs
    BY TopIsFrame
  <2>3. Lists[Top.agent] = FallbacksOf(Top.agent)
    BY <2>1, <2>2, ListsFacts
  <2>4. DOMAIN Lists[fallback] = 1..Len(Lists[fallback]) /\ Len(Lists[fallback]) \in Nat
    BY <2>1, ListsFacts
  <2>5. QED
    BY <2>3, <2>4
<1>3. Alive' => Walk(Lists', visited', stack')
  BY <1>1, <1>2, ListsKept, WalkPushes DEF Exploration, Top
<1>4. QED
  BY <1>3 DEF Exploration

\* A call that has tried its whole list returns.
LEMMA PopExplores ==
  ASSUME DispatchInv, Exploration, stack # <<>>, pc # "enter", Alive' => Alive,
         NEW res, Return(res), UNCHANGED <<inputs, visited>>,
         Alive => \A j \in DOMAIN Lists[Top.agent] : Lists[Top.agent][j] \in visited
  PROVE  Exploration'
<1>1. /\ Len(stack') = Len(stack) - 1 /\ Len(stack) \in Nat \ {0}
      /\ \A i \in 1..Len(stack') : i \in 1..Len(stack) /\ stack'[i] = stack[i]
  BY TopIsFrame, PopFacts DEF Return
<1>2. \A i \in 1..Len(stack) : stack[i].next \in Nat /\ stack[i].agent \in AgentIDs
  BY TopIsFrame, TopFacts DEF Frames
<1>3. \A i \in 1..Len(stack') : \A j \in DOMAIN Lists[stack[i].agent] : j \in Nat
  BY <1>1, <1>2, ListsFacts DEF DispatchInv
<1>4. Top.agent \in visited
  BY TopIsFrame
<1>5. \A i \in 1..Len(stack') : stack'[i] = stack[i] /\ stack[i].next \in Nat
  BY <1>1, <1>2
<1>6. Alive' => /\ Walk(Lists, visited, stack')
                /\ Len(stack') # 0 =>
                     Tried(Lists, visited, stack'[Len(stack')].agent,
                           stack'[Len(stack')].next)
  BY <1>1, <1>3, <1>4, <1>5, WalkPops DEF Exploration, Top
<1>7. pc' = "returned" => Len(stack') # 0
  BY <1>1 DEF Return
<1>8. QED
  BY <1>6, <1>7, ListsKept DEF Exploration, Top

\* The steps that keep agents and positions.
LEMMA CallsExplore ==
  ASSUME DispatchInv, Exploration,
         \/ UNCHANGED vars \/ Cancel \/ Backoff \/ Send \/ DoFails
         \/ ServerError \/ Responds \/ EmitEvent \/ ReadFails
  PROVE  Exploration'
<1>1. CASE UNCHANGED <<inputs, stack, visited, result>> /\ pc' # "returned"
           /\ (ctxDone => ctxDone') /\ (hasEmitted => hasEmitted')
  BY <1>1, QuietExplores DEF Alive
<1>2. CASE /\ \E failure \in Failures : Invoked(failure)
           /\ UNCHANGED <<inputs, visited, ctxDone, hasEmitted>>
           /\ pc \in {"backoff", "send", "await", "read"}
  <2>1. stack # <<>>
    BY <1>2 DEF DispatchInv, StackOK
  <2>2. QED
    BY <1>2, <2>1, InvokedExplores
<1>3. CASE UNCHANGED vars
  <2>1. Lists' = Lists
    BY <1>3, ListsKept DEF vars, inputs
  <2>2. QED
    BY <1>3, <2>1 DEF vars, Exploration, Alive, Top
<1>4. CASE Cancel
  BY <1>4, CutExplores DEF Cancel, Alive
<1>5. CASE Backoff
  BY <1>1, <1>2, <1>5 DEF Backoff, Failures
<1>6. CASE Send
  BY <1>1, <1>2, <1>6 DEF Send, Failures
<1>7. CASE DoFails
  BY <1>1, <1>2, <1>7 DEF DoFails, Failures, NextAttempt
<1>8. CASE ServerError
  BY <1>1, <1>2, <1>8 DEF ServerError, Failures, NextAttempt
<1>9. CASE Responds
  BY <1>1, <1>9 DEF Responds
<1>10. CASE EmitEvent
  BY <1>10, CutExplores DEF EmitEvent, Alive
<1>11. CASE ReadFails
  BY <1>2, <1>11 DEF ReadFails, Failures
<1>12. QED
  BY <1>3, <1>4, <1>5, <1>6, <1>7, <1>8, <1>9, <1>10, <1>11

\* The walk begins: nothing is visited and the first frame is at its first
\* position.
LEMMA ResolveExplores ==
  ASSUME DispatchInv, Resolve
  PROVE  Exploration'
<1>1. stack = <<>> /\ visited' = {} /\ UNCHANGED inputs /\ pc' # "returned"
  BY DEF Resolve, DispatchInv, StackOK
<1>2. CASE resolveAgent.code = "ok"
  <2> DEFINE f == FrameOf(resolveAgent.agent)
  <2>1. f.agent \in AgentIDs /\ f.next = 1
    BY <1>2, RoutingFacts DEF FrameOf, DispatchInv, TypeOK
  <2>2. stack' = <<f>>
    BY <1>2 DEF Resolve
  <2>3. \A j \in DOMAIN Lists[f.agent] : j \in Nat \ {0}
    BY <2>1, ListsFacts DEF DispatchInv
  <2> HIDE DEF f
  <2>4. Len(stack') = 1 /\ stack'[1] = f
    BY <2>2
  <2>5. Walk(Lists, visited', stack')
    BY <1>1, <2>1, <2>3, <2>4 DEF Walk, Tried
  <2>6. QED
    BY <1>1, <2>5, ListsKept DEF Exploration
<1>3. CASE resolveAgent.code # "ok"
  <2>1. stack' = <<>>
    BY <1>1, <1>3 DEF Resolve
  <2>2. Walk(Lists, visited', stack')
    BY <1>1, <2>1 DEF Walk
  <2>3. QED
    BY <1>1, <2>2, ListsKept DEF Exploration
<1>4. QED
  BY <1>2, <1>3

\* The steps of dispatchWithFallback.
LEMMA FallbacksExplore ==
  ASSUME DispatchInv, ReferencesExist, Exploration,
         \/ Enter \/ ReadSucceeds \/ AfterInvoke \/ TryFallback
         \/ FallbackReturned \/ GiveUp
  PROVE  Exploration'
<1>0. stack # <<>>
  BY DEF DispatchInv, StackOK, Enter, ReadSucceeds, AfterInvoke, TryFallback,
     FallbackReturned, GiveUp
<1>1. CASE Enter
  <2>1. pc = "enter" /\ Top.agent \notin visited
    BY <1>0, <1>1, TopIsFrame DEF Enter
  <2>2. /\ visited' = visited \cup {Top.agent} /\ pc' = "send"
        /\ UNCHANGED <<inputs, stack, result, ctxDone, hasEmitted>>
    BY <1>1, <2>1 DEF Enter
  <2>3. \A a \in visited' \ visited : \E i \in 1..Len(stack) : stack[i].agent = a
    BY <1>0, <2>2, TopIsFrame DEF Top
  <2>4. QED
    BY <2>2, <2>3, QuietExplores DEF Alive
<1>2. CASE ReadSucceeds
  BY <1>2, CutExplores DEF ReadSucceeds, Return, Ok, Alive
<1>3. CASE AfterInvoke
  <2>1. CASE hasEmitted \/ ctxDone
    BY <1>3, <2>1, CutExplores DEF AfterInvoke, Alive
  <2>2. CASE ~(hasEmitted \/ ctxDone)
    BY <1>3, <2>2, QuietExplores DEF AfterInvoke, Alive
  <2>3. QED
    BY <2>1, <2>2
<1>4. CASE TryFallback
  <2>1. CASE hasEmitted \/ ctxDone
    BY <1>4, <2>1, CutExplores DEF TryFallback, Alive
  <2>2. CASE ~hasEmitted /\ ~ctxDone
    <3>1. /\ Top.next \in DOMAIN FallbacksOf(Top.agent)
          /\ Top.next \in Nat /\ Top.agent \in AgentIDs /\ pc = "cascade"
      BY <1>0, <1>4, TopIsFrame, ListFacts DEF TryFallback, DispatchInv
    <3> DEFINE fallback == FallbacksOf(Top.agent)[Top.next]
    <3>2. fallback \in Configured /\ fallback \in AgentIDs /\ GetAgent(fallback).code = "ok"
      BY <3>1, FallbackFacts DEF ReferencesExist, DispatchInv, TypeOK
    <3>3. UNCHANGED <<inputs, visited, ctxDone, hasEmitted>>
      BY <1>4 DEF TryFallback
    <3>4. CASE fallback \in visited
      <4>1. stack' = Skip /\ UNCHANGED <<pc, result>>
        BY <1>4, <2>2, <3>4 DEF TryFallback
      <4>2. Alive => Tried(Lists, visited, Top.agent, Top.next - 1)
        BY <1>0, TopIsFrame DEF Exploration, Walk, Top
      <4>3. Lists[Top.agent] = FallbacksOf(Top.agent)
        BY <3>1, ListsFacts DEF DispatchInv
      <4>4. \A j \in DOMAIN Lists[Top.agent] : j \in Nat
        BY <3>1, ListsFacts DEF DispatchInv
      <4>5. Alive => Tried(Lists, visited, Top.agent, Top.next)
        BY <3>1, <3>4, <4>2, <4>3, <4>4 DEF Tried
      <4>6. QED
        BY <1>0, <3>1, <3>3, <4>1, <4>5, SkipExplores DEF Alive
    <3>5. CASE fallback \notin visited
      <4>1. stack' = Append(stack, FrameOf(fallback)) /\ pc' = "enter" /\ result' = result
        BY <1>4, <2>2, <3>2, <3>5 DEF TryFallback
      <4>2. QED
        BY <1>0, <3>1, <3>2, <3>3, <4>1, PushExplores DEF Alive
    <3>6. QED
      BY <3>4, <3>5
  <2>3. QED
    BY <2>1, <2>2
<1>5. CASE FallbackReturned
  <2>1. CASE result.code = "ok" \/ hasEmitted
    BY <1>5, <2>1, CutExplores DEF FallbackReturned, Return, Alive
  <2>2. CASE ~(result.code = "ok" \/ hasEmitted)
    BY <1>0, <1>5, <2>2, SkipExplores DEF FallbackReturned, Alive, Exploration
  <2>3. QED
    BY <2>1, <2>2
<1>6. CASE GiveUp
  <2>1. CASE ctxDone
    BY <1>6, <2>1, CutExplores DEF GiveUp, Alive
  <2>2. CASE ~ctxDone
    <3>1. /\ Top.agent \in AgentIDs /\ Top.next \in Nat /\ pc = "cascade"
          /\ Top.next > Len(Lists[Top.agent])
          /\ Len(Lists[Top.agent]) \in Nat
          /\ DOMAIN Lists[Top.agent] = 1..Len(Lists[Top.agent])
      BY <1>0, <1>6, TopIsFrame, ListsFacts DEF GiveUp, DispatchInv
    <3>2. Alive => Tried(Lists, visited, Top.agent, Top.next - 1)
      BY <1>0, TopIsFrame DEF Exploration, Walk, Top
    <3>3. Alive => \A j \in DOMAIN Lists[Top.agent] : Lists[Top.agent][j] \in visited
      BY <3>1, <3>2 DEF Tried
    <3>4. result.code # "ok"
      BY <3>1 DEF DispatchInv, CutOK
    <3>5. PICK res : Return(res)
      BY <1>6 DEF GiveUp
    <3>6. Alive' => Alive
      BY <1>6, <3>4 DEF GiveUp, Alive
    <3>7. UNCHANGED <<inputs, visited>>
      BY <1>6 DEF GiveUp
    <3>8. QED
      BY <1>0, <3>1, <3>3, <3>5, <3>6, <3>7, PopExplores
  <2>3. QED
    BY <2>1, <2>2
<1>7. QED
  BY <1>1, <1>2, <1>3, <1>4, <1>5, <1>6

\* Exploration is inductive together with DispatchInv.
LEMMA NextExplores ==
  ASSUME DispatchInv, ReferencesExist, Exploration, [Next]_vars
  PROVE  Exploration'
BY CallsExplore, ResolveExplores, FallbacksExplore DEF Next, Step

\* A walk that has come to its end has been everywhere.
LEMMA ExploredFollows ==
  ASSUME DispatchInv, Exploration
  PROVE  FailsOnlyWhenAllTried
<1> SUFFICES ASSUME pc = "done", result.code \in Downstream
             PROVE  /\ result.agent = resolveAgent.agent
                    /\ visited = ReachableFrom(resolveAgent.agent)
  BY DEF FailsOnlyWhenAllTried
<1>1. /\ result.agent = resolveAgent.agent /\ resolveAgent.agent \in visited
      /\ ~ctxDone /\ ~hasEmitted /\ stack = <<>>
      /\ visited \subseteq ReachableFrom(resolveAgent.agent)
      /\ visited \subseteq AgentIDs
  BY DEF DispatchInv, CutOK, StackOK, ReachOK, TypeOK
<1>2. Alive
  BY <1>1 DEF Alive, Downstream
<1>3. \A a \in visited : \A j \in DOMAIN Lists[a] : Lists[a][j] \in visited
  BY <1>1, <1>2 DEF Exploration, Walk
<1>4. \A a \in visited : Lists[a] = FallbacksOf(a)
  BY <1>1 DEF Lists
<1>5. \A a \in visited : \A j \in DOMAIN FallbacksOf(a) : FallbacksOf(a)[j] \in visited
  BY <1>3, <1>4
<1>6. ReachableFrom(resolveAgent.agent) \subseteq visited
  BY <1>1, <1>5, Zenon DEF ReachableFrom
<1>7. QED
  BY <1>1, <1>6
=============================================================================
