------------------------- MODULE MCValidatedDispatch -------------------------
(***************************************************************************)
(* Every fallback graph over three agents, with every order and repetition *)
(* of up to two fallbacks each, missing ones and cycles included.          *)
(***************************************************************************)
EXTENDS ValidatedDispatch

CONSTANTS a, b, c

ThreeAgents == <<a, b, c>>

RetriesOfAgent == [x \in AgentIDs |-> IF x = b THEN 0 ELSE 1]

WithFallbacks(f, able) ==
  [agents |-> ThreeAgents, retries |-> RetriesOfAgent, fallbacks |-> f,
   capable |-> able]

AllConfigs ==
  {WithFallbacks(f, {b, c}) : f \in [AgentIDs -> FallbackLists]}
    \cup {WithFallbacks([x \in AgentIDs |-> <<>>], {})}
=============================================================================
