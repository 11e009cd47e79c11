--------------------------- MODULE MCStreamRequest ---------------------------
(***************************************************************************)
(* Two agents: one of each type, and its fallback, a custom one.           *)
(***************************************************************************)
EXTENDS StreamRequest

CONSTANTS a, b

TwoAgents ==
  {[agents |-> <<a, b>>, retries |-> [x \in AgentIDs |-> IF x = a THEN 1 ELSE 0],
    fallbacks |-> [x \in AgentIDs |-> IF x = a THEN <<b>> ELSE <<>>],
    capable |-> {b}]}

OfEachType ==
  {[x \in AgentIDs |-> IF x = a THEN t ELSE "custom"] : t \in Adapters}

\* Lines an adapter does not tell apart are there once.
ToldApart ==
  [t \in Adapters |->
     CASE t = "openai"    -> {"comment", "done", "error", "text"}
       [] t = "langgraph" -> {"empty", "done", "text", "other"} \cup EventLines
       [] t = "crewai"    -> {"comment", "done", "error", "thought", "text"}
       [] t = "autogen"   -> {"done", "error", "step", "thought"}
       [] OTHER           -> {"comment", "done", "other"}]
=============================================================================
