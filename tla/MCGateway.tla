------------------------------ MODULE MCGateway ------------------------------
(***************************************************************************)
(* Two POSTs that may have the task IDs x and y in common, in either       *)
(* order, and a GET of x.  Agent a falls back on b; one client may use     *)
(* both agents, the other a only.                                          *)
(***************************************************************************)
EXTENDS Gateway

CONSTANTS x, y, g1, g2, p1, p2, get, a, b

Ask(kind, client, agent, id) ==
  [kind |-> kind, client |-> client, agent |-> agent, byCapability |-> FALSE,
   query |-> NONE, id |-> id, body |-> "good"]

\* Requests that never reach an agent.
Refused ==
  {Ask("DispatchTask", NONE, a, x),
   Ask("DispatchTask", "one", b, x),
   Ask("DispatchTask", "all", "unknown", x),
   Ask("DispatchTask", "all", NONE, x),
   Ask("InvokeAgent", "all", "unknown", NONE),
   [Ask("InvokeAgent", "one", b, NONE) EXCEPT !.query = a],
   [Ask("DispatchTask", "one", a, x) EXCEPT !.query = b],
   [Ask("DispatchTask", "one", a, x) EXCEPT !.body = "large"],
   [Ask("InvokeAgent", "one", a, NONE) EXCEPT !.body = "bad"]}

TwoPostsAndGet ==
  [r \in Sessions |->
     CASE r = p1  -> {Ask("DispatchTask", "all", b, x)}
       [] r = p2  -> {[Ask("DispatchTask", "all", NONE, x) EXCEPT !.byCapability = TRUE],
                      Ask("DispatchTask", "one", a, y),
                      Ask("InvokeAgent", "all", b, NONE)} \cup Refused
       [] r = get -> {Ask("GetTask", "one", NONE, x)}]

LeadsTo == [z \in AgentIDs |-> IF z = a THEN {a, b} ELSE {b}]

KeysOf == [one |-> {a}, all |-> {"*"}]

Generated == [r \in Sessions |-> IF r = p1 THEN g1 ELSE g2]

AnyResponse == [by : Sessions, agent : AgentIDs]
=============================================================================
