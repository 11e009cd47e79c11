---------------------------- MODULE FallbackCheck ----------------------------
(***************************************************************************)
(* The part of config.Validate (pkg/config/validator.go) that the          *)
(* dispatcher relies on: fallback references exist, no agent names itself, *)
(* and the depth-first search of checkCycle finds no cycle.  The recursion *)
(* is a stack of frames; a frame's `next' is its position in the node's    *)
(* neighbour list.  The search stops at the first error.                   *)
(***************************************************************************)
EXTENDS Integers, Sequences, FiniteSets

CONSTANTS
  Agents,        \* a sequence: the IDs of the configured agents, in order
  UnknownAgent,  \* a fallback ID that no agent has
  MaxFallbacks   \* bound: fallbacks of one agent

AgentSet == {Agents[i] : i \in DOMAIN Agents}

\* The fallback list of one agent, as the file may have it.
FallbackLists ==
  UNION {[1..n -> AgentSet \cup {UnknownAgent}] : n \in 0..MaxFallbacks}

ASSUME AgentsAssumption ==
  /\ Agents \in Seq(AgentSet) /\ Cardinality(AgentSet) = Len(Agents)
  /\ UnknownAgent \notin AgentSet
ASSUME BoundAssumption == MaxFallbacks \in Nat

VARIABLES
  adj,         \* fallback IDs of each agent
  stage,       \* references, search or done
  pos,         \* position of the loop over the agents
  visitState,  \* 0 unvisited, 1 visiting, 2 visited
  path,        \* frames of checkCycle
  verdict      \* what Validate says: none yet, ok, or an error

checkVars == <<adj, stage, pos, visitState, path, verdict>>

CheckInit ==
  /\ adj \in [AgentSet -> FallbackLists]
  /\ stage = "references" /\ pos = 1 /\ path = <<>>
  /\ visitState = [a \in AgentSet |-> 0]
  /\ verdict = "none"

Reject(error) ==
  /\ stage' = "done" /\ verdict' = error
  /\ UNCHANGED <<adj, pos, visitState, path>>

-----------------------------------------------------------------------------

\* The first fallback of a that is not an agent or is a itself, or none.
Offending(a) ==
  LET bad == {i \in DOMAIN adj[a] : adj[a][i] \in {a, UnknownAgent}}
  IN  IF bad = {} THEN "none"
      ELSE IF adj[a][CHOOSE i \in bad : \A j \in bad : i <= j] = a
           THEN "itself" ELSE "missing"

\* One agent of the loop that checks the references.
CheckReferences ==
  /\ stage = "references"
  /\ IF pos > Len(Agents)
     THEN /\ stage' = "search" /\ pos' = 1
          /\ UNCHANGED <<adj, visitState, path, verdict>>
     ELSE LET error == Offending(Agents[pos])
          IN  IF error # "none" THEN Reject(error)
              ELSE /\ pos' = pos + 1
                   /\ UNCHANGED <<adj, stage, visitState, path, verdict>>

\* checkCycle is called on a, from a caller that has moved on to frames.
Visit(frames, a) ==
  /\ path' = Append(frames, [node |-> a, next |-> 1])
  /\ visitState' = [visitState EXCEPT ![a] = 1]

\* Mutant: only the first agent is searched from.
SearchFromFirst ==
  /\ stage = "search" /\ path = <<>>
  /\ IF pos > 1
     THEN /\ stage' = "done" /\ verdict' = "ok"
          /\ UNCHANGED <<pos, visitState, path>>
     ELSE /\ pos' = pos + 1
          /\ Visit(path, Agents[pos])
          /\ UNCHANGED <<stage, verdict>>
  /\ UNCHANGED adj

\* One agent of the loop that starts the searches.
SearchFrom ==
  /\ stage = "search" /\ path = <<>>
  /\ IF pos > Len(Agents)
     THEN /\ stage' = "done" /\ verdict' = "ok"
          /\ UNCHANGED <<pos, visitState, path>>
     ELSE /\ pos' = pos + 1
          /\ IF visitState[Agents[pos]] = 0 THEN Visit(path, Agents[pos])
             ELSE UNCHANGED <<visitState, path>>
          /\ UNCHANGED <<stage, verdict>>
  /\ UNCHANGED adj

Frame == path[Len(path)]

Moved == [path EXCEPT ![Len(path)].next = @ + 1]

\* The innermost call looks at its next neighbour.
NextNeighbor ==
  /\ stage = "search" /\ path # <<>>
  /\ Frame.next <= Len(adj[Frame.node])
  /\ LET neighbor == adj[Frame.node][Frame.next]
     IN  IF visitState[neighbor] = 1 THEN Reject("cycle")
         ELSE /\ IF visitState[neighbor] = 0 THEN Visit(Moved, neighbor)
                 ELSE path' = Moved /\ UNCHANGED visitState
              /\ UNCHANGED <<adj, stage, pos, verdict>>

\* It has seen them all and returns nil.
Leave ==
  /\ stage = "search" /\ path # <<>>
  /\ Frame.next > Len(adj[Frame.node])
  /\ path' = SubSeq(path, 1, Len(path) - 1)
  /\ visitState' = [visitState EXCEPT ![Frame.node] = 2]
  /\ UNCHANGED <<adj, stage, pos, verdict>>

CheckNext == CheckReferences \/ SearchFrom \/ NextNeighbor \/ Leave

-----------------------------------------------------------------------------

Neighbors(a) == {adj[a][i] : i \in DOMAIN adj[a]}

\* The nodes a path of one edge or more leads to from a: those in every set
\* that has a's neighbours and is closed under the edges.
Beyond(a) ==
  {b \in AgentSet :
     \A S \in SUBSET AgentSet :
       /\ Neighbors(a) \subseteq S
       /\ \A c \in S : Neighbors(c) \subseteq S
       => b \in S}

Dangling == \E a \in AgentSet : UnknownAgent \in Neighbors(a)

\* Validate accepts exactly the configurations whose fallbacks all exist and
\* whose graph has no cycle, in whatever order the agents are listed: what the
\* dispatcher's recursion relies on, and nothing harmless is refused (a diamond,
\* an agent listed twice).
AcceptsExactlyAcyclic ==
  stage = "done" =>
    (verdict = "ok" <=> ~Dangling /\ \A a \in AgentSet : a \notin Beyond(a))
=============================================================================
