------------------------ MODULE ValidatedDispatchProofs ------------------------
(***************************************************************************)
(* Proofs about a process that validates its configuration and serves a    *)
(* request, for every configuration: any number of agents, any lists of    *)
(* fallbacks, any retries.                                                 *)
(***************************************************************************)
EXTENDS ValidatedDispatch, DispatcherProofs

-----------------------------------------------------------------------------
(* The inductive invariant of the search for cycles.                       *)

Nodes == [node : AgentSet, next : Nat \ {0}]

CheckTypeOK ==
  /\ adj \in [AgentSet -> FallbackLists]
  /\ stage \in {"references", "search", "done"} /\ pos \in Nat \ {0}
  /\ visitState \in [AgentSet -> {0, 1, 2}]
  /\ path \in Seq(Nodes)
  /\ verdict \in {"none", "ok", "itself", "missing", "cycle"}
  /\ stage = "done" <=> verdict # "none"

\* No fallback of a is missing or a itself.
Clean(a) == a \notin Neighbors(a) /\ UnknownAgent \notin Neighbors(a)

\* The agents before pos are clean; those the search is about all are.
ReferencesOK ==
  /\ stage = "references" =>
       /\ path = <<>> /\ \A a \in AgentSet : visitState[a] = 0
       /\ \A i \in DOMAIN Agents : i < pos => Clean(Agents[i])
  /\ stage = "search" \/ verdict \in {"ok", "cycle"} =>
       \A a \in AgentSet : Clean(a)

\* The nodes of the path are the ones being visited, each beyond those before.
PathOK ==
  /\ \A a \in AgentSet :
       visitState[a] = 1 <=> \E i \in 1..Len(path) : path[i].node = a
  /\ \A i, j \in 1..Len(path) :
       i < j => path[i].node # path[j].node /\ path[j].node \in Beyond(path[i].node)

\* Visited nodes have only visited neighbours and are on no cycle; the neighbours
\* a frame has seen are visited, but for the one its call is about.
VisitedOK ==
  /\ \A a \in AgentSet : visitState[a] = 2 =>
       a \notin Beyond(a) /\ \A b \in Neighbors(a) : visitState[b] = 2
  /\ \A i \in 1..Len(path) : \A n \in DOMAIN adj[path[i].node] :
       n < path[i].next =>
         \/ visitState[adj[path[i].node][n]] = 2
         \/ i < Len(path) /\ path[i + 1].node = adj[path[i].node][n]

SearchOK ==
  stage = "search" =>
    /\ PathOK /\ VisitedOK
    /\ \A i \in DOMAIN Agents : i < pos => visitState[Agents[i]] # 0

VerdictOK ==
  /\ verdict = "ok" => \A a \in AgentSet : a \notin Beyond(a)
  /\ verdict = "missing" => Dangling
  /\ verdict \in {"itself", "cycle"} => \E a \in AgentSet : a \in Beyond(a)

CheckInv == CheckTypeOK /\ ReferencesOK /\ SearchOK /\ VerdictOK

-----------------------------------------------------------------------------
(* The graph.                                                              *)

\* The graph is that of the file: no step changes it.
LEMMA GraphKept ==
  ASSUME UNCHANGED adj
  PROVE  /\ \A a : Neighbors(a)' = Neighbors(a)
         /\ \A a : Beyond(a)' = Beyond(a)
         /\ \A a : Clean(a)' = Clean(a)
         /\ Dangling' = Dangling
BY DEF Neighbors, Beyond, Clean, Dangling

\* One edge leads beyond.
LEMMA BeyondByEdge ==
  ASSUME NEW a, NEW b \in AgentSet, b \in Neighbors(a)
  PROVE  b \in Beyond(a)
BY DEF Beyond

\* So does one more.
LEMMA BeyondByPath ==
  ASSUME NEW a, NEW b, NEW c \in AgentSet, b \in Beyond(a), c \in Neighbors(b)
  PROVE  c \in Beyond(a)
BY Zenon DEF Beyond

\* A set that is closed under the edges and has a's neighbours has what is
\* beyond a.
LEMMA BeyondWithin ==
  ASSUME NEW a, NEW S \in SUBSET AgentSet, Neighbors(a) \subseteq S,
         \A c \in S : Neighbors(c) \subseteq S
  PROVE  Beyond(a) \subseteq S
BY Zenon DEF Beyond

\* The list of an agent's fallbacks.
LEMMA AdjFacts ==
  ASSUME CheckTypeOK, NEW a \in AgentSet
  PROVE  /\ Len(adj[a]) \in Nat /\ DOMAIN adj[a] = 1..Len(adj[a])
         /\ \A n \in DOMAIN adj[a] : adj[a][n] \in Neighbors(a)
         /\ \A b \in Neighbors(a) : \E n \in DOMAIN adj[a] : b = adj[a][n]
         /\ Neighbors(a) \subseteq AgentSet \cup {UnknownAgent}
<1>1. PICK n \in 0..MaxFallbacks : adj[a] \in [1..n -> AgentSet \cup {UnknownAgent}]
  BY DEF CheckTypeOK, FallbackLists
<1>2. n \in Nat
  BY BoundAssumption
<1>3. Len(adj[a]) = n /\ DOMAIN adj[a] = 1..n
  BY <1>1, <1>2
<1>4. QED
  BY <1>1, <1>2, <1>3 DEF Neighbors

\* The agents are listed.
LEMMA AgentsFacts ==
  /\ Len(Agents) \in Nat /\ DOMAIN Agents = 1..Len(Agents)
  /\ \A i \in DOMAIN Agents : Agents[i] \in AgentSet
  /\ \A a \in AgentSet : \E i \in DOMAIN Agents : a = Agents[i]
<1>1. Len(Agents) \in Nat /\ DOMAIN Agents = 1..Len(Agents)
  BY AgentsAssumption, LenProperties
<1>2. QED
  BY <1>1 DEF AgentSet

-----------------------------------------------------------------------------
(* The references.                                                         *)

\* The loop over the references finds the first offence of an agent.
LEMMA OffendingFacts ==
  ASSUME CheckTypeOK, NEW a \in AgentSet
  PROVE  /\ Offending(a) \in {"none", "itself", "missing"}
         /\ Offending(a) = "none" => Clean(a)
         /\ Offending(a) = "itself" => a \in Neighbors(a)
         /\ Offending(a) = "missing" => UnknownAgent \in Neighbors(a)
<1> DEFINE bad == {i \in DOMAIN adj[a] : adj[a][i] \in {a, UnknownAgent}}
           first == CHOOSE i \in bad : \A j \in bad : i <= j
<1>1. Offending(a) = IF bad = {} THEN "none"
                     ELSE IF adj[a][first] = a THEN "itself" ELSE "missing"
  BY DEF Offending
<1>2. bad \in SUBSET Nat
  BY AdjFacts
<1>3. bad = {} => Clean(a)
  BY AdjFacts DEF Clean
<1>4. \A i \in bad : adj[a][i] \in Neighbors(a) /\ adj[a][i] \in {a, UnknownAgent}
  BY AdjFacts
<1>5. bad # {} => first \in bad
  <2> HIDE DEF bad
  <2>1. bad # {} => \E n \in bad : \A m \in bad : n <= m
    BY <1>2, LeastNumber
  <2>2. QED
    BY <2>1
<1> HIDE DEF bad, first
<1>6. QED
  BY <1>1, <1>3, <1>4, <1>5

\* The check of the references keeps the validator's invariant.
LEMMA ReferencesKeep ==
  ASSUME CheckInv, CheckReferences
  PROVE  CheckInv'
<1> USE DEF CheckInv
<1>1. stage = "references" /\ verdict = "none" /\ pos \in Nat \ {0} /\ path = <<>>
  BY DEF CheckReferences, CheckTypeOK, ReferencesOK
<1>2. adj' = adj
  BY DEF CheckReferences, Reject
<1>3. CASE pos > Len(Agents)
  <2>1. stage' = "search" /\ pos' = 1 /\ UNCHANGED <<adj, visitState, path, verdict>>
    BY <1>3 DEF CheckReferences
  <2>2. CheckTypeOK'
    BY <1>1, <2>1 DEF CheckTypeOK
  <2>3. \A a \in AgentSet : Clean(a)
    BY <1>1, <1>3, AgentsFacts DEF ReferencesOK
  <2>4. ReferencesOK'
    BY <1>2, <2>1, <2>3, GraphKept DEF ReferencesOK
  <2>5. SearchOK'
    <3>1. \A a \in AgentSet : visitState'[a] = 0
      BY <1>1, <2>1 DEF ReferencesOK
    <3>2. Len(path') = 0
      BY <1>1, <2>1
    <3>3. PathOK' /\ VisitedOK'
      BY <3>1, <3>2 DEF PathOK, VisitedOK
    <3>4. QED
      BY <2>1, <3>3, AgentsFacts DEF SearchOK
  <2>6. VerdictOK'
    BY <1>1, <2>1 DEF VerdictOK
  <2>7. QED
    BY <2>2, <2>4, <2>5, <2>6
<1>4. CASE pos <= Len(Agents)
  <2> DEFINE a == Agents[pos]
  <2>1. a \in AgentSet
    BY <1>1, <1>4, AgentsFacts
  <2>2. CASE Offending(a) # "none"
    <3>1. stage' = "done" /\ verdict' = Offending(a) /\ UNCHANGED <<adj, pos, visitState, path>>
      BY <1>1, <1>4, <2>2, AgentsFacts DEF CheckReferences, Reject
    <3>2. verdict' \in {"itself", "missing"}
      BY <2>1, <2>2, <3>1, OffendingFacts
    <3>3. CheckTypeOK'
      BY <3>1, <3>2 DEF CheckTypeOK
    <3>4. ReferencesOK' /\ SearchOK'
      BY <3>1, <3>2 DEF ReferencesOK, SearchOK
    <3>5. VerdictOK'
      BY <1>2, <2>1, <3>1, <3>2, OffendingFacts, BeyondByEdge, GraphKept
         DEF VerdictOK, Dangling
    <3>6. QED
      BY <3>3, <3>4, <3>5
  <2>3. CASE Offending(a) = "none"
    <3>1. pos' = pos + 1 /\ UNCHANGED <<adj, stage, visitState, path, verdict>>
      BY <1>1, <1>4, <2>3, AgentsFacts DEF CheckReferences
    <3>2. CheckTypeOK'
      BY <1>1, <3>1 DEF CheckTypeOK
    <3>3. \A i \in DOMAIN Agents : i < pos' => Clean(Agents[i])
      <4>1. ASSUME NEW i \in DOMAIN Agents, i < pos + 1
            PROVE  i < pos \/ i = pos
        BY <1>1, <4>1, AgentsFacts
      <4>2. QED
        BY <1>1, <2>1, <2>3, <3>1, <4>1, OffendingFacts DEF ReferencesOK
    <3>4. ReferencesOK'
      BY <1>1, <1>2, <3>1, <3>3, GraphKept DEF ReferencesOK
    <3>5. SearchOK' /\ VerdictOK'
      BY <1>1, <3>1 DEF SearchOK, VerdictOK
    <3>6. QED
      BY <3>2, <3>4, <3>5
  <2>4. QED
    BY <2>2, <2>3
<1>5. QED
  BY <1>1, <1>3, <1>4, AgentsFacts

-----------------------------------------------------------------------------
(* The search.                                                             *)

\* While it goes on, all references are fine and lead to agents.
LEMMA SearchFacts ==
  ASSUME CheckInv, stage = "search"
  PROVE  /\ verdict = "none" /\ PathOK /\ VisitedOK
         /\ path \in Seq(Nodes) /\ Len(path) \in Nat
         /\ path = <<>> <=> Len(path) = 0
         /\ \A i \in 1..Len(path) :
              path[i].node \in AgentSet /\ path[i].next \in Nat \ {0}
         /\ visitState \in [AgentSet -> {0, 1, 2}]
         /\ \A a \in AgentSet : Neighbors(a) \subseteq AgentSet
<1> USE DEF CheckInv
<1>1. path \in Seq(Nodes) /\ visitState \in [AgentSet -> {0, 1, 2}] /\ verdict = "none"
  BY DEF CheckTypeOK
<1>2. \A i \in 1..Len(path) : path[i] \in Nodes
  BY <1>1, LastOfSeq
<1>3. Len(path) \in Nat /\ (path = <<>> <=> Len(path) = 0)
  BY <1>1, LastOfSeq
<1>4. \A a \in AgentSet : Neighbors(a) \subseteq AgentSet
  BY AdjFacts DEF ReferencesOK, Clean
<1>5. QED
  BY <1>1, <1>2, <1>3, <1>4 DEF SearchOK, Nodes

\* checkCycle is called on an agent that was not visited.
LEMMA VisitKeeps ==
  ASSUME CheckInv, stage = "search", UNCHANGED adj,
         NEW frames \in Seq(Nodes), Len(frames) = Len(path),
         \A i \in 1..Len(path) : frames[i].node = path[i].node,
         NEW a \in AgentSet, visitState[a] = 0, Visit(frames, a),
         path # <<>> => a \in Neighbors(path[Len(path)].node),
         \A i \in 1..Len(path) : \A n \in DOMAIN adj[path[i].node] :
           n < frames[i].next =>
             \/ visitState[adj[path[i].node][n]] = 2
             \/ i < Len(path) /\ path[i + 1].node = adj[path[i].node][n]
             \/ i = Len(path) /\ adj[path[i].node][n] = a
  PROVE  /\ PathOK' /\ VisitedOK'
         /\ path' \in Seq(Nodes) /\ visitState' \in [AgentSet -> {0, 1, 2}]
         /\ \A b \in AgentSet : visitState[b] # 0 => visitState'[b] # 0
         /\ visitState'[a] # 0
<1> DEFINE new == [node |-> a, next |-> 1]
           L == Len(path)
<1>1. new \in Nodes /\ new.node = a /\ new.next = 1
  BY DEF Nodes
<1>2. path' = Append(frames, new)
  BY DEF Visit
<1> HIDE DEF new
<1>3. /\ path' \in Seq(Nodes) /\ Len(path') = L + 1
      /\ \A i \in 1..L : path'[i] = frames[i] /\ path'[i].node = path[i].node
      /\ path'[L + 1].node = a /\ path'[L + 1].next = 1
  BY <1>1, <1>2, AppendProperties
<1>4. /\ visitState' \in [AgentSet -> {0, 1, 2}] /\ visitState'[a] = 1
      /\ \A b \in AgentSet : b # a => visitState'[b] = visitState[b]
  BY SearchFacts DEF Visit
<1>5. \A i \in 1..(L + 1) : i \in 1..L \/ i = L + 1
  BY SearchFacts
<1>6. \A i \in 1..L : path[i].node # a
  BY SearchFacts DEF PathOK
<1>7. \A i \in 1..L : a \in Beyond(path[i].node)
  <2>1. ASSUME NEW i \in 1..L PROVE a \in Beyond(path[i].node)
    <3>1. path # <<>> /\ L \in 1..L
      BY SearchFacts
    <3>2. CASE i = L
      BY <3>1, <3>2, BeyondByEdge
    <3>3. CASE i < L
      <4>1. path[L].node \in Beyond(path[i].node)
        BY <3>1, <3>3, SearchFacts DEF PathOK
      <4>2. QED
        BY <3>1, <4>1, BeyondByPath
    <3>4. QED
      BY <3>2, <3>3, SearchFacts
  <2>2. QED
    BY <2>1
<1>8. PathOK'
  <2>1. ASSUME NEW b \in AgentSet
        PROVE  visitState'[b] = 1 <=> \E i \in 1..Len(path') : path'[i].node = b
    <3>1. CASE b = a
      BY <1>3, <1>4, <3>1, SearchFacts
    <3>2. CASE b # a
      BY <1>3, <1>4, <1>5, <3>2, SearchFacts DEF PathOK
    <3>3. QED
      BY <3>1, <3>2
  <2>2. ASSUME NEW i \in 1..Len(path'), NEW j \in 1..Len(path'), i < j
        PROVE  /\ path'[i].node # path'[j].node
               /\ path'[j].node \in Beyond(path'[i].node)
    <3>1. i \in 1..L
      BY <1>3, <2>2, SearchFacts
    <3>2. CASE j = L + 1
      BY <1>3, <1>6, <1>7, <3>1, <3>2
    <3>3. CASE j \in 1..L
      BY <1>3, <2>2, <3>1, <3>3, SearchFacts DEF PathOK
    <3>4. QED
      BY <1>3, <1>5, <3>2, <3>3
  <2>3. QED
    BY <2>1, <2>2, GraphKept DEF PathOK
<1>9. VisitedOK'
  <2>1. ASSUME NEW b \in AgentSet, visitState'[b] = 2
        PROVE  b \notin Beyond(b) /\ \A c \in Neighbors(b) : visitState'[c] = 2
    <3>1. visitState[b] = 2
      BY <1>4, <2>1
    <3>2. \A c \in Neighbors(b) : c \in AgentSet /\ visitState[c] = 2 /\ c # a
      BY <3>1, SearchFacts DEF VisitedOK
    <3>3. QED
      BY <1>4, <3>1, <3>2, SearchFacts DEF VisitedOK
  <2>2. ASSUME NEW i \in 1..Len(path'), NEW n \in DOMAIN adj[path'[i].node],
               n < path'[i].next
        PROVE  \/ visitState'[adj[path'[i].node][n]] = 2
               \/ /\ i < Len(path')
                  /\ path'[i + 1].node = adj[path'[i].node][n]
    <3>1. CASE i = L + 1
      BY <1>3, <2>2, <3>1, AdjFacts DEF CheckInv
    <3>2. CASE i \in 1..L
      <4> DEFINE b == adj[path[i].node][n]
      <4>1. b \in AgentSet
        BY <1>3, <3>2, SearchFacts, AdjFacts DEF CheckInv
      <4>2. CASE visitState[b] = 2
        BY <1>3, <1>4, <3>2, <4>1, <4>2
      <4>3. CASE i < L /\ path[i + 1].node = b
        <5>1. i + 1 \in 1..L
          BY <3>2, <4>3, SearchFacts
        <5>2. QED
          BY <1>3, <3>2, <4>3, <5>1, SearchFacts
      <4>4. CASE i = L /\ b = a
        BY <1>3, <3>2, <4>4, SearchFacts
      <4>5. visitState[b] = 2 \/ (i < L /\ path[i + 1].node = b) \/ (i = L /\ b = a)
        BY <1>3, <2>2, <3>2
      <4>6. QED
        BY <4>2, <4>3, <4>4, <4>5
    <3>3. QED
      BY <1>3, <1>5, <3>1, <3>2
  <2>3. QED
    BY <2>1, <2>2, GraphKept DEF VisitedOK
<1>10. QED
  BY <1>3, <1>4, <1>8, <1>9

\* What a step of the search that goes on has left to show.
LEMMA SearchGoesOn ==
  ASSUME CheckInv, stage = "search", UNCHANGED <<adj, stage, verdict>>,
         pos' \in Nat \ {0}, PathOK', VisitedOK',
         path' \in Seq(Nodes), visitState' \in [AgentSet -> {0, 1, 2}],
         \A i \in DOMAIN Agents : i < pos' => visitState'[Agents[i]] # 0
  PROVE  CheckInv'
<1> USE DEF CheckInv
<1>1. CheckTypeOK'
  BY DEF CheckTypeOK
<1>2. ReferencesOK'
  BY SearchFacts, GraphKept DEF ReferencesOK
<1>3. SearchOK' /\ VerdictOK'
  BY SearchFacts DEF SearchOK, VerdictOK
<1>4. QED
  BY <1>1, <1>2, <1>3

\* The loop over the agents: it starts a search or is done, and when it is done
\* every agent has been visited and none is on a cycle.
LEMMA SearchFromKeeps ==
  ASSUME CheckInv, SearchFrom
  PROVE  CheckInv'
<1>1. /\ stage = "search" /\ path = <<>> /\ adj' = adj /\ pos \in Nat \ {0}
      /\ \A i \in DOMAIN Agents : i < pos => visitState[Agents[i]] # 0
  BY DEF SearchFrom, CheckInv, CheckTypeOK, SearchOK
<1>2. CASE pos > Len(Agents)
  <2>1. stage' = "done" /\ verdict' = "ok" /\ UNCHANGED <<adj, pos, visitState, path>>
    BY <1>2 DEF SearchFrom
  <2>2. CheckTypeOK' /\ SearchOK'
    BY <2>1 DEF CheckTypeOK, CheckInv, SearchOK
  <2>3. ReferencesOK'
    BY <1>1, <2>1, GraphKept DEF ReferencesOK, CheckInv
  <2>4. \A a \in AgentSet : visitState[a] = 2
    <3>1. ASSUME NEW a \in AgentSet PROVE visitState[a] = 2
      <4>1. visitState[a] # 0
        BY <1>1, <1>2, AgentsFacts
      <4>2. visitState[a] # 1
        BY <1>1, SearchFacts DEF PathOK
      <4>3. QED
        BY <1>1, <4>1, <4>2, SearchFacts
    <3>2. QED
      BY <3>1
  <2>5. \A a \in AgentSet : a \notin Beyond(a)
    BY <1>1, <2>4, SearchFacts DEF VisitedOK
  <2>6. VerdictOK'
    BY <1>1, <2>1, <2>5, GraphKept DEF VerdictOK
  <2>7. QED
    BY <2>2, <2>3, <2>6 DEF CheckInv
<1>3. CASE pos <= Len(Agents)
  <2> DEFINE a == Agents[pos]
  <2>1. a \in AgentSet
    BY <1>1, <1>3, AgentsFacts
  <2>2. pos' = pos + 1 /\ UNCHANGED <<adj, stage, verdict>>
    BY <1>1, <1>3, AgentsFacts DEF SearchFrom
  <2>3. \A i \in DOMAIN Agents : i < pos' => i < pos \/ i = pos
    BY <1>1, <2>2, AgentsFacts
  <2>4. CASE visitState[a] = 0
    <3>1. Visit(path, a)
      BY <1>1, <1>3, <2>4, AgentsFacts DEF SearchFrom
    <3>2. Len(path) = 0 /\ path \in Seq(Nodes)
      BY <1>1, SearchFacts
    <3>3. /\ PathOK' /\ VisitedOK'
          /\ path' \in Seq(Nodes) /\ visitState' \in [AgentSet -> {0, 1, 2}]
          /\ \A b \in AgentSet : visitState[b] # 0 => visitState'[b] # 0
          /\ visitState'[a] # 0
      <4>1. \A i \in 1..Len(path) : FALSE
        BY <3>2
      <4> HIDE DEF a
      <4>2. QED
        BY <1>1, <2>1, <2>4, <3>1, <3>2, <4>1, VisitKeeps
    <3>4. \A i \in DOMAIN Agents : i < pos' => visitState'[Agents[i]] # 0
      BY <1>1, <2>3, <3>3, AgentsFacts
    <3>5. QED
      BY <1>1, <2>2, <3>3, <3>4, SearchGoesOn
  <2>5. CASE visitState[a] # 0
    <3>1. UNCHANGED <<visitState, path>>
      BY <1>1, <1>3, <2>5, AgentsFacts DEF SearchFrom
    <3>2. PathOK' /\ VisitedOK'
      BY <1>1, <3>1, SearchFacts, GraphKept DEF PathOK, VisitedOK
    <3>3. \A i \in DOMAIN Agents : i < pos' => visitState'[Agents[i]] # 0
      BY <1>1, <2>3, <2>5, <3>1
    <3>4. QED
      BY <1>1, <2>2, <3>1, <3>2, <3>3, SearchFacts, SearchGoesOn
  <2>6. QED
    BY <2>4, <2>5
<1>4. QED
  BY <1>1, <1>2, <1>3, AgentsFacts

\* The frame of the innermost call.
LEMMA FrameFacts ==
  ASSUME CheckInv, stage = "search", path # <<>>
  PROVE  /\ Frame \in Nodes /\ Frame.node \in AgentSet /\ Frame.next \in Nat \ {0}
         /\ Len(path) \in 1..Len(path) /\ Len(path) \in Nat \ {0}
         /\ visitState[Frame.node] = 1
<1>1. Len(path) \in 1..Len(path) /\ Len(path) \in Nat \ {0}
  BY SearchFacts
<1>2. Frame \in Nodes
  BY <1>1, SearchFacts, LastOfSeq DEF Frame
<1>3. QED
  BY <1>1, <1>2, SearchFacts DEF Nodes, Frame, PathOK

\* The innermost call moves on.
LEMMA MovedFacts ==
  ASSUME CheckInv, stage = "search", path # <<>>
  PROVE  /\ Moved \in Seq(Nodes) /\ Len(Moved) = Len(path)
         /\ \A i \in 1..Len(path) :
              /\ Moved[i].node = path[i].node
              /\ Moved[i].next = IF i = Len(path) THEN path[i].next + 1
                                 ELSE path[i].next
<1>1. [Frame EXCEPT !.next = @ + 1] \in Nodes
  BY FrameFacts DEF Nodes
<1>2. QED
  BY <1>1, FrameFacts, SearchFacts, ExceptSeq DEF Moved, Frame, Nodes

\* The innermost call looks at a neighbour: one being visited is on the path, so
\* that the edge closes a cycle.
LEMMA NextNeighborKeeps ==
  ASSUME CheckInv, NextNeighbor
  PROVE  CheckInv'
<1> DEFINE b == adj[Frame.node][Frame.next]
           L == Len(path)
<1>1. stage = "search" /\ path # <<>> /\ adj' = adj
  BY DEF NextNeighbor, Reject
<1>2. Frame.next \in DOMAIN adj[Frame.node]
  BY <1>1, FrameFacts, AdjFacts DEF NextNeighbor, CheckInv
<1>3. b \in Neighbors(Frame.node) /\ b \in AgentSet
  BY <1>1, <1>2, FrameFacts, AdjFacts, SearchFacts DEF CheckInv
<1>4. \A i \in DOMAIN Agents : i < pos => visitState[Agents[i]] # 0
  BY <1>1 DEF CheckInv, SearchOK
<1>5. pos \in Nat \ {0} /\ L \in 1..L /\ path[L] = Frame
  BY <1>1, FrameFacts DEF CheckInv, CheckTypeOK, Frame
\* A position before the one the frame has moved to.
<1>6. ASSUME NEW i \in 1..L, NEW n \in DOMAIN adj[path[i].node], n < Moved[i].next
      PROVE  \/ visitState[adj[path[i].node][n]] = 2
             \/ i < L /\ path[i + 1].node = adj[path[i].node][n]
             \/ i = L /\ adj[path[i].node][n] = b
  <2>1. n \in Nat /\ path[i].next \in Nat
    BY <1>1, SearchFacts, AdjFacts DEF CheckInv
  <2>2. CASE n < path[i].next
    BY <1>1, <2>2, SearchFacts DEF VisitedOK
  <2>3. CASE i = L /\ n = path[i].next
    BY <1>5, <2>3
  <2>4. QED
    BY <1>1, <1>6, <2>1, <2>2, <2>3, MovedFacts
<1>7. CASE visitState[b] = 1
  <2>1. stage' = "done" /\ verdict' = "cycle" /\ UNCHANGED <<adj, pos, visitState, path>>
    BY <1>1, <1>7 DEF NextNeighbor, Reject
  <2>2. b \in Beyond(b)
    <3>1. PICK i \in 1..L : path[i].node = b
      BY <1>1, <1>3, <1>7, SearchFacts DEF PathOK
    <3>2. CASE i = L
      BY <1>3, <1>5, <3>1, <3>2, BeyondByEdge
    <3>3. CASE i < L
      <4>1. path[L].node \in Beyond(path[i].node)
        BY <1>1, <1>5, <3>3, SearchFacts DEF PathOK
      <4>2. QED
        BY <1>3, <1>5, <3>1, <4>1, BeyondByPath
    <3>4. QED
      BY <1>1, <3>2, <3>3, SearchFacts
  <2>3. CheckTypeOK' /\ SearchOK'
    BY <2>1 DEF CheckTypeOK, CheckInv, SearchOK
  <2>4. ReferencesOK'
    BY <1>1, <2>1, GraphKept DEF ReferencesOK, CheckInv
  <2>5. VerdictOK'
    BY <1>1, <1>3, <2>1, <2>2, GraphKept DEF VerdictOK
  <2>6. QED
    BY <2>3, <2>4, <2>5 DEF CheckInv
<1>8. CASE visitState[b] = 0
  <2>1. Visit(Moved, b) /\ UNCHANGED <<adj, stage, pos, verdict>>
    BY <1>1, <1>8 DEF NextNeighbor
  <2>2. /\ PathOK' /\ VisitedOK'
        /\ path' \in Seq(Nodes) /\ visitState' \in [AgentSet -> {0, 1, 2}]
        /\ \A c \in AgentSet : visitState[c] # 0 => visitState'[c] # 0
    <3> HIDE DEF b
    <3>1. QED
      BY <1>1, <1>3, <1>5, <1>6, <1>8, <2>1, MovedFacts, VisitKeeps
  <2>3. \A i \in DOMAIN Agents : i < pos' => visitState'[Agents[i]] # 0
    BY <1>4, <2>1, <2>2, AgentsFacts
  <2>4. QED
    BY <1>1, <1>5, <2>1, <2>2, <2>3, SearchGoesOn
<1>9. CASE visitState[b] = 2
  <2>1. path' = Moved /\ UNCHANGED <<adj, stage, pos, verdict, visitState>>
    BY <1>1, <1>9 DEF NextNeighbor
  <2>2. PathOK'
    <3>1. Len(path') = L /\ \A i \in 1..L : path'[i].node = path[i].node
      BY <1>1, <2>1, MovedFacts
    <3>2. PathOK
      BY <1>1, SearchFacts
    <3>3. \A c \in AgentSet :
            visitState'[c] = 1 <=> \E i \in 1..Len(path') : path'[i].node = c
      BY <2>1, <3>1, <3>2 DEF PathOK
    <3>4. \A i, j \in 1..Len(path') :
            i < j => /\ path'[i].node # path'[j].node
                     /\ path'[j].node \in Beyond(path'[i].node)
      BY <3>1, <3>2 DEF PathOK
    <3>5. QED
      BY <1>1, <3>3, <3>4, GraphKept DEF PathOK
  <2>3. VisitedOK'
    <3>1. ASSUME NEW i \in 1..Len(path'), NEW n \in DOMAIN adj[path'[i].node],
                 n < path'[i].next
          PROVE  \/ visitState[adj[path'[i].node][n]] = 2
                 \/ /\ i < Len(path')
                    /\ path'[i + 1].node = adj[path'[i].node][n]
      <4>1. i \in 1..L /\ path'[i].node = path[i].node /\ n \in DOMAIN adj[path[i].node]
        BY <1>1, <2>1, MovedFacts
      <4>2. i < L => i + 1 \in 1..L
        BY <1>1, <4>1, SearchFacts
      <4>3. i < L => path'[i + 1].node = path[i + 1].node
        BY <1>1, <2>1, <4>2, MovedFacts
      <4>4. QED
        BY <1>1, <1>6, <1>9, <2>1, <3>1, <4>1, <4>3, MovedFacts
    <3>2. QED
      BY <1>1, <2>1, <3>1, SearchFacts, GraphKept DEF VisitedOK
  <2>4. QED
    BY <1>1, <1>4, <1>5, <2>1, <2>2, <2>3, MovedFacts, SearchFacts, SearchGoesOn
<1>10. QED
  BY <1>1, <1>3, <1>7, <1>8, <1>9, SearchFacts

\* The innermost call has seen all its neighbours, and all have been visited
\* before it: nothing beyond it leads back.
LEMMA LeaveKeeps ==
  ASSUME CheckInv, Leave
  PROVE  CheckInv'
<1> DEFINE a == Frame.node
           L == Len(path)
           S == {c \in AgentSet : visitState[c] = 2}
<1>1. /\ stage = "search" /\ path # <<>> /\ UNCHANGED <<adj, stage, pos, verdict>>
      /\ Frame.next > Len(adj[a])
  BY DEF Leave
<1>2. /\ path' \in Seq(Nodes) /\ Len(path') = L - 1
      /\ \A i \in 1..Len(path') : i \in 1..L /\ path'[i] = path[i]
  BY <1>1, SearchFacts, FrontOfSeq DEF Leave
<1>3. a \in AgentSet /\ visitState[a] = 1 /\ path[L].node = a /\ L \in Nat \ {0}
  BY <1>1, FrameFacts DEF Frame
<1>4. /\ visitState' \in [AgentSet -> {0, 1, 2}] /\ visitState'[a] = 2
      /\ \A c \in AgentSet : c # a => visitState'[c] = visitState[c]
  BY <1>1, <1>3, SearchFacts DEF Leave
<1>5. \A c \in Neighbors(a) : c \in S
  <2>1. ASSUME NEW n \in DOMAIN adj[a] PROVE adj[a][n] \in S
    <3>1. n < Frame.next /\ adj[a][n] \in AgentSet /\ path[L] = Frame
      BY <1>1, <1>3, <2>1, AdjFacts, FrameFacts, SearchFacts DEF CheckInv, Frame
    <3>2. L \in 1..L /\ ~(L < L)
      BY <1>3
    <3>3. visitState[adj[a][n]] = 2
      BY <1>1, <1>3, <3>1, <3>2, SearchFacts DEF VisitedOK
    <3>4. QED
      BY <3>1, <3>3
  <2>2. QED
    BY <1>3, <2>1, AdjFacts DEF CheckInv
<1>6. \A c \in S : Neighbors(c) \subseteq S
  BY <1>1, SearchFacts DEF VisitedOK
<1>7. a \notin Beyond(a)
  <2>1. S \in SUBSET AgentSet /\ Neighbors(a) \subseteq S /\ a \notin S
    BY <1>3, <1>5
  <2> HIDE DEF S, a
  <2>2. QED
    BY <1>6, <2>1, BeyondWithin
<1>8. \A i \in 1..L : i = L \/ i \in 1..Len(path')
  BY <1>2, <1>3
<1>9. PathOK'
  <2>1. \A i \in 1..Len(path') : path'[i].node # a
    <3>1. ASSUME NEW i \in 1..Len(path') PROVE path[i].node # path[L].node
      BY <1>1, <1>2, <1>3, SearchFacts DEF PathOK
    <3>2. QED
      BY <1>2, <1>3, <3>1
  <2>2. ASSUME NEW c \in AgentSet
        PROVE  visitState'[c] = 1 <=> \E i \in 1..Len(path') : path'[i].node = c
    <3>1. CASE c = a
      BY <1>4, <2>1, <3>1
    <3>2. CASE c # a
      <4>1. visitState[c] = 1 <=> \E i \in 1..L : path[i].node = c
        BY <1>1, SearchFacts DEF PathOK
      <4>2. (\E i \in 1..L : path[i].node = c) <=>
              \E i \in 1..Len(path') : path'[i].node = c
        BY <1>2, <1>3, <1>8, <3>2
      <4>3. QED
        BY <1>4, <3>2, <4>1, <4>2
    <3>3. QED
      BY <3>1, <3>2
  <2>3. ASSUME NEW i \in 1..Len(path'), NEW j \in 1..Len(path'), i < j
        PROVE  /\ path'[i].node # path'[j].node
               /\ path'[j].node \in Beyond(path'[i].node)
    <3>1. /\ i \in 1..L /\ path'[i] = path[i]
          /\ j \in 1..L /\ path'[j] = path[j]
      BY <1>2
    <3>2. PathOK
      BY <1>1, SearchFacts
    <3>3. QED
      BY <2>3, <3>1, <3>2 DEF PathOK
  <2>4. QED
    BY <1>1, <2>2, <2>3, GraphKept DEF PathOK
<1>10. VisitedOK'
  <2>1. ASSUME NEW c \in AgentSet, visitState'[c] = 2
        PROVE  c \notin Beyond(c) /\ \A d \in Neighbors(c) : visitState'[d] = 2
    <3>1. \A d \in S : visitState'[d] = 2
      BY <1>4
    <3>2. CASE c = a
      BY <1>5, <1>7, <3>1, <3>2
    <3>3. CASE c # a
      <4>1. c \in S
        BY <1>4, <2>1, <3>3
      <4>2. QED
        BY <1>1, <1>6, <3>1, <4>1, SearchFacts DEF VisitedOK
    <3>4. QED
      BY <3>2, <3>3
  <2>2. ASSUME NEW i \in 1..Len(path'), NEW n \in DOMAIN adj[path'[i].node],
               n < path'[i].next
        PROVE  \/ visitState'[adj[path'[i].node][n]] = 2
               \/ /\ i < Len(path')
                  /\ path'[i + 1].node = adj[path'[i].node][n]
    <3> DEFINE c == adj[path[i].node][n]
    <3>1. i \in 1..L /\ path'[i] = path[i] /\ i < L
      BY <1>2, <1>3
    <3>2. c \in AgentSet
      BY <1>1, <3>1, SearchFacts, AdjFacts DEF CheckInv
    <3>3. CASE visitState[c] = 2
      BY <1>3, <1>4, <3>1, <3>2, <3>3
    <3>4. CASE path[i + 1].node = c
      <4>1. CASE i + 1 = L
        BY <1>3, <1>4, <3>1, <3>4, <4>1
      <4>2. CASE i + 1 # L
        <5>1. i + 1 \in 1..Len(path') /\ i < Len(path')
          BY <1>2, <1>3, <3>1, <4>2
        <5>2. QED
          BY <1>2, <3>1, <3>4, <5>1
      <4>3. QED
        BY <4>1, <4>2
    <3>5. QED
      BY <1>1, <2>2, <3>1, <3>3, <3>4, SearchFacts DEF VisitedOK
  <2>3. QED
    BY <1>1, <2>1, <2>2, GraphKept DEF VisitedOK
<1>11. \A i \in DOMAIN Agents : i < pos' => visitState'[Agents[i]] # 0
  BY <1>1, <1>4, AgentsFacts DEF CheckInv, SearchOK
<1>12. QED
  BY <1>1, <1>2, <1>4, <1>9, <1>10, <1>11, SearchGoesOn DEF CheckInv, CheckTypeOK

-----------------------------------------------------------------------------
(* The process.                                                            *)

\* Validate's search, and a request only after it has said yes.
ServeInv ==
  /\ CheckInv /\ cfg \in Configs /\ adj = cfg.fallbacks
  /\ pc = "idle" => Unserved
  /\ pc # "idle" => verdict = "ok" /\ DispatchInv /\ Exploration

\* The fallbacks of a configuration that Validate accepts are configured.
LEMMA AcceptedReferences ==
  ASSUME ServeInv, verdict = "ok"
  PROVE  ReferencesExist
<1> SUFFICES ASSUME NEW a \in AgentIDs, NEW i \in DOMAIN cfg.fallbacks[a]
             PROVE  cfg.fallbacks[a][i] \in Configured
  BY DEF ReferencesExist
<1>1. a \in AgentSet /\ i \in DOMAIN adj[a] /\ cfg.fallbacks[a][i] = adj[a][i]
  BY SameAgentsAssumption DEF ServeInv
<1>2. adj[a][i] \in AgentSet
  BY <1>1, AdjFacts DEF ServeInv, CheckInv, ReferencesOK, Clean
<1>3. Configured = AgentSet
  BY SameAgentsAssumption DEF ServeInv, Configured, AgentSet
<1>4. QED
  BY <1>1, <1>2, <1>3

\* The process has just loaded its configuration.
LEMMA ServeInitOK ==
  ASSUME ServeInit
  PROVE  ServeInv
<1> USE DEF ServeInit, CheckInit
<1>1. CheckTypeOK
  BY EmptySeq DEF CheckTypeOK
<1>2. ReferencesOK
  BY AgentsFacts DEF ReferencesOK
<1>3. SearchOK /\ VerdictOK
  BY DEF SearchOK, VerdictOK
<1>4. QED
  BY <1>1, <1>2, <1>3 DEF ServeInv, CheckInv

\* The walk over the fallbacks of a request that has just arrived.
LEMMA InitExplores ==
  ASSUME Init
  PROVE  Exploration
BY DEF Init, Unserved, Exploration, Walk

\* A request arrives.
LEMMA ArrivalIsInit ==
  ASSUME ServeInv, RequestArrives
  PROVE  Init'
BY DEF ServeInv, RequestArrives, Init, Unserved

\* What holds of a request that has just arrived, after the step.
LEMMA ArrivalOK ==
  Init' => DispatchInv' /\ Exploration'
<1>1. Init => DispatchInv /\ Exploration
  BY InitKeeps, InitExplores
<1>2. QED
  BY <1>1, PTL

\* ServeInv is inductive.
LEMMA ServeNextOK ==
  ASSUME ServeInv, [ServeNext]_serveVars
  PROVE  ServeInv'
<1>1. CASE Validates
  <2>1. CheckInv'
    BY <1>1, ReferencesKeep, SearchFromKeeps, NextNeighborKeeps, LeaveKeeps
       DEF Validates, CheckNext, ServeInv
  <2>2. pc = "idle"
    <3>1. stage # "done"
      BY <1>1 DEF Validates, CheckNext, CheckReferences, SearchFrom, NextNeighbor, Leave
    <3>2. verdict # "ok"
      BY <3>1 DEF ServeInv, CheckInv, CheckTypeOK
    <3>3. QED
      BY <3>2 DEF ServeInv
  <2>3. adj' = adj
    BY <1>1 DEF Validates, CheckNext, CheckReferences, SearchFrom, NextNeighbor, Leave,
       Reject
  <2>4. QED
    BY <1>1, <2>1, <2>2, <2>3 DEF Validates, ServeInv, vars, Unserved
<1>2. CASE ~Validates /\ UNCHANGED checkVars
  <2>1. CheckInv'
    <3>1. adj' = adj
      BY <1>2 DEF checkVars
    <3>2. CheckTypeOK'
      BY <1>2 DEF checkVars, CheckTypeOK, ServeInv, CheckInv
    <3>3. ReferencesOK'
      BY <1>2, <3>1, GraphKept DEF checkVars, ReferencesOK, ServeInv, CheckInv
    <3>4. PathOK => PathOK'
      BY <1>2, <3>1, GraphKept DEF checkVars, PathOK
    <3>5. VisitedOK => VisitedOK'
      BY <1>2, <3>1, GraphKept DEF checkVars, VisitedOK
    <3>6. SearchOK'
      BY <1>2, <3>4, <3>5 DEF checkVars, SearchOK, ServeInv, CheckInv
    <3>7. VerdictOK'
      BY <1>2, <3>1, GraphKept DEF checkVars, VerdictOK, ServeInv, CheckInv
    <3>8. QED
      BY <3>2, <3>3, <3>6, <3>7 DEF CheckInv
  <2>2. CASE RequestArrives
    BY <1>2, <2>1, <2>2, ArrivalIsInit, ArrivalOK
       DEF ServeInv, RequestArrives, checkVars, Init
  <2>3. CASE pc # "idle" /\ [Next]_vars
    <3>1. DispatchInv' /\ Exploration'
      BY <2>3, AcceptedReferences, NextKeeps, NextExplores DEF ServeInv
    <3>2. pc' # "idle"
      BY <3>1 DEF DispatchInv, TypeOK, PCs
    <3>3. cfg' = cfg
      BY <2>3 DEF vars, inputs, Next, Step, Resolve, Enter, Backoff, Send, DoFails,
         ServerError, Responds, EmitEvent, ReadSucceeds, ReadFails, AfterInvoke,
         TryFallback, FallbackReturned, GiveUp, Cancel
    <3>4. QED
      BY <1>2, <2>1, <2>3, <3>1, <3>2, <3>3 DEF ServeInv, checkVars
  <2>4. CASE pc = "idle" /\ UNCHANGED vars
    BY <1>2, <2>1, <2>4 DEF ServeInv, vars, Unserved, checkVars
  <2>5. QED
    BY <1>2, <2>2, <2>3, <2>4 DEF ServeNext, Serves, serveVars
<1>3. QED
  BY <1>1, <1>2 DEF ServeNext, RequestArrives, Serves, serveVars

-----------------------------------------------------------------------------
(* The theorems.                                                           *)

\* The invariant holds of the process, from its configuration to the last step
\* of its request.
THEOREM ServeInvariance == ServeSpec => []ServeInv
<1>1. ServeInit => ServeInv
  BY ServeInitOK
<1>2. ServeInv /\ [ServeNext]_serveVars => ServeInv'
  BY ServeNextOK
<1>3. QED
  BY <1>1, <1>2, PTL DEF ServeSpec

\* checkCycle (pkg/config/validator.go) accepts exactly the configurations whose
\* fallbacks exist and have no cycle, for every graph.
THEOREM ValidatorIsExact == ServeSpec => []AcceptsExactlyAcyclic
<1>1. ServeInv => AcceptsExactlyAcyclic
  <2> SUFFICES ASSUME ServeInv, stage = "done"
               PROVE  verdict = "ok" <=> ~Dangling /\ \A a \in AgentSet : a \notin Beyond(a)
    BY DEF AcceptsExactlyAcyclic
  <2>1. verdict \in {"ok", "itself", "missing", "cycle"}
    BY DEF ServeInv, CheckInv, CheckTypeOK
  <2>2. verdict = "ok" => ~Dangling
    BY DEF ServeInv, CheckInv, ReferencesOK, Dangling, Clean
  <2>3. QED
    BY <2>1, <2>2 DEF ServeInv, CheckInv, VerdictOK
<1>2. QED
  BY <1>1, ServeInvariance, PTL

\* Whatever the fallback graph, retries and cancellations, no agent is invoked
\* more often than its own retries allow, CYCLE_DETECTED is unreachable, and at
\* most one call starts after the caller has gone.
THEOREM RetriesBoundCalls == ServeSpec => []CallsWithinBudget
<1>1. ServeInv => CallsWithinBudget
  <2>1. ASSUME ServeInv, pc # "idle" PROVE CallsWithinBudget
    BY <2>1, BudgetFollows DEF ServeInv
  <2>2. ASSUME ServeInv, pc = "idle" PROVE CallsWithinBudget
    <3>1. Unserved /\ cfg \in Configs
      BY <2>2 DEF ServeInv
    <3>2. \A a \in AgentIDs : RetriesOf(a) \in Nat /\ calls[a] = 0
      BY <3>1, ConfigAssumption DEF RetriesOf, Config, Unserved
    <3>3. result.code # "CYCLE_DETECTED" /\ lateCalls = 0
      BY <3>1, NoneAssumption DEF Unserved, Error, Codes
    <3>4. QED
      BY <3>2, <3>3 DEF CallsWithinBudget
  <2>3. QED
    BY <2>1, <2>2
<1>2. QED
  BY <1>1, ServeInvariance, PTL

\* A request fails downstream only when every agent that the fallbacks lead to
\* was tried: the depth-first walk leaves none out, however the graph shares
\* agents between paths.
THEOREM EveryFallbackTried == ServeSpec => []FailsOnlyWhenAllTried
<1>1. ServeInv => FailsOnlyWhenAllTried
  BY ExploredFollows DEF ServeInv, FailsOnlyWhenAllTried
<1>2. QED
  BY <1>1, ServeInvariance, PTL

\* Once an event is out, no attempt and no fallback invokes an agent again.
THEOREM StreamNotRestarted == ServeSpec => NoCallAfterEmission
<1>1. ServeInv /\ [ServeNext]_serveVars => [hasEmitted => calls' = calls]_vars
  <2> SUFFICES ASSUME ServeInv, [ServeNext]_serveVars, hasEmitted
               PROVE  calls' = calls
    OBVIOUS
  <2>1. pc # "idle" /\ DispatchInv
    BY DEF ServeInv, Unserved
  <2>2. CASE [Next]_vars
    BY <2>1, <2>2, EmittedIsQuiet
  <2>3. QED
    BY <2>1, <2>2 DEF ServeNext, Validates, RequestArrives, Serves, serveVars
<1>2. QED
  BY <1>1, ServeInvariance, PTL DEF ServeSpec, NoCallAfterEmission
=============================================================================
