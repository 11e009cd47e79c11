----------------------------- MODULE GatewayProofs -----------------------------
(***************************************************************************)
(* Proofs about the requests and the PostgreSQL task store, for any number *)
(* of requests, task IDs, connections and faults.                          *)
(***************************************************************************)
EXTENDS Gateway, SequenceTheorems, FiniteSetTheorems, WellFoundedInduction, TLAPS

-----------------------------------------------------------------------------
(* The inductive invariant.                                                *)

Calls ==
  [op : {"none", "save", "load"}, keys : Seq(TaskIDs),
   resp : TaskResponses \cup {NONE}, place : Places]
Backends ==
  [state : {"none", "run", "done", "aborted"}, next : Nat \ {0},
   got : TaskResponses \cup {NONE}]

StoreTypeOK ==
  /\ rows \in [TaskIDs -> TaskResponses \cup {NONE}]
  /\ call \in [Sessions -> Calls] /\ backend \in [Sessions -> Backends]
  /\ ctxDone \in [Sessions -> BOOLEAN] /\ closed \in BOOLEAN
  /\ log \in Seq(Sessions) /\ faults \in Nat

\* The two sides of a call: the server works on what the client has sent, and
\* the client has an answer only of what the server has done.
SidesOK(s, c, b) ==
  /\ c.op = "none" => c = NotCalled
  /\ c.op # "none" => c.place # "idle" /\ c.keys # <<>>
  /\ c.op = "load" =>
       /\ Len(c.keys) = 1
       /\ c.resp = IF c.place = "ok" THEN b.got ELSE NONE
  /\ c.op = "save" =>
       /\ c.resp \in TaskResponses /\ c.resp.by = s /\ c.place # "notfound"
  /\ b.state = "none" => b = NotRunning /\ c.place \in {"idle", "pool", "err"}
  /\ c.place \in {"idle", "pool"} => b.state = "none"
  /\ c.place \in {"ok", "notfound"} => b.state = "done"
  /\ b.state \in {"run", "aborted"} => b.got = NONE
  /\ c.place = "notfound" => b.got = NONE
  /\ c.op = "load" /\ c.place = "ok" => b.got # NONE
  /\ b.next <= Len(c.keys) + 1

\* The log has the Saves that were committed, each once.
LogOK ==
  /\ \A i, j \in DOMAIN log : log[i] = log[j] => i = j
  /\ \A s \in Sessions :
       Contains(log, s) <=> call[s].op = "save" /\ backend[s].state = "done"

\* The row of an ID has the response of the last Save in the log that names it.
RowsOK ==
  \A id \in TaskIDs :
    /\ rows[id] # NONE => Contains(log, rows[id].by)
    /\ \A i \in 1..Len(log) : Contains(call[log[i]].keys, id) =>
         rows[id] # NONE /\ \E j \in i..Len(log) : rows[id].by = log[j]

StoreInv ==
  /\ StoreTypeOK /\ LogOK /\ RowsOK
  /\ \A s \in Sessions : SidesOK(s, call[s], backend[s])

\* What a GET was to find was committed when it came; what it has found is no
\* older.
ReadOK(r) ==
  \A p \in before[r] :
    /\ call[r].op = "load" /\ Contains(log, p)
    /\ Contains(call[p].keys, call[r].keys[1])
    /\ backend[r].state = "done" =>
         /\ backend[r].got # NONE
         /\ \E i, j \in 1..Len(log) :
              i <= j /\ log[i] = p /\ backend[r].got.by = log[j]

\* Where the handler is, what it has called and what it says of the result.
HandlerOK(r) ==
  /\ stage[r] # "new" => request[r] \in Requests[r]
  /\ stage[r] = "new" => call[r].op = "none" /\ status[r] = NONE
  /\ stage[r] = "dispatch" =>
       call[r].op = "none" /\ request[r].kind # "GetTask" /\ status[r] = NONE
  /\ stage[r] = "store" =>
       /\ call[r].op = IF request[r].kind = "GetTask" THEN "load" ELSE "save"
       /\ status[r] = NONE
  /\ stage[r] = "done" =>
       /\ call[r].op = "none" => status[r] # 200
       /\ call[r].op = "save" =>
            /\ request[r].kind # "GetTask"
            /\ \/ call[r].place = "ok" /\ status[r] = 200
               \/ call[r].place = "err" /\ status[r] = 503
       /\ call[r].op = "load" =>
            /\ request[r].kind = "GetTask"
            /\ \/ call[r].place = "ok" /\ status[r] \in {200, 403}
               \/ call[r].place = "notfound" /\ status[r] = 404
               \/ call[r].place = "err" /\ status[r] = 503
  /\ call[r].op = "save" /\ request[r].id # NONE =>
       Contains(call[r].keys, request[r].id)

GatewayTypeOK ==
  /\ request \in [Sessions -> Request \cup {NONE}]
  /\ stage \in [Sessions -> {"new", "dispatch", "store", "done"}]
  /\ DOMAIN status = Sessions
  /\ before \in [Sessions -> SUBSET Sessions]

GatewayInv ==
  /\ StoreInv /\ GatewayTypeOK
  /\ \A r \in Sessions : HandlerOK(r) /\ ReadOK(r)

-----------------------------------------------------------------------------
(* The keys of a Save.                                                     *)

\* The least-number principle.
LEMMA LeastNumber ==
  ASSUME NEW T \in SUBSET Nat, T # {}
  PROVE  \E n \in T : \A m \in T : n <= m
<1> DEFINE R == OpToRel(<, Nat)
<1>1. IsWellFoundedOn(R, Nat)
  BY NatLessThanWellFounded
<1> HIDE DEF R
<1>2. PICK n \in T : \A m \in T : ~(<<m, n>> \in R)
  BY <1>1, WFMin
<1>3. \A m \in T : ~(m < n)
  <2>1. ASSUME NEW i \in Nat, NEW j \in Nat, i < j
        PROVE  <<i, j>> \in R
    BY <2>1 DEF R, OpToRel
  <2>2. QED
    BY <1>2, <2>1
<1>4. QED
  BY <1>2, <1>3

\* One alias more.
WithAlias(ks, alias) ==
  IF alias = NONE \/ Contains(ks, alias) THEN ks ELSE Append(ks, alias)

\* The equation that defines the function in Keys.
KeysBody(f, canonical, aliases) ==
  [n \in 0..Len(aliases) |->
     IF n = 0 THEN <<canonical>>
     ELSE IF aliases[n] = NONE \/ Contains(f[n - 1], aliases[n])
          THEN f[n - 1] ELSE Append(f[n - 1], aliases[n])]

\* The equation holds up to n.
KeysUpTo(f, n, canonical, aliases) ==
  f = [m \in 0..n |-> IF m = 0 THEN <<canonical>>
                      ELSE WithAlias(f[m - 1], aliases[m])]

\* The function in Keys exists.
LEMMA KeysDefined ==
  ASSUME NEW canonical, NEW aliases, Len(aliases) \in Nat
  PROVE  \E f : f = KeysBody(f, canonical, aliases)
<1> DEFINE P(n) == \E f : KeysUpTo(f, n, canonical, aliases)
           T == {n \in 0..Len(aliases) : ~P(n)}
<1>1. P(0)
  <2> DEFINE f == [m \in 0..0 |-> <<canonical>>]
  <2>1. f = [m \in 0..0 |-> IF m = 0 THEN <<canonical>>
                            ELSE WithAlias(f[m - 1], aliases[m])]
    OBVIOUS
  <2>2. QED
    BY <2>1 DEF KeysUpTo
<1>2. ASSUME NEW n \in Nat, n + 1 <= Len(aliases), P(n)
      PROVE  P(n + 1)
  <2>1. PICK f : KeysUpTo(f, n, canonical, aliases)
    BY <1>2
  <2> DEFINE g == [m \in 0..(n + 1) |->
                     IF m = n + 1 THEN WithAlias(f[n], aliases[n + 1]) ELSE f[m]]
             h == [m \in 0..(n + 1) |->
                     IF m = 0 THEN <<canonical>> ELSE WithAlias(g[m - 1], aliases[m])]
  <2>2. ASSUME NEW m \in 0..(n + 1) PROVE g[m] = h[m]
    <3>1. CASE m = n + 1
      <4>1. n \in 0..(n + 1) /\ n + 1 \in 0..(n + 1) /\ n # n + 1 /\ n + 1 # 0
        OBVIOUS
      <4>2. g[n] = f[n] /\ g[n + 1] = WithAlias(f[n], aliases[n + 1])
        BY <4>1
      <4>3. h[n + 1] = WithAlias(g[(n + 1) - 1], aliases[n + 1])
        BY <4>1
      <4>4. (n + 1) - 1 = n
        OBVIOUS
      <4>5. QED
        BY <3>1, <4>2, <4>3, <4>4
    <3>2. CASE m # n + 1
      <4>1. m \in 0..n
        BY <3>2
      <4>2. f[m] = IF m = 0 THEN <<canonical>> ELSE WithAlias(f[m - 1], aliases[m])
        BY <2>1, <4>1 DEF KeysUpTo
      <4>3. m # 0 => m - 1 \in 0..(n + 1) /\ m - 1 # n + 1
        BY <4>1
      <4>4. m # 0 => g[m - 1] = f[m - 1]
        BY <4>3
      <4>5. g[m] = f[m]
        BY <3>2
      <4>6. h[m] = IF m = 0 THEN <<canonical>> ELSE WithAlias(g[m - 1], aliases[m])
        OBVIOUS
      <4> HIDE DEF g, h
      <4>7. QED
        BY <4>2, <4>4, <4>5, <4>6
    <3>3. QED
      BY <3>1, <3>2
  <2>3. g = h
    BY <2>2
  <2>4. KeysUpTo(g, n + 1, canonical, aliases)
    <3> HIDE DEF g
    <3> QED BY <2>3 DEF KeysUpTo
  <2>5. QED
    BY <2>4
<1>3. T = {}
  <2> SUFFICES ASSUME T # {} PROVE FALSE
    OBVIOUS
  <2>1. T \in SUBSET Nat
    OBVIOUS
  <2>2. PICK n \in T : \A m \in T : n <= m
    <3> HIDE DEF T
    <3> QED BY <2>1, LeastNumber
  <2> HIDE DEF P
  <2>3. n # 0 /\ n \in Nat /\ n <= Len(aliases)
    BY <1>1
  <2>4. n - 1 \in Nat /\ (n - 1) + 1 = n /\ ~(n <= n - 1) /\ n - 1 \in 0..Len(aliases)
    BY <2>3
  <2>5. P(n - 1)
    BY <2>2, <2>4
  <2>6. P(n)
    BY <1>2, <2>3, <2>4, <2>5
  <2>7. QED
    BY <2>6
<1>4. P(Len(aliases))
  <2> HIDE DEF P
  <2> QED BY <1>3
<1>5. PICK f : KeysUpTo(f, Len(aliases), canonical, aliases)
  BY <1>4
<1>6. f = KeysBody(f, canonical, aliases)
  BY <1>5 DEF KeysUpTo, WithAlias, KeysBody
<1>7. QED
  BY <1>6

\* What the keys are after n aliases.
KeysAfter(ks, canonical, aliases, n) ==
  /\ ks \in Seq(TaskIDs) /\ Len(ks) >= 1 /\ ks[1] = canonical
  /\ \A i, j \in 1..Len(ks) : ks[i] = ks[j] => i = j
  /\ \A id : Contains(ks, id) <=>
       id = canonical \/ (id # NONE /\ \E i \in 1..n : aliases[i] = id)

\* A longer list has what the shorter one had, and the new element.
LEMMA AppendFacts ==
  ASSUME NEW S, NEW ks \in Seq(S), NEW e \in S
  PROVE  /\ Append(ks, e) \in Seq(S) /\ Len(Append(ks, e)) = Len(ks) + 1
         /\ Len(ks) \in Nat
         /\ \A i \in 1..Len(ks) : Append(ks, e)[i] = ks[i]
         /\ Append(ks, e)[Len(ks) + 1] = e
         /\ \A x : Contains(Append(ks, e), x) <=> Contains(ks, x) \/ x = e
<1>1. /\ Append(ks, e) \in Seq(S) /\ Len(Append(ks, e)) = Len(ks) + 1
      /\ Len(ks) \in Nat
      /\ \A i \in 1..Len(ks) : Append(ks, e)[i] = ks[i]
      /\ Append(ks, e)[Len(ks) + 1] = e
  OBVIOUS
<1>2. 1..(Len(ks) + 1) = 1..Len(ks) \cup {Len(ks) + 1}
  BY <1>1
<1>3. ASSUME NEW x PROVE Contains(Append(ks, e), x) <=> Contains(ks, x) \/ x = e
  <2>1. Contains(Append(ks, e), x) <=>
          \E i \in 1..Len(ks) \cup {Len(ks) + 1} : Append(ks, e)[i] = x
    BY <1>1, <1>2 DEF Contains
  <2>2. QED
    BY <1>1, <2>1 DEF Contains
<1>4. QED
  BY <1>1, <1>3

\* One alias more.
LEMMA WithAliasFacts ==
  ASSUME NONE \notin TaskIDs,
         NEW canonical, NEW aliases \in Seq(TaskIDs \cup {NONE}),
         NEW n \in Nat, n + 1 <= Len(aliases),
         NEW ks, KeysAfter(ks, canonical, aliases, n)
  PROVE  KeysAfter(WithAlias(ks, aliases[n + 1]), canonical, aliases, n + 1)
<1> DEFINE alias == aliases[n + 1]
<1>1. alias \in TaskIDs \cup {NONE}
  OBVIOUS
<1>2. 1..(n + 1) = 1..n \cup {n + 1}
  OBVIOUS
<1>3. ks \in Seq(TaskIDs) /\ Len(ks) \in Nat /\ Len(ks) >= 1
  BY DEF KeysAfter
<1>4. \A id : (\E i \in 1..(n + 1) : aliases[i] = id) <=>
              (\E i \in 1..n : aliases[i] = id) \/ id = alias
  BY <1>2
<1> HIDE DEF alias
<1>5. CASE alias = NONE \/ Contains(ks, alias)
  <2>1. WithAlias(ks, alias) = ks
    BY <1>5 DEF WithAlias
  <2>2. ASSUME NEW id
        PROVE  Contains(ks, id) <=>
                 id = canonical \/ (id # NONE /\ \E i \in 1..(n + 1) : aliases[i] = id)
    BY <1>4, <1>5 DEF KeysAfter
  <2>3. QED
    BY <2>1, <2>2 DEF KeysAfter, alias
<1>6. CASE alias # NONE /\ ~Contains(ks, alias)
  <2> DEFINE new == Append(ks, alias)
  <2>1. alias \in TaskIDs
    BY <1>1, <1>6
  <2>2. /\ new \in Seq(TaskIDs) /\ Len(new) = Len(ks) + 1
        /\ \A i \in 1..Len(ks) : new[i] = ks[i]
        /\ new[Len(ks) + 1] = alias
        /\ \A x : Contains(new, x) <=> Contains(ks, x) \/ x = alias
    BY <1>3, <2>1, AppendFacts
  <2> HIDE DEF new
  <2>3. Len(new) >= 1 /\ new[1] = canonical
    BY <1>3, <2>2 DEF KeysAfter
  <2>4. ASSUME NEW i \in 1..Len(new), NEW j \in 1..Len(new), new[i] = new[j]
        PROVE  i = j
    <3>1. \A k \in 1..Len(ks) : ks[k] # alias
      BY <1>6 DEF Contains
    <3>2. i \in 1..Len(ks) \/ i = Len(ks) + 1
      BY <1>3, <2>2
    <3>3. j \in 1..Len(ks) \/ j = Len(ks) + 1
      BY <1>3, <2>2
    <3>4. QED
      BY <2>2, <2>4, <3>1, <3>2, <3>3 DEF KeysAfter
  <2>5. ASSUME NEW id
        PROVE  Contains(new, id) <=>
                 id = canonical \/ (id # NONE /\ \E i \in 1..(n + 1) : aliases[i] = id)
    BY <1>4, <1>6, <2>2 DEF KeysAfter
  <2>6. WithAlias(ks, alias) = new
    BY <1>6 DEF WithAlias, new
  <2>7. QED
    BY <2>2, <2>3, <2>4, <2>5, <2>6 DEF KeysAfter, alias
<1>7. QED
  BY <1>5, <1>6

\* The keys of a Save are the canonical ID, first, and the aliases that are
\* not empty, each once (uniqueTaskKeys).
LEMMA KeysFacts ==
  ASSUME NEW canonical \in TaskIDs, NEW aliases \in Seq(TaskIDs \cup {NONE})
  PROVE  KeysAfter(Keys(canonical, aliases), canonical, aliases, Len(aliases))
<1> DEFINE f == CHOOSE g : g = KeysBody(g, canonical, aliases)
<1>1. Len(aliases) \in Nat
  OBVIOUS
<1>2. f = KeysBody(f, canonical, aliases)
  BY <1>1, KeysDefined
<1>3. Keys(canonical, aliases) = f[Len(aliases)]
  BY DEF Keys, KeysBody
<1> HIDE DEF f
<1> DEFINE P(n) == KeysAfter(f[n], canonical, aliases, n)
           T == {n \in 0..Len(aliases) : ~P(n)}
<1>4. P(0)
  <2>1. f[0] = <<canonical>>
    BY <1>1, <1>2 DEF KeysBody
  <2>2. <<canonical>> \in Seq(TaskIDs) /\ Len(<<canonical>>) = 1 /\ <<canonical>>[1] = canonical
    OBVIOUS
  <2>3. \A i, j \in 1..1 : i = j
    OBVIOUS
  <2>4. \A id : Contains(<<canonical>>, id) <=> id = canonical
    BY <2>2 DEF Contains
  <2>5. 1..0 = {}
    OBVIOUS
  <2> HIDE DEF P
  <2>6. KeysAfter(<<canonical>>, canonical, aliases, 0)
    <3>1. \A id : ~ \E i \in 1..0 : aliases[i] = id
      BY <2>5
    <3>2. QED
      BY <2>2, <2>3, <2>4, <3>1 DEF KeysAfter
  <2>7. QED
    BY <2>1, <2>6 DEF P
<1>5. ASSUME NEW n \in Nat, n + 1 <= Len(aliases), P(n)
      PROVE  P(n + 1)
  <2>1. n + 1 \in 0..Len(aliases) /\ n + 1 # 0 /\ (n + 1) - 1 = n
    BY <1>1, <1>5
  <2>2. f[n + 1] = WithAlias(f[n], aliases[n + 1])
    BY <1>2, <2>1 DEF KeysBody, WithAlias
  <2>3. KeysAfter(WithAlias(f[n], aliases[n + 1]), canonical, aliases, n + 1)
    BY <1>5, WithAliasFacts, NoneAssumption
  <2>4. QED
    BY <2>2, <2>3
<1>6. T = {}
  <2> SUFFICES ASSUME T # {} PROVE FALSE
    OBVIOUS
  <2>1. T \in SUBSET Nat
    BY <1>1
  <2>2. PICK n \in T : \A m \in T : n <= m
    <3> HIDE DEF T
    <3> QED BY <2>1, LeastNumber
  <2> HIDE DEF P
  <2>3. n # 0 /\ n \in Nat /\ n <= Len(aliases)
    BY <1>1, <1>4
  <2>4. n - 1 \in Nat /\ (n - 1) + 1 = n /\ ~(n <= n - 1) /\ n - 1 \in 0..Len(aliases)
    BY <1>1, <2>3
  <2>5. P(n - 1)
    BY <2>2, <2>4
  <2>6. P(n)
    BY <1>5, <2>3, <2>4, <2>5
  <2>7. QED
    BY <2>6
<1>7. P(Len(aliases))
  <2> HIDE DEF P
  <2> QED BY <1>1, <1>6
<1>8. QED
  BY <1>3, <1>7

-----------------------------------------------------------------------------
(* Steps of one session.                                                   *)

\* A step that changes one session only, and commits nothing.
LEMMA SessionStep ==
  ASSUME GatewayInv, NEW s \in Sessions, NEW c \in Calls, NEW b \in Backends,
         call' = [call EXCEPT ![s] = c], backend' = [backend EXCEPT ![s] = b],
         rows' = rows, log' = log, ctxDone' \in [Sessions -> BOOLEAN],
         closed' \in BOOLEAN, faults' \in Nat, SidesOK(s, c, b),
         (c.op = "save" /\ b.state = "done")
           <=> (call[s].op = "save" /\ backend[s].state = "done"),
         Contains(log, s) => c.keys = call[s].keys,
         GatewayTypeOK',
         \A r \in Sessions \ {s} :
           /\ request'[r] = request[r] /\ stage'[r] = stage[r]
           /\ status'[r] = status[r] /\ before'[r] = before[r],
         HandlerOK(s)', ReadOK(s)'
  PROVE  GatewayInv'
<1>1. StoreTypeOK /\ LogOK /\ RowsOK /\ GatewayTypeOK
  BY DEF GatewayInv, StoreInv
<1>2. /\ call'[s] = c /\ backend'[s] = b
      /\ \A r \in Sessions \ {s} : call'[r] = call[r] /\ backend'[r] = backend[r]
  BY <1>1 DEF StoreTypeOK
<1>3. StoreTypeOK'
  BY <1>1 DEF StoreTypeOK
<1>4. LogOK'
  <2>1. \A i, j \in DOMAIN log' : log'[i] = log'[j] => i = j
    BY <1>1 DEF LogOK
  <2>2. ASSUME NEW t \in Sessions
        PROVE  Contains(log', t) <=> call'[t].op = "save" /\ backend'[t].state = "done"
    BY <1>1, <1>2 DEF LogOK
  <2>3. QED
    BY <2>1, <2>2 DEF LogOK
<1>5. \A i \in 1..Len(log) : call'[log[i]].keys = call[log[i]].keys
  <2>1. ASSUME NEW i \in 1..Len(log) PROVE call'[log[i]].keys = call[log[i]].keys
    <3>1. log[i] \in Sessions
      BY <1>1 DEF StoreTypeOK
    <3>2. Contains(log, log[i])
      BY DEF Contains
    <3>3. QED
      BY <1>2, <3>1, <3>2
  <2>2. QED
    BY <2>1
<1>6. RowsOK'
  <2>1. ASSUME NEW id \in TaskIDs
        PROVE  /\ rows'[id] # NONE => Contains(log', rows'[id].by)
               /\ \A i \in 1..Len(log') : Contains(call'[log'[i]].keys, id) =>
                    rows'[id] # NONE /\ \E j \in i..Len(log') : rows'[id].by = log'[j]
    BY <1>1, <1>5 DEF RowsOK
  <2>2. QED
    BY <2>1 DEF RowsOK
<1>7. \A r \in Sessions : SidesOK(r, call'[r], backend'[r])
  BY <1>2 DEF GatewayInv, StoreInv
<1>8. ASSUME NEW r \in Sessions PROVE HandlerOK(r)' /\ ReadOK(r)'
  <2>1. CASE r # s
    <3>1. HandlerOK(r) /\ ReadOK(r)
      BY DEF GatewayInv
    <3>2. HandlerOK(r)'
      BY <1>2, <2>1, <3>1 DEF HandlerOK
    <3>3. ReadOK(r)'
      <4>1. ASSUME NEW p \in before[r]
            PROVE  call'[p].keys = call[p].keys
        BY <1>1, <1>2, <3>1 DEF ReadOK, GatewayTypeOK
      <4>2. QED
        BY <1>2, <2>1, <3>1, <4>1 DEF ReadOK
    <3>4. QED
      BY <3>2, <3>3
  <2>2. QED
    BY <2>1
<1>9. QED
  BY <1>3, <1>4, <1>6, <1>7, <1>8 DEF GatewayInv, StoreInv

\* A step of the handler alone.
LEMMA HandlerStep ==
  ASSUME GatewayInv, NEW s \in Sessions,
         call' = call, backend' = backend, rows' = rows, log' = log,
         ctxDone' \in [Sessions -> BOOLEAN], closed' \in BOOLEAN, faults' \in Nat,
         GatewayTypeOK', before' = before,
         \A r \in Sessions \ {s} :
           /\ request'[r] = request[r] /\ stage'[r] = stage[r]
           /\ status'[r] = status[r],
         HandlerOK(s)'
  PROVE  GatewayInv'
<1>1. call[s] \in Calls /\ backend[s] \in Backends /\ SidesOK(s, call[s], backend[s])
  BY DEF GatewayInv, StoreInv, StoreTypeOK
<1>2. call' = [call EXCEPT ![s] = call[s]] /\ backend' = [backend EXCEPT ![s] = backend[s]]
  BY DEF GatewayInv, StoreInv, StoreTypeOK
<1>3. ReadOK(s)'
  BY DEF GatewayInv, ReadOK
<1>4. QED
  BY <1>1, <1>2, <1>3, SessionStep

\* A step of the caller or the server that leaves the request alone, finishes
\* nothing at the server and takes no answer back.
LEMMA CallStep ==
  ASSUME GatewayInv, NEW s \in Sessions, NEW c \in Calls, NEW b \in Backends,
         call' = [call EXCEPT ![s] = c], backend' = [backend EXCEPT ![s] = b],
         UNCHANGED <<rows, log, request, stage, status, before>>,
         ctxDone' \in [Sessions -> BOOLEAN],
         closed' \in BOOLEAN, faults' \in Nat, SidesOK(s, c, b),
         c.op = call[s].op, c.keys = call[s].keys,
         c.place = call[s].place \/ call[s].place \in {"pool", "sent"},
         b.state = "done" <=> backend[s].state = "done",
         b.state = "done" => b.got = backend[s].got
  PROVE  GatewayInv'
<1>1. /\ StoreTypeOK /\ GatewayTypeOK
      /\ HandlerOK(s) /\ ReadOK(s) /\ SidesOK(s, call[s], backend[s])
  BY DEF GatewayInv, StoreInv
<1>2. call'[s] = c /\ backend'[s] = b
  BY <1>1 DEF StoreTypeOK
<1>3. GatewayTypeOK'
  BY <1>1 DEF GatewayTypeOK
<1>4. HandlerOK(s)'
  BY <1>1, <1>2 DEF HandlerOK
<1>5. ReadOK(s)'
  <2>1. ASSUME NEW p \in before[s]
        PROVE  call'[p].keys = call[p].keys
    BY <1>1, <1>2 DEF GatewayTypeOK, StoreTypeOK
  <2>2. QED
    BY <1>1, <1>2, <2>1 DEF ReadOK
<1>6. QED
  BY <1>2, <1>3, <1>4, <1>5, SessionStep

-----------------------------------------------------------------------------
(* The invariant is kept by the steps of the store.                        *)

\* What the invariant says of one session.
LEMMA SessionFacts ==
  ASSUME GatewayInv, NEW s \in Sessions
  PROVE  /\ call \in [Sessions -> Calls] /\ backend \in [Sessions -> Backends]
         /\ ctxDone \in [Sessions -> BOOLEAN] /\ closed \in BOOLEAN /\ faults \in Nat
         /\ call[s] \in Calls /\ backend[s] \in Backends
         /\ SidesOK(s, call[s], backend[s]) /\ HandlerOK(s) /\ ReadOK(s)
         /\ backend = [backend EXCEPT ![s] = backend[s]]
         /\ call = [call EXCEPT ![s] = call[s]]
BY DEF GatewayInv, StoreInv, StoreTypeOK

\* The pool hands over a connection.
LEMMA AcquireKeeps ==
  ASSUME GatewayInv, NEW s \in Sessions, Acquire(s),
         UNCHANGED <<request, stage, status, before>>
  PROVE  GatewayInv'
<1> DEFINE c == [call[s] EXCEPT !.place = "sent"]
           b == [backend[s] EXCEPT !.state = "run"]
<1>1. /\ call[s] \in Calls /\ backend[s] \in Backends
      /\ SidesOK(s, call[s], backend[s])
      /\ ctxDone \in [Sessions -> BOOLEAN] /\ closed \in BOOLEAN /\ faults \in Nat
  BY SessionFacts
<1>2. call' = [call EXCEPT ![s] = c] /\ backend' = [backend EXCEPT ![s] = b]
  BY DEF Acquire
<1>3. c \in Calls /\ b \in Backends
  BY <1>1 DEF Calls, Backends, Places
<1>4. backend[s] = NotRunning /\ call[s].place = "pool"
  BY <1>1 DEF Acquire, SidesOK
<1>5. SidesOK(s, c, b)
  BY <1>1, <1>3, <1>4 DEF SidesOK, Calls, Backends, NotRunning, NotCalled
<1>6. /\ c.op = call[s].op /\ c.keys = call[s].keys
      /\ b.state # "done" /\ backend[s].state # "done"
  BY <1>1, <1>4 DEF Calls, Backends, NotRunning
<1> HIDE DEF c, b
<1>7. QED
  BY <1>1, <1>2, <1>3, <1>4, <1>5, <1>6, CallStep DEF Acquire

\* A call fails for its caller.
LEMMA FailsKeeps ==
  ASSUME GatewayInv, NEW s \in Sessions, call[s].place \in {"pool", "sent"}, Fails(s),
         UNCHANGED <<rows, backend, ctxDone, closed, log>>, faults' \in Nat,
         UNCHANGED <<request, stage, status, before>>
  PROVE  GatewayInv'
<1> DEFINE c == [call[s] EXCEPT !.place = "err"]
<1>1. /\ call[s] \in Calls /\ backend[s] \in Backends
      /\ SidesOK(s, call[s], backend[s])
      /\ backend = [backend EXCEPT ![s] = backend[s]]
      /\ ctxDone \in [Sessions -> BOOLEAN] /\ closed \in BOOLEAN
  BY SessionFacts
<1>2. call' = [call EXCEPT ![s] = c]
  BY DEF Fails
<1>3. c \in Calls
  BY <1>1 DEF Calls, Places
<1>4. SidesOK(s, c, backend[s])
  BY <1>1, <1>3 DEF SidesOK, Calls, Backends, NotRunning, NotCalled
<1>5. c.op = call[s].op /\ c.keys = call[s].keys
  BY <1>1 DEF Calls
<1> HIDE DEF c
<1>6. QED
  BY <1>1, <1>2, <1>3, <1>4, <1>5, CallStep

\* A statement is aborted.
LEMMA AbortsKeeps ==
  ASSUME GatewayInv, NEW s \in Sessions, backend[s].state = "run", Aborts(s),
         faults' \in Nat, UNCHANGED <<request, stage, status, before>>
  PROVE  GatewayInv'
<1> DEFINE b == [backend[s] EXCEPT !.state = "aborted"]
<1>1. /\ call[s] \in Calls /\ backend[s] \in Backends
      /\ SidesOK(s, call[s], backend[s])
      /\ call = [call EXCEPT ![s] = call[s]]
      /\ ctxDone \in [Sessions -> BOOLEAN] /\ closed \in BOOLEAN
  BY SessionFacts
<1>2. backend' = [backend EXCEPT ![s] = b]
  BY DEF Aborts
<1>3. b \in Backends
  BY <1>1 DEF Backends
<1>4. SidesOK(s, call[s], b)
  BY <1>1, <1>3 DEF SidesOK, Calls, Backends, NotRunning, NotCalled
<1>5. b.state # "done"
  BY <1>1 DEF Backends
<1> HIDE DEF b
<1>6. QED
  BY <1>1, <1>2, <1>3, <1>4, <1>5, CallStep DEF Aborts

\* The caller takes the answer of the server.
LEMMA ReceiveKeeps ==
  ASSUME GatewayInv, NEW s \in Sessions, Receive(s),
         UNCHANGED <<request, stage, status, before>>
  PROVE  GatewayInv'
<1>1. /\ call[s] \in Calls /\ backend[s] \in Backends
      /\ SidesOK(s, call[s], backend[s])
      /\ backend = [backend EXCEPT ![s] = backend[s]]
      /\ ctxDone \in [Sessions -> BOOLEAN] /\ closed \in BOOLEAN /\ faults \in Nat
  BY SessionFacts
<1>2. call[s].place = "sent" /\ UNCHANGED <<rows, backend, ctxDone, closed, log, faults>>
  BY DEF Receive
<1>3. CASE backend[s].state = "aborted" /\ Fails(s)
  BY <1>1, <1>2, <1>3, FailsKeeps
<1>4. CASE /\ backend[s].state = "done" /\ call[s].op = "save"
           /\ call' = [call EXCEPT ![s].place = "ok"]
  <2> DEFINE c == [call[s] EXCEPT !.place = "ok"]
  <2>1. call' = [call EXCEPT ![s] = c]
    BY <1>4
  <2>2. c \in Calls /\ c.op = call[s].op /\ c.keys = call[s].keys
    BY <1>1 DEF Calls, Places
  <2>3. SidesOK(s, c, backend[s])
    BY <1>1, <1>4, <2>2 DEF SidesOK, Calls, Backends, NotRunning, NotCalled
  <2> HIDE DEF c
  <2>4. QED
    BY <1>1, <1>2, <2>1, <2>2, <2>3, CallStep
<1>5. CASE /\ backend[s].state = "done" /\ call[s].op = "load"
           /\ call' = [call EXCEPT ![s].resp = backend[s].got,
                                   ![s].place = IF backend[s].got = NONE
                                                THEN "notfound" ELSE "ok"]
  <2> DEFINE c == [call[s] EXCEPT !.resp = backend[s].got,
                                  !.place = IF backend[s].got = NONE
                                            THEN "notfound" ELSE "ok"]
  <2>1. call' = [call EXCEPT ![s] = c]
    BY <1>5, SessionFacts
  <2>2. c \in Calls /\ c.op = call[s].op /\ c.keys = call[s].keys
    BY <1>1 DEF Calls, Places, Backends
  <2>3. SidesOK(s, c, backend[s])
    BY <1>1, <1>5, <2>2 DEF SidesOK, Calls, Backends, NotRunning, NotCalled
  <2> HIDE DEF c
  <2>4. QED
    BY <1>1, <1>2, <2>1, <2>2, <2>3, CallStep
<1>6. QED
  BY <1>3, <1>4, <1>5 DEF Receive

\* The upsert locks a row.
LEMMA LockRowKeeps ==
  ASSUME GatewayInv, NEW s \in Sessions, LockRow(s),
         UNCHANGED <<request, stage, status, before>>
  PROVE  GatewayInv'
<1> DEFINE b == [backend[s] EXCEPT !.next = @ + 1]
<1>1. /\ call[s] \in Calls /\ backend[s] \in Backends
      /\ SidesOK(s, call[s], backend[s])
      /\ call = [call EXCEPT ![s] = call[s]]
      /\ ctxDone \in [Sessions -> BOOLEAN] /\ closed \in BOOLEAN /\ faults \in Nat
  BY SessionFacts
<1>2. backend' = [backend EXCEPT ![s] = b]
  BY SessionFacts DEF LockRow
<1>3. b \in Backends
  BY <1>1 DEF Backends
<1>4. backend[s].state = "run" /\ backend[s].next <= Len(call[s].keys)
  BY DEF LockRow, Running
<1>5. Len(call[s].keys) \in Nat
  BY <1>1 DEF Calls
<1>6. SidesOK(s, call[s], b)
  BY <1>1, <1>3, <1>4, <1>5 DEF SidesOK, Calls, Backends, NotRunning, NotCalled
<1>7. b.state = backend[s].state /\ b.got = backend[s].got
  BY <1>1 DEF Backends
<1> HIDE DEF b
<1>8. QED
  BY <1>1, <1>2, <1>3, <1>6, <1>7, CallStep DEF LockRow

\* A statement that waits is a running upsert.
LEMMA WaitsIsRunning ==
  ASSUME NEW s \in Sessions, Blockers(s) # {}
  PROVE  /\ backend[s].state = "run" /\ call[s].op = "save"
         /\ backend[s].next <= Len(call[s].keys)
BY DEF Blockers, Running

\* SELECT reads the row of the ID: what was committed under it when the GET
\* came is there, or what has replaced it.
LEMMA ReadKeeps ==
  ASSUME GatewayInv, NEW s \in Sessions, Read(s),
         UNCHANGED <<request, stage, status, before>>
  PROVE  GatewayInv'
<1> DEFINE id == call[s].keys[1]
           b == [backend[s] EXCEPT !.state = "done", !.got = rows[id]]
<1>1. /\ call \in [Sessions -> Calls] /\ backend \in [Sessions -> Backends]
      /\ call[s] \in Calls /\ backend[s] \in Backends
      /\ SidesOK(s, call[s], backend[s]) /\ HandlerOK(s) /\ ReadOK(s)
      /\ call = [call EXCEPT ![s] = call[s]]
      /\ ctxDone \in [Sessions -> BOOLEAN] /\ closed \in BOOLEAN /\ faults \in Nat
  BY SessionFacts
<1>2. backend' = [backend EXCEPT ![s] = b]
  BY <1>1 DEF Read
<1>3. backend[s].state = "run" /\ call[s].op = "load"
  BY DEF Read, Running
<1>4. id \in TaskIDs
  BY <1>1, <1>3 DEF Calls, SidesOK
<1>5. rows[id] \in TaskResponses \cup {NONE}
  BY <1>4 DEF GatewayInv, StoreInv, StoreTypeOK
<1>6. b \in Backends /\ b.state = "done" /\ b.got = rows[id]
  BY <1>1, <1>5 DEF Backends
<1>7. SidesOK(s, call[s], b)
  BY <1>1, <1>3, <1>6 DEF SidesOK, Calls, Backends, NotRunning, NotCalled
<1>8. call'[s] = call[s] /\ backend'[s] = b
  BY <1>1, <1>2 DEF Read
<1> HIDE DEF b
<1>9. HandlerOK(s)'
  BY <1>1 DEF HandlerOK, Read
<1>10. ReadOK(s)'
  <2>1. ASSUME NEW p \in before[s]
        PROVE  /\ call[s].op = "load" /\ Contains(log, p)
               /\ Contains(call[p].keys, id) /\ b.got # NONE
               /\ \E i, j \in 1..Len(log) :
                    i <= j /\ log[i] = p /\ b.got.by = log[j]
    <3>1. Contains(log, p) /\ Contains(call[p].keys, id)
      BY <1>1 DEF ReadOK
    <3>2. PICK i \in 1..Len(log) : log[i] = p
      BY <3>1 DEF Contains
    <3>3. rows[id] # NONE /\ \E j \in i..Len(log) : rows[id].by = log[j]
      BY <1>4, <3>1, <3>2 DEF GatewayInv, StoreInv, RowsOK
    <3>4. PICK j \in i..Len(log) : rows[id].by = log[j]
      BY <3>3
    <3>5. Len(log) \in Nat
      BY DEF GatewayInv, StoreInv, StoreTypeOK
    <3>6. j \in 1..Len(log) /\ i <= j
      BY <3>5
    <3>7. QED
      BY <1>3, <1>6, <3>1, <3>2, <3>3, <3>4, <3>6
  <2>2. call' = call /\ log' = log /\ before' = before
    BY DEF Read
  <2>3. QED
    BY <1>8, <2>1, <2>2 DEF ReadOK
<1>11. GatewayTypeOK'
  BY DEF GatewayInv, GatewayTypeOK
<1>12. QED
  BY <1>1, <1>2, <1>3, <1>6, <1>7, <1>9, <1>10, <1>11, SessionStep DEF Read

\* A Save commits: all its keys have its response, and it is the last in the
\* log.
LEMMA CommitKeeps ==
  ASSUME GatewayInv, NEW s \in Sessions, Commit(s),
         UNCHANGED <<request, stage, status, before>>
  PROVE  GatewayInv'
<1> DEFINE b == [backend[s] EXCEPT !.state = "done"]
<1>1. /\ call \in [Sessions -> Calls] /\ backend \in [Sessions -> Backends]
      /\ call[s] \in Calls /\ backend[s] \in Backends
      /\ SidesOK(s, call[s], backend[s]) /\ HandlerOK(s) /\ ReadOK(s)
  BY SessionFacts
<1>2. StoreTypeOK /\ LogOK /\ RowsOK /\ GatewayTypeOK
  BY DEF GatewayInv, StoreInv
<1>3. backend' = [backend EXCEPT ![s] = b]
  BY DEF Commit
<1>4. backend[s].state = "run" /\ call[s].op = "save"
  BY DEF Commit, Running
<1>5. b \in Backends /\ b.state = "done"
  BY <1>1 DEF Backends
<1>6. SidesOK(s, call[s], b)
  BY <1>1, <1>4, <1>5 DEF SidesOK, Calls, Backends, NotRunning, NotCalled
<1>7. backend'[s] = b /\ \A r \in Sessions \ {s} : backend'[r] = backend[r]
  BY <1>1, <1>3
<1> HIDE DEF b
<1>8. call[s].resp \in TaskResponses /\ call[s].resp # NONE /\ call[s].resp.by = s
  BY <1>1, <1>4, NoneAssumption DEF SidesOK
<1>9. call' = call /\ log' = Append(log, s)
  BY DEF Commit
<1>10. /\ log' \in Seq(Sessions) /\ Len(log') = Len(log) + 1 /\ Len(log) \in Nat
       /\ \A i \in 1..Len(log) : log'[i] = log[i]
       /\ log'[Len(log) + 1] = s
       /\ \A x : Contains(log', x) <=> Contains(log, x) \/ x = s
  <2>1. log \in Seq(Sessions)
    BY <1>2 DEF StoreTypeOK
  <2>2. QED
    BY <1>9, <2>1, AppendFacts
<1>11. StoreTypeOK'
  <2>1. rows' \in [TaskIDs -> TaskResponses \cup {NONE}]
    BY <1>2, <1>8 DEF Commit, StoreTypeOK
  <2>2. backend' \in [Sessions -> Backends]
    BY <1>1, <1>3, <1>5
  <2>3. QED
    BY <1>2, <1>9, <1>10, <2>1, <2>2 DEF Commit, StoreTypeOK
<1>12. ~Contains(log, s)
  BY <1>2, <1>4 DEF LogOK
<1>13. LogOK'
  <2>1. ASSUME NEW i \in 1..Len(log'), NEW j \in 1..Len(log'), log'[i] = log'[j]
        PROVE  i = j
    <3>1. \A k \in 1..Len(log) : log[k] # s
      BY <1>12 DEF Contains
    <3>2. i \in 1..Len(log) \/ i = Len(log) + 1
      BY <1>10
    <3>3. j \in 1..Len(log) \/ j = Len(log) + 1
      BY <1>10
    <3>4. \A k, l \in 1..Len(log) : log[k] = log[l] => k = l
      BY <1>2 DEF LogOK, StoreTypeOK
    <3>5. QED
      BY <1>10, <2>1, <3>1, <3>2, <3>3, <3>4
  <2>2. DOMAIN log' = 1..Len(log')
    BY <1>10
  <2>3. ASSUME NEW t \in Sessions
        PROVE  Contains(log', t) <=> call'[t].op = "save" /\ backend'[t].state = "done"
    BY <1>2, <1>4, <1>5, <1>7, <1>9, <1>10 DEF LogOK
  <2>4. QED
    BY <2>1, <2>2, <2>3 DEF LogOK
<1>14. RowsOK'
  <2>1. ASSUME NEW id \in TaskIDs
        PROVE  /\ rows'[id] # NONE => Contains(log', rows'[id].by)
               /\ \A i \in 1..Len(log') : Contains(call'[log'[i]].keys, id) =>
                    rows'[id] # NONE /\ \E j \in i..Len(log') : rows'[id].by = log'[j]
    <3>1. CASE Contains(call[s].keys, id)
      <4>1. rows'[id] = call[s].resp
        BY <3>1 DEF Commit
      <4>2. ASSUME NEW i \in 1..Len(log')
            PROVE  \E j \in i..Len(log') : rows'[id].by = log'[j]
        <5>1. Len(log') \in i..Len(log')
          BY <1>10
        <5>2. QED
          BY <1>8, <1>10, <4>1, <5>1
      <4>3. QED
        BY <1>8, <1>10, <4>1, <4>2
    <3>2. CASE ~Contains(call[s].keys, id)
      <4>1. rows'[id] = rows[id]
        BY <3>2 DEF Commit
      <4>2. rows[id] # NONE => Contains(log, rows[id].by)
        BY <1>2 DEF RowsOK
      <4>3. ASSUME NEW i \in 1..Len(log'), Contains(call'[log'[i]].keys, id)
            PROVE  rows'[id] # NONE /\ \E j \in i..Len(log') : rows'[id].by = log'[j]
        <5>1. i \in 1..Len(log)
          <6>1. i # Len(log) + 1
            BY <1>9, <1>10, <3>2, <4>3
          <6>2. QED
            BY <1>10, <6>1
        <5>2. Contains(call[log[i]].keys, id)
          BY <1>9, <1>10, <4>3, <5>1
        <5>3. rows[id] # NONE /\ \E j \in i..Len(log) : rows[id].by = log[j]
          BY <1>2, <5>1, <5>2 DEF RowsOK
        <5>4. PICK j \in i..Len(log) : rows[id].by = log[j]
          BY <5>3
        <5>5. j \in 1..Len(log) /\ j \in i..Len(log')
          BY <1>10
        <5>6. log'[j] = log[j]
          BY <1>10, <5>5
        <5>7. QED
          BY <4>1, <5>3, <5>4, <5>5, <5>6
      <4>4. QED
        BY <1>10, <4>1, <4>2, <4>3
    <3>3. QED
      BY <3>1, <3>2
  <2>2. QED
    BY <2>1 DEF RowsOK
<1>15. \A r \in Sessions : SidesOK(r, call'[r], backend'[r])
  BY <1>6, <1>7, <1>9 DEF GatewayInv, StoreInv
<1>16. GatewayTypeOK'
  BY <1>2 DEF GatewayTypeOK
<1>17. ASSUME NEW r \in Sessions PROVE HandlerOK(r)' /\ ReadOK(r)'
  <2>1. HandlerOK(r) /\ ReadOK(r)
    BY DEF GatewayInv
  <2>2. HandlerOK(r)'
    BY <1>9, <2>1 DEF HandlerOK
  <2>3. ASSUME NEW p \in before[r]
        PROVE  /\ call[r].op = "load" /\ Contains(log', p)
               /\ Contains(call[p].keys, call[r].keys[1])
               /\ backend'[r].state = "done" =>
                    /\ backend'[r].got # NONE
                    /\ \E i, j \in 1..Len(log') :
                         i <= j /\ log'[i] = p /\ backend'[r].got.by = log'[j]
    <3>1. /\ call[r].op = "load" /\ Contains(log, p)
          /\ Contains(call[p].keys, call[r].keys[1])
      BY <2>1 DEF ReadOK
    <3>2. backend'[r] = backend[r]
      BY <1>4, <1>7, <3>1
    <3>3. ASSUME backend[r].state = "done"
          PROVE  /\ backend[r].got # NONE
                 /\ \E i, j \in 1..Len(log') :
                      i <= j /\ log'[i] = p /\ backend[r].got.by = log'[j]
      <4>1. backend[r].got # NONE
        BY <2>1, <3>3 DEF ReadOK
      <4>2. PICK i \in 1..Len(log), j \in 1..Len(log) :
              i <= j /\ log[i] = p /\ backend[r].got.by = log[j]
        BY <2>1, <3>3 DEF ReadOK
      <4>3. i \in 1..Len(log') /\ j \in 1..Len(log')
        BY <1>10
      <4>4. log'[i] = log[i] /\ log'[j] = log[j]
        BY <1>10
      <4>5. QED
        BY <4>1, <4>2, <4>3, <4>4
    <3>4. QED
      BY <1>10, <3>1, <3>2, <3>3
  <2>4. ReadOK(r)'
    BY <1>9, <2>3 DEF ReadOK
  <2>5. QED
    BY <2>2, <2>4
<1>18. QED
  BY <1>11, <1>13, <1>14, <1>15, <1>16, <1>17 DEF GatewayInv, StoreInv

-----------------------------------------------------------------------------
(* The invariant is kept by the steps of the handlers.                     *)

\* A refusal is not a 200.
LEMMA ChecksRefuse ==
  ASSUME NEW q \in Request
  PROVE  Checks(q) # 200
<1>1. /\ q.kind \in {"DispatchTask", "InvokeAgent", "GetTask"}
      /\ q.body \in {"good", "large", "bad"}
  BY DEF Request
<1>2. ReadBody(q) # 200
  BY <1>1, NotStatusAssumption DEF ReadBody
<1>3. AuthMiddleware(q) # 200
  BY NotStatusAssumption DEF AuthMiddleware
<1>4. DispatchTaskChecks(q) # 200
  BY <1>2, NotStatusAssumption DEF DispatchTaskChecks
<1>5. InvokeAgentChecks(q) # 200
  BY <1>2, NotStatusAssumption DEF InvokeAgentChecks
<1>6. QED
  BY <1>1, <1>3, <1>4, <1>5, NotStatusAssumption DEF Checks

\* A handler replies: its request and the store stay as they are.
LEMMA ReplyKeeps ==
  ASSUME GatewayInv, NEW r \in Sessions, NEW code, Reply(r, code),
         UNCHANGED <<storeVars, request, before>>,
         stage[r] \in {"dispatch", "store"},
         call[r].op = "none" => code # 200,
         call[r].op = "save" =>
           \/ call[r].place = "ok" /\ code = 200
           \/ call[r].place = "err" /\ code = 503,
         call[r].op = "load" =>
           \/ call[r].place = "ok" /\ code \in {200, 403}
           \/ call[r].place = "notfound" /\ code = 404
           \/ call[r].place = "err" /\ code = 503
  PROVE  GatewayInv'
<1>1. /\ ctxDone \in [Sessions -> BOOLEAN] /\ closed \in BOOLEAN /\ faults \in Nat
      /\ HandlerOK(r) /\ GatewayTypeOK
  BY SessionFacts DEF GatewayInv
<1>2. /\ stage' = [stage EXCEPT ![r] = "done"]
      /\ status' = [status EXCEPT ![r] = code]
  BY DEF Reply
<1>3. /\ GatewayTypeOK' /\ stage'[r] = "done" /\ status'[r] = code
      /\ \A u \in Sessions \ {r} : stage'[u] = stage[u] /\ status'[u] = status[u]
  BY <1>1, <1>2 DEF GatewayTypeOK
<1>4. HandlerOK(r)'
  BY <1>1, <1>3 DEF HandlerOK, storeVars
<1>5. QED
  BY <1>1, <1>3, <1>4, HandlerStep DEF storeVars

\* A request is refused before anything is called.
LEMMA RefuseKeeps ==
  ASSUME GatewayInv, NEW r \in Sessions, NEW q \in Requests[r], Refuse(r, q)
  PROVE  GatewayInv'
<1>1. /\ ctxDone \in [Sessions -> BOOLEAN] /\ closed \in BOOLEAN /\ faults \in Nat
      /\ HandlerOK(r) /\ GatewayTypeOK
  BY SessionFacts DEF GatewayInv
<1>2. q \in Request /\ Checks(q) # 200
  BY RequestsAssumption, ChecksRefuse
<1>3. /\ request' = [request EXCEPT ![r] = q]
      /\ stage' = [stage EXCEPT ![r] = "done"]
      /\ status' = [status EXCEPT ![r] = Checks(q)]
      /\ UNCHANGED <<storeVars, before>> /\ stage[r] = "new"
  BY DEF Refuse, Reply
<1>4. /\ GatewayTypeOK' /\ request'[r] = q /\ stage'[r] = "done"
      /\ status'[r] = Checks(q)
      /\ \A u \in Sessions \ {r} : /\ request'[u] = request[u]
                                   /\ stage'[u] = stage[u] /\ status'[u] = status[u]
  BY <1>1, <1>2, <1>3 DEF GatewayTypeOK
<1>5. call'[r] = call[r] /\ call[r].op = "none"
  BY <1>1, <1>3 DEF HandlerOK, storeVars
<1>6. HandlerOK(r)'
  BY <1>2, <1>4, <1>5 DEF HandlerOK
<1>7. QED
  BY <1>1, <1>3, <1>4, <1>6, HandlerStep DEF storeVars

\* A POST is admitted.
LEMMA AdmitTaskKeeps ==
  ASSUME GatewayInv, NEW r \in Sessions, NEW q \in Requests[r], AdmitTask(r, q)
  PROVE  GatewayInv'
<1>1. /\ ctxDone \in [Sessions -> BOOLEAN] /\ closed \in BOOLEAN /\ faults \in Nat
      /\ HandlerOK(r) /\ GatewayTypeOK
  BY SessionFacts DEF GatewayInv
<1>2. q \in Request
  BY RequestsAssumption
<1>3. /\ request' = [request EXCEPT ![r] = q] /\ q.kind # "GetTask"
      /\ stage' = [stage EXCEPT ![r] = "dispatch"]
      /\ UNCHANGED <<storeVars, status, before>> /\ stage[r] = "new"
  BY DEF AdmitTask
<1>4. /\ GatewayTypeOK' /\ request'[r] = q /\ stage'[r] = "dispatch"
      /\ \A u \in Sessions \ {r} : request'[u] = request[u] /\ stage'[u] = stage[u]
  BY <1>1, <1>2, <1>3 DEF GatewayTypeOK
<1>5. call'[r] = call[r] /\ call[r].op = "none" /\ status'[r] = NONE
  BY <1>1, <1>3 DEF HandlerOK, storeVars
<1>6. HandlerOK(r)'
  BY <1>3, <1>4, <1>5 DEF HandlerOK
<1>7. QED
  BY <1>1, <1>3, <1>4, <1>6, HandlerStep DEF storeVars

\* A session that has not been called.
LEMMA NotCalledFacts ==
  ASSUME GatewayInv, NEW s \in Sessions, call[s].op = "none"
  PROVE  /\ call[s] = NotCalled /\ backend[s] = NotRunning
         /\ before[s] = {} /\ ~Contains(log, s)
<1>1. SidesOK(s, call[s], backend[s]) /\ ReadOK(s) /\ LogOK /\ GatewayTypeOK
  BY DEF GatewayInv, StoreInv
<1>2. call[s] = NotCalled /\ backend[s] = NotRunning
  BY <1>1 DEF SidesOK, NotCalled
<1>3. before[s] = {}
  BY <1>1 DEF ReadOK
<1>4. ~Contains(log, s)
  BY <1>1 DEF LogOK
<1>5. QED
  BY <1>2, <1>3, <1>4

\* What a POST that was answered 200 has done.
LEMMA AnsweredFacts ==
  ASSUME GatewayInv, NEW p \in Sessions, status[p] = 200, request[p].kind # "GetTask"
  PROVE  /\ call[p].op = "save" /\ Contains(log, p)
         /\ \A id \in KnownIDs(p) : Contains(call[p].keys, id)
<1>1. HandlerOK(p) /\ SidesOK(p, call[p], backend[p]) /\ LogOK /\ call[p] \in Calls
      /\ GatewayTypeOK
  BY SessionFacts DEF GatewayInv, StoreInv
<1>2. stage[p] = "done"
  BY <1>1, NotStatusAssumption DEF HandlerOK, GatewayTypeOK
<1>3. call[p].op = "save" /\ call[p].place = "ok"
  BY <1>1, <1>2 DEF HandlerOK, Calls
<1>4. Contains(log, p)
  BY <1>1, <1>3 DEF LogOK, SidesOK
<1>5. Len(call[p].keys) \in Nat \ {0}
  BY <1>1, <1>3, EmptySeq DEF SidesOK, Calls
<1>6. Contains(call[p].keys, call[p].keys[1])
  BY <1>5 DEF Contains
<1>7. QED
  BY <1>1, <1>3, <1>4, <1>6 DEF KnownIDs, HandlerOK

\* GetTask calls Load: what was answered before it is committed under its ID.
LEMMA GetTaskKeeps ==
  ASSUME GatewayInv, NEW r \in Sessions, NEW q \in Requests[r], GetTask(r, q)
  PROVE  GatewayInv'
<1> DEFINE c == [op |-> "load", keys |-> <<q.id>>, resp |-> NONE, place |-> Admitted(r)]
           answered == {p \in Sessions : /\ status[p] = 200
                                         /\ request[p].kind # "GetTask"
                                         /\ q.id \in KnownIDs(p)}
<1>1. /\ ctxDone \in [Sessions -> BOOLEAN] /\ closed \in BOOLEAN /\ faults \in Nat
      /\ HandlerOK(r) /\ GatewayTypeOK
      /\ call \in [Sessions -> Calls] /\ backend[r] \in Backends
      /\ backend = [backend EXCEPT ![r] = backend[r]]
  BY SessionFacts DEF GatewayInv
<1>2. q \in Request /\ q.kind = "GetTask" /\ q.id # NONE
  BY RequestsAssumption DEF GetTask
<1>3. q.id \in TaskIDs
  BY <1>2 DEF Request
<1>4. stage[r] = "new" /\ call[r].op = "none" /\ status[r] = NONE
  BY <1>1 DEF GetTask, HandlerOK
<1>5. backend[r] = NotRunning /\ ~Contains(log, r)
  BY <1>4, NotCalledFacts
<1>6. /\ call' = [call EXCEPT ![r] = c]
      /\ UNCHANGED <<rows, backend, ctxDone, closed, log, faults, status>>
      /\ request' = [request EXCEPT ![r] = q]
      /\ stage' = [stage EXCEPT ![r] = "store"]
      /\ before' = [before EXCEPT ![r] = answered]
  BY DEF GetTask, Load
<1>7. c.op = "load" /\ c.keys = <<q.id>> /\ c.resp = NONE /\ c.place \in {"err", "pool"}
  BY DEF Admitted
<1>8. c \in Calls
  BY <1>3 DEF Calls, Places, Admitted
<1>9. answered \in SUBSET Sessions
  OBVIOUS
<1>10. ASSUME NEW p \in answered
       PROVE  p \in Sessions /\ Contains(log, p) /\ Contains(call[p].keys, q.id) /\ p # r
  BY <1>4, <1>10, AnsweredFacts
<1>11. SidesOK(r, c, backend[r])
  <2> HIDE DEF c
  <2>1. Len(c.keys) = 1 /\ c.keys # <<>>
    BY <1>7
  <2>2. QED
    BY <1>5, <1>7, <2>1 DEF SidesOK, NotRunning
<1> HIDE DEF c, answered
<1>12. /\ call'[r] = c /\ backend'[r] = backend[r]
       /\ \A u \in Sessions \ {r} : call'[u] = call[u]
  BY <1>1, <1>6
<1>13. /\ GatewayTypeOK' /\ request'[r] = q /\ stage'[r] = "store" /\ before'[r] = answered
       /\ status'[r] = NONE
       /\ \A u \in Sessions \ {r} : /\ request'[u] = request[u] /\ stage'[u] = stage[u]
                                    /\ status'[u] = status[u] /\ before'[u] = before[u]
  BY <1>1, <1>2, <1>4, <1>6, <1>9 DEF GatewayTypeOK
<1>14. HandlerOK(r)'
  BY <1>2, <1>7, <1>12, <1>13 DEF HandlerOK
<1>15. ReadOK(r)'
  <2>1. \A p \in answered : /\ Contains(log', p) /\ call'[p].keys = call[p].keys
                            /\ Contains(call[p].keys, q.id)
    BY <1>6, <1>10, <1>12
  <2>2. c.keys[1] = q.id
    BY <1>7
  <2>3. backend'[r].state # "done"
    BY <1>5, <1>12 DEF NotRunning
  <2>4. QED
    BY <1>7, <1>12, <1>13, <2>1, <2>2, <2>3 DEF ReadOK
<1>16. QED
  BY <1>1, <1>4, <1>5, <1>6, <1>7, <1>8, <1>11, <1>13, <1>14, <1>15, SessionStep DEF NotRunning

\* Dispatch succeeds and saveTask is called, with the task ID of the client
\* among the keys.
LEMMA DispatchSucceedsKeeps ==
  ASSUME GatewayInv, NEW r \in Sessions, DispatchSucceeds(r)
  PROVE  GatewayInv'
<1> DEFINE q == request[r]
<1>1. /\ ctxDone \in [Sessions -> BOOLEAN] /\ closed \in BOOLEAN /\ faults \in Nat
      /\ HandlerOK(r) /\ GatewayTypeOK
      /\ call \in [Sessions -> Calls] /\ backend[r] \in Backends
      /\ backend = [backend EXCEPT ![r] = backend[r]]
  BY SessionFacts DEF GatewayInv
<1>2. stage[r] = "dispatch" /\ Target(q) \in AgentIDs
  BY DEF DispatchSucceeds
<1>3. call[r].op = "none" /\ q.kind # "GetTask" /\ status[r] = NONE /\ q \in Requests[r]
  BY <1>1, <1>2 DEF HandlerOK
<1>4. q \in Request /\ (q.id # NONE => q.kind = "DispatchTask")
  BY <1>3, RequestsAssumption DEF Request
<1>5. backend[r] = NotRunning /\ ~Contains(log, r) /\ before[r] = {}
  BY <1>3, NotCalledFacts
<1>6. PICK agent \in Leads[Target(q)], given \in AdapterTaskIDs :
        LET taskID == IF given = NONE THEN TaskID(r, q) ELSE given
        IN  Save(r, taskID, [by |-> r, agent |-> agent], Aliases(r, q, taskID))
  BY DEF DispatchSucceeds
<1> DEFINE taskID == IF given = NONE THEN TaskID(r, q) ELSE given
           ks == Keys(taskID, Aliases(r, q, taskID))
           resp == [by |-> r, agent |-> agent]
<1>7. TaskID(r, q) \in TaskIDs
  BY <1>4, GeneratedAssumption DEF TaskID, Request
<1>8. taskID \in TaskIDs
  BY <1>7, GeneratedAssumption
<1>9. Aliases(r, q, taskID) \in Seq(TaskIDs \cup {NONE})
  <2>1. <<TaskID(r, q)>> \in Seq(TaskIDs \cup {NONE})
    BY <1>7
  <2>2. <<>> \in Seq(TaskIDs \cup {NONE})
    OBVIOUS
  <2>3. QED
    BY <2>1, <2>2 DEF Aliases
<1>10. KeysAfter(ks, taskID, Aliases(r, q, taskID), Len(Aliases(r, q, taskID)))
  <2> HIDE DEF taskID
  <2> QED BY <1>8, <1>9, KeysFacts
<1>11. resp \in TaskResponses /\ resp.by = r /\ resp # NONE
  <2>1. agent \in AgentIDs
    BY <1>2, <1>6, LeadsAssumption
  <2>2. QED
    BY <2>1, ResponsesAssumption, NoneAssumption
<1>12. PICK place \in {Admitted(r), "err"} :
         call' = [call EXCEPT ![r] = [op |-> "save", keys |-> ks, resp |-> resp,
                                      place |-> place]]
  BY <1>6 DEF Save
<1> DEFINE c == [op |-> "save", keys |-> ks, resp |-> resp, place |-> place]
<1>13. /\ UNCHANGED <<rows, backend, ctxDone, closed, log, faults>>
       /\ UNCHANGED <<request, status, before>>
       /\ stage' = [stage EXCEPT ![r] = "store"]
  BY <1>6 DEF DispatchSucceeds, Save
<1>14. q.id # NONE => Contains(ks, q.id)
  <2> HIDE DEF q, taskID, ks
  <2>1. CASE q.id # NONE
    <3>1. TaskID(r, q) = q.id /\ q.kind = "DispatchTask"
      BY <1>4, <2>1 DEF TaskID
    <3>2. CASE taskID = q.id
      BY <1>10, <3>2 DEF KeysAfter
    <3>3. CASE taskID # q.id
      <4>1. Aliases(r, q, taskID) = <<q.id>>
        BY <3>1, <3>3 DEF Aliases
      <4>2. Len(<<q.id>>) = 1 /\ 1 \in 1..Len(<<q.id>>) /\ <<q.id>>[1] = q.id
        OBVIOUS
      <4>3. QED
        BY <1>10, <2>1, <4>1, <4>2 DEF KeysAfter
    <3>4. QED
      BY <3>2, <3>3
  <2>2. QED
    BY <2>1
<1>15. ks \in Seq(TaskIDs) /\ Len(ks) >= 1
  BY <1>10 DEF KeysAfter
<1> HIDE DEF q, taskID, ks, resp
<1>16. c.op = "save" /\ c.keys = ks /\ c.resp = resp /\ c.place \in {"err", "pool"}
  BY DEF Admitted
<1>17. c \in Calls
  BY <1>11, <1>15, <1>16 DEF Calls, Places
<1>18. call' = [call EXCEPT ![r] = c]
  BY <1>12
<1> HIDE DEF c
<1>19. ks # <<>>
  BY <1>15
<1>20. SidesOK(r, c, backend[r])
  BY <1>5, <1>11, <1>15, <1>16, <1>19 DEF SidesOK, NotRunning
<1>21. call'[r] = c /\ backend'[r] = backend[r]
  BY <1>1, <1>13, <1>18
<1>22. /\ GatewayTypeOK' /\ stage'[r] = "store" /\ request'[r] = q
       /\ status'[r] = NONE /\ before'[r] = {}
       /\ \A u \in Sessions \ {r} : stage'[u] = stage[u]
  BY <1>1, <1>3, <1>5, <1>13 DEF GatewayTypeOK, q
<1>23. HandlerOK(r)'
  BY <1>3, <1>14, <1>16, <1>21, <1>22 DEF HandlerOK
<1>24. ReadOK(r)'
  BY <1>22 DEF ReadOK
<1>25. /\ backend' = [backend EXCEPT ![r] = backend[r]] /\ backend[r] \in Backends
       /\ rows' = rows /\ log' = log /\ ctxDone' \in [Sessions -> BOOLEAN]
       /\ closed' \in BOOLEAN /\ faults' \in Nat
  BY <1>1, <1>13
<1>26. (c.op = "save" /\ backend[r].state = "done")
         <=> (call[r].op = "save" /\ backend[r].state = "done")
  BY <1>5 DEF NotRunning
<1>27. \A u \in Sessions \ {r} :
         /\ request'[u] = request[u] /\ stage'[u] = stage[u]
         /\ status'[u] = status[u] /\ before'[u] = before[u]
  BY <1>13, <1>22
<1>28. Contains(log, r) => c.keys = call[r].keys
  BY <1>5
<1>29. GatewayTypeOK'
  BY <1>22
<1>30. QED
  BY <1>17, <1>18, <1>20, <1>23, <1>24, <1>25, <1>26, <1>27, <1>28, <1>29, SessionStep

\* Dispatch fails, or the adapter panics.
LEMMA DispatchFailsKeeps ==
  ASSUME GatewayInv, NEW r \in Sessions, DispatchFails(r) \/ Panic(r)
  PROVE  GatewayInv'
<1>1. stage[r] = "dispatch" /\ UNCHANGED <<storeVars, request, before>>
  BY DEF DispatchFails, Panic
<1>2. PICK code \in {400, 404, 500, 502, 504} : Reply(r, code)
  BY DEF DispatchFails, Panic, DispatchErrors
<1>3. code # 200
  OBVIOUS
<1>4. call[r].op = "none"
  BY <1>1, SessionFacts DEF HandlerOK
<1>5. QED
  BY <1>1, <1>2, <1>3, <1>4, ReplyKeeps

\* Save returns.
LEMMA SaveReturnsKeeps ==
  ASSUME GatewayInv, NEW r \in Sessions, SaveReturns(r)
  PROVE  GatewayInv'
<1>1. stage[r] = "store" /\ UNCHANGED <<storeVars, request, before>>
  BY DEF SaveReturns
<1>2. call[r].op = "save"
  BY <1>1, SessionFacts DEF SaveReturns, HandlerOK
<1>3. CASE call[r].place = "ok" /\ Reply(r, 200)
  BY <1>1, <1>2, <1>3, ReplyKeeps
<1>4. CASE call[r].place = "err" /\ Reply(r, 503)
  BY <1>1, <1>2, <1>4, ReplyKeeps
<1>5. QED
  BY <1>3, <1>4 DEF SaveReturns

\* Load returns.
LEMMA LoadReturnsKeeps ==
  ASSUME GatewayInv, NEW r \in Sessions, LoadReturns(r)
  PROVE  GatewayInv'
<1>1. stage[r] = "store" /\ UNCHANGED <<storeVars, request, before>>
  BY DEF LoadReturns
<1>2. call[r].op = "load"
  BY <1>1, SessionFacts DEF LoadReturns, HandlerOK
<1>3. CASE call[r].place = "notfound" /\ Reply(r, 404)
  BY <1>1, <1>2, <1>3, ReplyKeeps
<1>4. CASE call[r].place = "err" /\ Reply(r, 503)
  BY <1>1, <1>2, <1>4, ReplyKeeps
<1>5. CASE call[r].place = "ok"
           /\ Reply(r, IF SecurityEnabled /\ ~Allows(request[r], call[r].resp.agent)
                       THEN 403 ELSE 200)
  <2>1. PICK code \in {200, 403} : Reply(r, code)
    BY <1>5
  <2>2. QED
    BY <1>1, <1>2, <1>5, <2>1, ReplyKeeps
<1>6. QED
  BY <1>3, <1>4, <1>5 DEF LoadReturns

-----------------------------------------------------------------------------
(* The invariant.                                                          *)

\* The store, and the handlers, begin with nothing.
LEMMA InitHolds == GatewayInit => GatewayInv
<1> SUFFICES ASSUME GatewayInit PROVE GatewayInv
  OBVIOUS
<1>1. StoreTypeOK
  <2>1. <<>> \in Seq(TaskIDs) /\ <<>> \in Seq(Sessions)
    OBVIOUS
  <2>2. NotCalled \in Calls
    BY <2>1 DEF NotCalled, Calls, Places
  <2>3. NotRunning \in Backends
    BY DEF NotRunning, Backends
  <2>4. QED
    BY <2>1, <2>2, <2>3 DEF GatewayInit, StoreInit, StoreTypeOK
<1>2. log = <<>> /\ \A x : ~Contains(log, x)
  BY DEF GatewayInit, StoreInit, Contains
<1>3. /\ \A s \in Sessions : call[s] = NotCalled /\ backend[s] = NotRunning
      /\ \A id \in TaskIDs : rows[id] = NONE
  BY DEF GatewayInit, StoreInit
<1>4. LogOK
  BY <1>2, <1>3 DEF LogOK, NotCalled
<1>5. RowsOK
  <2>1. 1..Len(log) = {}
    BY <1>2
  <2>2. QED
    BY <1>3, <2>1 DEF RowsOK
<1>6. ASSUME NEW s \in Sessions PROVE SidesOK(s, call[s], backend[s])
  BY <1>3 DEF SidesOK, NotCalled, NotRunning
<1>7. GatewayTypeOK
  BY DEF GatewayInit, GatewayTypeOK
<1>8. ASSUME NEW r \in Sessions PROVE HandlerOK(r) /\ ReadOK(r)
  <2>1. stage[r] = "new" /\ status[r] = NONE /\ before[r] = {}
    BY DEF GatewayInit
  <2>2. call[r].op = "none"
    BY <1>3 DEF NotCalled
  <2>3. QED
    BY <2>1, <2>2 DEF HandlerOK, ReadOK
<1>9. QED
  BY <1>1, <1>4, <1>5, <1>6, <1>7, <1>8 DEF GatewayInv, StoreInv

\* A step that only touches a context, the closing and the faults.
LEMMA FaultKeeps ==
  ASSUME GatewayInv, UNCHANGED <<rows, call, backend, log, request, stage, status, before>>,
         ctxDone' \in [Sessions -> BOOLEAN], closed' \in BOOLEAN, faults' \in Nat
  PROVE  GatewayInv'
<1>1. StoreTypeOK' /\ GatewayTypeOK'
  BY DEF GatewayInv, StoreInv, StoreTypeOK, GatewayTypeOK
<1>2. LogOK' /\ RowsOK'
  BY DEF GatewayInv, StoreInv, LogOK, RowsOK
<1>3. \A s \in Sessions : SidesOK(s, call'[s], backend'[s])
  BY DEF GatewayInv, StoreInv
<1>4. \A r \in Sessions : HandlerOK(r)' /\ ReadOK(r)'
  BY DEF GatewayInv, HandlerOK, ReadOK
<1>5. QED
  BY <1>1, <1>2, <1>3, <1>4 DEF GatewayInv, StoreInv

\* Every step keeps the invariant.
LEMMA NextKeeps ==
  ASSUME GatewayInv, [GatewayNext]_gatewayVars
  PROVE  GatewayInv'
<1> DEFINE Rest == UNCHANGED <<request, stage, status, before>>
<1>1. /\ ctxDone \in [Sessions -> BOOLEAN] /\ closed \in BOOLEAN /\ faults \in Nat
  BY DEF GatewayInv, StoreInv, StoreTypeOK
<1>2. Fault => faults' \in Nat
  BY <1>1 DEF Fault
<1>3. CASE UNCHANGED gatewayVars
  BY <1>1, <1>3, FaultKeeps DEF gatewayVars, storeVars
<1>4. ASSUME NEW r \in Sessions, Arrives(r) PROVE GatewayInv'
  BY <1>4, RefuseKeeps, AdmitTaskKeeps, GetTaskKeeps DEF Arrives
<1>5. ASSUME NEW r \in Sessions, Handles(r) PROVE GatewayInv'
  BY <1>5, DispatchSucceedsKeeps, DispatchFailsKeeps, SaveReturnsKeeps, LoadReturnsKeeps
     DEF Handles
<1>6. ASSUME NEW s \in Sessions, CallProceeds(s), Rest PROVE GatewayInv'
  <2>1. CASE Acquire(s)
    BY <1>6, <2>1, AcquireKeeps
  <2>2. CASE PoolFails(s) \/ Abandon(s)
    BY <1>1, <1>6, <2>2, FailsKeeps DEF PoolFails, Abandon
  <2>3. CASE Receive(s)
    BY <1>6, <2>3, ReceiveKeeps
  <2>4. CASE LockRow(s)
    BY <1>6, <2>4, LockRowKeeps
  <2>5. CASE Commit(s)
    BY <1>6, <2>5, CommitKeeps
  <2>6. CASE Read(s)
    BY <1>6, <2>6, ReadKeeps
  <2>7. CASE DeadlockDetected(s)
    <3>1. backend[s].state = "run"
      BY <2>7, WaitsIsRunning DEF DeadlockDetected, InDeadlock
    <3>2. QED
      BY <1>1, <1>6, <2>7, <3>1, AbortsKeeps DEF DeadlockDetected
  <2>8. CASE CancelArrives(s)
    BY <1>1, <1>6, <2>8, AbortsKeeps DEF CancelArrives
  <2>9. QED
    BY <1>6, <2>1, <2>2, <2>3, <2>4, <2>5, <2>6, <2>7, <2>8 DEF CallProceeds
<1>7. ASSUME NEW s \in Sessions, CallBreaks(s), Rest PROVE GatewayInv'
  <2>1. CASE ConnectionLost(s)
    BY <1>2, <1>7, <2>1, FailsKeeps DEF ConnectionLost
  <2>2. CASE StatementFails(s)
    BY <1>2, <1>7, <2>2, AbortsKeeps DEF StatementFails
  <2>3. QED
    BY <1>7, <2>1, <2>2 DEF CallBreaks
<1>8. ASSUME NEW r \in Sessions, ClientLeaves(r) PROVE GatewayInv'
  <2>1. ctxDone' \in [Sessions -> BOOLEAN]
    BY <1>1, <1>8 DEF ClientLeaves, ContextDone
  <2>2. QED
    BY <1>1, <1>2, <1>8, <2>1, FaultKeeps DEF ClientLeaves, ContextDone
<1>9. CASE StoreCloses
  BY <1>1, <1>2, <1>9, FaultKeeps DEF StoreCloses, Close
<1>10. QED
  BY <1>3, <1>4, <1>5, <1>6, <1>7, <1>8, <1>9
     DEF GatewayNext, StoreProceeds, StoreBreaks

-----------------------------------------------------------------------------
(* Theorems.                                                               *)

\* The inductive invariant of the requests and the store: what the server has
\* done and the caller has been told agree, the rows follow the log, and a GET
\* has read nothing older than what was answered before it.
THEOREM GatewayInvariance == GatewaySpec => []GatewayInv
<1>1. GatewayInv /\ [GatewayNext]_gatewayVars => GatewayInv'
  BY NextKeeps
<1>2. QED
  BY <1>1, InitHolds, PTL DEF GatewaySpec

\* saveTask and its error path: a POST is answered 200 only if its result is
\* committed, and 503 if it is not, whatever becomes of the connection, the
\* statement, the context or the pool, for any number of requests.
THEOREM AnsweredIsStored == GatewaySpec => []StoredOrTold
<1>1. GatewayInv => StoredOrTold
  <2> SUFFICES ASSUME GatewayInv, NEW r \in Sessions,
                      stage[r] = "done", call[r].op = "save"
               PROVE  /\ status[r] = 200 => Contains(log, r)
                      /\ ~Contains(log, r) => status[r] = 503
    BY DEF StoredOrTold
  <2>1. HandlerOK(r) /\ SidesOK(r, call[r], backend[r]) /\ LogOK
    BY DEF GatewayInv, StoreInv
  <2>2. \/ call[r].place = "ok" /\ status[r] = 200
        \/ call[r].place = "err" /\ status[r] = 503
    BY <2>1 DEF HandlerOK
  <2>3. call[r].place = "ok" => Contains(log, r)
    BY <2>1 DEF SidesOK, LogOK
  <2>4. QED
    BY <2>2, <2>3
<1>2. QED
  BY <1>1, GatewayInvariance, PTL

\* Every Save is in the log once, so its position is where it is.
LEMMA PositionFacts ==
  ASSUME LogOK, NEW i \in DOMAIN log
  PROVE  Position(log[i]) = i
BY DEF Position, LogOK

\* GetTask after DispatchTask or InvokeAgent, through the alias keys and the
\* upsert: what was answered 200 before the GET began is found under each of
\* its IDs, and never an older result, for any number of requests and IDs.
THEOREM GetFindsWhatWasAnswered == GatewaySpec => []ReadsWhatWasAnswered
<1>1. GatewayInv => ReadsWhatWasAnswered
  <2> SUFFICES ASSUME GatewayInv, NEW r \in Sessions,
                      stage[r] = "done", before[r] # {}
               PROVE  /\ status[r] # 404
                      /\ status[r] = 200 =>
                           \A p \in before[r] : Position(call[r].resp.by) >= Position(p)
    BY DEF ReadsWhatWasAnswered
  <2>1. /\ HandlerOK(r) /\ ReadOK(r) /\ SidesOK(r, call[r], backend[r]) /\ LogOK
        /\ log \in Seq(Sessions)
    BY DEF GatewayInv, StoreInv, StoreTypeOK
  <2>2. call[r].op = "load"
    BY <2>1 DEF ReadOK
  <2>3. \/ call[r].place = "ok" /\ status[r] \in {200, 403}
        \/ call[r].place = "notfound" /\ status[r] = 404
        \/ call[r].place = "err" /\ status[r] = 503
    BY <2>1, <2>2 DEF HandlerOK
  <2>4. call[r].place # "notfound"
    BY <2>1 DEF ReadOK, SidesOK
  <2>5. ASSUME status[r] = 200, NEW p \in before[r]
        PROVE  Position(call[r].resp.by) >= Position(p)
    <3>1. call[r].place = "ok"
      BY <2>3, <2>5
    <3>2. backend[r].state = "done" /\ call[r].resp = backend[r].got
      BY <2>1, <2>2, <3>1 DEF SidesOK
    <3>3. PICK i \in 1..Len(log), j \in 1..Len(log) :
            i <= j /\ log[i] = p /\ backend[r].got.by = log[j]
      BY <2>1, <3>2 DEF ReadOK
    <3>4. i \in DOMAIN log /\ j \in DOMAIN log
      BY <2>1
    <3>5. Position(p) = i /\ Position(backend[r].got.by) = j
      BY <2>1, <3>3, <3>4, PositionFacts
    <3>6. QED
      BY <3>2, <3>3, <3>5
  <2>6. QED
    BY <2>3, <2>4, <2>5
<1>2. QED
  BY <1>1, GatewayInvariance, PTL

\* Row locks of the upsert, taken in the order of the keys: statements that
\* wait in a circle name their keys in crossed orders.  A rank that agrees with
\* all keys would rise along every edge of the circle without end.
THEOREM CirclesNeedCrossedKeys == GatewaySpec => []DeadlockNeedsCrossedKeys
<1>1. GatewayInv => DeadlockNeedsCrossedKeys
  <2> SUFFICES ASSUME GatewayInv, NEW circle \in SUBSET Sessions, circle # {},
                      \A t \in circle : Blockers(t) # {},
                      UNION {Blockers(t) : t \in circle} = circle,
                      NEW rank \in [TaskIDs -> 1..Cardinality(TaskIDs)],
                      \A t \in circle : \A i, j \in DOMAIN call[t].keys :
                        i < j => rank[call[t].keys[i]] < rank[call[t].keys[j]]
               PROVE  FALSE
    BY DEF DeadlockNeedsCrossedKeys
  <2> DEFINE N == Cardinality(TaskIDs)
             Want(t) == call[t].keys[backend[t].next]
             T == {N - rank[Want(t)] : t \in circle}
  <2>1. N \in Nat
    BY TaskIDsAssumption, FS_CardinalityType
  <2>2. ASSUME NEW t \in circle
        PROVE  /\ backend[t].next \in DOMAIN call[t].keys
               /\ Wanted(t) = Want(t) /\ Want(t) \in TaskIDs
               /\ rank[Want(t)] \in 1..N
    <3>1. /\ backend[t].state = "run" /\ backend[t].next <= Len(call[t].keys)
          /\ t \in Sessions
      BY WaitsIsRunning
    <3>2. backend[t].next \in Nat \ {0} /\ call[t].keys \in Seq(TaskIDs)
      BY <3>1, SessionFacts DEF Calls, Backends
    <3>3. backend[t].next \in DOMAIN call[t].keys
      BY <3>1, <3>2
    <3>4. QED
      BY <3>2, <3>3 DEF Wanted, LockOrder
  <2> HIDE DEF Want
  <2>3. T \in SUBSET Nat /\ T # {}
    BY <2>1, <2>2
  <2>4. PICK n \in T : \A m \in T : n <= m
    <3> HIDE DEF T
    <3> QED BY <2>3, LeastNumber
  <2>5. PICK t \in circle : n = N - rank[Want(t)]
    OBVIOUS
  <2>6. \A u \in circle : rank[Want(u)] <= rank[Want(t)]
    <3>1. ASSUME NEW u \in circle PROVE rank[Want(u)] <= rank[Want(t)]
      <4>1. N - rank[Want(u)] \in T
        OBVIOUS
      <4>2. N - rank[Want(t)] <= N - rank[Want(u)]
        BY <2>4, <2>5, <4>1
      <4>3. rank[Want(t)] \in 1..N /\ rank[Want(u)] \in 1..N
        BY <2>2
      <4>4. QED
        BY <2>1, <4>2, <4>3
    <3>2. QED
      BY <3>1
  <2>7. PICK u \in Blockers(t) : u \in circle
    OBVIOUS
  <2>8. Want(t) \in Locked(u)
    BY <2>2, <2>7 DEF Blockers
  <2>9. PICK i \in 1..(backend[u].next - 1) : Want(t) = call[u].keys[i]
    BY <2>8 DEF Locked, LockOrder
  <2>10. backend[u].next \in DOMAIN call[u].keys /\ call[u].keys \in Seq(TaskIDs)
    BY <2>2, <2>7, SessionFacts DEF Calls
  <2>11. i \in DOMAIN call[u].keys /\ i < backend[u].next
    BY <2>9, <2>10
  <2>12. rank[Want(t)] < rank[Want(u)]
    BY <2>7, <2>9, <2>10, <2>11 DEF Want
  <2>13. rank[Want(u)] <= rank[Want(t)] /\ rank[Want(t)] \in Nat /\ rank[Want(u)] \in Nat
    BY <2>1, <2>2, <2>6, <2>7
  <2>14. QED
    BY <2>12, <2>13
<1>2. QED
  BY <1>1, GatewayInvariance, PTL

-----------------------------------------------------------------------------
(* The store keeps the contract of TaskStore.                              *)

\* The fields of what the contract knows of a call.
LEMMA TaskCallFields ==
  ASSUME NEW c, NEW b
  PROVE  /\ TaskCall(c, b).op = c.op /\ TaskCall(c, b).ids = ToSet(c.keys)
         /\ TaskCall(c, b).resp = IF c.op = "save" \/ c.place \in {"ok", "notfound"}
                                  THEN c.resp ELSE b.got
         /\ TaskCall(c, b).effect = IF b.state = "done" THEN "done" ELSE "due"
         /\ TaskCall(c, b).answer = IF c.place \in {"ok", "notfound"} THEN "ok"
                                    ELSE IF c.place = "err" THEN "err" ELSE NONE
BY DEF TaskCall

\* A step of one session changes the contract's view of that session.
LEMMA TaskCallsStep ==
  ASSUME GatewayInv, GatewayInv', NEW s \in Sessions,
         \A t \in Sessions \ {s} : call'[t] = call[t] /\ backend'[t] = backend[t]
  PROVE  /\ TaskCalls[s] = TaskCall(call[s], backend[s])
         /\ TaskCalls'[s] = TaskCall(call'[s], backend'[s])
         /\ \A v : v = TaskCalls'[s] => TaskCalls' = [TaskCalls EXCEPT ![s] = v]
BY DEF TaskCalls

\* Nothing that the contract knows of is changed.
LEMMA Stutters ==
  ASSUME GatewayInv, GatewayInv', NEW s \in Sessions, rows' = rows,
         \A t \in Sessions \ {s} : call'[t] = call[t] /\ backend'[t] = backend[t],
         call'[s].op = call[s].op, call'[s].keys = call[s].keys,
         call'[s].resp = call[s].resp, backend'[s].got = backend[s].got,
         backend'[s].state = "done" <=> backend[s].state = "done",
         \/ call'[s].place = call[s].place
         \/ call[s].place \in {"idle", "pool", "sent"}
            /\ call'[s].place \in {"idle", "pool", "sent"}
  PROVE  UNCHANGED TS!vars
<1>1. TaskCall(call'[s], backend'[s]) = TaskCall(call[s], backend[s])
  BY DEF TaskCall
<1>2. TaskCalls' = TaskCalls
  BY <1>1 DEF TaskCalls
<1>3. QED
  BY <1>2 DEF TS!vars

\* Save and Load are the contract's calls.
LEMMA CallSimulated ==
  ASSUME GatewayInv, GatewayInv', NEW s \in Sessions, call[s].op = "none",
         call'[s].op \in {"save", "load"}, call'[s].place \in {"pool", "err"},
         call' = [call EXCEPT ![s] = call'[s]], backend' = backend, rows' = rows
  PROVE  TS!Call(s)
<1>1. call[s] = NotCalled /\ backend[s] = NotRunning
  BY NotCalledFacts
<1>2. call'[s] \in Calls /\ SidesOK(s, call'[s], backend'[s])
  BY DEF GatewayInv, StoreInv, StoreTypeOK
<1>3. \A t \in Sessions \ {s} : call'[t] = call[t] /\ backend'[t] = backend[t]
  BY SessionFacts
<1>4. /\ TaskCalls[s] = TaskCall(call[s], backend[s])
      /\ TaskCalls'[s] = TaskCall(call'[s], backend'[s])
      /\ TaskCalls' = [TaskCalls EXCEPT ![s] = TaskCalls'[s]]
  BY <1>3, TaskCallsStep
<1>5. TaskCalls[s] = TS!NoCall
  <2>1. ToSet(<<>>) = {}
    BY DEF ToSet
  <2>2. /\ call[s].op = "none" /\ call[s].keys = <<>> /\ call[s].place = "idle"
        /\ backend[s].got = NONE /\ backend[s].state = "none"
    BY <1>1 DEF NotCalled, NotRunning
  <2>3. TaskCall(call[s], backend[s]) =
          [op |-> "none", ids |-> {}, resp |-> NONE, effect |-> "due", answer |-> NONE]
    BY <2>1, <2>2 DEF TaskCall
  <2>4. QED
    BY <1>4, <2>3 DEF TS!NoCall
<1>6. TaskCalls'[s] \in TS!NewCalls
  <2> DEFINE c == call'[s]
             n == TaskCall(c, backend'[s])
  <2>1. /\ n = [op |-> n.op, ids |-> n.ids, resp |-> n.resp, effect |-> n.effect,
                answer |-> n.answer]
        /\ n.op = c.op /\ n.ids = ToSet(c.keys)
        /\ n.effect = "due" /\ n.answer \in {NONE, "err"}
        /\ n.resp = IF c.op = "save" THEN c.resp ELSE NONE
    BY <1>1 DEF TaskCall, NotRunning
  <2>2. c.keys \in Seq(TaskIDs) /\ c.keys # <<>>
    BY <1>2 DEF SidesOK, Calls
  <2>3. ToSet(c.keys) \in SUBSET TaskIDs /\ c.keys[1] \in ToSet(c.keys)
    BY <2>2 DEF ToSet
  <2>4. CASE c.op = "save"
    <3>1. n.resp \in TaskResponses
      BY <1>2, <2>1, <2>4 DEF SidesOK
    <3>2. n.ids \in (SUBSET TaskIDs) \ {{}}
      <4>1. n.ids \in SUBSET TaskIDs /\ n.ids # {}
        BY <2>1, <2>3
      <4> HIDE DEF n
      <4>2. QED
        BY <4>1, Zenon
    <3> HIDE DEF n
    <3>3. n \in [op : {"save"}, ids : (SUBSET TaskIDs) \ {{}}, resp : TaskResponses,
                 effect : {"due"}, answer : {NONE, "err"}]
      BY <2>1, <2>4, <3>1, <3>2
    <3>4. QED
      BY <1>4, <3>3 DEF TS!NewCalls, n
  <2>5. CASE c.op = "load"
    <3>1. Len(c.keys) = 1
      BY <1>2, <2>5 DEF SidesOK
    <3>2. ToSet(c.keys) = {c.keys[1]} /\ c.keys[1] \in TaskIDs
      BY <2>2, <3>1 DEF ToSet
    <3>3. n.ids \in {{id} : id \in TaskIDs}
      BY <2>1, <3>2
    <3> HIDE DEF n
    <3>4. n \in [op : {"load"}, ids : {{id} : id \in TaskIDs}, resp : {NONE},
                 effect : {"due"}, answer : {NONE, "err"}]
      BY <2>1, <2>5, <3>3
    <3>5. QED
      BY <1>4, <3>4 DEF TS!NewCalls, n
  <2>6. QED
    BY <2>4, <2>5
<1>7. QED
  BY <1>4, <1>5, <1>6 DEF TS!Call

\* A caller that learns how its call has ended.
LEMMA AnswerSimulated ==
  ASSUME GatewayInv, GatewayInv', NEW s \in Sessions, backend' = backend, rows' = rows,
         call[s].place \in {"pool", "sent"},
         call' = [call EXCEPT ![s] = call'[s]],
         call'[s].op = call[s].op, call'[s].keys = call[s].keys,
         \/ call'[s].place = "err" /\ call'[s].resp = call[s].resp
         \/ /\ call'[s].place \in {"ok", "notfound"} /\ backend[s].state = "done"
            /\ call'[s].resp = IF call[s].op = "save" THEN call[s].resp
                               ELSE backend[s].got
  PROVE  TS!Answer(s)
<1>1. \A t \in Sessions \ {s} : call'[t] = call[t] /\ backend'[t] = backend[t]
  BY SessionFacts
<1>2. /\ TaskCalls[s] = TaskCall(call[s], backend[s])
      /\ TaskCalls'[s] = TaskCall(call'[s], backend[s])
      /\ TaskCalls' = [TaskCalls EXCEPT ![s] = TaskCalls'[s]]
  BY <1>1, TaskCallsStep
<1>3. call[s].op # "none"
  BY SessionFacts DEF SidesOK, NotCalled
<1>4. TaskCalls[s].op # "none" /\ TaskCalls[s].answer = NONE
  BY <1>2, <1>3, TaskCallFields
<1>5. TaskCalls'[s].answer \in IF TaskCalls[s].effect = "done" THEN {"ok", "err"} ELSE {"err"}
  BY <1>2, TaskCallFields
<1>6. TaskCalls'[s] = [TaskCalls[s] EXCEPT !.answer = TaskCalls'[s].answer]
  BY <1>2 DEF TaskCall
<1>7. TaskCalls' = [TaskCalls EXCEPT ![s].answer = TaskCalls'[s].answer]
  BY <1>2, <1>6
<1>8. QED
  BY <1>4, <1>5, <1>7 DEF TS!Answer

\* The commit of the upsert is where a Save takes effect, on all IDs.
LEMMA CommitSimulated ==
  ASSUME GatewayInv, GatewayInv', NEW s \in Sessions, Commit(s)
  PROVE  TS!Store(s)
<1>1. /\ call[s].op = "save" /\ backend[s].state = "run" /\ call' = call
      /\ backend' = [backend EXCEPT ![s].state = "done"]
  BY DEF Commit, Running
<1>2. /\ backend'[s] = [backend[s] EXCEPT !.state = "done"]
      /\ \A t \in Sessions \ {s} : call'[t] = call[t] /\ backend'[t] = backend[t]
  BY <1>1, SessionFacts
<1>3. /\ TaskCalls[s] = TaskCall(call[s], backend[s])
      /\ TaskCalls'[s] = TaskCall(call[s], backend'[s])
      /\ TaskCalls' = [TaskCalls EXCEPT ![s] = TaskCalls'[s]]
  BY <1>1, <1>2, TaskCallsStep
<1>4. backend'[s].state = "done" /\ backend[s] \in Backends
  BY <1>2, SessionFacts DEF Backends
<1>5. /\ TaskCalls[s].op = "save" /\ TaskCalls[s].effect = "due"
      /\ TaskCalls[s].ids = ToSet(call[s].keys) /\ TaskCalls[s].resp = call[s].resp
  BY <1>1, <1>3, TaskCallFields
<1>6. TaskCalls'[s] = [TaskCalls[s] EXCEPT !.effect = "done"]
  BY <1>1, <1>3, <1>4 DEF TaskCall
<1>7. \A id : Contains(call[s].keys, id) <=> id \in ToSet(call[s].keys)
  <2>1. call[s].keys \in Seq(TaskIDs)
    BY SessionFacts DEF Calls
  <2>2. QED
    BY <2>1 DEF Contains, ToSet
<1>8. rows' = [id \in TaskIDs |-> IF id \in TaskCalls[s].ids THEN TaskCalls[s].resp
                                  ELSE rows[id]]
  BY <1>5, <1>7 DEF Commit
<1>9. TaskCalls' = [TaskCalls EXCEPT ![s].effect = "done"]
  BY <1>3, <1>6
<1>10. QED
  BY <1>5, <1>8, <1>9 DEF TS!Store

\* The SELECT is where a Load takes effect.
LEMMA ReadSimulated ==
  ASSUME GatewayInv, GatewayInv', NEW s \in Sessions, Read(s)
  PROVE  TS!Fetch(s)
<1> DEFINE id == call[s].keys[1]
<1>1. call[s].op = "load" /\ backend[s].state = "run" /\ call' = call /\ rows' = rows
  BY DEF Read, Running
<1>2. /\ backend'[s].state = "done" /\ backend'[s].got = rows[id]
      /\ \A t \in Sessions \ {s} : call'[t] = call[t] /\ backend'[t] = backend[t]
  BY SessionFacts DEF Read, Backends
<1>3. /\ TaskCalls[s] = TaskCall(call[s], backend[s])
      /\ TaskCalls'[s] = TaskCall(call[s], backend'[s])
      /\ TaskCalls' = [TaskCalls EXCEPT ![s] = TaskCalls'[s]]
  BY <1>1, <1>2, TaskCallsStep
<1>4. /\ TaskCalls[s].op = "load" /\ TaskCalls[s].effect = "due"
      /\ TaskCalls[s].ids = ToSet(call[s].keys)
  BY <1>1, <1>3, TaskCallFields
<1>5. call[s].place \notin {"ok", "notfound"} /\ Len(call[s].keys) = 1
  BY <1>1, SessionFacts DEF SidesOK
<1>6. id \in ToSet(call[s].keys)
  <2>1. call[s].keys \in Seq(TaskIDs)
    BY SessionFacts DEF Calls
  <2>2. QED
    BY <1>5, <2>1 DEF ToSet
<1>7. TaskCalls'[s] = [TaskCalls[s] EXCEPT !.effect = "done", !.resp = rows[id]]
  <2> DEFINE old == TaskCall(call[s], backend[s])
             View(resp, effect) ==
               [op |-> call[s].op, ids |-> ToSet(call[s].keys), resp |-> resp,
                effect |-> effect, answer |-> old.answer]
             taken == [old EXCEPT !.effect = "done"]
  <2>1. old = View(old.resp, old.effect)
    BY DEF TaskCall
  <2>2. TaskCall(call[s], backend'[s]) = View(rows[id], "done")
    BY <1>1, <1>2, <1>5 DEF TaskCall
  <2> HIDE DEF old, id
  <2>3. taken = View(old.resp, "done")
    BY <2>1
  <2> HIDE DEF taken
  <2>4. [taken EXCEPT !.resp = rows[id]] = View(rows[id], "done")
    BY <2>3
  <2>5. TaskCalls[s] = old /\ TaskCalls'[s] = View(rows[id], "done")
    BY <1>3, <2>2 DEF old
  <2> HIDE DEF View
  <2>6. QED
    BY <2>4, <2>5 DEF taken
<1>8. TaskCalls' = [TaskCalls EXCEPT ![s].effect = "done", ![s].resp = rows[id]]
  BY <1>3, <1>7
<1> HIDE DEF id
<1>9. QED
  BY <1>1, <1>4, <1>6, <1>8 DEF TS!Fetch

\* The steps of a call, and what they are to the contract.
LEMMA ProceedsSimulated ==
  ASSUME GatewayInv, GatewayInv', NEW s \in Sessions, CallProceeds(s) \/ CallBreaks(s)
  PROVE  TS!Next \/ UNCHANGED TS!vars
<1>1. /\ call \in [Sessions -> Calls] /\ backend \in [Sessions -> Backends]
      /\ call[s] \in Calls /\ backend[s] \in Backends
      /\ SidesOK(s, call[s], backend[s])
  BY SessionFacts
<1>2. CASE Acquire(s)
  <2>1. /\ call' = [call EXCEPT ![s].place = "sent"]
        /\ backend' = [backend EXCEPT ![s].state = "run"]
        /\ rows' = rows /\ call[s].place = "pool"
    BY <1>2 DEF Acquire
  <2>2. backend[s].state = "none"
    BY <1>1, <2>1 DEF SidesOK
  <2>3. /\ call'[s].op = call[s].op /\ call'[s].keys = call[s].keys
        /\ call'[s].resp = call[s].resp /\ call'[s].place = "sent"
        /\ backend'[s].got = backend[s].got /\ backend'[s].state = "run"
        /\ \A t \in Sessions \ {s} : call'[t] = call[t] /\ backend'[t] = backend[t]
    BY <1>1, <2>1 DEF Calls, Backends
  <2>4. QED
    BY <2>1, <2>2, <2>3, Stutters
<1>3. ASSUME Fails(s), backend' = backend, rows' = rows, call[s].place \in {"pool", "sent"}
      PROVE  TS!Next
  <2>1. /\ call'[s].op = call[s].op /\ call'[s].keys = call[s].keys
        /\ call'[s].resp = call[s].resp /\ call'[s].place = "err"
        /\ call' = [call EXCEPT ![s] = call'[s]]
    BY <1>1, <1>3 DEF Fails, Calls
  <2>2. TS!Answer(s)
    BY <1>3, <2>1, AnswerSimulated
  <2>3. QED
    BY <2>2 DEF TS!Next
<1>4. CASE PoolFails(s) \/ Abandon(s) \/ ConnectionLost(s)
  BY <1>3, <1>4 DEF PoolFails, Abandon, ConnectionLost
<1>5. CASE Receive(s)
  <2>1. call[s].place = "sent" /\ backend' = backend /\ rows' = rows
    BY <1>5 DEF Receive
  <2>2. CASE Fails(s)
    BY <1>3, <2>1, <2>2
  <2>3. CASE /\ backend[s].state = "done" /\ call[s].op = "save"
             /\ call' = [call EXCEPT ![s].place = "ok"]
    <3>1. /\ call'[s].op = call[s].op /\ call'[s].keys = call[s].keys
          /\ call'[s].resp = call[s].resp /\ call'[s].place = "ok"
          /\ call' = [call EXCEPT ![s] = call'[s]]
      BY <1>1, <2>3 DEF Calls
    <3>2. TS!Answer(s)
      BY <2>1, <2>3, <3>1, AnswerSimulated
    <3>3. QED
      BY <3>2 DEF TS!Next
  <2>4. CASE /\ backend[s].state = "done" /\ call[s].op = "load"
             /\ call' = [call EXCEPT ![s].resp = backend[s].got,
                                     ![s].place = IF backend[s].got = NONE
                                                  THEN "notfound" ELSE "ok"]
    <3>1. /\ call'[s].op = call[s].op /\ call'[s].keys = call[s].keys
          /\ call'[s].resp = backend[s].got /\ call'[s].place \in {"ok", "notfound"}
      BY <1>1, <2>4 DEF Calls
    <3>2. call' = [call EXCEPT ![s] = call'[s]]
      BY <1>1, <2>4
    <3>3. backend[s].state = "done" /\ call[s].op = "load"
      BY <2>4
    <3>4. TS!Answer(s)
      BY <2>1, <3>1, <3>2, <3>3, AnswerSimulated
    <3>5. QED
      BY <3>4 DEF TS!Next
  <2>5. QED
    BY <1>5, <2>2, <2>3, <2>4 DEF Receive
<1>6. CASE LockRow(s)
  <2>1. /\ backend' = [backend EXCEPT ![s].next = @ + 1]
        /\ call' = call /\ rows' = rows
    BY <1>6 DEF LockRow
  <2>2. /\ backend'[s].got = backend[s].got /\ backend'[s].state = backend[s].state
        /\ \A t \in Sessions \ {s} : backend'[t] = backend[t]
    BY <1>1, <2>1 DEF Backends
  <2>3. QED
    BY <2>1, <2>2, Stutters
<1>7. CASE Commit(s)
  BY <1>7, CommitSimulated DEF TS!Next
<1>8. CASE Read(s)
  BY <1>8, ReadSimulated DEF TS!Next
<1>9. ASSUME Aborts(s), backend[s].state = "run" PROVE UNCHANGED TS!vars
  <2>1. /\ backend' = [backend EXCEPT ![s].state = "aborted"]
        /\ call' = call /\ rows' = rows
    BY <1>9 DEF Aborts
  <2>2. /\ backend'[s].got = backend[s].got /\ backend'[s].state = "aborted"
        /\ \A t \in Sessions \ {s} : backend'[t] = backend[t]
    BY <1>1, <2>1 DEF Backends
  <2>3. QED
    BY <1>9, <2>1, <2>2, Stutters
<1>10. CASE DeadlockDetected(s)
  <2>1. backend[s].state = "run"
    BY <1>10, WaitsIsRunning DEF DeadlockDetected, InDeadlock
  <2>2. QED
    BY <1>9, <1>10, <2>1 DEF DeadlockDetected
<1>11. CASE CancelArrives(s) \/ StatementFails(s)
  BY <1>9, <1>11 DEF CancelArrives, StatementFails
<1>12. QED
  BY <1>2, <1>4, <1>5, <1>6, <1>7, <1>8, <1>10, <1>11 DEF CallProceeds, CallBreaks

\* Every step of the requests and the store is a step of the contract or none.
LEMMA NextSimulated ==
  ASSUME GatewayInv, GatewayInv', [GatewayNext]_gatewayVars
  PROVE  [TS!Next]_(TS!vars)
<1>1. ASSUME call' = call, backend' = backend, rows' = rows PROVE UNCHANGED TS!vars
  BY <1>1 DEF TS!vars, TaskCalls
<1>2. CASE UNCHANGED gatewayVars
  BY <1>1, <1>2 DEF gatewayVars, storeVars
<1>3. ASSUME NEW r \in Sessions, Arrives(r) PROVE TS!Next \/ UNCHANGED TS!vars
  <2>1. PICK q \in Requests[r] : Refuse(r, q) \/ AdmitTask(r, q) \/ GetTask(r, q)
    BY <1>3 DEF Arrives
  <2>2. CASE Refuse(r, q) \/ AdmitTask(r, q)
    BY <1>1, <2>2 DEF Refuse, AdmitTask, storeVars
  <2>3. CASE GetTask(r, q)
    <3>1. call[r].op = "none"
      BY <2>3, SessionFacts DEF GetTask, HandlerOK
    <3>2. call \in [Sessions -> Calls]
      BY SessionFacts
    <3>3. /\ call'[r].op = "load" /\ call'[r].place \in {"pool", "err"}
          /\ call' = [call EXCEPT ![r] = call'[r]] /\ backend' = backend /\ rows' = rows
      BY <2>3, <3>2 DEF GetTask, Load, Admitted
    <3>4. TS!Call(r)
      BY <3>1, <3>3, CallSimulated
    <3>5. QED
      BY <3>4 DEF TS!Next
  <2>4. QED
    BY <2>1, <2>2, <2>3
<1>4. ASSUME NEW r \in Sessions, Handles(r) PROVE TS!Next \/ UNCHANGED TS!vars
  <2>1. CASE DispatchFails(r) \/ Panic(r) \/ SaveReturns(r) \/ LoadReturns(r)
    BY <1>1, <2>1 DEF DispatchFails, Panic, SaveReturns, LoadReturns, storeVars
  <2>2. CASE DispatchSucceeds(r)
    <3>1. call[r].op = "none"
      BY <2>2, SessionFacts DEF DispatchSucceeds, HandlerOK
    <3>2. call \in [Sessions -> Calls]
      BY SessionFacts
    <3>3. PICK id, resp, aliases : Save(r, id, resp, aliases)
      BY <2>2 DEF DispatchSucceeds
    <3>4. /\ call'[r].op = "save" /\ call'[r].place \in {"pool", "err"}
          /\ call' = [call EXCEPT ![r] = call'[r]] /\ backend' = backend /\ rows' = rows
      BY <3>2, <3>3 DEF Save, Admitted
    <3>5. TS!Call(r)
      BY <3>1, <3>4, CallSimulated
    <3>6. QED
      BY <3>5 DEF TS!Next
  <2>3. QED
    BY <1>4, <2>1, <2>2 DEF Handles
<1>5. ASSUME NEW r \in Sessions, StoreProceeds(r) \/ StoreBreaks(r)
      PROVE  TS!Next \/ UNCHANGED TS!vars
  BY <1>5, ProceedsSimulated DEF StoreProceeds, StoreBreaks
<1>6. ASSUME NEW r \in Sessions, ClientLeaves(r) PROVE UNCHANGED TS!vars
  BY <1>1, <1>6 DEF ClientLeaves, ContextDone
<1>7. CASE StoreCloses
  BY <1>1, <1>7 DEF StoreCloses, Close
<1>8. QED
  BY <1>2, <1>3, <1>4, <1>5, <1>6, <1>7 DEF GatewayNext

\* The empty table is the empty store.
LEMMA InitSimulated == GatewayInit => TS!Init
<1> SUFFICES ASSUME GatewayInit PROVE TS!Init
  OBVIOUS
<1>1. /\ \A s \in Sessions : call[s] = NotCalled /\ backend[s] = NotRunning
      /\ rows = [id \in TaskIDs |-> NONE]
  BY DEF GatewayInit, StoreInit
<1>2. ToSet(<<>>) = {}
  BY DEF ToSet
<1>3. TaskCall(NotCalled, NotRunning) = TS!NoCall
  BY <1>2 DEF TaskCall, NotCalled, NotRunning, TS!NoCall
<1>4. TaskCalls = [s \in Sessions |-> TS!NoCall]
  BY <1>1, <1>3 DEF TaskCalls
<1>5. QED
  BY <1>1, <1>4 DEF TS!Init

\* The PostgreSQL store under the gateway's requests implements the contract
\* of storage.TaskStore: upserts that lock row by row, aborts, lost answers and
\* callers that give up are steps of the contract or none of its business.
THEOREM StoreKeepsContract == GatewaySpec => ImplementsTaskStore
<1>1. GatewayInv /\ GatewayInv' /\ [GatewayNext]_gatewayVars => [TS!Next]_(TS!vars)
  BY NextSimulated
<1>2. QED
  BY <1>1, InitSimulated, GatewayInvariance, PTL
     DEF GatewaySpec, ImplementsTaskStore, TS!Spec
=============================================================================
